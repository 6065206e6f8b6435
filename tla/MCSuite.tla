-------------------------------- MODULE MCSuite --------------------------------
(***************************************************************************)
(* Instances of Suite: one structural vector and two of kind run to start  *)
(* from, room for a third crypto vector, and commits that add, drop, break, *)
(* reorder, respell and renumber what the gate looks at.                   *)
(***************************************************************************)
EXTENDS Suite, TLC

CONSTANTS fa, fb, fc, alias, ann, bob

Authors == Permutations(Author)

\* fc is the file that is not there at first; alias is a second spelling of fb.
FileOfPath == (fa :> fa @@ fb :> fb @@ fc :> fc @@ alias :> fb)
NameOfFile == [f \in File |-> f]

\* Contents: an event, an intact run, one whose size or root is wrong, and one
\* that a single client refuses.
ClientJudges ==
  [c \in Client |->
     ("event" :> "enc" @@ "intact" :> "ok" @@ "badsize" :> "size" @@ "badroot" :> "root"
        @@ "split" :> (IF c = "rust" THEN "root" ELSE "ok"))]
Conforming == {<<"event", "event">>} \cup ({"intact", "badsize", "badroot"} \X {"sealed-run"})

Vector(id, kind, expect, code, files) ==
  [id |-> id, kind |-> kind, expect |-> expect, code |-> code, files |-> files]
s1 == Vector("s1", None, "accept", None, <<fa>>)
v1 == Vector("v1", "run", "accept", None, <<fa>>)
v2 == Vector("v2", "run", "reject", "size", <<fb>>)
v3 == Vector("v3", "run", "reject", "root", <<fc>>)
v4 == Vector("v4", "governance", "reject", "gov", <<fc>>)
v5 == Vector("v5", "run", "reject", "size", <<fc>>)

Entry(status, ids) == [status |-> status, pinned_by |-> ids]

FirstTree ==
  [s \in Surface |->
     CASE s \in {"suite_version", "header"} \X (Suites \cup Doc) ->
            IF s[2] = "predicate" THEN Absent ELSE 1
       [] s = <<"registry">> -> 1
       [] s = <<"manifest", "structural">> -> <<s1>>
       [] s = <<"manifest", "crypto">> -> <<v1, v2>>
       [] s = <<"file", "structural", fa>> -> "event"
       [] s = <<"file", "crypto", fa>> -> "intact"
       [] s = <<"file", "crypto", fb>> -> "badsize"
       [] s = <<"code", "size">> -> Entry("pinned", <<"v2">>)
       [] s = <<"code", "root">> -> Entry("operational", <<>>)
       [] s \in {<<"mention", "size">>, <<"mention", "root">>} -> TRUE
       [] s = <<"mention", "gov">> -> FALSE
       [] s = <<"scope">> -> [supported |-> {"run", "governance"},
                              unsupported |-> {"checkpoint"}, outside |-> {"gov"}]
       [] s = <<"schema">> -> "published"
       [] OTHER -> Absent]

Set(surface, contents) == {surface :> x : x \in contents}

OneSurface ==
       Set(<<"file", "crypto", fa>>, {"split"})
  \cup Set(<<"file", "crypto", fb>>, {Absent})
  \cup Set(<<"file", "crypto", fc>>, {"badroot"})
  \cup Set(<<"manifest", "structural">>, {Absent})
  \cup Set(<<"manifest", "crypto">>,
           {<<v2, v1>>, <<v1, v2, v3>>, <<v1, v2, [v5 EXCEPT !.id = "v2"]>>, <<v1, [v2 EXCEPT !.code = None]>>,
            <<v1, v2, [v3 EXCEPT !.kind = "event_proof"]>>})
  \cup Set(<<"code", "size">>, {Entry("pinned", <<"v5", "v2">>)})
  \cup Set(<<"code", "root">>, {Entry("pinned", <<"v3">>), Entry("operational", <<"v2">>)})
  \cup Set(<<"header", "SPEC">>, {2, None, Absent})
  \cup Set(<<"header", "predicate">>, {1})
  \cup Set(<<"registry">>, {None, Absent})

\* Commits that keep the gate green: a new code with its vector, a code above the
\* clients' tier, a second vector of a known code, the same on a file that the
\* first has under another spelling, and a new version.
SeveralSurfaces ==
  {(<<"file", "crypto", fc>> :> "badroot") @@ (<<"manifest", "crypto">> :> <<v1, v2, v3>>)
     @@ (<<"code", "root">> :> Entry("pinned", <<"v3">>)),
   (<<"file", "crypto", fc>> :> "intact") @@ (<<"manifest", "crypto">> :> <<v1, v2, v4>>)
     @@ (<<"code", "gov">> :> Entry("pinned", <<"v4">>)) @@ (<<"mention", "gov">> :> TRUE),
   (<<"file", "crypto", fc>> :> "badsize") @@ (<<"manifest", "crypto">> :> <<v1, v2, v5>>)
     @@ (<<"code", "size">> :> Entry("pinned", <<"v2", "v5">>)),
   (<<"manifest", "crypto">> :> <<v1, v2, [v5 EXCEPT !.files = <<alias>>]>>)
     @@ (<<"code", "size">> :> Entry("pinned", <<"v2", "v5">>)),
   [s \in {<<"registry">>} \cup ({"suite_version"} \X Suites)
            \cup ({"header"} \X {"SPEC", "CITATION"}) |-> 2]}

Commits == OneSurface \cup SeveralSurfaces
===============================================================================
