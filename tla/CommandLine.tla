------------------------------ MODULE CommandLine ------------------------------
(***************************************************************************)
(* The command lines of the three clients, __main__.py, cli.js and         *)
(* main.rs, run on the record in front of the verifiers: they read a file  *)
(* and a key in hex, print what the client answers, and exit with a code.  *)
(***************************************************************************)
EXTENDS Provetrail

\* A key as text: its digits, the same with spaces between them or with something
\* after them that is no digit, or no digits at all.
KeyText == [form : {"hex", "spaced", "trailed", "garbage"}, key : AnyKey]

Command == [arguments : {1, 2}, readable : BOOLEAN, text : KeyText]

Output(says, exit) == [says |-> says, exit |-> exit]

\* What is printed of a client's answer; an exception that nobody catches ends
\* the process with 1 as well.
Answer(verdict) ==
  CASE verdict = OK       -> Output("VERIFIED", 0)
    [] verdict = Uncaught -> Output("nothing", 1)
    [] OTHER              -> Output("NOT VERIFIED", 1)
-------------------------------------------------------------------------------
(* The key that each reads, NoKey if it complains of the text.             *)

\* bytes.fromhex skips spaces, and verify_run is left to judge the length.
PyReads(text) == IF text.form \in {"hex", "spaced"} THEN text.key ELSE NoKey

\* Mutant of JsReads: the length of what was read is left to verifyRun.
JsReadsAnything(text) ==
  IF text.form \in {"hex", "trailed"} THEN text.key ELSE CHOOSE k \in ShortKey : TRUE

\* Buffer.from drops the first thing that is no digit, and all that follows.
JsReads(text) ==
  IF text.form \in {"hex", "trailed"} /\ text.key \in Key THEN text.key ELSE NoKey

\* hex::decode accepts digits only.
RustReads(text) == IF text.form = "hex" /\ text.key \in Key THEN text.key ELSE NoKey

Reads(client, text) ==
  CASE client = "python" -> PyReads(text)
    [] client = "js"     -> JsReads(text)
    [] client = "rust"   -> RustReads(text)
-------------------------------------------------------------------------------
\* A file that cannot be read is an error of usage to the Rust tool only.
Tool(client, command) ==
  LET key == Reads(client, command.text)
  IN  IF command.arguments # 2 THEN Output("nothing", 2)
      ELSE IF ~command.readable THEN Output("nothing", IF client = "rust" THEN 2 ELSE 1)
      ELSE IF key = NoKey THEN Output("nothing", 2)
      ELSE Answer(Verdict(client, wire, Single(key)))
-------------------------------------------------------------------------------
\* However its key is spelled, no record whose framing all clients read alike is
\* verified by one tool and refused by another, and under a key in proper hex the
\* three print the same and exit alike.
ToolsAgree ==
  PlainFraming(wire.cose) =>
    \A command \in Command :
      LET outs == {Tool(c, command) : c \in Client}
      IN  /\ ~ {"VERIFIED", "NOT VERIFIED"} \subseteq {out.says : out \in outs}
          /\ /\ command.arguments = 2 /\ command.readable
             /\ command.text.form = "hex" /\ command.text.key \in Key
             => \E out \in outs : outs = {out}
===============================================================================
