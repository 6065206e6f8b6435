\* One proposal of one commit.
SPECIFICATION Spec
CONSTANTS
  fa = fa
  fb = fb
  fc = fc
  alias = alias
  File = {fa, fb, fc}
  Path = {fa, fb, fc, alias}
  FileOf <- FileOfPath
  NameOf <- NameOfFile
  Client = {"python", "js", "rust"}
  Judged <- ClientJudges
  Matches <- Conforming
  Code = {"size", "root", "gov"}
  Doc = {"SPEC", "CITATION", "predicate"}
  Predicate = {"predicate"}
  Absent = Absent
  None = None
  First <- FirstTree
  Changes <- Commits
  ann = ann
  bob = bob
  Author = {ann}
  MaxCommits = 1
INVARIANTS
  PinsAreExact
CHECK_DEADLOCK FALSE
