\* Two proposals, three commits between them, merged in any order.
SPECIFICATION Spec
CONSTANTS
  fa = fa
  fb = fb
  fc = fc
  alias = alias
  File = {fa, fb, fc}
  Path = {fa, fb, fc, alias}
  FileOf <- FileOfPath
  NameOf <- NameOfFile
  Client = {"python", "js", "rust"}
  Judged <- ClientJudges
  Matches <- Conforming
  Code = {"size", "root", "gov"}
  Doc = {"SPEC", "CITATION", "predicate"}
  Predicate = {"predicate"}
  Absent = Absent
  None = None
  First <- FirstTree
  Changes <- Commits
  ann = ann
  bob = bob
  Author = {ann, bob}
  MaxCommits = 3
SYMMETRY Authors
INVARIANTS
  ReleasedDemands
  ReleasedOneVersion
  OrderIsIrrelevant
PROPERTIES
  FreshMergeIsGreen
CHECK_DEADLOCK FALSE
