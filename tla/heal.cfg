SPECIFICATION FairSpec
CONSTANTS
  Registry = "pypi"
  Job = {suite, client}
  suite = suite
  client = client
  Answers = {"current", "stale", "unreachable"}
  RerunKinds = {}
  AnyRef = FALSE
  MaxCommit = 2
  MaxVersion = 1
INVARIANTS
  ServedInOrder
PROPERTIES
  HeadIsServed
CHECK_DEADLOCK FALSE
