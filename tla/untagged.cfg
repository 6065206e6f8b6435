SPECIFICATION FairSpec
CONSTANTS
  Registry = "crate"
  Job = {suite, client}
  suite = suite
  client = client
  Answers = {"current", "unreachable"}
  RerunKinds = {}
  AnyRef = FALSE
  MaxCommit = 2
  MaxVersion = 1
PROPERTIES
  ServedIsTagged
CHECK_DEADLOCK FALSE
