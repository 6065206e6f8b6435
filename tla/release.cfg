SPECIFICATION Spec
CONSTANTS
  Registry = "npm"
  Job = {client}
  suite = suite
  client = client
  Answers = {"current", "stale", "unreachable"}
  RerunKinds = {"all", "failed"}
  AnyRef = TRUE
  MaxCommit = 2
  MaxVersion = 1
INVARIANTS
  TypeOK
  ServedIsConformant
  TagNamesSource
CHECK_DEADLOCK FALSE
