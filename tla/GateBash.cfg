SPECIFICATION Spec
CONSTANTS
  c1 = c1
  c2 = c2
  verify = verify
  push = push
  lint = lint
  script = script
  Edit = Edit
  Calls = {c1, c2}
  Cmds = {verify, push, lint, script}
  BaseOf <- Keys
  Rejected = {lint}
  Destructive = {push, script}
  Mutating = {push, script}
  Watchers = {}
  MaxSeq = 1
  None = None
CHECK_DEADLOCK FALSE
INVARIANTS
  TypeOK
  RerunBlockJustified
  ApprovalUnblocks
PROPERTY UnapprovedNeverRuns
