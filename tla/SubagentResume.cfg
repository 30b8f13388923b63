SPECIFICATION Spec
CONSTANTS
  scout = scout
  worker = worker
  MaxLaunches = 3
  Agents = {scout, worker}
  Permitted = {scout, worker}
  Self = worker
  Given <- SecondName
  MaxLost = 1
  None = None
CHECK_DEADLOCK FALSE
INVARIANT OneProcessPerSession
