SPECIFICATION Spec
CONSTANTS
  u1 = u1
  u2 = u2
  e1 = e1
  Jobs = {1, 2}
  Users = {u1}
  Owner <- OneOwner
  Files = {f1, f2}
  NoFile = NoFile
  Horizon = 2
  RetryCap = 2
  Faulty <- AllOps
  Engines = {e1}
  Engine <- OneEngine
  MaxInFlight = 1
  ScanLimit = 1
  QueueBudget = 1
  RunBudget <- RunOne
  YoungFor = 1
  PollFast = 0
  PollSlow = 1
  SubmitBackoff = 1
  MaxSubmitBackoff = 2
  MaxTransient = 1
  MaxStoreRetries = 2
INVARIANTS TypeOK BilledOnce ActiveIsBilled SucceededHasSong SongHasAudio
PROPERTIES RunClockStands
SYMMETRY FileSymmetry
