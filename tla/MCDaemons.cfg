\* Eight parts that share no state, one to a behaviour.
CONSTANTS
  Conns = {"app", "cli"}
  Permitted = {"cli"}
  LastRelease = 2
  Phases = 2
  SocketLines = 1
  FeedLines = 1
  AutoApply = "all"
  MaxCalls = 2
  LastSession = 2
  LastRequest = 3
  Scripts <- MCScripts
  Inbound = 1
  Outbound = 1
  PinAttempts = 1
  MaxNotes = 1
  MaxOutages = 1
  Ducks = {1, 2, 3}
  Pieces = {1, 2, 3}
  InRange <- MCRange
  Knows <- MCKnows
  Length = 1
  EndMargin = 1
  LeaveMargin = 2
  LockBeats = 2
  Counts = 6
  Restart = 2
  LastPerformance = 2
  MaxUpsets = 1
  Plain = {"robotd", "padd"}
  LastVersion = 2
  MaxOperations = 2
  MaxFailures = 1
  MaxShocks = 1
  Writers = {"app", "cli"}
  Values = {"a", "b"}
  Unset = "unset"
  MaxWrites = 2
  MaxErrors = 1
  MaxCuts = 1
  Posing = {"head", "body"}
  Deadman = 1
  Hold = 2
  WireLines = 3
  Joiners = {"app", "cli"}
  Ssids = {"home", "cafe"}
  MaxJoins = 2
  MaxJoinFaults = 1
  Askers = {"app", "cli"}
  Pads = {1, 2}
  MaxPairings = 2
  MaxPairFaults = 1
SPECIFICATION DaemonsSpec
CHECK_DEADLOCK FALSE
INVARIANTS
  DaemonsTypeOK
  SubscriberIsCurrent
  NoGarbledLine
  SlotIsNewest
  InStep
  StaleIsExcused
  AnsweredIsKept
  StillWhilePosed
  JoinAnswersTrue
  OneProfile
  BondedIsTrusted
PROPERTIES
  UnattendedNotKnownBad
  StatusIsAnswered
  OperationEnds
  QueryIsAnswered
  SilenceStops
  HeldNotTapped
