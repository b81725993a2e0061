SPECIFICATION Spec
CONSTANTS
  past = past  send = send  stream = stream  other = other  None = None
  Turns = {past, send, stream, other}
  Kinds <- MCKinds
  User <- MCUser
  HistoryMax = 4
  MaxRounds = 2
  Answers <- MCAnswers
  Faults = {"read", "write", "agent", "disconnect"}
  MaxFaults = 1
  MaxActive = 2
INVARIANTS
  WholeExchanges
  
  OfferedOwnTools
  OneTerminalEvent
PROPERTIES
  TurnsEnd
CHECK_DEADLOCK FALSE
