SPECIFICATION FilesSpec
CONSTANTS
  Updates = {c1, c2, c3}
  Kinds = {"inbound", "sent", "distilled", "note", "delegation", "compact"}
  Labels = {l1, l2}
  Cap = 1
  Slips = {"read", "write", "llm"}
  MaxSlips = 2
  Nobody = Nobody
  Writers = {c1, c2, c3}
  Topics = {n1, n2, n3}
  Deeds = {"put", "delete", "rename", "fact", "provision"}
  Troubles = {"read", "write"}
  MaxTroubles = 2
  Clients = {c1, c2, c3}
  Errands = {"create", "tool", "patch", "rename", "delete", "cleanup", "config"}
  Flaws = {"exists", "write", "list", "delete"}
  MaxFlaws = 2
  NoClient = NoClient
  Writes = {1, 2, 3, 4}
  KeyOf <- MCKeyOf
  TargetOf <- MCTargetOf
  Nodes = {"node"}
  Workers = {w1, w2}
  Limit = 2
  MaxRetries = 1
  Mishaps = {"insert", "list", "read", "write", "mark", "delete", "crash"}
  MaxMishaps = 2
SYMMETRY Symmetry
INVARIANTS
  IndexMatchesTopics
  HistoryWhole
  TypesOK
  AppliedOnce
PROPERTIES
  KeepsNotes
  FactsKept
\* Every call ends.
CHECK_DEADLOCK FALSE
