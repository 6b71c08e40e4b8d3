SPECIFICATION Spec
CONSTANTS
  ProcessRestarts = 1
  Faults = {"exit", "start", "slow", "quit", "request", "intake", "keychain", "retention", "refusal"}
  MaxFaults = 2
  Issues = {i1, i2}
  Later = {i2}
  MaxRevision = 3
  MaxMoves = 2
  Keys = {k1, k2}
  MaxSaves = 3
  Groups = {1, 2}
  MaxPages = 2
  MaxEvents = 3
  Busy = {1}
  Messages = {m1, m2}
  Refused = {m2}
  Deliveries = 2
  Scenarios = {"window", "settings", "sentry", "dingtalk", "integration", "workspace"}
INVARIANTS TypeOK NothingLost SettingsAtomic FormTruthful
PROPERTIES RowsNeverGoBack RowsCatchUp EventsDelivered
CHECK_DEADLOCK FALSE
