\* Two threads, three requests in all, one crash.
CONSTANTS
  Threads = {a, b}
  Pids = {p1, p2, p3}
  Models = {qwen, bonsai}
  Default = qwen
  NoModel = NoModel
  NoThread = NoThread
  MaxRequests = 3
  MaxCrashes = 1
SPECIFICATION FairSpec
INVARIANTS
  TypeOK
  OneServer
  LastOrderStands
  PortIsFree
PROPERTIES
  RequestsEnd
CHECK_DEADLOCK FALSE
