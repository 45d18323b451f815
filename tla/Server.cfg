CONSTANTS
  c1 = c1 c2 = c2 c3 = c3
  NoClient = NoClient
  Threads = 2
  Backlog = 2
  Tasks <- ThreeClients
  Patient <- OnePatient
  Modes <- SomeModes
SPECIFICATION ServerFairSpec
INVARIANTS TypeOK NoSessionAfterDelete OneHolder
PROPERTIES AcceptedIsServed SignalEndsServer
CHECK_DEADLOCK FALSE
