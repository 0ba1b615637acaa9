SPECIFICATION Spec
CONSTANTS
  none = none
  me = me
  app = app
  near = near
  far = far
  c1 = c1
  c2 = c2
  home = home
  hop1 = hop1
  hop2 = hop2
  n1 = n1
  n2 = n2
  Eids <- MCEids
  defaultEid = none
  Clas = {c1, c2}
  NoCla = NoCla
  Addresses = {home, hop1, hop2}
  NoAddress = NoAddress
  Notes = {n1, n2}
  ClaSeq <- OneCla
  Transport <- AllTcp
  Port <- MCPort
  InitRoutes <- HomeRoutes
  DefaultPort = 4556
  LocalEids = {me, app}
  Sources = {app}
  Destinations = {near, far}
  NewRoutes <- RemoteRoutes
  MaxSockets = 0
  MaxRoutes = 2
INVARIANT SentToItsAddress
CHECK_DEADLOCK FALSE
