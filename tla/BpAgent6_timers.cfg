SPECIFICATION FairSpec
CONSTANTS
  none = none
  me = me
  app = app
  peer = peer
  link = link
  Eids <- MCEids
  defaultEid = none
  Self = me
  LocalEids = {me}
  Clas = {link}
  NoCla = NoCla
  NoBundle = NoBundle
  AppData = AppData
  Refs = {r1, r2, r3}
  BundleSize = 1
  Routes <- TimerRoutes
  Messages <- TimerMessages
  Arrivals <- TimerArrivals
  MaxSeq = 1
PROPERTIES FiniteLivesEnd CustodyPersists CustodyEnds
CHECK_DEADLOCK FALSE
