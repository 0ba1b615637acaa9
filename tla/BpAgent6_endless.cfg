SPECIFICATION FairSpec
CONSTANTS
  none = none
  me = me
  app = app
  peer = peer
  link = link
  Eids <- MCEids
  defaultEid = none
  Self = me
  LocalEids = {me}
  Clas = {link}
  NoCla = NoCla
  NoBundle = NoBundle
  AppData = AppData
  Refs = {r1, r2}
  BundleSize = 1
  Routes <- TimerRoutes
  Messages <- TimerMessages
  Arrivals <- NoArrivals
  MaxSeq = 1
PROPERTY RetransmissionsEnd
CHECK_DEADLOCK FALSE
