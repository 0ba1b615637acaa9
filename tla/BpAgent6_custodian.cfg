SPECIFICATION Spec
CONSTANTS
  none = none
  me = me
  app = app
  peer = peer
  link = link
  Eids <- MCEids
  defaultEid = none
  Self = me
  LocalEids = {me, app}
  Clas = {link}
  NoCla = NoCla
  NoBundle = NoBundle
  AppData = AppData
  Refs = {r1, r2, r3}
  BundleSize = 2
  Routes <- CustodianRoutes
  Messages <- CustodianMessages
  Arrivals <- CustodianArrivals
  MaxSeq = 2
SYMMETRY RefSymmetry
INVARIANTS TypeOK EventsAreOwned CustodyIsRetried RetentionIsJustified TransmissionIsWhole
PROPERTIES ClaReadyDrains CustodyIsKept
CHECK_DEADLOCK FALSE
