SPECIFICATION Spec
CONSTANTS
  none = none
  src = src
  dst = dst
  relay = relay
  sender = sender
  receiver = receiver
  S = S
  D = D
  R = R
  Eids <- MCEids
  defaultEid = none
  Nodes = {S, R, D}
  Source = S
  Destination = D
  AgentEid <- RelayedEid
  SendEid = sender
  ReceiveEid = receiver
  Clas = {S, R, D}
  NoCla = NoCla
  Behind <- RelayedClas
  RouteOf <- RelayedRoutes
  NoBundle = NoBundle
  AppData = AppData
  Refs = {r1, r2, r3}
  BundleSize = 1
  AduSize = 2
  AduLife = {"never expires"}
  MaxSignals = 3
SYMMETRY RefSymmetry
INVARIANT FragmentsAreFlagged
CHECK_DEADLOCK FALSE
