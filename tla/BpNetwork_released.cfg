SPECIFICATION Spec
CONSTANTS
  none = none
  src = src
  dst = dst
  relay = relay
  sender = sender
  receiver = receiver
  S = S
  D = D
  R = R
  Eids <- MCEids
  defaultEid = none
  Nodes = {S, D}
  Source = S
  Destination = D
  AgentEid <- DirectEid
  SendEid = sender
  ReceiveEid = receiver
  Clas = {S, D}
  NoCla = NoCla
  Behind <- DirectClas
  RouteOf <- DirectRoutes
  NoBundle = NoBundle
  AppData = AppData
  Refs = {r1, r2, r3, r4}
  BundleSize = 1
  AduSize = 3
  AduLife = {"never expires"}
  MaxSignals = 3
SYMMETRY RefSymmetry
INVARIANT ReleasedIsStored
CHECK_DEADLOCK FALSE
