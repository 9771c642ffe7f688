SPECIFICATION Spec
CONSTANTS
  a1 = a1
  a2 = a2
  b1 = b1
  a = a
  b = b
  Tuners = {a1, a2, b1}
  Bridges = {a, b}
  BridgeOf <- MCBridgeOf
  Satellite = {a1, a2}
  Devices <- AllDevices
INVARIANTS
  OpenIsReady
  IdleIsOff
  LnbAsAsked
  RunningReceives
CHECK_DEADLOCK FALSE
