SPECIFICATION FinishLiveSpec
CONSTANTS
  f1 = f1
  f2 = f2
  a = a
  b = b
  None = None
  Features = {f1, f2}
  HardLinks = FALSE
  Slots = {a, b}
  Active = a
  MaxTries = 1
  Reconnect = 2
  Limit = 3
  NoSlot = NoSlot
INVARIANT MarkerGuards PointerSound OnlyRejectedBroken
INVARIANT ConfirmedKeepsBooting GoneJustified BootsComplete
PROPERTY ImplementsDelivery Completes SupervisionEnds ReturnNoticed
