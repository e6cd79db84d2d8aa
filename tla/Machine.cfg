SPECIFICATION MCSpec
CONSTANTS
  Aps = {a1, a2}
  Bsp = b
  None = None
  MaxListed = 3
  MapAddr = {m1, m2}
  TIMER_PERIOD = 5
  NsecPerTick = 2
  Reset = 3
  NANOSEC_PER_CLOCK = 2
  MaxTicks = 9
CHECK_DEADLOCK FALSE
INVARIANTS OwnId Handled Acknowledged AllUp Accurate
PROPERTIES BootEnds PanicStops ForwardOnly
