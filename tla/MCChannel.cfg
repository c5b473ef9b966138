SPECIFICATION Spec
CONSTANTS
  Thread = {t1, t2, t3}
  NoThread = NoThread
  Garbage = Garbage
  NoArg = NoArg
  Value <- Payload
  CapArg <- Capacities
  MaxSends = 3
SYMMETRY Symmetry
INVARIANTS Fifo NoLostWakeup NoSleeperPastClose
PROPERTY Linearizable
