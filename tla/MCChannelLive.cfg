SPECIFICATION FairSpec
CONSTANTS
  Thread = {t1, t2, t3}
  NoThread = NoThread
  Garbage = Garbage
  NoArg = NoArg
  Value <- OnePayload
  CapArg <- OneSlot
  MaxSends = 2
PROPERTIES CloseReleasesAll SleepersServed
