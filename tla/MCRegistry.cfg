SPECIFICATION MCSpec
CONSTANTS
  s1 = s1
  ann = ann  bob = bob  yan = yan  ivy = ivy
  git = git  src = src
  Server = {s1}
  Client = {ann, bob, yan, ivy}
  Home <- OneHome
  Version <- NineAndTen
  Source = {git, src}
  Command <- Mixed
  Absent = Absent
  Torn = Torn
  Nobody = Nobody
  Backlog = 1
  MaxRuns <- AnnTwice
  MaxFaults = 2
CHECK_DEADLOCK FALSE
INVARIANTS Acknowledged Agree Highest
PROPERTY Ended
