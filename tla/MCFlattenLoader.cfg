SPECIFICATION SoundSpec
CONSTANTS
  f1 = f1  f2 = f2  f3 = f3
  main = main  p2 = p2  p3 = p3  gone = gone
  NoFile = NoFile
  File <- Three
  Path <- OnePathEach
  FileOf <- Resolved
  Root = main
  MaxDepth = 3
CHECK_DEADLOCK FALSE
INVARIANT FirstVisitOrder
PROPERTIES KeepsPromise Answers
