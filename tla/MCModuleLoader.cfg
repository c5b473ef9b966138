SPECIFICATION MCSpec
CONSTANTS
  f1 = f1  f2 = f2  f3 = f3  f4 = f4
  main = main  p2 = p2  p3 = p3  p4 = p4  gone = gone
  NoFile = NoFile
  File <- Four
  Path <- FivePaths
  FileOf <- Resolved
  Root = main
  MaxDepth = 3
CHECK_DEADLOCK FALSE
INVARIANTS OneOwner FirstVisitOrder
PROPERTIES KeepsPromise Answers
