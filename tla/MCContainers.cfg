CONSTANTS
  k1 = k1
  k2 = k2
  k3 = k3
  k4 = k4
  v1 = v1
  v2 = v2
  dot = dot
  word = word
  Key = {k1, k2, k3, k4}
  Value = {v1, v2}
  Piece = {dot, word}
  KeyHash <- MCKeyHash
  StrLen <- MCStrLen
  FirstCap = 1
  FirstBuckets = 2
  FirstText = 4
  SizeMax = 1023
  MaxAlign = 16
  Openings <- MCOpenings
  Limits = {300, 1100}
  RawSizes = {60, 600}
  RawAligns = {1, 64}
  Programs <- MCPrograms
  MaxKeys = 4
  MaxElems = 3
  MaxPieces = 3
  MaxRaw = 1
  MaxLost = 3
SPECIFICATION Spec
SYMMETRY Symmetric
CHECK_DEADLOCK FALSE
INVARIANT TypeOK
INVARIANT NeverDangles
INVARIANT Accounted
PROPERTY Implements
