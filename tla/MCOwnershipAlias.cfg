SPECIFICATION Spec
CONSTANTS
  Names = {a, b}
  Param = Param
  Units = {"program"}
  MaxHoist = 2
  MaxScopeDepth = 3
  Forms = {"own"}
  Stmts = {"block", "if", "loop", "defer", "break", "skip", "exit"}
  MaxNodes = 4
  MaxFnNodes = 3
  MaxAlloc = 2
  EscapingAliases = TRUE
SYMMETRY Symmetry
INVARIANT ReadsValid
