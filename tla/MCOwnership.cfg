SPECIFICATION Spec
CONSTANTS
  Names = {a, b}
  Param = Param
  Units = {"program", "str_fn", "int_fn"}
  MaxHoist = 1
  MaxScopeDepth = 3
  Forms = {"own", "cond", "nested", "user", "fresh", "move"}
  Stmts = {"block", "if", "loop", "defer", "break", "skip", "exit"}
  MaxNodes = 4
  MaxFnNodes = 3
  MaxAlloc = 2
  EscapingAliases = FALSE
SYMMETRY Symmetry
INVARIANTS TypeOK NoInvalidFree ReadsValid OwnersDestroyed
