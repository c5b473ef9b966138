SPECIFICATION MCSpec
CONSTANTS
  q1 = q1  q2 = q2  c1 = c1  n1 = n1  n2 = n2  w1 = w1
  Job = {q1, q2, c1, n1, n2, w1}
  Command <- Commands
  Backend <- Backends
  KeepsAsm = TRUE
  WaitFails = TRUE
  Absent = Absent
  Partial = Partial
  Previous = Previous
INVARIANTS OwnProgram Repeatable NoPartialOutput RejectedBuildsNothing TempsRemoved
