CONSTANTS
  Out = {o1, o2}
  Value = {v}
  Absent = Absent
  Null = Null
  Reader = {r1}
  MaxCommit = 3
SPECIFICATION Spec
INVARIANTS ReadsLinearizable WalkComplete
PROPERTIES ImplementsUnspentStore HaltLosesNothing
