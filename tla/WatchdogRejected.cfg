SPECIFICATION Spec
CONSTANTS
  base = base
  c1 = c1
  c2 = c2
  Code = {base, c1, c2}
  Baseline = base
  Deaf = {c1}
  Absent = Absent
  MaxApplies = 2
CHECK_DEADLOCK FALSE
INVARIANT RejectedKeepsCurrent
