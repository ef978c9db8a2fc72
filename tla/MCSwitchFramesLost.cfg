SPECIFICATION Spec
CONSTANTS
  t1 = t1
  t2 = t2
  t3 = t3
  Tasks <- AllThree
  Yielding <- FirstTwo
  Sched = Sched
  Places = {"rbx", "r12", "slot0"}
INVARIANT AllRegistersKept
