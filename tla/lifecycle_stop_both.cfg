SPECIFICATION Spec
CONSTANTS
  Ops = {o1}
  Procs = {p1, p2}
  Listeners = {l1, l2}
  Conns = {c1}
  Nil = Nil
INVARIANT StopStopsBoth
