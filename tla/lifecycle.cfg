SPECIFICATION Spec
CONSTANTS
  Ops = {o1, o2}
  Procs = {p1, p2}
  Listeners = {l1, l2}
  Conns = {c1}
  Nil = Nil
SYMMETRY Symmetry
INVARIANTS OneBackendProcess ListenerOwned FailedStartStopsProxy StopLeavesNothing
PROPERTY NoUnwarnedKill
