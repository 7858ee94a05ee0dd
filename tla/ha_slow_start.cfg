SPECIFICATION Spec
CONSTANTS
    s1 = s1
    s2 = s2
    Servers = {s1, s2}
    Poll = 2
    Delays = {4, 8}
    DefaultDelay = 8
    Setups <- SlowStart
SYMMETRY Alike
INVARIANTS SingleActing
