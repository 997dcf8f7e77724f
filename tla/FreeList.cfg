SPECIFICATION UserSpec
CONSTANTS
    Threads = {t1, t2}
    Blocks = {b1, b2, b3}
    Null = Null
    ShouldBeOn = 16
PROPERTIES SomeoneEnds
INVARIANTS Conserved
