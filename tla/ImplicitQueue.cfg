SPECIFICATION Spec
CONSTANTS
    p1 = p1
    p2 = p2
    c1 = c1
    c2 = c2
    b1 = b1
    b2 = b2
    b3 = b3
    Null = Null
    ShouldBeOn = 16
    Producers = {p1}
    Consumers = {c1, c2}
    Threads = {p1, c1, c2}
    Blocks = {b1, b2, b3}
    Pool = {b1}
    BlockSize = 2
    IndexSize = 2
    MaxHeaders = 2
    Batches = {3}
    Takes = {1, 2}
    MaxItems = 6
    MaxOvercommit = 1
SYMMETRY Symmetry
INVARIANTS ElementsInPlace ClaimsBalance BlocksOnce
CHECK_DEADLOCK FALSE
