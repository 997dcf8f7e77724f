SPECIFICATION Spec
CONSTANTS
    s1 = s1
    s2 = s2
    Sets = {s1, s2}
    W = 2
    Sizes = {1, 5}
    Amounts = {2, 6}
INVARIANT NoZeroNoPosition
