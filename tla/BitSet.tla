------------------------------- MODULE BitSet -------------------------------
(***************************************************************************)
(* What dense_bitset promises its users: a set of positions below size().  *)
(* Every step is a call, named with its arguments in `call`, and changes   *)
(* the bits that call is about and no other.                               *)
(***************************************************************************)
EXTENDS Integers

CONSTANTS Sets,       \* the bitsets
          Sizes,      \* sizes they may be given
          W           \* bits of a word, which two operations take together

VARIABLES bits, size,
          call        \* the call made last: operation, bitset, argument

vars == <<bits, size, call>>

Positions(x) == 0 .. size[x] - 1

\* The bits that share the word of the bit b.
InWordOf(x, b) == {i \in bits[x] : i \div W = b \div W}

Init ==
    /\ size = [x \in Sets |-> 0] /\ bits = [x \in Sets |-> {}]
    /\ call = <<>>

Becomes(x, s) == bits' = [bits EXCEPT ![x] = s] /\ UNCHANGED size
Calls(op, x, arg) == call' = <<op, x, arg>>

\* Bits that stay keep their value; bits that are new are clear.
Resize(x, n) ==
    /\ Calls("resize", x, n)
    /\ size' = [size EXCEPT ![x] = n]
    /\ bits' = [bits EXCEPT ![x] = @ \cap (0 .. n - 1)]

Clear(x) == Calls("clear", x, 0) /\ Becomes(x, {})
Fill(x) == Calls("fill", x, 0) /\ Becomes(x, Positions(x))
Invert(x) == Calls("invert", x, 0) /\ Becomes(x, Positions(x) \ bits[x])

SetBit(x, b) == Calls("set_bit", x, b) /\ Becomes(x, bits[x] \cup {b})
ClearBit(x, b) == Calls("clear_bit", x, b) /\ Becomes(x, bits[x] \ {b})
XorBit(x, b) ==
    /\ Calls("xor_bit", x, b)
    /\ Becomes(x, IF b \in bits[x] THEN bits[x] \ {b} ELSE bits[x] \cup {b})
TakeWord(x, b) == Calls("take_word", x, b) /\ Becomes(x, bits[x] \ InWordOf(x, b))

Copy(x, y) ==
    /\ Calls("assign", x, y)
    /\ size' = [size EXCEPT ![x] = size[y]]
    /\ bits' = [bits EXCEPT ![x] = bits[y]]

Intersect(x, y) == Calls("intersect", x, y) /\ Becomes(x, bits[x] \cap bits[y])
Unite(x, y) == Calls("unite", x, y) /\ Becomes(x, bits[x] \cup bits[y])
Subtract(x, y) == Calls("subtract", x, y) /\ Becomes(x, bits[x] \ bits[y])

\* A transfer moves bits from y to x, those of a word together.  Which words, and how many,
\* is up to the implementation.
Transfer(x, y) ==
    /\ Calls("transfer", x, y) /\ UNCHANGED size
    /\ \E moved \in {{}} \cup {InWordOf(y, b) : b \in Positions(y)} :
          bits' = [bits EXCEPT ![x] = @ \cup moved, ![y] = @ \ moved]

Next ==
    \E x \in Sets :
        \/ \E n \in Sizes : Resize(x, n)
        \/ Clear(x) \/ Fill(x) \/ Invert(x)
        \/ \E b \in Positions(x) :
              SetBit(x, b) \/ ClearBit(x, b) \/ XorBit(x, b) \/ TakeWord(x, b)
        \/ \E y \in Sets :
              \/ Copy(x, y)
              \/ size[x] = size[y] /\ (Intersect(x, y) \/ Unite(x, y) \/ Subtract(x, y))
              \/ size[x] = size[y] /\ x # y /\ Transfer(x, y)

Spec == Init /\ [][Next]_vars
=============================================================================
