----------------------------- MODULE DenseBitset -----------------------------
(***************************************************************************)
(* dense_bitset: bits kept in an array of words.  A word is the set of the *)
(* positions that are 1 in it, 0 .. W - 1.  One thread uses a bitset, so   *)
(* set_bit and set_bit_unsync (xor_bit, clear_bit likewise) do the same.   *)
(* The iterations of transfer_approximate_unsafe are steps of their own,   *)
(* because it need not end.                                                *)
(***************************************************************************)
EXTENDS Integers, Sequences, FiniteSetsExt, Functions

CONSTANTS
    Sets,
    W,       \* bits of a size_t
    Sizes,   \* sizes a caller resizes to
    Amounts  \* numbers of bits a caller asks a transfer for

ASSUME BitsetAssumption == W \in Nat \ {0} /\ Sizes \subseteq Nat /\ Amounts \subseteq Nat

VARIABLES
    array, len,
    transfer,  \* the call of transfer_approximate_unsafe under way
    call       \* the call made last: operation, bitset, argument

arrlen(x) == Len(array[x])
vars == <<array, len, transfer, call>>

NoTransfer == [on |-> FALSE, to |-> 0, from |-> 0, pos |-> 0, initial |-> 0, left |-> 0]

Word == 0 .. W - 1
FullWord == Word

arrpos(b) == (b \div W) + 1      \* array is a sequence: its first word has index 1
bitpos(b) == b % W

\* fix_trailing_bits, on an array of n bits
fix_trailing_bits(a, n) ==
    IF n % W = 0 THEN a ELSE [a EXCEPT ![Len(a)] = @ \cap (0 .. (n % W) - 1)]

Init ==
    /\ len = [x \in Sets |-> 0] /\ array = [x \in Sets |-> <<>>]
    /\ transfer = NoTransfer /\ call = <<>>

Idle == ~transfer.on /\ UNCHANGED transfer
Store(x, a) == Idle /\ array' = [array EXCEPT ![x] = a] /\ UNCHANGED len
Calls(op, x, arg) == call' = <<op, x, arg>>

-----------------------------------------------------------------------------
(* Operations that change bits *)

\* Words beyond the old array are garbage until they are cleared.
Resized(x, n) ==
    fix_trailing_bits([i \in 1 .. (n \div W) + (IF n % W > 0 THEN 1 ELSE 0) |->
                          IF i <= arrlen(x) THEN array[x][i] ELSE {}], n)

resize(x, n) ==
    /\ Idle /\ Calls("resize", x, n)
    /\ len' = [len EXCEPT ![x] = n]
    /\ array' = [array EXCEPT ![x] = Resized(x, n)]

clear(x) == Calls("clear", x, 0) /\ Store(x, [i \in DOMAIN array[x] |-> {}])

fill(x) ==
    /\ Calls("fill", x, 0)
    /\ Store(x, fix_trailing_bits([i \in DOMAIN array[x] |-> FullWord], len[x]))

invert(x) ==
    /\ Calls("invert", x, 0)
    /\ Store(x, fix_trailing_bits([i \in DOMAIN array[x] |-> FullWord \ array[x][i]], len[x]))

OnWord(x, b, word) == Store(x, [array[x] EXCEPT ![arrpos(b)] = word])
WordOf(x, b) == array[x][arrpos(b)]

set_bit(x, b) == Calls("set_bit", x, b) /\ OnWord(x, b, WordOf(x, b) \cup {bitpos(b)})

\* Mutant: the mask that tests the bit is used where its complement is meant.
clear_bit_masked(x, b) ==
    Calls("clear_bit", x, b) /\ OnWord(x, b, WordOf(x, b) \cap {bitpos(b)})

clear_bit(x, b) == Calls("clear_bit", x, b) /\ OnWord(x, b, WordOf(x, b) \ {bitpos(b)})

xor_bit(x, b) ==
    /\ Calls("xor_bit", x, b)
    /\ OnWord(x, b, (WordOf(x, b) \ {bitpos(b)}) \cup ({bitpos(b)} \ WordOf(x, b)))

get_containing_word_and_zero(x, b) == Calls("take_word", x, b) /\ OnWord(x, b, {})
set(x, b, value) == IF value THEN set_bit(x, b) ELSE clear_bit(x, b)

\* operator= : the size and every word.
assign(x, y) ==
    /\ Idle /\ Calls("assign", x, y)
    /\ len' = [len EXCEPT ![x] = len[y]]
    /\ array' = [array EXCEPT ![x] = array[y]]

\* The binary operators check that the sizes are equal.
intersect(x, y) ==
    /\ Calls("intersect", x, y)
    /\ Store(x, [i \in DOMAIN array[x] |-> array[x][i] \cap array[y][i]])

unite(x, y) ==
    /\ Calls("unite", x, y)
    /\ Store(x, [i \in DOMAIN array[x] |-> array[x][i] \cup array[y][i]])

subtract(x, y) ==
    /\ Calls("subtract", x, y)
    /\ Store(x, [i \in DOMAIN array[x] |-> array[x][i] \ (array[x][i] \cap array[y][i])])

-----------------------------------------------------------------------------
(* transfer_approximate_unsafe *)

BeginTransfer(x, y, start, b) ==
    /\ ~transfer.on /\ x # y /\ len[x] = len[y] /\ arrlen(x) > 0
    /\ transfer' = [on |-> TRUE, to |-> x, from |-> y, left |-> b, initial |-> arrpos(start),
                    pos |-> IF arrpos(start) > arrlen(x) THEN 1 ELSE arrpos(start)]
    /\ Calls("transfer", x, y)
    /\ UNCHANGED <<array, len>>

\* Mutant: the loop does not notice that it is back where it began.
TransferAround ==
    LET x == transfer.to
        y == transfer.from
        word == array[y][transfer.pos]
    IN  /\ transfer.on /\ transfer.left > 0
        /\ array' = [array EXCEPT ![x][transfer.pos] = @ \cup word, ![y][transfer.pos] = {}]
        /\ transfer' = [transfer EXCEPT !.pos = (@ % arrlen(y)) + 1,
                                        !.left = Max({0, @ - Cardinality(word)})]
        /\ Calls("transfer", x, y) /\ UNCHANGED len

\* One word moves.  The loop ends where it began, but does not look there on its way
\* around the end of the array.
TransferWord ==
    LET x == transfer.to
        y == transfer.from
        word == array[y][transfer.pos]
        next == (transfer.pos % arrlen(y)) + 1
        around == next # 1 /\ next = transfer.initial
    IN  /\ transfer.on /\ transfer.left > 0
        /\ array' = [array EXCEPT ![x][transfer.pos] = @ \cup word, ![y][transfer.pos] = {}]
        /\ transfer' = IF around THEN NoTransfer
                       ELSE [transfer EXCEPT !.pos = next,
                                             !.left = Max({0, @ - Cardinality(word)})]
        /\ Calls("transfer", x, y) /\ UNCHANGED len

EndTransfer ==
    /\ transfer.on /\ transfer.left = 0
    /\ transfer' = NoTransfer
    /\ UNCHANGED <<array, len, call>>

-----------------------------------------------------------------------------
(* Operations that look *)

None == -1    \* the operation returns false

get(x, b) == bitpos(b) \in WordOf(x, b)
empty(x) == \A i \in DOMAIN array[x] : array[x][i] = {}
popcount(x) == FoldFunction(LAMBDA word, n : Cardinality(word) + n, 0, array[x])

first_bit_in_block(word) == IF word = {} THEN 0 ELSE Min(word)

\* 0 on failure: the position 0 comes after no other
next_bit_in_block(b, word) == first_bit_in_block({i \in word : i > b})

FirstFrom(words, i, k) ==
    LET full == {j \in i .. k : words[j] # {}}
    IN  IF full = {} THEN None
        ELSE (Min(full) - 1) * W + first_bit_in_block(words[Min(full)])

first_bit(x) == FirstFrom(array[x], 1, arrlen(x))
first_zero_bit(x) ==
    FirstFrom([i \in DOMAIN array[x] |-> FullWord \ array[x][i]], 1, arrlen(x))

\* Mutant: the search goes on at the word of the bit.
next_bit_again(x, b) ==
    LET k == next_bit_in_block(bitpos(b), WordOf(x, b))
    IN  IF k # 0 THEN (arrpos(b) - 1) * W + k ELSE FirstFrom(array[x], arrpos(b), arrlen(x))

next_bit(x, b) ==
    LET k == next_bit_in_block(bitpos(b), WordOf(x, b))
    IN  IF k # 0 THEN (arrpos(b) - 1) * W + k
        ELSE FirstFrom(array[x], arrpos(b) + 1, arrlen(x))

\* The positions an iterator visits from begin() on, until it is at end().
visited(x) ==
    LET at[k \in Nat] ==
          IF k = 0 THEN first_bit(x)
          ELSE IF at[k - 1] = None THEN None ELSE next_bit(x, at[k - 1])
    IN  {at[k] : k \in 0 .. len[x]} \ {None}

-----------------------------------------------------------------------------
Next ==
    \/ \E x \in Sets :
          \/ \E n \in Sizes : resize(x, n)
          \/ clear(x) \/ fill(x) \/ invert(x)
          \/ \E b \in 0 .. len[x] - 1 :
                \/ xor_bit(x, b) \/ get_containing_word_and_zero(x, b)
                \/ \E value \in BOOLEAN : set(x, b, value)
          \/ \E y \in Sets :
                \/ assign(x, y)
                \/ len[x] = len[y] /\ (intersect(x, y) \/ unite(x, y) \/ subtract(x, y))
                \/ \E start \in 0 .. len[x], b \in Amounts : BeginTransfer(x, y, start, b)
    \/ TransferWord \/ EndTransfer

Spec == Init /\ [][Next]_vars /\ WF_vars(TransferWord \/ EndTransfer)

-----------------------------------------------------------------------------
bits == [x \in Sets |-> {b \in 0 .. arrlen(x) * W - 1 : get(x, b)}]

\* The array has the words its size calls for, and no bit after the last one is set, on
\* which popcount, empty, first_bit and the iterator rely (dense_bitset.hpp:481).
TypeOK ==
    /\ \A x \in Sets :
          /\ array[x] \in Seq(SUBSET Word)
          /\ arrlen(x) * W \in len[x] .. len[x] + W - 1
          /\ bits[x] \subseteq 0 .. len[x] - 1
    /\ transfer.on => transfer.pos \in 1 .. arrlen(transfer.from)

Zeros(x) == (0 .. len[x] - 1) \ bits[x]
Least(S) == IF S = {} THEN None ELSE Min(S)

\* Every operation that looks answers for the whole set, across the borders of words.  (What
\* first_zero_bit answers for a set that is full is another matter: NoZeroNoPosition.)
LooksAgree ==
    \A x \in Sets :
        /\ popcount(x) = Cardinality(bits[x]) /\ empty(x) = (bits[x] = {})
        /\ first_bit(x) = Least(bits[x])
        /\ \A b \in 0 .. len[x] - 1 : next_bit(x, b) = Least({i \in bits[x] : i > b})
        /\ visited(x) = bits[x]
        /\ Zeros(x) # {} => first_zero_bit(x) = Least(Zeros(x))

\* "Returns true with b containing the position of the first bit set to false.  If such a
\* bit does not exist, this function returns false" (dense_bitset.hpp:333).  It does not hold:
\* the clear padding of the last word is taken for a bit that is false.
NoZeroNoPosition == \A x \in Sets : Zeros(x) = {} => first_zero_bit(x) = None

Abstract == INSTANCE BitSet WITH bits <- bits, size <- len

\* The words implement the set, call by call: set_bit, clear_bit and xor_bit change the bit
\* they name and no other, get_containing_word_and_zero the word of that bit, resize, fill and
\* invert nothing beyond the size, and a transfer moves whole words.
ImplementsSet == Abstract!Spec

\* A transfer ends, unless it starts at the first word, or after the last one, and asks for
\* more bits than the other bitset has: then it goes around for ever.
TransferEnds ==
    [](transfer.on /\ (transfer.initial \in 2 .. arrlen(transfer.from)
                          \/ popcount(transfer.from) >= transfer.left)
         => <>~transfer.on)
=============================================================================
