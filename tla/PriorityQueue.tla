--------------------------- MODULE PriorityQueue ---------------------------
(***************************************************************************)
(* What split() expects of its min-heap: a map from keys to values in which *)
(* a key is put once, looked up, replaced and taken out, and of which any  *)
(* entry with the least value can be asked for.                            *)
(***************************************************************************)
EXTENDS Integers, Functions

CONSTANTS Keys, MaxValue

Values == 0 .. MaxValue

VARIABLES content,  \* the function from the keys present to their values
          result    \* what the last call returned

vars == <<content, result>>

\* What a call returns: a flag, and the entry found by get_min.
Answer(ok) == [ok |-> ok, value |-> 0, key |-> 0]

Init == content = [k \in {} |-> 0] /\ result = Answer(TRUE)

\* The entries that get_min may return.
Least == {k \in DOMAIN content : \A j \in DOMAIN content : content[k] <= content[j]}

Put(k, v) ==
    /\ k \notin DOMAIN content
    /\ content' = [j \in DOMAIN content \cup {k} |-> IF j = k THEN v ELSE content[j]]
    /\ result' = Answer(TRUE)

Replace(k, v) ==
    /\ k \in DOMAIN content
    /\ content' = [content EXCEPT ![k] = v]
    /\ result' = Answer(TRUE)

Take(k) ==
    /\ content' = Restrict(content, DOMAIN content \ {k})
    /\ result' = Answer(k \in DOMAIN content)

GetMin ==
    /\ \/ \E k \in Least : result' = [ok |-> TRUE, value |-> content[k], key |-> k]
       \/ DOMAIN content = {} /\ result' = Answer(FALSE)
    /\ UNCHANGED content

Clear == content' = [k \in {} |-> 0] /\ result' = Answer(TRUE)

\* A call that leaves the map alone and returns nothing.
Ignored == UNCHANGED content /\ result' = Answer(TRUE)

Next ==
    \/ \E k \in Keys, v \in Values : Put(k, v) \/ Replace(k, v)
    \/ \E k \in Keys : Take(k)
    \/ GetMin
    \/ Clear
    \/ Ignored

Spec == Init /\ [][Next]_vars
=============================================================================
