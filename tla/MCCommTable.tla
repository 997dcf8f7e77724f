---------------------------- MODULE MCCommTable -----------------------------
(* Small instances of CommTable. *)
EXTENDS CommTable, MCHCNE

\* No two links of a partition cost the same.
MCComms == [i \in Parts |-> [j \in Parts |-> IF i = j THEN 0 ELSE i + j]]
=============================================================================
