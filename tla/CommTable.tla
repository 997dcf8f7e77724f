----------------------------- MODULE CommTable ------------------------------
(***************************************************************************)
(* TSetManager comm_temp beside the neighbour expansion that writes it: a  *)
(* record (tset) of every vertex reached, with a communication cost for    *)
(* each partition (data) and the partitions it was inserted for, one digit *)
(* after the other (comm_id).  A cost is added up from comm_id and kept in *)
(* comms_set under it.                                                     *)
(*                                                                         *)
(* HCNE says what may be stored without keeping the table; this module     *)
(* keeps it.  A partition absent from data is one with cost 0 and a vertex *)
(* without a record one with an empty comm_id: no caller sees the          *)
(* difference.  The streaming only inserts costs of 0 and is left out.     *)
(* Graphs are simple, so that an end point is inserted once for an edge.   *)
(***************************************************************************)
EXTENDS HCNE, Sequences

CONSTANT Comms      \* comms[i][j], the cost of the link between i and j

ASSUME CommsAssumption ==
    /\ Comms \in [Parts -> [Parts -> Nat]]
    /\ \A i \in Parts : Comms[i][i] = 0

VARIABLES comm_temp, comms_set

table == <<comm_temp, comms_set>>
commVars == <<vars, table>>

NoRecord == [data |-> [b \in Parts |-> 0], comm_id |-> <<>>]

CommInit ==
    /\ Init
    /\ comm_temp = [v \in Vertices |-> NoRecord]
    /\ comms_set = [id \in {} |-> 0]

-----------------------------------------------------------------------------
\* std::to_string, for at most 100 partitions.
Digits(b) == IF b < 10 THEN <<b>> ELSE <<b \div 10, b % 10>>

\* insertTSet(v, bucket, 0.0) on a record: the cost starts anew, a digit is added.
Inserted(r) ==
    [data |-> [r.data EXCEPT ![bucket] = 0], comm_id |-> r.comm_id \o Digits(bucket)]

\* updates_comm: the digits are read back as partitions; the last one is the partition
\* the others are counted from.
CostOf(id) == FoldFunction(LAMBDA x, sum : Comms[id[Len(id)]][x] + sum, 0, id)

\* undate_value(v, bucket), given the table: from comms_set if it has the digits.
Cost(id) == IF id \in DOMAIN comms_set THEN comms_set[id] ELSE CostOf(id)
UpdateValue(tab, v) ==
    LET id == tab[v].comm_id
    IN  /\ comm_temp' = [tab EXCEPT ![v].data[bucket] = Cost(id)]
        /\ comms_set' = [k \in DOMAIN comms_set \cup {id} |-> Cost(k)]

\* occupy_vertex(v) inserts v for the partition ...
InsertCore(v) == UpdateValue([comm_temp EXCEPT ![v] = Inserted(@)], v)

\* Mutant: the cost of the neighbour is brought up to date in place of v's.
UpdateReached(u) == UpdateValue([comm_temp EXCEPT ![u] = Inserted(@)], u)

\* ... and every vertex it reaches, and brings its own cost up to date each time.
InsertReached(u) == UpdateValue([comm_temp EXCEPT ![u] = Inserted(@)], vid)

\* update_tset inserts the far ends of the edges of every vertex entering the heap that
\* have no record; its undate_value is never called, a record being there by then.
InsertLooked ==
    LET looked == UNION {{Other(e, v) : e \in adj'[v] \cap valid} :
                             v \in mpids \ is_cores[bucket]}
    IN  /\ comm_temp' = [v \in Vertices |->
                            IF v \in looked /\ comm_temp[v].comm_id = <<>>
                            THEN Inserted(comm_temp[v]) ELSE comm_temp[v]]
        /\ UNCHANGED comms_set

\* split() empties comms_set, but not comm_temp, after each partition.
ClearSet == comms_set' = [id \in {} |-> 0] /\ UNCHANGED comm_temp

CommNext ==
    \/ \E v \in Vertices : SelectFromHeap(v) /\ InsertCore(v)
    \/ \E start \in Vertices, c \in 0 .. N - 1 :
          SelectFreeVertex(start, c) /\ InsertCore(Probe(start, c))
    \/ \E e \in EdgeIds : ExpandEdge(e) /\ InsertReached(Other(e, vid))
    \/ FinishOccupy /\ InsertLooked
    \/ (BucketFull \/ \E start \in Vertices : BucketStop(start)) /\ ClearSet
    \/ \E e \in EdgeIds :
          (AssignToCore(e) \/ AssignToBoundary(e) \/ SkipEdge(e)) /\ UNCHANGED table
    \/ (NextRemaining \/ NextStreaming \/ Terminated) /\ UNCHANGED table

CommSpec == CommInit /\ [][CommNext]_commVars

-----------------------------------------------------------------------------
\* A vertex has a cost other than 0 for a partition, the first one excepted, only where it
\* is a core vertex: this is all that HCNE (HasCommValue) and HCSG (Terms) assume of
\* comm_temp.  The cost of a core vertex of the partition being filled is the sum over all
\* it was inserted for so far: no later insertion, as the neighbour of another core vertex,
\* sets it back to 0, and no entry of comms_set is out of date.
CostsOfCores ==
    Expanding =>
        \A v \in Vertices :
            /\ \A b \in Parts : comm_temp[v].data[b] # 0 => b # 0 /\ v \in is_cores[b]
            /\ v \in is_cores[bucket] =>
                  comm_temp[v].data[bucket] =
                      MapThenSumSet(LAMBDA i : Comms[bucket][comm_temp[v].comm_id[i]],
                                    DOMAIN comm_temp[v].comm_id)
=============================================================================
