------------------------------- MODULE Ingest -------------------------------
(***************************************************************************)
(* From the text of a graph to the edges in memory, over several runs that *)
(* share the files named after -output.                                    *)
(*                                                                         *)
(* A run converts the input unless a binary edge list is there, counts     *)
(* degrees, sends the edges between two high-degree vertices to one file   *)
(* and the others to another, and reads back what split() will partition.  *)
(* A run may end at any point: by a crash, or by a CHECK or LOG(FATAL)     *)
(* that aborts.  A file that was open keeps any prefix of what was         *)
(* written, cut at an edge.                                                *)
(*                                                                         *)
(* A line of text is <<from, to>>, or <<from>> if it is malformed; the     *)
(* lines of comments are left out.                                         *)
(***************************************************************************)
EXTENDS Integers, Sequences, SequencesExt

CONSTANTS
    Names,      \* the names of vertices
    Inputs,     \* the input files, sequences of lines
    Flags,      \* the flags of a run: [hybrid, write_low, hdf]
    HdfScale,   \* -hdf is flags.hdf / HdfScale
    ChunkSize,  \* edges read at a time (100000 in the code)
    Unset,      \* headers a run may find in variables never set
    UnsetCount, \* what num_h2h_edges, never set either, may count from
    SizeRange,  \* of size_t, 2^64: more than any file has edges
    Absent,     \* a file that does not exist
    MaxRuns     \* bound on the number of runs

Lines == {<<v>> : v \in Names} \cup (Names \X Names)
IdPairs == Nat \X Nat
File == [header : {<<>>} \cup IdPairs, edges : Seq(IdPairs)]

ASSUME AbsentAssumption == Absent \notin File
ASSUME InputsAssumption == Inputs \subseteq Seq(Lines)
ASSUME ScaleAssumption == HdfScale \in Nat \ {0} /\ ChunkSize \in Nat \ {0}
ASSUME UnsetAssumption == Unset \subseteq IdPairs /\ UnsetCount \subseteq Nat
ASSUME SizeAssumption == SizeRange \in Nat \ {0} /\ MaxRuns \in Nat

VARIABLES
    bin, deg, low, h2h,     \* the files
    runs, pc, flags,
    filename,               \* the lines of the input graph of this run
    source,                 \* the input the binary file was made from
    input,                  \* the lines not yet read
    name2vid, num_vertices, num_edges, degrees,
    left, chunk, count, num_h2h_edges,
    edges                   \* what load hands to split()

files == <<bin, deg, low, h2h>>
converter == <<input, name2vid, num_vertices, num_edges, degrees>>
builder == <<left, chunk, count, num_h2h_edges>>
params == <<flags, filename, source>>
vars == <<files, runs, pc, params, converter, builder, edges>>

Empty == [header |-> <<>>, edges |-> <<>>]
NoFlags == [hybrid |-> FALSE, write_low |-> FALSE, hdf |-> 0]

\* The items of s that are in keep, in their order.
Kept(s, keep) ==
    FoldLeft(LAMBDA kept, x : IF x \in keep THEN Append(kept, x) ELSE kept, <<>>, s)

-----------------------------------------------------------------------------

Forgotten ==
    /\ flags' = NoFlags /\ filename' = <<>>
    /\ input' = <<>> /\ name2vid' = <<>> /\ degrees' = <<>>
    /\ num_vertices' = 0 /\ num_edges' = 0
    /\ left' = 0 /\ chunk' = 0 /\ count' = <<>> /\ num_h2h_edges' = 0
    /\ edges' = <<>>

Init ==
    /\ bin = Absent /\ deg = Absent /\ low = Absent /\ h2h = Absent
    /\ runs = 0 /\ pc = "off" /\ flags = NoFlags
    /\ filename = <<>> /\ source = <<>> /\ input = <<>> /\ name2vid = <<>> /\ degrees = <<>>
    /\ num_vertices = 0 /\ num_edges = 0
    /\ left = 0 /\ chunk = 0 /\ count = <<>> /\ num_h2h_edges = 0
    /\ edges = <<>>

\* Mutated form: a file whose header is still zeros does not count.
DoneIfHeader == bin # Absent /\ bin.header # <<0, 0>>

Done == bin # Absent

\* convert: a binary file of any kind counts as done(); otherwise init()
\* creates it with a header of zeros.
StartRun(lines, f) ==
    /\ pc = "off" /\ runs < MaxRuns
    /\ runs' = runs + 1
    /\ flags' = f /\ filename' = lines
    /\ \/ ~Done /\ pc' = "convert"
          /\ bin' = [header |-> <<0, 0>>, edges |-> <<>>]
          /\ source' = lines /\ input' = lines
       \/ Done /\ pc' = "open"
          /\ UNCHANGED <<bin, source, input>>
    /\ UNCHANGED <<deg, low, h2h, name2vid, num_vertices, num_edges, degrees,
                   builder, edges>>

\* Mutated form: a name that was seen gets another identifier.
NeverKnown(v) == FALSE

Known(v) == v \in DOMAIN name2vid

\* get_vid for both ends, from first: identifiers in order of appearance.
NewNames(from, to) == Kept(<<from, to>>, {v \in {from, to} : ~Known(v)})
Named(from, to) ==
    LET new == NewNames(from, to)
    IN  [v \in DOMAIN name2vid \cup ToSet(new) |->
            IF v \in ToSet(new) THEN num_vertices - 1 + SelectInSeq(new, LAMBDA w : w = v)
            ELSE name2vid[v]]

\* Mutated form: only the degree of the first end counts.
FirstCounted(d, e) == [i \in 1 .. num_vertices' |->
    (IF i \in DOMAIN d THEN d[i] ELSE 0) + (IF i = e[1] + 1 THEN 1 ELSE 0)]

BothCounted(d, e) == [i \in 1 .. num_vertices' |->
    (IF i \in DOMAIN d THEN d[i] ELSE 0) + (IF i - 1 \in ToSet(e) THEN 1 ELSE 0)]

AddEdge ==
    /\ pc = "convert" /\ input # <<>> /\ Len(Head(input)) = 2
    /\ LET from == Head(input)[1]
           to == Head(input)[2]
           e == <<Named(from, to)[from], Named(from, to)[to]>>
       IN  /\ from # to
           /\ num_edges' = num_edges + 1
           /\ name2vid' = Named(from, to)
           /\ num_vertices' = num_vertices + Len(NewNames(from, to))
           /\ degrees' = BothCounted(degrees, e)
           /\ bin' = [bin EXCEPT !.edges = Append(@, e)]
    /\ input' = Tail(input)
    /\ UNCHANGED <<deg, low, h2h, runs, pc, params, builder, edges>>

SkipSelfEdge ==
    /\ pc = "convert" /\ input # <<>> /\ Len(Head(input)) = 2
    /\ Head(input)[1] = Head(input)[2]
    /\ input' = Tail(input)
    /\ UNCHANGED <<files, runs, pc, params, name2vid, num_vertices,
                   num_edges, degrees, builder, edges>>

\* finalize: the header goes in last.
FinishBin ==
    /\ pc = "convert" /\ input = <<>>
    /\ pc' = "degrees"
    /\ bin' = [bin EXCEPT !.header = <<num_vertices, num_edges>>]
    /\ UNCHANGED <<deg, low, h2h, runs, params, converter, builder, edges>>

WriteDegrees ==
    /\ pc = "degrees"
    /\ pc' = "open"
    /\ deg' = degrees
    /\ name2vid' = <<>> /\ degrees' = <<>>      \* delete converter
    /\ UNCHANGED <<bin, low, h2h, runs, params, input, num_vertices,
                   num_edges, builder, edges>>

-----------------------------------------------------------------------------
(* stream_build: two passes over the binary file, in chunks.               *)

FirstChunk(n) == IF n >= ChunkSize THEN ChunkSize ELSE n

\* Mutated form: the last chunk is not shortened.
SameChunk(n, c) == c

NextChunk(n, c) == IF n < c THEN n ELSE c

\* What is read past the end of the file leaves the buffer as it was.
ChunkOf(f) == [i \in 1 .. chunk |->
    LET at == num_edges - left + i
    IN  IF at <= Len(f.edges) THEN f.edges[at] ELSE <<0, 0>>]

\* An empty file leaves the members as the constructor found them.
Open ==
    /\ pc = "open"
    /\ pc' = "count"
    /\ \E h \in IF bin.header = <<>> THEN Unset ELSE {bin.header} :
          /\ num_vertices' = h[1] /\ num_edges' = h[2]
          /\ left' = h[2] /\ chunk' = FirstChunk(h[2])
          /\ count' = [i \in 1 .. h[1] |-> 0]
    /\ num_h2h_edges' \in UnsetCount
    /\ h2h' = <<>>
    /\ low' = IF flags.write_low THEN Empty ELSE low
    /\ UNCHANGED <<bin, deg, runs, params, input, name2vid, degrees, edges>>

Occurrences(c, v) ==
    FoldLeft(LAMBDA n, e : n + (IF e[1] = v THEN 1 ELSE 0) + (IF e[2] = v THEN 1 ELSE 0),
             0, c)

CountChunk ==
    /\ pc = "count" /\ left > 0 /\ num_vertices > 0
    /\ count' = [i \in DOMAIN count |-> count[i] + Occurrences(ChunkOf(bin), i - 1)]
    /\ left' = left - chunk
    /\ chunk' = NextChunk(left', chunk)
    /\ UNCHANGED <<files, runs, pc, params, converter, num_h2h_edges, edges>>

\* The second pass starts; the low file gets a header that promises no edge.
StartSplit ==
    /\ pc = "count" /\ left = 0 /\ num_vertices > 0
    /\ pc' = "split"
    /\ left' = num_edges /\ chunk' = FirstChunk(num_edges)
    /\ low' = IF flags.write_low THEN [low EXCEPT !.header = <<num_vertices, 0>>]
              ELSE low
    /\ UNCHANGED <<bin, deg, h2h, runs, params, converter, count,
                   num_h2h_edges, edges>>

high_degree_threshold ==
    (2 * num_edges * flags.hdf) \div (HdfScale * num_vertices)
High(v) == count[v + 1] > high_degree_threshold
H2HEdges(c) == {e \in ToSet(c) : High(e[1]) /\ High(e[2])}

SplitChunk ==
    /\ pc = "split" /\ left > 0
    /\ LET c == ChunkOf(bin)
           high == Kept(c, H2HEdges(c))
       IN  /\ h2h' = h2h \o high
           /\ num_h2h_edges' = num_h2h_edges + Len(high)
           /\ low' = IF flags.write_low
                     THEN [low EXCEPT !.edges = @ \o Kept(c, ToSet(c) \ H2HEdges(c))]
                     ELSE low
    /\ left' = left - chunk
    /\ chunk' = NextChunk(left', chunk)
    /\ UNCHANGED <<bin, deg, runs, pc, params, converter, count, edges>>

\* Unsigned, and num_h2h_edges may have started anywhere.
num_low_edges == (num_edges - num_h2h_edges) % SizeRange

FinishSplit ==
    /\ pc = "split" /\ left = 0
    /\ pc' = "load"
    /\ low' = IF flags.write_low
              THEN [low EXCEPT !.header = <<num_vertices, num_low_edges>>]
              ELSE low
    /\ count' = <<>>
    /\ UNCHANGED <<bin, deg, h2h, runs, params, converter, left, chunk,
                   num_h2h_edges, edges>>

-----------------------------------------------------------------------------
(* The rest of the constructor.                                            *)

LoadFile == IF flags.hybrid THEN low ELSE bin

\* Mutated form: the size is not checked.
SizeUnchecked(f) == f # Absent /\ f.header # <<>>

\* CHECK_EQ of the size the header promises and the size of the file.
SizeAgrees(f) == f # Absent /\ f.header # <<>> /\ f.header[2] = Len(f.edges)

LoadEdges(f) == [i \in 1 .. f.header[2] |->
    IF i <= Len(f.edges) THEN f.edges[i] ELSE <<0, 0>>]
LoadDegrees(n) == [i \in 1 .. n |->
    IF deg # Absent /\ i <= Len(deg) THEN deg[i] ELSE 0]

Loads ==
    /\ pc = "load" /\ SizeAgrees(LoadFile)
    /\ pc' = "loaded"
    /\ num_vertices' = LoadFile.header[1] /\ num_edges' = LoadFile.header[2]
    /\ edges' = LoadEdges(LoadFile)
    /\ degrees' = LoadDegrees(num_vertices')
    /\ UNCHANGED <<files, runs, params, input, name2vid, builder>>

\* split() leaves these files alone.
EndRun ==
    /\ pc = "loaded"
    /\ pc' = "off"
    /\ Forgotten
    /\ UNCHANGED <<files, runs, source>>

-----------------------------------------------------------------------------
(* Runs that end early.                                                    *)

\* The buffer of a stream holds the header and at least one edge.
Torn(f) ==
    {Empty} \cup {[header |-> f.header, edges |-> p] : p \in Prefixes(f.edges) \ {<<>>}}

\* The files that are open keep a prefix of what was written.
Die ==
    /\ pc' = "off"
    /\ bin' \in IF pc = "convert" THEN Torn(bin) ELSE {bin}
    /\ deg' \in IF pc = "degrees" THEN {Absent} \cup Prefixes(degrees) ELSE {deg}
    /\ low' \in IF pc \in {"count", "split"} /\ flags.write_low THEN Torn(low) ELSE {low}
    /\ h2h' \in IF pc \in {"count", "split"} THEN Prefixes(h2h) ELSE {h2h}
    /\ Forgotten
    /\ UNCHANGED <<runs, source>>

Malformed ==
    /\ pc = "convert" /\ input # <<>> /\ Len(Head(input)) = 1
    /\ Die

\* count[0] of a graph without vertices.
NoVertices == pc = "count" /\ num_vertices = 0 /\ Die

SizeDiffers ==
    /\ pc = "load"
    /\ ~SizeAgrees(LoadFile)
    /\ Die

Crash == pc # "off" /\ Die

RunsOver == pc = "off" /\ runs = MaxRuns /\ UNCHANGED vars

Next ==
    \/ \E lines \in Inputs, f \in Flags : StartRun(lines, f)
    \/ AddEdge \/ SkipSelfEdge \/ FinishBin \/ WriteDegrees
    \/ Open \/ CountChunk \/ StartSplit \/ SplitChunk \/ FinishSplit
    \/ Loads \/ EndRun
    \/ Malformed \/ NoVertices \/ SizeDiffers \/ Crash \/ RunsOver

Spec == Init /\ [][Next]_vars

-----------------------------------------------------------------------------
(* Properties.                                                             *)

\* The kinds of the variables; left and num_edges are unsigned in the code,
\* so that the loops over chunks must come down to 0 exactly.
TypeOK ==
    /\ bin = Absent \/ bin \in File
    /\ low = Absent \/ low \in File
    /\ deg = Absent \/ deg \in Seq(Nat)
    /\ h2h = Absent \/ h2h \in Seq(IdPairs)
    /\ runs \in 0 .. MaxRuns /\ flags \in Flags \cup {NoFlags}
    /\ pc \in {"off", "convert", "degrees", "open", "count", "split", "load", "loaded"}
    /\ input \in Seq(Lines) /\ source \in Seq(Lines)
    /\ num_vertices \in Nat /\ num_edges \in Nat
    /\ left \in Nat /\ chunk \in 0 .. ChunkSize /\ num_h2h_edges \in Nat
    /\ degrees \in Seq(Nat) /\ count \in Seq(Nat) /\ edges \in Seq(IdPairs)

\* The binary file is the graph of these lines, loops left out and names
\* changed, one to one, into 0 .. num_vertices - 1.
IsGraphOf(lines) ==
    LET g == Kept(lines, {l \in ToSet(lines) : l[1] # l[Len(l)]})
    IN  /\ \A i \in DOMAIN lines : Len(lines[i]) = 2
        /\ Len(bin.edges) = Len(g) /\ bin.header[2] = Len(g)
        /\ UNION {ToSet(bin.edges[i]) : i \in DOMAIN bin.edges} = 0 .. bin.header[1] - 1
        /\ \A i, j \in DOMAIN g, k, l \in {1, 2} :
              g[i][k] = g[j][l] <=> bin.edges[i][k] = bin.edges[j][l]

HeaderDone == bin # Absent /\ bin.header # <<>> /\ bin.header # <<0, 0>>

\* A header other than zeros is the last thing conversion writes: whenever a
\* run finds one, the file is the whole graph of the input it was made from.
\* So a file with a part of a graph never passes for the graph.
HeaderIsLast == HeaderDone => IsGraphOf(source)

FileDegree(v) == Occurrences(bin.edges, v)
BothHigh == {e \in ToSet(bin.edges) : \A v \in ToSet(e) :
    FileDegree(v) > (2 * Len(bin.edges) * flags.hdf) \div (HdfScale * bin.header[1])}

\* A run that gets to split() has every edge of the graph exactly once: in
\* memory, or, with -hybrid_NE, in the file that is streamed if both its ends
\* have a high degree, whatever other runs left on disk.
Split ==
    IF flags.hybrid
    THEN /\ edges = Kept(bin.edges, ToSet(bin.edges) \ BothHigh)
         /\ h2h = Kept(bin.edges, BothHigh)
    ELSE edges = bin.edges

\* Split holds where the low-degree file, if it is read, is that of this run
\* (and the binary file is not empty).
SplitExact ==
    pc = "loaded" /\ bin.header # <<>> /\ (flags.hybrid => flags.write_low) => Split

\* The degrees split() starts from are those of the graph for as many vertices
\* as the degree file covers, and 0 for the others: a crash between the two
\* files of the conversion is never made good.
DegreesLoaded ==
    pc = "loaded" /\ bin.header # <<>> =>
        \A i \in DOMAIN degrees :
            degrees[i] = IF deg # Absent /\ i <= Len(deg) THEN FileDegree(i - 1) ELSE 0

\* Once a run has died with the header still zeros, done() keeps every later
\* run from converting again, and none of them ever loads a graph.
InterruptedStays ==
    [](pc = "off" /\ bin # Absent /\ bin.header = <<0, 0>> => [](pc # "loaded"))
=============================================================================
