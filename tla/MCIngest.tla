------------------------------ MODULE MCIngest ------------------------------
(* Small instances of Ingest for TLC. *)
EXTENDS Ingest

CONSTANTS Hdfs

\* Names are not dense and not in order; there are loops, parallel edges, a
\* malformed line and a file without edges.
MCInputs ==
    {<< <<7, 3>>, <<3, 3>>, <<3, 5>>, <<7, 5>>, <<7, 3>>, <<6, 5>> >>,
     << <<5, 9>>, <<9, 4>>, <<4, 5>>, <<2, 9>> >>,
     << <<1, 2>>, <<6>>, <<2, 6>> >>,
     << <<8, 8>> >>}

MCFlags == [hybrid : BOOLEAN, write_low : BOOLEAN, hdf : Hdfs]
MCUnset == {<<0, 0>>, <<1, 1>>}
=============================================================================
