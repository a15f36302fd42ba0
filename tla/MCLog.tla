---------------------------------- MODULE MCLog ---------------------------------
(* Values for Log: a fixed zone one hour east of UTC beside none, and      *)
(* messages around the limits of a buffer of 4000 bytes.                   *)
EXTENDS Log

MCZones == {NoData, [transitions |-> <<>>, localtimes |-> <<3600>>, valid |-> TRUE]}

MCMessages == {<<Text("long", 3860), Number("n", 20), Text("s", 2)>>,
               <<Text("fills", 3957)>>, <<Text("fills", 3958)>>}

MCSymmetry == Permutations(Threads)

===============================================================================
