----------------------------- MODULE MCConversions ----------------------------
(* Values for Conversions: three transitions, one of them before the       *)
(* Epoch, and the numbers around every bound and at the ends of an int.    *)
EXTENDS Conversions

MCTransTimes == <<-15, 5, 25>>
MCOffsets == {-3, 0, 5}

Around(n) == n - 60 .. n + 60

MCNumbers ==
    (-1100 .. 1100)
        \cup UNION {Around(n) : n \in {9995, 99950, 999500, 9995000, 99950000, 999500000,
                                       10235, 102349, 1048064, 10480518, 104805172, 1073217536}}
        \cup {2147483647, 2147483640, -2147483647, -2147483647 - 1}

===============================================================================
