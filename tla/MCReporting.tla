---------------------------- MODULE MCReporting ----------------------------
(***************************************************************************)
(* Model-checking instance of Reporting: one point reports its changes;    *)
(* a second configuration adds its slots, and another point.               *)
(***************************************************************************)
EXTENDS Reporting, TLC

CONSTANTS p1, p2

MCPoints == {p1, p2}
MCMode == [g \in Gens |-> IF g = 1 THEN (p1 :> "change") @@ (p2 :> "off")
                          ELSE (p1 :> "both") @@ (p2 :> "change")]
MCVersion == [g \in Gens |-> g]
MCReadings == {<<"GOOD", 0>>, <<"GOOD", 1>>}

Limit(seq, gen, time, conns, ends) ==
    [seq |-> seq, gen |-> gen, time |-> time, conn |-> conns, ends |-> ends]
MCLimits == {Limit(3, 1, 0, 1, 0), Limit(2, 1, 1, 1, 0), Limit(2, 1, 0, 2, 0), Limit(3, 2, 0, 0, 0),
             Limit(2, 2, 1, 0, 0), Limit(2, 1, 0, 1, 1)}
=============================================================================
