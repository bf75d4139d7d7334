-------------------------- MODULE MCPlatformTime --------------------------
(***************************************************************************)
(* Model-checking instances of PlatformTime.  The reading does not depend  *)
(* on the tokens taken of it, so a behaviour has one of two scenarios:     *)
(* "drift" follows clocks that drift apart and asymmetric paths, and       *)
(* leaves the users of the clock out; "users" has them, jumps of either    *)
(* clock and foreign boundaries, with exact readings.                      *)
(***************************************************************************)
EXTENDS PlatformTime

VARIABLE scenario

ExactNext ==
    \/ Connect \/ Disconnect
    \/ \E floor \in Floors, lag \in Lags : LoadBoundary(floor, lag)
    \/ Request
    \/ \E rtt \in 0..(ReqTimeout - 1) : Respond(rtt, 0, 0)
    \/ RespondLate
    \/ Require
    \/ Tick(0)

MCNext ==
    \/ scenario = "drift" /\ ClockNext /\ UNCHANGED scenario
    \/ scenario = "users" /\ (ExactNext \/ UserNext \/ FaultNext) /\ UNCHANGED scenario

MCInit == Init /\ scenario \in {"drift", "users"}

MCSpec == MCInit /\ [][MCNext]_<<vars, scenario>>

=============================================================================
