---------------------------- MODULE AtLeastOnce ----------------------------
(***************************************************************************)
(* What telemetry delivery promises, without saying how: a batch that was  *)
(* accepted stays in the gateway's custody until the receiver has stored   *)
(* it or the gateway has given it up in the open.  The receiver may store  *)
(* a batch that the gateway still keeps, or no longer keeps.               *)
(***************************************************************************)
CONSTANT Batches

VARIABLES
    custody,    \* batches the gateway answers for
    stored,     \* batches the receiver has
    abandoned   \* batches the gateway has given up and said so

contract == <<custody, stored, abandoned>>

Init == custody = {} /\ stored = {} /\ abandoned = {}

Known == custody \cup stored \cup abandoned

(* Give up the batches in lost; taking in something new may force it to. *)
GiveUp(lost) ==
    /\ lost \subseteq custody
    /\ custody' = custody \ lost
    /\ abandoned' = abandoned \cup lost
    /\ UNCHANGED stored

Accept(b, lost) ==
    /\ b \notin Known
    /\ lost \subseteq custody
    /\ custody' = (custody \ lost) \cup {b}
    /\ abandoned' = abandoned \cup lost
    /\ UNCHANGED stored

Store(b) ==
    /\ b \in Known
    /\ stored' = stored \cup {b}
    /\ UNCHANGED <<custody, abandoned>>

(* Custody ends without giving up only when the receiver has the batch. *)
Release(b) ==
    /\ b \in custody \cap stored
    /\ custody' = custody \ {b}
    /\ UNCHANGED <<stored, abandoned>>

Next ==
    \/ \E lost \in SUBSET Batches : GiveUp(lost)
    \/ \E b \in Batches : \E lost \in SUBSET Batches : Accept(b, lost)
    \/ \E b \in Batches : Store(b)
    \/ \E b \in Batches : Release(b)

Spec == Init /\ [][Next]_contract

=============================================================================
