---------------------------- MODULE MCScheduler ----------------------------
(***************************************************************************)
(* The send schedule of the Outbox (reserve and the credits) with more     *)
(* batches than credits: the steps that touch credits, deadlines and       *)
(* classes, without the storage failures and expiry that MCOutbox covers.  *)
(***************************************************************************)
EXTENDS Outbox

(* Sizes for which no byte quota is ever reached. *)
AllSmall == [b \in Batches |-> 1]
FlatCharge == [b \in Batches |-> [f \in Forms |-> 1]]

(* The schedule at its real speed.  The send loop calls reserve every      *)
(* 25 ms, at up to 4 batches a second, and a tick stands for 30 seconds:   *)
(* the loop has given out every credit it can before the next tick.  A     *)
(* retryable REJECTED answers an attempt that is still in flight.          *)
Reserving == \E b \in Batches : Reserve(b)

CannotReserve == proc # "open" \/ Choice(Schedulable) = {}

PacedNext ==
    \/ Open \/ Close \/ OpenGate
    \/ \E b \in Batches : Enqueue(b, "fresh")
    \/ Reserving
    \/ \E b \in Batches : AckStored(b)
    \/ \E b \in Batches : entries[b].active /\ AckRetry(b)
    \/ CannotReserve /\ Tick

PacedSpec == Init /\ [][PacedNext]_vars /\ WF_vars(Reserving) /\ WF_vars(Tick)

PendingOf(c) == {b \in Pending : entries[b].category = c}

InFlight(b) == entries[b].active /\ entries[b].due > 0

(* Neither class starves the other: while the store stays open, a class    *)
(* with pending batches holds a credit again and again, even if no         *)
(* acknowledgement ever arrives for the batches of either class.           *)
BothClassesProgress ==
    \A c \in Classes :
        <>[](proc = "open") => []<>(PendingOf(c) = {} \/ \E b \in PendingOf(c) : InFlight(b))

(* "A head that waits for its retry time or its ACK does not block the     *)
(* sendable batches behind it": every pending batch is attempted.          *)
HeadDoesNotBlock ==
    \A b \in Batches :
        <>[](proc = "open") => [](b \in Pending => <>(b \notin Pending \/ entries[b].row.attempts > 0))

=============================================================================
