------------------------------ MODULE Delivery ------------------------------
(***************************************************************************)
(* Telemetry from the gateway to the receiver: the Outbox, the send loop   *)
(* of reporting/service.py that drives it, an MQTT path that may lose,     *)
(* repeat and reorder data and acknowledgements, and the ReceiverStore     *)
(* that answers.                                                           *)
(*                                                                         *)
(* sender is where send_loop stands: "off" (no connection), "loop", or the *)
(* batch it has reserved and holds until the SDK rate allows the hand-off. *)
(***************************************************************************)
EXTENDS Outbox

CONSTANTS
    MaxReceipts,  \* the receiver's batch quota
    NetCap        \* messages the path holds at a time; it loses what does not fit

ASSUME DeliveryAssumption ==
    /\ MaxReceipts \in Nat \ {0} /\ NetCap \in Nat \ {0}
    /\ {"off", "loop"} \cap Batches = {}

VARIABLES
    sender,      \* "off", "loop", or the batch held for hand-off
    data,        \* batches in flight to the receiver
    acks,        \* acknowledgements in flight to the gateway
    handed,      \* history: batches the SDK has accepted at least once
    configs, receipts   \* the receiver, see ReceiverStore

Config  == "config"                \* the one configuration version the batches refer to
Payload == "payload"               \* the payload of a batch never changes

Receiver == INSTANCE ReceiverStore WITH
                Ids <- Batches, Digests <- {Payload}, Versions <- {Config}, Contents <- {Config},
                MaxConfigs <- 1

network == <<data, acks>>
receiver == <<configs, receipts>>
deliveryVars == <<vars, sender, data, acks, handed, configs, receipts>>

Message(b) == [id |-> b, digest |-> Payload, version |-> Config]

Ack == [id : Batches, status : {"STORED", "RETRY", "REJECT"}]

(* Fault: every final answer counts as stored. *)
StatusFinalIsStored(code) == IF code \in Receiver!Retryable THEN "RETRY" ELSE "STORED"

(* What the codes of an acknowledgement mean to OutboxStore.acknowledge. *)
Status(code) == IF code = "STORED" THEN "STORED"
                ELSE IF code \in Receiver!Retryable THEN "RETRY" ELSE "REJECT"

DeliveryInit ==
    /\ Init
    /\ sender = "off"
    /\ data = {} /\ acks = {} /\ handed = {}
    /\ Receiver!ReceiverInit

(* The path carries the data D and the acknowledgements A if it has room. *)
Carries(D, A) == Cardinality(D) + Cardinality(A) <= NetCap /\ data' = D /\ acks' = A

----------------------------------------------------------------------------
(* The gateway process. *)

GatewayStep(A) == A /\ UNCHANGED <<sender, network, handed, receiver>>

GatewayCrash == Crash /\ sender' = "off" /\ UNCHANGED <<network, handed, receiver>>

(* MqttConfigService is closed, and its send loop with it, before the pipeline. *)
GatewayClose == sender = "off" /\ GatewayStep(Close)

(* send_loop begins: the gate moves before anything is reserved. *)
Connect ==
    /\ sender = "off"
    /\ OpenGate
    /\ sender' = "loop"
    /\ UNCHANGED <<network, handed, receiver>>

LoopReserves(b) ==
    /\ sender = "loop"
    /\ Reserve(b)
    /\ sender' = b
    /\ UNCHANGED <<network, handed, receiver>>

LoopIdles(T) == sender = "loop" /\ GatewayStep(ReserveNothing(T))

(* The SDK takes the payload; nothing can come between the time check and it. *)
Submit ==
    /\ sender \in Batches /\ TimeOk
    /\ handed' = handed \cup {sender}
    /\ Carries(data \cup {sender}, acks) \/ UNCHANGED network
    /\ sender' = "loop"
    /\ UNCHANGED <<vars, receiver>>

(* The connection is gone, time is unavailable or the SDK refuses: the     *)
(* attempt is taken back (a batch that is no longer PENDING is left alone) *)
(* and the loop goes on or ends.                                           *)
SubmitFails ==
    /\ sender \in Batches
    /\ IF sender \in Pending THEN SubmissionFailed(sender) ELSE proc = "open" /\ UNCHANGED vars
    /\ sender' \in {"loop", "off"}
    /\ UNCHANGED <<network, handed, receiver>>

(* The send task is cancelled, or its storage call is refused: a batch it  *)
(* held stays reserved although it was never handed over.                  *)
Disconnect ==
    /\ sender # "off"
    /\ sender' = "off"
    /\ UNCHANGED <<vars, network, handed, receiver>>

(* An acknowledgement that is only counted: nothing was attempted, or the  *)
(* batch has ended and the answer does not say it was stored after all.    *)
Ignored(a) ==
    \/ ~Acknowledgeable(a.id)
    \/ a.status = "STORED" /\ StoredConflict(a.id)
    \/ a.status # "STORED" /\ a.id \in Dead

(* acknowledge. *)
ApplyAck(a) ==
    \/ a.status = "STORED" /\ AckStored(a.id)
    \/ a.status = "RETRY" /\ AckRetry(a.id)
    \/ a.status = "REJECT" /\ AckReject(a.id)
    \/ Ignored(a) /\ UNCHANGED vars

AckArrives(a) ==
    /\ a \in acks
    /\ proc = "open"
    /\ ApplyAck(a)
    /\ acks' \in {acks, acks \ {a}}
    /\ UNCHANGED <<sender, data, handed, receiver>>

----------------------------------------------------------------------------
(* The path and the receiver. *)

Lose ==
    /\ \/ \E b \in data : data' = data \ {b} /\ UNCHANGED acks
       \/ \E a \in acks : acks' = acks \ {a} /\ UNCHANGED data
    /\ UNCHANGED <<vars, sender, handed, receiver>>

(* The data of b is consumed or will arrive once more; the reply may be lost. *)
Replies(b, status) ==
    \E D \in {data, data \ {b}} :
        Carries(D, acks \cup {[id |-> b, status |-> status]}) \/ Carries(D, acks)

Arrives(b, clock, fits) ==
    /\ b \in data
    /\ Receiver!Receive(Message(b), clock, fits)
    /\ Replies(b, Status(Receiver!Answer(Message(b), clock, fits)))
    /\ UNCHANGED <<vars, sender, handed>>

(* The receiver's transaction rolls back. *)
ArrivesInVain(b) ==
    /\ b \in data
    /\ Replies(b, Status("STORAGE_ERROR"))
    /\ UNCHANGED <<vars, sender, handed, receiver>>

Install ==
    /\ Receiver!InstallConfig(Config, Config)
    /\ UNCHANGED <<vars, sender, network, handed>>

----------------------------------------------------------------------------

DeliveryNext ==
    \/ GatewayStep(Open) \/ GatewayClose \/ GatewayCrash
    \/ Connect \/ Disconnect
    \/ \E b \in Batches : \E a \in {"fresh", "ahead"} : GatewayStep(Enqueue(b, a))
    \/ \E b \in Batches : GatewayStep(EnqueueRefused(b))
    \/ \E b \in Batches : \E T \in SUBSET Expirable : GatewayStep(EnqueueRaised(b, T))
    \/ \E b \in Batches : LoopReserves(b)
    \/ \E T \in SUBSET Expirable : LoopIdles(T)
    \/ Submit \/ SubmitFails
    \/ \E a \in acks : AckArrives(a)
    \/ GatewayStep(TimeChanges)
    \/ \E b \in Batches : GatewayStep(AgeBatch(b))
    \/ GatewayStep(Tick)
    \/ Lose
    \/ \E b \in data, clock \in Receiver!Clocks, fits \in BOOLEAN : Arrives(b, clock, fits)
    \/ \E b \in data : ArrivesInVain(b)
    \/ Install

DeliverySpec == DeliveryInit /\ [][DeliveryNext]_deliveryVars

----------------------------------------------------------------------------
(* Properties. *)

DeliveryTypeOK ==
    /\ TypeOK
    /\ sender \in Batches \cup {"off", "loop"}
    /\ data \subseteq Batches
    /\ acks \subseteq Ack
    /\ handed \subseteq Batches
    /\ Receiver!ReceiverTypeOK

Received == Receiver!ReceivedIds

(* No silent loss: a batch whose enqueue returned True is a row of the     *)
(* gateway's database, has a receipt at the receiver, or was given up in   *)
(* the open, with a terminal fact and then a count in dead_pruned.         *)
NoSilentLoss ==
    \A b \in accepted :
        \/ b \in Durable
        \/ b \in Received
        \/ "pruned" \in outcome[b] /\ outcome[b] \cap TerminalFacts # {} /\ meta.deadPruned > 0

(* known_unsent is a promise: a batch the gateway ended as never sent was  *)
(* never accepted by the SDK, in this or an earlier process, and is not    *)
(* handed over afterwards, so the receiver cannot have it.                 *)
KnownUnsentIsHonest ==
    \A b \in Batches : "known_unsent" \in outcome[b] => b \notin handed \cup Received

(* The attempt is durable before the batch leaves: after a crash at any    *)
(* point an acknowledgement in flight still meets a row that was attempted *)
(* (it is never an unknown one) for as long as the row exists.             *)
AttemptBeforeHandOff ==
    \A b \in handed \cup data \cup {a.id : a \in acks} \cup Received :
        b \in Durable => rows[b].attempts > 0

(* What is recorded of a batch is true, and is said once: "stored" only    *)
(* with a receipt, never of a batch that was also ended as isolated or     *)
(* known unsent, and at most one end, however expiry, late and repeated    *)
(* acknowledgements and restarts interleave.                               *)
OutcomeIsTrue ==
    \A b \in Batches :
        /\ Cardinality(outcome[b] \cap TerminalFacts) <= 1
        /\ "stored" \in outcome[b] => /\ b \in Received
                                      /\ outcome[b] \cap {"isolated", "known_unsent"} = {}

(* The gateway, the path and the receiver together keep the contract of    *)
(* AtLeastOnce: rows are custody, receipts are what is stored, and what    *)
(* the DEAD quota pruned is what was given up.                             *)
GivenUp == {b \in Batches : "pruned" \in outcome[b]}

Contract == INSTANCE AtLeastOnce WITH
                custody <- Durable, stored <- Received, abandoned <- GivenUp

KeepsContract == Contract!Spec

----------------------------------------------------------------------------
(***************************************************************************)
(* The inductive invariant behind NoSilentLoss and KnownUnsentIsHonest:    *)
(* what holds of one batch, wherever it is.                                *)
(***************************************************************************)

(* A batch that was never accepted has left no trace. *)
UnknownIsTraceless(b) ==
    b \notin accepted => /\ rows[b].state = "ABSENT" /\ outcome[b] = {}
                         /\ b \notin handed /\ sender # b

(* The row and the recorded facts agree. *)
FactsFollowRow(b) ==
    /\ rows[b].state = "PENDING" => outcome[b] \cap TerminalFacts = {}
    /\ rows[b].state = "DEAD" => outcome[b] \cap TerminalFacts # {}
    /\ "pruned" \in outcome[b] => outcome[b] \cap TerminalFacts # {} /\ meta.deadPruned > 0

(* Whoever holds a copy of the batch got it through the SDK. *)
CopiesWereHanded(b) ==
    /\ b \in data => b \in handed
    /\ receipts[b] # Receiver!None => b \in handed
    /\ \A a \in acks : a.id = b =>
           b \in handed /\ (a.status = "STORED" => receipts[b] # Receiver!None)

(* A hand-off leaves a durable attempt, and a pending entry that knows it was sent. *)
HandOffIsRemembered(b) ==
    b \in handed => /\ rows[b].state # "ABSENT" => rows[b].attempts > 0
                    /\ rows[b].state = "PENDING" /\ proc # "down" => entries[b].everSent

(* While send_loop holds the batch, the attempt is durable, and taking it  *)
(* back would not forget an earlier hand-off.                              *)
HeldIsCautious(b) ==
    sender = b =>
        /\ proc = "open"
        /\ "known_unsent" \notin outcome[b]
        /\ rows[b].state # "ABSENT" => rows[b].attempts > 0
        /\ rows[b].state = "PENDING" =>
               entries[b].everSent /\ (b \in handed => entries[b].previousSent)

Unsent(b) == "known_unsent" \in outcome[b] => b \notin handed

NotLost(b) ==
    b \in accepted /\ rows[b].state = "ABSENT" =>
        receipts[b] # Receiver!None \/ "pruned" \in outcome[b]

BatchInv(b) ==
    /\ UnknownIsTraceless(b) /\ FactsFollowRow(b) /\ CopiesWereHanded(b) /\ HandOffIsRemembered(b)
    /\ HeldIsCautious(b) /\ Unsent(b) /\ NotLost(b)

DeliveryInv == \A b \in Batches : BatchInv(b)

=============================================================================
