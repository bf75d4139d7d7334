----------------------------- MODULE MCDelivery -----------------------------
(***************************************************************************)
(* Model-checking instance of Delivery.  A batch is one of two small ones  *)
(* or a larger one: two of them fit the quota in bytes, all three do not.  *)
(* An entry is charged more once it is read back and once it has ended, so *)
(* that the memory quota refuses an enqueue in some sessions and an open   *)
(* in others.  A behaviour has one of three scenarios.                     *)
(***************************************************************************)
EXTENDS Delivery

CONSTANTS b1, b2, b3

OneLarge == [b \in Batches |-> IF b = b3 THEN 2 ELSE 1]

GrowingCharge ==
    [b \in Batches |-> [f \in Forms |-> 2 + (IF f[1] = "enqueued" THEN 0 ELSE 1)
                                          + (IF f[2] = "dead" THEN 1 ELSE 0)]]

VARIABLE scenario

mcVars == <<deliveryVars, scenario>>

(* "exchange": everything that can happen to one batch on its way. *)
Exchange == scenario = "exchange" /\ DeliveryNext /\ Staged' \cup accepted' \subseteq {b1}

(* "quotas": the gateway alone, with all batches on one time basis, and    *)
(* the steps that change which rows exist and what they are charged.       *)
QuotaNext ==
    \/ (Open /\ ref' = ref) \/ OpenRefused \/ Close \/ Crash
    \/ \E b \in Batches : Enqueue(b, "fresh")
    \/ \E b \in Batches : EnqueueRefused(b)
    \/ \E b \in Batches : \E T \in SUBSET Expirable : EnqueueRaised(b, T)
    \/ \E b \in Batches : Reserve(b)
    \/ \E b \in Batches : AckReject(b)
    \/ TimeChanges
    \/ \E b \in Batches : AgeBatch(b)

Quotas == scenario = "quotas" /\ GatewayStep(QuotaNext)

(* "settling": two batches on hub time and a receiver with room for one,   *)
(* for the question whether everything settles.  The steps are those the   *)
(* answer turns on: crashes and restarts under another time basis,         *)
(* reconnects that drop a batch held for hand-off, data and answers that   *)
(* are lost, answers that are repeated or ask for a retry.  Failed calls   *)
(* and the loss of time, which "exchange" has, are left out, and so is     *)
(* expiry, which would settle a batch anyway.  The batches come in one     *)
(* order: which is first is only a name.  The path holds one message.      *)
SettlingNext ==
    \/ GatewayStep(Open) \/ GatewayStep(OpenRefused) \/ GatewayCrash
    \/ Connect \/ Disconnect
    \/ b1 \notin accepted /\ GatewayStep(Enqueue(b1, "fresh"))
    \/ b1 \in accepted /\ GatewayStep(Enqueue(b2, "fresh"))
    \/ ~valid /\ GatewayStep(TimeChanges)
    \/ \E b \in Batches : LoopReserves(b)
    \/ Submit
    \/ \E a \in acks : AckArrives(a)
    \/ GatewayStep(Tick)
    \/ \E b \in data, clock \in {"in time", "300 s ahead"} : Arrives(b, clock, TRUE)
    \/ \E b \in data : ArrivesInVain(b)
    \/ Install

Settles(A) ==
    /\ scenario = "settling"
    /\ A
    /\ Cardinality(data') + Cardinality(acks') <= 1
    /\ Platform'
    /\ UNCHANGED scenario

MCNext ==
    \/ Exchange /\ UNCHANGED scenario
    \/ Quotas /\ UNCHANGED scenario
    \/ Settles(SettlingNext)

(* Fairness.  The event loop runs the send loop and the retry clock; the   *)
(* SDK, the path and the receiver may fail any number of times but not     *)
(* every time: a batch that is submitted again and again gets through, is  *)
(* looked at by the receiver's checks, and an answer that is sent again    *)
(* and again arrives; a copy is not repeated for ever.                     *)
Delivers(b) == \E clock \in Receiver!Clocks, fits \in BOOLEAN : Arrives(b, clock, fits)

Ready == proc = "open" /\ TimeOk /\ Choice(Schedulable) # {}

CanSubmit ==
    sender \in Batches /\ TimeOk /\ Cardinality(data \cup {sender}) + Cardinality(acks) <= 1

(* <>[]E => []<><<A>>_v and []<>E => []<><<A>>_v are the weak and the      *)
(* strong fairness of A, E being when A is enabled.                        *)
Fairness ==
    /\ <>[](scenario = "settling" /\ sender = "loop" /\ Ready)
           => []<><<Settles(\E b \in Batches : LoopReserves(b))>>_mcVars
    /\ <>[](scenario = "settling" /\ \E b \in Batches : entries[b].due > 0)
           => []<><<Settles(GatewayStep(Tick))>>_mcVars
    /\ <>[](scenario = "settling" /\ configs[Config] = Receiver!None)
           => []<><<Settles(Install)>>_mcVars
    /\ <>[](scenario = "settling" /\ acks # {} /\ proc = "open")
           => []<><<Settles(\E a \in acks : AckArrives(a) /\ a \notin acks')>>_mcVars
    /\ []<>(scenario = "settling" /\ CanSubmit)
           => []<><<Settles(Submit /\ sender \in data')>>_mcVars
    /\ []<>(scenario = "settling" /\ data # {})
           => []<><<Settles(\E b \in data : Delivers(b) /\ acks # acks')>>_mcVars

MCInit ==
    /\ DeliveryInit
    /\ scenario \in {"exchange", "quotas", "settling"}
    /\ scenario \in {"quotas", "settling"} => Platform

MCSpec == MCInit /\ [][MCNext]_mcVars /\ Fairness

(* The gateway runs, is connected and has a valid time. *)
Calm == proc = "open" /\ sender # "off" /\ TimeOk

(* A row on another hub's time is not sent: it waits for maintenance. *)
Foreign(b) == Platform /\ rows[b].basis \notin {NoBasis, ref}

(* The receiver keeps answering RESOURCE_LIMIT, which is retried. *)
RefusedForRoom ==
    Cardinality(Received) >= MaxReceipts /\ \E b \in Pending : b \notin Received /\ ~Foreign(b)

(* Once the gateway stays up, connected and synchronised, every batch it   *)
(* has accepted is settled: stored and released, or ended as DEAD.  Two    *)
(* things excuse it: the batch is on the time basis of another hub, or the *)
(* receiver is full and refuses some batch again and again (which then     *)
(* also takes the credits a batch behind it would need).  Before that, any *)
(* number of crashes, reconnects and losses may have happened.  The third  *)
(* batch takes no part in "settling".                                      *)
EverythingSettles ==
    scenario = "settling" /\ <>[]Calm => \A b \in {b1, b2} :
        b \in accepted ~> rows[b].state # "PENDING" \/ Foreign(b) \/ RefusedForRoom

=============================================================================
