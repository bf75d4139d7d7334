--------------------------- MODULE DeliveryProofs ---------------------------
(***************************************************************************)
(* No accepted batch is lost in silence, known_unsent is honest and what   *)
(* is recorded of a batch is true, for every number of batches, every      *)
(* quota and every capacity of the path; and the delivery system           *)
(* implements the contract AtLeastOnce.                                    *)
(***************************************************************************)
EXTENDS Delivery, OutboxProofs

----------------------------------------------------------------------------
(* Delivery steps are Outbox steps. *)

(* Whatever the send loop, the path and the receiver do, the Outbox takes  *)
(* one of its own steps or none.                                           *)
LEMMA DeliveryRefinesOutbox == [DeliveryNext]_deliveryVars => [Next]_vars
<1> SUFFICES ASSUME [DeliveryNext]_deliveryVars PROVE [Next]_vars
  OBVIOUS
<1>1. CASE GatewayStep(Open) \/ GatewayClose \/ GatewayCrash \/ Connect
  BY <1>1 DEF GatewayStep, GatewayClose, GatewayCrash, Connect, Next, Operations
<1>2. CASE Disconnect \/ Submit \/ Lose \/ Install
  BY <1>2 DEF Disconnect, Submit, Lose, Install
<1>3. ASSUME NEW b \in Batches, NEW a \in {"fresh", "ahead"}, GatewayStep(Enqueue(b, a))
      PROVE  Next
  BY <1>3 DEF GatewayStep, Next, Operations
<1>4. ASSUME NEW b \in Batches, GatewayStep(EnqueueRefused(b)) PROVE Next
  BY <1>4 DEF GatewayStep, Next, Operations
<1>5. ASSUME NEW b \in Batches, NEW T \in SUBSET Expirable, GatewayStep(EnqueueRaised(b, T))
      PROVE  Next
  BY <1>5 DEF GatewayStep, Next, Operations
<1>6. ASSUME NEW b \in Batches, LoopReserves(b) PROVE Next
  BY <1>6 DEF LoopReserves, Next, Operations
<1>7. ASSUME NEW T \in SUBSET Expirable, LoopIdles(T) PROVE Next
  BY <1>7 DEF LoopIdles, GatewayStep, Next, Operations
<1>8. CASE SubmitFails
  BY <1>8 DEF SubmitFails, Next, Operations
<1>9. ASSUME NEW a \in acks, AckArrives(a) PROVE [Next]_vars
  <2>1. CASE Ignored(a) /\ UNCHANGED vars
    BY <2>1
  <2>2. CASE AckStored(a.id) \/ AckRetry(a.id) \/ AckReject(a.id)
    <3>1. a.id \in Batches
      BY <2>2 DEF AckStored, AckRetry, AckReject, Acknowledgeable, Tracked
    <3> QED BY <2>2, <3>1 DEF Next, Operations
  <2> QED BY <1>9, <2>1, <2>2 DEF AckArrives, ApplyAck
<1>10. ASSUME NEW b \in Batches, GatewayStep(AgeBatch(b)) PROVE Next
  BY <1>10 DEF GatewayStep, Next, Environment
<1>11. CASE GatewayStep(TimeChanges) \/ GatewayStep(Tick)
  BY <1>11 DEF GatewayStep, Next, Environment
<1>12. ASSUME NEW b \in data, NEW clock \in Receiver!Clocks, NEW fits \in BOOLEAN,
              Arrives(b, clock, fits)
       PROVE  UNCHANGED vars
  BY <1>12 DEF Arrives
<1>13. ASSUME NEW b \in data, ArrivesInVain(b) PROVE UNCHANGED vars
  BY <1>13 DEF ArrivesInVain
<1>14. CASE UNCHANGED deliveryVars
  BY <1>14 DEF deliveryVars
<1> QED BY <1>1, <1>2, <1>3, <1>4, <1>5, <1>6, <1>7, <1>8, <1>9, <1>10, <1>11, <1>12, <1>13,
           <1>14 DEF DeliveryNext

----------------------------------------------------------------------------
(* Types. *)

(* What the path carries after a reply is typed, and only what it carried  *)
(* before or the reply itself.                                             *)
LEMMA RepliesType ==
    ASSUME NEW b, NEW status, Replies(b, status)
    PROVE  data' \subseteq data /\ acks' \subseteq acks \cup {[id |-> b, status |-> status]}
BY DEF Replies, Carries

(* The receiver's step keeps its tables typed and touches only one receipt. *)
LEMMA ReceiveType ==
    ASSUME Receiver!ReceiverTypeOK, NEW b \in Batches, NEW clock, NEW fits,
           Receiver!Receive(Message(b), clock, fits)
    PROVE  /\ Receiver!ReceiverTypeOK'
           /\ receipts' = IF Receiver!Answer(Message(b), clock, fits) = "STORED"
                          THEN [receipts EXCEPT ![b] = Payload] ELSE receipts
<1>1. Message(b).id = b /\ Message(b).digest = Payload
  BY DEF Message
<1> QED BY <1>1 DEF Receiver!Receive, Receiver!ReceiverTypeOK

(* Every code is one of the three kinds of answer, and only STORED is STORED. *)
LEMMA StatusType ==
    ASSUME NEW code
    PROVE  /\ Status(code) \in {"STORED", "RETRY", "REJECT"}
           /\ Status(code) = "STORED" => code = "STORED"
BY DEF Status

(* Every step of the delivery system keeps the types. *)
LEMMA DeliveryTypeStep == DeliveryTypeOK /\ [DeliveryNext]_deliveryVars => DeliveryTypeOK'
<1> SUFFICES ASSUME DeliveryTypeOK, [DeliveryNext]_deliveryVars PROVE DeliveryTypeOK'
  OBVIOUS
<1>0. TypeOK'
  BY TypeStep, DeliveryRefinesOutbox DEF DeliveryTypeOK
<1> DEFINE Rest == /\ sender' \in Batches \cup {"off", "loop"}
                   /\ data' \subseteq Batches /\ acks' \subseteq Ack /\ handed' \subseteq Batches
                   /\ Receiver!ReceiverTypeOK'
<1> SUFFICES Rest
  BY <1>0 DEF DeliveryTypeOK
<1>1. ASSUME UNCHANGED receiver PROVE Receiver!ReceiverTypeOK'
  BY <1>1 DEF DeliveryTypeOK, Receiver!ReceiverTypeOK, receiver
<1>2. CASE UNCHANGED <<network, handed, receiver>> /\ sender' \in Batches \cup {"off", "loop"}
  BY <1>1, <1>2 DEF DeliveryTypeOK, network
<1>3. CASE UNCHANGED <<sender, network, handed, receiver>>
  BY <1>2, <1>3 DEF DeliveryTypeOK
<1>4. CASE GatewayCrash \/ Connect \/ Disconnect \/ SubmitFails
  BY <1>2, <1>4 DEF GatewayCrash, Connect, Disconnect, SubmitFails
<1>5. ASSUME NEW b \in Batches, LoopReserves(b) PROVE Rest
  BY <1>2, <1>5 DEF LoopReserves
<1>6. CASE Submit
  BY <1>1, <1>6 DEF Submit, Carries, DeliveryTypeOK, network
<1>7. ASSUME NEW a \in acks, AckArrives(a) PROVE Rest
  BY <1>1, <1>7 DEF AckArrives, DeliveryTypeOK
<1>8. CASE Lose
  BY <1>1, <1>8 DEF Lose, DeliveryTypeOK
<1>9. ASSUME NEW b \in data, NEW clock \in Receiver!Clocks, NEW fits \in BOOLEAN,
             Arrives(b, clock, fits)
      PROVE  Rest
  <2> DEFINE code == Receiver!Answer(Message(b), clock, fits)
  <2>1. b \in Batches
    BY DEF DeliveryTypeOK
  <2>2. [id |-> b, status |-> Status(code)] \in Ack
    BY <2>1, StatusType DEF Ack
  <2>3. data' \subseteq data /\ acks' \subseteq acks \cup {[id |-> b, status |-> Status(code)]}
    BY <1>9, RepliesType DEF Arrives
  <2>4. Receiver!ReceiverTypeOK'
    BY <1>9, <2>1, ReceiveType DEF Arrives, DeliveryTypeOK
  <2> HIDE DEF code
  <2> QED BY <1>9, <2>2, <2>3, <2>4 DEF Arrives, DeliveryTypeOK
<1>10. ASSUME NEW b \in data, ArrivesInVain(b) PROVE Rest
  <2> DEFINE st == Status("STORAGE_ERROR")
  <2>1. [id |-> b, status |-> st] \in Ack
    BY StatusType DEF Ack, DeliveryTypeOK
  <2>2. data' \subseteq data /\ acks' \subseteq acks \cup {[id |-> b, status |-> st]}
    BY <1>10, RepliesType DEF ArrivesInVain
  <2> HIDE DEF st
  <2> QED BY <1>1, <1>10, <2>1, <2>2 DEF ArrivesInVain, DeliveryTypeOK
<1>11. CASE Install
  <2>1. Receiver!ReceiverTypeOK'
    BY <1>11 DEF Install, Receiver!InstallConfig, Receiver!ReceiverTypeOK, DeliveryTypeOK
  <2> QED BY <1>11, <2>1 DEF Install, DeliveryTypeOK, network
<1>12. ASSUME NEW T \in SUBSET Expirable, LoopIdles(T) PROVE Rest
  BY <1>3, <1>12 DEF LoopIdles, GatewayStep
<1>13. CASE GatewayClose
  BY <1>3, <1>13 DEF GatewayClose, GatewayStep
<1>14. CASE UNCHANGED deliveryVars
  BY <1>3, <1>14 DEF deliveryVars, network, receiver
<1> HIDE DEF Rest
<1> QED BY <1>3, <1>4, <1>5, <1>6, <1>7, <1>8, <1>9, <1>10, <1>11, <1>12, <1>13, <1>14
        DEF DeliveryNext, GatewayStep

(* A new system is well typed. *)
LEMMA DeliveryTypeInit == DeliveryInit => DeliveryTypeOK
BY TypeInit DEF DeliveryInit, DeliveryTypeOK, Receiver!ReceiverInit, Receiver!ReceiverTypeOK

----------------------------------------------------------------------------
(* The inductive invariant. *)

(* DeliveryInv on well-typed states in which session and tables agree. *)
SafeInv == DeliveryTypeOK /\ Mirror /\ DeliveryInv

(* A step that leaves alone what is known about batch c, and at most takes *)
(* copies and acknowledgements of it off the path or the batch out of the  *)
(* send loop's hands.                                                      *)
Untouched(c) ==
    /\ c \in accepted' <=> c \in accepted
    /\ c \in handed' <=> c \in handed
    /\ receipts'[c] = receipts[c]
    /\ c \in data' => c \in data
    /\ \A a \in acks' : a.id = c => a \in acks
    /\ sender' = c => sender = c /\ proc' = proc

(* The parts of the invariant about copies and acknowledgements. *)
LEMMA UntouchedCopies ==
    ASSUME NEW c \in Batches, BatchInv(c), Untouched(c) PROVE CopiesWereHanded(c)'
<1>1. CopiesWereHanded(c)
  BY DEF BatchInv
<1>2. Receiver!None = "none"
  BY DEF Receiver!None
<1> QED BY <1>1, <1>2 DEF CopiesWereHanded, Untouched, Receiver!None

(* A step that does nothing to the batch keeps its invariant. *)
LEMMA FrameKeeps ==
    ASSUME NEW c \in Batches, BatchInv(c), Untouched(c),
           rows'[c] = rows[c], outcome'[c] = outcome[c],
           meta.deadPruned > 0 => meta'.deadPruned > 0,
           proc' # "down" => /\ proc # "down" /\ entries'[c].everSent = entries[c].everSent
                             /\ entries'[c].previousSent = entries[c].previousSent
    PROVE  BatchInv(c)'
<1>1. UnknownIsTraceless(c)' /\ FactsFollowRow(c)' /\ Unsent(c)' /\ NotLost(c)'
  BY DEF BatchInv, UnknownIsTraceless, FactsFollowRow, Unsent, NotLost, Untouched, Receiver!None
<1>2. HandOffIsRemembered(c)'
  BY DEF BatchInv, HandOffIsRemembered, Untouched
<1>3. HeldIsCautious(c)'
  BY DEF BatchInv, HeldIsCautious, Untouched
<1> QED BY <1>1, <1>2, <1>3, UntouchedCopies DEF BatchInv

(* deadPruned is positive as soon as something was pruned, and stays so. *)
LEMMA PrunedIsCounted ==
    ASSUME TypeOK, NEW T \in SUBSET Batches
    PROVE  /\ meta.deadPruned > 0 => MetaAfter(T).deadPruned > 0
           /\ Pruned(T) # {} => MetaAfter(T).deadPruned > 0
<1> DEFINE n == Cardinality(Pruned(T))
<1>1. n \in Nat /\ (Pruned(T) # {} => n > 0)
  <2>1. IsFiniteSet(Pruned(T)) /\ n \in Nat
    BY PrunedFinite
  <2>2. n = 0 <=> Pruned(T) = {}
    BY <2>1, FS_EmptySet
  <2> QED BY <2>1, <2>2
<1>2. meta.deadPruned \in 0..CounterCap
  BY DEF TypeOK
<1>3. MetaAfter(T).deadPruned = Min(meta.deadPruned + n, CounterCap)
  BY DEF MetaAfter, TypeOK
<1> HIDE DEF n
<1> QED BY <1>1, <1>2, <1>3, Constants DEF Min

(* Expiry, rejection and the pruning they cause keep the invariant of any  *)
(* batch c: a sent batch is not ended as known_unsent, and a pruned one    *)
(* has its terminal fact and is counted.                                   *)
LEMMA EndingKeeps ==
    ASSUME SafeInv, proc = "open", NEW T \in SUBSET Pending, NEW source \in Sources,
           NEW c \in Batches, Untouched(c), proc' = proc,
           rows'[c] = RowsAfter(T, source)[c], outcome'[c] = OutcomeAfter(T, source)[c],
           meta'.deadPruned = MetaAfter(T).deadPruned,
           entries'[c].everSent = EntriesAfter(T, source)[c].everSent,
           entries'[c].previousSent = EntriesAfter(T, source)[c].previousSent
    PROVE  BatchInv(c)'
<1>0. BatchInv(c) /\ TypeOK /\ rows[c] \in Row /\ entries[c] \in Entry /\ entries[c].row = rows[c]
  BY DEF SafeInv, DeliveryInv, Mirror, TypeOK
<1>1. T \in SUBSET Batches
  BY DEF Pending, Tracked
<1>2. /\ meta.deadPruned > 0 => meta'.deadPruned > 0
      /\ c \in Pruned(T) => meta'.deadPruned > 0
  BY <1>0, <1>1, PrunedIsCounted
<1>3. /\ c \in T => rows[c].state = "PENDING"
      /\ c \in Dead => rows[c].state = "DEAD"
  BY <1>0 DEF Pending, Dead
<1>4. AbsentRow.state = "ABSENT" /\ TerminalRow(rows[c], source).state = "DEAD"
      /\ TerminalRow(rows[c], source).attempts = rows[c].attempts
  BY <1>0 DEF AbsentRow, TerminalRow, Row
<1>5. TerminalFact(c, source) \in TerminalFacts
      /\ (TerminalFact(c, source) = "known_unsent" => ~entries[c].everSent)
  BY TerminalFactType DEF TerminalFact
<1>6. "pruned" \notin TerminalFacts /\ "pruned" # "known_unsent"
  BY DEF TerminalFacts
<1>7. CopiesWereHanded(c)'
  BY <1>0, UntouchedCopies
<1> USE DEF Untouched
<1>8. CASE c \notin Pruned(T) /\ c \notin T
  <2>1. rows'[c] = rows[c] /\ outcome'[c] = outcome[c] /\ EntriesAfter(T, source)[c] = entries[c]
    BY <1>0, <1>8, EndingCases
  <2> QED BY <1>0, <1>2, <2>1, FrameKeeps
<1>9. CASE c \in Pruned(T) \/ c \in T
  <2>1. rows[c].state \in {"PENDING", "DEAD"} /\ rows'[c].state \in {"ABSENT", "DEAD"}
    <3>1. CASE c \in Pruned(T)
      <4>1. c \in T \cup Dead /\ rows'[c] = AbsentRow
        BY <1>0, <3>1, EndingCases
      <4> QED BY <1>3, <1>4, <4>1
    <3>2. CASE c \notin Pruned(T)
      <4>1. c \in T /\ rows'[c] = TerminalRow(rows[c], source)
        BY <1>0, <1>9, <3>2, EndingCases
      <4> QED BY <1>3, <1>4, <4>1
    <3> QED BY <3>1, <3>2
  <2>2. c \in accepted /\ c \in accepted'
    BY <1>0, <2>1 DEF BatchInv, UnknownIsTraceless
  <2>3. UnknownIsTraceless(c)'
    BY <2>2 DEF UnknownIsTraceless
  <2>4. outcome[c] \subseteq outcome'[c] /\ outcome'[c] \cap TerminalFacts # {}
    <3>1. CASE c \in T
      BY <1>0, <1>5, <3>1, EndingCases
    <3>2. CASE c \notin T
      <4>1. c \in Dead /\ outcome'[c] = outcome[c] \cup {"pruned"}
        BY <1>0, <1>9, <3>2, EndingCases
      <4>2. outcome[c] \cap TerminalFacts # {}
        BY <1>0, <1>3, <4>1 DEF BatchInv, FactsFollowRow
      <4> QED BY <4>1, <4>2
    <3> QED BY <3>1, <3>2
  <2>5. "pruned" \in outcome'[c] => meta'.deadPruned > 0
    <3>1. CASE c \in Pruned(T)
      BY <1>2, <3>1
    <3>2. CASE c \notin Pruned(T)
      <4>1. "pruned" \in outcome'[c] => "pruned" \in outcome[c]
        BY <1>0, <1>5, <1>6, <1>9, <3>2, EndingCases
      <4> QED BY <1>0, <1>2, <4>1 DEF BatchInv, FactsFollowRow
    <3> QED BY <3>1, <3>2
  <2>6. FactsFollowRow(c)'
    BY <2>1, <2>4, <2>5 DEF FactsFollowRow
  <2>7. "known_unsent" \in outcome'[c] =>
           "known_unsent" \in outcome[c] \/ (rows[c].state = "PENDING" /\ ~entries[c].everSent)
    BY <1>0, <1>3, <1>5, <1>6, <1>9, EndingCases
  <2>8. Unsent(c)'
    BY <1>0, <2>7 DEF BatchInv, Unsent, HandOffIsRemembered
  <2>9. rows'[c].state # "ABSENT" => rows'[c].attempts = rows[c].attempts
    BY <1>0, <1>4, <1>9, EndingCases
  <2>10. HandOffIsRemembered(c)'
    BY <1>0, <2>1, <2>9 DEF BatchInv, HandOffIsRemembered
  <2>11. HeldIsCautious(c)'
    BY <1>0, <2>1, <2>7, <2>9 DEF BatchInv, HeldIsCautious
  <2>12. NotLost(c)'
    <3>1. rows'[c].state = "ABSENT" => "pruned" \in outcome'[c]
      BY <1>0, <1>4, <1>9, EndingCases
    <3> QED BY <3>1 DEF NotLost
  <2> QED BY <1>7, <2>3, <2>6, <2>8, <2>10, <2>11, <2>12 DEF BatchInv
<1> QED BY <1>8, <1>9

(* "off" and "loop" are not batches. *)
LEMMA IdleSender ==
    ASSUME NEW c \in Batches PROVE c # "off" /\ c # "loop"
BY DeliveryAssumption

(* enqueue: the new batch starts without a trace, the others only expire. *)
LEMMA EnqueueSafe ==
    ASSUME SafeInv, NEW b \in Batches, NEW a, GatewayStep(Enqueue(b, a)), NEW c \in Batches
    PROVE  BatchInv(c)'
<1>0. /\ TypeOK /\ Expirable \in SUBSET Pending /\ Expirable \in SUBSET Batches
      /\ proc = "open" /\ proc' = proc /\ b \notin accepted /\ accepted' = accepted \cup {b}
      /\ UNCHANGED <<sender, data, acks, handed, configs, receipts>>
  BY DEF SafeInv, Mirror, Expirable, Pending, Tracked, GatewayStep, Enqueue, EnqueueCalled, network, receiver
<1> DEFINE row == [state |-> "PENDING", attempts |-> 0, order |-> meta.nextOrder,
                   basis |-> ref, source |-> "NONE"]
           R == RowsAfter(Expirable, "AGE_EXPIRED")
           E == EntriesAfter(Expirable, "AGE_EXPIRED")
           O == OutcomeAfter(Expirable, "AGE_EXPIRED")
<1>1. R \in [Batches -> Row] /\ E \in [Batches -> Entry]
  BY <1>0, ExpireTypes
<1>2. rows' = [R EXCEPT ![b] = row] /\ outcome' = O
  BY DEF GatewayStep, Enqueue
<1>3. PICK cl : entries' = [E EXCEPT ![b] = BatchState(row, cl)]
  BY DEF GatewayStep, Enqueue
<1>4. meta'.deadPruned = MetaAfter(Expirable).deadPruned
  <2>1. meta' = [MetaAfter(Expirable) EXCEPT !.nextOrder = @ + 1, !.basis = IF Platform THEN ref ELSE @]
    BY DEF GatewayStep, Enqueue
  <2> QED BY <1>0, <2>1, MetaAfterType
<1>5. CASE c = b
  <2>1. BatchInv(b) /\ entries[b].row = rows[b]
    BY <1>0 DEF SafeInv, DeliveryInv, Mirror
  <2>2. rows[b].state = "ABSENT" /\ outcome[b] = {} /\ b \notin handed /\ sender # b
    BY <1>0, <2>1 DEF BatchInv, UnknownIsTraceless
  <2>3. b \notin Expirable /\ b \notin Dead
    BY <2>1, <2>2 DEF Expirable, Pending, Tracked, Dead
  <2>4. O[b] = {}
    <3>1. b \notin Pruned(Expirable)
      BY <2>3 DEF Pruned
    <3>2. O[b] = outcome[b]
      BY <1>0, <2>3, <3>1, EndingCases
    <3> QED BY <2>2, <3>2
  <2>5. rows'[b].state = "PENDING" /\ outcome'[b] = {} /\ b \in accepted'
    BY <1>0, <1>1, <1>2, <2>4
  <2>6. CopiesWereHanded(b)'
    BY <1>0, <2>1 DEF BatchInv, CopiesWereHanded, Receiver!None
  <2> QED BY <1>0, <1>5, <2>2, <2>5, <2>6
          DEF BatchInv, UnknownIsTraceless, FactsFollowRow, HandOffIsRemembered, HeldIsCautious,
              Unsent, NotLost
<1>6. CASE c # b
  <2>1. rows'[c] = R[c] /\ outcome'[c] = O[c] /\ entries'[c] = E[c]
    BY <1>1, <1>2, <1>3, <1>6
  <2>2. Untouched(c)
    BY <1>0, <1>6 DEF Untouched
  <2> QED BY <1>0, <1>4, <2>1, <2>2, EndingKeeps DEF Sources
<1> QED BY <1>5, <1>6

(* reserve: the held batch has a durable attempt, and previousSent         *)
(* remembers an earlier hand-off; the others only expire.                  *)
LEMMA ReserveSafe ==
    ASSUME SafeInv, NEW b \in Batches, LoopReserves(b), NEW c \in Batches
    PROVE  BatchInv(c)'
<1> DEFINE R == RowsAfter(Expirable, "AGE_EXPIRED")
           E == EntriesAfter(Expirable, "AGE_EXPIRED")
           e == Schedulable
<1>0. /\ TypeOK /\ Expirable \in SUBSET Pending /\ Expirable \in SUBSET Batches
      /\ proc = "open" /\ proc' = proc /\ accepted' = accepted /\ sender' = b
      /\ UNCHANGED <<data, acks, handed, configs, receipts>>
  BY DEF SafeInv, Mirror, Expirable, Pending, Tracked, LoopReserves, Reserve, network, receiver
<1>1. R \in [Batches -> Row] /\ E \in [Batches -> Entry] /\ e \in [Batches -> Entry]
  BY <1>0, ExpireTypes, SchedulableType
<1>2. /\ rows' = [R EXCEPT ![b].attempts = Min(@ + 1, AttemptCap)]
      /\ entries' = Reserved(e, b)
      /\ outcome' = OutcomeAfter(Expirable, "AGE_EXPIRED")
      /\ meta'.deadPruned = MetaAfter(Expirable).deadPruned
  BY DEF LoopReserves, Reserve
<1>3. e[c].everSent = E[c].everSent /\ e[c].previousSent = E[c].previousSent
  <2>1. ASSUME NEW x \in Entry
        PROVE  [x EXCEPT !.active = FALSE].everSent = x.everSent
               /\ [x EXCEPT !.active = FALSE].previousSent = x.previousSent
    BY DEF Entry
  <2> QED BY <1>1, <2>1 DEF Schedulable, Freed
<1>4. CASE c # b
  <2>1. rows'[c] = R[c] /\ entries'[c] = e[c]
    BY <1>1, <1>2, <1>4 DEF Reserved
  <2>2. Untouched(c)
    BY <1>0, <1>4 DEF Untouched
  <2> QED BY <1>0, <1>2, <1>3, <2>1, <2>2, EndingKeeps DEF Sources
<1>5. CASE c = b
  <2>1. e[b].row.state = "PENDING"
    BY DEF LoopReserves, Reserve, Choice, Oldest, Eligible
  <2>2. R[b].state = "PENDING"
    <3>1. Schedulable[b].row = R[b]
      BY <1>0, SchedulableRow DEF SafeInv
    <3> QED BY <2>1, <3>1
  <2>3. b \notin Pruned(Expirable) /\ b \notin Expirable
    <3>1. TerminalRow(rows[b], "AGE_EXPIRED").state = "DEAD" /\ AbsentRow.state = "ABSENT"
      BY <1>0 DEF TerminalRow, Row, AbsentRow, TypeOK
    <3> QED BY <1>0, <2>2, <3>1, EndingCases
  <2>4. R[b] = rows[b] /\ E[b] = entries[b] /\ outcome'[b] = outcome[b]
    BY <1>0, <1>2, <2>3, EndingCases
  <2>5. rows'[b].state = "PENDING" /\ rows'[b].attempts > 0
    <3>1. ASSUME NEW r \in Row
          PROVE  LET q == [r EXCEPT !.attempts = Min(@ + 1, AttemptCap)]
                 IN  q.state = r.state /\ q.attempts = Min(r.attempts + 1, AttemptCap)
      BY DEF Row
    <3>2. rows'[b] = [R[b] EXCEPT !.attempts = Min(@ + 1, AttemptCap)]
      BY <1>1, <1>2
    <3>3. Min(R[b].attempts + 1, AttemptCap) \in 1..AttemptCap
      BY <1>1, AttemptType
    <3> QED BY <1>1, <2>2, <3>1, <3>2, <3>3
  <2>6. entries'[b].everSent = TRUE /\ entries'[b].previousSent = entries[b].everSent
    <3>1. ASSUME NEW x \in Entry, NEW r, NEW w, NEW p
          PROVE  LET y == [x EXCEPT !.row = r, !.previousSent = p, !.due = w, !.active = TRUE,
                                    !.everSent = TRUE]
                 IN  y.everSent = TRUE /\ y.previousSent = p
      BY DEF Entry
    <3> DEFINE n == Min(e[b].row.attempts + 1, AttemptCap)
               w == IF n = 1 THEN FirstWait ELSE RetryWait
               q == [e[b].row EXCEPT !.attempts = n]
    <3>2. entries'[b] = [e[b] EXCEPT !.row = q, !.previousSent = e[b].everSent, !.due = w,
                                     !.active = TRUE, !.everSent = TRUE]
      BY <1>1, <1>2 DEF Reserved
    <3> HIDE DEF q, w
    <3>3. e[b] \in Entry
      BY <1>1
    <3>4. entries'[b].everSent = TRUE /\ entries'[b].previousSent = e[b].everSent
      BY <3>1, <3>2, <3>3
    <3> QED BY <1>3, <1>5, <2>4, <3>4
  <2>7. BatchInv(b) /\ rows[b].state = "PENDING" /\ proc # "down"
    BY <1>0, <2>2, <2>4 DEF SafeInv, DeliveryInv
  <2>8. b \in accepted /\ outcome[b] \cap TerminalFacts = {} /\ (b \in handed => entries[b].everSent)
    BY <2>7 DEF BatchInv, UnknownIsTraceless, FactsFollowRow, HandOffIsRemembered
  <2>9. "known_unsent" \notin outcome[b]
    BY <2>8 DEF TerminalFacts
  <2>10. UnknownIsTraceless(b)' /\ HandOffIsRemembered(b)' /\ Unsent(b)' /\ NotLost(b)'
    BY <1>0, <2>4, <2>5, <2>6, <2>8, <2>9 DEF UnknownIsTraceless, HandOffIsRemembered, Unsent, NotLost
  <2>11. FactsFollowRow(b)'
    <3>1. meta.deadPruned > 0 => meta'.deadPruned > 0
      BY <1>0, <1>2, PrunedIsCounted
    <3> QED BY <2>4, <2>5, <2>7, <2>8, <3>1 DEF BatchInv, FactsFollowRow
  <2>12. HeldIsCautious(b)'
    BY <1>0, <2>4, <2>5, <2>6, <2>8, <2>9 DEF HeldIsCautious
  <2>13. CopiesWereHanded(b)'
    BY <1>0, <2>7 DEF BatchInv, CopiesWereHanded, Receiver!None
  <2> QED BY <1>5, <2>10, <2>11, <2>12, <2>13 DEF BatchInv
<1> QED BY <1>4, <1>5

(* Steps that change nothing of the entries but deadlines, credits and classes. *)
LEMMA EntryFrame ==
    ASSUME SafeInv, NEW c \in Batches, Untouched(c), rows' = rows, outcome' = outcome, meta' = meta,
           proc' = proc, entries'[c].everSent = entries[c].everSent,
           entries'[c].previousSent = entries[c].previousSent
    PROVE  BatchInv(c)'
<1>1. BatchInv(c)
  BY DEF SafeInv, DeliveryInv
<1> QED BY <1>1, FrameKeeps

(* start, restart, close and death of the process: what the session forgets *)
(* is still in the attempt counts.                                          *)
LEMMA ProcessSafe ==
    ASSUME SafeInv, NEW c \in Batches, GatewayStep(Open) \/ GatewayClose \/ GatewayCrash
    PROVE  BatchInv(c)'
<1>0. BatchInv(c) /\ rows[c] \in Row /\ entries[c] \in Entry
  BY DEF SafeInv, DeliveryInv, Mirror, TypeOK
<1>1. CASE GatewayStep(Open)
  <2>0. proc # "open" /\ sender # c /\ proc' = "open"
    BY <1>0, <1>1 DEF GatewayStep, Open, BatchInv, HeldIsCautious
  <2>1. Untouched(c)
    BY <1>1, <2>0 DEF GatewayStep, Open, Untouched, network, receiver, history
  <2>2. rows' = rows /\ outcome' = outcome /\ meta' = meta /\ entries'[c] = Attached(c)
        /\ UNCHANGED <<sender, handed, accepted, receipts>>
    BY <1>1 DEF GatewayStep, Open, durable, history, receiver
  <2>3. c \in handed /\ rows[c].state = "PENDING" => entries'[c].everSent
    <3> SUFFICES ASSUME c \in handed, rows[c].state = "PENDING" PROVE Attached(c).everSent
      BY <2>2
    <3>1. rows[c].attempts > 0 /\ (proc # "down" => entries[c].everSent)
      BY <1>0 DEF BatchInv, HandOffIsRemembered
    <3>2. CASE c \in Tracked
      <4>1. proc # "down"
        BY <3>2 DEF Tracked, SafeInv, Mirror, NoEntry, BatchState, AbsentRow
      <4>2. [entries[c] EXCEPT !.row = rows[c],
                               !.origin = IF @ = "enqueued" THEN "reread" ELSE @].everSent
            = entries[c].everSent
        BY <1>0 DEF Entry
      <4> QED BY <3>1, <3>2, <4>1, <4>2 DEF Attached
    <3>3. CASE c \notin Tracked
      <4>1. c \in Durable
        BY DEF Durable
      <4>2. [BatchState(rows[c], "history") EXCEPT
               !.due = IF rows[c].attempts > 0 THEN RetryWait ELSE 0,
               !.everSent = rows[c].attempts > 0, !.source = rows[c].source,
               !.origin = "restored"].everSent
            = (rows[c].attempts > 0)
        BY DEF BatchState
      <4> QED BY <3>1, <3>3, <4>1, <4>2 DEF Attached
    <3> QED BY <3>2, <3>3
  <2>4. CopiesWereHanded(c)'
    BY <1>0, <2>1, UntouchedCopies
  <2> QED BY <1>0, <2>0, <2>2, <2>3, <2>4
          DEF BatchInv, UnknownIsTraceless, FactsFollowRow, HandOffIsRemembered, HeldIsCautious,
              Unsent, NotLost, Receiver!None
<1>2. CASE GatewayClose
  <2>1. sender # c
    BY <1>2, IdleSender DEF GatewayClose
  <2>2. Untouched(c)
    BY <1>2, <2>1 DEF GatewayClose, GatewayStep, Close, Untouched, network, receiver, history
  <2> QED BY <1>0, <1>2, <2>2, FrameKeeps DEF GatewayClose, GatewayStep, Close, durable, history
<1>3. CASE GatewayCrash
  <2>1. sender' # c
    BY <1>3, IdleSender DEF GatewayCrash
  <2>2. Untouched(c)
    BY <1>3, <2>1 DEF GatewayCrash, Crash, Untouched, network, receiver, history
  <2> QED BY <1>0, <1>3, <2>2, FrameKeeps DEF GatewayCrash, Crash, durable, history
<1> QED BY <1>1, <1>2, <1>3

(* The send loop around the SDK call. *)
LEMMA SenderSafe ==
    ASSUME SafeInv, NEW c \in Batches, Connect \/ Disconnect \/ Submit \/ SubmitFails
    PROVE  BatchInv(c)'
<1>0. BatchInv(c) /\ entries[c] \in Entry /\ entries \in [Batches -> Entry]
  BY DEF SafeInv, DeliveryInv, Mirror, TypeOK
<1>1. CASE Connect
  <2>1. [entries[c] EXCEPT !.category = "history"].everSent = entries[c].everSent
        /\ [entries[c] EXCEPT !.category = "history"].previousSent = entries[c].previousSent
    BY <1>0 DEF Entry
  <2>2. entries'[c] = [entries[c] EXCEPT !.category = "history"]
    BY <1>1 DEF Connect, OpenGate
  <2>3. Untouched(c)
    BY <1>1, IdleSender DEF Connect, OpenGate, Untouched, network, receiver, history
  <2> QED BY <1>1, <2>1, <2>2, <2>3, EntryFrame DEF Connect, OpenGate, durable, history
<1>2. CASE Disconnect
  <2>1. Untouched(c)
    BY <1>2, IdleSender DEF Disconnect, vars, Untouched, network, receiver
  <2> QED BY <1>2, <2>1, EntryFrame DEF Disconnect, vars
<1>3. CASE Submit
  <2>0. UNCHANGED vars /\ UNCHANGED receiver /\ handed' = handed \cup {sender} /\ sender' = "loop"
        /\ acks' = acks /\ data' \subseteq data \cup {sender}
    BY <1>3 DEF Submit, Carries, network
  <2>1. CASE c # sender
    <3>1. Untouched(c)
      BY <2>0, <2>1, IdleSender DEF vars, receiver, Untouched
    <3> QED BY <2>0, <3>1, EntryFrame DEF vars
  <2>2. CASE c = sender
    <3>1. /\ c \in accepted /\ "known_unsent" \notin outcome[c]
          /\ rows[c].state # "ABSENT" => rows[c].attempts > 0
          /\ rows[c].state = "PENDING" => entries[c].everSent
      BY <1>0, <2>2 DEF BatchInv, UnknownIsTraceless, HeldIsCautious
    <3>2. sender' # c /\ c \in handed'
      BY <2>0, <2>2, IdleSender
    <3>3. CopiesWereHanded(c)'
      BY <1>0, <2>0, <3>2 DEF BatchInv, CopiesWereHanded, receiver, Receiver!None
    <3>4. FactsFollowRow(c)' /\ NotLost(c)'
      BY <1>0, <2>0 DEF BatchInv, FactsFollowRow, NotLost, vars, receiver, Receiver!None
    <3> QED BY <2>0, <3>1, <3>2, <3>3, <3>4
            DEF BatchInv, UnknownIsTraceless, HandOffIsRemembered, HeldIsCautious, Unsent, vars
  <2> QED BY <2>1, <2>2
<1>4. CASE SubmitFails
  <2>0. sender' # c /\ sender \in Batches
    BY <1>4, IdleSender DEF SubmitFails
  <2>1. Untouched(c)
    BY <1>4, <2>0 DEF SubmitFails, SubmissionFailed, vars, Untouched, network, receiver, history
  <2>2. CASE UNCHANGED vars
    BY <2>1, <2>2, EntryFrame DEF vars
  <2>3. CASE SubmissionFailed(sender) /\ sender \in Pending
    <3> DEFINE x == [entries[sender] EXCEPT !.everSent = entries[sender].previousSent, !.active = FALSE]
    <3>1. entries' = [entries EXCEPT ![sender] = x]
      BY <2>3 DEF SubmissionFailed
    <3>2. UNCHANGED <<rows, meta, proc, accepted, outcome, handed, receipts>>
      BY <1>4, <2>3 DEF SubmitFails, SubmissionFailed, durable, history, receiver
    <3>3. CASE c # sender
      <4>1. entries'[c] = entries[c]
        BY <1>0, <3>1, <3>3
      <4> QED BY <2>1, <3>2, <4>1, EntryFrame
    <3>4. CASE c = sender
      <4>1. entries[c] \in Entry
        BY <1>0
      <4>2. [entries[c] EXCEPT !.everSent = entries[c].previousSent, !.active = FALSE].everSent
               = entries[c].previousSent
        BY <4>1 DEF Entry
      <4>3. entries'[c].everSent = entries[c].previousSent
        BY <1>0, <3>1, <3>4, <4>2
      <4>4. rows[c].state = "PENDING" /\ c \in handed => entries'[c].everSent
        BY <1>0, <3>4, <4>3 DEF BatchInv, HeldIsCautious
      <4>5. HandOffIsRemembered(c)'
        BY <1>0, <3>2, <4>4 DEF BatchInv, HandOffIsRemembered
      <4>6. CopiesWereHanded(c)'
        BY <1>0, <2>1, UntouchedCopies
      <4> QED BY <1>0, <2>0, <3>2, <4>5, <4>6
              DEF BatchInv, UnknownIsTraceless, FactsFollowRow, HeldIsCautious, Unsent, NotLost,
                  Receiver!None
    <3> QED BY <3>3, <3>4
  <2> QED BY <1>4, <2>2, <2>3 DEF SubmitFails
<1> QED BY <1>1, <1>2, <1>3, <1>4

(* An acknowledgement, first, repeated or late. *)
LEMMA AckSafe ==
    ASSUME SafeInv, NEW c \in Batches, NEW a \in acks, AckArrives(a)
    PROVE  BatchInv(c)'
<1>0. BatchInv(c) /\ TypeOK /\ entries \in [Batches -> Entry] /\ entries[c] \in Entry
      /\ a.id \in Batches /\ BatchInv(a.id) /\ proc = "open"
      /\ rows \in [Batches -> Row] /\ outcome \in [Batches -> SUBSET Facts]
  BY DEF SafeInv, DeliveryInv, Mirror, TypeOK, DeliveryTypeOK, Ack, AckArrives
<1>1. UNCHANGED <<sender, data, handed, receiver>> /\ acks' \subseteq acks
  BY DEF AckArrives
<1>2. CASE UNCHANGED vars
  <2>1. Untouched(c)
    BY <1>1, <1>2 DEF Untouched, vars, receiver
  <2> QED BY <1>2, <2>1, EntryFrame DEF vars
<1>3. CASE a.status = "STORED" /\ AckStored(a.id)
  <2>0. /\ UNCHANGED <<meta, proc, accepted>>
        /\ rows' = [rows EXCEPT ![a.id] = AbsentRow] /\ entries' = [entries EXCEPT ![a.id] = NoEntry]
    BY <1>3 DEF AckStored
  <2>1. Untouched(c)
    BY <1>1, <2>0 DEF Untouched, receiver
  <2>2. CASE c # a.id
    <3>1. rows'[c] = rows[c] /\ entries'[c] = entries[c] /\ outcome'[c] = outcome[c]
      BY <1>0, <1>3, <2>2 DEF AckStored
    <3> QED BY <1>0, <2>0, <2>1, <3>1, FrameKeeps
  <2>3. CASE c = a.id
    <3>1. rows'[c].state = "ABSENT" /\ rows[c].state # "ABSENT"
      <4>1. entries[c].row.state # "ABSENT"
        BY <1>3, <2>3 DEF AckStored, Acknowledgeable, Tracked
      <4> QED BY <1>0, <2>0, <2>3, <4>1 DEF SafeInv, Mirror, AbsentRow
    <3>2. c \in accepted /\ receipts[c] # Receiver!None
      BY <1>0, <1>3, <2>3, <3>1 DEF BatchInv, UnknownIsTraceless, CopiesWereHanded
    <3>3. outcome[c] \subseteq outcome'[c]
          /\ outcome'[c] \subseteq outcome[c] \cup {"stored", "late_stored"}
      BY <1>0, <1>3, <2>3 DEF AckStored
    <3>4. ("known_unsent" \in outcome'[c] => "known_unsent" \in outcome[c])
          /\ ("pruned" \in outcome'[c] => "pruned" \in outcome[c])
      BY <3>3
    <3>5. FactsFollowRow(c)'
      BY <1>0, <2>0, <3>1, <3>3, <3>4 DEF BatchInv, FactsFollowRow
    <3>6. CopiesWereHanded(c)'
      BY <1>0, <2>1, UntouchedCopies
    <3>7. UnknownIsTraceless(c)' /\ HandOffIsRemembered(c)' /\ NotLost(c)'
      BY <1>1, <2>0, <3>1, <3>2 DEF UnknownIsTraceless, HandOffIsRemembered, NotLost, receiver, Receiver!None
    <3>8. HeldIsCautious(c)' /\ Unsent(c)'
      BY <1>0, <1>1, <2>0, <3>1, <3>4 DEF BatchInv, HeldIsCautious, Unsent
    <3> QED BY <3>5, <3>6, <3>7, <3>8 DEF BatchInv
  <2> QED BY <2>2, <2>3
<1>4. CASE AckRetry(a.id)
  <2>1. Untouched(c)
    BY <1>1, <1>4 DEF Untouched, receiver, AckRetry, history
  <2>2. entries' = [entries EXCEPT ![a.id] = [entries[a.id] EXCEPT !.due = RetryWait, !.active = FALSE]]
    BY <1>4 DEF AckRetry
  <2>3. ASSUME NEW x \in Entry
        PROVE  LET y == [x EXCEPT !.due = RetryWait, !.active = FALSE]
               IN  y.everSent = x.everSent /\ y.previousSent = x.previousSent
    BY DEF Entry
  <2>4. entries'[c].everSent = entries[c].everSent /\ entries'[c].previousSent = entries[c].previousSent
    <3>1. CASE c = a.id
      <4>1. entries'[c] = [entries[c] EXCEPT !.due = RetryWait, !.active = FALSE]
        BY <1>0, <2>2, <3>1
      <4> QED BY <1>0, <2>3, <4>1
    <3>2. CASE c # a.id
      BY <1>0, <2>2, <3>2
    <3> QED BY <3>1, <3>2
  <2> QED BY <1>4, <2>1, <2>4, EntryFrame DEF AckRetry, durable, history
<1>5. CASE AckReject(a.id)
  <2>1. Untouched(c)
    BY <1>1, <1>5 DEF Untouched, receiver, AckReject
  <2>2. {a.id} \in SUBSET Pending
    <3>1. a.id \in Tracked /\ a.id \notin Dead
      BY <1>5 DEF AckReject, Acknowledgeable
    <3>2. entries[a.id].row.state \in {"ABSENT", "PENDING", "DEAD"}
      BY <1>0 DEF Entry, Row
    <3> QED BY <3>1, <3>2 DEF Pending, Tracked, Dead
  <2> QED BY <1>0, <1>5, <2>1, <2>2, EndingKeeps DEF AckReject, Sources
<1> QED BY <1>2, <1>3, <1>4, <1>5 DEF AckArrives, ApplyAck

(* The path, the receiver and the passing of time. *)
LEMMA PathSafe ==
    ASSUME SafeInv, NEW c \in Batches, UNCHANGED <<vars, sender, handed>>,
           NEW b \in data, NEW status,
           data' \subseteq data, acks' \subseteq acks \cup {[id |-> b, status |-> status]},
           receipts' \in {receipts, [receipts EXCEPT ![b] = Payload]},
           status = "STORED" => receipts' = [receipts EXCEPT ![b] = Payload]
    PROVE  BatchInv(c)'
<1>0. BatchInv(c) /\ b \in Batches /\ BatchInv(b) /\ receipts \in [Batches -> {Payload, "none"}]
  BY DEF SafeInv, DeliveryInv, DeliveryTypeOK, Receiver!ReceiverTypeOK, Receiver!None
<1>1. b \in handed
  BY <1>0 DEF BatchInv, CopiesWereHanded
<1>2. Payload # "none"
  BY DEF Payload
<1>3. /\ receipts[c] # "none" => receipts'[c] # "none"
      /\ receipts'[c] # "none" => receipts[c] # "none" \/ c = b
      /\ status = "STORED" => receipts'[b] # "none"
  BY <1>0, <1>2
<1>4. CopiesWereHanded(c)'
  <2>1. c \in data' => c \in handed'
    BY <1>0 DEF BatchInv, CopiesWereHanded
  <2>2. receipts'[c] # "none" => c \in handed'
    BY <1>0, <1>1, <1>3 DEF BatchInv, CopiesWereHanded, Receiver!None
  <2>3. ASSUME NEW x \in acks', x.id = c
        PROVE  c \in handed' /\ (x.status = "STORED" => receipts'[c] # "none")
    <3>1. CASE x \in acks
      BY <1>0, <1>3, <2>3, <3>1 DEF BatchInv, CopiesWereHanded, Receiver!None
    <3>2. CASE x = [id |-> b, status |-> status]
      BY <1>1, <1>3, <2>3, <3>2
    <3> QED BY <3>1, <3>2
  <2> QED BY <2>1, <2>2, <2>3 DEF CopiesWereHanded, Receiver!None
<1>5. NotLost(c)'
  BY <1>0, <1>3 DEF BatchInv, NotLost, vars, Receiver!None
<1> QED BY <1>0, <1>4, <1>5
        DEF BatchInv, UnknownIsTraceless, FactsFollowRow, HandOffIsRemembered, HeldIsCautious,
            Unsent, vars

(* Every step keeps the invariant of every batch. *)
LEMMA SafeStep == SafeInv /\ [DeliveryNext]_deliveryVars => SafeInv'
<1> SUFFICES ASSUME SafeInv, [DeliveryNext]_deliveryVars PROVE SafeInv'
  OBVIOUS
<1>0. DeliveryTypeOK' /\ Mirror'
  BY DeliveryTypeStep, DeliveryRefinesOutbox, MirrorStep DEF SafeInv
<1> SUFFICES ASSUME NEW c \in Batches PROVE BatchInv(c)'
  BY <1>0 DEF SafeInv, DeliveryInv
<1>a. BatchInv(c) /\ TypeOK /\ entries[c] \in Entry /\ Expirable \in SUBSET Pending
      /\ data \subseteq Batches
  BY DEF SafeInv, DeliveryInv, Mirror, TypeOK, Expirable, DeliveryTypeOK
<1>1. CASE GatewayStep(Open) \/ GatewayClose \/ GatewayCrash
  BY <1>1, ProcessSafe
<1>2. CASE Connect \/ Disconnect \/ Submit \/ SubmitFails
  BY <1>2, SenderSafe
<1>3. ASSUME NEW b \in Batches, NEW a \in {"fresh", "ahead"}, GatewayStep(Enqueue(b, a))
      PROVE  BatchInv(c)'
  BY <1>3, EnqueueSafe
<1>4. ASSUME NEW b \in Batches, GatewayStep(EnqueueRefused(b)) PROVE BatchInv(c)'
  <2>1. Untouched(c)
    BY <1>4 DEF GatewayStep, EnqueueRefused, Untouched, network, receiver
  <2>2. meta'.deadPruned = MetaAfter(Expirable).deadPruned
    <3>1. Expirable \in SUBSET Batches
      BY ExpirableSubset
    <3> QED BY <1>4, <1>a, <3>1, MetaAfterType DEF GatewayStep, EnqueueRefused
  <2> QED BY <1>4, <1>a, <2>1, <2>2, EndingKeeps
          DEF GatewayStep, EnqueueRefused, EnqueueCalled, Expire, Sources
<1>5. ASSUME NEW b \in Batches, NEW T \in SUBSET Expirable, GatewayStep(EnqueueRaised(b, T))
      PROVE  BatchInv(c)'
  <2>1. Untouched(c)
    BY <1>5 DEF GatewayStep, EnqueueRaised, Untouched, network, receiver
  <2>2. T \in SUBSET Pending
    BY <1>a
  <2> QED BY <1>5, <2>1, <2>2, EndingKeeps
          DEF GatewayStep, EnqueueRaised, EnqueueCalled, Expire, Sources
<1>6. ASSUME NEW b \in Batches, LoopReserves(b) PROVE BatchInv(c)'
  BY <1>6, ReserveSafe
<1>7. ASSUME NEW T \in SUBSET Expirable, LoopIdles(T) PROVE BatchInv(c)'
  <2>1. Untouched(c)
    BY <1>7 DEF LoopIdles, GatewayStep, ReserveNothing, Untouched, network, receiver
  <2>2. T \in SUBSET Pending
    BY <1>a
  <2>3. Schedulable[c].everSent = EntriesAfter(Expirable, "AGE_EXPIRED")[c].everSent
        /\ Schedulable[c].previousSent = EntriesAfter(Expirable, "AGE_EXPIRED")[c].previousSent
    <3>1. EntriesAfter(Expirable, "AGE_EXPIRED") \in [Batches -> Entry]
      BY <1>a, AfterTypes DEF Sources
    <3>2. ASSUME NEW x \in Entry
          PROVE  [x EXCEPT !.active = FALSE].everSent = x.everSent
                 /\ [x EXCEPT !.active = FALSE].previousSent = x.previousSent
      BY DEF Entry
    <3> QED BY <3>1, <3>2 DEF Schedulable, Freed
  <2>4. /\ entries'[c].everSent = EntriesAfter(T, "AGE_EXPIRED")[c].everSent
        /\ entries'[c].previousSent = EntriesAfter(T, "AGE_EXPIRED")[c].previousSent
    BY <1>7, <2>3 DEF LoopIdles, GatewayStep, ReserveNothing
  <2> QED BY <1>7, <2>1, <2>2, <2>4, EndingKeeps
          DEF LoopIdles, GatewayStep, ReserveNothing, Expire, Sources
<1>8. ASSUME NEW a \in acks, AckArrives(a) PROVE BatchInv(c)'
  BY <1>8, AckSafe
<1>9. CASE GatewayStep(TimeChanges) \/ \E b \in Batches : GatewayStep(AgeBatch(b))
  <2>1. Untouched(c)
    BY <1>9 DEF GatewayStep, TimeChanges, AgeBatch, Untouched, network, receiver, history
  <2> QED BY <1>9, <2>1, EntryFrame DEF GatewayStep, TimeChanges, AgeBatch, durable, session, history
<1>10. CASE GatewayStep(Tick)
  <2>1. Untouched(c)
    BY <1>10 DEF GatewayStep, Tick, Untouched, network, receiver, history
  <2>2. ASSUME NEW n
        PROVE  [entries[c] EXCEPT !.due = n].everSent = entries[c].everSent
               /\ [entries[c] EXCEPT !.due = n].previousSent = entries[c].previousSent
    BY <1>a DEF Entry
  <2>3. entries'[c] = [entries[c] EXCEPT !.due = IF @ > 0 THEN @ - 1 ELSE 0]
    BY <1>10 DEF GatewayStep, Tick
  <2> QED BY <1>10, <2>1, <2>2, <2>3, EntryFrame DEF GatewayStep, Tick, durable, history
<1>11. CASE Lose \/ Install
  <2>1. Untouched(c)
    BY <1>11 DEF Lose, Install, Receiver!InstallConfig, vars, Untouched, network, receiver
  <2> QED BY <1>11, <2>1, EntryFrame DEF Lose, Install, vars
<1>12. ASSUME NEW b \in data, NEW clock \in Receiver!Clocks, NEW fits \in BOOLEAN,
              Arrives(b, clock, fits)
       PROVE  BatchInv(c)'
  <2> DEFINE code == Receiver!Answer(Message(b), clock, fits)
  <2>1. receipts' = IF code = "STORED" THEN [receipts EXCEPT ![b] = Payload] ELSE receipts
    BY <1>12, <1>a, ReceiveType DEF Arrives, SafeInv, DeliveryTypeOK
  <2>2. data' \subseteq data /\ acks' \subseteq acks \cup {[id |-> b, status |-> Status(code)]}
        /\ UNCHANGED <<vars, sender, handed>>
    BY <1>12, RepliesType DEF Arrives
  <2>3. Status(code) = "STORED" => code = "STORED"
    BY StatusType
  <2> HIDE DEF code
  <2> QED BY <2>1, <2>2, <2>3, PathSafe
<1>13. ASSUME NEW b \in data, ArrivesInVain(b) PROVE BatchInv(c)'
  <2> DEFINE st == Status("STORAGE_ERROR")
  <2>1. data' \subseteq data /\ acks' \subseteq acks \cup {[id |-> b, status |-> st]}
        /\ UNCHANGED <<vars, sender, handed>> /\ receipts' = receipts
    BY <1>13, RepliesType DEF ArrivesInVain, receiver
  <2>2. st # "STORED"
    BY StatusType
  <2> HIDE DEF st
  <2> QED BY <2>1, <2>2, PathSafe
<1>14. CASE UNCHANGED deliveryVars
  <2>1. Untouched(c)
    BY <1>14 DEF deliveryVars, vars, Untouched
  <2> QED BY <1>14, <2>1, EntryFrame DEF deliveryVars, vars
<1> QED BY <1>1, <1>2, <1>3, <1>4, <1>5, <1>6, <1>7, <1>8, <1>9, <1>10, <1>11, <1>12, <1>13,
           <1>14 DEF DeliveryNext

(* A new system satisfies the invariant. *)
LEMMA SafeInit == DeliveryInit => SafeInv
<1> SUFFICES ASSUME DeliveryInit PROVE SafeInv
  OBVIOUS
<1>1. DeliveryTypeOK /\ Mirror
  BY DeliveryTypeInit, MirrorInit DEF DeliveryInit
<1>2. ASSUME NEW b \in Batches PROVE BatchInv(b)
  BY IdleSender
     DEF DeliveryInit, Init, Receiver!ReceiverInit, Receiver!None, AbsentRow, BatchInv, UnknownIsTraceless,
         FactsFollowRow, CopiesWereHanded, HandOffIsRemembered, HeldIsCautious, Unsent, NotLost
<1> QED BY <1>1, <1>2 DEF SafeInv, DeliveryInv

(* The inductive invariant holds of the delivery system: what is known of  *)
(* each batch, in the tables, the session, the send loop, on the path and  *)
(* at the receiver, stays consistent.                                      *)
THEOREM DeliveryInvariant == DeliverySpec => []SafeInv
BY SafeInit, SafeStep, PTL DEF DeliverySpec

(* The delivery system is type correct. *)
THEOREM DeliveryTypeCorrect == DeliverySpec => []DeliveryTypeOK
<1>1. SafeInv => DeliveryTypeOK
  BY DEF SafeInv
<1> QED BY <1>1, DeliveryInvariant, PTL

(* No batch whose enqueue returned True is lost in silence, whatever the   *)
(* number of batches and the quotas, across crashes, retries and losses.   *)
THEOREM NothingIsLostSilently == DeliverySpec => []NoSilentLoss
<1>1. SafeInv => NoSilentLoss
  <2> SUFFICES ASSUME SafeInv, NEW b \in accepted
               PROVE  \/ b \in Durable \/ b \in Received
                      \/ /\ "pruned" \in outcome[b] /\ outcome[b] \cap TerminalFacts # {}
                         /\ meta.deadPruned > 0
    BY DEF NoSilentLoss
  <2>1. b \in Batches /\ BatchInv(b)
    BY DEF SafeInv, Mirror, TypeOK, DeliveryInv
  <2>2. rows[b].state # "ABSENT" \/ receipts[b] # Receiver!None \/ "pruned" \in outcome[b]
    BY <2>1 DEF BatchInv, NotLost
  <2>3. "pruned" \in outcome[b] => outcome[b] \cap TerminalFacts # {} /\ meta.deadPruned > 0
    BY <2>1 DEF BatchInv, FactsFollowRow
  <2> QED BY <2>1, <2>2, <2>3 DEF Durable, Received, Receiver!ReceivedIds
<1> QED BY <1>1, DeliveryInvariant, PTL

(* A batch ended as known_unsent was never handed to the SDK, in any       *)
(* process, and the receiver does not have it.                             *)
THEOREM KnownUnsentNeverSent == DeliverySpec => []KnownUnsentIsHonest
<1>1. SafeInv => KnownUnsentIsHonest
  <2> SUFFICES ASSUME SafeInv, NEW b \in Batches, "known_unsent" \in outcome[b]
               PROVE  b \notin handed /\ b \notin Received
    BY DEF KnownUnsentIsHonest
  <2>1. BatchInv(b)
    BY DEF SafeInv, DeliveryInv
  <2> QED BY <2>1 DEF BatchInv, Unsent, CopiesWereHanded, Received, Receiver!ReceivedIds
<1> QED BY <1>1, DeliveryInvariant, PTL

(* Whatever left the gateway has a durable attempt while its row exists. *)
THEOREM AttemptsAreDurable == DeliverySpec => []AttemptBeforeHandOff
<1>1. SafeInv => AttemptBeforeHandOff
  <2> SUFFICES ASSUME SafeInv, NEW b \in handed \cup data \cup {a.id : a \in acks} \cup Received,
                      b \in Durable
               PROVE  rows[b].attempts > 0
    BY DEF AttemptBeforeHandOff
  <2>1. b \in Batches /\ BatchInv(b) /\ rows[b].state # "ABSENT"
    BY DEF SafeInv, DeliveryInv, Durable
  <2>2. b \in handed
    BY <2>1 DEF BatchInv, CopiesWereHanded, Received, Receiver!ReceivedIds
  <2> QED BY <2>1, <2>2 DEF BatchInv, HandOffIsRemembered
<1> QED BY <1>1, DeliveryInvariant, PTL

----------------------------------------------------------------------------
(* Refinement: the delivery system keeps the contract. *)

(* The end of batches T, as the contract sees it: the pruned ones are given up. *)
LEMMA EndingGivesUp ==
    ASSUME SafeInv, proc = "open", NEW T \in SUBSET Pending, NEW source \in Sources, NEW c \in Batches
    PROVE  /\ RowsAfter(T, source)[c].state # "ABSENT" <=> c \in Durable \ Pruned(T)
           /\ "pruned" \in OutcomeAfter(T, source)[c] <=> c \in GivenUp \cup Pruned(T)
           /\ c \in Pruned(T) => c \in Durable
<1>0. TypeOK /\ rows[c] \in Row /\ entries[c].row = rows[c]
  BY DEF SafeInv, Mirror, TypeOK
<1>1. AbsentRow.state = "ABSENT" /\ TerminalRow(rows[c], source).state = "DEAD"
  BY <1>0 DEF AbsentRow, TerminalRow, Row
<1>2. TerminalFact(c, source) # "pruned"
  BY TerminalFactType DEF TerminalFacts
<1>3. c \in T \cup Dead => c \in Durable
  BY <1>0 DEF Pending, Dead, Tracked, Durable
<1>4. CASE c \in Pruned(T)
  BY <1>0, <1>1, <1>3, <1>4, EndingCases
<1>5. CASE c \notin Pruned(T) /\ c \in T
  <2>1. RowsAfter(T, source)[c] = TerminalRow(rows[c], source)
        /\ OutcomeAfter(T, source)[c] = outcome[c] \cup {TerminalFact(c, source)}
    BY <1>0, <1>5, EndingCases
  <2> QED BY <1>1, <1>2, <1>3, <1>5, <2>1 DEF GivenUp
<1>6. CASE c \notin Pruned(T) /\ c \notin T
  BY <1>0, <1>6, EndingCases DEF Durable, GivenUp
<1> QED BY <1>4, <1>5, <1>6

(* A step that ends the batches T, and does nothing else to rows and facts, gives up what it prunes. *)
LEMMA EndingIsGiveUp ==
    ASSUME SafeInv, proc = "open", NEW T \in SUBSET Pending, NEW source \in Sources,
           rows' = RowsAfter(T, source), outcome' = OutcomeAfter(T, source), receipts' = receipts
    PROVE  Contract!GiveUp(Pruned(T))
<1>1. Pruned(T) \subseteq Batches
  BY DEF Pruned, Dead, Tracked, Pending
<1>2. Pruned(T) \subseteq Durable
  BY <1>1, EndingGivesUp
<1>3. Durable' = Durable \ Pruned(T)
  BY EndingGivesUp DEF Durable
<1>4. GivenUp' = GivenUp \cup Pruned(T)
  BY <1>1, EndingGivesUp DEF GivenUp
<1>5. Received' = Received
  BY DEF Received, Receiver!ReceivedIds, Receiver!None
<1> QED BY <1>2, <1>3, <1>4, <1>5 DEF Contract!GiveUp

(* A step in which no row appears or vanishes, nothing is pruned and       *)
(* nothing is received is invisible to the contract.                       *)
LEMMA InvisibleStep ==
    ASSUME \A c \in Batches : rows'[c].state = "ABSENT" <=> rows[c].state = "ABSENT",
           outcome' = outcome, receipts' = receipts
    PROVE  UNCHANGED Contract!contract
<1>1. Durable' = Durable
  BY DEF Durable
<1>2. GivenUp' = GivenUp /\ Received' = Received
  BY DEF GivenUp, Received, Receiver!ReceivedIds, Receiver!None
<1> QED BY <1>1, <1>2 DEF Contract!contract

(* Every step of the delivery system is a step of the contract or none. *)
LEMMA ContractStep ==
    SafeInv /\ [DeliveryNext]_deliveryVars => [Contract!Next]_(Contract!contract)
<1> SUFFICES ASSUME SafeInv, [DeliveryNext]_deliveryVars
             PROVE  Contract!Next \/ UNCHANGED Contract!contract
  OBVIOUS
<1>a. TypeOK /\ Expirable \in SUBSET Pending /\ data \subseteq Batches /\ acks \subseteq Ack
      /\ rows \in [Batches -> Row] /\ outcome \in [Batches -> SUBSET Facts]
      /\ receipts \in [Batches -> {Payload, "none"}]
  BY DEF SafeInv, Mirror, TypeOK, Expirable, DeliveryTypeOK, Receiver!ReceiverTypeOK, Receiver!None
<1>b. ASSUME NEW T \in SUBSET Pending, Contract!GiveUp(Pruned(T)) PROVE Contract!Next
  <2>1. Pruned(T) \in SUBSET Batches
    BY DEF Pruned, Dead, Tracked, Pending
  <2> QED BY <1>b, <2>1 DEF Contract!Next
<1>c. ASSUME UNCHANGED <<rows, outcome, receipts>> PROVE UNCHANGED Contract!contract
  BY <1>c, InvisibleStep
<1>1. CASE GatewayStep(Open) \/ GatewayClose \/ GatewayCrash
  BY <1>1, <1>c DEF GatewayStep, GatewayClose, GatewayCrash, Open, Close, Crash, durable, history, receiver
<1>2. CASE Connect \/ Disconnect \/ Submit \/ SubmitFails
  BY <1>2, <1>c DEF Connect, Disconnect, Submit, SubmitFails, OpenGate, SubmissionFailed, durable, history,
                    receiver, vars
<1>3. ASSUME NEW b \in Batches, NEW a \in {"fresh", "ahead"}, GatewayStep(Enqueue(b, a))
      PROVE  Contract!Next
  <2> DEFINE T == Expirable
             row == [state |-> "PENDING", attempts |-> 0, order |-> meta.nextOrder,
                     basis |-> ref, source |-> "NONE"]
  <2>1. /\ proc = "open" /\ b \notin accepted /\ receipts' = receipts
        /\ rows' = [RowsAfter(T, "AGE_EXPIRED") EXCEPT ![b] = row]
        /\ outcome' = OutcomeAfter(T, "AGE_EXPIRED")
    BY <1>3 DEF GatewayStep, Enqueue, EnqueueCalled, receiver
  <2>2. b \notin Durable /\ b \notin Received /\ b \notin GivenUp
    <3>1. BatchInv(b)
      BY DEF SafeInv, DeliveryInv
    <3>2. rows[b].state = "ABSENT" /\ outcome[b] = {} /\ b \notin handed
      BY <2>1, <3>1 DEF BatchInv, UnknownIsTraceless
    <3>3. receipts[b] = Receiver!None
      BY <3>1, <3>2 DEF BatchInv, CopiesWereHanded
    <3> QED BY <3>2, <3>3 DEF Durable, Received, Receiver!ReceivedIds, GivenUp
  <2>3. Pruned(T) \subseteq Batches /\ T \in SUBSET Batches
    BY DEF Pruned, Dead, Tracked, Pending, Expirable
  <2>4. RowsAfter(T, "AGE_EXPIRED") \in [Batches -> Row]
    BY <1>a, <2>3, ExpireTypes
  <2>5. ASSUME NEW c \in Batches
        PROVE  /\ RowsAfter(T, "AGE_EXPIRED")[c].state # "ABSENT" <=> c \in Durable \ Pruned(T)
               /\ "pruned" \in OutcomeAfter(T, "AGE_EXPIRED")[c] <=> c \in GivenUp \cup Pruned(T)
               /\ c \in Pruned(T) => c \in Durable
    BY <1>a, <2>1, EndingGivesUp DEF Sources
  <2>6. Durable' = (Durable \ Pruned(T)) \cup {b}
    <3>1. ASSUME NEW c \in Batches
          PROVE  rows'[c].state # "ABSENT" <=> c \in (Durable \ Pruned(T)) \cup {b}
      <4>1. CASE c = b
        BY <2>1, <2>4, <4>1
      <4>2. CASE c # b
        BY <2>1, <2>4, <2>5, <4>2
      <4> QED BY <4>1, <4>2
    <3> QED BY <3>1 DEF Durable
  <2>7. GivenUp' = GivenUp \cup Pruned(T)
    BY <2>1, <2>3, <2>5 DEF GivenUp
  <2>8. Received' = Received
    BY <2>1 DEF Received, Receiver!ReceivedIds, Receiver!None
  <2>9. Pruned(T) \subseteq Durable
    BY <2>3, <2>5
  <2>10. Contract!Accept(b, Pruned(T))
    BY <2>2, <2>6, <2>7, <2>8, <2>9 DEF Contract!Accept, Contract!Known
  <2>11. Pruned(T) \in SUBSET Batches
    BY <2>3
  <2> QED BY <2>10, <2>11 DEF Contract!Next
<1>4. ASSUME NEW b \in Batches, GatewayStep(EnqueueRefused(b)) PROVE Contract!Next
  BY <1>4, <1>a, <1>b, EndingIsGiveUp
     DEF GatewayStep, EnqueueRefused, EnqueueCalled, Expire, Sources, receiver
<1>5. ASSUME NEW b \in Batches, NEW T \in SUBSET Expirable, GatewayStep(EnqueueRaised(b, T))
      PROVE  Contract!Next
  <2>1. T \in SUBSET Pending
    BY <1>a
  <2> QED BY <1>5, <2>1, <1>b, EndingIsGiveUp
          DEF GatewayStep, EnqueueRaised, EnqueueCalled, Expire, Sources, receiver
<1>6. ASSUME NEW b \in Batches, LoopReserves(b) PROVE Contract!Next
  <2> DEFINE R == RowsAfter(Expirable, "AGE_EXPIRED")
  <2>1. /\ proc = "open" /\ receipts' = receipts
        /\ rows' = [R EXCEPT ![b].attempts = Min(@ + 1, AttemptCap)]
        /\ outcome' = OutcomeAfter(Expirable, "AGE_EXPIRED")
    BY <1>6 DEF LoopReserves, Reserve, receiver
  <2>2. R \in [Batches -> Row]
    BY <1>a, AfterTypes DEF Sources
  <2>3. ASSUME NEW c \in Batches
        PROVE  /\ R[c].state # "ABSENT" <=> c \in Durable \ Pruned(Expirable)
               /\ "pruned" \in outcome'[c] <=> c \in GivenUp \cup Pruned(Expirable)
               /\ c \in Pruned(Expirable) => c \in Durable
    BY <1>a, <2>1, EndingGivesUp DEF Sources
  <2>4. ASSUME NEW c \in Batches PROVE rows'[c].state = R[c].state
    <3>1. ASSUME NEW r \in Row, NEW n PROVE [r EXCEPT !.attempts = n].state = r.state
      BY DEF Row
    <3>2. rows'[c] = IF c = b THEN [R[b] EXCEPT !.attempts = Min(@ + 1, AttemptCap)] ELSE R[c]
      BY <2>1, <2>2
    <3> HIDE DEF R
    <3> QED BY <2>2, <3>1, <3>2
  <2>5. Pruned(Expirable) \subseteq Batches
    BY DEF Pruned, Dead, Tracked, Pending, Expirable
  <2>6. Durable' = Durable \ Pruned(Expirable)
    BY <2>3, <2>4 DEF Durable
  <2>7. GivenUp' = GivenUp \cup Pruned(Expirable)
    BY <2>3, <2>5 DEF GivenUp
  <2>8. Received' = Received
    BY <2>1 DEF Received, Receiver!ReceivedIds, Receiver!None
  <2>9. Pruned(Expirable) \subseteq Durable
    BY <2>3, <2>5
  <2> QED BY <1>a, <1>b, <2>6, <2>7, <2>8, <2>9 DEF Contract!GiveUp
<1>7. ASSUME NEW T \in SUBSET Expirable, LoopIdles(T) PROVE Contract!Next
  <2>1. T \in SUBSET Pending
    BY <1>a
  <2> QED BY <1>7, <2>1, <1>b, EndingIsGiveUp
          DEF LoopIdles, GatewayStep, ReserveNothing, Expire, Sources, receiver
<1>8. ASSUME NEW a \in acks, AckArrives(a) PROVE Contract!Next \/ UNCHANGED Contract!contract
  <2>0. a.id \in Batches /\ BatchInv(a.id) /\ proc = "open" /\ receipts' = receipts
    BY <1>8, <1>a DEF Ack, SafeInv, DeliveryInv, AckArrives, receiver
  <2>1. CASE UNCHANGED vars
    BY <1>c, <2>0, <2>1 DEF vars
  <2>2. CASE a.status = "STORED" /\ AckStored(a.id)
    <3>1. rows' = [rows EXCEPT ![a.id] = AbsentRow]
      BY <2>2 DEF AckStored
    <3>2. a.id \in Durable
      <4>1. entries[a.id].row.state # "ABSENT"
        BY <2>2 DEF AckStored, Acknowledgeable, Tracked
      <4> QED BY <2>0, <4>1 DEF SafeInv, Mirror, Durable
    <3>3. a.id \in Received
      BY <2>0, <2>2 DEF BatchInv, CopiesWereHanded, Received, Receiver!ReceivedIds
    <3>4. Durable' = Durable \ {a.id}
      BY <1>a, <3>1 DEF Durable, AbsentRow
    <3>5. \A c \in Batches : "pruned" \in outcome'[c] <=> "pruned" \in outcome[c]
      BY <1>a, <2>0, <2>2 DEF AckStored
    <3>6. GivenUp' = GivenUp /\ Received' = Received
      BY <2>0, <3>5 DEF GivenUp, Received, Receiver!ReceivedIds, Receiver!None
    <3>7. Contract!Release(a.id)
      BY <3>2, <3>3, <3>4, <3>6 DEF Contract!Release
    <3> QED BY <2>0, <3>7 DEF Contract!Next
  <2>3. CASE AckRetry(a.id)
    BY <1>c, <2>0, <2>3 DEF AckRetry, durable, history
  <2>4. CASE AckReject(a.id)
    <3>1. {a.id} \in SUBSET Pending
      <4>1. a.id \in Tracked /\ a.id \notin Dead
        BY <2>4 DEF AckReject, Acknowledgeable
      <4>2. entries[a.id].row.state \in {"ABSENT", "PENDING", "DEAD"}
        <5>1. entries[a.id] \in Entry
          BY <1>a, <2>0 DEF TypeOK
        <5> QED BY <5>1 DEF Entry, Row
      <4> QED BY <4>1, <4>2 DEF Pending, Tracked, Dead
    <3> QED BY <1>b, <2>0, <2>4, <3>1, EndingIsGiveUp DEF AckReject, Sources
  <2> QED BY <1>8, <2>1, <2>2, <2>3, <2>4 DEF AckArrives, ApplyAck
<1>9. CASE GatewayStep(TimeChanges) \/ (\E b \in Batches : GatewayStep(AgeBatch(b))) \/ GatewayStep(Tick)
  BY <1>9, <1>c DEF GatewayStep, TimeChanges, AgeBatch, Tick, durable, history, receiver
<1>10. CASE Lose \/ Install
  BY <1>10, <1>c DEF Lose, Install, Receiver!InstallConfig, vars, receiver
<1>11. ASSUME NEW b \in data, NEW clock \in Receiver!Clocks, NEW fits \in BOOLEAN,
              Arrives(b, clock, fits)
       PROVE  Contract!Next \/ UNCHANGED Contract!contract
  <2>0. b \in Batches /\ UNCHANGED vars
    BY <1>11, <1>a DEF Arrives
  <2>1. receipts' \in {receipts, [receipts EXCEPT ![b] = Payload]}
    BY <1>11, <2>0, ReceiveType DEF Arrives, SafeInv, DeliveryTypeOK
  <2>2. CASE receipts' = receipts
    BY <1>c, <2>0, <2>2 DEF vars
  <2>3. CASE receipts' = [receipts EXCEPT ![b] = Payload]
    <3>1. Received' = Received \cup {b}
      BY <1>a, <2>0, <2>3 DEF Received, Receiver!ReceivedIds, Receiver!None, Payload
    <3>2. Durable' = Durable /\ GivenUp' = GivenUp
      BY <2>0 DEF vars, Durable, GivenUp
    <3>3. b \in Durable \cup Received \cup GivenUp
      <4>1. BatchInv(b)
        BY <2>0 DEF SafeInv, DeliveryInv
      <4>2. b \in accepted
        BY <4>1 DEF BatchInv, CopiesWereHanded, UnknownIsTraceless
      <4> QED BY <2>0, <4>1, <4>2
              DEF BatchInv, NotLost, Durable, Received, Receiver!ReceivedIds, GivenUp
    <3>4. Contract!Store(b)
      BY <3>1, <3>2, <3>3 DEF Contract!Store, Contract!Known
    <3> QED BY <2>0, <3>4 DEF Contract!Next
  <2> QED BY <2>1, <2>2, <2>3
<1>12. ASSUME NEW b \in data, ArrivesInVain(b) PROVE UNCHANGED Contract!contract
  BY <1>12, <1>c DEF ArrivesInVain, vars, receiver
<1>13. CASE UNCHANGED deliveryVars
  BY <1>13, <1>c DEF deliveryVars, vars
<1> QED BY <1>1, <1>2, <1>3, <1>4, <1>5, <1>6, <1>7, <1>8, <1>9, <1>10, <1>11, <1>12, <1>13
        DEF DeliveryNext

(* The initial states map to the initial state of the contract. *)
LEMMA ContractInit == DeliveryInit => Contract!Init
BY DEF DeliveryInit, Init, Receiver!ReceiverInit, Contract!Init, Durable, Received,
       Receiver!ReceivedIds, GivenUp, AbsentRow

(* Gateway, path and receiver implement AtLeastOnce: an accepted batch     *)
(* leaves the gateway's custody only to the receiver, or by being given up *)
(* in the open.                                                            *)
THEOREM DeliveryImplementsContract == DeliverySpec => KeepsContract
<1>1. DeliverySpec => []SafeInv
  BY DeliveryInvariant
<1>2. DeliverySpec => Contract!Init
  BY ContractInit DEF DeliverySpec
<1> QED BY <1>1, <1>2, ContractStep, PTL DEF DeliverySpec, KeepsContract, Contract!Spec

----------------------------------------------------------------------------
(* What is recorded of a batch is true. *)

(* Neither expiry nor a rejection records a batch as stored. *)
LEMMA EndingStoresNothing ==
    ASSUME NEW T, NEW source, NEW c \in Batches
    PROVE  "stored" \in OutcomeAfter(T, source)[c] => "stored" \in outcome[c]
BY DEF OutcomeAfter, TerminalFact

(* Only an acknowledgement of c that says so records c as stored. *)
LEMMA StoredNeedsAck ==
    ASSUME SafeInv, [DeliveryNext]_deliveryVars, NEW c \in Batches,
           "stored" \in outcome'[c], "stored" \notin outcome[c]
    PROVE  \E a \in acks : a.id = c /\ a.status = "STORED"
<1>1. /\ ~(GatewayStep(Open) \/ GatewayClose \/ GatewayCrash)
      /\ ~(Connect \/ Disconnect \/ Submit \/ Lose \/ Install)
      /\ ~(GatewayStep(TimeChanges) \/ GatewayStep(Tick)) /\ ~UNCHANGED deliveryVars
  BY DEF GatewayStep, Open, GatewayClose, Close, GatewayCrash, Crash, Connect, OpenGate, Disconnect,
         Submit, Lose, Install, TimeChanges, Tick, vars, deliveryVars, history
<1>2. ~SubmitFails
  BY DEF SubmitFails, SubmissionFailed, vars, history
<1>3. \A b \in Batches : ~GatewayStep(AgeBatch(b))
  BY DEF GatewayStep, AgeBatch, history
<1>4. \A b \in Batches : \A a \in {"fresh", "ahead"} : ~GatewayStep(Enqueue(b, a))
  BY EndingStoresNothing DEF GatewayStep, Enqueue
<1>5. \A b \in Batches : ~GatewayStep(EnqueueRefused(b))
  BY EndingStoresNothing DEF GatewayStep, EnqueueRefused, Expire
<1>6. \A b \in Batches : \A T \in SUBSET Expirable : ~GatewayStep(EnqueueRaised(b, T))
  BY EndingStoresNothing DEF GatewayStep, EnqueueRaised, Expire
<1>7. \A b \in Batches : ~LoopReserves(b)
  BY EndingStoresNothing DEF LoopReserves, Reserve
<1>8. \A T \in SUBSET Expirable : ~LoopIdles(T)
  BY EndingStoresNothing DEF LoopIdles, GatewayStep, ReserveNothing, Expire
<1>9. /\ \A b \in data, clock \in Receiver!Clocks, fits \in BOOLEAN : ~Arrives(b, clock, fits)
      /\ \A b \in data : ~ArrivesInVain(b)
  BY DEF Arrives, ArrivesInVain, vars
<1>10. PICK a \in acks : AckArrives(a)
  BY <1>1, <1>2, <1>3, <1>4, <1>5, <1>6, <1>7, <1>8, <1>9 DEF DeliveryNext
<1>11. ~AckReject(a.id) /\ ~AckRetry(a.id) /\ ~UNCHANGED vars
  BY EndingStoresNothing DEF AckReject, AckRetry, vars, history
<1>12. a.status = "STORED" /\ AckStored(a.id)
  BY <1>10, <1>11 DEF AckArrives, ApplyAck
<1>13. DOMAIN outcome = Batches
  BY DEF SafeInv, Mirror, TypeOK
<1>14. a.id = c
  BY <1>12, <1>13 DEF AckStored
<1> QED BY <1>12, <1>14

(* The receiver never drops a receipt. *)
LEMMA ReceiptsStay ==
    ASSUME SafeInv, [DeliveryNext]_deliveryVars, NEW c \in Batches, receipts[c] # Receiver!None
    PROVE  receipts'[c] # Receiver!None
<1>0. receipts \in [Batches -> {Payload, "none"}] /\ data \subseteq Batches
      /\ Receiver!None = "none" /\ Payload # "none"
  BY DEF SafeInv, DeliveryTypeOK, Receiver!ReceiverTypeOK, Receiver!None, Payload
<1>1. ASSUME NEW b \in data, NEW clock \in Receiver!Clocks, NEW fits \in BOOLEAN, Arrives(b, clock, fits)
      PROVE  receipts'[c] # "none"
  <2>1. receipts' \in {receipts, [receipts EXCEPT ![b] = Payload]}
    BY <1>0, <1>1, ReceiveType DEF Arrives, SafeInv, DeliveryTypeOK
  <2> QED BY <1>0, <2>1
<1>2. CASE receipts' = receipts
  BY <1>2
<1>3. CASE receipts' # receipts
  <2>1. \E b \in data, clock \in Receiver!Clocks, fits \in BOOLEAN : Arrives(b, clock, fits)
    BY <1>3 DEF DeliveryNext, GatewayStep, GatewayClose, GatewayCrash, Connect, Disconnect, LoopReserves,
                LoopIdles, Submit, SubmitFails, AckArrives, Lose, ArrivesInVain, Install,
                Receiver!InstallConfig, receiver, deliveryVars
  <2> QED BY <1>0, <1>1, <2>1
<1> QED BY <1>2, <1>3

StoredIsReceived == \A b \in Batches : "stored" \in outcome[b] => receipts[b] # Receiver!None

(* What is inductive: the safety of delivery, what the Outbox knows of the *)
(* ends of its batches, and a receipt for every batch recorded as stored.  *)
TruthInv == SafeInv /\ EndsInv /\ StoredIsReceived

(* Nothing is recorded of a batch in a new system. *)
LEMMA TruthInit == DeliveryInit => TruthInv
<1> SUFFICES ASSUME DeliveryInit PROVE TruthInv
  OBVIOUS
<1>1. SafeInv /\ EndsInv
  BY SafeInit, EndsInit DEF DeliveryInit
<1>2. StoredIsReceived
  BY DEF DeliveryInit, Init, StoredIsReceived
<1> QED BY <1>1, <1>2 DEF TruthInv

(* Every step keeps the record true. *)
LEMMA TruthStep == TruthInv /\ [DeliveryNext]_deliveryVars => TruthInv'
<1> SUFFICES ASSUME TruthInv, [DeliveryNext]_deliveryVars PROVE TruthInv'
  OBVIOUS
<1>1. SafeInv' /\ EndsInv'
  BY SafeStep, EndsStep, DeliveryRefinesOutbox DEF TruthInv
<1>2. ASSUME NEW b \in Batches, "stored" \in outcome'[b] PROVE receipts'[b] # Receiver!None
  <2>1. receipts[b] # Receiver!None
    <3>1. CASE "stored" \in outcome[b]
      BY <3>1 DEF TruthInv, StoredIsReceived
    <3>2. CASE "stored" \notin outcome[b]
      <4>1. \E a \in acks : a.id = b /\ a.status = "STORED"
        BY <1>2, <3>2, StoredNeedsAck DEF TruthInv
      <4>2. CopiesWereHanded(b)
        BY DEF TruthInv, SafeInv, DeliveryInv, BatchInv
      <4> QED BY <4>1, <4>2 DEF CopiesWereHanded
    <3> QED BY <3>1, <3>2
  <2> QED BY <2>1, ReceiptsStay DEF TruthInv
<1>3. StoredIsReceived'
  BY <1>2 DEF StoredIsReceived, Receiver!None
<1> QED BY <1>1, <1>3 DEF TruthInv

(* The record of every batch is true and said once: a batch recorded as    *)
(* stored has a receipt and was not ended as isolated or known unsent, and *)
(* no batch has two ends.                                                  *)
THEOREM OutcomesAreTrue == DeliverySpec => []OutcomeIsTrue
<1>1. TruthInv => OutcomeIsTrue
  <2> SUFFICES ASSUME TruthInv, NEW b \in Batches
               PROVE  /\ Cardinality(outcome[b] \cap TerminalFacts) <= 1
                      /\ "stored" \in outcome[b] => /\ b \in Received
                                                    /\ outcome[b] \cap {"isolated", "known_unsent"} = {}
    BY DEF OutcomeIsTrue
  <2>1. Ends(b) /\ BatchInv(b)
    BY DEF TruthInv, EndsInv, SafeInv, DeliveryInv
  <2>2. Cardinality(outcome[b] \cap TerminalFacts) <= 1
    <3> DEFINE S == outcome[b] \cap TerminalFacts
    <3>1. \A x, y \in S : x = y
      BY <2>1 DEF Ends
    <3>2. CASE S = {}
      BY <3>2, FS_EmptySet
    <3>3. CASE S # {}
      <4>1. PICK x : S = {x}
        BY <3>1, <3>3
      <4>2. Cardinality({x}) = 1
        BY FS_Singleton
      <4>3. Cardinality(S) = 1
        BY <4>1, <4>2
      <4> QED BY <4>3
    <3> QED BY <3>2, <3>3
  <2>3. ASSUME "stored" \in outcome[b]
        PROVE  b \in Received /\ "isolated" \notin outcome[b] /\ "known_unsent" \notin outcome[b]
    <3>1. receipts[b] # Receiver!None
      BY <2>3 DEF TruthInv, StoredIsReceived
    <3>2. b \in handed
      BY <2>1, <3>1 DEF BatchInv, CopiesWereHanded
    <3>3. "known_unsent" \notin outcome[b]
      BY <2>1, <3>2 DEF BatchInv, Unsent
    <3> QED BY <2>1, <2>3, <3>1, <3>3 DEF Ends, Received, Receiver!ReceivedIds
  <2> QED BY <2>2, <2>3
<1> QED BY <1>1, TruthInit, TruthStep, PTL DEF DeliverySpec

=============================================================================
