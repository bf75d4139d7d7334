---------------------------- MODULE OutboxProofs ----------------------------
(***************************************************************************)
(* Type correctness of the Outbox, the agreement of session and tables,    *)
(* the identity of a local_order and of the time basis, the quotas that a  *)
(* reopen enforces and the ends of a batch, for every set of batches,      *)
(* every quota and every retry interval.                                   *)
(***************************************************************************)
EXTENDS Outbox, FiniteSetTheorems, TLAPS

USE DEF NoBasis

----------------------------------------------------------------------------
(* Lemmas about the pieces of the operations. *)

(* The constants are positive and the retry waits are ordered. *)
LEMMA Constants ==
    /\ MaxBatches \in Nat \ {0} /\ MaxRecords \in Nat \ {0} /\ MaxDead \in Nat \ {0}
    /\ ActiveMax \in Nat \ {0} /\ ClassMax \in Nat \ {0} /\ FirstWait \in Nat \ {0}
    /\ RetryWait \in Nat \ {0} /\ AttemptCap \in Nat \ {0} /\ MaxOrder \in Nat \ {0}
    /\ CounterCap \in Nat \ {0} /\ FirstWait <= RetryWait /\ IsFiniteSet(Batches)
    /\ MaxBytes \in Nat \ {0} /\ PayloadSize \in [Batches -> Nat \ {0}]
BY OutboxAssumption

(* AbsentRow and a fresh BatchState are well typed. *)
LEMMA FreshTypes ==
    /\ AbsentRow \in Row
    /\ NoEntry \in Entry
    /\ \A r \in Row, c \in Classes : BatchState(r, c) \in Entry
<1>1. AbsentRow \in Row
  BY Constants DEF AbsentRow, Row, Sources
<1>2. ASSUME NEW r \in Row, NEW c \in Classes PROVE BatchState(r, c) \in Entry
  BY <1>2, Constants DEF BatchState, Entry, Sources, Origins
<1>3. NoEntry \in Entry
  BY <1>1, <1>2 DEF NoEntry, Classes
<1> QED BY <1>1, <1>2, <1>3

(* Ending a row leaves a row. *)
LEMMA TerminalRowType ==
    ASSUME NEW r \in Row, NEW source \in Sources PROVE TerminalRow(r, source) \in Row
BY DEF TerminalRow, Row

(* _terminal of any set of batches keeps the tables and the session well typed. *)
LEMMA AfterTypes ==
    ASSUME TypeOK, NEW T, NEW source \in Sources
    PROVE  /\ RowsAfter(T, source) \in [Batches -> Row]
           /\ EntriesAfter(T, source) \in [Batches -> Entry]
<1>1. RowsAfter(T, source) \in [Batches -> Row]
  BY FreshTypes, TerminalRowType DEF RowsAfter, TypeOK
<1>2. ASSUME NEW e \in Entry
      PROVE  [e EXCEPT !.row = TerminalRow(@, source), !.source = source, !.active = FALSE] \in Entry
  <2>1. e.row \in Row
    BY DEF Entry
  <2>2. TerminalRow(e.row, source) \in Row
    BY <2>1, TerminalRowType
  <2> QED BY <2>2 DEF Entry
<1>3. EntriesAfter(T, source) \in [Batches -> Entry]
  BY <1>2, FreshTypes DEF EntriesAfter, TypeOK
<1> QED BY <1>1, <1>3

(* OutboxSession.terminal records one of the terminal facts. *)
LEMMA TerminalFactType ==
    ASSUME NEW b, NEW source PROVE TerminalFact(b, source) \in TerminalFacts
BY DEF TerminalFact, TerminalFacts

(* _terminal records nothing but known facts. *)
LEMMA OutcomeAfterType ==
    ASSUME TypeOK, NEW T, NEW source
    PROVE  OutcomeAfter(T, source) \in [Batches -> SUBSET Facts]
<1> DEFINE f(b) == outcome[b] \cup (IF b \in T THEN {TerminalFact(b, source)} ELSE {})
                              \cup (IF b \in Pruned(T) THEN {"pruned"} ELSE {})
<1>1. ASSUME NEW b \in Batches PROVE f(b) \in SUBSET Facts
  <2>1. outcome[b] \in SUBSET Facts
    BY DEF TypeOK
  <2>2. TerminalFact(b, source) \in Facts
    BY TerminalFactType DEF Facts
  <2> QED BY <2>1, <2>2 DEF Facts
<1>2. OutcomeAfter(T, source) = [b \in Batches |-> f(b)]
  BY DEF OutcomeAfter
<1> QED BY <1>1, <1>2

(* The pruned batches are a finite set of dead or ending ones. *)
LEMMA PrunedFinite ==
    ASSUME NEW T \in SUBSET Batches
    PROVE  /\ Pruned(T) \subseteq Batches
           /\ IsFiniteSet(Pruned(T))
           /\ Cardinality(Pruned(T)) \in Nat
<1>1. Pruned(T) \subseteq Batches
  BY DEF Pruned, Dead, Tracked
<1>2. IsFiniteSet(Pruned(T))
  BY <1>1, Constants, FS_Subset
<1> QED BY <1>1, <1>2, FS_CardinalityType

(* Pruning counts within the cap and leaves next_order and the basis alone. *)
LEMMA MetaAfterType ==
    ASSUME TypeOK, NEW T \in SUBSET Batches
    PROVE  /\ MetaAfter(T) \in [nextOrder : 1..MaxOrder, deadPruned : 0..CounterCap, basis : TimeRefs \cup {NoBasis}]
           /\ MetaAfter(T).nextOrder = meta.nextOrder
           /\ MetaAfter(T).basis = meta.basis
<1>1. Min(meta.deadPruned + Cardinality(Pruned(T)), CounterCap) \in 0..CounterCap
  <2>1. meta.deadPruned \in 0..CounterCap
    BY DEF TypeOK
  <2> QED BY <2>1, PrunedFinite, Constants DEF Min
<1> QED BY <1>1 DEF MetaAfter, TypeOK

(* Only batches expire. *)
LEMMA ExpirableSubset == Expirable \subseteq Batches
BY DEF Expirable, Pending, Tracked

(* Freeing credits keeps the session well typed. *)
LEMMA FreedType ==
    ASSUME NEW e \in [Batches -> Entry] PROVE Freed(e) \in [Batches -> Entry]
<1>1. ASSUME NEW x \in Entry PROVE [x EXCEPT !.active = FALSE] \in Entry
  BY DEF Entry
<1> QED BY <1>1 DEF Freed

(* What reserve schedules over is a well-typed session. *)
LEMMA SchedulableType ==
    ASSUME TypeOK PROVE Schedulable \in [Batches -> Entry]
BY AfterTypes, FreedType DEF Schedulable, Sources

(* The attempt count of a row may be raised up to its cap. *)
LEMMA AttemptType ==
    ASSUME NEW r \in Row
    PROVE  /\ Min(r.attempts + 1, AttemptCap) \in 1..AttemptCap
           /\ [r EXCEPT !.attempts = Min(@ + 1, AttemptCap)] \in Row
<1> DEFINE n == Min(r.attempts + 1, AttemptCap)
<1>1. n \in 1..AttemptCap
  <2>1. r.attempts \in 0..AttemptCap
    BY DEF Row
  <2> QED BY <2>1, Constants DEF Min
<1>2. n \in 0..AttemptCap
  BY <1>1, Constants
<1> HIDE DEF n
<1>3. [r EXCEPT !.attempts = n] \in Row
  BY <1>2 DEF Row
<1>4. [r EXCEPT !.attempts = Min(@ + 1, AttemptCap)] = [r EXCEPT !.attempts = n]
  BY DEF n
<1> QED BY <1>1, <1>3, <1>4 DEF n

(* Granting a credit keeps the session well typed. *)
LEMMA ReservedType ==
    ASSUME NEW e \in [Batches -> Entry], NEW b \in Batches
    PROVE  Reserved(e, b) \in [Batches -> Entry]
<1> DEFINE n == Min(e[b].row.attempts + 1, AttemptCap)
           w == IF n = 1 THEN FirstWait ELSE RetryWait
           q == [e[b].row EXCEPT !.attempts = n]
           x == [e[b] EXCEPT !.row = q, !.previousSent = e[b].everSent, !.due = w,
                             !.active = TRUE, !.everSent = TRUE]
<1>1. e[b] \in Entry /\ e[b].row \in Row
  BY DEF Entry
<1>2. q \in Row
  BY <1>1, AttemptType
<1>3. w \in 0..RetryWait
  BY Constants
<1>4. x \in Entry
  <2> HIDE DEF q, w
  <2> QED BY <1>1, <1>2, <1>3 DEF Entry
<1>5. Reserved(e, b) = [e EXCEPT ![b] = x]
  BY DEF Reserved
<1> QED BY <1>4, <1>5

----------------------------------------------------------------------------
(* Type correctness. *)

(* A batch is staged in one of the two classes. *)
LEMMA StageClassesType ==
    ASSUME TypeOK, NEW b \in Batches PROVE StageClasses(b) \subseteq Classes
<1>1. CASE b \in Staged
  <2>1. staged[b] \in Classes
    BY <1>1 DEF Staged, TypeOK
  <2> QED BY <1>1, <2>1 DEF StageClasses
<1>2. CASE b \notin Staged
  BY <1>2 DEF StageClasses, Classes
<1> QED BY <1>1, <1>2

(* What an operation does to tables, session and facts when it has expired *)
(* the batches T and nothing else.                                         *)
LEMMA ExpireTypes ==
    ASSUME TypeOK, NEW T \in SUBSET Batches
    PROVE  /\ RowsAfter(T, "AGE_EXPIRED") \in [Batches -> Row]
           /\ EntriesAfter(T, "AGE_EXPIRED") \in [Batches -> Entry]
           /\ OutcomeAfter(T, "AGE_EXPIRED") \in [Batches -> SUBSET Facts]
BY AfterTypes, OutcomeAfterType DEF Sources

(* attach builds well-typed entries. *)
LEMMA AttachedType ==
    ASSUME TypeOK, NEW b \in Batches PROVE Attached(b) \in Entry
<1>0. rows[b] \in Row /\ entries[b] \in Entry
  BY DEF TypeOK
<1>1. [entries[b] EXCEPT !.row = rows[b], !.origin = IF @ = "enqueued" THEN "reread" ELSE @] \in Entry
  BY <1>0 DEF Entry, Origins
<1>2. [BatchState(rows[b], "history") EXCEPT
          !.due = IF rows[b].attempts > 0 THEN RetryWait ELSE 0,
          !.everSent = rows[b].attempts > 0, !.source = rows[b].source,
          !.origin = "restored"] \in Entry
  <2>1. BatchState(rows[b], "history") \in Entry
    BY <1>0, FreshTypes DEF Classes
  <2>2. rows[b].source \in Sources
    BY <1>0 DEF Row
  <2>3. (IF rows[b].attempts > 0 THEN RetryWait ELSE 0) \in 0..RetryWait
    BY Constants
  <2>4. (rows[b].attempts > 0) \in BOOLEAN
    OBVIOUS
  <2> QED BY <2>1, <2>2, <2>3, <2>4 DEF Entry, Origins
<1> QED BY <1>1, <1>2, FreshTypes DEF Attached

(* A committed enqueue preserves the type invariant. *)
LEMMA EnqueueType ==
    ASSUME TypeOK, NEW b \in Batches, NEW a, Enqueue(b, a) PROVE TypeOK'
<1> DEFINE row == [state |-> "PENDING", attempts |-> 0, order |-> meta.nextOrder,
                   basis |-> ref, source |-> "NONE"]
           T == Expirable
<1>0. T \in SUBSET Batches
  BY ExpirableSubset
<1>1. row \in Row
  <2>1. meta.nextOrder \in 1..MaxOrder /\ ref \in TimeRefs
    BY DEF TypeOK
  <2>2. meta.nextOrder \in 0..MaxOrder /\ 0 \in 0..AttemptCap
    BY <2>1, Constants
  <2> QED BY <2>1, <2>2 DEF Row, Sources
<1>2. rows' \in [Batches -> Row]
  BY <1>0, <1>1, ExpireTypes DEF Enqueue
<1>3. entries' \in [Batches -> Entry]
  <2>1. PICK c \in StageClasses(b) :
           entries' = [EntriesAfter(T, "AGE_EXPIRED") EXCEPT ![b] = BatchState(row, c)]
    BY DEF Enqueue
  <2>2. c \in Classes
    BY <2>1, StageClassesType
  <2>3. BatchState(row, c) \in Entry
    BY <1>1, <2>2, FreshTypes
  <2> HIDE DEF row
  <2> QED BY <1>0, <2>1, <2>3, ExpireTypes
<1>4. meta' \in [nextOrder : 1..MaxOrder, deadPruned : 0..CounterCap,
                 basis : TimeRefs \cup {NoBasis}]
  <2>1. meta.nextOrder \in 1..MaxOrder /\ meta.nextOrder < MaxOrder /\ ref \in TimeRefs
    BY DEF Enqueue, TypeOK
  <2>2. meta' = [MetaAfter(T) EXCEPT !.nextOrder = @ + 1, !.basis = IF Platform THEN ref ELSE @]
    BY DEF Enqueue
  <2>3. meta.nextOrder + 1 \in 1..MaxOrder
    BY <2>1, Constants
  <2> QED BY <1>0, <2>1, <2>2, <2>3, MetaAfterType
<1>5. outcome' \in [Batches -> SUBSET Facts]
  BY <1>0, ExpireTypes DEF Enqueue
<1>6. staged' \in [Batches -> Classes \cup {"none"}]
  BY DEF Enqueue, TypeOK
<1>7. age' \in [Batches -> {"ahead", "fresh", "aged"}]
  <2>1. a \in {"ahead", "fresh", "aged"}
    BY DEF Enqueue
  <2> QED BY <2>1 DEF Enqueue, TypeOK
<1>8. accepted' \subseteq Batches
  BY DEF Enqueue, TypeOK
<1> QED BY <1>2, <1>3, <1>4, <1>5, <1>6, <1>7, <1>8 DEF Enqueue, TypeOK

(* A granted reserve preserves the type invariant. *)
LEMMA ReserveType ==
    ASSUME TypeOK, NEW b \in Batches, Reserve(b) PROVE TypeOK'
<1> DEFINE T == Expirable
<1>0. T \in SUBSET Batches
  BY ExpirableSubset
<1>1. entries' \in [Batches -> Entry]
  BY SchedulableType, ReservedType DEF Reserve
<1>2. rows' \in [Batches -> Row]
  <2>1. RowsAfter(T, "AGE_EXPIRED") \in [Batches -> Row]
    BY <1>0, ExpireTypes
  <2>2. rows' = [RowsAfter(T, "AGE_EXPIRED") EXCEPT ![b].attempts = Min(@ + 1, AttemptCap)]
    BY DEF Reserve
  <2>3. ASSUME NEW R \in [Batches -> Row]
        PROVE  [R EXCEPT ![b].attempts = Min(@ + 1, AttemptCap)] \in [Batches -> Row]
    <3>1. [R[b] EXCEPT !.attempts = Min(@ + 1, AttemptCap)] \in Row
      BY AttemptType
    <3> QED BY <3>1
  <2> QED BY <2>1, <2>2, <2>3
<1>3. meta' \in [nextOrder : 1..MaxOrder, deadPruned : 0..CounterCap,
                 basis : TimeRefs \cup {NoBasis}]
  BY <1>0, MetaAfterType DEF Reserve
<1>4. outcome' \in [Batches -> SUBSET Facts]
  BY <1>0, ExpireTypes DEF Reserve
<1>5. preferNew' \in BOOLEAN
  BY DEF Reserve
<1> QED BY <1>1, <1>2, <1>3, <1>4, <1>5 DEF Reserve, TypeOK, clocks

(* Every step of the Outbox keeps the types. *)
LEMMA TypeStep == TypeOK /\ [Next]_vars => TypeOK'
<1> SUFFICES ASSUME TypeOK, [Next]_vars PROVE TypeOK'
  OBVIOUS
<1> DEFINE MetaType == [nextOrder : 1..MaxOrder, deadPruned : 0..CounterCap, basis : TimeRefs \cup {NoBasis}]
<1>1. CASE Open
  <2>1. entries' \in [Batches -> Entry]
    BY <1>1, AttachedType DEF Open
  <2>2. ref' \in TimeRefs
    BY <1>1 DEF Open, TypeOK
  <2> QED BY <1>1, <2>1, <2>2 DEF Open, TypeOK, durable, history
<1>2. CASE Close
  BY <1>2 DEF Close, TypeOK, durable, clocks, history
<1>3. CASE Crash
  BY <1>3, FreshTypes DEF Crash, TypeOK, durable, history
<1>4. CASE OpenGate
  <2>1. ASSUME NEW e \in Entry PROVE [e EXCEPT !.category = "history"] \in Entry
    BY DEF Entry, Classes
  <2>2. entries' \in [Batches -> Entry]
    BY <1>4, <2>1 DEF OpenGate, TypeOK
  <2> QED BY <1>4, <2>2 DEF OpenGate, TypeOK, durable, clocks, history, Classes
<1>5. ASSUME NEW b \in Batches, NEW a, Enqueue(b, a) PROVE TypeOK'
  BY <1>5, EnqueueType
<1>6. ASSUME NEW b \in Batches, EnqueueRefused(b) PROVE TypeOK'
  <2>1. Expirable \in SUBSET Batches
    BY ExpirableSubset
  <2>2. meta' \in MetaType
    <3>1. MetaAfter(Expirable) \in MetaType
      BY <2>1, MetaAfterType
    <3> QED BY <1>6, <3>1 DEF EnqueueRefused
  <2> QED BY <1>6, <2>1, <2>2, ExpireTypes DEF EnqueueRefused, Expire, TypeOK, clocks
<1>7. ASSUME NEW b \in Batches, NEW T \in SUBSET Expirable, EnqueueRaised(b, T) PROVE TypeOK'
  <2>1. T \in SUBSET Batches
    BY ExpirableSubset
  <2>2. meta' \in MetaType
    BY <1>7, <2>1, MetaAfterType DEF EnqueueRaised
  <2>3. StageClasses(b) \subseteq Classes
    BY StageClassesType
  <2>4. staged' \in [Batches -> Classes \cup {"none"}]
    <3>1. staged \in [Batches -> Classes \cup {"none"}]
      BY DEF TypeOK
    <3>2. CASE \E c \in StageClasses(b) : staged' = [staged EXCEPT ![b] = c]
      BY <2>3, <3>1, <3>2
    <3> QED BY <1>7, <3>1, <3>2 DEF EnqueueRaised
  <2> QED BY <1>7, <2>1, <2>2, <2>4, ExpireTypes DEF EnqueueRaised, Expire, TypeOK, clocks
<1>8. ASSUME NEW b \in Batches, Reserve(b) PROVE TypeOK'
  BY <1>8, ReserveType
<1>9. ASSUME NEW T \in SUBSET Expirable, ReserveNothing(T) PROVE TypeOK'
  <2>1. T \in SUBSET Batches
    BY ExpirableSubset
  <2>2. meta' \in MetaType
    BY <1>9, <2>1, MetaAfterType DEF ReserveNothing
  <2>3. rows' \in [Batches -> Row] /\ outcome' \in [Batches -> SUBSET Facts]
    BY <1>9, <2>1, ExpireTypes DEF ReserveNothing, Expire
  <2>4. entries' \in [Batches -> Entry]
    BY <1>9, <2>1, ExpireTypes, SchedulableType DEF ReserveNothing
  <2> QED BY <1>9, <2>2, <2>3, <2>4 DEF ReserveNothing, TypeOK, clocks
<1>10. ASSUME NEW b \in Batches, SubmissionFailed(b) PROVE TypeOK'
  <2>1. ASSUME NEW e \in Entry
        PROVE  [e EXCEPT !.everSent = e.previousSent, !.active = FALSE] \in Entry
    BY DEF Entry
  <2>2. entries' = [entries EXCEPT ![b] = [entries[b] EXCEPT !.everSent = entries[b].previousSent,
                                                             !.active = FALSE]]
    BY <1>10 DEF SubmissionFailed
  <2>3. entries' \in [Batches -> Entry]
    BY <2>1, <2>2 DEF TypeOK
  <2> QED BY <1>10, <2>3 DEF SubmissionFailed, TypeOK, durable, clocks, history
<1>11. ASSUME NEW b \in Batches, AckStored(b) PROVE TypeOK'
  <2>1. rows' \in [Batches -> Row] /\ entries' \in [Batches -> Entry]
    BY <1>11, FreshTypes DEF AckStored, TypeOK
  <2>2. outcome' \in [Batches -> SUBSET Facts]
    BY <1>11 DEF AckStored, TypeOK, Facts
  <2> QED BY <1>11, <2>1, <2>2 DEF AckStored, TypeOK, clocks
<1>12. ASSUME NEW b \in Batches, AckRetry(b) PROVE TypeOK'
  <2>1. ASSUME NEW e \in Entry
        PROVE  [e EXCEPT !.due = RetryWait, !.active = FALSE] \in Entry
    <3>1. RetryWait \in 0..RetryWait
      BY Constants
    <3> QED BY <3>1 DEF Entry
  <2>2. entries' = [entries EXCEPT ![b] = [entries[b] EXCEPT !.due = RetryWait, !.active = FALSE]]
    BY <1>12 DEF AckRetry
  <2>3. entries' \in [Batches -> Entry]
    BY <2>1, <2>2 DEF TypeOK
  <2> QED BY <1>12, <2>3 DEF AckRetry, TypeOK, durable, clocks, history
<1>13. ASSUME NEW b \in Batches, AckReject(b) PROVE TypeOK'
  <2>1. meta' \in MetaType
    BY <1>13, MetaAfterType DEF AckReject
  <2> QED BY <1>13, <2>1, AfterTypes, OutcomeAfterType DEF AckReject, TypeOK, clocks, Sources
<1>14. CASE TimeChanges
  BY <1>14 DEF TimeChanges, TypeOK, durable, session, history
<1>15. ASSUME NEW b \in Batches, AgeBatch(b) PROVE TypeOK'
  BY <1>15 DEF AgeBatch, TypeOK, durable, session, history
<1>16. CASE Tick
  <2>1. ASSUME NEW e \in Entry
        PROVE  [e EXCEPT !.due = IF @ > 0 THEN @ - 1 ELSE 0] \in Entry
    <3>1. e.due \in 0..RetryWait
      BY DEF Entry
    <3>2. (IF e.due > 0 THEN e.due - 1 ELSE 0) \in 0..RetryWait
      BY <3>1, Constants
    <3> QED BY <3>2 DEF Entry
  <2>2. entries' \in [Batches -> Entry]
    BY <1>16, <2>1 DEF Tick, TypeOK
  <2> QED BY <1>16, <2>2 DEF Tick, TypeOK, durable, clocks, history
<1>17. CASE UNCHANGED vars
  BY <1>17 DEF vars, TypeOK
<1> QED BY <1>1, <1>2, <1>3, <1>4, <1>5, <1>6, <1>7, <1>8, <1>9, <1>10, <1>11, <1>12, <1>13,
           <1>14, <1>15, <1>16, <1>17 DEF Next, Operations, Environment

(* A new database is well typed. *)
LEMMA TypeInit == Init => TypeOK
<1> SUFFICES ASSUME Init PROVE TypeOK
  OBVIOUS
<1>1. rows \in [Batches -> Row] /\ entries \in [Batches -> Entry]
  BY FreshTypes DEF Init
<1>2. meta \in [nextOrder : 1..MaxOrder, deadPruned : 0..CounterCap,
                basis : TimeRefs \cup {NoBasis}]
  <2>1. 1 \in 1..MaxOrder /\ 0 \in 0..CounterCap
    BY Constants
  <2> QED BY <2>1 DEF Init
<1>3. outcome \in [Batches -> SUBSET Facts]
  BY DEF Init
<1> QED BY <1>1, <1>2, <1>3 DEF Init, TypeOK

(* The Outbox is type correct: in particular attempts, deadlines, orders   *)
(* and counters stay within their caps.                                    *)
THEOREM TypeCorrect == Spec => []TypeOK
BY TypeInit, TypeStep, PTL DEF Spec

----------------------------------------------------------------------------
(* The session mirrors the tables. *)

(* A batch has no row, no entry, or both agree; a process that is down     *)
(* tracks nothing.  SessionMirrorsRows is its second half while the        *)
(* process lives; the first half makes the rows that attach restores, and  *)
(* the ones an operation removes, the same AbsentRow on both sides.        *)
Mirror ==
    /\ TypeOK
    /\ \A b \in Batches : rows[b].state = "ABSENT" => rows[b] = AbsentRow
    /\ \A b \in Batches : proc # "down" => entries[b].row = rows[b]
    /\ \A b \in Batches : proc = "down" => entries[b] = NoEntry

(* The entry of an unknown batch carries no row. *)
LEMMA NoEntryRow == NoEntry.row = AbsentRow
BY DEF NoEntry, BatchState

(* What _terminal of the batches T does to one batch, session and tables alike. *)
LEMMA AfterMirror ==
    ASSUME Mirror, proc # "down", NEW T, NEW source \in Sources, NEW b \in Batches
    PROVE  /\ EntriesAfter(T, source)[b].row = RowsAfter(T, source)[b]
           /\ RowsAfter(T, source)[b].state = "ABSENT" => RowsAfter(T, source)[b] = AbsentRow
<1>0. rows[b] \in Row /\ entries[b] \in Entry /\ entries[b].row = rows[b]
  BY DEF Mirror, TypeOK
<1>1. TerminalRow(rows[b], source).state = "DEAD"
  BY <1>0 DEF TerminalRow, Row
<1>2. ASSUME NEW e \in Entry
      PROVE  [e EXCEPT !.row = TerminalRow(@, source), !.source = source, !.active = FALSE].row
                = TerminalRow(e.row, source)
  BY DEF Entry
<1>3. CASE b \in Pruned(T)
  BY <1>3, NoEntryRow DEF RowsAfter, EntriesAfter
<1>4. CASE b \notin Pruned(T) /\ b \in T
  BY <1>0, <1>1, <1>2, <1>4 DEF RowsAfter, EntriesAfter
<1>5. CASE b \notin Pruned(T) /\ b \notin T
  BY <1>0, <1>5 DEF RowsAfter, EntriesAfter, Mirror
<1> QED BY <1>3, <1>4, <1>5

(* Freeing credits does not touch the rows. *)
LEMMA FreedRow ==
    ASSUME NEW e \in [Batches -> Entry], NEW b \in Batches
    PROVE  Freed(e)[b].row = e[b].row
<1>1. ASSUME NEW x \in Entry PROVE [x EXCEPT !.active = FALSE].row = x.row
  BY DEF Entry
<1> QED BY <1>1 DEF Freed

(* reserve schedules over the rows that expiry left in the tables. *)
LEMMA SchedulableRow ==
    ASSUME Mirror, proc # "down", NEW b \in Batches
    PROVE  Schedulable[b].row = RowsAfter(Expirable, "AGE_EXPIRED")[b]
<1>1. EntriesAfter(Expirable, "AGE_EXPIRED") \in [Batches -> Entry]
  BY AfterTypes DEF Mirror, Sources
<1> QED BY <1>1, FreedRow, AfterMirror DEF Schedulable, Sources

(* The entry and the row of a reserved batch count the same attempt. *)
LEMMA ReservedRow ==
    ASSUME NEW e \in [Batches -> Entry], NEW b \in Batches, NEW c \in Batches
    PROVE  Reserved(e, b)[c].row =
             IF c = b THEN [e[b].row EXCEPT !.attempts = Min(@ + 1, AttemptCap)] ELSE e[c].row
<1> DEFINE n == Min(e[b].row.attempts + 1, AttemptCap)
           w == IF n = 1 THEN FirstWait ELSE RetryWait
           q == [e[b].row EXCEPT !.attempts = n]
           x == [e[b] EXCEPT !.row = q, !.previousSent = e[b].everSent, !.due = w,
                             !.active = TRUE, !.everSent = TRUE]
<1>1. e[b] \in Entry
  OBVIOUS
<1>2. x.row = q
  <2> HIDE DEF q, w
  <2> QED BY <1>1 DEF Entry
<1>3. Reserved(e, b) = [e EXCEPT ![b] = x]
  BY DEF Reserved
<1>4. q = [e[b].row EXCEPT !.attempts = Min(@ + 1, AttemptCap)]
  OBVIOUS
<1> HIDE DEF x, q
<1> QED BY <1>2, <1>3, <1>4

(* The rows half and the entries half of Mirror, for one batch. *)
Agrees(b) ==
    /\ rows[b].state = "ABSENT" => rows[b] = AbsentRow
    /\ proc # "down" => entries[b].row = rows[b]
    /\ proc = "down" => entries[b] = NoEntry

(* Every operation changes the tables and the session alike. *)
LEMMA MirrorStep == Mirror /\ [Next]_vars => Mirror'
<1> SUFFICES ASSUME Mirror, [Next]_vars PROVE Mirror'
  OBVIOUS
<1> USE DEF Sources
<1>0. TypeOK /\ TypeOK' /\ \A b \in Batches : Agrees(b)
  BY TypeStep DEF Mirror, Agrees
<1> SUFFICES ASSUME NEW c \in Batches PROVE Agrees(c)'
  BY <1>0 DEF Mirror, Agrees
<1>a. rows[c] \in Row /\ entries[c] \in Entry /\ Agrees(c)
  BY <1>0 DEF TypeOK
<1>1. CASE Open
  <2>1. [entries[c] EXCEPT !.row = rows[c], !.origin = IF @ = "enqueued" THEN "reread" ELSE @].row
        = rows[c]
    BY <1>a DEF Entry
  <2>2. [BatchState(rows[c], "history") EXCEPT
            !.due = IF rows[c].attempts > 0 THEN RetryWait ELSE 0,
            !.everSent = rows[c].attempts > 0, !.source = rows[c].source,
            !.origin = "restored"].row = rows[c]
    BY DEF BatchState
  <2>3. Attached(c).row = rows[c]
    <3>1. CASE c \in Tracked
      BY <2>1, <3>1 DEF Attached
    <3>2. CASE c \notin Tracked /\ c \in Durable
      BY <2>2, <3>2 DEF Attached
    <3>3. CASE c \notin Tracked /\ c \notin Durable
      BY <1>a, <3>3, NoEntryRow DEF Attached, Durable, Agrees
    <3> QED BY <3>1, <3>2, <3>3
  <2> QED BY <1>1, <1>a, <2>3 DEF Open, Agrees, durable
<1>2. CASE Close
  BY <1>2, <1>a DEF Close, Agrees, durable
<1>3. CASE Crash
  BY <1>3, <1>a DEF Crash, Agrees, durable
<1>4. CASE OpenGate
  <2>1. [entries[c] EXCEPT !.category = "history"].row = entries[c].row
    BY <1>a DEF Entry
  <2> QED BY <1>4, <1>a, <2>1 DEF OpenGate, Agrees, durable
<1>5. ASSUME NEW b \in Batches, NEW a, Enqueue(b, a) PROVE Agrees(c)'
  <2>0. proc = "open" /\ proc' = "open"
    BY <1>5 DEF Enqueue, EnqueueCalled
  <2> DEFINE row == [state |-> "PENDING", attempts |-> 0, order |-> meta.nextOrder,
                     basis |-> ref, source |-> "NONE"]
  <2>1. rows' = [RowsAfter(Expirable, "AGE_EXPIRED") EXCEPT ![b] = row]
    BY <1>5 DEF Enqueue
  <2>2. PICK cl \in StageClasses(b) :
           entries' = [EntriesAfter(Expirable, "AGE_EXPIRED") EXCEPT ![b] = BatchState(row, cl)]
    BY <1>5 DEF Enqueue
  <2>3. BatchState(row, cl).row = row /\ row.state = "PENDING"
    BY DEF BatchState
  <2>4. /\ RowsAfter(Expirable, "AGE_EXPIRED") \in [Batches -> Row]
        /\ EntriesAfter(Expirable, "AGE_EXPIRED") \in [Batches -> Entry]
    BY <1>0, AfterTypes
  <2> HIDE DEF row
  <2>5. CASE c = b
    BY <2>0, <2>1, <2>2, <2>3, <2>4, <2>5 DEF Agrees
  <2>6. CASE c # b
    BY <2>0, <2>1, <2>2, <2>4, <2>6, AfterMirror DEF Agrees
  <2> QED BY <2>5, <2>6
<1>6. ASSUME NEW b \in Batches, EnqueueRefused(b) PROVE Agrees(c)'
  BY <1>6, AfterMirror DEF EnqueueRefused, EnqueueCalled, Expire, Agrees
<1>7. ASSUME NEW b \in Batches, NEW T \in SUBSET Expirable, EnqueueRaised(b, T) PROVE Agrees(c)'
  BY <1>7, AfterMirror DEF EnqueueRaised, EnqueueCalled, Expire, Agrees
<1>8. ASSUME NEW b \in Batches, Reserve(b) PROVE Agrees(c)'
  <2> DEFINE R == RowsAfter(Expirable, "AGE_EXPIRED")
             e == Schedulable
  <2>0. proc = "open" /\ proc' = "open"
    BY <1>8 DEF Reserve
  <2>1. rows' = [R EXCEPT ![b].attempts = Min(@ + 1, AttemptCap)] /\ entries' = Reserved(e, b)
    BY <1>8 DEF Reserve
  <2>2. R \in [Batches -> Row] /\ e \in [Batches -> Entry]
    BY <1>0, AfterTypes, SchedulableType
  <2>3. e[b].row = R[b] /\ e[c].row = R[c]
    BY <2>0, SchedulableRow
  <2>4. R[c].state = "ABSENT" => R[c] = AbsentRow
    BY <2>0, AfterMirror
  <2>5. b \in Choice(e)
    BY <1>8 DEF Reserve
  <2>6. e[b].row.state = "PENDING"
    BY <2>5 DEF Choice, Oldest, Eligible
  <2> HIDE DEF R, e
  <2>7. rows'[c] = IF c = b THEN [R[b] EXCEPT !.attempts = Min(@ + 1, AttemptCap)] ELSE R[c]
    BY <2>1, <2>2
  <2>8. entries'[c].row = rows'[c]
    BY <2>1, <2>2, <2>3, <2>7, ReservedRow
  <2>9. ASSUME NEW r \in Row, NEW n PROVE [r EXCEPT !.attempts = n].state = r.state
    BY DEF Row
  <2>10. rows'[c].state = "ABSENT" => rows'[c] = AbsentRow
    <3>1. CASE c = b
      <4>1. rows'[c].state = "PENDING"
        BY <2>2, <2>3, <2>6, <2>7, <2>9, <3>1
      <4> QED BY <4>1
    <3>2. CASE c # b
      BY <2>4, <2>7, <3>2
    <3> QED BY <3>1, <3>2
  <2> QED BY <2>0, <2>8, <2>10 DEF Agrees
<1>9. ASSUME NEW T \in SUBSET Expirable, ReserveNothing(T) PROVE Agrees(c)'
  BY <1>9, AfterMirror, SchedulableRow DEF ReserveNothing, Expire, Agrees
<1>10. ASSUME NEW b \in Batches, SubmissionFailed(b) PROVE Agrees(c)'
  <2>0. entries[b] \in Entry
    BY <1>0 DEF TypeOK
  <2>1. [entries[b] EXCEPT !.everSent = entries[b].previousSent, !.active = FALSE].row = entries[b].row
    BY <2>0 DEF Entry
  <2>2. entries' = [entries EXCEPT ![b] = [entries[b] EXCEPT !.everSent = entries[b].previousSent,
                                                             !.active = FALSE]]
    BY <1>10 DEF SubmissionFailed
  <2>3. entries'[c].row = entries[c].row
    BY <1>0, <2>1, <2>2 DEF TypeOK
  <2> QED BY <1>10, <1>a, <2>3 DEF SubmissionFailed, Agrees, durable
<1>11. ASSUME NEW b \in Batches, AckStored(b) PROVE Agrees(c)'
  BY <1>0, <1>11, <1>a, NoEntryRow DEF AckStored, Acknowledgeable, Agrees, TypeOK
<1>12. ASSUME NEW b \in Batches, AckRetry(b) PROVE Agrees(c)'
  <2>0. entries[b] \in Entry
    BY <1>0 DEF TypeOK
  <2>1. [entries[b] EXCEPT !.due = RetryWait, !.active = FALSE].row = entries[b].row
    BY <2>0 DEF Entry
  <2>2. entries' = [entries EXCEPT ![b] = [entries[b] EXCEPT !.due = RetryWait, !.active = FALSE]]
    BY <1>12 DEF AckRetry
  <2>3. entries'[c].row = entries[c].row
    BY <1>0, <2>1, <2>2 DEF TypeOK
  <2> QED BY <1>12, <1>a, <2>3 DEF AckRetry, Acknowledgeable, Agrees, durable
<1>13. ASSUME NEW b \in Batches, AckReject(b) PROVE Agrees(c)'
  BY <1>13, AfterMirror DEF AckReject, Acknowledgeable, Agrees
<1>14. CASE TimeChanges
  BY <1>14, <1>a DEF TimeChanges, Agrees, durable, session
<1>15. ASSUME NEW b \in Batches, AgeBatch(b) PROVE Agrees(c)'
  BY <1>15, <1>a DEF AgeBatch, Agrees, durable, session
<1>16. CASE Tick
  <2>1. \E b \in Batches : entries[b].due > 0
    BY <1>16 DEF Tick
  <2>2. proc # "down"
    BY <1>0, <2>1 DEF Agrees, NoEntry, BatchState
  <2>3. entries'[c].row = entries[c].row
    <3>1. ASSUME NEW n PROVE [entries[c] EXCEPT !.due = n].row = entries[c].row
      BY <1>a DEF Entry
    <3> QED BY <1>16, <3>1 DEF Tick
  <2> QED BY <1>16, <1>a, <2>2, <2>3 DEF Tick, Agrees, durable
<1>17. CASE UNCHANGED vars
  BY <1>17, <1>a DEF vars, Agrees
<1> QED BY <1>1, <1>2, <1>3, <1>4, <1>5, <1>6, <1>7, <1>8, <1>9, <1>10, <1>11, <1>12, <1>13,
           <1>14, <1>15, <1>16, <1>17 DEF Next, Operations, Environment

(* A process that has not started owns nothing. *)
LEMMA MirrorInit == Init => Mirror
<1> SUFFICES ASSUME Init PROVE Mirror
  OBVIOUS
<1>1. TypeOK
  BY TypeInit
<1> QED BY <1>1 DEF Init, Mirror

(* The strengthened agreement of session and tables holds in every behaviour of the
   store: a process that is down owns no entries, one that is up owns exactly the rows. *)
THEOREM MirrorInvariant == Spec => []Mirror
BY MirrorInit, MirrorStep, PTL DEF Spec

(* In a live process the session and the tables agree on every batch, for  *)
(* any number of batches and any interleaving of operations and failures.  *)
THEOREM SessionAgrees == Spec => []SessionMirrorsRows
<1>1. Mirror => SessionMirrorsRows
  BY DEF Mirror, SessionMirrorsRows
<1> QED BY <1>1, MirrorInvariant, PTL

----------------------------------------------------------------------------
(* The identity of a row: its local_order and its time basis. *)

(* The row of c is gone, or it is the row c had. *)
RowKept(c) ==
    \/ rows'[c] = AbsentRow
    \/ /\ rows[c].state # "ABSENT"
       /\ rows'[c].order = rows[c].order
       /\ rows'[c].basis = rows[c].basis

(* Every row is the old one, and next_order and the basis are untouched. *)
IdentitiesKept ==
    /\ \A c \in Batches : RowKept(c)
    /\ meta'.nextOrder = meta.nextOrder
    /\ meta'.basis = meta.basis

(* One row is new: it takes next_order and the basis of the process. *)
IdentityGiven(b) ==
    /\ \A c \in Batches \ {b} : RowKept(c)
    /\ rows'[b].order = meta.nextOrder
    /\ rows'[b].basis = ref
    /\ meta'.nextOrder = meta.nextOrder + 1
    /\ meta'.basis = IF Platform THEN ref ELSE meta.basis
    /\ BasisMatches

(* Ending batches that are in the tables gives nobody a new identity. *)
LEMMA SurvivorKept ==
    ASSUME Mirror, proc # "down", NEW T \in SUBSET Tracked, NEW source \in Sources, NEW c \in Batches
    PROVE  \/ RowsAfter(T, source)[c] = AbsentRow
           \/ /\ rows[c].state # "ABSENT"
              /\ RowsAfter(T, source)[c].order = rows[c].order
              /\ RowsAfter(T, source)[c].basis = rows[c].basis
<1>0. rows[c] \in Row /\ entries[c].row = rows[c]
  BY DEF Mirror, TypeOK
<1>1. TerminalRow(rows[c], source).order = rows[c].order /\ TerminalRow(rows[c], source).basis = rows[c].basis
  BY <1>0 DEF TerminalRow, Row
<1>2. CASE c \in Pruned(T)
  BY <1>2 DEF RowsAfter
<1>3. CASE c \notin Pruned(T) /\ c \in T
  BY <1>0, <1>1, <1>3 DEF RowsAfter, Tracked
<1>4. CASE c \notin Pruned(T) /\ c \notin T
  BY <1>4 DEF RowsAfter, Mirror
<1> QED BY <1>2, <1>3, <1>4

(* Only tracked batches expire. *)
LEMMA ExpirableTracked == Expirable \subseteq Tracked
BY DEF Expirable, Pending

(* A step that expires T and changes nothing else of tables and meta. *)
LEMMA ExpiryKeeps ==
    ASSUME Mirror, proc # "down", NEW T \in SUBSET Tracked, NEW source \in Sources,
           rows' = RowsAfter(T, source), meta' = MetaAfter(T)
    PROVE  IdentitiesKept
<1>1. T \in SUBSET Batches
  BY DEF Tracked
<1>2. meta'.nextOrder = meta.nextOrder /\ meta'.basis = meta.basis
  BY <1>1, MetaAfterType DEF Mirror
<1>3. ASSUME NEW c \in Batches PROVE RowKept(c)
  BY SurvivorKept DEF RowKept
<1> QED BY <1>2, <1>3 DEF IdentitiesKept

(* A step that leaves the tables alone. *)
LEMMA DurableKeeps ==
    ASSUME Mirror, UNCHANGED durable PROVE IdentitiesKept
BY DEF Mirror, durable, IdentitiesKept, RowKept

(* Only a committed enqueue gives out an identity. *)
LEMMA IdentityStep ==
    ASSUME Mirror, [Next]_vars
    PROVE  IdentitiesKept \/ \E b \in Batches : IdentityGiven(b)
<1> USE DEF Sources
<1>0. TypeOK
  BY DEF Mirror
<1>1. CASE \/ Open \/ Close \/ Crash \/ OpenGate \/ TimeChanges \/ Tick \/ UNCHANGED vars
           \/ \E b \in Batches : SubmissionFailed(b) \/ AckRetry(b) \/ AgeBatch(b)
  <2>1. UNCHANGED durable
    BY <1>1 DEF Open, Close, Crash, OpenGate, TimeChanges, Tick, vars, SubmissionFailed, AckRetry,
                AgeBatch, durable
  <2> QED BY <2>1, DurableKeeps
<1>2. ASSUME NEW b \in Batches, NEW a, Enqueue(b, a) PROVE IdentityGiven(b)
  <2> DEFINE row == [state |-> "PENDING", attempts |-> 0, order |-> meta.nextOrder,
                     basis |-> ref, source |-> "NONE"]
             R == RowsAfter(Expirable, "AGE_EXPIRED")
  <2>0. proc # "down" /\ BasisMatches
    BY <1>2 DEF Enqueue, EnqueueCalled
  <2>1. rows' = [R EXCEPT ![b] = row]
    BY <1>2 DEF Enqueue
  <2>2. R \in [Batches -> Row]
    BY <1>0, AfterTypes
  <2>3. ASSUME NEW c \in Batches \ {b} PROVE RowKept(c)
    <3>1. rows'[c] = R[c]
      BY <2>1, <2>2
    <3> QED BY <3>1, <2>0, SurvivorKept, ExpirableTracked DEF RowKept
  <2>4. rows'[b].order = meta.nextOrder /\ rows'[b].basis = ref
    BY <2>1, <2>2
  <2>5. meta' = [MetaAfter(Expirable) EXCEPT !.nextOrder = @ + 1, !.basis = IF Platform THEN ref ELSE @]
    BY <1>2 DEF Enqueue
  <2>6. meta'.nextOrder = meta.nextOrder + 1 /\ meta'.basis = IF Platform THEN ref ELSE meta.basis
    BY <1>0, <2>5, ExpirableSubset, MetaAfterType
  <2> QED BY <2>0, <2>3, <2>4, <2>6 DEF IdentityGiven
<1>3. ASSUME NEW b \in Batches, EnqueueRefused(b) PROVE IdentitiesKept
  BY <1>3, ExpiryKeeps, ExpirableTracked DEF EnqueueRefused, EnqueueCalled, Expire
<1>4. ASSUME NEW b \in Batches, NEW T \in SUBSET Expirable, EnqueueRaised(b, T) PROVE IdentitiesKept
  BY <1>4, ExpiryKeeps, ExpirableTracked DEF EnqueueRaised, EnqueueCalled, Expire
<1>5. ASSUME NEW T \in SUBSET Expirable, ReserveNothing(T) PROVE IdentitiesKept
  BY <1>5, ExpiryKeeps, ExpirableTracked DEF ReserveNothing, Expire
<1>6. ASSUME NEW b \in Batches, AckReject(b) PROVE IdentitiesKept
  <2>1. {b} \subseteq Tracked /\ proc # "down"
    BY <1>6 DEF AckReject, Acknowledgeable
  <2> QED BY <1>6, <2>1, ExpiryKeeps DEF AckReject
<1>7. ASSUME NEW b \in Batches, Reserve(b) PROVE IdentitiesKept
  <2> DEFINE R == RowsAfter(Expirable, "AGE_EXPIRED")
  <2>0. proc # "down"
    BY <1>7 DEF Reserve
  <2>1. rows' = [R EXCEPT ![b].attempts = Min(@ + 1, AttemptCap)] /\ meta' = MetaAfter(Expirable)
    BY <1>7 DEF Reserve
  <2>2. R \in [Batches -> Row]
    BY <1>0, AfterTypes
  <2>3. b \in Choice(Schedulable)
    BY <1>7 DEF Reserve
  <2>4. Schedulable[b].row.state = "PENDING"
    BY <2>3 DEF Choice, Oldest, Eligible
  <2>5. R[b].state = "PENDING"
    BY <2>0, <2>4, SchedulableRow
  <2>6. ASSUME NEW c \in Batches PROVE RowKept(c)
    <3>1. CASE c = b
      <4>1. ASSUME NEW r \in Row, NEW n
            PROVE  [r EXCEPT !.attempts = n].order = r.order /\ [r EXCEPT !.attempts = n].basis = r.basis
        BY DEF Row
      <4>2. R[b] # AbsentRow
        <5>1. AbsentRow.state = "ABSENT"
          BY DEF AbsentRow
        <5> QED BY <2>5, <5>1
      <4>3. rows[b].state # "ABSENT" /\ R[b].order = rows[b].order /\ R[b].basis = rows[b].basis
        BY <2>0, <4>2, SurvivorKept, ExpirableTracked
      <4>4. rows'[b] = [R[b] EXCEPT !.attempts = Min(@ + 1, AttemptCap)]
        BY <2>1, <2>2
      <4>5. rows'[b].order = R[b].order /\ rows'[b].basis = R[b].basis
        BY <2>2, <4>1, <4>4
      <4> QED BY <3>1, <4>3, <4>5 DEF RowKept
    <3>2. CASE c # b
      <4>1. rows'[c] = R[c]
        BY <2>1, <2>2, <3>2
      <4> QED BY <2>0, <4>1, SurvivorKept, ExpirableTracked DEF RowKept
    <3> QED BY <3>1, <3>2
  <2>7. meta'.nextOrder = meta.nextOrder /\ meta'.basis = meta.basis
    BY <1>0, <2>1, ExpirableSubset, MetaAfterType
  <2> QED BY <2>6, <2>7 DEF IdentitiesKept
<1>8. ASSUME NEW b \in Batches, AckStored(b) PROVE IdentitiesKept
  BY <1>0, <1>8 DEF AckStored, IdentitiesKept, RowKept, Mirror, TypeOK
<1> QED BY <1>1, <1>2, <1>3, <1>4, <1>5, <1>6, <1>7, <1>8 DEF Next, Operations, Environment

(* Trusted rows carry the basis that meta records. *)
RowsOnBasis == \A b \in Batches : rows[b].basis \in {NoBasis, meta.basis}

(* What the identities need from one step to the next. *)
Identity == Mirror /\ OrderIsIdentity /\ RowsOnBasis

(* A basis that is bound stays bound. *)
BasisKept == meta.basis # NoBasis => meta'.basis = meta.basis

(* A new database has no rows to tell apart. *)
LEMMA IdentityInit == Init => Identity
<1> SUFFICES ASSUME Init PROVE Identity
  OBVIOUS
<1>1. Mirror
  BY MirrorInit
<1>2. OrderIsIdentity /\ RowsOnBasis
  BY DEF Init, OrderIsIdentity, RowsOnBasis, Durable, AbsentRow
<1> QED BY <1>1, <1>2 DEF Identity

(* Identities are given out once, and on one basis. *)
LEMMA IdentityKeeps == Identity /\ [Next]_vars => Identity' /\ BasisKept
<1> SUFFICES ASSUME Identity, [Next]_vars PROVE Identity' /\ BasisKept
  OBVIOUS
<1>1. Mirror /\ Mirror' /\ TypeOK /\ TypeOK'
  BY MirrorStep DEF Identity, Mirror
<1>2. \A c \in Batches : rows[c] \in Row /\ rows'[c] \in Row
  BY <1>1 DEF TypeOK
<1>3. meta.nextOrder \in Nat /\ \A c \in Batches : rows[c].order \in Nat /\ rows'[c].order \in Nat
  <2>1. meta.nextOrder \in 1..MaxOrder
    BY <1>1 DEF TypeOK
  <2>2. \A c \in Batches : rows[c].order \in 0..MaxOrder /\ rows'[c].order \in 0..MaxOrder
    BY <1>2 DEF Row
  <2> QED BY <2>1, <2>2, Constants
<1>4. AbsentRow.state = "ABSENT" /\ AbsentRow.basis = NoBasis
  BY DEF AbsentRow
<1>5. ASSUME NEW c \in Batches, RowKept(c), rows'[c].state # "ABSENT"
      PROVE  c \in Durable /\ rows'[c].order = rows[c].order /\ rows'[c].basis = rows[c].basis
  BY <1>4, <1>5 DEF RowKept, Durable
<1>6. CASE IdentitiesKept
  <2>1. ASSUME NEW c \in Batches, rows'[c].state # "ABSENT" PROVE rows'[c].order < meta'.nextOrder
    BY <1>5, <1>6, <2>1 DEF IdentitiesKept, Identity, OrderIsIdentity
  <2>2. ASSUME NEW b \in Batches, NEW c \in Batches, rows'[b].state # "ABSENT", rows'[c].state # "ABSENT",
               rows'[b].order = rows'[c].order
        PROVE  b = c
    BY <1>5, <1>6, <2>2 DEF IdentitiesKept, Identity, OrderIsIdentity
  <2>3. OrderIsIdentity'
    BY <2>1, <2>2 DEF OrderIsIdentity, Durable
  <2>4. ASSUME NEW c \in Batches PROVE rows'[c].basis \in {NoBasis, meta'.basis}
    BY <1>4, <1>6 DEF IdentitiesKept, RowKept, Identity, RowsOnBasis
  <2> QED BY <1>1, <1>6, <2>3, <2>4 DEF Identity, RowsOnBasis, IdentitiesKept, BasisKept
<1>7. ASSUME NEW n \in Batches, IdentityGiven(n) PROVE Identity' /\ BasisKept
  <2>1. ASSUME NEW c \in Batches, rows'[c].state # "ABSENT", c # n
        PROVE  rows'[c].order < meta.nextOrder
    BY <1>5, <1>7, <2>1 DEF IdentityGiven, Identity, OrderIsIdentity
  <2>2. ASSUME NEW c \in Batches, rows'[c].state # "ABSENT" PROVE rows'[c].order < meta'.nextOrder
    BY <1>3, <1>7, <2>1, <2>2 DEF IdentityGiven
  <2>3. ASSUME NEW b \in Batches, NEW c \in Batches, rows'[b].state # "ABSENT", rows'[c].state # "ABSENT",
               rows'[b].order = rows'[c].order
        PROVE  b = c
    <3>1. CASE b # n /\ c # n
      BY <1>5, <1>7, <2>3, <3>1 DEF IdentityGiven, Identity, OrderIsIdentity
    <3>2. CASE b = n /\ c # n
      BY <1>3, <1>7, <2>1, <2>3, <3>2 DEF IdentityGiven
    <3>3. CASE b # n /\ c = n
      BY <1>3, <1>7, <2>1, <2>3, <3>3 DEF IdentityGiven
    <3> QED BY <3>1, <3>2, <3>3
  <2>4. OrderIsIdentity'
    BY <2>2, <2>3 DEF OrderIsIdentity, Durable
  <2>5. BasisKept
    BY <1>7 DEF IdentityGiven, BasisMatches, BasisKept
  <2>6. ASSUME NEW c \in Batches PROVE rows'[c].basis \in {NoBasis, meta'.basis}
    <3>1. CASE c = n
      BY <1>7, <3>1 DEF IdentityGiven, Platform
    <3>2. CASE c # n
      <4>1. rows'[c].basis \in {NoBasis, meta.basis}
        BY <1>4, <1>7, <3>2 DEF IdentityGiven, RowKept, Identity, RowsOnBasis
      <4> QED BY <2>5, <4>1 DEF BasisKept
    <3> QED BY <3>1, <3>2
  <2> QED BY <1>1, <2>4, <2>5, <2>6 DEF Identity, RowsOnBasis
<1> QED BY <1>1, <1>6, <1>7, IdentityStep

(* Orders and bases stay identities, in the tables and in the session. *)
THEOREM IdentityInvariant == Spec => []Identity
BY IdentityInit, IdentityKeeps, PTL DEF Spec

(* No two rows ever share a local_order and next_order is ahead of them    *)
(* all: for any number of batches, failed inserts, crashes and reopens.    *)
THEOREM OrdersAreIdentities == Spec => []OrderIsIdentity
<1>1. Identity => OrderIsIdentity
  BY DEF Identity
<1> QED BY <1>1, IdentityInvariant, PTL

(* The database binds its first trusted basis and keeps it, and every      *)
(* trusted row carries it, whichever processes have opened it since.       *)
THEOREM BasisIsBound == Spec => OneBasis
<1>1. Identity /\ [Next]_vars =>
          [/\ \A b \in Batches : rows'[b].basis \in {NoBasis, meta'.basis}
           /\ meta.basis # NoBasis => meta'.basis = meta.basis]_vars
  BY IdentityKeeps DEF Identity, RowsOnBasis, BasisKept
<1> QED BY <1>1, IdentityInvariant, PTL DEF Spec, OneBasis

----------------------------------------------------------------------------
(* The quotas: a database that was written can be opened again. *)

DeadRows == {b \in Batches : rows[b].state = "DEAD"}

(* The quotas OutboxStore.__init__ enforces, as the operations keep them:  *)
(* what is staged counts against the records of the session, and only an   *)
(* open store has something staged.                                        *)
Quota ==
    /\ Identity
    /\ Cardinality(Durable) <= MaxBatches
    /\ Cardinality(Durable) + Cardinality(Staged) <= MaxRecords
    /\ Total(PayloadSize, Durable) <= MaxBytes
    /\ Cardinality(DeadRows) <= MaxDead
    /\ proc # "open" => Staged = {}

(* A finite set that is not empty has a member that f maps lowest: the     *)
(* one with the fewest members below it.                                   *)
LEMMA LowestMember ==
    ASSUME NEW S, IsFiniteSet(S), S # {}, NEW f, \A x \in S : f[x] \in Int
    PROVE  \E x \in S : \A y \in S : f[x] <= f[y]
<1> DEFINE Below(x) == {y \in S : f[y] < f[x]}
           Belows == {Below(x) : x \in S}
<1>1. IsWellFoundedOn(StrictSubsetOrdering(S), SUBSET S)
  BY FS_StrictSubsetOrderingWellFounded, FS_FiniteSubsetsOfFinite
<1>2. Belows \subseteq SUBSET S /\ Belows # {}
  OBVIOUS
<1>3. PICK U \in Belows : \A V \in Belows : ~(<<V, U>> \in StrictSubsetOrdering(S))
  <2> HIDE DEF Belows
  <2> QED BY <1>1, <1>2, WFMin
<1>4. PICK x \in S : U = Below(x)
  OBVIOUS
<1>5. ASSUME NEW y \in S, f[y] < f[x] PROVE FALSE
  <2>1. Below(y) \subseteq Below(x) /\ y \in Below(x) /\ y \notin Below(y)
    BY <1>5
  <2>2. <<Below(y), Below(x)>> \in StrictSubsetOrdering(S)
    BY <2>1 DEF StrictSubsetOrdering
  <2> QED BY <1>3, <1>4, <2>2
<1> QED BY <1>5

(* The DEAD quota keeps at most MaxDead of the batches it is given, because *)
(* their orders differ: all it keeps but the oldest are newer than that one. *)
LEMMA NewestBound ==
    ASSUME TypeOK, NEW S \in SUBSET Batches,
           \A b, c \in S : entries[b].row.order = entries[c].row.order => b = c
    PROVE  Cardinality(Newest(S)) <= MaxDead
<1> DEFINE f == [b \in Batches |-> entries[b].row.order]
           N == Newest(S)
<1>1. \A b \in Batches : f[b] \in Int
  <2>1. \A b \in Batches : entries[b].row.order \in 0..MaxOrder
    BY DEF TypeOK, Entry, Row
  <2> QED BY <2>1, Constants
<1>2. N \subseteq S /\ IsFiniteSet(N) /\ IsFiniteSet(S)
  <2>1. N \subseteq S
    BY DEF Newest
  <2> QED BY <2>1, Constants, FS_Subset
<1>3. CASE N = {}
  BY <1>3, FS_EmptySet, Constants
<1>4. CASE N # {}
  <2>1. PICK m \in N : \A c \in N : f[m] <= f[c]
    <3> HIDE DEF N, f
    <3> QED BY <1>1, <1>2, <1>4, LowestMember
  <2> DEFINE Newer == {c \in S : entries[c].row.order > entries[m].row.order}
  <2>2. Cardinality(Newer) < MaxDead
    BY <2>1 DEF Newest
  <2>3. ASSUME NEW c \in N \ {m} PROVE c \in Newer
    <3>1. c \in S /\ m \in S /\ c \in Batches /\ m \in Batches
      BY <1>2
    <3>2. f[c] # f[m] /\ f[m] <= f[c] /\ f[c] \in Int /\ f[m] \in Int
      BY <1>1, <2>1, <3>1
    <3>3. f[c] > f[m]
      BY <3>2
    <3> QED BY <3>1, <3>3
  <2>4. IsFiniteSet(Newer) /\ Cardinality(Newer) \in Nat
    BY <1>2, FS_Subset, FS_CardinalityType
  <2>5. Cardinality(N \ {m}) <= Cardinality(Newer)
    <3>1. N \ {m} \subseteq Newer
      BY <2>3
    <3> QED BY <3>1, <2>4, FS_Subset
  <2>6. Cardinality(N \ {m}) = Cardinality(N) - 1 /\ Cardinality(N) \in Nat
    BY <1>2, <2>1, FS_RemoveElement, FS_CardinalityType
  <2> QED BY <2>2, <2>4, <2>5, <2>6, Constants
<1> QED BY <1>3, <1>4

(* In a live process the session's sets are the tables' sets. *)
LEMMA TrackedIsDurable ==
    ASSUME Mirror, proc # "down" PROVE Tracked = Durable /\ Dead = DeadRows
BY DEF Mirror, Tracked, Durable, Dead, DeadRows

(* What is left of the tables when the batches T have ended. *)
LEMMA EndingShrinks ==
    ASSUME Identity, proc # "down", NEW T \in SUBSET Tracked, NEW source \in Sources
    PROVE  /\ {c \in Batches : RowsAfter(T, source)[c].state # "ABSENT"} \subseteq Kept(T)
           /\ Cardinality({c \in Batches : RowsAfter(T, source)[c].state = "DEAD"}) <= MaxDead
<1>0. Mirror /\ TypeOK
  BY DEF Identity, Mirror
<1> DEFINE R == RowsAfter(T, source)
<1>a. AbsentRow.state = "ABSENT"
  BY DEF AbsentRow
<1>1. ASSUME NEW c \in Batches, R[c].state # "ABSENT" PROVE c \in Kept(T)
  <2>1. c \notin Pruned(T)
    BY <1>1, <1>a DEF RowsAfter
  <2>2. c \in Tracked
    <3>1. CASE c \in T
      BY <3>1
    <3>2. CASE c \notin T
      BY <1>0, <1>1, <2>1, <3>2, TrackedIsDurable DEF RowsAfter, Durable
    <3> QED BY <3>1, <3>2
  <2> QED BY <2>1, <2>2 DEF Kept
<1>2. Dead \cup T \subseteq Batches
  BY DEF Dead, Tracked
<1>3. {c \in Batches : R[c].state = "DEAD"} \subseteq Newest(Dead \cup T)
  <2> SUFFICES ASSUME NEW c \in Batches, R[c].state = "DEAD" PROVE c \in Newest(Dead \cup T)
    OBVIOUS
  <2>1. c \notin Pruned(T)
    BY <1>a DEF RowsAfter
  <2>2. c \in Dead \cup T
    <3>1. CASE c \in T
      BY <3>1
    <3>2. CASE c \notin T
      <4>1. rows[c].state = "DEAD"
        BY <2>1, <3>2 DEF RowsAfter
      <4> QED BY <1>0, <4>1, TrackedIsDurable DEF DeadRows
    <3> QED BY <3>1, <3>2
  <2> QED BY <2>1, <2>2 DEF Pruned
<1>4. \A b, c \in Dead \cup T : entries[b].row.order = entries[c].row.order => b = c
  <2>1. Dead \cup T \subseteq Durable
    BY <1>0, TrackedIsDurable DEF Dead
  <2>2. \A b \in Batches : entries[b].row = rows[b]
    BY <1>0 DEF Mirror
  <2> QED BY <1>2, <2>1, <2>2 DEF Identity, OrderIsIdentity
<1>5. Cardinality(Newest(Dead \cup T)) <= MaxDead /\ IsFiniteSet(Newest(Dead \cup T))
  <2>1. Newest(Dead \cup T) \subseteq Batches
    BY <1>2 DEF Newest
  <2> QED BY <1>0, <1>2, <1>4, <2>1, NewestBound, FS_Subset, Constants
<1>6. Cardinality({c \in Batches : R[c].state = "DEAD"}) <= MaxDead
  <2> DEFINE D == {c \in Batches : R[c].state = "DEAD"}
  <2>1. D \subseteq Newest(Dead \cup T)
    BY <1>3
  <2> HIDE DEF D
  <2>2. Cardinality(D) <= Cardinality(Newest(Dead \cup T)) /\ Cardinality(D) \in Nat
    BY <1>5, <2>1, FS_Subset, FS_CardinalityType
  <2>3. Cardinality(Newest(Dead \cup T)) \in Nat
    BY <1>5, FS_CardinalityType
  <2>4. Cardinality(D) <= MaxDead
    BY <1>5, <2>2, <2>3, Constants
  <2> QED BY <2>4 DEF D
<1> QED BY <1>1, <1>6

(* Sets of batches are finite, and smaller ones have fewer members. *)
LEMMA BatchSets ==
    ASSUME NEW S \in SUBSET Batches, NEW U \in SUBSET S
    PROVE  /\ IsFiniteSet(S) /\ IsFiniteSet(U)
           /\ Cardinality(U) <= Cardinality(S)
           /\ Cardinality(U) \in Nat /\ Cardinality(S) \in Nat
<1>1. IsFiniteSet(S)
  BY Constants, FS_Subset
<1> QED BY <1>1, FS_Subset, FS_CardinalityType

(* Payload bytes are counted, and fewer batches have fewer of them. *)
LEMMA TotalMonotone ==
    ASSUME NEW S \in SUBSET Batches, NEW U \in SUBSET S
    PROVE  /\ Total(PayloadSize, U) <= Total(PayloadSize, S)
           /\ Total(PayloadSize, U) \in Nat /\ Total(PayloadSize, S) \in Nat
<1> DEFINE f == [b \in Batches |-> {b} \X (1..PayloadSize[b])]
           Bytes(X) == UNION {{b} \X (1..PayloadSize[b]) : b \in X}
<1>1. ASSUME NEW b \in Batches PROVE IsFiniteSet(f[b])
  <2>1. PayloadSize[b] \in Int
    BY Constants
  <2>2. IsFiniteSet(1..PayloadSize[b])
    BY <2>1, FS_Interval
  <2>3. IsFiniteSet({b})
    BY FS_Singleton
  <2>4. IsFiniteSet({b} \X (1..PayloadSize[b]))
    BY <2>2, <2>3, FS_Product
  <2> QED BY <2>4
<1>2. IsFiniteSet({f[b] : b \in S})
  <2> DEFINE g == [b \in S |-> f[b]]
             I == {f[b] : b \in S}
  <2>1. g \in Surjection(S, I)
    BY DEF Surjection
  <2>2. IsFiniteSet(S)
    BY BatchSets
  <2> HIDE DEF g, I
  <2>3. IsFiniteSet(I)
    BY <2>1, <2>2, FS_Surjection
  <2> QED BY <2>3 DEF I
<1>3. IsFiniteSet(UNION {f[b] : b \in S})
  BY <1>1, <1>2, FS_UNION
<1>4. UNION {f[b] : b \in S} = Bytes(S)
  OBVIOUS
<1>5. Bytes(U) \subseteq Bytes(S)
  OBVIOUS
<1>6. /\ Cardinality(Bytes(U)) <= Cardinality(Bytes(S))
      /\ Cardinality(Bytes(U)) \in Nat /\ Cardinality(Bytes(S)) \in Nat
  <2> HIDE DEF Bytes, f
  <2>1. IsFiniteSet(Bytes(S))
    BY <1>3, <1>4
  <2>2. IsFiniteSet(Bytes(U)) /\ Cardinality(Bytes(U)) <= Cardinality(Bytes(S))
    BY <1>5, <2>1, FS_Subset
  <2> QED BY <2>1, <2>2, FS_CardinalityType
<1> QED BY <1>6 DEF Total

(* The sets the quotas count. *)
LEMMA QuotaSets ==
    /\ Durable \subseteq Batches /\ Staged \subseteq Batches /\ DeadRows \subseteq Batches
    /\ Durable' \subseteq Batches /\ Staged' \subseteq Batches /\ DeadRows' \subseteq Batches
BY DEF Durable, Staged, DeadRows

(* A step that adds no row and stages nothing, and leaves few enough DEAD rows. *)
LEMMA QuotaShrinks ==
    ASSUME Quota, Identity', Durable' \subseteq Durable, Staged' \subseteq Staged,
           Cardinality(DeadRows') <= MaxDead, proc' # "open" => Staged' = {}
    PROVE  Quota'
<1>1. Cardinality(Durable') <= Cardinality(Durable) /\ Cardinality(Staged') <= Cardinality(Staged)
  BY QuotaSets, BatchSets
<1>2. /\ Cardinality(Durable) \in Nat /\ Cardinality(Staged) \in Nat
      /\ Cardinality(Durable') \in Nat /\ Cardinality(Staged') \in Nat
  BY QuotaSets, BatchSets
<1>3. /\ Cardinality(Durable') <= MaxBatches
      /\ Cardinality(Durable') + Cardinality(Staged') <= MaxRecords
  BY <1>1, <1>2, Constants DEF Quota
<1>4. Total(PayloadSize, Durable') <= MaxBytes
  <2>1. /\ Total(PayloadSize, Durable') <= Total(PayloadSize, Durable)
        /\ Total(PayloadSize, Durable') \in Nat /\ Total(PayloadSize, Durable) \in Nat
    BY QuotaSets, TotalMonotone
  <2> QED BY <2>1, Constants DEF Quota
<1>5. Total(PayloadSize, Durable)' <= MaxBytes
  BY <1>4 DEF Total
<1> QED BY <1>3, <1>5 DEF Quota

(* A step that leaves the tables alone and stages nothing. *)
LEMMA QuotaFrame ==
    ASSUME Quota, Identity', rows' = rows, Staged' \subseteq Staged, proc' # "open" => Staged' = {}
    PROVE  Quota'
<1>1. Durable' = Durable /\ DeadRows' = DeadRows
  BY DEF Durable, DeadRows
<1> QED BY <1>1, QuotaShrinks DEF Quota

(* A step that ends the batches T and stages nothing. *)
LEMMA QuotaEnding ==
    ASSUME Quota, Identity', proc # "down", proc' = "open", NEW T \in SUBSET Tracked, NEW source \in Sources,
           rows' = RowsAfter(T, source), staged' = staged
    PROVE  Quota'
<1>0. Identity /\ Mirror
  BY DEF Quota, Identity
<1>1. Durable' \subseteq Kept(T) /\ Cardinality(DeadRows') <= MaxDead
  BY <1>0, EndingShrinks DEF Durable, DeadRows
<1>2. Durable' \subseteq Durable
  BY <1>0, <1>1, TrackedIsDurable DEF Kept
<1>3. Staged' = Staged
  BY DEF Staged
<1> QED BY <1>1, <1>2, <1>3, QuotaShrinks

(* Staging b takes one record, unless b was staged before. *)
LEMMA QuotaStaging ==
    ASSUME Quota, Identity', proc = "open", proc' = "open", NEW b \in Batches,
           NEW T \in SUBSET Tracked, rows' = RowsAfter(T, "AGE_EXPIRED"), CanStage(b, T),
           Staged' \subseteq Staged \cup {b}
    PROVE  Quota'
<1>0. Identity /\ Mirror
  BY DEF Quota, Identity
<1>1. Durable' \subseteq Kept(T) /\ Cardinality(DeadRows') <= MaxDead /\ Kept(T) \subseteq Durable
  <2>1. "AGE_EXPIRED" \in Sources
    BY DEF Sources
  <2> QED BY <1>0, <2>1, EndingShrinks, TrackedIsDurable DEF Durable, DeadRows, Kept
<1>2. CASE b \in Staged
  BY <1>1, <1>2, QuotaShrinks
<1>3. CASE b \notin Staged
  <2>1. Cardinality(Kept(T)) + Cardinality(Staged) < MaxRecords
    BY <1>3 DEF CanStage
  <2>2. /\ Cardinality(Durable') <= Cardinality(Kept(T)) /\ Cardinality(Kept(T)) <= Cardinality(Durable)
        /\ Cardinality(Durable') \in Nat /\ Cardinality(Kept(T)) \in Nat /\ Cardinality(Durable) \in Nat
    BY <1>1, QuotaSets, BatchSets
  <2>3. IsFiniteSet(Staged) /\ Cardinality(Staged) \in Nat /\ Cardinality(Staged') \in Nat
    BY QuotaSets, BatchSets
  <2>4. Cardinality(Staged') <= Cardinality(Staged) + 1
    <3>1. IsFiniteSet(Staged \cup {b}) /\ Cardinality(Staged \cup {b}) = Cardinality(Staged) + 1
      BY <1>3, <2>3, FS_AddElement
    <3> QED BY <3>1, FS_Subset
  <2>5. /\ Cardinality(Durable') <= MaxBatches
        /\ Cardinality(Durable') + Cardinality(Staged') <= MaxRecords
    BY <2>1, <2>2, <2>3, <2>4, Constants DEF Quota
  <2>6. Total(PayloadSize, Durable') <= MaxBytes
    <3>1. /\ Total(PayloadSize, Durable') <= Total(PayloadSize, Durable)
          /\ Total(PayloadSize, Durable') \in Nat /\ Total(PayloadSize, Durable) \in Nat
      BY <1>1, QuotaSets, TotalMonotone
    <3> QED BY <3>1, Constants DEF Quota
  <2>7. Total(PayloadSize, Durable)' <= MaxBytes
    BY <2>6 DEF Total
  <2> QED BY <1>1, <2>5, <2>7 DEF Quota
<1> QED BY <1>2, <1>3

(* The row of an enqueue fits: expiry came first, and a staged batch gives *)
(* its record back.                                                        *)
LEMMA QuotaEnqueue ==
    ASSUME Quota, Identity', NEW b \in Batches, NEW a, Enqueue(b, a)
    PROVE  Quota'
<1> DEFINE T == Expirable
           R == RowsAfter(T, "AGE_EXPIRED")
           row == [state |-> "PENDING", attempts |-> 0, order |-> meta.nextOrder,
                   basis |-> ref, source |-> "NONE"]
<1>0. Identity /\ Mirror /\ TypeOK /\ proc = "open" /\ proc' = "open" /\ "AGE_EXPIRED" \in Sources
  BY DEF Quota, Identity, Mirror, Enqueue, EnqueueCalled, Sources
<1>1. rows' = [R EXCEPT ![b] = row] /\ staged' = [staged EXCEPT ![b] = "none"]
  BY DEF Enqueue
<1>2. R \in [Batches -> Row] /\ staged \in [Batches -> Classes \cup {"none"}]
  BY <1>0, AfterTypes DEF TypeOK
<1>3. row.state = "PENDING"
  OBVIOUS
<1>4. HasRoom(b, T) /\ CanStage(b, T)
  BY DEF Enqueue
<1>5. /\ {c \in Batches : R[c].state # "ABSENT"} \subseteq Kept(T)
      /\ Cardinality({c \in Batches : R[c].state = "DEAD"}) <= MaxDead
  BY <1>0, EndingShrinks, ExpirableTracked
<1> HIDE DEF R, row, T
<1>6. Durable' \subseteq Kept(T) \cup {b}
  BY <1>1, <1>2, <1>5 DEF Durable
<1>7. Cardinality(DeadRows') <= MaxDead
  <2> DEFINE D == {c \in Batches : R[c].state = "DEAD"}
  <2>1. DeadRows' \subseteq D /\ D \subseteq Batches
    BY <1>1, <1>2, <1>3 DEF DeadRows
  <2>2. Cardinality(D) <= MaxDead
    BY <1>5
  <2> HIDE DEF D
  <2> QED BY <2>1, <2>2, BatchSets, Constants
<1>8. Staged' = Staged \ {b}
  BY <1>1, <1>2 DEF Staged
<1>9. /\ Kept(T) \subseteq Batches /\ IsFiniteSet(Kept(T)) /\ Cardinality(Kept(T)) \in Nat
      /\ IsFiniteSet(Staged) /\ Cardinality(Staged) \in Nat
      /\ Cardinality(Durable') \in Nat /\ Cardinality(Durable) \in Nat
      /\ Cardinality(Kept(T)) <= Cardinality(Durable)
  <2>1. Kept(T) \subseteq Durable
    BY <1>0, TrackedIsDurable DEF Kept
  <2> QED BY <2>1, QuotaSets, BatchSets
<1>10. Cardinality(Durable') <= Cardinality(Kept(T)) + 1
  <2>1. IsFiniteSet(Kept(T) \cup {b}) /\ Cardinality(Kept(T) \cup {b}) <= Cardinality(Kept(T)) + 1
    BY <1>9, FS_AddElement
  <2>2. Cardinality(Durable') <= Cardinality(Kept(T) \cup {b}) /\ Cardinality(Kept(T) \cup {b}) \in Nat
    BY <1>6, <2>1, FS_Subset, FS_CardinalityType
  <2> QED BY <1>9, <2>1, <2>2
<1>11. Cardinality(Durable') <= MaxBatches
  BY <1>4, <1>9, <1>10, Constants DEF HasRoom
<1>12. Cardinality(Durable') + Cardinality(Staged') <= MaxRecords
  <2>1. CASE b \in Staged
    <3>1. Cardinality(Staged') = Cardinality(Staged) - 1
      BY <1>8, <1>9, <2>1, FS_RemoveElement
    <3> QED BY <1>9, <1>10, <3>1, Constants DEF Quota
  <2>2. CASE b \notin Staged
    <3>1. Cardinality(Staged') = Cardinality(Staged)
      BY <1>8, <2>2
    <3>2. Cardinality(Kept(T)) + Cardinality(Staged) < MaxRecords
      BY <1>4, <2>2 DEF CanStage
    <3> QED BY <1>9, <1>10, <3>1, <3>2, Constants
  <2> QED BY <2>1, <2>2
<1>13. Total(PayloadSize, Durable)' <= MaxBytes
  <2>1. Total(PayloadSize, Kept(T) \cup {b}) <= MaxBytes
    BY <1>4 DEF HasRoom
  <2>2. Kept(T) \cup {b} \subseteq Batches
    BY <1>9
  <2>3. /\ Total(PayloadSize, Durable') <= Total(PayloadSize, Kept(T) \cup {b})
        /\ Total(PayloadSize, Durable') \in Nat /\ Total(PayloadSize, Kept(T) \cup {b}) \in Nat
    BY <1>6, <2>2, TotalMonotone
  <2>4. Total(PayloadSize, Durable') <= MaxBytes
    BY <2>1, <2>3, Constants
  <2> QED BY <2>4 DEF Total
<1> QED BY <1>0, <1>7, <1>11, <1>12, <1>13 DEF Quota

(* Every operation keeps the database within its quotas. *)
LEMMA QuotaStep == Quota /\ [Next]_vars => Quota'
<1> SUFFICES ASSUME Quota, [Next]_vars PROVE Quota'
  OBVIOUS
<1> USE DEF Sources
<1>0. Identity /\ Identity' /\ Mirror /\ TypeOK
  BY IdentityKeeps DEF Quota, Identity, Mirror
<1>1. CASE Open
  <2>1. rows' = rows /\ Staged' = Staged /\ proc' = "open"
    BY <1>1 DEF Open, durable, Staged
  <2> QED BY <1>0, <2>1, QuotaFrame
<1>2. CASE Close \/ Crash
  <2>1. rows' = rows /\ Staged' = {}
    BY <1>2 DEF Close, Crash, durable, Staged
  <2> QED BY <1>0, <2>1, QuotaFrame
<1>3. CASE OpenGate
  <2>1. rows' = rows /\ Staged' \subseteq Staged /\ proc' = "open"
    BY <1>3 DEF OpenGate, durable, Staged
  <2> QED BY <1>0, <2>1, QuotaFrame
<1>4. CASE \/ TimeChanges \/ Tick \/ UNCHANGED vars
           \/ \E b \in Batches : SubmissionFailed(b) \/ AckRetry(b) \/ AgeBatch(b)
  <2>1. rows' = rows /\ staged' = staged /\ proc' = proc
    BY <1>4 DEF TimeChanges, Tick, vars, SubmissionFailed, AckRetry, AgeBatch, durable, session
  <2>2. Staged' = Staged
    BY <2>1 DEF Staged
  <2> QED BY <1>0, <2>1, <2>2, QuotaFrame DEF Quota
<1>5. ASSUME NEW b \in Batches, NEW a, Enqueue(b, a) PROVE Quota'
  BY <1>0, <1>5, QuotaEnqueue
<1>6. ASSUME NEW b \in Batches, EnqueueRefused(b) PROVE Quota'
  BY <1>0, <1>6, QuotaEnding, ExpirableTracked DEF EnqueueRefused, EnqueueCalled, Expire
<1>7. ASSUME NEW b \in Batches, NEW T \in SUBSET Expirable, EnqueueRaised(b, T) PROVE Quota'
  <2>1. rows' = RowsAfter(T, "AGE_EXPIRED") /\ proc = "open" /\ proc' = "open" /\ T \in SUBSET Tracked
    BY <1>7, ExpirableTracked DEF EnqueueRaised, EnqueueCalled, Expire
  <2>2. CASE staged' = staged
    BY <1>0, <2>1, <2>2, QuotaEnding
  <2>3. CASE CanStage(b, T) /\ \E c \in StageClasses(b) : staged' = [staged EXCEPT ![b] = c]
    <3>0. PICK c \in StageClasses(b) : staged' = [staged EXCEPT ![b] = c]
      BY <2>3
    <3>1. ASSUME NEW x \in Batches, x # b PROVE staged'[x] = staged[x]
      BY <1>0, <3>0, <3>1 DEF TypeOK
    <3>2. Staged' \subseteq Staged \cup {b}
      BY <3>1 DEF Staged
    <3> QED BY <1>0, <2>1, <2>3, <3>2, QuotaStaging
  <2> QED BY <1>7, <2>2, <2>3 DEF EnqueueRaised
<1>8. ASSUME NEW b \in Batches, Reserve(b) PROVE Quota'
  <2> DEFINE R == RowsAfter(Expirable, "AGE_EXPIRED")
  <2>1. /\ rows' = [R EXCEPT ![b].attempts = Min(@ + 1, AttemptCap)]
        /\ staged' = staged /\ proc = "open" /\ proc' = "open"
    BY <1>8 DEF Reserve
  <2>2. R \in [Batches -> Row]
    BY <1>0, AfterTypes
  <2>3. ASSUME NEW c \in Batches PROVE rows'[c].state = R[c].state
    <3>1. ASSUME NEW r \in Row, NEW n PROVE [r EXCEPT !.attempts = n].state = r.state
      BY DEF Row
    <3> HIDE DEF R
    <3>2. rows'[c] = IF c = b THEN [R[b] EXCEPT !.attempts = Min(@ + 1, AttemptCap)] ELSE R[c]
      BY <2>1, <2>2
    <3> QED BY <2>2, <3>1, <3>2
  <2>4. /\ {c \in Batches : R[c].state # "ABSENT"} \subseteq Kept(Expirable)
        /\ Cardinality({c \in Batches : R[c].state = "DEAD"}) <= MaxDead
    BY <1>0, <2>1, EndingShrinks, ExpirableTracked
  <2> HIDE DEF R
  <2>5. Durable' \subseteq Durable
    <3>1. Durable' = {c \in Batches : R[c].state # "ABSENT"}
      BY <2>3 DEF Durable
    <3> QED BY <1>0, <2>1, <2>4, <3>1, TrackedIsDurable DEF Kept
  <2>6. Cardinality(DeadRows') <= MaxDead
    <3>1. DeadRows' = {c \in Batches : R[c].state = "DEAD"}
      BY <2>3 DEF DeadRows
    <3> QED BY <2>4, <3>1
  <2>7. Staged' = Staged
    BY <2>1 DEF Staged
  <2> QED BY <1>0, <2>1, <2>5, <2>6, <2>7, QuotaShrinks
<1>9. ASSUME NEW T \in SUBSET Expirable, ReserveNothing(T) PROVE Quota'
  BY <1>0, <1>9, QuotaEnding, ExpirableTracked DEF ReserveNothing, Expire
<1>10. ASSUME NEW b \in Batches, AckStored(b) PROVE Quota'
  <2>1. rows' = [rows EXCEPT ![b] = AbsentRow] /\ staged' = staged /\ proc = "open" /\ proc' = "open"
    BY <1>10 DEF AckStored, Acknowledgeable
  <2>2. Durable' \subseteq Durable /\ DeadRows' \subseteq DeadRows /\ Staged' = Staged
    BY <1>0, <2>1 DEF Durable, DeadRows, Staged, TypeOK, AbsentRow
  <2>3. Cardinality(DeadRows') <= MaxDead
    BY <2>2, QuotaSets, BatchSets, Constants DEF Quota
  <2> QED BY <1>0, <2>1, <2>2, <2>3, QuotaShrinks
<1>11. ASSUME NEW b \in Batches, AckReject(b) PROVE Quota'
  <2>1. {b} \subseteq Tracked
    BY <1>11 DEF AckReject, Acknowledgeable
  <2> QED BY <1>0, <1>11, <2>1, QuotaEnding DEF AckReject, Acknowledgeable
<1> QED BY <1>1, <1>2, <1>3, <1>4, <1>5, <1>6, <1>7, <1>8, <1>9, <1>10, <1>11
        DEF Next, Operations, Environment

(* A new database is empty. *)
LEMMA QuotaInit == Init => Quota
<1> SUFFICES ASSUME Init PROVE Quota
  OBVIOUS
<1>1. Identity
  BY IdentityInit
<1>2. Durable = {} /\ Staged = {} /\ DeadRows = {}
  BY DEF Init, Durable, Staged, DeadRows, AbsentRow
<1>3. Cardinality({}) = 0
  BY FS_EmptySet
<1>4. Total(PayloadSize, {}) = 0
  <2>1. UNION {{b} \X (1..PayloadSize[b]) : b \in {}} = {}
    OBVIOUS
  <2> QED BY <1>3, <2>1 DEF Total
<1> QED BY <1>1, <1>2, <1>3, <1>4, Constants DEF Quota

(* Rows, staged entries and DEAD rows stay within their quotas at every   *)
(* point, not only where a store may be closed.                           *)
THEOREM QuotaInvariant == Spec => []Quota
BY QuotaInit, QuotaStep, PTL DEF Spec

(* Whatever was enqueued, ended and pruned before a close or a crash, the  *)
(* rows pass the checks of OutboxStore.__init__: they are within           *)
(* max_batches, max_bytes and the session's records, the DEAD ones within  *)
(* max_dead, and none that a session owns is missing.  A process that has  *)
(* only closed its store knows all of them, so its attach stages nothing   *)
(* and the memory quota, which a later process may exceed, is not asked.   *)
THEOREM DatabaseReopens == Spec => []AlwaysReopens
<1>1. Quota => AlwaysReopens
  <2> SUFFICES ASSUME Quota, proc # "open"
               PROVE  WithinQuotas /\ (proc = "closed" => MetadataFits)
    BY DEF AlwaysReopens, CanOpen
  <2>1. Identity /\ Mirror /\ TypeOK
    BY DEF Quota, Identity, Mirror
  <2>2. Cardinality(Durable) \in Nat /\ Cardinality(Staged) \in Nat
    BY QuotaSets, BatchSets
  <2>3. Cardinality(Durable) <= Min(MaxBatches, MaxRecords)
    BY <2>2, Constants DEF Quota, Min
  <2>4. Cardinality({b \in Durable : rows[b].state = "DEAD"}) <= MaxDead
    <3>1. {b \in Durable : rows[b].state = "DEAD"} = DeadRows
      BY DEF Durable, DeadRows
    <3> QED BY <3>1 DEF Quota
  <2>5. Tracked \subseteq Durable
    <3>1. NoEntry.row.state = "ABSENT"
      BY DEF NoEntry, BatchState, AbsentRow
    <3> QED BY <2>1, <3>1, TrackedIsDurable DEF Mirror, Tracked
  <2>6. WithinQuotas
    BY <2>3, <2>4, <2>5 DEF WithinQuotas, Quota
  <2>7. proc = "closed" => Durable \subseteq Tracked
    BY <2>1 DEF Mirror, Durable, Tracked
  <2> QED BY <2>6, <2>7 DEF MetadataFits
<1> QED BY <1>1, QuotaInvariant, PTL

----------------------------------------------------------------------------
(* What is recorded of a batch: one end, and no stored after a rejection. *)

(* What the end of the batches T, all PENDING, means for one batch c. *)
LEMMA EndingCases ==
    ASSUME TypeOK, NEW T \in SUBSET Pending, NEW source, NEW c \in Batches
    PROVE  \/ /\ c \in Pruned(T) /\ c \in T \cup Dead
              /\ RowsAfter(T, source)[c] = AbsentRow
              /\ OutcomeAfter(T, source)[c] = outcome[c] \cup {"pruned"}
                     \cup (IF c \in T THEN {TerminalFact(c, source)} ELSE {})
           \/ /\ c \notin Pruned(T) /\ c \in T
              /\ RowsAfter(T, source)[c] = TerminalRow(rows[c], source)
              /\ EntriesAfter(T, source)[c].everSent = entries[c].everSent
              /\ EntriesAfter(T, source)[c].previousSent = entries[c].previousSent
              /\ OutcomeAfter(T, source)[c] = outcome[c] \cup {TerminalFact(c, source)}
           \/ /\ c \notin Pruned(T) /\ c \notin T
              /\ RowsAfter(T, source)[c] = rows[c]
              /\ EntriesAfter(T, source)[c] = entries[c]
              /\ OutcomeAfter(T, source)[c] = outcome[c]
<1>1. CASE c \in Pruned(T)
  BY <1>1 DEF Pruned, RowsAfter, OutcomeAfter
<1>2. CASE c \notin Pruned(T) /\ c \in T
  <2>1. ASSUME NEW e \in Entry
        PROVE  LET f == [e EXCEPT !.row = TerminalRow(@, source), !.source = source, !.active = FALSE]
               IN  f.everSent = e.everSent /\ f.previousSent = e.previousSent
    BY DEF Entry
  <2>2. entries[c] \in Entry
    BY DEF TypeOK
  <2>3. EntriesAfter(T, source)[c] =
           [entries[c] EXCEPT !.row = TerminalRow(@, source), !.source = source, !.active = FALSE]
    BY <1>2 DEF EntriesAfter
  <2>4. /\ EntriesAfter(T, source)[c].everSent = entries[c].everSent
        /\ EntriesAfter(T, source)[c].previousSent = entries[c].previousSent
    BY <2>1, <2>2, <2>3
  <2> QED BY <1>2, <2>4 DEF RowsAfter, OutcomeAfter
<1>3. CASE c \notin Pruned(T) /\ c \notin T
  BY <1>3 DEF RowsAfter, EntriesAfter, OutcomeAfter
<1> QED BY <1>1, <1>2, <1>3

(* The facts about b follow its row, and the session knows why a row ended. *)
Ends(b) ==
    /\ b \notin accepted => rows[b].state = "ABSENT" /\ outcome[b] = {}
    /\ rows[b].state = "PENDING" => outcome[b] \cap (TerminalFacts \cup {"stored"}) = {}
    /\ rows[b].state = "DEAD" => /\ "stored" \notin outcome[b]
                                 /\ "isolated" \in outcome[b] => rows[b].source = "PERMANENT_REJECT"
    /\ \A x, y \in outcome[b] \cap TerminalFacts : x = y
    /\ "stored" \in outcome[b] => "isolated" \notin outcome[b]
    /\ proc # "down" => entries[b].source = rows[b].source

EndsInv == Mirror /\ \A b \in Batches : Ends(b)

(* A step that leaves the row and the facts of c alone. *)
LEMMA EndsFrame ==
    ASSUME NEW c \in Batches, Ends(c), rows'[c].state = rows[c].state, rows'[c].source = rows[c].source,
           outcome'[c] = outcome[c], c \in accepted' <=> c \in accepted,
           proc' # "down" => entries'[c].source = rows'[c].source
    PROVE  Ends(c)'
BY DEF Ends

(* Ending batches that are PENDING: each gets its first terminal fact, and *)
(* pruning adds a count, not an end.                                       *)
LEMMA EndsEnding ==
    ASSUME EndsInv, proc # "down", NEW T \in SUBSET Pending, NEW source \in {"AGE_EXPIRED", "PERMANENT_REJECT"},
           NEW c \in Batches, c \in accepted' <=> c \in accepted,
           rows'[c].state = RowsAfter(T, source)[c].state, rows'[c].source = RowsAfter(T, source)[c].source,
           outcome'[c] = OutcomeAfter(T, source)[c],
           entries'[c].source = EntriesAfter(T, source)[c].source
    PROVE  Ends(c)'
<1>0. TypeOK /\ rows[c] \in Row /\ entries[c] \in Entry /\ entries[c].row = rows[c] /\ Ends(c)
  BY DEF EndsInv, Mirror, TypeOK
<1>1. /\ c \in T => rows[c].state = "PENDING"
      /\ c \in Dead => rows[c].state = "DEAD"
  BY <1>0 DEF Pending, Dead
<1>2. /\ AbsentRow.state = "ABSENT" /\ AbsentRow.source = "NONE" /\ NoEntry.source = "NONE"
      /\ TerminalRow(rows[c], source).state = "DEAD" /\ TerminalRow(rows[c], source).source = source
  BY <1>0 DEF AbsentRow, TerminalRow, Row, NoEntry, BatchState
<1>3. /\ TerminalFact(c, source) \in TerminalFacts
      /\ TerminalFact(c, source) = "isolated" <=> source = "PERMANENT_REJECT"
  BY TerminalFactType DEF TerminalFact
<1>4. "pruned" \notin TerminalFacts \cup {"stored"} /\ "isolated" \in TerminalFacts
      /\ "stored" \notin TerminalFacts
  BY DEF TerminalFacts
<1>5. CASE c \notin Pruned(T) /\ c \notin T
  <2>1. rows'[c].state = rows[c].state /\ rows'[c].source = rows[c].source /\ outcome'[c] = outcome[c]
        /\ entries'[c].source = entries[c].source
    BY <1>0, <1>5, EndingCases
  <2> QED BY <1>0, <2>1, EndsFrame DEF Ends
<1>6. CASE c \notin Pruned(T) /\ c \in T
  <2>1. EntriesAfter(T, source)[c].source = source
    <3>1. EntriesAfter(T, source)[c] =
             [entries[c] EXCEPT !.row = TerminalRow(@, source), !.source = source, !.active = FALSE]
      BY <1>6 DEF EntriesAfter
    <3>2. ASSUME NEW e \in Entry, NEW r
          PROVE  [e EXCEPT !.row = r, !.source = source, !.active = FALSE].source = source
      BY DEF Entry
    <3> QED BY <1>0, <3>1, <3>2
  <2>2. rows'[c].state = "DEAD" /\ rows'[c].source = source
        /\ outcome'[c] = outcome[c] \cup {TerminalFact(c, source)}
    BY <1>0, <1>2, <1>6, EndingCases
  <2>3. outcome[c] \cap (TerminalFacts \cup {"stored"}) = {} /\ c \in accepted
    BY <1>0, <1>1, <1>6 DEF Ends
  <2> QED BY <1>3, <1>4, <2>1, <2>2, <2>3 DEF Ends
<1>7. CASE c \in Pruned(T)
  <2>1. EntriesAfter(T, source)[c].source = "NONE"
    BY <1>2, <1>7 DEF EntriesAfter
  <2>2. rows'[c].state = "ABSENT" /\ rows'[c].source = "NONE" /\ c \in T \cup Dead
    BY <1>0, <1>2, <1>7, EndingCases
  <2>3. outcome'[c] = outcome[c] \cup {"pruned"} \cup (IF c \in T THEN {TerminalFact(c, source)} ELSE {})
    BY <1>0, <1>7, EndingCases
  <2>4. c \in accepted /\ "stored" \notin outcome[c]
    BY <1>0, <1>1, <2>2 DEF Ends
  <2>5. "stored" \notin outcome'[c]
    BY <1>3, <1>4, <2>3, <2>4
  <2>6. ASSUME NEW x \in outcome'[c] \cap TerminalFacts, NEW y \in outcome'[c] \cap TerminalFacts PROVE x = y
    <3>1. CASE c \in T
      <4>1. outcome[c] \cap TerminalFacts = {}
        BY <1>0, <1>1, <3>1 DEF Ends
      <4> QED BY <1>4, <2>3, <3>1, <4>1
    <3>2. CASE c \notin T
      BY <1>0, <1>4, <2>3, <3>2 DEF Ends
    <3> QED BY <3>1, <3>2
  <2> QED BY <2>1, <2>2, <2>4, <2>5, <2>6 DEF Ends
<1> QED BY <1>5, <1>6, <1>7

(* Every step keeps the record of every batch. *)
LEMMA EndsStep == EndsInv /\ [Next]_vars => EndsInv'
<1> SUFFICES ASSUME EndsInv, [Next]_vars PROVE EndsInv'
  OBVIOUS
<1>0. Mirror /\ Mirror' /\ TypeOK /\ Expirable \in SUBSET Pending
  BY MirrorStep DEF EndsInv, Mirror, Expirable
<1> SUFFICES ASSUME NEW c \in Batches PROVE Ends(c)'
  BY <1>0 DEF EndsInv
<1>a. Ends(c) /\ rows[c] \in Row /\ entries[c] \in Entry /\ (proc # "down" => entries[c].row = rows[c])
  BY <1>0 DEF EndsInv, Mirror, TypeOK
<1>b. AbsentRow.source = "NONE" /\ NoEntry.source = "NONE" /\ AbsentRow.state = "ABSENT"
  BY DEF AbsentRow, NoEntry, BatchState
<1>1. CASE Open
  <2>1. Attached(c).source = rows[c].source
    <3>1. CASE c \in Tracked
      <4>0. NoEntry.row.state = "ABSENT"
        BY DEF NoEntry, BatchState, AbsentRow
      <4>1. proc # "down"
        BY <1>0, <3>1, <4>0 DEF Tracked, Mirror
      <4>2. [entries[c] EXCEPT !.row = rows[c],
                               !.origin = IF @ = "enqueued" THEN "reread" ELSE @].source
            = entries[c].source
        BY <1>a DEF Entry
      <4> QED BY <1>a, <3>1, <4>1, <4>2 DEF Attached, Ends
    <3>2. CASE c \notin Tracked /\ c \in Durable
      <4>1. ASSUME NEW r, NEW d, NEW s, NEW x
            PROVE  [BatchState(r, "history") EXCEPT !.due = d, !.everSent = s, !.source = x,
                                                    !.origin = "restored"].source = x
        BY DEF BatchState
      <4> QED BY <3>2, <4>1 DEF Attached
    <3>3. CASE c \notin Tracked /\ c \notin Durable
      BY <1>0, <1>b, <3>3 DEF Attached, Durable, Mirror
    <3> QED BY <3>1, <3>2, <3>3
  <2> QED BY <1>1, <1>a, <2>1, EndsFrame DEF Open, durable, history
<1>2. CASE Close \/ TimeChanges \/ UNCHANGED vars \/ \E b \in Batches : AgeBatch(b)
  <2>1. UNCHANGED <<rows, entries, outcome, accepted>> /\ (proc' # "down" => proc # "down")
    BY <1>2 DEF Close, TimeChanges, vars, AgeBatch, durable, session, history
  <2> QED BY <1>a, <2>1, EndsFrame DEF Ends
<1>3. CASE Crash
  BY <1>3, <1>a, EndsFrame DEF Crash, durable, history
<1>4. CASE OpenGate \/ Tick \/ \E b \in Batches : SubmissionFailed(b) \/ AckRetry(b)
  <2>1. entries'[c].source = entries[c].source
    <3>1. ASSUME NEW e \in Entry, NEW x
          PROVE  /\ [e EXCEPT !.category = x].source = e.source
                 /\ [e EXCEPT !.due = x].source = e.source
                 /\ [e EXCEPT !.everSent = x, !.active = FALSE].source = e.source
                 /\ [e EXCEPT !.due = x, !.active = FALSE].source = e.source
      BY DEF Entry
    <3>2. CASE OpenGate
      BY <1>a, <3>1, <3>2 DEF OpenGate
    <3>3. CASE Tick
      <4>1. entries'[c] = [entries[c] EXCEPT !.due = IF entries[c].due > 0 THEN entries[c].due - 1 ELSE 0]
        BY <3>3 DEF Tick
      <4> QED BY <1>a, <3>1, <4>1
    <3>4. ASSUME NEW b \in Batches, SubmissionFailed(b) \/ AckRetry(b)
          PROVE  entries'[c].source = entries[c].source
      <4>1. \/ entries' = [entries EXCEPT ![b] = [entries[b] EXCEPT !.everSent = entries[b].previousSent,
                                                                    !.active = FALSE]]
            \/ entries' = [entries EXCEPT ![b] = [entries[b] EXCEPT !.due = RetryWait, !.active = FALSE]]
        BY <3>4 DEF SubmissionFailed, AckRetry
      <4>2. entries[b] \in Entry /\ entries \in [Batches -> Entry]
        BY <1>0 DEF TypeOK
      <4>3. \/ entries'[b] = [entries[b] EXCEPT !.everSent = entries[b].previousSent, !.active = FALSE]
            \/ entries'[b] = [entries[b] EXCEPT !.due = RetryWait, !.active = FALSE]
        BY <4>1, <4>2
      <4>4. entries'[b].source = entries[b].source
        BY <4>2, <4>3 DEF Entry
      <4>5. c # b => entries'[c] = entries[c]
        BY <4>1, <4>2
      <4> QED BY <4>4, <4>5
    <3> QED BY <1>4, <3>2, <3>3, <3>4
  <2>2. UNCHANGED <<rows, proc, outcome, accepted>>
    BY <1>4 DEF OpenGate, Tick, SubmissionFailed, AckRetry, durable, history
  <2> QED BY <1>a, <2>1, <2>2, EndsFrame DEF Ends
<1>5. ASSUME NEW b \in Batches, NEW a, Enqueue(b, a) PROVE Ends(c)'
  <2> DEFINE row == [state |-> "PENDING", attempts |-> 0, order |-> meta.nextOrder,
                     basis |-> ref, source |-> "NONE"]
             R == RowsAfter(Expirable, "AGE_EXPIRED")
             E == EntriesAfter(Expirable, "AGE_EXPIRED")
             O == OutcomeAfter(Expirable, "AGE_EXPIRED")
  <2>1. R \in [Batches -> Row] /\ E \in [Batches -> Entry]
    BY <1>0, ExpirableSubset, ExpireTypes
  <2>2. rows' = [R EXCEPT ![b] = row] /\ outcome' = O /\ accepted' = accepted \cup {b}
        /\ b \notin accepted /\ proc = "open"
    BY <1>5 DEF Enqueue, EnqueueCalled
  <2>3. PICK cl : entries' = [E EXCEPT ![b] = BatchState(row, cl)]
    BY <1>5 DEF Enqueue
  <2>4. CASE c # b
    <3>1. rows'[c] = R[c] /\ outcome'[c] = O[c] /\ entries'[c] = E[c] /\ (c \in accepted' <=> c \in accepted)
      BY <2>1, <2>2, <2>3, <2>4
    <3> QED BY <1>0, <2>2, <3>1, EndsEnding
  <2>5. CASE c = b
    <3>1. rows[b].state = "ABSENT" /\ outcome[b] = {}
      BY <1>a, <2>2, <2>5 DEF Ends
    <3>2. b \notin Expirable /\ b \notin Pruned(Expirable)
      BY <1>a, <2>2, <2>5, <3>1 DEF Expirable, Pending, Tracked, Dead, Pruned
    <3>3. O[b] = {}
      BY <1>0, <3>1, <3>2, EndingCases
    <3>4. rows'[b] = row /\ entries'[b] = BatchState(row, cl) /\ outcome'[b] = {}
      BY <2>1, <2>2, <2>3, <3>3
    <3>5. row.state = "PENDING" /\ row.source = "NONE" /\ BatchState(row, cl).source = "NONE"
      BY DEF BatchState
    <3> HIDE DEF row
    <3> QED BY <2>2, <2>5, <3>4, <3>5 DEF Ends
  <2> QED BY <2>4, <2>5
<1>6. ASSUME NEW b \in Batches, EnqueueRefused(b) PROVE Ends(c)'
  BY <1>0, <1>6, EndsEnding DEF EnqueueRefused, EnqueueCalled, Expire
<1>7. ASSUME NEW b \in Batches, NEW T \in SUBSET Expirable, EnqueueRaised(b, T) PROVE Ends(c)'
  BY <1>0, <1>7, EndsEnding DEF EnqueueRaised, EnqueueCalled, Expire
<1>c. Schedulable[c].source = EntriesAfter(Expirable, "AGE_EXPIRED")[c].source
  <2>1. EntriesAfter(Expirable, "AGE_EXPIRED") \in [Batches -> Entry]
    BY <1>0, AfterTypes DEF Sources
  <2>2. ASSUME NEW x \in Entry PROVE [x EXCEPT !.active = FALSE].source = x.source
    BY DEF Entry
  <2> QED BY <2>1, <2>2 DEF Schedulable, Freed
<1>8. ASSUME NEW b \in Batches, Reserve(b) PROVE Ends(c)'
  <2> DEFINE R == RowsAfter(Expirable, "AGE_EXPIRED")
             e == Schedulable
  <2>1. R \in [Batches -> Row] /\ e \in [Batches -> Entry]
    BY <1>0, AfterTypes, SchedulableType DEF Sources
  <2>2. /\ rows' = [R EXCEPT ![b].attempts = Min(@ + 1, AttemptCap)] /\ entries' = Reserved(e, b)
        /\ outcome' = OutcomeAfter(Expirable, "AGE_EXPIRED") /\ proc = "open" /\ accepted' = accepted
    BY <1>8 DEF Reserve
  <2>3. rows'[c].state = R[c].state /\ rows'[c].source = R[c].source
    <3>1. ASSUME NEW r \in Row, NEW n
          PROVE  [r EXCEPT !.attempts = n].state = r.state /\ [r EXCEPT !.attempts = n].source = r.source
      BY DEF Row
    <3> HIDE DEF R
    <3>2. rows'[c] = IF c = b THEN [R[b] EXCEPT !.attempts = Min(@ + 1, AttemptCap)] ELSE R[c]
      BY <2>1, <2>2
    <3> QED BY <2>1, <3>1, <3>2
  <2>4. entries'[c].source = e[c].source
    <3>1. ASSUME NEW x \in Entry, NEW r, NEW w, NEW p
          PROVE  [x EXCEPT !.row = r, !.previousSent = p, !.due = w, !.active = TRUE,
                           !.everSent = TRUE].source = x.source
      BY DEF Entry
    <3> DEFINE n == Min(e[b].row.attempts + 1, AttemptCap)
               w == IF n = 1 THEN FirstWait ELSE RetryWait
               q == [e[b].row EXCEPT !.attempts = n]
               z == [e[b] EXCEPT !.row = q, !.previousSent = e[b].everSent, !.due = w,
                                 !.active = TRUE, !.everSent = TRUE]
    <3>2. entries' = [e EXCEPT ![b] = z]
      BY <2>2 DEF Reserved
    <3>3. z.source = e[b].source
      <4> HIDE DEF q, w, e
      <4> QED BY <2>1, <3>1
    <3> HIDE DEF z, e
    <3> QED BY <2>1, <3>2, <3>3
  <2> QED BY <1>0, <1>c, <2>2, <2>3, <2>4, EndsEnding
<1>9. ASSUME NEW T \in SUBSET Expirable, ReserveNothing(T) PROVE Ends(c)'
  <2>1. entries'[c].source = EntriesAfter(T, "AGE_EXPIRED")[c].source
    BY <1>9, <1>c DEF ReserveNothing
  <2> QED BY <1>0, <1>9, <2>1, EndsEnding DEF ReserveNothing, Expire
<1>10. ASSUME NEW b \in Batches, AckStored(b) PROVE Ends(c)'
  <2>1. /\ rows' = [rows EXCEPT ![b] = AbsentRow] /\ entries' = [entries EXCEPT ![b] = NoEntry]
        /\ accepted' = accepted /\ proc = "open" /\ proc' = proc
        /\ outcome' = [outcome EXCEPT ![b] = @ \cup {"stored"} \cup
                          (IF entries[b].source = "AGE_EXPIRED" THEN {"late_stored"} ELSE {})]
    BY <1>10 DEF AckStored, Acknowledgeable
  <2>0. rows \in [Batches -> Row] /\ entries \in [Batches -> Entry] /\ DOMAIN outcome = Batches
    BY <1>0 DEF TypeOK
  <2>2. CASE c # b
    <3>1. rows'[c] = rows[c] /\ entries'[c] = entries[c] /\ outcome'[c] = outcome[c]
      BY <2>0, <2>1, <2>2
    <3> QED BY <1>a, <2>1, <3>1, EndsFrame DEF Ends
  <2>3. CASE c = b
    <3>1. rows[c].state \in {"PENDING", "DEAD"}
      <4>1. entries[c].row.state # "ABSENT"
        BY <1>10, <2>3 DEF AckStored, Acknowledgeable, Tracked
      <4> QED BY <1>a, <2>1, <4>1 DEF Row
    <3>2. c \in accepted /\ "isolated" \notin outcome[c]
      <4>1. CASE rows[c].state = "PENDING"
        BY <1>a, <4>1 DEF Ends, TerminalFacts
      <4>2. CASE rows[c].state = "DEAD"
        <5>1. c \in Dead
          BY <1>a, <2>1, <4>2 DEF Dead, Tracked
        <5>2. entries[c].source = "AGE_EXPIRED"
          BY <1>10, <2>3, <5>1 DEF AckStored, StoredConflict
        <5> QED BY <1>a, <2>1, <4>2, <5>2 DEF Ends
      <4> QED BY <3>1, <4>1, <4>2
    <3>3. rows'[c] = AbsentRow /\ entries'[c] = NoEntry
          /\ outcome'[c] \subseteq outcome[c] \cup {"stored", "late_stored"}
      BY <2>0, <2>1, <2>3
    <3>4. "isolated" \notin outcome'[c] /\ outcome'[c] \cap TerminalFacts \subseteq outcome[c] \cap TerminalFacts
      BY <3>2, <3>3 DEF TerminalFacts
    <3> QED BY <1>a, <1>b, <2>1, <3>2, <3>3, <3>4 DEF Ends
  <2> QED BY <2>2, <2>3
<1>11. ASSUME NEW b \in Batches, AckReject(b) PROVE Ends(c)'
  <2>1. {b} \in SUBSET Pending
    <3>1. b \in Tracked /\ b \notin Dead
      BY <1>11 DEF AckReject, Acknowledgeable
    <3>2. entries[b].row.state \in {"ABSENT", "PENDING", "DEAD"}
      BY <1>0 DEF TypeOK, Entry, Row
    <3> QED BY <3>1, <3>2 DEF Pending, Tracked, Dead
  <2> QED BY <1>11, <2>1, EndsEnding DEF AckReject, Acknowledgeable
<1> QED BY <1>1, <1>2, <1>3, <1>4, <1>5, <1>6, <1>7, <1>8, <1>9, <1>10, <1>11
        DEF Next, Operations, Environment

(* Nothing is recorded in a new database. *)
LEMMA EndsInit == Init => EndsInv
<1> SUFFICES ASSUME Init PROVE EndsInv
  OBVIOUS
<1>1. Mirror
  BY MirrorInit
<1>2. \A b \in Batches : Ends(b)
  BY DEF Init, Ends, AbsentRow
<1> QED BY <1>1, <1>2 DEF EndsInv

=============================================================================
