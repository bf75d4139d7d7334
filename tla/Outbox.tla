------------------------------- MODULE Outbox -------------------------------
(***************************************************************************)
(* The gateway's durable telemetry queue: storage/outbox.py (policy),      *)
(* storage/outbox_session.py (process-owned scheduling state) and          *)
(* storage/batch_repository.py (SQL rows).                                 *)
(*                                                                         *)
(* rows and meta are the SQLite tables and survive a crash.  entries and   *)
(* staged are the OutboxSession; they live as long as the process, and a   *)
(* pipeline that is closed and reopened in the same process finds them     *)
(* again.  Every operation runs on the one storage worker thread, so an    *)
(* operation is one step; an operation that raises part way is the step    *)
(* that has done only what was committed before the exception.             *)
(*                                                                         *)
(* Monotonic deadlines are kept as the time that is left (due), which Tick *)
(* counts down: due = 0 is the code's "due <= mono".                       *)
(***************************************************************************)
EXTENDS Integers, FiniteSets

CONSTANTS
    Batches,      \* message identities
    TimeRefs,     \* time_basis_ref settings of a process; NoBasis: system clock mode
    PayloadSize,  \* bytes of the payload of each batch
    Charge,       \* bytes of session memory an entry is charged, by batch and form
    MaxBatches,   \* max_batches = 10000
    MaxBytes,     \* max_bytes = 64 MiB of payload
    MaxRecords,   \* OutboxSession.max_records = 10000
    MaxMetadata,  \* OutboxSession.max_bytes = 3 MiB of charges
    MaxDead,      \* max_dead = 128
    ActiveMax,    \* 8 in-flight credits
    ClassMax,     \* 7 of them for one class
    FirstWait,    \* 30 s: wait after the first attempt
    RetryWait,    \* 60 s: wait after every other attempt
    AttemptCap,   \* attempts saturate here (2^53 - 1)
    MaxOrder,     \* MAX_SAFE: local_order stays below it
    CounterCap    \* durable counters saturate here (2^53 - 1)

(* What the charge of an entry depends on besides its batch: whether its   *)
(* row is the one enqueue made, has been read back by a reopen of the same *)
(* process, or was read back without its events by a later process; and    *)
(* how far the batch has come.  A row read back has floats where enqueue   *)
(* put shared zeros, and an ended one names its source, so charges differ  *)
(* by some tens of bytes, up or down.                                      *)
Origins == {"enqueued", "reread", "restored"}
Forms == Origins \X {"new", "sent", "dead"}

ASSUME OutboxAssumption ==
    /\ TimeRefs # {}
    /\ \A n \in {MaxBatches, MaxBytes, MaxRecords, MaxMetadata, MaxDead, ActiveMax, ClassMax,
                 FirstWait, RetryWait, AttemptCap, MaxOrder, CounterCap} : n \in Nat \ {0}
    /\ PayloadSize \in [Batches -> Nat \ {0}]
    /\ Charge \in [Batches -> [Forms -> Nat \ {0}]]
    /\ FirstWait <= RetryWait
    /\ ClassMax < ActiveMax
    /\ IsFiniteSet(Batches)

NoBasis == "no basis"          \* time that is not the hub's: SYSTEM_RTC mode

VARIABLES
    rows,       \* table batches: one row per message identity, or AbsentRow
    meta,       \* table meta: next_order, dead_pruned, trusted_basis_ref
    proc,       \* "down", "closed" (process up, store closed), "open"
    entries,    \* OutboxSession.entries
    staged,     \* OutboxSession.staged: the class of an entry whose insert failed
    gated,      \* a connection has set the watermark: samples may lie at or below it
    preferNew,  \* OutboxSession.prefer_new
    ref,        \* PlatformTime.basis of this process, NoBasis in system clock mode
    valid,      \* PlatformTime: the hub-synchronised reading is valid
    age,        \* a batch against the clock: "ahead" by > 300 s, "fresh", "aged" >= 7 days
    accepted,   \* history: batches whose enqueue committed
    outcome     \* history: the facts the sessions recorded about each batch

durable == <<rows, meta>>
session == <<entries, staged, gated, preferNew>>
history == <<accepted, outcome>>
clocks  == <<ref, valid, age>>
vars == <<rows, meta, proc, entries, staged, gated, preferNew, ref, valid, age, accepted, outcome>>

Classes == {"new", "history"}
Sources == {"NONE", "AGE_EXPIRED", "PERMANENT_REJECT"}
TerminalFacts == {"isolated", "uncertain", "known_unsent"}
Facts == TerminalFacts \cup {"stored", "late_stored", "pruned"}

Row == [state : {"ABSENT", "PENDING", "DEAD"}, attempts : 0..AttemptCap, order : 0..MaxOrder,
        basis : TimeRefs \cup {NoBasis}, source : Sources]

Entry == [row : Row, category : Classes, due : 0..RetryWait, active : BOOLEAN, source : Sources,
          everSent : BOOLEAN, previousSent : BOOLEAN, origin : Origins]

AbsentRow == [state |-> "ABSENT", attempts |-> 0, order |-> 0, basis |-> NoBasis, source |-> "NONE"]

(* A BatchState with its dataclass defaults. *)
BatchState(row, category) ==
    [row |-> row, category |-> category, due |-> 0, active |-> FALSE, source |-> "NONE",
     everSent |-> FALSE, previousSent |-> FALSE, origin |-> "enqueued"]

NoEntry == BatchState(AbsentRow, "history")

Min(a, b) == IF a <= b THEN a ELSE b

(* The sum of the sizes w over the batches S, counted byte by byte. *)
Total(w, S) == Cardinality(UNION {{b} \X (1..w[b]) : b \in S})

(* OutboxSession.charge; a batch that is no entry has the charge it is staged with. *)
Form(e) == <<e.origin, IF e.row.state = "DEAD" THEN "dead"
                       ELSE IF e.row.attempts > 0 THEN "sent" ELSE "new">>

Charges(e) == [b \in Batches |-> Charge[b][Form(e[b])]]

Durable == {b \in Batches : rows[b].state # "ABSENT"}
Tracked == {b \in Batches : entries[b].row.state # "ABSENT"}
Pending == {b \in Tracked : entries[b].row.state = "PENDING"}
Dead    == {b \in Tracked : entries[b].row.state = "DEAD"}
Staged  == {b \in Batches : staged[b] # "none"}

----------------------------------------------------------------------------
(* Shared pieces of the operations. *)

(* PlatformTime.require passes: SYSTEM time is never refused, HUB time is  *)
(* refused while the gateway has no valid reading.                         *)
Platform == ref # NoBasis
TimeOk == Platform => valid

(* The members of S that a DEAD quota of MaxDead keeps: the newest ones by local_order. *)
Newest(S) ==
    {b \in S : Cardinality({c \in S : entries[c].row.order > entries[b].row.order}) < MaxDead}

(* What _terminal deletes when the batches T become DEAD, one after the    *)
(* other, each followed by a cut to MaxDead; for T = {} it is _prune.      *)
Pruned(T) == (Dead \cup T) \ Newest(Dead \cup T)

(* OutboxSession.terminal: which fact the end of a batch is. *)
TerminalFact(b, source) ==
    IF source = "PERMANENT_REJECT" THEN "isolated"
    ELSE IF entries[b].everSent THEN "uncertain" ELSE "known_unsent"

TerminalRow(row, source) == [row EXCEPT !.state = "DEAD", !.source = source]

(* The tables, the session and the facts after _terminal of each member of T. *)
RowsAfter(T, source) ==
    LET gone == Pruned(T)
    IN  [b \in Batches |-> IF b \in gone THEN AbsentRow
                           ELSE IF b \in T THEN TerminalRow(rows[b], source) ELSE rows[b]]

(* Fault: pruning deletes the row and forgets the session's entry. *)
EntriesAfterRowsOnly(T, source) ==
    [b \in Batches |->
        IF b \in T THEN [entries[b] EXCEPT !.row = TerminalRow(@, source), !.source = source,
                                           !.active = FALSE]
        ELSE entries[b]]

EntriesAfter(T, source) ==
    LET gone == Pruned(T)
    IN  [b \in Batches |->
            IF b \in gone THEN NoEntry
            ELSE IF b \in T THEN [entries[b] EXCEPT !.row = TerminalRow(@, source),
                                                    !.source = source, !.active = FALSE]
            ELSE entries[b]]

OutcomeAfter(T, source) ==
    LET gone == Pruned(T)
    IN  [b \in Batches |-> outcome[b] \cup (IF b \in T THEN {TerminalFact(b, source)} ELSE {})
                                      \cup (IF b \in gone THEN {"pruned"} ELSE {})]

(* Fault: the next order is taken from the number of rows. *)
MetaAfterRecounted(T) ==
    [meta EXCEPT !.deadPruned = Min(@ + Cardinality(Pruned(T)), CounterCap),
                 !.nextOrder = Cardinality(Durable) + 1]

MetaAfter(T) ==
    [meta EXCEPT !.deadPruned = Min(@ + Cardinality(Pruned(T)), CounterCap)]

(* Candidates of _expire: PENDING, age provable on the current basis, and  *)
(* not in flight with its deadline still ahead.                            *)
Expirable ==
    {b \in Pending : /\ Platform /\ valid /\ entries[b].row.basis = ref
                     /\ age[b] = "aged"
                     /\ ~(entries[b].active /\ entries[b].due > 0)}

(* An _expire that a StoreError or TimeUnavailable interrupts has already  *)
(* committed the oldest candidates.                                        *)
ExpirePrefix(T) ==
    T \subseteq Expirable /\ \A b \in T, c \in Expirable :
                                 entries[c].row.order < entries[b].row.order => c \in T

(* Fault: only an acknowledgement gives a credit back. *)
FreedNever(e) == e

(* reserve frees the credit of every batch whose deadline has passed. *)
Freed(e) == [b \in Batches |-> IF e[b].due = 0 THEN [e[b] EXCEPT !.active = FALSE] ELSE e[b]]

ActiveIn(e) == {b \in Batches : e[b].active}

(* The batches reserve may choose from in class c. *)
Eligible(e, c) ==
    IF Cardinality({b \in ActiveIn(e) : e[b].category = c}) >= ClassMax THEN {}
    ELSE {b \in Batches : /\ e[b].row.state = "PENDING" /\ ~e[b].active /\ e[b].due = 0
                          /\ e[b].category = c
                          /\ Platform => /\ e[b].row.basis \in {NoBasis, ref}
                                         /\ age[b] # "ahead"}

OtherClass(c) == IF c = "new" THEN "history" ELSE "new"

(* The class reserve serves: the preferred one unless it has nothing eligible. *)
ChosenClass(e) ==
    LET first == IF preferNew THEN "new" ELSE "history"
    IN  IF Eligible(e, first) # {} THEN first ELSE OtherClass(first)

Oldest(S, e) == {b \in S : \A c \in S : e[b].row.order <= e[c].row.order}

----------------------------------------------------------------------------
(* A new database. *)
Init ==
    /\ rows = [b \in Batches |-> AbsentRow]
    /\ meta = [nextOrder |-> 1, deadPruned |-> 0, basis |-> NoBasis]
    /\ proc = "down"
    /\ entries = [b \in Batches |-> NoEntry]
    /\ staged = [b \in Batches |-> "none"]
    /\ gated = FALSE
    /\ preferNew = TRUE
    /\ ref \in TimeRefs
    /\ valid = FALSE
    /\ age = [b \in Batches |-> "fresh"]
    /\ accepted = {}
    /\ outcome = [b \in Batches |-> {}]

(* OutboxSession.attach for one row: an entry of this process keeps its    *)
(* scheduling state and its events, any other row starts as history and,   *)
(* once attempted, waits a full retry interval.                            *)
Attached(b) ==
    IF b \in Tracked
    THEN [entries[b] EXCEPT !.row = rows[b], !.origin = IF @ = "enqueued" THEN "reread" ELSE @]
    ELSE IF b \in Durable
         THEN [BatchState(rows[b], "history") EXCEPT
                   !.due = IF rows[b].attempts > 0 THEN RetryWait ELSE 0,
                   !.everSent = rows[b].attempts > 0,
                   !.source = rows[b].source,
                   !.origin = "restored"]
         ELSE NoEntry

(* OutboxStore.__init__ refuses a database beyond the quotas in batches,   *)
(* payload bytes and DEAD rows, and a session whose rows have vanished.    *)
WithinQuotas ==
    /\ Cardinality(Durable) <= Min(MaxBatches, MaxRecords)
    /\ Total(PayloadSize, Durable) <= MaxBytes
    /\ Cardinality({b \in Durable : rows[b].state = "DEAD"}) <= MaxDead
    /\ Tracked \subseteq Durable

(* attach stages the rows that are not entries yet, against the memory quota. *)
MetadataFits ==
    \/ Durable \subseteq Tracked
    \/ Total(Charges([b \in Batches |-> Attached(b)]), Durable) <= MaxMetadata

CanOpen == WithinQuotas /\ MetadataFits

(* TelemetryPipeline.start -> OutboxStore.__init__ -> attach.  The time    *)
(* source is fixed when the process starts.                                *)
Open ==
    /\ proc \in {"down", "closed"}
    /\ CanOpen
    /\ proc' = "open"
    /\ entries' = [b \in Batches |-> Attached(b)]
    /\ IF proc = "down" THEN ref' \in TimeRefs ELSE ref' = ref
    /\ UNCHANGED <<durable, staged, gated, preferNew, valid, age, history>>

(* The open raises, and the process ends without having touched a row. *)
OpenRefused == proc # "open" /\ ~CanOpen /\ UNCHANGED vars

(* Close in a process that lives on: the session stays, its staged entries do not. *)
Close ==
    /\ proc = "open"
    /\ proc' = "closed"
    /\ staged' = [b \in Batches |-> "none"]
    /\ UNCHANGED <<durable, entries, gated, preferNew, clocks, history>>

(* The process dies: everything that is not in the tables is gone. *)
Crash ==
    /\ proc # "down"
    /\ proc' = "down"
    /\ entries' = [b \in Batches |-> NoEntry]
    /\ staged' = [b \in Batches |-> "none"]
    /\ gated' = FALSE
    /\ preferNew' = TRUE
    /\ valid' = FALSE
    /\ UNCHANGED <<durable, ref, age, history>>

(* open_gate at a (re)connect moves the watermark to the last captured     *)
(* sample; every known batch becomes history.                              *)
OpenGate ==
    /\ proc = "open"
    /\ gated' = TRUE
    /\ entries' = [b \in Batches |-> [entries[b] EXCEPT !.category = "history"]]
    /\ staged' = [b \in Batches |-> IF b \in Staged THEN "history" ELSE "none"]
    /\ UNCHANGED <<durable, proc, preferNew, clocks, history>>

(* The _expire of an operation, over the candidates T it got through. *)
Expire(T) ==
    /\ rows' = RowsAfter(T, "AGE_EXPIRED")
    /\ outcome' = OutcomeAfter(T, "AGE_EXPIRED")

(* The entries left after the quota check's _expire. *)
Kept(T) == Tracked \ Pruned(T)

(* Fault: only batches are counted. *)
HasRoomByCount(b, T) == Cardinality(Kept(T)) < MaxBatches

(* The quota of the store, in batches and in payload bytes. *)
HasRoom(b, T) ==
    /\ Cardinality(Kept(T)) < MaxBatches
    /\ Total(PayloadSize, Kept(T) \cup {b}) <= MaxBytes

(* The classes b may be staged in: a retry finds the one staged before; a  *)
(* new one is history if all its samples are at or below the watermark.    *)
StageClasses(b) ==
    IF b \in Staged THEN {staged[b]} ELSE IF gated THEN Classes ELSE {"new"}

(* stage: the quota of the session, in entries and in their charges. *)
CanStage(b, T) ==
    \/ b \in Staged
    \/ /\ Cardinality(Kept(T)) + Cardinality(Staged) < MaxRecords
       /\ Total(Charges(EntriesAfter(T, "AGE_EXPIRED")), Kept(T) \cup Staged \cup {b}) <= MaxMetadata

(* What an enqueue call of batch b needs before it looks at any quota.  A  *)
(* batch that is already an entry returns True without a change.           *)
EnqueueCalled(b) ==
    /\ proc = "open" /\ TimeOk
    /\ b \notin accepted

(* Fault: a row may be written on any basis. *)
BasisUnchecked == TRUE

(* The durable basis is bound by its first row and never changes. *)
BasisMatches == Platform => meta.basis \in {NoBasis, ref}

(* enqueue commits: the row and next_order in one transaction, then the session. *)
Enqueue(b, a) ==
    /\ EnqueueCalled(b)
    /\ BasisMatches
    /\ a \in (IF Platform THEN {"fresh"} ELSE {"fresh", "ahead"})
    /\ LET T == Expirable
           row == [state |-> "PENDING", attempts |-> 0, order |-> meta.nextOrder,
                   basis |-> ref, source |-> "NONE"]
       IN  /\ HasRoom(b, T) /\ meta.nextOrder < MaxOrder /\ CanStage(b, T)
           /\ rows' = [RowsAfter(T, "AGE_EXPIRED") EXCEPT ![b] = row]
           /\ \E c \in StageClasses(b) :
                  entries' = [EntriesAfter(T, "AGE_EXPIRED") EXCEPT ![b] = BatchState(row, c)]
           /\ meta' = [MetaAfter(T) EXCEPT !.nextOrder = @ + 1,
                           !.basis = IF Platform THEN ref ELSE @]
           /\ outcome' = OutcomeAfter(T, "AGE_EXPIRED")
    /\ staged' = [staged EXCEPT ![b] = "none"]
    /\ age' = [age EXCEPT ![b] = a]
    /\ accepted' = accepted \cup {b}
    /\ UNCHANGED <<proc, gated, preferNew, ref, valid>>

(* enqueue returns False, after _expire: one of the two quotas is reached. *)
(* The counter of refusals, which nothing reads, is left out.              *)
EnqueueRefused(b) ==
    /\ EnqueueCalled(b)
    /\ HasRoom(b, Expirable) => meta.nextOrder < MaxOrder /\ ~CanStage(b, Expirable)
    /\ meta' = MetaAfter(Expirable)
    /\ Expire(Expirable)
    /\ entries' = EntriesAfter(Expirable, "AGE_EXPIRED")
    /\ UNCHANGED <<proc, staged, gated, preferNew, clocks, accepted>>

(* enqueue raises (a storage error, the time guard at commit, a foreign    *)
(* basis, an exhausted order) in _expire or, with everything expired, in   *)
(* the insert: the staged entry then stays behind for the retry.           *)
EnqueueRaised(b, T) ==
    /\ EnqueueCalled(b)
    /\ ExpirePrefix(T)
    /\ Expire(T)
    /\ meta' = MetaAfter(T)
    /\ entries' = EntriesAfter(T, "AGE_EXPIRED")
    /\ \/ staged' = staged
       \/ /\ T = Expirable /\ HasRoom(b, T) /\ meta.nextOrder < MaxOrder /\ CanStage(b, T)
          /\ \E c \in StageClasses(b) : staged' = [staged EXCEPT ![b] = c]
    /\ UNCHANGED <<proc, gated, preferNew, clocks, accepted>>

(* The entries reserve schedules over. *)
Schedulable == Freed(EntriesAfter(Expirable, "AGE_EXPIRED"))

Reserved(e, b) ==
    LET n == Min(e[b].row.attempts + 1, AttemptCap)
    IN  [e EXCEPT ![b].row.attempts = n,
                  ![b].previousSent = e[b].everSent,
                  ![b].due = IF n = 1 THEN FirstWait ELSE RetryWait,
                  ![b].active = TRUE, ![b].everSent = TRUE]

(* The batches reserve would choose from the scheduled entries e. *)
Choice(e) ==
    IF Cardinality(ActiveIn(e)) >= ActiveMax THEN {} ELSE Oldest(Eligible(e, ChosenClass(e)), e)

(* reserve grants b a credit: the attempt is durable before the session changes. *)
Reserve(b) ==
    /\ proc = "open" /\ TimeOk
    /\ \E T \in {Expirable}, e \in {Schedulable} :
           /\ b \in Choice(e)
           /\ preferNew' = (ChosenClass(e) # "new")
           /\ entries' = Reserved(e, b)
           /\ rows' = [RowsAfter(T, "AGE_EXPIRED") EXCEPT ![b].attempts = Min(@ + 1, AttemptCap)]
           /\ meta' = MetaAfter(T)
           /\ outcome' = OutcomeAfter(T, "AGE_EXPIRED")
    /\ UNCHANGED <<proc, staged, gated, clocks, accepted>>

(* reserve returns None or raises: interrupted in _expire, held back by    *)
(* the send rate (before or after credits are freed), without a credit or  *)
(* a candidate, or failing to commit the attempt.                          *)
ReserveNothing(T) ==
    /\ proc = "open" /\ TimeOk
    /\ ExpirePrefix(T)
    /\ Expire(T)
    /\ meta' = MetaAfter(T)
    /\ \/ entries' = EntriesAfter(T, "AGE_EXPIRED")
       \/ T = Expirable /\ entries' = Schedulable
    /\ UNCHANGED <<proc, staged, gated, preferNew, clocks, accepted>>

(* Fault: taking an attempt back forgets the earlier ones. *)
SubmissionForgotten(b) ==
    /\ proc = "open"
    /\ b \in Pending
    /\ entries' = [entries EXCEPT ![b].everSent = FALSE, ![b].active = FALSE]
    /\ UNCHANGED <<durable, proc, staged, gated, preferNew, clocks, history>>

(* submission_failed: the SDK did not take the attempt; its deadline stays. *)
SubmissionFailed(b) ==
    /\ proc = "open"
    /\ b \in Pending
    /\ entries' = [entries EXCEPT ![b].everSent = entries[b].previousSent, ![b].active = FALSE]
    /\ UNCHANGED <<durable, proc, staged, gated, preferNew, clocks, history>>

(* acknowledge finds the batch (else: unknown_ack) and its attempt. *)
Acknowledgeable(b) == proc = "open" /\ b \in Tracked /\ entries[b].row.attempts > 0

(* Fault: a STORED overrides a rejection. *)
StoredConflictUnsentOnly(b) == b \in Dead /\ ~entries[b].everSent

(* A STORED for a DEAD batch is believed only if age ended it after a      *)
(* send; otherwise it is counted as conflicting and changes nothing else.  *)
StoredConflict(b) ==
    b \in Dead /\ (entries[b].source # "AGE_EXPIRED" \/ ~entries[b].everSent)

AckStored(b) ==
    /\ Acknowledgeable(b) /\ ~StoredConflict(b)
    /\ rows' = [rows EXCEPT ![b] = AbsentRow]
    /\ entries' = [entries EXCEPT ![b] = NoEntry]
    /\ outcome' = [outcome EXCEPT ![b] = @ \cup {"stored"} \cup
                      (IF entries[b].source = "AGE_EXPIRED" THEN {"late_stored"} ELSE {})]
    /\ UNCHANGED <<meta, proc, staged, gated, preferNew, clocks, accepted>>

(* REJECTED with nothing but retryable codes. *)
AckRetry(b) ==
    /\ Acknowledgeable(b) /\ b \notin Dead
    /\ entries' = [entries EXCEPT ![b].due = RetryWait, ![b].active = FALSE]
    /\ UNCHANGED <<durable, proc, staged, gated, preferNew, clocks, history>>

(* REJECTED with a permanent code. *)
AckReject(b) ==
    /\ Acknowledgeable(b) /\ b \notin Dead
    /\ rows' = RowsAfter({b}, "PERMANENT_REJECT")
    /\ entries' = EntriesAfter({b}, "PERMANENT_REJECT")
    /\ meta' = MetaAfter({b})
    /\ outcome' = OutcomeAfter({b}, "PERMANENT_REJECT")
    /\ UNCHANGED <<proc, staged, gated, preferNew, clocks, accepted>>

----------------------------------------------------------------------------
(* The environment: PlatformTime's validity, and the passing of time. *)

TimeChanges ==
    /\ proc # "down" /\ Platform
    /\ valid' = ~valid
    /\ UNCHANGED <<durable, proc, session, ref, age, history>>

AgeBatch(b) ==
    /\ b \in Durable
    /\ \/ age[b] = "ahead" /\ age' = [age EXCEPT ![b] = "fresh"]
       \/ age[b] = "fresh" /\ age' = [age EXCEPT ![b] = "aged"]
    /\ UNCHANGED <<durable, proc, session, ref, valid, history>>

Tick ==
    /\ \E b \in Batches : entries[b].due > 0
    /\ entries' = [b \in Batches |-> [entries[b] EXCEPT !.due = IF @ > 0 THEN @ - 1 ELSE 0]]
    /\ UNCHANGED <<durable, proc, staged, gated, preferNew, clocks, history>>

Environment ==
    \/ TimeChanges
    \/ \E b \in Batches : AgeBatch(b)
    \/ Tick

----------------------------------------------------------------------------
(* The Outbox on its own: any caller order, any acknowledgement.  A refused *)
(* open, which changes nothing, is a stuttering step.                       *)

Operations ==
    \/ Open \/ Close \/ Crash \/ OpenGate
    \/ \E b \in Batches : \E a \in {"fresh", "ahead"} : Enqueue(b, a)
    \/ \E b \in Batches : EnqueueRefused(b)
    \/ \E b \in Batches : \E T \in SUBSET Expirable : EnqueueRaised(b, T)
    \/ \E b \in Batches : Reserve(b)
    \/ \E T \in SUBSET Expirable : ReserveNothing(T)
    \/ \E b \in Batches : SubmissionFailed(b)
    \/ \E b \in Batches : AckStored(b)
    \/ \E b \in Batches : AckRetry(b)
    \/ \E b \in Batches : AckReject(b)

Next == Operations \/ Environment

Spec == Init /\ [][Next]_vars

----------------------------------------------------------------------------
(* Properties. *)

TypeOK ==
    /\ rows \in [Batches -> Row]
    /\ meta \in [nextOrder : 1..MaxOrder, deadPruned : 0..CounterCap,
                 basis : TimeRefs \cup {NoBasis}]
    /\ proc \in {"down", "closed", "open"}
    /\ entries \in [Batches -> Entry]
    /\ staged \in [Batches -> Classes \cup {"none"}]
    /\ gated \in BOOLEAN
    /\ preferNew \in BOOLEAN
    /\ ref \in TimeRefs
    /\ valid \in BOOLEAN
    /\ age \in [Batches -> {"ahead", "fresh", "aged"}]
    /\ accepted \subseteq Batches
    /\ outcome \in [Batches -> SUBSET Facts]

(* While a process lives, its session and the tables tell the same story:  *)
(* the same batches, each with the same state, attempts, order and source, *)
(* whatever mixture of failed commits, partial expiry, acknowledgements,   *)
(* closes and reopens led here.                                            *)
SessionMirrorsRows ==
    proc # "down" => \A b \in Batches : entries[b].row = rows[b]

(* The gateway never drives its database past the quotas that its next     *)
(* open enforces: whatever enqueues, expiries, rejections and crashes led  *)
(* here, the rows fit the quotas in batches, DEAD batches and payload      *)
(* bytes.  A process that closes its store and opens it again (a reload of *)
(* the settings) is not refused for any reason, the memory quota included. *)
AlwaysReopens ==
    /\ proc # "open" => WithinQuotas
    /\ proc = "closed" => CanOpen

(* The memory quota is reserved up front ("Reserve terminal-reason growth  *)
(* and container/array overhead up front", outbox_session.py:46): what one *)
(* process admitted, the next one can take in again.                       *)
RestartReopens == proc = "down" => CanOpen

(* local_order is a durable identity: no two rows share one and next_order *)
(* is ahead of all of them, so an order is never given out twice even when *)
(* the insert that used it failed, or the process died after it.           *)
OrderIsIdentity ==
    /\ \A b \in Durable : rows[b].order < meta.nextOrder
    /\ \A b, c \in Durable : rows[b].order = rows[c].order => b = c

(* Ages are only compared within one trusted basis: whichever time sources *)
(* the processes of a database are configured with, its trusted rows all   *)
(* carry the basis recorded in meta, and that basis never changes.         *)
OneBasis ==
    [][/\ \A b \in Batches : rows'[b].basis \in {NoBasis, meta'.basis}
       /\ meta.basis # NoBasis => meta'.basis = meta.basis]_vars

=============================================================================
