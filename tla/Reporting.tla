------------------------------ MODULE Reporting ------------------------------
(***************************************************************************)
(* From a reading to a durable row: the capture of events (points/events,  *)
(* points/samples), the selection and batching of the report engine        *)
(* (reporting/engine), the books kept about every event                    *)
(* (reporting/accounting), and the tasks that move events on               *)
(* (reporting/service) over the storage thread (core/storage_worker).      *)
(*                                                                         *)
(* Engine, buffer and tasks run on one event loop: a step is what happens  *)
(* between two awaits.  The storage thread runs beside it; an enqueue is   *)
(* two of its steps, because the loop may touch the session between the    *)
(* staging of an entry and its commit.  A pipeline that was closed may be  *)
(* followed by another one of the same process (a local reload).           *)
(*                                                                         *)
(* An event is its sample_seq.  The ingress buffer hands events over in    *)
(* capture order, so the buffer and both queues of the engine are sets of  *)
(* numbers whose order is the order of the numbers.  A device has one      *)
(* point.  What the outbox does with a committed row is modelled in        *)
(* Outbox; here only the facts it books about the row.                     *)
(***************************************************************************)
EXTENDS Integers, FiniteSets, Sequences

CONSTANTS
    Points,        \* the collected points
    Readings,      \* what a poll can end with: <<quality, value>>
    Mode,          \* Mode[g][p]: report_mode of p under generation g, or "off"
    Version,       \* Version[g]: config_version of generation g
    Deadband,
    IngressCap,    \* SampleBuffer: 4096
    DecisionMax,   \* Accounting: 8192 open decisions
    OwnedCap,      \* ReportEngine: 32768 events
    MaxBytes,      \* ReportEngine: 32 MiB; an event and a frozen batch weigh 1 each
    Reserve,       \* the part of it kept free for frozen batches
    MaxFrozen,     \* 8 frozen batches
    ClassMax,      \* 7 of them for one class
    BatchMax,      \* points of a batch
    MaxJobs,       \* StoreWorker: 8
    MaxSeq,        \* bound: events captured
    MaxGen,        \* bound: configurations published
    Limits         \* bounds of a behaviour: events, configurations, revisions of the
                   \* time, connections, and runs that may end

Gens == 1..MaxGen
Events == 1..MaxSeq
BatchIds == 1..MaxSeq

ASSUME ReportingAssumption ==
    /\ IsFiniteSet(Points)
    /\ Readings \subseteq {"GOOD", "BAD"} \X Int
    /\ Mode \in [Gens -> [Points -> {"off", "change", "cyclic", "both"}]]
    /\ Version \in [Gens -> Nat]
    /\ \A n \in {IngressCap, DecisionMax, OwnedCap, MaxBytes, MaxFrozen, ClassMax, BatchMax, MaxJobs,
                 MaxSeq, MaxGen} : n \in Nat \ {0}
    /\ Deadband \in Nat /\ Reserve \in Nat
    /\ Limits \subseteq [seq : 0..MaxSeq, gen : 0..MaxGen, time : Nat, conn : Nat, ends : Nat]
    /\ IngressCap < DecisionMax
    /\ ClassMax < MaxFrozen
    /\ Reserve < MaxBytes

VARIABLES
    boot,     \* ProcessBootContext: seq, gen, batch; and the hub's time: time, timeOk
    runtime,  \* the generation of the snapshot in force, 0: none; PointEvents per point
    sample,   \* the captured events
    ingress,  \* SampleBuffer._queue
    engine,   \* ReportEngine
    check,    \* report_checkpoint: generation, baselines, epochs, seen
    made,     \* the events of each materialised batch
    books,    \* Accounting
    rows,     \* the durable row of each batch
    session,  \* OutboxSession: entries, staged, class "new", watermark
    worker,   \* StoreWorker: jobs, thread, the reply to the enqueue that is awaited
    conn,     \* the send loop
    tasks,    \* _run, _persist, _finish_close; _stop, and whether _deadline has passed
    sup       \* the supervisor: "up", "stopping", "closing", "stopped", "ending"; reloads;
              \* and the bounds of this behaviour

capture == <<boot, runtime, sample>>
report == <<ingress, engine, check, made>>
store == <<rows, session, worker>>
vars == <<capture, report, books, store, conn, tasks, sup>>

NoSample == [point |-> "none", quality |-> "none", value |-> 0, gen |-> 0, time |-> 0,
             valid |-> FALSE, slot |-> FALSE]
NoEpoch == <<0, 0>>
Epoch(n) == <<sample[n].gen, sample[n].time>>
Physical(q) == q \in {"GOOD", "BAD"}

Newest(S) == IF S = {} THEN 0 ELSE CHOOSE n \in S : \A m \in S : m <= n
Oldest(S) == CHOOSE n \in S : \A m \in S : n <= m
Bit(b) == IF b THEN 1 ELSE 0

----------------------------------------------------------------------------
(* Accounting: what the books b become. *)

NoBooks ==
    [open |-> {}, unknown |-> FALSE, captured |-> 0, filtered |-> 0,
     eligible |-> 0, undecided |-> 0, settled |-> 0, pending |-> 0, dead |-> 0, frozen |-> {}, batches |-> 0, ramLost |-> {}]

(* captured: the decision is open, unless the set of open decisions is at  *)
(* its limit; a set that outgrows the metadata quota is emptied (_bound).  *)
Captured(b, n) ==
    LET more == [b EXCEPT !.captured = @ + 1]
        lost == [more EXCEPT !.unknown = TRUE]
    IN  IF Cardinality(b.open) < DecisionMax THEN {[more EXCEPT !.open = @ \cup {n}]}
        ELSE {lost, [lost EXCEPT !.open = {}]}

(* Fault: an event that is lost before a decision stays open. *)
UndecidedStaysOpen(b, n) == IF n \in b.open THEN [b EXCEPT !.undecided = @ + 1] ELSE b

Undecided(b, n) ==
    IF n \in b.open
    THEN [b EXCEPT !.open = @ \ {n}, !.undecided = @ + 1]
    ELSE b

(* decided: not selected, selected and refused, or selected and admitted. *)
Decided(b, n, how) ==
    LET closed == [b EXCEPT !.open = @ \ {n}]
    IN  IF n \notin b.open THEN b
        ELSE CASE how = "filtered" -> [closed EXCEPT !.filtered = @ + 1]
               [] how = "unsent"   -> [closed EXCEPT !.eligible = @ + 1, !.settled = @ + 1]
               [] how = "admitted" -> [closed EXCEPT !.eligible = @ + 1, !.pending = @ + 1]

Materialized(b, k) == [b EXCEPT !.frozen = @ \cup {k}, !.batches = @ + 1]

(* Fault: the commit of a batch counts it a second time. *)
CommittedTwice(b, k) == [b EXCEPT !.frozen = @ \ {k}, !.batches = @ + 1]

(* committed: a frozen batch is handed over, any other is new to the books. *)
Committed(b, k) ==
    [b EXCEPT !.frozen = @ \ {k}, !.batches = @ + Bit(k \notin b.frozen)]

(* terminal: the row of k has ended, isolated, uncertain or unsent; settled *)
(* is the sum of the counters of the ends, each event counted once.         *)
Terminal(b, k) ==
    LET n == Cardinality(made[k])
    IN  [b EXCEPT !.batches = @ - 1, !.pending = @ - n, !.dead = @ + n, !.settled = @ + n]

(* removed: stored, or pruned; the events of a row that had ended are      *)
(* counted already, and a late confirmation is counted as late.            *)
Removed(b, k, wasDead) ==
    LET n == Cardinality(made[k])
    IN  IF wasDead THEN [b EXCEPT !.dead = @ - n]
        ELSE [b EXCEPT !.pending = @ - n, !.batches = @ - 1, !.settled = @ + n]

(* abandon; ramLost remembers which events were declared known unsent. *)
Abandoned(b, lost, batches) ==
    [b EXCEPT !.pending = @ - Cardinality(lost), !.settled = @ + Cardinality(lost),
              !.batches = @ - Cardinality(batches \cap b.frozen), !.frozen = @ \ batches,
              !.ramLost = @ \cup lost]

----------------------------------------------------------------------------
(* ReportEngine: what the engine e, and the checkpoint c it works on, become. *)

NoPoints == [p \in Points |-> 0]

NoEngine ==
    [gen |-> 0, latest |-> NoPoints, shadow |-> NoPoints, owned |-> {}, queue |-> {}, history |-> {},
     frozen |-> {}, fresh |-> {}, watermark |-> 0, preferNew |-> TRUE, preferCommit |-> TRUE,
     refs |-> [n \in Events |-> 0]]

FreshCheck(g) ==
    [gen |-> g, base |-> NoPoints, epoch |-> [p \in Points |-> NoEpoch], seen |-> NoPoints]

(* _retain and _forget count who refers to an event; an event is charged   *)
(* while someone does, and a frozen batch for its bytes.                   *)
Retain(refs, n) == IF n = 0 THEN refs ELSE [refs EXCEPT ![n] = @ + 1]
Forget(refs, n) == IF n = 0 THEN refs ELSE [refs EXCEPT ![n] = @ - 1]
Used(e) == Cardinality({n \in Events : e.refs[n] > 0}) + Cardinality(e.frozen)
Holders(f, n) == Cardinality({p \in Points : f[p] = n})

(* Fault: the baselines taken over from the checkpoint are not charged. *)
ConfigureUncharged(e, c, g) ==
    LET held == IF e.gen = 0 THEN NoPoints ELSE c.base
    IN  IF e.gen = g THEN <<e, c>>
        ELSE <<[e EXCEPT !.gen = g, !.latest = NoPoints, !.shadow = NoPoints,
                         !.refs = [n \in Events |-> @[n] - Holders(e.latest, n) - Holders(held, n)]],
               IF c.gen = g THEN c ELSE FreshCheck(g)>>

(* configure: caches are dropped; baselines, epochs and what was seen come *)
(* from the checkpoint if it is of the same configuration.                 *)
Configure(e, c, g) ==
    LET next == IF c.gen = g THEN c ELSE FreshCheck(g)
        held == IF e.gen = 0 THEN NoPoints ELSE c.base
    IN  IF e.gen = g THEN <<e, c>>
        ELSE <<[e EXCEPT !.gen = g, !.latest = NoPoints, !.shadow = NoPoints,
                         !.refs = [n \in Events |-> @[n] - Holders(e.latest, n) - Holders(held, n)
                                                    + Holders(next.base, n)]],
               next>>

(* _baseline: the newer of what is on its way and what was committed. *)
Reference(e, c, p) == Newest({e.shadow[p], c.base[p]})

(* The selection policy: a first event, a change of quality, a change of a *)
(* GOOD value beyond the deadband, or a report slot that is due.           *)
Selected(n, r, mode) ==
    LET s == sample[n]
    IN  \/ r = 0
        \/ s.quality # sample[r].quality
        \/ /\ s.quality = "GOOD"
           /\ mode \in {"change", "both"}
           /\ (s.value - sample[r].value > Deadband \/ sample[r].value - s.value > Deadband)
        \/ mode # "change" /\ Physical(s.quality) /\ s.slot

CanAdmit(e, n) ==
    /\ Cardinality(e.owned) < OwnedCap
    /\ Used(e) + Bit(e.refs[n] = 0) <= MaxBytes - Reserve

(* accept, first part: what the checkpoint and the engine know of the      *)
(* point moves on to event n; a new epoch starts without a reference.      *)
SeenCheck(c, n) ==
    LET p == sample[n].point
    IN  [c EXCEPT !.seen[p] = n, !.epoch[p] = Epoch(n), !.base[p] = IF c.epoch[p] = Epoch(n) THEN @ ELSE 0]

SeenEngine(e, c, n) ==
    LET p == sample[n].point
        moved == c.epoch[p] # Epoch(n)
        gone == [e EXCEPT !.shadow[p] = IF moved THEN 0 ELSE @, !.latest[p] = 0,
                          !.refs = Forget(Forget(@, e.latest[p]), IF moved THEN c.base[p] ELSE 0)]
    IN  IF Used(gone) + 1 <= MaxBytes - Reserve
        THEN [gone EXCEPT !.latest[p] = n, !.refs = Retain(@, n)] ELSE gone

Admit(e, n) ==
    [e EXCEPT !.owned = @ \cup {n}, !.shadow[sample[n].point] = n, !.refs = Retain(@, n),
              !.history = IF n <= e.watermark THEN @ \cup {n} ELSE @,
              !.queue = IF n <= e.watermark THEN @ ELSE @ \cup {n}]

(* _accept: the time of the event is still the time of now. *)
Timely(n) == boot.timeOk /\ sample[n].valid /\ sample[n].time = boot.time

(* accept of event n by e: the triple of engine, checkpoint and books. *)
Accept(e, c, b, n) ==
    LET p == sample[n].point
        e1 == SeenEngine(e, c, n)
        c1 == SeenCheck(c, n)
    IN  IF e.gen = 0 \/ sample[n].gen # e.gen \/ Mode[e.gen][p] = "off"
        THEN <<e, c, Undecided(b, n)>>
        ELSE IF n <= c.seen[p] THEN <<e, c, b>>
        ELSE IF ~Selected(n, Reference(e1, c1, p), Mode[e.gen][p])
        THEN <<e1, c1, Decided(b, n, "filtered")>>
        ELSE IF ~Timely(n) \/ ~CanAdmit(e1, n) THEN <<e1, c1, Decided(b, n, "unsent")>>
        ELSE IF n \notin b.open THEN <<e1, c1, b>>
        ELSE <<Admit(e1, n), c1, Decided(b, n, "admitted")>>

OpenGate(e, w) ==
    [e EXCEPT !.watermark = w, !.history = @ \cup e.queue, !.queue = {}, !.fresh = {}]

(* The events of q that prepare packs into the next batch: from the oldest *)
(* on, one per point, of one version, at most BatchMax.                    *)
FirstBatch(q) ==
    LET before(m) == {k \in q : k < m}
        breaks(m) == /\ before(m) # {}
                     /\ \/ \E k \in before(m) : sample[k].point = sample[m].point
                        \/ Version[sample[m].gen] # Version[sample[Oldest(q)].gen]
                        \/ Cardinality(before(m)) >= BatchMax
    IN  {n \in q : \A m \in q : m <= n => ~breaks(m)}

CanFreeze(e, class) ==
    /\ Cardinality(e.frozen) < MaxFrozen
    /\ IF class = "new" THEN e.queue # {} /\ Cardinality(e.fresh) < ClassMax
                        ELSE e.history # {} /\ Cardinality(e.frozen \ e.fresh) < ClassMax

Preferred(e) == IF e.preferNew THEN "new" ELSE "history"
NextClass(e) == IF CanFreeze(e, Preferred(e)) THEN Preferred(e)
                ELSE IF e.preferNew THEN "history" ELSE "new"

(* Fault: the events of a frozen batch stay in their queue. *)
FreezeKeeps(e, class, k, batch) ==
    [e EXCEPT !.frozen = @ \cup {k}, !.fresh = IF class = "new" THEN @ \cup {k} ELSE @,
              !.preferNew = class # "new"]

Freeze(e, class, k, batch) ==
    [e EXCEPT !.frozen = @ \cup {k}, !.fresh = IF class = "new" THEN @ \cup {k} ELSE @,
              !.preferNew = class # "new",
              !.queue = @ \ batch, !.history = @ \ batch]

(* Fault: a committed event becomes the baseline even if a newer one was committed before. *)
AdoptedAlways(c, batch) == {n \in batch : c.epoch[sample[n].point] = Epoch(n)}

(* The events of a committed batch that become the baseline of their point. *)
Adopted(c, batch) ==
    {n \in batch : c.epoch[sample[n].point] = Epoch(n) /\ n > c.base[sample[n].point]}

(* committed of batch k, and the _release of its events. *)
CommitBatch(e, c, k) ==
    LET batch == made[k]
        adopted == Adopted(c, batch)
        of(p, S) == {n \in S : sample[n].point = p}
        base == [p \in Points |-> IF of(p, adopted) = {} THEN c.base[p] ELSE Newest(of(p, adopted))]
        left == e.owned \ batch
        shadow == [p \in Points |->
                      IF \E n \in of(p, batch) : c.epoch[p] = Epoch(n)
                      THEN Newest({n \in of(p, left) : Epoch(n) = c.epoch[p]}) ELSE e.shadow[p]]
        refs == [n \in Events |-> e.refs[n] - Bit(n \in batch) + Bit(n \in adopted)
                                  - Bit(\E p \in Points : c.base[p] = n /\ base[p] # n)]
    IN  IF k \notin e.frozen THEN <<e, c>>
        ELSE <<[e EXCEPT !.owned = left, !.frozen = @ \ {k}, !.fresh = @ \ {k}, !.shadow = shadow,
                         !.refs = refs],
               [c EXCEPT !.base = base]>>

(* abandon: what is still in RAM is given up. *)
Abandon(e) ==
    [e EXCEPT !.owned = {}, !.queue = {}, !.history = {}, !.frozen = {}, !.fresh = {},
              !.shadow = NoPoints, !.refs = [n \in Events |-> @[n] - Bit(n \in e.owned)]]

----------------------------------------------------------------------------
(* The storage worker and the tasks. *)

NoReply == [result |-> "none", batch |-> 0]
NoWorker == [jobs |-> <<>>, inserting |-> FALSE, open |-> TRUE, reply |-> NoReply]

Job(kind, arg) == [kind |-> kind, arg |-> arg]
Submit(w, job) == [w EXCEPT !.jobs = Append(@, job)]
Finish(w) == [w EXCEPT !.jobs = Tail(@), !.inserting = FALSE]
Answer(w, r) == [Finish(w) EXCEPT !.reply = [result |-> r, batch |-> Head(w.jobs).arg]]
Full == Len(worker.jobs) >= MaxJobs

NewTasks == [run |-> "loop", persist |-> "sleep", new |-> {}, old |-> {}, class |-> "new",
             close |-> "none", stop |-> FALSE, late |-> FALSE]

(* prepare has no await: nothing else runs on the loop before it is done. *)
LoopFree == tasks.persist # "prepare"

Init ==
    /\ boot = [seq |-> 0, gen |-> 0, batch |-> 0, time |-> 0, timeOk |-> TRUE]
    /\ runtime = [snapshot |-> 0, source |-> [p \in Points |-> [context |-> 0, quality |-> "none"]]]
    /\ sample = [n \in Events |-> NoSample]
    /\ ingress = {}
    /\ engine = NoEngine
    /\ check = FreshCheck(0)
    /\ made = [k \in BatchIds |-> {}]
    /\ books = NoBooks
    /\ rows = [k \in BatchIds |-> "none"]
    /\ session = [known |-> {}, staged |-> {}, new |-> {}, watermark |-> 0]
    /\ worker = NoWorker
    /\ conn = [state |-> "down", id |-> 0]
    /\ tasks = NewTasks
    /\ \E limit \in Limits :
          sup = [state |-> "up", reloads |-> 0, refused |-> FALSE, limit |-> limit]

----------------------------------------------------------------------------
(* Configuration, time and capture. *)

(* RuntimeTransition.publish: the next generation. *)
Publish ==
    /\ sup.state = "up" /\ LoopFree
    /\ boot.gen < sup.limit.gen
    /\ boot' = [boot EXCEPT !.gen = @ + 1]
    /\ runtime' = [runtime EXCEPT !.snapshot = boot.gen + 1]
    /\ UNCHANGED <<sample, report, books, store, conn, tasks, sup>>

(* PlatformTime: the reading is lost, comes back or is replaced, which     *)
(* moves revision and generation together (_bump); or a suspected reading  *)
(* is confirmed by the next round and comes back as the one it was.        *)
TimeChanges ==
    /\ LoopFree
    /\ \/ /\ boot.time < sup.limit.time
          /\ \E ok \in BOOLEAN : /\ ok \/ boot.timeOk
                                 /\ boot' = [boot EXCEPT !.time = @ + 1, !.timeOk = ok]
       \/ ~boot.timeOk /\ boot' = [boot EXCEPT !.timeOk = TRUE]
    /\ UNCHANGED <<runtime, sample, report, books, store, conn, tasks, sup>>

(* sample_context of the runner of point p. *)
Context(p) ==
    IF runtime.snapshot # 0 /\ Mode[runtime.snapshot][p] # "off" THEN runtime.snapshot ELSE 0

(* capture: what is read with the event, and under which configuration and time. *)
Capture(p, src, value, slot) ==
    [point |-> p, quality |-> src.quality, value |-> value, gen |-> src.context,
     time |-> boot.time, valid |-> boot.timeOk, slot |-> slot]

(* put: the buffer takes an event unless it is full. *)
PutFits == Cardinality(ingress) < IngressCap

(* _emit for the source src: capture, then put into the buffer or, if the  *)
(* configuration has changed meanwhile, book the event as undecided.       *)
Emit(p, src, value, slot, publish) ==
    LET n == boot.seq + 1
        kept == publish /\ PutFits
    IN  /\ sup.state = "up" /\ LoopFree
        /\ n <= sup.limit.seq
        /\ boot' = [boot EXCEPT !.seq = n]
        /\ runtime' = IF publish THEN [runtime EXCEPT !.source[p] = src] ELSE runtime
        /\ sample' = [sample EXCEPT ![n] = Capture(p, src, value, slot)]
        /\ \E b \in Captured(books, n) : books' = IF kept THEN b ELSE Undecided(b, n)
        /\ ingress' = IF kept THEN ingress \cup {n} ELSE ingress
        /\ UNCHANGED <<engine, check, made, store, conn, tasks, sup>>

(* activate: a runner that meets a new context starts from UNKNOWN. *)
Activate(p) ==
    /\ Context(p) # 0 /\ Context(p) # runtime.source[p].context
    /\ Emit(p, [context |-> Context(p), quality |-> "UNKNOWN"], 0, FALSE, TRUE)

(* result: a poll that began under the runner's context has ended; the     *)
(* context may have been replaced while it was awaited.  slot: the nominal *)
(* slot of the poll has reached next_report_due.                           *)
Result(p) ==
    LET context == runtime.source[p].context
    IN  /\ context # 0 /\ Context(p) # 0
        /\ \E read \in Readings, slot \in BOOLEAN :
              /\ slot => Mode[context][p] # "change"
              /\ Emit(p, [context |-> context, quality |-> read[1]], read[2], slot, Context(p) = context)

(* expire: no result for stale_after_ms. *)
Expire(p) ==
    LET context == runtime.source[p].context
    IN  /\ context # 0 /\ Context(p) = context
        /\ runtime.source[p].quality # "STALE"
        /\ Emit(p, [context |-> context, quality |-> "STALE"], 0, FALSE, TRUE)

----------------------------------------------------------------------------
(* _run: the ingress task. *)

(* The engine and the checkpoint as _run leaves them before it accepts:    *)
(* runtime.snapshot is None once the runtime has stopped, and then the     *)
(* last mapping is kept.                                                   *)
Configured ==
    IF runtime.snapshot # 0 THEN Configure(engine, check, runtime.snapshot) ELSE <<engine, check>>

RunAccept ==
    LET n == Oldest(ingress)
        after == Accept(Configured[1], Configured[2], books, n)
    IN  /\ LoopFree /\ tasks.run = "loop"
        /\ ingress # {}
        /\ ingress' = ingress \ {n}
        /\ engine' = after[1] /\ check' = after[2] /\ books' = after[3]
        /\ UNCHANGED <<capture, made, store, conn, tasks, sup>>

(* No sample within 50 ms: the loop goes round and configures. *)
RunIdle ==
    /\ LoopFree /\ tasks.run = "loop"
    /\ runtime.snapshot # 0 /\ engine.gen # runtime.snapshot
    /\ engine' = Configured[1] /\ check' = Configured[2]
    /\ UNCHANGED <<capture, ingress, made, books, store, conn, tasks, sup>>

RunDone ==
    /\ LoopFree /\ tasks.run = "loop" /\ tasks.stop /\ ingress = {}
    /\ tasks' = [tasks EXCEPT !.run = "done"]
    /\ UNCHANGED <<capture, report, books, store, conn, sup>>

Run == RunAccept \/ RunIdle \/ RunDone

----------------------------------------------------------------------------
(* _persist and _flush: the task that commits batches. *)

(* Fault: the task does not look at the deadline. *)
KeepsUpForever == ~tasks.stop \/ engine.owned # {} \/ tasks.run # "done"

KeepsUp == (~tasks.stop \/ engine.owned # {} \/ tasks.run # "done") /\ ~tasks.late

PersistOnly(t) == tasks' = t /\ UNCHANGED <<capture, report, books, store, conn, sup>>

Asleep(t) == [t EXCEPT !.persist = "sleep", !.new = {}, !.old = {}]

(* _flush returns at once while the hub's time is not valid. *)
PersistWake ==
    /\ tasks.persist = "sleep" /\ KeepsUp
    /\ boot.timeOk /\ engine.owned # {}
    /\ PersistOnly([tasks EXCEPT !.persist = "prepare"])

PersistEnd ==
    /\ tasks.persist = "sleep" /\ ~KeepsUp
    /\ PersistOnly([tasks EXCEPT !.persist = "done"])

(* One turn of the loop of prepare. *)
PrepareBatch ==
    LET class == NextClass(engine)
        batch == FirstBatch(IF class = "new" THEN engine.queue ELSE engine.history)
        k == boot.batch + 1
    IN  /\ tasks.persist = "prepare"
        /\ CanFreeze(engine, class) /\ Used(engine) + 1 <= MaxBytes
        /\ boot' = [boot EXCEPT !.batch = k]
        /\ made' = [made EXCEPT ![k] = batch]
        /\ engine' = Freeze(engine, class, k, batch)
        /\ books' = Materialized(books, k)
        /\ UNCHANGED <<runtime, sample, ingress, check, store, conn, tasks, sup>>

(* The groups _flush goes through are taken once, by the classes of now. *)
Prepared ==
    /\ tasks.persist = "prepare"
    /\ ~CanFreeze(engine, NextClass(engine)) \/ Used(engine) + 1 > MaxBytes
    /\ PersistOnly([tasks EXCEPT !.persist = "flush", !.new = engine.fresh,
                                 !.old = engine.frozen \ engine.fresh])

FlushClass == IF (engine.preferCommit /\ tasks.new # {}) \/ tasks.old = {} THEN "new" ELSE "history"

(* The next batch is handed to the thread; a full worker ends the flush. *)
FlushSubmit ==
    LET class == FlushClass
        k == Oldest(IF class = "new" THEN tasks.new ELSE tasks.old)
    IN  /\ tasks.persist = "flush" /\ ~tasks.late
        /\ tasks.new \cup tasks.old # {}
        /\ IF Full THEN tasks' = Asleep(tasks) /\ UNCHANGED worker
           ELSE /\ tasks' = [tasks EXCEPT !.persist = "await", !.new = @ \ {k}, !.old = @ \ {k},
                                          !.class = class]
                /\ worker' = Submit(worker, Job("enqueue", k))
        /\ UNCHANGED <<capture, report, books, rows, session, conn, sup>>

FlushEnd ==
    /\ tasks.persist = "flush" /\ (tasks.new \cup tasks.old = {} \/ tasks.late)
    /\ PersistOnly(Asleep(tasks))

(* The answer of the thread.  A store error ends this flush, any other     *)
(* exception ends the task.                                                *)
FlushResult ==
    LET reply == worker.reply
        done == CommitBatch(engine, check, reply.batch)
    IN  /\ tasks.persist = "await" /\ reply.result # "none"
        /\ worker' = [worker EXCEPT !.reply = NoReply]
        /\ IF reply.result = "true"
           THEN /\ engine' = [done[1] EXCEPT !.preferCommit = tasks.class # "new"]
                /\ check' = done[2]
           ELSE UNCHANGED <<engine, check>>
        /\ tasks' = CASE reply.result \in {"true", "false"} -> [tasks EXCEPT !.persist = "flush"]
                      [] reply.result = "error" -> Asleep(tasks)
                      [] reply.result = "raised" -> [Asleep(tasks) EXCEPT !.persist = "done"]
        /\ UNCHANGED <<capture, ingress, made, books, rows, session, conn, sup>>

Persist == PersistWake \/ PersistEnd \/ PrepareBatch \/ Prepared \/ FlushSubmit \/ FlushEnd
           \/ FlushResult

----------------------------------------------------------------------------
(* The storage thread: the jobs in the order in which they were submitted. *)

Runs(kind) == worker.jobs # <<>> /\ Head(worker.jobs).kind = kind
Arg == Head(worker.jobs).arg

(* OutboxStore.enqueue up to the insert: the batch is known already, the   *)
(* outbox is full, an expiry or the time guard fails, or it is staged with *)
(* the class its newest event has under the watermark of now.              *)
EnqueueStage ==
    /\ Runs("enqueue") /\ ~worker.inserting
    /\ \/ /\ \E r \in IF Arg \in session.known THEN {"true"} ELSE {"false", "error"} :
                worker' = Answer(worker, r)
          /\ UNCHANGED session
       \/ /\ Arg \notin session.known
          /\ worker' = [worker EXCEPT !.inserting = TRUE]
          /\ session' = IF Arg \in session.staged THEN session
                        ELSE [session EXCEPT !.staged = @ \cup {Arg},
                                 !.new = IF Newest(made[Arg]) > session.watermark THEN @ \cup {Arg} ELSE @]
    /\ UNCHANGED <<capture, report, books, rows, conn, tasks, sup>>

(* The insert commits and the entry moves from staged to entries, or the   *)
(* insert fails and the entry stays staged.  The move raises KeyError if   *)
(* the entry is not staged any more.                                       *)
EnqueueInsert ==
    /\ Runs("enqueue") /\ worker.inserting
    /\ \/ /\ worker' = Answer(worker, "error")
          /\ UNCHANGED <<rows, session, books>>
       \/ /\ rows' = [rows EXCEPT ![Arg] = "pending"]
          /\ IF Arg \in session.staged
             THEN /\ worker' = Answer(worker, "true")
                  /\ session' = [session EXCEPT !.staged = @ \ {Arg}, !.known = @ \cup {Arg}]
                  /\ books' = Committed(books, Arg)
             ELSE /\ worker' = Answer(worker, "raised")
                  /\ UNCHANGED <<session, books>>
    /\ UNCHANGED <<capture, report, conn, tasks, sup>>

(* Fault: a gate that a lost connection asked for lets the next one send. *)
OpensGateLate(gate) == conn.state = "gating"

(* The send loop goes on when its own gate is open. *)
OpensGate(gate) == conn = [state |-> "gating", id |-> gate.id]

(* OutboxSession.open_gate; the send loop that awaits it goes on. *)
GateJob ==
    /\ Runs("gate")
    /\ worker' = Finish(worker)
    /\ session' = [session EXCEPT !.watermark = Arg.watermark, !.new = {}]
    /\ conn' = IF OpensGate(Arg) THEN [conn EXCEPT !.state = "sending"] ELSE conn
    /\ UNCHANGED <<capture, report, books, rows, tasks, sup>>

(* The statistics read at the end of a close, which may fail. *)
StatsJob ==
    /\ Runs("stats")
    /\ worker' = Finish(worker)
    /\ \E outcome \in {"read", "unread"} : tasks' = [tasks EXCEPT !.close = outcome]
    /\ UNCHANGED <<capture, report, books, rows, session, conn, sup>>

CloseJob ==
    /\ Runs("close")
    /\ worker' = [Finish(worker) EXCEPT !.open = FALSE]
    /\ tasks' = [tasks EXCEPT !.close = Arg]
    /\ UNCHANGED <<capture, report, books, rows, session, conn, sup>>

Thread == EnqueueStage \/ EnqueueInsert \/ GateJob \/ StatsJob \/ CloseJob

----------------------------------------------------------------------------
(* What the outbox does with a committed row, between two jobs (module     *)
(* Outbox): it is confirmed, ended, or, once ended, confirmed or pruned.   *)
(* Which of the ends it meets is decided there.                            *)

Row(k, from, to) ==
    /\ worker.open /\ ~worker.inserting
    /\ k \in session.known /\ rows[k] = from
    /\ rows' = [rows EXCEPT ![k] = to]
    /\ session' = IF to = "gone" THEN [session EXCEPT !.known = @ \ {k}, !.new = @ \ {k}] ELSE session
    /\ UNCHANGED <<capture, report, worker, conn, tasks, sup>>

Stored(k) == conn.state = "sending" /\ Row(k, "pending", "gone") /\ books' = Removed(books, k, FALSE)

Ended(k) == Row(k, "pending", "dead") /\ books' = Terminal(books, k)

Cleared(k) == Row(k, "dead", "gone") /\ books' = Removed(books, k, TRUE)

Outbox == \E k \in BatchIds : Stored(k) \/ Ended(k) \/ Cleared(k)

----------------------------------------------------------------------------
(* The send loop of a connection. *)

(* send_loop opens the gate; a worker that is full fails the whole service. *)
Connect ==
    LET id == conn.id + 1
    IN  /\ sup.state = "up" /\ LoopFree /\ conn.state = "down" /\ conn.id < sup.limit.conn
        /\ engine' = OpenGate(engine, boot.seq)
        /\ conn' = [state |-> IF Full THEN "failed" ELSE "gating", id |-> id]
        /\ worker' = IF Full THEN worker
                     ELSE Submit(worker, Job("gate", [watermark |-> boot.seq, id |-> id]))
        /\ UNCHANGED <<capture, ingress, check, made, books, rows, session, tasks, sup>>

(* The connection is lost; a job that the send loop awaited stays queued. *)
Disconnect ==
    /\ sup.state = "up" /\ LoopFree /\ conn.state \in {"gating", "sending"}
    /\ conn' = [conn EXCEPT !.state = "down"]
    /\ UNCHANGED <<capture, report, books, store, tasks, sup>>

----------------------------------------------------------------------------
(* The end of a run, the close of the pipeline, and the next run. *)

(* mqtt_service.close and agent.close: connection and runtime are gone. *)
StopRuntime ==
    /\ sup.state = "up" /\ LoopFree /\ sup.reloads < sup.limit.ends
    /\ sup' = [sup EXCEPT !.state = "stopping"]
    /\ runtime' = [runtime EXCEPT !.snapshot = 0]
    /\ conn' = [conn EXCEPT !.state = "down"]
    /\ UNCHANGED <<boot, sample, report, books, store, tasks>>

Close ==
    /\ sup.state = "stopping" /\ LoopFree
    /\ sup' = [sup EXCEPT !.state = "closing"]
    /\ tasks' = [tasks EXCEPT !.stop = TRUE, !.close = "run"]
    /\ UNCHANGED <<capture, report, books, store, conn>>

(* close_timeout has passed since close was called. *)
Deadline ==
    /\ tasks.stop /\ ~tasks.late
    /\ tasks' = [tasks EXCEPT !.late = TRUE]
    /\ UNCHANGED <<capture, report, books, store, conn, sup>>

(* close returns when the cleanup has ended, or unsettled at the deadline. *)
CloseReturns ==
    /\ sup.state = "closing" /\ LoopFree
    /\ tasks.close \in {"done", "failed"} \/ tasks.late
    /\ sup' = [sup EXCEPT !.state = "stopped"]
    /\ UNCHANGED <<capture, report, books, store, conn, tasks>>

(* Fault: the cleanup gives up the rest at the deadline without waiting for _persist. *)
CleanupReadyLate == tasks.run = "done" /\ (tasks.persist = "done" \/ tasks.late)

(* _finish_close waits for _run, whose last act is to drain the buffer, and *)
(* for _persist.                                                            *)
CleanupReady == tasks.run = "done" /\ tasks.persist = "done"

(* What is left in RAM is known unsent, staged entries are dropped, and    *)
(* the statistics are asked for; a full worker refuses that.               *)
CleanupAbandon ==
    /\ LoopFree /\ tasks.close = "run" /\ CleanupReady
    /\ books' = Abandoned(books, engine.owned, engine.frozen)
    /\ engine' = Abandon(engine)
    /\ session' = [session EXCEPT !.staged = {}, !.new = @ \ session.staged]
    /\ tasks' = [tasks EXCEPT !.close = IF Full THEN "unread" ELSE "stats"]
    /\ worker' = IF Full THEN worker ELSE Submit(worker, Job("stats", 0))
    /\ UNCHANGED <<capture, ingress, check, made, rows, conn, sup>>

(* storage.close is queued behind everything that was admitted. *)
CleanupShut ==
    /\ LoopFree /\ tasks.close \in {"read", "unread"}
    /\ tasks' = [tasks EXCEPT !.close = "shut"]
    /\ worker' = Submit(worker, Job("close", IF tasks.close = "read" THEN "done" ELSE "failed"))
    /\ UNCHANGED <<capture, report, books, rows, session, conn, sup>>

Cleanup == CleanupAbandon \/ CleanupShut

(* Fault: a close that has returned is taken for a close that has ended. *)
MayStartLate == tasks.close # "none"

(* start: the previous close has ended, and without an exception. *)
MayStart == tasks.close = "done"

(* The supervisor runs the agent again in this process. *)
Reload ==
    LET first == IF boot.gen = 0 THEN <<NoEngine, check>> ELSE Configure(NoEngine, check, boot.gen)
    IN  /\ sup.state = "stopped" /\ sup.reloads < sup.limit.ends /\ MayStart
        /\ sup' = [sup EXCEPT !.state = "up", !.reloads = @ + 1]
        /\ runtime' = [runtime EXCEPT !.snapshot = boot.gen]
        /\ engine' = first[1] /\ check' = first[2]
        /\ ingress' = {}
        /\ worker' = NoWorker
        /\ tasks' = NewTasks
        /\ UNCHANGED <<boot, sample, made, books, rows, session, conn>>

(* start refuses while the old cleanup still runs, or after it failed.     *)
(* The pipeline that never started is closed like any other, which clears  *)
(* the shared staged entries; the RuntimeError of the first case ends the  *)
(* process, the StoreError of the second only the run.                     *)
Refused ==
    /\ sup.state = "stopped" /\ sup.reloads < sup.limit.ends /\ ~MayStart /\ LoopFree
    /\ sup' = [sup EXCEPT !.state = IF tasks.close = "failed" THEN "stopped" ELSE "ending",
                          !.reloads = @ + 1, !.refused = tasks.close # "failed"]
    /\ session' = [session EXCEPT !.staged = {}, !.new = @ \ session.staged]
    /\ UNCHANGED <<capture, report, books, rows, worker, conn, tasks>>

Next ==
    \/ Publish \/ TimeChanges
    \/ \E p \in Points : Activate(p) \/ Result(p) \/ Expire(p)
    \/ Run \/ Persist \/ Thread \/ Outbox
    \/ Connect \/ Disconnect
    \/ StopRuntime \/ Close \/ Deadline \/ CloseReturns \/ Cleanup \/ Reload \/ Refused

Spec == Init /\ [][Next]_vars

(* When a step of the task or of the thread is enabled. *)
RunEnabled ==
    /\ LoopFree /\ tasks.run = "loop"
    /\ ingress # {} \/ tasks.stop \/ (runtime.snapshot # 0 /\ engine.gen # runtime.snapshot)
PersistEnabled ==
    CASE tasks.persist = "sleep" -> KeepsUp => (boot.timeOk /\ engine.owned # {})
      [] tasks.persist = "await" -> worker.reply.result # "none"
      [] OTHER -> tasks.persist # "done"
CleanupEnabled ==
    LoopFree /\ (tasks.close \in {"read", "unread"} \/ (tasks.close = "run" /\ CleanupReady))

(* Weak fairness, with the enabling conditions written out: the loop goes  *)
(* on, time passes, and an operation of the storage thread ends one day,   *)
(* successfully or not.                                                    *)
Fairness ==
    /\ <>[]RunEnabled => []<><<Run>>_vars
    /\ <>[]PersistEnabled => []<><<Persist>>_vars
    /\ <>[](worker.jobs # <<>>) => []<><<Thread>>_vars
    /\ <>[]CleanupEnabled => []<><<Cleanup>>_vars
    /\ <>[](tasks.stop /\ ~tasks.late) => []<><<Deadline>>_vars

FairSpec == Spec /\ Fairness

----------------------------------------------------------------------------
(* Properties. *)

Durable == UNION {made[k] : k \in {j \in BatchIds : rows[j] # "none"}}
InRows(states) == UNION {made[k] : k \in {j \in BatchIds : rows[j] \in states}}

(* Every captured event is decided once, and the books never lose one:     *)
(* the events captured are those filtered, selected or lost before a       *)
(* decision, and the open ones, which are exactly the ones in the buffer,  *)
(* so that the bounded set of open decisions cannot overflow               *)
(* (accounting.py captured, decided, undecided; samples.py put).           *)
DecidedOnce ==
    /\ books.open = ingress /\ ~books.unknown
    /\ books.captured = books.filtered + books.eligible + books.undecided + Cardinality(books.open)

(* A selected event has one owner or one end: the gauges count it once,    *)
(* from the admission over the commit, which RAM learns of later, even     *)
(* after the confirmation, to its end (the table of doc i05-i06: pending   *)
(* by unique logical owner; accounting.py terminal, removed, abandon).     *)
OneOwner ==
    ~sup.refused =>
        /\ books.pending = Cardinality((engine.owned \ Durable) \cup InRows({"pending"}))
        /\ books.dead = Cardinality(InRows({"dead"}))
        /\ books.batches = Cardinality({k \in engine.frozen : rows[k] = "none"}
                                       \cup {k \in BatchIds : rows[k] = "pending"})
        /\ books.eligible = books.pending + books.settled

(* What a new reading is compared with is the newest event of its epoch    *)
(* that is on its way or was committed, in whatever order the two classes  *)
(* were committed, over reloads and given-up events: never a reading that  *)
(* was filtered or lost, or one of another configuration (engine.py accept, *)
(* _baseline, committed, _release).                                        *)
ReferenceIsNewest ==
    ~sup.refused =>
        \A p \in Points :
            check.epoch[p] # NoEpoch =>
                /\ check.epoch[p][1] = check.gen
                /\ Reference(engine, check, p) =
                       Newest({n \in engine.owned \cup Durable :
                                  sample[n].point = p /\ Epoch(n) = check.epoch[p]})

(* An owned event is in exactly one place, and what waits as new, or is    *)
(* frozen as new, was captured after the gate of the connection            *)
(* (engine.py prepare, open_gate).                                         *)
HeldOnce ==
    /\ engine.owned = engine.queue \cup engine.history \cup UNION {made[k] : k \in engine.frozen}
    /\ engine.queue \cap engine.history = {}
    /\ \A k \in engine.frozen :
          /\ made[k] \cap (engine.queue \cup engine.history) = {}
          /\ \A j \in engine.frozen \ {k} : made[j] \cap made[k] = {}
    /\ \A n \in engine.queue \cup UNION {made[k] : k \in engine.fresh} : n > engine.watermark

(* The memory charged is the memory held: an event is counted while a      *)
(* cache, a baseline or the owner holds it, and the total stays below the  *)
(* limit, so that a queued event can always be frozen (engine.py _retain,  *)
(* _forget, configure, committed).                                         *)
ChargedIsHeld ==
    /\ \A n \in Events : engine.refs[n] = Bit(n \in engine.owned) + Holders(engine.latest, n)
                                          + (IF engine.gen = 0 THEN 0 ELSE Holders(check.base, n))
    /\ Used(engine) <= MaxBytes

(* When a connection sends, the outbox and the engine agree on its gate,   *)
(* and no batch the outbox prefers as new holds an event from before it,   *)
(* whatever enqueues and older gates were queued on the thread             *)
(* (service.py send_loop, outbox_session.py open_gate).                    *)
GateAgrees ==
    conn.state = "sending" =>
        /\ session.watermark = engine.watermark
        /\ \A k \in session.new \cap session.known : \A n \in made[k] : n > engine.watermark

(* A new pipeline opens the store only when the thread of the old one has  *)
(* done its last job and closed it (service.py start, _close).             *)
OneWriter ==
    [][(sup.state = "stopped" /\ sup'.state = "up") => (worker.jobs = <<>> /\ ~worker.open)]_vars

(* An event that the close declares known unsent is in no row: it was not  *)
(* committed by a call that was still running at the deadline              *)
(* (engine.py abandon: no enqueue in progress), as long as no other start  *)
(* was attempted meanwhile.                                                *)
LossIsReal == ~sup.refused => books.ramLost \cap Durable = {}

(* The cleanup of a closed pipeline ends, also when the store fails every  *)
(* call and after close itself has given up (service.py _finish_close).    *)
CloseSettles == tasks.close # "none" ~> tasks.close \in {"none", "done", "failed"}

=============================================================================
