---------------------------- MODULE ReportingProofs ----------------------------
(***************************************************************************)
(* Proofs about Reporting, for any points, configurations and limits.      *)
(***************************************************************************)
EXTENDS Reporting, FiniteSetTheorems, SequenceTheorems, WellFoundedInduction, TLAPS

----------------------------------------------------------------------------
(* Types. *)

Seqs == 0..MaxSeq
Numbers == Nat \ {0}

Capturing == [seq : Seqs, gen : 0..MaxGen, batch : Seqs, time : Nat, timeOk : BOOLEAN]

Qualities == {"none", "UNKNOWN", "STALE", "GOOD", "BAD"}
Source == [context : 0..MaxGen, quality : Qualities]

Sample == [point : Points \cup {"none"}, quality : Qualities, value : Int, gen : 0..MaxGen, time : Nat,
           valid : BOOLEAN, slot : BOOLEAN]

Engine ==
    [gen : 0..MaxGen, latest : [Points -> Seqs], shadow : [Points -> Seqs],
     owned : SUBSET Events, queue : SUBSET Events, history : SUBSET Events,
     frozen : SUBSET BatchIds, fresh : SUBSET BatchIds, watermark : Seqs,
     preferNew : BOOLEAN, preferCommit : BOOLEAN, refs : [Events -> Int]]

Checkpoint ==
    [gen : 0..MaxGen, base : [Points -> Seqs], epoch : [Points -> Nat \X Nat], seen : [Points -> Seqs]]

Books ==
    [open : SUBSET Events, unknown : BOOLEAN, captured : Nat, filtered : Nat, eligible : Nat,
     undecided : Nat, settled : Int, pending : Int, dead : Int, frozen : SUBSET BatchIds,
     batches : Int, ramLost : SUBSET Events]

Session == [known : SUBSET BatchIds, staged : SUBSET BatchIds, new : SUBSET BatchIds, watermark : Seqs]

Results == {"true", "false", "error", "raised"}
Jobs ==
    [kind : {"enqueue"}, arg : BatchIds] \cup [kind : {"gate"}, arg : [watermark : Seqs, id : Nat]]
    \cup [kind : {"stats"}, arg : {0}] \cup [kind : {"close"}, arg : {"done", "failed"}]

Worker ==
    [jobs : Seq(Jobs), inserting : BOOLEAN, open : BOOLEAN,
     reply : [result : Results, batch : BatchIds] \cup {NoReply}]

Tasks ==
    [run : {"loop", "done"}, persist : {"sleep", "prepare", "flush", "await", "done"},
     new : SUBSET BatchIds, old : SUBSET BatchIds, class : {"new", "history"},
     close : {"none", "run", "stats", "read", "unread", "shut", "done", "failed"},
     stop : BOOLEAN, late : BOOLEAN]

Types ==
    /\ boot \in Capturing
    /\ runtime \in [snapshot : 0..MaxGen, source : [Points -> Source]]
    /\ sample \in [Events -> Sample]
    /\ ingress \subseteq Events
    /\ engine \in Engine
    /\ check \in Checkpoint
    /\ made \in [BatchIds -> SUBSET Events]
    /\ books \in Books
    /\ rows \in [BatchIds -> {"none", "pending", "dead", "gone"}]
    /\ session \in Session
    /\ worker \in Worker
    /\ conn \in [state : {"down", "gating", "sending", "failed"}, id : Nat]
    /\ tasks \in Tasks
    /\ sup \in [state : {"up", "stopping", "closing", "stopped", "ending"}, reloads : Nat,
                refused : BOOLEAN, limit : Limits]

(* The bounds are numbers. *)
LEMMA Bounds ==
    /\ IngressCap \in Numbers /\ DecisionMax \in Numbers /\ MaxJobs \in Numbers
    /\ MaxBytes \in Numbers /\ MaxSeq \in Numbers /\ MaxGen \in Numbers /\ Reserve \in Nat
    /\ IngressCap < DecisionMax /\ Reserve < MaxBytes
BY ReportingAssumption DEF Numbers

(* What a behaviour may do. *)
LEMMA LimitsBound ==
    \A limit \in Limits : limit.seq \in Seqs /\ limit.gen \in 0..MaxGen /\ limit.time \in Nat
<1>1. Limits \subseteq [seq : 0..MaxSeq, gen : 0..MaxGen, time : Nat, conn : Nat, ends : Nat]
  BY ReportingAssumption
<1> QED BY <1>1 DEF Seqs

(* Sets of events are finite. *)
LEMMA EventsFinite == \A S : S \subseteq Events => IsFiniteSet(S) /\ Cardinality(S) \in Nat
<1>1. IsFiniteSet(Events)
  BY FS_Interval, Bounds DEF Events, Numbers
<1> QED BY <1>1, FS_Subset, FS_CardinalityType

(* A set of numbers has a least one. *)
LEMMA LeastNumber == ASSUME NEW S, S \subseteq Nat, S # {} PROVE \E n \in S : \A m \in S : n <= m
<1> DEFINE Below(n) == 0..(n - 1)
           Belows == {Below(n) : n \in S}
<1>1. Belows \subseteq FiniteSubsetsOf(Nat) /\ Belows # {}
  <2>1. \A n \in S : Below(n) \subseteq Nat /\ IsFiniteSet(Below(n))
    BY FS_Interval
  <2> QED BY <2>1 DEF FiniteSubsetsOf
<1>2. PICK U \in Belows : \A V \in Belows : ~(<<V, U>> \in StrictSubsetOrdering(Nat))
  <2> HIDE DEF Belows
  <2> QED BY <1>1, FS_StrictSubsetOrderingWellFounded, WFMin
<1>3. PICK n \in S : U = Below(n)
  OBVIOUS
<1>4. ASSUME NEW m \in S, m < n PROVE FALSE
  <2>1. Below(m) \subseteq Below(n) /\ m \in Below(n) /\ m \notin Below(m) /\ Below(n) \subseteq Nat
    BY <1>4
  <2>2. <<Below(m), Below(n)>> \in StrictSubsetOrdering(Nat)
    BY <2>1 DEF StrictSubsetOrdering
  <2> QED BY <1>2, <1>3, <2>2
<1> QED BY <1>4

(* The oldest member. *)
LEMMA OldestIs ==
    ASSUME NEW S, S \subseteq Nat, S # {}
    PROVE  Oldest(S) \in S /\ \A m \in S : Oldest(S) <= m
<1>1. \E n \in S : \A m \in S : n <= m
  BY LeastNumber
<1> QED BY <1>1, Zenon DEF Oldest

(* The newest member, or none. *)
LEMMA NewestIs ==
    ASSUME NEW S, S \subseteq Events
    PROVE  /\ Newest(S) \in Seqs
           /\ S = {} => Newest(S) = 0
           /\ S # {} => Newest(S) \in S
           /\ \A m \in S : m <= Newest(S)
<1>0. Events \subseteq Seqs /\ 0 \in Seqs /\ MaxSeq \in Nat
  BY Bounds DEF Events, Seqs, Numbers
<1>1. CASE S = {}
  BY <1>0, <1>1 DEF Newest
<1>2. CASE S # {}
  <2> DEFINE Back == {MaxSeq - n : n \in S}
  <2>1. Back \subseteq Nat /\ Back # {}
    BY <1>0, <1>2 DEF Seqs
  <2>2. PICK b \in Back : \A c \in Back : b <= c
    <3> HIDE DEF Back
    <3> QED BY <2>1, LeastNumber
  <2>3. PICK n \in S : b = MaxSeq - n
    OBVIOUS
  <2>4. ASSUME NEW m \in S PROVE m <= n
    <3>1. b <= MaxSeq - m /\ m \in Seqs /\ n \in Seqs
      BY <1>0, <2>2
    <3> QED BY <1>0, <2>3, <3>1 DEF Seqs
  <2>5. Newest(S) \in S /\ \A m \in S : m <= Newest(S)
    BY <1>2, <2>4 DEF Newest
  <2> QED BY <1>0, <1>2, <2>5
<1> QED BY <1>1, <1>2

(* What the methods of the books return are books. *)
LEMMA BooksKept ==
    ASSUME NEW b \in Books, NEW n \in Events
    PROVE  /\ \A c \in Captured(b, n) : c \in Books
           /\ Undecided(b, n) \in Books
           /\ \A how \in {"filtered", "unsent", "admitted"} : Decided(b, n, how) \in Books
<1>1. /\ b.captured + 1 \in Nat /\ b.undecided + 1 \in Nat /\ b.filtered + 1 \in Nat /\ b.eligible + 1 \in Nat
      /\ b.settled + 1 \in Int /\ b.pending + 1 \in Int
  BY DEF Books
<1>2. b.open \cup {n} \in SUBSET Events /\ b.open \ {n} \in SUBSET Events
  BY DEF Books
<1>3. [b EXCEPT !.captured = @ + 1] \in Books
  BY <1>1 DEF Books
<1>4. \A c \in Captured(b, n) : c \in Books
  <2> DEFINE more == [b EXCEPT !.captured = @ + 1]
  <2>1. more.open = b.open
    BY DEF Books
  <2>2. [more EXCEPT !.unknown = TRUE] \in Books
    BY <1>3 DEF Books
  <2>3. [[more EXCEPT !.unknown = TRUE] EXCEPT !.open = {}] \in Books
    BY <2>2 DEF Books
  <2>4. [more EXCEPT !.open = @ \cup {n}] \in Books
    BY <1>2, <1>3, <2>1 DEF Books
  <2> QED BY <2>2, <2>3, <2>4 DEF Captured
<1>5. Undecided(b, n) \in Books
  BY <1>1, <1>2 DEF Undecided, Books
<1>6. Decided(b, n, "filtered") \in Books
  BY <1>1, <1>2 DEF Decided, Books
<1>7. Decided(b, n, "unsent") \in Books
  BY <1>1, <1>2 DEF Decided, Books
<1>8. Decided(b, n, "admitted") \in Books
  BY <1>1, <1>2 DEF Decided, Books
<1> QED BY <1>4, <1>5, <1>6, <1>7, <1>8

(* And so are those of the methods about a batch. *)
LEMMA BatchBooksKept ==
    ASSUME NEW b \in Books, NEW k \in BatchIds, made \in [BatchIds -> SUBSET Events]
    PROVE  /\ Materialized(b, k) \in Books /\ Committed(b, k) \in Books /\ Terminal(b, k) \in Books
           /\ \A dead \in BOOLEAN : Removed(b, k, dead) \in Books
<1>1. Cardinality(made[k]) \in Nat
  BY EventsFinite
<1>2. /\ b.frozen \cup {k} \in SUBSET BatchIds /\ b.frozen \ {k} \in SUBSET BatchIds
      /\ b.batches + 1 \in Int /\ b.batches - 1 \in Int /\ b.batches + Bit(k \notin b.frozen) \in Int
  BY DEF Books, Bit
<1>3. /\ b.pending - Cardinality(made[k]) \in Int /\ b.dead + Cardinality(made[k]) \in Int
      /\ b.dead - Cardinality(made[k]) \in Int /\ b.settled + Cardinality(made[k]) \in Int
  BY <1>1 DEF Books
<1>4. Materialized(b, k) \in Books
  BY <1>2 DEF Materialized, Books
<1>5. Committed(b, k) \in Books
  BY <1>2 DEF Committed, Books
<1>6. Terminal(b, k) \in Books
  BY <1>2, <1>3 DEF Terminal, Books
<1>7. \A dead \in BOOLEAN : Removed(b, k, dead) \in Books
  <2>1. [b EXCEPT !.dead = @ - Cardinality(made[k])] \in Books
    BY <1>3 DEF Books
  <2>2. [b EXCEPT !.pending = @ - Cardinality(made[k]), !.batches = @ - 1, !.settled = @ + Cardinality(made[k])]
            \in Books
    BY <1>2, <1>3 DEF Books
  <2> QED BY <2>1, <2>2 DEF Removed
<1> QED BY <1>4, <1>5, <1>6, <1>7

(* What is given up is counted. *)
LEMMA AbandonedBooksKept ==
    ASSUME NEW b \in Books, NEW lost \in SUBSET Events, NEW batches \in SUBSET BatchIds
    PROVE  Abandoned(b, lost, batches) \in Books
<1>1. Cardinality(lost) \in Nat /\ Cardinality(batches \cap b.frozen) \in Nat
  BY EventsFinite DEF BatchIds, Events, Books
<1>2. /\ b.pending - Cardinality(lost) \in Int /\ b.settled + Cardinality(lost) \in Int
      /\ b.batches - Cardinality(batches \cap b.frozen) \in Int
      /\ b.frozen \ batches \in SUBSET BatchIds /\ b.ramLost \cup lost \in SUBSET Events
  BY <1>1 DEF Books
<1> QED BY <1>2 DEF Abandoned, Books

(* How many points hold an event. *)
LEMMA HoldersCount == \A f, n : Holders(f, n) \in Nat
<1>1. IsFiniteSet(Points)
  BY ReportingAssumption
<1> QED BY <1>1, FS_Subset, FS_CardinalityType DEF Holders

(* The memory in use is a number. *)
LEMMA UsedCount == \A e \in Engine : Used(e) \in Nat
<1>1. \A e \in Engine : e.frozen \subseteq Events /\ {n \in Events : e.refs[n] > 0} \subseteq Events
  BY DEF Engine, BatchIds, Events
<1> QED BY <1>1, EventsFinite DEF Used

(* An engine without points, and a checkpoint that saw none. *)
LEMMA FreshTypes == NoEngine \in Engine /\ \A g \in 0..MaxGen : FreshCheck(g) \in Checkpoint
<1>0. 0 \in Seqs /\ 0 \in 0..MaxGen
  BY Bounds DEF Seqs, Numbers
<1> QED BY <1>0 DEF NoEngine, Engine, FreshCheck, Checkpoint, NoPoints, NoEpoch

(* configure. *)
LEMMA ConfigureTypes ==
    ASSUME NEW e \in Engine, NEW c \in Checkpoint, NEW g \in 0..MaxGen
    PROVE  Configure(e, c, g)[1] \in Engine /\ Configure(e, c, g)[2] \in Checkpoint
<1> DEFINE next == IF c.gen = g THEN c ELSE FreshCheck(g)
           held == IF e.gen = 0 THEN NoPoints ELSE c.base
           refs == [n \in Events |-> e.refs[n] - Holders(e.latest, n) - Holders(held, n) + Holders(next.base, n)]
<1>1. next \in Checkpoint
  BY FreshTypes
<1>2. refs \in [Events -> Int]
  <2>1. \A n \in Events : e.refs[n] \in Int /\ Holders(e.latest, n) \in Int /\ Holders(held, n) \in Int
                          /\ Holders(next.base, n) \in Int
    BY HoldersCount DEF Engine
  <2> QED BY <2>1
<1>3. NoPoints \in [Points -> Seqs]
  BY Bounds DEF NoPoints, Seqs, Numbers
<1>4. [e EXCEPT !.gen = g, !.latest = NoPoints, !.shadow = NoPoints, !.refs = refs] \in Engine
  <2> HIDE DEF refs, next, held
  <2> QED BY <1>2, <1>3 DEF Engine
<1> QED BY <1>1, <1>4 DEF Configure

(* Referring to an event and forgetting it. *)
LEMMA ReferTypes ==
    \A refs \in [Events -> Int] : \A n : Retain(refs, n) \in [Events -> Int] /\ Forget(refs, n) \in [Events -> Int]
<1> SUFFICES ASSUME NEW refs \in [Events -> Int], NEW n
             PROVE  Retain(refs, n) \in [Events -> Int] /\ Forget(refs, n) \in [Events -> Int]
  OBVIOUS
<1>1. CASE n \in Events
  <2>1. refs[n] + 1 \in Int /\ refs[n] - 1 \in Int
    BY <1>1
  <2> QED BY <2>1 DEF Retain, Forget
<1>2. CASE n \notin Events
  BY <1>2 DEF Retain, Forget
<1> QED BY <1>1, <1>2

(* accept, first part. *)
LEMMA SeenTypes ==
    ASSUME NEW e \in Engine, NEW c \in Checkpoint, NEW n \in Events, sample \in [Events -> Sample]
    PROVE  SeenEngine(e, c, n) \in Engine /\ SeenCheck(c, n) \in Checkpoint
<1> DEFINE p == sample[n].point
           moved == c.epoch[p] # Epoch(n)
           refs == Forget(Forget(e.refs, e.latest[p]), IF moved THEN c.base[p] ELSE 0)
           gone == [e EXCEPT !.shadow[p] = IF moved THEN 0 ELSE @, !.latest[p] = 0, !.refs = refs]
<1>0. n \in Seqs /\ 0 \in Seqs /\ Epoch(n) \in Nat \X Nat
  BY Bounds DEF Events, Seqs, Numbers, Epoch, Sample
<1>1. refs \in [Events -> Int]
  BY ReferTypes DEF Engine
<1>2. gone \in Engine
  <2>1. [e.shadow EXCEPT ![p] = IF moved THEN 0 ELSE @] \in [Points -> Seqs]
    BY <1>0 DEF Engine
  <2>2. [e.latest EXCEPT ![p] = 0] \in [Points -> Seqs]
    BY <1>0 DEF Engine
  <2> HIDE DEF refs, moved
  <2> QED BY <1>1, <2>1, <2>2 DEF Engine
<1>3. [gone EXCEPT !.latest[p] = n, !.refs = Retain(@, n)] \in Engine
  <2> HIDE DEF gone
  <2>1. [gone.latest EXCEPT ![p] = n] \in [Points -> Seqs]
    BY <1>0, <1>2 DEF Engine
  <2>2. Retain(gone.refs, n) \in [Events -> Int]
    BY <1>2, ReferTypes DEF Engine
  <2> QED BY <1>2, <2>1, <2>2 DEF Engine
<1>4. SeenEngine(e, c, n) \in Engine
  BY <1>2, <1>3 DEF SeenEngine
<1>5. SeenCheck(c, n) \in Checkpoint
  <2>1. [c.seen EXCEPT ![p] = n] \in [Points -> Seqs]
    BY <1>0 DEF Checkpoint
  <2>2. [c.epoch EXCEPT ![p] = Epoch(n)] \in [Points -> Nat \X Nat]
    BY <1>0 DEF Checkpoint
  <2>3. [c.base EXCEPT ![p] = IF c.epoch[p] = Epoch(n) THEN @ ELSE 0] \in [Points -> Seqs]
    BY <1>0 DEF Checkpoint
  <2> QED BY <2>1, <2>2, <2>3 DEF SeenCheck, Checkpoint
<1> QED BY <1>4, <1>5

(* accept, second part. *)
LEMMA AdmitTypes == \A e \in Engine, n \in Events : Admit(e, n) \in Engine
<1> SUFFICES ASSUME NEW e \in Engine, NEW n \in Events PROVE Admit(e, n) \in Engine
  OBVIOUS
<1> DEFINE p == sample[n].point
<1>1. [e.shadow EXCEPT ![p] = n] \in [Points -> Seqs]
  <2>1. n \in Seqs /\ e.shadow \in [Points -> Seqs]
    BY Bounds DEF Engine, Events, Seqs, Numbers
  <2> QED BY <2>1
<1>2. Retain(e.refs, n) \in [Events -> Int]
  BY ReferTypes DEF Engine
<1>3. /\ e.owned \cup {n} \in SUBSET Events /\ e.history \cup {n} \in SUBSET Events
      /\ e.queue \cup {n} \in SUBSET Events /\ e.history \in SUBSET Events /\ e.queue \in SUBSET Events
  BY DEF Engine
<1> QED BY <1>1, <1>2, <1>3 DEF Admit, Engine

(* accept. *)
LEMMA AcceptTypes ==
    ASSUME NEW e \in Engine, NEW c \in Checkpoint, NEW b \in Books, NEW n \in Events, sample \in [Events -> Sample]
    PROVE  /\ Accept(e, c, b, n)[1] \in Engine
           /\ Accept(e, c, b, n)[2] \in Checkpoint
           /\ Accept(e, c, b, n)[3] \in Books
<1> DEFINE e1 == SeenEngine(e, c, n)
           c1 == SeenCheck(c, n)
<1>1. e1 \in Engine /\ c1 \in Checkpoint
  BY SeenTypes
<1>2. Admit(e1, n) \in Engine
  BY <1>1, AdmitTypes
<1>3. /\ Undecided(b, n) \in Books /\ Decided(b, n, "filtered") \in Books
      /\ Decided(b, n, "unsent") \in Books /\ Decided(b, n, "admitted") \in Books
  BY BooksKept
<1> QED BY <1>1, <1>2, <1>3 DEF Accept

(* open_gate, prepare and abandon. *)
LEMMA QueueTypes ==
    ASSUME NEW e \in Engine
    PROVE  /\ \A w \in Seqs : OpenGate(e, w) \in Engine
           /\ \A S : \A class \in {"new", "history"}, k \in BatchIds : Freeze(e, class, k, S) \in Engine
           /\ Abandon(e) \in Engine
<1>1. \A w \in Seqs : OpenGate(e, w) \in Engine
  <2>1. e.history \cup e.queue \in SUBSET Events
    BY DEF Engine
  <2> QED BY <2>1 DEF OpenGate, Engine
<1>2. ASSUME NEW class \in {"new", "history"}, NEW k \in BatchIds, NEW S PROVE Freeze(e, class, k, S) \in Engine
  <2>1. /\ e.frozen \cup {k} \in SUBSET BatchIds /\ e.fresh \cup {k} \in SUBSET BatchIds /\ e.fresh \in SUBSET BatchIds
        /\ e.queue \ S \in SUBSET Events /\ e.history \ S \in SUBSET Events /\ (class # "new") \in BOOLEAN
    BY DEF Engine
  <2> QED BY <2>1 DEF Freeze, Engine
<1>3. Abandon(e) \in Engine
  <2>1. [n \in Events |-> e.refs[n] - Bit(n \in e.owned)] \in [Events -> Int]
    BY DEF Engine, Bit
  <2>2. NoPoints \in [Points -> Seqs]
    BY Bounds DEF NoPoints, Seqs, Numbers
  <2> QED BY <2>1, <2>2 DEF Abandon, Engine
<1> QED BY <1>1, <1>2, <1>3

(* committed. *)
LEMMA CommitTypes ==
    ASSUME NEW e \in Engine, NEW c \in Checkpoint, NEW k \in BatchIds, made \in [BatchIds -> SUBSET Events]
    PROVE  CommitBatch(e, c, k)[1] \in Engine /\ CommitBatch(e, c, k)[2] \in Checkpoint
<1> DEFINE batch == made[k]
           adopted == Adopted(c, batch)
           of(p, S) == {n \in S : sample[n].point = p}
           base == [p \in Points |-> IF of(p, adopted) = {} THEN c.base[p] ELSE Newest(of(p, adopted))]
           left == e.owned \ batch
           shadow == [p \in Points |->
                         IF \E n \in of(p, batch) : c.epoch[p] = Epoch(n)
                         THEN Newest({n \in of(p, left) : Epoch(n) = c.epoch[p]}) ELSE e.shadow[p]]
           refs == [n \in Events |-> e.refs[n] - Bit(n \in batch) + Bit(n \in adopted)
                                     - Bit(\E p \in Points : c.base[p] = n /\ base[p] # n)]
<1>1. adopted \subseteq Events /\ left \subseteq Events
  BY DEF Adopted, Engine
<1>2. base \in [Points -> Seqs]
  <2>1. ASSUME NEW p \in Points PROVE Newest(of(p, adopted)) \in Seqs /\ c.base[p] \in Seqs
    <3>1. of(p, adopted) \subseteq Events
      BY <1>1
    <3> HIDE DEF of
    <3> QED BY <3>1, NewestIs DEF Checkpoint
  <2> QED BY <2>1
<1>3. shadow \in [Points -> Seqs]
  <2>1. ASSUME NEW p \in Points
        PROVE Newest({n \in of(p, left) : Epoch(n) = c.epoch[p]}) \in Seqs /\ e.shadow[p] \in Seqs
    <3>1. {n \in of(p, left) : Epoch(n) = c.epoch[p]} \subseteq Events
      BY <1>1
    <3> HIDE DEF of
    <3> QED BY <3>1, NewestIs DEF Engine
  <2> QED BY <2>1
<1>4. refs \in [Events -> Int]
  <2>2. ASSUME NEW n \in Events
        PROVE e.refs[n] - Bit(n \in batch) + Bit(n \in adopted)
                  - Bit(\E p \in Points : c.base[p] = n /\ base[p] # n) \in Int
    <3> DEFINE was == Bit(n \in batch)
               is == Bit(n \in adopted)
               replaced == Bit(\E p \in Points : c.base[p] = n /\ base[p] # n)
    <3>1. e.refs[n] \in Int
      BY DEF Engine
    <3>2. was \in Int /\ is \in Int /\ replaced \in Int
      <4> HIDE DEF base, adopted
      <4> QED BY DEF Bit
    <3>3. e.refs[n] - was + is - replaced \in Int
      <4> HIDE DEF was, is, replaced
      <4> QED BY <3>1, <3>2
    <3> QED BY <3>3
  <2> QED BY <2>2
<1>5. [e EXCEPT !.owned = left, !.frozen = @ \ {k}, !.fresh = @ \ {k}, !.shadow = shadow, !.refs = refs] \in Engine
  <2>1. e.frozen \ {k} \in SUBSET BatchIds /\ e.fresh \ {k} \in SUBSET BatchIds
    BY DEF Engine
  <2> HIDE DEF left, shadow, refs
  <2> QED BY <1>1, <1>3, <1>4, <2>1 DEF Engine
<1>6. [c EXCEPT !.base = base] \in Checkpoint
  <2> HIDE DEF base
  <2> QED BY <1>2 DEF Checkpoint
<1> QED BY <1>5, <1>6 DEF CommitBatch

----------------------------------------------------------------------------
(* The places of an event. *)

Batched == UNION {made[k] : k \in BatchIds}

(* An event goes one way: captured, in the buffer, owned by an engine, in  *)
(* one batch for good.  Batches are numbered without gaps, and lie on one  *)
(* side of the gate, however often it is opened.                           *)
Places ==
    /\ HeldOnce
    /\ engine.fresh \subseteq engine.frozen
    /\ \A k \in engine.frozen : k <= boot.batch
    /\ \A k \in BatchIds : k > boot.batch => made[k] = {}
    /\ \A j, k \in BatchIds : j # k => made[j] \cap made[k] = {}
    /\ boot.batch <= Cardinality(Batched)
    /\ (engine.queue \cup engine.history) \cap Batched = {}
    /\ ingress \cap (engine.owned \cup Batched) = {}
    /\ \A n \in ingress \cup engine.owned \cup Batched : n <= boot.seq
    /\ engine.watermark <= boot.seq
    /\ \A n \in engine.history : n <= engine.watermark
    /\ \A k \in BatchIds : \/ \A n \in made[k] : n > engine.watermark
                           \/ \A n \in made[k] : n <= engine.watermark

(* prepare packs the oldest event of a queue, and only events of it. *)
LEMMA FirstBatchIs ==
    ASSUME NEW q \in SUBSET Events, q # {}
    PROVE  FirstBatch(q) \subseteq q /\ FirstBatch(q) # {}
<1>1. q \subseteq Nat
  BY DEF Events
<1>2. PICK n \in q : \A m \in q : n <= m
  BY <1>1, LeastNumber
<1>3. ASSUME NEW m \in q, m <= n PROVE {k \in q : k < m} = {}
  <2>1. \A k \in q : k \in Nat /\ m \in Nat /\ n \in Nat /\ n <= k
    BY <1>1, <1>2
  <2> QED BY <1>3, <2>1
<1>4. n \in FirstBatch(q)
  BY <1>3 DEF FirstBatch
<1> QED BY <1>4 DEF FirstBatch

(* The queue of a class. *)
ClassQueue(class) == IF class = "new" THEN engine.queue ELSE engine.history

(* What a turn of prepare packs. *)
LEMMA PreparedBatchIs ==
    ASSUME Types, Places, NEW class, CanFreeze(engine, class)
    PROVE  LET batch == FirstBatch(ClassQueue(class))
           IN  batch # {} /\ batch \subseteq ClassQueue(class) /\ batch \subseteq engine.owned
               /\ batch \subseteq Events /\ batch \cap Batched = {}
<1>1. ClassQueue(class) \in SUBSET Events /\ ClassQueue(class) # {}
  BY DEF Types, Engine, CanFreeze, ClassQueue
<1>2. FirstBatch(ClassQueue(class)) \subseteq ClassQueue(class) /\ FirstBatch(ClassQueue(class)) # {}
  BY <1>1, FirstBatchIs
<1>3. ClassQueue(class) \subseteq engine.owned /\ ClassQueue(class) \cap Batched = {}
  BY DEF Places, HeldOnce, ClassQueue
<1> QED BY <1>1, <1>2, <1>3

(* There are no more batches than events. *)
LEMMA PrepareCounts ==
    ASSUME Types, Places, PrepareBatch
    PROVE  /\ boot.batch + 1 \in BatchIds
           /\ boot.batch + 1 <= Cardinality(Batched \cup FirstBatch(ClassQueue(NextClass(engine))))
<1> DEFINE batch == FirstBatch(ClassQueue(NextClass(engine)))
           all == Batched \cup batch
<1>1. batch # {} /\ batch \subseteq Events /\ batch \cap Batched = {}
  BY PreparedBatchIs DEF PrepareBatch
<1>2. Batched \subseteq Events
  BY DEF Batched, Types
<1>3. PICK n \in batch : TRUE
  BY <1>1
<1>4. IsFiniteSet(Batched) /\ IsFiniteSet(all) /\ Cardinality(Batched) \in Nat /\ Cardinality(all) \in Nat
  BY <1>1, <1>2, EventsFinite
<1>5. Cardinality(Batched \cup {n}) = Cardinality(Batched) + 1
  BY <1>1, <1>3, <1>4, FS_AddElement
<1>6. Cardinality(Batched \cup {n}) <= Cardinality(all)
  BY <1>3, <1>4, FS_Subset
<1>7. Cardinality(all) <= MaxSeq
  <2>1. IsFiniteSet(Events) /\ Cardinality(Events) = MaxSeq
    BY FS_Interval, Bounds DEF Events, Numbers
  <2> QED BY <1>1, <1>2, <2>1, FS_Subset
<1>8. boot.batch \in Nat /\ boot.batch <= Cardinality(Batched)
  BY Bounds DEF Types, Capturing, Seqs, Numbers, Places
<1> HIDE DEF all
<1>9. boot.batch + 1 <= Cardinality(all)
  BY <1>4, <1>5, <1>6, <1>8
<1>10. boot.batch + 1 \in BatchIds
  BY <1>4, <1>7, <1>8, <1>9, Bounds DEF BatchIds, Numbers
<1> QED BY <1>9, <1>10 DEF all

----------------------------------------------------------------------------
(* Types, action by action. *)

(* The first state. *)
LEMMA TypesInit == Init => Types
<1> SUFFICES ASSUME Init PROVE Types
  OBVIOUS
<1>0. 0 \in Seqs /\ 0 \in 0..MaxGen
  BY Bounds DEF Seqs, Numbers
<1>1. boot \in Capturing /\ runtime \in [snapshot : 0..MaxGen, source : [Points -> Source]]
  BY <1>0 DEF Init, Capturing, Source, Qualities
<1>2. sample \in [Events -> Sample]
  BY <1>0 DEF Init, Sample, NoSample, Qualities
<1>3. engine \in Engine /\ check \in Checkpoint
  BY <1>0, FreshTypes DEF Init
<1>4. books \in Books
  BY DEF Init, Books, NoBooks
<1>5. session \in Session /\ worker \in Worker
  BY <1>0 DEF Init, Session, Worker, NoWorker
<1>6. tasks \in Tasks
  BY DEF Init, Tasks, NewTasks
<1> QED BY <1>1, <1>2, <1>3, <1>4, <1>5, <1>6 DEF Init, Types

(* The worker, with a job more and with a job less. *)
LEMMA WorkerTypes ==
    ASSUME NEW w \in Worker
    PROVE  /\ \A job \in Jobs : Submit(w, job) \in Worker
           /\ w.jobs # <<>> => /\ Head(w.jobs) \in Jobs
                               /\ Finish(w) \in Worker
                               /\ Head(w.jobs).kind = "enqueue" =>
                                      \A r \in Results : Answer(w, r) \in Worker
<1>1. \A job \in Jobs : Submit(w, job) \in Worker
  BY DEF Submit, Worker
<1>2. ASSUME w.jobs # <<>>
      PROVE  /\ Head(w.jobs) \in Jobs
             /\ Finish(w) \in Worker
             /\ Head(w.jobs).kind = "enqueue" => \A r \in Results : Answer(w, r) \in Worker
  <2>1. Head(w.jobs) \in Jobs /\ Tail(w.jobs) \in Seq(Jobs)
    BY <1>2 DEF Worker
  <2>2. Finish(w) \in Worker
    BY <2>1 DEF Finish, Worker
  <2>3. ASSUME Head(w.jobs).kind = "enqueue", NEW r \in Results PROVE Answer(w, r) \in Worker
    <3>1. Head(w.jobs).arg \in BatchIds
      BY <2>1, <2>3 DEF Jobs
    <3> QED BY <2>2, <3>1 DEF Answer, Worker
  <2> QED BY <2>1, <2>2, <2>3
<1> QED BY <1>1, <1>2

(* Capturing an event. *)
LEMMA EmitTypes ==
    ASSUME Types, NEW p \in Points, NEW src \in Source, NEW value \in Int, NEW slot \in BOOLEAN,
           NEW publish \in BOOLEAN, Emit(p, src, value, slot, publish)
    PROVE  Types'
<1>1. boot.seq + 1 \in Seqs /\ boot.seq + 1 \in Events
  <2>1. boot.seq + 1 <= sup.limit.seq /\ sup.limit \in Limits /\ boot.seq \in Nat
    BY Bounds DEF Emit, Types, Capturing, Seqs, Numbers
  <2> QED BY <2>1, LimitsBound, Bounds DEF Seqs, Events, Numbers
<1>2. boot' \in Capturing
  BY <1>1 DEF Emit, Types, Capturing
<1>3. runtime' \in [snapshot : 0..MaxGen, source : [Points -> Source]]
  <2>1. [runtime.source EXCEPT ![p] = src] \in [Points -> Source]
    BY DEF Types
  <2> QED BY <2>1 DEF Emit, Types
<1>4. sample' \in [Events -> Sample]
  <2>1. Capture(p, src, value, slot) \in Sample
    BY DEF Capture, Sample, Source, Types, Capturing
  <2> QED BY <1>1, <2>1 DEF Emit, Types
<1>5. books' \in Books
  BY <1>1, BooksKept DEF Emit, Types
<1>6. ingress' \subseteq Events
  BY <1>1 DEF Emit, Types
<1> QED BY <1>2, <1>3, <1>4, <1>5, <1>6 DEF Emit, Types, store

(* Configuration, time and capture. *)
LEMMA CaptureTypes ==
    ASSUME Types, Publish \/ TimeChanges \/ \E p \in Points : Activate(p) \/ Result(p) \/ Expire(p)
    PROVE  Types'
<1>1. CASE Publish
  <2>1. boot.gen + 1 \in 0..MaxGen
    <3>1. boot.gen < sup.limit.gen /\ sup.limit \in Limits /\ boot.gen \in 0..MaxGen
      BY <1>1 DEF Publish, Types, Capturing
    <3> QED BY <3>1, LimitsBound, Bounds DEF Numbers
  <2>2. boot' \in Capturing /\ runtime' \in [snapshot : 0..MaxGen, source : [Points -> Source]]
    BY <1>1, <2>1 DEF Publish, Types, Capturing
  <2> QED BY <1>1, <2>2 DEF Publish, Types, report, store
<1>2. CASE TimeChanges
  <2>1. boot' \in Capturing
    <3>1. boot \in Capturing /\ boot.time + 1 \in Nat
      BY DEF Types, Capturing
    <3>2. CASE \E ok \in BOOLEAN : boot' = [boot EXCEPT !.time = @ + 1, !.timeOk = ok]
      BY <3>1, <3>2 DEF Capturing
    <3>3. CASE boot' = [boot EXCEPT !.timeOk = TRUE]
      BY <3>1, <3>3 DEF Capturing
    <3> QED BY <1>2, <3>2, <3>3 DEF TimeChanges
  <2> QED BY <1>2, <2>1 DEF TimeChanges, Types, report, store
<1>3. ASSUME NEW p \in Points, Activate(p) PROVE Types'
  <2>1. Context(p) \in 0..MaxGen
    BY Bounds DEF Context, Types, Numbers
  <2>2. [context |-> Context(p), quality |-> "UNKNOWN"] \in Source
    BY <2>1 DEF Source, Qualities
  <2>3. Emit(p, [context |-> Context(p), quality |-> "UNKNOWN"], 0, FALSE, TRUE)
    BY <1>3 DEF Activate
  <2>4. 0 \in Int /\ FALSE \in BOOLEAN /\ TRUE \in BOOLEAN
    OBVIOUS
  <2> QED BY ONLY Types, p \in Points, <2>2, <2>3, <2>4, EmitTypes
<1>4. ASSUME NEW p \in Points, Result(p) PROVE Types'
  <2>1. runtime.source[p].context \in 0..MaxGen
    BY DEF Types, Source
  <2>2. PICK read \in Readings, slot \in BOOLEAN :
            Emit(p, [context |-> runtime.source[p].context, quality |-> read[1]], read[2], slot,
                 Context(p) = runtime.source[p].context)
    BY <1>4 DEF Result
  <2>3. read[1] \in Qualities /\ read[2] \in Int
    <3>1. Readings \subseteq {"GOOD", "BAD"} \X Int
      BY ReportingAssumption
    <3> QED BY <3>1 DEF Qualities
  <2>4. [context |-> runtime.source[p].context, quality |-> read[1]] \in Source
    BY <2>1, <2>3 DEF Source, Qualities
  <2>5. (Context(p) = runtime.source[p].context) \in BOOLEAN
    OBVIOUS
  <2> QED BY <2>2, <2>3, <2>4, <2>5, EmitTypes
<1>5. ASSUME NEW p \in Points, Expire(p) PROVE Types'
  <2>1. runtime.source[p].context \in 0..MaxGen
    BY DEF Types, Source
  <2>2. [context |-> runtime.source[p].context, quality |-> "STALE"] \in Source
    BY <2>1 DEF Source, Qualities
  <2>3. Emit(p, [context |-> runtime.source[p].context, quality |-> "STALE"], 0, FALSE, TRUE)
    BY <1>5 DEF Expire
  <2>4. 0 \in Int /\ FALSE \in BOOLEAN /\ TRUE \in BOOLEAN
    OBVIOUS
  <2> QED BY ONLY Types, p \in Points, <2>2, <2>3, <2>4, EmitTypes
<1> QED BY <1>1, <1>2, <1>3, <1>4, <1>5

(* What configure leaves. *)
LEMMA ConfiguredTypes == ASSUME Types PROVE Configured[1] \in Engine /\ Configured[2] \in Checkpoint
<1>1. engine \in Engine /\ check \in Checkpoint /\ runtime.snapshot \in 0..MaxGen
  BY DEF Types
<1> QED BY <1>1, ConfigureTypes DEF Configured

(* The ingress task. *)
LEMMA RunTypes == ASSUME Types, Run PROVE Types'
<1>1. CASE RunAccept
  <2>1. Oldest(ingress) \in Events
    <3>1. ingress \subseteq Nat /\ ingress # {} /\ ingress \subseteq Events
      BY <1>1 DEF RunAccept, Types, Events
    <3> QED BY <3>1, OldestIs
  <2>2. engine' \in Engine /\ check' \in Checkpoint /\ books' \in Books
    <3>1. Configured[1] \in Engine /\ Configured[2] \in Checkpoint /\ books \in Books /\ sample \in [Events -> Sample]
      BY ConfiguredTypes DEF Types
    <3> QED BY <1>1, <2>1, <3>1, AcceptTypes DEF RunAccept
  <2> QED BY <1>1, <2>2 DEF RunAccept, Types, capture, store
<1>2. CASE RunIdle
  BY <1>2, ConfiguredTypes DEF RunIdle, Types, capture, store
<1>3. CASE RunDone
  <2>1. tasks' \in Tasks
    BY <1>3 DEF RunDone, Types, Tasks
  <2> QED BY <1>3, <2>1 DEF RunDone, Types, capture, report, store
<1> QED BY <1>1, <1>2, <1>3 DEF Run

(* The persist task. *)
LEMMA PersistTypes == ASSUME Types, Places, Persist PROVE Types'
<1>0. tasks \in Tasks /\ Asleep(tasks) \in Tasks
  BY DEF Types, Asleep, Tasks
<1>1. ASSUME NEW t \in Tasks, PersistOnly(t) PROVE Types'
  BY <1>1 DEF PersistOnly, Types, capture, report, store
<1>2. CASE PersistWake
  <2>1. [tasks EXCEPT !.persist = "prepare"] \in Tasks
    BY <1>0 DEF Tasks
  <2> QED BY <1>1, <1>2, <2>1 DEF PersistWake
<1>3. CASE PersistEnd
  <2>1. [tasks EXCEPT !.persist = "done"] \in Tasks
    BY <1>0 DEF Tasks
  <2> QED BY <1>1, <1>3, <2>1 DEF PersistEnd
<1>4. CASE PrepareBatch
  <2> DEFINE class == NextClass(engine)
             batch == FirstBatch(ClassQueue(class))
             k == boot.batch + 1
  <2>1. k \in BatchIds /\ k \in Seqs
    BY <1>4, PrepareCounts DEF BatchIds, Seqs
  <2>2. batch \subseteq Events
    BY <1>4, PreparedBatchIs DEF PrepareBatch
  <2>3. boot' \in Capturing
    BY <1>4, <2>1 DEF PrepareBatch, Types, Capturing
  <2>4. made' \in [BatchIds -> SUBSET Events]
    BY <1>4, <2>1, <2>2 DEF PrepareBatch, Types, ClassQueue
  <2>5. class \in {"new", "history"}
    BY DEF NextClass, Preferred
  <2>6. engine' \in Engine
    BY <1>4, <2>1, <2>5, QueueTypes DEF PrepareBatch, Types
  <2>7. books' \in Books
    BY <1>4, <2>1, BatchBooksKept DEF PrepareBatch, Types
  <2> QED BY <1>4, <2>3, <2>4, <2>6, <2>7 DEF PrepareBatch, Types, store
<1>5. CASE Prepared
  <2>1. [tasks EXCEPT !.persist = "flush", !.new = engine.fresh, !.old = engine.frozen \ engine.fresh] \in Tasks
    <3>1. engine.fresh \in SUBSET BatchIds /\ engine.frozen \ engine.fresh \in SUBSET BatchIds
      BY DEF Types, Engine
    <3> QED BY <1>0, <3>1 DEF Tasks
  <2> QED BY <1>1, <1>5, <2>1 DEF Prepared
<1>6. CASE FlushSubmit
  <2> DEFINE class == FlushClass
             k == Oldest(IF class = "new" THEN tasks.new ELSE tasks.old)
  <2>1. k \in BatchIds /\ class \in {"new", "history"}
    <3>1. tasks.new \subseteq Nat /\ tasks.old \subseteq Nat /\ tasks.new \subseteq BatchIds /\ tasks.old \subseteq BatchIds
      BY <1>0 DEF Tasks, BatchIds
    <3>2. IF class = "new" THEN tasks.new # {} ELSE tasks.old # {}
      BY <1>6 DEF FlushSubmit, FlushClass
    <3> QED BY <3>1, <3>2, OldestIs DEF FlushClass
  <2>2. Job("enqueue", k) \in Jobs
    BY <2>1 DEF Job, Jobs
  <2>3. worker' \in Worker
    BY <1>6, <2>2, WorkerTypes DEF FlushSubmit, Types
  <2>4. tasks' \in Tasks
    <3>1. tasks.new \ {k} \in SUBSET BatchIds /\ tasks.old \ {k} \in SUBSET BatchIds
      BY <1>0 DEF Tasks
    <3>2. [tasks EXCEPT !.persist = "await", !.new = @ \ {k}, !.old = @ \ {k}, !.class = class] \in Tasks
      BY <1>0, <2>1, <3>1 DEF Tasks
    <3> QED BY <1>0, <1>6, <3>2 DEF FlushSubmit
  <2> QED BY <1>6, <2>3, <2>4 DEF FlushSubmit, Types, capture, report
<1>7. CASE FlushEnd
  BY <1>0, <1>1, <1>7 DEF FlushEnd
<1>8. CASE FlushResult
  <2>1. worker.reply.batch \in BatchIds /\ worker.reply.result \in Results
    BY <1>8 DEF FlushResult, Types, Worker, NoReply
  <2>2. worker' \in Worker
    BY <1>8 DEF FlushResult, Types, Worker
  <2>3. engine' \in Engine /\ check' \in Checkpoint
    <3> DEFINE done == CommitBatch(engine, check, worker.reply.batch)
    <3>1. done[1] \in Engine /\ done[2] \in Checkpoint
      BY <2>1, CommitTypes DEF Types
    <3>2. [done[1] EXCEPT !.preferCommit = tasks.class # "new"] \in Engine
      <4> HIDE DEF done
      <4> QED BY <3>1 DEF Engine
    <3> QED BY <1>8, <3>1, <3>2 DEF FlushResult, Types
  <2>4. tasks' \in Tasks
    <3>1. [tasks EXCEPT !.persist = "flush"] \in Tasks /\ [Asleep(tasks) EXCEPT !.persist = "done"] \in Tasks
      BY <1>0 DEF Tasks
    <3> QED BY <1>0, <1>8, <2>1, <3>1 DEF FlushResult, Results
  <2> QED BY <1>8, <2>2, <2>3, <2>4 DEF FlushResult, Types, capture
<1> QED BY <1>2, <1>3, <1>4, <1>5, <1>6, <1>7, <1>8 DEF Persist

(* The storage thread. *)
LEMMA ThreadTypes == ASSUME Types, Thread PROVE Types'
<1>0. worker \in Worker /\ session \in Session /\ tasks \in Tasks /\ books \in Books
  BY DEF Types
<1>1. CASE EnqueueStage
  <2>1. Arg \in BatchIds
    BY <1>0, <1>1, WorkerTypes DEF EnqueueStage, Runs, Arg, Jobs
  <2>2. worker' \in Worker
    <3>1. \A r \in Results : Answer(worker, r) \in Worker
      BY <1>0, <1>1, WorkerTypes DEF EnqueueStage, Runs
    <3>2. [worker EXCEPT !.inserting = TRUE] \in Worker
      BY <1>0 DEF Worker
    <3> QED BY <1>1, <3>1, <3>2 DEF EnqueueStage, Results
  <2>3. session' \in Session
    <3>1. \A S \in {session.new, session.new \cup {Arg}} :
              [session EXCEPT !.staged = @ \cup {Arg}, !.new = S] \in Session
      BY <1>0, <2>1 DEF Session
    <3>2. session' = session
          \/ \E S \in {session.new, session.new \cup {Arg}} : session' = [session EXCEPT !.staged = @ \cup {Arg}, !.new = S]
      BY <1>1 DEF EnqueueStage
    <3> QED BY <1>0, <3>1, <3>2
  <2> QED BY <1>1, <2>2, <2>3 DEF EnqueueStage, Types, capture, report
<1>2. CASE EnqueueInsert
  <2>1. Arg \in BatchIds
    BY <1>0, <1>2, WorkerTypes DEF EnqueueInsert, Runs, Arg, Jobs
  <2>2. worker' \in Worker
    <3>1. \A r \in Results : Answer(worker, r) \in Worker
      BY <1>0, <1>2, WorkerTypes DEF EnqueueInsert, Runs
    <3> QED BY <1>2, <3>1 DEF EnqueueInsert, Results
  <2>3. session' \in Session
    <3>1. session.staged \ {Arg} \in SUBSET BatchIds /\ session.known \cup {Arg} \in SUBSET BatchIds
      BY <1>0, <2>1 DEF Session
    <3>2. [session EXCEPT !.staged = @ \ {Arg}, !.known = @ \cup {Arg}] \in Session
      BY <1>0, <3>1 DEF Session
    <3> QED BY <1>0, <1>2, <3>2 DEF EnqueueInsert
  <2>4. rows' \in [BatchIds -> {"none", "pending", "dead", "gone"}]
    BY <1>2, <2>1 DEF EnqueueInsert, Types
  <2>5. books' \in Books
    <3>1. Committed(books, Arg) \in Books
      BY <1>0, <2>1, BatchBooksKept DEF Types
    <3> QED BY <1>0, <1>2, <3>1 DEF EnqueueInsert
  <2> QED BY <1>2, <2>2, <2>3, <2>4, <2>5 DEF EnqueueInsert, Types, capture, report
<1>3. CASE GateJob
  <2>1. Finish(worker) \in Worker /\ Arg.watermark \in Seqs
    BY <1>0, <1>3, WorkerTypes DEF GateJob, Runs, Arg, Jobs
  <2>2. session' \in Session
    BY <1>0, <1>3, <2>1 DEF GateJob, Session
  <2>3. conn' \in [state : {"down", "gating", "sending", "failed"}, id : Nat]
    BY <1>3 DEF GateJob, Types
  <2> QED BY <1>3, <2>1, <2>2, <2>3 DEF GateJob, Types, capture, report
<1>4. CASE StatsJob
  <2>1. Finish(worker) \in Worker
    BY <1>0, <1>4, WorkerTypes DEF StatsJob, Runs
  <2>2. tasks' \in Tasks
    BY <1>0, <1>4 DEF StatsJob, Tasks
  <2> QED BY <1>4, <2>1, <2>2 DEF StatsJob, Types, capture, report
<1>5. CASE CloseJob
  <2>1. Finish(worker) \in Worker /\ Arg \in {"done", "failed"}
    BY <1>0, <1>5, WorkerTypes DEF CloseJob, Runs, Arg, Jobs
  <2>2. worker' \in Worker
    BY <1>5, <2>1 DEF CloseJob, Worker
  <2>3. tasks' \in Tasks
    BY <1>0, <1>5, <2>1 DEF CloseJob, Tasks
  <2> QED BY <1>5, <2>2, <2>3 DEF CloseJob, Types, capture, report
<1> QED BY <1>1, <1>2, <1>3, <1>4, <1>5 DEF Thread

(* What the outbox does with a row. *)
LEMMA OutboxTypes == ASSUME Types, Outbox PROVE Types'
<1>1. PICK k \in BatchIds : Stored(k) \/ Ended(k) \/ Cleared(k)
  BY DEF Outbox
<1>2. PICK from \in {"pending", "dead"}, to \in {"pending", "dead", "gone"} : Row(k, from, to)
  BY <1>1 DEF Stored, Ended, Cleared
<1>3. books' \in Books
  <2>1. books \in Books /\ made \in [BatchIds -> SUBSET Events] /\ TRUE \in BOOLEAN /\ FALSE \in BOOLEAN
    BY DEF Types
  <2>2. Terminal(books, k) \in Books /\ Removed(books, k, TRUE) \in Books /\ Removed(books, k, FALSE) \in Books
    BY <2>1, BatchBooksKept
  <2> QED BY <1>1, <2>2 DEF Stored, Ended, Cleared
<1>4. session' \in Session
  BY <1>2 DEF Row, Types, Session
<1>5. rows' \in [BatchIds -> {"none", "pending", "dead", "gone"}]
  BY <1>2 DEF Row, Types
<1> QED BY <1>2, <1>3, <1>4, <1>5 DEF Row, Types, capture, report

(* The connection. *)
LEMMA ConnectionTypes == ASSUME Types, Connect \/ Disconnect PROVE Types'
<1>0. boot.seq \in Seqs /\ conn.id \in Nat /\ worker \in Worker
  BY DEF Types, Capturing
<1>1. CASE Connect
  <2>1. engine' \in Engine
    BY <1>0, <1>1, QueueTypes DEF Connect, Types
  <2>2. Job("gate", [watermark |-> boot.seq, id |-> conn.id + 1]) \in Jobs
    BY <1>0 DEF Job, Jobs
  <2>3. worker' \in Worker
    BY <1>0, <1>1, <2>2, WorkerTypes DEF Connect
  <2>4. conn' \in [state : {"down", "gating", "sending", "failed"}, id : Nat]
    BY <1>0, <1>1 DEF Connect
  <2> QED BY <1>1, <2>1, <2>3, <2>4 DEF Connect, Types, capture
<1>2. CASE Disconnect
  <2>1. conn' \in [state : {"down", "gating", "sending", "failed"}, id : Nat]
    BY <1>2 DEF Disconnect, Types
  <2> QED BY <1>2, <2>1 DEF Disconnect, Types, capture, report, store
<1> QED BY <1>1, <1>2

(* The end of a run. *)
LEMMA EndTypes == ASSUME Types, StopRuntime \/ Close \/ Deadline \/ CloseReturns \/ Cleanup PROVE Types'
<1>0. /\ tasks \in Tasks /\ worker \in Worker /\ session \in Session
      /\ sup \in [state : {"up", "stopping", "closing", "stopped", "ending"}, reloads : Nat,
                  refused : BOOLEAN, limit : Limits]
  BY DEF Types
<1>1. CASE StopRuntime
  <2>1. /\ sup' \in [state : {"up", "stopping", "closing", "stopped", "ending"}, reloads : Nat,
                     refused : BOOLEAN, limit : Limits]
        /\ conn' \in [state : {"down", "gating", "sending", "failed"}, id : Nat]
        /\ runtime' \in [snapshot : 0..MaxGen, source : [Points -> Source]]
    BY <1>0, <1>1, Bounds DEF StopRuntime, Types, Numbers
  <2> QED BY <1>1, <2>1 DEF StopRuntime, Types, report, store
<1>2. CASE Close
  <2>1. tasks' \in Tasks
    BY <1>0, <1>2 DEF Close, Tasks
  <2> QED BY <1>0, <1>2, <2>1 DEF Close, Types, capture, report, store
<1>3. CASE Deadline
  <2>1. tasks' \in Tasks
    BY <1>0, <1>3 DEF Deadline, Tasks
  <2> QED BY <1>3, <2>1 DEF Deadline, Types, capture, report, store
<1>4. CASE CloseReturns
  BY <1>0, <1>4 DEF CloseReturns, Types, capture, report, store
<1>5. CASE CleanupAbandon
  <2>1. engine' \in Engine /\ engine.owned \in SUBSET Events /\ engine.frozen \in SUBSET BatchIds
    BY <1>5, QueueTypes DEF CleanupAbandon, Types, Engine
  <2>2. books' \in Books
    BY <1>5, <2>1, AbandonedBooksKept DEF CleanupAbandon, Types
  <2>3. session' \in Session
    BY <1>0, <1>5 DEF CleanupAbandon, Session
  <2>4. tasks' \in Tasks
    BY <1>0, <1>5 DEF CleanupAbandon, Tasks
  <2>5. Job("stats", 0) \in Jobs
    BY DEF Job, Jobs
  <2>6. worker' \in Worker
    BY <1>0, <1>5, <2>5, WorkerTypes DEF CleanupAbandon
  <2> QED BY <1>5, <2>1, <2>2, <2>3, <2>4, <2>6 DEF CleanupAbandon, Types, capture
<1>6. CASE CleanupShut
  <2>1. tasks' \in Tasks
    BY <1>0, <1>6 DEF CleanupShut, Tasks
  <2>2. Job("close", IF tasks.close = "read" THEN "done" ELSE "failed") \in Jobs
    BY DEF Job, Jobs
  <2>3. worker' \in Worker
    BY <1>0, <1>6, <2>2, WorkerTypes DEF CleanupShut
  <2> QED BY <1>6, <2>1, <2>3 DEF CleanupShut, Types, capture, report
<1> QED BY <1>1, <1>2, <1>3, <1>4, <1>5, <1>6 DEF Cleanup

(* The next run, or none. *)
LEMMA StartTypes == ASSUME Types, Reload \/ Refused PROVE Types'
<1>0. /\ tasks \in Tasks /\ session \in Session /\ boot.gen \in 0..MaxGen
      /\ sup \in [state : {"up", "stopping", "closing", "stopped", "ending"}, reloads : Nat,
                  refused : BOOLEAN, limit : Limits]
  BY DEF Types, Capturing
<1>1. CASE Reload
  <2>1. engine' \in Engine /\ check' \in Checkpoint
    <3>1. NoEngine \in Engine /\ check \in Checkpoint
      BY FreshTypes DEF Types
    <3>2. Configure(NoEngine, check, boot.gen)[1] \in Engine /\ Configure(NoEngine, check, boot.gen)[2] \in Checkpoint
      BY <1>0, <3>1, ConfigureTypes
    <3> QED BY <1>1, <3>1, <3>2 DEF Reload
  <2>2. runtime' \in [snapshot : 0..MaxGen, source : [Points -> Source]]
    BY <1>0, <1>1 DEF Reload, Types
  <2>3. NoWorker \in Worker /\ NewTasks \in Tasks
    BY DEF NoWorker, Worker, NewTasks, Tasks
  <2>4. sup' \in [state : {"up", "stopping", "closing", "stopped", "ending"}, reloads : Nat,
                  refused : BOOLEAN, limit : Limits]
    <3>1. sup.reloads + 1 \in Nat
      BY <1>0
    <3> QED BY <1>0, <1>1, <3>1 DEF Reload
  <2> QED BY <1>1, <2>1, <2>2, <2>3, <2>4 DEF Reload, Types
<1>2. CASE Refused
  <2>1. session' \in Session
    BY <1>0, <1>2 DEF Refused, Session
  <2>2. sup' \in [state : {"up", "stopping", "closing", "stopped", "ending"}, reloads : Nat,
                  refused : BOOLEAN, limit : Limits]
    <3>1. sup.reloads + 1 \in Nat /\ (tasks.close # "failed") \in BOOLEAN
      BY <1>0
    <3> QED BY <1>0, <1>2, <3>1 DEF Refused
  <2> QED BY <1>2, <2>1, <2>2 DEF Refused, Types, capture, report
<1> QED BY <1>1, <1>2

(* Every step. *)
LEMMA TypesStep == ASSUME Types, Places, [Next]_vars PROVE Types'
<1>1. CASE UNCHANGED vars
  BY <1>1 DEF vars, capture, report, store, Types
<1>2. CASE Next
  BY <1>2, CaptureTypes, RunTypes, PersistTypes, ThreadTypes, OutboxTypes, ConnectionTypes, EndTypes, StartTypes
  DEF Next
<1> QED BY <1>1, <1>2

----------------------------------------------------------------------------
(* The phases of a run. *)

(* A close begins when the runtime is gone, goes on when both tasks have   *)
(* ended, and then nobody but the cleanup gives the thread work.           *)
Phases ==
    /\ tasks.close = "none" <=> sup.state \in {"up", "stopping"}
    /\ tasks.stop <=> tasks.close # "none"
    /\ tasks.late => tasks.stop
    /\ tasks.run = "done" => tasks.stop /\ ingress = {}
    /\ tasks.close \notin {"none", "run"} => tasks.run = "done" /\ tasks.persist = "done"
    /\ conn.state # "down" => sup.state = "up"
    /\ sup.refused => sup.state = "ending"

(* The persist task waits for batch k, which its flush took out of a group. *)
Awaits(k) == tasks.persist = "await" /\ k \in engine.frozen /\ k \notin tasks.new \cup tasks.old

(* Of the jobs of the thread at most one is an enqueue, and it is awaited  *)
(* as long as it is not answered.                                          *)
EnqueueJobs ==
    /\ \A i \in DOMAIN worker.jobs : worker.jobs[i].kind = "enqueue" =>
           /\ worker.reply = NoReply
           /\ Awaits(worker.jobs[i].arg)
           /\ \A j \in DOMAIN worker.jobs : worker.jobs[j].kind = "enqueue" => j = i
    /\ worker.reply # NoReply => Awaits(worker.reply.batch)
    /\ worker.inserting => worker.jobs # <<>> /\ Head(worker.jobs).kind = "enqueue"

(* The groups of a flush are frozen batches. *)
Groups ==
    /\ tasks.new \cup tasks.old \subseteq engine.frozen
    /\ tasks.persist \notin {"flush", "await"} => tasks.new \cup tasks.old = {}

(* Statistics and close are asked for once, and nothing follows the close. *)
CloseJobs ==
    /\ \A i \in DOMAIN worker.jobs : worker.jobs[i].kind = "stats" =>
           /\ tasks.close = "stats"
           /\ \A j \in DOMAIN worker.jobs : worker.jobs[j].kind = "stats" => j = i
    /\ \A i \in DOMAIN worker.jobs : worker.jobs[i].kind = "close" =>
           tasks.close = "shut" /\ i = Len(worker.jobs)
    /\ tasks.close \in {"done", "failed"} => worker.jobs = <<>> /\ ~worker.open

(* The first state. *)
LEMMA PhasesInit == Init => Phases
BY DEF Init, Phases, NewTasks

(* Steps that leave the phases alone. *)
LEMMA PhasesFrame ==
    ASSUME Phases, UNCHANGED <<tasks, sup>>, ingress = {} => ingress' = {}, conn'.state # "down" => conn.state # "down"
    PROVE  Phases'
BY DEF Phases

(* The jobs of the thread are a sequence. *)
LEMMA FirstJob ==
    ASSUME Types, worker.jobs # <<>> PROVE 1 \in DOMAIN worker.jobs /\ Head(worker.jobs) = worker.jobs[1]
BY DEF Types, Worker

(* Every step. *)
LEMMA PhasesStep == ASSUME Types, Phases, CloseJobs, [Next]_vars PROVE Phases'
<1>0. /\ tasks \in Tasks
      /\ sup \in [state : {"up", "stopping", "closing", "stopped", "ending"}, reloads : Nat,
                  refused : BOOLEAN, limit : Limits]
      /\ conn \in [state : {"down", "gating", "sending", "failed"}, id : Nat]
  BY DEF Types
<1>1. CASE UNCHANGED vars
  BY <1>1, PhasesFrame DEF vars, capture, report, store
<1>2. CASE Publish \/ TimeChanges
  BY <1>2, PhasesFrame DEF Publish, TimeChanges, capture, report, store
<1>3. ASSUME NEW p \in Points, Activate(p) \/ Result(p) \/ Expire(p) PROVE Phases'
  <2>1. UNCHANGED <<tasks, sup, conn>> /\ sup.state = "up"
    BY <1>3 DEF Activate, Result, Expire, Emit, store
  <2> QED BY <2>1 DEF Phases
<1>4. CASE Run
  <2>1. CASE RunAccept
    BY <2>1, PhasesFrame DEF RunAccept, capture, store
  <2>2. CASE RunIdle
    BY <2>2, PhasesFrame DEF RunIdle, capture, store
  <2>3. CASE RunDone
    BY <1>0, <2>3 DEF RunDone, Phases, Tasks, capture, report, store
  <2> QED BY <1>4, <2>1, <2>2, <2>3 DEF Run
<1>5. CASE Persist
  <2>1. UNCHANGED <<sup, ingress, conn>>
    BY <1>5 DEF Persist, PersistWake, PersistEnd, PrepareBatch, Prepared, FlushSubmit, FlushEnd, FlushResult,
                PersistOnly, capture, report, store
  <2>2. tasks.persist # "done"
    BY <1>5 DEF Persist, PersistWake, PersistEnd, PrepareBatch, Prepared, FlushSubmit, FlushEnd, FlushResult
  <2>3. tasks'.close = tasks.close /\ tasks'.stop = tasks.stop /\ tasks'.late = tasks.late /\ tasks'.run = tasks.run
    <3>1. CASE PersistWake \/ PersistEnd \/ PrepareBatch
      BY <1>0, <3>1 DEF PersistWake, PersistEnd, PrepareBatch, PersistOnly, Tasks
    <3>2. CASE Prepared \/ FlushEnd
      BY <1>0, <3>2 DEF Prepared, FlushEnd, PersistOnly, Asleep, Tasks
    <3>3. CASE FlushSubmit
      BY <1>0, <3>3 DEF FlushSubmit, Asleep, Tasks
    <3>4. CASE FlushResult
      <4>1. worker.reply.result \in Results
        BY <3>4 DEF FlushResult, Types, Worker, NoReply
      <4> QED BY <1>0, <3>4, <4>1 DEF FlushResult, Asleep, Tasks, Results
    <3> QED BY <1>5, <3>1, <3>2, <3>3, <3>4 DEF Persist
  <2> QED BY <2>1, <2>2, <2>3 DEF Phases
<1>6. CASE Thread
  <2>1. CASE EnqueueStage \/ EnqueueInsert
    BY <2>1, PhasesFrame DEF EnqueueStage, EnqueueInsert, capture, report
  <2>2. CASE GateJob
    BY <1>0, <2>2, PhasesFrame DEF GateJob, OpensGate, capture, report
  <2>3. CASE StatsJob
    <3>1. tasks.close = "stats"
      BY <2>3, FirstJob DEF StatsJob, Runs, CloseJobs
    <3> QED BY <1>0, <2>3, <3>1 DEF StatsJob, Phases, Tasks, capture, report
  <2>4. CASE CloseJob
    <3>1. tasks.close = "shut"
      BY <2>4, FirstJob DEF CloseJob, Runs, CloseJobs
    <3>2. Arg \in {"done", "failed"}
      BY <2>4, WorkerTypes DEF CloseJob, Runs, Arg, Jobs, Types
    <3> QED BY <1>0, <2>4, <3>1, <3>2 DEF CloseJob, Phases, Tasks, capture, report
  <2> QED BY <1>6, <2>1, <2>2, <2>3, <2>4 DEF Thread
<1>7. CASE Outbox
  BY <1>7, PhasesFrame DEF Outbox, Stored, Ended, Cleared, Row, capture, report
<1>8. CASE Connect
  BY <1>0, <1>8 DEF Connect, Phases, capture
<1>9. CASE Disconnect
  BY <1>0, <1>9, PhasesFrame DEF Disconnect, capture, report, store
<1>10. CASE StopRuntime
  BY <1>0, <1>10 DEF StopRuntime, Phases, report, store
<1>11. CASE Close
  BY <1>0, <1>11 DEF Close, Phases, Tasks, capture, report, store
<1>12. CASE Deadline
  BY <1>0, <1>12 DEF Deadline, Phases, Tasks, capture, report, store
<1>13. CASE CloseReturns
  BY <1>0, <1>13 DEF CloseReturns, Phases, capture, report, store
<1>14. CASE Cleanup
  <2>1. CASE CleanupAbandon
    BY <1>0, <2>1 DEF CleanupAbandon, CleanupReady, Phases, Tasks, capture
  <2>2. CASE CleanupShut
    BY <1>0, <2>2 DEF CleanupShut, Phases, Tasks, capture, report
  <2> QED BY <1>14, <2>1, <2>2 DEF Cleanup
<1>15. CASE Reload
  BY <1>0, <1>15 DEF Reload, Phases, NewTasks
<1>16. CASE Refused
  BY <1>0, <1>16 DEF Refused, Phases, capture, report
<1> QED BY <1>1, <1>2, <1>3, <1>4, <1>5, <1>6, <1>7, <1>8, <1>9, <1>10, <1>11, <1>12, <1>13, <1>14, <1>15, <1>16
        DEF Next

(* A job more. *)
LEMMA SubmitIs ==
    ASSUME NEW w \in Worker, NEW job
    PROVE  /\ Len(w.jobs) \in Nat /\ DOMAIN w.jobs = 1..Len(w.jobs)
           /\ DOMAIN Submit(w, job).jobs = 1..(Len(w.jobs) + 1)
           /\ Len(Submit(w, job).jobs) = Len(w.jobs) + 1
           /\ Submit(w, job).jobs[Len(w.jobs) + 1] = job
           /\ \A i \in 1..Len(w.jobs) : Submit(w, job).jobs[i] = w.jobs[i]
           /\ Submit(w, job).reply = w.reply /\ Submit(w, job).inserting = w.inserting
           /\ Submit(w, job).open = w.open
           /\ w.jobs # <<>> => Head(Submit(w, job).jobs) = Head(w.jobs)
           /\ Submit(w, job).jobs # <<>>
<1>1. w.jobs \in Seq(Jobs)
  BY DEF Worker
<1>2. Submit(w, job).jobs = Append(w.jobs, job)
  BY DEF Submit, Worker
<1>3. /\ Submit(w, job).reply = w.reply /\ Submit(w, job).inserting = w.inserting
      /\ Submit(w, job).open = w.open
  BY DEF Submit, Worker
<1> QED BY <1>1, <1>2, <1>3

(* A job less. *)
LEMMA FinishIs ==
    ASSUME NEW w \in Worker, w.jobs # <<>>
    PROVE  /\ Len(w.jobs) \in Nat \ {0} /\ DOMAIN w.jobs = 1..Len(w.jobs) /\ Head(w.jobs) = w.jobs[1]
           /\ DOMAIN Finish(w).jobs = 1..(Len(w.jobs) - 1)
           /\ Len(Finish(w).jobs) = Len(w.jobs) - 1
           /\ \A i \in 1..(Len(w.jobs) - 1) : Finish(w).jobs[i] = w.jobs[i + 1]
           /\ Finish(w).reply = w.reply /\ ~Finish(w).inserting /\ Finish(w).open = w.open
           /\ Len(w.jobs) = 1 => Finish(w).jobs = <<>>
           /\ \A r : /\ Answer(w, r).jobs = Finish(w).jobs /\ ~Answer(w, r).inserting /\ Answer(w, r).open = w.open
                     /\ Answer(w, r).reply = [result |-> r, batch |-> w.jobs[1].arg]
<1>1. w.jobs \in Seq(Jobs)
  BY DEF Worker
<1>2. /\ Finish(w).jobs = Tail(w.jobs) /\ Finish(w).reply = w.reply /\ ~Finish(w).inserting /\ Finish(w).open = w.open
  BY DEF Finish, Worker
<1>3. /\ Len(w.jobs) \in Nat \ {0} /\ DOMAIN w.jobs = 1..Len(w.jobs) /\ Head(w.jobs) = w.jobs[1]
      /\ Tail(w.jobs) \in Seq(Jobs)
      /\ Len(Tail(w.jobs)) = Len(w.jobs) - 1
      /\ \A i \in 1..(Len(w.jobs) - 1) : Tail(w.jobs)[i] = w.jobs[i + 1]
  BY <1>1
<1>4. Len(w.jobs) = 1 => Tail(w.jobs) = <<>>
  <2>1. \A s \in Seq(Jobs) : s # <<>> => Len(s) \in Nat \ {0}
    BY EmptySeq
  <2>2. Len(w.jobs) = 1 => Len(Tail(w.jobs)) = 0
    BY <1>3
  <2>3. Tail(w.jobs) # <<>> => Len(Tail(w.jobs)) # 0
    BY <1>3, <2>1
  <2> QED BY <2>2, <2>3
<1>5. DOMAIN Tail(w.jobs) = 1..(Len(w.jobs) - 1)
  BY <1>3
<1>6. \A r : /\ Answer(w, r).jobs = Finish(w).jobs /\ ~Answer(w, r).inserting /\ Answer(w, r).open = w.open
             /\ Answer(w, r).reply = [result |-> r, batch |-> w.jobs[1].arg]
  BY <1>2, <1>3 DEF Answer, Finish, Worker
<1> QED BY <1>2, <1>3, <1>4, <1>5, <1>6

(* What the thread has to do when a job was submitted. *)
LEMMA Submitted ==
    ASSUME Types, NEW job, worker' = Submit(worker, job)
    PROVE  /\ \A i \in DOMAIN worker'.jobs :
                  \/ i \in DOMAIN worker.jobs /\ worker'.jobs[i] = worker.jobs[i]
                  \/ i = Len(worker'.jobs) /\ worker'.jobs[i] = job
           /\ Len(worker'.jobs) \in DOMAIN worker'.jobs /\ Len(worker'.jobs) \notin DOMAIN worker.jobs
           /\ worker'.reply = worker.reply /\ worker'.inserting = worker.inserting /\ worker'.open = worker.open
           /\ worker'.jobs # <<>>
           /\ worker.jobs # <<>> => Head(worker'.jobs) = Head(worker.jobs)
<1>1. worker \in Worker
  BY DEF Types
<1>2. /\ Len(worker.jobs) \in Nat /\ DOMAIN worker.jobs = 1..Len(worker.jobs)
      /\ DOMAIN worker'.jobs = 1..(Len(worker.jobs) + 1)
      /\ Len(worker'.jobs) = Len(worker.jobs) + 1
      /\ worker'.jobs[Len(worker.jobs) + 1] = job
      /\ \A i \in 1..Len(worker.jobs) : worker'.jobs[i] = worker.jobs[i]
  BY <1>1, SubmitIs
<1>3. /\ worker'.reply = worker.reply /\ worker'.inserting = worker.inserting /\ worker'.open = worker.open
      /\ worker'.jobs # <<>>
      /\ worker.jobs # <<>> => Head(worker'.jobs) = Head(worker.jobs)
  BY <1>1, SubmitIs
<1>4. ASSUME NEW i \in DOMAIN worker'.jobs
      PROVE  \/ i \in DOMAIN worker.jobs /\ worker'.jobs[i] = worker.jobs[i]
             \/ i = Len(worker'.jobs) /\ worker'.jobs[i] = job
  <2>1. i \in 1..Len(worker.jobs) \/ i = Len(worker.jobs) + 1
    BY <1>2
  <2> QED BY <1>2, <2>1
<1>5. Len(worker'.jobs) \in DOMAIN worker'.jobs /\ Len(worker'.jobs) \notin DOMAIN worker.jobs
  BY <1>2
<1> QED BY <1>3, <1>4, <1>5

(* What it has to do when the first job is done. *)
LEMMA Finished ==
    ASSUME Types, worker.jobs # <<>>, worker'.jobs = Finish(worker).jobs
    PROVE  /\ \A i \in DOMAIN worker'.jobs :
                  /\ i \in Nat /\ i + 1 \in DOMAIN worker.jobs /\ i + 1 # 1 /\ worker'.jobs[i] = worker.jobs[i + 1]
                  /\ i + 1 = Len(worker.jobs) => i = Len(worker'.jobs)
           /\ 1 \in DOMAIN worker.jobs /\ Head(worker.jobs) = worker.jobs[1]
<1>1. worker \in Worker
  BY DEF Types
<1>2. /\ Len(worker.jobs) \in Nat \ {0} /\ DOMAIN worker.jobs = 1..Len(worker.jobs)
      /\ DOMAIN worker'.jobs = 1..(Len(worker.jobs) - 1) /\ Len(worker'.jobs) = Len(worker.jobs) - 1
      /\ \A i \in 1..(Len(worker.jobs) - 1) : worker'.jobs[i] = worker.jobs[i + 1]
      /\ Head(worker.jobs) = worker.jobs[1]
  BY <1>1, FinishIs
<1>3. ASSUME NEW i \in DOMAIN worker'.jobs
      PROVE  /\ i \in Nat /\ i + 1 \in DOMAIN worker.jobs /\ i + 1 # 1 /\ worker'.jobs[i] = worker.jobs[i + 1]
             /\ i + 1 = Len(worker.jobs) => i = Len(worker'.jobs)
  BY <1>2
<1>4. 1 \in DOMAIN worker.jobs
  BY <1>2
<1> QED BY <1>2, <1>3, <1>4

(* A job that is neither statistics nor close, before the close. *)
LEMMA CloseJobsSubmit ==
    ASSUME Types, CloseJobs, NEW job, job.kind \notin {"stats", "close"}, worker' = Submit(worker, job),
           tasks'.close = tasks.close, tasks.close \in {"none", "run"}
    PROVE  CloseJobs'
<1>1. \A i \in DOMAIN worker.jobs : worker.jobs[i].kind \notin {"stats", "close"}
  BY DEF CloseJobs
<1>2. \A i \in DOMAIN worker'.jobs : worker'.jobs[i].kind \notin {"stats", "close"}
  BY <1>1, Submitted
<1> QED BY <1>2 DEF CloseJobs

(* A job that is neither is done. *)
LEMMA CloseJobsFinish ==
    ASSUME Types, CloseJobs, worker.jobs # <<>>, worker'.jobs = Finish(worker).jobs, worker'.open = worker.open,
           tasks'.close = tasks.close
    PROVE  CloseJobs'
<1>1. \A i \in DOMAIN worker'.jobs :
          /\ i \in Nat /\ i + 1 \in DOMAIN worker.jobs /\ worker'.jobs[i] = worker.jobs[i + 1]
          /\ i + 1 = Len(worker.jobs) => i = Len(worker'.jobs)
  BY Finished
<1>2. ASSUME NEW i \in DOMAIN worker'.jobs, worker'.jobs[i].kind = "stats"
      PROVE  tasks'.close = "stats" /\ \A j \in DOMAIN worker'.jobs : worker'.jobs[j].kind = "stats" => j = i
  <2>1. tasks'.close = "stats" /\ \A j \in DOMAIN worker'.jobs : worker'.jobs[j].kind = "stats" => j + 1 = i + 1
    BY <1>1, <1>2 DEF CloseJobs
  <2> QED BY <1>1, <2>1
<1>3. ASSUME NEW i \in DOMAIN worker'.jobs, worker'.jobs[i].kind = "close"
      PROVE  tasks'.close = "shut" /\ i = Len(worker'.jobs)
  BY <1>1, <1>3 DEF CloseJobs
<1>4. tasks.close \notin {"done", "failed"}
  BY DEF CloseJobs
<1> QED BY <1>2, <1>3, <1>4 DEF CloseJobs

(* Neither the jobs nor the close move. *)
LEMMA CloseJobsFrame ==
    ASSUME CloseJobs, worker'.jobs = worker.jobs, worker'.open = worker.open, tasks'.close = tasks.close
    PROVE  CloseJobs'
BY DEF CloseJobs

(* Every step. *)
LEMMA CloseJobsStep == ASSUME Types, Phases, CloseJobs, [Next]_vars PROVE CloseJobs'
<1>0. worker \in Worker /\ tasks \in Tasks
  BY DEF Types
<1>1. CASE UNCHANGED vars
  BY <1>1, CloseJobsFrame DEF vars, store
<1>2. CASE Publish \/ TimeChanges \/ Outbox \/ Disconnect \/ StopRuntime \/ CloseReturns \/ Refused
  BY <1>2, CloseJobsFrame DEF Publish, TimeChanges, Outbox, Stored, Ended, Cleared, Row, Disconnect, StopRuntime,
                              CloseReturns, Refused, store
<1>3. ASSUME NEW p \in Points, Activate(p) \/ Result(p) \/ Expire(p) PROVE CloseJobs'
  BY <1>3, CloseJobsFrame DEF Activate, Result, Expire, Emit, store
<1>4. CASE Run
  <2>1. CASE RunAccept \/ RunIdle
    BY <2>1, CloseJobsFrame DEF RunAccept, RunIdle, store
  <2>2. CASE RunDone
    BY <1>0, <2>2, CloseJobsFrame DEF RunDone, store, Tasks
  <2> QED BY <1>4, <2>1, <2>2 DEF Run
<1>5. CASE Persist
  <2>1. CASE PersistWake \/ PersistEnd \/ PrepareBatch
    BY <1>0, <2>1, CloseJobsFrame DEF PersistWake, PersistEnd, PrepareBatch, PersistOnly, store, Tasks
  <2>2. CASE Prepared \/ FlushEnd
    BY <1>0, <2>2, CloseJobsFrame DEF Prepared, FlushEnd, PersistOnly, Asleep, store, Tasks
  <2>3. CASE FlushSubmit
    <3>1. tasks.close \in {"none", "run"}
      BY <1>0, <2>3 DEF FlushSubmit, Phases, Tasks
    <3>2. tasks'.close = tasks.close
      BY <1>0, <2>3 DEF FlushSubmit, Asleep, Tasks
    <3>3. worker' = worker \/ \E k : worker' = Submit(worker, Job("enqueue", k))
      BY <2>3 DEF FlushSubmit
    <3>4. CASE worker' = worker
      BY <3>2, <3>4, CloseJobsFrame
    <3>5. ASSUME NEW k, worker' = Submit(worker, Job("enqueue", k)) PROVE CloseJobs'
      <4>1. Job("enqueue", k).kind \notin {"stats", "close"}
        BY DEF Job
      <4> QED BY <3>1, <3>2, <3>5, <4>1, CloseJobsSubmit
    <3> QED BY <3>3, <3>4, <3>5
  <2>4. CASE FlushResult
    <3>1. worker.reply.result \in Results
      BY <2>4 DEF FlushResult, Types, Worker, NoReply
    <3>2. tasks'.close = tasks.close
      BY <1>0, <2>4, <3>1 DEF FlushResult, Asleep, Tasks, Results
    <3>3. worker'.jobs = worker.jobs /\ worker'.open = worker.open
      BY <1>0, <2>4 DEF FlushResult, Worker
    <3> QED BY <3>2, <3>3, CloseJobsFrame
  <2> QED BY <1>5, <2>1, <2>2, <2>3, <2>4 DEF Persist
<1>6. CASE Thread
  <2>1. worker.jobs # <<>> /\ 1 \in DOMAIN worker.jobs /\ Head(worker.jobs) = worker.jobs[1]
    BY <1>6, FirstJob DEF Thread, EnqueueStage, EnqueueInsert, GateJob, StatsJob, CloseJob, Runs
  <2>2. CASE EnqueueStage
    <3>1. UNCHANGED tasks
      BY <2>2 DEF EnqueueStage
    <3>2. worker' = [worker EXCEPT !.inserting = TRUE] \/ \E r : worker' = Answer(worker, r)
      BY <2>2 DEF EnqueueStage
    <3>3. CASE worker' = [worker EXCEPT !.inserting = TRUE]
      BY <1>0, <3>1, <3>3, CloseJobsFrame DEF Worker
    <3>4. ASSUME NEW r, worker' = Answer(worker, r) PROVE CloseJobs'
      <4>1. worker'.jobs = Finish(worker).jobs /\ worker'.open = worker.open
        BY <1>0, <2>1, <3>4, FinishIs
      <4> QED BY <2>1, <3>1, <4>1, CloseJobsFinish
    <3> QED BY <3>2, <3>3, <3>4
  <2>3. CASE EnqueueInsert
    <3>1. UNCHANGED tasks
      BY <2>3 DEF EnqueueInsert
    <3>2. PICK r : worker' = Answer(worker, r)
      BY <2>3 DEF EnqueueInsert
    <3>3. worker'.jobs = Finish(worker).jobs /\ worker'.open = worker.open
      BY <1>0, <2>1, <3>2, FinishIs
    <3> QED BY <2>1, <3>1, <3>3, CloseJobsFinish
  <2>4. CASE GateJob
    BY <1>0, <2>1, <2>4, FinishIs, CloseJobsFinish DEF GateJob
  <2>5. CASE StatsJob
    <3>1. worker.jobs[1].kind = "stats" /\ tasks.close = "stats"
      BY <2>1, <2>5 DEF StatsJob, Runs, CloseJobs
    <3>3. \A i \in DOMAIN worker'.jobs : worker'.jobs[i].kind \notin {"stats", "close"}
      <4>1. \A i \in DOMAIN worker'.jobs : i + 1 \in DOMAIN worker.jobs /\ worker'.jobs[i] = worker.jobs[i + 1] /\ i + 1 # 1
        BY <2>1, <2>5, Finished DEF StatsJob
      <4> QED BY <2>1, <3>1, <4>1 DEF CloseJobs
    <3>4. tasks'.close \in {"read", "unread"}
      BY <1>0, <2>5 DEF StatsJob, Tasks
    <3> QED BY <3>3, <3>4 DEF CloseJobs
  <2>6. CASE CloseJob
    <3>1. worker.jobs[1].kind = "close" /\ Len(worker.jobs) = 1
      BY <2>1, <2>6 DEF CloseJob, Runs, CloseJobs
    <3>2. Finish(worker).jobs = <<>>
      BY <1>0, <2>1, <3>1, FinishIs
    <3>3. worker'.jobs = <<>> /\ ~worker'.open
      BY <1>0, <2>6, <3>2 DEF CloseJob, Finish, Worker
    <3> QED BY <3>3 DEF CloseJobs
  <2> QED BY <1>6, <2>2, <2>3, <2>4, <2>5, <2>6 DEF Thread
<1>7. CASE Connect
  <2>1. tasks.close = "none" /\ UNCHANGED tasks
    BY <1>7 DEF Connect, Phases
  <2>2. worker' = worker \/ \E arg : worker' = Submit(worker, Job("gate", arg))
    BY <1>7 DEF Connect
  <2>3. \A arg : Job("gate", arg).kind \notin {"stats", "close"}
    BY DEF Job
  <2> QED BY <2>1, <2>2, <2>3, CloseJobsFrame, CloseJobsSubmit
<1>8. CASE Close
  <2>1. tasks.close = "none" /\ tasks'.close = "run" /\ UNCHANGED worker
    BY <1>0, <1>8 DEF Close, Phases, Tasks, store
  <2> QED BY <2>1 DEF CloseJobs
<1>9. CASE Deadline
  BY <1>0, <1>9, CloseJobsFrame DEF Deadline, store, Tasks
<1>10. CASE CleanupAbandon
  <2>1. tasks.close = "run" /\ tasks'.close = IF Full THEN "unread" ELSE "stats"
    BY <1>0, <1>10 DEF CleanupAbandon, Tasks
  <2>2. CASE Full
    BY <1>10, <2>1, <2>2 DEF CleanupAbandon, CloseJobs
  <2>3. CASE ~Full
    <3>1. worker' = Submit(worker, Job("stats", 0)) /\ Job("stats", 0).kind = "stats"
      BY <1>10, <2>3 DEF CleanupAbandon, Job
    <3>2. \A i \in DOMAIN worker.jobs : worker.jobs[i].kind \notin {"stats", "close"}
      BY <2>1 DEF CloseJobs
    <3>3. \A i \in DOMAIN worker'.jobs : worker'.jobs[i].kind # "close" /\ (worker'.jobs[i].kind = "stats" => i = Len(worker'.jobs))
      BY <3>1, <3>2, Submitted
    <3> QED BY <2>1, <2>3, <3>3 DEF CloseJobs
  <2> QED BY <2>2, <2>3
<1>11. CASE CleanupShut
  <2>1. tasks.close \in {"read", "unread"} /\ tasks'.close = "shut"
    BY <1>0, <1>11 DEF CleanupShut, Tasks
  <2>2. PICK arg : worker' = Submit(worker, Job("close", arg)) /\ Job("close", arg).kind = "close"
    BY <1>11 DEF CleanupShut, Job
  <2>3. \A i \in DOMAIN worker.jobs : worker.jobs[i].kind \notin {"stats", "close"}
    BY <2>1 DEF CloseJobs
  <2>4. \A i \in DOMAIN worker'.jobs : worker'.jobs[i].kind # "stats" /\ (worker'.jobs[i].kind = "close" => i = Len(worker'.jobs))
    BY <2>2, <2>3, Submitted
  <2> QED BY <2>1, <2>4 DEF CloseJobs
<1>12. CASE Reload
  BY <1>12 DEF Reload, CloseJobs, NoWorker, NewTasks
<1> QED BY <1>1, <1>2, <1>3, <1>4, <1>5, <1>6, <1>7, <1>8, <1>9, <1>10, <1>11, <1>12 DEF Next, Cleanup

----------------------------------------------------------------------------
(* What the methods of the engine do to the places of an event. *)

(* The places of e and d are the same. *)
SamePlaces(e, d) ==
    /\ d.owned = e.owned /\ d.queue = e.queue /\ d.history = e.history
    /\ d.frozen = e.frozen /\ d.fresh = e.fresh /\ d.watermark = e.watermark

(* d owns event n beside what e owns. *)
Admitted(e, d, n) ==
    /\ d.owned = e.owned \cup {n} /\ d.frozen = e.frozen /\ d.fresh = e.fresh /\ d.watermark = e.watermark
    /\ d.history = IF n <= e.watermark THEN e.history \cup {n} ELSE e.history
    /\ d.queue = IF n <= e.watermark THEN e.queue ELSE e.queue \cup {n}

(* configure moves no event. *)
LEMMA ConfigurePlaces == \A c, g : \A e \in Engine : SamePlaces(e, Configure(e, c, g)[1])
BY DEF Configure, SamePlaces, Engine

(* accept admits the event, or moves none. *)
LEMMA AcceptPlaces ==
    ASSUME NEW e \in Engine, NEW c \in Checkpoint, NEW b, NEW n \in Events, sample \in [Events -> Sample]
    PROVE  LET d == Accept(e, c, b, n)[1]
           IN  SamePlaces(e, d) \/ (n \in b.open /\ Admitted(e, d, n))
<1> DEFINE e1 == SeenEngine(e, c, n)
<1>1. SamePlaces(e, e1)
  BY DEF SeenEngine, SamePlaces, Engine
<1>2. e1 \in Engine
  BY SeenTypes
<1>3. Admitted(e, Admit(e1, n), n)
  <2> HIDE DEF e1
  <2> QED BY <1>1, <1>2 DEF Admit, Admitted, SamePlaces, Engine
<1>4. SamePlaces(e, e)
  BY DEF SamePlaces
<1> QED BY <1>1, <1>3, <1>4 DEF Accept

(* committed lets go of the batch. *)
LEMMA CommitPlaces ==
    ASSUME NEW e \in Engine, NEW c, NEW k
    PROVE  LET d == CommitBatch(e, c, k)[1]
           IN  IF k \notin e.frozen THEN d = e
               ELSE /\ d.owned = e.owned \ made[k] /\ d.frozen = e.frozen \ {k} /\ d.fresh = e.fresh \ {k}
                    /\ d.queue = e.queue /\ d.history = e.history /\ d.watermark = e.watermark
BY DEF CommitBatch, Engine

(* The ingress task. *)
LEMMA RunPlaces ==
    ASSUME Types, Run
    PROVE  /\ UNCHANGED <<boot, made, worker, session, rows>>
           /\ \/ SamePlaces(engine, engine') /\ ingress' \subseteq ingress
              \/ /\ LoopFree
                 /\ \E n \in ingress : n \in books.open /\ Admitted(engine, engine', n) /\ ingress' = ingress \ {n}
<1>1. UNCHANGED <<boot, made, worker, session, rows>>
  BY DEF Run, RunAccept, RunIdle, RunDone, capture, report, store
<1>2. Configured[1] \in Engine /\ Configured[2] \in Checkpoint /\ SamePlaces(engine, Configured[1])
  <2>1. engine \in Engine
    BY DEF Types
  <2>2. SamePlaces(engine, engine)
    BY DEF SamePlaces
  <2> QED BY <2>1, <2>2, ConfiguredTypes, ConfigurePlaces DEF Configured
<1>3. CASE RunAccept
  <2> DEFINE n == Oldest(ingress)
  <2>1. n \in ingress /\ n \in Events
    <3>1. ingress \subseteq Nat /\ ingress # {} /\ ingress \subseteq Events
      BY <1>3 DEF RunAccept, Types, Events
    <3> QED BY <3>1, OldestIs
  <2>2. SamePlaces(Configured[1], engine') \/ (n \in books.open /\ Admitted(Configured[1], engine', n))
    <3>1. sample \in [Events -> Sample]
      BY DEF Types
    <3> QED BY <1>2, <1>3, <2>1, <3>1, AcceptPlaces DEF RunAccept
  <2>3. SamePlaces(engine, engine') \/ (n \in books.open /\ Admitted(engine, engine', n))
    BY <1>2, <2>2 DEF SamePlaces, Admitted
  <2>4. ingress' = ingress \ {n} /\ LoopFree
    BY <1>3 DEF RunAccept
  <2> QED BY <1>1, <2>1, <2>3, <2>4
<1>4. CASE RunIdle
  BY <1>1, <1>2, <1>4 DEF RunIdle
<1>5. CASE RunDone
  BY <1>1, <1>5 DEF RunDone, SamePlaces, report
<1> QED BY <1>3, <1>4, <1>5 DEF Run

----------------------------------------------------------------------------
(* The enqueue that is awaited. *)

(* Neither the jobs nor the groups move. *)
LEMMA EnqueueFrame ==
    ASSUME Groups, EnqueueJobs, worker'.jobs = worker.jobs, worker'.reply = worker.reply,
           worker'.inserting = worker.inserting, tasks'.persist = tasks.persist, tasks'.new = tasks.new,
           tasks'.old = tasks.old, engine'.frozen = engine.frozen
    PROVE  Groups' /\ EnqueueJobs'
<1>1. Groups'
  BY DEF Groups
<1>2. EnqueueJobs'
  BY DEF EnqueueJobs, Awaits
<1> QED BY <1>1, <1>2

(* Another job comes behind. *)
LEMMA EnqueueBehind ==
    ASSUME Types, EnqueueJobs, NEW job, job.kind # "enqueue", worker' = Submit(worker, job),
           tasks'.persist = tasks.persist, tasks'.new = tasks.new,
           tasks'.old = tasks.old, tasks.persist = "await" => engine'.frozen = engine.frozen
    PROVE  EnqueueJobs'
<1>1. /\ \A i \in DOMAIN worker'.jobs : worker'.jobs[i].kind = "enqueue" =>
             i \in DOMAIN worker.jobs /\ worker'.jobs[i] = worker.jobs[i]
      /\ worker'.reply = worker.reply /\ worker'.inserting = worker.inserting
      /\ worker'.jobs # <<>>
      /\ worker.jobs # <<>> => Head(worker'.jobs) = Head(worker.jobs)
  BY Submitted
<1>2. \A k : Awaits(k) => Awaits(k)'
  BY DEF Awaits
<1> QED BY <1>1, <1>2 DEF EnqueueJobs, Awaits

(* A job that is not an enqueue is done. *)
LEMMA EnqueueNext ==
    ASSUME Types, EnqueueJobs, worker.jobs # <<>>, Head(worker.jobs).kind # "enqueue",
           worker'.jobs = Finish(worker).jobs, worker'.reply = worker.reply, ~worker'.inserting,
           tasks'.persist = tasks.persist, tasks'.new = tasks.new, tasks'.old = tasks.old,
           engine'.frozen = engine.frozen
    PROVE  EnqueueJobs'
<1>1. \A i \in DOMAIN worker'.jobs : i \in Nat /\ i + 1 \in DOMAIN worker.jobs /\ worker'.jobs[i] = worker.jobs[i + 1]
  BY Finished
<1>2. \A k : Awaits(k) => Awaits(k)'
  BY DEF Awaits
<1>3. ASSUME NEW i \in DOMAIN worker'.jobs, worker'.jobs[i].kind = "enqueue"
      PROVE  /\ worker.reply = NoReply /\ Awaits(worker'.jobs[i].arg)
             /\ \A j \in DOMAIN worker'.jobs : worker'.jobs[j].kind = "enqueue" => j = i
  <2>1. \A j \in DOMAIN worker'.jobs : worker'.jobs[j].kind = "enqueue" => j + 1 = i + 1
    BY <1>1, <1>3 DEF EnqueueJobs
  <2>2. \A j \in DOMAIN worker'.jobs : worker'.jobs[j].kind = "enqueue" => j = i
    BY <1>1, <2>1
  <2>3. worker.reply = NoReply /\ Awaits(worker'.jobs[i].arg)
    BY <1>1, <1>3 DEF EnqueueJobs
  <2> QED BY <2>2, <2>3
<1>4. worker'.reply # NoReply => Awaits(worker'.reply.batch)
  BY DEF EnqueueJobs
<1> QED BY <1>2, <1>3, <1>4 DEF EnqueueJobs, Awaits

(* The enqueue is answered. *)
LEMMA EnqueueAnswered ==
    ASSUME Types, EnqueueJobs, Runs("enqueue"), NEW r, worker' = Answer(worker, r), UNCHANGED <<tasks, engine>>
    PROVE  /\ EnqueueJobs' /\ worker'.reply = [result |-> r, batch |-> Arg] /\ ~worker'.inserting
           /\ \A i \in DOMAIN worker'.jobs : worker'.jobs[i].kind # "enqueue"
<1>0. worker \in Worker /\ worker.jobs # <<>>
  BY DEF Types, Runs
<1>1. worker'.jobs = Finish(worker).jobs /\ ~worker'.inserting /\ worker'.reply = [result |-> r, batch |-> worker.jobs[1].arg]
  BY <1>0, FinishIs
<1>2. /\ \A i \in DOMAIN worker'.jobs : i + 1 \in DOMAIN worker.jobs /\ i + 1 # 1 /\ worker'.jobs[i] = worker.jobs[i + 1]
      /\ 1 \in DOMAIN worker.jobs /\ Head(worker.jobs) = worker.jobs[1]
  BY <1>0, <1>1, Finished
<1>3. worker.jobs[1].kind = "enqueue" /\ Awaits(worker.jobs[1].arg)
  BY <1>2 DEF Runs, EnqueueJobs
<1>4. \A i \in DOMAIN worker'.jobs : worker'.jobs[i].kind # "enqueue"
  BY <1>2, <1>3 DEF EnqueueJobs
<1>5. tasks'.persist = "await" /\ worker'.reply.batch \in engine'.frozen /\ worker'.reply.batch \notin tasks'.new \cup tasks'.old
  BY <1>1, <1>3 DEF Awaits
<1> QED BY <1>1, <1>2, <1>4, <1>5 DEF EnqueueJobs, Awaits, Arg

(* No enqueue is on its way, and no answer. *)
Quiet == worker.reply = NoReply /\ ~worker.inserting /\ \A i \in DOMAIN worker.jobs : worker.jobs[i].kind # "enqueue"

(* So it is when nobody awaits one. *)
LEMMA NotAwaiting == ASSUME Types, EnqueueJobs, tasks.persist # "await" PROVE Quiet
<1>1. worker.reply = NoReply /\ \A i \in DOMAIN worker.jobs : worker.jobs[i].kind # "enqueue"
  BY DEF EnqueueJobs, Awaits
<1>2. ~worker.inserting
  BY <1>1, FirstJob DEF EnqueueJobs
<1> QED BY <1>1, <1>2 DEF Quiet

(* As long as the thread is given no enqueue it stays so. *)
LEMMA QuietStays ==
    ASSUME Quiet, worker'.jobs = worker.jobs, worker'.reply = worker.reply, worker'.inserting = worker.inserting
    PROVE  EnqueueJobs'
BY DEF Quiet, EnqueueJobs

(* The batch FlushSubmit takes. *)
LEMMA FlushTakes ==
    ASSUME Types, FlushSubmit
    PROVE  Oldest(IF FlushClass = "new" THEN tasks.new ELSE tasks.old) \in tasks.new \cup tasks.old
<1>1. tasks.new \subseteq Nat /\ tasks.old \subseteq Nat
  BY DEF Types, Tasks, BatchIds
<1>2. IF FlushClass = "new" THEN tasks.new # {} ELSE tasks.old # {}
  BY DEF FlushSubmit, FlushClass
<1> QED BY <1>1, <1>2, OldestIs

(* Every step. *)
LEMMA EnqueueStep == ASSUME Types, Places, Groups, EnqueueJobs, [Next]_vars PROVE Groups' /\ EnqueueJobs'
<1>0. worker \in Worker /\ tasks \in Tasks /\ engine \in Engine
  BY DEF Types
<1>1. CASE UNCHANGED vars
  BY <1>1, EnqueueFrame DEF vars, store, report
<1>2. CASE Publish \/ TimeChanges \/ Outbox \/ Disconnect \/ StopRuntime \/ CloseReturns \/ Refused
  BY <1>2, EnqueueFrame DEF Publish, TimeChanges, Outbox, Stored, Ended, Cleared, Row, Disconnect, StopRuntime,
                            CloseReturns, Refused, store, report
<1>3. ASSUME NEW p \in Points, Activate(p) \/ Result(p) \/ Expire(p) PROVE Groups' /\ EnqueueJobs'
  BY <1>3, EnqueueFrame DEF Activate, Result, Expire, Emit, store, report
<1>4. CASE Run
  <2>1. UNCHANGED worker /\ engine'.frozen = engine.frozen
    BY <1>4, RunPlaces DEF SamePlaces, Admitted
  <2>2. tasks'.persist = tasks.persist /\ tasks'.new = tasks.new /\ tasks'.old = tasks.old
    BY <1>0, <1>4 DEF Run, RunAccept, RunIdle, RunDone, Tasks
  <2> QED BY <2>1, <2>2, EnqueueFrame
<1>5. CASE Persist
  <2>1. CASE PersistWake \/ PersistEnd
    <3>1. /\ UNCHANGED <<worker, engine>> /\ tasks'.new = tasks.new /\ tasks'.old = tasks.old
          /\ tasks.persist = "sleep" /\ tasks'.persist \in {"prepare", "done"}
      BY <1>0, <2>1 DEF PersistWake, PersistEnd, PersistOnly, Tasks, report, store
    <3>2. Quiet
      BY <3>1, NotAwaiting
    <3> QED BY <3>1, <3>2, QuietStays DEF Groups
  <2>2. CASE PrepareBatch
    <3>1. UNCHANGED <<worker, tasks>> /\ tasks.persist = "prepare" /\ engine.frozen \subseteq engine'.frozen
      BY <1>0, <2>2 DEF PrepareBatch, Freeze, Engine, store
    <3>2. Quiet
      BY <3>1, NotAwaiting
    <3>3. Groups'
      BY <3>1 DEF Groups
    <3> QED BY <3>1, <3>2, <3>3, QuietStays
  <2>3. CASE Prepared
    <3>1. /\ UNCHANGED <<worker, engine>> /\ tasks'.new = engine.fresh /\ tasks'.old = engine.frozen \ engine.fresh
          /\ tasks.persist = "prepare" /\ tasks'.persist = "flush"
      BY <1>0, <2>3 DEF Prepared, PersistOnly, Tasks, report, store
    <3>2. Quiet
      BY <3>1, NotAwaiting
    <3>3. Groups'
      BY <3>1 DEF Groups, Places
    <3> QED BY <3>1, <3>2, <3>3, QuietStays
  <2>4. CASE FlushEnd
    <3>1. /\ UNCHANGED <<worker, engine>> /\ tasks'.new = {} /\ tasks'.old = {}
          /\ tasks.persist = "flush" /\ tasks'.persist = "sleep"
      BY <1>0, <2>4 DEF FlushEnd, Asleep, PersistOnly, Tasks, report, store
    <3>2. Quiet
      BY <3>1, NotAwaiting
    <3> QED BY <3>1, <3>2, QuietStays DEF Groups
  <2>5. CASE FlushSubmit
    <3> DEFINE k == Oldest(IF FlushClass = "new" THEN tasks.new ELSE tasks.old)
    <3>1. k \in tasks.new \cup tasks.old
      BY <2>5, FlushTakes
    <3>2. tasks.persist = "flush" /\ UNCHANGED engine
      BY <2>5 DEF FlushSubmit, report
    <3>3. Quiet
      BY <3>2, NotAwaiting
    <3>4. CASE Full
      <4>1. UNCHANGED worker /\ tasks'.new = {} /\ tasks'.old = {} /\ tasks'.persist = "sleep"
        BY <1>0, <2>5, <3>4 DEF FlushSubmit, Asleep, Tasks
      <4> QED BY <3>2, <3>3, <4>1, QuietStays DEF Groups
    <3>5. CASE ~Full
      <4>1. /\ tasks'.persist = "await" /\ tasks'.new = tasks.new \ {k} /\ tasks'.old = tasks.old \ {k}
            /\ worker' = Submit(worker, Job("enqueue", k))
        BY <1>0, <2>5, <3>5 DEF FlushSubmit, Tasks
      <4>2. k \in engine'.frozen /\ k \notin tasks'.new \cup tasks'.old
        BY <3>1, <3>2, <4>1 DEF Awaits, Groups
      <4>3. /\ \A i \in DOMAIN worker'.jobs : worker'.jobs[i].kind = "enqueue" =>
                   i = Len(worker'.jobs) /\ worker'.jobs[i] = Job("enqueue", k)
            /\ worker'.reply = NoReply /\ ~worker'.inserting
        BY <3>3, <4>1, Submitted DEF Quiet
      <4>4. Job("enqueue", k).arg = k
        BY DEF Job
      <4>5. EnqueueJobs'
        <5> HIDE DEF k
        <5> QED BY <4>1, <4>2, <4>3, <4>4 DEF EnqueueJobs, Awaits
      <4> QED BY <3>2, <4>1, <4>5 DEF Groups
    <3> QED BY <3>4, <3>5
  <2>6. CASE FlushResult
    <3> DEFINE k == worker.reply.batch
    <3>1. worker.reply # NoReply /\ worker.reply.result \in Results /\ k \in BatchIds
      BY <2>6 DEF FlushResult, Types, Worker, NoReply
    <3>2. Awaits(k) /\ \A i \in DOMAIN worker.jobs : worker.jobs[i].kind # "enqueue"
      BY <3>1 DEF EnqueueJobs
    <3>3. worker'.jobs = worker.jobs /\ worker'.inserting = worker.inserting /\ worker'.reply = NoReply
      BY <1>0, <2>6 DEF FlushResult, Worker
    <3>4. ~worker.inserting
      BY <3>2, FirstJob DEF EnqueueJobs
    <3>5. EnqueueJobs'
      BY <3>2, <3>3, <3>4 DEF EnqueueJobs
    <3>6. engine'.frozen \in {engine.frozen, engine.frozen \ {k}}
      <4> DEFINE d == CommitBatch(engine, check, k)[1]
      <4>1. d \in Engine /\ d.frozen \in {engine.frozen, engine.frozen \ {k}}
        BY <1>0, <3>1, CommitTypes, CommitPlaces DEF Types
      <4>2. engine' = engine \/ \E x : engine' = [d EXCEPT !.preferCommit = x]
        BY <2>6 DEF FlushResult
      <4> HIDE DEF d
      <4> QED BY <4>1, <4>2 DEF Engine
    <3>7. \/ tasks'.new = tasks.new /\ tasks'.old = tasks.old /\ tasks'.persist = "flush"
          \/ tasks'.new = {} /\ tasks'.old = {}
      BY <1>0, <2>6, <3>1 DEF FlushResult, Asleep, Tasks, Results
    <3> QED BY <3>2, <3>5, <3>6, <3>7 DEF Groups, Awaits
  <2> QED BY <1>5, <2>1, <2>2, <2>3, <2>4, <2>5, <2>6 DEF Persist
<1>6. CASE Thread
  <2>0. UNCHANGED engine /\ worker.jobs # <<>>
    BY <1>6 DEF Thread, EnqueueStage, EnqueueInsert, GateJob, StatsJob, CloseJob, Runs, report
  <2>1. tasks'.persist = tasks.persist /\ tasks'.new = tasks.new /\ tasks'.old = tasks.old
    BY <1>0, <1>6 DEF Thread, EnqueueStage, EnqueueInsert, GateJob, StatsJob, CloseJob, Tasks
  <2>2. Groups'
    BY <2>0, <2>1 DEF Groups
  <2>3. CASE EnqueueStage
    <3>1. worker' = [worker EXCEPT !.inserting = TRUE] \/ \E r : worker' = Answer(worker, r)
      BY <2>3 DEF EnqueueStage
    <3>2. CASE worker' = [worker EXCEPT !.inserting = TRUE]
      <4>1. worker'.jobs = worker.jobs /\ worker'.reply = worker.reply
        BY <1>0, <3>2 DEF Worker
      <4>2. worker.jobs # <<>> /\ Head(worker.jobs).kind = "enqueue"
        BY <2>3 DEF EnqueueStage, Runs
      <4> QED BY <2>0, <2>1, <2>2, <4>1, <4>2 DEF EnqueueJobs, Awaits
    <3>3. UNCHANGED tasks /\ Runs("enqueue")
      BY <2>3 DEF EnqueueStage
    <3> QED BY <2>0, <2>2, <3>1, <3>2, <3>3, EnqueueAnswered
  <2>4. CASE EnqueueInsert
    <3>1. \E r : worker' = Answer(worker, r)
      BY <2>4 DEF EnqueueInsert
    <3>2. UNCHANGED tasks /\ Runs("enqueue")
      BY <2>4 DEF EnqueueInsert
    <3> QED BY <2>0, <2>2, <3>1, <3>2, EnqueueAnswered
  <2>5. CASE GateJob \/ StatsJob \/ CloseJob
    <3>1. Head(worker.jobs).kind # "enqueue"
      BY <2>5 DEF GateJob, StatsJob, CloseJob, Runs
    <3>2. worker'.jobs = Finish(worker).jobs /\ worker'.reply = worker.reply /\ ~worker'.inserting
      BY <1>0, <2>0, <2>5 DEF GateJob, StatsJob, CloseJob, Finish, Worker
    <3>3. EnqueueJobs'
      BY <2>0, <2>1, <3>1, <3>2, EnqueueNext
    <3> QED BY <2>2, <3>3
  <2> QED BY <1>6, <2>3, <2>4, <2>5 DEF Thread
<1>7. CASE Connect
  <2>1. UNCHANGED tasks /\ engine'.frozen = engine.frozen
    BY <1>0, <1>7 DEF Connect, OpenGate, Engine
  <2>2. Groups'
    BY <2>1 DEF Groups
  <2>3. CASE worker' = worker
    BY <2>1, <2>3, EnqueueFrame
  <2>4. ASSUME NEW arg, worker' = Submit(worker, Job("gate", arg)) PROVE EnqueueJobs'
    <3>1. Job("gate", arg).kind # "enqueue"
      BY DEF Job
    <3> QED BY <2>1, <2>4, <3>1, EnqueueBehind
  <2> QED BY <1>7, <2>2, <2>3, <2>4 DEF Connect
<1>8. CASE Close
  BY <1>0, <1>8, EnqueueFrame DEF Close, Tasks, store, report
<1>9. CASE Deadline
  BY <1>0, <1>9, EnqueueFrame DEF Deadline, Tasks, store, report
<1>10. CASE CleanupAbandon
  <2>1. tasks.persist = "done" /\ tasks'.persist = "done" /\ tasks'.new = tasks.new /\ tasks'.old = tasks.old
    BY <1>0, <1>10 DEF CleanupAbandon, CleanupReady, Tasks
  <2>2. Quiet
    BY <2>1, NotAwaiting
  <2>3. Groups'
    BY <2>1 DEF Groups
  <2>4. CASE worker' = worker
    BY <2>2, <2>3, <2>4, QuietStays
  <2>5. CASE worker' = Submit(worker, Job("stats", 0))
    <3>1. Job("stats", 0).kind # "enqueue"
      BY DEF Job
    <3> QED BY <2>1, <2>3, <2>5, <3>1, EnqueueBehind
  <2> QED BY <1>10, <2>3, <2>4, <2>5 DEF CleanupAbandon
<1>11. CASE CleanupShut
  <2>1. UNCHANGED engine /\ tasks'.persist = tasks.persist /\ tasks'.new = tasks.new /\ tasks'.old = tasks.old
    BY <1>0, <1>11 DEF CleanupShut, Tasks, report
  <2>2. PICK arg : worker' = Submit(worker, Job("close", arg))
    BY <1>11 DEF CleanupShut
  <2>3. Job("close", arg).kind # "enqueue"
    BY DEF Job
  <2>4. Groups'
    BY <2>1 DEF Groups
  <2> QED BY <2>1, <2>2, <2>3, <2>4, EnqueueBehind
<1>12. CASE Reload
  BY <1>12 DEF Reload, EnqueueJobs, Groups, NoWorker, NewTasks
<1> QED BY <1>1, <1>2, <1>3, <1>4, <1>5, <1>6, <1>7, <1>8, <1>9, <1>10, <1>11, <1>12 DEF Next, Cleanup

----------------------------------------------------------------------------
(* The places, step by step. *)

(* Places depends on nothing else. *)
LEMMA PlacesFrame ==
    ASSUME Places, SamePlaces(engine, engine'), ingress' \subseteq ingress, made' = made,
           boot'.seq = boot.seq, boot'.batch = boot.batch
    PROVE  Places'
<1>1. HeldOnce'
  BY DEF SamePlaces, Places, HeldOnce
<1>2. Batched' = Batched
  BY DEF Batched
<1> QED BY <1>1, <1>2 DEF SamePlaces, Places

(* A new event is in the buffer, or nowhere. *)
LEMMA EmitPlaces ==
    ASSUME Types, Places, NEW p, NEW src, NEW value, NEW slot, NEW publish, Emit(p, src, value, slot, publish)
    PROVE  Places'
<1>1. /\ UNCHANGED <<engine, made>> /\ ingress' \subseteq ingress \cup {boot.seq + 1}
      /\ boot'.seq = boot.seq + 1 /\ boot'.batch = boot.batch /\ boot.seq \in Nat
  BY Bounds DEF Emit, Types, Capturing, Seqs, Numbers
<1>2. Batched' = Batched /\ HeldOnce'
  BY <1>1 DEF Batched, Places, HeldOnce
<1>3. engine.owned \subseteq Nat /\ Batched \subseteq Nat /\ ingress \subseteq Nat /\ engine.watermark \in Nat
  BY DEF Types, Engine, Events, Batched, Seqs
<1>4. ingress' \cap (engine'.owned \cup Batched') = {}
  <2>1. boot.seq + 1 \notin engine.owned \cup Batched
    <3>1. \A n \in engine.owned \cup Batched : n \in Nat /\ n <= boot.seq
      BY <1>3 DEF Places
    <3>2. ~(boot.seq + 1 <= boot.seq)
      BY <1>1
    <3> QED BY <3>1, <3>2
  <2> QED BY <1>1, <1>2, <2>1 DEF Places
<1>5. \A n \in ingress' \cup engine'.owned \cup Batched' : n <= boot'.seq
  BY <1>1, <1>2, <1>3 DEF Places
<1>6. engine'.watermark <= boot'.seq
  BY <1>1, <1>3 DEF Places
<1> QED BY <1>1, <1>2, <1>4, <1>5, <1>6 DEF Places

(* An event of the buffer is admitted. *)
LEMMA AdmitPlaces ==
    ASSUME Types, Places, NEW n \in ingress, Admitted(engine, engine', n), ingress' = ingress \ {n}, made' = made,
           boot' = boot
    PROVE  Places'
<1>1. n \notin engine.owned /\ n \notin Batched /\ n <= boot.seq /\ n \in Nat /\ engine.watermark \in Nat
  BY DEF Places, Types, Events, Engine, Seqs
<1>2. Batched' = Batched
  BY DEF Batched
<1>3. n \notin engine.queue \cup engine.history
  BY <1>1 DEF Places, HeldOnce
<1>4. \A k \in engine.frozen : made[k] \subseteq Batched
  BY DEF Types, Engine, Batched
<1>5. engine'.queue \cup engine'.history = engine.queue \cup engine.history \cup {n}
  BY DEF Admitted
<1>6. engine'.queue \cap engine'.history = {}
  BY <1>3 DEF Admitted, Places, HeldOnce
<1>7. HeldOnce'
  <2>1. engine'.owned = engine'.queue \cup engine'.history \cup UNION {made'[k] : k \in engine'.frozen}
    BY <1>5 DEF Admitted, Places, HeldOnce
  <2>2. \A k \in engine'.frozen :
            /\ made'[k] \cap (engine'.queue \cup engine'.history) = {}
            /\ \A j \in engine'.frozen \ {k} : made'[j] \cap made'[k] = {}
    BY <1>1, <1>4, <1>5 DEF Admitted, Places, HeldOnce
  <2>3. \A m \in engine'.queue \cup UNION {made'[k] : k \in engine'.fresh} : m > engine'.watermark
    BY <1>1 DEF Admitted, Places, HeldOnce
  <2> QED BY <1>6, <2>1, <2>2, <2>3 DEF HeldOnce
<1>8. (engine'.queue \cup engine'.history) \cap Batched' = {}
  BY <1>1, <1>2, <1>5 DEF Places
<1>9. \A m \in engine'.history : m <= engine'.watermark
  BY <1>1 DEF Admitted, Places
<1>10. ingress' \cap (engine'.owned \cup Batched') = {}
  BY <1>2 DEF Admitted, Places
<1>11. \A m \in ingress' \cup engine'.owned \cup Batched' : m <= boot'.seq
  BY <1>1, <1>2 DEF Admitted, Places
<1> QED BY <1>2, <1>7, <1>8, <1>9, <1>10, <1>11 DEF Places, Admitted

(* A batch is packed. *)
LEMMA PreparePlaces == ASSUME Types, Places, PrepareBatch PROVE Places'
<1> DEFINE class == NextClass(engine)
           batch == FirstBatch(ClassQueue(class))
           k == boot.batch + 1
<1>1. k \in BatchIds /\ k <= Cardinality(Batched \cup batch) /\ boot.batch \in Nat
  BY PrepareCounts DEF Types, Capturing, Seqs
<1>2. batch \subseteq ClassQueue(class) /\ batch \subseteq engine.owned /\ batch \subseteq Events /\ batch \cap Batched = {}
  BY PreparedBatchIs DEF PrepareBatch
<1>3. /\ UNCHANGED ingress /\ made' = [made EXCEPT ![k] = batch] /\ engine' = Freeze(engine, class, k, batch)
      /\ boot'.batch = k /\ boot'.seq = boot.seq
  BY DEF PrepareBatch, ClassQueue, Types, Capturing
<1>4. made[k] = {} /\ k \notin engine.frozen
  <2>1. k > boot.batch /\ ~(k <= boot.batch)
    BY <1>1
  <2> HIDE DEF k
  <2>2. made[k] = {}
    BY <1>1, <2>1 DEF Places
  <2>3. \A j \in engine.frozen : j <= boot.batch
    BY DEF Places
  <2> QED BY <2>1, <2>2, <2>3
<1>5. /\ engine'.owned = engine.owned /\ engine'.frozen = engine.frozen \cup {k}
      /\ engine'.fresh = IF class = "new" THEN engine.fresh \cup {k} ELSE engine.fresh
      /\ engine'.watermark = engine.watermark
      /\ engine'.queue = engine.queue \ batch /\ engine'.history = engine.history \ batch
  BY <1>3 DEF Freeze, Types, Engine
<1> HIDE DEF batch, class, k
<1>6. made'[k] = batch /\ \A j \in BatchIds : j # k => made'[j] = made[j]
  BY <1>1, <1>3 DEF Types
<1>7. Batched' = Batched \cup batch
  BY <1>1, <1>4, <1>6 DEF Batched
<1>8. \A j \in BatchIds : made[j] \subseteq Batched
  BY DEF Batched
<1>9. engine.frozen \subseteq BatchIds /\ engine.fresh \subseteq engine.frozen
  BY DEF Types, Engine, Places
<1>10. UNION {made'[j] : j \in engine'.frozen} = batch \cup UNION {made[j] : j \in engine.frozen}
  BY <1>4, <1>5, <1>6, <1>9
<1>11. \A n \in batch : IF class = "new" THEN n > engine.watermark ELSE n <= engine.watermark
  BY <1>2 DEF ClassQueue, Places, HeldOnce
<1>12. HeldOnce'
  <2>1. engine'.owned = engine'.queue \cup engine'.history \cup UNION {made'[j] : j \in engine'.frozen}
    BY <1>2, <1>5, <1>10 DEF Places, HeldOnce
  <2>2. engine'.queue \cap engine'.history = {}
    BY <1>5 DEF Places, HeldOnce
  <2>3. ASSUME NEW j \in engine'.frozen
        PROVE  /\ made'[j] \cap (engine'.queue \cup engine'.history) = {}
               /\ \A i \in engine'.frozen \ {j} : made'[i] \cap made'[j] = {}
    <3>1. CASE j = k
      BY <1>2, <1>5, <1>6, <1>8, <1>9, <3>1
    <3>2. CASE j # k
      BY <1>2, <1>5, <1>6, <1>8, <1>9, <3>2 DEF Places, HeldOnce
    <3> QED BY <3>1, <3>2
  <2>4. \A n \in engine'.queue \cup UNION {made'[j] : j \in engine'.fresh} : n > engine'.watermark
    <3>1. \A j \in engine'.fresh : \A n \in made'[j] : n > engine.watermark
      BY <1>4, <1>5, <1>6, <1>9, <1>11 DEF Places, HeldOnce
    <3> QED BY <1>5, <3>1 DEF Places, HeldOnce
  <2> QED BY <2>1, <2>2, <2>3, <2>4 DEF HeldOnce
<1>13. engine'.fresh \subseteq engine'.frozen
  BY <1>5, <1>9
<1>14. \A j \in engine'.frozen : j <= boot'.batch
  <2>1. \A j \in engine.frozen : j \in Nat /\ j <= boot.batch
    BY <1>9 DEF Places, BatchIds
  <2> QED BY <1>1, <1>3, <1>5, <2>1 DEF k
<1>15. \A j \in BatchIds : j > boot'.batch => made'[j] = {}
  BY <1>1, <1>3, <1>6 DEF Places, k, BatchIds
<1>16. \A i, j \in BatchIds : i # j => made'[i] \cap made'[j] = {}
  BY <1>2, <1>6, <1>8 DEF Places
<1>17. boot'.batch <= Cardinality(Batched')
  BY <1>1, <1>3, <1>7
<1>18. (engine'.queue \cup engine'.history) \cap Batched' = {}
  BY <1>5, <1>7 DEF Places
<1>19. ingress' \cap (engine'.owned \cup Batched') = {}
  BY <1>2, <1>3, <1>5, <1>7 DEF Places
<1>20. \A n \in ingress' \cup engine'.owned \cup Batched' : n <= boot'.seq
  BY <1>2, <1>3, <1>5, <1>7 DEF Places
<1>21. \A j \in BatchIds : \/ \A n \in made'[j] : n > engine'.watermark
                           \/ \A n \in made'[j] : n <= engine'.watermark
  <2>1. CASE class = "new"
    BY <1>5, <1>6, <1>11, <2>1 DEF Places
  <2>2. CASE class # "new"
    BY <1>5, <1>6, <1>11, <2>2 DEF Places
  <2> QED BY <2>1, <2>2
<1> QED BY <1>3, <1>5, <1>12, <1>13, <1>14, <1>15, <1>16, <1>17, <1>18, <1>19, <1>20, <1>21 DEF Places

(* A batch is committed. *)
LEMMA CommittedPlaces ==
    ASSUME Types, Places, NEW k \in engine.frozen,
           engine'.owned = engine.owned \ made[k], engine'.frozen = engine.frozen \ {k},
           engine'.fresh = engine.fresh \ {k}, engine'.queue = engine.queue, engine'.history = engine.history,
           engine'.watermark = engine.watermark, UNCHANGED <<boot, ingress, made>>
    PROVE  Places'
<1>1. Batched' = Batched
  BY DEF Batched
<1>2. engine'.owned = engine'.queue \cup engine'.history \cup UNION {made'[j] : j \in engine'.frozen}
  <2>1. \A j \in engine.frozen \ {k} : made[j] \cap made[k] = {}
    BY DEF Places, HeldOnce
  <2>2. made[k] \cap (engine.queue \cup engine.history) = {}
    BY DEF Places, HeldOnce
  <2>3. engine.owned = engine.queue \cup engine.history \cup UNION {made[j] : j \in engine.frozen}
    BY DEF Places, HeldOnce
  <2> QED BY <2>1, <2>2, <2>3
<1>3. HeldOnce'
  BY <1>2 DEF Places, HeldOnce
<1>4. engine'.fresh \subseteq engine'.frozen
  BY DEF Places
<1> QED BY <1>1, <1>3, <1>4 DEF Places

(* The gate is opened behind everything that was captured. *)
LEMMA GatePlaces ==
    ASSUME Types, Places, engine' = OpenGate(engine, boot.seq), UNCHANGED <<boot, ingress, made>>
    PROVE  Places'
<1>1. /\ engine'.owned = engine.owned /\ engine'.frozen = engine.frozen /\ engine'.fresh = {}
      /\ engine'.queue = {} /\ engine'.history = engine.history \cup engine.queue
      /\ engine'.watermark = boot.seq
  BY DEF OpenGate, Types, Engine
<1>2. Batched' = Batched
  BY DEF Batched
<1>3. HeldOnce'
  BY <1>1 DEF Places, HeldOnce
<1>4. \A n \in engine'.history : n <= engine'.watermark
  BY <1>1 DEF Places, HeldOnce
<1>5. \A k \in BatchIds : \A n \in made'[k] : n <= engine'.watermark
  BY <1>1 DEF Places, Batched
<1>6. boot.seq <= boot.seq
  BY DEF Types, Capturing, Seqs
<1> QED BY <1>1, <1>2, <1>3, <1>4, <1>5, <1>6 DEF Places

(* An engine that owns nothing, and an empty buffer. *)
LEMMA EmptyPlaces ==
    ASSUME Types, Places, engine'.owned = {}, engine'.queue = {}, engine'.history = {}, engine'.frozen = {},
           engine'.fresh = {}, engine'.watermark \in {0, engine.watermark}, ingress' \subseteq ingress, UNCHANGED <<boot, made>>
    PROVE  Places'
<1>1. Batched' = Batched
  BY DEF Batched
<1>2. HeldOnce'
  BY DEF HeldOnce
<1>3. engine'.watermark <= boot'.seq
  BY DEF Places, Types, Capturing, Seqs
<1>4. \A k \in BatchIds : \/ \A n \in made'[k] : n > engine'.watermark
                          \/ \A n \in made'[k] : n <= engine'.watermark
  <2>1. CASE engine'.watermark = 0
    <3>1. \A k \in BatchIds : \A n \in made[k] : n \in Nat /\ n > 0
      BY DEF Types, Events
    <3> QED BY <2>1, <3>1
  <2>2. CASE engine'.watermark = engine.watermark
    BY <2>2 DEF Places
  <2> QED BY <2>1, <2>2
<1> QED BY <1>1, <1>2, <1>3, <1>4 DEF Places

(* Every step. *)
LEMMA PlacesStep == ASSUME Types, Places, [Next]_vars PROVE Places'
<1>0. SamePlaces(engine, engine) /\ engine \in Engine /\ boot \in Capturing
  BY DEF SamePlaces, Types
<1>1. CASE UNCHANGED vars
  BY <1>0, <1>1, PlacesFrame DEF vars, capture, report
<1>2. CASE Publish \/ TimeChanges
  <2>1. boot'.seq = boot.seq /\ boot'.batch = boot.batch /\ UNCHANGED report
    BY <1>0, <1>2 DEF Publish, TimeChanges, Capturing
  <2> QED BY <1>0, <2>1, PlacesFrame DEF report
<1>3. ASSUME NEW p \in Points, Activate(p) \/ Result(p) \/ Expire(p) PROVE Places'
  BY <1>3, EmitPlaces DEF Activate, Result, Expire
<1>4. CASE Run
  <2>1. UNCHANGED <<boot, made>>
    BY <1>4, RunPlaces
  <2>2. CASE SamePlaces(engine, engine') /\ ingress' \subseteq ingress
    BY <2>1, <2>2, PlacesFrame
  <2>3. ASSUME NEW n \in ingress, Admitted(engine, engine', n), ingress' = ingress \ {n} PROVE Places'
    BY <2>1, <2>3, AdmitPlaces
  <2> QED BY <1>4, <2>2, <2>3, RunPlaces
<1>5. CASE Persist
  <2>1. CASE PersistWake \/ PersistEnd \/ Prepared \/ FlushSubmit \/ FlushEnd
    <3>1. UNCHANGED <<boot, report>>
      BY <2>1 DEF PersistWake, PersistEnd, Prepared, FlushSubmit, FlushEnd, PersistOnly, capture
    <3> QED BY <1>0, <3>1, PlacesFrame DEF report
  <2>2. CASE FlushResult
    <3> DEFINE k == worker.reply.batch
               d == CommitBatch(engine, check, k)[1]
    <3>1. k \in BatchIds /\ UNCHANGED <<boot, ingress, made>>
      BY <2>2 DEF FlushResult, Types, Worker, NoReply, capture
    <3>2. d \in Engine
      BY <3>1, CommitTypes DEF Types
    <3>3. IF k \notin engine.frozen THEN d = engine
          ELSE /\ d.owned = engine.owned \ made[k] /\ d.frozen = engine.frozen \ {k} /\ d.fresh = engine.fresh \ {k}
               /\ d.queue = engine.queue /\ d.history = engine.history /\ d.watermark = engine.watermark
      BY <1>0, CommitPlaces
    <3>4. engine' = engine \/ \E x : engine' = [d EXCEPT !.preferCommit = x]
      BY <2>2 DEF FlushResult
    <3>5. engine' = engine \/ SamePlaces(d, engine')
      <4> HIDE DEF d
      <4> QED BY <3>2, <3>4 DEF Engine, SamePlaces
    <3>6. CASE SamePlaces(engine, engine')
      BY <3>1, <3>6, PlacesFrame
    <3>7. CASE k \in engine.frozen /\ SamePlaces(d, engine')
      <4> HIDE DEF d
      <4> QED BY <3>1, <3>3, <3>7, CommittedPlaces DEF SamePlaces
    <3> QED BY <1>0, <3>3, <3>5, <3>6, <3>7 DEF SamePlaces
  <2> QED BY <1>5, <2>1, <2>2, PreparePlaces DEF Persist
<1>6. CASE Thread \/ Outbox \/ Disconnect \/ StopRuntime \/ Close \/ Deadline \/ CloseReturns \/ CleanupShut \/ Refused
  <2>1. UNCHANGED <<boot, report>>
    BY <1>6 DEF Thread, EnqueueStage, EnqueueInsert, GateJob, StatsJob, CloseJob, Outbox, Stored, Ended, Cleared, Row,
                Disconnect, StopRuntime, Close, Deadline, CloseReturns, CleanupShut, Refused, capture
  <2> QED BY <1>0, <2>1, PlacesFrame DEF report
<1>7. CASE Connect
  BY <1>7, GatePlaces DEF Connect, capture
<1>8. CASE CleanupAbandon
  <2>1. /\ engine'.owned = {} /\ engine'.queue = {} /\ engine'.history = {} /\ engine'.frozen = {}
        /\ engine'.fresh = {} /\ engine'.watermark = engine.watermark
    BY <1>0, <1>8 DEF CleanupAbandon, Abandon, Engine
  <2> QED BY <1>8, <2>1, EmptyPlaces DEF CleanupAbandon, capture
<1>9. CASE Reload
  <2>1. SamePlaces(NoEngine, engine')
    <3>1. NoEngine \in Engine
      BY FreshTypes
    <3>2. \A c, g : SamePlaces(NoEngine, Configure(NoEngine, c, g)[1])
      BY <3>1, ConfigurePlaces
    <3>3. SamePlaces(NoEngine, NoEngine)
      BY DEF SamePlaces
    <3> QED BY <1>9, <3>2, <3>3 DEF Reload
  <2>2. /\ engine'.owned = {} /\ engine'.queue = {} /\ engine'.history = {} /\ engine'.frozen = {}
        /\ engine'.fresh = {} /\ engine'.watermark = 0
    BY <2>1 DEF SamePlaces, NoEngine
  <2> QED BY <1>9, <2>2, EmptyPlaces DEF Reload
<1> QED BY <1>1, <1>2, <1>3, <1>4, <1>5, <1>6, <1>7, <1>8, <1>9 DEF Next, Cleanup

----------------------------------------------------------------------------
(* Decisions. *)

(* What the buffer holds is open, is newer than what the engine has seen,  *)
(* and is not more than the buffer takes.                                  *)
Decisions ==
    /\ DecidedOnce
    /\ Cardinality(ingress) <= IngressCap
    /\ \A n \in ingress : sample[n].point \in Points /\ \A p \in Points : check.seen[p] < n
    /\ \A p \in Points : check.seen[p] <= boot.seq

(* The books b and c agree on the decisions. *)
SameDecisions(b, c) ==
    /\ c.open = b.open /\ c.unknown = b.unknown /\ c.captured = b.captured
    /\ c.filtered = b.filtered /\ c.eligible = b.eligible /\ c.undecided = b.undecided

(* The first state. *)
LEMMA DecisionsInit == Init => Decisions
<1> SUFFICES ASSUME Init PROVE Decisions
  OBVIOUS
<1>1. Cardinality({}) = 0 /\ 0 <= IngressCap
  BY FS_EmptySet, Bounds DEF Numbers
<1>2. \A p \in Points : check.seen[p] = 0
  BY DEF Init, FreshCheck, NoPoints
<1>3. DecidedOnce
  BY <1>1 DEF Init, DecidedOnce, NoBooks
<1> QED BY <1>1, <1>2, <1>3 DEF Init, Decisions

(* Nothing is captured or decided. *)
LEMMA DecisionsFrame ==
    ASSUME Types, Decisions, Types', ingress' = ingress, sample' = sample, boot'.seq = boot.seq,
           SameDecisions(books, books'), \A p \in Points : check'.seen[p] \in {0, check.seen[p]}
    PROVE  Decisions'
<1>1. \A n \in ingress : n \in Nat /\ n > 0
  BY DEF Types, Events
<1>2. DecidedOnce'
  BY DEF DecidedOnce, Decisions, SameDecisions
<1>3. \A n \in ingress', p \in Points : check'.seen[p] < n
  BY <1>1 DEF Decisions
<1>4. \A p \in Points : check'.seen[p] <= boot'.seq
  BY DEF Decisions, Types, Capturing, Seqs
<1> QED BY <1>2, <1>3, <1>4 DEF Decisions

(* One decision: the event is not open any more, and is counted once. *)
OneDecision(b, c, n) ==
    /\ c.open = b.open \ {n} /\ c.unknown = b.unknown /\ c.captured = b.captured
    /\ c.filtered + c.eligible + c.undecided = b.filtered + b.eligible + b.undecided + 1

(* Every verdict about an open event is one. *)
LEMMA DecidedIs ==
    ASSUME NEW b \in Books, NEW n \in b.open
    PROVE  /\ OneDecision(b, Undecided(b, n), n)
           /\ \A how \in {"filtered", "unsent", "admitted"} : OneDecision(b, Decided(b, n, how), n)
<1>0. b.filtered \in Nat /\ b.eligible \in Nat /\ b.undecided \in Nat
  BY DEF Books
<1>1. OneDecision(b, Undecided(b, n), n)
  BY <1>0 DEF OneDecision, Undecided, Books
<1> DEFINE closed == [b EXCEPT !.open = @ \ {n}]
<1>2. closed \in Books /\ closed = [b EXCEPT !.open = b.open \ {n}]
  BY DEF Books
<1>3. /\ closed.open = b.open \ {n} /\ closed.unknown = b.unknown /\ closed.captured = b.captured
      /\ closed.filtered = b.filtered /\ closed.eligible = b.eligible /\ closed.undecided = b.undecided
  BY DEF Books
<1>4. /\ Decided(b, n, "filtered") = [closed EXCEPT !.filtered = @ + 1]
      /\ Decided(b, n, "unsent") = [closed EXCEPT !.eligible = @ + 1, !.settled = @ + 1]
      /\ Decided(b, n, "admitted") = [closed EXCEPT !.eligible = @ + 1, !.pending = @ + 1]
  BY DEF Decided
<1> HIDE DEF closed
<1>5. OneDecision(b, [closed EXCEPT !.filtered = @ + 1], n)
  BY <1>0, <1>2, <1>3 DEF OneDecision, Books
<1>6. OneDecision(b, [closed EXCEPT !.eligible = @ + 1, !.settled = @ + 1], n)
  BY <1>0, <1>2, <1>3 DEF OneDecision, Books
<1>7. OneDecision(b, [closed EXCEPT !.eligible = @ + 1, !.pending = @ + 1], n)
  BY <1>0, <1>2, <1>3 DEF OneDecision, Books
<1> QED BY <1>1, <1>4, <1>5, <1>6, <1>7

(* accept decides an open event that is newer than what was seen. *)
LEMMA AcceptDecides ==
    ASSUME NEW e \in Engine, NEW c \in Checkpoint, NEW b \in Books, NEW n \in Events, n \in b.open,
           sample \in [Events -> Sample], sample[n].point \in Points, c.seen[sample[n].point] < n
    PROVE  /\ OneDecision(b, Accept(e, c, b, n)[3], n)
           /\ \A p \in Points : Accept(e, c, b, n)[2].seen[p] \in {n, c.seen[p]}
<1> DEFINE p == sample[n].point
           c1 == SeenCheck(c, n)
<1>1. ~(n <= c.seen[p])
  BY DEF Checkpoint, Seqs, Events
<1>2. \A q \in Points : c1.seen[q] \in {n, c.seen[q]}
  BY DEF SeenCheck, Checkpoint
<1>3. /\ OneDecision(b, Undecided(b, n), n) /\ OneDecision(b, Decided(b, n, "filtered"), n)
      /\ OneDecision(b, Decided(b, n, "unsent"), n) /\ OneDecision(b, Decided(b, n, "admitted"), n)
  BY DecidedIs
<1>4. OneDecision(b, Accept(e, c, b, n)[3], n)
  BY <1>1, <1>3 DEF Accept
<1>5. Accept(e, c, b, n)[2] \in {c, c1}
  BY DEF Accept
<1> HIDE DEF c1
<1> QED BY <1>2, <1>4, <1>5

(* configure forgets what was seen, or keeps it. *)
LEMMA ConfiguredSeen == ASSUME Types PROVE \A p \in Points : Configured[2].seen[p] \in {0, check.seen[p]}
BY DEF Configured, Configure, FreshCheck, NoPoints

(* The ingress task decides the oldest event. *)
LEMMA RunDecides == ASSUME Types, Types', Places, Decisions, Run PROVE Decisions'
<1>1. CASE RunAccept
  <2> DEFINE n == Oldest(ingress)
             c == Configured[2]
  <2>0. ingress \subseteq Nat /\ ingress # {} /\ ingress \subseteq Events
    BY <1>1 DEF RunAccept, Types, Events
  <2>1. n \in ingress /\ n \in Events /\ \A m \in ingress : n <= m
    BY <2>0, OldestIs
  <2>2. /\ books' = Accept(Configured[1], c, books, n)[3] /\ check' = Accept(Configured[1], c, books, n)[2]
        /\ ingress' = ingress \ {n} /\ UNCHANGED capture
    BY <1>1 DEF RunAccept
  <2>3. Configured[1] \in Engine /\ c \in Checkpoint /\ books \in Books /\ sample \in [Events -> Sample]
    BY ConfiguredTypes DEF Types
  <2>4. \A p \in Points : c.seen[p] \in {0, check.seen[p]} /\ check.seen[p] < n /\ n \in Nat /\ n > 0
    BY <2>1, ConfiguredSeen DEF Decisions, Events
  <2>5. sample[n].point \in Points /\ c.seen[sample[n].point] < n /\ n \in books.open
    BY <2>1, <2>4 DEF Decisions, DecidedOnce
  <2>6. OneDecision(books, books', n) /\ \A p \in Points : check'.seen[p] \in {n, c.seen[p]}
    <3> HIDE DEF c, n
    <3> QED BY <2>1, <2>2, <2>3, <2>5, AcceptDecides
  <2>7. Cardinality(ingress') = Cardinality(ingress) - 1 /\ Cardinality(ingress) \in Nat
    <3>1. IsFiniteSet(ingress) /\ Cardinality(ingress) \in Nat
      BY <2>0, EventsFinite
    <3> QED BY <2>1, <2>2, <3>1, FS_RemoveElement
  <2> HIDE DEF n, c
  <2>8. DecidedOnce'
    <3>1. /\ books'.open = books.open \ {n} /\ books'.unknown = books.unknown /\ books'.captured = books.captured
          /\ books'.filtered + books'.eligible + books'.undecided = books.filtered + books.eligible + books.undecided + 1
      BY <2>6 DEF OneDecision
    <3>2. /\ books.filtered \in Nat /\ books.eligible \in Nat /\ books.undecided \in Nat /\ books.captured \in Nat
          /\ books'.filtered \in Nat /\ books'.eligible \in Nat /\ books'.undecided \in Nat
      BY DEF Types, Books
    <3>3. books.open = ingress /\ ~books.unknown
          /\ books.captured = books.filtered + books.eligible + books.undecided + Cardinality(ingress)
      BY DEF Decisions, DecidedOnce
    <3>4. books'.open = ingress'
      BY <2>2, <3>1, <3>3
    <3>5. books'.captured = books'.filtered + books'.eligible + books'.undecided + Cardinality(ingress')
      BY <2>7, <3>1, <3>2, <3>3
    <3> QED BY <3>1, <3>3, <3>4, <3>5 DEF DecidedOnce
  <2>9. Cardinality(ingress') <= IngressCap
    BY <2>7, Bounds DEF Decisions, Numbers
  <2>10. \A m \in ingress' : sample'[m].point \in Points /\ \A p \in Points : check'.seen[p] < m
    <3> SUFFICES ASSUME NEW m \in ingress' PROVE sample'[m].point \in Points /\ \A p \in Points : check'.seen[p] < m
      OBVIOUS
    <3>1. m \in ingress /\ m # n /\ n <= m /\ m \in Nat /\ n \in Nat /\ n < m
      BY <2>0, <2>1, <2>2
    <3>2. \A p \in Points : check'.seen[p] \in {n, 0, check.seen[p]} /\ check.seen[p] < m
      BY <2>4, <2>6, <3>1 DEF Decisions
    <3>3. \A p \in Points : check'.seen[p] < m
      BY <3>1, <3>2
    <3>4. sample'[m].point \in Points
      BY <2>2, <3>1 DEF Decisions, capture
    <3> QED BY <3>3, <3>4
  <2>11. \A p \in Points : check'.seen[p] <= boot'.seq
    <3>1. boot' = boot /\ boot.seq \in Nat /\ n <= boot.seq
      BY <2>1, <2>2 DEF capture, Types, Capturing, Seqs, Places
    <3>2. \A p \in Points : check'.seen[p] \in {n, 0, check.seen[p]} /\ check.seen[p] <= boot.seq
      BY <2>4, <2>6 DEF Decisions
    <3> QED BY <3>1, <3>2
  <2> QED BY <2>8, <2>9, <2>10, <2>11 DEF Decisions
<1>2. CASE RunIdle \/ RunDone
  <2>1. ingress' = ingress /\ sample' = sample /\ boot' = boot /\ books' = books
        /\ \A p \in Points : check'.seen[p] \in {0, check.seen[p]}
    BY <1>2, ConfiguredSeen DEF RunIdle, RunDone, capture, report
  <2> QED BY <2>1, DecisionsFrame DEF SameDecisions
<1> QED BY <1>1, <1>2 DEF Run

(* A captured event is open if the buffer takes it, and is undecided if not. *)
LEMMA EmitDecides ==
    ASSUME Types, Types', Places, Decisions, NEW p \in Points, NEW src, NEW value, NEW slot, NEW publish,
           Emit(p, src, value, slot, publish)
    PROVE  Decisions'
<1> DEFINE n == boot.seq + 1
           more == [books EXCEPT !.captured = @ + 1]
           open == [more EXCEPT !.open = @ \cup {n}]
<1>0. /\ books \in Books /\ boot.seq \in Nat /\ boot'.seq = n /\ n \in Nat
      /\ ingress \subseteq Nat /\ ingress \subseteq Events /\ UNCHANGED check
  BY DEF Types, Capturing, Seqs, Emit, Events
<1>1. Cardinality(ingress) \in Nat /\ IsFiniteSet(ingress)
  BY <1>0, EventsFinite
<1>2. n \notin ingress
  <2>1. \A m \in ingress : m <= boot.seq
    BY DEF Places
  <2>2. ~(n <= boot.seq)
    BY <1>0
  <2> QED BY <2>1, <2>2
<1>3. books.open = ingress /\ ~books.unknown
      /\ books.captured = books.filtered + books.eligible + books.undecided + Cardinality(ingress)
  BY DEF Decisions, DecidedOnce
<1>4. Captured(books, n) = {open}
  <2>1. Cardinality(books.open) < DecisionMax
    BY <1>1, <1>3, Bounds DEF Decisions, Numbers
  <2> QED BY <2>1 DEF Captured
<1>5. /\ open.open = ingress \cup {n} /\ ~open.unknown /\ open.captured = books.captured + 1
      /\ open.filtered = books.filtered /\ open.eligible = books.eligible /\ open.undecided = books.undecided
  BY <1>0, <1>3 DEF Books
<1>6. open \in Books
  <2>1. books.captured + 1 \in Nat /\ books.open \cup {n} \in SUBSET Events
    <3>1. n \in Events
      BY <1>0 DEF Types, Capturing, Seqs, Events
    <3> QED BY <1>0, <3>1 DEF Books
  <2> QED BY <1>0, <2>1 DEF Books
<1>7. /\ books.filtered \in Nat /\ books.eligible \in Nat /\ books.undecided \in Nat /\ books.captured \in Nat
  BY <1>0 DEF Books
<1>8. sample'[n].point = p /\ \A m \in ingress : sample'[m] = sample[m]
  <2>1. n \in Events
    BY <1>0 DEF Types, Capturing, Seqs, Events
  <2>2. sample' = [sample EXCEPT ![n] = Capture(p, src, value, slot)]
    BY DEF Emit
  <2> QED BY <1>0, <1>2, <2>1, <2>2 DEF Types, Capture
<1>9. \A q \in Points : check'.seen[q] <= boot.seq /\ check'.seen[q] < n /\ check'.seen[q] <= n
  BY <1>0 DEF Decisions, Types, Checkpoint, Seqs
<1> HIDE DEF open
<1>10. CASE publish /\ PutFits
  <2>1. books' = open /\ ingress' = ingress \cup {n}
    BY <1>4, <1>10 DEF Emit
  <2>2. Cardinality(ingress') = Cardinality(ingress) + 1
    BY <1>1, <1>2, <2>1, FS_AddElement
  <2>3. DecidedOnce'
    <3>1. books'.open = ingress' /\ ~books'.unknown
      BY <1>5, <2>1
    <3>2. books'.captured = books'.filtered + books'.eligible + books'.undecided + Cardinality(ingress')
      BY <1>1, <1>3, <1>5, <1>7, <2>1, <2>2
    <3> QED BY <3>1, <3>2 DEF DecidedOnce
  <2>4. Cardinality(ingress') <= IngressCap
    BY <1>1, <1>10, <2>2, Bounds DEF PutFits, Numbers
  <2>5. \A m \in ingress' : sample'[m].point \in Points /\ \A q \in Points : check'.seen[q] < m
    BY <1>0, <1>8, <1>9, <2>1 DEF Decisions
  <2> QED BY <1>0, <1>9, <2>3, <2>4, <2>5 DEF Decisions
<1>11. CASE ~(publish /\ PutFits)
  <2>1. books' = Undecided(open, n) /\ ingress' = ingress
    BY <1>4, <1>11 DEF Emit
  <2>2. OneDecision(open, books', n)
    BY <1>5, <1>6, <2>1, DecidedIs
  <2>3. /\ books'.open = ingress /\ ~books'.unknown /\ books'.captured = books.captured + 1
        /\ books'.filtered + books'.eligible + books'.undecided = books.filtered + books.eligible + books.undecided + 1
    BY <1>2, <1>5, <2>2 DEF OneDecision
  <2>4. /\ books'.filtered \in Nat /\ books'.eligible \in Nat /\ books'.undecided \in Nat
    BY DEF Types, Books
  <2>5. books'.captured = books'.filtered + books'.eligible + books'.undecided + Cardinality(ingress)
    BY <1>1, <1>3, <1>7, <2>3, <2>4
  <2>6. DecidedOnce'
    BY <2>1, <2>3, <2>5 DEF DecidedOnce
  <2>7. \A m \in ingress' : sample'[m].point \in Points /\ \A q \in Points : check'.seen[q] < m
    BY <1>0, <1>8, <2>1 DEF Decisions
  <2> QED BY <1>0, <1>9, <2>1, <2>6, <2>7 DEF Decisions
<1> QED BY <1>10, <1>11

(* What the books say of batches and rows does not touch the decisions. *)
LEMMA BatchDecisions ==
    ASSUME NEW b \in Books
    PROVE  /\ SameDecisions(b, b)
           /\ \A k : /\ SameDecisions(b, Materialized(b, k)) /\ SameDecisions(b, Committed(b, k))
                     /\ SameDecisions(b, Terminal(b, k)) /\ \A dead : SameDecisions(b, Removed(b, k, dead))
           /\ \A lost, batches : SameDecisions(b, Abandoned(b, lost, batches))
BY DEF SameDecisions, Materialized, Committed, Terminal, Removed, Abandoned, Books

(* Every step. *)
LEMMA DecisionsStep == ASSUME Types, Types', Places, Phases, Decisions, [Next]_vars PROVE Decisions'
<1>0. books \in Books /\ SameDecisions(books, books) /\ boot \in Capturing /\ check \in Checkpoint
  BY BatchDecisions DEF Types
<1>1. CASE UNCHANGED vars
  BY <1>0, <1>1, DecisionsFrame DEF vars, capture, report
<1>2. CASE Publish \/ TimeChanges
  <2>1. boot'.seq = boot.seq /\ UNCHANGED <<sample, report, books>>
    BY <1>0, <1>2 DEF Publish, TimeChanges, Capturing
  <2> QED BY <1>0, <2>1, DecisionsFrame DEF report
<1>3. ASSUME NEW p \in Points, Activate(p) \/ Result(p) \/ Expire(p) PROVE Decisions'
  BY <1>3, EmitDecides DEF Activate, Result, Expire
<1>4. CASE Run
  BY <1>4, RunDecides
<1>5. CASE Persist
  <2>1. CASE PersistWake \/ PersistEnd \/ Prepared \/ FlushSubmit \/ FlushEnd
    <3>1. UNCHANGED <<capture, report, books>>
      BY <2>1 DEF PersistWake, PersistEnd, Prepared, FlushSubmit, FlushEnd, PersistOnly
    <3> QED BY <1>0, <3>1, DecisionsFrame DEF capture, report
  <2>2. CASE PrepareBatch
    <3>1. boot'.seq = boot.seq /\ UNCHANGED <<sample, ingress, check>> /\ \E k : books' = Materialized(books, k)
      BY <1>0, <2>2 DEF PrepareBatch, Capturing
    <3>2. SameDecisions(books, books')
      BY <1>0, <3>1, BatchDecisions
    <3> QED BY <3>1, <3>2, DecisionsFrame
  <2>3. CASE FlushResult
    <3>1. UNCHANGED <<capture, ingress, books>>
      BY <2>3 DEF FlushResult
    <3>2. check'.seen = check.seen
      <4>1. \A k : CommitBatch(engine, check, k)[2].seen = check.seen
        BY <1>0 DEF CommitBatch, Checkpoint
      <4> QED BY <2>3, <4>1 DEF FlushResult
    <3> QED BY <1>0, <3>1, <3>2, DecisionsFrame DEF capture
  <2> QED BY <1>5, <2>1, <2>2, <2>3 DEF Persist
<1>6. CASE Thread \/ Outbox
  <2>1. UNCHANGED <<capture, report>>
    BY <1>6 DEF Thread, EnqueueStage, EnqueueInsert, GateJob, StatsJob, CloseJob, Outbox, Stored, Ended, Cleared, Row
  <2>2. SameDecisions(books, books')
    BY <1>0, <1>6, BatchDecisions
    DEF Thread, EnqueueStage, EnqueueInsert, GateJob, StatsJob, CloseJob, Outbox, Stored, Ended, Cleared
  <2> QED BY <2>1, <2>2, DecisionsFrame DEF capture, report
<1>7. CASE Connect \/ Disconnect \/ StopRuntime \/ Close \/ Deadline \/ CloseReturns \/ CleanupShut \/ Refused
  <2>1. UNCHANGED <<boot, sample, ingress, check, books>>
    BY <1>7 DEF Connect, Disconnect, StopRuntime, Close, Deadline, CloseReturns, CleanupShut, Refused, capture, report
  <2> QED BY <1>0, <2>1, DecisionsFrame
<1>8. CASE CleanupAbandon
  <2>1. UNCHANGED <<capture, ingress, check>> /\ \E lost, batches : books' = Abandoned(books, lost, batches)
    BY <1>8 DEF CleanupAbandon
  <2>2. SameDecisions(books, books')
    BY <1>0, <2>1, BatchDecisions
  <2> QED BY <2>1, <2>2, DecisionsFrame DEF capture
<1>9. CASE Reload
  <2>1. ingress = {}
    BY <1>9 DEF Reload, MayStart, Phases
  <2>2. UNCHANGED <<boot, sample, books>> /\ ingress' = {}
    BY <1>9 DEF Reload
  <2>3. \A p \in Points : check'.seen[p] \in {0, check.seen[p]}
    BY <1>9 DEF Reload, Configure, FreshCheck, NoPoints
  <2> QED BY <1>0, <2>1, <2>2, <2>3, DecisionsFrame
<1> QED BY <1>1, <1>2, <1>3, <1>4, <1>5, <1>6, <1>7, <1>8, <1>9 DEF Next, Cleanup

----------------------------------------------------------------------------
(* Losses. *)

(* A frozen batch has a row only if the answer that says so is on its way, *)
(* an entry is staged while it is inserted, and what was given up is       *)
(* neither owned nor in the buffer.  All of it as long as no start was     *)
(* refused while a cleanup was running.                                    *)
Losses ==
    /\ \A k \in BatchIds : rows[k] # "none" => k <= boot.batch
    /\ ~sup.refused =>
        /\ books.ramLost \cap Durable = {}
        /\ \A n \in books.ramLost : n <= boot.seq /\ n \notin ingress \cup engine.owned
        /\ \A k \in engine.frozen : rows[k] # "none" => worker.reply = [result |-> "true", batch |-> k]
        /\ worker.inserting => Arg \in session.staged

(* The first state. *)
LEMMA LossesInit == Init => Losses
BY DEF Init, Losses, Durable, NoBooks, NoEngine, NoWorker

(* The refusal of a start is the end of the process. *)
LEMMA RefusedForGood == ASSUME Types, Phases, [Next]_vars, ~sup'.refused PROVE ~sup.refused
<1>1. CASE UNCHANGED sup
  BY <1>1
<1>2. CASE Refused \/ Reload
  BY <1>2 DEF Refused, Reload, Phases
<1>3. CASE StopRuntime \/ Close \/ CloseReturns
  BY <1>3 DEF StopRuntime, Close, CloseReturns, Phases
<1> QED
  BY <1>1, <1>2, <1>3
  DEF Next, Publish, TimeChanges, Activate, Result, Expire, Emit, Run, RunAccept, RunIdle, RunDone, Persist,
      PersistWake, PersistEnd, PrepareBatch, Prepared, PersistOnly, FlushSubmit, FlushEnd, FlushResult,
      Thread, EnqueueStage, EnqueueInsert, GateJob, StatsJob, CloseJob, Outbox, Stored, Ended, Cleared, Row,
      Connect, Disconnect, Deadline, Cleanup, CleanupAbandon, CleanupShut, vars

(* What the jobs say does not matter but for the one that is inserted. *)
LEMMA LossesFrame ==
    ASSUME Losses, ~sup'.refused => ~sup.refused, rows' = rows, boot' = boot, made' = made,
           books'.ramLost = books.ramLost, ingress' \subseteq ingress, engine'.owned = engine.owned,
           engine'.frozen = engine.frozen, worker'.reply = worker.reply,
           worker'.inserting => worker.inserting /\ Arg' = Arg /\ session'.staged = session.staged
    PROVE  Losses'
<1>1. Durable' = Durable
  BY DEF Durable
<1> QED BY <1>1 DEF Losses

(* The job the thread works on stays the first one when another is submitted. *)
LEMMA SubmitKeepsArg ==
    ASSUME Types, EnqueueJobs, NEW job, worker' = Submit(worker, job)
    PROVE  worker'.reply = worker.reply /\ (worker'.inserting => worker.inserting /\ Arg' = Arg)
BY Submitted DEF EnqueueJobs, Arg

(* No answer is not the answer to a batch. *)
LEMMA NoReplyIs == \A k : NoReply # [result |-> "true", batch |-> k]
<1>1. NoReply.result = "none" /\ \A k : [result |-> "true", batch |-> k].result = "true"
  BY DEF NoReply
<1> QED BY <1>1

(* A row of a batch that is frozen is written. *)
LEMMA InsertLosses == ASSUME Types, Places, EnqueueJobs, Losses, EnqueueInsert PROVE Losses'
<1>0. /\ UNCHANGED <<boot, made, ingress, engine, sup>> /\ worker \in Worker /\ worker.jobs # <<>>
      /\ worker.reply = NoReply /\ Arg \in engine.frozen /\ Arg \in BatchIds /\ worker.inserting
  <2>1. worker.jobs # <<>> /\ Head(worker.jobs).kind = "enqueue" /\ worker.inserting
    BY DEF EnqueueInsert, Runs
  <2>2. 1 \in DOMAIN worker.jobs /\ Head(worker.jobs) = worker.jobs[1]
    BY <2>1, FirstJob
  <2>3. worker.reply = NoReply /\ Arg \in engine.frozen
    BY <2>1, <2>2 DEF EnqueueJobs, Awaits, Arg
  <2> QED BY <2>1, <2>3 DEF EnqueueInsert, capture, report, Types, Engine
<1>1. ~sup.refused => \A k \in engine.frozen : rows[k] = "none"
  BY <1>0, NoReplyIs DEF Losses
<1>2. \E r : worker' = Answer(worker, r)
  BY DEF EnqueueInsert
<1>3. ~worker'.inserting
  BY <1>0, <1>2, FinishIs
<1>4. CASE rows' = rows /\ books' = books
  <2>1. Durable' = Durable
    BY <1>0, <1>4 DEF Durable
  <2> QED BY <1>0, <1>1, <1>3, <1>4, <2>1 DEF Losses
<1>5. CASE rows' = [rows EXCEPT ![Arg] = "pending"]
  <2>1. \A k \in BatchIds : k # Arg => rows'[k] = rows[k]
    BY <1>5 DEF Types
  <2>2. Arg <= boot.batch
    BY <1>0 DEF Places
  <2>3. Durable' \subseteq Durable \cup made[Arg]
    BY <1>0, <2>1 DEF Durable
  <2>4. made[Arg] \subseteq engine.owned
    BY <1>0 DEF Places, HeldOnce
  <2>5. books'.ramLost = books.ramLost
    BY <1>5 DEF EnqueueInsert, Committed, Types, Books
  <2>6. ~sup.refused => worker'.reply = [result |-> "true", batch |-> Arg]
    <3>1. ~sup.refused => Arg \in session.staged
      BY <1>0 DEF Losses
    <3>2. Arg \in session.staged => worker' = Answer(worker, "true") \/ rows' = rows
      BY DEF EnqueueInsert
    <3>3. rows' # rows \/ sup.refused
      BY <1>0, <1>1, <1>5 DEF Types
    <3>4. Arg = worker.jobs[1].arg
      BY <1>0, FinishIs DEF Arg
    <3> QED BY <1>0, <3>1, <3>2, <3>3, <3>4, FinishIs
  <2>7. \A k \in BatchIds : rows'[k] # "none" => k <= boot'.batch
    BY <1>0, <2>1, <2>2 DEF Losses
  <2>8. ASSUME ~sup'.refused
        PROVE  /\ books'.ramLost \cap Durable' = {}
               /\ \A n \in books'.ramLost : n <= boot'.seq /\ n \notin ingress' \cup engine'.owned
               /\ \A k \in engine'.frozen : rows'[k] # "none" => worker'.reply = [result |-> "true", batch |-> k]
    <3>0. ~sup.refused
      BY <1>0, <2>8
    <3>1. books'.ramLost \cap Durable' = {}
      BY <2>3, <2>4, <2>5, <3>0 DEF Losses
    <3>2. \A k \in engine'.frozen : rows'[k] # "none" => k = Arg
      BY <1>0, <1>1, <2>1, <3>0 DEF Types, Engine
    <3> QED BY <1>0, <2>5, <2>6, <3>0, <3>1, <3>2 DEF Losses
  <2> QED BY <1>3, <2>7, <2>8 DEF Losses
<1> QED BY <1>4, <1>5 DEF EnqueueInsert

(* The steps of the loop and of the thread that concern a loss. *)
LEMMA LossesStep == ASSUME Types, Places, Phases, EnqueueJobs, CloseJobs, Losses, [Next]_vars PROVE Losses'
<1>0. /\ worker \in Worker /\ tasks \in Tasks /\ engine \in Engine /\ session \in Session /\ books \in Books
      /\ boot \in Capturing
  BY DEF Types
<1>a. ~sup'.refused => ~sup.refused
  BY RefusedForGood
<1>1. CASE UNCHANGED vars
  BY <1>1, <1>a, LossesFrame DEF vars, capture, report, store, Arg
<1>2. CASE Publish \/ TimeChanges
  <2>1. boot'.seq = boot.seq /\ boot'.batch = boot.batch /\ UNCHANGED <<sup, rows, made, books, ingress, engine, worker, session>>
    BY <1>0, <1>2 DEF Publish, TimeChanges, Capturing, report, store
  <2>2. Durable' = Durable /\ Arg' = Arg
    BY <2>1 DEF Durable, Arg
  <2> QED BY <2>1, <2>2 DEF Losses
<1>3. ASSUME NEW p \in Points, Activate(p) \/ Result(p) \/ Expire(p) PROVE Losses'
  <2>1. /\ UNCHANGED <<sup, rows, made, engine, worker, session>> /\ boot'.batch = boot.batch
        /\ boot'.seq = boot.seq + 1 /\ boot.seq \in Nat /\ ingress' \subseteq ingress \cup {boot.seq + 1}
    <3>1. \E src, value, slot, publish : Emit(p, src, value, slot, publish)
      BY <1>3 DEF Activate, Result, Expire
    <3> QED BY <1>0, <3>1 DEF Emit, store, Capturing, Seqs
  <2>2. books'.ramLost = books.ramLost
    <3>1. \E n : \E b \in Captured(books, n) : books' = b \/ books' = Undecided(b, n)
      BY <1>3 DEF Activate, Result, Expire, Emit
    <3>2. \A n : \A b \in Captured(books, n) : b.ramLost = books.ramLost /\ Undecided(b, n).ramLost = books.ramLost
      <4> SUFFICES ASSUME NEW n, NEW b \in Captured(books, n)
                   PROVE  b.ramLost = books.ramLost /\ Undecided(b, n).ramLost = books.ramLost
        OBVIOUS
      <4>1. \/ b = [[books EXCEPT !.captured = @ + 1] EXCEPT !.open = @ \cup {n}]
            \/ b = [[books EXCEPT !.captured = @ + 1] EXCEPT !.unknown = TRUE]
            \/ b = [[[books EXCEPT !.captured = @ + 1] EXCEPT !.unknown = TRUE] EXCEPT !.open = {}]
        BY DEF Captured
      <4> QED BY <1>0, <4>1 DEF Undecided, Books
    <3> QED BY <3>1, <3>2
  <2>3. Durable' = Durable /\ Arg' = Arg
    BY <2>1 DEF Durable, Arg
  <2>4. \A n \in books.ramLost : n \in Nat
    BY <1>0 DEF Books, Events
  <2>5. ~sup.refused => \A n \in books'.ramLost : n <= boot'.seq /\ n \notin ingress' \cup engine'.owned
    <3> SUFFICES ASSUME ~sup.refused, NEW n \in books.ramLost
                 PROVE  n <= boot'.seq /\ n \notin ingress' \cup engine'.owned
      BY <2>2
    <3>1. n <= boot.seq /\ n \notin ingress \cup engine.owned /\ n \in Nat
      BY <2>4 DEF Losses
    <3>2. n <= boot.seq + 1 /\ n # boot.seq + 1
      BY <2>1, <3>1
    <3> QED BY <2>1, <3>1, <3>2
  <2> QED BY <2>1, <2>2, <2>3, <2>5 DEF Losses
<1>4. CASE Run
  <2>1. UNCHANGED <<boot, made, worker, session, rows>> /\ sup' = sup
    BY <1>4, RunPlaces DEF Run, RunAccept, RunIdle, RunDone
  <2>2. books'.ramLost = books.ramLost
    <3>1. books' = books \/ \E e, c, n : books' = Accept(e, c, books, n)[3]
      BY <1>4 DEF Run, RunAccept, RunIdle, RunDone
    <3>2. \A e, c, n : Accept(e, c, books, n)[3]
                           \in {books, Undecided(books, n), Decided(books, n, "filtered"),
                                Decided(books, n, "unsent"), Decided(books, n, "admitted")}
      BY DEF Accept
    <3>3. \A n : Undecided(books, n).ramLost = books.ramLost /\ Decided(books, n, "filtered").ramLost = books.ramLost
      BY <1>0 DEF Undecided, Decided, Books
    <3>4. \A n : Decided(books, n, "unsent").ramLost = books.ramLost /\ Decided(books, n, "admitted").ramLost = books.ramLost
      BY <1>0 DEF Decided, Books
    <3> QED BY <3>1, <3>2, <3>3, <3>4
  <2>3. Durable' = Durable /\ Arg' = Arg
    BY <2>1 DEF Durable, Arg
  <2>4. CASE SamePlaces(engine, engine') /\ ingress' \subseteq ingress
    BY <2>1, <2>2, <2>3, <2>4 DEF Losses, SamePlaces
  <2>5. ASSUME NEW n \in ingress, Admitted(engine, engine', n), ingress' = ingress \ {n} PROVE Losses'
    BY <2>1, <2>2, <2>3, <2>5 DEF Losses, Admitted
  <2> QED BY <1>4, <2>4, <2>5, RunPlaces
<1>5. CASE Persist
  <2>1. CASE PersistWake \/ PersistEnd \/ Prepared \/ FlushEnd
    <3>1. UNCHANGED <<capture, report, books, store, sup>>
      BY <2>1 DEF PersistWake, PersistEnd, Prepared, FlushEnd, PersistOnly
    <3> QED BY <3>1, LossesFrame DEF capture, report, store, Arg
  <2>2. CASE PrepareBatch
    <3> DEFINE k == boot.batch + 1
    <3>1. /\ UNCHANGED <<sup, rows, ingress, worker, session>> /\ boot'.batch = k /\ boot'.seq = boot.seq
          /\ engine'.owned = engine.owned /\ engine'.frozen = engine.frozen \cup {k}
          /\ books'.ramLost = books.ramLost /\ boot.batch \in Nat
      BY <1>0, <2>2 DEF PrepareBatch, Freeze, Materialized, store, Capturing, Engine, Books, Seqs
    <3>2. k \in BatchIds /\ rows[k] = "none"
      <4>1. k \in BatchIds /\ ~(k <= boot.batch)
        BY <2>2, <3>1, PrepareCounts
      <4> QED BY <4>1 DEF Losses
    <3>3. \A j \in BatchIds : j # k => made'[j] = made[j]
      BY <2>2 DEF PrepareBatch, Types
    <3>4. Durable' = Durable
      BY <3>1, <3>2, <3>3 DEF Durable
    <3>5. \A j \in BatchIds : rows'[j] # "none" => j <= boot'.batch
      BY <3>1 DEF Losses, BatchIds
    <3>6. Arg' = Arg
      BY <3>1 DEF Arg
    <3> QED BY <3>1, <3>2, <3>4, <3>5, <3>6 DEF Losses
  <2>3. CASE FlushSubmit
    <3>1. UNCHANGED <<capture, report, books, rows, session, sup>>
      BY <2>3 DEF FlushSubmit
    <3>2. worker' = worker \/ \E job : worker' = Submit(worker, job)
      BY <2>3 DEF FlushSubmit
    <3>3. worker'.reply = worker.reply /\ (worker'.inserting => worker.inserting /\ Arg' = Arg)
      BY <3>2, SubmitKeepsArg DEF Arg
    <3> QED BY <3>1, <3>3, LossesFrame DEF capture, report
  <2>4. CASE FlushResult
    <3> DEFINE k == worker.reply.batch
               d == CommitBatch(engine, check, k)[1]
    <3>1. /\ UNCHANGED <<boot, ingress, made, books, rows, session, sup>> /\ k \in BatchIds
          /\ worker'.reply = NoReply /\ worker'.inserting = worker.inserting /\ worker'.jobs = worker.jobs
          /\ worker.reply # NoReply
      BY <1>0, <2>4 DEF FlushResult, Worker, NoReply, capture
    <3>2. Durable' = Durable /\ Arg' = Arg
      BY <3>1 DEF Durable, Arg
    <3>3. IF k \notin engine.frozen THEN d = engine
          ELSE d.owned = engine.owned \ made[k] /\ d.frozen = engine.frozen \ {k}
      BY <1>0, CommitPlaces
    <3>4. k \in engine.frozen
      BY <3>1 DEF EnqueueJobs, Awaits
    <3>5. d \in Engine
      BY <1>0, <3>1, CommitTypes DEF Types
    <3>6. CASE worker.reply.result = "true"
      <4>1. engine' = [d EXCEPT !.preferCommit = tasks.class # "new"]
        BY <2>4, <3>6 DEF FlushResult
      <4>2. engine'.owned = engine.owned \ made[k] /\ engine'.frozen = engine.frozen \ {k}
        <5> HIDE DEF d
        <5> QED BY <3>3, <3>4, <3>5, <4>1 DEF Engine
      <4>3. \A j : worker.reply = [result |-> "true", batch |-> j] => j = k
        OBVIOUS
      <4> HIDE DEF k
      <4> QED BY <3>1, <3>2, <4>2, <4>3 DEF Losses
    <3>7. CASE worker.reply.result # "true"
      <4>1. engine' = engine
        BY <2>4, <3>7 DEF FlushResult
      <4>2. \A j : worker.reply # [result |-> "true", batch |-> j]
        BY <3>7
      <4> HIDE DEF k
      <4> QED BY <3>1, <3>2, <4>1, <4>2 DEF Losses
    <3> QED BY <3>6, <3>7
  <2> QED BY <1>5, <2>1, <2>2, <2>3, <2>4 DEF Persist
<1>6. CASE Thread
  <2>0. worker.jobs # <<>> /\ 1 \in DOMAIN worker.jobs /\ Head(worker.jobs) = worker.jobs[1]
    BY <1>6, FirstJob DEF Thread, EnqueueStage, EnqueueInsert, GateJob, StatsJob, CloseJob, Runs
  <2>1. CASE EnqueueStage
    <3>1. UNCHANGED <<boot, made, ingress, engine, sup, rows, books>>
      BY <2>1 DEF EnqueueStage, capture, report
    <3>2. worker.reply = NoReply /\ Arg \in engine.frozen
      BY <2>0, <2>1 DEF EnqueueStage, Runs, EnqueueJobs, Awaits, Arg
    <3>3. Durable' = Durable
      BY <3>1 DEF Durable
    <3>4. CASE \E r : worker' = Answer(worker, r)
      <4>1. ~worker'.inserting
        BY <1>0, <2>0, <3>4, FinishIs
      <4> QED BY <3>1, <3>2, <3>3, <4>1, NoReplyIs DEF Losses
    <3>5. CASE worker' = [worker EXCEPT !.inserting = TRUE] /\ Arg \in session'.staged
      <4>1. worker'.reply = worker.reply /\ Arg' = Arg
        BY <1>0, <3>5 DEF Worker, Arg
      <4> QED BY <3>1, <3>3, <3>5, <4>1 DEF Losses
    <3> QED BY <1>0, <2>1, <3>4, <3>5 DEF EnqueueStage, Session
  <2>2. CASE EnqueueInsert
    BY <2>2, InsertLosses
  <2>3. CASE GateJob \/ StatsJob \/ CloseJob
    <3>1. UNCHANGED <<boot, made, ingress, engine, sup, rows, books>>
      BY <2>3 DEF GateJob, StatsJob, CloseJob, capture, report
    <3>2. worker'.reply = worker.reply /\ ~worker'.inserting
      BY <1>0, <2>3 DEF GateJob, StatsJob, CloseJob, Finish, Worker
    <3> QED BY <3>1, <3>2, LossesFrame
  <2> QED BY <1>6, <2>1, <2>2, <2>3 DEF Thread
<1>7. CASE Outbox
  <2>1. PICK k \in BatchIds, from \in {"pending", "dead"}, to \in {"pending", "dead", "gone"} :
            Row(k, from, to) /\ from # "none" /\ books'.ramLost = books.ramLost
    BY <1>0, <1>7 DEF Outbox, Stored, Ended, Cleared, Removed, Terminal, Books
  <2>2. UNCHANGED <<boot, made, ingress, engine, sup, worker>> /\ ~worker.inserting
    BY <2>1 DEF Row, capture, report
  <2>3. \A j \in BatchIds : rows'[j] = "none" <=> rows[j] = "none"
    BY <2>1 DEF Row, Types
  <2>4. Durable' = Durable
    BY <2>2, <2>3 DEF Durable
  <2>5. engine.frozen \subseteq BatchIds
    BY <1>0 DEF Engine
  <2> QED BY <2>1, <2>2, <2>3, <2>4, <2>5 DEF Losses
<1>8. CASE Connect
  <2>1. UNCHANGED <<boot, made, ingress, sup, rows, books, session>>
    BY <1>8 DEF Connect, capture
  <2>2. engine'.owned = engine.owned /\ engine'.frozen = engine.frozen
    BY <1>0, <1>8 DEF Connect, OpenGate, Engine
  <2>3. worker' = worker \/ \E job : worker' = Submit(worker, job)
    BY <1>8 DEF Connect
  <2>4. worker'.reply = worker.reply /\ (worker'.inserting => worker.inserting /\ Arg' = Arg)
    BY <2>3, SubmitKeepsArg DEF Arg
  <2> QED BY <2>1, <2>2, <2>4, LossesFrame
<1>9. CASE Disconnect \/ StopRuntime \/ Close \/ Deadline \/ CloseReturns
  <2>1. UNCHANGED <<boot, report, books, store>>
    BY <1>9 DEF Disconnect, StopRuntime, Close, Deadline, CloseReturns, capture
  <2> QED BY <1>a, <2>1, LossesFrame DEF report, store, Arg
<1>10. CASE CleanupAbandon
  <2>1. /\ UNCHANGED <<boot, made, ingress, rows, sup>> /\ engine'.owned = {} /\ engine'.frozen = {}
        /\ books'.ramLost = books.ramLost \cup engine.owned
        /\ tasks.persist = "done"
    BY <1>0, <1>10 DEF CleanupAbandon, CleanupReady, Abandoned, Abandon, Engine, Books, capture
  <2>2. Quiet
    BY <2>1, NotAwaiting
  <2>3. Durable' = Durable
    BY <2>1 DEF Durable
  <2>4. ~sup.refused => engine.owned \cap Durable = {}
    <3> SUFFICES ASSUME ~sup.refused, NEW n \in engine.owned, NEW k \in BatchIds, rows[k] # "none", n \in made[k]
                 PROVE  FALSE
      BY DEF Durable
    <3>1. n \in Batched
      BY DEF Batched
    <3>2. PICK j \in engine.frozen : n \in made[j]
      BY <3>1 DEF Places, HeldOnce
    <3>3. j = k
      BY <1>0, <3>2 DEF Places, Engine
    <3>4. worker.reply = [result |-> "true", batch |-> k]
      BY <3>2, <3>3 DEF Losses
    <3> QED BY <2>2, <3>4, NoReplyIs DEF Quiet
  <2>5. \A n \in engine.owned : n <= boot.seq /\ n \notin ingress
    BY DEF Places
  <2>6. ~worker'.inserting
    <3>1. worker' = worker \/ worker' = Submit(worker, Job("stats", 0))
      BY <1>10 DEF CleanupAbandon
    <3> QED BY <2>2, <3>1, SubmitKeepsArg DEF Quiet
  <2> QED BY <2>1, <2>3, <2>4, <2>5, <2>6 DEF Losses
<1>11. CASE CleanupShut
  <2>1. UNCHANGED <<boot, report, books, rows, session, sup>>
    BY <1>11 DEF CleanupShut, capture
  <2>2. \E job : worker' = Submit(worker, job)
    BY <1>11 DEF CleanupShut
  <2>3. worker'.reply = worker.reply /\ (worker'.inserting => worker.inserting /\ Arg' = Arg)
    BY <2>2, SubmitKeepsArg
  <2> QED BY <2>1, <2>3, LossesFrame DEF report
<1>12. CASE Reload
  <2>1. UNCHANGED <<boot, made, rows, books>> /\ ingress' = {} /\ worker' = NoWorker
    BY <1>12 DEF Reload
  <2>2. engine'.owned = {} /\ engine'.frozen = {}
    <3>1. NoEngine \in Engine
      BY FreshTypes
    <3>2. \A c, g : SamePlaces(NoEngine, Configure(NoEngine, c, g)[1])
      BY <3>1, ConfigurePlaces
    <3> QED BY <1>12, <3>2 DEF Reload, SamePlaces, NoEngine
  <2>3. Durable' = Durable
    BY <2>1 DEF Durable
  <2> QED BY <1>a, <2>1, <2>2, <2>3 DEF Losses, NoWorker
<1>13. CASE Refused
  <2>1. UNCHANGED <<boot, report, books, rows, worker>>
    BY <1>13 DEF Refused, capture
  <2>2. ~sup'.refused => ~worker.inserting
    <3>1. ~sup'.refused => tasks.close = "failed"
      BY <1>13 DEF Refused, Types
    <3> QED BY <3>1 DEF CloseJobs, EnqueueJobs
  <2>3. Durable' = Durable
    BY <2>1 DEF Durable, report
  <2> QED BY <1>a, <2>1, <2>2, <2>3 DEF Losses, report
<1> QED BY <1>1, <1>2, <1>3, <1>4, <1>5, <1>6, <1>7, <1>8, <1>9, <1>10, <1>11, <1>12, <1>13 DEF Next, Cleanup

----------------------------------------------------------------------------
(* Gates. *)

(* The gates that are queued are those of connections in their order; the  *)
(* one of this connection has the watermark of the engine, and none is     *)
(* left when the connection sends.  What the session has as new reaches    *)
(* beyond its own watermark.                                               *)
GateJobs ==
    \A i \in DOMAIN worker.jobs : worker.jobs[i].kind = "gate" =>
        /\ worker.jobs[i].arg.id <= conn.id
        /\ worker.jobs[i].arg.id = conn.id => worker.jobs[i].arg.watermark = engine.watermark
        /\ \A j \in DOMAIN worker.jobs :
               worker.jobs[j].kind = "gate" /\ i < j => worker.jobs[i].arg.id < worker.jobs[j].arg.id
        /\ conn.state # "sending"

Gates ==
    /\ GateJobs
    /\ conn.state = "sending" => session.watermark = engine.watermark
    /\ \A k \in session.new : k <= boot.batch /\ Newest(made[k]) > session.watermark

(* The first state. *)
LEMMA GatesInit == Init => Gates
BY DEF Init, Gates, GateJobs, NoWorker

(* Jobs of a thread that has none added have the numbers of the gates. *)
LEMMA GateArg ==
    ASSUME Types, NEW i \in DOMAIN worker.jobs, worker.jobs[i].kind = "gate"
    PROVE  worker.jobs[i].arg.id \in Nat /\ worker.jobs[i].arg.watermark \in Seqs
<1>1. worker.jobs[i] \in Jobs
  BY DEF Types, Worker
<1> QED BY <1>1 DEF Jobs

(* No gate is added. *)
LEMMA GateJobsKept ==
    ASSUME Types, GateJobs, conn'.id = conn.id, conn'.state = "sending" => conn.state = "sending",
           engine'.watermark = engine.watermark,
           \/ worker'.jobs = worker.jobs
           \/ worker.jobs # <<>> /\ worker'.jobs = Finish(worker).jobs
           \/ \E job : worker' = Submit(worker, job) /\ job.kind # "gate"
    PROVE  GateJobs'
<1>1. CASE worker'.jobs = worker.jobs
  BY <1>1 DEF GateJobs
<1>2. CASE worker.jobs # <<>> /\ worker'.jobs = Finish(worker).jobs
  <2>1. \A i \in DOMAIN worker'.jobs : i \in Nat /\ i + 1 \in DOMAIN worker.jobs /\ worker'.jobs[i] = worker.jobs[i + 1]
    BY <1>2, Finished
  <2> SUFFICES ASSUME NEW i \in DOMAIN worker'.jobs, worker'.jobs[i].kind = "gate"
               PROVE  /\ worker'.jobs[i].arg.id <= conn'.id
                      /\ worker'.jobs[i].arg.id = conn'.id => worker'.jobs[i].arg.watermark = engine'.watermark
                      /\ \A j \in DOMAIN worker'.jobs :
                             worker'.jobs[j].kind = "gate" /\ i < j => worker'.jobs[i].arg.id < worker'.jobs[j].arg.id
                      /\ conn'.state # "sending"
    BY DEF GateJobs
  <2>2. i + 1 \in DOMAIN worker.jobs /\ worker.jobs[i + 1].kind = "gate" /\ worker'.jobs[i] = worker.jobs[i + 1] /\ i \in Nat
    BY <2>1
  <2>3. ASSUME NEW j \in DOMAIN worker'.jobs, worker'.jobs[j].kind = "gate", i < j
        PROVE  worker'.jobs[i].arg.id < worker'.jobs[j].arg.id
    <3>1. j + 1 \in DOMAIN worker.jobs /\ worker'.jobs[j] = worker.jobs[j + 1] /\ j \in Nat
      BY <2>1
    <3>2. i + 1 < j + 1
      BY <2>2, <2>3, <3>1
    <3> QED BY <2>2, <2>3, <3>1, <3>2 DEF GateJobs
  <2> QED BY <2>2, <2>3 DEF GateJobs
<1>3. ASSUME NEW job, worker' = Submit(worker, job), job.kind # "gate" PROVE GateJobs'
  <2>1. \A i \in DOMAIN worker'.jobs : worker'.jobs[i].kind = "gate" =>
            i \in DOMAIN worker.jobs /\ worker'.jobs[i] = worker.jobs[i]
    BY <1>3, Submitted
  <2> QED BY <2>1 DEF GateJobs
<1> QED BY <1>1, <1>2, <1>3

(* The gates are not touched. *)
LEMMA GatesFrame ==
    ASSUME Gates, GateJobs', conn'.state = "sending" => conn.state = "sending", engine'.watermark = engine.watermark,
           session'.watermark = session.watermark, session'.new \subseteq session.new, UNCHANGED <<boot, made>>
    PROVE  Gates'
BY DEF Gates

(* A connection asks for its gate. *)
LEMMA ConnectGates == ASSUME Types, Gates, Connect PROVE Gates'
<1> DEFINE gate == Job("gate", [watermark |-> boot.seq, id |-> conn.id + 1])
<1>1. /\ UNCHANGED <<boot, made, session>> /\ conn.state = "down" /\ conn.id \in Nat
      /\ conn'.id = conn.id + 1 /\ conn'.state # "sending" /\ engine'.watermark = boot.seq
  BY DEF Connect, OpenGate, Types, Engine, capture
<1>2. \A i \in DOMAIN worker.jobs : worker.jobs[i].kind = "gate" =>
          worker.jobs[i].arg.id \in Nat /\ worker.jobs[i].arg.id <= conn.id
  BY GateArg DEF Gates, GateJobs
<1>3. GateJobs'
  <2>1. CASE worker' = worker
    BY <1>1, <1>2, <2>1 DEF Gates, GateJobs
  <2>2. CASE worker' = Submit(worker, gate)
    <3> SUFFICES ASSUME NEW i \in DOMAIN worker'.jobs, worker'.jobs[i].kind = "gate"
                 PROVE  /\ worker'.jobs[i].arg.id <= conn'.id
                        /\ worker'.jobs[i].arg.id = conn'.id => worker'.jobs[i].arg.watermark = engine'.watermark
                        /\ \A j \in DOMAIN worker'.jobs :
                               worker'.jobs[j].kind = "gate" /\ i < j => worker'.jobs[i].arg.id < worker'.jobs[j].arg.id
                        /\ conn'.state # "sending"
      BY DEF GateJobs
    <3>0. gate.arg.id = conn.id + 1 /\ gate.arg.watermark = boot.seq
      BY DEF Job
    <3> HIDE DEF gate
    <3>1. \A m \in DOMAIN worker'.jobs : \/ m \in DOMAIN worker.jobs /\ worker'.jobs[m] = worker.jobs[m]
                                         \/ m = Len(worker'.jobs) /\ worker'.jobs[m] = gate
      BY <2>2, Submitted
    <3>2. DOMAIN worker'.jobs = 1..Len(worker'.jobs) /\ Len(worker'.jobs) \in Nat
      <4>1. worker \in Worker
        BY DEF Types
      <4> QED BY <2>2, <4>1, SubmitIs
    <3>3. CASE i \in DOMAIN worker.jobs /\ worker'.jobs[i] = worker.jobs[i]
      <4>1. worker.jobs[i].arg.id \in Nat /\ worker.jobs[i].arg.id < conn.id + 1
        BY <1>1, <1>2, <3>3
      <4>2. ASSUME NEW j \in DOMAIN worker'.jobs, worker'.jobs[j].kind = "gate", i < j
            PROVE  worker'.jobs[i].arg.id < worker'.jobs[j].arg.id
        BY <3>0, <3>1, <3>3, <4>1, <4>2 DEF Gates, GateJobs
      <4> QED BY <1>1, <3>3, <4>1, <4>2
    <3>4. CASE i = Len(worker'.jobs) /\ worker'.jobs[i] = gate
      <4>1. \A j \in DOMAIN worker'.jobs : ~(i < j)
        BY <3>2, <3>4
      <4> QED BY <1>1, <3>0, <3>4, <4>1
    <3> QED BY <3>1, <3>3, <3>4
  <2> QED BY <2>1, <2>2 DEF Connect
<1> QED BY <1>1, <1>3 DEF Gates

(* The thread opens a gate. *)
LEMMA GateJobGates == ASSUME Types, Gates, GateJob PROVE Gates'
<1>1. worker.jobs # <<>> /\ worker.jobs[1].kind = "gate" /\ 1 \in DOMAIN worker.jobs /\ Arg = worker.jobs[1].arg
  BY FirstJob DEF GateJob, Runs, Arg
<1>2. /\ UNCHANGED <<boot, made, engine>> /\ conn'.id = conn.id /\ worker'.jobs = Finish(worker).jobs
      /\ session'.watermark = Arg.watermark /\ session'.new = {}
      /\ conn.state # "sending"
      /\ conn'.state = "sending" => Arg.id = conn.id
  <2>1. conn.state # "sending"
    BY <1>1 DEF Gates, GateJobs
  <2> QED BY <2>1 DEF GateJob, OpensGate, capture, report, Types, Session
<1>3. conn'.state = "sending" => session'.watermark = engine'.watermark
  BY <1>1, <1>2 DEF Gates, GateJobs
<1>4. \A i \in DOMAIN worker'.jobs : /\ i \in Nat /\ i + 1 \in DOMAIN worker.jobs /\ worker'.jobs[i] = worker.jobs[i + 1]
                                     /\ i + 1 # 1
  BY <1>1, <1>2, Finished
<1>5. CASE conn'.state # "sending"
  <2>1. GateJobs'
    BY <1>1, <1>2, <1>5, GateJobsKept DEF Gates
  <2> QED BY <1>2, <1>5, <2>1 DEF Gates
<1>6. CASE conn'.state = "sending"
  <2>1. ASSUME NEW i \in DOMAIN worker'.jobs, worker'.jobs[i].kind = "gate" PROVE FALSE
    <3>1. i + 1 \in DOMAIN worker.jobs /\ worker.jobs[i + 1].kind = "gate" /\ 1 < i + 1
      BY <1>4, <2>1
    <3>2. worker.jobs[1].arg.id < worker.jobs[i + 1].arg.id /\ worker.jobs[i + 1].arg.id <= conn.id
      BY <1>1, <3>1 DEF Gates, GateJobs
    <3>3. worker.jobs[1].arg.id = conn.id /\ worker.jobs[i + 1].arg.id \in Nat /\ conn.id \in Nat
      BY <1>1, <1>2, <1>6, <3>1, GateArg DEF Types
    <3> QED BY <3>2, <3>3
  <2>2. GateJobs'
    BY <2>1 DEF GateJobs
  <2> QED BY <1>2, <1>3, <2>2 DEF Gates
<1> QED BY <1>5, <1>6

(* Every step. *)
LEMMA GatesStep == ASSUME Types, Places, Phases, EnqueueJobs, CloseJobs, Gates, [Next]_vars PROVE Gates'
<1>0. /\ worker \in Worker /\ engine \in Engine /\ session \in Session /\ boot \in Capturing /\ GateJobs
      /\ conn \in [state : {"down", "gating", "sending", "failed"}, id : Nat]
  BY DEF Types, Gates
<1>1. CASE UNCHANGED vars
  BY <1>0, <1>1, GateJobsKept, GatesFrame DEF vars, capture, report, store
<1>2. CASE Publish \/ TimeChanges
  <2>1. boot'.batch = boot.batch /\ UNCHANGED <<made, engine, worker, session, conn>>
    BY <1>0, <1>2 DEF Publish, TimeChanges, Capturing, report, store
  <2>2. GateJobs'
    BY <1>0, <2>1, GateJobsKept
  <2> QED BY <2>1, <2>2 DEF Gates
<1>3. ASSUME NEW p \in Points, Activate(p) \/ Result(p) \/ Expire(p) PROVE Gates'
  <2>0. \E src, value, slot, publish : Emit(p, src, value, slot, publish)
    BY <1>3 DEF Activate, Result, Expire
  <2>1. boot'.batch = boot.batch /\ UNCHANGED <<made, engine, worker, session, conn>>
    BY <1>0, <2>0 DEF Emit, Capturing, store
  <2>2. GateJobs'
    BY <1>0, <2>1, GateJobsKept
  <2> QED BY <2>1, <2>2 DEF Gates
<1>4. CASE Run
  <2>1. UNCHANGED <<boot, made, worker, session, conn>> /\ engine'.watermark = engine.watermark
    BY <1>4, RunPlaces DEF Run, RunAccept, RunIdle, RunDone, SamePlaces, Admitted
  <2>2. GateJobs'
    BY <1>0, <2>1, GateJobsKept
  <2> QED BY <2>1, <2>2, GatesFrame
<1>5. CASE Persist
  <2>1. CASE PersistWake \/ PersistEnd \/ Prepared \/ FlushEnd
    <3>1. UNCHANGED <<capture, report, store, conn>>
      BY <2>1 DEF PersistWake, PersistEnd, Prepared, FlushEnd, PersistOnly
    <3>2. GateJobs'
      BY <1>0, <3>1, GateJobsKept DEF report, store
    <3> QED BY <3>1, <3>2, GatesFrame DEF capture, report, store
  <2>2. CASE PrepareBatch
    <3> DEFINE k == boot.batch + 1
    <3>1. /\ UNCHANGED <<worker, session, conn>> /\ boot'.batch = k /\ boot.batch \in Nat
          /\ engine'.watermark = engine.watermark
      BY <1>0, <2>2 DEF PrepareBatch, Freeze, store, Capturing, Engine, Seqs
    <3>2. \A j \in BatchIds : j # k => made'[j] = made[j]
      BY <2>2 DEF PrepareBatch, Types
    <3>3. GateJobs'
      BY <1>0, <3>1, GateJobsKept
    <3>4. ASSUME NEW j \in session.new PROVE j <= boot'.batch /\ Newest(made'[j]) > session.watermark
      <4>1. j \in BatchIds /\ j \in Nat /\ j <= boot.batch /\ Newest(made[j]) > session.watermark
        BY <1>0 DEF Gates, Session, BatchIds
      <4>2. j # k /\ j <= k
        BY <3>1, <4>1
      <4>3. made'[j] = made[j]
        BY <3>2, <4>1, <4>2
      <4> QED BY <3>1, <4>1, <4>2, <4>3
    <3> QED BY <3>1, <3>3, <3>4 DEF Gates
  <2>3. CASE FlushSubmit
    <3>1. UNCHANGED <<capture, report, session, conn>>
      BY <2>3 DEF FlushSubmit
    <3>2. worker' = worker \/ \E job : worker' = Submit(worker, job) /\ job.kind # "gate"
      <4>1. \A k : Job("enqueue", k).kind # "gate"
        BY DEF Job
      <4> QED BY <2>3, <4>1 DEF FlushSubmit
    <3>3. GateJobs'
      BY <1>0, <3>1, <3>2, GateJobsKept DEF report
    <3> QED BY <3>1, <3>3, GatesFrame DEF capture, report
  <2>4. CASE FlushResult
    <3>1. UNCHANGED <<boot, made, session, conn>> /\ worker'.jobs = worker.jobs
      BY <1>0, <2>4 DEF FlushResult, Worker, capture
    <3>2. engine'.watermark = engine.watermark
      <4> DEFINE d == CommitBatch(engine, check, worker.reply.batch)[1]
      <4>1. d.watermark = engine.watermark /\ d \in Engine
        <5>1. worker.reply.batch \in BatchIds
          BY <1>0, <2>4 DEF FlushResult, Worker, NoReply
        <5> QED BY <1>0, <5>1, CommitPlaces, CommitTypes DEF Types
      <4>2. engine' = engine \/ \E x : engine' = [d EXCEPT !.preferCommit = x]
        BY <2>4 DEF FlushResult
      <4> HIDE DEF d
      <4> QED BY <4>1, <4>2 DEF Engine
    <3>3. GateJobs'
      BY <1>0, <3>1, <3>2, GateJobsKept
    <3> QED BY <3>1, <3>2, <3>3, GatesFrame
  <2> QED BY <1>5, <2>1, <2>2, <2>3, <2>4 DEF Persist
<1>6. CASE Thread
  <2>0. worker.jobs # <<>> /\ 1 \in DOMAIN worker.jobs /\ Head(worker.jobs) = worker.jobs[1]
    BY <1>6, FirstJob DEF Thread, EnqueueStage, EnqueueInsert, GateJob, StatsJob, CloseJob, Runs
  <2>1. CASE EnqueueStage
    <3>1. UNCHANGED <<boot, made, engine, conn>>
      BY <2>1 DEF EnqueueStage, capture, report
    <3>2. worker'.jobs = worker.jobs \/ worker'.jobs = Finish(worker).jobs
      <4>1. worker' = [worker EXCEPT !.inserting = TRUE] \/ \E r : worker' = Answer(worker, r)
        BY <2>1 DEF EnqueueStage
      <4>2. \A r : Answer(worker, r).jobs = Finish(worker).jobs
        BY <1>0, <2>0, FinishIs
      <4> QED BY <1>0, <4>1, <4>2 DEF Worker
    <3>3. GateJobs'
      BY <1>0, <2>0, <3>1, <3>2, GateJobsKept
    <3>4. Arg \in engine.frozen
      BY <2>0, <2>1 DEF EnqueueStage, Runs, EnqueueJobs, Awaits, Arg
    <3>5. Arg <= boot.batch
      BY <3>4 DEF Places
    <3>6. session'.watermark = session.watermark
          /\ \A k \in session'.new : k \in session.new \/ (k = Arg /\ Newest(made[Arg]) > session.watermark)
      <4>1. \/ session' = session
            \/ session' = [session EXCEPT !.staged = @ \cup {Arg},
                                          !.new = IF Newest(made[Arg]) > session.watermark THEN @ \cup {Arg} ELSE @]
        BY <2>1 DEF EnqueueStage
      <4>2. CASE session' = session
        BY <4>2
      <4>3. ASSUME NEW S, session' = [session EXCEPT !.staged = @ \cup {Arg}, !.new = S]
            PROVE  session'.watermark = session.watermark /\ session'.new = S
        BY <1>0, <4>3 DEF Session
      <4>4. CASE Newest(made[Arg]) > session.watermark
        BY <4>1, <4>2, <4>3, <4>4
      <4>5. CASE ~(Newest(made[Arg]) > session.watermark)
        BY <4>1, <4>2, <4>3, <4>5
      <4> QED BY <4>4, <4>5
    <3> QED BY <3>1, <3>3, <3>5, <3>6 DEF Gates
  <2>2. CASE EnqueueInsert
    <3>1. UNCHANGED <<boot, made, engine, conn>>
      BY <2>2 DEF EnqueueInsert, capture, report
    <3>2. worker'.jobs = Finish(worker).jobs
      <4>1. \E r : worker' = Answer(worker, r)
        BY <2>2 DEF EnqueueInsert
      <4>2. \A r : Answer(worker, r).jobs = Finish(worker).jobs
        BY <1>0, <2>0, FinishIs
      <4> QED BY <4>1, <4>2
    <3>3. GateJobs'
      BY <1>0, <2>0, <3>1, <3>2, GateJobsKept
    <3>4. session'.watermark = session.watermark /\ session'.new = session.new
      BY <1>0, <2>2 DEF EnqueueInsert, Session
    <3> QED BY <3>1, <3>3, <3>4, GatesFrame
  <2>3. CASE GateJob
    BY <2>3, GateJobGates
  <2>4. CASE StatsJob \/ CloseJob
    <3>1. UNCHANGED <<boot, made, engine, conn, session>>
      BY <2>4 DEF StatsJob, CloseJob, capture, report
    <3>2. worker'.jobs = Finish(worker).jobs
      BY <1>0, <2>4 DEF StatsJob, CloseJob, Finish, Worker
    <3>3. GateJobs'
      BY <1>0, <2>0, <3>1, <3>2, GateJobsKept
    <3> QED BY <3>1, <3>3, GatesFrame
  <2> QED BY <1>6, <2>1, <2>2, <2>3, <2>4 DEF Thread
<1>7. CASE Outbox
  <2>1. UNCHANGED <<boot, made, engine, conn, worker>>
    BY <1>7 DEF Outbox, Stored, Ended, Cleared, Row, capture, report
  <2>2. session'.watermark = session.watermark /\ session'.new \subseteq session.new
    <3>1. PICK k, from, to : Row(k, from, to)
      BY <1>7 DEF Outbox, Stored, Ended, Cleared
    <3> QED BY <1>0, <3>1 DEF Row, Session
  <2>3. GateJobs'
    BY <1>0, <2>1, GateJobsKept
  <2> QED BY <2>1, <2>2, <2>3, GatesFrame
<1>8. CASE Connect
  BY <1>8, ConnectGates
<1>9. CASE Disconnect \/ StopRuntime \/ Close \/ Deadline \/ CloseReturns
  <2>1. /\ UNCHANGED <<boot, report, store>> /\ conn'.id = conn.id
        /\ conn'.state = "sending" => conn.state = "sending"
    BY <1>0, <1>9 DEF Disconnect, StopRuntime, Close, Deadline, CloseReturns, capture
  <2>2. GateJobs'
    BY <1>0, <2>1, GateJobsKept DEF report, store
  <2> QED BY <2>1, <2>2, GatesFrame DEF report, store
<1>10. CASE Cleanup
  <2>1. /\ UNCHANGED <<boot, made, conn>> /\ engine'.watermark = engine.watermark
        /\ session'.watermark = session.watermark /\ session'.new \subseteq session.new
    <3>1. UNCHANGED <<boot, made, conn>>
      BY <1>10 DEF Cleanup, CleanupAbandon, CleanupShut, capture, report
    <3>2. engine' = engine \/ engine' = Abandon(engine)
      BY <1>10 DEF Cleanup, CleanupAbandon, CleanupShut, report
    <3>3. engine'.watermark = engine.watermark
      BY <1>0, <3>2 DEF Abandon, Engine
    <3>4. session' = session \/ session' = [session EXCEPT !.staged = {}, !.new = @ \ session.staged]
      BY <1>10 DEF Cleanup, CleanupAbandon, CleanupShut
    <3>5. session'.watermark = session.watermark /\ session'.new \subseteq session.new
      BY <1>0, <3>4 DEF Session
    <3> QED BY <3>1, <3>3, <3>5
  <2>2. worker' = worker \/ \E job : worker' = Submit(worker, job) /\ job.kind # "gate"
    <3>1. \A arg : Job("stats", arg).kind # "gate" /\ Job("close", arg).kind # "gate"
      BY DEF Job
    <3> QED BY <1>10, <3>1 DEF Cleanup, CleanupAbandon, CleanupShut
  <2>3. GateJobs'
    BY <1>0, <2>1, <2>2, GateJobsKept
  <2> QED BY <2>1, <2>3, GatesFrame
<1>11. CASE Reload
  <2>1. /\ UNCHANGED <<boot, made, session, conn>> /\ worker' = NoWorker /\ conn.state # "sending"
    BY <1>11 DEF Reload, Phases
  <2> QED BY <2>1 DEF Gates, GateJobs, NoWorker
<1>12. CASE Refused
  <2>1. UNCHANGED <<boot, report, conn, worker>>
    BY <1>12 DEF Refused, capture
  <2>2. session'.watermark = session.watermark /\ session'.new \subseteq session.new
    BY <1>0, <1>12 DEF Refused, Session
  <2>3. GateJobs'
    BY <1>0, <2>1, GateJobsKept DEF report
  <2> QED BY <2>1, <2>2, <2>3, GatesFrame DEF report
<1> QED BY <1>1, <1>2, <1>3, <1>4, <1>5, <1>6, <1>7, <1>8, <1>9, <1>10, <1>11, <1>12 DEF Next

(* The gate of the session and the one of the engine agree. *)
LEMMA GatesAgree == ASSUME Types, Places, Gates PROVE GateAgrees
<1> SUFFICES ASSUME conn.state = "sending"
             PROVE  /\ session.watermark = engine.watermark
                    /\ \A k \in session.new \cap session.known : \A n \in made[k] : n > engine.watermark
  BY DEF GateAgrees
<1>1. session.watermark = engine.watermark /\ engine.watermark \in Nat
  BY DEF Gates, Types, Engine, Seqs
<1>2. ASSUME NEW k \in session.new PROVE \A n \in made[k] : n > engine.watermark
  <2>1. k \in BatchIds /\ made[k] \subseteq Events /\ Newest(made[k]) > engine.watermark
    BY <1>1 DEF Gates, Types, Session
  <2>2. made[k] = {} => Newest(made[k]) = 0
    BY <2>1, NewestIs
  <2>3. Newest(made[k]) \in made[k] /\ Newest(made[k]) \in Nat
    BY <1>1, <2>1, <2>2, NewestIs DEF Events
  <2>4. ~(Newest(made[k]) <= engine.watermark)
    BY <1>1, <2>1, <2>3
  <2> QED BY <2>1, <2>3, <2>4 DEF Places
<1> QED BY <1>1, <1>2

----------------------------------------------------------------------------
(* Gauges. *)

(* After the cleanup has given up the rest the engine owns nothing; an     *)
(* entry the session knows has a row, and so has a batch whose enqueue was *)
(* answered with true.                                                     *)
Rests ==
    /\ tasks.close \notin {"none", "run"} => engine.owned = {} /\ engine.frozen = {}
    /\ \A k \in session.known : rows[k] # "none"
    /\ worker.reply.result = "true" => rows[worker.reply.batch] # "none"

(* The first state. *)
LEMMA RestsInit == Init => Rests
BY DEF Init, Rests, NewTasks, NoWorker, NoReply

(* Nothing of it is touched. *)
LEMMA RestsFrame ==
    ASSUME Rests, tasks'.close = tasks.close, engine'.owned = engine.owned, engine'.frozen = engine.frozen,
           session'.known \subseteq session.known, rows' = rows, worker'.reply = worker.reply
    PROVE  Rests'
BY DEF Rests

(* While the close has not come to the cleanup. *)
LEMMA RestsBefore ==
    ASSUME Rests, tasks'.close \in {"none", "run"}, session' = session, rows' = rows,
           worker'.reply \in {worker.reply, NoReply}
    PROVE  Rests'
BY DEF Rests, NoReply

(* Every step. *)
LEMMA RestsStep == ASSUME Types, Phases, CloseJobs, Rests, [Next]_vars PROVE Rests'
<1>0. worker \in Worker /\ tasks \in Tasks /\ engine \in Engine /\ session \in Session
  BY DEF Types
<1>1. CASE UNCHANGED vars
  BY <1>1, RestsFrame DEF vars, report, store
<1>2. CASE Publish \/ TimeChanges \/ Disconnect \/ StopRuntime \/ CloseReturns
  BY <1>2, RestsFrame DEF Publish, TimeChanges, Disconnect, StopRuntime, CloseReturns, store, report
<1>3. ASSUME NEW p \in Points, Activate(p) \/ Result(p) \/ Expire(p) PROVE Rests'
  BY <1>3, RestsFrame DEF Activate, Result, Expire, Emit, store
<1>4. CASE Run
  <2>1. tasks.close \in {"none", "run"} /\ tasks'.close = tasks.close
    <3>1. tasks.run = "loop"
      BY <1>4 DEF Run, RunAccept, RunIdle, RunDone
    <3> QED BY <1>0, <1>4, <3>1 DEF Run, RunAccept, RunIdle, RunDone, Phases, Tasks
  <2>2. UNCHANGED <<worker, session, rows>>
    BY <1>4, RunPlaces
  <2> QED BY <2>1, <2>2, RestsBefore
<1>5. CASE Persist
  <2>1. tasks.close \in {"none", "run"}
    BY <1>0, <1>5 DEF Persist, PersistWake, PersistEnd, PrepareBatch, Prepared, FlushSubmit, FlushEnd, FlushResult,
                      Phases, Tasks
  <2>2. tasks'.close = tasks.close
    <3>1. CASE FlushResult
      <4>1. worker.reply.result \in Results
        BY <1>0, <3>1 DEF FlushResult, Worker, NoReply
      <4> QED BY <1>0, <3>1, <4>1 DEF FlushResult, Asleep, Tasks, Results
    <3>2. CASE FlushSubmit
      BY <1>0, <3>2 DEF FlushSubmit, Asleep, Tasks
    <3>3. CASE PersistWake \/ PersistEnd \/ PrepareBatch \/ Prepared \/ FlushEnd
      BY <1>0, <3>3 DEF PersistWake, PersistEnd, PrepareBatch, Prepared, FlushEnd, PersistOnly, Asleep, Tasks
    <3> QED BY <1>5, <3>1, <3>2, <3>3 DEF Persist
  <2>3. UNCHANGED <<session, rows>>
    BY <1>5 DEF Persist, PersistWake, PersistEnd, PrepareBatch, Prepared, FlushSubmit, FlushEnd, FlushResult,
                PersistOnly, store
  <2>4. worker'.reply \in {worker.reply, NoReply}
    BY <1>0, <1>5 DEF Persist, PersistWake, PersistEnd, PrepareBatch, Prepared, FlushSubmit, FlushEnd, FlushResult,
                      PersistOnly, store, Submit, Worker
  <2> QED BY <2>1, <2>2, <2>3, <2>4, RestsBefore
<1>6. CASE Thread
  <2>0. worker.jobs # <<>> /\ 1 \in DOMAIN worker.jobs /\ Head(worker.jobs) = worker.jobs[1] /\ UNCHANGED engine
    BY <1>6, FirstJob DEF Thread, EnqueueStage, EnqueueInsert, GateJob, StatsJob, CloseJob, Runs, report
  <2>a. \A r : Answer(worker, r).reply = [result |-> r, batch |-> Arg]
    BY <1>0, <2>0, FinishIs DEF Arg
  <2>1. CASE EnqueueStage
    <3>1. UNCHANGED <<tasks, rows>> /\ session'.known = session.known
      BY <1>0, <2>1 DEF EnqueueStage, Session
    <3>2. CASE worker' = [worker EXCEPT !.inserting = TRUE]
      <4>1. worker'.reply = worker.reply
        BY <1>0, <3>2 DEF Worker
      <4> QED BY <2>0, <3>1, <4>1, RestsFrame
    <3>3. ASSUME NEW r, worker' = Answer(worker, r), r = "true" => Arg \in session.known PROVE Rests'
      <4>0. worker'.reply = [result |-> r, batch |-> Arg]
        BY <2>a, <3>3
      <4>1. worker'.reply.result = r /\ worker'.reply.batch = Arg
        BY <4>0
      <4> QED BY <2>0, <3>1, <3>3, <4>1 DEF Rests
    <3> QED BY <2>1, <3>2, <3>3 DEF EnqueueStage
  <2>2. CASE EnqueueInsert
    <3>1. UNCHANGED tasks
      BY <2>2 DEF EnqueueInsert
    <3>2. CASE worker' = Answer(worker, "error") /\ UNCHANGED <<rows, session>>
      <4>0. worker'.reply = [result |-> "error", batch |-> Arg]
        BY <2>a, <3>2
      <4>1. worker'.reply.result = "error"
        BY <4>0
      <4> QED BY <2>0, <3>1, <3>2, <4>1 DEF Rests
    <3>3. CASE rows' = [rows EXCEPT ![Arg] = "pending"] /\ session'.known \subseteq session.known \cup {Arg}
      <4>1. Arg \in BatchIds
        BY <1>0, <2>2, WorkerTypes DEF EnqueueInsert, Runs, Arg, Jobs
      <4>2. rows'[Arg] = "pending" /\ \A k \in BatchIds : k # Arg => rows'[k] = rows[k]
        BY <3>3, <4>1 DEF Types
      <4>a. PICK r : worker' = Answer(worker, r)
        BY <2>2 DEF EnqueueInsert
      <4>b. worker'.reply = [result |-> r, batch |-> Arg]
        BY <2>a, <4>a
      <4>3. worker'.reply.batch = Arg
        BY <4>b
      <4>4. \A k \in session'.known : rows'[k] # "none"
        BY <1>0, <3>3, <4>2 DEF Rests, Session
      <4> QED BY <2>0, <3>1, <4>2, <4>3, <4>4 DEF Rests
    <3> QED BY <1>0, <2>2, <3>2, <3>3 DEF EnqueueInsert, Session
  <2>3. CASE GateJob
    <3>1. worker'.reply = worker.reply /\ session'.known = session.known /\ UNCHANGED <<tasks, rows>>
      BY <1>0, <2>3 DEF GateJob, Finish, Worker, Session
    <3> QED BY <2>0, <3>1, RestsFrame
  <2>4. CASE StatsJob \/ CloseJob
    <3>1. worker'.reply = worker.reply /\ UNCHANGED <<rows, session>>
      BY <1>0, <2>4 DEF StatsJob, CloseJob, Finish, Worker
    <3>2. CASE tasks.close \notin {"none", "run"}
      BY <2>0, <3>1, <3>2 DEF Rests
    <3>3. CASE tasks.close \in {"none", "run"}
      <4>1. FALSE
        BY <2>0, <2>4, <3>3 DEF StatsJob, CloseJob, Runs, CloseJobs
      <4> QED BY <4>1
    <3> QED BY <3>2, <3>3
  <2> QED BY <1>6, <2>1, <2>2, <2>3, <2>4 DEF Thread
<1>7. CASE Outbox
  <2>1. PICK k \in BatchIds, from \in {"pending", "dead"}, to \in {"pending", "dead", "gone"} : Row(k, from, to)
    BY <1>7 DEF Outbox, Stored, Ended, Cleared
  <2>2. \A j \in BatchIds : rows'[j] = "none" <=> rows[j] = "none"
    BY <2>1 DEF Row, Types
  <2>3. session'.known \subseteq session.known /\ UNCHANGED <<tasks, engine, worker>>
    BY <1>0, <2>1 DEF Row, Session, report
  <2>4. worker.reply.result = "true" => worker.reply.batch \in BatchIds
    BY <1>0 DEF Worker, NoReply
  <2> QED BY <1>0, <2>2, <2>3, <2>4 DEF Rests, Session
<1>8. CASE Connect
  <2>1. worker'.reply = worker.reply /\ UNCHANGED <<tasks, rows, session>>
    BY <1>0, <1>8 DEF Connect, Submit, Worker
  <2>2. engine'.owned = engine.owned /\ engine'.frozen = engine.frozen
    BY <1>0, <1>8 DEF Connect, OpenGate, Engine
  <2> QED BY <2>1, <2>2, RestsFrame
<1>9. CASE Close
  <2>1. tasks'.close = "run" /\ UNCHANGED <<worker, session, rows>>
    BY <1>0, <1>9 DEF Close, Tasks, store
  <2> QED BY <2>1, RestsBefore
<1>10. CASE Deadline
  <2>1. tasks'.close = tasks.close /\ UNCHANGED <<worker, session, rows, engine>>
    BY <1>0, <1>10 DEF Deadline, Tasks, store, report
  <2> QED BY <2>1, RestsFrame
<1>11. CASE CleanupAbandon
  <2>1. engine'.owned = {} /\ engine'.frozen = {}
    BY <1>0, <1>11 DEF CleanupAbandon, Abandon, Engine
  <2>2. worker'.reply = worker.reply /\ session'.known = session.known /\ UNCHANGED rows
    BY <1>0, <1>11 DEF CleanupAbandon, Submit, Worker, Session
  <2> QED BY <2>1, <2>2 DEF Rests
<1>12. CASE CleanupShut
  <2>1. worker'.reply = worker.reply /\ UNCHANGED <<rows, session, engine>> /\ tasks.close \notin {"none", "run"}
    BY <1>0, <1>12 DEF CleanupShut, Submit, Worker, report
  <2> QED BY <2>1 DEF Rests
<1>13. CASE Reload
  BY <1>13 DEF Reload, Rests, NewTasks, NoWorker, NoReply
<1>14. CASE Refused
  <2>1. UNCHANGED <<rows, worker, engine, tasks>> /\ session'.known = session.known
    BY <1>0, <1>14 DEF Refused, Session, report
  <2> QED BY <2>1, RestsFrame
<1> QED BY <1>1, <1>2, <1>3, <1>4, <1>5, <1>6, <1>7, <1>8, <1>9, <1>10, <1>11, <1>12, <1>13, <1>14 DEF Next, Cleanup

(* What the gauges count: the events that are on their way, and the batches. *)
Unsettled == (engine.owned \ Durable) \cup InRows({"pending"})
Waiting == {k \in engine.frozen : rows[k] = "none"}
Live == Waiting \cup {k \in BatchIds : rows[k] = "pending"}

(* The gauges are right, and the books know which batches are frozen. *)
Gauges ==
    ~sup.refused =>
        /\ books.pending = Cardinality(Unsettled)
        /\ books.dead = Cardinality(InRows({"dead"}))
        /\ books.batches = Cardinality(Live)
        /\ books.eligible = books.pending + books.settled
        /\ books.frozen = Waiting

(* The books c have i more events pending than b. *)
Counted(b, c, i) ==
    /\ c.pending = b.pending + i /\ c.eligible - c.settled = b.eligible - b.settled + i
    /\ c.dead = b.dead /\ c.batches = b.batches /\ c.frozen = b.frozen

(* That is what the property says. *)
LEMMA GaugesAreRight == ASSUME Types, Gauges PROVE OneOwner
BY DEF Gauges, OneOwner, Unsettled, Live, Waiting

(* The first state. *)
LEMMA GaugesInit == Init => Gauges
<1> SUFFICES ASSUME Init PROVE Gauges
  OBVIOUS
<1>1. Cardinality({}) = 0
  BY FS_EmptySet
<1>2. Unsettled = {} /\ InRows({"dead"}) = {} /\ Live = {} /\ Waiting = {}
  BY DEF Init, NoEngine, Unsettled, Durable, InRows, Live, Waiting
<1>3. /\ books.pending = 0 /\ books.dead = 0 /\ books.batches = 0 /\ books.eligible = 0 /\ books.settled = 0
      /\ books.frozen = {}
  BY DEF Init, NoBooks
<1>4. Cardinality(Unsettled) = 0 /\ Cardinality(InRows({"dead"})) = 0 /\ Cardinality(Live) = 0
  BY <1>1, <1>2
<1> QED BY <1>2, <1>3, <1>4 DEF Gauges

(* Counting sets of events, and of batches. *)
LEMMA CountSets ==
    ASSUME NEW S \in SUBSET Events, NEW T \in SUBSET Events
    PROVE  /\ Cardinality(S) \in Nat /\ Cardinality(T) \in Nat
           /\ T \subseteq S => Cardinality(S \ T) = Cardinality(S) - Cardinality(T)
           /\ S \cap T = {} => Cardinality(S \cup T) = Cardinality(S) + Cardinality(T)
<1>1. IsFiniteSet(S) /\ IsFiniteSet(T) /\ Cardinality(S) \in Nat /\ Cardinality(T) \in Nat
  BY EventsFinite
<1>2. Cardinality(S \ T) = Cardinality(S) - Cardinality(S \cap T)
  BY <1>1, FS_Difference
<1>3. T \subseteq S => S \cap T = T
  OBVIOUS
<1>4. Cardinality(S \cup T) = Cardinality(S) + Cardinality(T) - Cardinality(S \cap T)
  BY <1>1, FS_Union
<1>5. Cardinality({}) = 0
  BY FS_EmptySet
<1>6. ASSUME T \subseteq S PROVE Cardinality(S \ T) = Cardinality(S) - Cardinality(T)
  BY <1>2, <1>3, <1>6
<1>7. ASSUME S \cap T = {} PROVE Cardinality(S \cup T) = Cardinality(S) + Cardinality(T)
  <2>1. Cardinality(S \cap T) = 0
    BY <1>5, <1>7
  <2> QED BY <1>1, <1>4, <2>1
<1> QED BY <1>1, <1>6, <1>7

(* Every one of them is a set of events, or of batches, which are as many. *)
LEMMA CountedSets ==
    ASSUME Types
    PROVE  /\ Unsettled \in SUBSET Events /\ \A states : InRows(states) \in SUBSET Events
           /\ Live \in SUBSET Events /\ Waiting \in SUBSET Events /\ BatchIds = Events
           /\ \A k \in BatchIds : made[k] \in SUBSET Events /\ {k} \in SUBSET Events
<1>1. BatchIds = Events
  BY DEF BatchIds, Events
<1>2. \A states : InRows(states) \in SUBSET Events
  BY DEF InRows, Types
<1>3. engine.owned \subseteq Events /\ engine.frozen \subseteq BatchIds /\ made \in [BatchIds -> SUBSET Events]
  BY DEF Types, Engine
<1>4. Waiting \subseteq BatchIds /\ Live \subseteq BatchIds
  BY <1>3 DEF Live, Waiting
<1>5. Unsettled \subseteq Events
  BY <1>2, <1>3 DEF Unsettled
<1> QED BY <1>1, <1>2, <1>3, <1>4, <1>5

(* Neither the gauges move nor what they count. *)
LEMMA GaugesFrame ==
    ASSUME Types, Types', Gauges, ~sup'.refused => ~sup.refused, Counted(books, books', 0), Unsettled' = Unsettled,
           InRows({"dead"})' = InRows({"dead"}), Live' = Live, Waiting' = Waiting
    PROVE  Gauges'
<1> SUFFICES ASSUME ~sup'.refused
             PROVE  /\ books'.pending = Cardinality(Unsettled')
                    /\ books'.dead = Cardinality(InRows({"dead"})')
                    /\ books'.batches = Cardinality(Live')
                    /\ books'.eligible = books'.pending + books'.settled
                    /\ books'.frozen = Waiting'
  BY DEF Gauges
<1>1. /\ books.pending \in Int /\ books.eligible \in Int /\ books.settled \in Int
      /\ books'.pending \in Int /\ books'.eligible \in Int /\ books'.settled \in Int
  BY DEF Types, Books
<1>2. books.pending = Cardinality(Unsettled) /\ books.dead = Cardinality(InRows({"dead"}))
      /\ books.batches = Cardinality(Live) /\ books.eligible = books.pending + books.settled /\ books.frozen = Waiting
  BY DEF Gauges
<1>3. /\ books'.pending = books.pending /\ books'.dead = books.dead /\ books'.batches = books.batches
      /\ books'.frozen = books.frozen /\ books'.eligible - books'.settled = books.eligible - books.settled
  BY <1>1 DEF Counted
<1>4. books'.eligible = books'.pending + books'.settled
  BY <1>1, <1>2, <1>3
<1> QED BY <1>2, <1>3, <1>4

(* Rows and places stay, and so does what is counted. *)
LEMMA CountsFrame ==
    ASSUME rows' = rows, made' = made, engine'.owned = engine.owned, engine'.frozen = engine.frozen
    PROVE  /\ Unsettled' = Unsettled /\ InRows({"dead"})' = InRows({"dead"}) /\ Live' = Live /\ Waiting' = Waiting
           /\ Durable' = Durable /\ InRows({"pending"})' = InRows({"pending"})
BY DEF Unsettled, InRows, Durable, Live, Waiting

(* accept counts the event it admits, and no other. *)
LEMMA AcceptCounts ==
    ASSUME NEW e \in Engine, NEW c \in Checkpoint, NEW b \in Books, NEW n \in Events, n \in b.open,
           sample \in [Events -> Sample]
    PROVE  LET d == Accept(e, c, b, n)
           IN  \/ SamePlaces(e, d[1]) /\ Counted(b, d[3], 0)
               \/ Admitted(e, d[1], n) /\ Counted(b, d[3], 1)
<1> DEFINE e1 == SeenEngine(e, c, n)
           closed == [b EXCEPT !.open = @ \ {n}]
<1>1. SamePlaces(e, e1) /\ SamePlaces(e, e)
  BY DEF SeenEngine, SamePlaces, Engine
<1>2. Admitted(e, Admit(e1, n), n)
  <2>1. e1 \in Engine
    BY SeenTypes
  <2> HIDE DEF e1
  <2> QED BY <1>1, <2>1 DEF Admit, Admitted, SamePlaces, Engine
<1>3. b.pending \in Int /\ b.eligible \in Int /\ b.settled \in Int
  BY DEF Books
<1>4. Counted(b, b, 0) /\ Counted(b, Undecided(b, n), 0)
  BY <1>3 DEF Counted, Undecided, Books
<1>5. /\ closed.pending = b.pending /\ closed.eligible = b.eligible /\ closed.settled = b.settled
      /\ closed.dead = b.dead /\ closed.batches = b.batches /\ closed.frozen = b.frozen /\ closed \in Books
  BY DEF Books
<1>6. /\ Decided(b, n, "filtered") = [closed EXCEPT !.filtered = @ + 1]
      /\ Decided(b, n, "unsent") = [closed EXCEPT !.eligible = @ + 1, !.settled = @ + 1]
      /\ Decided(b, n, "admitted") = [closed EXCEPT !.eligible = @ + 1, !.pending = @ + 1]
  BY DEF Decided
<1>7. /\ Counted(b, Decided(b, n, "filtered"), 0) /\ Counted(b, Decided(b, n, "unsent"), 0)
      /\ Counted(b, Decided(b, n, "admitted"), 1)
  <2> HIDE DEF closed
  <2>1. Counted(b, [closed EXCEPT !.filtered = @ + 1], 0)
    BY <1>3, <1>5 DEF Counted, Books
  <2>2. Counted(b, [closed EXCEPT !.eligible = @ + 1, !.settled = @ + 1], 0)
    BY <1>3, <1>5 DEF Counted, Books
  <2>3. Counted(b, [closed EXCEPT !.eligible = @ + 1, !.pending = @ + 1], 1)
    BY <1>3, <1>5 DEF Counted, Books
  <2> QED BY <1>6, <2>1, <2>2, <2>3
<1> QED BY <1>1, <1>2, <1>4, <1>7 DEF Accept

(* The ingress task. *)
LEMMA RunGauges == ASSUME Types, Types', Places, Decisions, Gauges, Run PROVE Gauges'
<1>0. UNCHANGED <<made, rows>> /\ sup' = sup
  BY RunPlaces DEF Run, RunAccept, RunIdle, RunDone
<1>1. CASE RunAccept
  <2> DEFINE n == Oldest(ingress)
  <2>1. n \in ingress /\ n \in Events /\ n \in books.open
    <3>1. ingress \subseteq Nat /\ ingress # {} /\ ingress \subseteq Events
      BY <1>1 DEF RunAccept, Types, Events
    <3> QED BY <3>1, OldestIs DEF Decisions, DecidedOnce
  <2>2. /\ books' = Accept(Configured[1], Configured[2], books, n)[3]
        /\ engine' = Accept(Configured[1], Configured[2], books, n)[1]
    BY <1>1 DEF RunAccept
  <2>3. /\ Configured[1] \in Engine /\ Configured[2] \in Checkpoint /\ books \in Books /\ engine \in Engine
        /\ sample \in [Events -> Sample]
    BY ConfiguredTypes DEF Types
  <2>4. SamePlaces(engine, Configured[1])
    <3>1. SamePlaces(engine, engine)
      BY DEF SamePlaces
    <3> QED BY <2>3, <3>1, ConfigurePlaces DEF Configured
  <2> HIDE DEF n
  <2>5. \/ SamePlaces(Configured[1], engine') /\ Counted(books, books', 0)
        \/ Admitted(Configured[1], engine', n) /\ Counted(books, books', 1)
    BY <2>1, <2>2, <2>3, AcceptCounts
  <2>6. CASE SamePlaces(Configured[1], engine') /\ Counted(books, books', 0)
    <3>1. engine'.owned = engine.owned /\ engine'.frozen = engine.frozen
      BY <2>4, <2>6 DEF SamePlaces
    <3> QED BY <1>0, <2>6, <3>1, CountsFrame, GaugesFrame
  <2>7. CASE Admitted(Configured[1], engine', n) /\ Counted(books, books', 1)
    <3>1. engine'.owned = engine.owned \cup {n} /\ engine'.frozen = engine.frozen
      BY <2>4, <2>7 DEF SamePlaces, Admitted
    <3>2. n \notin engine.owned /\ n \notin Durable /\ n \notin InRows({"pending"})
      <4>1. Durable \subseteq Batched /\ InRows({"pending"}) \subseteq Batched
        BY DEF Durable, InRows, Batched
      <4> QED BY <2>1, <4>1 DEF Places
    <3>3. Durable' = Durable /\ InRows({"pending"})' = InRows({"pending"}) /\ InRows({"dead"})' = InRows({"dead"})
      BY <1>0 DEF Durable, InRows
    <3>4. Unsettled' = Unsettled \cup {n} /\ Unsettled \cap {n} = {}
      BY <3>1, <3>2, <3>3 DEF Unsettled
    <3>5. Live' = Live /\ Waiting' = Waiting
      BY <1>0, <3>1 DEF Live, Waiting
    <3>6. Cardinality(Unsettled') = Cardinality(Unsettled) + 1 /\ Cardinality(Unsettled) \in Nat
      <4>1. Unsettled \in SUBSET Events /\ {n} \in SUBSET Events
        BY <2>1, CountedSets
      <4>2. Cardinality({n}) = 1
        BY FS_Singleton
      <4> QED BY <3>4, <4>1, <4>2, CountSets
    <3>7. /\ books.pending \in Int /\ books.eligible \in Int /\ books.settled \in Int
          /\ books'.pending \in Int /\ books'.eligible \in Int /\ books'.settled \in Int
      BY DEF Types, Books
    <3>8. /\ books'.pending = books.pending + 1 /\ books'.dead = books.dead /\ books'.batches = books.batches
          /\ books'.frozen = books.frozen /\ books'.eligible - books'.settled = books.eligible - books.settled + 1
      BY <2>7 DEF Counted
    <3>9. ~sup.refused => books'.eligible = books'.pending + books'.settled
      BY <3>7, <3>8 DEF Gauges
    <3> QED BY <1>0, <3>3, <3>5, <3>6, <3>8, <3>9 DEF Gauges
  <2> QED BY <2>5, <2>6, <2>7
<1>2. CASE RunIdle \/ RunDone
  <2>1. engine'.owned = engine.owned /\ engine'.frozen = engine.frozen
    <3>1. engine \in Engine /\ SamePlaces(engine, engine)
      BY DEF SamePlaces, Types
    <3>2. engine' = engine \/ engine' = Configured[1]
      BY <1>2 DEF RunIdle, RunDone, report
    <3>3. SamePlaces(engine, engine')
      BY <3>1, <3>2, ConfigurePlaces DEF Configured
    <3> QED BY <3>3 DEF SamePlaces
  <2>2. Counted(books, books', 0)
    BY <1>2 DEF RunIdle, RunDone, Counted, Types, Books
  <2> QED BY <1>0, <2>1, <2>2, CountsFrame, GaugesFrame
<1> QED BY <1>1, <1>2 DEF Run

(* A batch is packed. *)
LEMMA PrepareGauges == ASSUME Types, Types', Places, Losses, Gauges, PrepareBatch PROVE Gauges'
<1> DEFINE k == boot.batch + 1
<1>1. k \in BatchIds /\ rows[k] = "none" /\ k \notin engine.frozen
  <2>1. k \in BatchIds /\ boot.batch \in Nat
    BY PrepareCounts DEF Types, Capturing, Seqs
  <2>2. ~(k <= boot.batch)
    BY <2>1
  <2> QED BY <2>1, <2>2 DEF Places, Losses
<1>2. /\ UNCHANGED <<rows, sup>> /\ engine'.owned = engine.owned /\ engine'.frozen = engine.frozen \cup {k}
      /\ books' = Materialized(books, k) /\ \A j \in BatchIds : j # k => made'[j] = made[j]
  BY DEF PrepareBatch, Freeze, Types, Engine, store
<1> HIDE DEF k
<1>3. Durable' = Durable /\ InRows({"pending"})' = InRows({"pending"}) /\ InRows({"dead"})' = InRows({"dead"})
  BY <1>1, <1>2 DEF Durable, InRows
<1>4. Unsettled' = Unsettled
  BY <1>2, <1>3 DEF Unsettled
<1>5. Waiting' = Waiting \cup {k}
  BY <1>1, <1>2 DEF Waiting
<1>6. Live' = Live \cup {k} /\ Live \cap {k} = {}
  <2>1. Live' = Live \cup {k}
    BY <1>2, <1>5 DEF Live
  <2>2. k \notin Live
    BY <1>1 DEF Live, Waiting
  <2> QED BY <2>1, <2>2
<1>7. Cardinality(Live') = Cardinality(Live) + 1
  <2>1. Live \in SUBSET Events /\ {k} \in SUBSET Events
    BY <1>1, CountedSets
  <2>2. Cardinality({k}) = 1
    BY FS_Singleton
  <2> QED BY <1>6, <2>1, <2>2, CountSets
<1>8. /\ books'.pending = books.pending /\ books'.dead = books.dead /\ books'.batches = books.batches + 1
      /\ books'.frozen = books.frozen \cup {k} /\ books'.eligible = books.eligible /\ books'.settled = books.settled
  BY <1>2 DEF Materialized, Types, Books
<1> QED BY <1>2, <1>3, <1>4, <1>5, <1>7, <1>8 DEF Gauges

(* The row of a frozen batch is written. *)
LEMMA InsertGauges == ASSUME Types, Types', Places, EnqueueJobs, Losses, Gauges, EnqueueInsert PROVE Gauges'
<1>1. worker.jobs # <<>> /\ Head(worker.jobs).kind = "enqueue" /\ worker.inserting
  BY DEF EnqueueInsert, Runs
<1>2. worker.reply = NoReply /\ Arg \in engine.frozen /\ Arg \in BatchIds
  <2>1. 1 \in DOMAIN worker.jobs /\ Head(worker.jobs) = worker.jobs[1]
    BY <1>1, FirstJob
  <2>2. worker.reply = NoReply /\ Arg \in engine.frozen
    BY <1>1, <2>1 DEF EnqueueJobs, Awaits, Arg
  <2> QED BY <2>2 DEF Types, Engine
<1>3. UNCHANGED <<made, engine, sup>>
  BY DEF EnqueueInsert, report
<1>4. CASE rows' = rows /\ books' = books
  <2>1. Counted(books, books', 0)
    BY <1>4 DEF Counted, Types, Books
  <2> QED BY <1>3, <1>4, <2>1, CountsFrame, GaugesFrame
<1>5. CASE rows' = [rows EXCEPT ![Arg] = "pending"] /\ books' = Committed(books, Arg)
  <2> SUFFICES ASSUME ~sup.refused PROVE Gauges'
    BY <1>3 DEF Gauges
  <2>1. rows[Arg] = "none"
    BY <1>2, NoReplyIs DEF Losses
  <2>2. rows'[Arg] = "pending" /\ \A k \in BatchIds : k # Arg => rows'[k] = rows[k]
    BY <1>2, <1>5 DEF Types
  <2>3. made[Arg] \subseteq engine.owned
    BY <1>2 DEF Places, HeldOnce
  <2>4. made[Arg] \cap Durable = {}
    BY <1>2, <2>1 DEF Durable, Places
  <2>5. Durable' = Durable \cup made[Arg]
    BY <1>2, <1>3, <2>1, <2>2 DEF Durable
  <2>6. InRows({"pending"})' = InRows({"pending"}) \cup made[Arg]
    BY <1>2, <1>3, <2>1, <2>2 DEF InRows
  <2>7. InRows({"dead"})' = InRows({"dead"})
    BY <1>2, <1>3, <2>1, <2>2 DEF InRows
  <2>8. Unsettled' = Unsettled
    BY <1>3, <2>3, <2>4, <2>5, <2>6 DEF Unsettled
  <2>9. Waiting' = Waiting \ {Arg} /\ Arg \in Waiting
    BY <1>2, <1>3, <2>1, <2>2 DEF Waiting, Types, Engine
  <2>10. {k \in BatchIds : rows'[k] = "pending"} = {k \in BatchIds : rows[k] = "pending"} \cup {Arg}
    BY <1>2, <2>2
  <2>11. Live' = Live
    BY <2>9, <2>10 DEF Live
  <2>12. books.frozen = Waiting
    BY DEF Gauges
  <2>13. /\ books'.pending = books.pending /\ books'.dead = books.dead /\ books'.batches = books.batches
         /\ books'.frozen = books.frozen \ {Arg} /\ books'.eligible = books.eligible /\ books'.settled = books.settled
    <3>1. Bit(Arg \notin books.frozen) = 0
      BY <2>9, <2>12 DEF Bit
    <3>2. books'.batches = books.batches + 0 /\ books.batches \in Int
      BY <1>5, <3>1 DEF Committed, Types, Books
    <3> QED BY <1>5, <3>2 DEF Committed, Types, Books
  <2> QED BY <1>3, <2>7, <2>8, <2>9, <2>11, <2>12, <2>13 DEF Gauges
<1>6. CASE Arg \notin session.staged
  <2>1. sup.refused
    BY <1>1, <1>6 DEF Losses
  <2> QED BY <1>3, <2>1 DEF Gauges
<1> QED BY <1>4, <1>5, <1>6 DEF EnqueueInsert

(* A row that was pending ends. *)
LEMMA EndedCounts ==
    ASSUME Types, Places, NEW k \in BatchIds, rows[k] = "pending", NEW to \in {"dead", "gone"},
           rows' = [rows EXCEPT ![k] = to], UNCHANGED <<made, engine>>
    PROVE  /\ Unsettled' = Unsettled \ made[k] /\ made[k] \subseteq Unsettled
           /\ InRows({"dead"})' = IF to = "dead" THEN InRows({"dead"}) \cup made[k] ELSE InRows({"dead"})
           /\ InRows({"dead"}) \cap made[k] = {}
           /\ Waiting' = Waiting /\ Live' = Live \ {k} /\ k \in Live
<1>1. rows'[k] = to /\ \A j \in BatchIds : j # k => rows'[j] = rows[j]
  BY DEF Types
<1>2. \A j \in BatchIds : j # k => made[j] \cap made[k] = {}
  BY DEF Places
<1>3. Durable' = Durable /\ made[k] \subseteq Durable
  BY <1>1 DEF Durable
<1>4. InRows({"pending"})' = InRows({"pending"}) \ made[k] /\ made[k] \subseteq InRows({"pending"})
  <2>1. made[k] \subseteq InRows({"pending"})
    BY DEF InRows
  <2>2. InRows({"pending"})' = UNION {made[j] : j \in {i \in BatchIds : rows'[i] = "pending"}}
    BY DEF InRows
  <2>3. {i \in BatchIds : rows'[i] = "pending"} = {i \in BatchIds : rows[i] = "pending"} \ {k}
    BY <1>1
  <2>4. InRows({"pending"}) = UNION {made[j] : j \in {i \in BatchIds : rows[i] = "pending"}}
    BY DEF InRows
  <2> QED BY <1>2, <2>1, <2>2, <2>3, <2>4
<1>5. InRows({"dead"})' = IF to = "dead" THEN InRows({"dead"}) \cup made[k] ELSE InRows({"dead"})
  BY <1>1 DEF InRows
<1>6. InRows({"dead"}) \cap made[k] = {}
  BY <1>2 DEF InRows
<1>7. Waiting' = Waiting /\ k \notin Waiting
  <2>1. engine.frozen \subseteq BatchIds
    BY DEF Types, Engine
  <2> QED BY <1>1, <2>1 DEF Waiting
<1>8. Live' = Live \ {k} /\ k \in Live
  BY <1>1, <1>7 DEF Live
<1>9. Unsettled' = Unsettled \ made[k] /\ made[k] \subseteq Unsettled
  BY <1>3, <1>4 DEF Unsettled
<1> QED BY <1>5, <1>6, <1>7, <1>8, <1>9

(* The outbox stores, ends or clears a row. *)
LEMMA OutboxGauges == ASSUME Types, Types', Places, Gauges, Outbox PROVE Gauges'
<1>0. UNCHANGED <<made, engine, sup>> /\ books \in Books
  BY DEF Outbox, Stored, Ended, Cleared, Row, report, Types
<1> SUFFICES ASSUME ~sup.refused PROVE Gauges'
  BY <1>0 DEF Gauges
<1>1. /\ books.pending = Cardinality(Unsettled) /\ books.dead = Cardinality(InRows({"dead"}))
      /\ books.batches = Cardinality(Live) /\ books.eligible = books.pending + books.settled /\ books.frozen = Waiting
  BY DEF Gauges
<1>2. books.pending \in Int /\ books.settled \in Int /\ books.dead \in Int /\ books.batches \in Int
  BY <1>0 DEF Books
<1>3. ASSUME NEW k \in BatchIds, Stored(k) \/ Ended(k) PROVE Gauges'
  <2> DEFINE n == Cardinality(made[k])
  <2>1. PICK to \in {"dead", "gone"} :
            /\ rows[k] = "pending" /\ rows' = [rows EXCEPT ![k] = to]
            /\ books' = IF to = "dead" THEN Terminal(books, k) ELSE Removed(books, k, FALSE)
    BY <1>3 DEF Stored, Ended, Row
  <2>2. /\ Unsettled' = Unsettled \ made[k] /\ made[k] \subseteq Unsettled
        /\ InRows({"dead"})' = IF to = "dead" THEN InRows({"dead"}) \cup made[k] ELSE InRows({"dead"})
        /\ InRows({"dead"}) \cap made[k] = {}
        /\ Waiting' = Waiting /\ Live' = Live \ {k} /\ k \in Live
    BY <1>0, <2>1, EndedCounts
  <2>3. /\ made[k] \in SUBSET Events /\ {k} \in SUBSET Events /\ Unsettled \in SUBSET Events /\ Live \in SUBSET Events
        /\ InRows({"dead"}) \in SUBSET Events
    BY CountedSets
  <2>4. n \in Nat /\ Cardinality(Unsettled') = books.pending - n
    BY <1>1, <2>2, <2>3, CountSets
  <2>5. Cardinality(Live') = books.batches - 1
    <3>1. Cardinality({k}) = 1
      BY FS_Singleton
    <3>2. Cardinality(Live \ {k}) = Cardinality(Live) - Cardinality({k})
      BY <2>2, <2>3, CountSets
    <3> QED BY <1>1, <2>2, <3>1, <3>2
  <2>6. Cardinality(InRows({"dead"})') = IF to = "dead" THEN books.dead + n ELSE books.dead
    <3>1. Cardinality(InRows({"dead"}) \cup made[k]) = Cardinality(InRows({"dead"})) + n
      BY <2>2, <2>3, CountSets
    <3> QED BY <1>1, <2>2, <3>1
  <2>7. /\ books'.pending = books.pending - n /\ books'.batches = books.batches - 1
        /\ books'.dead = IF to = "dead" THEN books.dead + n ELSE books.dead
        /\ books'.settled = books.settled + n /\ books'.eligible = books.eligible /\ books'.frozen = books.frozen
    <3>1. CASE to = "dead"
      BY <1>0, <2>1, <3>1 DEF Terminal, Books
    <3>2. CASE to = "gone"
      BY <1>0, <2>1, <3>2 DEF Removed, Books
    <3> QED BY <3>1, <3>2
  <2> HIDE DEF n
  <2>8. books'.eligible = books'.pending + books'.settled
    BY <1>1, <1>2, <2>4, <2>7
  <2>9. books'.pending = Cardinality(Unsettled') /\ books'.dead = Cardinality(InRows({"dead"})')
    BY <2>4, <2>6, <2>7
  <2>10. books'.batches = Cardinality(Live') /\ books'.frozen = Waiting'
    BY <1>1, <2>2, <2>5, <2>7
  <2> QED BY <2>8, <2>9, <2>10 DEF Gauges
<1>4. ASSUME NEW k \in BatchIds, Cleared(k) PROVE Gauges'
  <2> DEFINE n == Cardinality(made[k])
  <2>1. rows[k] = "dead" /\ rows' = [rows EXCEPT ![k] = "gone"] /\ books' = Removed(books, k, TRUE)
    BY <1>4 DEF Cleared, Row
  <2>2. rows'[k] = "gone" /\ \A j \in BatchIds : j # k => rows'[j] = rows[j]
    BY <2>1 DEF Types
  <2>3. Durable' = Durable /\ InRows({"pending"})' = InRows({"pending"})
    BY <1>0, <2>1, <2>2 DEF Durable, InRows
  <2>4. Unsettled' = Unsettled
    BY <1>0, <2>3 DEF Unsettled
  <2>5. Waiting' = Waiting /\ Live' = Live
    <3>1. engine.frozen \subseteq BatchIds
      BY DEF Types, Engine
    <3>2. Waiting' = Waiting
      BY <1>0, <2>1, <2>2, <3>1 DEF Waiting
    <3> QED BY <2>1, <2>2, <3>2 DEF Live
  <2>6. InRows({"dead"})' = InRows({"dead"}) \ made[k] /\ made[k] \subseteq InRows({"dead"})
    <3>1. made[k] \subseteq InRows({"dead"})
      BY <2>1 DEF InRows
    <3>2. InRows({"dead"})' = UNION {made[j] : j \in {i \in BatchIds : rows'[i] = "dead"}}
      BY <1>0 DEF InRows
    <3>3. {i \in BatchIds : rows'[i] = "dead"} = {i \in BatchIds : rows[i] = "dead"} \ {k}
      BY <2>2
    <3>4. InRows({"dead"}) = UNION {made[j] : j \in {i \in BatchIds : rows[i] = "dead"}}
      BY DEF InRows
    <3>5. \A j \in BatchIds : j # k => made[j] \cap made[k] = {}
      BY DEF Places
    <3> QED BY <3>1, <3>2, <3>3, <3>4, <3>5
  <2>7. Cardinality(InRows({"dead"})') = books.dead - n
    <3>1. made[k] \in SUBSET Events /\ InRows({"dead"}) \in SUBSET Events
      BY CountedSets
    <3>2. Cardinality(InRows({"dead"}) \ made[k]) = Cardinality(InRows({"dead"})) - n
      BY <2>6, <3>1, CountSets
    <3> QED BY <1>1, <2>6, <3>2
  <2>8. /\ books'.pending = books.pending /\ books'.batches = books.batches /\ books'.dead = books.dead - n
        /\ books'.settled = books.settled /\ books'.eligible = books.eligible /\ books'.frozen = books.frozen
    BY <1>0, <2>1 DEF Removed, Books
  <2> HIDE DEF n
  <2> QED BY <1>1, <2>4, <2>5, <2>7, <2>8 DEF Gauges
<1> QED BY <1>3, <1>4 DEF Outbox

(* A batch whose row is written is released. *)
LEMMA CommitGauges == ASSUME Types, Types', Places, EnqueueJobs, Rests, Gauges, FlushResult PROVE Gauges'
<1> DEFINE k == worker.reply.batch
           d == CommitBatch(engine, check, k)[1]
<1>0. engine \in Engine /\ worker \in Worker /\ books \in Books
  BY DEF Types
<1>1. UNCHANGED <<made, books, rows, sup>> /\ k \in BatchIds /\ worker.reply # NoReply
  BY <1>0 DEF FlushResult, Worker, NoReply
<1>2. Counted(books, books', 0)
  BY <1>0, <1>1 DEF Counted, Books
<1>3. CASE worker.reply.result # "true"
  <2>1. engine' = engine
    BY <1>3 DEF FlushResult
  <2> QED BY <1>1, <1>2, <2>1, CountsFrame, GaugesFrame
<1>4. CASE worker.reply.result = "true"
  <2>1. k \in engine.frozen
    BY <1>1 DEF EnqueueJobs, Awaits
  <2>2. d.owned = engine.owned \ made[k] /\ d.frozen = engine.frozen \ {k}
    BY <1>0, <2>1, CommitPlaces
  <2>3. d \in Engine
    BY <1>0, <1>1, CommitTypes DEF Types
  <2>4. engine' = [d EXCEPT !.preferCommit = tasks.class # "new"]
    BY <1>4 DEF FlushResult
  <2>5. engine'.owned = engine.owned \ made[k] /\ engine'.frozen = engine.frozen \ {k}
    <3> HIDE DEF d
    <3> QED BY <2>2, <2>3, <2>4 DEF Engine
  <2>6. rows[k] # "none"
    BY <1>4 DEF Rests
  <2> HIDE DEF k, d
  <2>7. made[k] \subseteq Durable /\ Durable' = Durable /\ InRows({"pending"})' = InRows({"pending"})
        /\ InRows({"dead"})' = InRows({"dead"})
    BY <1>1, <2>6 DEF Durable, InRows
  <2>8. Unsettled' = Unsettled
    BY <2>5, <2>7 DEF Unsettled
  <2>9. Waiting' = Waiting
    BY <1>1, <2>5, <2>6 DEF Waiting
  <2>10. Live' = Live
    BY <1>1, <2>9 DEF Live
  <2> QED BY <1>1, <1>2, <2>7, <2>8, <2>9, <2>10, GaugesFrame
<1> QED BY <1>3, <1>4

(* At the cleanup no answer is awaited, so no frozen batch has its row. *)
LEMMA FrozenHaveNoRow ==
    ASSUME Types, EnqueueJobs, Losses, CleanupAbandon, ~sup.refused
    PROVE  \A k \in engine.frozen : rows[k] = "none"
<1>1. tasks.persist = "done"
  BY DEF CleanupAbandon, CleanupReady
<1>2. worker.reply = NoReply
  BY <1>1, NotAwaiting DEF Quiet
<1> QED BY <1>2, NoReplyIs DEF Losses

(* Nor has what is given up. *)
LEMMA OwnedHaveNoRow ==
    ASSUME Types, Places, EnqueueJobs, Losses, CleanupAbandon, ~sup.refused
    PROVE  engine.owned \cap Durable = {}
<1> SUFFICES ASSUME NEW n \in engine.owned, NEW k \in BatchIds, rows[k] # "none", n \in made[k] PROVE FALSE
  BY DEF Durable
<1>1. n \in Batched
  BY DEF Batched
<1>2. PICK j \in engine.frozen : n \in made[j]
  BY <1>1 DEF Places, HeldOnce
<1>3. j = k
  BY <1>2 DEF Places, Types, Engine
<1> QED BY <1>2, <1>3, FrozenHaveNoRow

(* What is given up is what has no row. *)
LEMMA AbandonGauges ==
    ASSUME Types, Types', Places, EnqueueJobs, Losses, Gauges, CleanupAbandon
    PROVE  Gauges'
<1>0. engine \in Engine /\ books \in Books
  BY DEF Types
<1>1. /\ UNCHANGED <<made, rows, sup>> /\ engine'.owned = {} /\ engine'.frozen = {}
      /\ books' = Abandoned(books, engine.owned, engine.frozen)
  BY <1>0 DEF CleanupAbandon, Abandon, Engine
<1> SUFFICES ASSUME ~sup.refused PROVE Gauges'
  BY <1>1 DEF Gauges
<1>2. \A k \in engine.frozen : rows[k] = "none"
  BY FrozenHaveNoRow
<1>3. engine.owned \cap Durable = {}
  BY OwnedHaveNoRow
<1>4. InRows({"pending"}) \subseteq Durable
  BY DEF InRows, Durable
<1>5. Unsettled = engine.owned \cup InRows({"pending"}) /\ engine.owned \cap InRows({"pending"}) = {}
  BY <1>3, <1>4 DEF Unsettled
<1>6. Unsettled' = InRows({"pending"}) /\ InRows({"dead"})' = InRows({"dead"})
  <2>1. InRows({"pending"})' = InRows({"pending"}) /\ InRows({"dead"})' = InRows({"dead"})
    BY <1>1 DEF InRows
  <2> QED BY <1>1, <2>1 DEF Unsettled
<1>7. Waiting = engine.frozen /\ Waiting' = {}
  BY <1>1, <1>2 DEF Waiting
<1>8. Live' = Live \ engine.frozen /\ engine.frozen \subseteq Live
  BY <1>1, <1>2, <1>7 DEF Live
<1>9. /\ engine.owned \in SUBSET Events /\ InRows({"pending"}) \in SUBSET Events /\ Live \in SUBSET Events
       /\ engine.frozen \in SUBSET Events
  BY <1>0, CountedSets DEF Engine
<1> DEFINE lost == Cardinality(engine.owned)
<1>10. lost \in Nat /\ Cardinality(Unsettled') = Cardinality(Unsettled) - lost
  <2>1. Cardinality(engine.owned \cup InRows({"pending"})) = Cardinality(engine.owned) + Cardinality(InRows({"pending"}))
        /\ Cardinality(engine.owned) \in Nat /\ Cardinality(InRows({"pending"})) \in Nat
    BY <1>5, <1>9, CountSets
  <2> QED BY <1>5, <1>6, <2>1
<1>11. Cardinality(Live') = Cardinality(Live) - Cardinality(engine.frozen)
  BY <1>8, <1>9, CountSets
<1>12. /\ books.pending = Cardinality(Unsettled) /\ books.dead = Cardinality(InRows({"dead"}))
       /\ books.batches = Cardinality(Live) /\ books.eligible = books.pending + books.settled
       /\ books.frozen = engine.frozen
  BY <1>7 DEF Gauges
<1>13. engine.frozen \cap books.frozen = engine.frozen /\ books.frozen \ engine.frozen = {}
  BY <1>12
<1>14. /\ books'.pending = books.pending - lost /\ books'.settled = books.settled + lost
       /\ books'.batches = books.batches - Cardinality(engine.frozen) /\ books'.frozen = {}
       /\ books'.dead = books.dead /\ books'.eligible = books.eligible
  BY <1>0, <1>1, <1>13 DEF Abandoned, Books
<1>15. books.pending \in Int /\ books.settled \in Int
  BY <1>0 DEF Books
<1> HIDE DEF lost
<1>16. books'.eligible = books'.pending + books'.settled
  BY <1>10, <1>12, <1>14, <1>15
<1>17. books'.pending = Cardinality(Unsettled') /\ books'.batches = Cardinality(Live')
  BY <1>10, <1>11, <1>12, <1>14
<1> QED BY <1>6, <1>7, <1>12, <1>14, <1>16, <1>17 DEF Gauges

(* Every step. *)
LEMMA GaugesStep ==
    ASSUME Types, Types', Places, Phases, EnqueueJobs, CloseJobs, Decisions, Losses, Rests, Gauges, [Next]_vars
    PROVE  Gauges'
<1>0. engine \in Engine /\ books \in Books
  BY DEF Types
<1>a. ~sup'.refused => ~sup.refused
  BY RefusedForGood
<1>b. ASSUME UNCHANGED <<rows, made, books>>, engine'.owned = engine.owned, engine'.frozen = engine.frozen PROVE Gauges'
  <2>1. Counted(books, books', 0)
    BY <1>0, <1>b DEF Counted, Books
  <2> QED BY <1>a, <1>b, <2>1, CountsFrame, GaugesFrame
<1>1. CASE UNCHANGED vars
  BY <1>1, <1>b DEF vars, report, store
<1>2. CASE Publish \/ TimeChanges \/ Disconnect \/ StopRuntime \/ Close \/ Deadline \/ CloseReturns \/ CleanupShut \/ Refused
  BY <1>2, <1>b DEF Publish, TimeChanges, Disconnect, StopRuntime, Close, Deadline, CloseReturns, CleanupShut, Refused,
                    report, store
<1>3. ASSUME NEW p \in Points, Activate(p) \/ Result(p) \/ Expire(p) PROVE Gauges'
  <2>0. PICK src, value, slot, publish : Emit(p, src, value, slot, publish)
    BY <1>3 DEF Activate, Result, Expire
  <2>1. UNCHANGED <<rows, made, engine, sup>>
    BY <2>0 DEF Emit, store
  <2>2. \E n : \E b \in Captured(books, n) : books' = b \/ books' = Undecided(b, n)
    BY <2>0 DEF Emit
  <2>3. \A n : \A b \in Captured(books, n) : Counted(books, b, 0) /\ Counted(books, Undecided(b, n), 0)
    <3> SUFFICES ASSUME NEW n, NEW b \in Captured(books, n)
                 PROVE  Counted(books, b, 0) /\ Counted(books, Undecided(b, n), 0)
      OBVIOUS
    <3>1. \/ b = [[books EXCEPT !.captured = @ + 1] EXCEPT !.open = @ \cup {n}]
          \/ b = [[books EXCEPT !.captured = @ + 1] EXCEPT !.unknown = TRUE]
          \/ b = [[[books EXCEPT !.captured = @ + 1] EXCEPT !.unknown = TRUE] EXCEPT !.open = {}]
      BY DEF Captured
    <3>2. /\ b.pending = books.pending /\ b.eligible = books.eligible /\ b.settled = books.settled
          /\ b.dead = books.dead /\ b.batches = books.batches /\ b.frozen = books.frozen
      BY <1>0, <3>1 DEF Books
    <3>3. books.pending \in Int /\ books.eligible \in Int /\ books.settled \in Int
      BY <1>0, <3>1 DEF Books
    <3>4. DOMAIN b = DOMAIN books /\ DOMAIN books = {"open", "unknown", "captured", "filtered", "eligible", "undecided",
                                                    "settled", "pending", "dead", "frozen", "batches", "ramLost"}
      BY <1>0, <3>1 DEF Books
    <3> DEFINE u == Undecided(b, n)
    <3>5. /\ u.pending = b.pending /\ u.eligible = b.eligible /\ u.settled = b.settled
          /\ u.dead = b.dead /\ u.batches = b.batches /\ u.frozen = b.frozen
      BY <3>4 DEF Undecided
    <3> HIDE DEF u
    <3>6. Counted(books, b, 0) /\ Counted(books, u, 0)
      BY <3>2, <3>3, <3>5 DEF Counted
    <3> QED BY <3>6 DEF u
  <2>4. Counted(books, books', 0)
    BY <2>2, <2>3
  <2> QED BY <1>a, <2>1, <2>4, CountsFrame, GaugesFrame
<1>4. CASE Run
  BY <1>4, RunGauges
<1>5. CASE Persist
  <2>1. CASE PersistWake \/ PersistEnd \/ Prepared \/ FlushSubmit \/ FlushEnd
    BY <2>1, <1>b DEF PersistWake, PersistEnd, Prepared, FlushSubmit, FlushEnd, PersistOnly, report, store
  <2> QED BY <1>5, <2>1, PrepareGauges, CommitGauges DEF Persist
<1>6. CASE Thread
  <2>1. CASE EnqueueStage \/ GateJob \/ StatsJob \/ CloseJob
    BY <2>1, <1>b DEF EnqueueStage, GateJob, StatsJob, CloseJob, report
  <2> QED BY <1>6, <2>1, InsertGauges DEF Thread
<1>7. CASE Outbox
  BY <1>7, OutboxGauges
<1>8. CASE Connect
  <2>1. engine'.owned = engine.owned /\ engine'.frozen = engine.frozen /\ UNCHANGED <<rows, made, books>>
    BY <1>0, <1>8 DEF Connect, OpenGate, Engine
  <2> QED BY <1>b, <2>1
<1>9. CASE CleanupAbandon
  BY <1>9, AbandonGauges
<1>10. CASE Reload
  <2>1. UNCHANGED <<rows, made, books>> /\ tasks.close = "done"
    BY <1>10 DEF Reload, MayStart
  <2>2. engine.owned = {} /\ engine.frozen = {}
    BY <2>1 DEF Rests
  <2>3. engine'.owned = {} /\ engine'.frozen = {}
    <3>1. NoEngine \in Engine
      BY FreshTypes
    <3>2. \A c, g : SamePlaces(NoEngine, Configure(NoEngine, c, g)[1])
      BY <3>1, ConfigurePlaces
    <3> QED BY <1>10, <3>2 DEF Reload, SamePlaces, NoEngine
  <2> QED BY <1>b, <2>1, <2>2, <2>3
<1> QED BY <1>1, <1>2, <1>3, <1>4, <1>5, <1>6, <1>7, <1>8, <1>9, <1>10 DEF Next, Cleanup

----------------------------------------------------------------------------
(* The course of the capture and of the selection. *)

(* The snapshot in force is the last one; events are captured at points, in *)
(* the order of the time; a batch has one event of a point.                *)
Captures ==
    /\ runtime.snapshot \in {0, boot.gen}
    /\ \A n \in Events : n <= boot.seq => sample[n].point \in Points /\ sample[n].time <= boot.time
    /\ \A m, n \in Events : m <= n /\ n <= boot.seq => sample[m].time <= sample[n].time
    /\ \A k \in BatchIds : \A m, n \in made[k] : sample[m].point = sample[n].point => m = n

(* The first state. *)
LEMMA CapturesInit == Init => Captures
<1> SUFFICES ASSUME Init PROVE Captures
  OBVIOUS
<1>1. boot.seq = 0 /\ runtime.snapshot = 0 /\ \A k \in BatchIds : made[k] = {}
  BY DEF Init
<1>2. \A n \in Events : ~(n <= boot.seq)
  BY <1>1 DEF Events
<1> QED BY <1>1, <1>2 DEF Captures

(* What the capture of an event does. *)
LEMMA EmitIs ==
    ASSUME Types, NEW p \in Points, Activate(p) \/ Result(p) \/ Expire(p)
    PROVE  /\ boot.seq + 1 \in Events /\ boot.seq \in Nat /\ boot'.seq = boot.seq + 1 /\ boot'.time = boot.time
           /\ boot'.gen = boot.gen /\ runtime'.snapshot = runtime.snapshot
           /\ sample'[boot.seq + 1].point = p /\ sample'[boot.seq + 1].time = boot.time
           /\ \A m \in Events : m # boot.seq + 1 => sample'[m] = sample[m]
           /\ UNCHANGED <<engine, check, made, rows, sup>>
<1>0. PICK src, value, slot, publish : Emit(p, src, value, slot, publish)
  BY DEF Activate, Result, Expire
<1>1. boot.seq + 1 \in Events /\ boot.seq \in Nat
  <2>1. boot.seq + 1 <= sup.limit.seq /\ sup.limit \in Limits /\ boot.seq \in Nat
    BY <1>0, Bounds DEF Emit, Types, Capturing, Seqs, Numbers
  <2> QED BY <2>1, LimitsBound, Bounds DEF Seqs, Events, Numbers
<1>2. boot'.seq = boot.seq + 1 /\ boot'.time = boot.time /\ boot'.gen = boot.gen /\ UNCHANGED <<engine, check, made, rows, sup>>
  BY <1>0 DEF Emit, Types, Capturing, store
<1>3. runtime'.snapshot = runtime.snapshot
  BY <1>0 DEF Emit, Types
<1>4. sample' = [sample EXCEPT ![boot.seq + 1] = Capture(p, src, value, slot)]
  BY <1>0 DEF Emit
<1>5. sample'[boot.seq + 1] = Capture(p, src, value, slot) /\ \A m \in Events : m # boot.seq + 1 => sample'[m] = sample[m]
  BY <1>1, <1>4 DEF Types
<1>6. Capture(p, src, value, slot).point = p /\ Capture(p, src, value, slot).time = boot.time
  BY DEF Capture
<1> QED BY <1>1, <1>2, <1>3, <1>5, <1>6

(* A batch has one event of a point. *)
LEMMA BatchPoints ==
    ASSUME NEW q \in SUBSET Events
    PROVE  \A m, n \in FirstBatch(q) : sample[m].point = sample[n].point => m = n
<1> SUFFICES ASSUME NEW m \in FirstBatch(q), NEW n \in FirstBatch(q), sample[m].point = sample[n].point, m # n PROVE FALSE
  OBVIOUS
<1>1. m \in q /\ n \in q /\ m \in Nat /\ n \in Nat
  BY DEF FirstBatch, Events
<1>2. ASSUME NEW i \in q, NEW j \in FirstBatch(q), i < j, sample[i].point = sample[j].point PROVE FALSE
  <2>1. j \in q /\ j \in Nat
    BY DEF FirstBatch, Events
  <2>2. i \in {k \in q : k < j} /\ j <= j
    BY <1>2, <2>1
  <2> QED BY <1>2, <2>1, <2>2 DEF FirstBatch
<1>3. m < n \/ n < m
  BY <1>1
<1> QED BY <1>1, <1>2, <1>3

(* Every step. *)
LEMMA CapturesStep == ASSUME Types, Places, Captures, [Next]_vars PROVE Captures'
<1>0. boot \in Capturing /\ boot.seq \in Nat /\ boot.time \in Nat /\ boot.gen \in Nat
  BY Bounds DEF Types, Capturing, Seqs, Numbers
<1>1. CASE UNCHANGED <<boot, sample, made>> /\ runtime'.snapshot = runtime.snapshot
  BY <1>1 DEF Captures
<1>2. CASE UNCHANGED <<boot, runtime, sample, made>>
  BY <1>1, <1>2
<1>3. CASE Publish \/ StopRuntime \/ Reload
  <2>1. /\ boot'.seq = boot.seq /\ boot'.time = boot.time /\ runtime'.snapshot \in {0, boot'.gen}
        /\ UNCHANGED <<sample, made>>
    BY <1>0, <1>3 DEF Publish, StopRuntime, Reload, Types, Capturing, report
  <2> QED BY <2>1 DEF Captures
<1>4. CASE TimeChanges
  <2>1. /\ boot'.seq = boot.seq /\ boot'.gen = boot.gen /\ boot'.time \in {boot.time, boot.time + 1}
        /\ UNCHANGED <<runtime, sample, made>>
    BY <1>0, <1>4 DEF TimeChanges, Capturing, report
  <2>2. \A n \in Events : n <= boot.seq => sample[n].time <= boot'.time
    BY <1>0, <2>1 DEF Captures, Types, Sample, Capturing
  <2> QED BY <2>1, <2>2 DEF Captures
<1>5. ASSUME NEW p \in Points, Activate(p) \/ Result(p) \/ Expire(p) PROVE Captures'
  <2> DEFINE new == boot.seq + 1
  <2>1. /\ new \in Events /\ boot'.seq = new /\ boot'.time = boot.time
        /\ boot'.gen = boot.gen /\ runtime'.snapshot = runtime.snapshot
        /\ sample'[new].point = p /\ sample'[new].time = boot.time
        /\ \A m \in Events : m # new => sample'[m] = sample[m]
        /\ UNCHANGED made
    BY <1>5, EmitIs
  <2>2. \A n \in Events : n \in Nat /\ (n <= new <=> n <= boot.seq \/ n = new) /\ ~(new <= boot.seq)
    BY <1>0 DEF Events
  <2>a. new \in Nat
    BY <1>0
  <2> HIDE DEF new
  <2>3. \A n \in Events : n <= boot'.seq => sample'[n].point \in Points /\ sample'[n].time <= boot'.time
    BY <1>0, <2>1, <2>2 DEF Captures
  <2>4. \A m, n \in Events : m <= n /\ n <= boot'.seq => sample'[m].time <= sample'[n].time
    <3> SUFFICES ASSUME NEW m \in Events, NEW n \in Events, m <= n, n <= new PROVE sample'[m].time <= sample'[n].time
      BY <2>1
    <3>1. CASE n = new
      BY <2>1, <2>2, <2>3, <2>a, <3>1
    <3>2. CASE n # new
      <4>1. n <= boot.seq /\ m <= boot.seq /\ m # new
        BY <1>0, <2>2, <3>2
      <4> QED BY <2>1, <3>2, <4>1 DEF Captures
    <3> QED BY <3>1, <3>2
  <2>5. \A k \in BatchIds : \A n \in made[k] : n \in Events /\ n # new
    BY <2>2 DEF Places, Batched, Types
  <2>6. \A k \in BatchIds : \A m, n \in made'[k] : sample'[m].point = sample'[n].point => m = n
    BY <2>1, <2>5 DEF Captures
  <2> QED BY <2>1, <2>3, <2>4, <2>6 DEF Captures
<1>6. CASE PrepareBatch
  <2> DEFINE batch == FirstBatch(ClassQueue(NextClass(engine)))
             k == boot.batch + 1
  <2>1. /\ boot'.seq = boot.seq /\ boot'.time = boot.time /\ boot'.gen = boot.gen
        /\ made' = [made EXCEPT ![k] = batch] /\ UNCHANGED <<runtime, sample>>
    BY <1>0, <1>6 DEF PrepareBatch, Capturing, ClassQueue
  <2>2. ClassQueue(NextClass(engine)) \in SUBSET Events
    BY DEF ClassQueue, Types, Engine
  <2>3. \A m, n \in batch : sample[m].point = sample[n].point => m = n
    BY <2>2, BatchPoints
  <2>4. made'[k] = batch /\ \A j \in BatchIds : j # k => made'[j] = made[j]
    BY <1>6, <2>1, PrepareCounts DEF Types
  <2> HIDE DEF batch, k
  <2>5. \A j \in BatchIds : \A m, n \in made'[j] : sample[m].point = sample[n].point => m = n
    BY <2>3, <2>4 DEF Captures
  <2> QED BY <2>1, <2>5 DEF Captures
<1> QED
  BY <1>2, <1>3, <1>4, <1>5, <1>6
  DEF Next, Run, RunAccept, RunIdle, RunDone, Persist,
      PersistWake, PersistEnd, Prepared, PersistOnly, FlushSubmit, FlushEnd, FlushResult,
      Thread, EnqueueStage, EnqueueInsert, GateJob, StatsJob, CloseJob, Outbox, Stored, Ended, Cleared, Row,
      Connect, Disconnect, Close, Deadline, CloseReturns, Cleanup, CleanupAbandon, CleanupShut, Refused,
      vars, capture, report

(* A function of the points holds captured events, each at its own point. *)
OfPoints(f) == \A p \in Points : f[p] # 0 => f[p] <= boot.seq /\ sample[f[p]].point = p

(* Engine and checkpoint have the same configuration; what a point has     *)
(* seen last is of it and makes the epoch; what was admitted is of this or *)
(* of an older one, and what is of this one was seen.                      *)
Course(e, c) ==
    /\ c.gen = e.gen /\ e.gen <= boot.gen
    /\ e.gen = 0 => c.base = NoPoints /\ e.latest = NoPoints /\ e.owned = {} /\ e.frozen = {}
    /\ OfPoints(e.latest) /\ OfPoints(c.base) /\ OfPoints(c.seen)
    /\ \A p \in Points : c.seen[p] # 0 => sample[c.seen[p]].gen = c.gen
    /\ \A p \in Points : c.epoch[p] = IF c.seen[p] = 0 THEN NoEpoch ELSE Epoch(c.seen[p])
    /\ \A n \in e.owned \cup Batched :
          /\ sample[n].gen \in 1..c.gen
          /\ sample[n].gen = c.gen => n <= c.seen[sample[n].point]

(* The first state. *)
LEMMA CourseInit == Init => Course(engine, check)
<1> SUFFICES ASSUME Init PROVE Course(engine, check)
  OBVIOUS
<1>1. /\ engine.gen = 0 /\ check.gen = 0 /\ boot.gen = 0 /\ check.base = NoPoints /\ engine.latest = NoPoints
      /\ engine.owned = {} /\ engine.frozen = {} /\ check.seen = NoPoints
      /\ \A p \in Points : check.epoch[p] = NoEpoch
  BY DEF Init, NoEngine, FreshCheck
<1>2. Batched = {} /\ \A p \in Points : NoPoints[p] = 0
  BY DEF Init, Batched, NoPoints
<1> QED BY <1>1, <1>2 DEF Course, OfPoints

(* What configure does, if the engine does not have the configuration. *)
LEMMA ConfigureIs ==
    ASSUME NEW e \in Engine, NEW c \in Checkpoint, NEW g, e.gen # g
    PROVE  LET d == Configure(e, c, g)[1]
               next == IF c.gen = g THEN c ELSE FreshCheck(g)
               held == IF e.gen = 0 THEN NoPoints ELSE c.base
           IN  /\ d.gen = g /\ d.latest = NoPoints /\ d.shadow = NoPoints /\ d.owned = e.owned /\ d.frozen = e.frozen
               /\ Configure(e, c, g)[2] = next
               /\ \A n \in Events : d.refs[n] = e.refs[n] - Holders(e.latest, n) - Holders(held, n)
                                                + Holders(next.base, n)
<1> DEFINE next == IF c.gen = g THEN c ELSE FreshCheck(g)
           held == IF e.gen = 0 THEN NoPoints ELSE c.base
           refs == [n \in Events |-> e.refs[n] - Holders(e.latest, n) - Holders(held, n) + Holders(next.base, n)]
           d == [e EXCEPT !.gen = g, !.latest = NoPoints, !.shadow = NoPoints, !.refs = refs]
<1>1. Configure(e, c, g) = <<d, next>>
  BY DEF Configure
<1>2. \A n \in Events : refs[n] = e.refs[n] - Holders(e.latest, n) - Holders(held, n) + Holders(next.base, n)
  OBVIOUS
<1>3. d.gen = g /\ d.latest = NoPoints /\ d.shadow = NoPoints /\ d.owned = e.owned /\ d.frozen = e.frozen /\ d.refs = refs
  <2> HIDE DEF refs
  <2> QED BY DEF Engine
<1> HIDE DEF d, refs
<1> QED BY <1>1, <1>2, <1>3

(* configure forgets. *)
LEMMA ConfigureCourse ==
    ASSUME NEW e \in Engine, NEW c \in Checkpoint, Course(e, c), boot \in Capturing, sample \in [Events -> Sample],
           made \in [BatchIds -> SUBSET Events], boot.gen # 0
    PROVE  LET d == Configure(e, c, boot.gen)
           IN  Course(d[1], d[2]) /\ (e.gen # boot.gen => d[2] = FreshCheck(boot.gen))
<1> DEFINE g == boot.gen
<1>0. e.gen \in Nat /\ g \in Nat /\ c.gen = e.gen /\ e.gen <= g
  BY Bounds DEF Engine, Capturing, Course, Numbers
<1>1. CASE e.gen = g
  BY <1>1 DEF Configure
<1>2. CASE e.gen # g
  <2> DEFINE d == Configure(e, c, g)
  <2>1. d[2] = FreshCheck(g) /\ d[1].gen = g /\ d[1].latest = NoPoints /\ d[1].owned = e.owned
    BY <1>0, <1>2, ConfigureIs
  <2>2. /\ d[2].gen = g /\ d[2].base = NoPoints /\ d[2].seen = NoPoints
        /\ \A p \in Points : d[2].epoch[p] = NoEpoch /\ NoPoints[p] = 0
    BY <2>1 DEF FreshCheck, NoPoints
  <2>3. e.owned \cup Batched \subseteq Events
    BY DEF Engine, Batched
  <2>4. ASSUME NEW n \in e.owned \cup Batched PROVE sample[n].gen \in 1..g /\ sample[n].gen # g
    <3>1. sample[n].gen \in 1..e.gen
      BY <1>0 DEF Course
    <3> QED BY <1>0, <1>2, <3>1
  <2>5. g <= boot.gen
    BY <1>0
  <2>6. OfPoints(NoPoints)
    BY <2>2 DEF OfPoints
  <2> HIDE DEF d, g
  <2>7. Course(d[1], d[2])
    BY <1>0, <2>1, <2>2, <2>4, <2>5, <2>6 DEF Course, g
  <2> QED BY <2>1, <2>7 DEF d, g
<1> QED BY <1>1, <1>2

(* What the first part of accept does to the places and the caches. *)
LEMMA SeenIs ==
    ASSUME NEW e \in Engine, NEW c \in Checkpoint, NEW n \in Events, sample \in [Events -> Sample],
           sample[n].point \in Points
    PROVE  LET d == SeenEngine(e, c, n)
               b == SeenCheck(c, n)
               p == sample[n].point
               moved == c.epoch[p] # Epoch(n)
           IN  /\ d.gen = e.gen /\ d.owned = e.owned /\ d.frozen = e.frozen /\ d.latest[p] \in {0, n}
               /\ \A q \in Points : q # p => d.latest[q] = e.latest[q] /\ d.shadow[q] = e.shadow[q]
               /\ d.shadow[p] = IF moved THEN 0 ELSE e.shadow[p]
               /\ b.gen = c.gen /\ b.seen[p] = n /\ b.epoch[p] = Epoch(n)
               /\ b.base[p] = IF moved THEN 0 ELSE c.base[p]
               /\ \A q \in Points : q # p => b.seen[q] = c.seen[q] /\ b.epoch[q] = c.epoch[q] /\ b.base[q] = c.base[q]
<1> DEFINE p == sample[n].point
           moved == c.epoch[p] # Epoch(n)
           refs == Forget(Forget(e.refs, e.latest[p]), IF moved THEN c.base[p] ELSE 0)
           shadow == [e.shadow EXCEPT ![p] = IF moved THEN 0 ELSE @]
           latest == [e.latest EXCEPT ![p] = 0]
           gone == [e EXCEPT !.shadow = shadow, !.latest = latest, !.refs = refs]
           kept == [gone EXCEPT !.latest = [latest EXCEPT ![p] = n], !.refs = Retain(refs, n)]
<1>1. /\ gone.gen = e.gen /\ gone.owned = e.owned /\ gone.frozen = e.frozen /\ gone.shadow = shadow
      /\ gone.latest = latest /\ gone.refs = refs
      /\ kept.gen = e.gen /\ kept.owned = e.owned /\ kept.frozen = e.frozen /\ kept.shadow = shadow
      /\ kept.latest = [latest EXCEPT ![p] = n]
  <2> HIDE DEF shadow, latest, refs
  <2> QED BY DEF Engine
<1>2. SeenEngine(e, c, n) \in {gone, kept}
  <2>1. gone = [e EXCEPT !.shadow[p] = IF moved THEN 0 ELSE @, !.latest[p] = 0, !.refs = Forget(Forget(@, e.latest[p]), IF moved THEN c.base[p] ELSE 0)]
    BY DEF Engine
  <2>2. kept = [gone EXCEPT !.latest[p] = n, !.refs = Retain(@, n)]
    <3> HIDE DEF latest, refs, shadow
    <3> QED BY <1>1 DEF Engine
  <2> QED BY <2>1, <2>2 DEF SeenEngine
<1>3. /\ latest[p] = 0 /\ [latest EXCEPT ![p] = n][p] = n /\ shadow[p] = IF moved THEN 0 ELSE e.shadow[p]
      /\ \A q \in Points : q # p => latest[q] = e.latest[q] /\ [latest EXCEPT ![p] = n][q] = e.latest[q] /\ shadow[q] = e.shadow[q]
  BY DEF Engine
<1>4. LET b == SeenCheck(c, n)
      IN  /\ b.gen = c.gen /\ b.seen[p] = n /\ b.epoch[p] = Epoch(n) /\ b.base[p] = IF moved THEN 0 ELSE c.base[p]
          /\ \A q \in Points : q # p => b.seen[q] = c.seen[q] /\ b.epoch[q] = c.epoch[q] /\ b.base[q] = c.base[q]
  BY DEF SeenCheck, Checkpoint
<1>5. LET d == SeenEngine(e, c, n)
      IN  /\ d.gen = e.gen /\ d.owned = e.owned /\ d.frozen = e.frozen /\ d.latest[p] \in {0, n}
          /\ \A q \in Points : q # p => d.latest[q] = e.latest[q] /\ d.shadow[q] = e.shadow[q]
          /\ d.shadow[p] = IF moved THEN 0 ELSE e.shadow[p]
  <2> DEFINE d == SeenEngine(e, c, n)
  <2>1. CASE d = gone
    <3> HIDE DEF gone, kept, latest, shadow, moved, p
    <3> QED BY <1>1, <1>3, <2>1
  <2>2. CASE d = kept
    <3>1. d.latest[p] = n /\ \A q \in Points : q # p => d.latest[q] = e.latest[q]
      <4> HIDE DEF gone, kept, latest, shadow, moved, p
      <4> QED BY <1>1, <1>3, <2>2
    <3> HIDE DEF gone, kept, latest, shadow, moved, p
    <3> QED BY <1>1, <1>3, <2>2, <3>1
  <2> QED BY <1>2, <2>1, <2>2
<1> QED BY <1>4, <1>5

(* accept sees the event, and admits it or not. *)
LEMMA AcceptIs ==
    ASSUME NEW e \in Engine, NEW c \in Checkpoint, NEW b, NEW n \in Events
    PROVE  LET d == Accept(e, c, b, n)
               e1 == SeenEngine(e, c, n)
           IN  \/ d[1] = e /\ d[2] = c
               \/ /\ e.gen # 0 /\ sample[n].gen = e.gen /\ ~(n <= c.seen[sample[n].point])
                  /\ d[2] = SeenCheck(c, n)
                  /\ d[1] = e1 \/ (CanAdmit(e1, n) /\ d[1] = Admit(e1, n))
BY DEF Accept

(* What admits an event. *)
LEMMA AdmitIs ==
    ASSUME NEW e \in Engine, NEW n \in Events, sample[n].point \in Points
    PROVE  LET d == Admit(e, n)
           IN  /\ d.gen = e.gen /\ d.latest = e.latest /\ d.owned = e.owned \cup {n} /\ d.frozen = e.frozen
               /\ d.shadow[sample[n].point] = n
               /\ \A q \in Points : q # sample[n].point => d.shadow[q] = e.shadow[q]
               /\ d.refs = Retain(e.refs, n)
BY DEF Admit, Engine

(* accept goes on with the events of the configuration. *)
LEMMA AcceptCourse ==
    ASSUME NEW e \in Engine, NEW c \in Checkpoint, NEW b, NEW n \in Events, Course(e, c), n <= boot.seq,
           sample[n].point \in Points, sample \in [Events -> Sample], made \in [BatchIds -> SUBSET Events]
    PROVE  LET d == Accept(e, c, b, n) IN Course(d[1], d[2])
<1> DEFINE d == Accept(e, c, b, n)
           e1 == SeenEngine(e, c, n)
           c1 == SeenCheck(c, n)
           p == sample[n].point
<1>1. CASE d[1] = e /\ d[2] = c
  BY <1>1
<1>2. CASE /\ e.gen # 0 /\ sample[n].gen = e.gen /\ ~(n <= c.seen[p])
           /\ d[2] = c1
           /\ d[1] = e1 \/ d[1] = Admit(e1, n)
  <2>1. e1 \in Engine /\ c1 \in Checkpoint
    BY SeenTypes
  <2>2. /\ e1.gen = e.gen /\ e1.owned = e.owned /\ e1.frozen = e.frozen /\ e1.latest[p] \in {0, n}
        /\ \A q \in Points : q # p => e1.latest[q] = e.latest[q]
        /\ c1.gen = c.gen /\ c1.seen[p] = n /\ c1.epoch[p] = Epoch(n) /\ c1.base[p] \in {0, c.base[p]}
        /\ \A q \in Points : q # p => c1.seen[q] = c.seen[q] /\ c1.epoch[q] = c.epoch[q] /\ c1.base[q] = c.base[q]
    BY SeenIs
  <2>3. d[1].gen = e.gen /\ d[1].latest = e1.latest /\ d[1].owned \in {e.owned, e.owned \cup {n}}
    BY <1>2, <2>1, <2>2, AdmitIs
  <2>4. n # 0 /\ n \in Nat /\ e.gen \in Nat /\ c.gen = e.gen /\ c.seen[p] \in Nat
    BY DEF Events, Engine, Course, Checkpoint, Seqs
  <2> HIDE DEF d, e1, c1, p
  <2>5. OfPoints(d[1].latest)
    BY <2>2, <2>3 DEF OfPoints, Course, p
  <2>6. OfPoints(c1.base) /\ OfPoints(c1.seen)
    BY <2>2 DEF OfPoints, Course, p
  <2>7. \A q \in Points : /\ c1.seen[q] # 0 => sample[c1.seen[q]].gen = c1.gen
                          /\ c1.epoch[q] = IF c1.seen[q] = 0 THEN NoEpoch ELSE Epoch(c1.seen[q])
    BY <1>2, <2>2, <2>4 DEF Course, p
  <2>8. ASSUME NEW m \in e.owned \cup Batched
        PROVE  sample[m].gen \in 1..c1.gen /\ (sample[m].gen = c1.gen => m <= c1.seen[sample[m].point])
    <3>0. m \in Events
      BY DEF Engine, Batched
    <3>1. sample[m].gen \in 1..c.gen /\ (sample[m].gen = c.gen => m <= c.seen[sample[m].point])
      BY DEF Course
    <3>2. CASE sample[m].point = p
      <4>1. m <= c.seen[p] => m <= n
        BY <1>2, <2>4, <3>0 DEF Events
      <4> QED BY <2>2, <3>1, <3>2, <4>1
    <3>3. CASE sample[m].gen # c.gen
      BY <2>2, <3>1, <3>3
    <3>4. CASE sample[m].point \in Points \ {p}
      BY <2>2, <3>1, <3>4
    <3>5. CASE sample[m].point \notin Points
      <4>1. c1.seen = [c.seen EXCEPT ![p] = n]
        BY DEF c1, SeenCheck, Checkpoint, p
      <4> QED BY <3>1, <3>5, <4>1, <2>2 DEF Checkpoint
    <3> QED BY <3>2, <3>3, <3>4, <3>5
  <2>9. sample[n].gen \in 1..c1.gen /\ n <= c1.seen[sample[n].point]
    BY <1>2, <2>2, <2>4 DEF p
  <2>10. \A m \in d[1].owned \cup Batched : sample[m].gen \in 1..c1.gen /\ (sample[m].gen = c1.gen => m <= c1.seen[sample[m].point])
    BY <2>3, <2>8, <2>9
  <2> QED BY <1>2, <2>2, <2>3, <2>4, <2>5, <2>6, <2>7, <2>10 DEF Course, d
<1> QED BY <1>1, <1>2, AcceptIs

(* What committed of batch k makes of the engine e and the checkpoint c:   *)
(* d and b.                                                                *)
CommitEffect(e, c, k, d, b) ==
    /\ d.gen = e.gen /\ d.latest = e.latest /\ d.owned = e.owned \ made[k] /\ d.frozen = e.frozen \ {k}
    /\ b.gen = c.gen /\ b.seen = c.seen /\ b.epoch = c.epoch
    /\ \A p \in Points : /\ (\A n \in Adopted(c, made[k]) : sample[n].point # p) => b.base[p] = c.base[p]
                         /\ \A n \in Adopted(c, made[k]) : sample[n].point = p => b.base[p] = n
    /\ \A p \in Points :
          d.shadow[p] = IF \E n \in made[k] : sample[n].point = p /\ c.epoch[p] = Epoch(n)
                        THEN Newest({n \in e.owned \ made[k] : sample[n].point = p /\ Epoch(n) = c.epoch[p]})
                        ELSE e.shadow[p]
    /\ \A n \in Events : d.refs[n] = e.refs[n] - Bit(n \in made[k]) + Bit(n \in Adopted(c, made[k]))
                                     - Bit(\E p \in Points : c.base[p] = n /\ b.base[p] # n)

(* That is what it does. *)
LEMMA CommitIs ==
    ASSUME NEW e \in Engine, NEW c \in Checkpoint, NEW k \in BatchIds, k \in e.frozen,
           made \in [BatchIds -> SUBSET Events],
           \A m, n \in made[k] : sample[m].point = sample[n].point => m = n
    PROVE  CommitEffect(e, c, k, CommitBatch(e, c, k)[1], CommitBatch(e, c, k)[2])
<1> DEFINE batch == made[k]
           adopted == Adopted(c, batch)
           of(p, S) == {n \in S : sample[n].point = p}
           base == [p \in Points |-> IF of(p, adopted) = {} THEN c.base[p] ELSE Newest(of(p, adopted))]
           left == e.owned \ batch
           shadow == [p \in Points |->
                         IF \E n \in of(p, batch) : c.epoch[p] = Epoch(n)
                         THEN Newest({n \in of(p, left) : Epoch(n) = c.epoch[p]}) ELSE e.shadow[p]]
           refs == [n \in Events |-> e.refs[n] - Bit(n \in batch) + Bit(n \in adopted)
                                     - Bit(\E p \in Points : c.base[p] = n /\ base[p] # n)]
           d == [e EXCEPT !.owned = left, !.frozen = @ \ {k}, !.fresh = @ \ {k}, !.shadow = shadow, !.refs = refs]
           b == [c EXCEPT !.base = base]
<1>1. CommitBatch(e, c, k) = <<d, b>>
  BY DEF CommitBatch
<1>2. /\ d.gen = e.gen /\ d.latest = e.latest /\ d.owned = left /\ d.frozen = e.frozen \ {k} /\ d.shadow = shadow
      /\ d.refs = refs
  <2> HIDE DEF left, shadow, refs
  <2> QED BY DEF Engine
<1>3. b.gen = c.gen /\ b.seen = c.seen /\ b.epoch = c.epoch /\ b.base = base
  <2> HIDE DEF base
  <2> QED BY DEF Checkpoint
<1>4. adopted \subseteq batch /\ batch \subseteq Events
  BY DEF Adopted
<1>5. ASSUME NEW p \in Points
      PROVE  /\ (\A n \in adopted : sample[n].point # p) => base[p] = c.base[p]
             /\ \A n \in adopted : sample[n].point = p => base[p] = n
  <2>1. base[p] = IF of(p, adopted) = {} THEN c.base[p] ELSE Newest(of(p, adopted))
    OBVIOUS
  <2>2. (\A n \in adopted : sample[n].point # p) => of(p, adopted) = {}
    OBVIOUS
  <2>3. ASSUME NEW n \in adopted, sample[n].point = p PROVE base[p] = n
    <3>1. of(p, adopted) = {n}
      <4> HIDE DEF adopted
      <4> QED BY <1>4, <2>3
    <3>2. {n} \subseteq Events
      BY <1>4
    <3>3. Newest({n}) \in {n}
      BY <3>2, NewestIs
    <3> HIDE DEF adopted, base
    <3> QED BY <2>1, <3>1, <3>3
  <2> HIDE DEF base, adopted, of
  <2> QED BY <2>1, <2>2, <2>3
<1>6. \A p \in Points :
          shadow[p] = IF \E n \in batch : sample[n].point = p /\ c.epoch[p] = Epoch(n)
                      THEN Newest({n \in left : sample[n].point = p /\ Epoch(n) = c.epoch[p]}) ELSE e.shadow[p]
  <2> SUFFICES ASSUME NEW p \in Points
               PROVE  shadow[p] = IF \E n \in batch : sample[n].point = p /\ c.epoch[p] = Epoch(n)
                                  THEN Newest({n \in left : sample[n].point = p /\ Epoch(n) = c.epoch[p]}) ELSE e.shadow[p]
    OBVIOUS
  <2>1. shadow[p] = IF \E n \in of(p, batch) : c.epoch[p] = Epoch(n)
                    THEN Newest({n \in of(p, left) : Epoch(n) = c.epoch[p]}) ELSE e.shadow[p]
    OBVIOUS
  <2>2. {n \in of(p, left) : Epoch(n) = c.epoch[p]} = {n \in left : sample[n].point = p /\ Epoch(n) = c.epoch[p]}
    OBVIOUS
  <2>3. (\E n \in of(p, batch) : c.epoch[p] = Epoch(n)) <=> \E n \in batch : sample[n].point = p /\ c.epoch[p] = Epoch(n)
    OBVIOUS
  <2> HIDE DEF shadow, left, batch
  <2> QED BY <2>1, <2>2, <2>3
<1>7. \A n \in Events : refs[n] = e.refs[n] - Bit(n \in batch) + Bit(n \in adopted)
                                  - Bit(\E p \in Points : c.base[p] = n /\ base[p] # n)
  <2> HIDE DEF base, adopted
  <2> QED OBVIOUS
<1>8. CommitBatch(e, c, k)[1] = d /\ CommitBatch(e, c, k)[2] = b
  <2> HIDE DEF d, b
  <2> QED BY <1>1
<1>9. \A p \in Points : /\ (\A n \in adopted : sample[n].point # p) => b.base[p] = c.base[p]
                        /\ \A n \in adopted : sample[n].point = p => b.base[p] = n
  <2> HIDE DEF base, adopted, b
  <2> QED BY <1>3, <1>5
<1>10. ASSUME NEW n \in Events
       PROVE  d.refs[n] = e.refs[n] - Bit(n \in batch) + Bit(n \in adopted)
                          - Bit(\E p \in Points : c.base[p] = n /\ b.base[p] # n)
  <2> HIDE DEF base, adopted, b, d, refs
  <2>1. (\E p \in Points : c.base[p] = n /\ b.base[p] # n) <=> (\E p \in Points : c.base[p] = n /\ base[p] # n)
    BY <1>3
  <2>2. Bit(\E p \in Points : c.base[p] = n /\ b.base[p] # n) = Bit(\E p \in Points : c.base[p] = n /\ base[p] # n)
    BY <2>1 DEF Bit
  <2>3. refs[n] = e.refs[n] - Bit(n \in batch) + Bit(n \in adopted)
                  - Bit(\E p \in Points : c.base[p] = n /\ base[p] # n)
    BY <1>7
  <2> QED BY <1>2, <2>2, <2>3
<1>11. \A p \in Points :
          d.shadow[p] = IF \E n \in batch : sample[n].point = p /\ c.epoch[p] = Epoch(n)
                        THEN Newest({n \in left : sample[n].point = p /\ Epoch(n) = c.epoch[p]}) ELSE e.shadow[p]
  <2> HIDE DEF d, shadow
  <2> QED BY <1>2, <1>6
<1> HIDE DEF d, b
<1>12. CommitEffect(e, c, k, d, b)
  BY <1>2, <1>3, <1>9, <1>10, <1>11, Zenon DEF CommitEffect
<1> QED BY <1>8, <1>12

(* committed replaces baselines by events of the batch. *)
LEMMA CommitCourse ==
    ASSUME NEW e \in Engine, NEW c \in Checkpoint, NEW k \in BatchIds, k \in e.frozen, Course(e, c),
           made \in [BatchIds -> SUBSET Events], \A n \in made[k] : n <= boot.seq,
           \A m, n \in made[k] : sample[m].point = sample[n].point => m = n
    PROVE  LET d == CommitBatch(e, c, k) IN Course(d[1], d[2])
<1> DEFINE d == CommitBatch(e, c, k)[1]
           b == CommitBatch(e, c, k)[2]
           adopted == Adopted(c, made[k])
<1>0. CommitEffect(e, c, k, d, b)
  BY CommitIs
<1> HIDE DEF d, b
<1>1. /\ d.gen = e.gen /\ d.latest = e.latest /\ d.owned = e.owned \ made[k] /\ d.frozen = e.frozen \ {k}
      /\ b.gen = c.gen /\ b.seen = c.seen /\ b.epoch = c.epoch
      /\ \A p \in Points : /\ (\A n \in adopted : sample[n].point # p) => b.base[p] = c.base[p]
                           /\ \A n \in adopted : sample[n].point = p => b.base[p] = n
  BY <1>0, Zenon DEF CommitEffect
<1>2. adopted \subseteq made[k] /\ e.gen # 0
  BY DEF Adopted, Course
<1> HIDE DEF adopted
<1>3. OfPoints(b.base)
  <2> SUFFICES ASSUME NEW p \in Points, b.base[p] # 0 PROVE b.base[p] <= boot.seq /\ sample[b.base[p]].point = p
    BY DEF OfPoints
  <2>1. CASE \E n \in adopted : sample[n].point = p
    BY <1>1, <1>2, <2>1
  <2>2. CASE \A n \in adopted : sample[n].point # p
    BY <1>1, <2>2 DEF Course, OfPoints
  <2> QED BY <2>1, <2>2
<1>4. Course(d, b)
  BY <1>1, <1>2, <1>3 DEF Course
<1> QED BY <1>4 DEF d, b

(* Only engine and checkpoint move. *)
LEMMA CourseUnder ==
    ASSUME UNCHANGED <<boot, sample, made>>, Course(engine', check')
    PROVE  Course(engine, check)'
BY DEF Course, OfPoints, Epoch, Batched

(* Events and batches are added, and what is owned becomes less. *)
LEMMA CourseFrame ==
    ASSUME Types, Places, Course(engine, check), check' = check, engine'.gen = engine.gen, engine'.latest = engine.latest,
           engine'.owned \subseteq engine.owned, engine.gen = 0 => engine'.frozen = {},
           Batched' \subseteq Batched \cup engine.owned, boot'.gen \in Nat, boot.gen <= boot'.gen,
           boot'.seq \in Nat, boot.seq <= boot'.seq, \A m \in Events : m <= boot.seq => sample'[m] = sample[m]
    PROVE  Course(engine, check)'
<1>0. /\ boot.seq \in Nat /\ boot.gen \in Nat /\ engine.gen \in Nat /\ check \in Checkpoint /\ engine \in Engine
      /\ engine.owned \subseteq Events /\ Batched \subseteq Events
  BY Bounds DEF Types, Capturing, Seqs, Numbers, Engine, Batched
<1>1. \A f \in [Points -> Seqs] : OfPoints(f) =>
          \A p \in Points : f[p] # 0 => f[p] <= boot'.seq /\ sample'[f[p]].point = p /\ sample'[f[p]] = sample[f[p]]
  <2> SUFFICES ASSUME NEW f \in [Points -> Seqs], OfPoints(f), NEW p \in Points, f[p] # 0
               PROVE  f[p] <= boot'.seq /\ sample'[f[p]].point = p /\ sample'[f[p]] = sample[f[p]]
    OBVIOUS
  <2>1. f[p] <= boot.seq /\ f[p] \in Events /\ f[p] \in Nat /\ sample[f[p]].point = p
    BY DEF OfPoints, Seqs, Events
  <2> QED BY <1>0, <2>1
<1>2. engine.latest \in [Points -> Seqs] /\ check.base \in [Points -> Seqs] /\ check.seen \in [Points -> Seqs]
  BY <1>0 DEF Engine, Checkpoint
<1>3. OfPoints(engine.latest)' /\ OfPoints(check.base)' /\ OfPoints(check.seen)'
  BY <1>1, <1>2 DEF OfPoints, Course
<1>4. \A p \in Points : check.seen[p] # 0 => sample'[check.seen[p]] = sample[check.seen[p]]
  BY <1>1, <1>2 DEF Course
<1>5. \A p \in Points : /\ check'.seen[p] # 0 => sample'[check'.seen[p]].gen = check'.gen
                        /\ check'.epoch[p] = IF check'.seen[p] = 0 THEN NoEpoch ELSE Epoch(check.seen[p])'
  BY <1>4 DEF Course, Epoch
<1>6. \A n \in engine'.owned \cup Batched' :
          /\ sample'[n].gen \in 1..check'.gen
          /\ sample'[n].gen = check'.gen => n <= check'.seen[sample'[n].point]
  <2>1. \A n \in engine'.owned \cup Batched' : n \in engine.owned \cup Batched /\ n \in Events /\ n <= boot.seq
    BY <1>0 DEF Places
  <2> QED BY <2>1 DEF Course
<1>7. engine'.gen <= boot'.gen
  BY <1>0 DEF Course
<1>8. engine.gen = 0 => engine'.owned = {}
  BY DEF Course
<1> QED BY <1>3, <1>5, <1>6, <1>7, <1>8 DEF Course, Epoch

(* The ingress task, in two parts. *)
LEMMA ConfiguredCourse == ASSUME Types, Captures, Course(engine, check) PROVE Course(Configured[1], Configured[2])
<1>1. CASE runtime.snapshot = 0
  BY <1>1 DEF Configured
<1>2. CASE runtime.snapshot # 0
  <2>1. runtime.snapshot = boot.gen
    BY <1>2 DEF Captures
  <2> QED BY <1>2, <2>1, ConfigureCourse DEF Configured, Types
<1> QED BY <1>1, <1>2

(* Every step. *)
LEMMA CourseStep == ASSUME Types, Types', Places, Captures, Course(engine, check), [Next]_vars PROVE Course(engine, check)'
<1>0. /\ boot \in Capturing /\ boot.seq \in Nat /\ boot.gen \in Nat /\ boot'.seq \in Nat /\ boot'.gen \in Nat
      /\ engine \in Engine /\ check \in Checkpoint /\ sample \in [Events -> Sample] /\ made \in [BatchIds -> SUBSET Events]
      /\ boot.seq <= boot.seq /\ boot.gen <= boot.gen
  BY Bounds DEF Types, Capturing, Seqs, Numbers
<1>1. ASSUME UNCHANGED <<sample, made, check, engine>>, boot'.seq = boot.seq, boot.gen <= boot'.gen PROVE Course(engine, check)'
  <2>1. Batched' = Batched
    BY <1>1 DEF Batched
  <2>2. engine.gen = 0 => engine'.frozen = {}
    BY <1>1 DEF Course
  <2> QED BY <1>0, <1>1, <2>1, <2>2, CourseFrame
<1>2. CASE UNCHANGED <<boot, sample, made, check, engine>>
  BY <1>0, <1>1, <1>2
<1>3. CASE Publish \/ TimeChanges
  <2>1. boot'.seq = boot.seq /\ boot.gen <= boot'.gen /\ UNCHANGED <<sample, made, check, engine>>
    <3>1. CASE Publish
      BY <1>0, <3>1 DEF Publish, Capturing, report
    <3>2. CASE TimeChanges
      BY <1>0, <3>2 DEF TimeChanges, Capturing, report
    <3> QED BY <1>3, <3>1, <3>2
  <2> QED BY <1>1, <2>1
<1>4. ASSUME NEW p \in Points, Activate(p) \/ Result(p) \/ Expire(p) PROVE Course(engine, check)'
  <2>1. /\ boot'.seq = boot.seq + 1 /\ boot'.gen = boot.gen /\ UNCHANGED <<made, check, engine>>
        /\ \A m \in Events : m # boot.seq + 1 => sample'[m] = sample[m]
    BY <1>4, EmitIs
  <2>2. Batched' = Batched
    BY <2>1 DEF Batched
  <2>3. engine.gen = 0 => engine'.frozen = {}
    BY <2>1 DEF Course
  <2>4. boot.seq <= boot'.seq /\ \A m \in Events : m <= boot.seq => sample'[m] = sample[m]
    BY <1>0, <2>1 DEF Events
  <2> QED BY <1>0, <2>1, <2>2, <2>3, <2>4, CourseFrame
<1>5. CASE RunAccept
  <2> DEFINE n == Oldest(ingress)
  <2>1. n \in Events /\ n <= boot.seq /\ sample[n].point \in Points
    <3>1. ingress \subseteq Nat /\ ingress # {} /\ ingress \subseteq Events
      BY <1>5 DEF RunAccept, Types, Events
    <3>2. n \in ingress
      BY <3>1, OldestIs
    <3> QED BY <3>1, <3>2 DEF Places, Captures
  <2>2. Configured[1] \in Engine /\ Configured[2] \in Checkpoint /\ Course(Configured[1], Configured[2])
    BY ConfiguredTypes, ConfiguredCourse
  <2>3. /\ engine' = Accept(Configured[1], Configured[2], books, n)[1]
        /\ check' = Accept(Configured[1], Configured[2], books, n)[2] /\ UNCHANGED <<boot, sample, made>>
    BY <1>5 DEF RunAccept, capture
  <2> HIDE DEF n
  <2>4. Course(engine', check')
    BY <1>0, <2>1, <2>2, <2>3, AcceptCourse
  <2> QED BY <2>3, <2>4, CourseUnder
<1>6. CASE RunIdle
  <2>1. engine' = Configured[1] /\ check' = Configured[2] /\ UNCHANGED <<boot, sample, made>>
    BY <1>6 DEF RunIdle, capture
  <2> QED BY <2>1, ConfiguredCourse, CourseUnder
<1>7. CASE PrepareBatch
  <2> DEFINE batch == FirstBatch(ClassQueue(NextClass(engine)))
  <2>1. /\ boot'.seq = boot.seq /\ boot'.gen = boot.gen /\ UNCHANGED <<sample, check>>
        /\ made' = [made EXCEPT ![boot.batch + 1] = batch]
        /\ engine'.gen = engine.gen /\ engine'.latest = engine.latest /\ engine'.owned = engine.owned
    BY <1>0, <1>7 DEF PrepareBatch, Freeze, Capturing, ClassQueue, Engine
  <2>2. batch # {} /\ batch \subseteq engine.owned
    BY <1>7, PreparedBatchIs DEF PrepareBatch
  <2>3. \A j \in BatchIds : made'[j] \subseteq made[j] \cup batch
    BY <1>0, <2>1
  <2> HIDE DEF batch
  <2>4. Batched' \subseteq Batched \cup engine.owned
    BY <2>2, <2>3 DEF Batched
  <2>5. engine.gen # 0
    BY <2>2 DEF Course
  <2> QED BY <1>0, <2>1, <2>4, <2>5, CourseFrame
<1>8. CASE FlushResult
  <2> DEFINE k == worker.reply.batch
             d == CommitBatch(engine, check, k)
  <2>1. k \in BatchIds /\ UNCHANGED <<boot, sample, made>>
    BY <1>8 DEF FlushResult, Types, Worker, NoReply, capture
  <2>2. CASE engine' = engine /\ check' = check
    BY <1>2, <2>1, <2>2
  <2>3. CASE engine' = [d[1] EXCEPT !.preferCommit = tasks.class # "new"] /\ check' = d[2]
    <3>1. d[1] \in Engine /\ d[2] \in Checkpoint
      BY <1>0, <2>1, CommitTypes
    <3>2. Course(d[1], d[2])
      <4>1. CASE k \notin engine.frozen
        BY <4>1 DEF CommitBatch
      <4>2. CASE k \in engine.frozen
        <5>1. \A n \in made[k] : n <= boot.seq
          BY <2>1 DEF Places, Batched
        <5>2. \A m, n \in made[k] : sample[m].point = sample[n].point => m = n
          BY <2>1 DEF Captures
        <5> QED BY <1>0, <2>1, <4>2, <5>1, <5>2, CommitCourse
      <4> QED BY <4>1, <4>2
    <3> HIDE DEF d
    <3>3. engine'.gen = d[1].gen /\ engine'.latest = d[1].latest /\ engine'.owned = d[1].owned /\ engine'.frozen = d[1].frozen
      BY <2>3, <3>1 DEF Engine
    <3>4. Course(engine', check')
      BY <2>3, <3>2, <3>3 DEF Course
    <3> QED BY <2>1, <3>4, CourseUnder
  <2> QED BY <1>8, <2>2, <2>3 DEF FlushResult
<1>9. CASE Connect \/ CleanupAbandon
  <2>1. UNCHANGED <<boot, sample, made, check>>
    BY <1>9 DEF Connect, CleanupAbandon, capture
  <2>2. /\ engine'.gen = engine.gen /\ engine'.latest = engine.latest /\ engine'.owned \subseteq engine.owned
        /\ engine'.frozen \subseteq engine.frozen
    BY <1>0, <1>9 DEF Connect, CleanupAbandon, OpenGate, Abandon, Engine
  <2>3. Batched' = Batched
    BY <2>1 DEF Batched
  <2>4. engine.gen = 0 => engine'.frozen = {}
    BY <2>2 DEF Course
  <2> QED BY <1>0, <2>1, <2>2, <2>3, <2>4, CourseFrame
<1>10. CASE Reload
  <2>1. UNCHANGED <<boot, sample, made>> /\ NoEngine \in Engine
    BY <1>10, FreshTypes DEF Reload
  <2>2. NoEngine.gen = 0 /\ NoEngine.latest = NoPoints /\ NoEngine.owned = {} /\ NoEngine.frozen = {}
    BY DEF NoEngine
  <2>3. OfPoints(NoPoints)
    BY DEF OfPoints, NoPoints
  <2>4. engine.gen \in Nat /\ check.gen = engine.gen /\ engine.gen <= boot.gen
    BY <1>0, Bounds DEF Engine, Course, Numbers
  <2>5. CASE boot.gen = 0
    <3>1. engine' = NoEngine /\ check' = check
      BY <1>10, <2>5 DEF Reload
    <3>2. engine.gen = 0
      BY <2>4, <2>5
    <3>3. Course(engine', check')
      BY <2>2, <2>3, <2>4, <3>1, <3>2 DEF Course
    <3> QED BY <2>1, <3>3, CourseUnder
  <2>6. CASE boot.gen # 0
    <3> DEFINE d == Configure(NoEngine, check, boot.gen)
    <3>1. engine' = d[1] /\ check' = d[2]
      BY <1>10, <2>6 DEF Reload
    <3>2. /\ d[1].gen = boot.gen /\ d[1].latest = NoPoints /\ d[1].owned = {}
          /\ d[2] = IF check.gen = boot.gen THEN check ELSE FreshCheck(boot.gen)
      BY <1>0, <2>1, <2>2, <2>6, ConfigureIs
    <3> HIDE DEF d
    <3>3. CASE check.gen = boot.gen
      <4>1. Course(engine', check')
        BY <1>0, <2>3, <2>4, <2>6, <3>1, <3>2, <3>3 DEF Course
      <4> QED BY <2>1, <4>1, CourseUnder
    <3>4. CASE check.gen # boot.gen
      <4> DEFINE b == FreshCheck(boot.gen)
      <4>1. b.gen = boot.gen /\ b.base = NoPoints /\ b.seen = NoPoints /\ \A p \in Points : b.epoch[p] = NoEpoch /\ NoPoints[p] = 0
        BY DEF FreshCheck, NoPoints
      <4>2. \A n \in Batched : sample[n].gen \in 1..boot.gen /\ sample[n].gen # boot.gen
        <5> SUFFICES ASSUME NEW n \in Batched PROVE sample[n].gen \in 1..boot.gen /\ sample[n].gen # boot.gen
          OBVIOUS
        <5>1. sample[n].gen \in 1..check.gen
          BY DEF Course
        <5> QED BY <1>0, <2>4, <3>4, <5>1
      <4> HIDE DEF b
      <4>3. Course(engine', b)
        BY <1>0, <2>3, <2>6, <3>1, <3>2, <4>1, <4>2 DEF Course
      <4>4. check' = b
        BY <3>1, <3>2, <3>4 DEF b
      <4> QED BY <2>1, <4>3, <4>4, CourseUnder
    <3> QED BY <3>3, <3>4
  <2> QED BY <2>5, <2>6
<1> QED
  BY <1>2, <1>3, <1>4, <1>5, <1>6, <1>7, <1>8, <1>9, <1>10
  DEF Next, Run, RunDone, Persist, PersistWake, PersistEnd, Prepared, PersistOnly, FlushSubmit, FlushEnd,
      Thread, EnqueueStage, EnqueueInsert, GateJob, StatsJob, CloseJob, Outbox, Stored, Ended, Cleared, Row,
      Disconnect, StopRuntime, Close, Deadline, CloseReturns, Cleanup, CleanupShut, Refused,
      vars, capture, report

----------------------------------------------------------------------------
(* Charges. *)

(* Whether a point holds the event. *)
Held(f, n) == Bit(\E p \in Points : f[p] = n)

(* The memory charged is the memory held. *)
Charged(e, c) ==
    /\ \A n \in Events : e.refs[n] = Bit(n \in e.owned) + Held(e.latest, n) + Held(c.base, n)
    /\ Used(e) <= MaxBytes

(* Where every event is held at its own point, it is held once. *)
LEMMA HeldIs ==
    ASSUME NEW f, OfPoints(f), NEW n \in Events
    PROVE  Holders(f, n) = Held(f, n)
<1>0. n # 0
  BY DEF Events
<1>1. CASE \E p \in Points : f[p] = n
  <2>1. PICK p \in Points : f[p] = n
    BY <1>1
  <2>2. {q \in Points : f[q] = n} = {p}
    BY <1>0, <2>1 DEF OfPoints
  <2>3. Cardinality({p}) = 1
    BY FS_Singleton
  <2> QED BY <1>1, <2>2, <2>3 DEF Holders, Held, Bit
<1>2. CASE ~\E p \in Points : f[p] = n
  <2>1. {q \in Points : f[q] = n} = {}
    BY <1>2
  <2>2. Cardinality({}) = 0
    BY FS_EmptySet
  <2> QED BY <1>2, <2>1, <2>2 DEF Holders, Held, Bit
<1> QED BY <1>1, <1>2

(* No point holds an event. *)
LEMMA NoneHeld == OfPoints(NoPoints) /\ \A n \in Events : Held(NoPoints, n) = 0 /\ Holders(NoPoints, n) = 0
<1>1. OfPoints(NoPoints)
  BY DEF OfPoints, NoPoints
<1>2. \A n \in Events : Held(NoPoints, n) = 0
  BY DEF Held, NoPoints, Bit, Events
<1> QED BY <1>1, <1>2, HeldIs

(* One point holds another event, or none. *)
LEMMA HeldMoves ==
    ASSUME NEW f, NEW h, OfPoints(f), OfPoints(h), NEW p \in Points, \A q \in Points : q # p => h[q] = f[q],
           NEW n \in Events
    PROVE  Held(h, n) = Held(f, n) - Bit(f[p] = n) + Bit(h[p] = n)
<1>0. n # 0
  BY DEF Events
<1>1. CASE f[p] = n
  <2>1. \A q \in Points : q # p => f[q] # n
    BY <1>0, <1>1 DEF OfPoints
  <2>2. Held(f, n) = 1 /\ Bit(f[p] = n) = 1
    BY <1>1 DEF Held, Bit
  <2>3. Held(h, n) = Bit(h[p] = n) /\ Bit(h[p] = n) \in Int
    BY <2>1 DEF Held, Bit
  <2> QED BY <2>2, <2>3
<1>2. CASE f[p] # n /\ h[p] = n
  <2>1. \A q \in Points : f[q] # n
    BY <1>0, <1>2 DEF OfPoints
  <2> QED BY <1>2, <2>1 DEF Held, Bit
<1>3. CASE f[p] # n /\ h[p] # n
  <2>1. (\E q \in Points : h[q] = n) <=> (\E q \in Points : f[q] = n)
    BY <1>3
  <2> QED BY <1>3, <2>1 DEF Held, Bit
<1> QED BY <1>1, <1>2, <1>3

(* The property. *)
LEMMA ChargesAreRight == ASSUME Types, Course(engine, check), Charged(engine, check) PROVE ChargedIsHeld
<1> SUFFICES ASSUME NEW n \in Events
             PROVE  engine.refs[n] = Bit(n \in engine.owned) + Holders(engine.latest, n)
                                     + (IF engine.gen = 0 THEN 0 ELSE Holders(check.base, n))
  BY DEF ChargedIsHeld, Charged
<1>1. OfPoints(engine.latest) /\ OfPoints(check.base) /\ (engine.gen = 0 => check.base = NoPoints)
  BY DEF Course
<1>2. Holders(engine.latest, n) = Held(engine.latest, n) /\ Holders(check.base, n) = Held(check.base, n)
  BY <1>1, HeldIs
<1>3. engine.gen = 0 => Held(check.base, n) = 0
  BY <1>1, NoneHeld
<1>4. engine.refs[n] = Bit(n \in engine.owned) + Held(engine.latest, n) + Held(check.base, n)
  BY DEF Charged
<1> QED BY <1>2, <1>3, <1>4

(* Less is charged. *)
LEMMA UsedLess ==
    ASSUME NEW e \in Engine, NEW d \in Engine, \A n \in Events : d.refs[n] > 0 => e.refs[n] > 0, d.frozen \subseteq e.frozen
    PROVE  Used(d) <= Used(e)
<1> DEFINE D == {n \in Events : d.refs[n] > 0}
           E == {n \in Events : e.refs[n] > 0}
<1>1. D \subseteq E /\ E \subseteq Events /\ D \subseteq Events /\ d.frozen \subseteq Events /\ e.frozen \subseteq Events
  BY DEF Engine, BatchIds, Events
<1>2. IsFiniteSet(E) /\ IsFiniteSet(e.frozen) /\ Cardinality(D) \in Nat /\ Cardinality(E) \in Nat
      /\ Cardinality(d.frozen) \in Nat /\ Cardinality(e.frozen) \in Nat
  BY <1>1, EventsFinite
<1>3. Cardinality(D) <= Cardinality(E) /\ Cardinality(d.frozen) <= Cardinality(e.frozen)
  BY <1>1, <1>2, FS_Subset
<1>4. Used(d) = Cardinality(D) + Cardinality(d.frozen) /\ Used(e) = Cardinality(E) + Cardinality(e.frozen)
  BY DEF Used
<1> HIDE DEF D, E
<1> QED BY <1>2, <1>3, <1>4

(* One more event is charged, or the same ones. *)
LEMMA UsedMore ==
    ASSUME NEW e \in Engine, NEW d \in Engine, NEW n \in Events, e.refs[n] \in Nat, d.refs = Retain(e.refs, n),
           d.frozen = e.frozen
    PROVE  Used(d) = Used(e) + Bit(e.refs[n] = 0) /\ Used(d) <= Used(e) + 1
<1> DEFINE D == {m \in Events : d.refs[m] > 0}
           E == {m \in Events : e.refs[m] > 0}
<1>0. n # 0
  BY DEF Events
<1>1. d.refs[n] = e.refs[n] + 1 /\ \A m \in Events : m # n => d.refs[m] = e.refs[m]
  BY <1>0 DEF Retain, Engine
<1>2. D = E \cup {n} /\ (n \in E <=> e.refs[n] # 0)
  BY <1>1
<1>3. E \subseteq Events /\ e.frozen \subseteq Events
  BY DEF Engine, BatchIds, Events
<1>4. IsFiniteSet(E) /\ Cardinality(E) \in Nat /\ Cardinality(e.frozen) \in Nat
  BY <1>3, EventsFinite
<1>5. Used(d) = Cardinality(D) + Cardinality(e.frozen) /\ Used(e) = Cardinality(E) + Cardinality(e.frozen)
  BY DEF Used
<1> HIDE DEF D, E
<1>6. CASE e.refs[n] = 0
  <2>1. Cardinality(D) = Cardinality(E) + 1
    BY <1>2, <1>4, <1>6, FS_AddElement
  <2>2. Bit(e.refs[n] = 0) = 1
    BY <1>6 DEF Bit
  <2> QED BY <1>4, <1>5, <2>1, <2>2
<1>7. CASE e.refs[n] # 0
  <2>1. D = E
    BY <1>2, <1>7
  <2>2. Bit(e.refs[n] = 0) = 0
    BY <1>7 DEF Bit
  <2> QED BY <1>4, <1>5, <2>1, <2>2
<1> QED BY <1>6, <1>7

(* The first state. *)
LEMMA ChargedInit == Charged(NoEngine, FreshCheck(0)) /\ Used(NoEngine) = 0 /\ \A n \in Events : NoEngine.refs[n] = 0
<1>1. NoEngine.owned = {} /\ NoEngine.latest = NoPoints /\ NoEngine.frozen = {} /\ \A n \in Events : NoEngine.refs[n] = 0
  BY DEF NoEngine
<1>2. FreshCheck(0).base = NoPoints
  BY DEF FreshCheck
<1>3. Used(NoEngine) = 0
  <2>1. {n \in Events : NoEngine.refs[n] > 0} = {}
    BY <1>1
  <2>2. Cardinality({}) = 0
    BY FS_EmptySet
  <2> QED BY <1>1, <2>1, <2>2 DEF Used
<1>4. 0 <= MaxBytes
  BY Bounds DEF Numbers
<1>5. \A n \in Events : Bit(n \in {}) = 0
  BY DEF Bit
<1>6. \A n \in Events : NoEngine.refs[n] = Bit(n \in NoEngine.owned) + Held(NoEngine.latest, n) + Held(FreshCheck(0).base, n)
  BY <1>1, <1>2, <1>5, NoneHeld
<1> QED BY <1>1, <1>3, <1>4, <1>6 DEF Charged

(* The charges are numbers. *)
LEMMA ChargeIsNumber == \A f : \A n \in Events : Held(f, n) \in {0, 1}
BY DEF Held, Bit

(* configure lets go of the caches and of the baselines. *)
LEMMA ConfigureCharged ==
    ASSUME NEW e \in Engine, NEW c \in Checkpoint, Course(e, c), Charged(e, c), boot \in Capturing, boot.gen # 0
    PROVE  LET d == Configure(e, c, boot.gen) IN Charged(d[1], d[2])
<1> DEFINE g == boot.gen
           d == Configure(e, c, g)[1]
           held == IF e.gen = 0 THEN NoPoints ELSE c.base
<1>1. CASE e.gen = g
  BY <1>1 DEF Configure
<1>2. CASE e.gen # g
  <2>0. c.gen = e.gen /\ held = c.base /\ OfPoints(e.latest) /\ OfPoints(c.base)
    BY DEF Course
  <2>1. FreshCheck(g).base = NoPoints
    BY DEF FreshCheck
  <2>2. /\ d.latest = NoPoints /\ d.owned = e.owned /\ d.frozen = e.frozen /\ Configure(e, c, g)[2] = FreshCheck(g)
        /\ \A n \in Events : d.refs[n] = e.refs[n] - Holders(e.latest, n) - Holders(held, n)
                                         + Holders(FreshCheck(g).base, n)
    BY <1>2, <2>0, ConfigureIs
  <2>3. d \in Engine
    <3>1. g \in 0..MaxGen
      BY DEF Capturing
    <3> QED BY <3>1, ConfigureTypes
  <2> HIDE DEF d, held, g
  <2>4. ASSUME NEW n \in Events
        PROVE  /\ d.refs[n] = Bit(n \in d.owned) /\ Bit(n \in d.owned) \in {0, 1} /\ Held(NoPoints, n) = 0
               /\ d.refs[n] > 0 => e.refs[n] > 0
    <3>1. /\ Holders(e.latest, n) = Held(e.latest, n) /\ Holders(held, n) = Held(c.base, n)
          /\ Holders(FreshCheck(g).base, n) = 0 /\ Held(NoPoints, n) = 0
      BY <2>0, <2>1, HeldIs, NoneHeld
    <3>2. e.refs[n] = Bit(n \in e.owned) + Held(e.latest, n) + Held(c.base, n)
      BY DEF Charged
    <3>3. Held(e.latest, n) \in {0, 1} /\ Held(c.base, n) \in {0, 1}
      BY ChargeIsNumber
    <3>4. Bit(n \in e.owned) \in {0, 1}
      BY DEF Bit
    <3>5. d.refs[n] = e.refs[n] - Holders(e.latest, n) - Holders(held, n) + Holders(FreshCheck(g).base, n)
      BY <2>2
    <3>6. d.refs[n] = Bit(n \in e.owned)
      BY <3>1, <3>2, <3>3, <3>4, <3>5
    <3> QED BY <2>2, <3>1, <3>2, <3>3, <3>4, <3>6
  <2>5. Used(d) <= Used(e) /\ Used(d) \in Nat /\ Used(e) \in Nat
    BY <2>2, <2>3, <2>4, UsedLess, UsedCount
  <2>6. Used(d) <= MaxBytes
    BY <2>5, Bounds DEF Charged, Numbers
  <2>7. Charged(d, FreshCheck(g))
    BY <2>1, <2>2, <2>4, <2>6 DEF Charged
  <2> QED BY <2>2, <2>7 DEF d, g
<1> QED BY <1>1, <1>2

(* Referring to an event and forgetting it, one by one. *)
LEMMA RefersIs ==
    ASSUME NEW refs \in [Events -> Int], NEW x \in Seqs, NEW m \in Events
    PROVE  Forget(refs, x)[m] = refs[m] - Bit(x = m) /\ Retain(refs, x)[m] = refs[m] + Bit(x = m)
<1>1. CASE x = m
  <2>1. x # 0 /\ Bit(x = m) = 1
    BY <1>1 DEF Events, Bit
  <2> QED BY <1>1, <2>1 DEF Forget, Retain
<1>2. CASE x # m
  <2>1. Bit(x = m) = 0 /\ refs[m] \in Int
    BY <1>2 DEF Bit
  <2> QED BY <1>2, <2>1 DEF Forget, Retain
<1> QED BY <1>1, <1>2

(* What the first part of accept charges: the new event instead of the old *)
(* one and of the baseline of an epoch that is over.                       *)
LEMMA SeenCharges ==
    ASSUME NEW e \in Engine, NEW c \in Checkpoint, NEW n \in Events, sample \in [Events -> Sample],
           sample[n].point \in Points, \A m \in Events : e.refs[m] \in Nat, Used(e) <= MaxBytes,
           \A m \in Events : e.refs[m] >= Bit(e.latest[sample[n].point] = m) + Bit(c.base[sample[n].point] = m)
    PROVE  LET d == SeenEngine(e, c, n)
               p == sample[n].point
               lost == IF c.epoch[p] # Epoch(n) THEN c.base[p] ELSE 0
           IN  /\ \A m \in Events : d.refs[m] = e.refs[m] - Bit(e.latest[p] = m) - Bit(lost = m) + Bit(d.latest[p] = m)
               /\ Used(d) <= MaxBytes
<1> DEFINE p == sample[n].point
           moved == c.epoch[p] # Epoch(n)
           lost == IF moved THEN c.base[p] ELSE 0
           refs == Forget(Forget(e.refs, e.latest[p]), lost)
           shadow == [e.shadow EXCEPT ![p] = IF moved THEN 0 ELSE @]
           latest == [e.latest EXCEPT ![p] = 0]
           gone == [e EXCEPT !.shadow = shadow, !.latest = latest, !.refs = refs]
           kept == [gone EXCEPT !.latest = [latest EXCEPT ![p] = n], !.refs = Retain(refs, n)]
           d == SeenEngine(e, c, n)
<1>0. 0 \in Seqs /\ n \in Seqs /\ e.latest[p] \in Seqs /\ c.base[p] \in Seqs /\ lost \in Seqs /\ \A m \in Events : m # 0
  BY Bounds DEF Engine, Checkpoint, Seqs, Events, Numbers
<1>1. /\ gone.frozen = e.frozen /\ gone.latest = latest /\ gone.refs = refs
      /\ kept.frozen = e.frozen /\ kept.latest = [latest EXCEPT ![p] = n] /\ kept.refs = Retain(refs, n)
  <2> HIDE DEF shadow, latest, refs
  <2> QED BY DEF Engine
<1>2. d = IF Used(gone) + 1 <= MaxBytes - Reserve THEN kept ELSE gone
  <2>1. gone = [e EXCEPT !.shadow[p] = IF moved THEN 0 ELSE @, !.latest[p] = 0, !.refs = Forget(Forget(@, e.latest[p]), lost)]
    BY DEF Engine
  <2>2. kept = [gone EXCEPT !.latest[p] = n, !.refs = Retain(@, n)]
    <3> HIDE DEF latest, refs, shadow
    <3> QED BY <1>1 DEF Engine
  <2> QED BY <2>1, <2>2 DEF SeenEngine
<1>3. refs \in [Events -> Int] /\ e.refs \in [Events -> Int] /\ Forget(e.refs, e.latest[p]) \in [Events -> Int]
  BY ReferTypes DEF Engine
<1>4. latest[p] = 0 /\ [latest EXCEPT ![p] = n][p] = n
  BY DEF Engine
<1>5. gone \in Engine /\ kept \in Engine
  <2>1. shadow \in [Points -> Seqs] /\ latest \in [Points -> Seqs] /\ [latest EXCEPT ![p] = n] \in [Points -> Seqs]
    BY <1>0 DEF Engine
  <2>2. Retain(refs, n) \in [Events -> Int]
    BY <1>3, ReferTypes
  <2>3. gone \in Engine
    <3> HIDE DEF refs, shadow, latest
    <3> QED BY <1>3, <2>1 DEF Engine
  <2>4. kept \in Engine
    <3> HIDE DEF gone, refs, latest
    <3> QED BY <2>1, <2>2, <2>3 DEF Engine
  <2> QED BY <2>3, <2>4
<1> HIDE DEF gone, kept, latest, shadow, d
<1>6. ASSUME NEW m \in Events
      PROVE  /\ refs[m] = e.refs[m] - Bit(e.latest[p] = m) - Bit(lost = m) /\ refs[m] \in Nat /\ refs[m] <= e.refs[m]
             /\ Retain(refs, n)[m] = refs[m] + Bit(n = m) /\ Bit(0 = m) = 0
  <2>1. refs[m] = Forget(e.refs, e.latest[p])[m] - Bit(lost = m)
    <3> HIDE DEF lost
    <3> QED BY <1>0, <1>3, RefersIs
  <2>2. Forget(e.refs, e.latest[p])[m] = e.refs[m] - Bit(e.latest[p] = m)
    BY <1>0, <1>3, RefersIs
  <2>3. Retain(refs, n)[m] = refs[m] + Bit(n = m)
    <3> HIDE DEF refs
    <3> QED BY <1>0, <1>3, RefersIs
  <2>4. Bit(0 = m) = 0 /\ Bit(lost = m) <= Bit(c.base[p] = m) /\ Bit(lost = m) \in {0, 1} /\ Bit(c.base[p] = m) \in {0, 1}
    BY <1>0 DEF Bit
  <2>5. Bit(e.latest[p] = m) \in {0, 1}
    BY DEF Bit
  <2>6. e.refs[m] >= Bit(e.latest[p] = m) + Bit(c.base[p] = m) /\ e.refs[m] \in Nat
    OBVIOUS
  <2> HIDE DEF refs, lost, p
  <2> QED BY <2>1, <2>2, <2>3, <2>4, <2>5, <2>6
<1> HIDE DEF refs
<1>7. Used(gone) <= Used(e)
  <2>1. \A m \in Events : gone.refs[m] > 0 => e.refs[m] > 0
    <3> SUFFICES ASSUME NEW m \in Events, gone.refs[m] > 0 PROVE e.refs[m] > 0
      OBVIOUS
    <3>1. gone.refs[m] \in Nat /\ gone.refs[m] <= e.refs[m] /\ e.refs[m] \in Nat
      BY <1>1, <1>6
    <3> QED BY <3>1
  <2> QED BY <1>1, <1>5, <2>1, UsedLess
<1>8. Used(kept) <= Used(gone) + 1
  <2>1. gone.refs[n] \in Nat /\ kept.refs = Retain(gone.refs, n) /\ kept.frozen = gone.frozen
    BY <1>1, <1>6
  <2> QED BY <1>5, <2>1, UsedMore
<1>9. Used(gone) \in Nat /\ Used(kept) \in Nat /\ Used(e) \in Nat /\ MaxBytes \in Nat /\ Reserve \in Nat
  BY <1>5, UsedCount, Bounds DEF Numbers
<1>10. CASE d = gone /\ ~(Used(gone) + 1 <= MaxBytes - Reserve)
  <2>1. Used(d) <= MaxBytes
    BY <1>7, <1>9, <1>10
  <2>2. \A m \in Events : d.refs[m] = e.refs[m] - Bit(e.latest[p] = m) - Bit(lost = m) + Bit(d.latest[p] = m)
    <3> SUFFICES ASSUME NEW m \in Events
                 PROVE  d.refs[m] = e.refs[m] - Bit(e.latest[p] = m) - Bit(lost = m) + Bit(d.latest[p] = m)
      OBVIOUS
    <3>1. d.refs[m] = refs[m] /\ d.latest[p] = 0
      BY <1>1, <1>4, <1>10
    <3>2. Bit(d.latest[p] = m) = 0
      BY <1>0, <3>1 DEF Bit
    <3>3. refs[m] = e.refs[m] - Bit(e.latest[p] = m) - Bit(lost = m) /\ refs[m] \in Nat
      BY <1>6
    <3> HIDE DEF lost
    <3> QED BY <3>1, <3>2, <3>3
  <2> QED BY <2>1, <2>2 DEF d
<1>11. CASE d = kept /\ Used(gone) + 1 <= MaxBytes - Reserve
  <2>1. Used(d) <= MaxBytes
    BY <1>8, <1>9, <1>11
  <2>2. \A m \in Events : d.refs[m] = e.refs[m] - Bit(e.latest[p] = m) - Bit(lost = m) + Bit(d.latest[p] = m)
    <3> SUFFICES ASSUME NEW m \in Events
                 PROVE  d.refs[m] = e.refs[m] - Bit(e.latest[p] = m) - Bit(lost = m) + Bit(d.latest[p] = m)
      OBVIOUS
    <3>1. d.refs[m] = refs[m] + Bit(n = m) /\ d.latest[p] = n
      <4>1. d.refs = Retain(refs, n) /\ d.latest = [latest EXCEPT ![p] = n]
        BY <1>1, <1>11
      <4>2. Retain(refs, n)[m] = refs[m] + Bit(n = m)
        BY <1>6
      <4> QED BY <1>4, <4>1, <4>2
    <3>2. Bit(d.latest[p] = m) = Bit(n = m)
      BY <3>1
    <3>3. refs[m] = e.refs[m] - Bit(e.latest[p] = m) - Bit(lost = m)
      BY <1>6
    <3> HIDE DEF lost
    <3> QED BY <3>1, <3>2, <3>3
  <2> QED BY <2>1, <2>2 DEF d
<1> QED BY <1>2, <1>10, <1>11

(* What is charged for two events of a point is at least there. *)
LEMMA ChargedEnough ==
    ASSUME NEW e \in Engine, NEW c \in Checkpoint, Charged(e, c)
    PROVE  \A m \in Events : /\ e.refs[m] \in Nat
                             /\ \A p \in Points : e.refs[m] >= Bit(e.latest[p] = m) + Bit(c.base[p] = m)
<1> SUFFICES ASSUME NEW m \in Events
             PROVE  /\ e.refs[m] \in Nat
                    /\ \A p \in Points : e.refs[m] >= Bit(e.latest[p] = m) + Bit(c.base[p] = m)
  OBVIOUS
<1>1. e.refs[m] = Bit(m \in e.owned) + Held(e.latest, m) + Held(c.base, m)
  BY DEF Charged
<1>2. Bit(m \in e.owned) \in {0, 1}
  BY DEF Bit
<1>3. Held(e.latest, m) \in {0, 1} /\ Held(c.base, m) \in {0, 1}
  BY ChargeIsNumber
<1>4. ASSUME NEW p \in Points PROVE e.refs[m] >= Bit(e.latest[p] = m) + Bit(c.base[p] = m)
  <2>1. Held(e.latest, m) >= Bit(e.latest[p] = m) /\ Held(c.base, m) >= Bit(c.base[p] = m)
    BY DEF Held, Bit
  <2>2. Bit(e.latest[p] = m) \in {0, 1} /\ Bit(c.base[p] = m) \in {0, 1}
    BY DEF Bit
  <2> QED BY <1>1, <1>2, <1>3, <2>1, <2>2
<1> QED BY <1>1, <1>2, <1>3, <1>4

(* accept charges what it keeps. *)
LEMMA AcceptCharged ==
    ASSUME NEW e \in Engine, NEW c \in Checkpoint, NEW b, NEW n \in Events, Course(e, c), Charged(e, c), n <= boot.seq,
           n \notin e.owned,
           sample[n].point \in Points, sample \in [Events -> Sample], made \in [BatchIds -> SUBSET Events]
    PROVE  LET d == Accept(e, c, b, n) IN Charged(d[1], d[2])
<1> DEFINE d == Accept(e, c, b, n)
           e1 == SeenEngine(e, c, n)
           c1 == SeenCheck(c, n)
           p == sample[n].point
           moved == c.epoch[p] # Epoch(n)
           lost == IF moved THEN c.base[p] ELSE 0
<1>1. CASE d[1] = e /\ d[2] = c
  BY <1>1
<1>2. CASE d[2] = c1 /\ (d[1] = e1 \/ (CanAdmit(e1, n) /\ d[1] = Admit(e1, n)))
  <2>1. e1 \in Engine /\ c1 \in Checkpoint
    BY SeenTypes
  <2>2. /\ e1.owned = e.owned /\ e1.latest[p] \in {0, n} /\ \A q \in Points : q # p => e1.latest[q] = e.latest[q]
        /\ c1.base[p] = IF moved THEN 0 ELSE c.base[p]
        /\ \A q \in Points : q # p => c1.base[q] = c.base[q]
    BY SeenIs
  <2>3. OfPoints(e.latest) /\ OfPoints(c.base)
    BY DEF Course
  <2>4. OfPoints(e1.latest) /\ OfPoints(c1.base)
    <3> HIDE DEF e1, c1, moved
    <3> QED BY <2>2, <2>3 DEF OfPoints
  <2>5. /\ \A m \in Events : e1.refs[m] = e.refs[m] - Bit(e.latest[p] = m) - Bit(lost = m) + Bit(e1.latest[p] = m)
        /\ Used(e1) <= MaxBytes
    <3>1. Used(e) <= MaxBytes
      BY DEF Charged
    <3>2. \A m \in Events : e.refs[m] \in Nat /\ e.refs[m] >= Bit(e.latest[p] = m) + Bit(c.base[p] = m)
      BY ChargedEnough
    <3> QED BY <3>1, <3>2, SeenCharges
  <2> HIDE DEF e1, c1
  <2>6. ASSUME NEW m \in Events PROVE e1.refs[m] = Bit(m \in e1.owned) + Held(e1.latest, m) + Held(c1.base, m)
    <3>1. Held(e1.latest, m) = Held(e.latest, m) - Bit(e.latest[p] = m) + Bit(e1.latest[p] = m)
      BY <2>2, <2>3, <2>4, HeldMoves
    <3>2. Held(c1.base, m) = Held(c.base, m) - Bit(c.base[p] = m) + Bit(c1.base[p] = m)
      BY <2>2, <2>3, <2>4, HeldMoves
    <3>3. Bit(c.base[p] = m) - Bit(c1.base[p] = m) = Bit(lost = m)
      <4>1. m # 0
        BY DEF Events
      <4>2. CASE moved
        <5>1. c1.base[p] = 0 /\ lost = c.base[p]
          BY <2>2, <4>2
        <5> HIDE DEF lost, moved, p
        <5> QED BY <4>1, <5>1 DEF Bit
      <4>3. CASE ~moved
        <5>1. c1.base[p] = c.base[p] /\ lost = 0
          BY <2>2, <4>3
        <5> HIDE DEF lost, moved, p
        <5> QED BY <4>1, <5>1 DEF Bit
      <4> QED BY <4>2, <4>3
    <3>4. e.refs[m] = Bit(m \in e.owned) + Held(e.latest, m) + Held(c.base, m)
      BY DEF Charged
    <3>5. e1.refs[m] = e.refs[m] - Bit(e.latest[p] = m) - Bit(lost = m) + Bit(e1.latest[p] = m)
      BY <2>5
    <3>6. Held(e.latest, m) \in Int /\ Held(c.base, m) \in Int
      BY ChargeIsNumber
    <3>7. /\ Bit(m \in e.owned) \in Int /\ Bit(e.latest[p] = m) \in Int /\ Bit(e1.latest[p] = m) \in Int
          /\ Bit(c.base[p] = m) \in Int /\ Bit(c1.base[p] = m) \in Int
      BY DEF Bit
    <3>8. Bit(m \in e1.owned) = Bit(m \in e.owned)
      BY <2>2
    <3> HIDE DEF lost, p
    <3> QED BY <3>1, <3>2, <3>3, <3>4, <3>5, <3>6, <3>7, <3>8
  <2>7. CASE d[1] = e1
    BY <1>2, <2>5, <2>6, <2>7 DEF Charged
  <2>8. CASE CanAdmit(e1, n) /\ d[1] = Admit(e1, n)
    <3> DEFINE a == Admit(e1, n)
    <3>1. a.latest = e1.latest /\ a.owned = e1.owned \cup {n} /\ a.frozen = e1.frozen /\ a.refs = Retain(e1.refs, n)
      BY <2>1, AdmitIs
    <3>2. a \in Engine
      BY <2>1, AdmitTypes
    <3> HIDE DEF a
    <3>3. e1.refs[n] \in Nat
      <4>1. e1.refs[n] = Bit(n \in e1.owned) + Held(e1.latest, n) + Held(c1.base, n)
        BY <2>6
      <4>2. Held(e1.latest, n) \in Nat /\ Held(c1.base, n) \in Nat
        BY ChargeIsNumber
      <4>3. Bit(n \in e1.owned) \in Nat
        BY DEF Bit
      <4> QED BY <4>1, <4>2, <4>3
    <3>4. Used(a) = Used(e1) + Bit(e1.refs[n] = 0)
      BY <2>1, <3>1, <3>2, <3>3, UsedMore
    <3>5. Used(a) <= MaxBytes
      <4>1. Used(a) <= MaxBytes - Reserve
        BY <2>8, <3>4 DEF CanAdmit
      <4>2. Used(a) \in Nat
        BY <3>2, UsedCount
      <4> QED BY <4>1, <4>2, Bounds DEF Numbers
    <3>6. ASSUME NEW m \in Events PROVE a.refs[m] = Bit(m \in a.owned) + Held(a.latest, m) + Held(c1.base, m)
      <4>1. a.refs[m] = e1.refs[m] + Bit(n = m)
        <5>1. n \in Seqs /\ e1.refs \in [Events -> Int]
          BY <2>1, Bounds DEF Events, Seqs, Numbers, Engine
        <5> QED BY <3>1, <5>1, RefersIs
      <4>2. Bit(m \in a.owned) = Bit(m \in e1.owned) + Bit(n = m) /\ Bit(m \in e1.owned) \in Int /\ Bit(n = m) \in Int
        BY <2>2, <3>1 DEF Bit
      <4>3. e1.refs[m] = Bit(m \in e1.owned) + Held(e1.latest, m) + Held(c1.base, m)
        BY <2>6
      <4>4. Held(e1.latest, m) \in Int /\ Held(c1.base, m) \in Int
        BY ChargeIsNumber
      <4> QED BY <3>1, <4>1, <4>2, <4>3, <4>4
    <3> QED BY <1>2, <2>8, <3>5, <3>6 DEF Charged, a
  <2> QED BY <1>2, <2>7, <2>8
<1> QED BY <1>1, <1>2, AcceptIs

(* committed charges the baselines instead of the batch. *)
LEMMA CommitCharged ==
    ASSUME NEW e \in Engine, NEW c \in Checkpoint, NEW k \in BatchIds, k \in e.frozen, Course(e, c), Charged(e, c),
           made \in [BatchIds -> SUBSET Events], made[k] \subseteq e.owned,
           \A n \in made[k] : n <= boot.seq /\ sample[n].point \in Points,
           \A m, n \in made[k] : sample[m].point = sample[n].point => m = n
    PROVE  LET d == CommitBatch(e, c, k) IN Charged(d[1], d[2])
<1> DEFINE d == CommitBatch(e, c, k)[1]
           b == CommitBatch(e, c, k)[2]
           adopted == Adopted(c, made[k])
           replaced(n) == \E p \in Points : c.base[p] = n /\ b.base[p] # n
<1>0. CommitEffect(e, c, k, d, b)
  BY CommitIs
<1>a. d \in Engine /\ b \in Checkpoint
  BY CommitTypes
<1> HIDE DEF d, b
<1>1. /\ d.latest = e.latest /\ d.owned = e.owned \ made[k] /\ d.frozen = e.frozen \ {k}
      /\ \A p \in Points : /\ (\A n \in adopted : sample[n].point # p) => b.base[p] = c.base[p]
                           /\ \A n \in adopted : sample[n].point = p => b.base[p] = n
      /\ \A n \in Events : d.refs[n] = e.refs[n] - Bit(n \in made[k]) + Bit(n \in adopted) - Bit(replaced(n))
  BY <1>0, Zenon DEF CommitEffect
<1>2. adopted \subseteq made[k] /\ \A n \in adopted : n > c.base[sample[n].point]
  BY DEF Adopted
<1> HIDE DEF adopted
<1>3. OfPoints(c.base)
  BY DEF Course
<1>4. ASSUME NEW n \in Events PROVE Held(b.base, n) = Held(c.base, n) + Bit(n \in adopted) - Bit(replaced(n))
  <2>0. n # 0 /\ n \in Nat
    BY DEF Events
  <2>1. CASE n \in adopted
    <3>1. sample[n].point \in Points /\ b.base[sample[n].point] = n
      BY <1>1, <1>2, <2>1
    <3>2. \A p \in Points : c.base[p] # n
      <4> SUFFICES ASSUME NEW p \in Points, c.base[p] = n PROVE FALSE
        OBVIOUS
      <4>1. p = sample[n].point
        BY <1>3, <2>0 DEF OfPoints
      <4>2. n > n
        BY <1>2, <2>1, <4>1
      <4> QED BY <2>0, <4>2
    <3>3. Held(b.base, n) = 1 /\ Held(c.base, n) = 0 /\ Bit(n \in adopted) = 1 /\ Bit(replaced(n)) = 0
      BY <2>1, <3>1, <3>2 DEF Held, Bit
    <3> HIDE DEF replaced
    <3> QED BY <3>3
  <2>2. CASE n \notin adopted
    <3>1. \A p \in Points : b.base[p] = n => c.base[p] = n
      BY <1>1, <2>2
    <3>2. \A p, q \in Points : c.base[p] = n /\ c.base[q] = n => p = q
      BY <1>3, <2>0 DEF OfPoints
    <3>3. CASE \E p \in Points : b.base[p] = n
      <4>1. (\E p \in Points : c.base[p] = n) /\ ~replaced(n)
        BY <3>1, <3>2, <3>3
      <4> HIDE DEF replaced
      <4>2. Held(b.base, n) = 1 /\ Held(c.base, n) = 1 /\ Bit(n \in adopted) = 0 /\ Bit(replaced(n)) = 0
        BY <2>2, <3>3, <4>1 DEF Held, Bit
      <4> QED BY <4>2
    <3>4. CASE ~\E p \in Points : b.base[p] = n
      <4>1. replaced(n) <=> \E p \in Points : c.base[p] = n
        BY <3>4
      <4> HIDE DEF replaced
      <4>2. Held(b.base, n) = 0 /\ Held(c.base, n) = Bit(replaced(n)) /\ Bit(n \in adopted) = 0 /\ Bit(replaced(n)) \in Int
        BY <2>2, <3>4, <4>1 DEF Held, Bit
      <4> QED BY <4>2
    <3> QED BY <3>3, <3>4
  <2> QED BY <2>1, <2>2
<1>5. ASSUME NEW n \in Events
      PROVE  d.refs[n] = Bit(n \in d.owned) + Held(d.latest, n) + Held(b.base, n) /\ (d.refs[n] > 0 => e.refs[n] > 0)
  <2>1. e.refs[n] = Bit(n \in e.owned) + Held(e.latest, n) + Held(c.base, n)
    BY DEF Charged
  <2>2. Held(e.latest, n) \in {0, 1} /\ Held(c.base, n) \in {0, 1} /\ Held(b.base, n) \in {0, 1}
    BY ChargeIsNumber
  <2>3. /\ Bit(n \in d.owned) = Bit(n \in e.owned) - Bit(n \in made[k]) /\ Bit(n \in e.owned) \in {0, 1}
        /\ Bit(n \in made[k]) \in {0, 1} /\ Bit(n \in adopted) \in {0, 1} /\ Bit(n \in adopted) <= Bit(n \in made[k])
    BY <1>1, <1>2 DEF Bit
  <2>4. d.refs[n] = e.refs[n] - Bit(n \in made[k]) + Bit(n \in adopted) - Bit(replaced(n))
    BY <1>1
  <2>5. Bit(replaced(n)) \in {0, 1}
    BY DEF Bit
  <2>6. Held(b.base, n) = Held(c.base, n) + Bit(n \in adopted) - Bit(replaced(n))
    BY <1>4
  <2>7. Held(d.latest, n) = Held(e.latest, n)
    BY <1>1
  <2> HIDE DEF replaced
  <2> QED BY <2>1, <2>2, <2>3, <2>4, <2>5, <2>6, <2>7
<1>6. Used(d) <= Used(e) /\ Used(d) \in Nat /\ Used(e) \in Nat
  BY <1>1, <1>5, <1>a, UsedLess, UsedCount
<1>7. Used(d) <= MaxBytes
  BY <1>6, Bounds DEF Charged, Numbers
<1>8. Charged(d, b)
  BY <1>5, <1>7 DEF Charged
<1> QED BY <1>8 DEF d, b

(* Every step. *)
LEMMA ChargedStep ==
    ASSUME Types, Types', Places, Captures, Course(engine, check), Charged(engine, check), [Next]_vars
    PROVE  Charged(engine, check)'
<1>0. /\ boot \in Capturing /\ engine \in Engine /\ engine' \in Engine /\ check \in Checkpoint
      /\ sample \in [Events -> Sample] /\ made \in [BatchIds -> SUBSET Events]
      /\ MaxBytes \in Nat /\ Used(engine) \in Nat /\ Used(engine') \in Nat /\ Used(engine) <= MaxBytes
  BY Bounds, UsedCount DEF Types, Numbers, Charged
<1>1. CASE UNCHANGED <<engine, check>>
  BY <1>1 DEF Charged, Used, Held
<1>2. ASSUME NEW e, NEW c, Charged(e, c), engine' = e, check' = c PROVE Charged(engine, check)'
  <2>1. \A n \in Events : e.refs[n] = Bit(n \in e.owned) + Held(e.latest, n) + Held(c.base, n)
    BY <1>2 DEF Charged
  <2>2. Used(engine)' <= MaxBytes
    BY <1>2 DEF Charged, Used
  <2>3. \A n \in Events : Held(engine.latest, n)' = Held(e.latest, n) /\ Held(check.base, n)' = Held(c.base, n)
    BY <1>2 DEF Held, Bit
  <2>4. \A n \in Events : Bit(n \in engine.owned)' = Bit(n \in e.owned) /\ (engine.refs[n])' = e.refs[n]
    BY <1>2 DEF Bit
  <2>5. \A n \in Events : (engine.refs[n] = Bit(n \in engine.owned) + Held(engine.latest, n) + Held(check.base, n))'
    BY <2>1, <2>3, <2>4
  <2> QED BY <2>2, <2>5 DEF Charged
<1>3. CASE RunAccept \/ RunIdle
  <2>1. Configured[1] \in Engine /\ Configured[2] \in Checkpoint /\ Course(Configured[1], Configured[2])
    BY ConfiguredTypes, ConfiguredCourse
  <2>2. Charged(Configured[1], Configured[2])
    <3>1. CASE runtime.snapshot = 0
      BY <3>1 DEF Configured
    <3>2. CASE runtime.snapshot # 0
      <4>1. runtime.snapshot = boot.gen
        BY <3>2 DEF Captures
      <4> QED BY <1>0, <3>2, <4>1, ConfigureCharged DEF Configured
    <3> QED BY <3>1, <3>2
  <2>3. CASE RunIdle
    <3>1. engine' = Configured[1] /\ check' = Configured[2]
      BY <2>3 DEF RunIdle
    <3> QED BY <1>2, <2>2, <3>1
  <2>4. CASE RunAccept
    <3> DEFINE n == Oldest(ingress)
               d == Accept(Configured[1], Configured[2], books, n)
    <3>1. n \in Events /\ n <= boot.seq /\ sample[n].point \in Points /\ n \notin Configured[1].owned
      <4>1. ingress \subseteq Nat /\ ingress # {} /\ ingress \subseteq Events
        BY <2>4 DEF RunAccept, Types, Events
      <4>2. n \in ingress
        BY <4>1, OldestIs
      <4>3. SamePlaces(engine, Configured[1])
        <5>1. SamePlaces(engine, engine)
          BY DEF SamePlaces
        <5> QED BY <1>0, <5>1, ConfigurePlaces DEF Configured
      <4> QED BY <4>1, <4>2, <4>3 DEF Places, Captures, SamePlaces
    <3>2. engine' = d[1] /\ check' = d[2]
      BY <2>4 DEF RunAccept
    <3>3. Charged(d[1], d[2])
      <4> HIDE DEF n
      <4> QED BY <1>0, <2>1, <2>2, <3>1, AcceptCharged
    <3> QED BY <1>2, <3>2, <3>3
  <2> QED BY <1>3, <2>3, <2>4
<1>4. CASE PrepareBatch
  <2> DEFINE k == boot.batch + 1
  <2>1. /\ engine'.refs = engine.refs /\ engine'.owned = engine.owned /\ engine'.latest = engine.latest /\ check' = check
        /\ engine'.frozen = engine.frozen \cup {k} /\ Used(engine) + 1 <= MaxBytes
    BY <1>0, <1>4 DEF PrepareBatch, Freeze, Engine
  <2>2. Used(engine') <= Used(engine) + 1
    <3>1. IsFiniteSet(engine.frozen) /\ Cardinality(engine.frozen) \in Nat
      BY <1>0, EventsFinite DEF Engine, BatchIds, Events
    <3>2. Cardinality(engine.frozen \cup {k}) <= Cardinality(engine.frozen) + 1 /\ Cardinality(engine.frozen \cup {k}) \in Nat
      <4>1. CASE k \in engine.frozen
        <5>1. engine.frozen \cup {k} = engine.frozen
          BY <4>1
        <5>2. Cardinality(engine.frozen \cup {k}) = Cardinality(engine.frozen)
          BY <5>1
        <5> HIDE DEF k
        <5> QED BY <3>1, <5>2
      <4>2. CASE k \notin engine.frozen
        <5>1. Cardinality(engine.frozen \cup {k}) = Cardinality(engine.frozen) + 1
          BY <3>1, <4>2, FS_AddElement
        <5> QED BY <3>1, <5>1
      <4> QED BY <4>1, <4>2
    <3> DEFINE charged == Cardinality({n \in Events : engine.refs[n] > 0})
    <3>3. charged \in Nat
      <4>1. {n \in Events : engine.refs[n] > 0} \subseteq Events
        OBVIOUS
      <4> QED BY <4>1, EventsFinite
    <3>4. Used(engine') = charged + Cardinality(engine.frozen \cup {k}) /\ Used(engine) = charged + Cardinality(engine.frozen)
      BY <2>1 DEF Used
    <3> HIDE DEF charged, k
    <3> QED BY <3>1, <3>2, <3>3, <3>4
  <2>3. Used(engine') <= MaxBytes
    BY <1>0, <2>1, <2>2
  <2>4. Charged(engine', check')
    BY <2>1, <2>3 DEF Charged
  <2> QED BY <1>2, <2>4
<1>5. CASE FlushResult
  <2> DEFINE k == worker.reply.batch
             d == CommitBatch(engine, check, k)
  <2>1. k \in BatchIds
    BY <1>5 DEF FlushResult, Types, Worker, NoReply
  <2>2. CASE engine' = engine /\ check' = check
    BY <1>1, <2>2
  <2>3. CASE engine' = [d[1] EXCEPT !.preferCommit = tasks.class # "new"] /\ check' = d[2]
    <3>1. d[1] \in Engine /\ d[2] \in Checkpoint
      BY <1>0, <2>1, CommitTypes
    <3>2. Charged(d[1], d[2])
      <4>1. CASE k \notin engine.frozen
        BY <4>1 DEF CommitBatch
      <4>2. CASE k \in engine.frozen
        <5>1. \A n \in made[k] : n <= boot.seq /\ sample[n].point \in Points
          BY <1>0, <2>1 DEF Places, Batched, Captures
        <5>2. \A m, n \in made[k] : sample[m].point = sample[n].point => m = n
          BY <2>1 DEF Captures
        <5>3. made[k] \subseteq engine.owned
          BY <4>2 DEF Places, HeldOnce
        <5> QED BY <1>0, <2>1, <4>2, <5>1, <5>2, <5>3, CommitCharged
      <4> QED BY <4>1, <4>2
    <3> HIDE DEF d
    <3>3. /\ engine'.latest = d[1].latest /\ engine'.owned = d[1].owned /\ engine'.frozen = d[1].frozen
          /\ engine'.refs = d[1].refs
      BY <2>3, <3>1 DEF Engine
    <3>4. Used(engine') = Used(d[1])
      BY <3>3 DEF Used
    <3>5. Charged(engine', check')
      BY <2>3, <3>2, <3>3, <3>4 DEF Charged
    <3> QED BY <1>2, <3>5
  <2> QED BY <1>5, <2>2, <2>3 DEF FlushResult
<1>6. CASE Connect
  <2>1. /\ engine'.refs = engine.refs /\ engine'.owned = engine.owned /\ engine'.latest = engine.latest /\ check' = check
        /\ engine'.frozen = engine.frozen
    BY <1>0, <1>6 DEF Connect, OpenGate, Engine
  <2>2. Used(engine') = Used(engine)
    BY <2>1 DEF Used
  <2>3. Charged(engine', check')
    BY <2>1, <2>2 DEF Charged
  <2> QED BY <1>2, <2>3
<1>7. CASE CleanupAbandon
  <2>1. /\ engine'.owned = {} /\ engine'.latest = engine.latest /\ check' = check /\ engine'.frozen = {}
        /\ engine'.refs = [n \in Events |-> engine.refs[n] - Bit(n \in engine.owned)]
    BY <1>0, <1>7 DEF CleanupAbandon, Abandon, Engine
  <2>2. ASSUME NEW n \in Events
        PROVE  /\ engine'.refs[n] = Bit(n \in engine'.owned) + Held(engine'.latest, n) + Held(check'.base, n)
               /\ engine'.refs[n] > 0 => engine.refs[n] > 0
    <3>1. engine'.refs[n] = engine.refs[n] - Bit(n \in engine.owned)
      BY <2>1
    <3>2. engine.refs[n] = Bit(n \in engine.owned) + Held(engine.latest, n) + Held(check.base, n)
      BY DEF Charged
    <3>3. Held(engine.latest, n) \in {0, 1} /\ Held(check.base, n) \in {0, 1}
      BY ChargeIsNumber
    <3>4. Bit(n \in engine.owned) \in {0, 1} /\ Bit(n \in engine'.owned) = 0
      BY <2>1 DEF Bit
    <3> QED BY <2>1, <3>1, <3>2, <3>3, <3>4
  <2>3. Used(engine') <= Used(engine)
    BY <1>0, <2>1, <2>2, UsedLess
  <2>4. Used(engine') <= MaxBytes
    BY <1>0, <2>3
  <2>5. Charged(engine', check')
    BY <2>2, <2>4 DEF Charged
  <2> QED BY <1>2, <2>5
<1>8. CASE Reload
  <2>1. NoEngine \in Engine /\ NoEngine.gen = 0 /\ NoEngine.latest = NoPoints /\ NoEngine.owned = {} /\ NoEngine.frozen = {}
    BY FreshTypes DEF NoEngine
  <2>2. check.gen = engine.gen /\ engine.gen \in Nat /\ engine.gen <= boot.gen /\ OfPoints(check.base)
    BY <1>0, Bounds DEF Engine, Course, Numbers
  <2>3. CASE boot.gen = 0
    <3>1. engine' = NoEngine /\ check' = check /\ check.base = NoPoints
      <4>1. engine.gen = 0
        BY <2>2, <2>3
      <4> QED BY <1>8, <2>3, <4>1 DEF Reload, Course
    <3>2. FreshCheck(0).base = NoPoints
      BY DEF FreshCheck
    <3>3. Charged(NoEngine, check)
      BY <3>1, <3>2, ChargedInit DEF Charged
    <3> QED BY <1>2, <3>1, <3>3
  <2>4. CASE boot.gen # 0
    <3> DEFINE g == boot.gen
               d == Configure(NoEngine, check, g)
               next == IF check.gen = g THEN check ELSE FreshCheck(g)
    <3>1. engine' = d[1] /\ check' = d[2]
      BY <1>8, <2>4 DEF Reload
    <3>2. /\ d[1].latest = NoPoints /\ d[1].owned = {} /\ d[1].frozen = {} /\ d[2] = next
          /\ \A n \in Events : d[1].refs[n] = NoEngine.refs[n] - Holders(NoEngine.latest, n) - Holders(NoPoints, n)
                                              + Holders(next.base, n)
      BY <1>0, <2>1, <2>4, ConfigureIs
    <3>3. FreshCheck(g).base = NoPoints
      BY DEF FreshCheck
    <3>4. OfPoints(next.base) /\ next.base \in {NoPoints, check.base}
      BY <2>2, <3>3, NoneHeld
    <3> HIDE DEF d, next, g
    <3>5. ASSUME NEW n \in Events
          PROVE  /\ d[1].refs[n] = Bit(n \in d[1].owned) + Held(d[1].latest, n) + Held(d[2].base, n)
                 /\ d[1].refs[n] > 0 => engine.refs[n] > 0
      <4>1. d[1].refs[n] = NoEngine.refs[n] - Holders(NoEngine.latest, n) - Holders(NoPoints, n) + Holders(next.base, n)
        BY <3>2
      <4>2. NoEngine.refs[n] = 0 /\ Holders(NoPoints, n) = 0 /\ Held(NoPoints, n) = 0
        BY ChargedInit, NoneHeld
      <4>3. Holders(next.base, n) = Held(next.base, n)
        BY <3>4, HeldIs
      <4>4. Bit(n \in d[1].owned) = 0 /\ Bit(n \in engine.owned) \in {0, 1}
        BY <3>2 DEF Bit
      <4>5. Held(next.base, n) \in {0, 1} /\ Held(engine.latest, n) \in {0, 1} /\ Held(check.base, n) \in {0, 1}
        BY ChargeIsNumber
      <4>6. d[1].refs[n] = Held(next.base, n)
        BY <2>1, <4>1, <4>2, <4>3, <4>5
      <4>7. engine.refs[n] = Bit(n \in engine.owned) + Held(engine.latest, n) + Held(check.base, n)
        BY DEF Charged
      <4>8. d[1].refs[n] > 0 => Held(next.base, n) = Held(check.base, n)
        BY <3>4, <4>2, <4>6
      <4> QED BY <3>2, <4>2, <4>4, <4>5, <4>6, <4>7, <4>8
    <3>6. d[1] \in Engine
      BY <1>0, <3>1
    <3>7. Used(d[1]) <= Used(engine)
      BY <1>0, <3>2, <3>5, <3>6, UsedLess
    <3>8. Used(d[1]) <= MaxBytes
      BY <1>0, <3>1, <3>7
    <3>9. Charged(d[1], d[2])
      BY <3>5, <3>8 DEF Charged
    <3> QED BY <1>2, <3>1, <3>9
  <2> QED BY <2>3, <2>4
<1> QED
  BY <1>1, <1>3, <1>4, <1>5, <1>6, <1>7, <1>8
  DEF Next, Publish, TimeChanges, Activate, Result, Expire, Emit, Run, RunDone, Persist, PersistWake, PersistEnd, Prepared,
      PersistOnly, FlushSubmit, FlushEnd,
      Thread, EnqueueStage, EnqueueInsert, GateJob, StatsJob, CloseJob, Outbox, Stored, Ended, Cleared, Row,
      Disconnect, StopRuntime, Close, Deadline, CloseReturns, Cleanup, CleanupShut, Refused,
      vars, capture, report

----------------------------------------------------------------------------
(* References. *)

(* The events of S at the point and in its epoch. *)
Of(S, p, c) == {n \in S : sample[n].point = p /\ Epoch(n) = c.epoch[p]}

(* What is on its way is the newest event owned, and what was committed is *)
(* the newest that is durable and not owned any more.                      *)
Referred(e, c, D) ==
    \A p \in Points : e.shadow[p] = Newest(Of(e.owned, p, c)) /\ c.base[p] = Newest(Of(D \ e.owned, p, c))

References == ~sup.refused => Referred(engine, check, Durable)

(* There is one newest event. *)
LEMMA NewestOne == ASSUME NEW S, S \subseteq Events, NEW n \in S, \A m \in S : m <= n PROVE Newest(S) = n
<1>1. Newest(S) \in S /\ n <= Newest(S)
  BY NewestIs
<1>2. Newest(S) <= n
  BY <1>1
<1>3. Newest(S) \in Events /\ n \in Events
  BY <1>1
<1>4. Newest(S) \in Nat /\ n \in Nat
  BY <1>3 DEF Events
<1> QED BY <1>1, <1>2, <1>4

(* The newest of no events. *)
LEMMA NewestNone == Newest({}) = 0
BY DEF Newest

(* The newest of two sets. *)
LEMMA NewestJoin ==
    ASSUME NEW A, NEW B, A \subseteq Events, B \subseteq Events
    PROVE  Newest({Newest(A), Newest(B)}) = Newest(A \cup B)
<1> DEFINE a == Newest(A)
           b == Newest(B)
<1>1. /\ a \in Nat /\ b \in Nat /\ (A = {} => a = 0) /\ (B = {} => b = 0)
      /\ (A # {} => a \in A) /\ (B # {} => b \in B) /\ (\A m \in A : m <= a) /\ \A m \in B : m <= b
  BY NewestIs, Bounds DEF Seqs, Numbers
<1>2. \A m \in A \cup B : m \in Nat /\ m # 0
  BY DEF Events
<1> HIDE DEF a, b
<1>3. PICK c \in {a, b} : a <= c /\ b <= c
  BY <1>1
<1>4. Newest({a, b}) = c
  <2>1. \E n \in {a, b} : \A m \in {a, b} : m <= n
    BY <1>3
  <2>2. Newest({a, b}) = CHOOSE n \in {a, b} : \A m \in {a, b} : m <= n
    BY DEF Newest
  <2> HIDE DEF Newest
  <2>3. Newest({a, b}) \in {a, b} /\ \A m \in {a, b} : m <= Newest({a, b})
    BY <2>1, <2>2
  <2>4. Newest({a, b}) \in Nat /\ c \in Nat /\ c <= Newest({a, b}) /\ Newest({a, b}) <= c
    BY <1>1, <1>3, <2>3
  <2> QED BY <2>4
<1>5. Newest(A \cup B) = c
  <2>1. CASE A \cup B = {}
    <3>1. c = 0
      BY <1>1, <1>3, <2>1
    <3> QED BY <2>1, <3>1, NewestNone
  <2>2. CASE A \cup B # {}
    <3>1. \A m \in A \cup B : m <= c
      BY <1>1, <1>2, <1>3
    <3>2. c \in A \cup B
      BY <1>1, <1>2, <1>3, <2>2, <3>1
    <3> QED BY <3>1, <3>2, NewestOne
  <2> QED BY <2>1, <2>2
<1> QED BY <1>4, <1>5 DEF a, b

(* Durable events are in batches. *)
LEMMA DurableBatched ==
    ASSUME Types PROVE Durable \subseteq Batched /\ Batched \subseteq Events /\ engine.owned \subseteq Events
BY DEF Durable, Batched, Types, Engine

(* The property. *)
LEMMA ReferencesAreRight == ASSUME Types, Course(engine, check), References PROVE ReferenceIsNewest
<1> SUFFICES ASSUME ~sup.refused, NEW p \in Points, check.epoch[p] # NoEpoch
             PROVE  /\ check.epoch[p][1] = check.gen
                    /\ Reference(engine, check, p) =
                           Newest({n \in engine.owned \cup Durable : sample[n].point = p /\ Epoch(n) = check.epoch[p]})
  BY DEF ReferenceIsNewest
<1>1. check.epoch[p][1] = check.gen
  <2>1. check.seen[p] # 0 /\ check.epoch[p] = Epoch(check.seen[p]) /\ sample[check.seen[p]].gen = check.gen
    BY DEF Course
  <2> QED BY <2>1 DEF Epoch
<1> DEFINE A == Of(engine.owned, p, check)
           B == Of(Durable \ engine.owned, p, check)
<1>2. engine.shadow[p] = Newest(A) /\ check.base[p] = Newest(B)
  BY DEF References, Referred
<1>3. A \subseteq Events /\ B \subseteq Events
  BY DurableBatched DEF Of
<1>4. {n \in engine.owned \cup Durable : sample[n].point = p /\ Epoch(n) = check.epoch[p]} = A \cup B
  BY DEF Of
<1>5. Newest({Newest(A), Newest(B)}) = Newest(A \cup B)
  BY <1>3, NewestJoin
<1> HIDE DEF A, B
<1> QED BY <1>1, <1>2, <1>4, <1>5 DEF Reference

(* Without an epoch nothing is of the point. *)
LEMMA NoneOf ==
    ASSUME NEW S, NEW c, NEW p, c.epoch[p] = NoEpoch, \A n \in S : sample[n].gen \in Nat /\ sample[n].gen >= 1
    PROVE  Of(S, p, c) = {}
BY DEF Of, Epoch, NoEpoch

(* configure has no references. *)
LEMMA FreshReferred ==
    ASSUME NEW e, NEW c, NEW D, e.shadow = NoPoints, c.base = NoPoints, \A p \in Points : c.epoch[p] = NoEpoch,
           \A n \in e.owned \cup D : sample[n].gen \in Nat /\ sample[n].gen >= 1
    PROVE  Referred(e, c, D)
<1> SUFFICES ASSUME NEW p \in Points
             PROVE  e.shadow[p] = Newest(Of(e.owned, p, c)) /\ c.base[p] = Newest(Of(D \ e.owned, p, c))
  BY DEF Referred
<1>1. Of(e.owned, p, c) = {} /\ Of(D \ e.owned, p, c) = {}
  BY NoneOf
<1>2. e.shadow[p] = 0 /\ c.base[p] = 0
  BY DEF NoPoints
<1> QED BY <1>1, <1>2, NewestNone

(* configure keeps what is of the configuration, or has no references. *)
LEMMA ConfigureReferred ==
    ASSUME NEW e \in Engine, NEW c \in Checkpoint, Course(e, c), boot \in Capturing, sample \in [Events -> Sample],
           made \in [BatchIds -> SUBSET Events], boot.gen # 0, NEW D \in SUBSET Batched, Referred(e, c, D)
    PROVE  LET d == Configure(e, c, boot.gen) IN Referred(d[1], d[2], D)
<1> DEFINE g == boot.gen
           d == Configure(e, c, g)
<1>1. CASE e.gen = g
  BY <1>1 DEF Configure
<1>2. CASE e.gen # g
  <2>1. d[2] = FreshCheck(g)
    BY <1>2, ConfigureCourse
  <2>2. d[1].shadow = NoPoints /\ d[1].owned = e.owned
    BY <1>2, ConfigureIs
  <2>3. d[2].base = NoPoints /\ \A p \in Points : d[2].epoch[p] = NoEpoch
    BY <2>1 DEF FreshCheck
  <2>4. ASSUME NEW n \in e.owned \cup D PROVE sample[n].gen \in Nat /\ sample[n].gen >= 1
    <3>1. n \in e.owned \cup Batched /\ c.gen \in Nat
      BY Bounds DEF Checkpoint, Numbers
    <3>2. sample[n].gen \in 1..c.gen
      BY <3>1 DEF Course
    <3> QED BY <3>1, <3>2
  <2> HIDE DEF d
  <2>5. Referred(d[1], d[2], D)
    BY <2>2, <2>3, <2>4, FreshReferred
  <2> QED BY <2>5 DEF d
<1> QED BY <1>1, <1>2

(* An event that moves the epoch of its point is the first of it. *)
LEMMA EpochMoves ==
    ASSUME NEW e \in Engine, NEW c \in Checkpoint, NEW n \in Events, Course(e, c), Captures, n <= boot.seq,
           boot \in Capturing, sample \in [Events -> Sample], made \in [BatchIds -> SUBSET Events],
           sample[n].point \in Points, sample[n].gen = c.gen, ~(n <= c.seen[sample[n].point]),
           NEW m \in e.owned \cup Batched, sample[m].point = sample[n].point, Epoch(m) = Epoch(n)
    PROVE  m < n /\ c.epoch[sample[n].point] = Epoch(n)
<1> DEFINE p == sample[n].point
           s == c.seen[p]
<1>1. m \in Events /\ m \in Nat /\ n \in Nat /\ s \in Seqs /\ s \in Nat /\ m # 0 /\ boot.seq \in Nat
  BY DEF Engine, Batched, Events, Checkpoint, Seqs, Capturing
<1>2. sample[m].gen = sample[n].gen /\ sample[m].time = sample[n].time
  BY DEF Epoch
<1>3. m <= s
  BY <1>2 DEF Course
<1>4. s \in Events /\ s # 0 /\ s <= n /\ m < n
  BY <1>1, <1>3 DEF Seqs, Events
<1>5. sample[s].gen = c.gen /\ c.epoch[p] = Epoch(s)
  BY <1>4 DEF Course
<1> HIDE DEF s
<1>6. sample[m].time <= sample[s].time /\ sample[s].time <= sample[n].time
  <2>1. s <= boot.seq
    BY <1>1, <1>4
  <2> QED BY <1>1, <1>3, <1>4, <2>1 DEF Captures
<1>7. sample[s].time = sample[n].time
  <2>1. sample[s].time \in Nat /\ sample[n].time \in Nat
    BY <1>4 DEF Sample
  <2> QED BY <1>2, <1>6, <2>1
<1> QED BY <1>4, <1>5, <1>7 DEF Epoch, s

(* accept: the event is the newest of its epoch, if it is admitted. *)
LEMMA AcceptReferred ==
    ASSUME NEW e \in Engine, NEW c \in Checkpoint, NEW b, NEW n \in Events, Course(e, c), Captures, n <= boot.seq,
           boot \in Capturing, sample \in [Events -> Sample], made \in [BatchIds -> SUBSET Events],
           sample[n].point \in Points, NEW D \in SUBSET Batched, n \notin e.owned \cup Batched, Referred(e, c, D)
    PROVE  LET d == Accept(e, c, b, n) IN Referred(d[1], d[2], D)
<1> DEFINE d == Accept(e, c, b, n)
           e1 == SeenEngine(e, c, n)
           c1 == SeenCheck(c, n)
           p == sample[n].point
<1>1. CASE d[1] = e /\ d[2] = c
  BY <1>1
<1>2. CASE /\ e.gen # 0 /\ sample[n].gen = e.gen /\ ~(n <= c.seen[p])
           /\ d[2] = c1
           /\ d[1] = e1 \/ d[1] = Admit(e1, n)
  <2>1. e1 \in Engine /\ c1 \in Checkpoint
    BY SeenTypes
  <2>2. /\ e1.owned = e.owned /\ c1.epoch[p] = Epoch(n)
        /\ e1.shadow[p] = (IF c.epoch[p] # Epoch(n) THEN 0 ELSE e.shadow[p])
        /\ c1.base[p] = (IF c.epoch[p] # Epoch(n) THEN 0 ELSE c.base[p])
        /\ \A q \in Points : q # p => e1.shadow[q] = e.shadow[q] /\ c1.epoch[q] = c.epoch[q] /\ c1.base[q] = c.base[q]
    BY SeenIs
  <2>3. /\ \A q \in Points : q # p => d[1].shadow[q] = e1.shadow[q]
        /\ \/ d[1].shadow[p] = e1.shadow[p] /\ d[1].owned = e.owned
           \/ d[1].shadow[p] = n /\ d[1].owned = e.owned \cup {n}
    BY <1>2, <2>1, <2>2, AdmitIs
  <2>4. e.owned \subseteq Events /\ D \subseteq Events /\ sample[n].gen = c.gen
    BY <1>2 DEF Engine, Batched, Course
  <2>5. D \ d[1].owned = D \ e.owned
    BY <2>3
  <2>6. \A m \in e.owned \cup D : sample[m].point = p /\ Epoch(m) = Epoch(n) => m < n /\ c.epoch[p] = Epoch(n)
    BY <1>2, <2>4, EpochMoves
  <2> HIDE DEF d, e1, c1, p
  <2>7. ASSUME NEW q \in Points, q # p
        PROVE  d[1].shadow[q] = Newest(Of(d[1].owned, q, c1)) /\ c1.base[q] = Newest(Of(D \ d[1].owned, q, c1))
    <3>1. Of(d[1].owned, q, c1) = Of(e.owned, q, c)
      BY <2>2, <2>3, <2>7 DEF Of, p
    <3>2. Of(D \ d[1].owned, q, c1) = Of(D \ e.owned, q, c)
      BY <2>2, <2>5, <2>7 DEF Of
    <3> QED BY <2>2, <2>3, <2>7, <3>1, <3>2 DEF Referred
  <2>8. e1.shadow[p] = Newest(Of(e.owned, p, c1)) /\ c1.base[p] = Newest(Of(D \ e.owned, p, c1))
    <3>1. CASE c.epoch[p] = Epoch(n)
      <4>1. Of(e.owned, p, c1) = Of(e.owned, p, c) /\ Of(D \ e.owned, p, c1) = Of(D \ e.owned, p, c)
        BY <2>2, <3>1 DEF Of
      <4> QED BY <2>2, <3>1, <4>1 DEF Referred, p
    <3>2. CASE c.epoch[p] # Epoch(n)
      <4>1. Of(e.owned, p, c1) = {} /\ Of(D \ e.owned, p, c1) = {}
        BY <2>2, <2>6, <3>2 DEF Of
      <4> QED BY <2>2, <3>2, <4>1, NewestNone
    <3> QED BY <3>1, <3>2
  <2>9. d[1].shadow[p] = Newest(Of(d[1].owned, p, c1))
    <3>1. CASE d[1].shadow[p] = e1.shadow[p] /\ d[1].owned = e.owned
      BY <2>8, <3>1
    <3>2. CASE d[1].shadow[p] = n /\ d[1].owned = e.owned \cup {n}
      <4> DEFINE S == Of(d[1].owned, p, c1)
      <4>1. S \subseteq Events /\ n \in S
        BY <2>2, <2>4, <3>2 DEF Of, p
      <4>2. ASSUME NEW m \in S PROVE m <= n
        <5>1. m \in e.owned \cup {n} /\ sample[m].point = p /\ Epoch(m) = Epoch(n) /\ m \in Nat /\ n \in Nat
          BY <2>2, <3>2, <4>1 DEF Of, Events
        <5>2. CASE m = n
          BY <5>1, <5>2
        <5>3. CASE m \in e.owned
          <6>1. m < n
            BY <2>6, <5>1, <5>3
          <6> QED BY <5>1, <6>1
        <5> QED BY <5>1, <5>2, <5>3
      <4> HIDE DEF S
      <4>3. Newest(S) = n
        BY <4>1, <4>2, NewestOne
      <4> QED BY <3>2, <4>3 DEF S
    <3> QED BY <2>3, <3>1, <3>2
  <2>10. c1.base[p] = Newest(Of(D \ d[1].owned, p, c1))
    BY <2>5, <2>8
  <2>11. Referred(d[1], c1, D)
    BY <2>7, <2>9, <2>10 DEF Referred
  <2> QED BY <1>2, <2>11 DEF d
<1> QED BY <1>1, <1>2, AcceptIs

(* committed: the event of the batch is the newest committed one, or there *)
(* is a newer one, whichever class was committed first.                    *)
LEMMA CommitReferred ==
    ASSUME NEW e \in Engine, NEW c \in Checkpoint, NEW k \in BatchIds, k \in e.frozen, sample \in [Events -> Sample],
           made \in [BatchIds -> SUBSET Events], NEW D \in SUBSET Events, made[k] \subseteq e.owned, made[k] \subseteq D,
           \A m, n \in made[k] : sample[m].point = sample[n].point => m = n, Referred(e, c, D)
    PROVE  LET d == CommitBatch(e, c, k) IN Referred(d[1], d[2], D)
<1> DEFINE d == CommitBatch(e, c, k)[1]
           b == CommitBatch(e, c, k)[2]
           batch == made[k]
           adopted == Adopted(c, batch)
<1>0. CommitEffect(e, c, k, d, b)
  BY CommitIs
<1> HIDE DEF d, b
<1>1. /\ d.owned = e.owned \ batch /\ b.epoch = c.epoch
      /\ \A p \in Points : /\ (\A n \in adopted : sample[n].point # p) => b.base[p] = c.base[p]
                           /\ \A n \in adopted : sample[n].point = p => b.base[p] = n
      /\ \A p \in Points :
            d.shadow[p] = IF \E n \in batch : sample[n].point = p /\ c.epoch[p] = Epoch(n)
                          THEN Newest({n \in e.owned \ batch : sample[n].point = p /\ Epoch(n) = c.epoch[p]})
                          ELSE e.shadow[p]
  BY <1>0, Zenon DEF CommitEffect
<1>2. \A n \in batch : n \in adopted <=> (c.epoch[sample[n].point] = Epoch(n) /\ n > c.base[sample[n].point])
  BY DEF Adopted
<1>3. batch \subseteq Events /\ adopted \subseteq batch /\ e.owned \subseteq Events
  BY DEF Engine, Adopted
<1> HIDE DEF batch, adopted
<1>4. ASSUME NEW p \in Points
      PROVE  d.shadow[p] = Newest(Of(d.owned, p, b)) /\ b.base[p] = Newest(Of(D \ d.owned, p, b))
  <2> DEFINE A == Of(D \ e.owned, p, c)
             B == Of(D \ d.owned, p, b)
  <2>0. e.shadow[p] = Newest(Of(e.owned, p, c)) /\ c.base[p] = Newest(A)
    BY DEF Referred
  <2>1. Of(d.owned, p, b) = {n \in e.owned \ batch : sample[n].point = p /\ Epoch(n) = c.epoch[p]}
    BY <1>1 DEF Of
  <2>2. B = A \cup Of(batch, p, c)
    BY <1>1, <1>3 DEF Of, batch
  <2>3. A \subseteq Events /\ B \subseteq Events
    BY DEF Of
  <2>4. CASE \A n \in batch : ~(sample[n].point = p /\ Epoch(n) = c.epoch[p])
    <3>1. Of(batch, p, c) = {} /\ Of(d.owned, p, b) = Of(e.owned, p, c)
      BY <1>1, <2>4 DEF Of
    <3>2. \A n \in adopted : sample[n].point # p
      BY <1>2, <1>3, <2>4
    <3>3. d.shadow[p] = e.shadow[p] /\ b.base[p] = c.base[p]
      BY <1>1, <2>4, <3>2
    <3>4. B = A
      BY <2>2, <3>1
    <3> QED BY <2>0, <3>1, <3>3, <3>4
  <2>5. CASE \E n \in batch : sample[n].point = p /\ Epoch(n) = c.epoch[p]
    <3>0. PICK n \in batch : sample[n].point = p /\ Epoch(n) = c.epoch[p]
      BY <2>5
    <3>1. d.shadow[p] = Newest(Of(d.owned, p, b))
      BY <1>1, <2>1, <2>5
    <3>2. Of(batch, p, c) = {n}
      BY <3>0 DEF Of, batch
    <3>3. n \in Nat /\ n # 0 /\ n \in Events /\ c.base[p] \in Seqs /\ c.base[p] \in Nat
      BY <1>3 DEF Events, Checkpoint, Seqs
    <3>4. B = A \cup {n}
      BY <2>2, <3>2
    <3> HIDE DEF A, B
    <3>5. (A # {} => c.base[p] \in A) /\ (A = {} => c.base[p] = 0) /\ \A m \in A : m <= c.base[p]
      BY <2>0, <2>3, NewestIs
    <3>6. \A m \in A : m \in Nat
      <4>1. \A m \in Events : m \in Nat
        BY DEF Events
      <4> QED BY <2>3, <4>1
    <3>7. CASE n > c.base[p]
      <4>1. b.base[p] = n
        <5>1. n \in adopted
          BY <1>2, <3>0, <3>7
        <5> QED BY <1>1, <3>0, <5>1
      <4>2. \A m \in B : m <= n
        BY <3>3, <3>4, <3>5, <3>6, <3>7
      <4>3. n \in B
        BY <3>4
      <4>4. Newest(B) = n
        BY <2>3, <4>2, <4>3, NewestOne
      <4> QED BY <3>1, <4>1, <4>4 DEF B
    <3>8. CASE ~(n > c.base[p])
      <4>1. n \notin adopted
        BY <1>2, <3>0, <3>8
      <4>2. \A m \in adopted : sample[m].point # p
        BY <1>3, <3>0, <4>1 DEF batch
      <4>3. b.base[p] = c.base[p]
        BY <1>1, <4>2
      <4>4. A # {}
        BY <3>3, <3>5, <3>8
      <4>5. c.base[p] \in B /\ \A m \in B : m <= c.base[p]
        BY <3>3, <3>4, <3>5, <3>8, <4>4
      <4>6. Newest(B) = c.base[p]
        BY <2>3, <4>5, NewestOne
      <4> QED BY <3>1, <4>3, <4>6 DEF B
    <3> QED BY <3>7, <3>8
  <2> QED BY <2>4, <2>5
<1>5. Referred(d, b, D)
  BY <1>4 DEF Referred
<1> QED BY <1>5 DEF d, b

(* The first state. *)
LEMMA ReferencesInit == Init => References
<1> SUFFICES ASSUME Init PROVE References
  OBVIOUS
<1>1. /\ engine.shadow = NoPoints /\ check.base = NoPoints /\ engine.owned = {}
      /\ \A p \in Points : check.epoch[p] = NoEpoch
  BY DEF Init, NoEngine, FreshCheck
<1>2. Durable = {}
  BY DEF Init, Durable
<1>3. Referred(engine, check, Durable)
  BY <1>1, <1>2, FreshReferred
<1> QED BY <1>3 DEF References

(* Only engine and checkpoint move. *)
LEMMA ReferencesUnder ==
    ASSUME NEW e, NEW c, Referred(e, c, Durable), engine' = e, check' = c, UNCHANGED sample, Durable' = Durable
    PROVE  References'
<1>1. \A S, p : Of(S, p, c) = {n \in S : sample[n].point = p /\ <<sample[n].gen, sample[n].time>> = c.epoch[p]}
  BY DEF Of, Epoch
<1>2. \A p : Of(engine.owned, p, check)' = Of(e.owned, p, c) /\ Of(Durable \ engine.owned, p, check)' = Of(Durable \ e.owned, p, c)
  BY <1>1 DEF Of, Epoch
<1>3. \A p \in Points : e.shadow[p] = Newest(Of(e.owned, p, c)) /\ c.base[p] = Newest(Of(Durable \ e.owned, p, c))
  BY DEF Referred
<1>4. \A p \in Points : (engine.shadow[p] = Newest(Of(engine.owned, p, check)))'
                        /\ (check.base[p] = Newest(Of(Durable \ engine.owned, p, check)))'
  <2> SUFFICES ASSUME NEW p \in Points
               PROVE  (engine.shadow[p] = Newest(Of(engine.owned, p, check)))'
                      /\ (check.base[p] = Newest(Of(Durable \ engine.owned, p, check)))'
    OBVIOUS
  <2>1. Newest(Of(engine.owned, p, check))' = Newest(Of(e.owned, p, c))
    BY <1>2
  <2>2. Newest(Of(Durable \ engine.owned, p, check))' = Newest(Of(Durable \ e.owned, p, c))
    BY <1>2
  <2> QED BY <1>3, <2>1, <2>2
<1>5. Referred(engine, check, Durable)'
  BY <1>4 DEF Referred
<1> QED BY <1>5 DEF References

(* Events and batches are added. *)
LEMMA ReferencesFrame ==
    ASSUME Types, Places, References, ~sup.refused, check' = check, engine'.shadow = engine.shadow,
           engine'.owned = engine.owned, (Durable \ engine.owned)' = Durable \ engine.owned,
           \A m \in Events : m <= boot.seq => sample'[m] = sample[m]
    PROVE  References'
<1>1. \A n \in engine.owned \cup Durable : sample'[n] = sample[n]
  BY DurableBatched DEF Places
<1>2. ASSUME NEW p PROVE Of(engine.owned, p, check)' = Of(engine.owned, p, check)
  BY <1>1 DEF Of, Epoch
<1>3. ASSUME NEW p PROVE Of(Durable \ engine.owned, p, check)' = Of(Durable \ engine.owned, p, check)
  <2> DEFINE S == Durable \ engine.owned
  <2>1. S' = S /\ \A n \in S : sample'[n] = sample[n]
    BY <1>1
  <2> HIDE DEF S
  <2>2. Of(S, p, check)' = Of(S, p, check)
    BY <2>1 DEF Of, Epoch
  <2> QED BY <2>2 DEF S
<1>4. \A p \in Points : engine.shadow[p] = Newest(Of(engine.owned, p, check))
                        /\ check.base[p] = Newest(Of(Durable \ engine.owned, p, check))
  BY DEF References, Referred
<1>5. \A p \in Points : (engine.shadow[p] = Newest(Of(engine.owned, p, check)))'
                        /\ (check.base[p] = Newest(Of(Durable \ engine.owned, p, check)))'
  <2> SUFFICES ASSUME NEW p \in Points
               PROVE  (engine.shadow[p] = Newest(Of(engine.owned, p, check)))'
                      /\ (check.base[p] = Newest(Of(Durable \ engine.owned, p, check)))'
    OBVIOUS
  <2>1. Newest(Of(engine.owned, p, check))' = Newest(Of(engine.owned, p, check))
    BY <1>2
  <2>2. Newest(Of(Durable \ engine.owned, p, check))' = Newest(Of(Durable \ engine.owned, p, check))
    BY <1>3
  <2> QED BY <1>4, <2>1, <2>2
<1>6. Referred(engine, check, Durable)'
  BY <1>5 DEF Referred
<1> QED BY <1>6 DEF References

(* The ingress task. *)
LEMMA RunReferences ==
    ASSUME Types, Places, Captures, Course(engine, check), References, ~sup.refused, RunAccept \/ RunIdle
    PROVE  References'
<1>0. /\ boot \in Capturing /\ engine \in Engine /\ check \in Checkpoint
      /\ sample \in [Events -> Sample] /\ made \in [BatchIds -> SUBSET Events]
      /\ Durable \in SUBSET Batched /\ Durable' = Durable /\ UNCHANGED sample
  BY DurableBatched DEF Types, RunAccept, RunIdle, Durable, store, capture
<1>1. Configured[1] \in Engine /\ Configured[2] \in Checkpoint /\ Course(Configured[1], Configured[2])
  BY ConfiguredTypes, ConfiguredCourse
<1>2. Referred(Configured[1], Configured[2], Durable)
  <2>1. Referred(engine, check, Durable)
    BY DEF References
  <2>2. CASE runtime.snapshot = 0
    BY <2>1, <2>2 DEF Configured
  <2>3. CASE runtime.snapshot # 0
    <3>1. runtime.snapshot = boot.gen
      BY <2>3 DEF Captures
    <3> QED BY <1>0, <2>1, <2>3, <3>1, ConfigureReferred DEF Configured
  <2> QED BY <2>2, <2>3
<1>3. CASE RunIdle
  <2>1. engine' = Configured[1] /\ check' = Configured[2]
    BY <1>3 DEF RunIdle
  <2> QED BY <1>0, <1>2, <2>1, ReferencesUnder
<1>4. CASE RunAccept
  <2> DEFINE n == Oldest(ingress)
             d == Accept(Configured[1], Configured[2], books, n)
  <2>1. n \in Events /\ n <= boot.seq /\ sample[n].point \in Points /\ n \notin Configured[1].owned \cup Batched
    <3>1. ingress \subseteq Nat /\ ingress # {} /\ ingress \subseteq Events
      BY <1>4 DEF RunAccept, Types, Events
    <3>2. n \in ingress
      BY <3>1, OldestIs
    <3>3. SamePlaces(engine, Configured[1])
      <4>1. SamePlaces(engine, engine)
        BY DEF SamePlaces
      <4> QED BY <1>0, <4>1, ConfigurePlaces DEF Configured
    <3> QED BY <3>1, <3>2, <3>3 DEF Places, Captures, SamePlaces
  <2>2. engine' = d[1] /\ check' = d[2]
    BY <1>4 DEF RunAccept
  <2>3. Referred(d[1], d[2], Durable)
    <3> HIDE DEF n
    <3> QED BY <1>0, <1>1, <1>2, <2>1, AcceptReferred
  <2> QED BY <1>0, <2>2, <2>3, ReferencesUnder
<1> QED BY <1>3, <1>4

(* The insert makes events durable that are still owned. *)
LEMMA InsertReferences ==
    ASSUME Types, Places, EnqueueJobs, References, ~sup.refused, EnqueueInsert
    PROVE  References'
<1>1. worker.jobs # <<>> /\ Head(worker.jobs).kind = "enqueue"
  BY DEF EnqueueInsert, Runs
<1>2. Arg \in engine.frozen /\ Arg \in BatchIds
  <2>1. 1 \in DOMAIN worker.jobs /\ Head(worker.jobs) = worker.jobs[1]
    BY <1>1, FirstJob
  <2>2. Arg \in engine.frozen
    BY <1>1, <2>1 DEF EnqueueJobs, Awaits, Arg
  <2> QED BY <2>2 DEF Types, Engine
<1>3. UNCHANGED <<made, engine, check, sample>> /\ rows' \in {rows, [rows EXCEPT ![Arg] = "pending"]}
  BY DEF EnqueueInsert, report, capture
<1>4. made[Arg] \subseteq engine.owned
  BY <1>2 DEF Places, HeldOnce
<1>5. \A k \in BatchIds : k # Arg => rows'[k] = rows[k]
  BY <1>2, <1>3 DEF Types
<1>6. rows'[Arg] \in {rows[Arg], "pending"}
  BY <1>2, <1>3 DEF Types
<1>7. (Durable \ engine.owned)' = Durable \ engine.owned
  <2>1. ASSUME NEW n \in (Durable \ engine.owned)' PROVE n \in Durable \ engine.owned
    BY <1>2, <1>3, <1>4, <1>5, <2>1 DEF Durable
  <2>2. ASSUME NEW n \in Durable \ engine.owned PROVE n \in (Durable \ engine.owned)'
    <3>1. PICK k \in BatchIds : rows[k] # "none" /\ n \in made[k]
      BY DEF Durable
    <3>2. rows'[k] # "none"
      BY <1>5, <1>6, <3>1
    <3> QED BY <1>3, <3>1, <3>2 DEF Durable
  <2> QED BY <2>1, <2>2
<1> QED BY <1>3, <1>7, ReferencesFrame

(* The commit of a batch that has its row. *)
LEMMA CommitReferences ==
    ASSUME Types, Places, EnqueueJobs, Rests, Captures, References, ~sup.refused, FlushResult
    PROVE  References'
<1> DEFINE k == worker.reply.batch
           d == CommitBatch(engine, check, k)
<1>0. /\ engine \in Engine /\ check \in Checkpoint /\ k \in BatchIds
      /\ sample \in [Events -> Sample] /\ made \in [BatchIds -> SUBSET Events] /\ worker.reply # NoReply
      /\ Durable \in SUBSET Events /\ Durable' = Durable /\ UNCHANGED sample
  <2>1. /\ engine \in Engine /\ check \in Checkpoint /\ k \in BatchIds
        /\ sample \in [Events -> Sample] /\ made \in [BatchIds -> SUBSET Events] /\ worker.reply # NoReply
    BY DEF FlushResult, Types, Worker, NoReply
  <2>2. Durable' = Durable /\ UNCHANGED sample
    BY DEF FlushResult, Durable, capture
  <2> QED BY <2>1, <2>2, DurableBatched
<1>1. Referred(engine, check, Durable)
  BY DEF References
<1>2. CASE engine' = engine /\ check' = check
  BY <1>0, <1>1, <1>2, ReferencesUnder
<1>3. CASE worker.reply.result = "true" /\ engine' = [d[1] EXCEPT !.preferCommit = tasks.class # "new"] /\ check' = d[2]
  <2>1. d[1] \in Engine /\ d[2] \in Checkpoint
    BY <1>0, CommitTypes
  <2>2. k \in engine.frozen /\ rows[k] # "none"
    BY <1>0, <1>3 DEF EnqueueJobs, Awaits, Rests
  <2>3. made[k] \subseteq engine.owned /\ made[k] \subseteq Durable
    BY <1>0, <2>2 DEF Places, HeldOnce, Durable
  <2>4. \A m, n \in made[k] : sample[m].point = sample[n].point => m = n
    BY <1>0 DEF Captures
  <2>5. Referred(d[1], d[2], Durable)
    BY <1>0, <1>1, <2>2, <2>3, <2>4, CommitReferred
  <2> HIDE DEF d
  <2>6. engine'.shadow = d[1].shadow /\ engine'.owned = d[1].owned
    BY <1>3, <2>1 DEF Engine
  <2>7. Referred(engine', check', Durable)
    BY <1>3, <2>5, <2>6 DEF Referred
  <2> QED BY <1>0, <2>7, ReferencesUnder
<1> QED BY <1>2, <1>3 DEF FlushResult

(* Every step. *)
LEMMA ReferencesStep ==
    ASSUME Types, Types', Places, Phases, EnqueueJobs, Losses, Rests, Captures, Course(engine, check), References,
           [Next]_vars
    PROVE  References'
<1> SUFFICES ASSUME ~sup'.refused PROVE References'
  BY DEF References
<1>0. ~sup.refused /\ engine \in Engine /\ check \in Checkpoint /\ sample \in [Events -> Sample]
  BY RefusedForGood DEF Types
<1>1. Referred(engine, check, Durable)
  BY <1>0 DEF References
<1>2. ASSUME UNCHANGED <<sample, check, made, rows>>, engine'.shadow = engine.shadow, engine'.owned = engine.owned
      PROVE  References'
  <2>1. (Durable \ engine.owned)' = Durable \ engine.owned
    BY <1>2 DEF Durable
  <2> QED BY <1>0, <1>2, <2>1, ReferencesFrame
<1>3. CASE UNCHANGED vars
  BY <1>2, <1>3 DEF vars, capture, report, store
<1>4. CASE Publish \/ TimeChanges \/ Disconnect \/ StopRuntime \/ Close \/ Deadline \/ CloseReturns \/ CleanupShut \/ Refused
           \/ RunDone \/ PersistWake \/ PersistEnd \/ Prepared \/ FlushSubmit \/ FlushEnd
           \/ EnqueueStage \/ GateJob \/ StatsJob \/ CloseJob
  BY <1>2, <1>4
  DEF Publish, TimeChanges, Disconnect, StopRuntime, Close, Deadline, CloseReturns, CleanupShut, Refused, RunDone, PersistWake,
      PersistEnd, Prepared, FlushSubmit, FlushEnd, PersistOnly, EnqueueStage, GateJob, StatsJob, CloseJob, capture, report, store
<1>5. ASSUME NEW p \in Points, Activate(p) \/ Result(p) \/ Expire(p) PROVE References'
  <2>1. /\ boot.seq \in Nat /\ \A m \in Events : m # boot.seq + 1 => sample'[m] = sample[m]
        /\ UNCHANGED <<engine, check, made, rows>>
    BY <1>5, EmitIs
  <2>2. \A m \in Events : m <= boot.seq => sample'[m] = sample[m]
    BY <2>1 DEF Events
  <2>3. (Durable \ engine.owned)' = Durable \ engine.owned
    BY <2>1 DEF Durable
  <2> QED BY <1>0, <2>1, <2>2, <2>3, ReferencesFrame
<1>6. CASE PrepareBatch
  <2> DEFINE k == boot.batch + 1
  <2>1. UNCHANGED <<sample, check, rows>> /\ engine'.shadow = engine.shadow /\ engine'.owned = engine.owned
    BY <1>0, <1>6 DEF PrepareBatch, Freeze, Engine, store
  <2>2. \A j \in BatchIds : rows[j] # "none" => made'[j] = made[j]
    <3> SUFFICES ASSUME NEW j \in BatchIds, rows[j] # "none" PROVE made'[j] = made[j]
      OBVIOUS
    <3>1. j <= boot.batch /\ boot.batch \in Nat /\ j \in Nat
      BY DEF Losses, Types, Capturing, Seqs, BatchIds, Events
    <3>2. j # k
      BY <3>1
    <3> QED BY <1>6, <3>2 DEF PrepareBatch, Types
  <2>3. Durable' = Durable
    BY <2>1, <2>2 DEF Durable
  <2>4. (Durable \ engine.owned)' = Durable \ engine.owned
    BY <2>1, <2>3
  <2> QED BY <1>0, <2>1, <2>4, ReferencesFrame
<1>7. CASE RunAccept \/ RunIdle
  BY <1>0, <1>7, RunReferences
<1>8. CASE FlushResult
  BY <1>0, <1>8, CommitReferences
<1>9. CASE EnqueueInsert
  BY <1>0, <1>9, InsertReferences
<1>10. CASE Outbox
  <2>0. PICK k \in BatchIds : Stored(k) \/ Ended(k) \/ Cleared(k)
    BY <1>10 DEF Outbox
  <2>1. UNCHANGED <<sample, engine, check, made>> /\ rows[k] # "none" /\ rows'[k] # "none"
        /\ \A j \in BatchIds : j # k => rows'[j] = rows[j]
    BY <2>0 DEF Stored, Ended, Cleared, Row, capture, report, Types
  <2>2. Durable' = Durable
    BY <2>1 DEF Durable
  <2>3. (Durable \ engine.owned)' = Durable \ engine.owned
    BY <2>1, <2>2
  <2> QED BY <1>0, <2>1, <2>3, ReferencesFrame
<1>11. CASE Connect
  <2>1. engine'.shadow = engine.shadow /\ engine'.owned = engine.owned /\ UNCHANGED <<sample, check, made, rows>>
    BY <1>0, <1>11 DEF Connect, OpenGate, Engine, capture
  <2> QED BY <1>2, <2>1
<1>12. CASE CleanupAbandon
  <2>1. engine'.owned = {} /\ engine'.shadow = NoPoints /\ UNCHANGED <<sample, check, made, rows>>
    BY <1>0, <1>12 DEF CleanupAbandon, Abandon, Engine, capture
  <2>2. engine.owned \cap Durable = {}
    BY <1>0, <1>12, OwnedHaveNoRow
  <2>3. Durable \ engine.owned = Durable /\ Durable \ {} = Durable
    BY <2>2
  <2>4. \A p \in Points : Of({}, p, check) = {} /\ NoPoints[p] = 0
    BY DEF Of, NoPoints
  <2>5. Referred(engine', check', Durable)
    BY <1>1, <2>1, <2>3, <2>4, NewestNone DEF Referred
  <2>6. Durable' = Durable
    BY <2>1 DEF Durable
  <2> QED BY <2>1, <2>5, <2>6, ReferencesUnder
<1>13. CASE Reload
  <2>0. UNCHANGED <<sample, made, rows, boot>> /\ engine.owned = {}
    BY <1>13 DEF Reload, MayStart, Rests
  <2>1. NoEngine \in Engine /\ NoEngine.gen = 0 /\ NoEngine.owned = {} /\ NoEngine.shadow = NoPoints
    BY FreshTypes DEF NoEngine
  <2>2. Durable' = Durable
    BY <2>0 DEF Durable
  <2>3. \A p \in Points : Of({}, p, check) = {} /\ NoPoints[p] = 0
    BY DEF Of, NoPoints
  <2>4. ASSUME NEW e, e.owned = {}, e.shadow = NoPoints PROVE Referred(e, check, Durable)
    BY <1>1, <2>0, <2>3, <2>4, NewestNone DEF Referred
  <2>5. CASE boot.gen = 0
    <3>1. engine' = NoEngine /\ check' = check
      BY <1>13, <2>5 DEF Reload
    <3>2. Referred(NoEngine, check, Durable)
      BY <2>1, <2>4
    <3> QED BY <2>0, <2>2, <3>1, <3>2, ReferencesUnder
  <2>6. CASE boot.gen # 0
    <3> DEFINE d == Configure(NoEngine, check, boot.gen)
    <3>1. engine' = d[1] /\ check' = d[2]
      BY <1>13, <2>6 DEF Reload
    <3>2. /\ d[1].owned = {} /\ d[1].shadow = NoPoints
          /\ d[2] = IF check.gen = boot.gen THEN check ELSE FreshCheck(boot.gen)
      BY <1>0, <2>1, <2>6, ConfigureIs
    <3> HIDE DEF d
    <3>3. CASE check.gen = boot.gen
      <4>1. Referred(d[1], d[2], Durable)
        BY <2>4, <3>2, <3>3
      <4> QED BY <2>0, <2>2, <3>1, <4>1, ReferencesUnder
    <3>4. CASE check.gen # boot.gen
      <4>1. d[2].base = NoPoints /\ \A p \in Points : d[2].epoch[p] = NoEpoch
        BY <3>2, <3>4 DEF FreshCheck
      <4>2. ASSUME NEW n \in d[1].owned \cup Durable PROVE sample[n].gen \in Nat /\ sample[n].gen >= 1
        <5>1. n \in Batched /\ check.gen \in Nat
          BY <1>0, <3>2, DurableBatched, Bounds DEF Checkpoint, Numbers
        <5>2. sample[n].gen \in 1..check.gen
          BY <5>1 DEF Course
        <5> QED BY <5>1, <5>2
      <4>3. Referred(d[1], d[2], Durable)
        BY <3>2, <4>1, <4>2, FreshReferred
      <4> QED BY <2>0, <2>2, <3>1, <4>3, ReferencesUnder
    <3> QED BY <3>3, <3>4
  <2> QED BY <2>5, <2>6
<1> QED
  BY <1>3, <1>4, <1>5, <1>6, <1>7, <1>8, <1>9, <1>10, <1>11, <1>12, <1>13 DEF Next, Run, Persist, Thread, Cleanup

----------------------------------------------------------------------------
(* The invariant. *)

RInv ==
    /\ Types /\ Places /\ Phases /\ Groups /\ EnqueueJobs /\ CloseJobs
    /\ Decisions /\ Losses /\ Gates /\ Rests /\ Gauges
    /\ Captures /\ Course(engine, check) /\ Charged(engine, check) /\ References

(* The first state. *)
LEMMA RInvInit == Init => RInv
<1> SUFFICES ASSUME Init PROVE RInv
  OBVIOUS
<1>1. Types /\ Phases
  BY TypesInit, PhasesInit
<1>2. Groups /\ EnqueueJobs /\ CloseJobs
  BY DEF Init, Groups, EnqueueJobs, CloseJobs, NewTasks, NoWorker, NoEngine
<1>3. Batched = {}
  BY DEF Init, Batched
<1>4. Places
  <2>1. HeldOnce
    BY DEF Init, HeldOnce, NoEngine
  <2>2. boot.batch <= Cardinality(Batched)
    BY <1>3, FS_EmptySet DEF Init
  <2> QED BY <1>3, <2>1, <2>2 DEF Init, Places, NoEngine
<1>5. Captures /\ Course(engine, check)
  BY CapturesInit, CourseInit
<1>6. Charged(engine, check)
  BY ChargedInit DEF Init
<1> QED BY <1>1, <1>2, <1>4, <1>5, <1>6, DecisionsInit, LossesInit, GatesInit, RestsInit, GaugesInit,
           ReferencesInit DEF RInv

(* What holds in every state of a pipeline: the invariant on which the     *)
(* theorems below rest (engine.py, service.py, storage_worker.py).         *)
THEOREM ReportingInvariant == Spec => []RInv
<1>1. RInv /\ [Next]_vars => RInv'
  <2> SUFFICES ASSUME RInv, [Next]_vars PROVE RInv'
    OBVIOUS
  <2>1. Types' /\ Places' /\ Phases' /\ Groups' /\ EnqueueJobs' /\ CloseJobs'
    BY TypesStep, PlacesStep, PhasesStep, EnqueueStep, CloseJobsStep DEF RInv
  <2>2. Decisions' /\ Losses' /\ Gates' /\ Rests'
    BY <2>1, DecisionsStep, LossesStep, GatesStep, RestsStep DEF RInv
  <2>3. Gauges'
    BY <2>1, GaugesStep DEF RInv
  <2>4. Captures' /\ Course(engine, check)' /\ Charged(engine, check)'
    BY <2>1, CapturesStep, CourseStep, ChargedStep DEF RInv
  <2>5. References'
    BY <2>1, ReferencesStep DEF RInv
  <2> QED BY <2>1, <2>2, <2>3, <2>4, <2>5 DEF RInv
<1> QED BY <1>1, RInvInit, PTL DEF Spec

(* In every state an owned event is in exactly one place, a queue or one   *)
(* frozen batch, and what counts as new was captured after the gate        *)
(* (engine.py prepare, open_gate, committed, abandon).                     *)
THEOREM OwnedEventsAreHeldOnce == Spec => []HeldOnce
<1>1. RInv => HeldOnce
  BY DEF RInv, Places
<1> QED BY <1>1, ReportingInvariant, PTL

(* No step starts a pipeline before the thread of the last one has done    *)
(* its last job and closed the store (service.py start, _close).           *)
THEOREM StoreHasOneWriter == Spec => OneWriter
<1>1. RInv /\ [Next]_vars => [(sup.state = "stopped" /\ sup'.state = "up") => (worker.jobs = <<>> /\ ~worker.open)]_vars
  <2> SUFFICES ASSUME RInv, Next, sup.state = "stopped", sup'.state = "up" PROVE worker.jobs = <<>> /\ ~worker.open
    OBVIOUS
  <2>1. sup \in [state : {"up", "stopping", "closing", "stopped", "ending"}, reloads : Nat,
                 refused : BOOLEAN, limit : Limits]
    BY DEF RInv, Types
  <2>2. Reload
    BY <2>1 DEF Next, Publish, TimeChanges, Activate, Result, Expire, Emit, Run, RunAccept, RunIdle, RunDone, Persist,
           PersistWake, PersistEnd, PrepareBatch, Prepared, PersistOnly, FlushSubmit, FlushEnd, FlushResult,
           Thread, EnqueueStage, EnqueueInsert, GateJob, StatsJob, CloseJob, Outbox, Stored, Ended, Cleared, Row,
           Connect, Disconnect, StopRuntime, Close, Deadline, CloseReturns, Cleanup, CleanupAbandon, CleanupShut, Refused
  <2> QED BY <2>2 DEF Reload, MayStart, RInv, CloseJobs
<1> QED BY <1>1, ReportingInvariant, PTL DEF Spec, OneWriter

(* In every state the open decisions are the events in the buffer, and     *)
(* every captured event is counted once (accounting.py, samples.py put).   *)
THEOREM EventsAreDecidedOnce == Spec => []DecidedOnce
<1>1. RInv => DecidedOnce
  BY DEF RInv, Decisions
<1> QED BY <1>1, ReportingInvariant, PTL

(* In every state no event that a close declared known unsent is in a row, *)
(* unless a start was refused meanwhile (engine.py abandon, service.py     *)
(* _finish_close, storage_worker.py).                                      *)
THEOREM LossesAreReal == Spec => []LossIsReal
<1>1. RInv => LossIsReal
  BY DEF RInv, Losses, LossIsReal
<1> QED BY <1>1, ReportingInvariant, PTL

(* In every state the gauges count every selected event that has not ended *)
(* once, whether RAM or a row owns it, and every batch once, unless a      *)
(* start was refused meanwhile (accounting.py decided, materialized,       *)
(* committed, terminal, removed, abandon).                                 *)
THEOREM EventsHaveOneOwner == Spec => []OneOwner
<1>1. RInv => OneOwner
  BY GaugesAreRight DEF RInv
<1> QED BY <1>1, ReportingInvariant, PTL

(* In every state what a reading is compared with is the newest event of   *)
(* its point and epoch that is on its way or was committed, in whatever    *)
(* order the classes were committed, over reloads and given-up events,     *)
(* unless a start was refused meanwhile (engine.py accept, _baseline,      *)
(* committed, _release).                                                   *)
THEOREM ReadingsMeetTheNewest == Spec => []ReferenceIsNewest
<1>1. RInv => ReferenceIsNewest
  BY ReferencesAreRight DEF RInv
<1> QED BY <1>1, ReportingInvariant, PTL

(* In every state an event is charged to the memory budget once for each   *)
(* place that holds it (RAM's queues and batches, the last value of its    *)
(* point, the point's basis), and the charges stay in the budget           *)
(* (engine.py _retain, _forget, configure, committed).                     *)
THEOREM MemoryChargedIsHeld == Spec => []ChargedIsHeld
<1>1. RInv => ChargedIsHeld
  BY ChargesAreRight DEF RInv
<1> QED BY <1>1, ReportingInvariant, PTL

(* In every state in which a connection sends, outbox and engine agree on  *)
(* its gate (service.py send_loop, outbox_session.py open_gate).           *)
THEOREM OutboxAndEngineAgree == Spec => []GateAgrees
<1>1. RInv => GateAgrees
  BY GatesAgree DEF RInv
<1> QED BY <1>1, ReportingInvariant, PTL

=============================================================================
