------------------------- MODULE PlatformTimeProofs -------------------------
(***************************************************************************)
(* Proofs about PlatformTime, for every value of its limits and whatever   *)
(* the hub answers, the monotonic source does and the clocks drift: a      *)
(* token is refused once its reading or its connection is gone, data is    *)
(* sent only on a connection that earned it, a valid reading is the hub's  *)
(* time up to its error, and none lies before the durable floor.           *)
(*                                                                         *)
(* All come down to a relation between the fields before and after a       *)
(* method, which composes as the methods call one another: Follows for     *)
(* tokens and stages, Keeps for the reading, the round and the floor.      *)
(***************************************************************************)
EXTENDS PlatformTime, FiniteSetTheorems, SequenceTheorems, WellFoundedInduction, TLAPS

----------------------------------------------------------------------------
(* What every method preserves. *)

(* c has the fields of NewClock. *)
Fields ==
    {"state", "known", "utc", "residual", "uncertainty", "syncAge", "confirm", "floored", "floor",
     "revision", "connection", "session", "synced", "heartbeat", "get", "request", "round", "attempts",
     "candidates", "wait", "fenced", "dirty", "dirtyRound", "relived", "earned"}

HasFields(c) == c = [f \in Fields |-> c[f]]

(* The stages of a connection are earned in their order, and a state that  *)
(* lets a reading be used has one.                                         *)
Stages(c) ==
    /\ c.state \in States /\ c.revision \in Nat /\ c.connection \in Nat /\ c.earned \in 0..3
    /\ c.known \in BOOLEAN /\ c.session \in BOOLEAN
    /\ c.synced \in BOOLEAN /\ c.heartbeat \in BOOLEAN /\ c.get \in BOOLEAN
    /\ Usable(c) => c.known
    /\ c.synced => c.earned >= 1
    /\ c.heartbeat => c.earned >= 2
    /\ c.get => c.earned = 3

Sound(c) == HasFields(c) /\ Stages(c)

(* Revisions and connections only grow, and a reading is not lost without  *)
(* a new revision.                                                         *)
Follows(c, d) ==
    /\ Sound(d)
    /\ d.revision >= c.revision /\ d.connection >= c.connection
    /\ Usable(c) /\ ~Usable(d) => d.revision > c.revision

(* Nothing changed is nothing lost. *)
LEMMA FollowsItself == ASSUME NEW c, Sound(c) PROVE Follows(c, c)
  BY DEF Follows, Sound, Stages

(* Methods may call one another: what each keeps, they keep together. *)
LEMMA FollowsOn ==
    ASSUME NEW c, NEW d, NEW e, Sound(c), Follows(c, d), Follows(d, e) PROVE Follows(c, e)
  BY DEF Follows, Sound, Stages

(* A step that leaves alone what Sound and Follows speak of. *)
LEMMA OtherFields ==
    ASSUME NEW c, NEW d, Sound(c), HasFields(d),
           d.revision = c.revision, d.connection = c.connection, d.known = c.known,
           d.state = c.state, d.session = c.session, d.synced = c.synced,
           d.heartbeat = c.heartbeat, d.get = c.get, d.earned = c.earned
    PROVE  Follows(c, d)
  BY DEF Follows, Sound, Stages, Usable

----------------------------------------------------------------------------
(* The methods. *)

(* _invalidate *)
LEMMA InvalidateFollows ==
    ASSUME NEW c, Sound(c), NEW st \in Lost
    PROVE  /\ Follows(c, Invalidate(c, st))
           /\ Invalidate(c, st).state = st /\ ~Invalidate(c, st).get
           /\ Invalidate(c, st).known = c.known
  <1> DEFINE b == IF c.state \in Lost THEN c ELSE Bump(c)
             d == Invalidate(c, st)
  <1>1. HasFields(b) /\ Stages(b) /\ b.known = c.known /\ b.connection = c.connection
        /\ b.revision >= c.revision /\ (Usable(c) => b.revision > c.revision)
    BY DEF Sound, HasFields, Fields, Stages, Bump, Usable, Lost
  <1>2. d = [b EXCEPT !.state = st, !.synced = FALSE, !.heartbeat = FALSE, !.get = FALSE,
                      !.request = NoAge, !.wait = 0, !.earned = 0]
    BY DEF Invalidate
  <1> HIDE DEF b, d
  <1>3. /\ HasFields(d) /\ d.state = st /\ d.synced = FALSE /\ d.heartbeat = FALSE /\ d.get = FALSE
        /\ d.earned = 0 /\ d.revision = b.revision /\ d.connection = b.connection
        /\ d.known = b.known /\ d.session = b.session
    BY <1>1, <1>2 DEF HasFields, Fields
  <1>4. st \in States /\ ~Usable(d)
    BY <1>3 DEF Lost, States, Usable
  <1>5. Stages(d)
    <2>1. /\ d.state \in States /\ d.revision \in Nat /\ d.connection \in Nat
      BY <1>1, <1>3, <1>4 DEF Stages
    <2>11. d.earned \in 0..3
      BY <1>1, <1>3, <1>4 DEF Stages
    <2>2. d.known \in BOOLEAN /\ d.session \in BOOLEAN
      BY <1>1, <1>3, <1>4 DEF Stages
    <2>3. d.synced \in BOOLEAN /\ d.heartbeat \in BOOLEAN /\ d.get \in BOOLEAN
      BY <1>1, <1>3, <1>4 DEF Stages
    <2>4. Usable(d) => d.known
      BY <1>4
    <2>5. ~d.synced /\ ~d.heartbeat /\ ~d.get
      BY <1>3
    <2> QED
      BY <2>1, <2>11, <2>2, <2>3, <2>4, <2>5 DEF Stages
  <1>6. Follows(c, d)
    <2>1. Sound(d)
      BY <1>3, <1>5 DEF Sound
    <2>2. d.revision >= c.revision /\ d.connection = c.connection
      BY <1>1, <1>3
    <2>3. d.connection >= c.connection
      BY <2>2 DEF Sound, Stages
    <2>4. Usable(c) => d.revision > c.revision
      BY <1>1, <1>3
    <2> QED
      BY <2>1, <2>2, <2>3, <2>4 DEF Follows
  <1> QED
    BY <1>1, <1>3, <1>6 DEF d

(* _utc = None, where the reading cannot be used anyway. *)
LEMMA ForgetFollows ==
    ASSUME NEW c, Sound(c), c.state \in Lost
    PROVE  Follows(c, Forget(c)) /\ Forget(c).state = c.state /\ Forget(c).get = c.get
           /\ Forget(c).known = FALSE
  <1> DEFINE d == Forget(c)
  <1>1. /\ HasFields(d) /\ d.state = c.state /\ d.synced = c.synced /\ d.heartbeat = c.heartbeat
        /\ d.get = c.get /\ d.earned = c.earned /\ d.revision = c.revision
        /\ d.connection = c.connection /\ d.known = FALSE /\ d.session = c.session
    BY DEF Sound, HasFields, Fields, Forget
  <1> HIDE DEF d
  <1>2. ~Usable(c) /\ ~Usable(d)
    BY <1>1 DEF Usable, Lost
  <1>3. Stages(d)
    BY <1>1, <1>2 DEF Sound, Stages, Usable
  <1>4. Follows(c, d)
    BY <1>1, <1>2, <1>3 DEF Follows, Sound, Stages, Usable
  <1> QED
    BY <1>1, <1>4 DEF d

(* _advance *)
LEMMA AdvanceFollows ==
    ASSUME NEW c, Sound(c)
    PROVE  Follows(c, Advance(c)) /\ (Advance(c) = c \/ ~Advance(c).get)
  <1>1. CASE ahead <= 0
    BY <1>1, FollowsItself DEF Advance
  <1>2. CASE ~(ahead <= 0)
    <2> DEFINE i == Invalidate(c, "MAINTENANCE")
               f == Forget(i)
               d == [f EXCEPT !.fenced = TRUE]
    <2>1. "MAINTENANCE" \in Lost
      BY DEF Lost
    <2>2. Follows(c, i) /\ i.state = "MAINTENANCE" /\ ~i.get
      BY <2>1, InvalidateFollows
    <2> HIDE DEF i
    <2>3. Follows(i, f) /\ f.get = i.get
      BY <2>1, <2>2, ForgetFollows DEF Follows
    <2> HIDE DEF f
    <2>4. /\ HasFields(d) /\ d.state = f.state /\ d.synced = f.synced /\ d.heartbeat = f.heartbeat
          /\ d.get = f.get /\ d.earned = f.earned /\ d.revision = f.revision
          /\ d.connection = f.connection /\ d.known = f.known /\ d.session = f.session
      BY <2>3 DEF Follows, Sound, HasFields, Fields
    <2>5. Advance(c) = d
      BY <1>2 DEF Advance, d, f, i
    <2> HIDE DEF d
    <2>6. Follows(f, d)
      BY <2>3, <2>4, OtherFields DEF Follows
    <2>7. Follows(c, d)
      BY <2>2, <2>3, <2>6, FollowsOn DEF Follows
    <2> QED
      BY <2>2, <2>3, <2>4, <2>5, <2>7
  <1> QED
    BY <1>1, <1>2

(* snapshot: it keeps what was earned, or takes the last stage back. *)
LEMMA SnapshotFollows ==
    ASSUME NEW c, Sound(c)
    PROVE  /\ Follows(c, Snapshot(c))
           /\ Snapshot(c).get => Snapshot(c).earned = c.earned
  <1> DEFINE a == Advance(c)
             s == Snapshot(c)
  <1>1. Follows(c, a) /\ (a = c \/ ~a.get) /\ Sound(a)
    BY AdvanceFollows DEF Follows
  <1> HIDE DEF a
  <1>2. CASE Valid(a)
    <2>1. s = [a EXCEPT !.state = IF a.synced THEN "SYNCED" ELSE "HOLDOVER"]
      BY <1>2 DEF Snapshot, a
    <2>2. Usable(a) /\ a.known
      BY <1>2 DEF Valid, Usable
    <2> HIDE DEF s
    <2>3. /\ HasFields(s) /\ s.state \in {"SYNCED", "HOLDOVER"} /\ s.synced = a.synced
          /\ s.heartbeat = a.heartbeat /\ s.get = a.get /\ s.earned = a.earned
          /\ s.revision = a.revision /\ s.connection = a.connection
          /\ s.known = a.known /\ s.session = a.session
      BY <1>1, <2>1 DEF Sound, HasFields, Fields
    <2>4. Follows(a, s)
      BY <1>1, <2>2, <2>3 DEF Follows, Sound, Stages, Usable, States
    <2> QED
      BY <1>1, <2>3, <2>4, FollowsOn DEF s
  <1>3. CASE ~Valid(a) /\ a.state \in {"SYNCED", "HOLDOVER"}
    <2>1. s = Invalidate(a, "EXPIRED") /\ "EXPIRED" \in Lost
      BY <1>3 DEF Snapshot, a, Lost
    <2> HIDE DEF s
    <2>2. Follows(a, s) /\ ~s.get
      BY <1>1, <2>1, InvalidateFollows
    <2> QED
      BY <1>1, <2>2, FollowsOn DEF s
  <1>4. CASE ~Valid(a) /\ a.state \notin {"SYNCED", "HOLDOVER"}
    <2>1. s = a
      BY <1>4 DEF Snapshot, a
    <2> QED
      BY <1>1, <2>1
  <1> QED
    BY <1>2, <1>3, <1>4

(* The end of _adopt: this connection is synchronised, if there is one. *)
LEMMA SettleFollows ==
    ASSUME NEW c, Sound(c), NEW target, NEW error
    PROVE  Follows(c, Settle(c, target, error))
  <1> DEFINE fresh == ~c.known \/ c.state \in {"EXPIRED", "UNSYNCED", "SYNCING"}
             g == IF fresh THEN [Bump(c) EXCEPT !.known = TRUE, !.utc = target, !.residual = 0]
                  ELSE [c EXCEPT !.residual = target - c.utc]
             d == Settle(c, target, error)
  <1>1. /\ HasFields(g) /\ g.known = TRUE /\ g.revision >= c.revision /\ g.revision \in Nat
        /\ g.connection = c.connection /\ g.session = c.session /\ g.heartbeat = c.heartbeat
        /\ g.get = c.get /\ g.earned = c.earned
    <2>1. CASE fresh
      <3> DEFINE b == Bump(c)
      <3>1. /\ HasFields(b) /\ b.revision = c.revision + 1 /\ b.connection = c.connection
            /\ b.session = c.session /\ b.heartbeat = c.heartbeat /\ b.get = c.get /\ b.earned = c.earned
        BY DEF Sound, HasFields, Fields, Bump
      <3>2. g = [b EXCEPT !.known = TRUE, !.utc = target, !.residual = 0]
        BY <2>1
      <3> HIDE DEF b, g, fresh
      <3>3. HasFields(g) /\ g.known = TRUE /\ g.revision = b.revision /\ g.connection = b.connection
            /\ g.session = b.session /\ g.heartbeat = b.heartbeat /\ g.get = b.get /\ g.earned = b.earned
        BY <3>1, <3>2 DEF HasFields, Fields
      <3>4. c.revision \in Nat
        BY DEF Sound, Stages
      <3>5. g.revision >= c.revision /\ g.revision \in Nat
        BY <3>1, <3>3, <3>4
      <3> QED
        BY <3>1, <3>3, <3>5
    <2>2. CASE ~fresh
      <3>1. g = [c EXCEPT !.residual = target - c.utc]
        BY <2>2
      <3>2. c.known = TRUE
        BY <2>2 DEF Sound, Stages
      <3> HIDE DEF g, fresh
      <3> QED
        BY <3>1, <3>2 DEF Sound, HasFields, Fields, Stages
    <2> QED
      BY <2>1, <2>2
  <1>2. d = [g EXCEPT !.confirm = FALSE, !.uncertainty = error, !.syncAge = 0, !.state = "SYNCED",
                      !.synced = c.session, !.wait = Delay, !.dirty = @ /\ c.dirtyRound, !.relived = 0,
                      !.earned = IF c.session /\ @ = 0 THEN 1 ELSE @]
    BY DEF Settle
  <1> HIDE DEF g, d
  <1>3. /\ HasFields(d) /\ d.known = TRUE /\ d.revision = g.revision /\ d.connection = g.connection
        /\ d.state = "SYNCED" /\ d.synced = c.session /\ d.session = g.session
        /\ d.heartbeat = g.heartbeat /\ d.get = g.get
        /\ d.earned = IF c.session /\ g.earned = 0 THEN 1 ELSE g.earned
    BY <1>1, <1>2 DEF HasFields, Fields
  <1>4. Usable(d) /\ "SYNCED" \in States
    BY <1>3 DEF Usable, States
  <1>5. Stages(d)
    <2>1. /\ d.state \in States /\ d.revision \in Nat /\ d.connection \in Nat
          /\ d.known \in BOOLEAN /\ d.session \in BOOLEAN
          /\ d.synced \in BOOLEAN /\ d.heartbeat \in BOOLEAN /\ d.get \in BOOLEAN
          /\ d.known = TRUE
      BY <1>1, <1>3, <1>4 DEF Sound, Stages
    <2>2. c.earned \in 0..3 /\ d.earned = IF c.session /\ c.earned = 0 THEN 1 ELSE c.earned
      BY <1>1, <1>3 DEF Sound, Stages
    <2>3. d.earned \in 0..3 /\ d.earned >= c.earned /\ (c.session => d.earned >= 1)
      BY <2>2
    <2>4. (c.heartbeat => c.earned >= 2) /\ (c.get => c.earned = 3)
      BY DEF Sound, Stages
    <2>5. d.synced = c.session /\ d.heartbeat = c.heartbeat /\ d.get = c.get
      BY <1>1, <1>3
    <2>6. /\ d.synced => d.earned >= 1
          /\ d.heartbeat => d.earned >= 2
          /\ d.get => d.earned = 3
      BY <2>2, <2>3, <2>4, <2>5
    <2> QED
      BY <2>1, <2>3, <2>6 DEF Stages
  <1>6. Follows(c, d)
    BY <1>1, <1>3, <1>4, <1>5 DEF Follows, Sound, Stages
  <1> QED
    BY <1>6 DEF d

(* A deviation that is confirmed starts over with a new reading. *)
LEMMA BumpFollows ==
    ASSUME NEW c, Sound(c)
    PROVE  Follows(c, Bump(c)) /\ Bump(c).state = c.state
  <1> DEFINE d == Bump(c)
  <1>1. /\ HasFields(d) /\ d.state = c.state /\ d.synced = c.synced /\ d.heartbeat = c.heartbeat
        /\ d.get = c.get /\ d.earned = c.earned /\ d.revision = c.revision + 1
        /\ d.connection = c.connection /\ d.known = c.known /\ d.session = c.session
    BY DEF Sound, HasFields, Fields, Bump
  <1> HIDE DEF d
  <1>2. c.revision \in Nat /\ d.revision \in Nat /\ d.revision > c.revision
    BY <1>1 DEF Sound, Stages
  <1>3. Stages(d)
    BY <1>1, <1>2 DEF Sound, Stages, Usable
  <1>4. Follows(c, d)
    BY <1>1, <1>2, <1>3 DEF Follows, Sound, Stages
  <1> QED
    BY <1>1, <1>4 DEF d

(* _adopt *)
LEMMA AdoptFollows ==
    ASSUME NEW c, Sound(c), NEW target, NEW error
    PROVE  Follows(c, Adopt(c, target, error))
  <1> DEFINE a == Advance(c)
             suspect == Invalidate(a, "SUSPECT")
             d == Adopt(c, target, error)
  <1> SUFFICES Follows(c, d)
    OBVIOUS
  <1>0. "MAINTENANCE" \in Lost /\ "SUSPECT" \in Lost
    BY DEF Lost
  <1>1. Follows(c, a) /\ Sound(a)
    BY AdvanceFollows DEF Follows
  <1>2. \/ d = Invalidate(a, "MAINTENANCE")
        \/ d = Settle(a, target, error)
        \/ d = [suspect EXCEPT !.confirm = TRUE]
        \/ d = Invalidate(suspect, "MAINTENANCE")
        \/ d = Settle(Forget(Bump(suspect)), target, error)
    BY DEF Adopt
  <1> HIDE DEF a, d
  <1>3. Follows(a, suspect) /\ Sound(suspect) /\ suspect.state = "SUSPECT"
    BY <1>0, <1>1, InvalidateFollows DEF Follows
  <1>4. Follows(c, suspect)
    BY <1>1, <1>3, FollowsOn
  <1> HIDE DEF suspect
  <1>5. CASE d = Invalidate(a, "MAINTENANCE")
    BY <1>0, <1>1, <1>5, InvalidateFollows, FollowsOn
  <1>6. CASE d = Settle(a, target, error)
    BY <1>1, <1>6, SettleFollows, FollowsOn
  <1>7. CASE d = [suspect EXCEPT !.confirm = TRUE]
    <2>1. /\ HasFields(d) /\ d.state = suspect.state /\ d.synced = suspect.synced
          /\ d.heartbeat = suspect.heartbeat /\ d.get = suspect.get /\ d.earned = suspect.earned
          /\ d.revision = suspect.revision /\ d.connection = suspect.connection
          /\ d.known = suspect.known /\ d.session = suspect.session
      BY <1>3, <1>7 DEF Sound, HasFields, Fields
    <2>2. Follows(suspect, d)
      BY <1>3, <2>1, OtherFields
    <2> QED
      BY <1>4, <2>2, FollowsOn
  <1>8. CASE d = Invalidate(suspect, "MAINTENANCE")
    BY <1>0, <1>3, <1>4, <1>8, InvalidateFollows, FollowsOn
  <1>9. CASE d = Settle(Forget(Bump(suspect)), target, error)
    <2> DEFINE b == Bump(suspect)
               f == Forget(b)
    <2>1. Follows(suspect, b) /\ Sound(b) /\ b.state \in Lost
      BY <1>0, <1>3, BumpFollows DEF Follows
    <2> HIDE DEF b
    <2>2. Follows(b, f) /\ Sound(f)
      BY <2>1, ForgetFollows DEF Follows
    <2> HIDE DEF f
    <2>3. Follows(f, d)
      BY <1>9, <2>2, SettleFollows DEF f, b
    <2> QED
      BY <1>4, <2>1, <2>2, <2>3, FollowsOn
  <1> QED
    BY <1>2, <1>5, <1>6, <1>7, <1>8, <1>9

(* The fields of a round are none of those. *)
LEMMA ClosedFollows ==
    ASSUME NEW c, Sound(c)
    PROVE  Follows(c, Closed(c))
  <1> DEFINE d == Closed(c)
  <1>1. /\ HasFields(d) /\ d.state = c.state /\ d.synced = c.synced /\ d.heartbeat = c.heartbeat
        /\ d.get = c.get /\ d.earned = c.earned /\ d.revision = c.revision
        /\ d.connection = c.connection /\ d.known = c.known /\ d.session = c.session
    BY DEF Sound, HasFields, Fields, Closed
  <1> HIDE DEF d
  <1> QED
    BY <1>1, OtherFields DEF d

(* A state given to a clock without a reading, next to fields of the round.*)
LEMMA UnknownFollows ==
    ASSUME NEW c, Sound(c), NEW d, HasFields(d),
           d.state \in Lost \cup {"SYNCING"}, ~c.known,
           d.revision = c.revision, d.connection = c.connection, d.known = c.known,
           d.session = c.session, d.synced = c.synced, d.heartbeat = c.heartbeat, d.get = c.get,
           d.earned = c.earned
    PROVE  Follows(c, d)
  <1>1. ~Usable(c) /\ ~Usable(d) /\ d.state \in States
    BY DEF Sound, Stages, Usable, Lost, States
  <1>2. Stages(d)
    BY <1>1 DEF Sound, Stages
  <1> QED
    BY <1>1, <1>2 DEF Follows, Sound, Stages

(* _finish_round *)
LEMMA FinishRoundFollows ==
    ASSUME NEW c, Sound(c)
    PROVE  Follows(c, FinishRound(c))
  <1> DEFINE target == c.candidates[Best(c)].target
             error == c.candidates[Best(c)].error
             st == IF c.known \/ c.state = "MAINTENANCE" THEN c.state ELSE "UNSYNCED"
             g == [c EXCEPT !.wait = Delay, !.state = st]
  <1>1. CASE Agreed(c)
    <2>1. FinishRound(c) = Closed(Adopt(c, target, error))
      BY <1>1 DEF FinishRound
    <2> HIDE DEF target, error
    <2>2. Follows(c, Adopt(c, target, error)) /\ Sound(Adopt(c, target, error))
      BY AdoptFollows DEF Follows
    <2>3. Follows(Adopt(c, target, error), Closed(Adopt(c, target, error)))
      BY <2>2, ClosedFollows
    <2> QED
      BY <2>1, <2>2, <2>3, FollowsOn
  <1>2. CASE ~Agreed(c)
    <2>1. FinishRound(c) = Closed(g)
      BY <1>2 DEF FinishRound
    <2>2. /\ HasFields(g) /\ g.state = st /\ g.synced = c.synced /\ g.heartbeat = c.heartbeat
          /\ g.get = c.get /\ g.earned = c.earned /\ g.revision = c.revision
          /\ g.connection = c.connection /\ g.known = c.known /\ g.session = c.session
      BY DEF Sound, HasFields, Fields
    <2>3. st = c.state \/ (~c.known /\ st = "UNSYNCED")
      OBVIOUS
    <2> HIDE DEF g, st
    <2>4. Follows(c, g)
      <3>1. CASE st = c.state
        BY <2>2, <3>1, OtherFields
      <3>2. CASE ~c.known /\ st = "UNSYNCED"
        BY <2>2, <3>2, UnknownFollows DEF Lost
      <3> QED
        BY <2>3, <3>1, <3>2
    <2>5. Follows(g, Closed(g))
      BY <2>4, ClosedFollows DEF Follows
    <2> QED
      BY <2>1, <2>4, <2>5, FollowsOn
  <1> QED
    BY <1>1, <1>2

(* connect: nothing of the connection before it is left. *)
LEMMA ConnectedFollows ==
    ASSUME NEW c, Sound(c), NEW session \in BOOLEAN
    PROVE  Follows(c, Connected(c, session))
  <1> DEFINE k == Closed(c)
             d == Connected(c, session)
  <1>1. Follows(c, k) /\ Sound(k) /\ k.state = c.state /\ k.known = c.known /\ k.revision = c.revision
        /\ k.connection = c.connection
    BY ClosedFollows DEF Follows, Sound, HasFields, Fields, Closed
  <1>2. d = [k EXCEPT !.connection = k.connection + 1, !.session = session, !.synced = FALSE,
                      !.heartbeat = FALSE, !.get = FALSE, !.wait = 0, !.earned = 0]
    BY DEF Connected
  <1> HIDE DEF k, d
  <1>3. /\ HasFields(d) /\ d.state = k.state /\ d.known = k.known /\ d.revision = k.revision
        /\ d.connection = k.connection + 1 /\ d.session = session /\ d.synced = FALSE
        /\ d.heartbeat = FALSE /\ d.get = FALSE /\ d.earned = 0
    BY <1>1, <1>2 DEF Sound, HasFields, Fields
  <1>4. k.revision \in Nat /\ k.connection \in Nat /\ k.state \in States /\ k.known \in BOOLEAN
        /\ (Usable(k) => k.known)
    BY <1>1 DEF Sound, Stages
  <1>5. Usable(k) <=> Usable(d)
    BY <1>3 DEF Usable
  <1>6. d.connection \in Nat /\ d.connection >= c.connection /\ d.revision >= c.revision
    BY <1>1, <1>3, <1>4
  <1>7. Stages(d)
    <2>4. d.earned \in 0..3
      BY <1>3
    <2>0. d.synced \in BOOLEAN /\ d.heartbeat \in BOOLEAN /\ d.get \in BOOLEAN
      BY <1>3
    <2>1. /\ d.state \in States /\ d.revision \in Nat /\ d.connection \in Nat
          /\ d.known \in BOOLEAN /\ d.session \in BOOLEAN
      BY <1>3, <1>4, <1>6
    <2>2. ~d.synced /\ ~d.heartbeat /\ ~d.get
      BY <1>3
    <2>3. Usable(d) => d.known
      BY <1>3, <1>4, <1>5
    <2> QED
      BY <2>0, <2>1, <2>2, <2>3, <2>4 DEF Stages
  <1>8. Usable(c) <=> Usable(d)
    BY <1>1, <1>3 DEF Usable
  <1> QED
    BY <1>3, <1>6, <1>7, <1>8 DEF Follows, Sound, d

(* request *)
LEMMA RequestedFollows ==
    ASSUME NEW c, Sound(c)
    PROVE  Follows(c, Requested(c))
  <1> DEFINE s == Snapshot(c)
             e == Expired(s)
             o == Opened(e)
             sent == [o EXCEPT !.request = 0, !.attempts = @ + 1]
  <1>1. Requested(c) \in {s, e, FinishRound(o), sent}
    BY DEF Requested
  <1>2. Follows(c, s) /\ Sound(s)
    BY SnapshotFollows DEF Follows
  <1> HIDE DEF s
  <1>3. Follows(s, e) /\ Sound(e)
    <2> DEFINE r == IF s.round # NoAge /\ (s.round >= RoundMax \/ (s.attempts >= MaxAttempts /\ s.request = NoAge))
                    THEN FinishRound(s) ELSE s
               g == [r EXCEPT !.request = NoAge]
    <2>1. e \in {r, FinishRound(g), g}
      BY DEF Expired
    <2>2. Follows(s, r) /\ Sound(r)
      <3>1. r \in {s, FinishRound(s)}
        OBVIOUS
      <3> QED
        BY <1>2, <3>1, FinishRoundFollows, FollowsItself DEF Follows
    <2> HIDE DEF r, e
    <2>3. /\ HasFields(g) /\ g.state = r.state /\ g.synced = r.synced /\ g.heartbeat = r.heartbeat
          /\ g.get = r.get /\ g.earned = r.earned /\ g.revision = r.revision
          /\ g.connection = r.connection /\ g.known = r.known /\ g.session = r.session
      BY <2>2 DEF Sound, HasFields, Fields
    <2> HIDE DEF g
    <2>4. Follows(r, g) /\ Sound(g)
      BY <2>2, <2>3, OtherFields DEF Follows
    <2>5. Follows(g, FinishRound(g))
      BY <2>4, FinishRoundFollows
    <2>6. Follows(s, g)
      BY <1>2, <2>2, <2>4, FollowsOn
    <2>7. Follows(s, FinishRound(g))
      BY <1>2, <2>5, <2>6, FollowsOn
    <2>8. Follows(s, e)
      BY <2>1, <2>2, <2>6, <2>7
    <2> QED
      BY <2>8 DEF Follows
  <1> HIDE DEF e
  <1>4. Follows(e, o) /\ Sound(o)
    <2>1. CASE e.round # NoAge
      BY <1>3, <2>1, FollowsItself DEF Opened
    <2>2. CASE e.round = NoAge
      <3> DEFINE st == IF e.known THEN e.state ELSE "SYNCING"
      <3>1. o = [e EXCEPT !.round = 0, !.dirtyRound = FALSE, !.state = st]
        BY <2>2 DEF Opened
      <3>2. st = e.state \/ (~e.known /\ st = "SYNCING")
        OBVIOUS
      <3> HIDE DEF st, o
      <3>3. /\ HasFields(o) /\ o.state = st /\ o.synced = e.synced /\ o.heartbeat = e.heartbeat
            /\ o.get = e.get /\ o.earned = e.earned /\ o.revision = e.revision
            /\ o.connection = e.connection /\ o.known = e.known /\ o.session = e.session
        BY <1>3, <3>1 DEF Sound, HasFields, Fields
      <3>4. CASE st = e.state
        BY <1>3, <3>3, <3>4, OtherFields DEF Follows
      <3>5. CASE ~e.known /\ st = "SYNCING"
        BY <1>3, <3>3, <3>5, UnknownFollows DEF Follows
      <3> QED
        BY <3>2, <3>4, <3>5
    <2> QED
      BY <2>1, <2>2
  <1> HIDE DEF o
  <1>5. /\ HasFields(sent) /\ sent.state = o.state /\ sent.synced = o.synced
        /\ sent.heartbeat = o.heartbeat /\ sent.get = o.get /\ sent.earned = o.earned
        /\ sent.revision = o.revision /\ sent.connection = o.connection
        /\ sent.known = o.known /\ sent.session = o.session
    BY <1>4 DEF Sound, HasFields, Fields
  <1> HIDE DEF sent
  <1>6. Follows(o, sent) /\ Follows(o, FinishRound(o))
    BY <1>4, <1>5, OtherFields, FinishRoundFollows
  <1>7. Follows(c, e)
    BY <1>2, <1>3, FollowsOn
  <1>8. Follows(c, o)
    BY <1>4, <1>7, FollowsOn
  <1>9. Follows(c, sent) /\ Follows(c, FinishRound(o))
    BY <1>6, <1>8, FollowsOn
  <1> QED
    BY <1>1, <1>2, <1>7, <1>9

----------------------------------------------------------------------------
(* The invariant. *)

(* A token that is still held was not there when its reading or its        *)
(* connection was lost: it is compared at every step, and what it carries  *)
(* never comes back.                                                       *)
HeldIsWhole ==
    /\ held \in [age : Int, revision : Nat, connection : Nat, broken : BOOLEAN]
    /\ held.age # NoAge =>
           ~held.broken /\ held.revision <= clock.revision /\ held.connection <= clock.connection

TimeInv == Sound(clock) /\ HeldIsWhole

(* The fields become those that a method leaves. *)
LEMMA BecomesStep ==
    ASSUME TimeInv, NEW c, Follows(clock, c), Becomes(c)
    PROVE  TimeInv'
  <1>1. clock' = c /\ Sound(c)
    BY DEF Becomes, Follows
  <1>2. /\ held \in [age : Int, revision : Nat, connection : Nat, broken : BOOLEAN]
        /\ held.age # NoAge =>
               ~held.broken /\ held.revision <= clock.revision /\ held.connection <= clock.connection
        /\ clock.revision \in Nat /\ clock.connection \in Nat /\ c.revision \in Nat /\ c.connection \in Nat
    BY <1>1 DEF TimeInv, HeldIsWhole, Sound, Stages
  <1>3. /\ c.revision >= clock.revision /\ c.connection >= clock.connection
        /\ Usable(clock) /\ ~Usable(c) => c.revision > clock.revision
    BY DEF Follows
  <1>4. CASE ~Current(c, held)
    <2>1. held' = NoToken
      BY <1>4 DEF Becomes
    <2>2. HeldIsWhole'
      BY <2>1 DEF HeldIsWhole, NoToken, NoAge
    <2> QED
      BY <1>1, <2>2 DEF TimeInv
  <1>5. CASE Current(c, held)
    <2>1. held.age # NoAge /\ held.revision = c.revision /\ held.connection = c.connection
      BY <1>5, <1>2 DEF Current, NoAge
    <2>2. c.revision = clock.revision /\ c.connection = clock.connection
      BY <1>2, <1>3, <2>1
    <2>3. ~(Usable(clock) /\ ~Usable(c))
      <3>1. ~(c.revision > clock.revision)
        BY <1>2, <2>2
      <3> QED
        BY <1>3, <3>1
    <2>4. held.broken = FALSE
      BY <1>2, <2>1
    <2>5. held' = [held EXCEPT !.broken = FALSE]
      BY <1>5, <2>2, <2>3, <2>4 DEF Becomes
    <2>6. /\ held' \in [age : Int, revision : Nat, connection : Nat, broken : BOOLEAN]
          /\ held'.broken = FALSE /\ held'.revision = held.revision /\ held'.connection = held.connection
      BY <1>2, <2>5
    <2>7. HeldIsWhole'
      BY <1>1, <1>2, <2>1, <2>6 DEF HeldIsWhole
    <2> QED
      BY <1>1, <2>7 DEF TimeInv
  <1> QED
    BY <1>4, <1>5

(* Time, and jumps of the clocks, change neither what Sound speaks of nor  *)
(* what a token carries.                                                   *)
LEMMA OutsideStep ==
    ASSUME TimeInv, HasFields(clock'),
           clock'.revision = clock.revision, clock'.connection = clock.connection,
           clock'.known = clock.known, clock'.state = clock.state, clock'.session = clock.session,
           clock'.synced = clock.synced, clock'.heartbeat = clock.heartbeat, clock'.get = clock.get,
           clock'.earned = clock.earned,
           held' = NoToken \/ (held.age # NoAge /\ \E n \in Int : held' = [held EXCEPT !.age = n]) \/ held' = held
    PROVE  TimeInv'
  <1> DEFINE d == clock'
  <1>1. Follows(clock, d)
    <2>1. Sound(clock) /\ HasFields(d) /\ d.revision = clock.revision /\ d.connection = clock.connection
          /\ d.known = clock.known /\ d.state = clock.state /\ d.session = clock.session
          /\ d.synced = clock.synced /\ d.heartbeat = clock.heartbeat /\ d.get = clock.get
          /\ d.earned = clock.earned
      BY DEF TimeInv
    <2> HIDE DEF d
    <2> QED
      BY <2>1, OtherFields
  <1>2. Sound(clock')
    BY <1>1 DEF Follows
  <1>3. HeldIsWhole'
    <2>0. /\ held \in [age : Int, revision : Nat, connection : Nat, broken : BOOLEAN]
          /\ held.age # NoAge =>
                 ~held.broken /\ held.revision <= clock.revision /\ held.connection <= clock.connection
      BY DEF TimeInv, HeldIsWhole
    <2>1. CASE held' = NoToken
      BY <2>1 DEF HeldIsWhole, NoToken, NoAge
    <2>2. ASSUME held.age # NoAge, NEW n \in Int, held' = [held EXCEPT !.age = n]
          PROVE  HeldIsWhole'
      <3>1. /\ held' \in [age : Int, revision : Nat, connection : Nat, broken : BOOLEAN]
            /\ held'.broken = held.broken /\ held'.revision = held.revision
            /\ held'.connection = held.connection
        BY <2>0, <2>2
      <3> QED
        BY <2>0, <2>2, <3>1 DEF HeldIsWhole
    <2>3. CASE held' = held
      BY <2>0, <2>3 DEF HeldIsWhole
    <2> QED
      BY <2>1, <2>2, <2>3
  <1> QED
    BY <1>2, <1>3 DEF TimeInv

----------------------------------------------------------------------------
(* The steps. *)

(* connect, disconnect, request, require and a foreign boundary *)
LEMMA MethodStep ==
    ASSUME TimeInv, Connect \/ Disconnect \/ Request \/ Require \/ LoadForeignBasis
    PROVE  TimeInv'
  <1>1. Sound(clock) /\ TRUE \in BOOLEAN /\ FALSE \in BOOLEAN /\ "MAINTENANCE" \in Lost
    BY DEF TimeInv, Lost
  <1>2. CASE Connect
    BY <1>1, <1>2, ConnectedFollows, BecomesStep DEF Connect
  <1>3. CASE Disconnect
    BY <1>1, <1>3, ConnectedFollows, BecomesStep DEF Disconnect
  <1>4. CASE Request
    BY <1>1, <1>4, RequestedFollows, BecomesStep DEF Request
  <1>5. CASE Require
    BY <1>1, <1>5, SnapshotFollows, BecomesStep DEF Require
  <1>6. CASE LoadForeignBasis
    BY <1>1, <1>6, InvalidateFollows, BecomesStep DEF LoadForeignBasis
  <1> QED
    BY <1>2, <1>3, <1>4, <1>5, <1>6

(* load_history_boundary *)
LEMMA BoundaryStep ==
    ASSUME TimeInv, NEW floor, NEW lag, LoadBoundary(floor, lag)
    PROVE  TimeInv'
  <1> DEFINE c == [clock EXCEPT !.floor = IF clock.floored /\ @ > floor THEN @ ELSE floor, !.floored = TRUE]
  <1>0. Sound(clock) /\ "MAINTENANCE" \in Lost
    BY DEF TimeInv, Lost
  <1>1. /\ HasFields(c) /\ c.state = clock.state /\ c.synced = clock.synced
        /\ c.heartbeat = clock.heartbeat /\ c.get = clock.get /\ c.earned = clock.earned
        /\ c.revision = clock.revision /\ c.connection = clock.connection
        /\ c.known = clock.known /\ c.session = clock.session
    BY <1>0 DEF Sound, HasFields, Fields
  <1>2. Becomes(c) \/ Becomes(Invalidate(c, "MAINTENANCE"))
    BY DEF LoadBoundary
  <1> HIDE DEF c
  <1>3. Follows(clock, c) /\ Sound(c)
    BY <1>0, <1>1, OtherFields DEF Follows
  <1>4. Follows(clock, Invalidate(c, "MAINTENANCE"))
    <2>1. Follows(c, Invalidate(c, "MAINTENANCE"))
      BY <1>0, <1>3, InvalidateFollows
    <2> QED
      BY <1>0, <1>3, <2>1, FollowsOn
  <1> QED
    BY <1>2, <1>3, <1>4, BecomesStep

(* response *)
LEMMA RespondStep ==
    ASSUME TimeInv, NEW rtt, NEW path, NEW off, Respond(rtt, path, off) \/ RespondLate
    PROVE  TimeInv'
  <1> DEFINE error == path + (clock.request - rtt) * Drift
             c == [clock EXCEPT !.request = NoAge,
                                !.candidates = Append(@, [target |-> off, path |-> path, rtt |-> rtt,
                                                          error |-> error])]
             l == [clock EXCEPT !.request = NoAge]
  <1>0. Sound(clock)
    BY DEF TimeInv
  <1>1. /\ HasFields(c) /\ c.state = clock.state /\ c.synced = clock.synced
        /\ c.heartbeat = clock.heartbeat /\ c.get = clock.get /\ c.earned = clock.earned
        /\ c.revision = clock.revision /\ c.connection = clock.connection
        /\ c.known = clock.known /\ c.session = clock.session
    BY <1>0 DEF Sound, HasFields, Fields
  <1>2. /\ HasFields(l) /\ l.state = clock.state /\ l.synced = clock.synced
        /\ l.heartbeat = clock.heartbeat /\ l.get = clock.get /\ l.earned = clock.earned
        /\ l.revision = clock.revision /\ l.connection = clock.connection
        /\ l.known = clock.known /\ l.session = clock.session
    BY <1>0 DEF Sound, HasFields, Fields
  <1>3. Becomes(c) \/ Becomes(FinishRound(c)) \/ Becomes(l)
    BY DEF Respond, RespondLate
  <1> HIDE DEF c, l
  <1>4. Follows(clock, c) /\ Sound(c) /\ Follows(clock, l)
    BY <1>0, <1>1, <1>2, OtherFields DEF Follows
  <1>5. Follows(clock, FinishRound(c))
    <2>1. Follows(c, FinishRound(c))
      BY <1>4, FinishRoundFollows
    <2> QED
      BY <1>0, <1>4, <2>1, FollowsOn
  <1> QED
    BY <1>3, <1>4, <1>5, BecomesStep

(* control_submitted: config/get counts only after the heartbeat, and both *)
(* only on a synchronised connection.                                      *)
LEMMA SubmittedStep ==
    ASSUME TimeInv, NEW kind, ControlSubmitted(kind)
    PROVE  TimeInv'
  <1> DEFINE s == Snapshot(clock)
             h == [s EXCEPT !.heartbeat = TRUE, !.earned = IF @ = 1 THEN 2 ELSE @]
             g == [s EXCEPT !.get = TRUE, !.earned = IF @ = 2 THEN 3 ELSE @]
  <1>1. Sound(clock) /\ Follows(clock, s) /\ Sound(s)
    BY SnapshotFollows DEF TimeInv, Follows
  <1>2. s.synced
    BY DEF ControlSubmitted, Allows
  <1>3. Becomes(h) \/ (s.heartbeat /\ Becomes(g)) \/ Becomes(s)
    BY DEF ControlSubmitted
  <1> HIDE DEF s
  <1>4. /\ s.earned \in 1..3 /\ (s.heartbeat => s.earned \in 2..3) /\ (s.get => s.earned = 3)
    BY <1>1, <1>2 DEF Sound, Stages
  <1>5. Follows(s, h)
    <2>1. /\ HasFields(h) /\ h.state = s.state /\ h.synced = s.synced /\ h.heartbeat = TRUE /\ h.get = s.get
          /\ h.revision = s.revision /\ h.connection = s.connection /\ h.known = s.known
          /\ h.session = s.session /\ h.earned = IF s.earned = 1 THEN 2 ELSE s.earned
      BY <1>1 DEF Sound, HasFields, Fields
    <2> HIDE DEF h
    <2>2. h.earned \in 2..3 /\ (h.get => h.earned = 3)
      BY <1>4, <2>1
    <2>3. Usable(h) <=> Usable(s)
      BY <2>1 DEF Usable
    <2>5. /\ h.state \in States /\ h.revision \in Nat /\ h.connection \in Nat
          /\ h.known \in BOOLEAN /\ h.session \in BOOLEAN
          /\ h.synced \in BOOLEAN /\ h.heartbeat \in BOOLEAN /\ h.get \in BOOLEAN
          /\ (Usable(h) => h.known)
      BY <1>1, <2>1, <2>3 DEF Sound, Stages
    <2>6. /\ h.synced => h.earned >= 1
          /\ h.heartbeat => h.earned >= 2
          /\ h.get => h.earned = 3
      BY <2>2
    <2>7. h.earned \in 0..3
      BY <2>2
    <2>4. Stages(h)
      BY <2>5, <2>6, <2>7 DEF Stages
    <2> QED
      BY <1>1, <2>1, <2>3, <2>4 DEF Follows, Sound, Stages
  <1>6. ASSUME s.heartbeat PROVE Follows(s, g)
    <2>1. /\ HasFields(g) /\ g.state = s.state /\ g.synced = s.synced /\ g.heartbeat = s.heartbeat /\ g.get = TRUE
          /\ g.revision = s.revision /\ g.connection = s.connection /\ g.known = s.known
          /\ g.session = s.session /\ g.earned = IF s.earned = 2 THEN 3 ELSE s.earned
      BY <1>1 DEF Sound, HasFields, Fields
    <2> HIDE DEF g
    <2>2. g.earned = 3
      BY <1>4, <1>6, <2>1
    <2>3. Usable(g) <=> Usable(s)
      BY <2>1 DEF Usable
    <2>5. /\ g.state \in States /\ g.revision \in Nat /\ g.connection \in Nat
          /\ g.known \in BOOLEAN /\ g.session \in BOOLEAN
          /\ g.synced \in BOOLEAN /\ g.heartbeat \in BOOLEAN /\ g.get \in BOOLEAN
          /\ (Usable(g) => g.known)
      BY <1>1, <2>1, <2>3 DEF Sound, Stages
    <2>6. /\ g.synced => g.earned >= 1
          /\ g.heartbeat => g.earned >= 2
          /\ g.get => g.earned = 3
      BY <2>2
    <2>7. g.earned \in 0..3
      BY <2>2
    <2>4. Stages(g)
      BY <2>5, <2>6, <2>7 DEF Stages
    <2> QED
      BY <1>1, <2>1, <2>3, <2>4 DEF Follows, Sound, Stages
  <1> HIDE DEF h, g
  <1>7. Follows(clock, h) /\ (s.heartbeat => Follows(clock, g))
    BY <1>1, <1>5, <1>6, FollowsOn
  <1> QED
    BY <1>1, <1>3, <1>7, BecomesStep

(* token *)
LEMMA TokenStep ==
    ASSUME TimeInv, TakeToken
    PROVE  TimeInv'
  <1> DEFINE s == Snapshot(clock)
  <1>1. Sound(s)
    BY SnapshotFollows DEF TimeInv, Follows
  <1>2. /\ clock' = s
        /\ held' = [age |-> 0, revision |-> s.revision, connection |-> s.connection, broken |-> FALSE]
    BY DEF TakeToken
  <1> HIDE DEF s
  <1>3. s.revision \in Nat /\ s.connection \in Nat
    BY <1>1 DEF Sound, Stages
  <1>4. HeldIsWhole'
    BY <1>2, <1>3 DEF HeldIsWhole
  <1> QED
    BY <1>1, <1>2, <1>4 DEF TimeInv

(* Ticks, and jumps of the hub's clock and of the monotonic source. *)
LEMMA EnvironmentStep ==
    ASSUME TimeInv, NEW n \in Int, Tick(n) \/ HubJumps(n) \/ MonoGoesBack
    PROVE  TimeInv'
  <1>0. Sound(clock) /\ held.age \in Int
    BY DEF TimeInv, HeldIsWhole
  <1>1. /\ HasFields(clock') /\ clock'.state = clock.state /\ clock'.synced = clock.synced
        /\ clock'.heartbeat = clock.heartbeat /\ clock'.get = clock.get /\ clock'.earned = clock.earned
        /\ clock'.revision = clock.revision /\ clock'.connection = clock.connection
        /\ clock'.known = clock.known /\ clock'.session = clock.session
    <2>1. CASE Tick(n)
      BY <1>0, <2>1 DEF Tick, Sound, HasFields, Fields
    <2>2. CASE HubJumps(n)
      BY <1>0, <2>2 DEF HubJumps, Sound, HasFields, Fields
    <2>3. CASE MonoGoesBack
      BY <1>0, <2>3 DEF MonoGoesBack, Sound, HasFields, Fields
    <2> QED
      BY <2>1, <2>2, <2>3
  <1>2. held' = NoToken \/ (held.age # NoAge /\ \E m \in Int : held' = [held EXCEPT !.age = m]) \/ held' = held
    <2>1. CASE Tick(n)
      <3>1. held' = IF held.age + 1 \in 1..(TokenMax - 1) THEN [held EXCEPT !.age = held.age + 1] ELSE NoToken
        BY <2>1 DEF Tick
      <3>2. TokenMax \in Nat
        BY TimeAssumption
      <3>3. held.age + 1 \in 1..(TokenMax - 1) => held.age # NoAge
        BY <1>0, <3>2 DEF NoAge
      <3>4. held.age + 1 \in Int
        BY <1>0
      <3> QED
        BY <3>1, <3>3, <3>4
    <2>2. CASE HubJumps(n)
      BY <2>2 DEF HubJumps
    <2>3. CASE MonoGoesBack
      <3>1. held' = IF held.age < 1 THEN NoToken ELSE [held EXCEPT !.age = held.age - 1]
        BY <2>3 DEF MonoGoesBack
      <3>2. ~(held.age < 1) => held.age # NoAge
        BY <1>0 DEF NoAge
      <3>3. held.age - 1 \in Int
        BY <1>0
      <3> QED
        BY <3>1, <3>2, <3>3
    <2> QED
      BY <2>1, <2>2, <2>3
  <1> QED
    BY <1>1, <1>2, OutsideStep

----------------------------------------------------------------------------
(* The theorems. *)

(* The object as it is made. *)
LEMMA TimeInit == Init => TimeInv
  <1> SUFFICES ASSUME Init PROVE TimeInv
    OBVIOUS
  <1>1. HasFields(clock)
    BY DEF Init, NewClock, HasFields, Fields
  <1>2. Stages(clock)
    BY DEF Init, NewClock, Stages, States, Lost, Usable
  <1>3. HeldIsWhole
    BY DEF Init, HeldIsWhole, NoToken, NoAge
  <1> QED
    BY <1>1, <1>2, <1>3 DEF TimeInv, Sound

(* Fields and token, after any order of connections, rounds, jumps and     *)
(* uses.                                                                   *)
THEOREM TimeInvariant == Spec => []TimeInv
  <1>1. TimeInv /\ [Next]_vars => TimeInv'
    <2> SUFFICES ASSUME TimeInv, [Next]_vars PROVE TimeInv'
      OBVIOUS
    <2>1. CASE ClockNext
      <3>1. CASE Connect \/ Disconnect \/ Request \/ Require
        BY <3>1, MethodStep
      <3>2. CASE \E floor \in Floors, lag \in Lags : LoadBoundary(floor, lag)
        BY <3>2, BoundaryStep
      <3>3. CASE \E rtt \in 0..(ReqTimeout - 1), path \in 0..TickLength, off \in (-BiasMax)..BiasMax :
                     Respond(rtt, path, off)
        BY <3>3, RespondStep
      <3>4. CASE RespondLate
        BY <3>4, RespondStep
      <3>5. CASE \E d \in (-Drift)..Drift : Tick(d)
        <4>1. Drift \in Nat
          BY TimeAssumption
        <4>2. (-Drift)..Drift \subseteq Int
          BY <4>1
        <4> QED
          BY <3>5, <4>2, EnvironmentStep
      <3> QED
        BY <2>1, <3>1, <3>2, <3>3, <3>4, <3>5 DEF ClockNext
    <2>2. CASE UserNext
      BY <2>2, TokenStep, SubmittedStep DEF UserNext
    <2>3. CASE FaultNext
      <3>1. JumpSizes \subseteq Int
        BY TimeAssumption
      <3> QED
        BY <2>3, <3>1, MethodStep, EnvironmentStep DEF FaultNext
    <2>4. CASE UNCHANGED vars
      <3>1. clock' = clock /\ held' = held
        BY <2>4 DEF vars
      <3> QED
        BY <3>1 DEF TimeInv, Sound, HeldIsWhole, HasFields, Stages, Usable
    <2> QED
      BY <2>1, <2>2, <2>3, <2>4 DEF Next
  <1> QED
    BY <1>1, TimeInit, PTL DEF Spec

(* A token is not accepted after its reading or its connection was lost,   *)
(* even when both are back.                                                *)
THEOREM TokensAreCurrent == Spec => []TokenIsCurrent
  <1>1. TimeInv => TokenIsCurrent
    BY DEF TimeInv, HeldIsWhole, TokenIsCurrent
  <1> QED
    BY <1>1, TimeInvariant, PTL

(* Data is sent only when this connection has been synchronised and has    *)
(* sent its heartbeat and its config/get, in this order and all since the  *)
(* reading was last lost.                                                  *)
THEOREM SendingIsEarned == Spec => []SendIsEarned
  <1>1. TimeInv => SendIsEarned
    <2> SUFFICES ASSUME TimeInv, Allows(Snapshot(clock), "SEND") PROVE clock.earned = 3
      BY DEF SendIsEarned
    <2> DEFINE s == Snapshot(clock)
    <2>1. Sound(s) /\ (s.get => s.earned = clock.earned)
      BY SnapshotFollows DEF TimeInv, Follows
    <2>2. s.get
      BY DEF Allows
    <2> HIDE DEF s
    <2>3. s.get => s.earned = 3
      BY <2>1 DEF Sound, Stages
    <2> QED
      BY <2>1, <2>2, <2>3
  <1> QED
    BY <1>1, TimeInvariant, PTL

----------------------------------------------------------------------------
(* The reading and the durable floor.                                      *)

Candidate == [target : Int, path : Nat, rtt : Nat, error : Nat]

(* The reading: after a jump was made good for, where the slewing leads to *)
(* is off by no more than the half path and the drift since.               *)
Reading(c) ==
    /\ c.utc \in Int /\ c.residual \in Int /\ c.uncertainty \in Nat /\ c.syncAge \in Nat
    /\ c.relived \in Nat /\ c.floored \in BOOLEAN /\ c.floor \in Int /\ c.dirty \in BOOLEAN
    /\ c.known /\ ~c.dirty /\ c.syncAge < HoldMax =>
           Abs(c.utc + c.residual) <= c.uncertainty + c.syncAge * Drift

(* The round: no candidate outlives it, and those of a round without a     *)
(* jump are off by no more than their error.                               *)
Round(c) ==
    /\ c.request \in NoAge..ReqTimeout /\ c.round \in NoAge..RoundMax /\ c.attempts \in 0..MaxAttempts
    /\ c.dirtyRound \in BOOLEAN /\ c.candidates \in Seq(Candidate)
    /\ c.round = NoAge => c.candidates = <<>>
    /\ c.request # NoAge => c.round # NoAge
    /\ c.dirtyRound => c.dirty
    /\ ~c.dirtyRound =>
           \A i \in DOMAIN c.candidates : Abs(c.candidates[i].target) <= c.candidates[i].error

Honest(c) == Sound(c) /\ Reading(c) /\ Round(c)

(* The reading is above the floor once the monotonic source has made good  *)
(* for the ticks by which it is behind.                                    *)
Above(c, lead) ==
    Usable(c) /\ c.floored /\ c.syncAge + lead < HoldMax =>
        c.utc + lead * TickLength + c.uncertainty + c.syncAge * Drift + c.relived * Drift
            + Abs(c.residual) >= c.floor

(* What the methods preserve. *)
Keeps(c, d) ==
    /\ Honest(d)
    /\ d.candidates \in {c.candidates, <<>>}
    /\ \A lead \in Nat : Above(c, lead) => Above(d, lead)

(* Steps that leave the reading, or the round, alone. *)
SameReading(c, d) ==
    /\ d.known = c.known /\ d.utc = c.utc /\ d.residual = c.residual /\ d.uncertainty = c.uncertainty
    /\ d.syncAge = c.syncAge /\ d.relived = c.relived /\ d.floored = c.floored /\ d.floor = c.floor
    /\ d.dirty = c.dirty /\ d.dirtyRound = c.dirtyRound

SameRound(c, d) ==
    /\ d.request \in {c.request, NoAge} /\ d.round = c.round
    /\ d.attempts = c.attempts /\ d.candidates = c.candidates

NoRound(d) == d.request = NoAge /\ d.round = NoAge /\ d.attempts = 0 /\ d.candidates = <<>>

(* What is left when a reading is given up on. *)
SameLimits(c, d) ==
    /\ d.floored = c.floored /\ d.floor = c.floor /\ d.dirtyRound = c.dirtyRound
    /\ d.connection = c.connection

(* The limits are numbers. *)
LEMMA Limits ==
    /\ TickLength \in Nat /\ TickLength > 0 /\ ReqTimeout \in Nat /\ ReqTimeout > 0
    /\ RoundMax \in Nat /\ RoundMax > 0 /\ MaxAttempts \in Nat /\ MaxAttempts > 0
    /\ Enough \in Nat /\ Enough > 0 /\ HoldMax \in Nat /\ HoldMax > 0 /\ Drift \in Nat /\ SlewMax \in Nat
    /\ FloorMin \in Nat /\ BiasMax \in Nat /\ BiasMax <= FloorMin /\ 2 * SlewMax <= TickLength
    /\ MaxFaults \in Nat /\ MaxRevision \in Nat /\ MaxConnection \in Nat
    /\ JumpSizes \subseteq Int /\ Floors \subseteq Int
  BY TimeAssumption

(* Products of the counters. *)
LEMMA Product ==
    ASSUME NEW m \in Nat, NEW n \in Nat
    PROVE  m * n \in Nat /\ (m + 1) * n = m * n + n /\ (m >= 1 => m - 1 \in Nat /\ (m - 1) * n = m * n - n)
  OBVIOUS

(* A set of numbers has a least one. *)
LEMMA LeastNumber == ASSUME NEW S, S \subseteq Nat, S # {} PROVE \E n \in S : \A m \in S : n <= m
  <1> DEFINE Below(n) == 0..(n - 1)
             Belows == {Below(n) : n \in S}
  <1>1. Belows \subseteq FiniteSubsetsOf(Nat) /\ Belows # {}
    <2>1. \A n \in S : Below(n) \subseteq Nat /\ IsFiniteSet(Below(n))
      BY FS_Interval
    <2> QED
      BY <2>1 DEF FiniteSubsetsOf
  <1>2. PICK U \in Belows : \A V \in Belows : ~(<<V, U>> \in StrictSubsetOrdering(Nat))
    <2> HIDE DEF Belows
    <2> QED
      BY <1>1, FS_StrictSubsetOrderingWellFounded, WFMin
  <1>3. PICK n \in S : U = Below(n)
    OBVIOUS
  <1>4. ASSUME NEW m \in S, m < n PROVE FALSE
    <2>1. Below(m) \subseteq Below(n) /\ m \in Below(n) /\ m \notin Below(m) /\ Below(n) \subseteq Nat
      BY <1>4
    <2>2. <<Below(m), Below(n)>> \in StrictSubsetOrdering(Nat)
      BY <2>1 DEF StrictSubsetOrdering
    <2> QED
      BY <1>2, <1>3, <2>2
  <1> QED
    BY <1>4

(* The candidate that a round is decided by is one of its candidates. *)
LEMMA BestIs ==
    ASSUME NEW c, c.candidates \in Seq(Candidate), Pool(c) # {}
    PROVE  Best(c) \in DOMAIN c.candidates /\ c.candidates[Best(c)] \in Candidate
  <1> DEFINE paths == {c.candidates[i].path : i \in Pool(c)}
             shortest == {i \in Pool(c) : \A j \in Pool(c) : c.candidates[i].path <= c.candidates[j].path}
  <1>0. Pool(c) \subseteq DOMAIN c.candidates /\ DOMAIN c.candidates \subseteq Nat
    BY DEF Pool
  <1>1. \A i \in DOMAIN c.candidates : c.candidates[i] \in Candidate
    OBVIOUS
  <1>2. \A i \in Pool(c) : c.candidates[i].path \in Nat
    BY <1>0, <1>1 DEF Candidate
  <1>3. paths \subseteq Nat /\ paths # {}
    BY <1>2
  <1>4. PICK p \in paths : \A q \in paths : p <= q
    <2> HIDE DEF paths
    <2> QED
      BY <1>3, LeastNumber
  <1>5. PICK k \in Pool(c) : c.candidates[k].path = p
    OBVIOUS
  <1>6. k \in shortest
    BY <1>4, <1>5
  <1>7. shortest \subseteq Nat /\ shortest # {} /\ shortest \subseteq Pool(c)
    BY <1>0, <1>6
  <1>8. Best(c) = CHOOSE i \in shortest : \A j \in shortest : i <= j
    BY DEF Best
  <1> HIDE DEF shortest
  <1>9. \E i \in shortest : \A j \in shortest : i <= j
    BY <1>7, LeastNumber
  <1>10. Best(c) \in shortest
    BY <1>8, <1>9
  <1> QED
    BY <1>0, <1>1, <1>7, <1>10

(* What each method keeps, they keep together. *)
LEMMA KeepsOn ==
    ASSUME NEW c, NEW d, NEW e, Keeps(c, d), Keeps(d, e) PROVE Keeps(c, e)
  BY DEF Keeps

(* Nothing changed is nothing spoilt. *)
LEMMA KeepsItself == ASSUME NEW c, Honest(c) PROVE Keeps(c, c)
  BY DEF Keeps

(* A reading that cannot be used is above any floor. *)
LEMMA AboveUnused == ASSUME NEW c, ~Usable(c), NEW lead PROVE Above(c, lead)
  BY DEF Above

(* More time to make good for does not lower one. *)
LEMMA AboveLater ==
    ASSUME NEW c, Reading(c), Above(c, 0), NEW lead \in Nat PROVE Above(c, lead)
  <1> SUFFICES ASSUME Usable(c), c.floored, c.syncAge + lead < HoldMax
               PROVE  c.utc + lead * TickLength + c.uncertainty + c.syncAge * Drift + c.relived * Drift
                          + Abs(c.residual) >= c.floor
    BY DEF Above
  <1> DEFINE a == c.syncAge * Drift
             r == c.relived * Drift
             l == lead * TickLength
             z == Abs(c.residual)
  <1>1. c.syncAge \in Nat /\ c.relived \in Nat /\ c.utc \in Int /\ c.uncertainty \in Nat /\ c.floor \in Int
        /\ HoldMax \in Nat /\ TickLength \in Nat
    BY Limits DEF Reading
  <1>2. a \in Nat /\ r \in Nat /\ l \in Nat
    BY <1>1, Product, Limits
  <1>3. z \in Nat
    BY DEF Reading, Abs
  <1>4. c.syncAge + 0 < HoldMax /\ 0 * TickLength = 0
    BY <1>1
  <1>5. c.utc + 0 * TickLength + c.uncertainty + a + r + z >= c.floor
    BY <1>4 DEF Above
  <1> HIDE DEF a, r, l, z
  <1>6. c.utc + l + c.uncertainty + a + r + z >= c.floor
    BY <1>1, <1>2, <1>3, <1>4, <1>5
  <1> QED
    BY <1>6 DEF a, r, l, z

(* A method that leaves the reading alone, and the round or ends it. *)
LEMMA SameKeeps ==
    ASSUME NEW c, NEW d, Honest(c), Sound(d), SameReading(c, d), SameRound(c, d) \/ NoRound(d),
           Usable(d) => Usable(c)
    PROVE  Keeps(c, d)
  <1>1. Reading(d)
    BY DEF Honest, Reading, SameReading
  <1>2. Round(d)
    <2>1. CASE SameRound(c, d)
      <3>1. d.request \in NoAge..ReqTimeout /\ (d.request # NoAge => d.request = c.request)
        BY <2>1, Limits DEF Honest, Round, SameRound, NoAge
      <3>2. d.round = c.round /\ d.attempts = c.attempts /\ d.candidates = c.candidates
            /\ d.dirtyRound = c.dirtyRound /\ d.dirty = c.dirty
        BY <2>1 DEF SameRound, SameReading
      <3> QED
        BY <3>1, <3>2 DEF Honest, Round
    <2>2. CASE NoRound(d)
      <3>1. d.request = NoAge /\ d.round = NoAge /\ d.attempts = 0 /\ d.candidates = <<>>
            /\ d.dirtyRound = c.dirtyRound /\ d.dirty = c.dirty
        BY <2>2 DEF NoRound, SameReading
      <3>2. NoAge \in NoAge..ReqTimeout /\ NoAge \in NoAge..RoundMax /\ 0 \in 0..MaxAttempts
        BY Limits DEF NoAge
      <3>3. <<>> \in Seq(Candidate) /\ DOMAIN <<>> = {}
        OBVIOUS
      <3> QED
        BY <3>1, <3>2, <3>3 DEF Honest, Round
    <2> QED
      BY <2>1, <2>2
  <1>3. d.candidates \in {c.candidates, <<>>}
    BY DEF SameRound, NoRound
  <1>4. ASSUME NEW lead \in Nat, Above(c, lead) PROVE Above(d, lead)
    BY <1>4 DEF Above, SameReading
  <1> QED
    BY <1>1, <1>2, <1>3, <1>4 DEF Keeps, Honest

(* _invalidate *)
LEMMA InvalidateKeeps ==
    ASSUME NEW c, Honest(c), NEW st \in Lost
    PROVE  /\ Keeps(c, Invalidate(c, st)) /\ SameLimits(c, Invalidate(c, st))
           /\ Invalidate(c, st).state = st /\ ~Usable(Invalidate(c, st))
           /\ Invalidate(c, st).candidates = c.candidates
  <1> DEFINE b == IF c.state \in Lost THEN c ELSE Bump(c)
             d == Invalidate(c, st)
  <1>0. Sound(c)
    BY DEF Honest
  <1>1. HasFields(b) /\ SameReading(c, b) /\ SameRound(c, b) /\ b.connection = c.connection
    BY <1>0 DEF Sound, HasFields, Fields, Bump, SameReading, SameRound
  <1>2. d = [b EXCEPT !.state = st, !.synced = FALSE, !.heartbeat = FALSE, !.get = FALSE,
                      !.request = NoAge, !.wait = 0, !.earned = 0]
    BY DEF Invalidate
  <1>3. Sound(d) /\ d.state = st
    BY <1>0, InvalidateFollows DEF Follows
  <1> HIDE DEF b, d
  <1>4. SameReading(b, d) /\ d.request = NoAge /\ d.round = b.round /\ d.attempts = b.attempts
        /\ d.candidates = b.candidates /\ d.connection = b.connection
    BY <1>1, <1>2 DEF HasFields, Fields, SameReading
  <1>5. SameReading(c, d) /\ SameRound(c, d) /\ d.connection = c.connection
    BY <1>1, <1>4 DEF SameReading, SameRound
  <1>6. ~Usable(d)
    BY <1>3 DEF Usable, Lost
  <1>7. Keeps(c, d)
    BY <1>3, <1>5, <1>6, SameKeeps
  <1>8. SameLimits(c, d) /\ d.candidates = c.candidates
    BY <1>5 DEF SameLimits, SameReading, SameRound
  <1> QED
    BY <1>3, <1>6, <1>7, <1>8 DEF d

(* _utc = None, where the reading cannot be used anyway. *)
LEMMA ForgetKeeps ==
    ASSUME NEW c, Honest(c), c.state \in Lost
    PROVE  Keeps(c, Forget(c)) /\ SameLimits(c, Forget(c)) /\ Forget(c).state = c.state
           /\ Forget(c).candidates = c.candidates
  <1> DEFINE d == Forget(c)
  <1>1. Sound(d) /\ d.state = c.state /\ d.known = FALSE
    BY ForgetFollows DEF Honest, Follows
  <1>2. /\ d.utc = 0 /\ d.residual = 0 /\ d.uncertainty = 0 /\ d.syncAge = 0 /\ d.relived = 0
        /\ d.floored = c.floored /\ d.floor = c.floor /\ d.dirty = c.dirty /\ d.dirtyRound = c.dirtyRound
        /\ d.connection = c.connection
        /\ d.request = c.request /\ d.round = c.round /\ d.attempts = c.attempts /\ d.candidates = c.candidates
    BY DEF Honest, Sound, HasFields, Fields, Forget
  <1> HIDE DEF d
  <1>3. Reading(d)
    BY <1>1, <1>2 DEF Honest, Reading
  <1>4. Round(d)
    BY <1>2 DEF Honest, Round
  <1>5. ~Usable(d)
    BY <1>1 DEF Usable, Lost
  <1>6. Keeps(c, d)
    BY <1>1, <1>2, <1>3, <1>4, <1>5, AboveUnused DEF Keeps, Honest
  <1> QED
    BY <1>1, <1>2, <1>6 DEF d, SameLimits

(* _advance *)
LEMMA AdvanceKeeps ==
    ASSUME NEW c, Honest(c)
    PROVE  /\ Keeps(c, Advance(c)) /\ SameLimits(c, Advance(c)) /\ Advance(c).candidates = c.candidates
           /\ IF ahead <= 0 THEN Advance(c) = c ELSE Advance(c).state = "MAINTENANCE"
  <1>1. CASE ahead <= 0
    BY <1>1, KeepsItself DEF Advance, SameLimits
  <1>2. CASE ~(ahead <= 0)
    <2> DEFINE i == Invalidate(c, "MAINTENANCE")
               f == Forget(i)
               d == [f EXCEPT !.fenced = TRUE]
    <2>1. "MAINTENANCE" \in Lost
      BY DEF Lost
    <2>2. Keeps(c, i) /\ SameLimits(c, i) /\ i.state = "MAINTENANCE" /\ i.candidates = c.candidates
      BY <2>1, InvalidateKeeps
    <2> HIDE DEF i
    <2>3. Keeps(i, f) /\ SameLimits(i, f) /\ f.state = i.state /\ f.candidates = i.candidates
      BY <2>1, <2>2, ForgetKeeps DEF Keeps
    <2>5. Advance(c) = d
      BY <1>2 DEF Advance, i
    <2> HIDE DEF f
    <2>6. Sound(d)
      BY <2>5, AdvanceFollows DEF Follows, Honest
    <2>7. SameReading(f, d) /\ SameRound(f, d) /\ d.state = f.state /\ d.connection = f.connection
      BY <2>3 DEF Keeps, Honest, Sound, HasFields, Fields, SameReading, SameRound
    <2> HIDE DEF d
    <2>8. Keeps(f, d)
      BY <2>3, <2>6, <2>7, SameKeeps DEF Keeps, Usable
    <2>9. Keeps(c, d)
      BY <2>2, <2>3, <2>8, KeepsOn
    <2>10. SameLimits(c, d) /\ d.candidates = c.candidates
      BY <2>2, <2>3, <2>7 DEF SameLimits, SameReading, SameRound
    <2> QED
      BY <1>2, <2>2, <2>3, <2>5, <2>7, <2>9, <2>10
  <1> QED
    BY <1>1, <1>2

(* snapshot *)
LEMMA SnapshotKeeps ==
    ASSUME NEW c, Honest(c)
    PROVE  /\ Keeps(c, Snapshot(c)) /\ SameLimits(c, Snapshot(c))
           /\ ~(ahead <= 0) => Snapshot(c).state = "MAINTENANCE"
           /\ Valid(Snapshot(c)) => ahead <= 0 /\ Usable(c) /\ SameReading(c, Snapshot(c))
  <1> DEFINE a == Advance(c)
             s == Snapshot(c)
  <1>1. /\ Keeps(c, a) /\ SameLimits(c, a)
        /\ IF ahead <= 0 THEN a = c ELSE a.state = "MAINTENANCE"
    BY AdvanceKeeps
  <1>2. Sound(s) /\ Honest(a)
    BY <1>1, SnapshotFollows DEF Honest, Keeps, Follows
  <1> HIDE DEF a
  <1>3. CASE Valid(a)
    <2>1. s = [a EXCEPT !.state = IF a.synced THEN "SYNCED" ELSE "HOLDOVER"]
      BY <1>3 DEF Snapshot, a
    <2>2. Usable(a) /\ ahead <= 0 /\ a = c
      BY <1>1, <1>3 DEF Valid, Usable
    <2> HIDE DEF s
    <2>3. SameReading(a, s) /\ SameRound(a, s) /\ s.connection = a.connection
      BY <1>2, <2>1 DEF Honest, Sound, HasFields, Fields, SameReading, SameRound
    <2>4. Keeps(a, s) /\ SameLimits(a, s)
      BY <1>2, <2>2, <2>3, SameKeeps DEF SameLimits, SameReading
    <2> QED
      BY <2>2, <2>3, <2>4 DEF s
  <1>4. CASE ~Valid(a) /\ a.state \in {"SYNCED", "HOLDOVER"}
    <2>1. s = Invalidate(a, "EXPIRED") /\ "EXPIRED" \in Lost
      BY <1>4 DEF Snapshot, a, Lost
    <2>0. ahead <= 0
      BY <1>1, <1>4
    <2> HIDE DEF s
    <2>2. Keeps(a, s) /\ SameLimits(a, s) /\ ~Usable(s)
      BY <1>2, <2>1, InvalidateKeeps
    <2>3. ~Valid(s)
      BY <2>2 DEF Valid, Usable
    <2> QED
      BY <1>1, <2>0, <2>2, <2>3 DEF s
  <1>5. CASE ~Valid(a) /\ a.state \notin {"SYNCED", "HOLDOVER"}
    <2>1. s = a
      BY <1>5 DEF Snapshot, a
    <2> QED
      BY <1>1, <1>5, <2>1
  <1> QED
    BY <1>3, <1>4, <1>5

(* The end of _adopt: what the reading is slewed to is the candidate. *)
LEMMA SettleKeeps ==
    ASSUME NEW c, Honest(c), NEW target \in Int, NEW error \in Nat,
           ~c.dirtyRound => Abs(target) <= error,
           c.floored => target + error >= c.floor
    PROVE  /\ Honest(Settle(c, target, error)) /\ Above(Settle(c, target, error), 0)
           /\ Settle(c, target, error).candidates = c.candidates
  <1> DEFINE fresh == ~c.known \/ c.state \in {"EXPIRED", "UNSYNCED", "SYNCING"}
             b == Bump(c)
             g == IF fresh THEN [b EXCEPT !.known = TRUE, !.utc = target, !.residual = 0]
                  ELSE [c EXCEPT !.residual = target - c.utc]
             d == Settle(c, target, error)
  <1>0. Sound(c) /\ Reading(c) /\ Round(c)
    BY DEF Honest
  <1>1. Sound(d)
    BY <1>0, SettleFollows DEF Follows
  <1>2. /\ HasFields(g) /\ g.utc \in Int /\ g.residual \in Int /\ g.utc + g.residual = target
        /\ g.floored = c.floored /\ g.floor = c.floor /\ g.dirty = c.dirty /\ g.dirtyRound = c.dirtyRound
        /\ g.request = c.request /\ g.round = c.round /\ g.attempts = c.attempts
        /\ g.candidates = c.candidates
    <2>1. CASE fresh
      <3>1. /\ HasFields(b) /\ b.floored = c.floored /\ b.floor = c.floor /\ b.dirty = c.dirty
            /\ b.dirtyRound = c.dirtyRound /\ b.request = c.request /\ b.round = c.round
            /\ b.attempts = c.attempts /\ b.candidates = c.candidates
        BY <1>0 DEF Sound, HasFields, Fields, Bump
      <3>2. g = [b EXCEPT !.known = TRUE, !.utc = target, !.residual = 0]
        BY <2>1
      <3> HIDE DEF b, g, fresh
      <3>3. /\ HasFields(g) /\ g.utc = target /\ g.residual = 0
            /\ g.floored = b.floored /\ g.floor = b.floor /\ g.dirty = b.dirty
            /\ g.dirtyRound = b.dirtyRound /\ g.request = b.request /\ g.round = b.round
            /\ g.attempts = b.attempts /\ g.candidates = b.candidates
        BY <3>1, <3>2 DEF HasFields, Fields
      <3> QED
        BY <3>1, <3>3
    <2>2. CASE ~fresh
      <3>1. g = [c EXCEPT !.residual = target - c.utc]
        BY <2>2
      <3> HIDE DEF b, g, fresh
      <3>2. /\ HasFields(g) /\ g.utc = c.utc /\ g.residual = target - c.utc
            /\ g.floored = c.floored /\ g.floor = c.floor /\ g.dirty = c.dirty
            /\ g.dirtyRound = c.dirtyRound /\ g.request = c.request /\ g.round = c.round
            /\ g.attempts = c.attempts /\ g.candidates = c.candidates
        BY <1>0, <3>1 DEF Sound, HasFields, Fields
      <3>3. c.utc \in Int
        BY <1>0 DEF Reading
      <3> QED
        BY <3>2, <3>3
    <2> QED
      BY <2>1, <2>2
  <1>3. d = [g EXCEPT !.confirm = FALSE, !.uncertainty = error, !.syncAge = 0, !.state = "SYNCED",
                      !.synced = c.session, !.wait = Delay, !.dirty = @ /\ c.dirtyRound, !.relived = 0,
                      !.earned = IF c.session /\ @ = 0 THEN 1 ELSE @]
    BY DEF Settle
  <1> HIDE DEF g, d, fresh, b
  <1>4. /\ d.utc = g.utc /\ d.residual = g.residual /\ d.uncertainty = error /\ d.syncAge = 0
        /\ d.relived = 0 /\ d.floored = g.floored /\ d.floor = g.floor /\ d.dirty = (g.dirty /\ c.dirtyRound)
        /\ d.dirtyRound = g.dirtyRound /\ d.request = g.request /\ d.round = g.round
        /\ d.attempts = g.attempts /\ d.candidates = g.candidates
    BY <1>2, <1>3 DEF HasFields, Fields
  <1>5. d.dirty = c.dirtyRound /\ c.dirtyRound \in BOOLEAN
    BY <1>0, <1>2, <1>4 DEF Round, Reading
  <1>6. Abs(d.residual) \in Nat /\ Abs(d.residual) >= d.residual
    BY <1>2, <1>4 DEF Abs
  <1>7. Reading(d)
    <2>1. d.utc + d.residual = target /\ d.syncAge * Drift = 0
      BY <1>2, <1>4, Limits
    <2>2. d.known /\ ~d.dirty /\ d.syncAge < HoldMax =>
              Abs(d.utc + d.residual) <= d.uncertainty + d.syncAge * Drift
      BY <1>4, <1>5, <2>1
    <2>3. d.floored \in BOOLEAN /\ d.floor \in Int /\ d.dirty \in BOOLEAN
      BY <1>0, <1>2, <1>4, <1>5 DEF Reading
    <2>4. d.utc \in Int /\ d.residual \in Int /\ d.uncertainty \in Nat /\ d.syncAge \in Nat /\ d.relived \in Nat
      BY <1>2, <1>4
    <2> QED
      BY <2>2, <2>3, <2>4 DEF Reading
  <1>8. Round(d)
    <2>1. d.dirtyRound = c.dirtyRound /\ d.request = c.request /\ d.round = c.round
          /\ d.attempts = c.attempts /\ d.candidates = c.candidates
      BY <1>2, <1>4
    <2> QED
      BY <1>0, <1>5, <2>1 DEF Round
  <1>9. Above(d, 0)
    <2> SUFFICES ASSUME d.floored
                 PROVE  d.utc + 0 * TickLength + d.uncertainty + d.syncAge * Drift + d.relived * Drift
                            + Abs(d.residual) >= d.floor
      BY DEF Above
    <2>1. 0 * TickLength = 0 /\ d.syncAge * Drift = 0 /\ d.relived * Drift = 0
      BY <1>4, Limits
    <2>2. target + error >= d.floor /\ d.floor \in Int
      BY <1>0, <1>2, <1>4 DEF Reading
    <2>3. d.utc \in Int /\ d.residual \in Int /\ d.utc + d.residual = target /\ d.uncertainty = error
      BY <1>2, <1>4
    <2> DEFINE z == Abs(d.residual)
    <2>4. z \in Nat /\ z >= d.residual
      BY <1>6
    <2> HIDE DEF z
    <2>5. d.utc + 0 + d.uncertainty + 0 + 0 + z >= d.floor
      BY <2>2, <2>3, <2>4
    <2> QED
      BY <2>1, <2>5 DEF z
  <1>10. d.candidates = c.candidates
    BY <1>2, <1>4
  <1> QED
    BY <1>1, <1>7, <1>8, <1>9, <1>10 DEF Honest, d

(* A reading that is above the floor now is above it later. *)
LEMMA AdoptedKeeps ==
    ASSUME NEW c, NEW d, Honest(d), Above(d, 0), d.candidates = c.candidates
    PROVE  Keeps(c, d)
  BY AboveLater DEF Keeps, Honest

(* _adopt: whatever it decides on, the reading is above the floor. *)
LEMMA AdoptKeeps ==
    ASSUME NEW c, Honest(c), NEW target \in Int, NEW error \in Nat,
           ~c.dirtyRound => Abs(target) <= error
    PROVE  Keeps(c, Adopt(c, target, error)) /\ Above(Adopt(c, target, error), 0)
  <1> DEFINE a == Advance(c)
             suspect == Invalidate(a, "SUSPECT")
             d == Adopt(c, target, error)
  <1> SUFFICES Honest(d) /\ d.candidates = c.candidates /\ Above(d, 0)
    BY AdoptedKeeps
  <1>0. "MAINTENANCE" \in Lost /\ "SUSPECT" \in Lost
    BY DEF Lost
  <1>1. Honest(a) /\ SameLimits(c, a) /\ a.candidates = c.candidates
    BY AdvanceKeeps DEF Keeps
  <1>2. \/ d = Invalidate(a, "MAINTENANCE")
        \/ ~(a.floored /\ target + error < a.floor) /\ d = Settle(a, target, error)
        \/ d = [suspect EXCEPT !.confirm = TRUE]
        \/ d = Invalidate(suspect, "MAINTENANCE")
        \/ ~(a.floored /\ target + error < a.floor) /\ d = Settle(Forget(Bump(suspect)), target, error)
    BY DEF Adopt
  <1> HIDE DEF a, d
  <1>3. /\ Honest(suspect) /\ SameLimits(a, suspect) /\ suspect.candidates = a.candidates
        /\ suspect.state = "SUSPECT"
    BY <1>0, <1>1, InvalidateKeeps DEF Keeps
  <1> HIDE DEF suspect
  <1>4. ASSUME NEW e, SameLimits(a, e), ~(a.floored /\ target + error < a.floor)
        PROVE  (~e.dirtyRound => Abs(target) <= error) /\ (e.floored => target + error >= e.floor)
    <2>1. a.floor \in Int
      BY <1>1 DEF Honest, Reading
    <2>2. a.floored => target + error >= a.floor
      BY <1>4, <2>1
    <2> QED
      BY <1>1, <1>4, <2>2 DEF SameLimits
  <1>5. CASE d = Invalidate(a, "MAINTENANCE")
    BY <1>0, <1>1, <1>5, InvalidateKeeps, AboveUnused DEF Keeps
  <1>6. CASE ~(a.floored /\ target + error < a.floor) /\ d = Settle(a, target, error)
    <2>1. SameLimits(a, a)
      BY DEF SameLimits
    <2>2. (~a.dirtyRound => Abs(target) <= error) /\ (a.floored => target + error >= a.floor)
      BY <1>4, <1>6, <2>1
    <2> QED
      BY <1>1, <1>6, <2>2, SettleKeeps
  <1>7. CASE d = [suspect EXCEPT !.confirm = TRUE]
    <2>1. HasFields(d) /\ SameReading(suspect, d) /\ SameRound(suspect, d) /\ d.state = suspect.state
          /\ d.candidates = suspect.candidates
      BY <1>3, <1>7 DEF Honest, Sound, HasFields, Fields, SameReading, SameRound
    <2>2. Sound(d)
      <3>1. /\ d.synced = suspect.synced /\ d.heartbeat = suspect.heartbeat /\ d.get = suspect.get
            /\ d.earned = suspect.earned /\ d.revision = suspect.revision
            /\ d.connection = suspect.connection /\ d.session = suspect.session /\ d.known = suspect.known
        BY <1>3, <1>7 DEF Honest, Sound, HasFields, Fields
      <3> QED
        BY <1>3, <2>1, <3>1, OtherFields DEF Honest, Follows
    <2>3. ~Usable(d) /\ ~Usable(suspect)
      BY <1>3, <2>1 DEF Usable
    <2> QED
      BY <1>1, <1>3, <2>1, <2>2, <2>3, SameKeeps, AboveUnused DEF Keeps
  <1>8. CASE d = Invalidate(suspect, "MAINTENANCE")
    BY <1>0, <1>1, <1>3, <1>8, InvalidateKeeps, AboveUnused DEF Keeps
  <1>9. CASE ~(a.floored /\ target + error < a.floor) /\ d = Settle(Forget(Bump(suspect)), target, error)
    <2> DEFINE b == Bump(suspect)
               f == Forget(b)
    <2>1. Sound(b) /\ b.state = "SUSPECT"
      BY <1>3, BumpFollows DEF Follows, Honest
    <2>2. SameReading(suspect, b) /\ SameRound(suspect, b) /\ b.connection = suspect.connection
      BY <1>3 DEF Honest, Sound, HasFields, Fields, SameReading, SameRound, Bump
    <2> HIDE DEF b
    <2>3. Honest(b) /\ SameLimits(a, b) /\ b.candidates = a.candidates
      <3>1. Keeps(suspect, b)
        BY <1>3, <2>1, <2>2, SameKeeps DEF Usable
      <3> QED
        BY <1>3, <2>2, <3>1 DEF Keeps, SameLimits, SameReading, SameRound
    <2>4. Honest(f) /\ SameLimits(b, f) /\ f.candidates = b.candidates
      BY <1>0, <2>1, <2>3, ForgetKeeps DEF Keeps
    <2>5. d = Settle(f, target, error)
      BY <1>9 DEF b
    <2> HIDE DEF f
    <2>6. SameLimits(a, f)
      BY <2>3, <2>4 DEF SameLimits
    <2>7. (~f.dirtyRound => Abs(target) <= error) /\ (f.floored => target + error >= f.floor)
      BY <1>4, <1>9, <2>6
    <2> QED
      BY <1>1, <2>3, <2>4, <2>5, <2>7, SettleKeeps
  <1> QED
    BY <1>2, <1>5, <1>6, <1>7, <1>8, <1>9

(* The round is closed. *)
LEMMA ClosedKeeps ==
    ASSUME NEW c, Honest(c)
    PROVE  Keeps(c, Closed(c)) /\ SameReading(c, Closed(c)) /\ NoRound(Closed(c))
           /\ Closed(c).state = c.state
  <1> DEFINE d == Closed(c)
  <1>1. Sound(d)
    BY ClosedFollows DEF Honest, Follows
  <1>2. SameReading(c, d) /\ NoRound(d) /\ d.state = c.state
    BY DEF Honest, Sound, HasFields, Fields, Closed, SameReading, NoRound
  <1> HIDE DEF d
  <1>3. Keeps(c, d)
    BY <1>1, <1>2, SameKeeps DEF Usable
  <1> QED
    BY <1>2, <1>3 DEF d

(* What holds of the reading and its state holds of Above. *)
LEMMA SameAbove ==
    ASSUME NEW c, NEW d, SameReading(c, d), d.state = c.state, NEW lead, Above(c, lead)
    PROVE  Above(d, lead)
  BY DEF Above, SameReading, Usable

(* _finish_round: the candidate that is adopted has the error of the round.*)
LEMMA FinishRoundKeeps ==
    ASSUME NEW c, Honest(c)
    PROVE  /\ Keeps(c, FinishRound(c)) /\ FinishRound(c).candidates = <<>>
           /\ Agreed(c) => Above(FinishRound(c), 0)
  <1> DEFINE target == c.candidates[Best(c)].target
             error == c.candidates[Best(c)].error
             st == IF c.known \/ c.state = "MAINTENANCE" THEN c.state ELSE "UNSYNCED"
             g == [c EXCEPT !.wait = Delay, !.state = st]
  <1>1. CASE Agreed(c)
    <2>1. FinishRound(c) = Closed(Adopt(c, target, error))
      BY <1>1 DEF FinishRound
    <2>2. Best(c) \in DOMAIN c.candidates /\ c.candidates[Best(c)] \in Candidate
      BY <1>1, BestIs DEF Agreed, Honest, Round
    <2>3. target \in Int /\ error \in Nat
      BY <2>2 DEF Candidate
    <2>4. ~c.dirtyRound => Abs(target) <= error
      BY <2>2 DEF Honest, Round
    <2> HIDE DEF target, error
    <2> DEFINE d == Adopt(c, target, error)
    <2>5. Keeps(c, d) /\ Above(d, 0)
      BY <2>3, <2>4, AdoptKeeps
    <2> HIDE DEF d
    <2>6. Keeps(d, Closed(d)) /\ SameReading(d, Closed(d)) /\ NoRound(Closed(d)) /\ Closed(d).state = d.state
      BY <2>5, ClosedKeeps DEF Keeps
    <2>7. Above(Closed(d), 0)
      BY <2>5, <2>6, SameAbove
    <2>8. Keeps(c, Closed(d))
      BY <2>5, <2>6, KeepsOn
    <2> QED
      BY <2>1, <2>6, <2>7, <2>8 DEF d, NoRound
  <1>2. CASE ~Agreed(c)
    <2>1. FinishRound(c) = Closed(g)
      BY <1>2 DEF FinishRound
    <2>2. /\ HasFields(g) /\ g.state = st /\ g.synced = c.synced /\ g.heartbeat = c.heartbeat
          /\ g.get = c.get /\ g.earned = c.earned /\ g.revision = c.revision
          /\ g.connection = c.connection /\ g.known = c.known /\ g.session = c.session
      BY DEF Honest, Sound, HasFields, Fields
    <2>3. SameReading(c, g) /\ SameRound(c, g)
      BY DEF Honest, Sound, HasFields, Fields, SameReading, SameRound
    <2>4. st = c.state \/ (~c.known /\ st = "UNSYNCED")
      OBVIOUS
    <2> HIDE DEF g, st
    <2>5. Sound(g) /\ (Usable(g) => Usable(c))
      <3>1. CASE st = c.state
        BY <2>2, <3>1, OtherFields DEF Honest, Follows, Usable
      <3>2. CASE ~c.known /\ st = "UNSYNCED"
        BY <2>2, <3>2, UnknownFollows DEF Honest, Follows, Lost, Usable
      <3> QED
        BY <2>4, <3>1, <3>2
    <2>6. Keeps(c, g)
      BY <2>3, <2>5, SameKeeps
    <2>7. Keeps(g, Closed(g)) /\ NoRound(Closed(g))
      BY <2>6, ClosedKeeps DEF Keeps
    <2>8. Keeps(c, Closed(g))
      BY <2>6, <2>7, KeepsOn
    <2> QED
      BY <1>2, <2>1, <2>7, <2>8 DEF NoRound
  <1> QED
    BY <1>1, <1>2

(* connect *)
LEMMA ConnectedKeeps ==
    ASSUME NEW c, Honest(c), NEW session \in BOOLEAN
    PROVE  Keeps(c, Connected(c, session))
  <1> DEFINE k == Closed(c)
             d == Connected(c, session)
  <1>1. Keeps(c, k) /\ NoRound(k) /\ k.state = c.state
    BY ClosedKeeps
  <1>2. d = [k EXCEPT !.connection = k.connection + 1, !.session = session, !.synced = FALSE,
                      !.heartbeat = FALSE, !.get = FALSE, !.wait = 0, !.earned = 0]
    BY DEF Connected
  <1>3. Sound(d)
    BY ConnectedFollows DEF Honest, Follows
  <1> HIDE DEF k, d
  <1>4. SameReading(k, d) /\ SameRound(k, d) /\ d.state = k.state
    BY <1>1, <1>2 DEF Keeps, Honest, Sound, HasFields, Fields, SameReading, SameRound
  <1>5. Keeps(k, d)
    BY <1>1, <1>3, <1>4, SameKeeps DEF Keeps, Usable
  <1> QED
    BY <1>1, <1>5, KeepsOn DEF d

(* A request that is given up. *)
LEMMA GivenUpKeeps ==
    ASSUME NEW c, Honest(c)
    PROVE  Keeps(c, [c EXCEPT !.request = NoAge])
  <1> DEFINE g == [c EXCEPT !.request = NoAge]
  <1>1. /\ HasFields(g) /\ g.state = c.state /\ g.synced = c.synced /\ g.heartbeat = c.heartbeat
        /\ g.get = c.get /\ g.earned = c.earned /\ g.revision = c.revision
        /\ g.connection = c.connection /\ g.known = c.known /\ g.session = c.session
    BY DEF Honest, Sound, HasFields, Fields
  <1>2. SameReading(c, g) /\ SameRound(c, g)
    BY DEF Honest, Sound, HasFields, Fields, SameReading, SameRound
  <1> HIDE DEF g
  <1>3. Sound(g)
    BY <1>1, OtherFields DEF Honest, Follows
  <1>4. Keeps(c, g)
    BY <1>1, <1>2, <1>3, SameKeeps DEF Usable
  <1> QED
    BY <1>4 DEF g

(* request, before the next one is sent *)
LEMMA ExpiredKeeps ==
    ASSUME NEW c, Honest(c)
    PROVE  Keeps(c, Expired(c))
  <1> DEFINE e == Expired(c)
             r == IF c.round # NoAge /\ (c.round >= RoundMax \/ (c.attempts >= MaxAttempts /\ c.request = NoAge))
                  THEN FinishRound(c) ELSE c
             g == [r EXCEPT !.request = NoAge]
  <1>1. e \in {r, FinishRound(g), g}
    BY DEF Expired
  <1>2. Keeps(c, r)
    <2>1. r \in {c, FinishRound(c)}
      OBVIOUS
    <2> QED
      BY <2>1, FinishRoundKeeps, KeepsItself
  <1> HIDE DEF r, e
  <1>3. Keeps(r, g)
    BY <1>2, GivenUpKeeps DEF Keeps
  <1> HIDE DEF g
  <1>4. Keeps(g, FinishRound(g))
    BY <1>3, FinishRoundKeeps DEF Keeps
  <1>5. Keeps(c, g)
    BY <1>2, <1>3, KeepsOn
  <1>6. Keeps(c, FinishRound(g))
    BY <1>4, <1>5, KeepsOn
  <1> QED
    BY <1>1, <1>2, <1>5, <1>6 DEF e

(* A new round has no candidates, so none from before a jump. *)
LEMMA OpenedKeeps ==
    ASSUME NEW c, Honest(c)
    PROVE  Keeps(c, Opened(c)) /\ Opened(c).round # NoAge
  <1> DEFINE o == Opened(c)
  <1>1. CASE c.round # NoAge
    BY <1>1, KeepsItself DEF Opened
  <1>2. CASE c.round = NoAge
    <2> DEFINE st == IF c.known THEN c.state ELSE "SYNCING"
    <2>1. o = [c EXCEPT !.round = 0, !.dirtyRound = FALSE, !.state = st]
      BY <1>2 DEF Opened
    <2>2. st = c.state \/ (~c.known /\ st = "SYNCING")
      OBVIOUS
    <2> HIDE DEF st, o
    <2>3. /\ HasFields(o) /\ o.state = st /\ o.synced = c.synced /\ o.heartbeat = c.heartbeat
          /\ o.get = c.get /\ o.earned = c.earned /\ o.revision = c.revision
          /\ o.connection = c.connection /\ o.known = c.known /\ o.session = c.session
      BY <2>1 DEF Honest, Sound, HasFields, Fields
    <2>4. /\ o.utc = c.utc /\ o.residual = c.residual /\ o.uncertainty = c.uncertainty
          /\ o.syncAge = c.syncAge /\ o.relived = c.relived /\ o.floored = c.floored /\ o.floor = c.floor
          /\ o.dirty = c.dirty /\ o.dirtyRound = FALSE
          /\ o.request = c.request /\ o.round = 0 /\ o.attempts = c.attempts /\ o.candidates = c.candidates
      BY <2>1 DEF Honest, Sound, HasFields, Fields
    <2>5. Sound(o) /\ (Usable(o) => Usable(c))
      <3>1. CASE st = c.state
        BY <2>3, <3>1, OtherFields DEF Honest, Follows, Usable
      <3>2. CASE ~c.known /\ st = "SYNCING"
        BY <2>3, <3>2, UnknownFollows DEF Honest, Follows, Usable
      <3> QED
        BY <2>2, <3>1, <3>2
    <2>6. Reading(o)
      BY <2>3, <2>4 DEF Honest, Reading
    <2>7. c.candidates = <<>> /\ DOMAIN o.candidates = {}
      BY <1>2, <2>4 DEF Honest, Round
    <2>8. 0 \in NoAge..RoundMax /\ 0 # NoAge
      BY Limits DEF NoAge
    <2>9. Round(o)
      BY <2>4, <2>7, <2>8 DEF Honest, Round
    <2>10. ASSUME NEW lead \in Nat, Above(c, lead) PROVE Above(o, lead)
      BY <2>4, <2>5, <2>10 DEF Above
    <2> QED
      BY <2>4, <2>5, <2>6, <2>8, <2>9, <2>10 DEF Keeps, Honest, o
  <1> QED
    BY <1>1, <1>2

(* request *)
LEMMA RequestedKeeps ==
    ASSUME NEW c, Honest(c)
    PROVE  Keeps(c, Requested(c)) /\ (~(ahead <= 0) => ~Usable(Requested(c)))
  <1> DEFINE s == Snapshot(c)
             e == Expired(s)
             o == Opened(e)
             sent == [o EXCEPT !.request = 0, !.attempts = @ + 1]
             d == Requested(c)
  <1>1. /\ d \in {s, e, FinishRound(o)} \/ (~Overdue(o) /\ d = sent)
        /\ s.state = "MAINTENANCE" => d = s
    BY DEF Requested
  <1>2. Keeps(c, s) /\ (~(ahead <= 0) => s.state = "MAINTENANCE")
    BY SnapshotKeeps
  <1>3. Sound(d)
    BY RequestedFollows DEF Honest, Follows
  <1> HIDE DEF s, d
  <1>4. Keeps(s, e)
    BY <1>2, ExpiredKeeps DEF Keeps
  <1> HIDE DEF e
  <1>5. Keeps(e, o) /\ o.round # NoAge
    BY <1>4, OpenedKeeps DEF Keeps
  <1> HIDE DEF o
  <1>6. Keeps(o, FinishRound(o))
    BY <1>5, FinishRoundKeeps DEF Keeps
  <1>7. ASSUME ~Overdue(o), d = sent PROVE Keeps(o, d)
    <2>1. Honest(o)
      BY <1>5 DEF Keeps
    <2>2. /\ SameReading(o, d) /\ d.state = o.state
          /\ d.request = 0 /\ d.attempts = o.attempts + 1 /\ d.round = o.round /\ d.candidates = o.candidates
      BY <1>7, <2>1 DEF Honest, Sound, HasFields, Fields, SameReading
    <2>3. o.attempts \in 0..MaxAttempts /\ ~(o.attempts >= MaxAttempts)
      BY <1>7, <2>1 DEF Honest, Round, Overdue
    <2>4. d.attempts \in 0..MaxAttempts /\ d.request \in NoAge..ReqTimeout
      BY <2>2, <2>3, Limits DEF NoAge
    <2>5. Reading(d)
      BY <2>1, <2>2 DEF Honest, Reading, SameReading
    <2>6. d.dirty = o.dirty /\ d.dirtyRound = o.dirtyRound
      BY <2>2 DEF SameReading
    <2>7. Round(d)
      BY <1>5, <2>1, <2>2, <2>4, <2>6 DEF Honest, Round
    <2>8. \A lead \in Nat : Above(o, lead) => Above(d, lead)
      BY <2>2, SameAbove
    <2> QED
      BY <1>3, <2>2, <2>5, <2>7, <2>8 DEF Keeps, Honest
  <1> HIDE DEF sent
  <1>8. Keeps(c, e)
    BY <1>2, <1>4, KeepsOn
  <1>9. Keeps(c, o)
    BY <1>5, <1>8, KeepsOn
  <1>10. Keeps(c, FinishRound(o)) /\ (~Overdue(o) /\ d = sent => Keeps(c, d))
    BY <1>6, <1>7, <1>9, KeepsOn
  <1>11. Keeps(c, d)
    BY <1>1, <1>2, <1>8, <1>10
  <1>12. ~(ahead <= 0) => ~Usable(d)
    BY <1>1, <1>2 DEF Usable
  <1> QED
    BY <1>11, <1>12 DEF d

----------------------------------------------------------------------------
(* The invariant of the reading. *)

(* Ticks that the monotonic source is behind what was seen of it. *)
Lead == IF ahead > 0 THEN ahead ELSE 0

ReadingInv ==
    /\ Honest(clock) /\ Len(clock.candidates) < Enough
    /\ clock.revision <= MaxRevision /\ clock.connection <= MaxConnection
    /\ faults \in 0..MaxFaults /\ ahead \in (-1)..faults
    /\ Above(clock, Lead)

(* The fields become honest ones. *)
LEMMA HonestStep ==
    ASSUME ReadingInv, NEW c, Honest(c), Len(c.candidates) < Enough, Becomes(c), UNCHANGED faults,
           \/ ahead' = ahead /\ Above(c, Lead)
           \/ ahead' = 0 /\ Above(c, 0)
    PROVE  ReadingInv'
  <1>1. clock' = c /\ c.revision <= MaxRevision /\ c.connection <= MaxConnection
    BY DEF Becomes
  <1>2. faults' \in 0..MaxFaults /\ ahead' \in (-1)..faults'
    BY Limits DEF ReadingInv
  <1>3. Above(c, Lead')
    <2>1. CASE ahead' = ahead /\ Above(c, Lead)
      BY <2>1 DEF Lead
    <2>2. CASE ahead' = 0 /\ Above(c, 0)
      <3>1. Lead' = 0
        BY <2>2 DEF Lead
      <3> QED
        BY <2>2, <3>1
    <2> QED
      BY <2>1, <2>2
  <1> QED
    BY <1>1, <1>2, <1>3 DEF ReadingInv

(* The fields become those that a method leaves, which may have looked at  *)
(* the monotonic source.                                                   *)
LEMMA KeptStep ==
    ASSUME ReadingInv, NEW c, Keeps(clock, c), Becomes(c), UNCHANGED faults,
           ahead' = ahead \/ (ahead' = 0 /\ (~(ahead <= 0) => ~Usable(c)))
    PROVE  ReadingInv'
  <1>1. Honest(c) /\ c.candidates \in {clock.candidates, <<>>}
        /\ \A lead \in Nat : Above(clock, lead) => Above(c, lead)
    BY DEF Keeps
  <1>2. Len(c.candidates) < Enough
    BY <1>1, Limits DEF ReadingInv
  <1>3. Lead \in Nat /\ (ahead <= 0 => Lead = 0)
    BY DEF ReadingInv, Lead
  <1>4. Above(c, Lead)
    BY <1>1, <1>3 DEF ReadingInv
  <1>5. ASSUME ahead' = 0, ~(ahead <= 0) => ~Usable(c) PROVE Above(c, 0)
    BY <1>3, <1>4, <1>5, AboveUnused
  <1> QED
    BY <1>1, <1>2, <1>4, <1>5, HonestStep

(* connect, disconnect, request, require, a foreign boundary, and a        *)
(* response that is too late                                               *)
LEMMA MethodKeeps ==
    ASSUME ReadingInv, Connect \/ Disconnect \/ Request \/ Require \/ LoadForeignBasis \/ RespondLate
    PROVE  ReadingInv'
  <1>1. Honest(clock) /\ TRUE \in BOOLEAN /\ FALSE \in BOOLEAN /\ "MAINTENANCE" \in Lost
    BY DEF ReadingInv, Lost
  <1>2. CASE Connect
    BY <1>1, <1>2, ConnectedKeeps, KeptStep DEF Connect
  <1>3. CASE Disconnect
    BY <1>1, <1>3, ConnectedKeeps, KeptStep DEF Disconnect
  <1>4. CASE Request
    BY <1>1, <1>4, RequestedKeeps, KeptStep DEF Request, Observed
  <1>5. CASE Require
    <2>1. Keeps(clock, Snapshot(clock)) /\ (~(ahead <= 0) => ~Usable(Snapshot(clock)))
      BY <1>1, SnapshotKeeps DEF Usable
    <2> QED
      BY <1>5, <2>1, KeptStep DEF Require, Observed
  <1>6. CASE LoadForeignBasis
    BY <1>1, <1>6, InvalidateKeeps, KeptStep DEF LoadForeignBasis
  <1>7. CASE RespondLate
    BY <1>1, <1>7, GivenUpKeeps, KeptStep DEF RespondLate
  <1> QED
    BY <1>2, <1>3, <1>4, <1>5, <1>6, <1>7

(* token and control_submitted *)
LEMMA UserKeeps ==
    ASSUME ReadingInv, TimeInv', NEW kind, TakeToken \/ ControlSubmitted(kind)
    PROVE  ReadingInv'
  <1> DEFINE s == Snapshot(clock)
  <1>1. Keeps(clock, s) /\ SameLimits(clock, s) /\ (~(ahead <= 0) => ~Usable(s))
    BY SnapshotKeeps DEF ReadingInv, Usable
  <1>2. CASE TakeToken
    <2>1. clock' = s /\ s.revision <= MaxRevision /\ ahead' = 0 /\ faults' = faults
      BY <1>2 DEF TakeToken, Observed
    <2> HIDE DEF s
    <2>2. s.connection <= MaxConnection
      BY <1>1 DEF ReadingInv, SameLimits
    <2>3. Honest(s) /\ s.candidates \in {clock.candidates, <<>>}
          /\ \A lead \in Nat : Above(clock, lead) => Above(s, lead)
      BY <1>1 DEF Keeps
    <2>4. Len(s.candidates) < Enough
      BY <2>3, Limits DEF ReadingInv
    <2>5. Above(s, 0)
      <3>1. ahead <= 0 => Lead = 0
        BY DEF ReadingInv, Lead
      <3> QED
        BY <1>1, <2>3, <3>1, AboveUnused DEF ReadingInv
    <2>6. Lead' = 0
      BY <2>1 DEF Lead
    <2>7. faults' \in 0..MaxFaults /\ ahead' \in (-1)..faults'
      BY <2>1 DEF ReadingInv
    <2> QED
      BY <2>1, <2>2, <2>3, <2>4, <2>5, <2>6, <2>7 DEF ReadingInv
  <1>3. CASE ControlSubmitted(kind)
    <2> DEFINE h == [s EXCEPT !.heartbeat = TRUE, !.earned = IF @ = 1 THEN 2 ELSE @]
               g == [s EXCEPT !.get = TRUE, !.earned = IF @ = 2 THEN 3 ELSE @]
    <2>1. PICK c \in {s, h, g} : Becomes(c)
      BY <1>3 DEF ControlSubmitted
    <2>2. ahead' = 0 /\ faults' = faults
      BY <1>3 DEF ControlSubmitted, Observed
    <2>3. Sound(c)
      BY <2>1 DEF Becomes, TimeInv
    <2> HIDE DEF s
    <2>4. SameReading(s, c) /\ SameRound(s, c) /\ c.state = s.state
      <3>1. HasFields(s)
        BY <1>1 DEF Keeps, Honest, Sound
      <3>2. CASE c = s
        BY <3>2 DEF SameReading, SameRound
      <3>3. CASE c = h
        BY <3>1, <3>3 DEF HasFields, Fields, SameReading, SameRound
      <3>4. CASE c = g
        BY <3>1, <3>4 DEF HasFields, Fields, SameReading, SameRound
      <3> QED
        BY <2>1, <3>2, <3>3, <3>4
    <2> HIDE DEF h, g
    <2>5. Keeps(s, c)
      BY <1>1, <2>3, <2>4, SameKeeps DEF Keeps, Usable
    <2>6. Keeps(clock, c) /\ (~(ahead <= 0) => ~Usable(c))
      BY <1>1, <2>4, <2>5, KeepsOn DEF Usable
    <2> QED
      BY <2>1, <2>2, <2>6, KeptStep
  <1> QED
    BY <1>2, <1>3

(* load_history_boundary: a reading that it finds below the floor is not   *)
(* used any more.                                                          *)
LEMMA BoundaryKeeps ==
    ASSUME ReadingInv, NEW floor \in Floors, NEW lag \in Lags, LoadBoundary(floor, lag)
    PROVE  ReadingInv'
  <1> DEFINE low == IF clock.floored /\ clock.floor > floor THEN clock.floor ELSE floor
             c == [clock EXCEPT !.floor = low, !.floored = TRUE]
             gone == c.known /\ c.utc - lag + c.uncertainty < c.floor
  <1>0. Honest(clock) /\ Sound(clock) /\ Reading(clock) /\ Round(clock) /\ "MAINTENANCE" \in Lost
    BY DEF ReadingInv, Honest, Lost
  <1>1. /\ Becomes(IF gone THEN Invalidate(c, "MAINTENANCE") ELSE c)
        /\ UNCHANGED <<ahead, faults>>
    BY DEF LoadBoundary
  <1>2. low \in Int
    BY <1>0, Limits DEF Reading
  <1> HIDE DEF low
  <1>3. /\ HasFields(c) /\ c.state = clock.state /\ c.synced = clock.synced
        /\ c.heartbeat = clock.heartbeat /\ c.get = clock.get /\ c.earned = clock.earned
        /\ c.revision = clock.revision /\ c.connection = clock.connection
        /\ c.known = clock.known /\ c.session = clock.session
    BY <1>0 DEF Sound, HasFields, Fields
  <1>4. /\ c.utc = clock.utc /\ c.residual = clock.residual /\ c.uncertainty = clock.uncertainty
        /\ c.syncAge = clock.syncAge /\ c.relived = clock.relived /\ c.floored = TRUE /\ c.floor = low
        /\ c.dirty = clock.dirty /\ c.dirtyRound = clock.dirtyRound
        /\ c.request = clock.request /\ c.round = clock.round /\ c.attempts = clock.attempts
        /\ c.candidates = clock.candidates
    BY <1>0 DEF Sound, HasFields, Fields
  <1> HIDE DEF c
  <1>5. Sound(c) /\ Reading(c) /\ Round(c)
    <2>1. Sound(c)
      BY <1>0, <1>3, OtherFields DEF Follows
    <2>2. Reading(c)
      BY <1>0, <1>2, <1>3, <1>4 DEF Reading
    <2>3. Round(c)
      BY <1>0, <1>4 DEF Round
    <2> QED
      BY <2>1, <2>2, <2>3
  <1>6. Honest(c) /\ Len(c.candidates) < Enough
    BY <1>4, <1>5 DEF Honest, ReadingInv
  <1>7. CASE gone
    <2>1. Honest(Invalidate(c, "MAINTENANCE")) /\ Invalidate(c, "MAINTENANCE").candidates = c.candidates
          /\ ~Usable(Invalidate(c, "MAINTENANCE"))
      BY <1>0, <1>6, InvalidateKeeps DEF Keeps
    <2>2. Becomes(Invalidate(c, "MAINTENANCE"))
      BY <1>1, <1>7
    <2> QED
      BY <1>1, <1>6, <2>1, <2>2, AboveUnused, HonestStep
  <1>8. CASE ~gone
    <2>1. Becomes(c)
      BY <1>1, <1>8
    <2>2. Lead \in Nat /\ Lead * TickLength \in Nat
      BY Limits, Product DEF ReadingInv, Lead
    <2>3. lag \in Int /\ -lag <= Lead * TickLength
      <3>1. CASE ahead > 0
        BY <2>2, <3>1 DEF Lags, Lead
      <3>2. CASE ~(ahead > 0)
        BY <2>2, <3>2, Limits DEF Lags
      <3> QED
        BY <3>1, <3>2
    <2>4. Above(c, Lead)
      <3> DEFINE a == c.syncAge * Drift
                 r == c.relived * Drift
                 z == Abs(c.residual)
                 p == Lead * TickLength
      <3> SUFFICES ASSUME Usable(c)
                   PROVE  c.utc + p + c.uncertainty + a + r + z >= c.floor
        BY DEF Above
      <3>1. c.known
        BY <1>5 DEF Sound, Stages
      <3>2. ~(c.utc - lag + c.uncertainty < c.floor)
        BY <1>8, <3>1
      <3>3. c.utc \in Int /\ c.uncertainty \in Nat /\ c.floor \in Int /\ c.syncAge \in Nat /\ c.relived \in Nat
            /\ c.residual \in Int
        BY <1>5 DEF Reading
      <3>4. a \in Nat /\ r \in Nat
        BY <3>3, Product, Limits
      <3>5. z \in Nat
        BY <3>3 DEF Abs
      <3>6. p \in Nat /\ lag \in Int /\ -lag <= p
        BY <2>2, <2>3
      <3> HIDE DEF a, r, z, p
      <3> QED
        BY <3>2, <3>3, <3>4, <3>5, <3>6
    <2> QED
      BY <1>1, <1>6, <2>1, <2>4, HonestStep
  <1> QED
    BY <1>7, <1>8

(* response: the answer is off by no more than half its path and the drift *)
(* since it came in.                                                       *)
LEMMA RespondKeeps ==
    ASSUME ReadingInv, NEW rtt \in Nat, NEW path \in Nat, NEW off \in Int, Respond(rtt, path, off)
    PROVE  ReadingInv'
  <1> DEFINE error == path + (clock.request - rtt) * Drift
             new == [target |-> off, path |-> path, rtt |-> rtt, error |-> error]
             more == Append(clock.candidates, new)
             c == [clock EXCEPT !.request = NoAge, !.candidates = more]
  <1>0. Honest(clock) /\ Sound(clock) /\ Reading(clock) /\ Round(clock)
    BY DEF ReadingInv, Honest
  <1>1. /\ clock.request \in 0..(ReqTimeout - 1) /\ rtt <= clock.request /\ off \in (-error)..error
        /\ Becomes(IF Len(c.candidates) >= Enough THEN FinishRound(c) ELSE c)
        /\ ahead' = IF Len(c.candidates) >= Enough /\ Agreed(c) THEN 0 ELSE ahead
        /\ UNCHANGED faults
    BY DEF Respond
  <1>2. error \in Nat /\ Abs(off) <= error
    <2>0. clock.request \in 0..(ReqTimeout - 1) /\ rtt <= clock.request
      BY <1>1
    <2>1. clock.request - rtt \in Nat
      <3> HIDE DEF error
      <3> QED
        BY <2>0, Limits
    <2>2. (clock.request - rtt) * Drift \in Nat
      BY <2>1, Product, Limits
    <2>3. error \in Nat
      BY <2>2
    <2> HIDE DEF error
    <2> QED
      BY <1>1, <2>3 DEF Abs
  <1> HIDE DEF error
  <1>3. new \in Candidate /\ new.target = off /\ new.error = error
    BY <1>2 DEF Candidate
  <1> HIDE DEF new
  <1>4. clock.candidates \in Seq(Candidate)
    BY <1>0 DEF Round
  <1>5. /\ more \in Seq(Candidate) /\ Len(more) = Len(clock.candidates) + 1
        /\ \A i \in DOMAIN more : \/ i \in DOMAIN clock.candidates /\ more[i] = clock.candidates[i]
                                  \/ more[i] = new
    BY <1>3, <1>4
  <1> HIDE DEF more
  <1>6. /\ HasFields(c) /\ c.state = clock.state /\ c.synced = clock.synced
        /\ c.heartbeat = clock.heartbeat /\ c.get = clock.get /\ c.earned = clock.earned
        /\ c.revision = clock.revision /\ c.connection = clock.connection
        /\ c.known = clock.known /\ c.session = clock.session
    BY <1>0 DEF Sound, HasFields, Fields
  <1>7. /\ SameReading(clock, c) /\ c.request = NoAge /\ c.round = clock.round
        /\ c.attempts = clock.attempts /\ c.candidates = more
    BY <1>0 DEF Sound, HasFields, Fields, SameReading
  <1> HIDE DEF c
  <1>8. Sound(c)
    BY <1>0, <1>6, OtherFields DEF Follows
  <1>9. Reading(c)
    BY <1>0, <1>7 DEF Reading, SameReading
  <1>10. Round(c)
    <2>1. c.dirty = clock.dirty /\ c.dirtyRound = clock.dirtyRound
      BY <1>7 DEF SameReading
    <2>2. clock.request # NoAge /\ NoAge \in NoAge..ReqTimeout
      BY <1>1, Limits DEF NoAge
    <2>3. ~c.dirtyRound => \A i \in DOMAIN c.candidates : Abs(c.candidates[i].target) <= c.candidates[i].error
      BY <1>0, <1>2, <1>3, <1>5, <1>7, <2>1 DEF Round
    <2> QED
      BY <1>0, <1>5, <1>7, <2>1, <2>2, <2>3 DEF Round
  <1>11. Honest(c)
    BY <1>8, <1>9, <1>10 DEF Honest
  <1>12. Above(c, Lead)
    BY <1>6, <1>7, SameAbove DEF ReadingInv
  <1>13. CASE Len(c.candidates) >= Enough
    <2> DEFINE d == FinishRound(c)
    <2>1. Becomes(d) /\ ahead' = IF Agreed(c) THEN 0 ELSE ahead
      BY <1>1, <1>13
    <2>2. Keeps(c, d) /\ d.candidates = <<>> /\ (Agreed(c) => Above(d, 0))
      BY <1>11, FinishRoundKeeps
    <2> HIDE DEF d
    <2>3. Lead \in Nat
      BY DEF ReadingInv, Lead
    <2>4. Honest(d) /\ Above(d, Lead)
      BY <1>12, <2>2, <2>3 DEF Keeps
    <2>5. Len(d.candidates) < Enough
      BY <2>2, Limits
    <2> QED
      BY <1>1, <2>1, <2>2, <2>4, <2>5, HonestStep
  <1>14. CASE ~(Len(c.candidates) >= Enough)
    <2>1. Becomes(c) /\ ahead' = ahead
      BY <1>1, <1>14
    <2>2. Len(c.candidates) < Enough
      BY <1>5, <1>7, <1>14, Limits
    <2> QED
      BY <1>1, <1>11, <1>12, <2>1, <2>2, HonestStep
  <1> QED
    BY <1>13, <1>14

(* Candidates seen by another clock are candidates. *)
LEMMA ShiftedIs ==
    ASSUME NEW S \in Seq(Candidate), NEW n \in Int, NEW m \in Nat
    PROVE  /\ Shifted(S, n, m) \in Seq(Candidate) /\ Len(Shifted(S, n, m)) = Len(S)
           /\ S = <<>> => Shifted(S, n, m) = <<>>
           /\ \A i \in DOMAIN Shifted(S, n, m) :
                  /\ i \in DOMAIN S /\ S[i].target \in Int /\ S[i].error \in Nat
                  /\ Shifted(S, n, m)[i].target = S[i].target + n
                  /\ Shifted(S, n, m)[i].error = S[i].error + m
  <1> DEFINE x(i) == [target |-> S[i].target + n, path |-> S[i].path, rtt |-> S[i].rtt,
                      error |-> S[i].error + m]
             P == Shifted(S, n, m)
  <1>1. Len(S) \in Nat /\ DOMAIN S = 1..Len(S) /\ \A i \in 1..Len(S) : S[i] \in Candidate
    OBVIOUS
  <1>2. P = [i \in 1..Len(S) |-> x(i)]
    BY DEF Shifted
  <1>3. ASSUME NEW i \in 1..Len(S)
        PROVE  /\ x(i) \in Candidate /\ x(i).target = S[i].target + n /\ x(i).error = S[i].error + m
               /\ S[i].target \in Int /\ S[i].error \in Nat
    <2>1. S[i] \in Candidate
      BY <1>1
    <2>2. S[i].target \in Int /\ S[i].path \in Nat /\ S[i].rtt \in Nat /\ S[i].error \in Nat
      BY <2>1 DEF Candidate
    <2>3. S[i].target + n \in Int /\ S[i].error + m \in Nat
      BY <2>2
    <2> QED
      BY <2>2, <2>3 DEF Candidate
  <1> HIDE DEF x, P
  <1>4. P \in [1..Len(S) -> Candidate] /\ DOMAIN P = 1..Len(S)
    BY <1>2, <1>3
  <1>5. P \in Seq(Candidate) /\ Len(P) = Len(S)
    BY <1>1, <1>4
  <1>6. S = <<>> => P = <<>>
    BY <1>5
  <1>7. ASSUME NEW i \in DOMAIN P
        PROVE  /\ i \in DOMAIN S /\ S[i].target \in Int /\ S[i].error \in Nat
               /\ P[i].target = S[i].target + n /\ P[i].error = S[i].error + m
    <2>1. i \in 1..Len(S) /\ P[i] = x(i)
      BY <1>2, <1>4
    <2> QED
      BY <1>1, <1>3, <2>1
  <1> QED
    BY <1>5, <1>6, <1>7 DEF P

(* Ages stay in their range, and a tick neither starts nor ends anything. *)
LEMMA OlderIs ==
    ASSUME NEW max \in Nat, NEW age \in NoAge..max
    PROVE  Older(age, max) \in NoAge..max /\ (Older(age, max) = NoAge <=> age = NoAge)
  BY DEF Older, Clip, NoAge

(* A tick of the monotonic source. *)
LEMMA TickKeeps ==
    ASSUME ReadingInv, TimeInv', NEW n \in (-Drift)..Drift, Tick(n)
    PROVE  ReadingInv'
  <1> DEFINE corr == IF ahead > 0 THEN 0 ELSE Clip(clock.residual, -SlewMax, SlewMax)
             q == Shifted(clock.candidates, n, Drift)
             c == clock
             d == clock'
  <1>0. Sound(c) /\ Reading(c) /\ Round(c) /\ Sound(d) /\ n \in Int
    BY Limits DEF ReadingInv, TimeInv, Honest
  <1>1. /\ Abs(c.utc + corr + n) <= BiasMax
        /\ d = [c EXCEPT
               !.utc = IF c.known THEN c.utc + corr + n ELSE 0,
               !.residual = @ - corr,
               !.syncAge = IF c.known THEN Clip(@ + 1, 0, HoldMax) ELSE 0,
               !.floor = IF c.floored THEN Clip(@ - TickLength, -FloorMin, BiasMax) ELSE 0,
               !.request = Older(@, ReqTimeout), !.round = Older(@, RoundMax),
               !.wait = Clip(@ - 1, 0, Delay),
               !.candidates = q]
        /\ ahead' = Clip(ahead - 1, -1, MaxFaults) /\ faults' = faults
    BY DEF Tick
  <1>2. /\ corr \in Int /\ (ahead > 0 => corr = 0) /\ corr <= SlewMax /\ -SlewMax <= corr
        /\ Abs(c.residual - corr) + corr >= Abs(c.residual) - 2 * SlewMax
        /\ (ahead > 0 => Abs(c.residual - corr) = Abs(c.residual))
        /\ Abs(c.residual - corr) \in Nat
    BY <1>0, Limits DEF Reading, Clip, Abs
  <1> HIDE DEF corr, q, c, d
  <1>3. /\ d.known = c.known /\ d.utc = (IF c.known THEN c.utc + corr + n ELSE 0)
        /\ d.residual = c.residual - corr
        /\ d.syncAge = (IF c.known THEN Clip(c.syncAge + 1, 0, HoldMax) ELSE 0)
        /\ d.floor = (IF c.floored THEN Clip(c.floor - TickLength, -FloorMin, BiasMax) ELSE 0)
        /\ d.uncertainty = c.uncertainty /\ d.relived = c.relived /\ d.floored = c.floored
        /\ d.dirty = c.dirty
    BY <1>0, <1>1 DEF Sound, HasFields, Fields
  <1>4. /\ d.dirtyRound = c.dirtyRound /\ d.request = Older(c.request, ReqTimeout)
        /\ d.round = Older(c.round, RoundMax) /\ d.attempts = c.attempts /\ d.candidates = q
        /\ d.revision = c.revision /\ d.connection = c.connection /\ d.state = c.state
    BY <1>0, <1>1 DEF Sound, HasFields, Fields
  <1>5. /\ q \in Seq(Candidate) /\ Len(q) = Len(c.candidates) /\ (c.candidates = <<>> => q = <<>>)
        /\ \A i \in DOMAIN q : /\ i \in DOMAIN c.candidates
                               /\ c.candidates[i].target \in Int /\ c.candidates[i].error \in Nat
                               /\ q[i].target = c.candidates[i].target + n
                               /\ q[i].error = c.candidates[i].error + Drift
    <2>1. c.candidates \in Seq(Candidate) /\ n \in Int /\ Drift \in Nat
      BY <1>0, Limits DEF Round
    <2>2. q = Shifted(c.candidates, n, Drift)
      BY DEF q, c
    <2> QED
      BY <2>1, <2>2, ShiftedIs
  <1>6. /\ c.utc \in Int /\ c.residual \in Int /\ c.uncertainty \in Nat /\ c.syncAge \in Nat
        /\ c.relived \in Nat /\ c.floored \in BOOLEAN /\ c.floor \in Int /\ c.dirty \in BOOLEAN
        /\ c.known \in BOOLEAN
    BY <1>0 DEF Reading, Sound, Stages
  <1>7. /\ Clip(c.syncAge + 1, 0, HoldMax) \in 0..HoldMax
        /\ Clip(c.syncAge + 1, 0, HoldMax) < HoldMax => Clip(c.syncAge + 1, 0, HoldMax) = c.syncAge + 1
    BY <1>6, Limits DEF Clip
  <1>8. /\ Clip(c.floor - TickLength, -FloorMin, BiasMax) \in Int
        /\ \/ Clip(c.floor - TickLength, -FloorMin, BiasMax) <= c.floor - TickLength
           \/ Clip(c.floor - TickLength, -FloorMin, BiasMax) = -FloorMin
    BY <1>6, Limits DEF Clip
  <1>9. /\ d.utc \in Int /\ d.residual \in Int /\ d.syncAge \in Nat /\ d.floor \in Int
    BY <1>0, <1>2, <1>3, <1>6, <1>7, <1>8, Limits
  <1>10. Reading(d)
    <2>1. ASSUME d.known, ~d.dirty, d.syncAge < HoldMax
          PROVE  Abs(d.utc + d.residual) <= d.uncertainty + d.syncAge * Drift
      <3>1. c.known /\ ~c.dirty /\ d.syncAge = c.syncAge + 1 /\ c.syncAge < HoldMax
        BY <1>3, <1>6, <1>7, <2>1, Limits
      <3> DEFINE a == c.syncAge * Drift
                 t == c.utc + c.residual
      <3>2. Abs(t) <= c.uncertainty + a
        BY <1>0, <3>1 DEF Reading
      <3>3. a \in Nat /\ d.syncAge * Drift = a + Drift
        BY <1>6, <3>1, Product, Limits
      <3>4. t \in Int /\ d.utc + d.residual = t + n
        BY <1>0, <1>2, <1>3, <1>6, <3>1
      <3> HIDE DEF a, t
      <3>5. Abs(t + n) <= c.uncertainty + a + Drift
        BY <1>6, <3>2, <3>3, <3>4, Limits DEF Abs
      <3> QED
        BY <1>3, <1>6, <3>3, <3>4, <3>5, Limits
    <2> QED
      BY <1>3, <1>6, <1>9, <2>1 DEF Reading
  <1>11. Round(d)
    <2>1. /\ d.request \in NoAge..ReqTimeout /\ (d.request = NoAge <=> c.request = NoAge)
          /\ d.round \in NoAge..RoundMax /\ (d.round = NoAge <=> c.round = NoAge)
      <3>1. c.request \in NoAge..ReqTimeout /\ c.round \in NoAge..RoundMax
        BY <1>0 DEF Round
      <3>2. ReqTimeout \in Nat /\ RoundMax \in Nat
        BY Limits
      <3> QED
        BY <1>4, <3>1, <3>2, OlderIs
    <2>2. ASSUME ~d.dirtyRound, NEW i \in DOMAIN d.candidates
          PROVE  Abs(d.candidates[i].target) <= d.candidates[i].error
      <3> DEFINE t == c.candidates[i].target
                 e == c.candidates[i].error
      <3>1. i \in DOMAIN c.candidates /\ t \in Int /\ e \in Nat /\ d.candidates[i].target = t + n
            /\ d.candidates[i].error = e + Drift
        BY <1>4, <1>5, <2>2
      <3>2. Abs(t) <= e
        BY <1>0, <1>4, <2>2, <3>1 DEF Round
      <3> HIDE DEF t, e
      <3>3. Abs(t + n) <= e + Drift
        BY <3>1, <3>2, Limits DEF Abs
      <3> QED
        BY <3>1, <3>3
    <2> QED
      BY <1>0, <1>3, <1>4, <1>5, <2>1, <2>2 DEF Round
  <1>12. Honest(d) /\ Len(d.candidates) < Enough /\ d.revision <= MaxRevision /\ d.connection <= MaxConnection
    BY <1>0, <1>4, <1>5, <1>10, <1>11 DEF Honest, ReadingInv, c
  <1>13. /\ faults \in 0..MaxFaults /\ ahead \in (-1)..faults /\ Lead \in Nat /\ Lead' \in Nat
         /\ ahead' \in (-1)..faults
         /\ ahead > 0 => Lead = ahead /\ Lead' = ahead - 1
         /\ ~(ahead > 0) => Lead = 0 /\ Lead' = 0
    <2>1. faults \in 0..MaxFaults /\ ahead \in (-1)..faults /\ MaxFaults \in Nat
      BY Limits DEF ReadingInv
    <2>2. ahead' \in (-1)..faults /\ (ahead > 0 => ahead' = ahead - 1) /\ (~(ahead > 0) => ahead' = -1)
      BY <1>1, <2>1 DEF Clip
    <2> QED
      BY <2>1, <2>2 DEF Lead
  <1>14. Above(d, Lead')
    <2> SUFFICES ASSUME Usable(d), d.floored, d.syncAge + Lead' < HoldMax
                 PROVE  d.utc + Lead' * TickLength + d.uncertainty + d.syncAge * Drift + d.relived * Drift
                            + Abs(d.residual) >= d.floor
      BY DEF Above
    <2>1. c.known /\ c.floored /\ Usable(c)
      BY <1>0, <1>3, <1>4 DEF Sound, Stages, Usable
    <2>2. d.syncAge = c.syncAge + 1 /\ d.utc = c.utc + corr + n
      BY <1>3, <1>7, <1>9, <1>13, <2>1, Limits
    <2>3. c.syncAge + Lead < HoldMax
      BY <1>6, <1>13, <2>2, Limits
    <2> DEFINE a == c.syncAge * Drift
               r == c.relived * Drift
               l == Lead * TickLength
               m == Lead' * TickLength
               z == Abs(c.residual)
               y == Abs(c.residual - corr)
    <2>4. c.utc + l + c.uncertainty + a + r + z >= c.floor
      BY <2>1, <2>3 DEF ReadingInv, Above, c
    <2>5. a \in Nat /\ d.syncAge * Drift = a + Drift /\ r \in Nat /\ l \in Nat /\ m \in Nat
      <3>1. TickLength \in Nat /\ Drift \in Nat
        BY Limits
      <3>2. c.syncAge * Drift \in Nat /\ (c.syncAge + 1) * Drift = c.syncAge * Drift + Drift
        BY <1>6, <3>1, Product
      <3>3. r \in Nat /\ l \in Nat /\ m \in Nat
        BY <1>6, <1>13, <3>1, Product
      <3> QED
        BY <2>2, <3>2, <3>3
    <2>6. (ahead > 0 => m = l - TickLength) /\ (~(ahead > 0) => m = 0 /\ l = 0)
      <3>1. CASE ahead > 0
        <4>1. Lead >= 1 /\ Lead' = Lead - 1
          BY <1>13, <3>1
        <4> QED
          BY <1>13, <3>1, <4>1, Product, Limits
      <3>2. CASE ~(ahead > 0)
        BY <1>13, <3>2, Limits
      <3> QED
        BY <3>1, <3>2
    <2>7. /\ z \in Nat /\ y \in Nat /\ y + corr >= z - 2 * SlewMax /\ (ahead > 0 => y = z /\ corr = 0)
      BY <1>2, <1>6 DEF Abs
    <2>8. c.utc + corr + n >= -BiasMax
      BY <1>0, <1>1, <1>2, <1>6, Limits DEF Abs
    <2>9. d.floor <= c.floor - TickLength \/ d.floor = -FloorMin
      BY <1>3, <1>8, <2>1
    <2> HIDE DEF a, r, l, m, z, y
    <2>10. (c.utc + corr + n) + m + c.uncertainty + (a + Drift) + r + y >= d.floor
      <3>0. /\ n \in Int /\ n >= -Drift /\ 2 * SlewMax <= TickLength /\ BiasMax <= FloorMin
            /\ Drift \in Nat /\ TickLength \in Nat /\ SlewMax \in Nat /\ BiasMax \in Nat /\ FloorMin \in Nat
        BY Limits
      <3>1. CASE d.floor = -FloorMin
        BY <1>2, <1>6, <2>5, <2>7, <2>8, <3>0, <3>1
      <3>2. CASE d.floor <= c.floor - TickLength
        <4>1. CASE ahead > 0
          BY <1>2, <1>6, <1>9, <2>4, <2>5, <2>6, <2>7, <3>0, <3>2, <4>1
        <4>2. CASE ~(ahead > 0)
          BY <1>2, <1>6, <1>9, <2>4, <2>5, <2>6, <2>7, <3>0, <3>2, <4>2
        <4> QED
          BY <4>1, <4>2
      <3> QED
        BY <2>9, <3>1, <3>2
    <2>11. d.utc + m + d.uncertainty + d.syncAge * Drift + r + y >= d.floor
      BY <1>3, <2>2, <2>5, <2>10
    <2> QED
      BY <1>3, <2>11 DEF m, r, y
  <1> QED
    BY <1>1, <1>12, <1>13, <1>14 DEF ReadingInv, d

(* A jump of the hub's clock moves the reading and the floor alike. *)
LEMMA HubKeeps ==
    ASSUME ReadingInv, TimeInv', NEW n \in Int, HubJumps(n)
    PROVE  ReadingInv'
  <1> DEFINE q == Shifted(clock.candidates, n, 0)
             c == clock
             d == clock'
  <1>0. Sound(c) /\ Reading(c) /\ Round(c) /\ Sound(d)
    BY DEF ReadingInv, TimeInv, Honest
  <1>1. /\ faults < MaxFaults /\ Abs(c.utc + n) <= BiasMax
        /\ d = [c EXCEPT
               !.utc = IF c.known THEN @ + n ELSE 0,
               !.floor = IF c.floored THEN Clip(@ + n, -FloorMin, BiasMax) ELSE 0,
               !.candidates = q, !.dirty = TRUE, !.dirtyRound = TRUE]
        /\ faults' = faults + 1 /\ ahead' = ahead
    BY DEF HubJumps
  <1> HIDE DEF q, c, d
  <1>2. /\ d.known = c.known /\ d.utc = (IF c.known THEN c.utc + n ELSE 0)
        /\ d.floor = (IF c.floored THEN Clip(c.floor + n, -FloorMin, BiasMax) ELSE 0)
        /\ d.residual = c.residual /\ d.syncAge = c.syncAge /\ d.uncertainty = c.uncertainty
        /\ d.relived = c.relived /\ d.floored = c.floored /\ d.dirty = TRUE
    BY <1>0, <1>1 DEF Sound, HasFields, Fields
  <1>3. /\ d.dirtyRound = TRUE /\ d.request = c.request /\ d.round = c.round /\ d.attempts = c.attempts
        /\ d.candidates = q /\ d.revision = c.revision /\ d.connection = c.connection /\ d.state = c.state
    BY <1>0, <1>1 DEF Sound, HasFields, Fields
  <1>4. q \in Seq(Candidate) /\ Len(q) = Len(c.candidates) /\ (c.candidates = <<>> => q = <<>>)
    <2>1. c.candidates \in Seq(Candidate) /\ n \in Int /\ 0 \in Nat
      BY <1>0 DEF Round
    <2>2. q = Shifted(c.candidates, n, 0)
      BY DEF q, c
    <2> QED
      BY <2>1, <2>2, ShiftedIs
  <1>5. /\ c.utc \in Int /\ c.residual \in Int /\ c.uncertainty \in Nat /\ c.syncAge \in Nat
        /\ c.relived \in Nat /\ c.floored \in BOOLEAN /\ c.floor \in Int /\ c.known \in BOOLEAN
    BY <1>0 DEF Reading, Sound, Stages
  <1>6. /\ Clip(c.floor + n, -FloorMin, BiasMax) \in Int
        /\ \/ Clip(c.floor + n, -FloorMin, BiasMax) <= c.floor + n
           \/ Clip(c.floor + n, -FloorMin, BiasMax) = -FloorMin
    BY <1>5, Limits DEF Clip
  <1>7. d.utc \in Int /\ d.floor \in Int
    BY <1>2, <1>5, <1>6
  <1>8. Reading(d)
    BY <1>2, <1>5, <1>7 DEF Reading
  <1>9. Round(d)
    BY <1>0, <1>2, <1>3, <1>4 DEF Round
  <1>10. Honest(d) /\ Len(d.candidates) < Enough /\ d.revision <= MaxRevision /\ d.connection <= MaxConnection
    BY <1>0, <1>3, <1>4, <1>8, <1>9 DEF Honest, ReadingInv, c
  <1>11. faults' \in 0..MaxFaults /\ ahead' \in (-1)..faults' /\ Lead' = Lead /\ Lead \in Nat
    <2>1. faults \in 0..MaxFaults /\ ahead \in (-1)..faults /\ MaxFaults \in Nat
      BY Limits DEF ReadingInv
    <2> QED
      BY <1>1, <2>1 DEF Lead
  <1>12. Above(d, Lead)
    <2> SUFFICES ASSUME Usable(d), d.floored, d.syncAge + Lead < HoldMax
                 PROVE  d.utc + Lead * TickLength + d.uncertainty + d.syncAge * Drift + d.relived * Drift
                            + Abs(d.residual) >= d.floor
      BY DEF Above
    <2>1. c.known /\ c.floored /\ Usable(c) /\ d.utc = c.utc + n
      BY <1>0, <1>2, <1>3 DEF Sound, Stages, Usable
    <2> DEFINE a == c.syncAge * Drift
               r == c.relived * Drift
               l == Lead * TickLength
               z == Abs(c.residual)
    <2>2. c.utc + l + c.uncertainty + a + r + z >= c.floor
      BY <1>2, <2>1 DEF ReadingInv, Above, c
    <2>3. a \in Nat /\ r \in Nat /\ l \in Nat
      BY <1>5, <1>11, Product, Limits
    <2>4. z \in Nat
      BY <1>5 DEF Abs
    <2>5. c.utc + n >= -BiasMax
      BY <1>1, <1>5, Limits DEF Abs
    <2>6. d.floor <= c.floor + n \/ d.floor = -FloorMin
      BY <1>2, <1>6, <2>1
    <2> HIDE DEF a, r, l, z
    <2>7. (c.utc + n) + l + c.uncertainty + a + r + z >= d.floor
      BY <1>5, <1>7, <2>2, <2>3, <2>4, <2>5, <2>6, Limits
    <2> QED
      BY <1>2, <2>1, <2>7 DEF a, r, l, z
  <1> QED
    BY <1>1, <1>10, <1>11, <1>12 DEF ReadingInv, d

(* A step back of the monotonic source takes a tick from the reading, and  *)
(* owes it.                                                                *)
LEMMA BackKeeps ==
    ASSUME ReadingInv, TimeInv', MonoGoesBack
    PROVE  ReadingInv'
  <1> DEFINE Back(age) == IF age = NoAge THEN NoAge ELSE age - 1
             q == Shifted(clock.candidates, -TickLength, 0)
             c == clock
             d == clock'
  <1>0. Sound(c) /\ Reading(c) /\ Round(c) /\ Sound(d)
    BY DEF ReadingInv, TimeInv, Honest
  <1>1. /\ faults < MaxFaults /\ ahead >= 0
        /\ c.request # 0 /\ c.round # 0 /\ (c.known => c.syncAge >= 1)
        /\ d = [c EXCEPT
               !.request = Back(@), !.round = Back(@),
               !.utc = IF c.known THEN @ - TickLength ELSE 0,
               !.syncAge = IF c.known THEN @ - 1 ELSE 0,
               !.relived = IF c.known THEN @ + 1 ELSE 0,
               !.candidates = q, !.dirty = TRUE, !.dirtyRound = TRUE]
        /\ ahead' = ahead + 1 /\ faults' = faults + 1
    BY DEF MonoGoesBack
  <1>2. \A max \in Nat : \A age \in NoAge..max : age # 0 =>
            Back(age) \in NoAge..max /\ (Back(age) = NoAge <=> age = NoAge)
    BY DEF NoAge
  <1> HIDE DEF q, c, d, Back
  <1>3. /\ d.known = c.known /\ d.utc = (IF c.known THEN c.utc - TickLength ELSE 0)
        /\ d.syncAge = (IF c.known THEN c.syncAge - 1 ELSE 0)
        /\ d.relived = (IF c.known THEN c.relived + 1 ELSE 0)
        /\ d.floor = c.floor /\ d.residual = c.residual /\ d.uncertainty = c.uncertainty
        /\ d.floored = c.floored /\ d.dirty = TRUE
    BY <1>0, <1>1 DEF Sound, HasFields, Fields
  <1>4. /\ d.dirtyRound = TRUE /\ d.request = Back(c.request) /\ d.round = Back(c.round)
        /\ d.attempts = c.attempts /\ d.candidates = q
        /\ d.revision = c.revision /\ d.connection = c.connection /\ d.state = c.state
    BY <1>0, <1>1 DEF Sound, HasFields, Fields
  <1>5. q \in Seq(Candidate) /\ Len(q) = Len(c.candidates) /\ (c.candidates = <<>> => q = <<>>)
    <2>1. c.candidates \in Seq(Candidate) /\ -TickLength \in Int /\ 0 \in Nat
      BY <1>0, Limits DEF Round
    <2>2. q = Shifted(c.candidates, -TickLength, 0)
      BY DEF q, c
    <2> QED
      BY <2>1, <2>2, ShiftedIs
  <1>6. /\ c.utc \in Int /\ c.residual \in Int /\ c.uncertainty \in Nat /\ c.syncAge \in Nat
        /\ c.relived \in Nat /\ c.floored \in BOOLEAN /\ c.floor \in Int /\ c.known \in BOOLEAN
    BY <1>0 DEF Reading, Sound, Stages
  <1>7. d.utc \in Int /\ d.syncAge \in Nat /\ d.relived \in Nat
    BY <1>1, <1>3, <1>6, Limits
  <1>8. Reading(d)
    BY <1>3, <1>6, <1>7 DEF Reading
  <1>9. Round(d)
    <2>1. /\ d.request \in NoAge..ReqTimeout /\ (d.request = NoAge <=> c.request = NoAge)
          /\ d.round \in NoAge..RoundMax /\ (d.round = NoAge <=> c.round = NoAge)
      <3>1. c.request \in NoAge..ReqTimeout /\ c.round \in NoAge..RoundMax /\ c.request # 0 /\ c.round # 0
        BY <1>0, <1>1 DEF Round
      <3>2. ReqTimeout \in Nat /\ RoundMax \in Nat
        BY Limits
      <3> QED
        BY <1>2, <1>4, <3>1, <3>2
    <2> QED
      BY <1>0, <1>3, <1>4, <1>5, <2>1 DEF Round
  <1>10. Honest(d) /\ Len(d.candidates) < Enough /\ d.revision <= MaxRevision /\ d.connection <= MaxConnection
    BY <1>0, <1>4, <1>5, <1>8, <1>9 DEF Honest, ReadingInv, c
  <1>11. /\ faults' \in 0..MaxFaults /\ ahead' \in (-1)..faults'
         /\ Lead \in Nat /\ Lead' = Lead + 1
    <2>1. faults \in 0..MaxFaults /\ ahead \in (-1)..faults /\ MaxFaults \in Nat
      BY Limits DEF ReadingInv
    <2>2. faults < MaxFaults /\ ahead >= 0 /\ ahead' = ahead + 1 /\ faults' = faults + 1
      BY <1>1
    <2> QED
      BY <2>1, <2>2 DEF Lead
  <1>12. Above(d, Lead + 1)
    <2> SUFFICES ASSUME Usable(d), d.floored, d.syncAge + (Lead + 1) < HoldMax
                 PROVE  d.utc + (Lead + 1) * TickLength + d.uncertainty + d.syncAge * Drift + d.relived * Drift
                            + Abs(d.residual) >= d.floor
      BY DEF Above
    <2>1. c.known /\ c.floored /\ Usable(c)
      BY <1>0, <1>3, <1>4 DEF Sound, Stages, Usable
    <2>2. d.utc = c.utc - TickLength /\ d.syncAge = c.syncAge - 1 /\ d.relived = c.relived + 1 /\ c.syncAge >= 1
      BY <1>1, <1>3, <2>1
    <2> DEFINE a == c.syncAge * Drift
               r == c.relived * Drift
               l == Lead * TickLength
               z == Abs(c.residual)
    <2>3. c.syncAge + Lead < HoldMax
      BY <1>6, <1>11, <2>2, Limits
    <2>4. c.utc + l + c.uncertainty + a + r + z >= c.floor
      BY <2>1, <2>3 DEF ReadingInv, Above, c
    <2>5. /\ a \in Nat /\ r \in Nat /\ l \in Nat /\ d.syncAge * Drift = a - Drift
          /\ d.relived * Drift = r + Drift /\ (Lead + 1) * TickLength = l + TickLength
      <3>1. TickLength \in Nat /\ Drift \in Nat
        BY Limits
      <3>2. a \in Nat /\ (c.syncAge - 1) * Drift = a - Drift
        BY <1>6, <2>2, <3>1, Product
      <3>3. r \in Nat /\ (c.relived + 1) * Drift = r + Drift
        BY <1>6, <3>1, Product
      <3>4. l \in Nat /\ (Lead + 1) * TickLength = l + TickLength
        BY <1>11, <3>1, Product
      <3> QED
        BY <2>2, <3>2, <3>3, <3>4
    <2>6. z \in Nat
      BY <1>6 DEF Abs
    <2> HIDE DEF a, r, l, z
    <2>7. (c.utc - TickLength) + (l + TickLength) + c.uncertainty + (a - Drift) + (r + Drift) + z >= c.floor
      BY <1>6, <2>4, <2>5, <2>6, Limits
    <2>8. Abs(d.residual) = z
      BY <1>3 DEF z
    <2> QED
      BY <1>3, <2>2, <2>5, <2>7, <2>8
  <1>13. Above(d, Lead')
    BY <1>11, <1>12
  <1> QED
    BY <1>10, <1>11, <1>13 DEF ReadingInv, d

----------------------------------------------------------------------------
(* The theorems about the reading. *)

(* The object as it is made has no reading and no round. *)
LEMMA ReadingInit == Init => ReadingInv
  <1> SUFFICES ASSUME Init PROVE ReadingInv
    OBVIOUS
  <1>1. Sound(clock)
    BY TimeInit DEF TimeInv
  <1>2. Reading(clock)
    BY DEF Init, NewClock, Reading
  <1>3. Round(clock)
    BY Limits DEF Init, NewClock, Round, NoAge
  <1>4. ~Usable(clock)
    BY DEF Init, NewClock, Usable
  <1>5. /\ Len(clock.candidates) < Enough /\ clock.revision <= MaxRevision
        /\ clock.connection <= MaxConnection
    BY Limits DEF Init, NewClock
  <1>6. faults \in 0..MaxFaults /\ ahead \in (-1)..faults
    BY Limits DEF Init
  <1> QED
    BY <1>1, <1>2, <1>3, <1>4, <1>5, <1>6, AboveUnused DEF ReadingInv, Honest

(* The reading, the round and the floor, after any order of connections,   *)
(* rounds, ticks, jumps and boundaries.                                    *)
THEOREM ReadingInvariant == Spec => []ReadingInv
  <1>1. TimeInv /\ TimeInv' /\ ReadingInv /\ [Next]_vars => ReadingInv'
    <2> SUFFICES ASSUME TimeInv', ReadingInv, [Next]_vars PROVE ReadingInv'
      OBVIOUS
    <2>1. CASE ClockNext
      <3>1. CASE Connect \/ Disconnect \/ Request \/ Require \/ RespondLate
        BY <3>1, MethodKeeps
      <3>2. CASE \E floor \in Floors, lag \in Lags : LoadBoundary(floor, lag)
        BY <3>2, BoundaryKeeps
      <3>3. CASE \E rtt \in 0..(ReqTimeout - 1), path \in 0..TickLength, off \in (-BiasMax)..BiasMax :
                     Respond(rtt, path, off)
        <4>1. 0..(ReqTimeout - 1) \subseteq Nat /\ 0..TickLength \subseteq Nat /\ (-BiasMax)..BiasMax \subseteq Int
          BY Limits
        <4> QED
          BY <3>3, <4>1, RespondKeeps
      <3>4. CASE \E d \in (-Drift)..Drift : Tick(d)
        BY <3>4, TickKeeps
      <3> QED
        BY <2>1, <3>1, <3>2, <3>3, <3>4 DEF ClockNext
    <2>2. CASE UserNext
      BY <2>2, UserKeeps DEF UserNext
    <2>3. CASE FaultNext
      BY <2>3, Limits, MethodKeeps, HubKeeps, BackKeeps DEF FaultNext
    <2>4. CASE UNCHANGED vars
      <3>1. clock' = clock /\ ahead' = ahead /\ faults' = faults
        BY <2>4 DEF vars
      <3>2. Lead' = Lead
        BY <3>1 DEF Lead
      <3> QED
        BY <3>1, <3>2 DEF ReadingInv
    <2> QED
      BY <2>1, <2>2, <2>3, <2>4 DEF Next
  <1> QED
    BY <1>1, ReadingInit, TimeInvariant, PTL DEF Spec

(* The fields have their types: in particular a round never holds enough   *)
(* candidates to end it, and its attempts and its age stay within limits.  *)
THEOREM TimeTypes == Spec => []TimeTypeOK
  <1>1. ReadingInv => TimeTypeOK
    <2> SUFFICES ASSUME ReadingInv PROVE TimeTypeOK
      OBVIOUS
    <2>1. clock.state \in States /\ clock.revision \in Nat /\ clock.connection \in Nat
      BY DEF ReadingInv, Honest, Sound, Stages
    <2>2. /\ clock.request \in NoAge..ReqTimeout /\ clock.round \in NoAge..RoundMax
          /\ clock.attempts \in 0..MaxAttempts
      BY DEF ReadingInv, Honest, Round
    <2>3. /\ clock.revision <= MaxRevision /\ clock.connection <= MaxConnection
          /\ Len(clock.candidates) < Enough /\ faults \in 0..MaxFaults /\ ahead \in (-1)..faults
      BY DEF ReadingInv
    <2>4. clock.revision \in 0..MaxRevision /\ clock.connection \in 0..MaxConnection /\ ahead \in -1..MaxFaults
      BY <2>1, <2>3, Limits
    <2> QED
      BY <2>1, <2>2, <2>3, <2>4 DEF TimeTypeOK
  <1> QED
    BY <1>1, ReadingInvariant, PTL

(* A valid reading is the hub's time up to the error it states, through    *)
(* drift, slewing, holdover, reconnects and asymmetric paths, unless a     *)
(* clock jumped since the round it was taken in began.                     *)
THEOREM ReadingsAreWithinError == Spec => []ReadingIsWithinError
  <1>1. ReadingInv => ReadingIsWithinError
    <2> DEFINE s == Snapshot(clock)
    <2> SUFFICES ASSUME ReadingInv, Valid(s), ~s.dirty PROVE Abs(s.utc) <= Error(s)
      BY DEF ReadingIsWithinError
    <2>1. Reading(s)
      BY SnapshotKeeps DEF ReadingInv, Keeps, Honest
    <2>2. s.known /\ s.syncAge < HoldMax
      BY DEF Valid
    <2> HIDE DEF s
    <2> DEFINE a == s.syncAge * Drift
               t == s.utc + s.residual
    <2>3. Abs(t) <= s.uncertainty + a
      BY <2>1, <2>2 DEF Reading
    <2>4. s.utc \in Int /\ s.residual \in Int /\ s.uncertainty \in Nat /\ s.syncAge \in Nat
      BY <2>1 DEF Reading
    <2>5. a \in Nat /\ t \in Int /\ s.utc = t - s.residual
      BY <2>4, Product, Limits
    <2> HIDE DEF a, t
    <2>6. Abs(t - s.residual) <= s.uncertainty + a + Abs(s.residual)
      BY <2>3, <2>4, <2>5 DEF Abs
    <2> QED
      BY <2>5, <2>6 DEF Error, a
  <1> QED
    BY <1>1, ReadingInvariant, PTL

(* No valid reading lies before the durable floor, through rollbacks of    *)
(* the hub's clock, restarts, resynchronisations and steps back of the     *)
(* monotonic source, but for the drift of the ticks it repeated unseen.    *)
THEOREM FloorIsKept == Spec => []FloorHolds
  <1>1. ReadingInv => FloorHolds
    <2> DEFINE s == Snapshot(clock)
    <2> SUFFICES ASSUME ReadingInv, Valid(s), s.floored
                 PROVE  s.utc + Error(s) + s.relived * Drift >= s.floor
      BY DEF FloorHolds
    <2>1. Honest(s) /\ ahead <= 0 /\ Usable(clock) /\ SameReading(clock, s) /\ s.state \in {"SYNCED", "HOLDOVER"}
          /\ Keeps(clock, s)
      BY SnapshotKeeps DEF ReadingInv, Keeps, Valid
    <2>2. s.syncAge < HoldMax
      BY DEF Valid
    <2> HIDE DEF s
    <2>3. Lead = 0 /\ Above(clock, 0)
      BY <2>1 DEF ReadingInv, Lead
    <2>4. Above(s, 0) /\ Usable(s)
      BY <2>1, <2>3 DEF Keeps, Usable
    <2>5. s.utc \in Int /\ s.residual \in Int /\ s.uncertainty \in Nat /\ s.syncAge \in Nat /\ s.relived \in Nat
          /\ s.floor \in Int
      BY <2>1 DEF Honest, Reading
    <2> DEFINE a == s.syncAge * Drift
               r == s.relived * Drift
               z == Abs(s.residual)
    <2>6. a \in Nat /\ r \in Nat /\ 0 * TickLength = 0 /\ s.syncAge + 0 < HoldMax
      BY <2>2, <2>5, Product, Limits
    <2>7. z \in Nat
      BY <2>5 DEF Abs
    <2>8. s.utc + 0 * TickLength + s.uncertainty + a + r + z >= s.floor
      BY <2>4, <2>6 DEF Above
    <2> HIDE DEF a, r, z
    <2>9. s.utc + (s.uncertainty + a + z) + r >= s.floor
      BY <2>5, <2>6, <2>7, <2>8
    <2> QED
      BY <2>9 DEF Error, a, r, z
  <1> QED
    BY <1>1, ReadingInvariant, PTL

=============================================================================
