-------------------------- MODULE LifecycleProofs --------------------------
(***************************************************************************)
(* The lifecycle, its store and its runtime together: consistency between  *)
(* two commands, ownership of the runners, honesty of the reported version *)
(* and the retry of a candidate, for every set of devices and commands.    *)
(*                                                                         *)
(* The inductive invariant says, for each position of the coordinator, how *)
(* the runners, the pending transition and the versions stand to the       *)
(* store; a crash, a raised call or a request to close may come anywhere.  *)
(***************************************************************************)
EXTENDS Lifecycle, ConfigStoreProofs

(* The coordinator's positions by what holds there. *)
BeforeLoad == {"new", "open", "load", "dead"}
AtRestSteps == {"idle", "prepare", "preflight", "refuse", "restored"}
ActivatedSteps == {"commit", "resolve", "committed"}
SwitchSteps == ActivatedSteps \cup {"activate", "rollback"}
JobSteps == (AtRestSteps \ {"idle"}) \cup SwitchSteps

OneEach(S) == \A r, s \in S : r[1] = s[1] => r = s

(* No process, or one that has not asked the store yet. *)
Unborn ==
    /\ running = {} /\ runners = {} /\ managed = {}
    /\ published = NoConfig /\ pending = NoTransition
    /\ durable = 0 /\ cfg = 0 /\ state \notin {"WAITING_CONFIG", "RUNNING", "APPLYING"}

(* _start is bringing up the active configuration. *)
ComingUp ==
    /\ active # 0 /\ durable = active /\ runners = {}
    /\ pending.snapshot.version = active /\ pending.proposed = Wanted(ActiveContent)
    /\ pending.stopped = {} /\ pending.started \subseteq pending.proposed
    /\ running = pending.started /\ managed = pending.proposed

(* Store, coordinator and runtime agree. *)
AtRest ==
    /\ durable = active /\ cfg = active /\ published.version = active
    /\ running = Wanted(ActiveContent) /\ runners = running /\ managed = running
    /\ pending = NoTransition

(* What a switch never changes before its end: the published runners are   *)
(* those of cfg, the proposed ones those of the job's version.             *)
Content(v) == IF v = 0 THEN Nothing ELSE snapshots[v].content

Switch ==
    /\ durable = cfg /\ published.version = cfg
    /\ cfg # 0 => Saved(cfg)
    /\ Saved(job.version)
    /\ pending.snapshot.version = job.version
    /\ pending.proposed = Wanted(Content(job.version))
    /\ runners = Wanted(Content(cfg))
    /\ managed = runners \cup pending.proposed
    /\ pending.stopped \subseteq runners \ pending.proposed
    /\ pending.started \subseteq pending.proposed \ runners

(* activate stops all of its runners before it starts the first. *)
HalfActivated ==
    /\ Switch /\ active = cfg
    /\ running = (runners \ pending.stopped) \cup pending.started
    /\ pending.started # {} => pending.stopped = runners \ pending.proposed

(* The proposed runners are up, and the store has the next word. *)
FullyActivated ==
    /\ Switch
    /\ step = "commit" => active = cfg
    /\ step = "committed" => active = job.version
    /\ running = pending.proposed
    /\ pending.stopped = runners \ pending.proposed
    /\ pending.started = pending.proposed \ runners

(* rollback: a runner that is alive is an old one or one still to be       *)
(* stopped, and an old one that is replaced is alive only when none of     *)
(* the new ones was started.                                               *)
GoingBack ==
    /\ Switch /\ active = cfg
    /\ runners \ pending.stopped \subseteq running
    /\ running \subseteq runners \cup pending.started
    /\ pending.started # {} => running \cap (runners \ pending.proposed) = {}

(* The agent has given up or has ended. *)
Over ==
    /\ running \subseteq managed /\ OneEach(running)
    /\ durable \in {active, Unknown} \/ (durable = 0 /\ cfg = 0 /\ state = "FAILED")

(* What the two tasks know of each other. *)
TasksInv ==
    /\ step \in JobSteps => job \in Commands
    /\ closer # "none" => closing
    /\ closer \in {"stopping", "done"} => step \in {"new", "ended"}
    /\ state = "STOPPED" => running = {} /\ (closer = "done" \/ step = "dead")
    /\ step = "fatal" => state = "FAILED"

PositionInv ==
    /\ step \in BeforeLoad => Unborn
    /\ step = "starting" => ComingUp
    /\ step \in AtRestSteps => AtRest
    /\ step = "preflight" => Saved(job.version)
    /\ step = "activate" => HalfActivated
    /\ step \in ActivatedSteps => FullyActivated
    /\ step = "rollback" => GoingBack
    /\ step \in {"fatal", "ended"} => Over

StoreInvs == StoreInv /\ ReceiptInv /\ RetryInv

LifeInv == LifecycleTypeOK /\ StoreInvs /\ TasksInv /\ PositionInv

----------------------------------------------------------------------------
(* The store under the lifecycle. *)

(* Whatever the coordinator does, the store takes one of its own steps or none. *)
LEMMA LifecycleRefinesStore == LifeInv /\ [Next]_vars => [StoreNext]_store
<1> SUFFICES ASSUME LifeInv, [Next]_vars PROVE [StoreNext]_store
  OBVIOUS
<1>0. step \in JobSteps => job \in Commands
  BY DEF LifeInv, TasksInv
<1>1. ASSUME step \in JobSteps, Commit(job.version, token) \/ Fail(job.version, token) PROVE StoreNext
  <2>1. job.version \in Versions /\ token \in 1..lastToken
    <3>1. job.version \in Versions
      BY <1>0, <1>1, CommandType
    <3>2. token \in Tokens /\ snapshots[job.version].token = token
      BY <1>1 DEF Commit, Fail, Candidate
    <3>3. token <= lastToken /\ token \in Nat \ {0} /\ lastToken \in Nat
      <4>1. StoreTypeOK /\ TokensGiven
        BY DEF LifeInv, StoreInvs, StoreInv
      <4>2. lastToken \in Nat
        BY <4>1, Numbers DEF StoreTypeOK
      <4> QED
        BY <3>1, <3>2, <4>1, <4>2, Numbers DEF TokensGiven
    <3> QED
      BY <3>1, <3>3
  <2> QED
    BY <1>1, <2>1 DEF StoreNext
<1>2. CASE OpenStore \/ LoadActive \/ StartRunner \/ StartPublish \/ StartFails \/ Start
  BY <1>2 DEF OpenStore, LoadActive, StartRunner, StartPublish, StartFails, Start, Raises, StoreNext
<1>3. CASE Take \/ ApplyPrepared \/ ApplyReplayed \/ ApplyRejected \/ ApplyPrepareRaises \/ ApplyCorrupt
  BY <1>0, <1>3 DEF Take, ApplyPrepared, ApplyReplayed, ApplyRejected, ApplyPrepareRaises, ApplyCorrupt,
                    Raises, Prepare, StoreNext, JobSteps, AtRestSteps
<1>4. CASE FailCandidate \/ FailCandidateRaises \/ CommitCandidate \/ CommitRaises \/ RollbackFails
  BY <1>1, <1>4 DEF FailCandidate, FailCandidateRaises, CommitCandidate, CommitRaises, RollbackFails,
                    Raises, JobSteps, AtRestSteps, SwitchSteps, ActivatedSteps
<1>5. CASE Preflight \/ PreflightRaises \/ Activate \/ ActivateFails \/ ActivateEnds \/ ResolveCommit
           \/ ResolveRaises \/ ApplyPublish \/ Rollback \/ RollbackEnds
  BY <1>5 DEF Preflight, PreflightRaises, Activate, ActivateFails, ActivateEnds, ResolveCommit,
              ResolveRaises, ApplyPublish, Rollback, RollbackEnds
<1>6. CASE FatalShutdown \/ Close \/ Closing \/ Crash \/ Restart \/ UNCHANGED vars
           \/ \E cmd \in Commands : Submit(cmd)
  BY <1>6 DEF FatalShutdown, Close, Closing, CloseDrain, CloseJoin, CloseShutdown, Crash, Restart, vars, Submit
<1> QED
  BY <1>2, <1>3, <1>4, <1>5, <1>6 DEF Next, Coordinator, Starting, Applying

(* So the store keeps its invariants and its history. *)
LEMMA StoreKeeps ==
    ASSUME LifeInv, [Next]_vars
    PROVE  /\ StoreInvs' /\ StoreTypeOK'
           /\ \A v \in Versions : Saved(v) => Saved(v)' /\ snapshots'[v].content = snapshots[v].content
<1>1. [StoreNext]_store /\ StoreInvs
  BY LifecycleRefinesStore DEF LifeInv
<1>2. StoreInvs'
  BY <1>1, StepInv, ReceiptStep, RetryStep DEF StoreInvs
<1>3. \A v \in Versions : Saved(v) => Saved(v)' /\ snapshots'[v].content = snapshots[v].content
  <2>1. CASE StoreNext
    BY <1>1, <2>1, HistoryStep, SavedStays DEF StoreInvs, HistoryKept
  <2>2. CASE UNCHANGED store
    BY <2>2 DEF store, Saved
  <2> QED
    BY <1>1, <2>1, <2>2
<1> QED
  BY <1>2, <1>3 DEF StoreInvs, StoreInv

----------------------------------------------------------------------------
(* Types. *)

(* A configuration asks for runners, one for a device. *)
LEMMA WantedRunners ==
    ASSUME NEW content \in Contents
    PROVE  Wanted(content) \subseteq Runners /\ OneEach(Wanted(content))
<1>1. ASSUME NEW r \in Wanted(content)
      PROVE  r \in Runners /\ r[1] \in Devices /\ r = <<r[1], ExecKey[content[r[1]]]>>
  <2>1. PICK d \in Devices : /\ content[d] # Absent /\ ExecKey[content[d]] # NoRunner
                             /\ r = <<d, ExecKey[content[d]]>>
    BY <1>1 DEF Wanted
  <2>2. content[d] \in Defs
    BY <2>1 DEF Contents
  <2>3. ExecKey[content[d]] \in Keys
    BY <2>1, <2>2 DEF Keys
  <2> QED
    BY <2>1, <2>3 DEF Runners
<1>2. ASSUME NEW r \in Wanted(content), NEW s \in Wanted(content), r[1] = s[1] PROVE r = s
  BY <1>1, <1>2
<1> QED
  BY <1>1, <1>2 DEF OneEach

(* What the store holds is a configuration. *)
LEMMA ContentType ==
    ASSUME StoreTypeOK
    PROVE  /\ ActiveContent \in Contents /\ ActiveMessage \in Messages \cup {NoMessage}
           /\ \A v \in Versions \cup {0} : Content(v) \in Contents
<1>1. Nothing \in Contents
  BY DEF Nothing, Contents, Absent
<1> QED
  BY <1>1 DEF StoreTypeOK, ActiveContent, ActiveMessage, Content

SnapshotNames == [version : Nat, message : Messages \cup {NoMessage}]

Transitions == [snapshot : SnapshotNames, proposed : SUBSET Runners, stopped : SUBSET Runners,
                started : SUBSET Runners]

(* RuntimeTypeOK with its sets named. *)
LEMMA RuntimeTypes ==
    RuntimeTypeOK(Messages) <=>
        /\ running \subseteq Runners /\ runners \subseteq Runners /\ managed \subseteq Runners
        /\ published \in SnapshotNames /\ pending \in Transitions
        /\ boot \in [snapshot : SnapshotNames, generation : Nat]
BY DEF RuntimeTypeOK, SnapshotNames, Transitions

(* The empty transition is a transition. *)
LEMMA NoTransitionType ==
    /\ NoConfig \in SnapshotNames /\ NoTransition \in Transitions
    /\ NoTransition.proposed = {} /\ NoTransition.stopped = {} /\ NoTransition.started = {}
    /\ NoConfig.version = 0
BY DEF NoConfig, Snapshot, SnapshotNames, NoTransition, Transitions

(* Marking a runner in a transition. *)
LEMMA MarkTransition ==
    ASSUME NEW p \in Transitions, NEW S \in SUBSET Runners
    PROVE  /\ LET q == [p EXCEPT !.stopped = S]
              IN  /\ q \in Transitions /\ q.snapshot = p.snapshot /\ q.proposed = p.proposed
                  /\ q.stopped = S /\ q.started = p.started
           /\ LET q == [p EXCEPT !.started = S]
              IN  /\ q \in Transitions /\ q.snapshot = p.snapshot /\ q.proposed = p.proposed
                  /\ q.stopped = p.stopped /\ q.started = S
BY DEF Transitions

(* Every operation of the runtime keeps its types. *)
LEMMA RuntimeTypeStep ==
    ASSUME RuntimeTypeOK(Messages),
           \/ UNCHANGED runtime
           \/ \E v \in Nat, m \in Messages \cup {NoMessage}, content \in Contents :
                  RuntimePrepare(Snapshot(v, m), content)
           \/ \E ok \in BOOLEAN : \/ ActivateStop(ok) \/ ActivateStart(ok)
                                  \/ RollbackStop(ok) \/ RollbackRestart(ok)
           \/ RollbackDone \/ Publish \/ Crash
           \/ \E stuck \in SUBSET managed : Shutdown(stuck)
    PROVE  RuntimeTypeOK(Messages)'
<1>0. /\ running \subseteq Runners /\ runners \subseteq Runners /\ managed \subseteq Runners
      /\ published \in SnapshotNames /\ pending \in Transitions
      /\ boot \in [snapshot : SnapshotNames, generation : Nat]
  BY RuntimeTypes
<1> DEFINE Goal == /\ running' \subseteq Runners /\ runners' \subseteq Runners /\ managed' \subseteq Runners
                   /\ published' \in SnapshotNames /\ pending' \in Transitions
                   /\ boot' \in [snapshot : SnapshotNames, generation : Nat]
<1> SUFFICES Goal
  BY DEF RuntimeTypeOK, SnapshotNames, Transitions
<1>a. pending.stopped \subseteq Runners /\ pending.started \subseteq Runners
      /\ pending.proposed \subseteq Runners /\ pending.snapshot \in SnapshotNames
  BY <1>0 DEF Transitions
<1>1. CASE UNCHANGED runtime
  BY <1>0, <1>1 DEF runtime
<1>2. ASSUME NEW v \in Nat, NEW m \in Messages \cup {NoMessage}, NEW content \in Contents,
             RuntimePrepare(Snapshot(v, m), content)
      PROVE  Goal
  <2>1. Snapshot(v, m) \in SnapshotNames
    BY DEF Snapshot, SnapshotNames
  <2>2. [snapshot |-> Snapshot(v, m), proposed |-> Wanted(content), stopped |-> {}, started |-> {}] \in Transitions
    BY <2>1, WantedRunners DEF Transitions
  <2> QED
    <3>1. Wanted(content) \subseteq Runners
      BY WantedRunners
    <3> QED
      BY <1>0, <1>2, <2>2, <3>1 DEF RuntimePrepare
<1>3. ASSUME NEW ok \in BOOLEAN, ActivateStop(ok) \/ RollbackStop(ok) PROVE Goal
  <2>1. PICK r \in Runners, S \in SUBSET Runners :
            /\ pending' \in {[pending EXCEPT !.stopped = S], [pending EXCEPT !.started = S]}
            /\ running' \in {running, running \ {r}}
            /\ UNCHANGED <<runners, managed, published, boot>>
    <3>1. CASE ActivateStop(ok)
      <4>1. PICK r \in ToStop : /\ pending' = [pending EXCEPT !.stopped = @ \cup {r}]
                                /\ running' \in {running, running \ {r}}
                                /\ UNCHANGED <<runners, managed, published, boot>>
        BY <3>1 DEF ActivateStop, Stopped, StopFailed
      <4>2. r \in Runners /\ pending.stopped \cup {r} \in SUBSET Runners
        BY <1>0, <1>a DEF ToStop
      <4> QED
        BY <4>1, <4>2
    <3>2. CASE RollbackStop(ok)
      <4>1. PICK r \in pending.started : /\ pending' = [pending EXCEPT !.started = @ \ {r}]
                                         /\ running' \in {running, running \ {r}}
                                         /\ UNCHANGED <<runners, managed, published, boot>>
        BY <3>2 DEF RollbackStop, Stopped, StopFailed
      <4>2. r \in Runners /\ pending.started \ {r} \in SUBSET Runners
        BY <1>a
      <4> QED
        BY <4>1, <4>2
    <3> QED
      BY <1>3, <3>1, <3>2
  <2>2. [pending EXCEPT !.stopped = S] \in Transitions /\ [pending EXCEPT !.started = S] \in Transitions
    BY <1>0, MarkTransition
  <2>3. pending' \in Transitions
    BY <2>1, <2>2
  <2> QED
    BY <1>0, <2>1, <2>3
<1>4. ASSUME NEW ok \in BOOLEAN, ActivateStart(ok) \/ RollbackRestart(ok) PROVE Goal
  <2>1. PICK r \in Runners, S \in SUBSET Runners :
            /\ pending' \in {[pending EXCEPT !.stopped = S], [pending EXCEPT !.started = S]}
            /\ running' \in {running, running \ {r}, running \cup {r}}
            /\ UNCHANGED <<runners, managed, published, boot>>
    <3>1. CASE ActivateStart(ok)
      <4>1. PICK r \in ToStart : /\ pending' = [pending EXCEPT !.started = @ \cup {r}]
                                 /\ running' \in {running, running \cup {r}}
                                 /\ UNCHANGED <<runners, managed, published, boot>>
        BY <3>1 DEF ActivateStart, Started, StartFailed
      <4>2. r \in Runners /\ pending.started \cup {r} \in SUBSET Runners
        BY <1>a DEF ToStart
      <4> QED
        BY <4>1, <4>2
    <3>2. CASE RollbackRestart(ok)
      <4>1. PICK r \in pending.stopped : /\ pending' = [pending EXCEPT !.stopped = @ \ {r}]
                                         /\ running' \in {running, running \ {r}, running \cup {r}}
                                         /\ UNCHANGED <<runners, managed, published, boot>>
        BY <3>2 DEF RollbackRestart, Started, RestartFailed
      <4>2. r \in Runners /\ pending.stopped \ {r} \in SUBSET Runners
        BY <1>a
      <4> QED
        BY <4>1, <4>2
    <3> QED
      BY <1>4, <3>1, <3>2
  <2>2. [pending EXCEPT !.stopped = S] \in Transitions /\ [pending EXCEPT !.started = S] \in Transitions
    BY <1>0, MarkTransition
  <2>3. pending' \in Transitions
    BY <2>1, <2>2
  <2> QED
    BY <1>0, <2>1, <2>3
<1>5. CASE RollbackDone \/ Crash \/ \E stuck \in SUBSET managed : Shutdown(stuck)
  <2>1. CASE RollbackDone
    BY <1>0, <2>1, NoTransitionType DEF RollbackDone
  <2>2. CASE Crash
    <3>1. [snapshot |-> NoConfig, generation |-> 0] \in [snapshot : SnapshotNames, generation : Nat]
      BY NoTransitionType
    <3> QED
      BY <2>2, <3>1, NoTransitionType DEF Crash
  <2>3. ASSUME NEW stuck \in SUBSET managed, Shutdown(stuck) PROVE Goal
    BY <1>0, <2>3, NoTransitionType DEF Shutdown
  <2> QED
    BY <1>5, <2>1, <2>2, <2>3
<1>6. CASE Publish
  <2>1. boot.generation + 1 \in Nat
    BY <1>0
  <2>2. [snapshot |-> pending.snapshot, generation |-> boot.generation + 1]
            \in [snapshot : SnapshotNames, generation : Nat]
    BY <1>a, <2>1
  <2>3. boot' \in [snapshot : SnapshotNames, generation : Nat]
    BY <1>0, <1>6, <2>2 DEF Publish
  <2> QED
    BY <1>0, <1>a, <1>6, <2>3, NoTransitionType DEF Publish
<1> HIDE DEF Goal
<1> QED
  BY <1>1, <1>2, <1>3, <1>4, <1>5, <1>6

(* The lifecycle keeps the types. *)
LEMMA LifeTypeStep ==
    ASSUME LifeInv, [Next]_vars PROVE LifecycleTypeOK'
<1>0. /\ LifecycleTypeOK /\ StoreTypeOK /\ RuntimeTypeOK(Messages) /\ StoreTypeOK'
      /\ (step \in JobSteps => job \in Commands)
  BY StoreKeeps DEF LifeInv, LifecycleTypeOK, TasksInv
<1>a. Versions \subseteq Nat \ {0} /\ active \in Versions \cup {0} /\ Versions \cup {0} \subseteq Nat
  BY <1>0, Numbers DEF StoreTypeOK
<1>1. RuntimeTypeOK(Messages)'
  <2>1. CASE UNCHANGED runtime
    BY <1>0, <2>1, RuntimeTypeStep
  <2>2. CASE LoadActive \/ Preflight
    <3>1. CASE LoadActive /\ ~UNCHANGED runtime
      <4>1. RuntimePrepare(Snapshot(active, ActiveMessage), ActiveContent)
        BY <3>1 DEF LoadActive
      <4> QED
        BY <1>0, <1>a, <4>1, ContentType, RuntimeTypeStep
    <3>2. CASE Preflight
      <4>1. job \in Commands
        BY <1>0, <3>2 DEF Preflight, JobSteps, AtRestSteps
      <4>2. job.version \in Nat /\ job.message \in Messages /\ snapshots[job.version].content \in Contents
        BY <1>0, <1>a, <4>1, CommandType DEF StoreTypeOK
      <4> QED
        BY <1>0, <3>2, <4>2, RuntimeTypeStep DEF Preflight
    <3> QED
      BY <2>1, <2>2, <3>1, <3>2
  <2>3. CASE StartRunner \/ StartFails \/ Activate \/ ActivateFails \/ Rollback \/ RollbackFails
    BY <1>0, <2>3, RuntimeTypeStep
       DEF StartRunner, StartFails, Activate, ActivateFails, Rollback, RollbackFails, RuntimePrepareRaises
  <2>4. CASE RollbackEnds \/ StartPublish \/ ApplyPublish \/ Crash \/ FatalShutdown \/ CloseShutdown
    BY <1>0, <2>4, RuntimeTypeStep
       DEF RollbackEnds, StartPublish, ApplyPublish, FatalShutdown, CloseShutdown
  <2>5. \/ UNCHANGED runtime \/ LoadActive \/ Preflight
        \/ StartRunner \/ StartFails \/ Activate \/ ActivateFails \/ Rollback \/ RollbackFails
        \/ RollbackEnds \/ StartPublish \/ ApplyPublish \/ Crash \/ FatalShutdown \/ CloseShutdown
    BY DEF Next, Coordinator, Starting, Applying, Closing, vars, Start, OpenStore, Take, ApplyPrepared,
           ApplyReplayed, ApplyRejected, ApplyPrepareRaises, ApplyCorrupt, PreflightRaises,
           RuntimePrepareRaises, FailCandidate, FailCandidateRaises, ActivateEnds, CommitCandidate,
           CommitRaises, ResolveCommit, ResolveRaises, Submit, Close, CloseDrain, CloseJoin, Restart
  <2> QED
    BY <2>1, <2>2, <2>3, <2>4, <2>5
<1>2. state' \in {"NEW", "STARTING", "WAITING_CONFIG", "RUNNING", "APPLYING", "STOPPING", "STOPPED", "FAILED"}
  BY <1>0
     DEF LifecycleTypeOK, Next, Coordinator, Starting, Applying, Closing, vars, life, Start,
         OpenStore, LoadActive, StartRunner, StartPublish, StartFails, Take, ApplyPrepared,
         ApplyReplayed, ApplyRejected, ApplyPrepareRaises, ApplyCorrupt, Preflight, PreflightRaises,
         FailCandidate, FailCandidateRaises, Activate, ActivateFails, ActivateEnds, CommitCandidate,
         CommitRaises, ResolveCommit, ResolveRaises, ApplyPublish, Rollback, RollbackEnds,
         RollbackFails, FatalShutdown, Submit, Close, CloseDrain, CloseJoin, CloseShutdown, Crash,
         Restart, Steady, Fatal
<1>5. closing' \in BOOLEAN /\ closer' \in {"none", "waiting", "joining", "stopping", "done"}
  BY <1>0
     DEF LifecycleTypeOK, Next, Coordinator, Starting, Applying, Closing, vars, life, Start,
         OpenStore, LoadActive, StartRunner, StartPublish, StartFails, Take, ApplyPrepared,
         ApplyReplayed, ApplyRejected, ApplyPrepareRaises, ApplyCorrupt, Preflight, PreflightRaises,
         FailCandidate, FailCandidateRaises, Activate, ActivateFails, ActivateEnds, CommitCandidate,
         CommitRaises, ResolveCommit, ResolveRaises, ApplyPublish, Rollback, RollbackEnds,
         RollbackFails, FatalShutdown, Submit, Close, CloseDrain, CloseJoin, CloseShutdown, Crash,
         Restart
<1>6. step' \in Steps
  BY <1>0
     DEF LifecycleTypeOK, Steps, Next, Coordinator, Starting, Applying, Closing, vars, life, Start,
         OpenStore, LoadActive, StartRunner, StartPublish, StartFails, Take, ApplyPrepared,
         ApplyReplayed, ApplyRejected, ApplyPrepareRaises, ApplyCorrupt, Preflight, PreflightRaises,
         FailCandidate, FailCandidateRaises, Activate, ActivateFails, ActivateEnds, CommitCandidate,
         CommitRaises, ResolveCommit, ResolveRaises, ApplyPublish, Rollback, RollbackEnds,
         RollbackFails, FatalShutdown, Submit, Close, CloseDrain, CloseJoin, CloseShutdown, Crash,
         Restart, Answered, Fatal
<1>3. durable' \in Versions \cup {0, Unknown} /\ cfg' \in Versions \cup {0}
      /\ token' \in Tokens \cup {NoToken}
  <2>1. durable' \in {durable, active, Unknown, 0} /\ cfg' \in {cfg, active, 0}
    BY DEF Next, Coordinator, Starting, Applying, Closing, vars, life, Start,
           OpenStore, LoadActive, StartRunner, StartPublish, StartFails, Take, ApplyPrepared,
           ApplyReplayed, ApplyRejected, ApplyPrepareRaises, ApplyCorrupt, Preflight, PreflightRaises,
           FailCandidate, FailCandidateRaises, Activate, ActivateFails, ActivateEnds, CommitCandidate,
           CommitRaises, ResolveCommit, ResolveRaises, ApplyPublish, Rollback, RollbackEnds,
           RollbackFails, FatalShutdown, Submit, Close, CloseDrain, CloseJoin, CloseShutdown, Crash,
           Restart
  <2>2. ASSUME ApplyPrepared PROVE token' \in Tokens \cup {NoToken}
    BY <2>2 DEF ApplyPrepared, PrepareCandidate
  <2>3. ASSUME ~ApplyPrepared PROVE token' \in Tokens \cup {NoToken}
    <3>1. token' \in {token, NoToken}
      BY <2>3
         DEF Next, Coordinator, Starting, Applying, Closing, vars, life, Start,
             OpenStore, LoadActive, StartRunner, StartPublish, StartFails, Take,
             ApplyReplayed, ApplyRejected, ApplyPrepareRaises, ApplyCorrupt, Preflight, PreflightRaises,
             FailCandidate, FailCandidateRaises, Activate, ActivateFails, ActivateEnds, CommitCandidate,
             CommitRaises, ResolveCommit, ResolveRaises, ApplyPublish, Rollback, RollbackEnds,
             RollbackFails, FatalShutdown, Submit, Close, CloseDrain, CloseJoin, CloseShutdown, Crash,
             Restart, Answered
    <3> QED
      BY <1>0, <3>1 DEF LifecycleTypeOK
  <2>4. token' \in Tokens \cup {NoToken}
    BY <2>2, <2>3
  <2> QED
    BY <1>0, <1>a, <2>1, <2>4 DEF LifecycleTypeOK
<1>4. queue' \in Seq(Commands \cup {Stop}) /\ job' \in Commands \cup {NoJob}
  <2>1. CASE Take
    BY <1>0, <2>1 DEF LifecycleTypeOK, Take
  <2>2. ASSUME NEW cmd \in Commands, Submit(cmd) PROVE queue' \in Seq(Commands \cup {Stop}) /\ job' = job
    BY <1>0, <2>2 DEF LifecycleTypeOK, Submit
  <2>3. CASE ~Take /\ ~\E cmd \in Commands : Submit(cmd)
    <3>1. queue' \in {queue, <<>>, <<Stop>>} /\ job' \in {job, NoJob}
      BY <2>3
         DEF Next, Coordinator, Starting, Applying, Closing, vars, life, Start,
             OpenStore, LoadActive, StartRunner, StartPublish, StartFails, ApplyPrepared,
             ApplyReplayed, ApplyRejected, ApplyPrepareRaises, ApplyCorrupt, Preflight, PreflightRaises,
             FailCandidate, FailCandidateRaises, Activate, ActivateFails, ActivateEnds, CommitCandidate,
             CommitRaises, ResolveCommit, ResolveRaises, ApplyPublish, Rollback, RollbackEnds,
             RollbackFails, FatalShutdown, Close, CloseDrain, CloseJoin, CloseShutdown, Crash,
             Restart, Answered
    <3>2. <<>> \in Seq(Commands \cup {Stop}) /\ <<Stop>> \in Seq(Commands \cup {Stop})
      OBVIOUS
    <3> QED
      BY <1>0, <3>1, <3>2 DEF LifecycleTypeOK
  <2> QED
    BY <1>0, <2>1, <2>2, <2>3 DEF LifecycleTypeOK
<1> QED
  BY <1>0, <1>1, <1>2, <1>3, <1>4, <1>5, <1>6 DEF LifecycleTypeOK

----------------------------------------------------------------------------
(* The two tasks. *)

(* Neither task takes the other for running when it has ended. *)
LEMMA TasksStep ==
    ASSUME LifeInv, [Next]_vars PROVE TasksInv'
<1>0. LifecycleTypeOK /\ TasksInv
  BY DEF LifeInv
<1>1. step' \in JobSteps => job' \in Commands
  <2>1. CASE Take
    BY <1>0, <2>1 DEF LifecycleTypeOK, Take, JobSteps, AtRestSteps, SwitchSteps, ActivatedSteps
  <2>2. CASE ~Take
    BY <1>0, <2>2
       DEF TasksInv, JobSteps, AtRestSteps, SwitchSteps, ActivatedSteps,
           Next, Coordinator, Starting, Applying, Closing, vars, life, Start,
           OpenStore, LoadActive, StartRunner, StartPublish, StartFails, ApplyPrepared,
           ApplyReplayed, ApplyRejected, ApplyPrepareRaises, ApplyCorrupt, Preflight, PreflightRaises,
           FailCandidate, FailCandidateRaises, Activate, ActivateFails, ActivateEnds, CommitCandidate,
           CommitRaises, ResolveCommit, ResolveRaises, ApplyPublish, Rollback, RollbackEnds,
           RollbackFails, FatalShutdown, Submit, Close, CloseDrain, CloseJoin, CloseShutdown, Crash,
           Restart, Answered, Fatal
  <2> QED
    BY <2>1, <2>2
<1>2. /\ closer' # "none" => closing'
      /\ closer' \in {"stopping", "done"} => step' \in {"new", "ended"}
      /\ step' = "fatal" => state' = "FAILED"
  BY <1>0
     DEF TasksInv,
         Next, Coordinator, Starting, Applying, Closing, vars, life, Start,
         OpenStore, LoadActive, StartRunner, StartPublish, StartFails, Take, ApplyPrepared,
         ApplyReplayed, ApplyRejected, ApplyPrepareRaises, ApplyCorrupt, Preflight, PreflightRaises,
         FailCandidate, FailCandidateRaises, Activate, ActivateFails, ActivateEnds, CommitCandidate,
         CommitRaises, ResolveCommit, ResolveRaises, ApplyPublish, Rollback, RollbackEnds,
         RollbackFails, FatalShutdown, Submit, Close, CloseDrain, CloseJoin, CloseShutdown, Crash,
         Restart, Answered, Fatal, Steady
<1>3. state' = "STOPPED" => closer' = "done" \/ step' = "dead"
  BY <1>0
     DEF TasksInv,
         Next, Coordinator, Starting, Applying, Closing, vars, life, Start,
         OpenStore, LoadActive, StartRunner, StartPublish, StartFails, Take, ApplyPrepared,
         ApplyReplayed, ApplyRejected, ApplyPrepareRaises, ApplyCorrupt, Preflight, PreflightRaises,
         FailCandidate, FailCandidateRaises, Activate, ActivateFails, ActivateEnds, CommitCandidate,
         CommitRaises, ResolveCommit, ResolveRaises, ApplyPublish, Rollback, RollbackEnds,
         RollbackFails, FatalShutdown, Submit, Close, CloseDrain, CloseJoin, CloseShutdown, Crash,
         Restart, Answered, Fatal, Steady
<1>4. state' = "STOPPED" => running' = {}
  <2>1. CASE CloseShutdown
    <3>1. running \subseteq managed
      BY <1>0, <2>1 DEF LifeInv, TasksInv, PositionInv, CloseShutdown, Unborn, Over, BeforeLoad
    <3> QED
      BY <2>1, <3>1 DEF CloseShutdown, Shutdown
  <2>2. CASE Crash
    BY <2>2 DEF Crash
  <2>3. CASE ~CloseShutdown /\ ~Crash
    <3>1. state' = "STOPPED" => /\ state = "STOPPED" /\ UNCHANGED running
      BY <1>0, <2>3
         DEF TasksInv,
             Next, Coordinator, Starting, Applying, Closing, vars, life, runtime, Start,
             OpenStore, LoadActive, StartRunner, StartPublish, StartFails, Take, ApplyPrepared,
             ApplyReplayed, ApplyRejected, ApplyPrepareRaises, ApplyCorrupt, Preflight, PreflightRaises,
             FailCandidate, FailCandidateRaises, Activate, ActivateFails, ActivateEnds, CommitCandidate,
             CommitRaises, ResolveCommit, ResolveRaises, ApplyPublish, Rollback, RollbackEnds,
             RollbackFails, FatalShutdown, Submit, Close, CloseDrain, CloseJoin,
             Restart, Answered, Fatal, Steady
    <3> QED
      BY <1>0, <3>1 DEF TasksInv
  <2> QED
    BY <2>1, <2>2, <2>3
<1> QED
  BY <1>1, <1>2, <1>3, <1>4 DEF TasksInv

----------------------------------------------------------------------------
(* The positions. *)

(* A configuration that is saved says the same after every step. *)
LEMMA ContentKept ==
    ASSUME LifeInv, [Next]_vars
    PROVE  /\ \A v \in Versions \cup {0} : (v # 0 => Saved(v)) => Content(v)' = Content(v)
           /\ active # 0 => Saved(active)
           /\ active' = active => ActiveContent' = ActiveContent
           /\ active \in Versions \cup {0} /\ ActiveContent = Content(active)
<1>1. active \in Versions \cup {0} /\ (active # 0 => Saved(active))
  BY DEF LifeInv, StoreInvs, StoreInv, StoreTypeOK, PointersAreCommitted, Saved
<1>2. \A v \in Versions \cup {0} : (v # 0 => Saved(v)) => Content(v)' = Content(v)
  BY StoreKeeps DEF Content
<1>3. active' = active => ActiveContent' = ActiveContent
  BY <1>1, StoreKeeps DEF ActiveContent
<1> QED
  BY <1>1, <1>2, <1>3 DEF ActiveContent, Content

(* The runners of a configuration are typed and one for a device. *)
LEMMA ActiveWanted ==
    ASSUME LifeInv
    PROVE  /\ OneEach(Wanted(ActiveContent))
           /\ \A v \in Versions \cup {0} : OneEach(Wanted(Content(v)))
           /\ Wanted(Nothing) = {}
<1>1. StoreTypeOK
  BY DEF LifeInv, StoreInvs, StoreInv
<1>2. Wanted(Nothing) = {}
  BY DEF Wanted, Nothing
<1> QED
  BY <1>1, <1>2, ContentType, WantedRunners

(* A step that leaves the agreement alone. *)
LEMMA RestFrame ==
    ASSUME LifeInv, [Next]_vars, AtRest, active' = active, UNCHANGED <<durable, cfg, runtime>>
    PROVE  AtRest'
<1>1. ActiveContent' = ActiveContent
  BY ContentKept
<1> QED
  BY <1>1 DEF AtRest, runtime, Wanted

(* An agent that agrees with its store may give up as it is. *)
LEMMA RestIsOver ==
    ASSUME LifeInv, AtRest PROVE Over
BY ActiveWanted DEF AtRest, Over

(* Of the running runners no two drive one device, at any point of a switch. *)
LEMMA SwitchIsOwned ==
    ASSUME LifeInv, Switch, job \in Commands,
           running \subseteq runners \cup pending.started,
           pending.started # {} => running \cap (runners \ pending.proposed) = {}
    PROVE  running \subseteq managed /\ OneEach(running)
<1>1. OneEach(runners) /\ OneEach(pending.proposed)
  <2>1. cfg \in Versions \cup {0} /\ job.version \in Versions
    BY CommandType DEF LifeInv, LifecycleTypeOK
  <2> QED
    BY <2>1, ActiveWanted DEF Switch
<1>2. CASE pending.started = {}
  BY <1>1, <1>2 DEF OneEach, Switch
<1>3. CASE pending.started # {}
  <2>1. running \subseteq pending.proposed
    BY <1>3 DEF Switch
  <2> QED
    BY <1>1, <2>1 DEF OneEach, Switch
<1> QED
  BY <1>2, <1>3

(* A step of the runners inside a switch. *)
LEMMA SwitchFrame ==
    ASSUME LifeInv, [Next]_vars, Switch, job \in Commands,
           UNCHANGED <<durable, cfg, job, runners, managed, published>>,
           pending'.snapshot = pending.snapshot, pending'.proposed = pending.proposed,
           pending'.stopped \subseteq runners \ pending.proposed,
           pending'.started \subseteq pending.proposed \ runners
    PROVE  Switch'
<1>0. cfg \in Versions \cup {0} /\ job.version \in Versions /\ 0 \notin Versions
  BY CommandType, Numbers DEF LifeInv, LifecycleTypeOK
<1>1. /\ Content(cfg)' = Content(cfg) /\ Content(job.version)' = Content(job.version)
      /\ cfg # 0 => Saved(cfg)'
      /\ Saved(job.version)'
  BY <1>0, ContentKept, StoreKeeps DEF Switch, Content
<1> QED
  BY <1>1 DEF Switch, Wanted

(* What the outside does, and what does not move anything, keeps every position. *)
LEMMA PositionFrame ==
    ASSUME PositionInv, UNCHANGED <<store, runtime, durable, cfg, job, step>>,
           state = "FAILED" => state' = "FAILED",
           state \notin {"WAITING_CONFIG", "RUNNING", "APPLYING"} =>
               state' \notin {"WAITING_CONFIG", "RUNNING", "APPLYING"}
    PROVE  PositionInv'
<1>1. /\ Unborn => Unborn'
      /\ ComingUp => ComingUp'
      /\ AtRest => AtRest'
      /\ Over => Over'
  BY DEF Unborn, ComingUp, AtRest, Over, store, runtime, ActiveContent, Wanted, OneEach
<1>2. Switch => Switch'
  BY DEF Switch, store, runtime, Content, Wanted, Saved
<1>3. /\ HalfActivated => HalfActivated'
      /\ FullyActivated => FullyActivated'
      /\ GoingBack => GoingBack'
      /\ Saved(job.version) => Saved(job.version)'
  BY <1>2 DEF HalfActivated, FullyActivated, GoingBack, store, runtime, Saved
<1> QED
  BY <1>1, <1>3 DEF PositionInv

(* From the start of a process to the first configuration, and its end. *)
LEMMA StartPosition ==
    ASSUME LifeInv, [Next]_vars,
           \/ Start \/ OpenStore \/ LoadActive \/ StartRunner \/ StartPublish \/ StartFails
           \/ Crash \/ Restart
    PROVE  PositionInv'
<1> USE DEF BeforeLoad, AtRestSteps, ActivatedSteps
<1>0. PositionInv /\ pending \in Transitions
  BY RuntimeTypes DEF LifeInv, LifecycleTypeOK
<1>1. CASE Start \/ OpenStore \/ Restart
  <2>1. step \in BeforeLoad /\ step' \in BeforeLoad
    BY <1>1 DEF Start, OpenStore, Restart
  <2>2. Unborn'
    BY <1>0, <1>1, <2>1 DEF PositionInv, Unborn, Start, OpenStore, Restart, runtime
  <2> QED
    BY <2>1, <2>2 DEF PositionInv
<1>2. CASE Crash
  <2>1. Unborn' /\ step' = "dead"
    BY <1>2 DEF Crash, Unborn
  <2> QED
    BY <2>1 DEF PositionInv
<1>3. CASE LoadActive
  <2>1. Unborn /\ active' = active /\ durable' = active /\ cfg' = cfg
    BY <1>0, <1>3 DEF PositionInv, LoadActive, store
  <2>2. ActiveContent' = ActiveContent
    BY <2>1, ContentKept
  <2>3. CASE active = 0
    <3>1. AtRest' /\ step' = "idle"
      BY <1>3, <2>1, <2>2, <2>3, ActiveWanted, NoTransitionType
         DEF LoadActive, Unborn, AtRest, ActiveContent, runtime, Wanted
    <3> QED
      BY <3>1 DEF PositionInv
  <2>4. CASE active # 0
    <3> DEFINE p == [snapshot |-> Snapshot(active, ActiveMessage), proposed |-> Wanted(ActiveContent),
                     stopped |-> {}, started |-> {}]
    <3>1. /\ step' = "starting" /\ pending' = p /\ managed' = managed \cup Wanted(ActiveContent)
          /\ UNCHANGED <<running, runners>>
      BY <1>3, <2>4 DEF LoadActive, RuntimePrepare
    <3>2. /\ p.snapshot.version = active /\ p.proposed = Wanted(ActiveContent)
          /\ p.stopped = {} /\ p.started = {}
      BY DEF Snapshot
    <3> HIDE DEF p
    <3>3. ComingUp'
      BY <2>1, <2>2, <2>4, <3>1, <3>2 DEF ComingUp, Unborn, Wanted
    <3> QED
      BY <3>1, <3>3 DEF PositionInv
  <2> QED
    BY <2>3, <2>4
<1>4. ASSUME NEW ok \in BOOLEAN, step = "starting", ActivateStart(ok), active' = active, durable' = durable
      PROVE  /\ ok => ComingUp'
             /\ running' \subseteq managed' /\ OneEach(running)' /\ durable' = active'
  <2>1. ComingUp
    BY <1>0, <1>4 DEF PositionInv
  <2>2. PICK r \in ToStart : /\ pending' = [pending EXCEPT !.started = @ \cup {r}]
                             /\ IF ok THEN running' = running \cup {r}
                                      ELSE running' \in {running, running \cup {r}}
                             /\ UNCHANGED <<runners, managed, published, boot>>
    BY <1>4 DEF ActivateStart, Started, StartFailed
  <2>3. r \in pending.proposed
    BY <2>2 DEF ToStart
  <2>4. /\ pending'.snapshot = pending.snapshot /\ pending'.proposed = pending.proposed
        /\ pending'.stopped = pending.stopped /\ pending'.started = pending.started \cup {r}
    BY <1>0, <2>2, <2>3, MarkTransition DEF Transitions
  <2>5. ActiveContent' = ActiveContent
    BY <1>4, ContentKept
  <2>6. ok => ComingUp'
    BY <1>4, <2>1, <2>2, <2>3, <2>4, <2>5 DEF ComingUp, Wanted
  <2>7. running' \subseteq pending.proposed /\ managed' = pending.proposed
    BY <2>1, <2>2, <2>3 DEF ComingUp
  <2>8. OneEach(pending.proposed)
    BY <2>1, ActiveWanted DEF ComingUp
  <2> QED
    BY <1>4, <2>1, <2>6, <2>7, <2>8 DEF OneEach, ComingUp
<1>5. CASE StartRunner
  <2>1. step' = "starting" /\ ComingUp'
    BY <1>4, <1>5 DEF StartRunner, life, store
  <2> QED
    BY <2>1 DEF PositionInv
<1>6. CASE StartPublish
  <2>1. ComingUp /\ active' = active /\ UNCHANGED durable
    BY <1>0, <1>6 DEF PositionInv, StartPublish, store
  <2>2. ActiveContent' = ActiveContent
    BY <2>1, ContentKept
  <2>3. pending.started = pending.proposed
    BY <1>6, <2>1 DEF StartPublish, Publish, Activated, ToStart, ComingUp
  <2>4. AtRest' /\ step' = "idle"
    BY <1>6, <2>1, <2>2, <2>3 DEF StartPublish, Publish, AtRest, ComingUp, Wanted
  <2> QED
    BY <2>4 DEF PositionInv
<1>7. CASE StartFails
  <2>1. state' = "FAILED" /\ step' = "fatal" /\ cfg' = cfg /\ active' = active
    BY <1>7 DEF StartFails, Fatal, Raises, Recover, store
  <2>2. CASE step \in {"open", "load"}
    <3>1. Unborn
      BY <1>0, <2>2 DEF PositionInv
    <3>2. UNCHANGED runtime /\ durable' \in {durable, active}
      BY <1>7, <2>2 DEF StartFails, RuntimePrepareRaises
    <3>3. Over'
      BY <2>1, <3>1, <3>2 DEF Unborn, Over, OneEach, runtime
    <3> QED
      BY <2>1, <3>3 DEF PositionInv
  <2>3. CASE step \notin {"open", "load"}
    <3>1. step = "starting" /\ ActivateStart(FALSE) /\ durable' = durable
      BY <1>7, <2>3 DEF StartFails
    <3>2. Over'
      BY <1>4, <2>1, <3>1 DEF Over
    <3> QED
      BY <2>1, <3>2 DEF PositionInv
  <2> QED
    BY <2>2, <2>3
<1> QED
  BY <1>1, <1>2, <1>3, <1>5, <1>6, <1>7

(* Between two commands, and as far as a command leaves the runners alone. *)
LEMMA CommandPosition ==
    ASSUME LifeInv, [Next]_vars,
           \/ Take \/ ApplyPrepared \/ ApplyReplayed \/ ApplyRejected \/ ApplyPrepareRaises
           \/ ApplyCorrupt \/ Preflight \/ PreflightRaises \/ FailCandidate \/ FailCandidateRaises
    PROVE  PositionInv'
<1> USE DEF BeforeLoad, AtRestSteps, ActivatedSteps
<1>0. step \in AtRestSteps /\ AtRest /\ PositionInv
  BY DEF LifeInv, PositionInv, Take, ApplyPrepared, ApplyReplayed, ApplyRejected, ApplyPrepareRaises,
         ApplyCorrupt, Preflight, PreflightRaises, FailCandidate, FailCandidateRaises
<1>1. active' = active /\ UNCHANGED <<durable, cfg>>
  BY DEF Take, ApplyPrepared, ApplyReplayed, ApplyRejected, ApplyPrepareRaises, Prepare, ApplyCorrupt,
         Preflight, PreflightRaises, FailCandidate, FailCandidateRaises, Raises, store,
         PrepareCandidate, PrepareApplied, Fail
<1>2. CASE Preflight
  <2> DEFINE p == [snapshot |-> Snapshot(job.version, job.message),
                   proposed |-> Wanted(snapshots[job.version].content), stopped |-> {}, started |-> {}]
  <2>1. job \in Commands /\ Saved(job.version)
    BY <1>0, <1>2 DEF LifeInv, TasksInv, PositionInv, Preflight, JobSteps
  <2>2. job.version \in Versions /\ job.version # 0
    BY <2>1, CommandType
  <2>3. /\ pending' = p /\ managed' = managed \cup Wanted(snapshots[job.version].content)
        /\ UNCHANGED <<running, runners, published, store, job>> /\ step' = "activate"
    BY <1>2 DEF Preflight, RuntimePrepare
  <2>4. /\ p.snapshot.version = job.version /\ p.proposed = Wanted(Content(job.version))
        /\ p.stopped = {} /\ p.started = {}
    BY <2>2 DEF Snapshot, Content
  <2>5. active \in Versions \cup {0} /\ (active # 0 => Saved(active)) /\ ActiveContent = Content(active)
    BY ContentKept
  <2> HIDE DEF p
  <2>6. Switch'
    BY <1>0, <1>1, <2>1, <2>2, <2>3, <2>4, <2>5 DEF Switch, AtRest, Content, Wanted, Saved, store
  <2>7. HalfActivated'
    BY <1>0, <1>1, <2>3, <2>4, <2>6 DEF HalfActivated, AtRest
  <2> QED
    BY <2>3, <2>7 DEF PositionInv
<1>3. CASE ~Preflight
  <2>1. UNCHANGED runtime
    BY <1>3 DEF Take, ApplyPrepared, ApplyReplayed, ApplyRejected, ApplyPrepareRaises, ApplyCorrupt,
                PreflightRaises, RuntimePrepareRaises, FailCandidate, FailCandidateRaises
  <2>2. AtRest'
    BY <1>0, <1>1, <2>1, RestFrame
  <2>3. Over => Over'
    BY <1>0, <1>1, <2>1 DEF Over, AtRest, OneEach, runtime
  <2>4. Over'
    BY <1>0, <2>3, RestIsOver
  <2>5. step' \in AtRestSteps \cup {"fatal", "ended"}
    BY <1>3 DEF Take, ApplyPrepared, ApplyReplayed, ApplyRejected, ApplyPrepareRaises, ApplyCorrupt,
                PreflightRaises, FailCandidate, FailCandidateRaises, Answered, Fatal
  <2>6. step' = "preflight" => Saved(job.version)'
    <3> SUFFICES ASSUME step' = "preflight" PROVE Saved(job.version)'
      OBVIOUS
    <3>1. ApplyPrepared
      BY <1>0, <1>3 DEF Take, ApplyPrepared, ApplyReplayed, ApplyRejected, ApplyPrepareRaises, ApplyCorrupt,
                        PreflightRaises, FailCandidate, FailCandidateRaises, Answered, Fatal
    <3>2. job \in Commands /\ job' = job
      BY <3>1 DEF LifeInv, TasksInv, ApplyPrepared, JobSteps
    <3>3. snapshots'[job.version].state = "PREPARED"
      BY <3>1, <3>2, CommandType DEF ApplyPrepared, PrepareCandidate, LifeInv, StoreInvs, StoreInv, StoreTypeOK
    <3> QED
      BY <3>2, <3>3 DEF Saved
  <2> QED
    BY <2>2, <2>4, <2>5, <2>6 DEF PositionInv
<1> QED
  BY <1>2, <1>3

(* activate: stops first, then starts. *)
LEMMA ActivatePosition ==
    ASSUME LifeInv, [Next]_vars, Activate \/ ActivateFails \/ ActivateEnds
    PROVE  PositionInv'
<1> USE DEF BeforeLoad, AtRestSteps, ActivatedSteps
<1>0. /\ step = "activate" /\ HalfActivated /\ Switch /\ job \in Commands /\ pending \in Transitions
      /\ active' = active /\ UNCHANGED <<durable, cfg, job>>
  BY RuntimeTypes
     DEF LifeInv, LifecycleTypeOK, TasksInv, PositionInv, HalfActivated, Activate, ActivateFails,
         ActivateEnds, JobSteps, SwitchSteps, life, store
<1>1. CASE ActivateEnds
  <2>1. UNCHANGED runtime /\ step' = "commit" /\ Activated
    BY <1>1 DEF ActivateEnds
  <2>2. Switch'
    <3>1. UNCHANGED <<runners, managed, published, pending>>
      BY <2>1 DEF runtime
    <3> QED
      BY <1>0, <3>1, SwitchFrame DEF Switch
  <2>3. pending.stopped = runners \ pending.proposed /\ pending.started = pending.proposed \ runners
    BY <1>0, <2>1 DEF Activated, ToStop, ToStart, Switch
  <2>4. running = pending.proposed
    BY <1>0, <2>3 DEF HalfActivated
  <2>5. FullyActivated'
    BY <1>0, <2>1, <2>2, <2>3, <2>4 DEF FullyActivated, HalfActivated, runtime
  <2> QED
    BY <2>1, <2>5 DEF PositionInv
<1>2. ASSUME NEW ok \in BOOLEAN, ActivateStop(ok) PROVE (ok => HalfActivated') /\ GoingBack'
  <2>1. PICK r \in ToStop : /\ pending' = [pending EXCEPT !.stopped = @ \cup {r}]
                            /\ IF ok THEN running' = running \ {r} ELSE running' \in {running, running \ {r}}
                            /\ UNCHANGED <<runners, managed, published, boot>>
    BY <1>2 DEF ActivateStop, Stopped, StopFailed
  <2>2. r \in runners \ pending.proposed /\ r \notin pending.stopped /\ r \in Runners
    BY <2>1 DEF ToStop, LifeInv, LifecycleTypeOK, RuntimeTypeOK
  <2>3. /\ pending'.snapshot = pending.snapshot /\ pending'.proposed = pending.proposed
        /\ pending'.stopped = pending.stopped \cup {r} /\ pending'.started = pending.started
    BY <1>0, <2>1, <2>2, MarkTransition DEF Transitions
  <2>4. Switch'
    BY <1>0, <2>1, <2>2, <2>3, SwitchFrame DEF Switch
  <2>5. pending.started = {}
    BY <1>0, <2>2 DEF HalfActivated
  <2> QED
    BY <1>0, <2>1, <2>2, <2>3, <2>4, <2>5 DEF HalfActivated, GoingBack, Switch
<1>3. ASSUME NEW ok \in BOOLEAN, ActivateStart(ok) PROVE (ok => HalfActivated') /\ GoingBack'
  <2>1. PICK r \in ToStart : /\ pending' = [pending EXCEPT !.started = @ \cup {r}]
                             /\ IF ok THEN running' = running \cup {r}
                                      ELSE running' \in {running, running \cup {r}}
                             /\ UNCHANGED <<runners, managed, published, boot>>
    BY <1>3 DEF ActivateStart, Started, StartFailed
  <2>2. r \in pending.proposed \ runners /\ r \notin pending.started /\ r \in Runners
    BY <1>0, <2>1 DEF ToStart, Transitions
  <2>3. /\ pending'.snapshot = pending.snapshot /\ pending'.proposed = pending.proposed
        /\ pending'.stopped = pending.stopped /\ pending'.started = pending.started \cup {r}
    BY <1>0, <2>1, <2>2, MarkTransition DEF Transitions
  <2>4. Switch'
    BY <1>0, <2>1, <2>2, <2>3, SwitchFrame DEF Switch
  <2>5. pending.stopped = runners \ pending.proposed
    BY <1>0, <1>3 DEF ActivateStart, ToStop, Switch
  <2> QED
    BY <1>0, <2>1, <2>2, <2>3, <2>4, <2>5 DEF HalfActivated, GoingBack, Switch
<1>4. CASE Activate
  <2>1. HalfActivated' /\ step' = "activate"
    BY <1>0, <1>2, <1>3, <1>4 DEF Activate, life
  <2> QED
    BY <2>1 DEF PositionInv
<1>5. CASE ActivateFails
  <2>1. GoingBack' /\ step' = "rollback"
    BY <1>2, <1>3, <1>5 DEF ActivateFails
  <2> QED
    BY <2>1 DEF PositionInv
<1> QED
  BY <1>1, <1>4, <1>5

(* commit, its resolution, and the turn that publishes. *)
LEMMA CommitPosition ==
    ASSUME LifeInv, [Next]_vars, CommitCandidate \/ CommitRaises \/ ResolveCommit \/ ResolveRaises \/ ApplyPublish
    PROVE  PositionInv'
<1> USE DEF BeforeLoad, AtRestSteps, ActivatedSteps
<1>0. /\ step \in ActivatedSteps /\ FullyActivated /\ Switch /\ job \in Commands /\ job.version \in Versions
      /\ job.version # 0
  <2>1. /\ step \in ActivatedSteps /\ FullyActivated /\ Switch /\ job \in Commands
    BY DEF LifeInv, TasksInv, PositionInv, FullyActivated, CommitCandidate, CommitRaises, ResolveCommit,
           ResolveRaises, ApplyPublish, JobSteps, SwitchSteps
  <2> QED
    BY <2>1, CommandType
<1>1. CASE CommitCandidate \/ CommitRaises \/ ResolveCommit
  <2>1. UNCHANGED <<runtime, durable, cfg, job>>
    BY <1>1 DEF CommitCandidate, CommitRaises, ResolveCommit
  <2>2. Switch'
    <3>1. UNCHANGED <<runners, managed, published, pending>>
      BY <2>1 DEF runtime
    <3> QED
      BY <1>0, <2>1, <3>1, SwitchFrame DEF Switch
  <2>3. CASE CommitCandidate \/ CommitRaises
    <3>1. step' \in {"committed", "resolve"} /\ (step' = "committed" => active' = job.version)
      BY <2>3 DEF CommitCandidate, Commit, CommitRaises
    <3>2. FullyActivated'
      BY <1>0, <2>1, <2>2, <3>1 DEF FullyActivated, runtime
    <3> QED
      BY <3>1, <3>2 DEF PositionInv
  <2>4. CASE ResolveCommit
    <3>1. active' = active /\ \/ step' = "committed" /\ active = job.version
                              \/ step' = "rollback" /\ active = cfg
      BY <2>4 DEF ResolveCommit, store
    <3>2. step' = "committed" => FullyActivated'
      BY <1>0, <2>1, <2>2, <3>1 DEF FullyActivated, runtime
    <3>3. step' = "rollback" => GoingBack'
      BY <1>0, <2>1, <2>2, <3>1 DEF FullyActivated, GoingBack, runtime
    <3> QED
      BY <3>1, <3>2, <3>3 DEF PositionInv
  <2> QED
    BY <1>1, <2>3, <2>4
<1>2. CASE ResolveRaises
  <2>1. UNCHANGED <<running, managed>> /\ durable' = Unknown /\ step' = "fatal"
    BY <1>2 DEF ResolveRaises, Fatal, runtime
  <2>2. running \subseteq managed /\ OneEach(running)
    <3>1. running \subseteq runners \cup pending.started
          /\ (pending.started # {} => running \cap (runners \ pending.proposed) = {})
      BY <1>0 DEF FullyActivated
    <3> QED
      BY <1>0, <3>1, SwitchIsOwned
  <2>3. Over'
    BY <2>1, <2>2 DEF Over, OneEach
  <2> QED
    BY <2>1, <2>3 DEF PositionInv
<1>3. CASE ApplyPublish
  <2>1. /\ Publish /\ step = "committed" /\ durable' = active /\ cfg' = active /\ active' = active
        /\ step' = "idle"
    BY <1>3 DEF ApplyPublish, Answered, store
  <2>2. active = job.version /\ ActiveContent' = ActiveContent /\ ActiveContent = Content(job.version)
    BY <1>0, <2>1, ContentKept DEF FullyActivated
  <2>3. managed' = pending.proposed
    BY <1>0, <2>1 DEF Publish, FullyActivated, Switch
  <2>4. /\ runners' = pending.proposed /\ running' = pending.proposed /\ pending' = NoTransition
        /\ published' = pending.snapshot
    BY <1>0, <2>1 DEF Publish, FullyActivated
  <2>5. AtRest'
    BY <1>0, <2>1, <2>2, <2>3, <2>4 DEF AtRest, Switch, Wanted
  <2> QED
    BY <2>1, <2>5 DEF PositionInv
<1> QED
  BY <1>1, <1>2, <1>3

(* rollback: what was started is stopped before an old runner restarts. *)
LEMMA RollbackPosition ==
    ASSUME LifeInv, [Next]_vars, Rollback \/ RollbackEnds \/ RollbackFails
    PROVE  PositionInv'
<1> USE DEF BeforeLoad, AtRestSteps, ActivatedSteps
<1>0. /\ step = "rollback" /\ GoingBack /\ Switch /\ job \in Commands /\ pending \in Transitions
      /\ active' = active /\ UNCHANGED <<durable, cfg>>
  BY RuntimeTypes
     DEF LifeInv, LifecycleTypeOK, TasksInv, PositionInv, GoingBack, Rollback, RollbackEnds,
         RollbackFails, Raises, Fail, JobSteps, SwitchSteps, life, store
<1>1. ASSUME NEW ok \in BOOLEAN, RollbackStop(ok)
      PROVE  /\ ok /\ job' = job => GoingBack'
             /\ running' \subseteq running /\ managed' = managed
  <2>1. PICK r \in pending.started : /\ pending' = [pending EXCEPT !.started = @ \ {r}]
                                     /\ IF ok THEN running' = running \ {r}
                                              ELSE running' \in {running, running \ {r}}
                                     /\ UNCHANGED <<runners, managed, published, boot>>
    BY <1>1 DEF RollbackStop, Stopped, StopFailed
  <2>2. r \in pending.proposed \ runners
    BY <1>0, <2>1 DEF Switch
  <2>3. /\ pending'.snapshot = pending.snapshot /\ pending'.proposed = pending.proposed
        /\ pending'.stopped = pending.stopped /\ pending'.started = pending.started \ {r}
    BY <1>0, <2>1, MarkTransition DEF Transitions
  <2>4. job' = job => Switch'
    BY <1>0, <2>1, <2>3, SwitchFrame DEF Switch
  <2>5. ok /\ job' = job => GoingBack'
    BY <1>0, <2>1, <2>2, <2>3, <2>4 DEF GoingBack
  <2> QED
    BY <2>1, <2>5
<1>2. ASSUME NEW ok \in BOOLEAN, RollbackRestart(ok)
      PROVE  /\ ok /\ job' = job => GoingBack'
             /\ running' \subseteq runners /\ managed' = managed
  <2>1. PICK r \in pending.stopped : /\ pending' = [pending EXCEPT !.stopped = @ \ {r}]
                                     /\ IF ok THEN running' = running \cup {r}
                                              ELSE running' \in {running, running \ {r}, running \cup {r}}
                                     /\ UNCHANGED <<runners, managed, published, boot>>
    BY <1>2 DEF RollbackRestart, Started, RestartFailed
  <2>2. r \in runners \ pending.proposed /\ pending.started = {}
    BY <1>0, <1>2, <2>1 DEF Switch, RollbackRestart
  <2>3. /\ pending'.snapshot = pending.snapshot /\ pending'.proposed = pending.proposed
        /\ pending'.stopped = pending.stopped \ {r} /\ pending'.started = pending.started
    BY <1>0, <2>1, MarkTransition DEF Transitions
  <2>4. job' = job => Switch'
    BY <1>0, <2>1, <2>3, SwitchFrame DEF Switch
  <2>5. ok /\ job' = job => GoingBack'
    BY <1>0, <2>1, <2>2, <2>3, <2>4 DEF GoingBack
  <2>6. running' \subseteq runners
    BY <1>0, <2>1, <2>2 DEF GoingBack
  <2> QED
    BY <2>1, <2>5, <2>6
<1>3. CASE Rollback
  <2>1. GoingBack' /\ step' = "rollback"
    BY <1>0, <1>1, <1>2, <1>3 DEF Rollback, life
  <2> QED
    BY <2>1 DEF PositionInv
<1>4. CASE RollbackEnds
  <2>1. RollbackDone /\ step' = "restored"
    BY <1>4 DEF RollbackEnds
  <2>2. running = runners /\ managed \ (pending.proposed \ runners) = runners
    BY <1>0, <2>1 DEF RollbackDone, GoingBack, Switch
  <2>3. ActiveContent' = ActiveContent /\ ActiveContent = Content(cfg)
    BY <1>0, ContentKept DEF GoingBack
  <2>4. AtRest'
    BY <1>0, <2>1, <2>2, <2>3 DEF AtRest, RollbackDone, GoingBack, Switch, Wanted
  <2> QED
    BY <2>1, <2>4 DEF PositionInv
<1>5. CASE RollbackFails
  <2>1. step' = "fatal" /\ durable' = active'
    BY <1>0, <1>5 DEF RollbackFails, Fatal, GoingBack, Switch
  <2>2. running \subseteq managed /\ OneEach(running)
    BY <1>0, SwitchIsOwned DEF GoingBack
  <2>3. OneEach(runners) /\ runners \subseteq managed
    <3>1. cfg \in Versions \cup {0}
      BY DEF LifeInv, LifecycleTypeOK
    <3> QED
      BY <1>0, <3>1, ActiveWanted DEF Switch
  <2>4. managed' = managed /\ (running' \subseteq running \/ running' \subseteq runners)
    BY <1>1, <1>2, <1>5 DEF RollbackFails
  <2>5. Over'
    BY <2>1, <2>2, <2>3, <2>4 DEF Over, OneEach
  <2> QED
    BY <2>1, <2>5 DEF PositionInv
<1> QED
  BY <1>3, <1>4, <1>5

(* The end of the coordinator and of close: only a complete stop leaves    *)
(* nothing, and what is left is managed.                                   *)
LEMMA EndPosition ==
    ASSUME LifeInv, [Next]_vars, FatalShutdown \/ CloseShutdown
    PROVE  PositionInv'
<1> USE DEF BeforeLoad, AtRestSteps, ActivatedSteps
<1>0. active' = active /\ UNCHANGED <<durable, cfg>>
  BY DEF FatalShutdown, CloseShutdown, store
<1>1. ASSUME Over, state = "FAILED" => state' = "FAILED", NEW stuck \in SUBSET managed, Shutdown(stuck)
      PROVE  Over'
  <2>1. running' \subseteq running /\ running' \subseteq managed'
    BY <1>1 DEF Over, Shutdown
  <2> QED
    BY <1>0, <1>1, <2>1 DEF Over, OneEach
<1>2. CASE FatalShutdown
  <2>1. Over /\ step' = "ended" /\ state' = state
    BY <1>2 DEF FatalShutdown, LifeInv, PositionInv
  <2>2. Over'
    BY <1>1, <1>2, <2>1 DEF FatalShutdown
  <2> QED
    BY <2>1, <2>2 DEF PositionInv
<1>3. CASE CloseShutdown
  <2>0. /\ step \in {"new", "ended"} /\ step' = step /\ PositionInv
        /\ state = "FAILED" => state' = "FAILED"
        /\ state' \in {"FAILED", "STOPPED"}
    BY <1>3 DEF CloseShutdown, LifeInv, TasksInv
  <2>1. PICK stuck \in SUBSET managed : Shutdown(stuck)
    BY <1>3 DEF CloseShutdown
  <2>2. CASE step = "new"
    <3>1. Unborn
      BY <2>0, <2>2 DEF PositionInv
    <3>2. Unborn'
      BY <1>0, <2>0, <2>1, <3>1 DEF Unborn, Shutdown
    <3> QED
      BY <2>0, <2>2, <3>2 DEF PositionInv
  <2>3. CASE step = "ended"
    <3>1. Over
      BY <2>0, <2>3 DEF PositionInv
    <3>2. Over'
      BY <1>1, <2>0, <2>1, <3>1
    <3> QED
      BY <2>0, <2>3, <3>2 DEF PositionInv
  <2> QED
    BY <2>0, <2>2, <2>3
<1> QED
  BY <1>2, <1>3

----------------------------------------------------------------------------
(* The theorems. *)

(* Every step of the lifecycle keeps the invariant. *)
LEMMA LifeStep == LifeInv /\ [Next]_vars => LifeInv'
<1> SUFFICES ASSUME LifeInv, [Next]_vars PROVE LifeInv'
  OBVIOUS
<1>1. LifecycleTypeOK' /\ StoreInvs' /\ TasksInv'
  BY LifeTypeStep, StoreKeeps, TasksStep
<1>2. PositionInv'
  <2>1. CASE Start \/ Starting \/ Crash \/ Restart
    BY <2>1, StartPosition DEF Starting
  <2>2. CASE Applying
    BY <2>2, CommandPosition, ActivatePosition, CommitPosition, RollbackPosition DEF Applying
  <2>3. CASE FatalShutdown \/ CloseShutdown
    BY <2>3, EndPosition
  <2>4. CASE Close \/ CloseDrain \/ CloseJoin \/ UNCHANGED vars \/ \E cmd \in Commands : Submit(cmd)
    BY <2>4, PositionFrame
       DEF LifeInv, Close, CloseDrain, CloseJoin, Submit, vars, life
  <2> QED
    BY <2>1, <2>2, <2>3, <2>4 DEF Next, Coordinator, Closing
<1> QED
  BY <1>1, <1>2 DEF LifeInv

(* A gateway that was never configured satisfies it. *)
LEMMA LifeInvInit == Init => LifeInv
<1> SUFFICES ASSUME Init PROVE LifeInv
  OBVIOUS
<1> USE DEF Init, LifeInit, RuntimeInit
<1>1. StoreInvs
  BY InitInv, ReceiptInit, RetryInit DEF StoreInvs
<1>2. RuntimeTypeOK(Messages)
  <2>1. boot \in [snapshot : SnapshotNames, generation : Nat]
    BY NoTransitionType
  <2> QED
    BY <2>1, NoTransitionType, RuntimeTypes
<1>3. LifecycleTypeOK
  <2>1. queue \in Seq(Commands \cup {Stop})
    OBVIOUS
  <2>2. StoreTypeOK
    BY <1>1 DEF StoreInvs, StoreInv
  <2> QED
    BY <1>2, <2>1, <2>2 DEF LifecycleTypeOK, Steps
<1>4. TasksInv
  BY DEF TasksInv, JobSteps, AtRestSteps, SwitchSteps, ActivatedSteps
<1>5. PositionInv
  BY DEF PositionInv, Unborn, BeforeLoad, AtRestSteps, ActivatedSteps
<1> QED
  BY <1>1, <1>3, <1>4, <1>5 DEF LifeInv

(* Lifecycle, store and runtime are in one of the positions, always. *)
THEOREM LifecycleInvariant == LifecycleSpec => []LifeInv
BY LifeInvInit, LifeStep, PTL DEF LifecycleSpec

(* Lifecycle, store and runtime are type correct. *)
THEOREM LifecycleTypeCorrect == LifecycleSpec => []LifecycleTypeOK
<1>1. LifeInv => LifecycleTypeOK
  BY DEF LifeInv
<1> QED
  BY <1>1, LifecycleInvariant, PTL

(* Between two commands the reported version is the durable and the        *)
(* published one and exactly its runners are alive, however the last       *)
(* command ended.                                                          *)
THEOREM SteadyStatesAgree == LifecycleSpec => []SteadyIsConsistent
<1>1. LifeInv => SteadyIsConsistent
  BY DEF LifeInv, PositionInv, AtRestSteps, AtRest, SteadyIsConsistent
<1> QED
  BY <1>1, LifecycleInvariant, PTL

(* No two runners drive one device, no live runner is out of shutdown's    *)
(* sight, and a lifecycle that says STOPPED has none left.                 *)
THEOREM RunnersAlwaysOwned == LifecycleSpec => []RunnersAreOwned
<1>1. LifeInv => RunnersAreOwned
  <2> SUFFICES ASSUME LifeInv PROVE running \subseteq managed /\ OneEach(running)
    BY DEF RunnersAreOwned, OneEach, LifeInv, TasksInv
  <2>1. CASE step \in BeforeLoad
    BY <2>1 DEF LifeInv, PositionInv, Unborn, OneEach
  <2>2. CASE step = "starting"
    BY <2>2, ActiveWanted DEF LifeInv, PositionInv, ComingUp, OneEach
  <2>3. CASE step \in AtRestSteps
    BY <2>3, ActiveWanted DEF LifeInv, PositionInv, AtRest
  <2>4. CASE step \in SwitchSteps
    <3>1. /\ Switch /\ job \in Commands /\ running \subseteq runners \cup pending.started
          /\ (pending.started # {} => running \cap (runners \ pending.proposed) = {})
      BY <2>4 DEF LifeInv, PositionInv, TasksInv, HalfActivated, FullyActivated, GoingBack, Switch,
                  SwitchSteps, ActivatedSteps, JobSteps
    <3> QED
      BY <3>1, SwitchIsOwned
  <2>5. CASE step \in {"fatal", "ended"}
    BY <2>5 DEF LifeInv, PositionInv, Over
  <2> QED
    BY <2>1, <2>2, <2>3, <2>4, <2>5
       DEF LifeInv, LifecycleTypeOK, Steps, BeforeLoad, AtRestSteps, SwitchSteps, ActivatedSteps
<1> QED
  BY <1>1, LifecycleInvariant, PTL

(* The agent reports the durable version, or that it does not know it. *)
THEOREM ReportedVersionIsHonest == LifecycleSpec => []VersionIsHonest
<1>1. LifeInv => VersionIsHonest
  <2> SUFFICES ASSUME LifeInv, step \notin {"resolve", "committed"}
               PROVE  \/ durable \in {active, Unknown}
                      \/ durable = 0 /\ cfg = 0 /\ state \notin {"WAITING_CONFIG", "RUNNING", "APPLYING"}
    BY DEF VersionIsHonest
  <2>1. step \in Steps /\ PositionInv
    BY DEF LifeInv, LifecycleTypeOK
  <2> QED
    BY <2>1 DEF PositionInv, Steps, BeforeLoad, AtRestSteps, ActivatedSteps, Unborn, ComingUp, AtRest,
                HalfActivated, FullyActivated, GoingBack, Switch, Over
<1> QED
  BY <1>1, LifecycleInvariant, PTL

(* The command that prepared a candidate last can always be sent again:    *)
(* the store accepts it under the token the candidate has.                 *)
THEOREM CandidatesAreRetriable == LifecycleSpec => []CandidateCanBeRetried
<1>1. LifeInv => CandidateCanBeRetried
  <2> SUFFICES ASSUME LifeInv, NEW v \in PreparedVersions
               PROVE  \E cmd \in Commands :
                          /\ cmd.version = v /\ requests[cmd.message].status = "PREPARED" /\ SameReceipt(cmd)
                          /\ Verdict(cmd) = "PREPARED" /\ TokenFor(cmd) = snapshots[v].token
    BY DEF CandidateCanBeRetried
  <2>1. PICK cmd \in Commands : Retries(cmd, v)
    BY DEF LifeInv, StoreInvs, RetryInv
  <2>2. Verdict(cmd) = "PREPARED" /\ TokenFor(cmd) = snapshots[v].token
    BY <2>1, RetryIsAccepted DEF LifeInv, StoreInvs
  <2> QED
    BY <2>1, <2>2 DEF Retries
<1> QED
  BY <1>1, LifecycleInvariant, PTL

(* Under the lifecycle the store is the one of ConfigStore, so that what   *)
(* is proved of StoreSpec (pointers, receipts, patches, history) holds     *)
(* with crashes, raised calls and closes at any point of a switch.         *)
THEOREM LifecycleImplementsStore == LifecycleSpec => StoreSpec
<1>1. Init => StoreInit
  BY DEF Init
<1> QED
  BY <1>1, LifecycleRefinesStore, LifecycleInvariant, PTL DEF LifecycleSpec, StoreSpec

=============================================================================
