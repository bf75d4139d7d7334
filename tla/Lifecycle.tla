----------------------------- MODULE Lifecycle -----------------------------
(***************************************************************************)
(* The agent's lifecycle, core/lifecycle.py: start, submit, the one        *)
(* coordinator task that applies commands, and close.  It drives the       *)
(* durable store (ConfigStore) through its worker thread and the runners   *)
(* (DeviceRuntime).                                                        *)
(*                                                                         *)
(* step is where the coordinator is between two awaits, first inside       *)
(* _start and then inside _serve and _apply; closer is where the _close    *)
(* task is.  A call of the store may raise, with its transaction committed *)
(* or not.  A crash, or the end of the process, loses everything but the   *)
(* store and the runners' tasks die with it.                               *)
(***************************************************************************)
EXTENDS ConfigStore, DeviceRuntime, Sequences

CONSTANTS
    QueueCapacity,      \* settings.queue_capacity
    Stop,               \* the None that _close puts into the queue
    NoJob               \* no command is being applied

ASSUME QueueAssumption == QueueCapacity \in Nat \ {0} /\ Stop \notin Commands /\ NoJob \notin Commands

Unknown == -1           \* _durable_version = None

VARIABLES
    state,      \* AgentLifecycle.state (RUNNING stands for DISABLED too)
    closing,    \* _closing
    durable,    \* _durable_version, what is reported as the active version
    cfg,        \* _active: its version, 0 for None
    queue,      \* _queue
    job,        \* the command in _apply, its future unanswered
    token,      \* prepared.token of that command
    step,       \* the coordinator's position
    closer      \* the position of the _close task

life == <<state, closing, durable, cfg, queue, job, token, step, closer>>
vars == <<store, runtime, life>>

Steps == {"new", "open", "load", "starting", "idle", "prepare", "preflight", "refuse", "activate",
          "commit", "resolve", "committed", "rollback", "restored", "fatal", "ended", "dead"}

(* Still inside _start, its failure included. *)
StartTaskRuns == step \in {"open", "load", "starting"} \/ (step = "fatal" /\ job = NoJob)

(* _steady *)
Steady(active_) ==
    state' = IF state = "FAILED" THEN "FAILED"
             ELSE IF closing THEN "STOPPING"
             ELSE IF active_ = 0 THEN "WAITING_CONFIG" ELSE "RUNNING"

(* _apply returns: the future is answered and _serve takes the next item. *)
Answered == job' = NoJob /\ token' = NoToken /\ step' = "idle"

(* _fatal begins; its shutdown is the step "fatal". *)
Fatal == state' = "FAILED" /\ step' = "fatal"

(* A call of the store that raises: its transaction may have been committed. *)
Raises(effect) == effect \/ UNCHANGED store

----------------------------------------------------------------------------

LifeInit ==
    /\ state = "NEW" /\ closing = FALSE
    /\ durable = 0 /\ cfg = 0
    /\ queue = <<>> /\ job = NoJob /\ token = NoToken
    /\ step = "new" /\ closer = "none"

Init == StoreInit /\ RuntimeInit /\ LifeInit

(* start and _start *)

Start ==
    /\ step = "new" /\ ~closing
    /\ state' = "STARTING" /\ step' = "open"
    /\ UNCHANGED <<store, runtime, closing, durable, cfg, queue, job, token, closer>>

OpenStore ==
    /\ step = "open"
    /\ Recover
    /\ step' = "load"
    /\ UNCHANGED <<runtime, state, closing, durable, cfg, queue, job, token, closer>>

LoadActive ==
    /\ step = "load"
    /\ durable' = active
    /\ IF active = 0
       THEN Steady(0) /\ step' = "idle" /\ UNCHANGED runtime
       ELSE /\ RuntimePrepare(Snapshot(active, ActiveMessage), ActiveContent)
            /\ step' = "starting" /\ UNCHANGED state
    /\ UNCHANGED <<store, closing, cfg, queue, job, token, closer>>

StartRunner ==
    /\ step = "starting"
    /\ ActivateStart(TRUE)
    /\ UNCHANGED <<store, life>>

StartPublish ==
    /\ step = "starting"
    /\ Publish
    /\ cfg' = active
    /\ Steady(active)
    /\ step' = "idle"
    /\ UNCHANGED <<store, closing, durable, queue, job, token, closer>>

StartFails ==
    /\ \/ step = "open" /\ Raises(Recover) /\ UNCHANGED <<runtime, durable>>
       \/ step = "load" /\ UNCHANGED <<store, runtime, durable>>
       \/ /\ step = "load" /\ active # 0
          /\ RuntimePrepareRaises(ActiveContent)
          /\ durable' = active /\ UNCHANGED store
       \/ step = "starting" /\ ActivateStart(FALSE) /\ UNCHANGED <<store, durable>>
    /\ Fatal
    /\ UNCHANGED <<closing, cfg, queue, job, token, closer>>

(* submit; a command that is refused changes nothing.  The last conjunct   *)
(* is the bound on preparation tokens.                                     *)
Submit(cmd) ==
    /\ ~closing
    /\ state \in {"WAITING_CONFIG", "RUNNING", "APPLYING"}
    /\ Len(queue) < QueueCapacity
    /\ lastToken + Len(queue) + (IF job = NoJob THEN 0 ELSE 1) < MaxTokens
    /\ queue' = Append(queue, cmd)
    /\ UNCHANGED <<store, runtime, state, closing, durable, cfg, job, token, step, closer>>

(* _serve *)

Take ==
    /\ step = "idle" /\ queue # <<>>
    /\ queue' = Tail(queue)
    /\ IF Head(queue) = Stop
       THEN step' = "ended" /\ UNCHANGED <<job, state>>
       ELSE /\ job' = Head(queue) /\ step' = "prepare"
            /\ state' = IF closing THEN "STOPPING" ELSE "APPLYING"
    /\ UNCHANGED <<store, runtime, closing, durable, cfg, token, closer>>

(* _apply: prepare or prepare_patch *)

ApplyPrepared ==
    /\ step = "prepare"
    /\ PrepareCandidate(job)
    /\ token' = TokenFor(job)
    /\ step' = "preflight"
    /\ UNCHANGED <<runtime, state, closing, durable, cfg, queue, job, closer>>

(* A mismatch of runtime and store is fatal; SteadyIsConsistent rules it out. *)
ApplyReplayed ==
    /\ step = "prepare"
    /\ PrepareApplied(job)
    /\ IF cfg = active THEN Steady(cfg) /\ Answered ELSE Fatal /\ UNCHANGED <<job, token>>
    /\ UNCHANGED <<runtime, closing, durable, cfg, queue, closer>>

ApplyRejected ==
    /\ step = "prepare"
    /\ Verdict(job) \notin {"PREPARED", "APPLIED"}
    /\ Steady(cfg) /\ Answered
    /\ UNCHANGED <<store, runtime, closing, durable, cfg, queue, closer>>

ApplyPrepareRaises ==
    /\ step = "prepare"
    /\ Raises(Prepare(job))
    /\ Steady(cfg) /\ Answered
    /\ UNCHANGED <<runtime, closing, durable, cfg, queue, closer>>

(* The store finds itself corrupt: its transaction rolls back and the agent stops. *)
ApplyCorrupt ==
    /\ step = "prepare"
    /\ Fatal
    /\ UNCHANGED <<store, runtime, closing, durable, cfg, queue, job, token, closer>>

(* runtime.prepare; when it raises the candidate is failed *)

Preflight ==
    /\ step = "preflight"
    /\ RuntimePrepare(Snapshot(job.version, job.message), snapshots[job.version].content)
    /\ step' = "activate"
    /\ UNCHANGED <<store, state, closing, durable, cfg, queue, job, token, closer>>

PreflightRaises ==
    /\ step = "preflight"
    /\ RuntimePrepareRaises(snapshots[job.version].content)
    /\ step' = "refuse"
    /\ UNCHANGED <<store, state, closing, durable, cfg, queue, job, token, closer>>

(* The candidate is failed in the store, after a refusal and after a rollback. *)
FailCandidate ==
    /\ step \in {"refuse", "restored"}
    /\ Fail(job.version, token)
    /\ Steady(cfg) /\ Answered
    /\ UNCHANGED <<runtime, closing, durable, cfg, queue, closer>>

FailCandidateRaises ==
    /\ step \in {"refuse", "restored"}
    /\ Raises(Fail(job.version, token))
    /\ Fatal
    /\ UNCHANGED <<runtime, closing, durable, cfg, queue, job, token, closer>>

(* transition.activate *)

Activate ==
    /\ step = "activate"
    /\ ActivateStop(TRUE) \/ ActivateStart(TRUE)
    /\ UNCHANGED <<store, life>>

(* Fault: the candidate is failed without a rollback. *)
ActivateFailsInPlace ==
    /\ step = "activate"
    /\ ActivateStop(FALSE) \/ ActivateStart(FALSE)
    /\ step' = "refuse"
    /\ UNCHANGED <<store, state, closing, durable, cfg, queue, job, token, closer>>

ActivateFails ==
    /\ step = "activate"
    /\ ActivateStop(FALSE) \/ ActivateStart(FALSE)
    /\ step' = "rollback"
    /\ UNCHANGED <<store, state, closing, durable, cfg, queue, job, token, closer>>

ActivateEnds ==
    /\ step = "activate" /\ Activated
    /\ step' = "commit"
    /\ UNCHANGED <<store, runtime, state, closing, durable, cfg, queue, job, token, closer>>

(* The store's commit, and the question to load_active when it raises *)

CommitCandidate ==
    /\ step = "commit"
    /\ Commit(job.version, token)
    /\ step' = "committed"
    /\ UNCHANGED <<runtime, state, closing, durable, cfg, queue, job, token, closer>>

CommitRaises ==
    /\ step = "commit"
    /\ Raises(Commit(job.version, token))
    /\ step' = "resolve"
    /\ UNCHANGED <<runtime, state, closing, durable, cfg, queue, job, token, closer>>

ResolveCommit ==
    /\ step = "resolve"
    /\ \/ active = job.version /\ step' = "committed"
       \/ active = cfg /\ step' = "rollback"
    /\ UNCHANGED <<store, runtime, state, closing, durable, cfg, queue, job, token, closer>>

(* Fault: the version before the commit is still reported. *)
ResolveGuessed ==
    /\ step = "resolve"
    /\ Fatal
    /\ UNCHANGED <<store, runtime, durable, closing, cfg, queue, job, token, closer>>

ResolveRaises ==
    /\ step = "resolve"
    /\ durable' = Unknown
    /\ Fatal
    /\ UNCHANGED <<store, runtime, closing, cfg, queue, job, token, closer>>

(* The turn that publishes the runtime and the version together. *)
ApplyPublish ==
    /\ step = "committed"
    /\ Publish
    /\ durable' = active /\ cfg' = active
    /\ Steady(active) /\ Answered
    /\ UNCHANGED <<store, closing, queue, closer>>

(* _restore *)

Rollback ==
    /\ step = "rollback"
    /\ RollbackStop(TRUE) \/ RollbackRestart(TRUE)
    /\ UNCHANGED <<store, life>>

RollbackEnds ==
    /\ step = "rollback"
    /\ RollbackDone
    /\ step' = "restored"
    /\ UNCHANGED <<store, state, closing, durable, cfg, queue, job, token, closer>>

RollbackFails ==
    /\ step = "rollback"
    /\ RollbackStop(FALSE) \/ RollbackRestart(FALSE)
    /\ Raises(Fail(job.version, token))
    /\ Fatal
    /\ UNCHANGED <<closing, durable, cfg, queue, job, token, closer>>

(* Fault: the command that failed is not answered. *)
FatalUnanswered ==
    /\ step = "fatal"
    /\ \E stuck \in SUBSET managed : Shutdown(stuck)
    /\ queue' = <<>>
    /\ step' = "ended"
    /\ UNCHANGED <<store, state, closing, durable, cfg, job, token, closer>>

(* The rest of _fatal and of the coordinator: the runtime is shut down,    *)
(* the job is answered, then every queued request is.                      *)
FatalShutdown ==
    /\ step = "fatal"
    /\ \E stuck \in SUBSET managed : Shutdown(stuck)
    /\ job' = NoJob /\ token' = NoToken
    /\ queue' = <<>>
    /\ step' = "ended"
    /\ UNCHANGED <<store, state, closing, durable, cfg, closer>>

(* close and _close *)

Close ==
    /\ closer = "none" /\ step # "dead"
    /\ closing' = TRUE
    /\ state' = IF state = "FAILED" THEN state ELSE "STOPPING"
    /\ closer' = "waiting"
    /\ UNCHANGED <<store, runtime, durable, cfg, queue, job, token, step>>

(* Fault: the coordinator is waited for but not told to stop. *)
CloseWithoutStop ==
    /\ closer = "waiting" /\ ~StartTaskRuns
    /\ queue' = <<>>
    /\ closer' = IF step \in {"new", "ended"} THEN "stopping" ELSE "joining"
    /\ UNCHANGED <<store, runtime, state, closing, durable, cfg, job, token, step>>

CloseDrain ==
    /\ closer = "waiting" /\ ~StartTaskRuns
    /\ IF step \in {"new", "ended"}
       THEN queue' = <<>> /\ closer' = "stopping"
       ELSE queue' = <<Stop>> /\ closer' = "joining"
    /\ UNCHANGED <<store, runtime, state, closing, durable, cfg, job, token, step>>

CloseJoin ==
    /\ closer = "joining" /\ step = "ended"
    /\ closer' = "stopping"
    /\ UNCHANGED <<store, runtime, state, closing, durable, cfg, queue, job, token, step>>

(* A runner that cannot stop, or a store that cannot close, is a failure. *)
CloseShutdown ==
    /\ closer = "stopping"
    /\ \E stuck \in SUBSET managed : Shutdown(stuck) /\ (stuck # {} => state' = "FAILED")
    /\ state' \in {"FAILED"} \cup (IF state = "FAILED" THEN {} ELSE {"STOPPED"})
    /\ closer' = "done"
    /\ UNCHANGED <<store, closing, durable, cfg, queue, job, token, step>>

(* The process ends, in order or not, and another one takes the lock. *)

Crash ==
    /\ step # "dead"
    /\ running' = {} /\ runners' = {} /\ managed' = {}
    /\ published' = NoConfig /\ pending' = NoTransition
    /\ boot' = [snapshot |-> NoConfig, generation |-> 0]
    /\ state' = "STOPPED" /\ closing' = FALSE /\ durable' = 0 /\ cfg' = 0
    /\ queue' = <<>> /\ job' = NoJob /\ token' = NoToken
    /\ step' = "dead" /\ closer' = "none"
    /\ UNCHANGED store

Restart ==
    /\ step = "dead"
    /\ state' = "NEW" /\ step' = "new"
    /\ UNCHANGED <<store, runtime, closing, durable, cfg, queue, job, token, closer>>

----------------------------------------------------------------------------

Starting == OpenStore \/ LoadActive \/ StartRunner \/ StartPublish \/ StartFails

Applying ==
    \/ Take \/ ApplyPrepared \/ ApplyReplayed \/ ApplyRejected \/ ApplyPrepareRaises \/ ApplyCorrupt
    \/ Preflight \/ PreflightRaises \/ FailCandidate \/ FailCandidateRaises
    \/ Activate \/ ActivateFails \/ ActivateEnds
    \/ CommitCandidate \/ CommitRaises \/ ResolveCommit \/ ResolveRaises \/ ApplyPublish
    \/ Rollback \/ RollbackEnds \/ RollbackFails

Closing == CloseDrain \/ CloseJoin \/ CloseShutdown

Coordinator == Starting \/ Applying \/ FatalShutdown

Next ==
    \/ Start \/ Coordinator
    \/ \E cmd \in Commands : Submit(cmd)
    \/ Close \/ Closing
    \/ Crash \/ Restart

LifecycleSpec == Init /\ [][Next]_vars

(* Both tasks run when they can: every await of theirs is a store call on  *)
(* a thread that returns, a runner call that the timeout cuts off, or the  *)
(* other task.  A crash is never promised, nor is a request to close.  The *)
(* formula is WF_vars(Coordinator) /\ WF_vars(Closing) with what enables   *)
(* the two spelled out.                                                    *)
CoordinatorEnabled == step \notin {"new", "idle", "ended", "dead"} \/ (step = "idle" /\ queue # <<>>)

ClosingEnabled ==
    \/ closer = "waiting" /\ ~StartTaskRuns
    \/ closer = "joining" /\ step = "ended"
    \/ closer = "stopping"

FairTasks ==
    /\ <>[]CoordinatorEnabled => []<><<Coordinator>>_vars
    /\ <>[]ClosingEnabled => []<><<Closing>>_vars

----------------------------------------------------------------------------
(* Properties. *)

LifecycleTypeOK ==
    /\ StoreTypeOK /\ RuntimeTypeOK(Messages)
    /\ state \in {"NEW", "STARTING", "WAITING_CONFIG", "RUNNING", "APPLYING", "STOPPING", "STOPPED", "FAILED"}
    /\ closing \in BOOLEAN
    /\ durable \in Versions \cup {0, Unknown}
    /\ cfg \in Versions \cup {0}
    /\ queue \in Seq(Commands \cup {Stop})
    /\ job \in Commands \cup {NoJob}
    /\ token \in Tokens \cup {NoToken}
    /\ step \in Steps
    /\ closer \in {"none", "waiting", "joining", "stopping", "done"}

(* Between two commands the store, the coordinator and the runtime agree:  *)
(* the version that is reported is the durable one and the published one,  *)
(* and exactly the runners its content asks for are alive, published and   *)
(* managed.  Every way _apply can end without FAILED leads here: applied,  *)
(* replayed, refused, rolled back, a commit that raised but took effect.   *)
SteadyIsConsistent ==
    step = "idle" =>
        /\ durable = active /\ cfg = active /\ published.version = active
        /\ running = Wanted(ActiveContent) /\ runners = running /\ managed = running
        /\ pending = NoTransition

(* Every live runner is owned, and alone: two never drive one device, not  *)
(* even while a switch or its rollback is under way or has failed half-way *)
(* ("Candidate must be fully stopped before any old runner restarts"), and *)
(* no path of activate, rollback, publish and shutdown loses sight of one, *)
(* so that shutdown can stop it.  A lifecycle that reports STOPPED has none *)
(* left.                                                                   *)
RunnersAreOwned ==
    /\ \A r, s \in running : r[1] = s[1] => r = s
    /\ running \subseteq managed
    /\ state = "STOPPED" => running = {}

(* The version the agent reports is the durable one, or it says that it    *)
(* does not know.  The store may be ahead only between its commit and the  *)
(* turn that publishes it, and before load_active has answered, when no    *)
(* running state was announced.                                            *)
VersionIsHonest ==
    \/ durable \in {active, Unknown}
    \/ step \in {"resolve", "committed"}
    \/ durable = 0 /\ cfg = 0 /\ state \notin {"WAITING_CONFIG", "RUNNING", "APPLYING"}

(* A candidate nobody is applying, left by a prepare that raised after its *)
(* transaction, is never a dead end.  Every other version is refused as    *)
(* long as it is there, but the command that prepared it last is accepted  *)
(* again, under the token it has, whatever was submitted and refused in    *)
(* between.  (The message the row keeps is the first that carried it: an   *)
(* older patch, it may be, whose base is no longer active.)                *)
CandidateCanBeRetried ==
    step = "idle" => \A v \in PreparedVersions : \E cmd \in Commands :
        /\ cmd.version = v /\ requests[cmd.message].status = "PREPARED" /\ SameReceipt(cmd)
        /\ Verdict(cmd) = "PREPARED" /\ TokenFor(cmd) = snapshots[v].token

(* Every command is answered, whatever fails on the way: the one that was  *)
(* taken in the end, and the queued ones before the coordinator is gone,   *)
(* whoever of _close and the failing coordinator drained the queue.        *)
CommandsAreAnswered ==
    /\ job # NoJob ~> job = NoJob
    /\ [](step = "ended" => queue = <<>>)

(* close ends, in whatever state of a start, a switch or a failure it was  *)
(* asked for: the two tasks never wait on each other.                      *)
CloseEnds == closer = "waiting" ~> closer \in {"done", "none"}

=============================================================================
