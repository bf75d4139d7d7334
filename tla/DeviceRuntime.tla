--------------------------- MODULE DeviceRuntime ---------------------------
(***************************************************************************)
(* Ownership of the device runners: devices/runtime.py.                    *)
(*                                                                         *)
(* A runner is named by its device and its execution key: prepare makes a  *)
(* new one only where the published runner of the device has another key,  *)
(* so a name stands for one instance at a time.  stop and start are the    *)
(* drivers' (external): one that fails, or is cut off by the timeout, may  *)
(* have taken effect or not.  Dictionaries are iterated in any order.      *)
(***************************************************************************)
EXTENDS Integers, FiniteSets, ConfigModel

CONSTANT ExecKey    \* _execution_key of a definition, NoRunner if it is not enabled

NoRunner == "no runner"

ASSUME KeyAssumption == DOMAIN ExecKey = Defs

Keys    == {ExecKey[x] : x \in Defs} \ {NoRunner}
Runners == Devices \X Keys

VARIABLES
    running,     \* the runners whose tasks are alive (the drivers' state)
    runners,     \* DeviceRuntime._runners: the published ones
    managed,     \* DeviceRuntime._managed: all that shutdown has to stop
    published,   \* DeviceRuntime.snapshot
    pending,     \* DeviceRuntime._pending: the transition under way
    boot         \* ProcessBootContext: sampling_snapshot and sampling_generation

runtime == <<running, runners, managed, published, pending, boot>>

NoTransition == [snapshot |-> NoConfig, proposed |-> {}, stopped |-> {}, started |-> {}]

(* The runners a configuration asks for. *)
Wanted(content) ==
    {<<d, ExecKey[content[d]]>> : d \in {e \in Devices : content[e] # Absent /\ ExecKey[content[e]] # NoRunner}}

----------------------------------------------------------------------------
(* A runner's start and stop, by outcome. *)

Stopped(r)      == running' = running \ {r}
Started(r)      == running' = running \cup {r}
StopFailed(r)   == running' \in {running, running \ {r}}
StartFailed(r)  == running' \in {running, running \cup {r}}
RestartFailed(r) == running' \in {running, running \ {r}, running \cup {r}}

----------------------------------------------------------------------------

RuntimeInit ==
    /\ running = {} /\ runners = {} /\ managed = {}
    /\ published = NoConfig
    /\ pending = NoTransition
    /\ boot = [snapshot |-> NoConfig, generation |-> 0]

(* prepare: nothing is started yet.  The factory is asked only for runners *)
(* that cannot be reused, and may refuse.                                  *)
RuntimePrepare(snapshot, content) ==
    /\ pending = NoTransition
    /\ pending' = [snapshot |-> snapshot, proposed |-> Wanted(content), stopped |-> {}, started |-> {}]
    /\ managed' = managed \cup Wanted(content)
    /\ UNCHANGED <<running, runners, published, boot>>

RuntimePrepareRaises(content) ==
    /\ Wanted(content) \ runners # {}
    /\ UNCHANGED runtime

(* activate: every runner that goes is stopped before the first new one starts. *)
ToStop  == (runners \ pending.proposed) \ pending.stopped
ToStart == (pending.proposed \ runners) \ pending.started

Activated == pending # NoTransition /\ ToStop = {} /\ ToStart = {}

ActivateStop(ok) ==
    \E r \in ToStop :
        /\ pending' = [pending EXCEPT !.stopped = @ \cup {r}]
        /\ IF ok THEN Stopped(r) ELSE StopFailed(r)
        /\ UNCHANGED <<runners, managed, published, boot>>

(* Fault: a new runner starts while old ones are still to be stopped. *)
ActivateStartEarly(ok) ==
    \E r \in ToStart :
        /\ pending' = [pending EXCEPT !.started = @ \cup {r}]
        /\ IF ok THEN Started(r) ELSE StartFailed(r)
        /\ UNCHANGED <<runners, managed, published, boot>>

ActivateStart(ok) ==
    /\ ToStop = {}
    /\ \E r \in ToStart :
        /\ pending' = [pending EXCEPT !.started = @ \cup {r}]
        /\ IF ok THEN Started(r) ELSE StartFailed(r)
        /\ UNCHANGED <<runners, managed, published, boot>>

(* rollback: what was started is stopped, then what was stopped is stopped *)
(* again and started; both sets shrink as the loops advance.               *)
RollbackStop(ok) ==
    \E r \in pending.started :
        /\ pending' = [pending EXCEPT !.started = @ \ {r}]
        /\ IF ok THEN Stopped(r) ELSE StopFailed(r)
        /\ UNCHANGED <<runners, managed, published, boot>>

RollbackRestart(ok) ==
    /\ pending.started = {}
    /\ \E r \in pending.stopped :
        /\ pending' = [pending EXCEPT !.stopped = @ \ {r}]
        /\ IF ok THEN Started(r) ELSE RestartFailed(r)
        /\ UNCHANGED <<runners, managed, published, boot>>

RollbackDone ==
    /\ pending.started = {} /\ pending.stopped = {}
    /\ managed' = managed \ (pending.proposed \ runners)
    /\ pending' = NoTransition
    /\ UNCHANGED <<running, runners, published, boot>>

(* publish: one turn of the event loop. *)
Publish ==
    /\ Activated
    /\ runners' = pending.proposed
    /\ managed' = managed \ pending.stopped
    /\ boot' = IF published # pending.snapshot /\ boot.snapshot # pending.snapshot
               THEN [snapshot |-> pending.snapshot, generation |-> boot.generation + 1] ELSE boot
    /\ published' = pending.snapshot
    /\ pending' = NoTransition
    /\ UNCHANGED running

(* shutdown: every managed runner is stopped; those in stuck fail to.      *)
(* Only a complete stop resets the runtime.                                *)
Shutdown(stuck) ==
    /\ stuck \subseteq managed
    /\ \E alive \in SUBSET (stuck \cap running) : running' = (running \ managed) \cup alive
    /\ managed' = stuck
    /\ IF stuck = {} THEN runners' = {} /\ pending' = NoTransition /\ published' = NoConfig
                     ELSE UNCHANGED <<runners, pending, published>>
    /\ UNCHANGED boot

----------------------------------------------------------------------------

RuntimeTypeOK(messages) ==
    LET Snapshots == [version : Nat, message : messages \cup {NoMessage}]
    IN  /\ running \subseteq Runners /\ runners \subseteq Runners /\ managed \subseteq Runners
        /\ published \in Snapshots
        /\ pending \in [snapshot : Snapshots, proposed : SUBSET Runners, stopped : SUBSET Runners,
                        started : SUBSET Runners]
        /\ boot \in [snapshot : Snapshots, generation : Nat]

=============================================================================
