--------------------------- MODULE ModbusPolling ---------------------------
(***************************************************************************)
(* Modbus runners that share endpoints: the poll task and start/stop of    *)
(* devices/modbus.py, the admission of devices/budget.py and the pooled    *)
(* connections of drivers/modbus.py.  Everything runs on one event loop: a *)
(* step is what one task does between two awaits, and a task that has been *)
(* cancelled takes its exception at the await it is in, later.             *)
(*                                                                         *)
(* What is read, the poll times and the backoff after a failure are left   *)
(* out: a runner may poll whenever it is in its loop.                      *)
(***************************************************************************)
EXTENDS Naturals, Sequences, FiniteSets

CONSTANTS
    Runners,
    EndpointOf,     \* (host.lower(), port) of each runner's connection
    PoolCapacity,   \* endpoints in a ModbusConnectionPool (50)
    BudgetCapacity, \* reads at once in a ReadBudget (16)
    RetryCount,     \* connection.retry_count
    FallbackMax,    \* single reads in one pass over the blocks (4)
    BlockPoints     \* points of a block

ASSUME PollingAssumption ==
    /\ DOMAIN EndpointOf = Runners /\ IsFiniteSet(Runners) /\ "nobody" \notin Runners
    /\ {PoolCapacity, BudgetCapacity} \subseteq Nat \ {0}
    /\ {RetryCount, FallbackMax, BlockPoints} \subseteq Nat

Endpoints == {EndpointOf[r] : r \in Runners}
Nobody == "nobody"

VARIABLES
    phase,       \* the runner, as its owner sees it
    task,        \* the await the poll task is in
    cancelled,   \* the task has a cancellation coming
    reader,      \* the runner has a reader that is not released
    tries,       \* retries left in this read
    todo,        \* single reads left after an illegal address
    \* ReadBudget
    users,       \* _endpoints[e][1]
    owner,       \* who holds the lock _endpoints[e][0]
    queue,       \* who waits for it, in order
    free,        \* the value of _global
    slots,       \* who waits for it, in order
    \* ModbusConnectionPool
    references,  \* of each entry, 0: there is none
    client,      \* the entry's socket
    unanswered   \* requests sent on this socket whose answer has not arrived

budget == <<users, owner, queue, free, slots>>
pool   == <<references, client, unanswered>>
work   == <<tries, todo>>
vars   == <<phase, task, cancelled, reader, work, budget, pool>>

Phases == {"off", "on", "stopping", "cut off", "stop failed"}
Tasks  == {"none", "created", "loop", "endpoint", "slot", "lock", "connect", "request", "backoff",
           "unwinding", "done"}

InDriver == {"connect", "request", "backoff"}       \* holds the lock of the entry
Admitted == InDriver \cup {"lock"}                  \* holds a slot of the budget
Owning   == Admitted \cup {"slot"}                  \* holds the endpoint's lock
Using    == Owning \cup {"endpoint"}                \* is inside acquire

At(e, S) == {r \in Runners : EndpointOf[r] = e /\ task[r] \in S}

Init ==
    /\ phase = [r \in Runners |-> "off"]
    /\ task = [r \in Runners |-> "none"]
    /\ cancelled = [r \in Runners |-> FALSE]
    /\ reader = [r \in Runners |-> FALSE]
    /\ tries = [r \in Runners |-> 0]
    /\ todo = [r \in Runners |-> 0]
    /\ users = [e \in Endpoints |-> 0]
    /\ owner = [e \in Endpoints |-> Nobody]
    /\ queue = [e \in Endpoints |-> <<>>]
    /\ free = BudgetCapacity
    /\ slots = <<>>
    /\ references = [e \in Endpoints |-> 0]
    /\ client = [e \in Endpoints |-> "none"]
    /\ unanswered = [e \in Endpoints |-> {}]

----------------------------------------------------------------------------
(* ReadBudget *)

Without(r, s) == SelectSeq(s, LAMBDA x : x # r)

(* The finally of acquire: what was acquired is released, and the entry is *)
(* deleted with its last user.                                             *)
LeaveBudget(r) ==
    LET e == EndpointOf[r]
    IN  /\ free' = IF task[r] \in Admitted THEN free + 1 ELSE free
        /\ slots' = Without(r, slots)
        /\ users' = [users EXCEPT ![e] = @ - 1]
        /\ owner' = [owner EXCEPT ![e] = IF task[r] \in Owning \/ users'[e] = 0 THEN Nobody ELSE @]
        /\ queue' = [queue EXCEPT ![e] = IF users'[e] = 0 THEN <<>> ELSE Without(r, @)]

(* A block is due: acquire. *)
Poll(r) ==
    LET e == EndpointOf[r]
    IN  /\ task[r] = "loop" /\ ~cancelled[r]
        /\ users' = [users EXCEPT ![e] = @ + 1]
        /\ queue' = [queue EXCEPT ![e] = Append(@, r)]
        /\ task' = [task EXCEPT ![r] = "endpoint"]
        /\ UNCHANGED <<phase, cancelled, reader, work, owner, free, slots, pool>>

(* The locks of asyncio are first come, first served (external). *)
TakeEndpoint(r) ==
    LET e == EndpointOf[r]
    IN  /\ task[r] = "endpoint" /\ ~cancelled[r]
        /\ owner[e] = Nobody /\ Head(queue[e]) = r
        /\ owner' = [owner EXCEPT ![e] = r]
        /\ queue' = [queue EXCEPT ![e] = Tail(@)]
        /\ slots' = Append(slots, r)
        /\ task' = [task EXCEPT ![r] = "slot"]
        /\ UNCHANGED <<phase, cancelled, reader, work, users, free, pool>>

TakeSlot(r) ==
    /\ task[r] = "slot" /\ ~cancelled[r]
    /\ free > 0 /\ Head(slots) = r
    /\ free' = free - 1
    /\ slots' = Tail(slots)
    /\ task' = [task EXCEPT ![r] = "lock"]
    /\ tries' = [tries EXCEPT ![r] = RetryCount]
    /\ UNCHANGED <<phase, cancelled, reader, todo, users, owner, queue, pool>>

(* The next slot of the block came first, or the configuration changed     *)
(* while the runner waited: the poll is counted as missed.                 *)
Missed(r) ==
    /\ task[r] \in {"endpoint", "slot"} /\ ~cancelled[r]
    /\ LeaveBudget(r)
    /\ task' = [task EXCEPT ![r] = "loop"]
    /\ UNCHANGED <<phase, cancelled, reader, work, pool>>

----------------------------------------------------------------------------
(* ModbusReader *)

Idle(r) == tries' = [tries EXCEPT ![r] = 0] /\ todo' = [todo EXCEPT ![r] = 0]

(* The task leaves read_block, and with it the budget. *)
ReadEnds(r) ==
    /\ LeaveBudget(r) /\ Idle(r)
    /\ task' = [task EXCEPT ![r] = "loop"]

(* The socket of e, after disconnect. *)
Disconnect(e) ==
    /\ client' = [client EXCEPT ![e] = "none"]
    /\ unanswered' = [unanswered EXCEPT ![e] = {}]
    /\ UNCHANGED references

(* A request goes out on the socket of r's endpoint. *)
Send(r) ==
    /\ unanswered' = [unanswered EXCEPT ![EndpointOf[r]] = @ \cup {r}]
    /\ task' = [task EXCEPT ![r] = "request"]

(* _read_once: a request on an open socket, or the connect of a new one if *)
(* there is none or the device has closed it.                              *)
ReadOnce(r) ==
    LET e == EndpointOf[r]
    IN  \/ /\ client[e] = "open"
           /\ Send(r)
           /\ UNCHANGED <<references, client>>
        \/ /\ client' = [client EXCEPT ![e] = "opening"]
           /\ unanswered' = [unanswered EXCEPT ![e] = {}]
           /\ task' = [task EXCEPT ![r] = "connect"]
           /\ UNCHANGED references

(* _read_raw gets the lock of the entry. *)
StartRead(r) ==
    /\ task[r] = "lock" /\ ~cancelled[r]
    /\ At(EndpointOf[r], InDriver) = {}
    /\ ReadOnce(r)
    /\ UNCHANGED <<phase, cancelled, reader, work, budget>>

Connected(r) ==
    /\ task[r] = "connect" /\ ~cancelled[r]
    /\ client' = [client EXCEPT ![EndpointOf[r]] = "open"]
    /\ Send(r)
    /\ UNCHANGED <<phase, cancelled, reader, work, budget, references>>

(* Fault: attempts are not counted. *)
FailedUncounted(r) ==
    \/ /\ tries[r] > 0
       /\ task' = [task EXCEPT ![r] = "backoff"]
       /\ UNCHANGED <<work, budget>>
    \/ tries[r] = 0 /\ ReadEnds(r)

(* Another try after a pause with the lock held, or the end of the read. A *)
(* single read that failed ends the ones after it.                         *)
Failed(r) ==
    \/ /\ tries[r] > 0
       /\ tries' = [tries EXCEPT ![r] = @ - 1]
       /\ task' = [task EXCEPT ![r] = "backoff"]
       /\ UNCHANGED <<todo, budget>>
    \/ tries[r] = 0 /\ ReadEnds(r)

(* BAD_TIMEOUT and BAD_CONNECTION: connect or request timed out, or the    *)
(* connection broke.  The socket is discarded.                             *)
ReadFails(r) ==
    /\ task[r] \in {"connect", "request"} /\ ~cancelled[r]
    /\ Disconnect(EndpointOf[r])
    /\ Failed(r)
    /\ UNCHANGED <<phase, cancelled, reader>>

Retry(r) ==
    /\ task[r] = "backoff" /\ ~cancelled[r]
    /\ ReadOnce(r)
    /\ UNCHANGED <<phase, cancelled, reader, work, budget>>

(* How many single reads a block may get: a block of one point gets none. *)
SingleReads == IF BlockPoints = 1 THEN {} ELSE {n \in 1..FallbackMax : n <= BlockPoints}

(* n single reads are left to do. *)
Singles(r, n) ==
    \/ /\ n > 0
       /\ todo' = [todo EXCEPT ![r] = n]
       /\ tries' = [tries EXCEPT ![r] = 0]
       /\ task' = [task EXCEPT ![r] = "lock"]
       /\ UNCHANGED budget
    \/ n = 0 /\ ReadEnds(r)

(* An answer, with values or with an exception: the socket stays.  After   *)
(* an illegal address the points of the block are read one by one, as many *)
(* as the blocks before it in this pass have left of fallback_budget.      *)
Answered(r) ==
    /\ task[r] = "request" /\ ~cancelled[r]
    /\ unanswered' = [unanswered EXCEPT ![EndpointOf[r]] = @ \ {r}]
    /\ \/ todo[r] > 0 /\ Singles(r, todo[r] - 1)
       \/ todo[r] = 0 /\ \E n \in {0} \cup SingleReads : Singles(r, n)
    /\ UNCHANGED <<phase, cancelled, reader, references, client>>

(* A ModbusException on a socket that is still up: BAD_PROTOCOL, which is  *)
(* not tried again.  The socket is discarded; single reads go on.          *)
Garbled(r) ==
    /\ task[r] = "request" /\ ~cancelled[r]
    /\ Disconnect(EndpointOf[r])
    /\ Singles(r, IF todo[r] > 0 THEN todo[r] - 1 ELSE 0)
    /\ UNCHANGED <<phase, cancelled, reader>>

----------------------------------------------------------------------------
(* ModbusRunner *)

(* ModbusReader.close and ModbusConnectionPool.release *)
CloseReader(r) ==
    LET e == EndpointOf[r]
        last == reader[r] /\ references[e] = 1
    IN  /\ reader' = [reader EXCEPT ![r] = FALSE]
        /\ references' = [references EXCEPT ![e] = IF reader[r] THEN @ - 1 ELSE @]
        /\ client' = [client EXCEPT ![e] = IF last THEN "none" ELSE @]
        /\ unanswered' = [unanswered EXCEPT ![e] = IF last THEN {} ELSE @]

(* ModbusConnectionPool.retain: a new endpoint needs room. *)
Retain(e) ==
    /\ references[e] > 0 \/ Cardinality({x \in Endpoints : references[x] > 0}) < PoolCapacity
    /\ references' = [references EXCEPT ![e] = @ + 1]
    /\ UNCHANGED <<client, unanswered>>

(* start; the task does not run yet. *)
Start(r) ==
    /\ phase[r] = "off"
    /\ Retain(EndpointOf[r])
    /\ reader' = [reader EXCEPT ![r] = TRUE]
    /\ phase' = [phase EXCEPT ![r] = "on"]
    /\ task' = [task EXCEPT ![r] = "created"]
    /\ UNCHANGED <<cancelled, work, budget>>

Begin(r) ==
    /\ task[r] = "created" /\ ~cancelled[r]
    /\ task' = [task EXCEPT ![r] = "loop"]
    /\ UNCHANGED <<phase, cancelled, reader, work, budget, pool>>

(* stop cancels the task and waits for its end. *)
Stop(r) ==
    /\ phase[r] = "on"
    /\ phase' = [phase EXCEPT ![r] = "stopping"]
    /\ cancelled' = [cancelled EXCEPT ![r] = task[r] # "done"]
    /\ UNCHANGED <<task, reader, work, budget, pool>>

(* The timeout of the owner cancels stop.  Its gather cancels the task     *)
(* once more and still waits for it.                                       *)
CutOff(r) ==
    /\ phase[r] = "stopping"
    /\ phase' = [phase EXCEPT ![r] = "cut off"]
    /\ cancelled' = [cancelled EXCEPT ![r] = task[r] # "done"]
    /\ UNCHANGED <<task, reader, work, budget, pool>>

(* Fault: a cancelled request leaves its socket open. *)
CancelledKeeping(r) ==
    /\ cancelled[r] /\ task[r] \in Using \cup {"loop"}
    /\ cancelled' = [cancelled EXCEPT ![r] = FALSE]
    /\ task' = [task EXCEPT ![r] = "unwinding"]
    /\ IF task[r] \in Using THEN LeaveBudget(r) ELSE UNCHANGED budget
    /\ Idle(r)
    /\ UNCHANGED <<phase, reader, pool>>

(* The cancellation is raised at an await of _poll.  In _read_once it      *)
(* discards the socket; the budget is left; the task waits for its monitor.*)
Cancelled(r) ==
    /\ cancelled[r] /\ task[r] \in Using \cup {"loop"}
    /\ cancelled' = [cancelled EXCEPT ![r] = FALSE]
    /\ task' = [task EXCEPT ![r] = "unwinding"]
    /\ IF task[r] \in Using THEN LeaveBudget(r) ELSE UNCHANGED budget
    /\ IF task[r] \in {"connect", "request"} THEN Disconnect(EndpointOf[r]) ELSE UNCHANGED pool
    /\ Idle(r)
    /\ UNCHANGED <<phase, reader>>

(* An error in the loop ends the task. *)
PollFails(r) ==
    /\ task[r] = "loop" /\ ~cancelled[r]
    /\ task' = [task EXCEPT ![r] = "unwinding"]
    /\ UNCHANGED <<phase, cancelled, reader, work, budget, pool>>

(* The end of the finally of _poll. *)
Unwound(r) ==
    /\ task[r] = "unwinding" /\ ~cancelled[r]
    /\ task' = [task EXCEPT ![r] = "done"]
    /\ CloseReader(r)
    /\ UNCHANGED <<phase, cancelled, work, budget>>

(* A task that never ran has no finally, and one that is cancelled in its  *)
(* finally does not get to the close.                                      *)
EndedUnclosed(r) ==
    /\ task[r] \in {"created", "unwinding"} /\ cancelled[r]
    /\ task' = [task EXCEPT ![r] = "done"]
    /\ cancelled' = [cancelled EXCEPT ![r] = FALSE]
    /\ UNCHANGED <<phase, reader, work, budget, pool>>

(* Fault: stop leaves the reader to the task. *)
StopEndsUnclosed(r) ==
    /\ phase[r] = "stopping" /\ task[r] = "done"
    /\ phase' = [phase EXCEPT ![r] = "off"]
    /\ task' = [task EXCEPT ![r] = "none"]
    /\ UNCHANGED <<cancelled, reader, work, budget, pool>>

StopEnds(r) ==
    /\ \/ phase[r] = "stopping" /\ task[r] = "done"
       \/ phase[r] = "stop failed"
    /\ phase' = [phase EXCEPT ![r] = "off"]
    /\ task' = [task EXCEPT ![r] = "none"]
    /\ CloseReader(r)
    /\ UNCHANGED <<cancelled, work, budget>>

(* A stop that was cut off raises; the owner will stop the runner again. *)
StopRaises(r) ==
    /\ phase[r] = "cut off" /\ task[r] = "done"
    /\ phase' = [phase EXCEPT ![r] = "stop failed"]
    /\ task' = [task EXCEPT ![r] = "none"]
    /\ UNCHANGED <<cancelled, reader, work, budget, pool>>

----------------------------------------------------------------------------

(* The steps of a poll task that has been admitted or waits to be. *)
Reading(r) ==
    \/ TakeEndpoint(r) \/ TakeSlot(r)
    \/ StartRead(r) \/ Connected(r) \/ ReadFails(r) \/ Retry(r) \/ Garbled(r)
    \/ Answered(r)

Ending(r) == Cancelled(r) \/ Unwound(r) \/ EndedUnclosed(r) \/ StopEnds(r) \/ StopRaises(r)

Next ==
    \E r \in Runners :
        \/ Start(r) \/ Begin(r) \/ Poll(r) \/ Missed(r) \/ PollFails(r)
        \/ Reading(r) \/ Ending(r)
        \/ Stop(r) \/ CutOff(r)

(* The event loop runs what is ready, and every connect and request has a  *)
(* timeout.  That a waiting poll runs into its deadline is not assumed.    *)
PollingSpec ==
    Init /\ [][Next]_vars /\ \A r \in Runners : WF_vars(Reading(r) \/ Ending(r))

----------------------------------------------------------------------------

PollingTypeOK ==
    /\ phase \in [Runners -> Phases] /\ task \in [Runners -> Tasks]
    /\ cancelled \in [Runners -> BOOLEAN] /\ reader \in [Runners -> BOOLEAN]
    /\ tries \in [Runners -> 0..RetryCount]
    /\ todo \in [Runners -> 0..FallbackMax]
    /\ users \in [Endpoints -> Nat] /\ owner \in [Endpoints -> Runners \cup {Nobody}]
    /\ queue \in [Endpoints -> Seq(Runners)] /\ free \in 0..BudgetCapacity /\ slots \in Seq(Runners)
    /\ references \in [Endpoints -> Nat]
    /\ client \in [Endpoints -> {"none", "opening", "open"}]
    /\ unanswered \in [Endpoints -> SUBSET Runners]

(* No answer can be taken for that of another request: the socket the next *)
(* request of an endpoint will use has no request on it that was given up, *)
(* by a timeout, a cancelled runner or a failed one ("discard the socket   *)
(* while holding its lock, before another unit can reuse the entry").      *)
CleanSocket ==
    \A e \in Endpoints : client[e] = "open" => unanswered[e] = At(e, {"request"})

(* However polls end (answer, failure, deadline, cancellation at any       *)
(* await), the budget is what the reads under way leave of it: endpoints   *)
(* are read one at a time, and a waiter holds no slot.                     *)
BudgetIsExact ==
    /\ free + Cardinality({r \in Runners : task[r] \in Admitted}) = BudgetCapacity
    /\ \A e \in Endpoints :
           /\ users[e] = Cardinality(At(e, Using))
           /\ At(e, Owning) = IF owner[e] = Nobody THEN {} ELSE {owner[e]}

(* A socket or an entry of the pool exists only while a runner that has    *)
(* not been stopped owns it, and whoever reads holds a reference: the      *)
(* assertion in release holds, and stopping every runner, cut off and      *)
(* repeated stops included, leaves nothing open.                           *)
SocketsAreOwned ==
    \A e \in Endpoints :
        LET readers == {r \in Runners : EndpointOf[r] = e /\ reader[r]}
        IN  /\ references[e] = Cardinality(readers)
            /\ At(e, Tasks \ {"none", "done"}) \subseteq readers
            /\ \A r \in readers : phase[r] # "off"
            /\ client[e] # "none" => readers # {}

(* Nothing leaks, neither from the budget nor from the connection pool. *)
NothingLeaks == BudgetIsExact /\ SocketsAreOwned

(* Endpoint lock and slots do not wait for each other: a poll that has     *)
(* asked for the budget leaves it again, even if deadlines never expire    *)
(* and whatever the other runners of the endpoint do.                      *)
PollsEnd == \A r \in Runners : task[r] \in Using ~> task[r] \notin Using

=============================================================================
