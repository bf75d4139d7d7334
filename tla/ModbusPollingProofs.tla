------------------------ MODULE ModbusPollingProofs ------------------------
(***************************************************************************)
(* Proofs about ModbusPolling, for any number of runners, endpoints, slots *)
(* and retries: the budget is exact, sockets and references are owned, and *)
(* no request goes out on a socket that still owes an answer.              *)
(*                                                                         *)
(* The order in which asyncio serves the waiters (queue, slots) plays no   *)
(* part in any of this, so the invariant does not mention them.            *)
(***************************************************************************)
EXTENDS ModbusPolling, FiniteSetTheorems, TLAPS

----------------------------------------------------------------------------
(* The invariant. *)

(* The kinds of the variables the invariant speaks of. *)
Kinds ==
    /\ phase \in [Runners -> Phases] /\ task \in [Runners -> Tasks]
    /\ cancelled \in [Runners -> BOOLEAN] /\ reader \in [Runners -> BOOLEAN]
    /\ users \in [Endpoints -> Nat] /\ owner \in [Endpoints -> Runners \cup {Nobody}]
    /\ free \in Nat
    /\ references \in [Endpoints -> Nat]
    /\ client \in [Endpoints -> {"none", "opening", "open"}]
    /\ unanswered \in [Endpoints -> SUBSET Runners]

(* A runner has a task from start to the end of stop, and a stop that      *)
(* raised has left none.                                                   *)
TaskOfPhase == \A r \in Runners : phase[r] \in {"off", "stop failed"} => task[r] = "none"

(* A socket that is not open owes nothing, and whoever connects does so on *)
(* one that is not open.                                                   *)
FreshSocket ==
    /\ \A e \in Endpoints : client[e] # "open" => unanswered[e] = {}
    /\ \A r \in Runners : task[r] = "connect" => client[EndpointOf[r]] # "open"

PollingInv == Kinds /\ TaskOfPhase /\ FreshSocket /\ CleanSocket /\ NothingLeaks

(* Who holds a slot of the budget, and the readers of an endpoint. *)
Holders == {r \in Runners : task[r] \in Admitted}
Readers(e) == {r \in Runners : EndpointOf[r] = e /\ reader[r]}

----------------------------------------------------------------------------
(* Sets of runners. *)

(* Endpoints are those of the runners, and a runner has one. *)
LEMMA EndpointIn == \A r \in Runners : EndpointOf[r] \in Endpoints
  BY PollingAssumption DEF Endpoints

(* A set of runners is finite, and grows or shrinks by one with a runner. *)
LEMMA CountRunners ==
    ASSUME NEW S \in SUBSET Runners, NEW r \in Runners
    PROVE  /\ Cardinality(S) \in Nat
           /\ r \notin S => Cardinality(S \cup {r}) = Cardinality(S) + 1
           /\ r \in S => Cardinality(S \ {r}) = Cardinality(S) - 1 /\ Cardinality(S) > 0
           /\ Cardinality(S) = 0 <=> S = {}
  <1>1. IsFiniteSet(S)
    BY PollingAssumption, FS_Subset
  <1>2. Cardinality(S) \in Nat /\ (Cardinality(S) = 0 <=> S = {})
    BY <1>1, FS_CardinalityType, FS_EmptySet
  <1>3. ASSUME r \notin S PROVE Cardinality(S \cup {r}) = Cardinality(S) + 1
    BY <1>1, <1>3, FS_AddElement
  <1>4. ASSUME r \in S PROVE Cardinality(S \ {r}) = Cardinality(S) - 1
    BY <1>1, <1>4, FS_RemoveElement
  <1>5. ASSUME r \in S PROVE Cardinality(S) > 0
    BY <1>2, <1>5
  <1> QED
    BY <1>2, <1>3, <1>4, <1>5

(* What a step of the task of r does to the holders of slots. *)
LEMMA MoveHolders ==
    ASSUME Kinds, NEW r \in Runners, NEW b \in Tasks, task' = [task EXCEPT ![r] = b]
    PROVE  /\ Holders \in SUBSET Runners
           /\ r \in Holders <=> task[r] \in Admitted
           /\ Holders' = IF b \in Admitted THEN Holders \cup {r} ELSE Holders \ {r}
  BY DEF Kinds, Holders

(* The budget's conditions in these terms. *)
LEMMA BudgetParts ==
    BudgetIsExact <=>
        /\ free + Cardinality(Holders) = BudgetCapacity
        /\ \A e \in Endpoints :
               /\ users[e] = Cardinality(At(e, Using))
               /\ At(e, Owning) = IF owner[e] = Nobody THEN {} ELSE {owner[e]}
  BY DEF BudgetIsExact, Holders

(* The sets of awaits are nested. *)
LEMMA Nested ==
    /\ Using \in SUBSET Tasks /\ Owning \in SUBSET Using /\ Admitted \in SUBSET Owning
    /\ InDriver \in SUBSET Admitted /\ "loop" \notin Using /\ "unwinding" \notin Using
    /\ "done" \notin Using /\ "none" \notin Using /\ "created" \notin Using
    /\ Using \in SUBSET (Tasks \ {"none", "done"})
    /\ {"connect", "request"} \in SUBSET InDriver
  BY DEF Using, Owning, Admitted, InDriver, Tasks

----------------------------------------------------------------------------
(* The budget. *)

(* A step of a task that neither enters nor leaves any part of the budget. *)
LEMMA BudgetStay ==
    ASSUME Kinds, BudgetIsExact, NEW r \in Runners, NEW b \in Tasks, task' = [task EXCEPT ![r] = b],
           \A S \in {Admitted, Owning, Using} : task[r] \in S <=> b \in S,
           UNCHANGED <<users, owner, free>>
    PROVE  BudgetIsExact'
  <1>1. Holders' = Holders
    BY MoveHolders
  <1>2. ASSUME NEW e \in Endpoints, NEW S \in {Owning, Using}
        PROVE  At(e, S)' = At(e, S)
    BY DEF Kinds, At
  <1>3. ASSUME NEW e \in Endpoints
        PROVE  /\ users'[e] = Cardinality(At(e, Using)')
               /\ At(e, Owning)' = IF owner'[e] = Nobody THEN {} ELSE {owner'[e]}
    BY <1>2, BudgetParts
  <1>4. free' + Cardinality(Holders') = BudgetCapacity
    BY <1>1, BudgetParts
  <1> QED
    BY <1>3, <1>4 DEF BudgetIsExact, Holders

(* The finally of acquire, wherever in acquire or under it the task is. *)
LEMMA BudgetLeave ==
    ASSUME Kinds, BudgetIsExact, NEW r \in Runners, NEW b \in Tasks \ Using,
           task[r] \in Using, task' = [task EXCEPT ![r] = b], LeaveBudget(r)
    PROVE  BudgetIsExact' /\ users' \in [Endpoints -> Nat] /\ free' \in Nat
           /\ owner' \in [Endpoints -> Runners \cup {Nobody}]
  <1> DEFINE e == EndpointOf[r]
  <1>0. e \in Endpoints
    BY EndpointIn
  <1> HIDE DEF e
  <1>1. /\ b \notin Admitted /\ b \notin Owning /\ b \notin Using
        /\ Owning \in SUBSET Tasks /\ Using \in SUBSET Tasks
    BY Nested
  <1>2. free' + Cardinality(Holders') = BudgetCapacity /\ free' \in Nat
    <2>1. free' = IF r \in Holders THEN free + 1 ELSE free
      BY MoveHolders DEF LeaveBudget
    <2>2. Holders' = Holders \ {r} /\ Holders \in SUBSET Runners
      BY <1>1, MoveHolders
    <2>3. free \in Nat /\ free + Cardinality(Holders) = BudgetCapacity
      BY BudgetParts DEF Kinds
    <2>4. CASE r \in Holders
      BY <2>1, <2>2, <2>3, <2>4, CountRunners
    <2>5. CASE r \notin Holders
      <3>1. Holders' = Holders
        BY <2>2, <2>5
      <3> QED
        BY <2>1, <2>3, <2>5, <3>1
    <2> QED
      BY <2>4, <2>5
  <1>3. /\ r \in At(e, Using) /\ At(e, Using) \in SUBSET Runners
        /\ At(e, Using)' = At(e, Using) \ {r} /\ At(e, Owning)' = At(e, Owning) \ {r}
        /\ r \in At(e, Owning) <=> task[r] \in Owning
        /\ At(e, Using)' \in SUBSET Runners
    BY <1>0, <1>1 DEF Kinds, At, e
  <1>4. users[e] = Cardinality(At(e, Using)) /\ users[e] \in Nat
    BY <1>0, BudgetParts DEF Kinds
  <1>5. users'[e] = Cardinality(At(e, Using)') /\ users'[e] \in Nat
    <2>1. users'[e] = users[e] - 1
      BY <1>0 DEF LeaveBudget, Kinds, e
    <2> QED
      BY <1>3, <1>4, <2>1, CountRunners
  <1>6. At(e, Owning) = IF owner[e] = Nobody THEN {} ELSE {owner[e]}
    BY <1>0, BudgetParts
  <1>7. owner'[e] = IF task[r] \in Owning \/ users'[e] = 0 THEN Nobody ELSE owner[e]
    BY <1>0 DEF LeaveBudget, Kinds, e
  <1>8. At(e, Owning)' = IF owner'[e] = Nobody THEN {} ELSE {owner'[e]}
    <2>1. CASE task[r] \in Owning
      BY <1>3, <1>6, <1>7, <2>1
    <2>2. CASE task[r] \notin Owning /\ users'[e] = 0
      <3>1. At(e, Using)' = {}
        BY <1>3, <1>5, <2>2, CountRunners
      <3>2. At(e, Owning)' \subseteq At(e, Using)'
        BY Nested DEF At
      <3> QED
        BY <1>7, <2>2, <3>1, <3>2
    <2>3. CASE task[r] \notin Owning /\ users'[e] # 0
      BY <1>3, <1>6, <1>7, <2>3
    <2> QED
      BY <2>1, <2>2, <2>3
  <1>9. ASSUME NEW x \in Endpoints, x # e
        PROVE  /\ users'[x] = Cardinality(At(x, Using)')
               /\ At(x, Owning)' = IF owner'[x] = Nobody THEN {} ELSE {owner'[x]}
    <2>1. At(x, Using)' = At(x, Using) /\ At(x, Owning)' = At(x, Owning)
      BY <1>1, <1>9 DEF Kinds, At, e
    <2>2. users'[x] = users[x] /\ owner'[x] = owner[x]
      BY <1>9 DEF LeaveBudget, Kinds, e
    <2>3. users[x] = Cardinality(At(x, Using)) /\ At(x, Owning) = IF owner[x] = Nobody THEN {} ELSE {owner[x]}
      BY BudgetParts
    <2> QED
      BY <2>1, <2>2, <2>3
  <1>10. BudgetIsExact'
    BY <1>2, <1>5, <1>8, <1>9 DEF BudgetIsExact, Holders
  <1>11. users' \in [Endpoints -> Nat]
    BY <1>0, <1>5 DEF LeaveBudget, Kinds, e
  <1>12. owner' \in [Endpoints -> Runners \cup {Nobody}]
    BY <1>0 DEF LeaveBudget, Kinds, e
  <1> QED
    BY <1>2, <1>10, <1>11, <1>12

(* A read is admitted step by step. *)
LEMMA BudgetEnter ==
    ASSUME Kinds, BudgetIsExact, NEW r \in Runners, Poll(r) \/ TakeEndpoint(r) \/ TakeSlot(r)
    PROVE  BudgetIsExact' /\ users' \in [Endpoints -> Nat] /\ free' \in Nat
           /\ owner' \in [Endpoints -> Runners \cup {Nobody}]
  <1> DEFINE e == EndpointOf[r]
  <1>0. e \in Endpoints
    BY EndpointIn
  <1> HIDE DEF e
  <1> USE <1>0
  <1>1. ASSUME NEW x \in Endpoints
        PROVE  /\ users[x] = Cardinality(At(x, Using)) /\ users[x] \in Nat
               /\ At(x, Owning) = IF owner[x] = Nobody THEN {} ELSE {owner[x]}
               /\ At(x, Using) \in SUBSET Runners
    BY BudgetParts DEF Kinds, At
  <1>2. /\ free + Cardinality(Holders) = BudgetCapacity /\ free \in Nat
        /\ Holders \in SUBSET Runners /\ Cardinality(Holders) \in Nat
    BY BudgetParts, CountRunners DEF Kinds, Holders
  <1>3. Nobody \notin Runners
    BY PollingAssumption DEF Nobody
  <1>4. CASE Poll(r)
    <2>1. Holders' = Holders /\ free' = free /\ owner' = owner
      BY <1>4 DEF Poll, Holders, Kinds, Admitted, InDriver
    <2>2. \A x \in Endpoints : At(x, Owning)' = At(x, Owning)
      BY <1>4 DEF Poll, At, Kinds, Owning, Admitted, InDriver
    <2>3. /\ At(e, Using)' = At(e, Using) \cup {r} /\ r \notin At(e, Using)
          /\ users' = [users EXCEPT ![e] = users[e] + 1]
      BY <1>4 DEF Poll, At, Kinds, Using, Owning, Admitted, InDriver, e
    <2>4. \A x \in Endpoints \ {e} : At(x, Using)' = At(x, Using)
      BY <1>4 DEF Poll, At, Kinds, e
    <2>5. users'[e] = Cardinality(At(e, Using)')
      <3>1. users'[e] = users[e] + 1
        BY <2>3 DEF Kinds
      <3> QED
        BY <1>1, <2>3, <3>1, CountRunners
    <2>6. \A x \in Endpoints \ {e} : users'[x] = Cardinality(At(x, Using)')
      BY <1>1, <2>3, <2>4 DEF Kinds
    <2>7. BudgetIsExact'
      BY <1>1, <1>2, <2>1, <2>2, <2>5, <2>6 DEF BudgetIsExact, Holders
    <2> QED
      BY <2>1, <2>3, <2>7, <1>1 DEF Kinds
  <1>5. CASE TakeEndpoint(r)
    <2>1. Holders' = Holders /\ free' = free /\ users' = users
      BY <1>5 DEF TakeEndpoint, Holders, Kinds, Admitted, InDriver
    <2>2. \A x \in Endpoints : At(x, Using)' = At(x, Using)
      BY <1>5 DEF TakeEndpoint, At, Kinds, Using, Owning, Admitted, InDriver
    <2>3. /\ At(e, Owning)' = At(e, Owning) \cup {r} /\ owner[e] = Nobody
          /\ owner' = [owner EXCEPT ![e] = r]
      BY <1>5 DEF TakeEndpoint, At, Kinds, Owning, e
    <2>4. \A x \in Endpoints \ {e} : At(x, Owning)' = At(x, Owning)
      BY <1>5 DEF TakeEndpoint, At, Kinds, e
    <2>5. At(e, Owning)' = IF owner'[e] = Nobody THEN {} ELSE {owner'[e]}
      <3>1. owner'[e] = r
        BY <2>3 DEF Kinds
      <3> QED
        BY <1>1, <1>3, <2>3, <3>1
    <2>6. \A x \in Endpoints \ {e} : At(x, Owning)' = IF owner'[x] = Nobody THEN {} ELSE {owner'[x]}
      BY <1>1, <2>3, <2>4 DEF Kinds
    <2>7. BudgetIsExact'
      BY <1>1, <1>2, <2>1, <2>2, <2>5, <2>6 DEF BudgetIsExact, Holders
    <2> QED
      BY <2>1, <2>3, <2>7 DEF Kinds
  <1>6. CASE TakeSlot(r)
    <2>1. /\ Holders' = Holders \cup {r} /\ r \notin Holders
          /\ free' = free - 1 /\ free > 0 /\ users' = users /\ owner' = owner
      BY <1>6 DEF TakeSlot, Holders, Kinds, Admitted, InDriver
    <2>2. \A x \in Endpoints : At(x, Using)' = At(x, Using) /\ At(x, Owning)' = At(x, Owning)
      BY <1>6 DEF TakeSlot, At, Kinds, Using, Owning, Admitted, InDriver
    <2>3. free' + Cardinality(Holders') = BudgetCapacity /\ free' \in Nat
      BY <1>2, <2>1, CountRunners
    <2>7. BudgetIsExact'
      BY <1>1, <2>1, <2>2, <2>3 DEF BudgetIsExact, Holders
    <2> QED
      BY <2>1, <2>3, <2>7 DEF Kinds
  <1> QED
    BY <1>4, <1>5, <1>6

----------------------------------------------------------------------------
(* Readers, references and sockets. *)

(* One task at a time is past the endpoint's lock. *)
LEMMA OneOwnerPerEndpoint ==
    ASSUME Kinds, BudgetIsExact, NEW r \in Runners, NEW s \in Runners,
           EndpointOf[r] = EndpointOf[s], task[r] \in Owning, task[s] \in Owning
    PROVE  r = s
  <1>1. r \in At(EndpointOf[r], Owning) /\ s \in At(EndpointOf[r], Owning)
    BY DEF At
  <1> QED
    BY <1>1, EndpointIn, BudgetParts

(* A step of a running task that keeps phases, readers and references. *)
LEMMA SocketsStay ==
    ASSUME Kinds, SocketsAreOwned, NEW r \in Runners, NEW b \in Tasks \ {"none", "done"},
           task[r] \in Tasks \ {"none", "done"}, task' = [task EXCEPT ![r] = b],
           UNCHANGED <<phase, reader, references>>,
           \A e \in Endpoints \ {EndpointOf[r]} : client'[e] = client[e]
    PROVE  SocketsAreOwned'
  <1> SUFFICES ASSUME NEW e \in Endpoints
               PROVE  /\ references'[e] = Cardinality(Readers(e)')
                      /\ At(e, Tasks \ {"none", "done"})' \subseteq Readers(e)'
                      /\ \A s \in Readers(e)' : phase'[s] # "off"
                      /\ client'[e] # "none" => Readers(e)' # {}
    BY DEF SocketsAreOwned, Readers
  <1>1. Readers(e)' = Readers(e)
    BY DEF Readers
  <1>2. At(e, Tasks \ {"none", "done"})' = At(e, Tasks \ {"none", "done"})
    BY DEF At, Kinds
  <1>3. /\ references[e] = Cardinality(Readers(e))
        /\ At(e, Tasks \ {"none", "done"}) \subseteq Readers(e)
        /\ \A s \in Readers(e) : phase[s] # "off"
        /\ client[e] # "none" => Readers(e) # {}
    BY DEF SocketsAreOwned, Readers
  <1>4. EndpointOf[r] = e => r \in Readers(e)
    BY <1>3 DEF At
  <1> QED
    BY <1>1, <1>2, <1>3, <1>4

(* Sockets and tasks that are not on them. *)
LEMMA PoolStay ==
    ASSUME Kinds, FreshSocket, CleanSocket, NEW r \in Runners, NEW b \in Tasks,
           task' = [task EXCEPT ![r] = b], {task[r], b} \cap {"connect", "request"} = {},
           UNCHANGED <<client, unanswered>>
    PROVE  FreshSocket' /\ CleanSocket'
  BY DEF Kinds, FreshSocket, CleanSocket, At

(* A socket that is discarded. *)
LEMMA PoolDisconnect ==
    ASSUME Kinds, FreshSocket, CleanSocket, NEW r \in Runners, NEW b \in Tasks \ {"connect", "request"},
           task' = [task EXCEPT ![r] = b], Disconnect(EndpointOf[r])
    PROVE  FreshSocket' /\ CleanSocket' /\ references' = references
           /\ client' \in [Endpoints -> {"none", "opening", "open"}]
           /\ unanswered' \in [Endpoints -> SUBSET Runners]
           /\ \A e \in Endpoints \ {EndpointOf[r]} : client'[e] = client[e]
  BY EndpointIn DEF Kinds, FreshSocket, CleanSocket, At, Disconnect

(* The first byte of a read: the lock of the entry, or the endpoint's      *)
(* lock, keeps every other task off the socket.                            *)
LEMMA PoolReadOnce ==
    ASSUME Kinds, FreshSocket, CleanSocket, BudgetIsExact, NEW r \in Runners,
           task[r] \in {"lock", "backoff"}, ReadOnce(r)
    PROVE  FreshSocket' /\ CleanSocket' /\ references' = references
           /\ client' \in [Endpoints -> {"none", "opening", "open"}]
           /\ unanswered' \in [Endpoints -> SUBSET Runners]
           /\ (\A e \in Endpoints \ {EndpointOf[r]} : client'[e] = client[e])
           /\ \E b \in {"connect", "request"} : task' = [task EXCEPT ![r] = b]
  <1> DEFINE e == EndpointOf[r]
  <1>0. e \in Endpoints
    BY EndpointIn
  <1>1. \A s \in Runners : EndpointOf[s] = e => task[s] \notin {"connect", "request"}
    BY OneOwnerPerEndpoint DEF Owning, Admitted, InDriver
  <1> HIDE DEF e
  <1>2. CASE client[e] = "open" /\ Send(r) /\ UNCHANGED <<references, client>>
    <2>1. unanswered[e] = {}
      BY <1>0, <1>1, <1>2 DEF CleanSocket, At
    <2>2. /\ unanswered' = [unanswered EXCEPT ![e] = {r}]
          /\ task' = [task EXCEPT ![r] = "request"]
      BY <1>2, <2>1 DEF Send, e
    <2>3. CleanSocket'
      BY <1>0, <1>1, <1>2, <2>2 DEF Kinds, CleanSocket, At, e
    <2>4. FreshSocket'
      BY <1>0, <1>2, <2>2 DEF Kinds, FreshSocket, e
    <2> QED
      BY <1>0, <1>2, <2>2, <2>3, <2>4 DEF Kinds, e
  <1>3. CASE /\ client' = [client EXCEPT ![e] = "opening"]
             /\ unanswered' = [unanswered EXCEPT ![e] = {}]
             /\ task' = [task EXCEPT ![r] = "connect"]
             /\ UNCHANGED references
    <2>1. CleanSocket'
      BY <1>0, <1>1, <1>3 DEF Kinds, CleanSocket, At, e
    <2>2. FreshSocket'
      BY <1>0, <1>3 DEF Kinds, FreshSocket, e
    <2> QED
      BY <1>0, <1>3, <2>1, <2>2 DEF Kinds, e
  <1> QED
    BY <1>2, <1>3 DEF ReadOnce, e

(* A new socket is open and the request goes out on it. *)
LEMMA PoolConnected ==
    ASSUME Kinds, FreshSocket, CleanSocket, BudgetIsExact, NEW r \in Runners, Connected(r)
    PROVE  FreshSocket' /\ CleanSocket' /\ references' = references
           /\ client' \in [Endpoints -> {"none", "opening", "open"}]
           /\ unanswered' \in [Endpoints -> SUBSET Runners]
           /\ (\A e \in Endpoints \ {EndpointOf[r]} : client'[e] = client[e])
           /\ task' = [task EXCEPT ![r] = "request"]
  <1> DEFINE e == EndpointOf[r]
  <1>0. e \in Endpoints
    BY EndpointIn
  <1>1. \A s \in Runners \ {r} : EndpointOf[s] = e => task[s] \notin {"connect", "request"}
    BY OneOwnerPerEndpoint DEF Owning, Admitted, InDriver, Connected
  <1> HIDE DEF e
  <1>2. /\ task[r] = "connect" /\ client' = [client EXCEPT ![e] = "open"]
        /\ unanswered' = [unanswered EXCEPT ![e] = unanswered[e] \cup {r}]
        /\ task' = [task EXCEPT ![r] = "request"] /\ references' = references
    BY DEF Connected, Send, e
  <1>3. unanswered[e] = {}
    BY <1>0, <1>2 DEF FreshSocket, e
  <1>4. CleanSocket'
    BY <1>0, <1>1, <1>2, <1>3 DEF Kinds, CleanSocket, At, e
  <1>5. FreshSocket'
    BY <1>0, <1>1, <1>2 DEF Kinds, FreshSocket, e
  <1> QED
    BY <1>0, <1>2, <1>4, <1>5 DEF Kinds, e

(* An answer arrives: its request is not owed any more. *)
LEMMA PoolAnswered ==
    ASSUME Kinds, FreshSocket, CleanSocket, NEW r \in Runners, NEW b \in Tasks \ {"connect", "request"},
           task[r] = "request", task' = [task EXCEPT ![r] = b], client' = client,
           unanswered' = [unanswered EXCEPT ![EndpointOf[r]] = @ \ {r}]
    PROVE  FreshSocket' /\ CleanSocket' /\ unanswered' \in [Endpoints -> SUBSET Runners]
  BY EndpointIn DEF Kinds, FreshSocket, CleanSocket, At

(* close and release: the last reference takes the socket with it. *)
LEMMA PoolClose ==
    ASSUME Kinds, FreshSocket, CleanSocket, SocketsAreOwned,
           NEW r \in Runners, NEW b \in {"none", "done"}, NEW p \in Phases,
           task[r] \in {"none", "done", "unwinding"}, task' = [task EXCEPT ![r] = b],
           phase' = [phase EXCEPT ![r] = p], CloseReader(r)
    PROVE  FreshSocket' /\ CleanSocket' /\ SocketsAreOwned'
           /\ reader' \in [Runners -> BOOLEAN] /\ references' \in [Endpoints -> Nat]
           /\ client' \in [Endpoints -> {"none", "opening", "open"}]
           /\ unanswered' \in [Endpoints -> SUBSET Runners]
  <1> DEFINE e == EndpointOf[r]
             last == reader[r] /\ references[e] = 1
  <1>0. e \in Endpoints
    BY EndpointIn
  <1>1. /\ reader' = [reader EXCEPT ![r] = FALSE]
        /\ references' = [references EXCEPT ![e] = IF reader[r] THEN references[e] - 1 ELSE references[e]]
        /\ client' = [client EXCEPT ![e] = IF last THEN "none" ELSE client[e]]
        /\ unanswered' = [unanswered EXCEPT ![e] = IF last THEN {} ELSE unanswered[e]]
    BY DEF CloseReader
  <1>2. ASSUME NEW x \in Endpoints
        PROVE  /\ references[x] = Cardinality(Readers(x)) /\ references[x] \in Nat
               /\ At(x, Tasks \ {"none", "done"}) \subseteq Readers(x)
               /\ \A s \in Readers(x) : phase[s] # "off"
               /\ client[x] # "none" => Readers(x) # {}
               /\ Readers(x) \in SUBSET Runners
    BY DEF SocketsAreOwned, Readers, Kinds
  <1>3. /\ Readers(e)' = Readers(e) \ {r} /\ (r \in Readers(e) <=> reader[r])
        /\ \A x \in Endpoints \ {e} : Readers(x)' = Readers(x)
    BY <1>1 DEF Readers, Kinds
  <1> HIDE DEF e, last
  <1>4. /\ references'[e] = IF reader[r] THEN references[e] - 1 ELSE references[e]
        /\ client'[e] = IF last THEN "none" ELSE client[e]
        /\ unanswered'[e] = IF last THEN {} ELSE unanswered[e]
        /\ \A x \in Endpoints \ {e} : /\ references'[x] = references[x] /\ client'[x] = client[x]
                                      /\ unanswered'[x] = unanswered[x]
    BY <1>0, <1>1 DEF Kinds
  <1>5. \A x \in Endpoints : At(x, {"request"})' = At(x, {"request"})
    BY DEF At, Kinds
  <1>6. CleanSocket'
    <2>1. ASSUME NEW x \in Endpoints, client'[x] = "open" PROVE unanswered'[x] = At(x, {"request"})
      BY <1>4, <2>1 DEF CleanSocket
    <2> QED
      BY <1>5, <2>1 DEF CleanSocket
  <1>7. FreshSocket'
    <2>1. ASSUME NEW s \in Runners, task'[s] = "connect" PROVE client'[EndpointOf[s]] # "open"
      <3>1. task[s] = "connect" /\ EndpointOf[s] \in Endpoints
        BY <2>1, EndpointIn DEF Kinds
      <3> QED
        BY <1>4, <3>1 DEF FreshSocket
    <2>2. ASSUME NEW x \in Endpoints, client'[x] # "open" PROVE unanswered'[x] = {}
      BY <1>4, <2>2 DEF FreshSocket
    <2> QED
      BY <2>1, <2>2 DEF FreshSocket
  <1>8. /\ references'[e] = Cardinality(Readers(e)') /\ references'[e] \in Nat
        /\ client'[e] # "none" => Readers(e)' # {}
    <2>1. CASE reader[r]
      <3>1. /\ Cardinality(Readers(e)') = references[e] - 1 /\ references[e] > 0
            /\ Cardinality(Readers(e)') = 0 <=> Readers(e)' = {}
        BY <1>0, <1>2, <1>3, <2>1, CountRunners
      <3>2. references'[e] = references[e] - 1
        BY <1>4, <2>1
      <3>3. references[e] \in Nat
        BY <1>0, <1>2
      <3>4. CASE references[e] = 1
        BY <1>4, <2>1, <3>1, <3>2, <3>3, <3>4 DEF last
      <3>5. CASE references[e] # 1
        <4>1. references[e] - 1 # 0 /\ references[e] - 1 \in Nat
          BY <3>1, <3>3, <3>5
        <4>2. Readers(e)' # {}
          BY <3>1, <4>1
        <4> QED
          BY <3>1, <3>2, <4>1, <4>2
      <3> QED
        BY <3>4, <3>5
    <2>2. CASE ~reader[r]
      <3>1. r \notin Readers(e)
        BY <2>2 DEF Readers
      <3>2. Readers(e)' = Readers(e)
        BY <1>3, <3>1
      <3>3. ~last
        BY <2>2 DEF last
      <3> QED
        BY <1>0, <1>2, <1>4, <2>2, <3>2, <3>3
    <2> QED
      BY <2>1, <2>2
  <1>9. \A x \in Endpoints : At(x, Tasks \ {"none", "done"})' \subseteq Readers(x)'
    <2>1. ASSUME NEW x \in Endpoints
          PROVE  At(x, Tasks \ {"none", "done"})' \subseteq At(x, Tasks \ {"none", "done"}) \ {r}
      BY DEF At, Kinds
    <2>2. ASSUME NEW x \in Endpoints
          PROVE  Readers(x) \ {r} \subseteq Readers(x)'
      BY <1>1 DEF Readers, Kinds
    <2> QED
      BY <1>2, <2>1, <2>2
  <1>10. \A x \in Endpoints : \A s \in Readers(x)' : phase'[s] # "off"
    <2>1. \A s \in Runners \ {r} : phase'[s] = phase[s]
      BY DEF Kinds
    <2>2. \A x \in Endpoints : Readers(x)' \subseteq Readers(x) \ {r}
      BY <1>1 DEF Readers, Kinds
    <2> QED
      BY <1>2, <2>1, <2>2
  <1>11. SocketsAreOwned'
    <2>1. \A x \in Endpoints : /\ references'[x] = Cardinality(Readers(x)')
                               /\ client'[x] # "none" => Readers(x)' # {}
      BY <1>2, <1>3, <1>4, <1>8
    <2> QED
      BY <1>9, <1>10, <2>1 DEF SocketsAreOwned, Readers
  <1>12. references' \in [Endpoints -> Nat]
    BY <1>0, <1>1, <1>4, <1>8 DEF Kinds
  <1> QED
    BY <1>0, <1>1, <1>6, <1>7, <1>11, <1>12 DEF Kinds

----------------------------------------------------------------------------
(* The steps. *)

(* A running task moves on and keeps its runner's phase and reader: what   *)
(* is left to show of such a step is what it does to budget and sockets.   *)
LEMMA TaskMoves ==
    ASSUME PollingInv, NEW r \in Runners, NEW b \in Tasks \ {"none", "done"},
           task[r] \in Tasks \ {"none", "done"}, task' = [task EXCEPT ![r] = b],
           UNCHANGED <<phase, reader, references>>, cancelled' \in [Runners -> BOOLEAN],
           users' \in [Endpoints -> Nat], owner' \in [Endpoints -> Runners \cup {Nobody}], free' \in Nat,
           client' \in [Endpoints -> {"none", "opening", "open"}],
           unanswered' \in [Endpoints -> SUBSET Runners],
           \A e \in Endpoints \ {EndpointOf[r]} : client'[e] = client[e],
           BudgetIsExact', FreshSocket', CleanSocket'
    PROVE  PollingInv'
  <1>1. Kinds'
    BY DEF Kinds, PollingInv
  <1>2. TaskOfPhase'
    BY DEF TaskOfPhase, PollingInv, Kinds
  <1>3. SocketsAreOwned'
    BY SocketsStay DEF PollingInv, NothingLeaks
  <1> QED
    BY <1>1, <1>2, <1>3 DEF PollingInv, NothingLeaks

(* The end of a read, whatever became of its socket. *)
LEMMA ReadEndsStep ==
    ASSUME PollingInv, NEW r \in Runners, task[r] \in Using, LeaveBudget(r),
           NEW b \in {"loop", "unwinding"}, task' = [task EXCEPT ![r] = b],
           UNCHANGED <<phase, reader>>, cancelled' \in [Runners -> BOOLEAN],
           \/ Disconnect(EndpointOf[r])
           \/ task[r] \notin {"connect", "request"} /\ UNCHANGED pool
           \/ /\ task[r] = "request" /\ UNCHANGED <<client, references>>
              /\ unanswered' = [unanswered EXCEPT ![EndpointOf[r]] = @ \ {r}]
    PROVE  PollingInv'
  <1>0. /\ b \in Tasks \ Using /\ b \in Tasks \ {"none", "done"} /\ b \in Tasks \ {"connect", "request"}
        /\ task[r] \in Tasks \ {"none", "done"}
    BY Nested DEF Tasks
  <1> USE DEF PollingInv, NothingLeaks
  <1>1. BudgetIsExact' /\ users' \in [Endpoints -> Nat] /\ free' \in Nat
        /\ owner' \in [Endpoints -> Runners \cup {Nobody}]
    BY <1>0, BudgetLeave
  <1>2. /\ FreshSocket' /\ CleanSocket' /\ references' = references
        /\ client' \in [Endpoints -> {"none", "opening", "open"}]
        /\ unanswered' \in [Endpoints -> SUBSET Runners]
        /\ \A e \in Endpoints \ {EndpointOf[r]} : client'[e] = client[e]
    <2>1. CASE Disconnect(EndpointOf[r])
      BY <1>0, <2>1, PoolDisconnect
    <2>2. CASE task[r] \notin {"connect", "request"} /\ UNCHANGED pool
      BY <1>0, <2>2, PoolStay DEF pool, Kinds
    <2>3. CASE /\ task[r] = "request" /\ UNCHANGED <<client, references>>
               /\ unanswered' = [unanswered EXCEPT ![EndpointOf[r]] = @ \ {r}]
      BY <1>0, <2>3, PoolAnswered DEF Kinds
    <2> QED
      BY <2>1, <2>2, <2>3
  <1> QED
    BY <1>0, <1>1, <1>2, TaskMoves

(* A read that goes on under the locks it holds: the budget does not move. *)
LEMMA ReadGoesOnStep ==
    ASSUME PollingInv, NEW r \in Runners, task[r] \in Admitted,
           NEW b \in Admitted, task' = [task EXCEPT ![r] = b],
           UNCHANGED <<phase, cancelled, reader, users, owner, free>>, references' = references,
           FreshSocket', CleanSocket',
           client' \in [Endpoints -> {"none", "opening", "open"}],
           unanswered' \in [Endpoints -> SUBSET Runners],
           \A e \in Endpoints \ {EndpointOf[r]} : client'[e] = client[e]
    PROVE  PollingInv'
  <1> USE DEF PollingInv, NothingLeaks
  <1>1. /\ b \in Tasks \ {"none", "done"} /\ task[r] \in Tasks \ {"none", "done"}
        /\ \A S \in {Admitted, Owning, Using} : task[r] \in S /\ b \in S
    BY Nested
  <1>2. BudgetIsExact'
    BY <1>1, BudgetStay
  <1>3. /\ users' \in [Endpoints -> Nat] /\ owner' \in [Endpoints -> Runners \cup {Nobody}]
        /\ free' \in Nat /\ cancelled' \in [Runners -> BOOLEAN]
    BY DEF Kinds
  <1> QED
    BY <1>1, <1>2, <1>3, TaskMoves

(* Getting in: a poll, its endpoint, its slot. *)
LEMMA EnterStep ==
    ASSUME PollingInv, NEW r \in Runners, Poll(r) \/ TakeEndpoint(r) \/ TakeSlot(r)
    PROVE  PollingInv'
  <1> USE DEF PollingInv, NothingLeaks
  <1>1. BudgetIsExact' /\ users' \in [Endpoints -> Nat] /\ free' \in Nat
        /\ owner' \in [Endpoints -> Runners \cup {Nobody}]
    BY BudgetEnter
  <1>2. PICK b \in {"endpoint", "slot", "lock"} : task' = [task EXCEPT ![r] = b]
    BY DEF Poll, TakeEndpoint, TakeSlot
  <1>3. task[r] \in {"loop", "endpoint", "slot"} /\ UNCHANGED <<phase, cancelled, reader, pool>>
    BY DEF Poll, TakeEndpoint, TakeSlot
  <1>4. /\ b \in Tasks \ {"none", "done"} /\ task[r] \in Tasks \ {"none", "done"}
        /\ {task[r], b} \cap {"connect", "request"} = {}
    BY <1>2, <1>3 DEF Tasks
  <1>5. FreshSocket' /\ CleanSocket'
    BY <1>2, <1>3, <1>4, PoolStay DEF pool
  <1> QED
    BY <1>1, <1>2, <1>3, <1>4, <1>5, TaskMoves DEF pool, Kinds

(* Reads and their ends. *)
LEMMA ReadingStep ==
    ASSUME PollingInv, NEW r \in Runners,
           \/ Missed(r) \/ StartRead(r) \/ Connected(r) \/ ReadFails(r) \/ Retry(r)
           \/ Answered(r) \/ Garbled(r)
    PROVE  PollingInv'
  <1> USE DEF PollingInv, NothingLeaks
  <1>0. /\ {"lock", "connect", "request", "backoff"} \subseteq Admitted
        /\ {"lock", "connect", "request", "backoff", "endpoint", "slot"} \subseteq Using
        /\ {"lock", "backoff"} \subseteq Tasks \ {"connect", "request"}
    BY DEF Admitted, InDriver, Using, Owning, Tasks
  <1>1. CASE Missed(r)
    BY <1>0, <1>1, ReadEndsStep DEF Missed, Kinds
  <1>2. CASE StartRead(r)
    <2>0. task[r] \in {"lock", "backoff"} /\ ReadOnce(r) /\ UNCHANGED <<phase, cancelled, reader, budget>>
      BY <1>2 DEF StartRead
    <2>1. /\ FreshSocket' /\ CleanSocket' /\ references' = references
          /\ client' \in [Endpoints -> {"none", "opening", "open"}]
          /\ unanswered' \in [Endpoints -> SUBSET Runners]
          /\ \A e \in Endpoints \ {EndpointOf[r]} : client'[e] = client[e]
          /\ \E b \in {"connect", "request"} : task' = [task EXCEPT ![r] = b]
      BY <2>0, PoolReadOnce
    <2>2. PICK b \in {"connect", "request"} : task' = [task EXCEPT ![r] = b]
      BY <2>1
    <2> QED
      BY <1>0, <2>0, <2>1, <2>2, ReadGoesOnStep DEF budget
  <1>3. CASE Connected(r)
    <2>0. task[r] = "connect" /\ UNCHANGED <<phase, cancelled, reader, budget>>
      BY <1>3 DEF Connected
    <2>1. /\ FreshSocket' /\ CleanSocket' /\ references' = references
          /\ client' \in [Endpoints -> {"none", "opening", "open"}]
          /\ unanswered' \in [Endpoints -> SUBSET Runners]
          /\ \A e \in Endpoints \ {EndpointOf[r]} : client'[e] = client[e]
          /\ task' = [task EXCEPT ![r] = "request"]
      BY <1>3, PoolConnected
    <2> QED
      BY <1>0, <2>0, <2>1, ReadGoesOnStep DEF budget
  <1>4. CASE ReadFails(r)
    <2>1. CASE task' = [task EXCEPT ![r] = "backoff"] /\ UNCHANGED budget
      BY <1>0, <1>4, <2>1, PoolDisconnect, ReadGoesOnStep DEF ReadFails, budget
    <2>2. CASE ReadEnds(r)
      BY <1>0, <1>4, <2>2, ReadEndsStep DEF ReadFails, ReadEnds, Kinds
    <2> QED
      BY <1>4, <2>1, <2>2 DEF ReadFails, Failed
  <1>5. CASE Retry(r)
    <2>0. task[r] \in {"lock", "backoff"} /\ ReadOnce(r) /\ UNCHANGED <<phase, cancelled, reader, budget>>
      BY <1>5 DEF Retry
    <2>1. /\ FreshSocket' /\ CleanSocket' /\ references' = references
          /\ client' \in [Endpoints -> {"none", "opening", "open"}]
          /\ unanswered' \in [Endpoints -> SUBSET Runners]
          /\ \A e \in Endpoints \ {EndpointOf[r]} : client'[e] = client[e]
          /\ \E b \in {"connect", "request"} : task' = [task EXCEPT ![r] = b]
      BY <2>0, PoolReadOnce
    <2>2. PICK b \in {"connect", "request"} : task' = [task EXCEPT ![r] = b]
      BY <2>1
    <2> QED
      BY <1>0, <2>0, <2>1, <2>2, ReadGoesOnStep DEF budget
  <1>6. CASE Answered(r)
    <2>0. \E n : Singles(r, n)
      BY <1>6 DEF Answered
    <2>1. CASE task' = [task EXCEPT ![r] = "lock"] /\ UNCHANGED budget
      <3>1. FreshSocket' /\ CleanSocket' /\ unanswered' \in [Endpoints -> SUBSET Runners]
        BY <1>0, <1>6, <2>1, PoolAnswered DEF Answered
      <3> QED
        BY <1>0, <1>6, <2>1, <3>1, ReadGoesOnStep DEF Answered, budget, Kinds
    <2>2. CASE ReadEnds(r)
      BY <1>0, <1>6, <2>2, ReadEndsStep DEF Answered, ReadEnds, Kinds
    <2> QED
      BY <2>0, <2>1, <2>2 DEF Singles
  <1>7. CASE Garbled(r)
    <2>1. CASE task' = [task EXCEPT ![r] = "lock"] /\ UNCHANGED budget
      BY <1>0, <1>7, <2>1, PoolDisconnect, ReadGoesOnStep DEF Garbled, budget
    <2>2. CASE ReadEnds(r)
      BY <1>0, <1>7, <2>2, ReadEndsStep DEF Garbled, ReadEnds, Kinds
    <2> QED
      BY <1>7, <2>1, <2>2 DEF Garbled, Singles
  <1> QED
    BY <1>1, <1>2, <1>3, <1>4, <1>5, <1>6, <1>7

(* A cancellation, at whichever await it is raised. *)
LEMMA CancelledStep ==
    ASSUME PollingInv, NEW r \in Runners, Cancelled(r)
    PROVE  PollingInv'
  <1> USE DEF PollingInv, NothingLeaks
  <1>0. cancelled' \in [Runners -> BOOLEAN] /\ {"connect", "request"} \subseteq Using
    BY Nested DEF Cancelled, Kinds
  <1>1. CASE task[r] \in Using
    BY <1>0, <1>1, ReadEndsStep DEF Cancelled
  <1>2. CASE task[r] = "loop" /\ task[r] \notin Using
    <2>1. /\ UNCHANGED budget /\ UNCHANGED pool /\ task' = [task EXCEPT ![r] = "unwinding"]
          /\ UNCHANGED <<phase, reader>>
      BY <1>0, <1>2 DEF Cancelled
    <2>2. /\ "unwinding" \in Tasks \ {"none", "done"} /\ task[r] \in Tasks \ {"none", "done"}
          /\ \A S \in {Admitted, Owning, Using} : task[r] \in S <=> "unwinding" \in S
      BY <1>2, Nested DEF Tasks
    <2>3. BudgetIsExact'
      BY <2>1, <2>2, BudgetStay DEF budget
    <2>4. FreshSocket' /\ CleanSocket'
      BY <1>2, <2>1, <2>2, PoolStay DEF pool
    <2> QED
      BY <1>0, <2>1, <2>2, <2>3, <2>4, TaskMoves DEF budget, pool, Kinds
  <1> QED
    BY <1>1, <1>2 DEF Cancelled

(* The task of a runner begins its loop, or leaves it with an error. *)
LEMMA LoopStep ==
    ASSUME PollingInv, NEW r \in Runners, Begin(r) \/ PollFails(r)
    PROVE  PollingInv'
  <1> USE DEF PollingInv, NothingLeaks
  <1>1. PICK b \in {"loop", "unwinding"} : task' = [task EXCEPT ![r] = b]
    BY DEF Begin, PollFails
  <1>2. task[r] \in {"created", "loop"} /\ UNCHANGED <<phase, cancelled, reader, budget, pool>>
    BY DEF Begin, PollFails
  <1>3. /\ b \in Tasks \ {"none", "done"} /\ task[r] \in Tasks \ {"none", "done"}
        /\ \A S \in {Admitted, Owning, Using} : task[r] \in S <=> b \in S
        /\ {task[r], b} \cap {"connect", "request"} = {}
    BY <1>1, <1>2, Nested DEF Tasks
  <1>4. BudgetIsExact'
    BY <1>1, <1>2, <1>3, BudgetStay DEF budget
  <1>5. FreshSocket' /\ CleanSocket'
    BY <1>1, <1>2, <1>3, PoolStay DEF pool
  <1> QED
    BY <1>1, <1>2, <1>3, <1>4, <1>5, TaskMoves DEF budget, pool, Kinds

(* A task that ends without its close, a stop and its end: sockets and     *)
(* budget stay, and the runner is not off.                                 *)
LEMMA OwnerStep ==
    ASSUME PollingInv, NEW r \in Runners, NEW p \in Phases \ {"off"}, NEW b \in Tasks,
           phase' = [phase EXCEPT ![r] = p], task' = [task EXCEPT ![r] = b],
           b = task[r] \/ (b \in {"none", "done"} /\ task[r] \notin Using),
           p = "stop failed" => b = "none",
           cancelled' \in [Runners -> BOOLEAN], UNCHANGED <<reader, budget, pool>>
    PROVE  PollingInv'
  <1> USE DEF PollingInv, NothingLeaks
  <1>1. Kinds'
    BY DEF Kinds, budget, pool
  <1>2. TaskOfPhase'
    BY DEF TaskOfPhase, Kinds
  <1>3. /\ \A S \in {Admitted, Owning, Using} : task[r] \in S <=> b \in S
        /\ b = task[r] \/ {task[r], b} \cap {"connect", "request"} = {}
    BY Nested
  <1>4. BudgetIsExact'
    BY <1>3, BudgetStay DEF budget
  <1>5. FreshSocket' /\ CleanSocket'
    <2>1. CASE b = task[r]
      <3>1. task' = task
        BY <2>1 DEF Kinds
      <3> QED
        BY <3>1 DEF FreshSocket, CleanSocket, At, pool
    <2>2. CASE b # task[r]
      BY <1>3, <2>2, PoolStay DEF pool
    <2> QED
      BY <2>1, <2>2
  <1>6. SocketsAreOwned'
    <2> SUFFICES ASSUME NEW e \in Endpoints
                 PROVE  /\ references'[e] = Cardinality(Readers(e)')
                        /\ At(e, Tasks \ {"none", "done"})' \subseteq Readers(e)'
                        /\ \A s \in Readers(e)' : phase'[s] # "off"
                        /\ client'[e] # "none" => Readers(e)' # {}
      BY DEF SocketsAreOwned, Readers
    <2>1. Readers(e)' = Readers(e) /\ references'[e] = references[e] /\ client'[e] = client[e]
      BY DEF Readers, pool
    <2>2. At(e, Tasks \ {"none", "done"})' \subseteq At(e, Tasks \ {"none", "done"})
      BY DEF At, Kinds
    <2>3. /\ references[e] = Cardinality(Readers(e))
          /\ At(e, Tasks \ {"none", "done"}) \subseteq Readers(e)
          /\ \A s \in Readers(e) : phase[s] # "off"
          /\ client[e] # "none" => Readers(e) # {}
      BY DEF SocketsAreOwned, Readers
    <2>4. \A s \in Readers(e) : phase'[s] # "off"
      BY <2>3 DEF Kinds, Readers
    <2> QED
      BY <2>1, <2>2, <2>3, <2>4
  <1> QED
    BY <1>1, <1>2, <1>4, <1>5, <1>6

(* The actions this covers. *)
LEMMA StopStep ==
    ASSUME PollingInv, NEW r \in Runners, Stop(r) \/ CutOff(r) \/ EndedUnclosed(r) \/ StopRaises(r)
    PROVE  PollingInv'
  <1>0. /\ phase \in [Runners -> Phases] /\ task \in [Runners -> Tasks]
        /\ cancelled \in [Runners -> BOOLEAN] /\ TaskOfPhase
        /\ phase[r] \in Phases /\ task[r] \in Tasks
        /\ {"stopping", "cut off", "stop failed"} \subseteq Phases \ {"off"}
        /\ {"none", "done"} \subseteq Tasks
    BY DEF PollingInv, Kinds, Phases, Tasks
  <1>1. CASE Stop(r) \/ CutOff(r)
    <2>1. PICK p \in {"stopping", "cut off"} : phase' = [phase EXCEPT ![r] = p]
      BY <1>1 DEF Stop, CutOff
    <2>2. /\ task' = [task EXCEPT ![r] = task[r]]
          /\ cancelled' \in [Runners -> BOOLEAN] /\ UNCHANGED <<reader, budget, pool>>
      BY <1>0, <1>1 DEF Stop, CutOff
    <2> QED
      BY <1>0, <2>1, <2>2, OwnerStep
  <1>2. CASE EndedUnclosed(r)
    <2>1. /\ phase' = [phase EXCEPT ![r] = phase[r]] /\ task' = [task EXCEPT ![r] = "done"]
          /\ cancelled' \in [Runners -> BOOLEAN] /\ UNCHANGED <<reader, budget, pool>>
          /\ task[r] \in {"created", "unwinding"}
      BY <1>0, <1>2 DEF EndedUnclosed
    <2>2. phase[r] \notin {"off", "stop failed"} /\ task[r] \notin Using
      BY <1>0, <2>1, Nested DEF TaskOfPhase
    <2> QED
      BY <1>0, <2>1, <2>2, OwnerStep
  <1>3. CASE StopRaises(r)
    <2>1. /\ phase' = [phase EXCEPT ![r] = "stop failed"] /\ task' = [task EXCEPT ![r] = "none"]
          /\ cancelled' \in [Runners -> BOOLEAN] /\ UNCHANGED <<reader, budget, pool>>
          /\ task[r] \notin Using
      BY <1>0, <1>3, Nested DEF StopRaises
    <2> QED
      BY <1>0, <2>1, OwnerStep
  <1> QED
    BY <1>1, <1>2, <1>3

(* The close at the end of the task, and the one at the end of stop. *)
LEMMA CloseStep ==
    ASSUME PollingInv, NEW r \in Runners, Unwound(r) \/ StopEnds(r)
    PROVE  PollingInv'
  <1> USE DEF PollingInv, NothingLeaks
  <1>1. /\ UNCHANGED <<cancelled, budget>> /\ CloseReader(r)
        /\ task[r] \in {"none", "done", "unwinding"}
        /\ \E p \in Phases, b \in {"none", "done"} :
              /\ phase' = [phase EXCEPT ![r] = p] /\ task' = [task EXCEPT ![r] = b]
              /\ p \in {"off", "stop failed"} => b = "none"
    <2>1. CASE Unwound(r)
      <3>1. /\ phase' = [phase EXCEPT ![r] = phase[r]] /\ task' = [task EXCEPT ![r] = "done"]
            /\ phase[r] \in Phases /\ phase[r] \notin {"off", "stop failed"}
        BY <2>1 DEF Unwound, Kinds, TaskOfPhase
      <3> QED
        BY <2>1, <3>1 DEF Unwound
    <2>2. CASE StopEnds(r)
      <3>1. phase' = [phase EXCEPT ![r] = "off"] /\ task' = [task EXCEPT ![r] = "none"]
            /\ task[r] \in {"none", "done"} /\ "off" \in Phases
        BY <2>2 DEF StopEnds, TaskOfPhase, Phases
      <3> QED
        BY <2>2, <3>1 DEF StopEnds
    <2> QED
      BY <2>1, <2>2
  <1>2. PICK p \in Phases, b \in {"none", "done"} :
              /\ phase' = [phase EXCEPT ![r] = p] /\ task' = [task EXCEPT ![r] = b]
              /\ p \in {"off", "stop failed"} => b = "none"
    BY <1>1
  <1>3. /\ b \in Tasks /\ b \in Tasks \ Using
        /\ \A S \in {Admitted, Owning, Using} : task[r] \in S <=> b \in S
    BY <1>1, Nested DEF Tasks
  <1>4. BudgetIsExact'
    BY <1>1, <1>2, <1>3, BudgetStay DEF budget
  <1>5. /\ FreshSocket' /\ CleanSocket' /\ SocketsAreOwned'
        /\ reader' \in [Runners -> BOOLEAN] /\ references' \in [Endpoints -> Nat]
        /\ client' \in [Endpoints -> {"none", "opening", "open"}]
        /\ unanswered' \in [Endpoints -> SUBSET Runners]
    BY <1>1, <1>2, PoolClose
  <1>6. Kinds'
    BY <1>1, <1>2, <1>3, <1>5 DEF Kinds, budget
  <1>7. TaskOfPhase'
    BY <1>2 DEF TaskOfPhase, Kinds
  <1> QED
    BY <1>4, <1>5, <1>6, <1>7

(* start: one more reference, for one more reader. *)
LEMMA StartStep ==
    ASSUME PollingInv, NEW r \in Runners, Start(r)
    PROVE  PollingInv'
  <1> DEFINE e == EndpointOf[r]
  <1> USE DEF PollingInv, NothingLeaks
  <1>0. e \in Endpoints
    BY EndpointIn
  <1>1. /\ phase[r] = "off" /\ task[r] = "none" /\ phase' = [phase EXCEPT ![r] = "on"]
        /\ task' = [task EXCEPT ![r] = "created"] /\ reader' = [reader EXCEPT ![r] = TRUE]
        /\ references' = [references EXCEPT ![e] = references[e] + 1]
        /\ UNCHANGED <<cancelled, budget, client, unanswered>>
    BY DEF Start, Retain, TaskOfPhase
  <1> HIDE DEF e
  <1>2. ASSUME NEW x \in Endpoints
        PROVE  /\ references[x] = Cardinality(Readers(x)) /\ references[x] \in Nat
               /\ At(x, Tasks \ {"none", "done"}) \subseteq Readers(x)
               /\ \A s \in Readers(x) : phase[s] # "off"
               /\ client[x] # "none" => Readers(x) # {}
               /\ Readers(x) \in SUBSET Runners
    BY DEF SocketsAreOwned, Readers, Kinds
  <1>3. Readers(e)' = Readers(e) \cup {r}
    BY <1>1 DEF Readers, Kinds, e
  <1>4. r \notin Readers(e)
    BY <1>0, <1>1, <1>2
  <1>5. ASSUME NEW x \in Endpoints, x # e
        PROVE  /\ Readers(x)' = Readers(x) /\ references'[x] = references[x]
               /\ At(x, Tasks \ {"none", "done"})' = At(x, Tasks \ {"none", "done"})
    BY <1>1, <1>5 DEF Readers, At, Kinds, e
  <1>6. references'[e] = Cardinality(Readers(e)') /\ references'[e] \in Nat
    <2>1. references'[e] = references[e] + 1
      BY <1>0, <1>1 DEF Kinds
    <2> QED
      BY <1>0, <1>2, <1>3, <1>4, <2>1, CountRunners
  <1>7. At(e, Tasks \ {"none", "done"})' \subseteq Readers(e)'
    <2>1. At(e, Tasks \ {"none", "done"})' \subseteq At(e, Tasks \ {"none", "done"}) \cup {r}
      BY <1>1 DEF At, Kinds
    <2> QED
      BY <1>0, <1>2, <1>3, <2>1
  <1>8. ASSUME NEW x \in Endpoints
        PROVE  \A s \in Readers(x)' : phase'[s] # "off"
    <2>1. Readers(x)' \subseteq Readers(x) \cup {r} /\ Readers(x) \subseteq Runners
      BY <1>1 DEF Readers, Kinds
    <2>2. \A s \in Runners : phase'[s] = IF s = r THEN "on" ELSE phase[s]
      BY <1>1 DEF Kinds
    <2> QED
      BY <1>2, <2>1, <2>2
  <1>9. SocketsAreOwned'
    <2>1. ASSUME NEW x \in Endpoints
          PROVE  /\ references'[x] = Cardinality(Readers(x)')
                 /\ At(x, Tasks \ {"none", "done"})' \subseteq Readers(x)'
                 /\ client'[x] # "none" => Readers(x)' # {}
      <3>1. CASE x = e
        BY <1>3, <1>6, <1>7, <3>1
      <3>2. CASE x # e
        BY <1>1, <1>2, <1>5, <3>2
      <3> QED
        BY <3>1, <3>2
    <2> QED
      BY <1>8, <2>1 DEF SocketsAreOwned, Readers
  <1>10. /\ "created" \in Tasks /\ {task[r], "created"} \cap {"connect", "request"} = {}
         /\ \A S \in {Admitted, Owning, Using} : task[r] \in S <=> "created" \in S
    BY <1>1, Nested DEF Tasks
  <1>11. BudgetIsExact'
    BY <1>1, <1>10, BudgetStay DEF budget
  <1>12. FreshSocket' /\ CleanSocket'
    BY <1>1, <1>10, PoolStay
  <1>13. Kinds'
    <2>1. references' \in [Endpoints -> Nat]
      BY <1>0, <1>1, <1>2 DEF Kinds
    <2> QED
      BY <1>1, <2>1 DEF Kinds, Phases, Tasks, budget
  <1>14. TaskOfPhase'
    BY <1>1 DEF TaskOfPhase, Kinds
  <1> QED
    BY <1>9, <1>11, <1>12, <1>13, <1>14

----------------------------------------------------------------------------
(* The theorems. *)

(* Nothing has been started. *)
LEMMA PollingInit == Init => PollingInv
  <1> SUFFICES ASSUME Init PROVE PollingInv
    OBVIOUS
  <1> USE DEF Init
  <1>0. /\ BudgetCapacity \in Nat /\ Cardinality({}) = 0
    BY PollingAssumption, FS_EmptySet
  <1>1. Kinds
    BY <1>0 DEF Kinds, Phases, Tasks
  <1>2. TaskOfPhase /\ FreshSocket
    BY EndpointIn DEF TaskOfPhase, FreshSocket
  <1>3. \A e \in Endpoints, S \in SUBSET (Tasks \ {"none"}) : At(e, S) = {}
    BY DEF At
  <1>4. CleanSocket
    BY DEF CleanSocket
  <1>5. BudgetIsExact
    <2>1. Holders = {}
      BY Nested DEF Holders
    <2>2. \A e \in Endpoints : At(e, Using) = {} /\ At(e, Owning) = {}
      BY <1>3, Nested
    <2>3. free + Cardinality(Holders) = BudgetCapacity
      BY <1>0, <2>1
    <2>4. \A e \in Endpoints : users[e] = 0 /\ owner[e] = Nobody
      OBVIOUS
    <2> HIDE DEF Init
    <2>5. \A e \in Endpoints :
              /\ users[e] = Cardinality(At(e, Using))
              /\ At(e, Owning) = IF owner[e] = Nobody THEN {} ELSE {owner[e]}
      BY <1>0, <2>2, <2>4
    <2> QED
      BY <2>3, <2>5 DEF BudgetIsExact, Holders
  <1>6. SocketsAreOwned
    <2>1. \A e \in Endpoints : Readers(e) = {}
      BY DEF Readers
    <2>2. \A e \in Endpoints : At(e, Tasks \ {"none", "done"}) = {}
      BY <1>3
    <2> QED
      BY <1>0, <2>1, <2>2 DEF SocketsAreOwned, Readers
  <1> QED
    BY <1>1, <1>2, <1>4, <1>5, <1>6 DEF PollingInv, NothingLeaks

(* A step that changes nothing. *)
LEMMA PollingStutter == PollingInv /\ UNCHANGED vars => PollingInv'
  <1> SUFFICES ASSUME PollingInv, UNCHANGED vars PROVE PollingInv'
    OBVIOUS
  <1>1. UNCHANGED <<phase, task, cancelled, reader, users, owner, free, references, client, unanswered>>
    BY DEF vars, work, budget, pool
  <1>2. Kinds' /\ TaskOfPhase' /\ FreshSocket'
    BY <1>1 DEF PollingInv, Kinds, TaskOfPhase, FreshSocket
  <1>3. CleanSocket'
    BY <1>1 DEF PollingInv, CleanSocket, At
  <1>4. BudgetIsExact'
    BY <1>1 DEF PollingInv, NothingLeaks, BudgetIsExact, At
  <1>5. SocketsAreOwned'
    BY <1>1 DEF PollingInv, NothingLeaks, SocketsAreOwned, At
  <1> QED
    BY <1>2, <1>3, <1>4, <1>5 DEF PollingInv, NothingLeaks

(* The inductive invariant holds, however polls, failures, cancellations   *)
(* and stops of any number of runners interleave.                          *)
THEOREM PollingInvariant == PollingSpec => []PollingInv
  <1>1. PollingInv /\ [Next]_vars => PollingInv'
    <2> SUFFICES ASSUME PollingInv, Next PROVE PollingInv'
      BY PollingStutter
    <2>1. PICK r \in Runners :
              \/ Start(r) \/ Begin(r) \/ Poll(r) \/ Missed(r) \/ PollFails(r)
              \/ Reading(r) \/ Ending(r)
              \/ Stop(r) \/ CutOff(r)
      BY DEF Next
    <2> QED
      BY <2>1, StartStep, LoopStep, EnterStep, ReadingStep, CancelledStep, StopStep, CloseStep
      DEF Reading, Ending
  <1> QED
    BY <1>1, PollingInit, PTL DEF PollingSpec

(* A request never meets a socket that still owes an answer to a request   *)
(* that was given up.                                                      *)
THEOREM SocketsStayClean == PollingSpec => []CleanSocket
  <1>1. PollingInv => CleanSocket
    BY DEF PollingInv
  <1> QED
    BY <1>1, PollingInvariant, PTL

(* Budget, references and sockets are exactly those of the reads and       *)
(* readers there are: nothing is lost on any path out of a read or a stop. *)
THEOREM PollingLeaksNothing == PollingSpec => []NothingLeaks
  <1>1. PollingInv => NothingLeaks
    BY DEF PollingInv
  <1> QED
    BY <1>1, PollingInvariant, PTL

=============================================================================
