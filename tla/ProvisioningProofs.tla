------------------------- MODULE ProvisioningProofs -------------------------
(***************************************************************************)
(* Proofs about Provisioning, for any values, requests and number of       *)
(* saves: what is on disk holds effective values, its identity and clock   *)
(* policy are never rewritten, and an acknowledged save is whole.          *)
(***************************************************************************)
EXTENDS Provisioning, FiniteSetTheorems, TLAPS

Running == {"starting", "serving", "closing"}

(* The types of TypeOK, by name. *)
Disks   == [record : Value \cup {NoValue}, ca : OrBlank(Cas), data : BOOLEAN]
Answers == {"none", "saved", "failed"}
Servers == [value : Value \cup {NoValue}, seq : 0..MaxSeq, applied : 0..MaxSeq, busy : BOOLEAN,
            answer : Answers]
Places  == {"down", "wait", "blocked", "starting", "serving", "closing", "settle", "exit"}
Sups    == [at : Places, value : Value \cup {NoValue}, seq : 0..MaxSeq]
Runs    == [parts : SUBSET Parts, asked : BOOLEAN, raised : BOOLEAN]

(* The order of the parts makes run.parts one of three sets while it       *)
(* starts, and nothing is open outside a run.                              *)
PartsInOrder ==
    /\ sup.at = "starting" => run.parts \in {{}, {"agent"}, {"agent", "telemetry"}}
    /\ run.parts # {} => sup.at \in Running

(* Whatever the server has in memory was once saved, and a supervisor that *)
(* is past its wait has something to run.                                  *)
SomethingToRun ==
    /\ server.value # NoValue => disk.record # NoValue
    /\ sup.at \notin {"down", "wait", "exit"} => server.value # NoValue

(* A run knows the revision it took, a failed save notwithstanding: this   *)
(* is what AcknowledgedIsWhole has to say of a save that changes nothing   *)
(* after one that failed.                                                  *)
RevisionTaken ==
    /\ sup.seq <= server.seq
    /\ sup.at \in Running /\ sup.seq = server.seq =>
           sup.value = server.value /\ server.applied = server.seq

ProvInv ==
    TypeOK /\ PartsInOrder /\ SomethingToRun /\ RevisionTaken /\ Consistent(disk) /\ AcknowledgedIsWhole

----------------------------------------------------------------------------
(* The values. *)

(* No value is the absent one. *)
LEMMA ValueIsValue == NoValue \notin Value
  BY ProvisioningAssumption DEF NoValue, Value, Blank

(* What parse makes of a request. *)
LEMMA ParsedIsValue == \A req \in Requests : Parsed(req) \in Value
  <1> SUFFICES ASSUME NEW req \in Requests PROVE Parsed(req) \in Value
    OBVIOUS
  <1>1. PICK v \in Value, r \in BOOLEAN :
            req = [id |-> v.id, time |-> v.time, user |-> v.user, password |-> v.password,
                   tls |-> v.tls, ca |-> v.ca, removeCa |-> r]
    BY ProvisioningAssumption DEF Request
  <1>2. Parsed(req) = [id |-> v.id, time |-> v.time, user |-> v.user, password |-> v.password,
                       tls |-> v.tls, ca |-> v.ca]
    BY <1>1 DEF Parsed, NoValue
  <1> QED
    BY <1>2 DEF Value

(* The fields of a request. *)
LEMMA RequestFields ==
    \A req \in Requests :
        /\ req.user \in OrBlank(Users) /\ req.password \in OrBlank(Passwords)
        /\ req.tls \in BOOLEAN /\ req.ca \in OrBlank(Cas) /\ req.removeCa \in BOOLEAN
  BY ProvisioningAssumption DEF Request, Value

(* The effective values of an update keep identity and clock policy, and   *)
(* are sound if those they are merged into are.                            *)
LEMMA MergedIsSound ==
    ASSUME NEW req \in Requests, NEW v \in Value, UpdateAccepts(req, v), Sound(v)
    PROVE  /\ Merged(req, v) \in Value /\ Sound(Merged(req, v))
           /\ Merged(req, v).id = v.id /\ Merged(req, v).time = v.time
  <1> DEFINE u == req.user
             t == req.tls
             p == IF req.user = Blank THEN Blank ELSE Kept(req.password, v.password)
             c == IF ~req.tls \/ req.removeCa THEN Blank ELSE Kept(req.ca, v.ca)
  <1>1. /\ u \in OrBlank(Users) /\ t \in BOOLEAN
        /\ p \in OrBlank(Passwords) /\ c \in OrBlank(Cas)
    BY RequestFields DEF Kept, OrBlank, Value
  <1>2. (u = Blank <=> p = Blank) /\ (c # Blank => t)
    BY RequestFields DEF Kept, UpdateAccepts
  <1>3. Merged(req, v) = [v EXCEPT !.user = u, !.tls = t, !.password = p, !.ca = c]
    BY DEF Merged
  <1> HIDE DEF u, t, p, c
  <1>4. /\ Merged(req, v).user = u /\ Merged(req, v).tls = t /\ Merged(req, v).password = p
        /\ Merged(req, v).ca = c /\ Merged(req, v).id = v.id /\ Merged(req, v).time = v.time
        /\ Merged(req, v) \in Value
    BY <1>1, <1>3 DEF Value
  <1> QED
    BY <1>2, <1>4 DEF Sound

----------------------------------------------------------------------------
(* The writes. *)

(* An outcome has its two fields. *)
LEMMA OutcomeFields ==
    ASSUME NEW d, NEW ok \in BOOLEAN
    PROVE  Outcome(d, ok).disk = d /\ Outcome(d, ok).ok = ok
  BY DEF Outcome

(* write_ca touches the CA file only; if it returns, the file is right. *)
LEMMA WriteCaFacts ==
    ASSUME NEW d \in Disks, NEW v \in Value \cup {NoValue}, NEW o \in WriteCa(d, v)
    PROVE  /\ o.disk \in Disks /\ o.ok \in BOOLEAN
           /\ o.disk.record = d.record /\ o.disk.data = d.data
           /\ o.ok => o.disk.ca = v.ca
  <1> DEFINE done == [d EXCEPT !.ca = v.ca]
  <1>1. v.ca \in OrBlank(Cas)
    BY DEF Value, NoValue, OrBlank
  <1>2. done \in Disks /\ done.ca = v.ca /\ done.record = d.record /\ done.data = d.data
    BY <1>1 DEF Disks
  <1>3. \/ o = Outcome(done, TRUE)
        \/ \E x \in {d, done} : o = Outcome(x, FALSE)
    <2>1. CASE v.ca # Blank
      <3>1. o \in AtomicWrite(d, done)
        BY <2>1 DEF WriteCa
      <3> QED
        BY <3>1 DEF AtomicWrite
    <2>2. CASE v.ca = Blank
      <3>1. o \in {Outcome(done, TRUE)} \cup {Outcome(x, FALSE) : x \in {d} \ {done}}
        BY <2>2, Zenon DEF WriteCa
      <3> QED
        BY <3>1
    <2> QED
      BY <2>1, <2>2
  <1> HIDE DEF done
  <1>4. CASE o = Outcome(done, TRUE)
    <2>1. o.disk = done /\ o.ok = TRUE
      BY <1>4, OutcomeFields
    <2> QED
      BY <1>2, <2>1
  <1>5. ASSUME NEW x \in {d, done}, o = Outcome(x, FALSE)
        PROVE  /\ o.disk \in Disks /\ o.ok = FALSE
               /\ o.disk.record = d.record /\ o.disk.data = d.data
    <2>1. o.disk = x /\ o.ok = FALSE
      BY <1>5, OutcomeFields
    <2> QED
      BY <1>2, <2>1
  <1> QED
    BY <1>3, <1>4, <1>5

(* save or update, then write_ca: the record is the old or the new one,    *)
(* and with the answer that it is saved both files are new.                *)
LEMMA SaveFacts ==
    ASSUME NEW d \in Disks, NEW v \in Value, NEW o \in Save(d, v)
    PROVE  /\ o.disk \in Disks /\ o.ok \in BOOLEAN
           /\ o.disk.record \in {d.record, v} /\ o.disk.data = d.data
           /\ o.ok => o.disk.record = v /\ o.disk.ca = v.ca
  <1> DEFINE n == [d EXCEPT !.record = v]
  <1>1. n \in Disks /\ n.record = v /\ n.data = d.data
    BY DEF Disks
  <1> HIDE DEF n
  <1>2. o \in WriteCa(n, v) \/ o \in {Outcome(n, FALSE), Outcome(d, FALSE)}
    <2>1. PICK q \in AtomicWrite(d, n) : o \in IF q.ok THEN WriteCa(q.disk, v) ELSE {q}
      BY DEF Save, n
    <2>2. q \in {Outcome(n, TRUE), Outcome(n, FALSE), Outcome(d, FALSE)}
      BY <2>1 DEF AtomicWrite
    <2> QED
      BY <2>1, <2>2, OutcomeFields
  <1>3. CASE o \in WriteCa(n, v)
    BY <1>1, <1>3, WriteCaFacts
  <1>4. CASE o \in {Outcome(n, FALSE), Outcome(d, FALSE)}
    <2>1. o.disk \in {n, d} /\ o.ok = FALSE
      BY <1>4, OutcomeFields
    <2> QED
      BY <1>1, <2>1
  <1> QED
    BY <1>2, <1>3, <1>4

----------------------------------------------------------------------------
(* The steps.  Identity and clock policy are kept by all of them. *)

KeepsIdentity ==
    disk.record # NoValue => disk'.record.id = disk.record.id /\ disk'.record.time = disk.record.time

(* TypeOK in the named types. *)
LEMMA Types ==
    TypeOK <=> disk \in Disks /\ server \in Servers /\ sup \in Sups /\ run \in Runs /\ stop \in BOOLEAN
  BY DEF TypeOK, Disks, Servers, Sups, Places, Runs, Answers

(* The same of the state after a step. *)
LEMMA TypesNext ==
    TypeOK' <=> disk' \in Disks /\ server' \in Servers /\ sup' \in Sups /\ run' \in Runs /\ stop' \in BOOLEAN
  BY DEF TypeOK, Disks, Servers, Sups, Places, Runs, Answers

(* The records a process starts with. *)
LEMMA FreshTypes ==
    /\ MaxSeq \in Nat /\ NoRun \in Runs /\ NoRun.parts = {}
    /\ \A at \in Places : Idle(at) \in Sups /\ Idle(at).at = at /\ Idle(at).seq = 0
    /\ \A v \in Value \cup {NoValue} :
           /\ Fresh(v) \in Servers /\ Fresh(v).value = v /\ Fresh(v).seq = 0
           /\ Fresh(v).applied = 0 /\ Fresh(v).answer = "none"
  BY ProvisioningAssumption DEF NoRun, Runs, Idle, Sups, Places, Fresh, Servers, Answers, Parts

(* serve is up. *)
LEMMA BootStep ==
    ASSUME ProvInv, Boot
    PROVE  ProvInv' /\ KeepsIdentity
  <1>1. /\ disk \in Disks /\ run \in Runs /\ disk.record \in Value \cup {NoValue}
        /\ disk' = disk /\ run' = run /\ server' = Fresh(disk.record) /\ sup' = Idle("wait") /\ stop' = FALSE
        /\ Consistent(disk) /\ sup.at = "down"
    BY Types DEF ProvInv, Boot, Disks, Up
  <1>2. /\ server' \in Servers /\ server'.value = disk.record /\ server'.seq = 0 /\ server'.answer = "none"
        /\ sup' \in Sups /\ sup'.at = "wait" /\ sup'.seq = 0
    BY <1>1, FreshTypes DEF Places
  <1>3. run.parts = {}
    BY <1>1 DEF ProvInv, PartsInOrder, Running
  <1>4. TypeOK'
    BY <1>1, <1>2, TypesNext
  <1>5. PartsInOrder' /\ SomethingToRun' /\ RevisionTaken'
    BY <1>1, <1>2, <1>3 DEF PartsInOrder, SomethingToRun, RevisionTaken, Running
  <1>6. Consistent(disk)' /\ AcknowledgedIsWhole' /\ KeepsIdentity
    BY <1>1, <1>2 DEF Consistent, AcknowledgedIsWhole, KeepsIdentity
  <1> QED
    BY <1>4, <1>5, <1>6 DEF ProvInv

(* The process ends, in order or not. *)
LEMMA DownStep ==
    ASSUME ProvInv, Exit \/ Crash
    PROVE  ProvInv' /\ KeepsIdentity
  <1>1. /\ disk \in Disks /\ stop \in BOOLEAN /\ Consistent(disk)
        /\ disk' = disk /\ run' = NoRun /\ server' = Fresh(NoValue) /\ sup' = Idle("down") /\ stop' = stop
    BY Types DEF ProvInv, Exit, Crash, Down
  <1>2. /\ server' \in Servers /\ server'.value = NoValue /\ server'.seq = 0
        /\ sup' \in Sups /\ sup'.at = "down" /\ sup'.seq = 0 /\ run' \in Runs /\ run'.parts = {}
    BY <1>1, FreshTypes DEF Places
  <1>3. TypeOK'
    BY <1>1, <1>2, TypesNext
  <1>4. PartsInOrder' /\ SomethingToRun' /\ RevisionTaken'
    BY <1>1, <1>2 DEF PartsInOrder, SomethingToRun, RevisionTaken, Running
  <1>5. Consistent(disk)' /\ AcknowledgedIsWhole' /\ KeepsIdentity
    BY <1>1, <1>2 DEF Consistent, AcknowledgedIsWhole, Up, KeepsIdentity
  <1> QED
    BY <1>3, <1>4, <1>5 DEF ProvInv

(* The first save: nothing runs yet, and there is no record to keep. *)
LEMMA FirstSaveStep ==
    ASSUME ProvInv, NEW req \in Requests, FirstSave(req)
    PROVE  ProvInv' /\ KeepsIdentity
  <1> DEFINE v == Parsed(req)
  <1>0. v \in Value /\ v # NoValue /\ Sound(v)
    BY ParsedIsValue, ValueIsValue DEF FirstSave, ParseAccepts
  <1>1. /\ disk \in Disks /\ server \in Servers /\ sup \in Sups /\ run \in Runs /\ stop \in BOOLEAN
        /\ disk.record = NoValue /\ server.value = NoValue
        /\ sup' = sup /\ run' = run /\ stop' = stop /\ Up
    BY Types DEF ProvInv, FirstSave
  <1>2. PICK o \in Save(disk, v) :
            /\ disk' = o.disk
            /\ server' = IF o.ok THEN [server EXCEPT !.value = v, !.answer = "saved"]
                                 ELSE [server EXCEPT !.answer = "failed"]
    BY DEF FirstSave
  <1> HIDE DEF v
  <1>3. /\ disk' \in Disks /\ o.ok \in BOOLEAN /\ disk'.record \in {NoValue, v} /\ disk'.data = disk.data
        /\ o.ok => disk'.record = v /\ disk'.ca = v.ca
    BY <1>0, <1>1, <1>2, SaveFacts
  <1>4. /\ server' \in Servers /\ server'.seq = server.seq /\ server'.applied = server.applied
        /\ IF o.ok THEN server'.value = v /\ server'.answer = "saved"
                   ELSE server'.value = NoValue /\ server'.answer = "failed"
    BY <1>0, <1>1, <1>2 DEF Servers, Answers
  <1>5. sup.at \in {"wait", "exit"} /\ run.parts = {}
    BY <1>1 DEF ProvInv, SomethingToRun, PartsInOrder, Running, Up
  <1>6. Consistent(disk)' /\ KeepsIdentity
    BY <1>0, <1>1, <1>3 DEF ProvInv, Consistent, KeepsIdentity
  <1>7. SomethingToRun' /\ PartsInOrder' /\ RevisionTaken'
    BY <1>0, <1>1, <1>3, <1>4, <1>5
    DEF ProvInv, SomethingToRun, PartsInOrder, RevisionTaken, Running
  <1>8. AcknowledgedIsWhole'
    BY <1>1, <1>3, <1>4, <1>5 DEF AcknowledgedIsWhole
  <1> QED
    BY <1>1, <1>3, <1>4, <1>6, <1>7, <1>8, TypesNext DEF ProvInv

(* A later save: it is merged into the record, under a new revision unless *)
(* it says what the server had. *)
LEMMA UpdateStep ==
    ASSUME ProvInv, NEW req \in Requests, Update(req)
    PROVE  ProvInv' /\ KeepsIdentity
  <1> DEFINE v == Merged(req, disk.record)
  <1>1. /\ disk \in Disks /\ server \in Servers /\ sup \in Sups /\ run \in Runs /\ stop \in BOOLEAN
        /\ server.value # NoValue /\ disk.record # NoValue /\ server.seq < MaxSeq
        /\ sup' = sup /\ run' = run /\ stop' = stop /\ Consistent(disk)
        /\ UpdateAccepts(req, disk.record)
    BY Types DEF ProvInv, Update, SomethingToRun
  <1>2. disk.record \in Value /\ Sound(disk.record)
    BY <1>1 DEF Consistent, Disks
  <1>3. /\ v \in Value /\ v # NoValue /\ Sound(v)
        /\ v.id = disk.record.id /\ v.time = disk.record.time
    BY <1>1, <1>2, MergedIsSound, ValueIsValue
  <1>4. PICK o \in Save(disk, v) :
            /\ disk' = o.disk
            /\ server' = IF o.ok THEN [server EXCEPT !.value = v, !.answer = "saved",
                                                     !.seq = IF v # server.value THEN server.seq + 1 ELSE server.seq]
                                 ELSE [server EXCEPT !.answer = "failed"]
    BY DEF Update
  <1> HIDE DEF v
  <1>5. /\ disk' \in Disks /\ o.ok \in BOOLEAN /\ disk'.record \in {disk.record, v}
        /\ o.ok => disk'.record = v /\ disk'.ca = v.ca
    BY <1>1, <1>3, <1>4, SaveFacts
  <1>6. /\ server.seq \in 0..MaxSeq /\ server.applied \in 0..MaxSeq /\ sup.seq \in 0..MaxSeq /\ MaxSeq \in Nat
    BY <1>1, FreshTypes DEF Servers, Sups
  <1>7. /\ server' \in Servers /\ server'.applied = server.applied
        /\ IF o.ok THEN /\ server'.value = v /\ server'.answer = "saved"
                        /\ server'.seq = IF v # server.value THEN server.seq + 1 ELSE server.seq
                   ELSE /\ server'.value = server.value /\ server'.answer = "failed"
                        /\ server'.seq = server.seq
    <2>1. CASE o.ok
      <3>1. (IF v # server.value THEN server.seq + 1 ELSE server.seq) \in 0..MaxSeq
        BY <1>1, <1>6
      <3> QED
        BY <1>1, <1>3, <1>4, <2>1, <3>1 DEF Servers, Answers
    <2>2. CASE ~o.ok
      <3>1. server' = [server EXCEPT !.answer = "failed"]
        BY <1>4, <2>2
      <3> QED
        BY <1>1, <2>2, <3>1 DEF Servers, Answers
    <2> QED
      BY <2>1, <2>2
  <1>8. Consistent(disk)' /\ KeepsIdentity
    BY <1>1, <1>2, <1>3, <1>5 DEF Consistent, KeepsIdentity
  <1>9. disk'.record # NoValue /\ server'.value # NoValue
    BY <1>1, <1>3, <1>5, <1>7
  <1>10. SomethingToRun' /\ PartsInOrder'
    BY <1>1, <1>9 DEF ProvInv, SomethingToRun, PartsInOrder
  <1>11. RevisionTaken'
    BY <1>1, <1>6, <1>7 DEF ProvInv, RevisionTaken
  <1>12. AcknowledgedIsWhole'
    BY <1>1, <1>5, <1>7, <1>11 DEF AcknowledgedIsWhole, RevisionTaken, Running
  <1> QED
    BY <1>1, <1>5, <1>7, <1>8, <1>10, <1>11, <1>12, TypesNext DEF ProvInv

(* A test holds the mutation lock, and nothing else of the server changes. *)
LEMMA TestStep ==
    ASSUME ProvInv, NEW b \in BOOLEAN, server' = [server EXCEPT !.busy = b], UNCHANGED <<disk, sup, run, stop>>
    PROVE  ProvInv' /\ KeepsIdentity
  <1>1. /\ disk \in Disks /\ server \in Servers /\ sup \in Sups /\ run \in Runs /\ stop \in BOOLEAN
    BY Types DEF ProvInv
  <1>2. /\ server' \in Servers /\ server'.value = server.value /\ server'.seq = server.seq
        /\ server'.applied = server.applied /\ server'.answer = server.answer
    BY <1>1 DEF Servers
  <1>3. TypeOK'
    BY <1>1, <1>2, TypesNext
  <1>4. PartsInOrder' /\ SomethingToRun' /\ RevisionTaken'
    BY <1>2 DEF ProvInv, PartsInOrder, SomethingToRun, RevisionTaken
  <1>5. Consistent(disk)' /\ AcknowledgedIsWhole' /\ KeepsIdentity
    BY <1>2 DEF ProvInv, Consistent, AcknowledgedIsWhole, Up, KeepsIdentity
  <1> QED
    BY <1>3, <1>4, <1>5 DEF ProvInv

(* The supervisor takes what the server has in memory and puts the CA in   *)
(* force before anything of the run exists.                                *)
LEMMA BeginStep ==
    ASSUME ProvInv, sup.at \in {"wait", "blocked", "settle"}, server.value # NoValue, Begin, stop' = stop
    PROVE  ProvInv' /\ KeepsIdentity
  <1>1. /\ disk \in Disks /\ server \in Servers /\ sup \in Sups /\ stop \in BOOLEAN
        /\ server.value \in Value \cup {NoValue} /\ server.seq \in 0..MaxSeq /\ MaxSeq \in Nat
    BY Types, FreshTypes DEF ProvInv, Servers
  <1>2. PICK o \in WriteCa(disk, server.value) :
            /\ disk' = o.disk
            /\ sup' = [at |-> IF o.ok THEN "starting" ELSE "blocked",
                       value |-> server.value, seq |-> server.seq]
            /\ server' = IF o.ok THEN [server EXCEPT !.applied = server.seq] ELSE server
    BY DEF Begin
  <1>3. /\ disk' \in Disks /\ o.ok \in BOOLEAN /\ disk'.record = disk.record /\ disk'.data = disk.data
        /\ o.ok => disk'.ca = server.value.ca
    BY <1>1, <1>2, WriteCaFacts
  <1>4. /\ server' \in Servers /\ server'.value = server.value /\ server'.seq = server.seq
        /\ server'.answer = server.answer /\ (o.ok => server'.applied = server.seq)
    BY <1>1, <1>2 DEF Servers
  <1>5. /\ sup' \in Sups /\ sup'.at = IF o.ok THEN "starting" ELSE "blocked"
        /\ sup'.value = server.value /\ sup'.seq = server.seq
    BY <1>1, <1>2 DEF Sups, Places
  <1>6. run' \in Runs /\ run'.parts = {}
    BY FreshTypes DEF Begin
  <1>7. TypeOK'
    BY <1>1, <1>3, <1>4, <1>5, <1>6, TypesNext
  <1>8. PartsInOrder' /\ SomethingToRun'
    BY <1>3, <1>4, <1>5, <1>6 DEF ProvInv, PartsInOrder, SomethingToRun
  <1>9. RevisionTaken'
    BY <1>1, <1>4, <1>5 DEF RevisionTaken, Running
  <1>10. Consistent(disk)' /\ KeepsIdentity
    BY <1>3 DEF ProvInv, Consistent, KeepsIdentity
  <1>11. AcknowledgedIsWhole'
    BY <1>3, <1>4, <1>5, <1>9 DEF ProvInv, AcknowledgedIsWhole, RevisionTaken, Running, Up
  <1> QED
    BY <1>7, <1>8, <1>9, <1>10, <1>11 DEF ProvInv

(* The supervisor goes to a place outside a run. *)
LEMMA IdleStep ==
    ASSUME ProvInv, NEW at \in {"exit", "settle"}, sup.at # "down", sup' = Idle(at),
           (run' = run /\ run.parts = {}) \/ run' = NoRun,
           sup.at = "settle" \/ at = "settle" => server.value # NoValue,
           UNCHANGED <<disk, server, stop>>
    PROVE  ProvInv' /\ KeepsIdentity
  <1>1. /\ disk \in Disks /\ server \in Servers /\ run \in Runs /\ stop \in BOOLEAN
        /\ server.seq \in 0..MaxSeq /\ MaxSeq \in Nat
    BY Types, FreshTypes DEF ProvInv, Servers
  <1>2. sup' \in Sups /\ sup'.at = at /\ sup'.seq = 0 /\ run' \in Runs /\ run'.parts = {}
    BY <1>1, FreshTypes DEF Places
  <1>3. TypeOK'
    BY <1>1, <1>2, TypesNext
  <1>4. PartsInOrder' /\ SomethingToRun' /\ RevisionTaken'
    BY <1>1, <1>2 DEF ProvInv, PartsInOrder, SomethingToRun, RevisionTaken, Running
  <1>5. Consistent(disk)' /\ AcknowledgedIsWhole' /\ KeepsIdentity
    BY <1>2 DEF ProvInv, Consistent, AcknowledgedIsWhole, Up, KeepsIdentity
  <1> QED
    BY <1>3, <1>4, <1>5 DEF ProvInv

(* A step inside a run, which keeps the files, the server and the revision *)
(* the run took.                                                           *)
LEMMA RunStep ==
    ASSUME ProvInv, sup.at \in Running, NEW at \in Running, sup' = [sup EXCEPT !.at = at], run' \in Runs,
           at = "starting" => run'.parts \in {{}, {"agent"}, {"agent", "telemetry"}},
           UNCHANGED <<disk, server, stop>>
    PROVE  ProvInv' /\ KeepsIdentity
  <1>1. /\ disk \in Disks /\ server \in Servers /\ sup \in Sups /\ stop \in BOOLEAN
    BY Types DEF ProvInv
  <1>2. sup' \in Sups /\ sup'.at = at /\ sup'.seq = sup.seq /\ sup'.value = sup.value
    BY <1>1 DEF Sups, Running, Places
  <1>3. TypeOK'
    BY <1>1, <1>2, TypesNext
  <1>4. PartsInOrder' /\ SomethingToRun' /\ RevisionTaken'
    BY <1>2 DEF ProvInv, PartsInOrder, SomethingToRun, RevisionTaken, Running
  <1>5. Consistent(disk)' /\ AcknowledgedIsWhole' /\ KeepsIdentity
    BY <1>2 DEF ProvInv, Consistent, AcknowledgedIsWhole, Up, KeepsIdentity, Running
  <1> QED
    BY <1>3, <1>4, <1>5 DEF ProvInv

(* The part that is started next is the next one of the order. *)
LEMMA NextPart ==
    ASSUME NEW parts \in {{}, {"agent"}, {"agent", "telemetry"}}
    PROVE  LET part == StartOrder[Cardinality(parts) + 1]
           IN  /\ part \in Parts
               /\ parts \cup {part} \in {{"agent"}, {"agent", "telemetry"}, Parts}
  <1>1. Cardinality({}) = 0
    BY FS_EmptySet
  <1>2. Cardinality({"agent"}) = 1
    BY FS_Singleton
  <1>3. Cardinality({"agent", "telemetry"}) = 2
    <2>1. IsFiniteSet({"agent"}) /\ {"agent", "telemetry"} = {"agent"} \cup {"telemetry"} /\ "telemetry" \notin {"agent"}
      BY FS_Singleton
    <2> QED
      BY <1>2, <2>1, FS_AddElement
  <1>4. StartOrder[1] = "agent" /\ StartOrder[2] = "telemetry" /\ StartOrder[3] = "mqtt"
    BY DEF StartOrder
  <1>5. CASE parts = {}
    <2>1. StartOrder[Cardinality(parts) + 1] = "agent"
      BY <1>1, <1>4, <1>5
    <2> QED
      BY <1>5, <2>1 DEF Parts
  <1>6. CASE parts = {"agent"}
    <2>1. StartOrder[Cardinality(parts) + 1] = "telemetry"
      BY <1>2, <1>4, <1>6
    <2> QED
      BY <1>6, <2>1 DEF Parts
  <1>7. CASE parts = {"agent", "telemetry"}
    <2>1. StartOrder[Cardinality(parts) + 1] = "mqtt"
      BY <1>3, <1>4, <1>7
    <2> QED
      BY <1>7, <2>1 DEF Parts
  <1> QED
    BY <1>5, <1>6, <1>7

(* run starts its parts in order; one that fails ends it. *)
LEMMA StartPartStep ==
    ASSUME ProvInv, StartPart
    PROVE  ProvInv' /\ KeepsIdentity
  <1> DEFINE part == StartOrder[Cardinality(run.parts) + 1]
             more == run.parts \cup {part}
  <1>1. sup.at = "starting" /\ sup.at \in Running /\ UNCHANGED <<disk, server, stop>>
        /\ run.parts \in {{}, {"agent"}, {"agent", "telemetry"}} /\ run \in Runs
    BY Types DEF ProvInv, StartPart, PartsInOrder, Running
  <1>2. more \in {{"agent"}, {"agent", "telemetry"}, Parts} /\ more \in SUBSET Parts
    BY <1>1, NextPart DEF Runs
  <1>3. \/ /\ run' = [run EXCEPT !.parts = more]
           /\ sup' = [sup EXCEPT !.at = IF run'.parts = Parts THEN "serving" ELSE "starting"]
        \/ /\ \E raised \in BOOLEAN : run' = [run EXCEPT !.parts = more, !.raised = raised]
           /\ sup' = [sup EXCEPT !.at = "closing"]
    BY DEF StartPart
  <1> HIDE DEF more
  <1>4. run' \in Runs /\ run'.parts = more
    BY <1>1, <1>2, <1>3 DEF Runs
  <1>5. PICK at \in Running : /\ sup' = [sup EXCEPT !.at = at]
                              /\ at = "starting" => more # Parts
    BY <1>3, <1>4 DEF Running
  <1>6. at = "starting" => run'.parts \in {{}, {"agent"}, {"agent", "telemetry"}}
    BY <1>2, <1>4, <1>5
  <1> QED
    BY <1>1, <1>4, <1>5, <1>6, RunStep

(* The rest of a run's steps. *)
LEMMA InsideRunStep ==
    ASSUME ProvInv, Watch \/ ServeStopped \/ ServeFailed \/ ClosePart
    PROVE  ProvInv' /\ KeepsIdentity
  <1>1. /\ sup.at \in Running /\ UNCHANGED <<disk, server, stop>> /\ run \in Runs
        /\ sup \in Sups
    BY Types DEF ProvInv, Watch, ServeStopped, ServeFailed, ClosePart, Running
  <1>2. CASE Watch
    <2>1. run' \in Runs /\ run'.parts = run.parts
      BY <1>1, <1>2 DEF Watch, Runs
    <2>2. sup' = [sup EXCEPT !.at = sup.at]
      BY <1>1, <1>2 DEF Watch, Sups
    <2> QED
      BY <1>1, <2>1, <2>2, RunStep DEF ProvInv, PartsInOrder
  <1>3. CASE ServeStopped \/ ServeFailed
    BY <1>1, <1>3, RunStep DEF ServeStopped, ServeFailed, Running
  <1>4. CASE ClosePart
    <2>1. run' \in Runs
      BY <1>1, <1>4 DEF ClosePart, Runs
    <2>2. sup' = [sup EXCEPT !.at = "closing"]
      BY <1>1, <1>4 DEF ClosePart, Sups
    <2> QED
      BY <1>1, <2>1, <2>2, RunStep DEF Running
  <1> QED
    BY <1>2, <1>3, <1>4

(* Databases are made by an agent, and there is none without a record. *)
LEMMA MakeDataStep ==
    ASSUME ProvInv, MakeData
    PROVE  ProvInv' /\ KeepsIdentity
  <1>1. /\ disk \in Disks /\ server \in Servers /\ sup \in Sups /\ run \in Runs /\ stop \in BOOLEAN
        /\ disk' = [disk EXCEPT !.data = TRUE] /\ UNCHANGED <<server, sup, run, stop>>
        /\ run.parts # {}
    BY Types DEF ProvInv, MakeData
  <1>2. disk' \in Disks /\ disk'.record = disk.record /\ disk'.ca = disk.ca
    BY <1>1 DEF Disks
  <1>3. disk.record # NoValue
    BY <1>1 DEF ProvInv, PartsInOrder, SomethingToRun, Running
  <1>4. TypeOK'
    BY <1>1, <1>2, TypesNext
  <1>5. PartsInOrder' /\ SomethingToRun' /\ RevisionTaken'
    BY <1>1, <1>2 DEF ProvInv, PartsInOrder, SomethingToRun, RevisionTaken
  <1>6. Consistent(disk)' /\ AcknowledgedIsWhole' /\ KeepsIdentity
    BY <1>1, <1>2, <1>3 DEF ProvInv, Consistent, AcknowledgedIsWhole, Up, KeepsIdentity
  <1> QED
    BY <1>4, <1>5, <1>6 DEF ProvInv

(* A signal, and a step that changes nothing. *)
LEMMA SignalStep ==
    ASSUME ProvInv, stop' \in BOOLEAN, UNCHANGED <<disk, server, sup, run>>
    PROVE  ProvInv' /\ KeepsIdentity
  <1>1. TypeOK'
    BY DEF ProvInv, TypeOK
  <1>2. PartsInOrder' /\ SomethingToRun' /\ RevisionTaken'
    BY DEF ProvInv, PartsInOrder, SomethingToRun, RevisionTaken
  <1>3. Consistent(disk)' /\ AcknowledgedIsWhole' /\ KeepsIdentity
    BY DEF ProvInv, Consistent, AcknowledgedIsWhole, Up, KeepsIdentity
  <1> QED
    BY <1>1, <1>2, <1>3 DEF ProvInv

(* The supervisor's steps between runs. *)
LEMMA BetweenRunsStep ==
    ASSUME ProvInv, Wait \/ Unblock \/ Settled \/ RunEnds
    PROVE  ProvInv' /\ KeepsIdentity
  <1>1. sup.at \in {"wait", "blocked", "settle", "closing"} /\ stop' = stop /\ SomethingToRun
    BY DEF ProvInv, Wait, Unblock, Settled, RunEnds
  <1>2. sup.at # "closing" => run.parts = {}
    BY <1>1 DEF ProvInv, PartsInOrder, Running
  <1>3. CASE Wait
    BY <1>1, <1>2, <1>3, BeginStep, IdleStep DEF Wait, Leave
  <1>4. CASE Unblock
    BY <1>1, <1>2, <1>4, BeginStep, IdleStep DEF Unblock, Leave, SomethingToRun
  <1>5. CASE Settled
    <2>1. server.value # NoValue /\ sup.at = "settle"
      BY <1>1, <1>5 DEF Settled, SomethingToRun
    <2>2. CASE Leave
      BY <1>1, <1>2, <2>1, <2>2, IdleStep DEF Leave
    <2>3. CASE Begin
      BY <1>1, <2>1, <2>3, BeginStep
    <2> QED
      BY <1>5, <2>2, <2>3 DEF Settled
  <1>6. CASE RunEnds
    <2>1. server.value # NoValue /\ sup.at = "closing"
      BY <1>1, <1>6 DEF RunEnds, SomethingToRun
    <2>2. PICK at \in {"exit", "settle"} : sup' = Idle(at)
      BY <1>6 DEF RunEnds
    <2> QED
      BY <1>1, <1>6, <2>1, <2>2, IdleStep DEF RunEnds
  <1> QED
    BY <1>1, <1>3, <1>4, <1>5, <1>6 DEF Wait, Unblock, Settled, RunEnds

----------------------------------------------------------------------------
(* The theorems. *)

(* A new device. *)
LEMMA ProvInit == Init => ProvInv
  <1> SUFFICES ASSUME Init PROVE ProvInv
    OBVIOUS
  <1>1. /\ disk = [record |-> NoValue, ca |-> Blank, data |-> FALSE] /\ stop = FALSE
        /\ server = Fresh(NoValue) /\ sup = Idle("down") /\ run = NoRun
    BY DEF Init
  <1>2. disk \in Disks /\ disk.record = NoValue /\ disk.data = FALSE
    BY <1>1 DEF Disks, OrBlank
  <1>3. /\ server \in Servers /\ server.value = NoValue /\ server.seq = 0
        /\ sup \in Sups /\ sup.at = "down" /\ sup.seq = 0 /\ run \in Runs /\ run.parts = {}
    BY <1>1, FreshTypes DEF Places
  <1>4. TypeOK
    BY <1>1, <1>2, <1>3, Types
  <1>5. PartsInOrder /\ SomethingToRun /\ RevisionTaken
    BY <1>3 DEF PartsInOrder, SomethingToRun, RevisionTaken, Running
  <1>6. Consistent(disk) /\ AcknowledgedIsWhole
    BY <1>2, <1>3 DEF Consistent, AcknowledgedIsWhole, Up
  <1> QED
    BY <1>4, <1>5, <1>6 DEF ProvInv

(* Every step. *)
LEMMA ProvStep == ProvInv /\ [Next]_vars => ProvInv' /\ KeepsIdentity
  <1> SUFFICES ASSUME ProvInv, [Next]_vars PROVE ProvInv' /\ KeepsIdentity
    OBVIOUS
  <1>0. stop \in BOOLEAN
    BY DEF ProvInv, TypeOK
  <1>1. CASE UNCHANGED vars
    BY <1>0, <1>1, SignalStep DEF vars
  <1>2. CASE Boot
    BY <1>2, BootStep
  <1>3. CASE Signal
    BY <1>3, SignalStep DEF Signal
  <1>4. CASE Crash \/ Exit
    BY <1>4, DownStep
  <1>5. CASE \E req \in Requests : FirstSave(req)
    BY <1>5, FirstSaveStep
  <1>6. CASE \E req \in Requests : Update(req)
    BY <1>6, UpdateStep
  <1>7. CASE \E req \in Requests : Test(req)
    BY <1>7, TestStep DEF Test
  <1>8. CASE TestEnds
    BY <1>8, TestStep DEF TestEnds
  <1>9. CASE Wait \/ Unblock \/ Settled \/ RunEnds
    BY <1>9, BetweenRunsStep
  <1>10. CASE StartPart
    BY <1>10, StartPartStep
  <1>11. CASE Watch \/ ServeStopped \/ ServeFailed \/ ClosePart
    BY <1>11, InsideRunStep
  <1>12. CASE MakeData
    BY <1>12, MakeDataStep
  <1> QED
    BY <1>1, <1>2, <1>3, <1>4, <1>5, <1>6, <1>7, <1>8, <1>9, <1>10, <1>11, <1>12
       DEF Next, Supervise, BootRefused

(* The inductive invariant, for every order of saves, tests, failed writes,*)
(* reloads, crashes and restarts.                                          *)
THEOREM ProvisioningInvariant == ProvisioningSpec => []ProvInv
  BY ProvInit, ProvStep, PTL DEF ProvisioningSpec

(* A save that was acknowledged is whole: record, memory, CA file and the  *)
(* run that took it agree.                                                 *)
THEOREM AcknowledgedSavesAreWhole == ProvisioningSpec => []AcknowledgedIsWhole
  <1>1. ProvInv => AcknowledgedIsWhole
    BY DEF ProvInv
  <1> QED
    BY <1>1, ProvisioningInvariant, PTL

(* After every step of every process, what is on disk holds effective      *)
(* values that load accepts unless the record is too long, and the         *)
(* identity and the clock policy of a record are never rewritten.          *)
THEOREM SavedRecordsAreSound == ProvisioningSpec => SavedRecordIsSound
  <1>1. ProvInv /\ [Next]_vars =>
            [/\ Consistent(disk')
             /\ disk.record # NoValue =>
                   disk'.record.id = disk.record.id /\ disk'.record.time = disk.record.time]_vars
    BY ProvStep DEF ProvInv, KeepsIdentity, Consistent
  <1> QED
    BY <1>1, ProvisioningInvariant, PTL DEF ProvisioningSpec, SavedRecordIsSound

=============================================================================
