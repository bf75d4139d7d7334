---------------------------- MODULE Provisioning ----------------------------
(***************************************************************************)
(* The commissioning record and the process around it: provisioning/store, *)
(* the two mutating routes of provisioning/server, the supervisor in       *)
(* tools/appliance and the frame of one run in tools/agent.                *)
(*                                                                         *)
(* The record and the CA file beside it survive everything.  Either may be *)
(* left as it was, or be replaced, by a write that raises (atomic_write    *)
(* fails before or after its os.replace), and the process may die at any   *)
(* step.  Code between two awaits is one action: a save, and the turn that *)
(* hands a revision to a new run, are.  A value keeps the fields the code  *)
(* treats apart: user stands for host and port too.                        *)
(***************************************************************************)
EXTENDS Integers, Sequences, FiniteSets

CONSTANTS
    Ids,        \* values of gatewayId
    Times,      \* clock policies, the value of the optional field time
    Users,      \* values of username
    Passwords,  \* values of password
    Cas,        \* values of caPem
    Requests,   \* the bodies that are posted
    Posted,     \* bytes of each body
    Dumped,     \* bytes json.dumps writes for each value
    RecordCap,  \* 32768: bytes of a body, and of a record, that are read
    MaxSeq      \* bound: revisions saved in the life of one process

Blank == ""     \* a field that is empty, or absent

OrBlank(S) == S \cup {Blank}

Value == [id : Ids, time : OrBlank(Times), user : OrBlank(Users), password : OrBlank(Passwords),
          tls : BOOLEAN, ca : OrBlank(Cas)]

(* The body of a POST that is well formed field by field. *)
Request == {[id |-> v.id, time |-> v.time, user |-> v.user, password |-> v.password, tls |-> v.tls,
             ca |-> v.ca, removeCa |-> r] : v \in Value, r \in BOOLEAN}

ASSUME ProvisioningAssumption ==
    /\ MaxSeq \in Nat /\ RecordCap \in Nat
    /\ \A S \in {Ids, Times, Users, Passwords, Cas} : Blank \notin S
    /\ Requests \subseteq Request
    /\ Posted \in [Requests -> Nat]
    /\ Dumped \in [Value -> Nat]

NoValue == [id |-> Blank, time |-> Blank, user |-> Blank, password |-> Blank, tls |-> FALSE, ca |-> Blank]

(* The parts of a run in the order they are started, and in the order they are closed. *)
StartOrder == <<"agent", "telemetry", "mqtt">>
CloseOrder == <<"mqtt", "agent", "telemetry">>
Parts == {"agent", "telemetry", "mqtt"}

VARIABLES
    disk,       \* the record, the content of broker-ca.pem, and whether databases exist
    server,     \* SetupServer: value, change_seq, applied_seq, _mutation held by a test;
                \* answer is the last answer to a save (of this process)
    sup,        \* _supervise: where it is, the value and the seq it took
    run,        \* its run: the parts that are not closed, run_stop, an exception under way
    stop        \* the stop event of serve

vars == <<disk, server, sup, run, stop>>

Up == sup.at # "down"

NoRun == [parts |-> {}, asked |-> FALSE, raised |-> FALSE]

----------------------------------------------------------------------------
(* What the store accepts, and what it makes of it. *)

(* MqttSettings and the check of the CA, on the values that will be in force. *)
Sound(v) == (v.user = Blank <=> v.password = Blank) /\ (v.ca # Blank => v.tls)

(* parse *)
Parsed(req) == [f \in DOMAIN NoValue |-> req[f]]

ParseAccepts(req) == Posted[req] <= RecordCap /\ ~req.removeCa /\ Sound(Parsed(req))

(* load.  The length is checked first; databases without a record belong   *)
(* to an older installation.                                               *)
TooLong(d) == d.record # NoValue /\ Dumped[d.record] > RecordCap

Consistent(d) == IF d.record = NoValue THEN ~d.data ELSE Sound(d.record)

Loads(d) == ~TooLong(d) /\ Consistent(d)

(* parse_update: its refusals, and the effective values.  The length of    *)
(* the request is checked, that of the merged record is not.               *)
UpdateAccepts(req, existing) ==
    /\ Posted[req] <= RecordCap
    /\ req.time = Blank
    /\ req.id = existing.id
    /\ IF req.user = Blank THEN req.password = Blank
                           ELSE req.password # Blank \/ existing.password # Blank
    /\ req.tls \/ req.ca = Blank

Kept(field, saved) == IF field # Blank THEN field ELSE saved

(* Fault: the request is saved as it came. *)
MergedVerbatim(req, existing) ==
    [existing EXCEPT !.user = req.user, !.tls = req.tls, !.password = req.password, !.ca = req.ca]

Merged(req, existing) ==
    [existing EXCEPT
        !.user = req.user, !.tls = req.tls,
        !.password = IF req.user = Blank THEN Blank ELSE Kept(req.password, existing.password),
        !.ca = IF ~req.tls \/ req.removeCa THEN Blank ELSE Kept(req.ca, existing.ca)]

(* What a request would produce (_candidate), against the values the       *)
(* server has in memory.                                                   *)
CandidateAccepts(req) ==
    IF server.value = NoValue THEN ParseAccepts(req) ELSE UpdateAccepts(req, server.value)

----------------------------------------------------------------------------
(* The ways a write can end: the disk it leaves, and whether it returns. *)

Outcome(d, ok) == [disk |-> d, ok |-> ok]

(* atomic_write; done is the disk with the new content in place. *)
AtomicWrite(d, done) == {Outcome(done, TRUE), Outcome(done, FALSE), Outcome(d, FALSE)}

(* write_ca.  Without a CA the file is unlinked if it is there; a file     *)
(* with the right content is left alone, if it can be read.                *)
WriteCa(d, v) ==
    LET done == [d EXCEPT !.ca = v.ca]
    IN  IF v.ca # Blank THEN AtomicWrite(d, done)
        ELSE {Outcome(done, TRUE)} \cup {Outcome(x, FALSE) : x \in {d} \ {done}}

(* save or update, then write_ca. *)
Save(d, v) ==
    UNION {IF o.ok THEN WriteCa(o.disk, v) ELSE {o} : o \in AtomicWrite(d, [d EXCEPT !.record = v])}

----------------------------------------------------------------------------

Fresh(v) == [value |-> v, seq |-> 0, applied |-> 0, busy |-> FALSE, answer |-> "none"]

(* The supervisor between two runs: value and seq are locals of a loop turn. *)
Idle(at) == [at |-> at, value |-> NoValue, seq |-> 0]

Down == sup' = Idle("down") /\ run' = NoRun /\ server' = Fresh(NoValue)

Init ==
    /\ disk = [record |-> NoValue, ca |-> Blank, data |-> FALSE]
    /\ server = Fresh(NoValue)
    /\ sup = Idle("down")
    /\ run = NoRun
    /\ stop = FALSE

(* serve: the lock is free, the record loads, the page is up. *)
Boot ==
    /\ ~Up /\ Loads(disk)
    /\ server' = Fresh(disk.record)
    /\ sup' = Idle("wait")
    /\ stop' = FALSE
    /\ UNCHANGED <<disk, run>>

(* load raises, and the process ends. *)
BootRefused == ~Up /\ ~Loads(disk) /\ UNCHANGED vars

(* POST /api/setup while nothing is configured.  A record that a failed    *)
(* save has left behind is ALREADY_CONFIGURED and stays as it is.          *)
FirstSave(req) ==
    /\ Up /\ ~server.busy
    /\ server.value = NoValue /\ ParseAccepts(req)
    /\ disk.record = NoValue
    /\ \E o \in Save(disk, Parsed(req)) :
          /\ disk' = o.disk
          /\ server' = IF o.ok THEN [server EXCEPT !.value = Parsed(req), !.answer = "saved"]
                               ELSE [server EXCEPT !.answer = "failed"]
    /\ UNCHANGED <<sup, run, stop>>

(* POST /api/setup afterwards: the merge is against the record that is     *)
(* loaded again, the comparison against what the server had in memory.     *)
Update(req) ==
    /\ Up /\ ~server.busy
    /\ server.value # NoValue /\ Loads(disk) /\ UpdateAccepts(req, disk.record)
    /\ server.seq < MaxSeq
    /\ \E v \in {Merged(req, disk.record)} : \E o \in Save(disk, v) :
          /\ disk' = o.disk
          /\ server' = IF o.ok THEN [server EXCEPT !.value = v, !.answer = "saved",
                                                   !.seq = IF v # server.value THEN @ + 1 ELSE @]
                               ELSE [server EXCEPT !.answer = "failed"]
    /\ UNCHANGED <<sup, run, stop>>

(* Fault: the CA of a test is written where the running agent reads it. *)
TestOverCa(req) ==
    /\ Up /\ ~server.busy /\ CandidateAccepts(req)
    /\ server' = [server EXCEPT !.busy = TRUE]
    /\ disk' = [disk EXCEPT !.ca = req.ca]
    /\ UNCHANGED <<sup, run, stop>>

(* POST /api/test holds the mutation lock over its connection; whoever     *)
(* posts meanwhile is told BUSY.  Its CA has a temporary file.             *)
Test(req) ==
    /\ Up /\ ~server.busy /\ CandidateAccepts(req)
    /\ server' = [server EXCEPT !.busy = TRUE]
    /\ UNCHANGED <<disk, sup, run, stop>>

TestEnds ==
    /\ server.busy
    /\ server' = [server EXCEPT !.busy = FALSE]
    /\ UNCHANGED <<disk, sup, run, stop>>

----------------------------------------------------------------------------
(* The supervisor. *)

Leave == sup' = Idle("exit") /\ UNCHANGED <<disk, server, run>>

(* The top of the loop, up to the first await of run. *)
Begin ==
    /\ \E o \in WriteCa(disk, server.value) :
          /\ disk' = o.disk
          /\ sup' = [at |-> IF o.ok THEN "starting" ELSE "blocked",
                     value |-> server.value, seq |-> server.seq]
          /\ server' = IF o.ok THEN [server EXCEPT !.applied = server.seq] ELSE server
    /\ run' = NoRun

(* serve, until there is something to run. *)
Wait ==
    /\ sup.at = "wait"
    /\ \/ stop /\ Leave
       \/ ~stop /\ server.value # NoValue /\ Begin
    /\ UNCHANGED stop

(* The record could not be put in force; only another revision ends this. *)
Unblock ==
    /\ sup.at = "blocked"
    /\ \/ stop /\ Leave
       \/ ~stop /\ server.seq # sup.seq /\ Begin
    /\ UNCHANGED stop

(* Fault: the watcher looks for a revision after the next one. *)
WatchOneBehind ==
    /\ sup.at \in {"starting", "serving", "closing"} /\ ~run.asked
    /\ stop \/ server.seq > sup.seq + 1
    /\ run' = [run EXCEPT !.asked = TRUE]
    /\ UNCHANGED <<disk, server, sup, stop>>

(* _watch_reload *)
Watch ==
    /\ sup.at \in {"starting", "serving", "closing"} /\ ~run.asked
    /\ stop \/ server.seq # sup.seq
    /\ run' = [run EXCEPT !.asked = TRUE]
    /\ UNCHANGED <<disk, server, sup, stop>>

(* run: a part is made and started.  A start that fails is handled there   *)
(* (LifecycleError, StoreError, OSError) or propagates; the part is closed *)
(* either way.  run_stop is looked at only when all are up.                *)
StartPart ==
    /\ sup.at = "starting"
    /\ \E part \in {StartOrder[Cardinality(run.parts) + 1]} :
          \/ /\ run' = [run EXCEPT !.parts = @ \cup {part}]
             /\ sup' = [sup EXCEPT !.at = IF run'.parts = Parts THEN "serving" ELSE "starting"]
          \/ /\ \E raised \in BOOLEAN : run' = [run EXCEPT !.parts = @ \cup {part}, !.raised = raised]
             /\ sup' = [sup EXCEPT !.at = "closing"]
    /\ UNCHANGED <<disk, server, stop>>

(* The agent's store has made its database. *)
MakeData ==
    /\ "agent" \in run.parts /\ ~disk.data
    /\ disk' = [disk EXCEPT !.data = TRUE]
    /\ UNCHANGED <<server, sup, run, stop>>

ServeStopped ==
    /\ sup.at = "serving" /\ run.asked
    /\ sup' = [sup EXCEPT !.at = "closing"]
    /\ UNCHANGED <<disk, server, run, stop>>

(* The lifecycle, the pipeline or the service failed on its own. *)
ServeFailed ==
    /\ sup.at = "serving"
    /\ sup' = [sup EXCEPT !.at = "closing"]
    /\ UNCHANGED <<disk, server, run, stop>>

(* The nested finally clauses: a close that raises does not keep the others from theirs. *)
ClosePart ==
    /\ sup.at = "closing" /\ run.parts # {}
    /\ \E part \in {CloseOrder[CHOOSE i \in 1..3 : CloseOrder[i] \in run.parts
                                  /\ \A j \in 1..(i - 1) : CloseOrder[j] \notin run.parts]} :
       \E raised \in {run.raised, TRUE} :
          run' = [run EXCEPT !.parts = @ \ {part}, !.raised = raised]
    /\ UNCHANGED <<disk, server, sup, stop>>

(* run has returned, whatever its code, or raised. *)
RunEnds ==
    /\ sup.at = "closing" /\ run.parts = {}
    /\ sup' = Idle(IF run.raised \/ stop \/ server.seq = sup.seq THEN "exit" ELSE "settle")
    /\ run' = NoRun
    /\ UNCHANGED <<disk, server, stop>>

Settled ==
    /\ sup.at = "settle"
    /\ IF stop THEN Leave ELSE Begin
    /\ UNCHANGED stop

(* The audit file is closed in a thread, the page goes on until then. *)
Exit == sup.at = "exit" /\ Down /\ UNCHANGED <<disk, stop>>

Signal == Up /\ ~stop /\ stop' = TRUE /\ UNCHANGED <<disk, server, sup, run>>

Crash == Up /\ sup.at # "exit" /\ Down /\ UNCHANGED <<disk, stop>>

Supervise == Wait \/ Unblock \/ StartPart \/ ServeStopped \/ ClosePart \/ RunEnds \/ Settled \/ Exit

Next ==
    \/ Boot \/ BootRefused \/ Signal \/ Crash
    \/ \E req \in Requests : FirstSave(req)
    \/ \E req \in Requests : Update(req)
    \/ \E req \in Requests : Test(req)
    \/ TestEnds
    \/ Supervise \/ Watch \/ MakeData \/ ServeFailed

ProvisioningSpec == Init /\ [][Next]_vars

(* The supervisor and its watcher run when they can: their awaits are      *)
(* sleeps, parts that start or fail, and closes that end (Lifecycle and    *)
(* Reporting show that).  Nobody has to save, to test or to fail.          *)
FairProvisioning == ProvisioningSpec /\ WF_vars(Supervise) /\ WF_vars(Watch)

----------------------------------------------------------------------------
(* Properties. *)

TypeOK ==
    /\ disk \in [record : Value \cup {NoValue}, ca : OrBlank(Cas), data : BOOLEAN]
    /\ server \in [value : Value \cup {NoValue}, seq : 0..MaxSeq, applied : 0..MaxSeq, busy : BOOLEAN,
                   answer : {"none", "saved", "failed"}]
    /\ sup \in [at : {"down", "wait", "blocked", "starting", "serving", "closing", "settle", "exit"},
                value : Value \cup {NoValue}, seq : 0..MaxSeq]
    /\ run \in [parts : SUBSET Parts, asked : BOOLEAN, raised : BOOLEAN]
    /\ stop \in BOOLEAN

(* Whichever write failed and wherever the process died, the next process  *)
(* finds nothing to refuse in the directory but the length of the record:  *)
(* it holds effective values ("Persisting a request verbatim would store a *)
(* blank password next to a username"), and databases never exist without  *)
(* one.  Once there is a record, its identity and its clock policy are     *)
(* never rewritten.                                                        *)
SavedRecordIsSound ==
    [][/\ Consistent(disk')
       /\ disk.record # NoValue =>
             disk'.record.id = disk.record.id /\ disk'.record.time = disk.record.time]_vars

(* A restart loads the record that was saved (the deployment guide: "a     *)
(* restart loads the commissioning record directly"): once a save is       *)
(* acknowledged, load accepts what is on disk.                             *)
RestartLoads == Up /\ server.answer = "saved" => Loads(disk)

(* Unless the last save was answered with an error, the page, the record   *)
(* and the agent agree: the server shows what is on disk (so that a test   *)
(* tests what a save would produce), the CA file a running agent reads at  *)
(* its next reconnect is the one of the record, and an agent that runs the *)
(* latest revision has its values, however saves, tests, reloads, failed   *)
(* writes and restarts followed each other.                                *)
AcknowledgedIsWhole ==
    Up /\ server.answer # "failed" =>
        /\ disk.record = server.value
        /\ sup.at \in {"starting", "serving", "closing"} => disk.ca = server.value.ca
        /\ sup.at \in {"starting", "serving", "closing"} /\ sup.seq = server.seq =>
               sup.value = server.value /\ server.applied = server.seq

(* A saved revision reaches the agent, or its write is reported as         *)
(* blocked, or the process ends and leaves it to the next one: a counter   *)
(* and not an event, so a revision that lands while the agent starts,      *)
(* closes or settles is not swallowed.                                     *)
Outstanding == server.value # NoValue /\ (server.seq # server.applied \/ sup.at = "wait")

SavedIsApplied == Outstanding ~> ~Outstanding \/ sup.at = "blocked"

=============================================================================
