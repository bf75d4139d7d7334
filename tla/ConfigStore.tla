---------------------------- MODULE ConfigStore ----------------------------
(***************************************************************************)
(* The durable configuration store: config/store.py and config/patch.py.   *)
(* Every method is one SQLite transaction on the one storage thread, so it *)
(* is one step.  The runtime is not here: a candidate is PREPARED, handed  *)
(* out as a token, and later committed or failed by its owner.             *)
(*                                                                         *)
(* A configuration is what it says of each device.  A command is a         *)
(* validated configSet (a whole content) or configPatch (one edit for each *)
(* device it names, against an exact base); invalid payloads are answered  *)
(* before the store is touched and are left out, and so are the settings   *)
(* of the gateway itself, which a patch replaces without a check.          *)
(***************************************************************************)
EXTENDS Integers, FiniteSets, ConfigModel

CONSTANTS
    Commands,       \* the commands the platform may send
    MaxVersion,     \* configuration versions are 1..MaxVersion
    MaxSnapshots,   \* max_snapshots = 32
    MaxRequests,    \* max_requests = 4096
    MaxTokens       \* bound on the preparation tokens given out (uuid4 in the code)

Keep     == "keep"        \* a patch says nothing of the device
NoDigest == "no digest"   \* command_digest and command_kind of a configSet: NULL
NoToken  == 0

Versions == 1..MaxVersion
Tokens   == 1..MaxTokens
Edits    == [Devices -> [op : {"add", "replace"}, def : Defs] \cup
                        [op : {"remove", Keep}, def : {Absent}]]
Messages == {cmd.message : cmd \in Commands}

(* A configSet has no base, no edits and no digest; the digest of a        *)
(* configPatch stands for its raw bytes.                                   *)
IsPatch(cmd) == cmd.digest # NoDigest

ASSUME ConfigAssumption ==
    /\ Commands \subseteq [message : Messages, version : Versions, digest : {c.digest : c \in Commands},
                           base : 0..MaxVersion, baseMessage : Messages \cup {NoMessage},
                           content : Contents, edits : Edits]
    /\ \A cmd \in Commands : IsPatch(cmd) => cmd.base < cmd.version
    /\ \A a, b \in Commands : IsPatch(a) /\ a.digest = b.digest => a = b
    /\ NoMessage \notin Messages
    /\ MaxVersion \in Nat /\ MaxSnapshots \in Nat \ {0} /\ MaxRequests \in Nat \ {0}
    /\ MaxTokens \in Nat

Digests == {cmd.digest : cmd \in Commands} \cup {NoDigest}

VARIABLES
    snapshots,   \* table snapshots: one row per version
    requests,    \* table requests: one receipt per message identity
    active,      \* metadata.active_version, 0: none
    previous,    \* metadata.previous_version
    lastToken    \* the newest token: a uuid is never given out twice

store == <<snapshots, requests, active, previous, lastToken>>

NoSnapshot == [state |-> "NONE", content |-> Nothing, message |-> NoMessage, token |-> NoToken]
NoReceipt  == [status |-> "NONE", version |-> 0, digest |-> NoDigest]

Saved(v)    == snapshots[v].state # "NONE"
Received(m) == requests[m].status # "NONE"

PreparedVersions == {v \in Versions : snapshots[v].state = "PREPARED"}

ActiveContent == IF active = 0 THEN Nothing ELSE snapshots[active].content
ActiveMessage == IF active = 0 THEN NoMessage ELSE snapshots[active].message

----------------------------------------------------------------------------
(* materialize: the edits fit the base, and what they make of it. *)

Fits(edits, content) ==
    \A d \in Devices : /\ edits[d].op = "add" => content[d] = Absent
                       /\ edits[d].op \in {"replace", "remove"} => content[d] # Absent

Merge(edits, content) ==
    [d \in Devices |-> IF edits[d].op = Keep THEN content[d] ELSE edits[d].def]

Target(cmd) == IF IsPatch(cmd) THEN Merge(cmd.edits, ActiveContent) ELSE cmd.content

SameReceipt(cmd) ==
    requests[cmd.message].version = cmd.version /\ requests[cmd.message].digest = cmd.digest

(* Fault: the base of a patch is not compared with the active configuration. *)
PatchVerdictAnyBase(cmd) ==
    IF ~IsPatch(cmd) THEN ""
    ELSE IF Received(cmd.message) /\ ~SameReceipt(cmd) THEN "MESSAGE_ID_CONFLICT"
    ELSE IF requests[cmd.message].status = "APPLIED" THEN "APPLIED"
    ELSE IF Saved(cmd.version) /\ snapshots[cmd.version].message # cmd.message THEN "VERSION_CONFLICT"
    ELSE IF ~Fits(cmd.edits, ActiveContent) THEN "DEVICE_CONFLICT"
    ELSE ""

(* The checks only prepare_patch makes, in its order; "" if it goes on to _prepare. *)
PatchVerdict(cmd) ==
    IF ~IsPatch(cmd) THEN ""
    ELSE IF Received(cmd.message) /\ ~SameReceipt(cmd) THEN "MESSAGE_ID_CONFLICT"
    ELSE IF requests[cmd.message].status = "APPLIED" THEN "APPLIED"
    ELSE IF Saved(cmd.version) /\ snapshots[cmd.version].message # cmd.message THEN "VERSION_CONFLICT"
    ELSE IF <<cmd.base, cmd.baseMessage>> # <<active, ActiveMessage>> THEN "BASE_CONFIG_MISMATCH"
    ELSE IF ~Fits(cmd.edits, ActiveContent) THEN "DEVICE_CONFLICT"
    ELSE ""

(* Fault: another version that is PREPARED is no obstacle. *)
PrepareVerdictTwoCandidates(cmd) ==
    IF Received(cmd.message) /\ ~SameReceipt(cmd) THEN "MESSAGE_ID_CONFLICT"
    ELSE IF cmd.version < active THEN "STALE_VERSION"
    ELSE IF Saved(cmd.version) /\ snapshots[cmd.version].content # Target(cmd) THEN "VERSION_CONFLICT"
    ELSE IF cmd.version = active THEN "APPLIED" ELSE "PREPARED"

(* Fault: the candidate is an obstacle to itself. *)
PrepareVerdictNoRetry(cmd) ==
    IF Received(cmd.message) /\ ~SameReceipt(cmd) THEN "MESSAGE_ID_CONFLICT"
    ELSE IF cmd.version < active THEN "STALE_VERSION"
    ELSE IF Saved(cmd.version) /\ snapshots[cmd.version].content # Target(cmd) THEN "VERSION_CONFLICT"
    ELSE IF cmd.version # active /\ PreparedVersions # {} THEN "RESOURCE_LIMIT"
    ELSE IF cmd.version = active THEN "APPLIED" ELSE "PREPARED"

(* The checks of _prepare, in its order. *)
PrepareVerdict(cmd) ==
    IF Received(cmd.message) /\ ~SameReceipt(cmd) THEN "MESSAGE_ID_CONFLICT"
    ELSE IF cmd.version < active THEN "STALE_VERSION"
    ELSE IF Saved(cmd.version) /\ snapshots[cmd.version].content # Target(cmd) THEN "VERSION_CONFLICT"
    ELSE IF cmd.version # active /\ PreparedVersions \ {cmd.version} # {} THEN "RESOURCE_LIMIT"
    ELSE IF ~Received(cmd.message) /\ Cardinality({m \in Messages : Received(m)}) >= MaxRequests
         THEN "RESOURCE_LIMIT"
    ELSE IF ~Saved(cmd.version) /\ Cardinality({v \in Versions : Saved(v)}) >= MaxSnapshots
         THEN "RESOURCE_LIMIT"
    ELSE IF cmd.version = active THEN "APPLIED" ELSE "PREPARED"

Verdict(cmd) == IF PatchVerdict(cmd) # "" THEN PatchVerdict(cmd) ELSE PrepareVerdict(cmd)

(* The token _prepare gives out: the one of a candidate that is still PREPARED, or a new one. *)
TokenFor(cmd) ==
    IF snapshots[cmd.version].state = "PREPARED" THEN snapshots[cmd.version].token ELSE lastToken + 1

Receipt(cmd, status) == [status |-> status, version |-> cmd.version, digest |-> cmd.digest]

----------------------------------------------------------------------------

StoreInit ==
    /\ snapshots = [v \in Versions |-> NoSnapshot]
    /\ requests = [m \in Messages |-> NoReceipt]
    /\ active = 0 /\ previous = 0 /\ lastToken = 0

(* prepare and prepare_patch make cmd the candidate.  A row that is there  *)
(* keeps its payload, and with it the message that first carried it.       *)
PrepareCandidate(cmd) ==
    /\ Verdict(cmd) = "PREPARED"
    /\ TokenFor(cmd) \in Tokens
    /\ snapshots' = [snapshots EXCEPT ![cmd.version] =
                        IF Saved(cmd.version)
                        THEN [@ EXCEPT !.state = "PREPARED", !.token = TokenFor(cmd)]
                        ELSE [state |-> "PREPARED", content |-> Target(cmd), message |-> cmd.message,
                              token |-> TokenFor(cmd)]]
    /\ requests' = [requests EXCEPT ![cmd.message] = Receipt(cmd, "PREPARED")]
    /\ lastToken' = IF TokenFor(cmd) > lastToken THEN TokenFor(cmd) ELSE lastToken
    /\ UNCHANGED <<active, previous>>

(* The command is in force already: it only leaves (or finds) a receipt. *)
PrepareApplied(cmd) ==
    /\ Verdict(cmd) = "APPLIED"
    /\ requests' = IF PatchVerdict(cmd) = "APPLIED" THEN requests
                   ELSE [requests EXCEPT ![cmd.message] = Receipt(cmd, "APPLIED")]
    /\ UNCHANGED <<snapshots, active, previous, lastToken>>

Prepare(cmd) == PrepareCandidate(cmd) \/ PrepareApplied(cmd)

(* The version a token stands for; a token that was revoked stands for none. *)
Candidate(v, t) == t \in Tokens /\ snapshots[v].token = t

(* Fault: the previous pointer is written after the active one. *)
CommitPointersSwapped(v, t) ==
    /\ Candidate(v, t)
    /\ snapshots[v].state = "PREPARED" /\ v > active
    /\ snapshots' = [snapshots EXCEPT ![v].state = "COMMITTED"]
    /\ active' = v
    /\ previous' = active'
    /\ requests' = [m \in Messages |-> IF Received(m) /\ requests[m].version = v
                                       THEN [requests[m] EXCEPT !.status = "APPLIED"] ELSE requests[m]]
    /\ UNCHANGED lastToken

(* commit: the candidate, the pointers and every receipt of the version,   *)
(* in one transaction.  A second commit of the active version changes      *)
(* nothing.                                                                *)
Commit(v, t) ==
    /\ Candidate(v, t)
    /\ snapshots[v].state = "PREPARED" /\ v > active
    /\ snapshots' = [snapshots EXCEPT ![v].state = "COMMITTED"]
    /\ previous' = active
    /\ active' = v
    /\ requests' = [m \in Messages |-> IF Received(m) /\ requests[m].version = v
                                       THEN [requests[m] EXCEPT !.status = "APPLIED"] ELSE requests[m]]
    /\ UNCHANGED lastToken

(* Fault: the receipts of a failed candidate stay PREPARED. *)
FailRowOnly(v, t) ==
    /\ Candidate(v, t)
    /\ snapshots[v].state = "PREPARED"
    /\ snapshots' = [snapshots EXCEPT ![v].state = "FAILED", ![v].token = NoToken]
    /\ UNCHANGED <<requests, active, previous, lastToken>>

(* fail: the token is revoked. *)
Fail(v, t) ==
    /\ Candidate(v, t)
    /\ snapshots[v].state = "PREPARED"
    /\ snapshots' = [snapshots EXCEPT ![v].state = "FAILED", ![v].token = NoToken]
    /\ requests' = [m \in Messages |-> IF Received(m) /\ requests[m].version = v
                                       THEN [requests[m] EXCEPT !.status = "FAILED"] ELSE requests[m]]
    /\ UNCHANGED <<active, previous, lastToken>>

(* Fault: a new owner deletes the candidate it finds. *)
RecoverForgets ==
    /\ snapshots' = [v \in Versions |-> IF snapshots[v].state = "PREPARED" THEN NoSnapshot ELSE snapshots[v]]
    /\ requests' = [m \in Messages |-> IF requests[m].status = "PREPARED" THEN NoReceipt ELSE requests[m]]
    /\ UNCHANGED <<active, previous, lastToken>>

(* _initialize by a new owner of the lock: what was PREPARED is INTERRUPTED. *)
Recover ==
    /\ snapshots' = [v \in Versions |->
                        IF snapshots[v].state = "PREPARED"
                        THEN [snapshots[v] EXCEPT !.state = "INTERRUPTED", !.token = NoToken]
                        ELSE snapshots[v]]
    /\ requests' = [m \in Messages |-> IF requests[m].status = "PREPARED"
                                       THEN [requests[m] EXCEPT !.status = "INTERRUPTED"] ELSE requests[m]]
    /\ UNCHANGED <<active, previous, lastToken>>

(* The store on its own: any command, and any token ever given out. *)
StoreNext ==
    \/ \E cmd \in Commands : PrepareCandidate(cmd)
    \/ \E cmd \in Commands : PrepareApplied(cmd)
    \/ \E v \in Versions, t \in 1..lastToken : Commit(v, t)
    \/ \E v \in Versions, t \in 1..lastToken : Fail(v, t)
    \/ Recover

StoreSpec == StoreInit /\ [][StoreNext]_store

----------------------------------------------------------------------------
(* Properties. *)

StoreTypeOK ==
    /\ snapshots \in [Versions -> [state : {"NONE", "PREPARED", "COMMITTED", "FAILED", "INTERRUPTED"},
                                   content : Contents, message : Messages \cup {NoMessage},
                                   token : Tokens \cup {NoToken}]]
    /\ requests \in [Messages -> [status : {"NONE", "PREPARED", "APPLIED", "FAILED", "INTERRUPTED"},
                                  version : Versions \cup {0}, digest : Digests]]
    /\ active \in Versions \cup {0}
    /\ previous \in Versions \cup {0}
    /\ lastToken \in 0..MaxTokens

(* The active pointer names the newest committed version and the previous  *)
(* pointer an older committed one, so load_active can always restore, and  *)
(* an owner that dies anywhere leaves no half-made switch.                 *)
PointersAreCommitted ==
    /\ active # 0 => snapshots[active].state = "COMMITTED"
    /\ previous # 0 => snapshots[previous].state = "COMMITTED" /\ previous < active
    /\ \A v \in Versions : snapshots[v].state = "COMMITTED" => v <= active

(* There is at most one candidate, it is newer than the active version,    *)
(* and no token opens two versions: a token that was kept past a failure   *)
(* or a restart cannot commit anything else.                               *)
OneCandidate ==
    /\ \A v, w \in PreparedVersions : v = w
    /\ \A v \in PreparedVersions : v > active /\ snapshots[v].token # NoToken
    /\ \A v, w \in Versions : snapshots[v].token # NoToken /\ snapshots[v].token = snapshots[w].token
                                  => v = w

(* Receipts tell the truth about their version: APPLIED exactly when it is *)
(* committed, PREPARED only while it is the candidate.  For a patch the    *)
(* snapshot is its own, which is what prepare_patch checks before it       *)
(* answers a replay (else: "Applied command receipt is inconsistent").     *)
ReceiptsAreTrue ==
    \A m \in Messages : Received(m) =>
        /\ requests[m].status = "APPLIED" <=> snapshots[requests[m].version].state = "COMMITTED"
        /\ requests[m].status = "PREPARED" => snapshots[requests[m].version].state = "PREPARED"
        /\ requests[m].digest # NoDigest => snapshots[requests[m].version].message = m

(* A patch that is confirmed as APPLIED was merged into exactly the base   *)
(* it names, however it was retried and whatever was committed or failed   *)
(* since it was first prepared.                                            *)
AppliedPatchIsItsEdit ==
    \A cmd \in Commands :
        IsPatch(cmd) /\ requests[cmd.message].status = "APPLIED" /\ SameReceipt(cmd) =>
            snapshots[cmd.version].content =
                Merge(cmd.edits, IF cmd.base = 0 THEN Nothing ELSE snapshots[cmd.base].content)

(* A version, once seen, never changes its content or first message, and   *)
(* never leaves COMMITTED; a message identity stays bound to its version   *)
(* and bytes; APPLIED is final; the active version never goes back.        *)
HistoryKept ==
    /\ active' >= active
    /\ \A v \in Versions : Saved(v) =>
           /\ snapshots'[v].content = snapshots[v].content
           /\ snapshots'[v].message = snapshots[v].message
           /\ snapshots[v].state = "COMMITTED" => snapshots'[v].state = "COMMITTED"
    /\ \A m \in Messages : Received(m) =>
           /\ requests'[m].version = requests[m].version
           /\ requests'[m].digest = requests[m].digest
           /\ requests[m].status = "APPLIED" => requests'[m].status = "APPLIED"

(* No step of the store rewrites what it has answered for: the history     *)
(* that replays and reports rely on only grows.                            *)
HistoryIsImmutable == [][HistoryKept]_store

=============================================================================
