------------------------- MODULE ConfigStoreProofs -------------------------
(***************************************************************************)
(* Proofs about the configuration store, for every set of commands,        *)
(* versions, devices and definitions and every quota.                      *)
(*                                                                         *)
(* The inductive invariant adds to the properties that tokens only grow:   *)
(* every token in the table was given out, so a new one opens nothing old, *)
(* and that whatever is not a candidate and not committed holds no token.  *)
(***************************************************************************)
EXTENDS ConfigStore, TLAPS

(* What the tokens in the table are. *)
TokensGiven ==
    \A v \in Versions :
        /\ snapshots[v].token <= lastToken
        /\ snapshots[v].token # NoToken => snapshots[v].state \in {"PREPARED", "COMMITTED"}

(* The rows of table snapshots. *)
SnapshotRows == [state : {"NONE", "PREPARED", "COMMITTED", "FAILED", "INTERRUPTED"},
                 content : Contents, message : Messages \cup {NoMessage}, token : Tokens \cup {NoToken}]

StoreInv == StoreTypeOK /\ PointersAreCommitted /\ OneCandidate /\ TokensGiven

----------------------------------------------------------------------------

(* The constants, in the form the other proofs use them. *)
LEMMA CommandType ==
    ASSUME NEW cmd \in Commands
    PROVE  /\ cmd.message \in Messages /\ cmd.version \in Versions /\ cmd.digest \in Digests
           /\ cmd.content \in Contents /\ cmd.edits \in Edits
           /\ Versions \subseteq Nat \ {0} /\ Tokens \subseteq Nat \ {0} /\ MaxTokens \in Nat
           /\ NoToken \notin Tokens
<1>1. cmd \in [message : Messages, version : Versions, digest : {c.digest : c \in Commands},
               base : 0..MaxVersion, baseMessage : Messages \cup {NoMessage},
               content : Contents, edits : Edits]
  BY ConfigAssumption
<1>2. cmd.digest \in Digests
  BY DEF Digests
<1> QED
  BY <1>1, <1>2, ConfigAssumption DEF Versions, Tokens, NoToken

(* A row that commit, fail or a new owner has marked is still a row of the table. *)
LEMMA MarkedRow ==
    ASSUME NEW r \in SnapshotRows
    PROVE  /\ [r EXCEPT !.state = "COMMITTED"] \in SnapshotRows
           /\ [r EXCEPT !.state = "FAILED", !.token = NoToken] \in SnapshotRows
           /\ [r EXCEPT !.state = "INTERRUPTED", !.token = NoToken] \in SnapshotRows
  BY DEF SnapshotRows

(* Versions and tokens are positive numbers. *)
LEMMA Numbers ==
    /\ Versions \subseteq Nat \ {0} /\ Tokens \subseteq Nat \ {0} /\ MaxTokens \in Nat
    /\ NoToken \notin Tokens /\ 0 \notin Versions
BY ConfigAssumption DEF Versions, Tokens, NoToken

(* What a patch makes of a configuration is a configuration. *)
LEMMA TargetType ==
    ASSUME StoreTypeOK, NEW cmd \in Commands
    PROVE  Target(cmd) \in Contents
<1>1. ActiveContent \in Contents
  BY DEF StoreTypeOK, ActiveContent, Nothing, Contents, Absent
<1>2. ASSUME NEW d \in Devices
      PROVE  cmd.edits[d].def \in Defs \cup {Absent}
  BY CommandType DEF Edits
<1>3. Merge(cmd.edits, ActiveContent) \in Contents
  BY <1>1, <1>2 DEF Merge, Contents
<1> QED
  BY <1>3, CommandType DEF Target

(* The tables start empty. *)
LEMMA InitInv == StoreInit => StoreInv
<1> SUFFICES ASSUME StoreInit PROVE StoreInv
  OBVIOUS
<1> USE DEF StoreInit
<1>1. StoreTypeOK
  BY Numbers, ConfigAssumption
     DEF StoreTypeOK, NoSnapshot, NoReceipt, Nothing, Contents, Digests, Versions, NoToken
<1>2. PointersAreCommitted
  BY Numbers DEF PointersAreCommitted, NoSnapshot
<1>3. OneCandidate /\ TokensGiven
  BY DEF OneCandidate, TokensGiven, PreparedVersions, NoSnapshot, NoToken
<1> QED
  BY <1>1, <1>2, <1>3 DEF StoreInv

(* A new candidate: the verdict says it is newer than the active version   *)
(* and that no other version is PREPARED, and its token is its own or new. *)
LEMMA PrepareInv ==
    ASSUME StoreInv, NEW cmd \in Commands, PrepareCandidate(cmd)
    PROVE  StoreInv'
<1> DEFINE v == cmd.version
           t == TokenFor(cmd)
           row == IF Saved(v) THEN [snapshots[v] EXCEPT !.state = "PREPARED", !.token = t]
                  ELSE [state |-> "PREPARED", content |-> Target(cmd), message |-> cmd.message, token |-> t]
<1> USE Numbers, CommandType
<1>0. StoreTypeOK
  BY DEF StoreInv
<1>1. /\ v \in Versions /\ t \in Tokens
      /\ snapshots' = [snapshots EXCEPT ![v] = row]
      /\ active' = active /\ previous' = previous
      /\ lastToken' = IF t > lastToken THEN t ELSE lastToken
      /\ requests' = [requests EXCEPT ![cmd.message] = Receipt(cmd, "PREPARED")]
  BY DEF PrepareCandidate
<1>2. v > active /\ PreparedVersions \subseteq {v}
  <2>1. Verdict(cmd) = "PREPARED"
    BY DEF PrepareCandidate
  <2>2. PrepareVerdict(cmd) = "PREPARED"
    <3>1. PatchVerdict(cmd) # "PREPARED"
      BY DEF PatchVerdict
    <3> QED
      BY <2>1, <3>1 DEF Verdict
  <2>3. ~(v < active) /\ v # active /\ PreparedVersions \ {v} = {}
    BY <2>2 DEF PrepareVerdict
  <2> QED
    <3>1. active \in Int /\ v \in Int
      BY <1>0, <1>1 DEF StoreTypeOK, Versions
    <3>2. v > active
      BY <2>3, <3>1
    <3> QED
      BY <2>3, <3>2
<1>3. /\ row.state = "PREPARED" /\ row.token = t
      /\ row \in [state : {"NONE", "PREPARED", "COMMITTED", "FAILED", "INTERRUPTED"},
                  content : Contents, message : Messages \cup {NoMessage}, token : Tokens \cup {NoToken}]
  <2>1. CASE Saved(v)
    <3>1. snapshots[v] \in [state : {"NONE", "PREPARED", "COMMITTED", "FAILED", "INTERRUPTED"},
                            content : Contents, message : Messages \cup {NoMessage},
                            token : Tokens \cup {NoToken}]
      BY <1>0 DEF StoreTypeOK
    <3>2. row = [snapshots[v] EXCEPT !.state = "PREPARED", !.token = t]
      BY <2>1
    <3> HIDE DEF row, t
    <3> QED
      BY <3>1, <3>2, <1>1
  <2>2. CASE ~Saved(v)
    <3>1. row = [state |-> "PREPARED", content |-> Target(cmd), message |-> cmd.message, token |-> t]
      BY <2>2
    <3>2. Target(cmd) \in Contents
      BY <1>0, TargetType
    <3> HIDE DEF row, t
    <3> QED
      BY <3>1, <3>2, <1>1
  <2> QED
    BY <2>1, <2>2
<1>4. StoreTypeOK'
  <2>1. lastToken' \in 0..MaxTokens
    BY <1>0, <1>1 DEF StoreTypeOK, Tokens
  <2>2. requests' \in [Messages -> [status : {"NONE", "PREPARED", "APPLIED", "FAILED", "INTERRUPTED"},
                                    version : Versions \cup {0}, digest : Digests]]
    BY <1>0, <1>1 DEF StoreTypeOK, Receipt
  <2> HIDE DEF row
  <2> QED
    BY <1>0, <1>1, <1>3, <2>1, <2>2 DEF StoreTypeOK
<1> HIDE DEF row
<1>5. snapshots'[v] = row /\ \A w \in Versions \ {v} : snapshots'[w] = snapshots[w]
  BY <1>0, <1>1 DEF StoreTypeOK
<1>6. PointersAreCommitted'
  BY <1>0, <1>1, <1>2, <1>3, <1>5 DEF StoreInv, PointersAreCommitted, StoreTypeOK
<1>7. \A w \in Versions : w # v => snapshots[w].token # t
  <2> SUFFICES ASSUME NEW w \in Versions, w # v, snapshots[w].token = t PROVE FALSE
    OBVIOUS
  <2>1. CASE snapshots[v].state = "PREPARED"
    BY <2>1, <1>1 DEF TokenFor, StoreInv, OneCandidate
  <2>2. CASE snapshots[v].state # "PREPARED"
    <3>1. t = lastToken + 1
      BY <2>2 DEF TokenFor
    <3>2. snapshots[w].token <= lastToken
      BY DEF StoreInv, TokensGiven
    <3> QED
      BY <3>1, <3>2, <1>0 DEF StoreTypeOK
  <2> QED
    BY <2>1, <2>2
<1>8. OneCandidate'
  <2>1. PreparedVersions' = {v}
    BY <1>1, <1>2, <1>3, <1>5 DEF PreparedVersions
  <2>2. \A x, y \in Versions : snapshots'[x].token # NoToken /\ snapshots'[x].token = snapshots'[y].token
                                   => x = y
    BY <1>3, <1>5, <1>7 DEF StoreInv, OneCandidate
  <2>3. t # NoToken
    BY <1>1
  <2> QED
    BY <2>1, <2>2, <2>3, <1>1, <1>2, <1>3, <1>5 DEF OneCandidate
<1>9. TokensGiven'
  <2> SUFFICES ASSUME NEW w \in Versions
               PROVE  /\ snapshots'[w].token <= lastToken'
                      /\ snapshots'[w].token # NoToken => snapshots'[w].state \in {"PREPARED", "COMMITTED"}
    BY DEF TokensGiven
  <2> HIDE DEF t
  <2>1. CASE w = v
    <3>1. t <= lastToken'
      BY <1>0, <1>1 DEF StoreTypeOK
    <3> QED
      BY <2>1, <3>1, <1>3, <1>5
  <2>2. CASE w # v
    <3>1. snapshots[w].token \in Tokens \cup {NoToken} /\ lastToken \in Nat
      BY <1>0 DEF StoreTypeOK
    <3>2. snapshots[w].token \in Nat
      BY <3>1 DEF NoToken, Tokens
    <3>3. t \in Nat /\ lastToken' >= lastToken /\ lastToken' \in Nat
      BY <1>1, <3>1
    <3>4. /\ snapshots[w].token <= lastToken
          /\ snapshots[w].token # NoToken => snapshots[w].state \in {"PREPARED", "COMMITTED"}
      BY DEF StoreInv, TokensGiven
    <3> QED
      BY <2>2, <3>1, <3>2, <3>3, <3>4, <1>5
  <2> QED
    BY <2>1, <2>2
<1> QED
  BY <1>4, <1>6, <1>8, <1>9 DEF StoreInv

(* A receipt for the version in force disturbs nothing but the receipts. *)
LEMMA AppliedInv ==
    ASSUME StoreInv, NEW cmd \in Commands, PrepareApplied(cmd)
    PROVE  StoreInv'
<1>1. requests' \in [Messages -> [status : {"NONE", "PREPARED", "APPLIED", "FAILED", "INTERRUPTED"},
                                  version : Versions \cup {0}, digest : Digests]]
  BY CommandType DEF StoreInv, StoreTypeOK, PrepareApplied, Receipt
<1>2. StoreTypeOK'
  BY <1>1 DEF StoreInv, StoreTypeOK, PrepareApplied
<1>3. UNCHANGED <<snapshots, active, previous, lastToken>>
  BY DEF PrepareApplied
<1>4. PointersAreCommitted' /\ OneCandidate' /\ TokensGiven'
  BY <1>3 DEF StoreInv, PointersAreCommitted, OneCandidate, TokensGiven, PreparedVersions
<1> QED
  BY <1>2, <1>4 DEF StoreInv

(* commit moves the one candidate above every committed version. *)
LEMMA CommitInv ==
    ASSUME StoreInv, NEW v \in Versions, NEW t \in 1..lastToken, Commit(v, t)
    PROVE  StoreInv'
<1>0. StoreTypeOK
  BY DEF StoreInv
<1>1. /\ snapshots' = [snapshots EXCEPT ![v].state = "COMMITTED"]
      /\ active' = v /\ previous' = active /\ lastToken' = lastToken
      /\ snapshots[v].state = "PREPARED" /\ v > active
  BY DEF Commit
<1>2. /\ snapshots'[v].state = "COMMITTED" /\ snapshots'[v].token = snapshots[v].token
      /\ \A w \in Versions \ {v} : snapshots'[w] = snapshots[w]
  BY <1>0, <1>1 DEF StoreTypeOK
<1>3. StoreTypeOK'
  <2>1. requests' \in [Messages -> [status : {"NONE", "PREPARED", "APPLIED", "FAILED", "INTERRUPTED"},
                                    version : Versions \cup {0}, digest : Digests]]
    BY <1>0 DEF StoreTypeOK, Commit
  <2>2. snapshots \in [Versions -> SnapshotRows]
    BY <1>0 DEF StoreTypeOK, SnapshotRows
  <2>3. snapshots' = [snapshots EXCEPT ![v] = [snapshots[v] EXCEPT !.state = "COMMITTED"]]
    BY <1>1
  <2>4. snapshots' \in [Versions -> SnapshotRows]
    BY <2>2, <2>3, MarkedRow
  <2>5. /\ active' \in Versions \cup {0} /\ previous' \in Versions \cup {0}
        /\ lastToken' \in 0..MaxTokens
    BY <1>0, <1>1 DEF StoreTypeOK
  <2> QED
    BY <2>1, <2>4, <2>5 DEF StoreTypeOK, SnapshotRows
<1>4. PointersAreCommitted'
  <2>1. active \in Int /\ Versions \subseteq Int
    BY <1>0 DEF StoreTypeOK, Versions
  <2>2. active # 0 => active \in Versions /\ active # v
    BY <1>0, <1>1, <2>1 DEF StoreTypeOK
  <2>3. previous' # 0 => snapshots'[previous'].state = "COMMITTED" /\ previous' < active'
    BY <1>1, <1>2, <2>1, <2>2 DEF StoreInv, PointersAreCommitted
  <2>4. ASSUME NEW w \in Versions, snapshots'[w].state = "COMMITTED" PROVE w <= active'
    BY <2>4, <1>1, <1>2, <2>1 DEF StoreInv, PointersAreCommitted
  <2> QED
    BY <1>1, <1>2, <2>3, <2>4 DEF PointersAreCommitted
<1>5. OneCandidate'
  <2>1. PreparedVersions = {v}
    BY <1>1 DEF StoreInv, OneCandidate, PreparedVersions
  <2>2. PreparedVersions' = {}
    BY <2>1, <1>2 DEF PreparedVersions
  <2>3. \A x \in Versions : snapshots'[x].token = snapshots[x].token
    BY <1>2
  <2> QED
    BY <2>2, <2>3 DEF StoreInv, OneCandidate
<1>6. TokensGiven'
  BY <1>1, <1>2 DEF StoreInv, TokensGiven
<1> QED
  BY <1>3, <1>4, <1>5, <1>6 DEF StoreInv

(* Steps that only take candidates and their tokens away. *)
LEMMA RevokeInv ==
    ASSUME StoreInv, StoreTypeOK', UNCHANGED <<active, previous, lastToken>>,
           \A v \in Versions :
               \/ snapshots'[v] = snapshots[v]
               \/ /\ snapshots[v].state = "PREPARED"
                  /\ snapshots'[v].state \in {"FAILED", "INTERRUPTED"}
                  /\ snapshots'[v].token = NoToken
    PROVE  StoreInv'
<1>1. PointersAreCommitted'
  BY DEF StoreInv, PointersAreCommitted, StoreTypeOK
<1>2. OneCandidate'
  <2>1. PreparedVersions' \subseteq PreparedVersions
    BY DEF PreparedVersions
  <2>2. \A v \in PreparedVersions' : snapshots'[v] = snapshots[v]
    BY DEF PreparedVersions
  <2>3. \A v \in Versions : snapshots'[v].token # NoToken => snapshots'[v].token = snapshots[v].token
    OBVIOUS
  <2> QED
    BY <2>1, <2>2, <2>3 DEF StoreInv, OneCandidate
<1>3. TokensGiven'
  <2>1. NoToken <= lastToken
    BY DEF StoreInv, StoreTypeOK, NoToken
  <2> QED
    BY <2>1 DEF StoreInv, TokensGiven
<1> QED
  BY <1>1, <1>2, <1>3 DEF StoreInv

(* fail revokes the candidate's token. *)
LEMMA FailInv ==
    ASSUME StoreInv, NEW v \in Versions, NEW t \in 1..lastToken, Fail(v, t)
    PROVE  StoreInv'
<1>0. StoreTypeOK
  BY DEF StoreInv
<1>1. requests' \in [Messages -> [status : {"NONE", "PREPARED", "APPLIED", "FAILED", "INTERRUPTED"},
                                  version : Versions \cup {0}, digest : Digests]]
  BY <1>0 DEF StoreTypeOK, Fail
<1>2. StoreTypeOK'
  <2>1. snapshots' \in [Versions -> SnapshotRows]
    <3>1. snapshots \in [Versions -> SnapshotRows]
      BY <1>0 DEF StoreTypeOK, SnapshotRows
    <3>2. snapshots' = [snapshots EXCEPT ![v] = [snapshots[v] EXCEPT !.state = "FAILED", !.token = NoToken]]
      BY <3>1 DEF Fail, SnapshotRows
    <3> QED
      BY <3>1, <3>2, MarkedRow
  <2>2. UNCHANGED <<active, previous, lastToken>>
    BY DEF Fail
  <2> QED
    BY <1>0, <1>1, <2>1, <2>2 DEF StoreTypeOK, SnapshotRows
<1>3. /\ snapshots[v].state = "PREPARED"
      /\ snapshots'[v].state = "FAILED" /\ snapshots'[v].token = NoToken
      /\ \A w \in Versions \ {v} : snapshots'[w] = snapshots[w]
  BY <1>0 DEF StoreTypeOK, Fail
<1>4. UNCHANGED <<active, previous, lastToken>>
  BY DEF Fail
<1>5. \A w \in Versions :
          \/ snapshots'[w] = snapshots[w]
          \/ /\ snapshots[w].state = "PREPARED"
             /\ snapshots'[w].state \in {"FAILED", "INTERRUPTED"}
             /\ snapshots'[w].token = NoToken
  BY <1>3
<1> QED
  BY <1>2, <1>4, <1>5, RevokeInv

(* A new owner revokes every candidate. *)
LEMMA RecoverInv ==
    ASSUME StoreInv, Recover
    PROVE  StoreInv'
<1>0. StoreTypeOK
  BY DEF StoreInv
<1>1. requests' \in [Messages -> [status : {"NONE", "PREPARED", "APPLIED", "FAILED", "INTERRUPTED"},
                                  version : Versions \cup {0}, digest : Digests]]
  BY <1>0 DEF StoreTypeOK, Recover
<1>2. StoreTypeOK'
  <2>1. snapshots' \in [Versions -> SnapshotRows]
    <3>1. snapshots \in [Versions -> SnapshotRows]
      BY <1>0 DEF StoreTypeOK, SnapshotRows
    <3>2. \A w \in Versions : snapshots'[w] \in SnapshotRows
      BY <3>1, MarkedRow DEF Recover
    <3>3. snapshots' = [w \in Versions |-> snapshots'[w]]
      BY DEF Recover
    <3> QED
      BY <3>2, <3>3
  <2>2. UNCHANGED <<active, previous, lastToken>>
    BY DEF Recover
  <2> QED
    BY <1>0, <1>1, <2>1, <2>2 DEF StoreTypeOK, SnapshotRows
<1>3. \A v \in Versions :
          \/ snapshots'[v] = snapshots[v]
          \/ /\ snapshots[v].state = "PREPARED"
             /\ snapshots'[v].state \in {"FAILED", "INTERRUPTED"}
             /\ snapshots'[v].token = NoToken
  BY <1>0 DEF StoreTypeOK, Recover
<1>4. UNCHANGED <<active, previous, lastToken>>
  BY DEF Recover
<1> QED
  BY <1>2, <1>3, <1>4, RevokeInv

(* One step of the store, by operation. *)
LEMMA StepInv == StoreInv /\ [StoreNext]_store => StoreInv'
<1> SUFFICES ASSUME StoreInv, [StoreNext]_store PROVE StoreInv'
  OBVIOUS
<1>1. CASE \E cmd \in Commands : PrepareCandidate(cmd)
  BY <1>1, PrepareInv
<1>2. CASE \E cmd \in Commands : PrepareApplied(cmd)
  BY <1>2, AppliedInv
<1>3. CASE \E v \in Versions, t \in 1..lastToken : Commit(v, t)
  BY <1>3, CommitInv
<1>4. CASE \E v \in Versions, t \in 1..lastToken : Fail(v, t)
  BY <1>4, FailInv
<1>5. CASE Recover
  BY <1>5, RecoverInv
<1>6. CASE UNCHANGED store
  BY <1>6 DEF store, StoreInv, StoreTypeOK, PointersAreCommitted, OneCandidate, TokensGiven, PreparedVersions
<1> QED
  BY <1>1, <1>2, <1>3, <1>4, <1>5, <1>6 DEF StoreNext

(* The tables always have their types, the pointers always name committed  *)
(* versions and there is never more than one candidate.                    *)
THEOREM StoreInvariant == StoreSpec => []StoreInv
BY InitInv, StepInv, PTL DEF StoreSpec

(* load_active always finds a committed snapshot, and the newest one: no   *)
(* sequence of prepare, commit, fail and restart leaves a half-made switch. *)
THEOREM PointersAlwaysCommitted == StoreSpec => []PointersAreCommitted
<1>1. StoreInv => PointersAreCommitted
  BY DEF StoreInv
<1> QED
  BY <1>1, StoreInvariant, PTL

(* A token kept past a failure or a restart opens nothing, and no token    *)
(* opens two versions.                                                     *)
THEOREM AlwaysOneCandidate == StoreSpec => []OneCandidate
<1>1. StoreInv => OneCandidate
  BY DEF StoreInv
<1> QED
  BY <1>1, StoreInvariant, PTL

----------------------------------------------------------------------------
(* Receipts. *)

(* What ReceiptsAreTrue needs to be inductive: a receipt names a version,  *)
(* and a version that was never saved has no message.                      *)
ReceiptInv ==
    /\ ReceiptsAreTrue
    /\ \A m \in Messages : Received(m) => requests[m].version \in Versions
    /\ \A v \in Versions : ~Saved(v) => snapshots[v].message = NoMessage

(* A command that passed the checks: its message is new or bound to it,    *)
(* and a patch owns the snapshot of its version if there is one.           *)
LEMMA VerdictFacts ==
    ASSUME NEW cmd \in Commands, Verdict(cmd) \in {"PREPARED", "APPLIED"}
    PROVE  /\ Received(cmd.message) => SameReceipt(cmd)
           /\ PatchVerdict(cmd) # "APPLIED" =>
                  /\ IsPatch(cmd) /\ Saved(cmd.version) => snapshots[cmd.version].message = cmd.message
                  /\ Verdict(cmd) = "APPLIED" => cmd.version = active
                  /\ Verdict(cmd) = "PREPARED" => ~(cmd.version < active) /\ cmd.version # active
<1>1. CASE PatchVerdict(cmd) = "APPLIED"
  BY <1>1 DEF PatchVerdict
<1>2. CASE PatchVerdict(cmd) # "APPLIED"
  <2>1. PatchVerdict(cmd) # "PREPARED"
    BY DEF PatchVerdict
  <2>2. PatchVerdict(cmd) = "" /\ Verdict(cmd) = PrepareVerdict(cmd)
    BY <1>2, <2>1 DEF Verdict
  <2>3. IsPatch(cmd) /\ Saved(cmd.version) => snapshots[cmd.version].message = cmd.message
    BY <2>2 DEF PatchVerdict
  <2>4. PrepareVerdict(cmd) \in {"PREPARED", "APPLIED"}
    BY <2>2
  <2>5. Received(cmd.message) => SameReceipt(cmd)
    BY <2>4 DEF PrepareVerdict
  <2>6. PrepareVerdict(cmd) = "APPLIED" => cmd.version = active
    BY DEF PrepareVerdict
  <2>7. PrepareVerdict(cmd) = "PREPARED" => ~(cmd.version < active) /\ cmd.version # active
    BY DEF PrepareVerdict
  <2> QED
    BY <2>2, <2>3, <2>5, <2>6, <2>7
<1> QED
  BY <1>1, <1>2

(* No receipt is there to begin with. *)
LEMMA ReceiptInit == StoreInit => ReceiptInv
BY DEF StoreInit, ReceiptInv, ReceiptsAreTrue, Received, Saved, NoSnapshot, NoReceipt

(* A candidate is not committed, before and after, and its receipt is PREPARED. *)
LEMMA ReceiptPrepare ==
    ASSUME StoreInv, ReceiptInv, NEW cmd \in Commands, PrepareCandidate(cmd)
    PROVE  ReceiptInv'
<1> DEFINE v == cmd.version
           c == cmd.message
<1>0. StoreTypeOK /\ v \in Versions /\ c \in Messages /\ c # NoMessage /\ PatchVerdict(cmd) # "APPLIED"
  <2>1. PatchVerdict(cmd) = "APPLIED" => Verdict(cmd) = "APPLIED"
    BY DEF Verdict
  <2> QED
    BY <2>1, CommandType, ConfigAssumption DEF StoreInv, PrepareCandidate
<1>1. snapshots[v].state # "COMMITTED"
  <2>1. ~(v < active) /\ v # active
    BY <1>0, VerdictFacts DEF PrepareCandidate
  <2> QED
    BY <1>0, <2>1 DEF StoreInv, PointersAreCommitted, StoreTypeOK, Versions
<1>2. /\ snapshots'[v].state = "PREPARED"
      /\ Saved(v) => snapshots'[v].message = snapshots[v].message
      /\ ~Saved(v) => snapshots'[v].message = c
      /\ \A w \in Versions \ {v} : snapshots'[w] = snapshots[w]
  BY <1>0 DEF StoreTypeOK, PrepareCandidate
<1>3. /\ requests'[c] = [status |-> "PREPARED", version |-> v, digest |-> cmd.digest]
      /\ \A m \in Messages \ {c} : requests'[m] = requests[m]
  BY <1>0 DEF StoreTypeOK, PrepareCandidate, Receipt
<1>4. cmd.digest # NoDigest => snapshots'[v].message = c
  <2>1. IsPatch(cmd) /\ Saved(v) => snapshots[v].message = c
    BY <1>0, VerdictFacts DEF PrepareCandidate
  <2> QED
    BY <2>1, <1>2 DEF IsPatch
<1>5. ASSUME NEW m \in Messages, Received(m)'
      PROVE  /\ requests'[m].version \in Versions
             /\ requests'[m].status = "APPLIED" <=> snapshots'[requests'[m].version].state = "COMMITTED"
             /\ requests'[m].status = "PREPARED" => snapshots'[requests'[m].version].state = "PREPARED"
             /\ requests'[m].digest # NoDigest => snapshots'[requests'[m].version].message = m
  <2>1. CASE m = c
    BY <2>1, <1>0, <1>2, <1>3, <1>4
  <2>2. CASE m # c
    <3>1. requests'[m] = requests[m] /\ Received(m)
      BY <2>2, <1>3, <1>5 DEF Received
    <3>2. /\ requests[m].version \in Versions
          /\ requests[m].status = "APPLIED" <=> snapshots[requests[m].version].state = "COMMITTED"
          /\ requests[m].status = "PREPARED" => snapshots[requests[m].version].state = "PREPARED"
          /\ requests[m].digest # NoDigest => snapshots[requests[m].version].message = m
      BY <3>1 DEF ReceiptInv, ReceiptsAreTrue
    <3>3. CASE requests[m].version = v
      <4>1. requests[m].digest # NoDigest => Saved(v)
        BY <3>2, <3>3, <1>0, ConfigAssumption DEF ReceiptInv
      <4> QED
        BY <3>1, <3>2, <3>3, <4>1, <1>1, <1>2
    <3>4. CASE requests[m].version # v
      BY <3>1, <3>2, <3>4, <1>2
    <3> QED
      BY <3>3, <3>4
  <2> QED
    BY <2>1, <2>2
<1>6. \A w \in Versions : ~Saved(w)' => snapshots'[w].message = NoMessage
  BY <1>2 DEF Saved, ReceiptInv
<1> QED
  BY <1>5, <1>6 DEF ReceiptInv, ReceiptsAreTrue

(* The receipt of a command in force names the active, committed version. *)
LEMMA ReceiptApplied ==
    ASSUME StoreInv, ReceiptInv, NEW cmd \in Commands, PrepareApplied(cmd)
    PROVE  ReceiptInv'
<1> DEFINE v == cmd.version
           c == cmd.message
<1>0. StoreTypeOK /\ v \in Versions /\ c \in Messages /\ 0 \notin Versions
  BY CommandType, Numbers DEF StoreInv
<1>1. snapshots' = snapshots
  BY DEF PrepareApplied
<1>2. CASE PatchVerdict(cmd) = "APPLIED"
  BY <1>1, <1>2 DEF PrepareApplied, ReceiptInv, ReceiptsAreTrue, Received, Saved
<1>3. CASE PatchVerdict(cmd) # "APPLIED"
  <2>1. v = active /\ snapshots[v].state = "COMMITTED" /\ Saved(v)
    <3>1. v = active
      BY <1>3, VerdictFacts DEF PrepareApplied
    <3> QED
      BY <3>1, <1>0 DEF StoreInv, PointersAreCommitted, Saved
  <2>2. cmd.digest # NoDigest => snapshots[v].message = c
    BY <1>3, <2>1, VerdictFacts DEF PrepareApplied, IsPatch
  <2>3. /\ requests'[c] = [status |-> "APPLIED", version |-> v, digest |-> cmd.digest]
        /\ \A m \in Messages \ {c} : requests'[m] = requests[m]
    BY <1>0, <1>3 DEF StoreTypeOK, PrepareApplied, Receipt
  <2> QED
    BY <1>0, <1>1, <2>1, <2>2, <2>3 DEF ReceiptInv, ReceiptsAreTrue, Received, Saved
<1> QED
  BY <1>2, <1>3

(* commit and fail settle every receipt of their version. *)
LEMMA ReceiptSettle ==
    ASSUME StoreInv, ReceiptInv, NEW v \in Versions, NEW t \in 1..lastToken, Commit(v, t) \/ Fail(v, t)
    PROVE  ReceiptInv'
<1>0. StoreTypeOK /\ snapshots[v].state = "PREPARED"
  BY DEF StoreInv, Commit, Fail
<1>1. PICK s \in {<<"COMMITTED", "APPLIED">>, <<"FAILED", "FAILED">>} :
          /\ snapshots'[v].state = s[1] /\ snapshots'[v].message = snapshots[v].message
          /\ \A w \in Versions \ {v} : snapshots'[w] = snapshots[w]
          /\ requests' = [m \in Messages |-> IF Received(m) /\ requests[m].version = v
                                             THEN [requests[m] EXCEPT !.status = s[2]] ELSE requests[m]]
  <2>1. CASE Commit(v, t)
    BY <2>1, <1>0 DEF Commit, StoreTypeOK
  <2>2. CASE Fail(v, t)
    BY <2>2, <1>0 DEF Fail, StoreTypeOK
  <2> QED
    BY <2>1, <2>2
<1>2. ASSUME NEW m \in Messages, Received(m)'
      PROVE  /\ requests'[m].version \in Versions
             /\ requests'[m].status = "APPLIED" <=> snapshots'[requests'[m].version].state = "COMMITTED"
             /\ requests'[m].status = "PREPARED" => snapshots'[requests'[m].version].state = "PREPARED"
             /\ requests'[m].digest # NoDigest => snapshots'[requests'[m].version].message = m
  <2>1. requests[m] \in [status : {"NONE", "PREPARED", "APPLIED", "FAILED", "INTERRUPTED"},
                         version : Versions \cup {0}, digest : Digests]
    BY <1>0 DEF StoreTypeOK
  <2>2. Received(m)
    BY <1>1, <1>2 DEF Received
  <2>3. /\ requests[m].version \in Versions
        /\ requests[m].status = "APPLIED" <=> snapshots[requests[m].version].state = "COMMITTED"
        /\ requests[m].status = "PREPARED" => snapshots[requests[m].version].state = "PREPARED"
        /\ requests[m].digest # NoDigest => snapshots[requests[m].version].message = m
    BY <2>2 DEF ReceiptInv, ReceiptsAreTrue
  <2>4. CASE requests[m].version = v
    <3>1. requests'[m].status = s[2] /\ requests'[m].version = v /\ requests'[m].digest = requests[m].digest
      BY <1>1, <2>1, <2>2, <2>4
    <3> QED
      BY <3>1, <2>3, <2>4, <1>1
  <2>5. CASE requests[m].version # v
    BY <1>1, <2>3, <2>5
  <2> QED
    BY <2>4, <2>5
<1>3. \A w \in Versions : ~Saved(w)' => snapshots'[w].message = NoMessage
  BY <1>0, <1>1 DEF Saved, ReceiptInv
<1> QED
  BY <1>2, <1>3 DEF ReceiptInv, ReceiptsAreTrue

(* A new owner leaves no receipt PREPARED. *)
LEMMA ReceiptRecover ==
    ASSUME StoreInv, ReceiptInv, Recover
    PROVE  ReceiptInv'
<1>0. StoreTypeOK
  BY DEF StoreInv
<1>1. ASSUME NEW v \in Versions
      PROVE  /\ snapshots'[v].message = snapshots[v].message
             /\ snapshots'[v].state = "COMMITTED" <=> snapshots[v].state = "COMMITTED"
             /\ snapshots'[v].state = "NONE" <=> snapshots[v].state = "NONE"
  BY <1>0 DEF StoreTypeOK, Recover
<1>2. ASSUME NEW m \in Messages
      PROVE  /\ requests'[m].version = requests[m].version /\ requests'[m].digest = requests[m].digest
             /\ requests'[m].status = "APPLIED" <=> requests[m].status = "APPLIED"
             /\ requests'[m].status = "NONE" <=> requests[m].status = "NONE"
             /\ requests'[m].status # "PREPARED"
  BY <1>0 DEF StoreTypeOK, Recover
<1> QED
  BY <1>1, <1>2 DEF ReceiptInv, ReceiptsAreTrue, Received, Saved

(* One step of the store, by operation. *)
LEMMA ReceiptStep == StoreInv /\ ReceiptInv /\ [StoreNext]_store => ReceiptInv'
<1> SUFFICES ASSUME StoreInv, ReceiptInv, [StoreNext]_store PROVE ReceiptInv'
  OBVIOUS
<1>1. CASE \E cmd \in Commands : PrepareCandidate(cmd)
  BY <1>1, ReceiptPrepare
<1>2. CASE \E cmd \in Commands : PrepareApplied(cmd)
  BY <1>2, ReceiptApplied
<1>3. CASE \E v \in Versions, t \in 1..lastToken : Commit(v, t) \/ Fail(v, t)
  BY <1>3, ReceiptSettle
<1>4. CASE Recover
  BY <1>4, ReceiptRecover
<1>5. CASE UNCHANGED store
  BY <1>5 DEF store, ReceiptInv, ReceiptsAreTrue, Received, Saved
<1> QED
  BY <1>1, <1>2, <1>3, <1>4, <1>5 DEF StoreNext

(* The receipts, which answer every replay of a command, never lie about   *)
(* the version they name: APPLIED exactly when it is committed.            *)
THEOREM ReceiptsNeverLie == StoreSpec => []ReceiptsAreTrue
<1>1. ReceiptInv => ReceiptsAreTrue
  BY DEF ReceiptInv
<1> QED
  BY <1>1, ReceiptInit, ReceiptStep, StoreInvariant, PTL DEF StoreSpec

----------------------------------------------------------------------------
(* History. *)

(* Every operation keeps the history.  A receipt that is written again was *)
(* checked to be the same command's; an APPLIED one is never reopened,     *)
(* because its version is committed and a candidate's is not.              *)
LEMMA HistoryStep == StoreInv /\ ReceiptInv /\ StoreNext => HistoryKept
<1> SUFFICES ASSUME StoreInv, ReceiptInv, StoreNext PROVE HistoryKept
  OBVIOUS
<1>0. StoreTypeOK /\ active \in Int
  BY DEF StoreInv, StoreTypeOK, Versions
<1>1. ASSUME NEW cmd \in Commands, PrepareCandidate(cmd)
      PROVE  HistoryKept
  <2> DEFINE v == cmd.version
             c == cmd.message
  <2>1. /\ v \in Versions /\ c \in Messages
        /\ PatchVerdict(cmd) # "APPLIED" /\ Verdict(cmd) = "PREPARED"
    BY <1>1, CommandType DEF PrepareCandidate, Verdict
  <2>2. Received(c) => requests[c].version = v /\ requests[c].digest = cmd.digest
    BY <2>1, VerdictFacts DEF SameReceipt
  <2>3. snapshots[v].state # "COMMITTED"
    <3>1. ~(v < active) /\ v # active
      BY <2>1, VerdictFacts
    <3> QED
      BY <1>0, <2>1, <3>1 DEF StoreInv, PointersAreCommitted, StoreTypeOK, Versions
  <2>4. Received(c) => requests[c].status # "APPLIED"
    BY <2>1, <2>2, <2>3 DEF ReceiptInv, ReceiptsAreTrue
  <2>5. \A w \in Versions : Saved(w) =>
            /\ snapshots'[w].content = snapshots[w].content /\ snapshots'[w].message = snapshots[w].message
            /\ snapshots[w].state = "COMMITTED" => snapshots'[w].state = "COMMITTED"
    BY <1>0, <1>1, <2>1, <2>3 DEF PrepareCandidate, StoreTypeOK
  <2>6. /\ requests'[c].version = v /\ requests'[c].digest = cmd.digest
        /\ \A m \in Messages \ {c} : requests'[m] = requests[m]
    BY <1>0, <1>1, <2>1 DEF PrepareCandidate, StoreTypeOK, Receipt
  <2>7. active' >= active
    BY <1>0, <1>1 DEF PrepareCandidate
  <2> QED
    BY <2>2, <2>4, <2>5, <2>6, <2>7 DEF HistoryKept
<1>2. ASSUME NEW cmd \in Commands, PrepareApplied(cmd)
      PROVE  HistoryKept
  <2> DEFINE c == cmd.message
  <2>1. c \in Messages /\ Verdict(cmd) = "APPLIED"
    BY <1>2, CommandType DEF PrepareApplied
  <2>2. Received(c) => requests[c].version = cmd.version /\ requests[c].digest = cmd.digest
    BY <2>1, VerdictFacts DEF SameReceipt
  <2>3. \/ requests' = requests
        \/ /\ requests'[c] = [status |-> "APPLIED", version |-> cmd.version, digest |-> cmd.digest]
           /\ \A m \in Messages \ {c} : requests'[m] = requests[m]
    BY <1>0, <1>2, <2>1 DEF PrepareApplied, StoreTypeOK, Receipt
  <2>4. snapshots' = snapshots /\ active' >= active
    BY <1>0, <1>2 DEF PrepareApplied
  <2> QED
    BY <2>2, <2>3, <2>4 DEF HistoryKept
<1>3. ASSUME NEW v \in Versions, NEW t \in 1..lastToken, Commit(v, t)
      PROVE  HistoryKept
  <2>1. active' >= active
    BY <1>0, <1>3 DEF Commit, Versions
  <2>2. \A w \in Versions : /\ snapshots'[w].content = snapshots[w].content
                            /\ snapshots'[w].message = snapshots[w].message
                            /\ snapshots[w].state = "COMMITTED" => snapshots'[w].state = "COMMITTED"
    BY <1>0, <1>3 DEF Commit, StoreTypeOK
  <2>3. \A m \in Messages : /\ requests'[m].version = requests[m].version
                            /\ requests'[m].digest = requests[m].digest
                            /\ requests[m].status = "APPLIED" => requests'[m].status = "APPLIED"
    BY <1>0, <1>3 DEF Commit, StoreTypeOK
  <2> QED
    BY <2>1, <2>2, <2>3 DEF HistoryKept
<1>4. ASSUME NEW v \in Versions, NEW t \in 1..lastToken, Fail(v, t)
      PROVE  HistoryKept
  <2>1. active' >= active /\ snapshots[v].state = "PREPARED"
    BY <1>0, <1>4 DEF Fail
  <2>2. \A w \in Versions : /\ snapshots'[w].content = snapshots[w].content
                            /\ snapshots'[w].message = snapshots[w].message
                            /\ snapshots[w].state = "COMMITTED" => snapshots'[w].state = "COMMITTED"
    BY <1>0, <1>4 DEF Fail, StoreTypeOK
  <2>3. \A m \in Messages : Received(m) /\ requests[m].version = v => requests[m].status # "APPLIED"
    BY <2>1 DEF ReceiptInv, ReceiptsAreTrue
  <2>4. \A m \in Messages : /\ requests'[m].version = requests[m].version
                            /\ requests'[m].digest = requests[m].digest
                            /\ requests[m].status = "APPLIED" => requests'[m].status = "APPLIED"
    BY <1>0, <1>4, <2>3 DEF Fail, StoreTypeOK
  <2> QED
    BY <2>1, <2>2, <2>4 DEF HistoryKept
<1>5. ASSUME Recover
      PROVE  HistoryKept
  <2>0. active' = active
    BY <1>5 DEF Recover
  <2>1. active' >= active
    BY <1>0, <2>0
  <2>2. \A w \in Versions : /\ snapshots'[w].content = snapshots[w].content
                            /\ snapshots'[w].message = snapshots[w].message
                            /\ snapshots[w].state = "COMMITTED" => snapshots'[w].state = "COMMITTED"
    BY <1>0, <1>5 DEF Recover, StoreTypeOK
  <2>3. \A m \in Messages : /\ requests'[m].version = requests[m].version
                            /\ requests'[m].digest = requests[m].digest
                            /\ requests[m].status = "APPLIED" => requests'[m].status = "APPLIED"
    BY <1>0, <1>5 DEF Recover, StoreTypeOK
  <2> QED
    BY <2>1, <2>2, <2>3 DEF HistoryKept
<1> QED
  BY <1>1, <1>2, <1>3, <1>4, <1>5 DEF StoreNext

(* Versions, message identities and confirmations are never rewritten. *)
THEOREM HistoryNeverChanges == StoreSpec => HistoryIsImmutable
<1>1. StoreInv /\ ReceiptInv /\ [StoreNext]_store => [HistoryKept]_store
  BY HistoryStep
<1> QED
  BY <1>1, ReceiptInit, ReceiptStep, StoreInvariant, PTL DEF StoreSpec, HistoryIsImmutable

----------------------------------------------------------------------------
(* Patches. *)

(* The configuration a patch names as its base. *)
BaseContent(cmd) == IF cmd.base = 0 THEN Nothing ELSE snapshots[cmd.base].content

(* The patch sits on a committed base, and its version is its edit of that base. *)
IsItsEdit(cmd) ==
    /\ cmd.base \in Versions \cup {0}
    /\ cmd.base # 0 => snapshots[cmd.base].state = "COMMITTED"
    /\ Saved(cmd.version)
    /\ snapshots[cmd.version].content = Merge(cmd.edits, BaseContent(cmd))

(* What AppliedPatchIsItsEdit needs to be inductive: it holds from the     *)
(* first preparation on, not only of what is applied.                      *)
PatchInv ==
    \A cmd \in Commands : IsPatch(cmd) /\ Received(cmd.message) /\ SameReceipt(cmd) => IsItsEdit(cmd)

(* The store deletes no version. *)
LEMMA SavedStays ==
    ASSUME StoreInv, StoreNext, NEW v \in Versions, Saved(v) PROVE Saved(v)'
<1>0. StoreTypeOK /\ snapshots[v].state # "NONE"
  BY DEF StoreInv, Saved
<1>1. snapshots'[v].state # "NONE"
  <2>1. ASSUME NEW cmd \in Commands, PrepareCandidate(cmd) PROVE snapshots'[v].state # "NONE"
    BY <1>0, <2>1, CommandType DEF PrepareCandidate, StoreTypeOK
  <2>2. ASSUME NEW w \in Versions, NEW t \in 1..lastToken, Commit(w, t) \/ Fail(w, t)
        PROVE  snapshots'[v].state # "NONE"
    BY <1>0, <2>2 DEF Commit, Fail, StoreTypeOK
  <2>3. CASE Recover
    BY <1>0, <2>3 DEF Recover, StoreTypeOK
  <2>4. ASSUME NEW cmd \in Commands, PrepareApplied(cmd) PROVE snapshots'[v].state # "NONE"
    BY <1>0, <2>4 DEF PrepareApplied
  <2> QED
    BY <2>1, <2>2, <2>3, <2>4 DEF StoreNext
<1> QED
  BY <1>1 DEF Saved

(* What the store never rewrites keeps a prepared patch what it was. *)
LEMMA EditKept ==
    ASSUME StoreInv, StoreNext, HistoryKept, NEW cmd \in Commands, IsItsEdit(cmd)
    PROVE  IsItsEdit(cmd)'
<1>1. cmd.version \in Versions /\ Saved(cmd.version)
  BY CommandType DEF IsItsEdit
<1>2. snapshots'[cmd.version].content = snapshots[cmd.version].content
  BY <1>1 DEF HistoryKept
<1>3. cmd.base # 0 => /\ snapshots'[cmd.base].state = "COMMITTED"
                      /\ snapshots'[cmd.base].content = snapshots[cmd.base].content
  BY DEF IsItsEdit, HistoryKept, Saved
<1>4. BaseContent(cmd)' = BaseContent(cmd)
  BY <1>3 DEF BaseContent
<1>5. Saved(cmd.version)'
  BY <1>1, SavedStays
<1> QED
  BY <1>2, <1>3, <1>4, <1>5 DEF IsItsEdit

(* A patch that passes the checks of prepare_patch becomes, or already is, *)
(* its edit of the active configuration.                                   *)
LEMMA PreparedIsItsEdit ==
    ASSUME StoreInv, NEW cmd \in Commands, IsPatch(cmd), PrepareCandidate(cmd)
    PROVE  IsItsEdit(cmd)'
<1> DEFINE v == cmd.version
<1>0. StoreTypeOK /\ v \in Versions /\ active \in Versions \cup {0} /\ Versions \subseteq Nat \ {0}
  BY CommandType DEF StoreInv, StoreTypeOK
<1>1. PatchVerdict(cmd) = "" /\ PrepareVerdict(cmd) = "PREPARED"
  BY DEF PrepareCandidate, Verdict, PatchVerdict
<1>2. cmd.base = active
  <2>1. ~(<<cmd.base, cmd.baseMessage>> # <<active, ActiveMessage>>)
    BY <1>1 DEF PatchVerdict
  <2> QED
    BY <2>1
<1>3. Target(cmd) = Merge(cmd.edits, BaseContent(cmd))
  BY <1>2 DEF Target, BaseContent, ActiveContent
<1>4. Saved(v) => snapshots[v].content = Target(cmd)
  BY <1>1 DEF PrepareVerdict
<1>5. v # active
  BY <1>1 DEF PrepareVerdict
<1>6. /\ snapshots'[v].state = "PREPARED" /\ snapshots'[v].content = Target(cmd)
      /\ \A w \in Versions \ {v} : snapshots'[w] = snapshots[w]
  BY <1>0, <1>4 DEF PrepareCandidate, StoreTypeOK
<1>7. BaseContent(cmd)' = BaseContent(cmd)
  BY <1>0, <1>2, <1>5, <1>6 DEF BaseContent
<1>8. cmd.base # 0 => snapshots'[cmd.base].state = "COMMITTED"
  BY <1>0, <1>2, <1>5, <1>6 DEF StoreInv, PointersAreCommitted
<1> QED
  BY <1>0, <1>2, <1>3, <1>6, <1>7, <1>8 DEF IsItsEdit, Saved

(* A receipt is written by a preparation only; every other step leaves     *)
(* version and digest of every receipt as they were.                       *)
LEMMA PatchStep == StoreInv /\ ReceiptInv /\ PatchInv /\ [StoreNext]_store => PatchInv'
<1> SUFFICES ASSUME StoreInv, ReceiptInv, PatchInv, StoreNext,
                    NEW cmd \in Commands, IsPatch(cmd), Received(cmd.message)', SameReceipt(cmd)'
             PROVE  IsItsEdit(cmd)'
  <2>1. CASE UNCHANGED store
    BY <2>1 DEF store, PatchInv, IsItsEdit, Received, SameReceipt, Saved, BaseContent
  <2> QED
    BY <2>1 DEF PatchInv
<1> DEFINE m == cmd.message
<1>0. StoreTypeOK /\ HistoryKept /\ m \in Messages
  BY HistoryStep, CommandType DEF StoreInv
<1>1. CASE Received(m)
  <2>1. SameReceipt(cmd)
    BY <1>0, <1>1 DEF HistoryKept, SameReceipt
  <2> QED
    BY <1>0, <1>1, <2>1, EditKept DEF PatchInv
<1>2. CASE ~Received(m)
  <2>1. ~(Recover \/ \E v \in Versions, t \in 1..lastToken : Commit(v, t) \/ Fail(v, t))
    BY <1>0, <1>2 DEF Recover, Commit, Fail, Received, StoreTypeOK
  <2>2. PICK c \in Commands : PrepareCandidate(c) \/ PrepareApplied(c)
    BY <2>1 DEF StoreNext
  <2>3. requests' # requests
    BY <1>2 DEF Received
  <2>4. PICK st : requests' = [requests EXCEPT ![c.message] = Receipt(c, st)]
    BY <2>2, <2>3 DEF PrepareCandidate, PrepareApplied
  <2>5. c.message = m /\ c.message \in Messages
    BY <1>0, <1>2, <2>4, CommandType DEF Received, StoreTypeOK
  <2>6. c.digest = cmd.digest
    BY <1>0, <2>4, <2>5 DEF SameReceipt, Receipt, StoreTypeOK
  <2>7. c = cmd
    BY <2>6, ConfigAssumption
  <2>8. ~PrepareApplied(cmd)
    <3> SUFFICES ASSUME PrepareApplied(cmd) PROVE FALSE
      OBVIOUS
    <3>1. PatchVerdict(cmd) = "" /\ PrepareVerdict(cmd) = "APPLIED"
      BY <2>3, <2>2, <2>7 DEF PrepareApplied, Verdict, PatchVerdict
    <3>2. cmd.version = active
      BY <3>1 DEF PrepareVerdict
    <3>3. cmd.base = active
      <4>1. ~(<<cmd.base, cmd.baseMessage>> # <<active, ActiveMessage>>)
        BY <3>1 DEF PatchVerdict
      <4> QED
        BY <4>1
    <3> QED
      BY <1>0, <3>2, <3>3, ConfigAssumption, CommandType DEF StoreTypeOK
  <2> QED
    BY <2>2, <2>7, <2>8, PreparedIsItsEdit
<1> QED
  BY <1>1, <1>2

(* A patch confirmed as APPLIED is its edit of exactly the base it names,  *)
(* for every set of commands and every history of retries and failures.    *)
THEOREM AppliedPatchesAreTheirEdits == StoreSpec => []AppliedPatchIsItsEdit
<1>1. StoreInit => PatchInv
  BY CommandType DEF StoreInit, PatchInv, Received, NoReceipt
<1>2. PatchInv => AppliedPatchIsItsEdit
  BY DEF PatchInv, AppliedPatchIsItsEdit, IsItsEdit, BaseContent, Received
<1> QED
  BY <1>1, <1>2, PatchStep, ReceiptInit, ReceiptStep, StoreInvariant, PTL DEF StoreSpec

----------------------------------------------------------------------------
(* A candidate and the command that prepared it last. *)

(* cmd is the command of candidate v: as long as v is PREPARED nothing     *)
(* else can be committed, so what its checks found stays as it was.        *)
Retries(cmd, v) ==
    /\ cmd.version = v
    /\ requests[cmd.message].status = "PREPARED" /\ SameReceipt(cmd)
    /\ snapshots[v].content = Target(cmd)
    /\ IsPatch(cmd) => /\ snapshots[v].message = cmd.message
                       /\ <<cmd.base, cmd.baseMessage>> = <<active, ActiveMessage>>
                       /\ Fits(cmd.edits, ActiveContent)

RetryInv == \A v \in PreparedVersions : \E cmd \in Commands : Retries(cmd, v)

(* The command of a candidate passes every check again, and finds its token. *)
LEMMA RetryIsAccepted ==
    ASSUME StoreInv, NEW v \in PreparedVersions, NEW cmd \in Commands, Retries(cmd, v)
    PROVE  Verdict(cmd) = "PREPARED" /\ TokenFor(cmd) = snapshots[v].token
<1>0. /\ StoreTypeOK /\ v \in Versions /\ Versions \subseteq Nat \ {0}
      /\ snapshots[v].state = "PREPARED" /\ cmd.version = v /\ active \in Versions \cup {0}
  BY Numbers DEF StoreInv, PreparedVersions, Retries, StoreTypeOK
<1>1. v > active /\ PreparedVersions \ {v} = {}
  BY DEF StoreInv, OneCandidate
<1>2. Received(cmd.message) /\ SameReceipt(cmd) /\ Saved(v) /\ requests[cmd.message].status # "APPLIED"
  BY <1>0 DEF Retries, Received, Saved
<1>3. PatchVerdict(cmd) = ""
  BY <1>0, <1>2 DEF PatchVerdict, Retries
<1>4. ~(v < active) /\ v # active
  BY <1>0, <1>1
<1>5. PrepareVerdict(cmd) = "PREPARED"
  BY <1>0, <1>1, <1>2, <1>4 DEF PrepareVerdict, Retries
<1> QED
  BY <1>0, <1>3, <1>5 DEF Verdict, TokenFor

(* The command that becomes the candidate is the candidate's command. *)
LEMMA RetryPrepared ==
    ASSUME StoreInv, NEW cmd \in Commands, PrepareCandidate(cmd)
    PROVE  Retries(cmd, cmd.version)'
<1> DEFINE v == cmd.version
<1>0. StoreTypeOK /\ v \in Versions /\ cmd.message \in Messages /\ active \in Versions \cup {0}
  BY CommandType DEF StoreInv, StoreTypeOK
<1>1. PatchVerdict(cmd) = "" /\ PrepareVerdict(cmd) = "PREPARED"
  BY DEF PrepareCandidate, Verdict, PatchVerdict
<1>2. Saved(v) => snapshots[v].content = Target(cmd)
  BY <1>1 DEF PrepareVerdict
<1>3. IsPatch(cmd) => /\ Saved(v) => snapshots[v].message = cmd.message
                      /\ <<cmd.base, cmd.baseMessage>> = <<active, ActiveMessage>>
                      /\ Fits(cmd.edits, ActiveContent)
  BY <1>1 DEF PatchVerdict
<1>4. v # active
  BY <1>1 DEF PrepareVerdict
<1>5. /\ snapshots'[v].content = Target(cmd)
      /\ snapshots'[v].message = IF Saved(v) THEN snapshots[v].message ELSE cmd.message
      /\ active # 0 => snapshots'[active] = snapshots[active]
      /\ active' = active
  BY <1>0, <1>2, <1>4 DEF PrepareCandidate, StoreTypeOK
<1>6. ActiveContent' = ActiveContent /\ ActiveMessage' = ActiveMessage
  BY <1>5 DEF ActiveContent, ActiveMessage
<1>7. Target(cmd)' = Target(cmd)
  BY <1>6 DEF Target
<1>8. requests'[cmd.message] = [status |-> "PREPARED", version |-> v, digest |-> cmd.digest]
  BY <1>0 DEF PrepareCandidate, Receipt, StoreTypeOK
<1> QED
  BY <1>3, <1>5, <1>6, <1>7, <1>8 DEF Retries, SameReceipt

(* Every step of the store leaves a command with every candidate. *)
LEMMA RetryStep == StoreInv /\ ReceiptInv /\ RetryInv /\ [StoreNext]_store => RetryInv'
<1> SUFFICES ASSUME StoreInv, ReceiptInv, RetryInv, [StoreNext]_store PROVE RetryInv'
  OBVIOUS
<1>0. StoreInv' /\ StoreTypeOK
  BY StepInv DEF StoreInv
<1>1. ASSUME NEW cmd \in Commands, PrepareCandidate(cmd) PROVE RetryInv'
  <2>1. cmd.version \in PreparedVersions'
    BY <1>0, <1>1, CommandType DEF PrepareCandidate, PreparedVersions, StoreTypeOK
  <2>2. \A v \in PreparedVersions' : v = cmd.version
    BY <1>0, <2>1 DEF StoreInv, OneCandidate
  <2> QED
    BY <1>1, <2>2, RetryPrepared DEF RetryInv
<1>2. ASSUME NEW c \in Commands, PrepareApplied(c) PROVE RetryInv'
  <2>1. UNCHANGED <<snapshots, active>>
    BY <1>2 DEF PrepareApplied
  <2>2. ASSUME NEW v \in PreparedVersions, NEW cmd \in Commands, Retries(cmd, v) PROVE Retries(cmd, v)'
    <3>1. requests'[cmd.message] = requests[cmd.message]
      <4>1. CASE requests' = requests
        BY <4>1
      <4>2. CASE requests' # requests
        <5>1. PatchVerdict(c) # "APPLIED" /\ requests' = [requests EXCEPT ![c.message] = Receipt(c, "APPLIED")]
          BY <1>2, <4>2 DEF PrepareApplied
        <5>2. c.version = active /\ (Received(c.message) => SameReceipt(c))
          BY <1>2, <5>1, VerdictFacts DEF PrepareApplied
        <5>3. v # active
          <6>1. v > active /\ v \in Nat /\ active \in Nat
            BY <1>0, Numbers DEF StoreInv, OneCandidate, PreparedVersions, StoreTypeOK
          <6> QED
            BY <6>1
        <5>4. c.message # cmd.message
          BY <2>2, <5>2, <5>3 DEF Retries, SameReceipt, Received
        <5> QED
          BY <1>0, <5>1, <5>4, CommandType DEF StoreTypeOK
      <4> QED
        BY <4>1, <4>2
    <3> QED
      BY <2>1, <2>2, <3>1 DEF Retries, SameReceipt, Target, ActiveContent, ActiveMessage
  <2>3. PreparedVersions' = PreparedVersions
    BY <2>1 DEF PreparedVersions
  <2> QED
    BY <2>2, <2>3 DEF RetryInv
<1>3. ASSUME NEW v \in Versions, NEW t \in 1..lastToken, Commit(v, t) \/ Fail(v, t) PROVE RetryInv'
  <2>1. \A w \in PreparedVersions : w = v
    BY <1>3 DEF StoreInv, OneCandidate, PreparedVersions, Commit, Fail
  <2>2. PreparedVersions' = {}
    BY <1>0, <1>3, <2>1 DEF PreparedVersions, Commit, Fail, StoreTypeOK
  <2> QED
    BY <2>2 DEF RetryInv
<1>4. CASE Recover
  <2>1. PreparedVersions' = {}
    BY <1>0, <1>4 DEF PreparedVersions, Recover, StoreTypeOK
  <2> QED
    BY <2>1 DEF RetryInv
<1>5. CASE UNCHANGED store
  BY <1>5 DEF store, RetryInv, Retries, PreparedVersions, SameReceipt, Target, ActiveContent, ActiveMessage
<1> QED
  BY <1>1, <1>2, <1>3, <1>4, <1>5 DEF StoreNext

(* There is no candidate to begin with. *)
LEMMA RetryInit == StoreInit => RetryInv
BY DEF StoreInit, RetryInv, PreparedVersions, NoSnapshot

=============================================================================
