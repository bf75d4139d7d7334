--------------------------- MODULE ReceiverStore ---------------------------
(***************************************************************************)
(* The receiving side of telemetry, storage/receiver.py: a batch is        *)
(* answered STORED only once its receipt is committed, and a repeated      *)
(* batch is answered from the receipt.  A message is a batch identity, the *)
(* digest of its payload and the configuration version it refers to.       *)
(***************************************************************************)
EXTENDS Naturals, FiniteSets

CONSTANTS
    Ids,           \* message identities
    Digests,       \* payload digests
    Versions,      \* configuration versions
    Contents,      \* configuration content hashes
    MaxReceipts,   \* max_batches = 10000
    MaxConfigs     \* 32 historical configurations

VARIABLES
    configs,     \* table configs: version -> content hash
    receipts     \* table receipts: message identity -> digest

None == "none"

(* How the header timestamp stands to the receiver's clock. *)
Clocks == {"in time", "7 days old", "300 s ahead"}

(* The codes an OutboxStore retries; every other rejection is permanent. *)
Retryable == {"UNKNOWN_CONFIG_VERSION", "RESOURCE_LIMIT", "STORAGE_ERROR"}

InstalledVersions == {v \in Versions : configs[v] # None}
ReceivedIds == {i \in Ids : receipts[i] # None}

ReceiverInit ==
    /\ configs = [v \in Versions |-> None]
    /\ receipts = [i \in Ids |-> None]

(* install_config: a known version is immutable, a new one needs room. *)
InstallConfig(v, content) ==
    /\ configs[v] = None
    /\ Cardinality(InstalledVersions) < MaxConfigs
    /\ configs' = [configs EXCEPT ![v] = content]
    /\ UNCHANGED receipts

(* The answer of receive, in the order of its checks.  fits: the values    *)
(* name points of the configuration, with their types.                     *)
Answer(m, clock, fits) ==
    CASE receipts[m.id] = m.digest -> "STORED"
      [] receipts[m.id] \notin {None, m.digest} -> "VERSION_CONFLICT"
      [] receipts[m.id] = None /\ configs[m.version] = None -> "UNKNOWN_CONFIG_VERSION"
      [] OTHER -> IF clock = "7 days old" THEN "EXPIRED_DATA"
                  ELSE IF clock = "300 s ahead" THEN "INVALID_TIMESTAMP"
                  ELSE IF ~fits THEN "UNKNOWN_POINT"
                  ELSE IF Cardinality(ReceivedIds) >= MaxReceipts THEN "RESOURCE_LIMIT"
                  ELSE "STORED"

(* receive, with its transaction committed.  One that rolls back answers   *)
(* STORAGE_ERROR and leaves the tables as they were.                       *)
Receive(m, clock, fits) ==
    /\ receipts' = IF Answer(m, clock, fits) = "STORED" THEN [receipts EXCEPT ![m.id] = m.digest]
                   ELSE receipts
    /\ UNCHANGED configs

----------------------------------------------------------------------------

ReceiverTypeOK ==
    /\ configs \in [Versions -> Contents \cup {None}]
    /\ receipts \in [Ids -> Digests \cup {None}]

=============================================================================
