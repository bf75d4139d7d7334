---------------------------- MODULE ConfigModel ----------------------------
(***************************************************************************)
(* What a validated configuration says (config/models.py, ConfigSnapshot): *)
(* a definition for each device that is part of it.  A definition stands   *)
(* for the device's protocol, connection, points and switches; the store   *)
(* compares whole definitions (content_json), the runtime only the part    *)
(* that its driver runs on.                                                *)
(***************************************************************************)

CONSTANTS
    Devices,        \* device identities
    Defs            \* what a configuration may say of a device

Absent == "absent"      \* the device is not part of the configuration

NoMessage == "no message"

(* A snapshot object is told apart by its version and the message that     *)
(* carried it; its content is the store's for that version.                *)
Snapshot(version, message) == [version |-> version, message |-> message]
NoConfig == Snapshot(0, NoMessage)

ASSUME ModelAssumption == Absent \notin Defs

Contents == [Devices -> Defs \cup {Absent}]

Nothing == [d \in Devices |-> Absent]

=============================================================================
