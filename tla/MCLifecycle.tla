---------------------------- MODULE MCLifecycle ----------------------------
(***************************************************************************)
(* Model-checking instance of Lifecycle and of the ConfigStore under it.   *)
(* A behaviour has one of two scenarios.  In "agent" the agent serves the  *)
(* commands: one replaces a runner and keeps the other through a change of *)
(* reporting parameters only (x and x2 have one key), one switches a       *)
(* device off, one removes it.  In "store" the store is called on its own, *)
(* in any order, with these and other commands that compete for the same   *)
(* versions, the same messages and the same base.                          *)
(***************************************************************************)
EXTENDS Lifecycle

MCDevices == {"d1", "d2"}
MCDefs == {"x", "x2", "y", "off"}
MCExecKey == [x \in MCDefs |-> CASE x \in {"x", "x2"} -> "kx" [] x = "y" -> "ky" [] x = "off" -> NoRunner]

Both(a, b) == [d \in MCDevices |-> IF d = "d1" THEN a ELSE b]

Edit(op, def) == [op |-> op, def |-> def]
Unedited == Edit(Keep, Absent)

Set(m, v, a, b) ==
    [message |-> m, version |-> v, digest |-> NoDigest, base |-> 0, baseMessage |-> NoMessage,
     content |-> Both(a, b), edits |-> Both(Unedited, Unedited)]

Patch(m, v, digest, base, baseMessage, edits) ==
    [message |-> m, version |-> v, digest |-> digest, base |-> base, baseMessage |-> baseMessage,
     content |-> Nothing, edits |-> edits]

AgentCommands ==
    {Set("m1", 1, "x", "x"), Set("m2", 2, "y", "x2"), Set("m3", 2, "y", "x2"),
     Patch("m4", 2, "m4", 1, "m1", Both(Edit("remove", Absent), Edit("replace", "y"))),
     Set("m5", 3, "off", "x")}

(* m3 comes as a patch of two different byte strings and as a configSet;   *)
(* m4 carries the content that m3's patch makes of m1.                     *)
StoreCommands ==
    {Set("m1", 1, "x", "x"), Set("m1", 1, "y", "y"), Set("m2", 2, "x", "x"), Set("m2", 1, "x", "x"),
     Patch("m3", 3, "p", 1, "m1", Both(Edit("replace", "y"), Unedited)),
     Patch("m3", 2, "q", 1, "m1", Both(Edit("remove", Absent), Unedited)),
     Set("m3", 3, "y", "x"), Set("m4", 3, "y", "x"),
     Patch("m5", 2, "r", 0, NoMessage, Both(Edit("add", "x"), Unedited))}

MCCommands == AgentCommands \cup StoreCommands

VARIABLE scenario

MCNext ==
    \/ /\ scenario = "agent" /\ Next
       /\ \A i \in DOMAIN queue' : queue'[i] \in AgentCommands \cup {Stop}
       /\ UNCHANGED scenario
    \/ scenario = "store" /\ StoreNext /\ UNCHANGED <<runtime, life, scenario>>

MCInit == Init /\ scenario \in {"agent", "store"}

MCSpec == MCInit /\ [][MCNext]_<<vars, scenario>> /\ FairTasks

=============================================================================
