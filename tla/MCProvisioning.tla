--------------------------- MODULE MCProvisioning ---------------------------
(***************************************************************************)
(* Model-checking instance of Provisioning.  Between them the bodies give, *)
(* keep and drop a password and a CA, replace one CA by another, switch    *)
(* TLS off, name another identity and carry a clock policy; every one is   *)
(* posted at any time, so each is a first save, an update and a test, and  *)
(* each is refused somewhere.                                              *)
(*                                                                         *)
(* Lengths: the password "S" is long and so is the CA "c2" (4096           *)
(* characters of four bytes, 16384 characters).  Either fits a body and a  *)
(* record, both do not: a body with both is refused, but the one may be    *)
(* posted over a record that keeps the other.                              *)
(***************************************************************************)
EXTENDS Provisioning

Body(id, time, user, password, tls, ca, removeCa) ==
    [id |-> id, time |-> time, user |-> user, password |-> password, tls |-> tls, ca |-> ca,
     removeCa |-> removeCa]

MCRequests ==
    {Body("g1", "", "", "", FALSE, "", FALSE),          \* anonymous, no TLS
     Body("g1", "hub", "u", "s", TRUE, "c1", FALSE),    \* everything, with a clock policy
     Body("g1", "", "u", "s", TRUE, "c1", FALSE),
     Body("g1", "", "u", "", TRUE, "c2", FALSE),        \* keep the password, another CA
     Body("g1", "", "u", "S", TRUE, "", FALSE),         \* another password, keep the CA
     Body("g1", "", "u", "S", TRUE, "c2", FALSE),       \* too long
     Body("g1", "", "u", "", TRUE, "", TRUE),           \* keep the password, remove the CA
     Body("g2", "", "", "", TRUE, "", FALSE)}           \* another gateway

(* In units of 8 KiB; everything else in a record or a body takes one. *)
Length(v) == 1 + (IF v.password = "S" THEN 2 ELSE 0) + (IF v.ca = "c2" THEN 2 ELSE 0)

MCPosted == [req \in MCRequests |-> Length(req)]
MCDumped == [v \in Value |-> Length(v)]

=============================================================================
