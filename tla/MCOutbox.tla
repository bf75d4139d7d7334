------------------------------ MODULE MCOutbox ------------------------------
(* Model-checking instances of Outbox. *)
EXTENDS Outbox, TLC

CONSTANTS b1, b2, b3

Symmetry == Permutations({b1, b2})

(* Two batches for which no byte quota is ever reached, and one that is    *)
(* always refused.                                                         *)
OneTooLarge == [b \in Batches |-> IF b = b3 THEN MaxBytes + 1 ELSE 1]
FlatCharge == [b \in Batches |-> [f \in Forms |-> 1]]

(***************************************************************************)
(* Sizes for MCOutboxRestart.cfg: one batch is larger than the others, so  *)
(* that some pairs of batches fit and all three do not, and an entry is    *)
(* charged more once it is read back and once it has ended.                *)
(***************************************************************************)
OneLarge == [b \in Batches |-> IF b = b3 THEN 2 ELSE 1]

GrowingCharge ==
    [b \in Batches |-> [f \in Forms |-> 4 + (IF f[1] = "enqueued" THEN 0 ELSE 1)
                                          + (IF f[2] = "dead" THEN 1 ELSE 0)]]

=============================================================================
