---------------------------- MODULE MCSubmission ----------------------------
(* Submission with a witness whose clock is a second ahead. *)
EXTENDS Submission

MCAhead == [w \in Witnesses |-> IF w = "w2" THEN 1 ELSE 0]
=============================================================================
