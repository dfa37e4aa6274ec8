---------------------------- MODULE MCApproval ----------------------------
(* Approval on one server process that lives.                               *)
EXTENDS Approval, TLC

CONSTANTS c1, c2, w1, w2, s1, s2

OneServer == w1 :> s1 @@ w2 :> s1

=============================================================================
