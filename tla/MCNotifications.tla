------------------------- MODULE MCNotifications -------------------------
(* Instances of Notifications for TLC.                                      *)
EXTENDS Notifications, TLC

CONSTANTS ch1, t1, m1, m2, d1, d2

OneChannel == t1 :> ch1

=============================================================================
