----------------------------- MODULE MCDailyPlan -----------------------------
(* Plans of two tasks over two days.                                       *)
EXTENDS DailyPlan, TLC

CONSTANT s1
=============================================================================
