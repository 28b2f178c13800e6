-------------------------- MODULE MCScheduledCheck --------------------------
(***************************************************************************)
(* The programs of MCSpeculativeCheck under the code's replay schedule.    *)
(***************************************************************************)
EXTENDS MCSpeculativeCheck, ScheduledCheck

ExactDigest == a1 :> 1 @@ a2 :> 2 @@ f1 :> 3
=============================================================================
