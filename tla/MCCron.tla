------------------------------- MODULE MCCron -------------------------------
(* Instances of Cron for TLC. *)
EXTENDS Cron

Periods == <<1, 2>>

=============================================================================
