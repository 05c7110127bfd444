-------------------------- MODULE MCAccrualWorker --------------------------
(* Small instances of AccrualWorker for TLC. *)
EXTENDS AccrualWorker

(* A header of a second, and one that lies in the past. *)
MCRetryAfter == {1, -1}
=============================================================================
