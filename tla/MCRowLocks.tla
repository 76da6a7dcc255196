----------------------------- MODULE MCRowLocks -----------------------------
(* RowLocks on a small instance. *)
EXTENDS RowLocks

=============================================================================
