---------------------------- MODULE MCMaintenance ----------------------------
(* Maintenance on a small instance. *)
EXTENDS Maintenance

=============================================================================
