---------------------------- MODULE SystemUpdateMC ----------------------------
(* SystemUpdate with the bounds given by the configurations. *)
EXTENDS SystemUpdate
===============================================================================
