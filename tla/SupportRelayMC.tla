---------------------------- MODULE SupportRelayMC ----------------------------
(* SupportRelay with its constants given by the configurations. *)
EXTENDS SupportRelay

\* A conversation under way: the request is published and both sides know it.
Opened ==
  /\ ticket = "OPEN" /\ known = TRUE /\ relayError = FALSE
  /\ delivery = [m \in Messages |-> IF m = First THEN "SENT" ELSE "NONE"]
  /\ received = {}
  /\ topic = "OPEN" /\ assigned = FALSE
  /\ stored = {First} /\ posted = [m \in Messages |-> IF m = First THEN 1 ELSE 0]
  /\ events = <<>> /\ delivered = {}
  /\ calls = {} /\ sync = [s \in Syncs |-> Resting]
  /\ used = {} /\ faults = 0 /\ heard = {} /\ crowded = FALSE

OpenedSpec == Opened /\ [][Next]_vars /\ Fairness
===============================================================================
