--------------------------- MODULE MCRabbitClient ---------------------------
(* Publishers, a consumer that opens a channel, one Close and a few faults.  *)
(* A client whose callers have returned, or that has panicked, stops.        *)
EXTENDS RabbitClient
=============================================================================
