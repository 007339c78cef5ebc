-------------------------- MODULE MCKafkaProducer --------------------------
(* Two calls against one CloseProducer.  A process that has panicked, or    *)
(* whose calls have returned, stops.                                        *)
EXTENDS KafkaProducer
=============================================================================
