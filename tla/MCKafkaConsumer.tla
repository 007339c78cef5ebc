-------------------------- MODULE MCKafkaConsumer --------------------------
(* Two runners of one group and a partition of two messages.  A stopped     *)
(* pool with nothing to read rests, so deadlock is no error.                *)
EXTENDS KafkaConsumer

\* The three ways to subscribe, with a one-slot and an unbuffered queue.
MCSubscriptions == {<<OffsetEarliest, 1>>, <<OffsetLatest, 0>>, <<1, -1>>}
=============================================================================
