-------------------------- MODULE MCRabbitConsumer --------------------------
(* Two subscriptions to a queue of two messages.  Consumers that have been   *)
(* stopped or disconnected rest, so deadlock is no error.                    *)
EXTENDS RabbitConsumer

\* The defaults with a consumer tag, no requeue and a negative limit, and AutoAck.
MCOptions ==
    {[AutoAck |-> FALSE, Prefetch |-> 1, Requeue |-> TRUE, Tag |-> TRUE],
     [AutoAck |-> FALSE, Prefetch |-> -1, Requeue |-> FALSE, Tag |-> FALSE],
     [AutoAck |-> TRUE, Prefetch |-> 1, Requeue |-> FALSE, Tag |-> FALSE]}
=============================================================================
