---------------------------- MODULE MCAppLifecycle ----------------------------
(***************************************************************************)
(* Instances of AppLifecycle for TLC: a component of each kind, one HTTP   *)
(* request, one job and one message of Kafka at a time.                    *)
(***************************************************************************)
EXTENDS AppLifecycle, TLC

CONSTANTS scheduler, rabbit, kafka, redis, pools, grpc, request, job, loop

MCKindOf ==
    [c \in Component |->
        CASE c = scheduler -> "Scheduler"
          [] c = rabbit -> "RabbitMQ"
          [] c = kafka -> "Kafka"
          [] c = redis -> "Client"
          [] c = pools -> "GrpcClient"
          [] c = grpc -> "Grpc"]

MCSourceOf ==
    [w \in Worker |->
        CASE w = request -> Web
          [] w = job -> scheduler
          [] w = loop -> kafka]

=============================================================================
