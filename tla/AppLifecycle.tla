----------------------------- MODULE AppLifecycle -----------------------------
(***************************************************************************)
(* The life of an application: StartServer and App.Start of app/module,    *)
(* the task lists of internal/module, ModuleBase's lazy registration of    *)
(* components, and what their tasks do when the lists run.  (app, kafka,   *)
(* rabbitmq, redis, db, postgres and scheduler hold the same logic in      *)
(* packages of their own.)                                                 *)
(*                                                                         *)
(* The main goroutine runs the lists while workers run the service's code  *)
(* beside it: requests of the servers, jobs of the schedulers, consumer    *)
(* loops.  A worker asks ModuleBase for a component and uses the client    *)
(* the component opens on demand.                                          *)
(***************************************************************************)
EXTENDS Naturals, Sequences, FiniteSets

CONSTANTS
    Component,  \* the components the service may ask for, by name
    Web,        \* the WebRuntime every AppRuntime has
    KindOf,     \* what each component is
    Worker,     \* goroutines that run code of the service
    SourceOf,   \* the server, scheduler or consumer each worker belongs to
    Faults,     \* what may go wrong, a subset of AllFaults
    None

\* "start"  a Start task, Validate or Probe.Check fails: the process panics
\* "listen" a port is taken: Web ignores it, Grpc panics
\* "late"   service code asks for a component Initialize() did not register
\* "slow"   a handler runs longer than the 30 seconds of AwaitTermination
\* "kill"   SIGTERM comes when waitForShutdownSignal is not listening
AllFaults == {"start", "listen", "late", "slow", "kill"}

\* "Client" stands for Redis, DB and Mongo.
Kinds == {"Scheduler", "Kafka", "RabbitMQ", "Client", "GrpcClient", "Grpc"}

ASSUME WebType == Web \notin Component
ASSUME KindOfType == KindOf \in [Component -> Kinds]
ASSUME SourceOfType == SourceOf \in [Worker -> Component \cup {Web}]
ASSUME SourcesRun ==
    \A w \in Worker : SourceOf[w] = Web \/ KindOf[SourceOf[w]] \notin {"Client", "GrpcClient"}
\* One ConsumerRunner per consumer; AddHandler's pool is as many consumers.
ASSUME OneRunner ==
    \A v, w \in Worker :
        /\ SourceOf[v] = SourceOf[w]
        /\ SourceOf[v] # Web
        /\ KindOf[SourceOf[v]] \in {"Kafka", "RabbitMQ"}
        => v = w
ASSUME FaultsType == Faults \subseteq AllFaults
ASSUME NoneType == None \notin Component

OfKind(kinds) == {c \in Component : KindOf[c] \in kinds}
Servers == {Web} \cup OfKind({"Grpc"})
Consumers == OfKind({"Kafka", "RabbitMQ"})
Schedulers == OfKind({"Scheduler"})
HaveClient == OfKind({"Client", "Kafka", "RabbitMQ"})   \* Kafka: its producer
Pools == OfKind({"GrpcClient"})     \* connections, opened when a service is registered

VARIABLES
    phase,        \* where the main goroutine is
    todo,         \* the tasks of the phase that are left: range copies the slice
    tasks,        \* the task lists of StartupLifecycle and ShutdownLifecycle
    Started,      \* LifecycleManager.Started
    registry,     \* the keys of ComponentRegistry.components
    engine,       \* server, cron or consumer: "off", "on", "stopping", "stopped"
    client,       \* the client field of a component: "none", "open", "closed"
    runningTasks, \* the counter of each consumer
    inGroup,      \* AwaitTermination has left its polling loop
    overrun,      \* the consumers AwaitTermination gave up on (history)
    at, arg       \* where each worker is, and the component it uses

vars == <<phase, todo, tasks, Started, registry, engine, client, runningTasks, inGroup,
          overrun, at, arg>>

mainVars == <<phase, todo, tasks, Started, registry, engine, inGroup, overrun>>

StartupPhases == {"Initialize", "Start", "Serve"}

ShutdownPhases == {"StopIngress", "AwaitRequests", "StopBackground", "AwaitBackground",
                   "CloseProducers", "ReleaseResources", "StopServer"}

Phase == StartupPhases \cup ShutdownPhases

\* "service" in Initialize() of the service   "ready"  RunAll returned
\* "wait"    in waitForShutdownSignal         "stopped" Start returned
\* "dead"    the process panicked or was killed
Over == {"stopped", "dead"}

\* "idle"     nothing to do; a consumer loop is in its select
\* "taken"    the consumer received a message, runningTasks is not counted yet
\* "running"  in code of the service
\* "creating" ensureClient found no client
\* "using"    uses the client of arg       "orphan" uses one that was replaced
\* "stale"    its client has been closed   "exited" the consumer loop returned
Place == {"idle", "taken", "running", "creating", "using", "orphan", "stale", "exited"}

\* NewAppRuntime: the lists hold the tasks of the WebRuntime.
NewLifecycle == [p \in Phase |-> IF p \in {"Serve", "StopServer"} THEN <<Web>> ELSE <<>>]

Init ==
    /\ phase = "service"
    /\ todo = <<>>
    /\ tasks = NewLifecycle
    /\ Started = FALSE
    /\ registry = {}
    /\ engine = [s \in Component \cup {Web} |-> "off"]
    /\ client = [c \in Component |-> "none"]
    /\ runningTasks = [c \in Component |-> 0]
    /\ inGroup = FALSE
    /\ overrun = {}
    /\ at = [w \in Worker |-> "idle"]
    /\ arg = [w \in Worker |-> None]

-----------------------------------------------------------------------------
(***************************************************************************)
(* Registration.                                                           *)
(***************************************************************************)

\* The lists the initialize method of each kind of component adds a task to.
SchedulerTasks == {"Start", "StopBackground", "AwaitBackground"}
KafkaTasks == {"Start", "StopBackground", "AwaitBackground", "CloseProducers"}
RabbitMQTasks == {"Start", "StopBackground", "AwaitBackground", "ReleaseResources"}
ClientTasks == {"ReleaseResources"}
GrpcClientTasks == {"ReleaseResources"}

\* Mutant of GrpcTasks: nothing stops the server.
GrpcTasksForgetful == {"Serve"}

GrpcTasks == {"Serve", "StopServer"}

phasesOf(kind) ==
    CASE kind = "Scheduler" -> SchedulerTasks
      [] kind = "Kafka" -> KafkaTasks
      [] kind = "RabbitMQ" -> RabbitMQTasks
      [] kind = "Client" -> ClientTasks
      [] kind = "GrpcClient" -> GrpcClientTasks
      [] kind = "Grpc" -> GrpcTasks

\* initialize and Register of a component asked for the first time.
initialize(c) ==
    /\ c \in Component \ registry
    /\ tasks' = [p \in Phase |-> IF p \in phasesOf(KindOf[c]) THEN Append(tasks[p], c)
                                 ELSE tasks[p]]
    /\ registry' = registry \cup {c}

\* The service's Initialize() asks ModuleBase for a component; it may use it
\* at once, or register a handler or a service, which opens the client.
register(c) ==
    /\ phase = "service"
    /\ initialize(c)
    /\ \/ UNCHANGED client
       \/ c \in HaveClient \cup Pools /\ client' = [client EXCEPT ![c] = "open"]
    /\ UNCHANGED <<phase, todo, Started, engine, runningTasks, inGroup, overrun, at, arg>>

-----------------------------------------------------------------------------
(***************************************************************************)
(* App.Start: the main goroutine.                                          *)
(***************************************************************************)

\* The process ends and its memory is gone.
die ==
    /\ phase' = "dead"
    /\ todo' = <<>>
    /\ tasks' = NewLifecycle
    /\ Started' = FALSE
    /\ registry' = {}
    /\ engine' = [s \in Component \cup {Web} |-> "off"]
    /\ client' = [c \in Component |-> "none"]
    /\ runningTasks' = [c \in Component |-> 0]
    /\ inGroup' = FALSE
    /\ overrun' = {}
    /\ at' = [w \in Worker |-> "idle"]
    /\ arg' = [w \in Worker |-> None]

enter(p) == phase' = p /\ todo' = tasks[p]

\* Property.Validate and Probe.Check pass; RunAll enters its first list.
startup ==
    /\ phase = "service"
    /\ enter("Initialize")
    /\ UNCHANGED <<tasks, Started, registry, engine, client, runningTasks, inGroup, overrun, at, arg>>

\* Mutant of following: resources are released before background work is awaited.
followingReleasesFirst ==
    [Initialize |-> "Start", Start |-> "Serve", StopIngress |-> "AwaitRequests",
     AwaitRequests |-> "StopBackground", StopBackground |-> "ReleaseResources",
     ReleaseResources |-> "AwaitBackground", AwaitBackground |-> "CloseProducers",
     CloseProducers |-> "StopServer"]

\* The order in which the two RunAll functions run the lists.
following ==
    [Initialize |-> "Start", Start |-> "Serve", StopIngress |-> "AwaitRequests",
     AwaitRequests |-> "StopBackground", StopBackground |-> "AwaitBackground",
     AwaitBackground |-> "CloseProducers", CloseProducers |-> "ReleaseResources",
     ReleaseResources |-> "StopServer"]

\* A list is done: RunAll goes on to the next one, or returns.
nextList ==
    /\ phase \in Phase
    /\ todo = <<>>
    /\ IF phase \in DOMAIN following THEN enter(following[phase])
       ELSE phase' = (IF phase = "Serve" THEN "ready" ELSE "stopped") /\ UNCHANGED todo
    /\ UNCHANGED <<tasks, Started, registry, engine, client, runningTasks, inGroup, overrun, at, arg>>

setStarted ==
    /\ phase = "ready"
    /\ phase' = "wait"
    /\ Started' = TRUE
    /\ UNCHANGED <<todo, tasks, registry, engine, client, runningTasks, inGroup, overrun, at, arg>>

\* signal.Notify is in force only inside waitForShutdownSignal.
terminate ==
    \/ /\ phase = "wait"
       /\ enter("StopIngress")
       /\ UNCHANGED <<tasks, Started, registry, engine, client, runningTasks, inGroup, overrun,
                      at, arg>>
    \/ "kill" \in Faults /\ phase \notin Over \cup {"wait"} /\ die

\* The task of component c is the next one of list p.
Due(p, c) == phase = p /\ todo # <<>> /\ Head(todo) = c

SetEngine(c, value) == engine' = [engine EXCEPT ![c] = value]

WorkersOf(s) == {w \in Worker : SourceOf[w] = s}
Busy(w) == at[w] \notin {"idle", "exited"}

\* cron.Start
startScheduler(c) ==
    /\ Due("Start", c)
    /\ c \in Schedulers
    /\ SetEngine(c, "on")
    /\ todo' = Tail(todo)
    /\ UNCHANGED <<phase, tasks, Started, registry, client, runningTasks, inGroup, overrun, at, arg>>

\* runner.Start; RabbitMQ connects first, if it has a runner.
startConsumer(c) ==
    /\ Due("Start", c)
    /\ c \in Consumers
    /\ SetEngine(c, "on")
    /\ client' = IF KindOf[c] = "RabbitMQ" /\ WorkersOf(c) # {} THEN [client EXCEPT ![c] = "open"]
                 ELSE client
    /\ todo' = Tail(todo)
    /\ UNCHANGED <<phase, tasks, Started, registry, runningTasks, inGroup, overrun, at, arg>>

\* WebRuntime.Start does not hear of a failing ListenAndServe.
serveTask(s) ==
    /\ Due("Serve", s)
    /\ \/ SetEngine(s, "on")
       \/ "listen" \in Faults /\ s = Web /\ UNCHANGED engine
    /\ todo' = Tail(todo)
    /\ UNCHANGED <<phase, tasks, Started, registry, client, runningTasks, inGroup, overrun, at, arg>>

\* Validate, Probe.Check, a consumer's Start or net.Listen fails.
startPanics ==
    /\ \/ /\ "start" \in Faults
          /\ phase = "service" \/ \E c \in Consumers : Due("Start", c)
       \/ "listen" \in Faults /\ \E c \in OfKind({"Grpc"}) : Due("Serve", c)
    /\ die

\* cron.Stop: no new jobs.  runner.Stop: the context of the loop is cancelled.
stopTask(c) ==
    /\ Due("StopBackground", c)
    /\ SetEngine(c, IF engine[c] = "on" THEN "stopping" ELSE engine[c])
    /\ todo' = Tail(todo)
    /\ UNCHANGED <<phase, tasks, Started, registry, client, runningTasks, inGroup, overrun, at, arg>>

\* The context cron.Stop returned is done when no job is left.
awaitJobs(c) ==
    /\ Due("AwaitBackground", c)
    /\ c \in Schedulers
    /\ \A w \in WorkersOf(c) : ~Busy(w)
    /\ todo' = Tail(todo)
    /\ UNCHANGED <<phase, tasks, Started, registry, engine, client, runningTasks, inGroup,
                   overrun, at, arg>>

\* AwaitTermination of a consumer polls runningTasks until it reads zero ...
awaitTasks(c) ==
    /\ Due("AwaitBackground", c)
    /\ c \in Consumers
    /\ ~inGroup
    /\ runningTasks[c] = 0
    /\ inGroup' = TRUE
    /\ UNCHANGED <<phase, todo, tasks, Started, registry, engine, client, runningTasks, overrun,
                   at, arg>>

LoopsGone(c) == engine[c] = "off" \/ \A w \in WorkersOf(c) : at[w] = "exited"

\* ... and then waits for the loops, for 30 seconds at most.
awaitGroup(c) ==
    /\ Due("AwaitBackground", c)
    /\ inGroup
    /\ \/ LoopsGone(c) /\ UNCHANGED overrun
       \/ "slow" \in Faults /\ ~LoopsGone(c) /\ overrun' = overrun \cup {c}
    /\ inGroup' = FALSE
    /\ todo' = Tail(todo)
    /\ UNCHANGED <<phase, tasks, Started, registry, engine, client, runningTasks, at, arg>>

\* The client is closed, if there is one, and forgotten; gRPC pools stay in their
\* map.
closeClient(c) ==
    /\ client' = [client EXCEPT ![c] = IF c \in Pools /\ client[c] # "none" THEN "closed"
                                       ELSE "none"]
    /\ at' = [w \in Worker |-> IF at[w] = "using" /\ arg[w] = c THEN "stale" ELSE at[w]]
    /\ todo' = Tail(todo)
    /\ UNCHANGED <<phase, tasks, Started, registry, engine, runningTasks, inGroup, overrun, arg>>

CloseProducer(c) == Due("CloseProducers", c) /\ closeClient(c)

Close(c) == Due("ReleaseResources", c) /\ closeClient(c)

\* http.Server.Shutdown and GracefulStop: refuse new requests ...
stopServer(s) ==
    /\ Due("StopServer", s)
    /\ engine[s] = "on"
    /\ SetEngine(s, "stopping")
    /\ UNCHANGED <<phase, todo, tasks, Started, registry, client, runningTasks, inGroup, overrun,
                   at, arg>>

\* ... and return when the last one is finished; the context has no deadline.
serverStopped(s) ==
    /\ Due("StopServer", s)
    /\ engine[s] # "on"
    /\ \A w \in WorkersOf(s) : ~Busy(w)
    /\ SetEngine(s, "stopped")
    /\ todo' = Tail(todo)
    /\ UNCHANGED <<phase, tasks, Started, registry, client, runningTasks, inGroup, overrun, at, arg>>

task(s) ==
    \/ startScheduler(s) \/ startConsumer(s) \/ serveTask(s) \/ stopTask(s)
    \/ awaitJobs(s) \/ awaitTasks(s) \/ awaitGroup(s)
    \/ CloseProducer(s) \/ Close(s) \/ stopServer(s) \/ serverStopped(s)

-----------------------------------------------------------------------------
(***************************************************************************)
(* Workers: the service's code.                                            *)
(***************************************************************************)
Lives == phase \notin Over
MoveWorker(w, place) == at' = [at EXCEPT ![w] = place]

\* A request arrives, cron fires a job, a consumer loop receives a message,
\* which its select may do after the context is cancelled.
begin(w) ==
    /\ Lives
    /\ at[w] = "idle"
    /\ IF SourceOf[w] \in Consumers
       THEN engine[SourceOf[w]] # "off" /\ MoveWorker(w, "taken")
       ELSE engine[SourceOf[w]] = "on" /\ MoveWorker(w, "running")
    /\ UNCHANGED <<mainVars, client, runningTasks, arg>>

\* Mutant of count: the message is not counted.
countNothing(w) ==
    /\ Lives
    /\ at[w] = "taken"
    /\ MoveWorker(w, "running")
    /\ UNCHANGED <<mainVars, client, runningTasks, arg>>

\* runningTasks.Add(1)
count(w) ==
    /\ Lives
    /\ at[w] = "taken"
    /\ runningTasks' = [runningTasks EXCEPT ![SourceOf[w]] = @ + 1]
    /\ MoveWorker(w, "running")
    /\ UNCHANGED <<mainVars, client, arg>>

\* A component is asked for the first time after Initialize() returned.
\* RecoveryMiddleware recovers the panic of a request, nothing that of others.
askLate(w, c) ==
    /\ "late" \in Faults
    /\ Lives
    /\ at[w] = "running"
    /\ c \in Component \ registry
    /\ \/ /\ ~Started
          /\ initialize(c)
          /\ UNCHANGED <<phase, todo, Started, engine, client, runningTasks, inGroup, overrun,
                         at, arg>>
       \/ /\ Started
          /\ SourceOf[w] = Web
          /\ MoveWorker(w, "idle")
          /\ UNCHANGED <<mainVars, client, runningTasks, arg>>
       \/ Started /\ SourceOf[w] # Web /\ die

\* ensureClient tests the client field, without a lock, ...
readClient(w, c) ==
    /\ Lives
    /\ at[w] = "running"
    /\ c \in registry \cap HaveClient
    /\ MoveWorker(w, IF client[c] = "open" THEN "using" ELSE "creating")
    /\ arg' = [arg EXCEPT ![w] = c]
    /\ UNCHANGED <<mainVars, client, runningTasks>>

\* ... and assigns it: a client that came in between is forgotten, still open.
createClient(w) ==
    /\ Lives
    /\ at[w] = "creating"
    /\ client' = [client EXCEPT ![arg[w]] = "open"]
    /\ at' = [v \in Worker |->
                IF v = w THEN "using"
                ELSE IF at[v] = "using" /\ arg[v] = arg[w] THEN "orphan" ELSE at[v]]
    /\ UNCHANGED <<mainVars, runningTasks, arg>>

\* Conn of a registered service hands out a connection, closed or not.
Conn(w, c) ==
    /\ Lives
    /\ at[w] = "running"
    /\ c \in registry \cap Pools /\ client[c] # "none"
    /\ MoveWorker(w, IF client[c] = "open" THEN "using" ELSE "stale")
    /\ arg' = [arg EXCEPT ![w] = c]
    /\ UNCHANGED <<mainVars, client, runningTasks>>

\* Mutant of finish: an error path returns before runningTasks.Add(-1).
finishUncounted(w) ==
    /\ Lives
    /\ at[w] \in {"running", "using", "orphan", "stale"}
    /\ MoveWorker(w, "idle")
    /\ arg' = [arg EXCEPT ![w] = None]
    /\ UNCHANGED <<mainVars, client, runningTasks>>

\* The request, job or handler returns.
finish(w) ==
    /\ Lives
    /\ at[w] \in {"running", "using", "orphan", "stale"}
    /\ MoveWorker(w, "idle")
    /\ arg' = [arg EXCEPT ![w] = None]
    /\ runningTasks' = IF SourceOf[w] \in Consumers
                       THEN [runningTasks EXCEPT ![SourceOf[w]] = @ - 1] ELSE runningTasks
    /\ UNCHANGED <<mainVars, client>>

\* The select of a consumer loop takes ctx.Done().
exitLoop(w) ==
    /\ Lives
    /\ at[w] = "idle"
    /\ SourceOf[w] \in Consumers
    /\ engine[SourceOf[w]] = "stopping"
    /\ MoveWorker(w, "exited")
    /\ UNCHANGED <<mainVars, client, runningTasks, arg>>

-----------------------------------------------------------------------------

main ==
    \/ nextList \/ setStarted
    \/ \E s \in Component \cup {Web} : task(s)

workerSteps(w) == count(w) \/ createClient(w) \/ finish(w)

Ends == phase \in Over /\ UNCHANGED vars

Next ==
    \/ \E c \in Component : register(c)
    \/ startup \/ main \/ startPanics \/ terminate
    \/ \E w \in Worker :
          \/ begin(w) \/ workerSteps(w) \/ exitLoop(w)
          \/ \E c \in Component : askLate(w, c) \/ readClient(w, c) \/ Conn(w, c)
    \/ Ends

Spec == Init /\ [][Next]_vars

(***************************************************************************)
(* Fairness.  The main goroutine runs; code of the service returns; the    *)
(* select of a loop picks among its ready cases at random, so it takes     *)
(* ctx.Done() in the end however many messages there are.  No signal, no   *)
(* request and no fault has to come.                                       *)
(***************************************************************************)
Fairness ==
    /\ WF_vars(main)
    /\ \A w \in Worker : WF_vars(workerSteps(w)) /\ SF_vars(exitLoop(w))

FairSpec == Spec /\ Fairness

-----------------------------------------------------------------------------

\* The variables have their types; runningTasks never goes below zero.
TypeOK ==
    /\ phase \in Phase \cup Over \cup {"service", "ready", "wait"}
    /\ todo \in Seq(Component \cup {Web})
    /\ tasks \in [Phase -> Seq(Component \cup {Web})]
    /\ Started \in BOOLEAN
    /\ registry \subseteq Component
    /\ engine \in [Component \cup {Web} -> {"off", "on", "stopping", "stopped"}]
    /\ client \in [Component -> {"none", "open", "closed"}]
    /\ runningTasks \in [Component -> Nat]
    /\ inGroup \in BOOLEAN
    /\ overrun \subseteq Consumers
    /\ at \in [Worker -> Place]
    /\ arg \in [Worker -> Component \cup {None}]

\* Shutdown closes a client under a scheduled job or a message handler only
\* if AwaitTermination gave up on that consumer: the lists stop and await all
\* background work before they close anything.  Requests are not awaited.
ClientsOutliveJobs ==
    \A w \in Worker : at[w] = "stale" => SourceOf[w] \in Servers \cup overrun

\* When App.Start has returned, every server, scheduler and consumer that was
\* started has been stopped and nothing of the service runs, except handlers
\* AwaitTermination gave up on.
NothingRuns ==
    phase = "stopped" =>
        /\ \A s \in Component \cup {Web} : engine[s] # "on"
        /\ \A w \in Worker : Busy(w) => SourceOf[w] \in overrun

\* Once the application is up, every registered component has been started:
\* the reason for which ModuleBase panics on components asked for too late.
RegisteredIsStarted ==
    Started =>
        \A c \in registry : phasesOf(KindOf[c]) \cap StartupPhases # {} => engine[c] # "off"

\* A shutdown that has begun comes to its end.
ShutdownEnds == phase \in ShutdownPhases ~> phase \in Over

=============================================================================
