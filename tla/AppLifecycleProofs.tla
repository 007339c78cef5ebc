------------------------ MODULE AppLifecycleProofs ------------------------
(***************************************************************************)
(* The invariants of AppLifecycle for any set of components and workers    *)
(* and any subset of the faults.                                           *)
(***************************************************************************)
EXTENDS AppLifecycle, TLAPS

\* c has a task in the list.
Holds(list, c) == \E i \in 1 .. Len(list) : list[i] = c

InService == {"running", "creating", "using", "orphan", "stale"}

Background == Schedulers \cup Consumers

\* The counter of a consumer says whether its handler runs.
Counted ==
    \A w \in Worker :
        SourceOf[w] \in Consumers =>
            runningTasks[SourceOf[w]] = (IF at[w] \in InService THEN 1 ELSE 0)

\* What is left to do belongs to the phase; nobody registers once the shutdown
\* can begin; AwaitTermination waits for the consumer that is due.
MainInOrder ==
    /\ phase \notin Phase => todo = <<>>
    /\ Started <=> phase \in ShutdownPhases \cup {"wait", "stopped"}
    /\ inGroup => phase = "AwaitBackground" /\ todo # <<>> /\ Head(todo) \in Consumers

\* Every registered component is in the lists of its kind, ...
Listed ==
    /\ \A c \in registry : \A p \in phasesOf(KindOf[c]) : Holds(tasks[p], c)
    /\ Holds(tasks["StopServer"], Web)

\* ... and nothing else is.
OnlyListed ==
    /\ \A p \in Phase, s \in Component \cup {Web} :
           Holds(tasks[p], s) =>
               \/ s = Web /\ p \in {"Serve", "StopServer"}
               \/ s \in registry /\ p \in phasesOf(KindOf[s])
    /\ phase \in Phase => \A s \in Component \cup {Web} :
           Holds(todo, s) => Holds(tasks[phase], s)

\* The kinds that run no code of their own.
Quiet == {"Client", "GrpcClient"}

\* Only what is registered is started, and only what runs code of its own;
\* before it is started its workers have nothing to do.
Engines ==
    /\ \A c \in Component : engine[c] # "off" => c \in registry /\ KindOf[c] \notin Quiet
    /\ \A w \in Worker : engine[SourceOf[w]] = "off" => at[w] = "idle"

\* The task of s in list p has run: it was there, or s was never started.
Behind(p, later, s) == phase \in later \/ (phase = p /\ ~Holds(todo, s))

AfterAwait == {"CloseProducers", "ReleaseResources", "StopServer", "stopped"}
AfterStop  == {"AwaitBackground"} \cup AfterAwait

\* A background component whose stop task has run takes no new work, ...
BackgroundStopped ==
    \A c \in Background : Behind("StopBackground", AfterStop, c) => engine[c] # "on"

\* ... and one that was awaited has none left, unless it was given up, ...
BackgroundDrained ==
    \A w \in Worker :
        Behind("AwaitBackground", AfterAwait, SourceOf[w]) =>
            /\ SourceOf[w] \in Schedulers => ~Busy(w)
            /\ SourceOf[w] \in Consumers =>
                   \/ SourceOf[w] \in overrun \/ engine[SourceOf[w]] = "off"
                   \/ at[w] = "exited"

\* ... and a server whose stop task has run has no request left.
ServersStopped ==
    \A s \in Servers :
        Behind("StopServer", {"stopped"}, s) =>
            engine[s] # "on" /\ \A w \in WorkersOf(s) : ~Busy(w)

\* A closed gRPC pool is there only once background work has been awaited.
ClosedLate == \A c \in Component : client[c] = "closed" => phase \in AfterAwait

\* The inductive invariant, with ClosedLate.
LifeInv ==
    /\ TypeOK /\ Counted /\ MainInOrder
    /\ Listed /\ OnlyListed /\ Engines
    /\ BackgroundStopped /\ BackgroundDrained /\ ServersStopped
    /\ ClientsOutliveJobs

----------------------------------------------------------------------------
(* Lists, phases and kinds.                                                 *)

\* Taking the first task off a list.
LEMMA HoldsTail ==
    ASSUME NEW S, NEW list \in Seq(S), list # <<>>, NEW c
    PROVE  Holds(list, c) <=> c = Head(list) \/ Holds(Tail(list), c)
<1>1. /\ Len(list) \in Nat \ {0} /\ Len(Tail(list)) = Len(list) - 1
      /\ Head(list) = list[1]
      /\ \A i \in 1 .. Len(list) - 1 : Tail(list)[i] = list[i + 1]
    OBVIOUS
<1>2. ASSUME Holds(list, c), c # Head(list) PROVE Holds(Tail(list), c)
  <2>1. PICK i \in 1 .. Len(list) : list[i] = c
    BY <1>2 DEF Holds
  <2>2. i - 1 \in 1 .. Len(list) - 1 /\ (i - 1) + 1 = i
    BY <1>1, <1>2, <2>1
  <2>3. Tail(list)[i - 1] = c
    BY <1>1, <2>1, <2>2
  <2> QED
    BY <1>1, <2>2, <2>3 DEF Holds
<1>3. ASSUME Holds(Tail(list), c) PROVE Holds(list, c)
  <2>1. PICK i \in 1 .. Len(list) - 1 : Tail(list)[i] = c
    BY <1>1, <1>3 DEF Holds
  <2>2. i + 1 \in 1 .. Len(list) /\ list[i + 1] = c
    BY <1>1, <2>1
  <2> QED
    BY <2>2 DEF Holds
<1>4. Holds(list, Head(list))
    BY <1>1 DEF Holds
<1> QED
    BY <1>2, <1>3, <1>4

\* Adding a task to a list.
LEMMA HoldsAppend ==
    ASSUME NEW S, NEW list \in Seq(S), NEW d \in S, NEW c
    PROVE  Holds(Append(list, d), c) <=> c = d \/ Holds(list, c)
<1>1. /\ Len(list) \in Nat /\ Len(Append(list, d)) = Len(list) + 1
      /\ Append(list, d)[Len(list) + 1] = d
      /\ \A i \in 1 .. Len(list) : Append(list, d)[i] = list[i]
    OBVIOUS
<1> QED
    BY <1>1 DEF Holds

\* An empty list and a list of one task.
LEMMA HoldsFew ==
    ASSUME NEW c, NEW d
    PROVE  ~Holds(<<>>, c) /\ (Holds(<<d>>, c) <=> c = d)
BY DEF Holds

\* The lists of each kind of component.
LEMMA PhasesOfKinds ==
    /\ phasesOf("Scheduler") = {"Start", "StopBackground", "AwaitBackground"}
    /\ phasesOf("Kafka") = {"Start", "StopBackground", "AwaitBackground", "CloseProducers"}
    /\ phasesOf("RabbitMQ") = {"Start", "StopBackground", "AwaitBackground", "ReleaseResources"}
    /\ phasesOf("Client") = {"ReleaseResources"}
    /\ phasesOf("GrpcClient") = {"ReleaseResources"}
    /\ phasesOf("Grpc") = {"Serve", "StopServer"}
BY DEF phasesOf, SchedulerTasks, KafkaTasks, RabbitMQTasks, ClientTasks, GrpcClientTasks,
       GrpcTasks

\* Which components have a task in which list.
LEMMA ListsOfKinds ==
    ASSUME NEW c \in Component
    PROVE  /\ phasesOf(KindOf[c]) \subseteq Phase
           /\ "Start" \in phasesOf(KindOf[c]) <=> c \in Background
           /\ "StopBackground" \in phasesOf(KindOf[c]) <=> c \in Background
           /\ "AwaitBackground" \in phasesOf(KindOf[c]) <=> c \in Background
           /\ "Serve" \in phasesOf(KindOf[c]) <=> c \in Servers
           /\ "StopServer" \in phasesOf(KindOf[c]) <=> c \in Servers
<1>1. KindOf[c] \in Kinds /\ c # Web
    BY KindOfType, WebType
<1>2. /\ c \in Schedulers <=> KindOf[c] = "Scheduler"
      /\ c \in Consumers <=> KindOf[c] \in {"Kafka", "RabbitMQ"}
      /\ c \in Servers <=> KindOf[c] = "Grpc"
    BY <1>1 DEF Schedulers, Consumers, Servers, OfKind
<1> QED
    BY <1>1, <1>2, PhasesOfKinds DEF Background, Phase, StartupPhases, ShutdownPhases, Kinds

\* Schedulers, consumers and servers are different components.
LEMMA KindsDiffer ==
    /\ Schedulers \subseteq Component /\ Consumers \subseteq Component
    /\ Schedulers \cap Consumers = {} /\ Background \cap Servers = {}
    /\ Servers \subseteq Component \cup {Web} /\ Web \notin Background
    /\ \A w \in Worker : SourceOf[w] \in Background \cup Servers
<1>1. /\ Schedulers \subseteq Component /\ Consumers \subseteq Component
      /\ Schedulers \cap Consumers = {} /\ Background \cap Servers = {}
      /\ Servers \subseteq Component \cup {Web} /\ Web \notin Background
    BY WebType DEF Background, Schedulers, Consumers, Servers, OfKind
<1>2. \A w \in Worker : SourceOf[w] \in Background \cup Servers
    BY KindOfType, SourceOfType, SourcesRun
    DEF Background, Schedulers, Consumers, Servers, OfKind, Kinds
<1> QED
    BY <1>1, <1>2

\* The order of the lists.
LEMMA FollowingIs ==
    /\ DOMAIN following = {"Initialize", "Start", "StopIngress", "AwaitRequests",
                           "StopBackground", "AwaitBackground", "CloseProducers",
                           "ReleaseResources"}
    /\ following["Initialize"] = "Start" /\ following["Start"] = "Serve"
    /\ following["StopIngress"] = "AwaitRequests"
    /\ following["AwaitRequests"] = "StopBackground"
    /\ following["StopBackground"] = "AwaitBackground"
    /\ following["AwaitBackground"] = "CloseProducers"
    /\ following["CloseProducers"] = "ReleaseResources"
    /\ following["ReleaseResources"] = "StopServer"
BY DEF following

----------------------------------------------------------------------------
(* Registration and the end of the process.                                 *)

\* Before the application has started no task of the shutdown has run.
LEMMA NothingBehind ==
    ASSUME MainInOrder, ~Started, NEW s
    PROVE  /\ ~Behind("StopBackground", AfterStop, s)
           /\ ~Behind("AwaitBackground", AfterAwait, s)
           /\ ~Behind("StopServer", {"stopped"}, s)
BY DEF MainInOrder, Behind, AfterStop, AfterAwait, ShutdownPhases

\* A component that registers before the start is in all its lists.
LEMMA InitializeInv ==
    ASSUME LifeInv, NEW c \in Component, initialize(c), ~Started,
           client' \in [Component -> {"none", "open", "closed"}],
           UNCHANGED <<phase, todo, Started, engine, runningTasks, inGroup, overrun, at, arg>>
    PROVE  LifeInv'
<1> USE DEF LifeInv
<1>1. \A p \in Phase : tasks'[p] \in Seq(Component \cup {Web})
                       /\ tasks'[p] = IF p \in phasesOf(KindOf[c]) THEN Append(tasks[p], c)
                                      ELSE tasks[p]
    BY DEF initialize, TypeOK
<1>2. ASSUME NEW p \in Phase, NEW s
      PROVE  Holds(tasks'[p], s) <=>
                 Holds(tasks[p], s) \/ (s = c /\ p \in phasesOf(KindOf[c]))
  <2>1. Holds(Append(tasks[p], c), s) <=> s = c \/ Holds(tasks[p], s)
    BY HoldsAppend DEF TypeOK
  <2> QED
    BY <1>1, <2>1
<1>3. TypeOK'
  <2>1. tasks' \in [Phase -> Seq(Component \cup {Web})]
    BY <1>1 DEF initialize
  <2> QED
    BY <2>1 DEF TypeOK, initialize
<1>4. registry' = registry \cup {c}
    BY DEF initialize
<1>5. Counted' /\ MainInOrder' /\ Engines' /\ ClientsOutliveJobs'
    BY <1>4 DEF Counted, MainInOrder, Engines, ClientsOutliveJobs
<1>6. Listed'
  <2>1. ASSUME NEW d \in registry', NEW p \in phasesOf(KindOf[d])
        PROVE  Holds(tasks'[p], d)
    <3>1. p \in Phase
      BY <1>4, ListsOfKinds DEF TypeOK
    <3> QED
      BY <1>2, <1>4, <3>1 DEF Listed
  <2>2. Holds(tasks'["StopServer"], Web)
    BY <1>2 DEF Listed, Phase, ShutdownPhases
  <2> QED
    BY <2>1, <2>2 DEF Listed
<1>7. OnlyListed'
    BY <1>2, <1>4 DEF OnlyListed
<1>8. BackgroundStopped' /\ BackgroundDrained' /\ ServersStopped'
  <2>1. MainInOrder' /\ ~Started'
    BY <1>5
  <2>2. ASSUME NEW s
        PROVE  /\ ~Behind("StopBackground", AfterStop, s)'
               /\ ~Behind("AwaitBackground", AfterAwait, s)'
               /\ ~Behind("StopServer", {"stopped"}, s)'
    BY NothingBehind DEF Behind
  <2> QED
    BY <2>2 DEF BackgroundStopped, BackgroundDrained, ServersStopped
<1> QED
    BY <1>3, <1>5, <1>6, <1>7, <1>8

\* Nothing is left of a process that died.
LEMMA DieInv == die => LifeInv'
<1> SUFFICES ASSUME die PROVE LifeInv'
    OBVIOUS
<1> USE DEF die
<1>1. \A p \in Phase : \A s : Holds(tasks'[p], s) <=> s = Web /\ p \in {"Serve", "StopServer"}
    BY HoldsFew DEF NewLifecycle
<1>2. TypeOK'
  <2>1. <<>> \in Seq(Component \cup {Web}) /\ <<Web>> \in Seq(Component \cup {Web})
    OBVIOUS
  <2>2. tasks' \in [Phase -> Seq(Component \cup {Web})]
    BY <2>1 DEF NewLifecycle
  <2>3. /\ phase' \in Phase \cup Over \cup {"service", "ready", "wait"}
        /\ todo' \in Seq(Component \cup {Web})
        /\ registry' \subseteq Component /\ overrun' \subseteq Consumers
    BY <2>1 DEF Over
  <2>4. Started' \in BOOLEAN /\ inGroup' \in BOOLEAN
    OBVIOUS
  <2>5. /\ engine' \in [Component \cup {Web} -> {"off", "on", "stopping", "stopped"}]
        /\ client' \in [Component -> {"none", "open", "closed"}]
        /\ runningTasks' \in [Component -> Nat]
        /\ at' \in [Worker -> Place]
        /\ arg' \in [Worker -> Component \cup {None}]
    BY DEF Place
  <2> QED
    BY <2>2, <2>3, <2>4, <2>5 DEF TypeOK
<1>3. Counted' /\ MainInOrder' /\ Engines' /\ ClientsOutliveJobs'
  <2>1. Counted'
    BY KindsDiffer DEF Counted, InService
  <2> QED
    BY <2>1, SourceOfType
    DEF MainInOrder, Engines, ClientsOutliveJobs, Phase, StartupPhases, ShutdownPhases
<1>4. Listed' /\ OnlyListed'
    BY <1>1 DEF Listed, OnlyListed, Phase, StartupPhases, ShutdownPhases
<1>5. BackgroundStopped' /\ BackgroundDrained' /\ ServersStopped'
    BY DEF BackgroundStopped, BackgroundDrained, ServersStopped, Behind, AfterStop,
           AfterAwait
<1> QED
    BY <1>2, <1>3, <1>4, <1>5 DEF LifeInv

----------------------------------------------------------------------------
(* The main goroutine goes from list to list.                               *)

\* Entering the next list with the last one done: what has no task in it has
\* never been registered, hence never started.
LEMMA MovesInv ==
    ASSUME LifeInv, todo = <<>>,
           phase' \in Phase \cup Over \cup {"service", "ready", "wait"},
           todo' = (IF phase' \in Phase THEN tasks[phase'] ELSE <<>>),
           Started' \in BOOLEAN,
           Started' <=> phase' \in ShutdownPhases \cup {"wait", "stopped"},
           phase' \in AfterStop => phase \in AfterStop \cup {"StopBackground"},
           phase' \in AfterAwait => phase \in AfterAwait \cup {"AwaitBackground"},
           phase' = "stopped" => phase = "StopServer",
           UNCHANGED <<tasks, registry, engine, client, runningTasks, inGroup, overrun, at, arg>>
    PROVE  LifeInv'
<1> USE DEF LifeInv
<1>1. TypeOK'
  <2>1. todo' \in Seq(Component \cup {Web})
    BY DEF TypeOK
  <2> QED
    BY <2>1 DEF TypeOK
<1>2. MainInOrder'
  <2>1. ~inGroup
    BY DEF MainInOrder
  <2> QED
    BY <2>1 DEF MainInOrder
<1>3. Counted' /\ Listed' /\ Engines' /\ ClientsOutliveJobs'
    BY DEF Counted, Listed, Engines, ClientsOutliveJobs
<1>4. OnlyListed'
    BY DEF OnlyListed
<1>5. \A s : ~Holds(todo, s)
    BY HoldsFew
<1>6. ASSUME NEW p \in Phase, NEW s \in Component, p \in phasesOf(KindOf[s]),
             ~Holds(tasks[p], s)
      PROVE  engine[s] = "off"
    BY <1>6 DEF Listed, Engines
<1>7. ASSUME NEW w \in Worker, engine[SourceOf[w]] = "off" PROVE ~Busy(w)
    BY <1>7 DEF Engines, Busy
<1>8. {"StopBackground", "AwaitBackground", "StopServer"} \subseteq Phase
    BY DEF Phase, ShutdownPhases
<1>9. BackgroundStopped'
  <2> SUFFICES ASSUME NEW c \in Background, Behind("StopBackground", AfterStop, c)'
               PROVE  engine[c] # "on"
    BY DEF BackgroundStopped
  <2>1. c \in Component /\ "StopBackground" \in phasesOf(KindOf[c])
    BY ListsOfKinds, KindsDiffer DEF Background
  <2>2. CASE phase' \in AfterStop
    BY <1>5, <2>2 DEF Behind, BackgroundStopped
  <2>3. CASE phase' = "StopBackground" /\ ~Holds(tasks["StopBackground"], c)
    BY <1>6, <1>8, <2>1, <2>3
  <2> QED
    BY <1>8, <2>2, <2>3 DEF Behind
<1>10. BackgroundDrained'
  <2> SUFFICES ASSUME NEW w \in Worker,
                      Behind("AwaitBackground", AfterAwait, SourceOf[w])'
               PROVE  /\ SourceOf[w] \in Schedulers => ~Busy(w)
                      /\ SourceOf[w] \in Consumers =>
                             \/ SourceOf[w] \in overrun \/ engine[SourceOf[w]] = "off"
                             \/ at[w] = "exited"
    BY DEF BackgroundDrained, Busy
  <2>1. SourceOf[w] \in Background =>
            SourceOf[w] \in Component /\ "AwaitBackground" \in phasesOf(KindOf[SourceOf[w]])
    BY ListsOfKinds, KindsDiffer DEF Background
  <2>2. CASE phase' \in AfterAwait
    BY <1>5, <2>2 DEF Behind, BackgroundDrained
  <2>3. CASE phase' = "AwaitBackground" /\ ~Holds(tasks["AwaitBackground"], SourceOf[w])
    BY <1>6, <1>7, <1>8, <2>1, <2>3 DEF Background
  <2> QED
    BY <1>8, <2>2, <2>3 DEF Behind
<1>11. ServersStopped'
  <2> SUFFICES ASSUME NEW s \in Servers, Behind("StopServer", {"stopped"}, s)'
               PROVE  engine[s] # "on" /\ \A w \in WorkersOf(s) : ~Busy(w)
    BY DEF ServersStopped, WorkersOf, Busy
  <2>1. s = Web \/ (s \in Component /\ "StopServer" \in phasesOf(KindOf[s]))
    BY ListsOfKinds, KindsDiffer
  <2>2. CASE phase' = "stopped"
    BY <1>5, <2>2 DEF Behind, ServersStopped
  <2>3. CASE phase' = "StopServer" /\ ~Holds(tasks["StopServer"], s)
    <3>1. s # Web
      BY <2>3 DEF Listed
    <3>2. engine[s] = "off"
      BY <1>6, <1>8, <2>1, <2>3, <3>1
    <3> QED
      BY <1>7, <3>2 DEF WorkersOf
  <2> QED
    BY <1>8, <2>2, <2>3 DEF Behind
<1> QED
    BY <1>1, <1>2, <1>3, <1>4, <1>9, <1>10, <1>11

\* RunAll begins, goes on and returns; the start is recorded; SIGTERM comes.
LEMMA MainMovesInv ==
    ASSUME LifeInv,
           startup \/ nextList \/ setStarted \/ (terminate /\ phase = "wait")
    PROVE  LifeInv'
<1>1. phase \notin Phase => todo = <<>>
    BY DEF LifeInv, MainInOrder
<1>2. Started \in BOOLEAN /\ (Started <=> phase \in ShutdownPhases \cup {"wait", "stopped"})
    BY DEF LifeInv, MainInOrder, TypeOK
<1> USE DEF Phase, StartupPhases, ShutdownPhases, Over, AfterStop, AfterAwait
<1>3. CASE startup
    BY <1>1, <1>2, <1>3, MovesInv DEF startup, enter
<1>4. CASE setStarted
    BY <1>1, <1>2, <1>4, MovesInv DEF setStarted
<1>5. CASE terminate /\ phase = "wait"
  <2>1. phase' = "StopIngress" /\ todo' = tasks["StopIngress"] /\ Started' = Started
    BY <1>5 DEF terminate, enter
  <2> QED
    BY <1>1, <1>2, <1>5, <2>1, MovesInv DEF terminate, enter
<1>6. CASE nextList
  <2>1. todo = <<>> /\ phase \in Phase /\ Started' = Started
        /\ UNCHANGED <<tasks, registry, engine, client, runningTasks, inGroup, overrun, at, arg>>
    BY <1>6 DEF nextList
  <2>2. CASE phase \in DOMAIN following
    <3>1. phase' = following[phase] /\ todo' = tasks[phase']
      BY <1>6, <2>2 DEF nextList, enter
    <3> QED
      BY <1>2, <2>1, <2>2, <3>1, FollowingIs, MovesInv
  <2>3. CASE phase \notin DOMAIN following
    <3>1. /\ phase \in {"Serve", "StopServer"}
          /\ phase' = (IF phase = "Serve" THEN "ready" ELSE "stopped")
          /\ todo' = <<>>
      BY <1>6, <2>3, FollowingIs DEF nextList
    <3> QED
      BY <1>2, <2>1, <3>1, MovesInv
  <2> QED
    BY <2>2, <2>3
<1> QED
    BY <1>3, <1>4, <1>5, <1>6

----------------------------------------------------------------------------
(* The tasks.                                                               *)

\* What is due has its task in the list that runs.
LEMMA DueIs ==
    ASSUME LifeInv, NEW p \in Phase, NEW d \in Component \cup {Web}, Due(p, d)
    PROVE  \/ d = Web /\ p \in {"Serve", "StopServer"}
           \/ d \in registry /\ d \in Component /\ p \in phasesOf(KindOf[d])
<1>1. Holds(todo, d)
    BY HoldsTail DEF Due, LifeInv, TypeOK
<1> QED
    BY <1>1 DEF Due, LifeInv, OnlyListed, TypeOK

\* What runs code of its own is not a plain client.
LEMMA RunsCode ==
    ASSUME NEW c \in Component, c \in Background \cup Servers
    PROVE  KindOf[c] \notin Quiet
BY WebType DEF Background, Schedulers, Consumers, Servers, OfKind, Quiet

\* A step that does the first task left adds at most its component to those
\* behind.
LEMMA TaskBehind ==
    ASSUME TypeOK, todo # <<>>, todo' = Tail(todo), phase' = phase,
           NEW p, NEW later, NEW s, Behind(p, later, s)'
    PROVE  Behind(p, later, s) \/ (phase = p /\ s = Head(todo))
<1>1. Holds(todo, s) <=> s = Head(todo) \/ Holds(Tail(todo), s)
    BY HoldsTail DEF TypeOK
<1> QED
    BY <1>1 DEF Behind

\* A task leaves the lists as they are.
LEMMA TaskKeepsLists ==
    ASSUME LifeInv, NEW p, NEW d, Due(p, d), ~inGroup', todo' = Tail(todo),
           UNCHANGED <<phase, tasks, Started, registry>>
    PROVE  /\ todo' \in Seq(Component \cup {Web})
           /\ MainInOrder' /\ Listed' /\ OnlyListed'
<1> USE DEF LifeInv
<1>1. todo' \in Seq(Component \cup {Web})
    BY DEF TypeOK, Due
<1>2. phase \in Phase
    BY DEF MainInOrder, Due
<1>3. MainInOrder' /\ Listed'
    BY <1>2 DEF MainInOrder, Listed
<1>4. \A s : Holds(Tail(todo), s) => Holds(todo, s)
    BY HoldsTail DEF TypeOK, Due
<1>5. OnlyListed'
    BY <1>4 DEF OnlyListed
<1> QED
    BY <1>1, <1>3, <1>5

\* cron.Start, runner.Start and the servers' Start: no task of the shutdown
\* has run.
LEMMA StartTaskInv ==
    ASSUME LifeInv, NEW s \in Component \cup {Web},
           startScheduler(s) \/ startConsumer(s) \/ serveTask(s)
    PROVE  LifeInv'
<1> USE DEF LifeInv
<1>1. PICK p \in {"Start", "Serve"} : Due(p, s)
    BY DEF startScheduler, startConsumer, serveTask
<1>2. /\ todo' = Tail(todo)
      /\ UNCHANGED <<phase, tasks, Started, registry, runningTasks, inGroup, overrun, at, arg>>
    BY DEF startScheduler, startConsumer, serveTask
<1>3. client' \in [Component -> {"none", "open", "closed"}]
    BY DEF startScheduler, startConsumer, serveTask, TypeOK
<1>4. engine' = engine \/ engine' = [engine EXCEPT ![s] = "on"]
    BY DEF startScheduler, startConsumer, serveTask, SetEngine
<1>5. ~inGroup'
    BY <1>1, <1>2 DEF Due, MainInOrder
<1>6. todo' \in Seq(Component \cup {Web}) /\ MainInOrder' /\ Listed' /\ OnlyListed'
    BY <1>1, <1>2, <1>5, TaskKeepsLists
<1>7. TypeOK'
    BY <1>2, <1>3, <1>4, <1>6 DEF TypeOK
<1>8. s \in Component => s \in registry /\ KindOf[s] \notin Quiet
    BY <1>1, DueIs, ListsOfKinds, RunsCode, WebType DEF Phase, StartupPhases
<1>9. Engines'
    BY <1>2, <1>4, <1>8, SourceOfType DEF Engines, TypeOK
<1>10. Counted' /\ ClientsOutliveJobs'
    BY <1>2 DEF Counted, ClientsOutliveJobs
<1>11. BackgroundStopped' /\ BackgroundDrained' /\ ServersStopped'
    BY <1>1, <1>2
    DEF BackgroundStopped, BackgroundDrained, ServersStopped, Behind, AfterStop,
        AfterAwait, Due
<1> QED
    BY <1>6, <1>7, <1>9, <1>10, <1>11

\* cron.Stop and runner.Stop.
LEMMA StopTaskInv ==
    ASSUME LifeInv, NEW c \in Component \cup {Web}, stopTask(c)
    PROVE  LifeInv'
<1> USE DEF LifeInv
<1>1. /\ Due("StopBackground", c) /\ todo' = Tail(todo) /\ todo # <<>> /\ Head(todo) = c
      /\ UNCHANGED <<phase, tasks, Started, registry, client, runningTasks, inGroup,
                     overrun, at, arg>>
    BY DEF stopTask, Due
<1>2. engine' = [engine EXCEPT ![c] = IF engine[c] = "on" THEN "stopping" ELSE engine[c]]
    BY DEF stopTask, SetEngine
<1>3. ~inGroup'
    BY <1>1 DEF Due, MainInOrder
<1>4. todo' \in Seq(Component \cup {Web}) /\ MainInOrder' /\ Listed' /\ OnlyListed'
    BY <1>1, <1>3, TaskKeepsLists
<1>5. /\ engine' \in [Component \cup {Web} -> {"off", "on", "stopping", "stopped"}]
      /\ \A s \in Component \cup {Web} :
             /\ engine'[s] = "off" <=> engine[s] = "off"
             /\ engine'[s] = "on" => engine[s] = "on" /\ s # c
    BY <1>2 DEF TypeOK
<1>6. TypeOK'
    BY <1>1, <1>4, <1>5 DEF TypeOK
<1>7. Engines'
    BY <1>1, <1>5, SourceOfType DEF Engines
<1>8. Counted' /\ ClientsOutliveJobs'
    BY <1>1 DEF Counted, ClientsOutliveJobs
<1>9. BackgroundStopped'
  <2>1. ASSUME NEW d \in Background, Behind("StopBackground", AfterStop, d)'
        PROVE  engine'[d] # "on"
    <3>1. Behind("StopBackground", AfterStop, d) \/ d = c
      BY <1>1, <2>1, TaskBehind
    <3> QED
      BY <1>5, <3>1, KindsDiffer DEF BackgroundStopped, Background
  <2> QED
    BY <2>1 DEF BackgroundStopped
<1>10. BackgroundDrained' /\ ServersStopped'
    BY <1>1
    DEF BackgroundDrained, ServersStopped, Behind, AfterAwait, Due
<1> QED
    BY <1>4, <1>6, <1>7, <1>8, <1>9, <1>10

\* The context of cron.Stop is done.
LEMMA AwaitJobsInv ==
    ASSUME LifeInv, NEW c \in Component \cup {Web}, awaitJobs(c)
    PROVE  LifeInv'
<1> USE DEF LifeInv
<1>1. /\ Due("AwaitBackground", c) /\ todo' = Tail(todo) /\ todo # <<>> /\ Head(todo) = c
      /\ UNCHANGED <<phase, tasks, Started, registry, engine, client, runningTasks, inGroup,
                     overrun, at, arg>>
    BY DEF awaitJobs, Due
<1>2. ~inGroup'
    BY <1>1, KindsDiffer DEF awaitJobs, MainInOrder
<1>3. todo' \in Seq(Component \cup {Web}) /\ MainInOrder' /\ Listed' /\ OnlyListed'
    BY <1>1, <1>2, TaskKeepsLists
<1>4. TypeOK'
    BY <1>1, <1>3 DEF TypeOK
<1>5. Engines' /\ Counted' /\ ClientsOutliveJobs'
    BY <1>1 DEF Engines, Counted, ClientsOutliveJobs
<1>6. BackgroundStopped' /\ ServersStopped'
    BY <1>1 DEF BackgroundStopped, ServersStopped, Behind, AfterStop, Due, WorkersOf, Busy
<1>7. BackgroundDrained'
  <2>1. ASSUME NEW w \in Worker, Behind("AwaitBackground", AfterAwait, SourceOf[w])'
        PROVE  Behind("AwaitBackground", AfterAwait, SourceOf[w]) \/ SourceOf[w] = c
    BY <1>1, <2>1, TaskBehind
  <2>2. c \in Schedulers \ Consumers /\ \A w \in Worker : SourceOf[w] = c => ~Busy(w)
    BY KindsDiffer DEF awaitJobs, WorkersOf
  <2> QED
    BY <1>1, <2>1, <2>2 DEF BackgroundDrained, Busy
<1> QED
    BY <1>3, <1>4, <1>5, <1>6, <1>7

\* AwaitTermination leaves its polling loop.
LEMMA AwaitTasksInv ==
    ASSUME LifeInv, NEW c \in Component \cup {Web}, awaitTasks(c)
    PROVE  LifeInv'
<1> USE DEF LifeInv, awaitTasks
<1>1. TypeOK'
    BY DEF TypeOK
<1>2. MainInOrder'
    BY DEF MainInOrder, Due
<1>3. Listed' /\ OnlyListed' /\ Engines' /\ Counted' /\ ClientsOutliveJobs'
    BY DEF Listed, OnlyListed, Engines, Counted, ClientsOutliveJobs
<1>4. BackgroundStopped' /\ BackgroundDrained' /\ ServersStopped'
    BY DEF BackgroundStopped, BackgroundDrained, ServersStopped, Behind, WorkersOf, Busy
<1> QED
    BY <1>1, <1>2, <1>3, <1>4

\* AwaitTermination returns: the loops are gone, or the consumer is given up.
LEMMA AwaitGroupInv ==
    ASSUME LifeInv, NEW c \in Component \cup {Web}, awaitGroup(c)
    PROVE  LifeInv'
<1> USE DEF LifeInv
<1>1. /\ Due("AwaitBackground", c) /\ todo' = Tail(todo) /\ todo # <<>> /\ Head(todo) = c
      /\ ~inGroup' /\ inGroup' \in BOOLEAN
      /\ UNCHANGED <<phase, tasks, Started, registry, engine, client, runningTasks, at, arg>>
    BY DEF awaitGroup, Due
<1>2. c \in Consumers
    BY <1>1 DEF awaitGroup, MainInOrder
<1>3. /\ overrun \subseteq overrun' /\ overrun' \subseteq Consumers
      /\ LoopsGone(c) \/ c \in overrun'
    BY <1>2 DEF awaitGroup, TypeOK
<1>4. todo' \in Seq(Component \cup {Web}) /\ MainInOrder' /\ Listed' /\ OnlyListed'
    BY <1>1, TaskKeepsLists
<1>5. TypeOK'
    BY <1>1, <1>3, <1>4 DEF TypeOK
<1>6. Engines' /\ Counted' /\ ClientsOutliveJobs'
    BY <1>1, <1>3 DEF Engines, Counted, ClientsOutliveJobs
<1>7. BackgroundStopped' /\ ServersStopped'
    BY <1>1 DEF BackgroundStopped, ServersStopped, Behind, AfterStop, Due, WorkersOf, Busy
<1>8. BackgroundDrained'
  <2>1. ASSUME NEW w \in Worker, Behind("AwaitBackground", AfterAwait, SourceOf[w])'
        PROVE  Behind("AwaitBackground", AfterAwait, SourceOf[w]) \/ SourceOf[w] = c
    BY <1>1, <2>1, TaskBehind
  <2>2. c \notin Schedulers
    BY <1>2, KindsDiffer
  <2> QED
    BY <1>1, <1>3, <2>1, <2>2 DEF BackgroundDrained, Busy, LoopsGone, WorkersOf
<1> QED
    BY <1>4, <1>5, <1>6, <1>7, <1>8

\* A client is closed when no background work that was not given up is left.
LEMMA CloseInv ==
    ASSUME LifeInv, NEW c \in Component \cup {Web}, CloseProducer(c) \/ Close(c)
    PROVE  LifeInv'
<1> USE DEF LifeInv
<1>1. PICK p \in {"CloseProducers", "ReleaseResources"} : Due(p, c)
    BY DEF CloseProducer, Close
<1>2. /\ todo' = Tail(todo) /\ todo # <<>> /\ Head(todo) = c
      /\ client' \in [Component -> {"none", "open", "closed"}]
      /\ UNCHANGED <<phase, tasks, Started, registry, engine, runningTasks, inGroup, overrun,
                     arg>>
    BY <1>1 DEF CloseProducer, Close, closeClient, Due, TypeOK
<1>3. /\ at' \in [Worker -> Place]
      /\ \A w \in Worker : at'[w] = at[w] \/ (at[w] = "using" /\ at'[w] = "stale")
    BY DEF CloseProducer, Close, closeClient, TypeOK, Place
<1>4. ~inGroup'
    BY <1>1, <1>2 DEF Due, MainInOrder
<1>5. todo' \in Seq(Component \cup {Web}) /\ MainInOrder' /\ Listed' /\ OnlyListed'
    BY <1>1, <1>2, <1>4, TaskKeepsLists
<1>6. TypeOK'
    BY <1>2, <1>3, <1>5 DEF TypeOK
<1>7. Counted'
    BY <1>2, <1>3 DEF Counted, InService
<1>8. Engines'
    BY <1>2, <1>3 DEF Engines
<1>9. phase \in AfterAwait /\ phase # "StopServer" /\ phase # "stopped"
    BY <1>1 DEF Due, AfterAwait
<1>10. BackgroundStopped'
    BY <1>2, <1>9 DEF BackgroundStopped, Behind, AfterStop
<1>11. BackgroundDrained'
    BY <1>2, <1>3, <1>9 DEF BackgroundDrained, Behind, Busy
<1>12. ServersStopped'
    BY <1>2, <1>9 DEF ServersStopped, Behind
<1>13. ClientsOutliveJobs'
  <2>1. ASSUME NEW w \in Worker, at[w] = "using" PROVE SourceOf[w] \in Servers \cup overrun
    <3>1. SourceOf[w] \in Schedulers \cup Consumers \cup Servers
      BY KindsDiffer DEF Background
    <3>2. Busy(w) /\ engine[SourceOf[w]] # "off"
      BY <2>1 DEF Busy, Engines
    <3> QED
      BY <1>9, <2>1, <3>1, <3>2 DEF BackgroundDrained, Behind
  <2> QED
    BY <1>2, <1>3, <2>1 DEF ClientsOutliveJobs
<1> QED
    BY <1>5, <1>6, <1>7, <1>8, <1>10, <1>11, <1>12, <1>13

\* Shutdown and GracefulStop refuse new requests and wait for the last one.
LEMMA StopServerInv ==
    ASSUME LifeInv, NEW s \in Component \cup {Web}, stopServer(s) \/ serverStopped(s)
    PROVE  LifeInv'
<1> USE DEF LifeInv
<1>1. /\ Due("StopServer", s) /\ todo # <<>> /\ Head(todo) = s
      /\ UNCHANGED <<phase, tasks, Started, registry, client, runningTasks, inGroup, overrun,
                     at, arg>>
    BY DEF stopServer, serverStopped, Due
<1>2. PICK v \in {"stopping", "stopped"} : engine' = [engine EXCEPT ![s] = v]
    BY DEF stopServer, serverStopped, SetEngine
<1>3. ~inGroup
    BY <1>1 DEF Due, MainInOrder
<1>4. /\ todo' \in Seq(Component \cup {Web}) /\ MainInOrder' /\ Listed' /\ OnlyListed'
  <2>1. CASE stopServer(s)
    BY <1>1, <2>1 DEF stopServer, TypeOK, MainInOrder, Listed, OnlyListed
  <2>2. CASE serverStopped(s)
    BY <1>1, <1>3, <2>2, TaskKeepsLists DEF serverStopped
  <2> QED
    BY <2>1, <2>2
<1>5. TypeOK'
    BY <1>1, <1>2, <1>4 DEF TypeOK
<1>6. s \in Component => s \in registry /\ KindOf[s] \notin Quiet
    BY <1>1, DueIs, ListsOfKinds, RunsCode, WebType DEF Phase, ShutdownPhases
<1>7. Engines'
    BY <1>1, <1>2, <1>6, SourceOfType DEF Engines, TypeOK
<1>8. Counted' /\ ClientsOutliveJobs'
    BY <1>1 DEF Counted, ClientsOutliveJobs
<1>9. s \in Servers
    BY <1>1, DueIs, ListsOfKinds DEF Phase, ShutdownPhases, Servers
<1>10. /\ phase = "StopServer" /\ phase \in AfterStop /\ phase \in AfterAwait
       /\ s \notin Background
    BY <1>1, <1>9, KindsDiffer DEF Due, AfterStop, AfterAwait
<1>11. BackgroundStopped'
    BY <1>1, <1>2, <1>10, KindsDiffer DEF BackgroundStopped, Behind, Background, TypeOK
<1>12. BackgroundDrained'
    BY <1>1, <1>2, <1>10, KindsDiffer, SourceOfType
    DEF BackgroundDrained, Behind, Background, Busy, TypeOK
<1>13. ServersStopped'
  <2> SUFFICES ASSUME NEW r \in Servers, Behind("StopServer", {"stopped"}, r)'
               PROVE  engine'[r] # "on" /\ \A w \in WorkersOf(r) : ~Busy(w)
    BY <1>1 DEF ServersStopped, WorkersOf, Busy
  <2>1. CASE stopServer(s)
    BY <1>1, <1>2, <2>1 DEF stopServer, ServersStopped, Behind, TypeOK
  <2>2. CASE serverStopped(s)
    <3>1. Behind("StopServer", {"stopped"}, r) \/ r = s
      BY <1>1, <2>2, TaskBehind DEF serverStopped
    <3> QED
      BY <1>2, <2>2, <3>1, KindsDiffer DEF serverStopped, ServersStopped, TypeOK
  <2> QED
    BY <2>1, <2>2
<1> QED
    BY <1>4, <1>5, <1>7, <1>8, <1>11, <1>12, <1>13

----------------------------------------------------------------------------
(* The workers.                                                             *)

\* What a step of a worker leaves alone.
LEMMA WorkerKeeps ==
    ASSUME LifeInv, UNCHANGED mainVars
    PROVE  MainInOrder' /\ Listed' /\ OnlyListed' /\ BackgroundStopped'
BY DEF LifeInv, mainVars, MainInOrder, Listed, OnlyListed, BackgroundStopped, Behind

\* A step of a worker that was at work, or that leaves its loop: nothing that
\* was drained or stopped works again.
LEMMA AtWorkInv ==
    ASSUME LifeInv, UNCHANGED mainVars, TypeOK', Counted', ClientsOutliveJobs',
           \A w \in Worker : Busy(w)' => Busy(w),
           \A w \in Worker : at'[w] # at[w] => Busy(w) \/ engine[SourceOf[w]] # "off",
           \A w \in Worker : at[w] = "exited" => at'[w] = "exited"
    PROVE  LifeInv'
<1> USE DEF LifeInv
<1>1. UNCHANGED <<phase, todo, engine, overrun, registry>>
    BY DEF mainVars
<1>2. Engines'
    BY <1>1 DEF Engines, Busy
<1>3. BackgroundDrained'
    BY <1>1 DEF BackgroundDrained, Behind
<1>4. ServersStopped'
    BY <1>1 DEF ServersStopped, Behind, WorkersOf
<1> QED
    BY <1>2, <1>3, <1>4, WorkerKeeps

\* A worker takes work on only from what is started and not yet stopped, or
\* from the loop of a consumer that has not exited.
LEMMA BeginInv ==
    ASSUME LifeInv, NEW w \in Worker, begin(w)
    PROVE  LifeInv'
<1> USE DEF LifeInv
<1>1. /\ UNCHANGED <<phase, todo, tasks, Started, registry, engine, client, runningTasks,
                     inGroup, overrun, arg>>
      /\ UNCHANGED mainVars /\ at[w] = "idle"
    BY DEF begin, mainVars
<1>2. PICK place \in {"taken", "running"} :
          /\ at' = [at EXCEPT ![w] = place]
          /\ IF SourceOf[w] \in Consumers
             THEN engine[SourceOf[w]] # "off" /\ place = "taken"
             ELSE engine[SourceOf[w]] = "on" /\ place = "running"
    BY DEF begin, MoveWorker
<1>3. /\ at' \in [Worker -> Place] /\ at'[w] = place
      /\ \A v \in Worker : v # w => at'[v] = at[v]
    BY <1>2 DEF TypeOK, Place
<1>4. TypeOK'
    BY <1>1, <1>3 DEF TypeOK
<1>5. Counted'
    BY <1>1, <1>2, <1>3 DEF Counted, InService
<1>6. Engines'
    BY <1>1, <1>2, <1>3 DEF Engines
<1>7. ClientsOutliveJobs'
    BY <1>1, <1>2, <1>3 DEF ClientsOutliveJobs
<1>8. BackgroundDrained'
  <2>1. Behind("AwaitBackground", AfterAwait, SourceOf[w]) =>
            /\ SourceOf[w] \notin Schedulers
            /\ SourceOf[w] \in Consumers => SourceOf[w] \in overrun
    <3>1. ASSUME Behind("AwaitBackground", AfterAwait, SourceOf[w]),
                 SourceOf[w] \in Schedulers
          PROVE  FALSE
      <4>1. engine[SourceOf[w]] # "on"
        BY <3>1 DEF Behind, AfterStop, BackgroundStopped, Background
      <4> QED
        BY <1>2, <3>1, <4>1, KindsDiffer
    <3> QED
      BY <1>1, <1>2, <3>1 DEF BackgroundDrained
  <2> QED
    BY <1>1, <1>3, <2>1 DEF BackgroundDrained, Behind, Busy
<1>9. ServersStopped'
  <2>1. SourceOf[w] \in Servers => engine[SourceOf[w]] = "on"
    BY <1>2, KindsDiffer DEF Background
  <2> QED
    BY <1>1, <1>3, <2>1 DEF ServersStopped, Behind, WorkersOf, Busy
<1> QED
    BY <1>1, <1>4, <1>5, <1>6, <1>7, <1>8, <1>9, WorkerKeeps

\* Two loops do not share a counter.
LEMMA OwnCounter ==
    ASSUME NEW v \in Worker, NEW w \in Worker, SourceOf[v] \in Consumers,
           SourceOf[v] = SourceOf[w]
    PROVE  v = w
BY OneRunner, WebType DEF Consumers, OfKind

\* runningTasks.Add(1).
LEMMA CountInv ==
    ASSUME LifeInv, NEW w \in Worker, count(w)
    PROVE  LifeInv'
<1> USE DEF LifeInv
<1>1. UNCHANGED mainVars /\ UNCHANGED <<client, arg>> /\ at[w] = "taken"
    BY DEF count
<1>2. /\ at' \in [Worker -> Place] /\ at'[w] = "running"
      /\ \A v \in Worker : v # w => at'[v] = at[v]
    BY DEF count, MoveWorker, TypeOK, Place
<1>3. /\ runningTasks' \in [Component -> Nat]
      /\ \A c \in Component :
             runningTasks'[c] = IF c = SourceOf[w] THEN runningTasks[c] + 1 ELSE runningTasks[c]
  <2>1. /\ runningTasks' = [runningTasks EXCEPT ![SourceOf[w]] = runningTasks[SourceOf[w]] + 1]
        /\ runningTasks \in [Component -> Nat]
    BY DEF count, TypeOK
  <2>2. \A c \in Component : runningTasks[c] + 1 \in Nat
    BY <2>1
  <2> QED
    BY <2>1, <2>2
<1>4. TypeOK'
    BY <1>1, <1>2, <1>3 DEF TypeOK, mainVars
<1>5. Counted'
  <2> SUFFICES ASSUME NEW v \in Worker, SourceOf[v] \in Consumers
               PROVE  runningTasks'[SourceOf[v]] = (IF at'[v] \in InService THEN 1 ELSE 0)
    BY DEF Counted
  <2>1. SourceOf[v] \in Component
    BY KindsDiffer
  <2>2. runningTasks[SourceOf[v]] = (IF at[v] \in InService THEN 1 ELSE 0)
    BY DEF Counted
  <2>3. CASE v = w
    BY <1>1, <1>2, <1>3, <2>1, <2>2, <2>3 DEF InService
  <2>4. CASE v # w
    BY <1>2, <1>3, <2>1, <2>2, <2>4, OwnCounter
  <2> QED
    BY <2>3, <2>4
<1>6. ClientsOutliveJobs'
    BY <1>1, <1>2 DEF ClientsOutliveJobs, mainVars
<1>7. \A v \in Worker : Busy(v)' => Busy(v)
    BY <1>1, <1>2 DEF Busy
<1>8. \A v \in Worker : at'[v] # at[v] => Busy(v)
    BY <1>1, <1>2 DEF Busy
<1> QED
    BY <1>1, <1>2, <1>4, <1>5, <1>6, <1>7, <1>8, AtWorkInv

\* ensureClient tests the field, and assigns it.
LEMMA EnsureClientInv ==
    ASSUME LifeInv, NEW w \in Worker,
           createClient(w) \/ \E c \in Component : readClient(w, c)
    PROVE  LifeInv'
<1> USE DEF LifeInv
<1>1. UNCHANGED mainVars /\ runningTasks' = runningTasks
    BY DEF createClient, readClient
<1>2. arg' \in [Worker -> Component \cup {None}] /\ client' \in [Component -> {"none", "open", "closed"}]
    BY DEF createClient, readClient, TypeOK
<1>3. /\ at' \in [Worker -> Place]
      /\ \A v \in Worker :
             \/ at'[v] = at[v]
             \/ at[v] \in InService /\ at'[v] \in InService \ {"stale"}
  <2>1. at \in [Worker -> Place] /\ {"using", "creating", "orphan"} \subseteq Place
    BY DEF TypeOK, Place
  <2>2. CASE createClient(w)
    <3>1. /\ at[w] = "creating"
          /\ at' = [v \in Worker |->
                      IF v = w THEN "using"
                      ELSE IF at[v] = "using" /\ arg[v] = arg[w] THEN "orphan" ELSE at[v]]
      BY <2>2 DEF createClient
    <3> QED
      BY <2>1, <3>1 DEF InService
  <2>3. ASSUME NEW c \in Component, readClient(w, c)
        PROVE  <1>3!1 /\ <1>3!2
    <3>1. /\ at[w] = "running"
          /\ \/ at' = [at EXCEPT ![w] = "using"]
             \/ at' = [at EXCEPT ![w] = "creating"]
      BY <2>3 DEF readClient, MoveWorker
    <3> QED
      BY <2>1, <3>1 DEF InService
  <2> QED
    BY <2>2, <2>3
<1>4. TypeOK'
    BY <1>1, <1>2, <1>3 DEF TypeOK, mainVars
<1>5. Counted'
    BY <1>1, <1>3 DEF Counted
<1>6. ClientsOutliveJobs'
    BY <1>1, <1>3 DEF ClientsOutliveJobs, mainVars
<1>7. \A v \in Worker : Busy(v)' => Busy(v)
    BY <1>3 DEF Busy, InService
<1>8. \A v \in Worker : at'[v] # at[v] => Busy(v)
    BY <1>3 DEF Busy, InService
<1>9. \A v \in Worker : at[v] = "exited" => at'[v] = "exited"
    BY <1>3 DEF InService
<1> QED
    BY <1>1, <1>4, <1>5, <1>6, <1>7, <1>8, <1>9, AtWorkInv

\* The request, job or handler returns, and runningTasks.Add(-1) runs.
LEMMA FinishInv ==
    ASSUME LifeInv, NEW w \in Worker, finish(w)
    PROVE  LifeInv'
<1> USE DEF LifeInv
<1>1. /\ UNCHANGED mainVars /\ client' = client /\ at[w] \in InService
      /\ arg' \in [Worker -> Component \cup {None}]
    BY DEF finish, InService, TypeOK
<1>2. /\ at' \in [Worker -> Place] /\ at'[w] = "idle"
      /\ \A v \in Worker : v # w => at'[v] = at[v]
    BY DEF finish, MoveWorker, TypeOK, Place
<1>3. SourceOf[w] \in Consumers => runningTasks[SourceOf[w]] = 1
    BY <1>1 DEF Counted
<1>4. /\ runningTasks' \in [Component -> Nat]
      /\ \A c \in Component :
             runningTasks'[c] = IF c = SourceOf[w] /\ c \in Consumers THEN 0
                                ELSE runningTasks[c]
  <2>1. CASE SourceOf[w] \in Consumers
    <3>1. /\ runningTasks' = [runningTasks EXCEPT ![SourceOf[w]] = runningTasks[SourceOf[w]] - 1]
          /\ runningTasks[SourceOf[w]] - 1 = 0 /\ SourceOf[w] \in Component
      BY <1>3, <2>1, KindsDiffer DEF finish
    <3> QED
      BY <2>1, <3>1 DEF TypeOK
  <2>2. CASE SourceOf[w] \notin Consumers
    BY <2>2 DEF finish, TypeOK
  <2> QED
    BY <2>1, <2>2
<1>5. TypeOK'
    BY <1>1, <1>2, <1>4 DEF TypeOK, mainVars
<1>6. Counted'
  <2> SUFFICES ASSUME NEW v \in Worker, SourceOf[v] \in Consumers
               PROVE  runningTasks'[SourceOf[v]] = (IF at'[v] \in InService THEN 1 ELSE 0)
    BY DEF Counted
  <2>1. SourceOf[v] \in Component
    BY KindsDiffer
  <2>2. runningTasks[SourceOf[v]] = (IF at[v] \in InService THEN 1 ELSE 0)
    BY DEF Counted
  <2>3. CASE v = w
    BY <1>2, <1>4, <2>1, <2>3 DEF InService
  <2>4. CASE v # w
    BY <1>2, <1>4, <2>1, <2>2, <2>4, OwnCounter
  <2> QED
    BY <2>3, <2>4
<1>7. ClientsOutliveJobs'
    BY <1>1, <1>2 DEF ClientsOutliveJobs, mainVars
<1>8. \A v \in Worker : Busy(v)' => Busy(v)
    BY <1>2 DEF Busy
<1>9. \A v \in Worker : at'[v] # at[v] => Busy(v)
    BY <1>1, <1>2 DEF Busy, InService
<1>10. \A v \in Worker : at[v] = "exited" => at'[v] = "exited"
    BY <1>1, <1>2 DEF InService
<1> QED
    BY <1>1, <1>5, <1>6, <1>7, <1>8, <1>9, <1>10, AtWorkInv

\* Conn hands out a closed connection only to requests and to what was given up.
LEMMA ConnInv ==
    ASSUME LifeInv, ClosedLate, NEW w \in Worker, NEW c \in Component, Conn(w, c)
    PROVE  LifeInv'
<1> USE DEF LifeInv
<1>1. /\ UNCHANGED mainVars /\ UNCHANGED <<client, runningTasks>> /\ at[w] = "running"
      /\ arg' \in [Worker -> Component \cup {None}]
    BY DEF Conn, TypeOK
<1>2. /\ at' \in [Worker -> Place] /\ at'[w] \in {"using", "stale"}
      /\ at'[w] = "stale" => phase \in AfterAwait
      /\ \A v \in Worker : v # w => at'[v] = at[v]
    BY DEF Conn, MoveWorker, TypeOK, Place, ClosedLate
<1>3. TypeOK'
    BY <1>1, <1>2 DEF TypeOK, mainVars
<1>4. Counted'
    BY <1>1, <1>2 DEF Counted, InService
<1>5. ClientsOutliveJobs'
  <2>1. ASSUME phase \in AfterAwait PROVE SourceOf[w] \in Servers \cup overrun
    <3>1. SourceOf[w] \in Schedulers \cup Consumers \cup Servers
      BY KindsDiffer DEF Background
    <3>2. Busy(w) /\ engine[SourceOf[w]] # "off"
      BY <1>1 DEF Busy, Engines
    <3> QED
      BY <1>1, <2>1, <3>1, <3>2 DEF BackgroundDrained, Behind
  <2> QED
    BY <1>1, <1>2, <2>1 DEF ClientsOutliveJobs, mainVars
<1>6. \A v \in Worker : Busy(v)' => Busy(v)
    BY <1>1, <1>2 DEF Busy
<1>7. \A v \in Worker : at'[v] # at[v] => Busy(v)
    BY <1>1, <1>2 DEF Busy
<1>8. \A v \in Worker : at[v] = "exited" => at'[v] = "exited"
    BY <1>1, <1>2
<1> QED
    BY <1>1, <1>3, <1>4, <1>5, <1>6, <1>7, <1>8, AtWorkInv

\* A step that changes only where one worker is, to a place without work.
LEMMA RestInv ==
    ASSUME LifeInv, UNCHANGED mainVars, UNCHANGED <<client, runningTasks, arg>>,
           NEW w \in Worker, NEW place \in {"idle", "exited"},
           at' = [at EXCEPT ![w] = place], at[w] # "exited",
           Busy(w) => SourceOf[w] \notin Consumers,
           engine[SourceOf[w]] # "off"
    PROVE  LifeInv'
<1> USE DEF LifeInv
<1>1. /\ at' \in [Worker -> Place] /\ at'[w] = place
      /\ \A v \in Worker : v # w => at'[v] = at[v]
    BY DEF TypeOK, Place
<1>2. TypeOK'
    BY <1>1 DEF TypeOK, mainVars
<1>3. Counted'
    BY <1>1 DEF Counted, InService, Busy
<1>4. ClientsOutliveJobs'
    BY <1>1 DEF ClientsOutliveJobs, mainVars
<1>5. \A v \in Worker : Busy(v)' => Busy(v)
    BY <1>1 DEF Busy
<1>6. \A v \in Worker : at[v] = "exited" => at'[v] = "exited"
    BY <1>1
<1> QED
    BY <1>1, <1>2, <1>3, <1>4, <1>5, <1>6, AtWorkInv

\* The loop takes ctx.Done().
LEMMA ExitLoopInv ==
    ASSUME LifeInv, NEW w \in Worker, exitLoop(w)
    PROVE  LifeInv'
BY RestInv DEF exitLoop, MoveWorker, Busy

\* A component asked for late: registered, or the request or the process fails.
LEMMA AskLateInv ==
    ASSUME LifeInv, NEW w \in Worker, NEW c \in Component, askLate(w, c)
    PROVE  LifeInv'
<1>1. CASE ~Started /\ initialize(c)
           /\ UNCHANGED <<phase, todo, Started, engine, client, runningTasks, inGroup, overrun,
                          at, arg>>
    BY <1>1, InitializeInv DEF LifeInv, TypeOK
<1>2. CASE /\ SourceOf[w] = Web /\ MoveWorker(w, "idle")
           /\ UNCHANGED <<mainVars, client, runningTasks, arg>>
  <2>1. at[w] = "running" /\ Web \notin Consumers
    BY KindsDiffer DEF askLate, Background
  <2>2. engine[SourceOf[w]] # "off"
    BY <2>1 DEF LifeInv, Engines
  <2> QED
    BY <1>2, <2>1, <2>2, RestInv DEF MoveWorker
<1>3. CASE die
    BY <1>3, DieInv
<1> QED
    BY <1>1, <1>2, <1>3 DEF askLate

----------------------------------------------------------------------------
(* The theorems.                                                            *)

\* The invariant holds when the service's Initialize() begins.
LEMMA InitInv == Init => LifeInv
<1> SUFFICES ASSUME Init PROVE LifeInv
    OBVIOUS
<1> USE DEF Init
<1>1. \A p \in Phase : \A s : Holds(tasks[p], s) <=> s = Web /\ p \in {"Serve", "StopServer"}
    BY HoldsFew DEF NewLifecycle
<1>2. TypeOK
  <2>1. <<>> \in Seq(Component \cup {Web}) /\ <<Web>> \in Seq(Component \cup {Web})
    OBVIOUS
  <2>2. tasks \in [Phase -> Seq(Component \cup {Web})]
    BY <2>1 DEF NewLifecycle
  <2>3. Started \in BOOLEAN /\ inGroup \in BOOLEAN
    OBVIOUS
  <2>4. /\ engine \in [Component \cup {Web} -> {"off", "on", "stopping", "stopped"}]
        /\ client \in [Component -> {"none", "open", "closed"}]
        /\ runningTasks \in [Component -> Nat]
        /\ at \in [Worker -> Place]
        /\ arg \in [Worker -> Component \cup {None}]
    BY DEF Place
  <2> QED
    BY <2>1, <2>2, <2>3, <2>4 DEF TypeOK
<1>3. Counted
    BY KindsDiffer DEF Counted, InService
<1>4. MainInOrder /\ Engines /\ ClientsOutliveJobs
    BY SourceOfType
    DEF MainInOrder, Engines, ClientsOutliveJobs, Phase, StartupPhases, ShutdownPhases
<1>5. Listed /\ OnlyListed
    BY <1>1 DEF Listed, OnlyListed, Phase, StartupPhases, ShutdownPhases
<1>6. BackgroundStopped /\ BackgroundDrained /\ ServersStopped
    BY DEF BackgroundStopped, BackgroundDrained, ServersStopped, Behind, AfterStop,
           AfterAwait
<1> QED
    BY <1>2, <1>3, <1>4, <1>5, <1>6 DEF LifeInv

\* Every step keeps the invariant.
LEMMA NextInv == LifeInv /\ ClosedLate /\ [Next]_vars => LifeInv'
<1> SUFFICES ASSUME LifeInv, ClosedLate, [Next]_vars PROVE LifeInv'
    OBVIOUS
<1>1. ASSUME NEW c \in Component, register(c) PROVE LifeInv'
  <2>1. client' \in [Component -> {"none", "open", "closed"}]
    BY <1>1 DEF register, LifeInv, TypeOK
  <2>2. ~Started
    BY <1>1 DEF register, LifeInv, MainInOrder, ShutdownPhases
  <2> QED
    BY <1>1, <2>1, <2>2, InitializeInv DEF register
<1>2. ASSUME startup \/ nextList \/ setStarted \/ terminate PROVE LifeInv'
    BY <1>2, MainMovesInv, DieInv DEF terminate
<1>3. ASSUME NEW s \in Component \cup {Web}, task(s) PROVE LifeInv'
    BY <1>3, StartTaskInv, StopTaskInv, AwaitJobsInv, AwaitTasksInv, AwaitGroupInv, CloseInv,
       StopServerInv
    DEF task
<1>4. ASSUME startPanics PROVE LifeInv'
    BY <1>4, DieInv DEF startPanics
<1>5. ASSUME NEW w \in Worker, begin(w) \/ workerSteps(w) \/ exitLoop(w) PROVE LifeInv'
    BY <1>5, BeginInv, CountInv, EnsureClientInv, FinishInv, ExitLoopInv DEF workerSteps
<1>6. ASSUME NEW w \in Worker, NEW c \in Component,
             askLate(w, c) \/ readClient(w, c) \/ Conn(w, c)
      PROVE  LifeInv'
    BY <1>6, AskLateInv, EnsureClientInv, ConnInv
<1>7. ASSUME UNCHANGED vars PROVE LifeInv'
    BY <1>7
    DEF vars, LifeInv, TypeOK, Counted, MainInOrder, Listed, OnlyListed, Engines,
        BackgroundStopped, BackgroundDrained, ServersStopped, ClientsOutliveJobs, Behind,
        WorkersOf, Busy
<1> QED
    BY <1>1, <1>2, <1>3, <1>4, <1>5, <1>6, <1>7 DEF Next, main, Ends

\* A pool is closed by ReleaseResources, and the lists only go on from there.
LEMMA NextClosed == LifeInv /\ ClosedLate /\ [Next]_vars => ClosedLate'
<1> SUFFICES ASSUME LifeInv, ClosedLate, [Next]_vars PROVE ClosedLate'
    OBVIOUS
<1> USE DEF LifeInv, ClosedLate
<1>1. ASSUME phase' = phase, \A c \in Component : client'[c] = "closed" => client[c] = "closed"
      PROVE  ClosedLate'
    BY <1>1
<1>2. ASSUME die PROVE ClosedLate'
    BY <1>2 DEF die
<1>3. ASSUME NEW c \in Component, register(c) PROVE ClosedLate'
    BY <1>1, <1>3 DEF register, TypeOK
<1>4. ASSUME startup \/ setStarted PROVE ClosedLate'
    BY <1>4 DEF startup, setStarted, enter, AfterAwait
<1>5. ASSUME terminate PROVE ClosedLate'
    BY <1>2, <1>5 DEF terminate, enter, AfterAwait
<1>6. ASSUME nextList PROVE ClosedLate'
    BY <1>6
    DEF nextList, enter, following, AfterAwait, Phase, StartupPhases, ShutdownPhases
<1>7. ASSUME startPanics PROVE ClosedLate'
    BY <1>2, <1>7 DEF startPanics
<1>8. ASSUME NEW s \in Component \cup {Web}, task(s) PROVE ClosedLate'
  <2>1. CASE CloseProducer(s) \/ Close(s)
    <3>1. phase \in AfterAwait /\ phase' = phase
      BY <2>1 DEF CloseProducer, Close, closeClient, Due, AfterAwait
    <3> QED
      BY <3>1
  <2>2. CASE startScheduler(s) \/ startConsumer(s) \/ serveTask(s)
    BY <1>1, <2>2 DEF startScheduler, startConsumer, serveTask, TypeOK
  <2>3. CASE stopTask(s) \/ awaitJobs(s) \/ awaitTasks(s) \/ awaitGroup(s)
    BY <1>1, <2>3 DEF stopTask, awaitJobs, awaitTasks, awaitGroup
  <2>4. CASE stopServer(s) \/ serverStopped(s)
    BY <1>1, <2>4 DEF stopServer, serverStopped
  <2> QED
    BY <1>8, <2>1, <2>2, <2>3, <2>4 DEF task
<1>9. ASSUME NEW w \in Worker, begin(w) \/ workerSteps(w) \/ exitLoop(w) PROVE ClosedLate'
    BY <1>1, <1>9 DEF begin, workerSteps, exitLoop, count, createClient, finish, mainVars, TypeOK
<1>10. ASSUME NEW w \in Worker, NEW c \in Component,
              askLate(w, c) \/ readClient(w, c) \/ Conn(w, c)
       PROVE  ClosedLate'
    BY <1>1, <1>2, <1>10 DEF askLate, readClient, Conn, mainVars
<1>11. ASSUME UNCHANGED vars PROVE ClosedLate'
    BY <1>11 DEF vars
<1> QED
    BY <1>3, <1>4, <1>5, <1>6, <1>7, <1>8, <1>9, <1>10, <1>11 DEF Next, main, Ends

\* Every behaviour of the application keeps the inductive invariant, whatever
\* components it has, whenever they register and whatever fails.
THEOREM LifeInvariant == Spec => []LifeInv
<1>1. Init => ClosedLate
    BY DEF Init, ClosedLate
<1> QED
    BY <1>1, InitInv, NextInv, NextClosed, PTL DEF Spec

\* The variables have their types: no counter of running tasks goes below zero.
THEOREM LifeTypeOK == Spec => []TypeOK
<1>1. LifeInv => TypeOK
    BY DEF LifeInv
<1> QED
    BY <1>1, LifeInvariant, PTL

\* The shutdown closes a client under a job or a message handler only if
\* AwaitTermination gave up on that consumer.
THEOREM LifeClientsOutliveJobs == Spec => []ClientsOutliveJobs
<1>1. LifeInv => ClientsOutliveJobs
    BY DEF LifeInv
<1> QED
    BY <1>1, LifeInvariant, PTL

\* When App.Start has returned, all that was started is stopped, and only
\* handlers AwaitTermination gave up on still run.
THEOREM LifeNothingRuns == Spec => []NothingRuns
<1>1. LifeInv => NothingRuns
  <2> SUFFICES ASSUME LifeInv, phase = "stopped" PROVE NothingRuns
    BY DEF NothingRuns
  <2> USE DEF LifeInv
  <2>1. \A s : /\ Behind("StopBackground", AfterStop, s)
               /\ Behind("AwaitBackground", AfterAwait, s)
               /\ Behind("StopServer", {"stopped"}, s)
    BY DEF Behind, AfterStop, AfterAwait
  <2>2. ASSUME NEW s \in Component \cup {Web} PROVE engine[s] # "on"
    <3>1. CASE s \in Background \cup Servers
      BY <2>1, <3>1 DEF BackgroundStopped, ServersStopped
    <3>2. CASE s \notin Background \cup Servers
      <4>1. s \in Component /\ KindOf[s] \in Quiet
        BY <3>2, KindOfType
        DEF Background, Schedulers, Consumers, Servers, OfKind, Kinds, Quiet
      <4> QED
        BY <4>1 DEF Engines
    <3> QED
      BY <3>1, <3>2
  <2>3. ASSUME NEW w \in Worker, Busy(w) PROVE SourceOf[w] \in overrun
    <3>1. SourceOf[w] \in Schedulers \cup Consumers \cup Servers
      BY KindsDiffer DEF Background
    <3>2. SourceOf[w] \notin Schedulers /\ SourceOf[w] \notin Servers
      BY <2>1, <2>3 DEF BackgroundDrained, ServersStopped, WorkersOf
    <3>3. engine[SourceOf[w]] # "off" /\ at[w] # "exited"
      BY <2>3 DEF Busy, Engines
    <3> QED
      BY <2>1, <3>1, <3>2, <3>3 DEF BackgroundDrained
  <2> QED
    BY <2>2, <2>3 DEF NothingRuns
<1> QED
    BY <1>1, LifeInvariant, PTL

=============================================================================
