----------------------------- MODULE Bootstrap -----------------------------
(***************************************************************************)
(* From main to the first startup task (app/module): the application loads *)
(* app.properties, dropping the error as docs/overview.md does, configures *)
(* its components in Initialize, and App.Start validates the properties    *)
(* and checks the startup probe before anything is started.                *)
(*                                                                         *)
(* An application is a program: the sequence of calls its Initialize makes. *)
(* A panic ends the process.  A client's other settings are only handed to *)
(* its driver and are left out; what is kept is which keys are read, which *)
(* values stop the start, and which hosts are probed.                      *)
(***************************************************************************)
EXTENDS PropertyRuntime, StartupProbe, JobTable

CONSTANTS
    Scenarios,      \* environments, files, programs and networks to start with
    Hosts           \* the pieces of text that are a host

\* What Initialize may call: kind and prefix are the component and its prefix, or
\* the spec of a job and its name.
Calls ==
    [op : {"load"}, prefix : STRING,
     kind : {"redis", "db", "postgres", "mongo", "kafka", "rabbitmq", "grpc"}]
    \cup [op : {"client"}, prefix : STRING,
          kind : {"redis", "db", "postgres", "mongo", "rabbitmq"}]
    \cup [op : {"subscribe"}, kind : {"kafka", "rabbitmq"}, prefix : STRING]
    \cup [op : {"register"}, kind : {"grpcClient"}, prefix : STRING]
    \cup [op : {"server"}, kind : {"grpc"}, prefix : STRING]
    \cup [op : {"option"}, kind : {"grpc", "grpcClient"}, prefix : STRING]
    \cup [op : {"url", "job", "remove", "location", "strict"}, kind : STRING, prefix : STRING]

ASSUME ScenariosAssumption ==
    \A s \in Scenarios :
        /\ s.program \in Seq(Calls)
        /\ \A e \in DOMAIN s.envFS : s.envFS[e] # NoFile => s.envFS[e] \in Seq(LineRecords)

VARIABLES
    phase,          \* where main is
    program, step,  \* the calls of Initialize, and the next one
    opts,           \* opts[kind]: options given to the gRPC server, to its clients
    built           \* built[x]: the options the server or a client pool was built with

appVars == <<phase, program, step, opts, built>>
vars == <<inputVars, scanVars, storeVars, hostURIs, urls, reachable, probeVars, appVars, jobVars>>

call == program[step]

Init ==
    /\ \E s \in Scenarios :
          envFS = s.envFS /\ env = s.env /\ program = s.program /\ reachable = s.reachable
    /\ file = << >> /\ pos = 1 /\ key = EmptyKey /\ value = << >> /\ isMultiLine = FALSE
    /\ values = << >> /\ usedKeys = {}
    /\ hostURIs = << >> /\ urls = << >>
    /\ probes = << >> /\ errCh = 0 /\ errChOpen = FALSE /\ deadline = FALSE
    /\ phase = "open" /\ step = 1
    /\ opts = [k \in {"grpc", "grpcClient"} |-> 0] /\ built = << >>
    /\ InitJobs

----------------------------------------------------------------------------
(* LoadProperties.                                                          *)

OpenFile ==
    /\ phase = "open"
    /\ IF opened = NoFile
       THEN phase' = "initialize" /\ UNCHANGED file
       ELSE phase' = "load" /\ file' = opened
    /\ UNCHANGED <<inputVars, pos, key, value, isMultiLine, storeVars, hostURIs, urls,
                   reachable, probeVars, program, step, opts, built, jobVars>>

ScanLine ==
    /\ phase = "load" /\ ~scanned
    /\ scanLine(file[pos])
    /\ pos' = pos + 1
    /\ UNCHANGED <<inputVars, file, usedKeys, hostURIs, urls, reachable, probeVars, appVars, jobVars>>

EndOfFile ==
    /\ phase = "load" /\ scanned
    /\ addProperty(key, value)
    /\ phase' = "initialize"
    /\ UNCHANGED <<inputVars, file, pos, isMultiLine, usedKeys, hostURIs, urls, reachable,
                   probeVars, program, step, opts, built, jobVars>>

----------------------------------------------------------------------------
(* The properties each component reads, and the hosts its endpoint adds to  *)
(* the probe.  hostname cuts a host list at its first ':', so that only the *)
(* first host of a list is resolved.                                        *)

firstHost(text) == IF text = << >> THEN << >> ELSE <<Head(text)>>

\* url.Parse finds a host in a URL, and none in a DSN of another form.
urlHost(text) == IF text # << >> /\ Head(text) \in Hosts THEN <<Head(text)>> ELSE << >>

SetAddr(text) == firstHost(text)
SetDSN(text) == urlHost(text)
SetURI(text) == urlHost(text)
SetURL(text) == urlHost(text)

\* Every broker of the list; text that is no host is part of the entry before it.
SetBrokers(text) ==
    LET begins == {i \in 1 .. Len(text) : i = 1 \/ text[i] \in Hosts}
        nth(n) == CHOOSE i \in begins : Cardinality({j \in begins : j <= i}) = n
    IN  [n \in 1 .. Cardinality(begins) |-> text[nth(n)]]

\* An address to listen on, unless it is a wildcard.
grpcProbeHostURI(text) == urlHost(text)

grpcClientProbeHostURI(text) == firstHost(text)

at(prefix, suffixes) == {<<prefix, s>> : s \in suffixes}

redisReads(p) ==
    [required |-> <<p, "addr">>, hosts |-> SetAddr(Get(<<p, "addr">>)),
     optional |-> at(p, {"password"}), parsed |-> at(p, {"db"})]

dbReads(p) ==
    [required |-> <<p, "dsn">>, hosts |-> SetDSN(Get(<<p, "dsn">>)),
     optional |-> {},
     parsed |-> at(p, {"pool.maxIdleConns", "pool.maxOpenConns", "connMaxIdleTime"})]

postgresReads(p) ==
    [required |-> <<p, "dsn">>, hosts |-> SetDSN(Get(<<p, "dsn">>)),
     optional |-> {},
     parsed |-> at(p, {"pool.maxIdleConns", "pool.maxOpenConns", "connMaxIdleTime",
                       "connMaxLifetime"})]

\* An unknown read preference is ignored.
mongoReads(p) ==
    [required |-> <<p, "uri">>, hosts |-> SetURI(Get(<<p, "uri">>)),
     optional |-> at(p, {"read.preference"}),
     parsed |-> at(p, {"timeout", "pool.min", "pool.max", "max.connecting"})]

\* Without a pool size LoadFromPrefix returns before it reads the capacity.
kafkaReads(p) ==
    [required |-> <<p, "brokers">>, hosts |-> SetBrokers(Get(<<p, "brokers">>)),
     optional |-> at(p, {"group.id"}),
     parsed |-> at(p, IF Get(<<p, "pool.size">>) = << >> THEN {"pool.size"}
                      ELSE {"pool.size", "queue.capacity"})]

rabbitmqReads(p) ==
    [required |-> <<p, "url">>, hosts |-> SetURL(Get(<<p, "url">>)),
     optional |-> at(p, {"exchange", "queue", "routing.key", "consumer.tag"}),
     parsed |-> at(p, {"prefetch", "auto.ack", "requeue"})]

grpcReads(p) ==
    [required |-> <<p, "listen">>, hosts |-> grpcProbeHostURI(Get(<<p, "listen">>)),
     optional |-> {}, parsed |-> {}]

\* RegisterByProperty: the address of service p.
grpcClientReads(p) ==
    [required |-> <<p, "address">>,
     hosts |-> grpcClientProbeHostURI(Get(<<p, "address">>)),
     optional |-> {}, parsed |-> {}]

reads(kind, p) ==
    CASE kind = "redis" -> redisReads(p)
      [] kind = "db" -> dbReads(p)
      [] kind = "postgres" -> postgresReads(p)
      [] kind = "mongo" -> mongoReads(p)
      [] kind = "kafka" -> kafkaReads(p)
      [] kind = "rabbitmq" -> rabbitmqReads(p)
      [] kind = "grpc" -> grpcReads(p)
      [] kind = "grpcClient" -> grpcClientReads(p)

keysOf(r) == {r.required} \cup r.optional \cup r.parsed

\* A number, a boolean or a duration.
wellFormed(text) == text = <<"ok">>

\* The driver can make something of the endpoint.
acceptable(text) == text # <<"malformed">>

----------------------------------------------------------------------------
(* Initialize.                                                              *)

Calling(op) == phase = "initialize" /\ step <= Len(program) /\ call.op = op

Returns == step' = step + 1 /\ UNCHANGED <<phase, program>>
Panics  == phase' = "panicked" /\ UNCHANGED <<program, step>>

\* LoadFromPrefix of a component: an empty prefix, RequiredProperty and the parsers
\* panic.
LoadFromPrefix ==
    /\ Calling("load")
    /\ LET r == reads(call.kind, call.prefix)
       IN  \/ call.prefix = "" /\ Panics /\ UNCHANGED <<usedKeys, hostURIs>>
           \/ /\ call.prefix # "" /\ Get(r.required) = << >>
              /\ Property({r.required}) /\ Panics /\ UNCHANGED hostURIs
           \/ /\ call.prefix # "" /\ Get(r.required) # << >>
              /\ Property(keysOf(r))
              /\ hostURIs' = hostURIs \o r.hosts
              /\ IF \A k \in r.parsed : Get(k) = << >> \/ wellFormed(Get(k))
                 THEN Returns ELSE Panics
    /\ UNCHANGED <<inputVars, scanVars, values, urls, reachable, probeVars, opts, built, jobVars>>

\* GrpcClientComponent.RegisterByProperty builds the pool of service call.prefix;
\* its host is probed even if the dial then fails.
Register ==
    /\ Calling("register")
    /\ LET pool == <<"grpcClient", call.prefix>>
           k    == <<call.prefix, "address">>
       IN  /\ Property({k})
           /\ IF Get(k) = << >> \/ call.prefix = "" \/ pool \in DOMAIN built
              THEN Panics /\ UNCHANGED <<hostURIs, built>>
              ELSE /\ hostURIs' = hostURIs \o reads("grpcClient", call.prefix).hosts
                   /\ IF acceptable(Get(k))
                      THEN /\ built' = [x \in DOMAIN built \cup {pool} |->
                                           IF x = pool THEN opts["grpcClient"] ELSE built[x]]
                           /\ Returns
                      ELSE Panics /\ UNCHANGED built
    /\ UNCHANGED <<inputVars, scanVars, values, urls, reachable, probeVars, opts, jobVars>>

\* GrpcComponent.Server: ensureServer.
Server ==
    /\ Calling("server")
    /\ LET server == <<"grpc", call.prefix>>
       IN  IF <<call.prefix, "listen">> \notin usedKeys
           THEN Panics /\ UNCHANGED built
           ELSE /\ built' = IF server \in DOMAIN built THEN built
                            ELSE [x \in DOMAIN built \cup {server} |->
                                    IF x = server THEN opts["grpc"] ELSE built[x]]
                /\ Returns
    /\ UNCHANGED <<inputVars, scanVars, storeVars, hostURIs, urls, reachable, probeVars, opts, jobVars>>

\* The server, or the first pool, exists.
alreadyConfigured(kind) == \E x \in DOMAIN built : x[1] = kind

\* AddOpt, and SetPoolSize and MaxConnections alike: too late once something is
\* built.
AddOpt ==
    /\ Calling("option")
    /\ IF alreadyConfigured(call.kind)
       THEN Panics /\ UNCHANGED opts
       ELSE opts' = [opts EXCEPT ![call.kind] = @ + 1] /\ Returns
    /\ UNCHANGED <<inputVars, scanVars, storeVars, hostURIs, urls, reachable, probeVars, built, jobVars>>

AddURL ==
    /\ Calling("url")
    /\ urls' = Append(urls, call.prefix)
    /\ Returns
    /\ UNCHANGED <<inputVars, scanVars, storeVars, hostURIs, reachable, probeVars, opts, built, jobVars>>

\* internal/db.New: gorm dials and pings the server.
newDB(text) == Head(text) \in reachable

\* internal/mongo Client.Initialize: Connect and a Ping.
initializeMongo(text) == Head(text) \in reachable

\* Whether a client can be created; those of Redis, Postgres and RabbitMQ do not
\* connect until they are used, but Postgres parses its DSN.
ensureClient(kind, text) ==
    CASE kind = "db" -> newDB(text)
      [] kind = "mongo" -> initializeMongo(text)
      [] kind = "postgres" -> acceptable(text)
      [] OTHER -> TRUE

\* Client: panics without an endpoint, and when the server does not answer.
UseClient ==
    /\ Calling("client")
    /\ LET k == reads(call.kind, call.prefix).required
       IN  IF k \in usedKeys /\ ensureClient(call.kind, Get(k)) THEN Returns ELSE Panics
    /\ UNCHANGED <<inputVars, scanVars, storeVars, hostURIs, urls, reachable, probeVars,
                   opts, built, jobVars>>

\* The property that names the consumer group, or the queue.
subscribesTo(kind, p) == <<p, IF kind = "kafka" THEN "group.id" ELSE "queue">>

\* Subscribe with a handler: panics without an endpoint, a group or a queue, and
\* when librdkafka creates no consumer.
Subscribe ==
    /\ Calling("subscribe")
    /\ LET k == reads(call.kind, call.prefix).required
       IN  IF /\ k \in usedKeys
              /\ Get(subscribesTo(call.kind, call.prefix)) # << >>
              /\ call.kind = "kafka" => acceptable(Get(k))
           THEN Returns ELSE Panics
    /\ UNCHANGED <<inputVars, scanVars, storeVars, hostURIs, urls, reachable, probeVars,
                   opts, built, jobVars>>

\* The scheduler: a job, kind its spec and prefix its name, and the settings.
Schedule ==
    /\ \/ /\ Calling("job") /\ addPanics(call.kind, call.prefix)
          /\ Panics /\ UNCHANGED jobVars
       \/ /\ Calling("job") /\ ~addPanics(call.kind, call.prefix)
          /\ AddFuncWithName(call.kind, call.prefix) /\ Returns
       \/ Calling("remove") /\ RemoveJob(call.prefix) /\ Returns
       \/ Calling("location") /\ SetLocation /\ Returns
       \/ Calling("strict") /\ SetPanicOnAnyAddError /\ Returns
    /\ UNCHANGED <<inputVars, scanVars, storeVars, hostURIs, urls, reachable, probeVars,
                   opts, built>>

----------------------------------------------------------------------------
(* App.Start.                                                               *)

Validate ==
    /\ phase = "initialize" /\ step > Len(program)
    /\ IF ValidateUnused # {}
       THEN phase' = "panicked" /\ UNCHANGED probeVars
       ELSE phase' = "check" /\ Check
    /\ UNCHANGED <<inputVars, scanVars, storeVars, hostURIs, urls, reachable,
                   program, step, opts, built, jobVars>>

Probing ==
    /\ phase = "check" /\ errChOpen
    /\ \/ \E i \in DOMAIN probes : probeSucceeds(i) \/ probeFails(i) \/ sendErr(i)
       \/ deadlinePasses \/ closeErrCh
    /\ UNCHANGED <<inputVars, scanVars, storeVars, hostURIs, urls, reachable, appVars, jobVars>>

\* The first error of the closed channel, if any, is the answer.
CheckReturns ==
    /\ phase = "check" /\ ~errChOpen
    /\ phase' = IF errCh > 0 THEN "panicked" ELSE "started"
    /\ UNCHANGED <<inputVars, scanVars, storeVars, hostURIs, urls, reachable, probeVars,
                   program, step, opts, built, jobVars>>

Next ==
    \/ OpenFile \/ ScanLine \/ EndOfFile
    \/ LoadFromPrefix \/ Register \/ Server \/ AddOpt \/ AddURL
    \/ UseClient \/ Subscribe \/ Schedule
    \/ Validate \/ Probing \/ CheckReturns

Spec == Init /\ [][Next]_vars

\* The goroutines of the probe and the timer run.
FairSpec == Spec /\ WF_vars(Next)

----------------------------------------------------------------------------
(* Properties.                                                              *)

loads == {i \in 1 .. Len(program) : program[i].op \in {"load", "register"}}
readsOf(i) == reads(program[i].kind, program[i].prefix)

\* The calls that use a client, and whether they can: a server that is dialled is
\* there, an endpoint that is parsed can be, and a subscription has its source.
clients == {i \in 1 .. Len(program) : program[i].op \in {"client", "subscribe"}}

answers(i) ==
    LET c == program[i]
    IN  /\ c.kind \in {"db", "mongo"} => Head(Get(readsOf(i).required)) \in reachable
        /\ c.kind \in {"postgres", "kafka"} => acceptable(Get(readsOf(i).required))
        /\ c.op = "subscribe" => Get(subscribesTo(c.kind, c.prefix)) # << >>

\* The engine of the i-th call was created after a location had been set.
locatedAt(i) ==
    \E j \in 1 .. i - 1 :
        /\ program[j].op = "location"
        /\ \A n \in 1 .. j - 1 : program[n].op \notin {"job", "remove", "strict"}

\* The i-th call adds a job its engine can schedule.
schedulable(i) ==
    /\ program[i].op = "job"
    /\ program[i].kind = "minutes" \/ (program[i].kind = "seconds" /\ ~locatedAt(i))

\* PropertyStore.Load stores what the file says: continuation lines, comments,
\* repeated keys and a last line that ends with a backslash included.
LoadedAsWritten ==
    phase \notin {"open", "load"} => values = written(readable(file))

PropertiesRead == \A k \in DOMAIN values : \E i \in loads : k \in keysOf(readsOf(i))

EndpointsProbed ==
    \A i \in loads : /\ Get(readsOf(i).required) # << >>
                     /\ \A n \in 1 .. Len(readsOf(i).hosts) : readsOf(i).hosts[n] \in reachable

URLsProbed == \A i \in 1 .. Len(urls) : urls[i] \in reachable

ClientsAnswer == \A i \in clients : answers(i)

OptionsApplied == \A x \in DOMAIN built : built[x] = opts[x[1]]

\* The job of the i-th call is removed by a later one, up to the last.
removed(i, last) ==
    \E j \in i + 1 .. last : program[j].op = "remove" /\ program[j].prefix = program[i].prefix

JobsScheduled ==
    \A i \in 1 .. Len(program) :
        schedulable(i) => Runs(program[i].prefix) \/ removed(i, Len(program))

\* The application starts only when nothing of its configuration is amiss: every
\* property is one that a component reads, the endpoints are there, the hosts the
\* components have asked to be probed resolve, every gRPC client pool and server
\* was built with all the options, a database whose client Initialize has used
\* answers even if it is not probed, every subscription has its group or queue, and
\* every job that was added and not removed
\* is scheduled, except specs with seconds once a location is set.
StartedIsReady ==
    phase = "started" =>
        /\ PropertiesRead /\ EndpointsProbed /\ URLsProbed
        /\ ClientsAnswer /\ OptionsApplied /\ JobsScheduled

\* A prefix or an endpoint is missing, or a setting does not parse.
BadSetting ==
    \E i \in loads :
        \/ program[i].prefix = ""
        \/ Get(readsOf(i).required) = << >>
        \/ program[i].op = "register" /\ ~acceptable(Get(readsOf(i).required))
        \/ \E k \in readsOf(i).parsed : Get(k) # << >> /\ ~wellFormed(Get(k))

\* No call before the i-th has read the endpoint it needs.
tooEarly(i) == ~\E j \in loads : j < i /\ readsOf(j) = readsOf(i)

ClientUseless == \E i \in clients : ~answers(i) \/ tooEarly(i)

ServerTooEarly == \E i \in 1 .. Len(program) : program[i].op = "server" /\ tooEarly(i)

knownKeys(i) ==
    keysOf(readsOf(i)) \cup
    (IF program[i].kind = "kafka" THEN at(program[i].prefix, {"queue.capacity"}) ELSE {})

UnknownProperty == \E k \in DOMAIN values : \A i \in loads : k \notin knownKeys(i)

CapacityAlone ==
    \E i \in loads : /\ program[i].kind = "kafka"
                     /\ Get(<<program[i].prefix, "pool.size">>) = << >>
                     /\ <<program[i].prefix, "queue.capacity">> \in DOMAIN values

\* A client registered twice, or an option after what it is for was built.
BuiltBefore ==
    \E i, j \in 1 .. Len(program) :
        /\ i < j /\ program[i].kind = program[j].kind
        /\ \/ program[i].op = "register" /\ program[j] = program[i]
           \/ program[i].op \in {"register", "server"} /\ program[j].op = "option"

\* A job under a name that was used, or with a bad spec where that is fatal.
JobRefused ==
    \E i, j \in 1 .. Len(program) :
        /\ i < j /\ program[j].op = "job"
        /\ \/ schedulable(i) /\ program[i].prefix = program[j].prefix
           \/ program[i].op = "strict" /\ ~schedulable(j)

ProbeFailed == deadline \/ \E i \in 1 .. Len(targets) : targets[i] \notin reachable

\* A start that fails has its reason in the input: no false alarm.  The two
\* exceptions are a Kafka queue capacity without a pool size, which is reported
\* as an unused property, and a job added again after it has been removed.
PanicHasCause ==
    phase = "panicked" =>
        \/ BadSetting \/ ClientUseless \/ ServerTooEarly
        \/ UnknownProperty \/ CapacityAlone
        \/ BuiltBefore \/ JobRefused \/ ProbeFailed

\* Every start is decided: Check returns, whatever the network does.
BootEnds == <>(phase \in {"started", "panicked"})
=============================================================================
