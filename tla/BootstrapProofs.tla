-------------------------- MODULE BootstrapProofs --------------------------
(***************************************************************************)
(* What a start promises, for any application, property file and network.  *)
(***************************************************************************)
EXTENDS Bootstrap, FiniteSetTheorems, WellFoundedInduction, TLAPS

\* Lists whose elements do not matter.
IsSeq(s) == \E S : s \in Seq(S)

\* What a text is made of: the '=' of a continuation line may be inside a value.
Pieces == STRING \cup {"="}

Phases == {"open", "load", "initialize", "check", "started", "panicked"}

\* Files, values and programs are what they are read as.
Types ==
    /\ phase \in Phases
    /\ \A e \in DOMAIN envFS : envFS[e] # NoFile => envFS[e] \in Seq(LineRecords)
    /\ file \in Seq(LineRecords) /\ pos \in Nat \ {0} /\ value \in Seq(Pieces)
    /\ \A k \in DOMAIN values : values[k] \in Seq(Pieces)
    /\ program \in Seq(Calls) /\ step \in 1 .. Len(program) + 1
    /\ IsSeq(hostURIs) /\ IsSeq(urls)
    /\ opts \in [{"grpc", "grpcClient"} -> Nat]

\* No component is configured before the properties are loaded, and every call
\* of Initialize has returned when App.Start validates them.
InOrder ==
    /\ phase \in {"open", "load"} => step = 1 /\ usedKeys = {}
    /\ phase \in {"check", "started"} => step = Len(program) + 1 /\ Keys \subseteq usedKeys

\* The host is one of those to be probed.
Collected(h) == \E n \in 1 .. Len(hostURIs) : hostURIs[n] = h

\* A LoadFromPrefix or Register that returned has found its endpoint, has noted
\* all its keys, and its hosts are probed.
LoadsReturned ==
    \A i \in loads :
        i < step =>
            /\ Get(readsOf(i).required) # << >>
            /\ keysOf(readsOf(i)) \subseteq usedKeys
            /\ \A n \in 1 .. Len(readsOf(i).hosts) : Collected(readsOf(i).hosts[n])

\* A Client call that returned has a server that answers, if it dials one.
ClientsReturned == \A i \in clients : i < step => answers(i)

\* Only components note keys.
KeysUsed == \A k \in usedKeys : \E i \in loads : k \in keysOf(readsOf(i))

\* What is built has all the options, and a call built it.
BuiltByCall ==
    \A x \in DOMAIN built :
        /\ x \in {"grpc", "grpcClient"} \X STRING
        /\ built[x] = opts[x[1]]
        /\ \E i \in 1 .. step - 1 :
              /\ program[i].op \in {"register", "server"}
              /\ program[i].kind = x[1] /\ program[i].prefix = x[2]

\* The parser is that of the engine, which the first call that needs it made.
EngineMade ==
    /\ parser \in {"none", "standard", "secondOptional"}
    /\ parser = "none" <=>
          \A n \in 1 .. step - 1 : program[n].op \notin {"job", "remove", "strict"}
    /\ ensureEngine = "standard" <=> locatedAt(step)

StrictCalled == panicOnAnyAddError => \E i \in 1 .. step - 1 : program[i].op = "strict"

\* The names of the table are those of schedulable jobs, with ids of their own.
JobsNamed ==
    /\ lastID \in Nat
    /\ \A a \in DOMAIN jobInfo :
          /\ jobInfo[a] \in 1 .. lastID
          /\ \E i \in 1 .. step - 1 : schedulable(i) /\ program[i].prefix = a
          /\ \A b \in DOMAIN jobInfo : jobInfo[a] = jobInfo[b] => a = b

\* A schedulable job that was added runs, or was removed.
JobsKept ==
    \A i \in 1 .. step - 1 :
        schedulable(i) => Runs(program[i].prefix) \/ removed(i, step - 1)

\* While Check runs, the channel has the errors of the probes that failed.
Probed ==
    phase = "check" =>
        /\ probes \in [1 .. Len(targets) -> {"running", "send", "done"}]
        /\ errCh \in Nat
        /\ errCh = 0 => \A i \in 1 .. Len(targets) : probes[i] = "done" => targets[i] \in reachable
        /\ errCh > 0 \/ (\E i \in 1 .. Len(targets) : probes[i] = "send") => ProbeFailed
        /\ ~errChOpen => waited

\* A start that ends well has found every target.
AllReached == phase = "started" => \A i \in 1 .. Len(targets) : targets[i] \in reachable

\* The inductive invariant.
BootInv ==
    /\ Types /\ InOrder
    /\ LoadsReturned /\ ClientsReturned /\ KeysUsed /\ BuiltByCall
    /\ EngineMade /\ StrictCalled /\ JobsNamed /\ JobsKept
    /\ Probed /\ AllReached /\ PanicHasCause

----------------------------------------------------------------------------
(* Operators.                                                               *)

ComponentKinds ==
    {"redis", "db", "postgres", "mongo", "kafka", "rabbitmq", "grpc", "grpcClient"}

\* Sequences, whatever their elements.
LEMMA SeqIsSeq == ASSUME NEW S, NEW s \in Seq(S) PROVE IsSeq(s)
BY DEF IsSeq

\* Short lists.
LEMMA ShortSeq ==
    ASSUME NEW S, NEW a \in S, NEW b \in S
    PROVE  <<a, b>> \in Seq(S) /\ <<a>> \in Seq(S)
OBVIOUS

\* A list of some things is one of more things.
LEMMA WiderSeq == ASSUME NEW S, NEW T, S \subseteq T, NEW s \in Seq(S) PROVE s \in Seq(T)
OBVIOUS

\* Appending one list to another.
LEMMA CatSeq ==
    ASSUME NEW s, NEW t, IsSeq(s), IsSeq(t)
    PROVE  /\ IsSeq(s \o t)
           /\ Len(s) \in Nat /\ Len(t) \in Nat /\ Len(s \o t) = Len(s) + Len(t)
           /\ \A i \in 1 .. Len(s) : (s \o t)[i] = s[i]
           /\ \A i \in 1 .. Len(t) : (s \o t)[Len(s) + i] = t[i]
<1>a. PICK A : s \in Seq(A)
    BY DEF IsSeq
<1>b. PICK B : t \in Seq(B)
    BY DEF IsSeq
<1> DEFINE S == A \cup B
<1>1. s \in Seq(S) /\ t \in Seq(S)
    BY <1>a, <1>b
<1> HIDE DEF S
<1>2. s \o t \in Seq(S)
    BY <1>1
<1>3. IsSeq(s \o t)
    BY <1>2, SeqIsSeq
<1>4. Len(s) \in Nat /\ Len(t) \in Nat /\ Len(s \o t) = Len(s) + Len(t)
    BY <1>1
<1>5. \A i \in 1 .. Len(s) : (s \o t)[i] = s[i]
    BY <1>1
<1>6. \A i \in 1 .. Len(t) : (s \o t)[Len(s) + i] = t[i]
    BY <1>1
<1> QED
    BY <1>3, <1>4, <1>5, <1>6

\* The hosts of an endpoint are a list.
LEMMA HostsAreSeq ==
    ASSUME NEW text \in Seq(Pieces)
    PROVE  IsSeq(firstHost(text)) /\ IsSeq(urlHost(text)) /\ IsSeq(SetBrokers(text))
<1>1. \A h : IsSeq(<<h>>)
  <2> TAKE h
  <2>1. <<h>> \in Seq({h})
    OBVIOUS
  <2> QED
    BY <2>1, SeqIsSeq
<1>2. IsSeq(<< >>)
  <2>1. << >> \in Seq(Pieces)
    OBVIOUS
  <2> QED
    BY <2>1, SeqIsSeq
<1>3. IsSeq(firstHost(text)) /\ IsSeq(urlHost(text))
    BY <1>1, <1>2 DEF firstHost, urlHost
<1>4. IsSeq(SetBrokers(text))
  <2> DEFINE begins == {i \in 1 .. Len(text) : i = 1 \/ text[i] \in Hosts}
             nth(n) == CHOOSE i \in begins : Cardinality({j \in begins : j <= i}) = n
             N == Cardinality(begins)
             S == {text[nth(n)] : n \in 1 .. N}
  <2>1. IsFiniteSet(1 .. Len(text)) /\ begins \subseteq 1 .. Len(text)
    BY FS_Interval
  <2>2. N \in Nat
    BY <2>1, FS_Subset, FS_CardinalityType
  <2>3. SetBrokers(text) = [n \in 1 .. N |-> text[nth(n)]]
    BY DEF SetBrokers
  <2> HIDE DEF begins, nth, N
  <2>4. [n \in 1 .. N |-> text[nth(n)]] \in Seq(S)
    BY <2>2
  <2> QED
    BY <2>3, <2>4, SeqIsSeq
<1> QED
    BY <1>3, <1>4

\* The table of LoadFromPrefix, by kind.
LEMMA ReadsIs ==
    ASSUME NEW p
    PROVE  /\ reads("redis", p) = redisReads(p) /\ reads("db", p) = dbReads(p)
           /\ reads("postgres", p) = postgresReads(p) /\ reads("mongo", p) = mongoReads(p)
           /\ reads("kafka", p) = kafkaReads(p) /\ reads("rabbitmq", p) = rabbitmqReads(p)
           /\ reads("grpc", p) = grpcReads(p) /\ reads("grpcClient", p) = grpcClientReads(p)
BY DEF reads

\* Every kind of component reads a list of hosts.
LEMMA ReadsHosts ==
    ASSUME \A k \in DOMAIN values : values[k] \in Seq(Pieces),
           NEW kind \in ComponentKinds, NEW p
    PROVE  IsSeq(reads(kind, p).hosts)
<1>1. \A k : Get(k) \in Seq(Pieces)
  <2>1. << >> \in Seq(Pieces)
    OBVIOUS
  <2> QED
    BY <2>1 DEF Get
<1>2. /\ \A k : IsSeq(firstHost(Get(k))) /\ IsSeq(urlHost(Get(k)))
      /\ \A k : IsSeq(SetBrokers(Get(k)))
    BY <1>1, HostsAreSeq
<1>3. /\ IsSeq(redisReads(p).hosts) /\ IsSeq(dbReads(p).hosts)
      /\ IsSeq(postgresReads(p).hosts) /\ IsSeq(mongoReads(p).hosts)
      /\ IsSeq(kafkaReads(p).hosts) /\ IsSeq(rabbitmqReads(p).hosts)
      /\ IsSeq(grpcReads(p).hosts) /\ IsSeq(grpcClientReads(p).hosts)
    BY <1>2
    DEF redisReads, dbReads, postgresReads, mongoReads, kafkaReads, rabbitmqReads, grpcReads,
        grpcClientReads, SetAddr, SetDSN, SetURI, SetURL, grpcProbeHostURI,
        grpcClientProbeHostURI
<1> QED
    BY <1>3, ReadsIs DEF ComponentKinds

\* What the two gRPC components read.
LEMMA GrpcReads ==
    ASSUME NEW p
    PROVE  /\ reads("grpc", p).required = <<p, "listen">>
           /\ reads("grpcClient", p).required = <<p, "address">>
           /\ keysOf(reads("grpcClient", p)) = {<<p, "address">>}
<1>1. /\ grpcReads(p).required = <<p, "listen">>
      /\ grpcClientReads(p).required = <<p, "address">>
      /\ grpcClientReads(p).optional = {} /\ grpcClientReads(p).parsed = {}
    BY DEF grpcReads, grpcClientReads
<1> QED
    BY <1>1, ReadsIs DEF keysOf

\* Kafka reads its queue capacity only when there is a pool size.
LEMMA KafkaReads ==
    ASSUME NEW p, <<p, "queue.capacity">> \notin keysOf(reads("kafka", p))
    PROVE  Get(<<p, "pool.size">>) = << >>
<1>1. Get(<<p, "pool.size">>) # << >> => <<p, "queue.capacity">> \in kafkaReads(p).parsed
    BY DEF kafkaReads, at
<1> QED
    BY <1>1, ReadsIs DEF keysOf

\* Once the file is loaded, what a component reads does not change.
LEMMA Steady ==
    ASSUME UNCHANGED <<values, program>>
    PROVE  /\ loads' = loads /\ clients' = clients
           /\ \A k : Get(k)' = Get(k)
           /\ \A i : readsOf(i)' = readsOf(i)
           /\ \A i : locatedAt(i)' = locatedAt(i) /\ schedulable(i)' = schedulable(i)
           /\ \A i, n : removed(i, n)' = removed(i, n)
<1>1. \A k : Get(k)' = Get(k)
    BY DEF Get
<1>2. \A kind, p : reads(kind, p)' = reads(kind, p)
    BY <1>1
    DEF reads, redisReads, dbReads, postgresReads, mongoReads, kafkaReads, rabbitmqReads,
        grpcReads, grpcClientReads
<1>3. \A i : readsOf(i)' = readsOf(i)
    BY <1>2 DEF readsOf
<1>4. loads' = loads /\ clients' = clients
    BY DEF loads, clients
<1>5. \A i : locatedAt(i)' = locatedAt(i)
    BY DEF locatedAt
<1>6. \A i : schedulable(i)' = schedulable(i)
    BY <1>5 DEF schedulable
<1>7. \A i, n : removed(i, n)' = removed(i, n)
    BY DEF removed
<1> QED
    BY <1>1, <1>3, <1>4, <1>5, <1>6, <1>7

\* Whether a call comes too early, and whether its server answers, are fixed.
LEMMA SteadyCauses ==
    ASSUME UNCHANGED <<values, program, reachable>>
    PROVE  /\ \A i : tooEarly(i)' = tooEarly(i)
           /\ \A i : answers(i)' = answers(i)
<1>1. /\ loads' = loads /\ \A k : Get(k)' = Get(k)
      /\ \A i : readsOf(i)' = readsOf(i)
    BY Steady
<1>2. \A i : tooEarly(i)' = tooEarly(i)
    BY <1>1 DEF tooEarly
<1>3. \A i : Get(readsOf(i).required)' = Get(readsOf(i).required)
    BY <1>1
<1>4. \A i : answers(i)' = answers(i)
    BY <1>1, <1>3 DEF answers, acceptable, subscribesTo
<1> QED
    BY <1>2, <1>4

----------------------------------------------------------------------------
(* The calls of Initialize.                                                 *)

\* What the arguments of a call are.
LEMMA CallIs ==
    ASSUME NEW c \in Calls
    PROVE  /\ c.prefix \in STRING
           /\ c.op \in {"load", "register", "client", "subscribe"} => c.kind \in ComponentKinds
           /\ c.op = "register" => c.kind = "grpcClient"
           /\ c.op = "client" => c.kind # "kafka"
           /\ c.op = "subscribe" => c.kind \in {"kafka", "rabbitmq"}
           /\ c.op = "server" => c.kind = "grpc"
           /\ c.op = "option" => c.kind \in {"grpc", "grpcClient"}
BY DEF Calls, ComponentKinds

\* Two calls of RegisterByProperty for one service are the same call.
LEMMA SameRegister ==
    ASSUME NEW c \in Calls, NEW d \in Calls, c.op = "register", d.op \in {"register", "server"},
           c.prefix = d.prefix, d.kind = "grpcClient"
    PROVE  d = c
<1>1. d.op = "register"
    BY CallIs
<1>2. /\ c \in [op : {"register"}, kind : {"grpcClient"}, prefix : STRING]
      /\ d \in [op : {"register"}, kind : {"grpcClient"}, prefix : STRING]
    BY <1>1 DEF Calls
<1> QED
    BY <1>1, <1>2

\* Before Initialize there is nothing to keep.
LEMMA LoadingInv ==
    ASSUME BootInv, phase \in {"open", "load"}, phase' \in {"open", "load", "initialize"},
           file' \in Seq(LineRecords), pos' \in Nat \ {0}, value' \in Seq(Pieces),
           \A k \in DOMAIN values' : values'[k] \in Seq(Pieces),
           UNCHANGED <<inputVars, usedKeys, hostURIs, urls, program, step, opts, built, jobVars>>
    PROVE  BootInv'
<1> USE DEF BootInv
<1>1. step = 1 /\ usedKeys = {}
    BY DEF InOrder
<1>2. Types'
    BY DEF Types, Phases, inputVars
<1>3. InOrder' /\ Probed' /\ AllReached' /\ PanicHasCause'
    BY <1>1 DEF InOrder, Probed, AllReached, PanicHasCause
<1>4. LoadsReturned' /\ ClientsReturned' /\ KeysUsed'
    BY <1>1 DEF LoadsReturned, ClientsReturned, KeysUsed, loads, clients
<1>5. BuiltByCall'
    BY <1>1 DEF BuiltByCall
<1>6. EngineMade' /\ StrictCalled' /\ JobsNamed' /\ JobsKept'
    BY <1>1
    DEF EngineMade, StrictCalled, JobsNamed, JobsKept, jobVars, locatedAt, ensureEngine, New
<1> QED
    BY <1>2, <1>3, <1>4, <1>5, <1>6

\* A whole line is text.
LEMMA WholeText ==
    ASSUME NEW line \in LineRecords
    PROVE  whole(line) \in Seq(Pieces) /\ line.text \in Seq(Pieces)
<1>1. line.text \in Seq(STRING) /\ line.key \in STRING \X STRING
    BY DEF LineRecords
<1>2. STRING \subseteq Pieces /\ "=" \in Pieces
    BY DEF Pieces
<1>3. line.text \in Seq(Pieces)
    BY <1>1, <1>2, WiderSeq
<1>4. line.key \in Seq(Pieces)
  <2>1. line.key = <<line.key[1], line.key[2]>> /\ line.key[1] \in STRING /\ line.key[2] \in STRING
    BY <1>1
  <2> QED
    BY <1>2, <2>1, ShortSeq
<1>5. <<"=">> \in Seq(Pieces)
    BY <1>2, ShortSeq
<1>6. line.key \o <<"=">> \o line.text \in Seq(Pieces)
  <2> DEFINE e == <<"=">>
  <2> HIDE DEF e
  <2>1. e \in Seq(Pieces)
    BY <1>5 DEF e
  <2>2. (line.key \o e) \o line.text \in Seq(Pieces)
    BY <1>3, <1>4, <2>1
  <2> QED
    BY <2>2 DEF e
<1> QED
    BY <1>3, <1>6 DEF whole

\* LoadProperties.
LEMMA LoadInv ==
    ASSUME BootInv, OpenFile \/ ScanLine \/ EndOfFile
    PROVE  BootInv'
<1> USE DEF BootInv
<1>0. << >> \in Seq(Pieces) /\ value \in Seq(Pieces)
    BY DEF Types
<1>1. ASSUME NEW k, NEW text \in Seq(Pieces), addProperty(k, text)
      PROVE  value' \in Seq(Pieces) /\ \A x \in DOMAIN values' : values'[x] \in Seq(Pieces)
    BY <1>0, <1>1 DEF addProperty, Set, Types
<1>2. CASE OpenFile
  <2>1. file' \in Seq(LineRecords)
    BY <1>2 DEF OpenFile, opened, LoadPropertiesByFS, Types
  <2> QED
    BY <1>2, <2>1, LoadingInv DEF OpenFile, Types, storeVars
<1>3. CASE ScanLine
  <2> DEFINE line == file[pos]
  <2>1. line \in LineRecords /\ pos' \in Nat \ {0}
    BY <1>3 DEF ScanLine, scanned, Types
  <2>2. /\ whole(line) \in Seq(Pieces) /\ line.text \in Seq(Pieces)
        /\ value \o whole(line) \in Seq(Pieces)
    BY <1>0, <2>1, WholeText
  <2>3. value' \in Seq(Pieces) /\ \A x \in DOMAIN values' : values'[x] \in Seq(Pieces)
    <3>1. scanLine(line)
      BY <1>3 DEF ScanLine
    <3> HIDE DEF line
    <3> QED
      BY <1>1, <2>2, <3>1 DEF scanLine, Types
  <2> QED
    BY <1>3, <2>1, <2>3, LoadingInv DEF ScanLine, Types, appVars
<1>4. CASE EndOfFile
    BY <1>0, <1>1, <1>4, LoadingInv DEF EndOfFile, Types
<1> QED
    BY <1>2, <1>3, <1>4

\* A call that returns: where the application is.
LEMMA ReturnsInOrder ==
    ASSUME Types, phase = "initialize", step <= Len(program), Returns,
           IsSeq(hostURIs'), IsSeq(urls'), opts' \in [{"grpc", "grpcClient"} -> Nat],
           UNCHANGED <<inputVars, scanVars, values>>
    PROVE  Types' /\ InOrder' /\ Probed' /\ AllReached' /\ PanicHasCause'
<1>1. step' \in 1 .. Len(program') + 1 /\ program' = program /\ phase' = "initialize"
    BY DEF Returns, Types
<1>2. Types'
    BY <1>1 DEF Types, inputVars, scanVars
<1> QED
    BY <1>1, <1>2 DEF InOrder, Probed, AllReached, PanicHasCause

\* A call that returns keeps what the calls before it have shown.
LEMMA ReturnsLoads ==
    ASSUME BootInv, step <= Len(program), Returns, usedKeys \subseteq usedKeys',
           UNCHANGED <<values, reachable>>,
           \A h : Collected(h) => Collected(h)',
           step \in loads =>
              /\ Get(readsOf(step).required) # << >>
              /\ keysOf(readsOf(step)) \subseteq usedKeys'
              /\ \A n \in 1 .. Len(readsOf(step).hosts) :
                    \E m \in 1 .. Len(hostURIs') : hostURIs'[m] = readsOf(step).hosts[n],
           step \in clients => answers(step)
    PROVE  LoadsReturned' /\ ClientsReturned'
<1>1. step' = step + 1 /\ program' = program /\ step \in Nat
    BY DEF Returns, BootInv, Types
<1>2. /\ loads' = loads /\ clients' = clients /\ \A k : Get(k)' = Get(k)
      /\ \A i : readsOf(i)' = readsOf(i)
    BY <1>1, Steady
<1>3. \A i \in loads \cup clients : i < step' => i < step \/ i = step
    BY <1>1 DEF loads, clients
<1>4. LoadsReturned'
  <2> SUFFICES ASSUME NEW i \in loads, i < step'
               PROVE  /\ Get(readsOf(i).required) # << >>
                      /\ keysOf(readsOf(i)) \subseteq usedKeys'
                      /\ \A n \in 1 .. Len(readsOf(i).hosts) : Collected(readsOf(i).hosts[n])'
    <3>1. \A i \in loads : Get(readsOf(i).required)' = Get(readsOf(i).required)
      BY <1>2
    <3> QED
      BY <1>2, <3>1 DEF LoadsReturned, Collected
  <2>1. CASE i < step
    <3>1. /\ Get(readsOf(i).required) # << >> /\ keysOf(readsOf(i)) \subseteq usedKeys
          /\ \A n \in 1 .. Len(readsOf(i).hosts) : Collected(readsOf(i).hosts[n])
      BY <2>1 DEF BootInv, LoadsReturned
    <3>2. ASSUME NEW n \in 1 .. Len(readsOf(i).hosts)
          PROVE  Collected(readsOf(i).hosts[n])'
      <4> DEFINE h == readsOf(i).hosts[n]
      <4>1. \E m \in 1 .. Len(hostURIs) : hostURIs[m] = h
        BY <3>1, <3>2 DEF Collected
      <4>2. h' = h
        BY <1>2
      <4> HIDE DEF h
      <4>3. \E m \in 1 .. Len(hostURIs') : hostURIs'[m] = h
        BY <4>1 DEF Collected
      <4> QED
        BY <4>2, <4>3 DEF Collected, h
    <3> QED
      BY <3>1, <3>2
  <2>2. CASE i = step
    <3>1. ASSUME NEW n \in 1 .. Len(readsOf(i).hosts)
          PROVE  Collected(readsOf(i).hosts[n])'
      BY <1>2, <2>2, <3>1 DEF Collected
    <3> QED
      BY <2>2, <3>1
  <2> QED
    BY <1>3, <2>1, <2>2
<1>5. ClientsReturned'
  <2>1. \A i \in clients : answers(i)' = answers(i)
    BY <1>1, SteadyCauses
  <2> QED
    BY <1>2, <1>3, <2>1 DEF BootInv, ClientsReturned
<1> QED
    BY <1>4, <1>5

\* Where a location counts.
LEMMA LocatedNext ==
    ASSUME Types, Returns
    PROVE  locatedAt(step)' <=>
              \/ locatedAt(step)
              \/ /\ program[step].op = "location"
                 /\ \A n \in 1 .. step - 1 : program[n].op \notin {"job", "remove", "strict"}
<1>1. /\ step' = step + 1 /\ program' = program /\ step \in Nat \ {0}
      /\ 1 .. step' - 1 = (1 .. step - 1) \cup {step}
    BY DEF Returns, Types
<1> QED
    BY <1>1 DEF locatedAt

\* A call that is not one of the scheduler leaves its jobs alone.
LEMMA ReturnsJobs ==
    ASSUME BootInv, step <= Len(program), Returns, UNCHANGED <<values, jobVars>>,
           program[step].op \notin {"job", "remove", "location", "strict"}
    PROVE  EngineMade' /\ StrictCalled' /\ JobsNamed' /\ JobsKept'
<1> USE DEF BootInv
<1>1. /\ step' = step + 1 /\ program' = program /\ step \in Nat \ {0}
      /\ 1 .. step' - 1 = (1 .. step - 1) \cup {step}
    BY DEF Returns, Types
<1>2. EngineMade'
  <2>1. locatedAt(step)' <=> locatedAt(step)
    BY LocatedNext
  <2> QED
    BY <1>1, <2>1 DEF EngineMade, ensureEngine, New, jobVars
<1>3. StrictCalled'
    BY <1>1 DEF StrictCalled, jobVars
<1>4. \A i : schedulable(i)' = schedulable(i)
    BY <1>1, Steady
<1>5. JobsNamed'
    BY <1>1, <1>4 DEF JobsNamed, jobVars
<1>6. ~schedulable(step)
    BY DEF schedulable
<1>7. JobsKept'
  <2>1. \A i \in 1 .. step - 1 : removed(i, step - 1) => removed(i, step - 1)'
    BY <1>1 DEF removed
  <2>2. \A i \in 1 .. step - 1 : Runs(program[i].prefix)' = Runs(program[i].prefix)
    BY <1>1 DEF Runs, jobVars
  <2> QED
    BY <1>1, <1>4, <1>6, <2>1, <2>2 DEF JobsKept
<1> QED
    BY <1>2, <1>3, <1>5, <1>7

\* A call that builds nothing and sets no option.
LEMMA ReturnsBuilt ==
    ASSUME BootInv, Returns \/ UNCHANGED <<program, step>>, UNCHANGED <<opts, built>>
    PROVE  BuiltByCall'
<1>1. program' = program /\ 1 .. step - 1 \subseteq 1 .. step' - 1
    BY DEF Returns, BootInv, Types
<1> QED
    BY <1>1 DEF BootInv, BuiltByCall

\* A call that panics for a reason keeps the rest as it is.
LEMMA PanicInv ==
    ASSUME BootInv, phase = "initialize", Panics, KeysUsed', PanicHasCause',
           IsSeq(hostURIs'), usedKeys \subseteq usedKeys', \A h : Collected(h) => Collected(h)',
           UNCHANGED <<inputVars, scanVars, values, urls, reachable, opts, built, jobVars>>
    PROVE  BootInv'
<1> USE DEF BootInv
<1>1. UNCHANGED <<program, step>> /\ phase' = "panicked"
    BY DEF Panics
<1>2. Types'
    BY <1>1 DEF Types, Phases, inputVars, scanVars
<1>3. InOrder' /\ Probed' /\ AllReached'
    BY <1>1 DEF InOrder, Probed, AllReached
<1>4. /\ loads' = loads /\ clients' = clients /\ \A k : Get(k)' = Get(k)
      /\ \A i : readsOf(i)' = readsOf(i)
      /\ \A i : locatedAt(i)' = locatedAt(i) /\ schedulable(i)' = schedulable(i)
      /\ \A i, n : removed(i, n)' = removed(i, n)
    BY <1>1, Steady
<1>5. LoadsReturned'
  <2>1. \A i \in loads : Get(readsOf(i).required)' = Get(readsOf(i).required)
    BY <1>4
  <2> QED
    BY <1>1, <1>4, <2>1 DEF LoadsReturned, Collected
<1>6. ClientsReturned'
  <2>1. \A i \in clients : answers(i)' = answers(i)
    BY <1>1, SteadyCauses
  <2> QED
    BY <1>1, <1>4, <2>1 DEF ClientsReturned
<1>7. BuiltByCall'
    BY <1>1, ReturnsBuilt
<1>8. EngineMade' /\ StrictCalled' /\ JobsNamed' /\ JobsKept'
    BY <1>1
    DEF EngineMade, StrictCalled, JobsNamed, JobsKept, jobVars, locatedAt, schedulable,
        removed, ensureEngine, New, Runs
<1> QED
    BY <1>2, <1>3, <1>5, <1>6, <1>7, <1>8

\* A call that returns and is not one of the scheduler.
LEMMA ReturnsInv ==
    ASSUME BootInv, phase = "initialize", step <= Len(program), Returns,
           IsSeq(hostURIs'), IsSeq(urls'), opts' \in [{"grpc", "grpcClient"} -> Nat],
           UNCHANGED <<inputVars, scanVars, values, reachable, jobVars>>,
           program[step].op \notin {"job", "remove", "location", "strict"},
           usedKeys \subseteq usedKeys', \A h : Collected(h) => Collected(h)',
           step \in loads =>
              /\ Get(readsOf(step).required) # << >>
              /\ keysOf(readsOf(step)) \subseteq usedKeys'
              /\ \A n \in 1 .. Len(readsOf(step).hosts) :
                    \E m \in 1 .. Len(hostURIs') : hostURIs'[m] = readsOf(step).hosts[n],
           step \in clients => answers(step),
           KeysUsed', BuiltByCall'
    PROVE  BootInv'
<1>1. Types' /\ InOrder' /\ Probed' /\ AllReached' /\ PanicHasCause'
    BY ReturnsInOrder DEF BootInv
<1>2. LoadsReturned' /\ ClientsReturned'
    BY ReturnsLoads
<1>3. EngineMade' /\ StrictCalled' /\ JobsNamed' /\ JobsKept'
    BY ReturnsJobs
<1> QED
    BY <1>1, <1>2, <1>3 DEF BootInv

\* The call that is made.
LEMMA Called ==
    ASSUME Types, step <= Len(program)
    PROVE  step \in 1 .. Len(program) /\ program[step] \in Calls
BY DEF Types

\* The keys a call notes are keys it reads.
LEMMA Noted ==
    ASSUME BootInv, UNCHANGED <<values, program>>, NEW i \in loads,
           NEW ks, ks \subseteq keysOf(readsOf(i)), usedKeys' = usedKeys \cup ks
    PROVE  KeysUsed'
<1>1. loads' = loads /\ \A j : readsOf(j)' = readsOf(j)
    BY Steady
<1> QED
    BY <1>1 DEF BootInv, KeysUsed, keysOf

\* A call that notes no key.
LEMMA NothingNoted ==
    ASSUME BootInv, UNCHANGED <<values, program, usedKeys>>
    PROVE  KeysUsed'
<1>1. loads' = loads /\ \A j : readsOf(j)' = readsOf(j)
    BY Steady
<1> QED
    BY <1>1 DEF BootInv, KeysUsed, keysOf

\* A call that adds hosts to the probe.
LEMMA CollectMore ==
    ASSUME NEW hs, IsSeq(hostURIs), IsSeq(hs), hostURIs' = hostURIs \o hs
    PROVE  /\ IsSeq(hostURIs')
           /\ \A h : Collected(h) => Collected(h)'
           /\ \A n \in 1 .. Len(hs) : \E m \in 1 .. Len(hostURIs') : hostURIs'[m] = hs[n]
<1> DEFINE s == hostURIs
           t == hostURIs'
<1>1. /\ IsSeq(t) /\ Len(s) \in Nat /\ Len(hs) \in Nat /\ Len(t) = Len(s) + Len(hs)
      /\ \A i \in 1 .. Len(s) : t[i] = s[i]
      /\ \A i \in 1 .. Len(hs) : t[Len(s) + i] = hs[i]
    BY CatSeq
<1>2. 1 .. Len(s) \subseteq 1 .. Len(t)
    BY <1>1
<1>3. \A i \in 1 .. Len(hs) : Len(s) + i \in 1 .. Len(t)
    BY <1>1
<1>4. \A h : Collected(h) => Collected(h)'
    BY <1>1, <1>2 DEF Collected
<1> QED
    BY <1>1, <1>3, <1>4

\* A setting that stops the start.
LEMMA BadNow ==
    ASSUME UNCHANGED <<values, program>>, NEW i \in loads,
           \/ program[i].prefix = ""
           \/ Get(readsOf(i).required) = << >>
           \/ program[i].op = "register" /\ ~acceptable(Get(readsOf(i).required))
           \/ \E k \in readsOf(i).parsed : Get(k) # << >> /\ ~wellFormed(Get(k))
    PROVE  BadSetting'
<1>1. /\ loads' = loads /\ \A k : Get(k)' = Get(k)
      /\ \A j : readsOf(j)' = readsOf(j)
    BY Steady
<1>2. Get(readsOf(i).required)' = Get(readsOf(i).required)
    BY <1>1
<1>3. \A k : Get(k)' # << >> /\ ~wellFormed(Get(k))' <=> Get(k) # << >> /\ ~wellFormed(Get(k))
    BY <1>1 DEF wellFormed
<1>4. acceptable(Get(readsOf(i).required))' <=> acceptable(Get(readsOf(i).required))
    BY <1>2 DEF acceptable
<1> QED
    BY <1>1, <1>2, <1>3, <1>4 DEF BadSetting

\* A call that only reads, and one that sets an option or adds a URL.
LEMMA PlainReturns ==
    ASSUME BootInv, phase = "initialize", step <= Len(program), Returns,
           program[step].op \in {"server", "option", "url", "client", "subscribe"},
           step \in clients => answers(step),
           UNCHANGED <<inputVars, scanVars, storeVars, hostURIs, reachable, jobVars>>,
           IsSeq(urls'), opts' \in [{"grpc", "grpcClient"} -> Nat], BuiltByCall'
    PROVE  BootInv'
<1>1. UNCHANGED <<values, usedKeys, program>> /\ Types
    BY DEF storeVars, Returns, BootInv
<1>2. KeysUsed'
    BY <1>1, NothingNoted
<1>3. step \notin loads
    BY DEF loads
<1>4. IsSeq(hostURIs') /\ \A h : Collected(h) => Collected(h)'
    BY <1>1 DEF Collected, Types
<1> QED
    BY <1>1, <1>2, <1>3, <1>4, ReturnsInv

\* A call that panics before it has changed anything.
LEMMA PlainPanics ==
    ASSUME BootInv, phase = "initialize", Panics, PanicHasCause',
           UNCHANGED <<inputVars, scanVars, storeVars, hostURIs, urls, reachable, opts, built,
                       jobVars>>
    PROVE  BootInv'
<1>1. UNCHANGED <<values, usedKeys, program>> /\ Types
    BY DEF storeVars, Panics, BootInv
<1>2. KeysUsed'
    BY <1>1, NothingNoted
<1>3. IsSeq(hostURIs') /\ \A h : Collected(h) => Collected(h)'
    BY <1>1 DEF Collected, Types
<1> QED
    BY <1>1, <1>2, <1>3, PanicInv

\* LoadFromPrefix.
LEMMA LoadFromPrefixInv ==
    ASSUME BootInv, LoadFromPrefix
    PROVE  BootInv'
<1> DEFINE r == readsOf(step)
<1>1. /\ phase = "initialize" /\ step <= Len(program) /\ program[step].op = "load"
      /\ UNCHANGED <<inputVars, scanVars, values, urls, reachable, opts, built, jobVars>>
      /\ call = program[step] /\ Types
    BY DEF LoadFromPrefix, Calling, call, BootInv
<1>2. step \in loads /\ step \notin clients
    BY <1>1, Called DEF loads, clients
<1>3. r = reads(call.kind, call.prefix) /\ r.required \in keysOf(r)
    BY <1>1 DEF readsOf, keysOf
<1>4. IsSeq(r.hosts)
  <2>1. call.kind \in ComponentKinds
    BY <1>1, Called, CallIs
  <2> QED
    BY <1>1, <1>3, <2>1, ReadsHosts DEF Types
<1>5. IsSeq(hostURIs) /\ IsSeq(urls) /\ opts \in [{"grpc", "grpcClient"} -> Nat]
    BY <1>1 DEF Types
<1> HIDE DEF r
<1>0. CASE call.prefix = ""
  <2>1. Panics /\ UNCHANGED <<usedKeys, hostURIs>>
    BY <1>0 DEF LoadFromPrefix
  <2>2. BadSetting'
    BY <1>0, <1>1, <1>2, <2>1, BadNow DEF Panics
  <2>3. UNCHANGED storeVars
    BY <1>1, <2>1 DEF storeVars
  <2> QED
    BY <1>1, <2>1, <2>2, <2>3, PlainPanics DEF PanicHasCause
<1>6. CASE call.prefix # "" /\ Get(r.required) = << >>
  <2>1. usedKeys' = usedKeys \cup {r.required} /\ Panics /\ UNCHANGED hostURIs
    BY <1>3, <1>6 DEF LoadFromPrefix, Property
  <2>2. KeysUsed'
    BY <1>1, <1>2, <1>3, <2>1, Noted DEF Panics, r
  <2>3. BadSetting'
    BY <1>1, <1>2, <1>6, <2>1, BadNow DEF Panics, r
  <2>4. \A h : Collected(h) => Collected(h)'
    BY <2>1 DEF Collected
  <2> QED
    BY <1>1, <1>5, <2>1, <2>2, <2>3, <2>4, PanicInv DEF PanicHasCause
<1>7. CASE call.prefix # "" /\ Get(r.required) # << >>
  <2>1. usedKeys' = usedKeys \cup keysOf(r) /\ hostURIs' = hostURIs \o r.hosts
    BY <1>3, <1>7 DEF LoadFromPrefix, Property
  <2>2. /\ IsSeq(hostURIs') /\ \A h : Collected(h) => Collected(h)'
        /\ \A n \in 1 .. Len(r.hosts) : \E m \in 1 .. Len(hostURIs') : hostURIs'[m] = r.hosts[n]
    BY <1>4, <1>5, <2>1, CollectMore
  <2>3. \/ Returns
        \/ Panics /\ \E k \in r.parsed : Get(k) # << >> /\ ~wellFormed(Get(k))
    BY <1>3, <1>7 DEF LoadFromPrefix
  <2>4. program' = program
    BY <2>3 DEF Returns, Panics
  <2>5. KeysUsed'
    BY <1>1, <1>2, <2>1, <2>4, Noted DEF r
  <2>6. CASE Returns
    <3>1. BuiltByCall'
      BY <1>1, <2>6, ReturnsBuilt
    <3>2. IsSeq(urls') /\ opts' \in [{"grpc", "grpcClient"} -> Nat]
      BY <1>1, <1>5
    <3>3. /\ Get(readsOf(step).required) # << >> /\ keysOf(readsOf(step)) \subseteq usedKeys'
          /\ \A n \in 1 .. Len(readsOf(step).hosts) :
                \E m \in 1 .. Len(hostURIs') : hostURIs'[m] = readsOf(step).hosts[n]
      BY <1>7, <2>1, <2>2 DEF r
    <3> QED
      BY <1>1, <1>2, <2>1, <2>2, <2>5, <2>6, <3>1, <3>2, <3>3, ReturnsInv
  <2>7. CASE Panics /\ \E k \in r.parsed : Get(k) # << >> /\ ~wellFormed(Get(k))
    <3>1. BadSetting'
      BY <1>1, <1>2, <2>4, <2>7, BadNow DEF r
    <3> QED
      BY <1>1, <2>1, <2>2, <2>5, <2>7, <3>1, PanicInv DEF PanicHasCause
  <2> QED
    BY <2>3, <2>6, <2>7
<1> QED
    BY <1>0, <1>6, <1>7

\* What a call builds is built with the options there are.
LEMMA BuiltMore ==
    ASSUME BootInv, step <= Len(program), Returns, UNCHANGED opts,
           program[step].op \in {"register", "server"},
           program[step].kind \in {"grpc", "grpcClient"},
           NEW x, x = <<program[step].kind, program[step].prefix>>,
           built' = [y \in DOMAIN built \cup {x} |->
                        IF y = x THEN opts[program[step].kind] ELSE built[y]]
    PROVE  BuiltByCall'
<1>1. /\ step' = step + 1 /\ program' = program /\ step \in Nat \ {0}
      /\ 1 .. step' - 1 = (1 .. step - 1) \cup {step}
    BY DEF Returns, BootInv, Types
<1>2. program[step].prefix \in STRING
    BY Called, CallIs DEF BootInv
<1> SUFFICES ASSUME NEW y \in DOMAIN built'
             PROVE  /\ y \in {"grpc", "grpcClient"} \X STRING
                    /\ built'[y] = opts[y[1]]
                    /\ \E i \in 1 .. step' - 1 :
                          /\ program[i].op \in {"register", "server"}
                          /\ program[i].kind = y[1] /\ program[i].prefix = y[2]
    BY <1>1 DEF BuiltByCall
<1>3. CASE y = x
    BY <1>1, <1>2, <1>3
<1>4. CASE y # x
  <2>1. y \in DOMAIN built /\ built'[y] = built[y]
    BY <1>4
  <2> QED
    BY <1>1, <2>1 DEF BootInv, BuiltByCall
<1> QED
    BY <1>3, <1>4

\* RegisterByProperty.
LEMMA RegisterInv ==
    ASSUME BootInv, Register
    PROVE  BootInv'
<1> DEFINE c == program[step]
           k == <<c.prefix, "address">>
           pool == <<"grpcClient", c.prefix>>
           r == readsOf(step)
<1>1. /\ phase = "initialize" /\ step <= Len(program) /\ c.op = "register"
      /\ UNCHANGED <<inputVars, scanVars, values, urls, reachable, opts, jobVars>>
      /\ call = c /\ Types
    BY DEF Register, Calling, call, BootInv
<1>2. step \in 1 .. Len(program) /\ c \in Calls /\ c.kind = "grpcClient" /\ c.prefix \in STRING
    BY <1>1, Called, CallIs
<1>3. step \in loads /\ step \notin clients
    BY <1>1, <1>2 DEF loads, clients
<1>4. r = reads("grpcClient", c.prefix) /\ r.required = k /\ keysOf(r) = {k}
    BY <1>2, GrpcReads DEF readsOf
<1>5. IsSeq(r.hosts)
    BY <1>1, <1>4, ReadsHosts DEF Types, ComponentKinds
<1>6. IsSeq(hostURIs) /\ IsSeq(urls) /\ opts \in [{"grpc", "grpcClient"} -> Nat]
    BY <1>1 DEF Types
<1>7. usedKeys' = usedKeys \cup {k}
    BY <1>1 DEF Register, Property
<1>8. \/ /\ Panics /\ (Get(k) = << >> \/ c.prefix = "" \/ pool \in DOMAIN built)
         /\ UNCHANGED <<hostURIs, built>>
      \/ /\ Panics /\ ~acceptable(Get(k)) /\ hostURIs' = hostURIs \o r.hosts
         /\ UNCHANGED built
      \/ /\ Returns /\ Get(k) # << >>
         /\ hostURIs' = hostURIs \o r.hosts
         /\ built' = [y \in DOMAIN built \cup {pool} |->
                         IF y = pool THEN opts["grpcClient"] ELSE built[y]]
    BY <1>1, <1>4 DEF Register
<1> HIDE DEF c, k, pool, r
<1>9. program' = program
    BY <1>8 DEF Returns, Panics
<1>10. KeysUsed'
    BY <1>1, <1>3, <1>4, <1>7, <1>9, Noted DEF r
<1>11. CASE /\ Panics /\ (Get(k) = << >> \/ c.prefix = "" \/ pool \in DOMAIN built)
            /\ UNCHANGED <<hostURIs, built>>
  <2>1. ASSUME Get(k) = << >> \/ c.prefix = "" PROVE BadSetting'
    BY <1>1, <1>3, <1>4, <1>9, <2>1, BadNow DEF r, c
  <2>2. ASSUME pool \in DOMAIN built PROVE BuiltBefore'
    <3>1. PICK i \in 1 .. step - 1 :
             /\ program[i].op \in {"register", "server"}
             /\ program[i].kind = "grpcClient" /\ program[i].prefix = c.prefix
      BY <2>2 DEF BootInv, BuiltByCall, pool
    <3>2. i \in 1 .. Len(program) /\ i < step /\ program[i] \in Calls
      BY <1>1, <1>2, <3>1 DEF Types
    <3>3. program[i] = c
      BY <1>1, <1>2, <3>1, <3>2, SameRegister
    <3>4. \E j, n \in 1 .. Len(program) :
             j < n /\ program[j].kind = program[n].kind /\ program[j].op = "register"
             /\ program[n] = program[j]
      BY <1>1, <1>2, <3>2, <3>3 DEF c
    <3> QED
      BY <1>9, <3>4 DEF BuiltBefore
  <2>3. \A h : Collected(h) => Collected(h)'
    BY <1>11 DEF Collected
  <2> QED
    BY <1>1, <1>6, <1>7, <1>10, <1>11, <2>1, <2>2, <2>3, PanicInv DEF PanicHasCause
<1>12. CASE /\ Returns /\ Get(k) # << >>
            /\ hostURIs' = hostURIs \o r.hosts
            /\ built' = [y \in DOMAIN built \cup {pool} |->
                            IF y = pool THEN opts["grpcClient"] ELSE built[y]]
  <2>1. /\ IsSeq(hostURIs') /\ \A h : Collected(h) => Collected(h)'
        /\ \A n \in 1 .. Len(r.hosts) : \E m \in 1 .. Len(hostURIs') : hostURIs'[m] = r.hosts[n]
    BY <1>5, <1>6, <1>12, CollectMore
  <2>2. BuiltByCall'
    BY <1>1, <1>2, <1>12, BuiltMore DEF c, pool
  <2>3. IsSeq(urls') /\ opts' \in [{"grpc", "grpcClient"} -> Nat]
    BY <1>1, <1>6
  <2>4. /\ Get(readsOf(step).required) # << >> /\ keysOf(readsOf(step)) \subseteq usedKeys'
        /\ \A n \in 1 .. Len(readsOf(step).hosts) :
              \E m \in 1 .. Len(hostURIs') : hostURIs'[m] = readsOf(step).hosts[n]
    BY <1>4, <1>7, <1>12, <2>1 DEF r
  <2> QED
    BY <1>1, <1>3, <1>7, <1>10, <1>12, <2>1, <2>2, <2>3, <2>4, ReturnsInv DEF c
<1>13. CASE /\ Panics /\ ~acceptable(Get(k)) /\ hostURIs' = hostURIs \o r.hosts
            /\ UNCHANGED built
  <2>1. IsSeq(hostURIs') /\ \A h : Collected(h) => Collected(h)'
    BY <1>5, <1>6, <1>13, CollectMore
  <2>2. BadSetting'
    BY <1>1, <1>3, <1>4, <1>9, <1>13, BadNow DEF r, c
  <2> QED
    BY <1>1, <1>7, <1>10, <1>13, <2>1, <2>2, PanicInv DEF PanicHasCause
<1> QED
    BY <1>8, <1>11, <1>12, <1>13

\* Without the key of its endpoint, a call comes too early.
LEMMA NotReadYet ==
    ASSUME BootInv, readsOf(step).required \notin usedKeys
    PROVE  tooEarly(step)
BY DEF BootInv, LoadsReturned, tooEarly, keysOf

\* GrpcComponent.Server.
LEMMA ServerInv ==
    ASSUME BootInv, Server
    PROVE  BootInv'
<1> DEFINE c == program[step]
           k == <<c.prefix, "listen">>
           server == <<"grpc", c.prefix>>
<1>1. /\ phase = "initialize" /\ step <= Len(program) /\ c.op = "server"
      /\ UNCHANGED <<inputVars, scanVars, storeVars, hostURIs, urls, reachable, opts, jobVars>>
      /\ call = c /\ Types
    BY DEF Server, Calling, call, BootInv
<1>2. step \in 1 .. Len(program) /\ c \in Calls /\ c.kind = "grpc"
    BY <1>1, Called, CallIs
<1>3. readsOf(step).required = k
    BY <1>2, GrpcReads DEF readsOf
<1>4. \/ Panics /\ k \notin usedKeys /\ UNCHANGED built
      \/ Returns /\ UNCHANGED built
      \/ /\ Returns
         /\ built' = [x \in DOMAIN built \cup {server} |->
                         IF x = server THEN opts["grpc"] ELSE built[x]]
    BY <1>1 DEF Server
<1> HIDE DEF c, k, server
<1>5. CASE Panics /\ k \notin usedKeys /\ UNCHANGED built
  <2>1. tooEarly(step)
    BY <1>3, <1>5, NotReadYet
  <2>2. UNCHANGED <<values, program, reachable, step>>
    BY <1>1, <1>5 DEF Panics, storeVars
  <2>3. \E i \in 1 .. Len(program) : program[i].op = "server" /\ tooEarly(i)
    BY <1>1, <1>2, <2>1 DEF c
  <2>4. ServerTooEarly'
    BY <2>2, <2>3, SteadyCauses DEF ServerTooEarly
  <2> QED
    BY <1>1, <1>5, <2>4, PlainPanics DEF PanicHasCause
<1>6. CASE Returns
  <2>1. step \notin clients
    BY <1>1 DEF clients, c
  <2>2. BuiltByCall'
    <3>1. CASE UNCHANGED built
      BY <1>1, <1>6, <3>1, ReturnsBuilt
    <3>2. CASE built' = [x \in DOMAIN built \cup {server} |->
                            IF x = server THEN opts["grpc"] ELSE built[x]]
      BY <1>1, <1>2, <1>6, <3>2, BuiltMore DEF c, server
    <3> QED
      BY <1>4, <3>1, <3>2
  <2>3. IsSeq(urls') /\ opts' \in [{"grpc", "grpcClient"} -> Nat]
    BY <1>1 DEF Types
  <2> QED
    BY <1>1, <1>6, <2>1, <2>2, <2>3, PlainReturns DEF c
<1> QED
    BY <1>4, <1>5, <1>6

\* AddOpt.
LEMMA AddOptInv ==
    ASSUME BootInv, AddOpt
    PROVE  BootInv'
<1> DEFINE c == program[step]
<1>1. /\ phase = "initialize" /\ step <= Len(program) /\ c.op = "option"
      /\ UNCHANGED <<inputVars, scanVars, storeVars, hostURIs, urls, reachable, built, jobVars>>
      /\ call = c /\ Types
    BY DEF AddOpt, Calling, call, BootInv
<1>2. step \in 1 .. Len(program) /\ c.kind \in {"grpc", "grpcClient"}
    BY <1>1, Called, CallIs
<1>3. \/ Panics /\ alreadyConfigured(c.kind) /\ UNCHANGED opts
      \/ /\ Returns /\ ~alreadyConfigured(c.kind)
         /\ opts' = [opts EXCEPT ![c.kind] = opts[c.kind] + 1]
    BY <1>1 DEF AddOpt
<1> HIDE DEF c
<1>4. CASE Panics /\ alreadyConfigured(c.kind) /\ UNCHANGED opts
  <2>1. PICK x \in DOMAIN built : x[1] = c.kind
    BY <1>4 DEF alreadyConfigured
  <2>2. PICK i \in 1 .. step - 1 :
           program[i].op \in {"register", "server"} /\ program[i].kind = c.kind
    BY <2>1 DEF BootInv, BuiltByCall
  <2>3. i \in 1 .. Len(program) /\ i < step
    BY <1>1, <1>2, <2>2 DEF Types
  <2>4. \E j, n \in 1 .. Len(program) :
           /\ j < n /\ program[j].kind = program[n].kind
           /\ program[j].op \in {"register", "server"} /\ program[n].op = "option"
    BY <1>1, <1>2, <2>2, <2>3 DEF c
  <2>5. BuiltBefore'
    BY <1>4, <2>4 DEF BuiltBefore, Panics
  <2> QED
    BY <1>1, <1>4, <2>5, PlainPanics DEF PanicHasCause
<1>5. CASE /\ Returns /\ ~alreadyConfigured(c.kind)
           /\ opts' = [opts EXCEPT ![c.kind] = opts[c.kind] + 1]
  <2>1. opts \in [{"grpc", "grpcClient"} -> Nat] /\ opts' \in [{"grpc", "grpcClient"} -> Nat]
    BY <1>1, <1>2, <1>5 DEF Types
  <2>2. \A x \in DOMAIN built : x[1] \in {"grpc", "grpcClient"} /\ opts'[x[1]] = opts[x[1]]
    BY <1>5, <2>1 DEF BootInv, BuiltByCall, alreadyConfigured
  <2>3. program' = program /\ 1 .. step - 1 \subseteq 1 .. step' - 1
    BY <1>1, <1>5 DEF Returns, Types
  <2>4. BuiltByCall'
    BY <1>1, <2>2, <2>3 DEF BootInv, BuiltByCall
  <2>5. step \notin clients /\ IsSeq(urls')
    BY <1>1 DEF clients, c, Types
  <2> QED
    BY <1>1, <1>5, <2>1, <2>4, <2>5, PlainReturns DEF c
<1> QED
    BY <1>3, <1>4, <1>5

\* AddURL.
LEMMA AddURLInv ==
    ASSUME BootInv, AddURL
    PROVE  BootInv'
<1>1. /\ phase = "initialize" /\ step <= Len(program) /\ program[step].op = "url" /\ Returns
      /\ UNCHANGED <<inputVars, scanVars, storeVars, hostURIs, reachable, opts, built, jobVars>>
      /\ Types
    BY DEF AddURL, Calling, call, BootInv
<1>2. IsSeq(urls')
  <2>1. PICK S : urls \in Seq(S)
    BY <1>1 DEF Types, IsSeq
  <2> DEFINE T == S \cup {call.prefix}
  <2>2. urls \in Seq(T) /\ call.prefix \in T
    BY <2>1, WiderSeq
  <2> HIDE DEF T
  <2>3. urls' \in Seq(T)
    BY <2>2 DEF AddURL
  <2> QED
    BY <2>3, SeqIsSeq
<1>3. BuiltByCall' /\ step \notin clients /\ opts' \in [{"grpc", "grpcClient"} -> Nat]
    BY <1>1, ReturnsBuilt DEF clients, Types
<1> QED
    BY <1>1, <1>2, <1>3, PlainReturns

\* A call that uses a client returns or panics, as it can be used.
LEMMA ClientCallInv ==
    ASSUME BootInv, phase = "initialize", step \in clients,
           UNCHANGED <<inputVars, scanVars, storeVars, hostURIs, urls, reachable, opts, built,
                       jobVars>>,
           \/ Returns /\ answers(step)
           \/ Panics /\ (readsOf(step).required \notin usedKeys \/ ~answers(step))
    PROVE  BootInv'
<1>1. /\ step <= Len(program) /\ program[step].op \in {"client", "subscribe"} /\ Types
      /\ UNCHANGED values
    BY DEF clients, BootInv, storeVars
<1>2. CASE Returns /\ answers(step)
  <2>1. BuiltByCall' /\ IsSeq(urls') /\ opts' \in [{"grpc", "grpcClient"} -> Nat]
    BY <1>1, <1>2, ReturnsBuilt DEF Types
  <2> QED
    BY <1>1, <1>2, <2>1, PlainReturns
<1>3. CASE Panics /\ (readsOf(step).required \notin usedKeys \/ ~answers(step))
  <2>1. tooEarly(step) \/ ~answers(step)
    BY <1>3, NotReadYet
  <2>2. UNCHANGED <<values, program, reachable, step>>
    BY <1>1, <1>3 DEF Panics
  <2>3. ClientUseless
    BY <2>1 DEF ClientUseless
  <2>4. clients' = clients
    BY <2>2, Steady
  <2>5. ClientUseless'
    BY <2>2, <2>3, <2>4, SteadyCauses DEF ClientUseless
  <2> QED
    BY <1>1, <1>3, <2>5, PlainPanics DEF PanicHasCause
<1> QED
    BY <1>2, <1>3

\* Client of a component.
LEMMA UseClientInv ==
    ASSUME BootInv, UseClient
    PROVE  BootInv'
<1> DEFINE c == program[step]
           k == readsOf(step).required
<1>1. /\ phase = "initialize" /\ step <= Len(program) /\ c.op = "client"
      /\ UNCHANGED <<inputVars, scanVars, storeVars, hostURIs, urls, reachable, opts, built,
                     jobVars>>
      /\ call = c /\ Types
    BY DEF UseClient, Calling, call, BootInv
<1>2. step \in 1 .. Len(program) /\ step \in clients /\ c.kind # "kafka"
    BY <1>1, Called, CallIs DEF clients
<1>3. k = reads(call.kind, call.prefix).required
    BY <1>1 DEF readsOf
<1>4. \/ Returns /\ ensureClient(c.kind, Get(k))
      \/ Panics /\ (k \notin usedKeys \/ ~ensureClient(c.kind, Get(k)))
    BY <1>1, <1>3 DEF UseClient
<1>5. answers(step) <=> ensureClient(c.kind, Get(k))
    BY <1>1, <1>2 DEF answers, ensureClient, newDB, initializeMongo
<1> QED
    BY <1>1, <1>2, <1>4, <1>5, ClientCallInv

\* Subscribe.
LEMMA SubscribeInv ==
    ASSUME BootInv, Subscribe
    PROVE  BootInv'
<1> DEFINE c == program[step]
           k == readsOf(step).required
           fits == /\ Get(subscribesTo(c.kind, c.prefix)) # << >>
                   /\ c.kind = "kafka" => acceptable(Get(k))
<1>1. /\ phase = "initialize" /\ step <= Len(program) /\ c.op = "subscribe"
      /\ UNCHANGED <<inputVars, scanVars, storeVars, hostURIs, urls, reachable, opts, built,
                     jobVars>>
      /\ call = c /\ Types
    BY DEF Subscribe, Calling, call, BootInv
<1>2. /\ step \in 1 .. Len(program) /\ step \in clients
      /\ c.kind \in {"kafka", "rabbitmq"}
    BY <1>1, Called, CallIs DEF clients
<1>3. k = reads(call.kind, call.prefix).required
    BY <1>1 DEF readsOf
<1>4. \/ Returns /\ fits
      \/ Panics /\ (k \notin usedKeys \/ ~fits)
    BY <1>1, <1>3 DEF Subscribe
<1>5. answers(step) <=> fits
    BY <1>1, <1>2 DEF answers
<1> HIDE DEF fits
<1> QED
    BY <1>1, <1>2, <1>4, <1>5, ClientCallInv

\* A call of the scheduler that returns changes nothing but the scheduler.
LEMMA SchedulerReturns ==
    ASSUME BootInv, phase = "initialize", step <= Len(program), Returns,
           program[step].op \in {"job", "remove", "location", "strict"},
           UNCHANGED <<inputVars, scanVars, storeVars, hostURIs, urls, reachable, opts, built>>,
           EngineMade', StrictCalled', JobsNamed', JobsKept'
    PROVE  BootInv'
<1>1. /\ UNCHANGED <<values, usedKeys, program>> /\ Types
      /\ IsSeq(hostURIs') /\ IsSeq(urls') /\ opts' \in [{"grpc", "grpcClient"} -> Nat]
    BY DEF storeVars, Returns, BootInv, Types
<1>2. KeysUsed' /\ BuiltByCall'
    BY <1>1, NothingNoted, ReturnsBuilt
<1>3. step \notin loads /\ step \notin clients
    BY DEF loads, clients
<1>4. \A h : Collected(h) => Collected(h)'
    BY DEF Collected
<1>5. Types' /\ InOrder' /\ Probed' /\ AllReached' /\ PanicHasCause'
    BY <1>1, ReturnsInOrder
<1>6. LoadsReturned' /\ ClientsReturned'
    BY <1>1, <1>3, <1>4, ReturnsLoads
<1> QED
    BY <1>2, <1>5, <1>6 DEF BootInv

\* The engine after a call of the scheduler.
LEMMA EngineNext ==
    ASSUME BootInv, step <= Len(program), Returns,
           \/ program[step].op \in {"job", "remove", "strict"} /\ parser' = ensureEngine
           \/ program[step].op = "location" /\ location' = TRUE /\ UNCHANGED parser
    PROVE  EngineMade'
<1>1. /\ step' = step + 1 /\ program' = program /\ step \in Nat \ {0}
      /\ 1 .. step' - 1 = (1 .. step - 1) \cup {step}
    BY DEF Returns, BootInv, Types
<1>2. EngineMade /\ Types
    BY DEF BootInv
<1>3. locatedAt(step)' <=>
         \/ locatedAt(step)
         \/ /\ program[step].op = "location"
            /\ \A n \in 1 .. step - 1 : program[n].op \notin {"job", "remove", "strict"}
    BY <1>2, LocatedNext
<1>4. CASE program[step].op \in {"job", "remove", "strict"} /\ parser' = ensureEngine
  <2>1. parser' \in {"standard", "secondOptional"}
    BY <1>2, <1>4 DEF ensureEngine, New, EngineMade
  <2>2. ensureEngine' = ensureEngine
    BY <1>4, <2>1 DEF ensureEngine
  <2> QED
    BY <1>1, <1>2, <1>3, <1>4, <2>1, <2>2 DEF EngineMade
<1>5. CASE program[step].op = "location" /\ location' = TRUE /\ UNCHANGED parser
    BY <1>1, <1>2, <1>3, <1>5 DEF EngineMade, ensureEngine, New
<1> QED
    BY <1>4, <1>5

\* Cron takes a job exactly when its spec suits the engine.
LEMMA ParsesIs ==
    ASSUME BootInv, program[step].op = "job"
    PROVE  parses(program[step].kind) <=> schedulable(step)
<1>1. ensureEngine = "secondOptional" <=> ~locatedAt(step)
    BY DEF BootInv, EngineMade, ensureEngine, New
<1> QED
    BY <1>1 DEF parses, schedulable

\* The scheduler.
LEMMA ScheduleInv ==
    ASSUME BootInv, Schedule
    PROVE  BootInv'
<1> DEFINE action == program[step].prefix
<1>1. /\ phase = "initialize" /\ step <= Len(program) /\ call = program[step] /\ Types
      /\ UNCHANGED <<inputVars, scanVars, storeVars, hostURIs, urls, reachable, opts, built>>
    BY DEF Schedule, Calling, call, BootInv
<1>2. /\ step \in 1 .. Len(program) /\ step \in Nat \ {0} /\ Len(program) \in Nat
      /\ UNCHANGED values
    BY <1>1, Called DEF Types, storeVars
<1>3. JobsNamed /\ JobsKept /\ StrictCalled
    BY DEF BootInv
<1>4. ASSUME Returns
      PROVE  /\ step' = step + 1 /\ program' = program
             /\ step' - 1 = step /\ 1 .. step = (1 .. step - 1) \cup {step}
             /\ \A i : schedulable(i)' = schedulable(i)
             /\ \A i \in 1 .. step - 1 : removed(i, step - 1) => removed(i, step)
             /\ \A i, n : removed(i, n)' = removed(i, n)
    BY <1>2, <1>4, Steady DEF Returns, removed
<1>5. CASE Calling("job") /\ addPanics(call.kind, call.prefix) /\ Panics /\ UNCHANGED jobVars
  <2>1. program[step].op = "job" /\ UNCHANGED program
    BY <1>5 DEF Calling, call, Panics
  <2>2. ASSUME action \in DOMAIN jobInfo PROVE JobRefused
    <3>1. PICK i \in 1 .. step - 1 : schedulable(i) /\ program[i].prefix = action
      BY <1>3, <2>2 DEF JobsNamed
    <3>2. i \in 1 .. Len(program) /\ i < step
      BY <1>2
    <3> QED
      BY <1>2, <2>1, <3>1, <3>2 DEF JobRefused
  <2>3. ASSUME ~parses(program[step].kind), panicOnAnyAddError PROVE JobRefused
    <3>1. PICK i \in 1 .. step - 1 : program[i].op = "strict"
      BY <1>3, <2>3 DEF StrictCalled
    <3>2. i \in 1 .. Len(program) /\ i < step
      BY <1>2
    <3> QED
      BY <1>2, <2>1, <2>3, <3>1, <3>2, ParsesIs DEF JobRefused
  <2>4. JobRefused
    BY <1>1, <1>5, <2>2, <2>3 DEF addPanics
  <2>5. JobRefused'
    BY <1>2, <2>1, <2>4, Steady DEF JobRefused
  <2> QED
    BY <1>1, <1>5, <2>5, PlainPanics DEF PanicHasCause
<1>6. CASE /\ Calling("job") /\ ~addPanics(call.kind, call.prefix)
           /\ AddFuncWithName(call.kind, call.prefix) /\ Returns
  <2>1. /\ program[step].op = "job" /\ action \notin DOMAIN jobInfo
        /\ parser' = ensureEngine /\ UNCHANGED panicOnAnyAddError
    BY <1>1, <1>6 DEF Calling, addPanics, AddFuncWithName
  <2>2. EngineMade'
    BY <1>1, <1>6, <2>1, EngineNext
  <2>3. StrictCalled'
    BY <1>3, <1>4, <1>6, <2>1 DEF StrictCalled
  <2>4. CASE schedulable(step)
    <3>1. /\ lastID' = lastID + 1 /\ entries' = entries \cup {lastID + 1}
          /\ jobInfo' = [a \in DOMAIN jobInfo \cup {action} |->
                            IF a = action THEN lastID + 1 ELSE jobInfo[a]]
      BY <1>1, <1>6, <2>1, <2>4, ParsesIs DEF AddFuncWithName
    <3> HIDE DEF action
    <3>2. lastID \in Nat /\ \A a \in DOMAIN jobInfo : jobInfo[a] \in 1 .. lastID
      BY <1>3 DEF JobsNamed
    <3>3. /\ DOMAIN jobInfo' = DOMAIN jobInfo \cup {action} /\ jobInfo'[action] = lastID + 1
          /\ \A a \in DOMAIN jobInfo : a # action /\ jobInfo'[a] = jobInfo[a]
      BY <2>1, <3>1
    <3>4. ASSUME NEW a \in DOMAIN jobInfo'
          PROVE  /\ jobInfo'[a] \in 1 .. lastID'
                 /\ \E i \in 1 .. step : schedulable(i) /\ program[i].prefix = a
                 /\ \A b \in DOMAIN jobInfo' : jobInfo'[a] = jobInfo'[b] => a = b
      <4>1. jobInfo'[a] \in 1 .. lastID'
        BY <3>1, <3>2, <3>3
      <4>2. \E i \in 1 .. step : schedulable(i) /\ program[i].prefix = a
        <5>1. CASE a = action
          BY <1>2, <2>4, <5>1 DEF action
        <5>2. CASE a \in DOMAIN jobInfo
          BY <1>2, <1>3, <5>2 DEF JobsNamed
        <5> QED
          BY <3>3, <5>1, <5>2
      <4>3. \A b \in DOMAIN jobInfo' : jobInfo'[a] = jobInfo'[b] => a = b
        BY <1>3, <3>2, <3>3 DEF JobsNamed
      <4> QED
        BY <4>1, <4>2, <4>3
    <3>5. JobsNamed'
      <4>1. lastID' \in Nat
        BY <3>1, <3>2
      <4>2. step' - 1 = step /\ program' = program /\ \A i : schedulable(i)' = schedulable(i)
        BY <1>4, <1>6
      <4> QED
        BY <3>4, <4>1, <4>2 DEF JobsNamed
    <3>6. \A p : Runs(p) => Runs(p)'
      BY <3>1, <3>3 DEF Runs
    <3>7. JobsKept'
      <4> SUFFICES ASSUME NEW i \in 1 .. step, schedulable(i)
                   PROVE  \/ program[i].prefix \in DOMAIN jobInfo'
                             /\ jobInfo'[program[i].prefix] \in entries'
                          \/ removed(i, step)
        BY <1>4, <1>6 DEF JobsKept, Runs
      <4>1. CASE i = step
        BY <3>1, <3>3, <4>1 DEF action
      <4>2. CASE i \in 1 .. step - 1
        BY <1>3, <1>4, <1>6, <3>6, <4>2 DEF JobsKept, Runs
      <4> QED
        BY <1>2, <4>1, <4>2
    <3> QED
      BY <1>1, <1>6, <2>1, <2>2, <2>3, <3>5, <3>7, SchedulerReturns
  <2>5. CASE ~schedulable(step)
    <3>1. UNCHANGED <<jobInfo, entries, lastID>>
      BY <1>1, <1>6, <2>1, <2>5, ParsesIs DEF AddFuncWithName
    <3>2. JobsNamed'
      BY <1>3, <1>4, <1>6, <3>1 DEF JobsNamed
    <3>3. JobsKept'
      BY <1>3, <1>4, <1>6, <2>5, <3>1 DEF JobsKept, Runs
    <3> QED
      BY <1>1, <1>6, <2>1, <2>2, <2>3, <3>2, <3>3, SchedulerReturns
  <2> QED
    BY <2>4, <2>5
<1>7. CASE Calling("remove") /\ RemoveJob(call.prefix) /\ Returns
  <2>1. /\ program[step].op = "remove" /\ parser' = ensureEngine
        /\ UNCHANGED <<panicOnAnyAddError, jobInfo, lastID>>
        /\ entries' = IF action \in DOMAIN jobInfo THEN entries \ {jobInfo[action]} ELSE entries
    BY <1>1, <1>7 DEF Calling, RemoveJob
  <2>2. EngineMade' /\ StrictCalled'
    BY <1>1, <1>3, <1>4, <1>7, <2>1, EngineNext DEF StrictCalled
  <2>3. JobsNamed'
    BY <1>3, <1>4, <1>7, <2>1 DEF JobsNamed
  <2>4. JobsKept'
    <3> SUFFICES ASSUME NEW i \in 1 .. step, schedulable(i)
                 PROVE  \/ program[i].prefix \in DOMAIN jobInfo
                           /\ jobInfo[program[i].prefix] \in entries'
                        \/ removed(i, step)
      BY <1>4, <1>7, <2>1 DEF JobsKept, Runs
    <3>1. i \in 1 .. step - 1
      BY <1>2, <2>1 DEF schedulable
    <3>2. CASE program[i].prefix = action
      BY <1>2, <2>1, <3>1, <3>2 DEF removed
    <3>3. CASE program[i].prefix # action
      BY <1>3, <1>4, <1>7, <2>1, <3>1, <3>3 DEF JobsKept, JobsNamed, Runs
    <3> QED
      BY <3>2, <3>3
  <2> QED
    BY <1>1, <1>7, <2>1, <2>2, <2>3, <2>4, SchedulerReturns
<1>8. ASSUME Returns, UNCHANGED <<jobInfo, entries, lastID>>,
             program[step].op \in {"location", "strict"}
      PROVE  JobsNamed' /\ JobsKept'
  <2>1. ~schedulable(step)
    BY <1>8 DEF schedulable
  <2>2. JobsNamed'
    BY <1>3, <1>4, <1>8 DEF JobsNamed
  <2>3. JobsKept'
    BY <1>3, <1>4, <1>8, <2>1 DEF JobsKept, Runs
  <2> QED
    BY <2>2, <2>3
<1>9. CASE Calling("location") /\ SetLocation /\ Returns
  <2>1. /\ program[step].op = "location" /\ location' = TRUE
        /\ UNCHANGED <<parser, panicOnAnyAddError, jobInfo, entries, lastID>>
    BY <1>1, <1>9 DEF Calling, SetLocation
  <2>2. EngineMade' /\ StrictCalled'
    BY <1>1, <1>3, <1>4, <1>9, <2>1, EngineNext DEF StrictCalled
  <2> QED
    BY <1>1, <1>8, <1>9, <2>1, <2>2, SchedulerReturns
<1>10. CASE Calling("strict") /\ SetPanicOnAnyAddError /\ Returns
  <2>1. /\ program[step].op = "strict" /\ parser' = ensureEngine
        /\ UNCHANGED <<jobInfo, entries, lastID>>
    BY <1>1, <1>10 DEF Calling, SetPanicOnAnyAddError
  <2>2. EngineMade' /\ StrictCalled'
    BY <1>1, <1>2, <1>4, <1>10, <2>1, EngineNext DEF StrictCalled
  <2> QED
    BY <1>1, <1>8, <1>10, <2>1, <2>2, SchedulerReturns
<1> QED
    BY <1>5, <1>6, <1>7, <1>9, <1>10 DEF Schedule

----------------------------------------------------------------------------
(* App.Start.                                                               *)

\* App.Start leaves alone what Initialize has done.
LEMMA StartKeeps ==
    ASSUME BootInv, phase' \in Phases,
           UNCHANGED <<inputVars, scanVars, storeVars, hostURIs, urls, reachable, program, step,
                       opts, built, jobVars>>
    PROVE  /\ Types' /\ LoadsReturned' /\ ClientsReturned' /\ KeysUsed' /\ BuiltByCall'
           /\ EngineMade' /\ StrictCalled' /\ JobsNamed' /\ JobsKept' /\ targets' = targets
<1> USE DEF BootInv
<1>1. UNCHANGED <<values, usedKeys>>
    BY DEF storeVars
<1>2. Types' /\ targets' = targets
    BY <1>1 DEF Types, inputVars, scanVars, targets
<1>3. /\ loads' = loads /\ clients' = clients /\ \A k : Get(k)' = Get(k)
      /\ \A i : readsOf(i)' = readsOf(i)
    BY <1>1, Steady
<1>4. LoadsReturned'
  <2>1. \A i \in loads : Get(readsOf(i).required)' = Get(readsOf(i).required)
    BY <1>3
  <2> QED
    BY <1>1, <1>3, <2>1 DEF LoadsReturned, Collected, keysOf
<1>5. ClientsReturned'
    BY <1>1, <1>3, SteadyCauses DEF ClientsReturned
<1>6. KeysUsed' /\ BuiltByCall'
    BY <1>1, NothingNoted, ReturnsBuilt
<1>7. EngineMade' /\ StrictCalled' /\ JobsNamed' /\ JobsKept'
    BY DEF EngineMade, StrictCalled, JobsNamed, JobsKept, jobVars, locatedAt, schedulable,
           removed, ensureEngine, New, Runs
<1> QED
    BY <1>2, <1>4, <1>5, <1>6, <1>7

\* Validate.
LEMMA ValidateInv ==
    ASSUME BootInv, Validate
    PROVE  BootInv'
<1>1. /\ phase = "initialize" /\ step = Len(program) + 1 /\ Types
      /\ UNCHANGED <<inputVars, scanVars, storeVars, hostURIs, urls, reachable, program, step,
                     opts, built, jobVars>>
      /\ UNCHANGED <<values, usedKeys>>
    BY DEF Validate, BootInv, Types, storeVars
<1>2. phase' \in Phases
    BY DEF Validate, Phases
<1>3. /\ Types' /\ LoadsReturned' /\ ClientsReturned' /\ KeysUsed' /\ BuiltByCall'
      /\ EngineMade' /\ StrictCalled' /\ JobsNamed' /\ JobsKept' /\ targets' = targets
    BY <1>1, <1>2, StartKeeps
<1>4. /\ loads' = loads /\ \A k : Get(k)' = Get(k)
      /\ \A i : readsOf(i)' = readsOf(i)
    BY <1>1, Steady
<1>5. CASE ValidateUnused # {}
  <2>1. phase' = "panicked"
    BY <1>5 DEF Validate
  <2>2. PICK k \in DOMAIN values : k \notin usedKeys
    BY <1>5 DEF ValidateUnused, Keys
  <2>3. CASE \A i \in loads : k \notin knownKeys(i)
    <3>1. \A i : knownKeys(i)' = knownKeys(i)
      BY <1>1, <1>4 DEF knownKeys, keysOf, at
    <3> QED
      BY <1>1, <1>3, <1>4, <2>1, <2>3, <3>1
      DEF BootInv, InOrder, Probed, AllReached, PanicHasCause, UnknownProperty
  <2>4. CASE \E i \in loads : k \in knownKeys(i)
    <3>1. PICK i \in loads : k \in knownKeys(i)
      BY <2>4
    <3> DEFINE p == program[i].prefix
    <3>2. k \notin keysOf(readsOf(i))
      BY <1>1, <2>2 DEF BootInv, LoadsReturned, loads, Types
    <3>3. program[i].kind = "kafka" /\ k = <<p, "queue.capacity">>
      BY <3>1, <3>2 DEF knownKeys, at
    <3>4. Get(<<p, "pool.size">>) = << >>
      BY <3>2, <3>3, KafkaReads DEF readsOf
    <3>5. CapacityAlone
      BY <2>2, <3>3, <3>4 DEF CapacityAlone
    <3>6. CapacityAlone'
      BY <1>1, <1>4, <3>5 DEF CapacityAlone, Get
    <3> QED
      BY <1>1, <1>3, <2>1, <3>6 DEF BootInv, InOrder, Probed, AllReached, PanicHasCause
  <2> QED
    BY <2>3, <2>4
<1>6. CASE ValidateUnused = {}
  <2>1. phase' = "check" /\ Check
    BY <1>6 DEF Validate
  <2>2. InOrder' /\ AllReached' /\ PanicHasCause'
    BY <1>1, <1>6, <2>1 DEF InOrder, AllReached, PanicHasCause, ValidateUnused, Keys
  <2>3. Probed'
    BY <1>3, <2>1 DEF Probed, Check
  <2> QED
    BY <1>3, <2>2, <2>3 DEF BootInv
<1> QED
    BY <1>5, <1>6

\* The goroutines of the probe.
LEMMA ProbingInv ==
    ASSUME BootInv, Probing
    PROVE  BootInv'
<1>1. /\ phase = "check" /\ phase' = "check" /\ errChOpen
      /\ UNCHANGED <<inputVars, scanVars, storeVars, hostURIs, urls, reachable, program, step,
                     opts, built, jobVars>>
      /\ UNCHANGED <<values, usedKeys>>
    BY DEF Probing, appVars, storeVars
<1>2. /\ Types' /\ LoadsReturned' /\ ClientsReturned' /\ KeysUsed' /\ BuiltByCall'
      /\ EngineMade' /\ StrictCalled' /\ JobsNamed' /\ JobsKept' /\ targets' = targets
    BY <1>1, StartKeeps DEF Phases
<1>3. InOrder' /\ AllReached' /\ PanicHasCause'
    BY <1>1 DEF BootInv, InOrder, AllReached, PanicHasCause, Keys
<1>4. /\ probes \in [1 .. Len(targets) -> {"running", "send", "done"}] /\ errCh \in Nat
      /\ errCh = 0 => \A i \in 1 .. Len(targets) : probes[i] = "done" => targets[i] \in reachable
      /\ errCh > 0 \/ (\E i \in 1 .. Len(targets) : probes[i] = "send") => ProbeFailed
    BY <1>1 DEF BootInv, Probed
<1>5. ASSUME NEW i \in DOMAIN probes, probeSucceeds(i)
      PROVE  Probed'
    BY <1>1, <1>2, <1>4, <1>5 DEF probeSucceeds, Probed, ProbeFailed
<1>6. ASSUME NEW i \in DOMAIN probes, probeFails(i)
      PROVE  Probed'
    BY <1>1, <1>2, <1>4, <1>6 DEF probeFails, Probed, ProbeFailed
<1>7. ASSUME NEW i \in DOMAIN probes, sendErr(i)
      PROVE  Probed'
    BY <1>1, <1>2, <1>4, <1>7 DEF sendErr, Probed, ProbeFailed
<1>8. CASE deadlinePasses
    BY <1>1, <1>2, <1>3, <1>4, <1>8 DEF deadlinePasses, BootInv, Probed, ProbeFailed
<1>9. CASE closeErrCh
    BY <1>1, <1>2, <1>3, <1>4, <1>9 DEF closeErrCh, BootInv, Probed, ProbeFailed, waited
<1> QED
    BY <1>2, <1>3, <1>5, <1>6, <1>7, <1>8, <1>9 DEF BootInv, Probing

\* Check returns.
LEMMA CheckReturnsInv ==
    ASSUME BootInv, CheckReturns
    PROVE  BootInv'
<1>1. /\ phase = "check" /\ phase' = IF errCh > 0 THEN "panicked" ELSE "started"
      /\ ~errChOpen /\ UNCHANGED probeVars
      /\ UNCHANGED <<inputVars, scanVars, storeVars, hostURIs, urls, reachable, program, step,
                     opts, built, jobVars>>
      /\ UNCHANGED <<values, usedKeys>>
    BY DEF CheckReturns, storeVars
<1>2. /\ Types' /\ LoadsReturned' /\ ClientsReturned' /\ KeysUsed' /\ BuiltByCall'
      /\ EngineMade' /\ StrictCalled' /\ JobsNamed' /\ JobsKept' /\ targets' = targets
    BY <1>1, StartKeeps DEF Phases
<1>3. InOrder' /\ Probed'
    BY <1>1 DEF BootInv, InOrder, Probed, Keys
<1>4. /\ probes \in [1 .. Len(targets) -> {"running", "send", "done"}] /\ errCh \in Nat
      /\ errCh = 0 => \A i \in 1 .. Len(targets) : probes[i] = "done" => targets[i] \in reachable
      /\ errCh > 0 => ProbeFailed
      /\ \A i \in DOMAIN probes : probes[i] = "done"
    BY <1>1 DEF BootInv, Probed, waited
<1>5. AllReached'
    BY <1>1, <1>2, <1>4 DEF AllReached
<1>6. PanicHasCause'
    BY <1>1, <1>2, <1>4 DEF PanicHasCause, ProbeFailed, probeVars
<1> QED
    BY <1>2, <1>3, <1>5, <1>6 DEF BootInv

\* A step that changes nothing.
LEMMA StutterInv ==
    ASSUME BootInv, UNCHANGED vars
    PROVE  BootInv'
<1>1. UNCHANGED <<inputVars, scanVars, storeVars, hostURIs, urls, reachable, program, step,
                  opts, built, jobVars, phase, probes, errCh, errChOpen, deadline, values,
                  usedKeys>>
    BY DEF vars, appVars, probeVars, storeVars
<1>2. /\ Types' /\ LoadsReturned' /\ ClientsReturned' /\ KeysUsed' /\ BuiltByCall'
      /\ EngineMade' /\ StrictCalled' /\ JobsNamed' /\ JobsKept' /\ targets' = targets
    BY <1>1, StartKeeps DEF BootInv, Types
<1>3. ProbeFailed' = ProbeFailed
    BY <1>1, <1>2 DEF ProbeFailed
<1>4. InOrder' /\ Probed' /\ AllReached'
    BY <1>1, <1>2, <1>3 DEF BootInv, InOrder, Probed, AllReached, Keys, waited
<1>5. /\ loads' = loads /\ clients' = clients /\ \A k : Get(k)' = Get(k)
      /\ \A i : readsOf(i)' = readsOf(i)
      /\ \A i : schedulable(i)' = schedulable(i)
    BY <1>1, Steady
<1>6. BadSetting => BadSetting'
    BY <1>1, BadNow DEF BadSetting
<1>7. ClientUseless' = ClientUseless /\ ServerTooEarly' = ServerTooEarly
    BY <1>1, <1>5, SteadyCauses DEF ClientUseless, ServerTooEarly
<1>8. UnknownProperty' = UnknownProperty
  <2>1. \A i : knownKeys(i)' = knownKeys(i)
    BY <1>1, <1>5 DEF knownKeys, keysOf, at
  <2> QED
    BY <1>1, <1>5, <2>1 DEF UnknownProperty
<1>9. CapacityAlone' = CapacityAlone /\ BuiltBefore' = BuiltBefore /\ JobRefused' = JobRefused
    BY <1>1, <1>5 DEF CapacityAlone, Get, BuiltBefore, JobRefused
<1>10. PanicHasCause'
    BY <1>1, <1>3, <1>6, <1>7, <1>8, <1>9 DEF BootInv, PanicHasCause
<1> QED
    BY <1>2, <1>4, <1>10 DEF BootInv

----------------------------------------------------------------------------
(* The theorems.                                                            *)

\* Nothing is read or built at the beginning.
LEMMA InitInv == Init => BootInv
<1> SUFFICES ASSUME Init PROVE BootInv
    OBVIOUS
<1>1. PICK s \in Scenarios : envFS = s.envFS /\ program = s.program
    BY DEF Init
<1>2. program \in Seq(Calls)
      /\ \A e \in DOMAIN envFS : envFS[e] # NoFile => envFS[e] \in Seq(LineRecords)
    BY <1>1, ScenariosAssumption
<1>3. << >> \in Seq(LineRecords) /\ << >> \in Seq(Pieces)
    OBVIOUS
<1>4. DOMAIN << >> = {}
    OBVIOUS
<1>5. Types
  <2>1. IsSeq(hostURIs) /\ IsSeq(urls)
    BY <1>3, SeqIsSeq DEF Init
  <2>2. opts \in [{"grpc", "grpcClient"} -> Nat]
    BY DEF Init
  <2>3. step \in 1 .. Len(program) + 1
    BY <1>2 DEF Init
  <2> QED
    BY <1>2, <1>3, <1>4, <2>1, <2>2, <2>3 DEF Init, Types, Phases
<1>6. InOrder /\ Probed /\ AllReached /\ PanicHasCause
    BY DEF Init, InOrder, Probed, AllReached, PanicHasCause
<1>7. LoadsReturned /\ ClientsReturned /\ KeysUsed
    BY DEF Init, LoadsReturned, ClientsReturned, KeysUsed, loads, clients
<1>8. BuiltByCall /\ JobsNamed
    BY <1>4 DEF Init, InitJobs, BuiltByCall, JobsNamed
<1>9. EngineMade /\ StrictCalled /\ JobsKept
    BY DEF Init, InitJobs, EngineMade, StrictCalled, JobsKept, locatedAt, ensureEngine, New
<1> QED
    BY <1>5, <1>6, <1>7, <1>8, <1>9 DEF BootInv

\* Every step of a start keeps the invariant.
LEMMA NextInv == BootInv /\ [Next]_vars => BootInv'
<1> SUFFICES ASSUME BootInv, [Next]_vars PROVE BootInv'
    OBVIOUS
<1>1. CASE OpenFile \/ ScanLine \/ EndOfFile
    BY <1>1, LoadInv
<1>2. CASE LoadFromPrefix \/ Register \/ Server \/ AddOpt \/ AddURL
    BY <1>2, LoadFromPrefixInv, RegisterInv, ServerInv, AddOptInv, AddURLInv
<1>3. CASE UseClient \/ Subscribe \/ Schedule
    BY <1>3, UseClientInv, SubscribeInv, ScheduleInv
<1>4. CASE Validate \/ Probing \/ CheckReturns
    BY <1>4, ValidateInv, ProbingInv, CheckReturnsInv
<1>5. CASE UNCHANGED vars
    BY <1>5, StutterInv
<1> QED
    BY <1>1, <1>2, <1>3, <1>4, <1>5 DEF Next

\* The inductive invariant holds of every start: of every application, property
\* file and network.
THEOREM BootInvariant == Spec => []BootInv
BY InitInv, NextInv, PTL DEF Spec

\* An application that App.Start lets through has every property read, every
\* endpoint probed, every client answering, every option applied and every job
\* it added scheduled.
THEOREM BootStartedIsReady == Spec => []StartedIsReady
<1>1. BootInv => StartedIsReady
  <2> SUFFICES ASSUME BootInv, phase = "started"
               PROVE  /\ PropertiesRead /\ EndpointsProbed /\ URLsProbed
                      /\ ClientsAnswer /\ OptionsApplied /\ JobsScheduled
    BY DEF StartedIsReady
  <2> USE DEF BootInv
  <2>1. /\ step = Len(program) + 1 /\ Len(program) \in Nat /\ DOMAIN values \subseteq usedKeys
        /\ \A i \in 1 .. Len(targets) : targets[i] \in reachable
    BY DEF InOrder, Keys, Types, AllReached
  <2>2. \A i \in loads \cup clients : i < step
    BY <2>1 DEF loads, clients
  <2>3. /\ Len(hostURIs) \in Nat /\ Len(urls) \in Nat /\ Len(targets) = Len(hostURIs) + Len(urls)
        /\ \A i \in 1 .. Len(hostURIs) : targets[i] = hostURIs[i]
        /\ \A i \in 1 .. Len(urls) : targets[Len(hostURIs) + i] = urls[i]
    <3>1. IsSeq(hostURIs) /\ IsSeq(urls)
      BY DEF Types
    <3> QED
      BY <3>1, CatSeq DEF targets
  <2>4. PropertiesRead
    BY <2>1 DEF PropertiesRead, KeysUsed
  <2>5. EndpointsProbed
    <3>1. \A h : Collected(h) => h \in reachable
      <4>1. 1 .. Len(hostURIs) \subseteq 1 .. Len(targets)
        BY <2>3
      <4> QED
        BY <2>1, <2>3, <4>1 DEF Collected
    <3> QED
      BY <2>2, <3>1 DEF EndpointsProbed, LoadsReturned
  <2>6. URLsProbed
    <3>1. \A i \in 1 .. Len(urls) : Len(hostURIs) + i \in 1 .. Len(targets)
      BY <2>3
    <3> QED
      BY <2>1, <2>3, <3>1 DEF URLsProbed
  <2>7. ClientsAnswer
    BY <2>2 DEF ClientsAnswer, ClientsReturned
  <2>8. OptionsApplied
    BY DEF OptionsApplied, BuiltByCall
  <2>9. JobsScheduled
    <3>1. step - 1 = Len(program)
      BY <2>1
    <3> QED
      BY <3>1 DEF JobsScheduled, JobsKept
  <2> QED
    BY <2>4, <2>5, <2>6, <2>7, <2>8, <2>9
<1> QED
    BY <1>1, BootInvariant, PTL

\* A start that panics has its reason in the configuration, in the order of the
\* calls of Initialize or in the network.
THEOREM BootPanicHasCause == Spec => []PanicHasCause
<1>1. BootInv => PanicHasCause
    BY DEF BootInv
<1> QED
    BY <1>1, BootInvariant, PTL

----------------------------------------------------------------------------
(* Induction over lists of lines.                                           *)

\* Every set of numbers that is not empty has a least element, ...
LEMMA SetMin ==
    ASSUME NEW T, T \subseteq Nat, T # {}
    PROVE  \E x \in T : \A y \in T : x <= y
<1> DEFINE R == OpToRel(<, Nat)
<1>1. IsWellFoundedOn(R, Nat)
    BY NatLessThanWellFounded, Zenon
<1> HIDE DEF R
<1>2. PICK x \in T : \A y \in T : ~ (<<y, x>> \in R)
    BY <1>1, WFMin
<1>3. \A y \in T : y < x => <<y, x>> \in R
    BY DEF R, OpToRel
<1>4. \A y \in T : ~(y < x)
    BY <1>2, <1>3
<1>5. \A y \in T : x <= y
    BY <1>4
<1> QED
    BY <1>5

\* ... and, when it is bounded, a greatest one.
LEMMA SetMax ==
    ASSUME NEW n \in Nat, NEW T, T \subseteq 1 .. n, T # {}
    PROVE  \E x \in T : \A y \in T : x >= y
<1> DEFINE U == {n - y : y \in T}
<1>1. U \subseteq Nat /\ U # {}
  <2>1. \A y \in T : n - y \in Nat
    OBVIOUS
  <2>2. \E y : y \in T
    OBVIOUS
  <2> QED
    BY <2>1, <2>2
<1>2. PICK u \in U : \A w \in U : u <= w
    <2> HIDE DEF U
    <2> QED
      BY <1>1, SetMin
<1>3. PICK x \in T : u = n - x
    OBVIOUS
<1>4. \A y \in T : n - x <= n - y
    BY <1>2, <1>3
<1>5. \A y \in T : x >= y
    BY <1>4
<1> QED
    BY <1>5

\* f flattens the first N lists of ss, as FlattenSeq does.
IsFlat(f, ss, N) ==
    f = [i \in 1 .. N |-> IF i = 1 THEN ss[i] ELSE f[i - 1] \o ss[i]]

\* There is such a function for every N ...
LEMMA FlatExists ==
    ASSUME NEW ss, NEW N \in Nat
    PROVE  \E f : IsFlat(f, ss, N)
<1> DEFINE T == {n \in Nat : ~\E f : IsFlat(f, ss, n)}
<1> SUFFICES ASSUME T # {} PROVE FALSE
    OBVIOUS
<1>1. PICK n \in T : \A m \in T : n <= m
    BY SetMin
<1>2. n # 0
  <2> DEFINE f0 == [i \in 1 .. 0 |-> ss[i]]
  <2>1. IsFlat(f0, ss, 0)
    BY DEF IsFlat
  <2> HIDE DEF f0
  <2> QED
    BY <2>1
<1>3. n - 1 \in Nat /\ n - 1 \notin T
    BY <1>1, <1>2
<1>4. PICK f : IsFlat(f, ss, n - 1)
    BY <1>3
<1> DEFINE g == [i \in 1 .. n |->
                    IF i = n THEN (IF i = 1 THEN ss[i] ELSE f[i - 1] \o ss[i]) ELSE f[i]]
<1>5. \A i \in 1 .. n - 1 : f[i] = IF i = 1 THEN ss[i] ELSE f[i - 1] \o ss[i]
    BY <1>4 DEF IsFlat
<1>6. \A i \in 1 .. n : g[i] = IF i = 1 THEN ss[i] ELSE g[i - 1] \o ss[i]
  <2> SUFFICES ASSUME NEW i \in 1 .. n
               PROVE  g[i] = IF i = 1 THEN ss[i] ELSE g[i - 1] \o ss[i]
    OBVIOUS
  <2>1. i # 1 => i - 1 \in 1 .. n - 1 /\ g[i - 1] = f[i - 1]
    BY <1>3
  <2>2. CASE i = n
    BY <2>1, <2>2
  <2>3. CASE i # n
    <3>1. i \in 1 .. n - 1 /\ g[i] = f[i]
      BY <1>3, <2>3
    <3> QED
      BY <1>5, <2>1, <3>1
  <2> QED
    BY <2>2, <2>3
<1>7. IsFlat(g, ss, n)
  <2>1. g = [i \in 1 .. n |-> g[i]]
    OBVIOUS
  <2> HIDE DEF g
  <2>2. [i \in 1 .. n |-> g[i]] = [i \in 1 .. n |-> IF i = 1 THEN ss[i] ELSE g[i - 1] \o ss[i]]
    BY <1>6
  <2> QED
    BY <2>1, <2>2 DEF IsFlat
<1> HIDE DEF g
<1> QED
    BY <1>1, <1>7

\* ... and what it does with the first lists does not depend on the others.
LEMMA FlatAgree ==
    ASSUME NEW M \in Nat, NEW N \in Nat, M <= N, NEW ss, NEW tt, NEW f, NEW g,
           IsFlat(f, ss, M), IsFlat(g, tt, N), \A i \in 1 .. M : ss[i] = tt[i]
    PROVE  \A i \in 1 .. M : f[i] = g[i]
<1> DEFINE T == {i \in 1 .. M : f[i] # g[i]}
<1> SUFFICES ASSUME T # {} PROVE FALSE
    OBVIOUS
<1>1. T \subseteq Nat
    OBVIOUS
<1>2. PICK i \in T : \A j \in T : i <= j
    <2> HIDE DEF T
    <2> QED
      BY <1>1, SetMin
<1>3. /\ f[i] = IF i = 1 THEN ss[i] ELSE f[i - 1] \o ss[i]
      /\ g[i] = IF i = 1 THEN tt[i] ELSE g[i - 1] \o tt[i]
  <2>1. i \in 1 .. M /\ i \in 1 .. N
    OBVIOUS
  <2>2. \A j \in 1 .. M : f[j] = IF j = 1 THEN ss[j] ELSE f[j - 1] \o ss[j]
    BY DEF IsFlat
  <2>3. \A j \in 1 .. N : g[j] = IF j = 1 THEN tt[j] ELSE g[j - 1] \o tt[j]
    BY DEF IsFlat
  <2> QED
    BY <2>1, <2>2, <2>3
<1>4. i # 1 => i - 1 \in 1 .. M /\ i - 1 \notin T
    BY <1>2
<1> QED
    BY <1>3, <1>4

\* What FlattenSeq is.
LEMMA FlattenIs ==
    ASSUME NEW ss, Len(ss) \in Nat \ {0}
    PROVE  \E f : IsFlat(f, ss, Len(ss)) /\ FlattenSeq(ss) = f[Len(ss)]
<1>1. \E f : IsFlat(f, ss, Len(ss))
    BY FlatExists
<1> QED
    BY <1>1 DEF FlattenSeq, IsFlat

\* Flattening a list of texts gives a text.
LEMMA FlattenType ==
    ASSUME NEW S, NEW ss \in Seq(Seq(S))
    PROVE  FlattenSeq(ss) \in Seq(S)
<1>1. CASE Len(ss) = 0
  <2>1. ss = << >> /\ FlattenSeq(ss) = ss
    BY <1>1 DEF FlattenSeq
  <2>2. << >> \in Seq(S)
    OBVIOUS
  <2> QED
    BY <2>1, <2>2
<1>2. CASE Len(ss) # 0
  <2>1. PICK f : IsFlat(f, ss, Len(ss)) /\ FlattenSeq(ss) = f[Len(ss)]
    BY <1>2, FlattenIs
  <2> DEFINE T == {i \in 1 .. Len(ss) : f[i] \notin Seq(S)}
  <2>2. ASSUME T # {} PROVE FALSE
    <3>1. T \subseteq Nat
      OBVIOUS
    <3>2. PICK i \in T : \A j \in T : i <= j
      <4> HIDE DEF T
      <4> QED
        BY <2>2, <3>1, SetMin
    <3>3. f[i] = IF i = 1 THEN ss[i] ELSE f[i - 1] \o ss[i]
      BY <2>1 DEF IsFlat
    <3>4. i # 1 => i - 1 \in 1 .. Len(ss) /\ i - 1 \notin T
      BY <3>2
    <3>5. ss[i] \in Seq(S)
      OBVIOUS
    <3>6. i # 1 => f[i - 1] \in Seq(S)
      BY <3>4
    <3>7. i # 1 => f[i - 1] \o ss[i] \in Seq(S)
      BY <3>5, <3>6
    <3> QED
      BY <3>3, <3>5, <3>7
  <2> QED
    BY <1>2, <2>1, <2>2
<1> QED
    BY <1>1, <1>2

\* Flattening one list more.
LEMMA FlattenNext ==
    ASSUME NEW S, NEW ss \in Seq(Seq(S)), NEW tt \in Seq(Seq(S)),
           Len(tt) = Len(ss) + 1, \A i \in 1 .. Len(ss) : tt[i] = ss[i]
    PROVE  FlattenSeq(tt) = FlattenSeq(ss) \o tt[Len(tt)]
<1>1. PICK g : IsFlat(g, tt, Len(tt)) /\ FlattenSeq(tt) = g[Len(tt)]
    BY FlattenIs
<1>2. CASE Len(ss) = 0
  <2>1. ss = << >> /\ FlattenSeq(ss) = << >>
    BY <1>2 DEF FlattenSeq
  <2>2. g[1] = tt[1] /\ tt[1] \in Seq(S) /\ Len(tt) = 1
    BY <1>1, <1>2 DEF IsFlat
  <2>3. << >> \o tt[1] = tt[1]
    BY <2>2
  <2> QED
    BY <1>1, <2>1, <2>2, <2>3
<1>3. CASE Len(ss) # 0
  <2> DEFINE m == Len(ss)
             n == Len(tt)
  <2>1. m \in Nat /\ n \in Nat /\ m # 0 /\ n = m + 1
    BY <1>3
  <2>2. PICK f : IsFlat(f, ss, m) /\ FlattenSeq(ss) = f[m]
    BY <2>1, FlattenIs
  <2>3. IsFlat(g, tt, n) /\ FlattenSeq(tt) = g[n] /\ \A i \in 1 .. m : ss[i] = tt[i]
    BY <1>1
  <2> HIDE DEF m, n
  <2>4. \A i \in 1 .. m : f[i] = g[i]
    BY <2>1, <2>2, <2>3, FlatAgree
  <2>5. \A j \in 1 .. n : g[j] = IF j = 1 THEN tt[j] ELSE g[j - 1] \o tt[j]
    BY <2>3 DEF IsFlat
  <2>6. g[n] = g[m] \o tt[n]
    <3>1. n \in 1 .. n /\ n # 1 /\ n - 1 = m
      BY <2>1
    <3> QED
      BY <2>5, <3>1
  <2>7. f[m] = g[m]
    BY <2>1, <2>4
  <2> QED
    BY <2>2, <2>3, <2>6, <2>7 DEF n
<1> QED
    BY <1>2, <1>3

----------------------------------------------------------------------------
(* What n lines of a file say.                                              *)

\* Line i is an assignment of its own, ...
Begins(f, i) == f[i].kind = "assign" /\ ~joined(f, i)

\* ... it goes on after line n, ...
Open(f, i, n) == Begins(f, i) /\ \A k \in i .. n : f[k].cont

\* ... it ends with line e.
Ends(f, i, e) == ~f[e].cont /\ \A k \in i .. e - 1 : f[k].cont

\* The assignments of keys that have ended by line n.
Closed(f, n) ==
    {i \in 1 .. n : Begins(f, i) /\ f[i].key # EmptyKey /\ \E k \in i .. n : ~f[k].cont}

\* The text of line i and the m lines that continue it.
Lines(f, i, m) == [n \in 1 .. m |-> whole(f[i + n])]
Text(f, i, m) == f[i].text \o FlattenSeq(Lines(f, i, m))

\* No later assignment of its key has ended.
Latest(f, i, n) == \A j \in Closed(f, n) : f[j].key = f[i].key => j <= i

\* v has what the assignments say that have ended by line n.
Table(v, f, n) ==
    /\ v = [k \in DOMAIN v |-> v[k]]
    /\ DOMAIN v = {f[i].key : i \in Closed(f, n)}
    /\ \A i \in Closed(f, n) : \A e \in i .. n :
          Ends(f, i, e) /\ Latest(f, i, n) => v[f[i].key] = Text(f, i, e - i)

\* A table with one more entry, as addProperty makes it.
Added(v, k, text) ==
    IF k = EmptyKey THEN v
    ELSE [x \in DOMAIN v \cup {k} |-> IF x = k THEN text ELSE v[x]]

\* The lines of a text are texts.
LEMMA LinesType ==
    ASSUME NEW f \in Seq(LineRecords), NEW i \in 1 .. Len(f), NEW m \in Nat, i + m <= Len(f)
    PROVE  Lines(f, i, m) \in Seq(Seq(Pieces)) /\ Len(Lines(f, i, m)) = m
<1>1. \A n \in 1 .. m : whole(f[i + n]) \in Seq(Pieces)
  <2>1. \A n \in 1 .. m : i + n \in 1 .. Len(f)
    OBVIOUS
  <2> QED
    BY <2>1, WholeText
<1> QED
    BY <1>1 DEF Lines

\* The text of an assignment without continuation lines ...
LEMMA TextOne ==
    ASSUME NEW f \in Seq(LineRecords), NEW i \in 1 .. Len(f)
    PROVE  Text(f, i, 0) = f[i].text
<1>1. Len(Lines(f, i, 0)) = 0 /\ Lines(f, i, 0) \in Seq(Seq(Pieces))
    BY LinesType
<1>2. FlattenSeq(Lines(f, i, 0)) = << >>
    BY <1>1 DEF FlattenSeq
<1>3. f[i].text \in Seq(Pieces)
    BY WholeText
<1>4. f[i].text \o << >> = f[i].text
    BY <1>3
<1> QED
    BY <1>2, <1>4 DEF Text

\* ... and what one more line adds to it.
LEMMA TextNext ==
    ASSUME NEW f \in Seq(LineRecords), NEW i \in 1 .. Len(f), NEW m \in Nat,
           i + m + 1 <= Len(f)
    PROVE  Text(f, i, m + 1) = Text(f, i, m) \o whole(f[i + m + 1])
<1> DEFINE ss == Lines(f, i, m)
           tt == Lines(f, i, m + 1)
           t  == f[i].text
           w  == whole(f[i + m + 1])
<1>1. ss \in Seq(Seq(Pieces)) /\ tt \in Seq(Seq(Pieces)) /\ Len(ss) = m /\ Len(tt) = m + 1
    BY LinesType
<1>2. (\A n \in 1 .. m : tt[n] = ss[n]) /\ tt[m + 1] = w
    BY DEF Lines
<1>3. t \in Seq(Pieces)
    BY WholeText
<1>4. w \in Seq(Pieces)
  <2>1. i + m + 1 \in 1 .. Len(f)
    OBVIOUS
  <2> QED
    BY <2>1, WholeText
<1> HIDE DEF ss, tt, t, w
<1>5. FlattenSeq(tt) = FlattenSeq(ss) \o w /\ FlattenSeq(ss) \in Seq(Pieces)
    BY <1>1, <1>2, FlattenNext, FlattenType
<1>6. \A x, y, z \in Seq(Pieces) : x \o (y \o z) = (x \o y) \o z
    OBVIOUS
<1>7. t \o (FlattenSeq(ss) \o w) = (t \o FlattenSeq(ss)) \o w
    BY <1>3, <1>4, <1>5, <1>6
<1> QED
    BY <1>5, <1>7 DEF Text, ss, tt, t, w

\* Where a continuation goes on.
LEMMA JoinedNext ==
    ASSUME NEW f, NEW n \in Nat
    PROVE  joined(f, n + 2) <=>
              f[n + 1].cont /\ (joined(f, n + 1) \/ f[n + 1].kind = "assign")
<1>1. /\ 1 .. n + 2 - 1 = (1 .. n + 1 - 1) \cup {n + 1}
      /\ \A j \in 1 .. n : j .. n + 2 - 1 = (j .. n + 1 - 1) \cup {n + 1}
      /\ n + 1 .. n + 2 - 1 = {n + 1} /\ 1 .. n + 1 - 1 = 1 .. n
    OBVIOUS
<1> QED
    BY <1>1 DEF joined

\* An assignment that goes on joins the next line, ...
LEMMA OpenJoins ==
    ASSUME NEW f, NEW n \in Nat, NEW i \in 1 .. n, Open(f, i, n)
    PROVE  joined(f, n + 1) /\ \A j \in i + 1 .. n : ~Begins(f, j)
<1>1. i \in 1 .. n + 1 - 1 /\ n + 1 - 1 = n
    OBVIOUS
<1>2. joined(f, n + 1)
    BY <1>1 DEF joined, Open, Begins
<1>3. ASSUME NEW j \in i + 1 .. n PROVE joined(f, j)
  <2>1. i \in 1 .. j - 1 /\ \A k \in i .. j - 1 : k \in i .. n
    OBVIOUS
  <2> QED
    BY <2>1 DEF joined, Open, Begins
<1> QED
    BY <1>2, <1>3 DEF Begins

\* ... and there is one whenever the next line is joined.
LEMMA OpenExists ==
    ASSUME NEW f, NEW n \in Nat, joined(f, n + 1)
    PROVE  \E i \in 1 .. n : Open(f, i, n)
<1> DEFINE T == {j \in 1 .. n : f[j].kind = "assign" /\ \A k \in j .. n : f[k].cont}
<1>1. T \subseteq Nat /\ T # {}
  <2>1. n + 1 - 1 = n
    OBVIOUS
  <2> QED
    BY <2>1 DEF joined
<1>2. PICK i \in T : \A j \in T : i <= j
    <2> HIDE DEF T
    <2> QED
      BY <1>1, SetMin
<1>3. ~joined(f, i)
  <2> SUFFICES ASSUME joined(f, i) PROVE FALSE
    OBVIOUS
  <2>1. PICK j \in 1 .. i - 1 : f[j].kind = "assign" /\ \A k \in j .. i - 1 : f[k].cont
    BY DEF joined
  <2>2. j \in 1 .. n /\ j < i /\ \A k \in j .. n : k \in j .. i - 1 \/ k \in i .. n
    OBVIOUS
  <2>3. j \in T
    BY <2>1, <2>2
  <2> QED
    BY <1>2, <2>2, <2>3
<1> QED
    BY <1>3 DEF Open, Begins

\* An assignment that has ended by line n did so in one of the lines up to n.
LEMMA EndsBy ==
    ASSUME NEW f, NEW n \in Nat, NEW i \in Closed(f, n), NEW e \in Nat, Ends(f, i, e)
    PROVE  e <= n
<1>1. PICK k \in i .. n : ~f[k].cont
    BY DEF Closed
<1>2. i \in 1 .. n
    BY DEF Closed
<1>3. ~(k \in i .. e - 1)
    BY <1>1 DEF Ends
<1> QED
    BY <1>1, <1>2, <1>3

\* A line that ends no assignment leaves the table alone.
LEMMA TableSame ==
    ASSUME NEW f, NEW v, NEW n \in Nat, Table(v, f, n),
           \/ f[n + 1].cont
           \/ ~joined(f, n + 1) /\ f[n + 1].kind # "assign"
    PROVE  Table(v, f, n + 1)
<1>1. ASSUME NEW i \in Closed(f, n + 1) PROVE i \in Closed(f, n)
  <2>1. /\ i \in 1 .. n + 1 /\ Begins(f, i) /\ f[i].key # EmptyKey
        /\ \E k \in i .. n + 1 : ~f[k].cont
    BY DEF Closed
  <2>2. PICK k \in i .. n + 1 : ~f[k].cont
    BY <2>1
  <2>3. CASE k # n + 1
    <3>1. i \in 1 .. n /\ k \in i .. n
      BY <2>1, <2>3
    <3> QED
      BY <2>1, <2>2, <3>1 DEF Closed
  <2>4. CASE k = n + 1
    <3>1. ~joined(f, n + 1) /\ f[n + 1].kind # "assign"
      BY <2>2, <2>4
    <3>2. i # n + 1
      BY <2>1, <3>1 DEF Begins
    <3>3. i \in 1 .. n /\ n + 1 - 1 = n
      BY <2>1, <3>2
    <3>4. ~\A j \in i .. n : f[j].cont
      BY <2>1, <3>1, <3>3 DEF joined, Begins
    <3> QED
      BY <2>1, <3>3, <3>4 DEF Closed
  <2> QED
    BY <2>3, <2>4
<1>2. ASSUME NEW i \in Closed(f, n) PROVE i \in Closed(f, n + 1)
  <2>1. i \in 1 .. n + 1 /\ \A k \in i .. n : k \in i .. n + 1
    BY DEF Closed
  <2> QED
    BY <2>1 DEF Closed
<1>3. Closed(f, n + 1) = Closed(f, n)
    BY <1>1, <1>2
<1>4. ASSUME NEW i \in Closed(f, n + 1), NEW e \in i .. n + 1,
             Ends(f, i, e), Latest(f, i, n + 1)
      PROVE  v[f[i].key] = Text(f, i, e - i)
  <2>0. i \in Closed(f, n) /\ i \in 1 .. n /\ e \in Nat
    BY <1>3 DEF Closed
  <2>1. e \in i .. n
    BY <1>4, <2>0, EndsBy
  <2>2. Latest(f, i, n)
    BY <1>3, <1>4 DEF Latest
  <2> QED
    BY <1>4, <2>0, <2>1, <2>2 DEF Table
<1> QED
    BY <1>3, <1>4 DEF Table

\* A line that ends an assignment adds it.
LEMMA TableClose ==
    ASSUME NEW f, NEW v, NEW n \in Nat, NEW i \in 1 .. n + 1,
           Table(v, f, n), Begins(f, i), \A k \in i .. n : f[k].cont, ~f[n + 1].cont
    PROVE  Table(Added(v, f[i].key, Text(f, i, n + 1 - i)), f, n + 1)
<1> DEFINE t == Text(f, i, n + 1 - i)
           w == Added(v, f[i].key, t)
           new == IF f[i].key = EmptyKey THEN {} ELSE {i}
<1>1. \A j \in 1 .. n + 1 : Begins(f, j) => j <= i
  <2>1. CASE i = n + 1
    BY <2>1
  <2>2. CASE i # n + 1
    <3>1. i \in 1 .. n
      BY <2>2
    <3>2. joined(f, n + 1) /\ \A j \in i + 1 .. n : ~Begins(f, j)
      BY <3>1, OpenJoins DEF Open
    <3>3. ~Begins(f, n + 1)
      BY <3>2 DEF Begins
    <3>4. \A j \in 1 .. n + 1 : j <= i \/ j \in i + 1 .. n \/ j = n + 1
      BY <3>1
    <3> QED
      BY <3>2, <3>3, <3>4
  <2> QED
    BY <2>1, <2>2
<1>2. i \notin Closed(f, n)
    BY DEF Closed
<1>3. Closed(f, n + 1) = Closed(f, n) \cup new
  <2>1. ASSUME NEW j \in Closed(f, n) PROVE j \in Closed(f, n + 1)
    <3>1. j \in 1 .. n + 1 /\ \A k \in j .. n : k \in j .. n + 1
      BY DEF Closed
    <3> QED
      BY <3>1 DEF Closed
  <2>2. ASSUME NEW j \in new PROVE j \in Closed(f, n + 1)
    <3>1. j = i /\ f[i].key # EmptyKey /\ n + 1 \in i .. n + 1
      BY <2>2
    <3> QED
      BY <3>1 DEF Closed
  <2>3. ASSUME NEW j \in Closed(f, n + 1), j # i PROVE j \in Closed(f, n)
    <3>1. /\ j \in 1 .. n + 1 /\ Begins(f, j) /\ f[j].key # EmptyKey
          /\ \E k \in j .. n + 1 : ~f[k].cont
      BY DEF Closed
    <3>2. j < i
      BY <1>1, <2>3, <3>1
    <3>3. \E k \in j .. n : ~f[k].cont
      <4> SUFFICES ASSUME \A k \in j .. n : f[k].cont PROVE FALSE
        OBVIOUS
      <4>1. i - 1 \in Nat /\ j \in 1 .. i - 1 /\ i - 1 + 1 = i
            /\ \A k \in j .. i - 1 : k \in j .. n
        BY <3>1, <3>2
      <4>2. joined(f, i)
        BY <3>1, <4>1 DEF joined, Begins
      <4> QED
        BY <4>2 DEF Begins
    <3>4. j \in 1 .. n
      BY <3>1, <3>2
    <3> QED
      BY <3>1, <3>3, <3>4 DEF Closed
  <2>4. ASSUME i \in Closed(f, n + 1) PROVE i \in new
    BY <2>4 DEF Closed
  <2> QED
    BY <2>1, <2>2, <2>3, <2>4
<1>4. /\ DOMAIN v = {f[j].key : j \in Closed(f, n)}
      /\ v = [k \in DOMAIN v |-> v[k]]
    BY DEF Table
<1>5. CASE f[i].key = EmptyKey
  <2>1. w = v /\ Closed(f, n + 1) = Closed(f, n)
    BY <1>3, <1>5 DEF Added
  <2>2. ASSUME NEW j \in Closed(f, n + 1), NEW e \in j .. n + 1,
               Ends(f, j, e), Latest(f, j, n + 1)
        PROVE  v[f[j].key] = Text(f, j, e - j)
    <3>1. j \in Closed(f, n) /\ j \in 1 .. n /\ e \in Nat
      BY <2>1 DEF Closed
    <3>2. e \in j .. n
      BY <2>2, <3>1, EndsBy
    <3>3. Latest(f, j, n)
      BY <2>1, <2>2 DEF Latest
    <3> QED
      BY <2>2, <3>1, <3>2, <3>3 DEF Table
  <2>3. Table(v, f, n + 1)
    BY <1>4, <2>1, <2>2 DEF Table
  <2> QED
    BY <2>1, <2>3
<1>6. CASE f[i].key # EmptyKey
  <2>1. /\ DOMAIN w = DOMAIN v \cup {f[i].key}
        /\ w = [k \in DOMAIN w |-> w[k]]
        /\ w[f[i].key] = t
        /\ \A k \in DOMAIN v : k # f[i].key => w[k] = v[k]
    BY <1>6 DEF Added
  <2>2. Closed(f, n + 1) = Closed(f, n) \cup {i}
    BY <1>3, <1>6
  <2>3. DOMAIN w = {f[j].key : j \in Closed(f, n + 1)}
    BY <1>4, <2>1, <2>2
  <2>4. ASSUME NEW j \in Closed(f, n + 1), NEW e \in j .. n + 1,
               Ends(f, j, e), Latest(f, j, n + 1)
        PROVE  w[f[j].key] = Text(f, j, e - j)
    <3>0. j \in 1 .. n + 1 /\ e \in Nat /\ Begins(f, j)
      BY DEF Closed
    <3>1. CASE j = i
      <4>1. e = n + 1
        <5>1. e \notin i .. n
          BY <2>4, <3>1 DEF Ends
        <5> QED
          BY <3>0, <3>1, <5>1
      <4> QED
        BY <2>1, <3>1, <4>1
    <3>2. CASE j # i
      <4>1. j \in Closed(f, n)
        BY <2>2, <3>2
      <4>2. e \in j .. n
        BY <2>4, <3>0, <4>1, EndsBy
      <4>3. Latest(f, j, n)
        BY <2>2, <2>4 DEF Latest
      <4>4. f[j].key # f[i].key
        <5>1. f[i].key = f[j].key => i <= j
          BY <2>2, <2>4 DEF Latest
        <5>2. j <= i
          BY <1>1, <3>0
        <5> QED
          BY <3>0, <3>2, <5>1, <5>2
      <4>5. f[j].key \in DOMAIN v
        BY <1>4, <4>1
      <4>6. v[f[j].key] = Text(f, j, e - j)
        BY <2>4, <4>1, <4>2, <4>3 DEF Table
      <4> QED
        BY <2>1, <4>4, <4>5, <4>6
    <3> QED
      BY <3>1, <3>2
  <2> HIDE DEF w, t, new
  <2>5. Table(w, f, n + 1)
    BY <2>1, <2>3, <2>4 DEF Table
  <2> QED
    BY <2>5 DEF w, t
<1> QED
    BY <1>5, <1>6

----------------------------------------------------------------------------
(* What a file of these n lines says.                                       *)

\* g has the first n lines of f, and no others.
Starts(g, f, n) == Len(g) = n /\ \A k \in 1 .. n : g[k] = f[k]

\* The same lines are joined.
LEMMA JoinedSame ==
    ASSUME NEW f, NEW g, NEW n \in Nat, Starts(g, f, n), NEW i \in 1 .. n
    PROVE  joined(g, i) <=> joined(f, i)
<1>1. \A j \in 1 .. i - 1 : j \in 1 .. n /\ \A k \in j .. i - 1 : k \in 1 .. n
    OBVIOUS
<1>2. \A k \in 1 .. n : g[k] = f[k]
    BY DEF Starts
<1>3. \A j \in 1 .. i - 1 : /\ g[j] = f[j]
                            /\ \A k \in j .. i - 1 : g[k] = f[k]
    BY <1>1, <1>2
<1> HIDE DEF Starts
<1> QED
    BY <1>3 DEF joined

\* The text of an assignment ends with the first line without a backslash, or
\* with the last line.
LEMMA TextAt ==
    ASSUME NEW f, NEW g, NEW n \in Nat, Starts(g, f, n),
           NEW i \in 1 .. n, NEW e \in i .. n,
           \A k \in i .. e - 1 : f[k].cont, e = n \/ ~f[e].cont
    PROVE  textAt(g, i) = Text(f, i, e - i)
<1> DEFINE after == {k \in i + 1 .. Len(g) : \A j \in i .. k - 1 : g[j].cont}
<1>1. Len(g) = n /\ \A k \in 1 .. n : g[k] = f[k]
    BY DEF Starts
<1>2. after = i + 1 .. e
  <2>1. ASSUME NEW k \in after PROVE k \in i + 1 .. e
    <3>1. k \in i + 1 .. n /\ \A j \in i .. k - 1 : g[j].cont
      BY <1>1, <2>1
    <3>2. CASE e = n
      BY <3>1, <3>2
    <3>3. CASE ~f[e].cont
      <4>1. e \notin i .. k - 1
        BY <1>1, <3>1, <3>3
      <4> QED
        BY <3>1, <4>1
    <3> QED
      BY <3>2, <3>3
  <2>2. ASSUME NEW k \in i + 1 .. e PROVE k \in after
    <3>1. k \in i + 1 .. n /\ \A j \in i .. k - 1 : j \in i .. e - 1 /\ j \in 1 .. n
      OBVIOUS
    <3> QED
      BY <1>1, <3>1
  <2> HIDE DEF after
  <2> QED
    BY <2>1, <2>2
<1>3. Cardinality(i + 1 .. e) = e - i
  <2>1. i + 1 \in Int /\ e \in Int
    OBVIOUS
  <2>2. Cardinality(i + 1 .. e) = IF i + 1 > e THEN 0 ELSE e - (i + 1) + 1
    BY <2>1, FS_Interval
  <2> QED
    BY <2>2
<1>4. g[i].text = f[i].text /\ \A m \in 1 .. e - i : whole(g[i + m]) = whole(f[i + m])
  <2>1. \A m \in 1 .. e - i : i + m \in 1 .. n
    OBVIOUS
  <2> QED
    BY <1>1, <2>1
<1>5. textAt(g, i) = g[i].text \o FlattenSeq([m \in 1 .. Cardinality(after) |-> whole(g[i + m])])
    BY DEF textAt
<1> HIDE DEF after
<1>6. textAt(g, i) = g[i].text \o FlattenSeq([m \in 1 .. e - i |-> whole(g[i + m])])
    BY <1>2, <1>3, <1>5
<1>7. [m \in 1 .. e - i |-> whole(g[i + m])] = [m \in 1 .. e - i |-> whole(f[i + m])]
    BY <1>4
<1> QED
    BY <1>4, <1>6, <1>7 DEF Text, Lines

\* The greatest number of a bounded set.
LEMMA MaxIs ==
    ASSUME NEW n \in Nat, NEW T, T \subseteq 1 .. n, T # {}
    PROVE  Max(T) \in T /\ \A y \in T : Max(T) >= y
<1>1. \E x \in T : \A y \in T : x >= y
    BY SetMax
<1> QED
    BY <1>1 DEF Max

\* The line an assignment ends with.
LEMMA EndExists ==
    ASSUME NEW f, NEW n \in Nat, NEW i \in Closed(f, n)
    PROVE  \E e \in i .. n : Ends(f, i, e)
<1> DEFINE T == {k \in i .. n : ~f[k].cont}
<1>1. T \subseteq Nat /\ T # {} /\ i \in 1 .. n
    BY DEF Closed
<1>2. PICK e \in T : \A k \in T : e <= k
  <2> HIDE DEF T
  <2> QED
    BY <1>1, SetMin
<1>3. \A k \in i .. e - 1 : k \in i .. n /\ ~(e <= k)
    BY <1>1
<1> QED
    BY <1>2, <1>3 DEF Ends

\* The scanner's table when the lines end: an assignment that still goes on is
\* added as it is.
LEMMA TableWritten ==
    ASSUME NEW f, NEW g, NEW n \in Nat, Starts(g, f, n), NEW v, NEW w, Table(v, f, n),
           \/ ~joined(f, n + 1) /\ w = v
           \/ \E i \in 1 .. n : Open(f, i, n) /\ w = Added(v, f[i].key, Text(f, i, n - i))
    PROVE  w = written(g)
<1> DEFINE starts == {i \in 1 .. Len(g) : g[i].kind = "assign" /\ g[i].key # EmptyKey
                                          /\ ~joined(g, i)}
           of(k) == {i \in starts : g[i].key = k}
           keys == {g[i].key : i \in starts}
<1>1. Len(g) = n /\ \A k \in 1 .. n : g[k] = f[k]
    BY DEF Starts
<1>2. starts = {i \in 1 .. n : Begins(f, i) /\ f[i].key # EmptyKey}
    BY <1>1, JoinedSame DEF Begins
<1>3. written(g) = [k \in keys |-> textAt(g, Max(of(k)))]
    BY DEF written
<1>4. \A i \in starts : i \in 1 .. n /\ g[i] = f[i]
    BY <1>1
<1> HIDE DEF starts
<1>5. Closed(f, n) \subseteq starts
    BY <1>2 DEF Closed
<1>6. ASSUME NEW i \in starts PROVE i \in Closed(f, n) \/ Open(f, i, n)
    BY <1>2 DEF Closed, Open
<1>7. /\ DOMAIN v = {f[j].key : j \in Closed(f, n)}
      /\ v = [k \in DOMAIN v |-> v[k]]
    BY DEF Table
<1>8. ASSUME NEW k \in keys PROVE Max(of(k)) \in of(k) /\ \A y \in of(k) : Max(of(k)) >= y
  <2>1. of(k) \subseteq 1 .. n /\ of(k) # {}
    BY <1>4, <1>8
  <2> HIDE DEF of
  <2> QED
    BY <2>1, MaxIs
<1>9. ASSUME NEW k \in keys, Max(of(k)) \in Closed(f, n)
      PROVE  v[k] = textAt(g, Max(of(k)))
  <2> DEFINE m == Max(of(k))
  <2>1. m \in of(k) /\ (\A y \in of(k) : m >= y) /\ m \in Closed(f, n)
    BY <1>8, <1>9
  <2> HIDE DEF m
  <2>2. m \in 1 .. n /\ f[m].key = k
    BY <1>4, <2>1
  <2>3. PICK e \in m .. n : Ends(f, m, e)
    BY <2>1, EndExists
  <2>4. Latest(f, m, n)
    <3> SUFFICES ASSUME NEW j \in Closed(f, n), f[j].key = f[m].key PROVE j <= m
      BY DEF Latest
    <3>1. j \in starts /\ j \in 1 .. n /\ g[j].key = k
      BY <1>4, <1>5, <2>2
    <3>2. j \in of(k)
      BY <3>1
    <3> QED
      BY <2>1, <2>2, <3>1, <3>2
  <2>5. v[k] = Text(f, m, e - m)
    BY <2>1, <2>2, <2>3, <2>4 DEF Table
  <2>6. textAt(g, m) = Text(f, m, e - m)
    BY <2>2, <2>3, TextAt DEF Ends
  <2> QED
    BY <2>5, <2>6 DEF m
<1>10. CASE ~joined(f, n + 1) /\ w = v
  <2>1. starts = Closed(f, n)
    <3>1. ASSUME NEW i \in starts, Open(f, i, n) PROVE FALSE
      BY <1>4, <1>10, <3>1, OpenJoins
    <3> QED
      BY <1>5, <1>6, <3>1
  <2>2. DOMAIN v = keys
    BY <1>4, <1>7, <2>1
  <2>3. \A k \in keys : v[k] = textAt(g, Max(of(k)))
    BY <1>8, <1>9, <2>1
  <2> HIDE DEF keys, of
  <2>4. v = [k \in keys |-> textAt(g, Max(of(k)))]
    BY <1>7, <2>2, <2>3
  <2> QED
    BY <1>3, <1>10, <2>4
<1>11. ASSUME NEW i \in 1 .. n, Open(f, i, n), w = Added(v, f[i].key, Text(f, i, n - i))
       PROVE  w = written(g)
  <2>1. \A j \in starts : j <= i
    <3>1. \A j \in i + 1 .. n : ~Begins(f, j)
      BY <1>11, OpenJoins
    <3>2. \A j \in 1 .. n : j <= i \/ j \in i + 1 .. n
      OBVIOUS
    <3> QED
      BY <1>2, <3>1, <3>2
  <2>2. \A j \in starts : j # i => j \in Closed(f, n)
    <3> SUFFICES ASSUME NEW j \in starts, j # i, Open(f, j, n) PROVE FALSE
      BY <1>6
    <3>1. j \in 1 .. n /\ j <= i /\ \A k \in j + 1 .. n : ~Begins(f, k)
      BY <1>4, <2>1, OpenJoins
    <3>2. i \in j + 1 .. n
      BY <3>1
    <3> QED
      BY <1>11, <3>1, <3>2 DEF Open
  <2>3. i \notin Closed(f, n)
    BY <1>11 DEF Open, Closed
  <2>4. textAt(g, i) = Text(f, i, n - i)
    <3>1. n \in i .. n /\ \A k \in i .. n - 1 : k \in i .. n
      OBVIOUS
    <3> QED
      BY <1>11, <3>1, TextAt DEF Open
  <2>5. CASE f[i].key = EmptyKey
    <3>1. i \notin starts
      BY <1>2, <2>5
    <3>2. starts = Closed(f, n) /\ w = v
      BY <1>5, <1>11, <2>2, <2>5, <3>1 DEF Added
    <3>3. DOMAIN v = keys
      BY <1>4, <1>7, <3>2
    <3>4. \A k \in keys : v[k] = textAt(g, Max(of(k)))
      BY <1>8, <1>9, <3>2
    <3> HIDE DEF keys, of
    <3>5. v = [k \in keys |-> textAt(g, Max(of(k)))]
      BY <1>7, <3>3, <3>4
    <3> QED
      BY <1>3, <3>2, <3>5
  <2>6. CASE f[i].key # EmptyKey
    <3>1. /\ DOMAIN w = DOMAIN v \cup {f[i].key}
          /\ w = [k \in DOMAIN w |-> w[k]]
          /\ w[f[i].key] = Text(f, i, n - i)
          /\ \A k \in DOMAIN v : k # f[i].key => w[k] = v[k]
      BY <1>11, <2>6 DEF Added
    <3>2. i \in starts /\ starts = Closed(f, n) \cup {i}
      <4>1. i \in starts
        BY <1>2, <1>11, <2>6 DEF Open
      <4> QED
        BY <1>5, <2>2, <4>1
    <3>3. DOMAIN w = keys
      BY <1>4, <1>7, <3>1, <3>2
    <3>4. ASSUME NEW k \in keys PROVE w[k] = textAt(g, Max(of(k)))
      <4> DEFINE m == Max(of(k))
      <4>1. m \in of(k) /\ \A y \in of(k) : m >= y
        BY <1>8
      <4>2. m \in Closed(f, n) => v[k] = textAt(g, m)
        BY <1>9
      <4> HIDE DEF m
      <4>3. m \in starts /\ m \in 1 .. n /\ f[m].key = k
        BY <1>4, <4>1
      <4>4. CASE m = i
        BY <2>4, <3>1, <4>3, <4>4 DEF m
      <4>5. CASE m # i
        <5>1. m \in Closed(f, n) /\ m <= i
          BY <2>1, <2>2, <4>3, <4>5
        <5>2. k # f[i].key
          <6>1. ASSUME k = f[i].key PROVE FALSE
            <7>1. i \in of(k)
              BY <1>4, <3>2, <6>1
            <7>2. m >= i
              BY <4>1, <7>1
            <7> QED
              BY <4>3, <4>5, <5>1, <7>2
          <6> QED
            BY <6>1
        <5>3. k \in DOMAIN v
          BY <1>7, <4>3, <5>1
        <5> QED
          BY <3>1, <4>2, <5>1, <5>2, <5>3 DEF m
      <4> QED
        BY <4>4, <4>5
    <3> HIDE DEF keys, of
    <3>5. w = [k \in keys |-> textAt(g, Max(of(k)))]
      BY <3>1, <3>3, <3>4
    <3> QED
      BY <1>3, <3>5
  <2> QED
    BY <2>5, <2>6
<1> QED
    BY <1>10, <1>11

----------------------------------------------------------------------------
(* PropertyStore.Load.                                                      *)

\* What Load's variables k, val and multi and the table v hold after n lines.
Scan(f, n, k, val, multi, v) ==
    /\ n \in 0 .. Len(f)
    /\ \A i \in 1 .. n : f[i].kind # "huge"
    /\ multi \in BOOLEAN /\ (multi <=> joined(f, n + 1))
    /\ ~multi => k = EmptyKey
    /\ \A i \in 1 .. n : Open(f, i, n) => k = f[i].key /\ val = Text(f, i, n - i)
    /\ Table(v, f, n)

\* One round of its loop.
LEMMA ScanNext ==
    ASSUME NEW f \in Seq(LineRecords), NEW n \in Nat, n + 1 <= Len(f),
           f[n + 1].kind # "huge",
           NEW k, NEW val, NEW multi, NEW v, NEW k2, NEW val2, NEW multi2, NEW v2,
           Scan(f, n, k, val, multi, v),
           IF multi
           THEN /\ multi2 = f[n + 1].cont
                /\ IF f[n + 1].cont
                   THEN k2 = k /\ val2 = val \o whole(f[n + 1]) /\ v2 = v
                   ELSE k2 = EmptyKey /\ v2 = Added(v, k, val \o whole(f[n + 1]))
           ELSE IF f[n + 1].kind = "skip"
           THEN k2 = k /\ val2 = val /\ multi2 = multi /\ v2 = v
           ELSE /\ multi2 = f[n + 1].cont
                /\ IF f[n + 1].cont
                   THEN k2 = f[n + 1].key /\ val2 = f[n + 1].text /\ v2 = v
                   ELSE k2 = EmptyKey /\ v2 = Added(v, f[n + 1].key, f[n + 1].text)
    PROVE  Scan(f, n + 1, k2, val2, multi2, v2)
<1>0. /\ n \in 0 .. Len(f) /\ Len(f) \in Nat
      /\ \A i \in 1 .. n : f[i].kind # "huge"
      /\ multi \in BOOLEAN /\ (multi <=> joined(f, n + 1))
      /\ ~multi => k = EmptyKey
      /\ \A i \in 1 .. n : Open(f, i, n) => k = f[i].key /\ val = Text(f, i, n - i)
      /\ Table(v, f, n)
    BY DEF Scan
<1>1. n + 1 \in 0 .. Len(f) /\ n + 1 \in 1 .. Len(f) /\ \A i \in 1 .. n + 1 : f[i].kind # "huge"
  <2>1. \A i \in 1 .. n + 1 : i \in 1 .. n \/ i = n + 1
    OBVIOUS
  <2> QED
    BY <1>0, <2>1
<1>2. f[n + 1].cont \in BOOLEAN /\ f[n + 1].kind \in {"assign", "skip", "huge"}
  <2>1. f[n + 1] \in LineRecords
    BY <1>1
  <2> QED
    BY <2>1 DEF LineRecords
<1>3. joined(f, n + 2) <=> f[n + 1].cont /\ (joined(f, n + 1) \/ f[n + 1].kind = "assign")
    BY JoinedNext
<1>4. ASSUME NEW i \in 1 .. n + 1, Open(f, i, n + 1)
      PROVE  /\ f[n + 1].cont
             /\ IF joined(f, n + 1) THEN i \in 1 .. n /\ Open(f, i, n)
                ELSE i = n + 1 /\ f[n + 1].kind = "assign"
  <2>1. n + 1 \in i .. n + 1 /\ \A j \in i .. n : j \in i .. n + 1
    OBVIOUS
  <2>2. f[n + 1].cont /\ Begins(f, i) /\ \A j \in i .. n : f[j].cont
    BY <1>4, <2>1 DEF Open
  <2>3. CASE i = n + 1
    BY <2>2, <2>3 DEF Begins
  <2>4. CASE i # n + 1
    <3>1. i \in 1 .. n /\ Open(f, i, n)
      BY <2>2, <2>4 DEF Open
    <3>2. joined(f, n + 1)
      BY <3>1, OpenJoins
    <3> QED
      BY <2>2, <3>1, <3>2
  <2> QED
    BY <2>3, <2>4
<1>5. n + 1 + 1 = n + 2
    OBVIOUS
<1>6. CASE joined(f, n + 1) /\ f[n + 1].cont
  <2>1. k2 = k /\ val2 = val \o whole(f[n + 1]) /\ v2 = v /\ multi2 = TRUE
    BY <1>0, <1>2, <1>6
  <2>2. Table(v, f, n + 1)
    BY <1>0, <1>6, TableSame
  <2>3. ASSUME NEW i \in 1 .. n + 1, Open(f, i, n + 1)
        PROVE  k2 = f[i].key /\ val2 = Text(f, i, n + 1 - i)
    <3>1. i \in 1 .. n /\ Open(f, i, n)
      BY <1>4, <1>6, <2>3
    <3>2. k = f[i].key /\ val = Text(f, i, n - i)
      BY <1>0, <3>1
    <3>3. n - i \in Nat /\ i + (n - i) + 1 = n + 1 /\ (n - i) + 1 = n + 1 - i /\ i \in 1 .. Len(f)
      BY <1>1, <3>1
    <3>4. Text(f, i, (n - i) + 1) = Text(f, i, n - i) \o whole(f[i + (n - i) + 1])
      BY <3>3, TextNext
    <3> QED
      BY <2>1, <3>2, <3>3, <3>4
  <2> QED
    BY <1>1, <1>3, <1>5, <1>6, <2>1, <2>2, <2>3 DEF Scan
<1>7. CASE joined(f, n + 1) /\ ~f[n + 1].cont
  <2>1. k2 = EmptyKey /\ v2 = Added(v, k, val \o whole(f[n + 1])) /\ multi2 = FALSE
    BY <1>0, <1>2, <1>7
  <2>2. PICK i \in 1 .. n : Open(f, i, n)
    BY <1>7, OpenExists
  <2>3. k = f[i].key /\ val = Text(f, i, n - i)
    BY <1>0, <2>2
  <2>4. n - i \in Nat /\ i + (n - i) + 1 = n + 1 /\ (n - i) + 1 = n + 1 - i
        /\ i \in 1 .. Len(f) /\ i \in 1 .. n + 1
    BY <1>1
  <2>5. Text(f, i, (n - i) + 1) = Text(f, i, n - i) \o whole(f[i + (n - i) + 1])
    BY <2>4, TextNext
  <2>6. v2 = Added(v, f[i].key, Text(f, i, n + 1 - i))
    BY <2>1, <2>3, <2>4, <2>5
  <2>7. Begins(f, i) /\ \A j \in i .. n : f[j].cont
    BY <2>2 DEF Open
  <2>8. Table(v2, f, n + 1)
    BY <1>0, <1>7, <2>4, <2>6, <2>7, TableClose
  <2> QED
    BY <1>1, <1>3, <1>4, <1>5, <1>7, <2>1, <2>8 DEF Scan
<1>8. CASE ~joined(f, n + 1) /\ f[n + 1].kind = "skip"
  <2>1. k2 = EmptyKey /\ multi2 = FALSE /\ v2 = v
    BY <1>0, <1>8
  <2>2. Table(v, f, n + 1)
    BY <1>0, <1>8, TableSame
  <2> QED
    BY <1>1, <1>3, <1>4, <1>5, <1>8, <2>1, <2>2 DEF Scan
<1>9. CASE ~joined(f, n + 1) /\ f[n + 1].kind # "skip" /\ f[n + 1].cont
  <2>1. k2 = f[n + 1].key /\ val2 = f[n + 1].text /\ v2 = v /\ multi2 = TRUE
    BY <1>0, <1>2, <1>9
  <2>2. f[n + 1].kind = "assign"
    BY <1>2, <1>9
  <2>3. Table(v, f, n + 1)
    BY <1>0, <1>9, TableSame
  <2>4. val2 = Text(f, n + 1, (n + 1) - (n + 1))
    BY <1>1, <2>1, TextOne
  <2> QED
    BY <1>1, <1>3, <1>4, <1>5, <1>9, <2>1, <2>2, <2>3, <2>4 DEF Scan
<1>10. CASE ~joined(f, n + 1) /\ f[n + 1].kind # "skip" /\ ~f[n + 1].cont
  <2>1. k2 = EmptyKey /\ v2 = Added(v, f[n + 1].key, f[n + 1].text) /\ multi2 = FALSE
    BY <1>0, <1>2, <1>10
  <2>2. Begins(f, n + 1)
    BY <1>2, <1>10 DEF Begins
  <2>3. v2 = Added(v, f[n + 1].key, Text(f, n + 1, n + 1 - (n + 1)))
    BY <1>1, <2>1, TextOne
  <2>4. n + 1 \in 1 .. n + 1 /\ \A j \in n + 1 .. n : f[j].cont
    OBVIOUS
  <2>5. Table(v2, f, n + 1)
    BY <1>0, <1>10, <2>2, <2>3, <2>4, TableClose
  <2> QED
    BY <1>1, <1>3, <1>4, <1>5, <1>10, <2>1, <2>5 DEF Scan
<1> QED
    BY <1>6, <1>7, <1>8, <1>9, <1>10

\* The lines before the first that cannot be buffered.
LEMMA ReadableIs ==
    ASSUME NEW f \in Seq(LineRecords), NEW n \in Nat, n <= Len(f),
           \A i \in 1 .. n : f[i].kind # "huge",
           n + 1 <= Len(f) => f[n + 1].kind = "huge"
    PROVE  Starts(readable(f), f, n)
<1> DEFINE huge == {i \in 1 .. Len(f) : f[i].kind = "huge"}
<1>0. Len(f) \in Nat
    OBVIOUS
<1>1. readable(f) = IF huge = {} THEN f ELSE SubSeq(f, 1, Min(huge) - 1)
    BY DEF readable
<1>2. CASE n = Len(f)
  <2>1. huge = {}
    BY <1>2
  <2> QED
    BY <1>1, <1>2, <2>1 DEF Starts
<1>3. CASE n # Len(f)
  <2>1. n + 1 \in huge
    BY <1>0, <1>3
  <2>2. \A i \in huge : i \in Nat /\ n + 1 <= i
    BY <1>0
  <2> HIDE DEF huge
  <2>3. Min(huge) = n + 1
    BY <2>1, <2>2 DEF Min
  <2>4. readable(f) = SubSeq(f, 1, n)
    BY <1>1, <2>1, <2>3
  <2> QED
    BY <1>0, <2>4 DEF Starts
<1> QED
    BY <1>2, <1>3

\* The table when the scanner stops.
LEMMA ScanEnds ==
    ASSUME NEW f \in Seq(LineRecords), NEW n \in Nat,
           n + 1 <= Len(f) => f[n + 1].kind = "huge",
           NEW k, NEW val, NEW multi, NEW v, Scan(f, n, k, val, multi, v)
    PROVE  Added(v, k, val) = written(readable(f))
<1>1. /\ n <= Len(f) /\ \A i \in 1 .. n : f[i].kind # "huge"
      /\ multi <=> joined(f, n + 1)
      /\ ~multi => k = EmptyKey
      /\ \A i \in 1 .. n : Open(f, i, n) => k = f[i].key /\ val = Text(f, i, n - i)
      /\ Table(v, f, n)
    BY DEF Scan
<1>2. Starts(readable(f), f, n)
    BY <1>1, ReadableIs
<1>3. CASE joined(f, n + 1)
  <2>1. \E i \in 1 .. n : Open(f, i, n) /\ Added(v, k, val) = Added(v, f[i].key, Text(f, i, n - i))
    BY <1>1, <1>3, OpenExists
  <2> QED
    BY <1>1, <1>2, <2>1, TableWritten
<1>4. CASE ~joined(f, n + 1)
  <2>1. Added(v, k, val) = v
    BY <1>1, <1>4 DEF Added
  <2> QED
    BY <1>1, <1>2, <1>4, <2>1, TableWritten
<1> QED
    BY <1>3, <1>4

\* Before the first line.
LEMMA ScanBegins ==
    ASSUME NEW f \in Seq(LineRecords), NEW val
    PROVE  Scan(f, 0, EmptyKey, val, FALSE, << >>)
<1>1. Closed(f, 0) = {} /\ 1 .. 0 = {} /\ 1 .. (0 + 1) - 1 = {} /\ 0 \in 0 .. Len(f)
    BY DEF Closed
<1>2. ~joined(f, 0 + 1)
    BY <1>1 DEF joined
<1>3. Table(<< >>, f, 0)
  <2>1. DOMAIN << >> = {} /\ << >> = [k \in {} |-> << >>[k]]
    OBVIOUS
  <2> QED
    BY <1>1, <2>1 DEF Table
<1> QED
    BY <1>1, <1>2, <1>3 DEF Scan

\* A file without lines has no values.
LEMMA EmptyFile ==
    ASSUME NEW f \in Seq(LineRecords), Len(f) = 0
    PROVE  written(readable(f)) = << >>
<1> DEFINE starts == {i \in 1 .. Len(f) : f[i].kind = "assign" /\ f[i].key # EmptyKey
                                          /\ ~joined(f, i)}
           textOf(k) == textAt(f, Max({i \in starts : f[i].key = k}))
<1>1. 1 .. Len(f) = {}
    OBVIOUS
<1>2. readable(f) = f
    BY <1>1 DEF readable
<1>3. written(f) = [k \in {f[i].key : i \in starts} |-> textOf(k)]
    BY DEF written
<1>4. {f[i].key : i \in starts} = {}
    BY <1>1
<1> HIDE DEF starts, textOf
<1>5. written(f) = [k \in {} |-> textOf(k)]
    BY <1>3, <1>4
<1>6. [k \in {} |-> textOf(k)] = << >>
    OBVIOUS
<1> QED
    BY <1>2, <1>5, <1>6

\* Load's variables are those of the scan of the file, from the line it opens it
\* to the line it stops at.
Loading ==
    /\ phase = "open" =>
          file = << >> /\ pos = 1 /\ key = EmptyKey /\ isMultiLine = FALSE /\ values = << >>
    /\ phase = "load" => Scan(file, pos - 1, key, value, isMultiLine, values)
    /\ LoadedAsWritten

\* addProperty.
LEMMA AddPropertyIs ==
    ASSUME NEW k, NEW text, addProperty(k, text)
    PROVE  key' = EmptyKey /\ values' = Added(values, k, text)
BY DEF addProperty, Added, Set

\* Opening the file.
LEMMA OpenFileLoading ==
    ASSUME BootInv, BootInv', Loading, OpenFile
    PROVE  Loading'
<1>1. file' \in Seq(LineRecords)
    BY DEF BootInv, Types
<1>2. /\ pos' = 1 /\ key' = EmptyKey /\ isMultiLine' = FALSE /\ values' = << >>
      /\ phase' \in {"load", "initialize"} /\ (phase' = "initialize" => file' = << >>)
    BY DEF OpenFile, Loading, storeVars
<1>3. Scan(file', 0, EmptyKey, value', FALSE, << >>)
    BY <1>1, ScanBegins
<1>4. CASE phase' = "load"
  <2>1. pos' - 1 = 0
    BY <1>2
  <2> QED
    BY <1>2, <1>3, <1>4, <2>1 DEF Loading, LoadedAsWritten
<1>5. CASE phase' = "initialize"
  <2>1. Len(file') = 0
    BY <1>2, <1>5
  <2>2. values' = written(readable(file'))
    BY <1>1, <1>2, <2>1, EmptyFile
  <2> QED
    BY <1>5, <2>2 DEF Loading, LoadedAsWritten
<1> QED
    BY <1>2, <1>4, <1>5

\* Scanning a line.
LEMMA ScanLineLoading ==
    ASSUME BootInv, Loading, ScanLine
    PROVE  Loading'
<1> DEFINE n == pos - 1
           line == file[n + 1]
<1>1. /\ phase = "load" /\ phase' = "load" /\ file' = file /\ pos' = pos + 1
      /\ pos <= Len(file) /\ file[pos].kind # "huge" /\ scanLine(file[pos])
    BY DEF ScanLine, scanned, appVars
<1>2. file \in Seq(LineRecords) /\ n \in Nat /\ n + 1 = pos /\ pos' - 1 = n + 1
    BY <1>1 DEF BootInv, Types
<1>3. Scan(file, n, key, value, isMultiLine, values)
    BY <1>1 DEF Loading
<1>4. n + 1 <= Len(file) /\ line.kind # "huge" /\ scanLine(line)
    BY <1>1, <1>2
<1> HIDE DEF n
<1>5. IF isMultiLine
      THEN /\ isMultiLine' = line.cont
           /\ IF line.cont
              THEN key' = key /\ value' = value \o whole(line) /\ values' = values
              ELSE key' = EmptyKey /\ values' = Added(values, key, value \o whole(line))
      ELSE IF line.kind = "skip"
      THEN key' = key /\ value' = value /\ isMultiLine' = isMultiLine /\ values' = values
      ELSE /\ isMultiLine' = line.cont
           /\ IF line.cont
              THEN key' = line.key /\ value' = line.text /\ values' = values
              ELSE key' = EmptyKey /\ values' = Added(values, line.key, line.text)
  <2> HIDE DEF line
  <2> QED
    BY <1>4, AddPropertyIs DEF scanLine, continues
<1>6. Scan(file, n + 1, key', value', isMultiLine', values')
    BY <1>2, <1>3, <1>4, <1>5, ScanNext
<1> QED
    BY <1>1, <1>2, <1>6 DEF Loading, LoadedAsWritten

\* The end of the file, or a line that is too long.
LEMMA EndOfFileLoading ==
    ASSUME BootInv, Loading, EndOfFile
    PROVE  Loading'
<1> DEFINE n == pos - 1
<1>1. /\ phase = "load" /\ phase' = "initialize" /\ file' = file
      /\ pos <= Len(file) => file[pos].kind = "huge"
      /\ addProperty(key, value)
    BY DEF EndOfFile, scanned
<1>2. file \in Seq(LineRecords) /\ n \in Nat /\ n + 1 = pos
    BY <1>1 DEF BootInv, Types
<1>3. Scan(file, n, key, value, isMultiLine, values)
    BY <1>1 DEF Loading
<1> HIDE DEF n
<1>4. Added(values, key, value) = written(readable(file))
    BY <1>1, <1>2, <1>3, ScanEnds
<1>5. values' = written(readable(file))
    BY <1>1, <1>4, AddPropertyIs
<1> QED
    BY <1>1, <1>5 DEF Loading, LoadedAsWritten

\* Nothing else touches the file or the values.
LEMMA LoadedKeeps ==
    ASSUME Loading, phase \notin {"open", "load"}, phase' \notin {"open", "load"},
           UNCHANGED <<file, values>>
    PROVE  Loading'
BY DEF Loading, LoadedAsWritten

\* Every step.
LEMMA NextLoading == BootInv /\ BootInv' /\ Loading /\ [Next]_vars => Loading'
<1> SUFFICES ASSUME BootInv, BootInv', Loading, [Next]_vars PROVE Loading'
    OBVIOUS
<1>1. CASE OpenFile \/ ScanLine \/ EndOfFile
    BY <1>1, OpenFileLoading, ScanLineLoading, EndOfFileLoading
<1>2. CASE LoadFromPrefix
    BY <1>2, LoadedKeeps DEF LoadFromPrefix, Calling, Returns, Panics, scanVars
<1>3. CASE Register
    BY <1>3, LoadedKeeps DEF Register, Calling, Returns, Panics, scanVars
<1>4. CASE Server \/ AddOpt \/ AddURL \/ UseClient \/ Subscribe
    BY <1>4, LoadedKeeps
    DEF Server, AddOpt, AddURL, UseClient, Subscribe, Calling, Returns, Panics, scanVars, storeVars
<1>5. CASE Schedule
    BY <1>5, LoadedKeeps DEF Schedule, Calling, Returns, Panics, scanVars, storeVars
<1>6. CASE Validate \/ Probing \/ CheckReturns
    BY <1>6, LoadedKeeps DEF Validate, Probing, CheckReturns, scanVars, storeVars, appVars
<1>7. CASE UNCHANGED vars
    BY <1>7 DEF Loading, LoadedAsWritten, vars, scanVars, storeVars, appVars
<1> QED
    BY <1>1, <1>2, <1>3, <1>4, <1>5, <1>6, <1>7 DEF Next

\* PropertyStore.Load stores what the file says, for every file: continuation
\* lines, comments, repeated keys, lines without a key, a last line that ends with
\* a backslash and a line that is too long included.
THEOREM BootLoadedAsWritten == Spec => []LoadedAsWritten
<1>1. Init => Loading
    BY DEF Init, Loading, LoadedAsWritten
<1>2. Loading => LoadedAsWritten
    BY DEF Loading
<1> QED
    BY <1>1, <1>2, NextLoading, BootInvariant, PTL DEF Spec
=============================================================================
