----------------------------- MODULE MCBootstrap -----------------------------
(* Files of up to four lines for one component of each kind, two databases, *)
(* two gRPC clients and a gRPC server with options, clients and            *)
(* subscriptions before and after their load, empty prefixes, and the      *)
(* scheduler with up to four calls.  An application that has started or    *)
(* panicked rests, so deadlock is no error.                                *)
EXTENDS Bootstrap

MCHosts == {"h1", "h2"}

Line(kind, k, text, cont) == [kind |-> kind, key |-> k, text |-> text, cont |-> cont]

\* The endpoint of prefix p, a setting and a second one, an unknown key.
Lines(p, endpoint, setting, other) ==
    {Line("assign", <<p, endpoint>>, <<"h1">>, FALSE),
     Line("assign", <<p, endpoint>>, <<"h1">>, TRUE),
     Line("assign", <<p, endpoint>>, <<"no host">>, FALSE),
     Line("skip", EmptyKey, <<"h2">>, FALSE),
     Line("skip", EmptyKey, << >>, TRUE),
     Line("assign", <<p, setting>>, <<"ok">>, FALSE),
     Line("assign", <<p, setting>>, <<"bad">>, FALSE),
     Line("assign", <<p, other>>, <<"ok">>, FALSE),
     Line("assign", <<p, setting>>, << >>, FALSE)}

Rare ==
    {Line("assign", <<"typo", "x">>, <<"ok">>, FALSE),
     Line("assign", EmptyKey, <<"ok">>, FALSE),
     Line("huge", EmptyKey, << >>, FALSE)}

Load(kind, p) == [op |-> "load", kind |-> kind, prefix |-> p]
Client(p) == [op |-> "register", kind |-> "grpcClient", prefix |-> p]
Option(kind) == [op |-> "option", kind |-> kind, prefix |-> ""]
UseServer(p) == [op |-> "server", kind |-> "grpc", prefix |-> p]
Url(u) == [op |-> "url", kind |-> "", prefix |-> u]

Job(spec, name) == [op |-> "job", kind |-> spec, prefix |-> name]
Use(kind, p) == [op |-> "client", kind |-> kind, prefix |-> p]
endpointOf == [redis |-> "addr", db |-> "dsn", postgres |-> "dsn", mongo |-> "uri", rabbitmq |-> "url"]
sourceOf == [kafka |-> "brokers", rabbitmq |-> "url"]
Subscribed(kind, p) == [op |-> "subscribe", kind |-> kind, prefix |-> p]
Call(op, name) == [op |-> op, kind |-> "", prefix |-> name]

Scenario(f, calls, up) ==
    [envFS |-> "dev" :> f @@ "default" :> << >>, env |-> "dev", program |-> calls,
     reachable |-> up]

Networks == {{"h1", "h2", "no host", "u1"}, {"h1"}}

Single(kind, endpoint, setting, other, n) ==
    {Scenario(f, <<Load(kind, "p")>>, up) :
        f \in BoundedSeq(Lines("p", endpoint, setting, other), n), up \in Networks}

Address(p) == Line("assign", <<p, "address">>, <<"h1">>, FALSE)
Listen == Line("assign", <<"s", "listen">>, <<"h1">>, FALSE)
Dsn(p) == Line("assign", <<p, "dsn">>, <<"h1">>, FALSE)

MCScenarios ==
    Single("kafka", "brokers", "pool.size", "queue.capacity", 4)
    \cup Single("redis", "addr", "db", "password", 2)
    \cup Single("db", "dsn", "pool.maxOpenConns", "connMaxIdleTime", 2)
    \cup Single("postgres", "dsn", "connMaxLifetime", "pool.maxIdleConns", 2)
    \cup Single("mongo", "uri", "max.connecting", "read.preference", 2)
    \cup Single("rabbitmq", "url", "prefetch", "consumer.tag", 2)
    \cup {Scenario(<<a, b>>, <<Load("redis", "p"), Url("u1")>>, up) :
             a \in Lines("p", "addr", "db", "password"), b \in Rare, up \in Networks}
    \cup {Scenario(<<Dsn("db"), Dsn("db.slave")>>, <<Load("db", "db"), Load("db", q), Url("u1")>>, up) :
             q \in {"db", "db.slave"}, up \in Networks}
    \cup {Scenario(<<Address("a"), Address("b"), Listen>>, calls, up) :
             up \in Networks,
             calls \in {s \in BoundedSeq({Client("a"), Client("b"), Option("grpcClient"),
                                 Load("grpc", "s"), UseServer("s"), Option("grpc")}, 4) :
                             Client("a") \in Range(s) /\ Len(s) > 2}}
    \cup UNION {{Scenario(<<Line("assign", <<"p", endpointOf[kind]>>, text, FALSE)>>, calls, up) :
                   text \in {<<"h1">>, <<"h2">>, <<"no host">>, <<"malformed">>}, up \in Networks,
                   calls \in {<<Load(kind, "p"), Use(kind, "p")>>, <<Use(kind, "p"), Load(kind, "p")>>}} :
               kind \in DOMAIN endpointOf}
    \cup {Scenario(<<Line("assign", <<"p", "address">>, <<"malformed">>, FALSE)>>, <<Client(p)>>, up) :
             p \in {"p", ""}, up \in Networks}
    \cup {Scenario(<<Line("assign", <<"", "address">>, <<"h1">>, FALSE)>>, <<call1>>, MCHosts) :
             call1 \in {Client("")} \cup {Load(kind, "") : kind \in {"redis", "kafka", "grpc"}}}
    \cup UNION {{Scenario(f, calls, MCHosts) :
                   f \in BoundedSeq({Line("assign", <<"p", sourceOf[kind]>>, <<"h1">>, FALSE),
                                      Line("assign", <<"p", sourceOf[kind]>>, <<"malformed">>, FALSE),
                                      Line("assign", subscribesTo(kind, "p"), <<"ok">>, FALSE)}, 2),
                   calls \in {<<Load(kind, "p"), Subscribed(kind, "p")>>,
                              <<Subscribed(kind, "p"), Load(kind, "p")>>}} :
               kind \in DOMAIN sourceOf}
    \cup {Scenario(<< >>, calls, {}) :
             calls \in BoundedSeq({Job("minutes", "a"), Job("seconds", "a"), Job("seconds", "b"),
                                   Job("bad", "b"), Call("remove", "a"), Call("location", ""),
                                   Call("strict", "")}, 4)}
    \cup {[envFS |-> fs, env |-> "dev", program |-> <<Load("grpc", "s")>>,
           reachable |-> MCHosts] :
             fs \in {"dev" :> <<Listen>>, "default" :> <<Listen>>,
                     "dev" :> NoFile @@ "default" :> <<Listen>>,
                     "dev" :> NoFile @@ "default" :> NoFile}}
=============================================================================
