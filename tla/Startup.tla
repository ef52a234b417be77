------------------------------ MODULE Startup ------------------------------
(***************************************************************************)
(* How the containers come up.  A provider's container starts its Dubbo    *)
(* service (external), writes itself into etcd and waits for the service   *)
(* (pa_register.py), then runs the provider agent.  The consumer's reads   *)
(* etcd once (ca_startup.py), forks two processes with the endpoints it    *)
(* found as their arguments, and each becomes a consumer agent.  Nobody    *)
(* orders the containers.                                                  *)
(***************************************************************************)
EXTENDS Integers, SequencesExt, FiniteSets

CONSTANTS Providers,  \* the hosts of provider agents
          MAX_EDS,    \* endpoints a balancer has room for
          FirstPid,   \* the number of ca_startup.py's process
          Gaps,       \* bound: how far apart the numbers of processes may be
          MaxTime     \* bound: the latest time, in seconds

ASSUME StartupAssumption ==
    /\ IsFiniteSet(Providers)
    /\ MAX_EDS \in Nat /\ Cardinality(Providers) \in 1 .. MAX_EDS
    /\ FirstPid \in Nat /\ MaxTime \in Nat /\ Gaps \subseteq Nat \ {0}

VARIABLES etcd,       \* etcd answers
          registry,   \* the endpoints in etcd
          service,    \* host -> its Dubbo service listens on 20880
          register,   \* host -> pa_register.py: "begun", "waiting", "left"
          pa,         \* host -> the provider agent: "none" or "listens"
          dubbo,      \* host -> its Dubbo client: "none", "connecting",
                      \*   "refused", "connected" or "dead"
          launcher,   \* ca_startup.py: "begun", "read" or "failed"
          uv_argv,    \* the arguments it makes of what it found
          early,      \* history: the endpoints that did not listen yet then
          pids,       \* the processes it forked
          clock,      \* time(0)
          seeds,      \* process -> what its main gives srand, NoSeed before
          ends,       \* process -> the hosts in its balancer, in order
          client      \* process -> endpoint -> its pa_client: "none",
                      \*   "connecting", "connected" or "dead"

providerVars == <<registry, service, register, pa, dubbo>>
launchVars   == <<launcher, uv_argv, early, pids>>
agentVars    == <<seeds, ends, client>>
vars         == <<etcd, providerVars, launchVars, clock, agentVars>>

instance_count == 2
Processes == 1 .. instance_count
NoSeed == {-1}

Init ==
    /\ etcd = FALSE /\ registry = {}
    /\ service = [h \in Providers |-> FALSE]
    /\ register = [h \in Providers |-> "begun"]
    /\ pa = [h \in Providers |-> "none"] /\ dubbo = [h \in Providers |-> "none"]
    /\ launcher = "begun" /\ uv_argv = <<>> /\ early = {} /\ pids = <<>>
    /\ clock \in 0 .. MaxTime
    /\ seeds = [i \in Processes |-> NoSeed] /\ ends = [i \in Processes |-> <<>>]
    /\ client = [i \in Processes |-> [h \in Providers |-> "none"]]
-----------------------------------------------------------------------------
EtcdStarts ==
    /\ ~etcd /\ etcd' = TRUE
    /\ UNCHANGED <<providerVars, launchVars, clock, agentVars>>

ServiceStarts(h) ==
    /\ ~service[h] /\ service' = [service EXCEPT ![h] = TRUE]
    /\ UNCHANGED <<etcd, registry, register, pa, dubbo, launchVars, clock, agentVars>>

Tick ==
    /\ clock < MaxTime /\ clock' = clock + 1
    /\ UNCHANGED <<etcd, providerVars, launchVars, agentVars>>

(* pa_register.py writes the endpoint first.  When etcd does not answer it *)
(* ends there, and start-agent.sh goes on with the next line all the same. *)
Register(h) ==
    /\ register[h] = "begun"
    /\ registry' = IF etcd THEN registry \cup {h} ELSE registry
    /\ register' = [register EXCEPT ![h] = IF etcd THEN "waiting" ELSE "left"]
    /\ UNCHANGED <<etcd, service, pa, dubbo, launchVars, clock, agentVars>>

(* Its loop ends when a connect to the provider's port succeeds. *)
ProviderFound(h) ==
    /\ register[h] = "waiting" /\ service[h]
    /\ register' = [register EXCEPT ![h] = "left"]
    /\ UNCHANGED <<etcd, registry, service, pa, dubbo, launchVars, clock, agentVars>>

(* Mutant: start-agent.sh does not wait for pa_register.py. *)
MayRunAtOnce(h) == TRUE

MayRun(h) == register[h] = "left"

(* main of pa.cc: the connect to the provider is begun, and the kernel     *)
(* knows its outcome; the agent listens.                                   *)
PaMain(h) ==
    /\ MayRun(h) /\ pa[h] = "none"
    /\ dubbo' = [dubbo EXCEPT ![h] = IF service[h] THEN "connecting" ELSE "refused"]
    /\ pa' = [pa EXCEPT ![h] = "listens"]
    /\ UNCHANGED <<etcd, registry, service, register, launchVars, clock, agentVars>>

(* _d_on_connect: a refused connect is logged, and nothing else. *)
DOnConnect(h) ==
    /\ dubbo[h] \in {"connecting", "refused"}
    /\ dubbo' = [dubbo EXCEPT ![h] = IF @ = "connecting" THEN "connected" ELSE "dead"]
    /\ UNCHANGED <<etcd, registry, service, register, pa, launchVars, clock, agentVars>>
-----------------------------------------------------------------------------
(* Mutant: a missing directory is read as an empty one. *)
ReadableAlways == etcd

(* eclient.read raises when etcd does not answer, and when there is no     *)
(* directory because no endpoint was written.                              *)
Readable == etcd /\ registry # {}

(* Mutant: the endpoints are those of a configuration file. *)
ChildrenConfigured == Providers

(* What eclient.read returns. *)
Children == registry

(* One endpoint as arguments: its host, its port and its weight. *)
Arguments(h) == <<h, "port", "weight">>

(* The arguments of one endpoint after those of another. *)
Argv(s) == [k \in 1 .. 3 * Len(s) |-> Arguments(s[(k + 2) \div 3])[((k + 2) % 3) + 1]]

(* They come in any order. *)
CaStartup ==
    /\ launcher = "begun"
    /\ launcher' = IF Readable THEN "read" ELSE "failed"
    /\ \E s \in SetToSeqs(Children) :
         uv_argv' = IF Readable THEN Argv(s) ELSE <<>>
    /\ early' = IF Readable THEN {h \in registry : pa[h] = "none"} ELSE {}
    /\ UNCHANGED <<etcd, providerVars, pids, clock, agentVars>>

(* Other processes may have started since the last one. *)
Fork(gap) ==
    /\ launcher = "read" /\ Len(pids) < instance_count
    /\ pids' = Append(pids, gap + IF pids = <<>> THEN FirstPid ELSE pids[Len(pids)])
    /\ UNCHANGED <<etcd, providerVars, launcher, uv_argv, early, clock, agentVars>>

(* A word of 32 bits is the set of the places of its ones, which makes the *)
(* bitwise or of two words their union.  A number of seconds or of a       *)
(* process has no place beyond 30, or none that the shift leaves in.       *)
Bits(n) == {k \in 0 .. 30 : (n \div 2 ^ k) % 2 = 1}

Shifted(word, by) == {k + by : k \in word} \cap 0 .. 31

(* Mutant: the time is not shifted. *)
SeedUnshifted(time, pid) == Bits(time) \cup Bits(pid)

(* The argument of srand, an unsigned int: (time(0) << 4) | getpid(). *)
Seed(time, pid) == Shifted(Bits(time), 4) \cup Bits(pid)

(* Mutant: the arguments are taken to begin behind the name of a program. *)
HostsBehindName(argv) == [k \in 1 .. Len(argv) \div 3 |-> argv[3 * k - 1]]

(* eds = argc / 3 endpoints, from argv[0] on: execv is given no name. *)
Hosts(argv) == [k \in 1 .. Len(argv) \div 3 |-> argv[3 * k - 2]]

(* main of ca.cc: seed, balancer, listen. *)
CaMain(i) ==
    /\ i \in DOMAIN pids /\ seeds[i] = NoSeed
    /\ seeds' = [seeds EXCEPT ![i] = Seed(clock, pids[i])]
    /\ ends' = [ends EXCEPT ![i] = Hosts(uv_argv)]
    /\ UNCHANGED <<etcd, providerVars, launchVars, clock, client>>

(* The first request for which nextIdx chooses h (_h_on_body). *)
CreatePaClient(i, h) ==
    /\ h \in Range(ends[i]) /\ client[i][h] = "none"
    /\ client' = [client EXCEPT ![i][h] = "connecting"]
    /\ UNCHANGED <<etcd, providerVars, launchVars, clock, seeds, ends>>

(* _pa_on_conn: a refused connect leaves the client in the map. *)
PaOnConn(i, h) ==
    /\ client[i][h] = "connecting"
    /\ client' = [client EXCEPT ![i][h] =
                     IF pa[h] = "listens" THEN "connected" ELSE "dead"]
    /\ UNCHANGED <<etcd, providerVars, launchVars, clock, seeds, ends>>

Next ==
    \/ EtcdStarts \/ Tick \/ CaStartup
    \/ \E h \in Providers : ServiceStarts(h) \/ Register(h) \/ ProviderFound(h)
                            \/ PaMain(h) \/ DOnConnect(h)
    \/ \E gap \in Gaps : Fork(gap)
    \/ \E i \in Processes : CaMain(i)
    \/ \E i \in Processes, h \in Providers : CreatePaClient(i, h) \/ PaOnConn(i, h)

Spec == Init /\ [][Next]_vars
-----------------------------------------------------------------------------
(* A consumer agent that runs has a balancer that nextIdx can use (lb.h    *)
(* checks nothing): at least one endpoint, not more than there is room     *)
(* for, each one once and with its host in the right place; and both       *)
(* processes have the same.                                                *)
BalancerUsable ==
    \A i \in Processes : seeds[i] # NoSeed =>
        /\ Len(ends[i]) \in 1 .. MAX_EDS
        /\ Range(ends[i]) \subseteq registry /\ IsInjective(ends[i])
        /\ \A j \in Processes : seeds[j] # NoSeed => ends[j] = ends[i]

(* A connect to the provider that failed is not repeated                   *)
(* (dubbo_client.cc:250).  The wait in pa_register.py makes up for that:   *)
(* an endpoint that consumer agents can find has its provider.             *)
RegisteredServes == \A h \in registry : dubbo[h] \notin {"refused", "dead"}

(* An endpoint is in etcd before its agent listens (pa_register.py:19).    *)
(* A consumer agent keeps a dead client for an endpoint only if etcd was   *)
(* read in between: later it finds nobody who does not listen.             *)
DeadNeedsEarlyRead ==
    \A i \in Processes, h \in Providers : client[i][h] = "dead" => h \in early

(* rand() of the two processes runs through different ids.  Seeds that are *)
(* the same would make every id one in use at the provider agents; that    *)
(* takes sixteen processes, or a multiple, started from one fork to the    *)
(* next.  Two processes that start at different times, with different      *)
(* numbers, do not get the same seed by the time of one making up for the  *)
(* number of the other: the shift leaves it four bits of its own.          *)
SameSeedNeedsGap ==
    \A i, j \in DOMAIN pids :
        i # j /\ seeds[i] # NoSeed /\ seeds[i] = seeds[j] => (pids[i] - pids[j]) % 16 = 0
=============================================================================
