--------------------------- MODULE StartupProofs ---------------------------
(***************************************************************************)
(* Proofs about the start of the containers, for every number of hosts,    *)
(* every order of the endpoints, all process numbers and times: consumer   *)
(* agents that run have a balancer they can use, who is registered has its *)
(* provider, a dead client means that etcd was read early, and seeds that  *)
(* are the same need process numbers sixteen apart.                        *)
(***************************************************************************)
EXTENDS Startup, FiniteSetTheorems, TLAPS

\* The endpoints a balancer can be made of.
Usable(s) ==
    /\ s \in Seq(Providers) /\ Len(s) \in 1 .. MAX_EDS
    /\ Range(s) \subseteq registry /\ IsInjective(s)

\* Those of them that did not listen when etcd was read are remembered.
Found(s) == \A h \in Range(s) : pa[h] = "listens" \/ h \in early

StartTypeOK ==
    /\ etcd \in BOOLEAN /\ registry \subseteq Providers /\ early \subseteq Providers
    /\ service \in [Providers -> BOOLEAN]
    /\ register \in [Providers -> {"begun", "waiting", "left"}]
    /\ pa \in [Providers -> {"none", "listens"}]
    /\ dubbo \in [Providers -> {"none", "connecting", "refused", "connected", "dead"}]
    /\ launcher \in {"begun", "read", "failed"} /\ clock \in Nat
    /\ pids \in Seq(Nat) /\ DOMAIN pids \subseteq Processes
    /\ DOMAIN seeds = Processes /\ seeds = [i \in Processes |-> seeds[i]]
    /\ ends = [i \in Processes |-> ends[i]]
    /\ client \in [Processes -> [Providers -> {"none", "connecting", "connected", "dead"}]]

\* How far a host is.
HostInv(h) ==
    /\ pa[h] = "none" => dubbo[h] = "none"
    /\ register[h] # "left" => pa[h] = "none"
    /\ h \in registry => register[h] # "begun"
    /\ h \in registry /\ register[h] = "left" => service[h]
    /\ h \in registry => dubbo[h] \notin {"refused", "dead"}

\* What ca_startup.py found, and the process numbers.
LaunchInv ==
    /\ launcher = "read" => Usable(Hosts(uv_argv)) /\ Found(Hosts(uv_argv))
    /\ pids # <<>> => launcher = "read"

\* What a process has of it.
ProcessInv(i) ==
    /\ seeds[i] = NoSeed => ends[i] = <<>>
    /\ seeds[i] # NoSeed => /\ i \in DOMAIN pids /\ ends[i] = Hosts(uv_argv)
                            /\ seeds[i] \cap 0 .. 3 = Bits(pids[i]) \cap 0 .. 3
    /\ \A h \in Providers : /\ client[i][h] # "none" => h \in Range(ends[i])
                            /\ client[i][h] = "dead" => h \in early

StartInv ==
    /\ StartTypeOK /\ LaunchInv
    /\ \A h \in Providers : HostInv(h)
    /\ \A i \in Processes : ProcessInv(i)

-----------------------------------------------------------------------------
\* main of ca.cc takes out of the arguments what ca_startup.py put in.
LEMMA HostsOfArgv ==
    ASSUME NEW S, NEW s \in Seq(S)
    PROVE  Hosts(Argv(s)) = s
<1> DEFINE n == Len(s)
           v == Argv(s)
<1>1. n \in Nat /\ s = [k \in 1 .. n |-> s[k]]
  OBVIOUS
<1>2. v = [k \in 1 .. 3 * n |-> Arguments(s[(k + 2) \div 3])[((k + 2) % 3) + 1]]
  BY DEF Argv
<1>3. Len(v) = 3 * n
  <2>1. 3 * n \in Nat
    BY <1>1
  <2> HIDE DEF v, n
  <2>2. QED BY <1>2, <2>1
<1> HIDE DEF v, n
<1>4. Len(v) \div 3 = n
  BY <1>1, <1>3
<1>5. ASSUME NEW k \in 1 .. n PROVE v[3 * k - 2] = s[k]
  <2>1. 3 * k - 2 \in 1 .. 3 * n /\ ((3 * k - 2) + 2) \div 3 = k /\ ((3 * k - 2) + 2) % 3 = 0
    BY <1>1
  <2>2. v[3 * k - 2] = Arguments(s[k])[0 + 1]
    BY <1>2, <2>1
  <2>3. QED BY <2>2 DEF Arguments
<1>6. Hosts(v) = [k \in 1 .. n |-> v[3 * k - 2]]
  BY <1>4 DEF Hosts
<1>7. QED BY <1>1, <1>5, <1>6 DEF v

LEMMA StartInit == Init => StartInv
<1> SUFFICES ASSUME Init PROVE StartInv
  OBVIOUS
<1>1. StartTypeOK
  <2>1. /\ etcd \in BOOLEAN /\ registry \subseteq Providers /\ early \subseteq Providers
        /\ service \in [Providers -> BOOLEAN] /\ launcher \in {"begun", "read", "failed"}
        /\ clock \in Nat
    <3>1. clock \in Nat
      <4>1. clock \in 0 .. MaxTime /\ MaxTime \in Nat
        BY StartupAssumption DEF Init
      <4>2. QED BY <4>1
    <3>2. QED BY <3>1 DEF Init
  <2>2. pids \in Seq(Nat) /\ DOMAIN pids \subseteq Processes
    <3>1. pids = <<>>
      BY DEF Init
    <3>2. QED BY <3>1
  <2>3. /\ register \in [Providers -> {"begun", "waiting", "left"}]
        /\ pa \in [Providers -> {"none", "listens"}]
        /\ dubbo \in [Providers -> {"none", "connecting", "refused", "connected", "dead"}]
    BY DEF Init
  <2>4. /\ DOMAIN seeds = Processes /\ seeds = [i \in Processes |-> seeds[i]]
        /\ ends = [i \in Processes |-> ends[i]]
        /\ client \in [Processes -> [Providers -> {"none", "connecting", "connected", "dead"}]]
    BY DEF Init
  <2>5. QED BY <2>1, <2>2, <2>3, <2>4 DEF StartTypeOK
<1>2. LaunchInv
  BY DEF Init, LaunchInv
<1>3. \A h \in Providers : HostInv(h)
  BY DEF Init, HostInv
<1>4. \A i \in Processes : ProcessInv(i)
  BY DEF Init, ProcessInv, NoSeed
<1>5. QED BY <1>1, <1>2, <1>3, <1>4 DEF StartInv

\* What a step of the providers must leave true of the consumers: the
\* registry grows, and who listens goes on listening.
LEMMA ProvidersStep ==
    ASSUME StartInv, StartTypeOK', registry \subseteq registry',
           \A h \in Providers : pa[h] = "listens" => pa'[h] = "listens",
           UNCHANGED <<launcher, uv_argv, early, pids, seeds, ends, client>>
    PROVE  LaunchInv' /\ \A i \in Processes : ProcessInv(i)'
<1>1. LaunchInv'
  <2>1. \A s : Usable(s) => Usable(s)'
    BY DEF Usable
  <2>2. \A s : Usable(s) /\ Found(s) => Found(s)'
    BY DEF Found, Usable, StartInv, StartTypeOK
  <2>3. Hosts(uv_argv)' = Hosts(uv_argv)
    BY DEF Hosts
  <2>4. QED BY <2>1, <2>2, <2>3 DEF StartInv, LaunchInv
<1>2. \A i \in Processes : ProcessInv(i)'
  BY DEF StartInv, ProcessInv, Hosts
<1>3. QED BY <1>1, <1>2

\* What a step of the consumers leaves alone.
LEMMA HostsKept ==
    ASSUME StartInv, UNCHANGED <<registry, service, register, pa, dubbo>>
    PROVE  \A h \in Providers : HostInv(h)'
  BY DEF StartInv, HostInv

\* ca_startup.py reads etcd: every endpoint, once, in some order.
LEMMA CaStartupStep ==
    ASSUME StartInv, CaStartup
    PROVE  StartInv'
<1>1. /\ launcher = "begun" /\ launcher' = IF Readable THEN "read" ELSE "failed"
      /\ early' = IF Readable THEN {h \in registry : pa[h] = "none"} ELSE {}
      /\ UNCHANGED <<etcd, registry, service, register, pa, dubbo, pids, clock, seeds, ends, client>>
  BY DEF CaStartup, providerVars, agentVars
<1>2. PICK s \in SetToSeqs(registry) : uv_argv' = IF Readable THEN Argv(s) ELSE <<>>
  BY DEF CaStartup, Children
<1>t. StartTypeOK /\ LaunchInv /\ \A i \in Processes : ProcessInv(i)
  BY DEF StartInv
<1>3. StartTypeOK'
  <2>1. launcher' \in {"begun", "read", "failed"} /\ early' \subseteq Providers
    BY <1>t, <1>1 DEF StartTypeOK
  <2>2. QED BY <1>t, <1>1, <2>1 DEF StartTypeOK
<1>4. \A h \in Providers : HostInv(h)'
  BY <1>1, HostsKept
<1>5. ASSUME Readable PROVE Usable(Hosts(uv_argv))' /\ Found(Hosts(uv_argv))'
  <2>1. /\ IsFiniteSet(registry) /\ registry # {} /\ registry \subseteq Providers
        /\ Cardinality(registry) \in 1 .. MAX_EDS
    <3>1. registry \subseteq Providers /\ registry # {}
      BY <1>t, <1>5 DEF StartTypeOK, Readable
    <3>2. /\ IsFiniteSet(registry) /\ Cardinality(registry) <= Cardinality(Providers)
      BY <3>1, StartupAssumption, FS_Subset
    <3>3. Cardinality(registry) \in Nat /\ Cardinality(registry) # 0
      BY <3>1, <3>2, FS_CardinalityType, FS_EmptySet
    <3>4. MAX_EDS \in Nat /\ Cardinality(Providers) <= MAX_EDS /\ Cardinality(Providers) \in Nat
      BY StartupAssumption
    <3>5. QED BY <3>1, <3>2, <3>3, <3>4
  <2> DEFINE n == Cardinality(registry)
  <2>2. s \in [1 .. n -> registry] /\ \A i, j \in 1 .. n : i # j => s[i] # s[j]
    BY DEF SetToSeqs
  <2> HIDE DEF n
  <2>3. n \in 1 .. MAX_EDS /\ n \in Nat
    BY <2>1, StartupAssumption DEF n
  <2>4. s \in Seq(Providers) /\ Len(s) = n /\ Range(s) \subseteq registry /\ IsInjective(s)
    <3>1. s \in Seq(Providers) /\ Len(s) = n
      BY <2>1, <2>2, <2>3
    <3>2. Range(s) \subseteq registry
      BY <2>2 DEF Range
    <3>3. IsInjective(s)
      BY <2>2 DEF IsInjective
    <3>4. QED BY <3>1, <3>2, <3>3
  <2>5. Hosts(uv_argv') = s
    BY <1>2, <1>5, <2>4, HostsOfArgv
  <2>6. Usable(s)'
    BY <1>1, <2>3, <2>4 DEF Usable
  <2>7. Found(s)'
    BY <1>t, <1>1, <1>5, <2>4 DEF Found, StartTypeOK
  <2>8. QED BY <2>5, <2>6, <2>7 DEF Usable, Found
<1>6. LaunchInv'
  BY <1>t, <1>1, <1>5 DEF LaunchInv
<1>7. ASSUME NEW i \in Processes PROVE ProcessInv(i)'
  <2>1. pids = <<>>
    BY <1>t, <1>1 DEF LaunchInv
  <2>2. seeds[i] = NoSeed /\ ends[i] = <<>>
    BY <1>t, <2>1 DEF ProcessInv
  <2>3. \A h \in Providers : client[i][h] = "none"
    <3>1. Range(ends[i]) = {}
      BY <2>2 DEF Range
    <3>2. QED BY <1>t, <3>1 DEF ProcessInv
  <2>4. QED BY <1>1, <2>2, <2>3 DEF ProcessInv
<1>8. QED BY <1>3, <1>4, <1>6, <1>7 DEF StartInv

LEMMA ForkStep ==
    ASSUME StartInv, NEW gap \in Gaps, Fork(gap)
    PROVE  StartInv'
<1> DEFINE pid == gap + IF pids = <<>> THEN FirstPid ELSE pids[Len(pids)]
<1>1. /\ launcher = "read" /\ pids' = Append(pids, pid)
      /\ UNCHANGED <<etcd, registry, service, register, pa, dubbo, launcher, uv_argv, early, clock,
                     seeds, ends, client>>
  BY DEF Fork, providerVars, agentVars
<1>t. StartTypeOK /\ LaunchInv /\ \A i \in Processes : ProcessInv(i)
  BY DEF StartInv
<1>2. pids \in Seq(Nat)
  BY <1>t DEF StartTypeOK
<1>3. pid \in Nat
  <2>1. gap \in Nat /\ FirstPid \in Nat
    BY StartupAssumption
  <2>2. CASE pids = <<>>
    BY <2>1, <2>2
  <2>3. CASE pids # <<>>
    <3>1. pids[Len(pids)] \in Nat
      BY <1>2, <2>3
    <3>2. QED BY <2>1, <2>3, <3>1
  <2>4. QED BY <2>2, <2>3
<1> HIDE DEF pid
<1>4. /\ pids' \in Seq(Nat) /\ DOMAIN pids' \subseteq Processes
      /\ \A i \in DOMAIN pids : i \in DOMAIN pids' /\ pids'[i] = pids[i]
  <2>1. pids' \in Seq(Nat) /\ \A i \in DOMAIN pids : i \in DOMAIN pids' /\ pids'[i] = pids[i]
    BY <1>1, <1>2, <1>3
  <2>2. Len(pids) \in Nat /\ Len(pids) < 2 /\ DOMAIN pids' = 1 .. Len(pids) + 1
    BY <1>1, <1>2, <1>3 DEF Fork, instance_count
  <2>3. DOMAIN pids' \subseteq Processes
    BY <2>2 DEF Processes, instance_count
  <2>4. QED BY <2>1, <2>3
<1>5. StartTypeOK'
  BY <1>t, <1>1, <1>4 DEF StartTypeOK
<1>6. \A h \in Providers : HostInv(h)'
  BY <1>1, HostsKept
<1>7. LaunchInv'
  BY <1>t, <1>1 DEF LaunchInv, Usable, Found, Hosts
<1>8. \A i \in Processes : ProcessInv(i)'
  BY <1>t, <1>1, <1>4 DEF ProcessInv, Hosts
<1>9. QED BY <1>5, <1>6, <1>7, <1>8 DEF StartInv

\* The time leaves the lowest four bits of a seed to the number of the process.
LEMMA SeedFacts ==
    ASSUME NEW time, NEW pid
    PROVE  Seed(time, pid) \cap 0 .. 3 = Bits(pid) \cap 0 .. 3 /\ Seed(time, pid) # NoSeed
<1>1. Bits(time) \subseteq 0 .. 30 /\ Bits(pid) \subseteq 0 .. 30
  BY DEF Bits
<1>2. Shifted(Bits(time), 4) \cap 0 .. 3 = {} /\ Shifted(Bits(time), 4) \subseteq 0 .. 31
  <2> DEFINE word == Bits(time)
  <2> HIDE DEF word
  <2>1. word \subseteq 0 .. 30
    BY <1>1 DEF word
  <2>2. Shifted(word, 4) \cap 0 .. 3 = {} /\ Shifted(word, 4) \subseteq 0 .. 31
    BY <2>1 DEF Shifted
  <2>3. QED BY <2>2 DEF word
<1>3. -1 \notin Seed(time, pid)
  BY <1>1, <1>2 DEF Seed
<1>4. QED BY <1>2, <1>3 DEF Seed, NoSeed

\* The lowest four bits of a number are what is left of it when it is divided by 16.
LEMMA LowBits ==
    ASSUME NEW m \in Nat, NEW n \in Nat, Bits(m) \cap 0 .. 3 = Bits(n) \cap 0 .. 3
    PROVE  (m - n) % 16 = 0
<1>1. 2 ^ 0 = 1 /\ 2 ^ 1 = 2 /\ 2 ^ 2 = 4 /\ 2 ^ 3 = 8
  OBVIOUS
<1>2. ASSUME NEW k \in 0 .. 3 PROVE (m \div 2 ^ k) % 2 = 1 <=> (n \div 2 ^ k) % 2 = 1
  <2>1. k \in Bits(m) <=> k \in Bits(n)
    OBVIOUS
  <2>2. k \in 0 .. 30
    OBVIOUS
  <2>3. QED BY <2>1, <2>2, Zenon DEF Bits
<1>3. /\ (m \div 1) % 2 = 1 <=> (n \div 1) % 2 = 1
      /\ (m \div 2) % 2 = 1 <=> (n \div 2) % 2 = 1
      /\ (m \div 4) % 2 = 1 <=> (n \div 4) % 2 = 1
      /\ (m \div 8) % 2 = 1 <=> (n \div 8) % 2 = 1
  <2>1. /\ (m \div 2 ^ 0) % 2 = 1 <=> (n \div 2 ^ 0) % 2 = 1
        /\ (m \div 2 ^ 1) % 2 = 1 <=> (n \div 2 ^ 1) % 2 = 1
        /\ (m \div 2 ^ 2) % 2 = 1 <=> (n \div 2 ^ 2) % 2 = 1
        /\ (m \div 2 ^ 3) % 2 = 1 <=> (n \div 2 ^ 3) % 2 = 1
    <3>1. 0 \in 0 .. 3 /\ 1 \in 0 .. 3 /\ 2 \in 0 .. 3 /\ 3 \in 0 .. 3
      OBVIOUS
    <3>2. QED BY <1>2, <3>1, Zenon
  <2>2. QED BY <1>1, <2>1, Zenon
<1>4. \A l \in Nat : l % 16 = ((l \div 1) % 2) + 2 * ((l \div 2) % 2) + 4 * ((l \div 4) % 2) + 8 * ((l \div 8) % 2)
  OBVIOUS
<1>5. /\ (m \div 1) % 2 = (n \div 1) % 2 /\ (m \div 2) % 2 = (n \div 2) % 2
      /\ (m \div 4) % 2 = (n \div 4) % 2 /\ (m \div 8) % 2 = (n \div 8) % 2
  <2>1. \A l \in Nat : l \div 1 \in Nat /\ l \div 2 \in Nat /\ l \div 4 \in Nat /\ l \div 8 \in Nat
    OBVIOUS
  <2>2. \A a, b \in Nat : (a % 2 = 1 <=> b % 2 = 1) => a % 2 = b % 2
    OBVIOUS
  <2>3. QED BY <1>3, <2>1, <2>2
<1>6. m % 16 = n % 16
  BY <1>4, <1>5
<1>7. QED BY <1>6

\* A process becomes a consumer agent.
LEMMA CaMainStep ==
    ASSUME StartInv, NEW p \in Processes, CaMain(p)
    PROVE  StartInv'
<1>1. /\ p \in DOMAIN pids /\ seeds[p] = NoSeed
      /\ seeds' = [seeds EXCEPT ![p] = Seed(clock, pids[p])]
      /\ ends' = [ends EXCEPT ![p] = Hosts(uv_argv)]
      /\ UNCHANGED <<etcd, registry, service, register, pa, dubbo, launcher, uv_argv, early, pids, clock, client>>
  BY DEF CaMain, providerVars, launchVars
<1>t. StartTypeOK /\ LaunchInv /\ \A i \in Processes : ProcessInv(i)
  BY DEF StartInv
<1>2. /\ DOMAIN seeds' = Processes /\ \A i \in Processes : seeds'[i] = IF i = p THEN Seed(clock, pids[p]) ELSE seeds[i]
      /\ seeds' = [i \in Processes |-> seeds'[i]]
  BY <1>t, <1>1 DEF StartTypeOK
<1>3. /\ \A i \in Processes : ends'[i] = IF i = p THEN Hosts(uv_argv) ELSE ends[i]
      /\ ends' = [i \in Processes |-> ends'[i]]
  BY <1>t, <1>1 DEF StartTypeOK
<1>4. StartTypeOK'
  BY <1>t, <1>1, <1>2, <1>3 DEF StartTypeOK
<1>5. \A h \in Providers : HostInv(h)'
  BY <1>1, HostsKept
<1>6. LaunchInv'
  BY <1>t, <1>1 DEF LaunchInv, Usable, Found, Hosts
<1>7. ASSUME NEW i \in Processes PROVE ProcessInv(i)'
  <2>1. CASE i = p
    <3>1. Seed(clock, pids[p]) \cap 0 .. 3 = Bits(pids[p]) \cap 0 .. 3 /\ Seed(clock, pids[p]) # NoSeed
      BY SeedFacts
    <3>2. \A h \in Providers : client[p][h] = "none"
      <4>1. Range(ends[p]) = {}
        BY <1>t, <1>1 DEF ProcessInv, Range
      <4>2. QED BY <1>t, <4>1 DEF ProcessInv
    <3>3. Hosts(uv_argv)' = Hosts(uv_argv)
      BY <1>1 DEF Hosts
    <3>4. QED BY <1>1, <1>2, <1>3, <2>1, <3>1, <3>2, <3>3 DEF ProcessInv
  <2>2. CASE i # p
    <3>1. seeds'[i] = seeds[i] /\ ends'[i] = ends[i] /\ Hosts(uv_argv)' = Hosts(uv_argv)
      BY <1>1, <1>2, <1>3, <2>2 DEF Hosts
    <3>2. QED BY <1>t, <1>1, <3>1 DEF ProcessInv
  <2>3. QED BY <2>1, <2>2
<1>8. QED BY <1>4, <1>5, <1>6, <1>7 DEF StartInv

\* A client of an endpoint: made, then connected or dead.
LEMMA ClientStep ==
    ASSUME StartInv, NEW p \in Processes, NEW h \in Providers, NEW c,
           c \in {"connecting", "connected", "dead"},
           h \in Range(ends[p]), c = "dead" => h \in early,
           client' = [client EXCEPT ![p][h] = c],
           UNCHANGED <<etcd, providerVars, launchVars, clock, seeds, ends>>
    PROVE  StartInv'
<1>1. UNCHANGED <<etcd, registry, service, register, pa, dubbo, launcher, uv_argv, early, pids, clock, seeds, ends>>
  BY DEF providerVars, launchVars
<1>t. StartTypeOK /\ LaunchInv /\ \A i \in Processes : ProcessInv(i)
  BY DEF StartInv
<1>2. client \in [Processes -> [Providers -> {"none", "connecting", "connected", "dead"}]]
  BY <1>t DEF StartTypeOK
<1>3. /\ client' \in [Processes -> [Providers -> {"none", "connecting", "connected", "dead"}]]
      /\ \A i \in Processes, g \in Providers : client'[i][g] = IF i = p /\ g = h THEN c ELSE client[i][g]
  BY <1>2
<1>4. StartTypeOK'
  BY <1>t, <1>1, <1>3 DEF StartTypeOK
<1>5. \A g \in Providers : HostInv(g)'
  BY <1>1, HostsKept
<1>6. LaunchInv'
  BY <1>t, <1>1 DEF LaunchInv, Usable, Found, Hosts
<1>7. \A i \in Processes : ProcessInv(i)'
  BY <1>t, <1>1, <1>3 DEF ProcessInv, Hosts
<1>8. QED BY <1>4, <1>5, <1>6, <1>7 DEF StartInv

LEMMA CreatePaClientStep ==
    ASSUME StartInv, NEW p \in Processes, NEW h \in Providers, CreatePaClient(p, h)
    PROVE  StartInv'
  BY ClientStep DEF CreatePaClient

LEMMA PaOnConnStep ==
    ASSUME StartInv, NEW p \in Processes, NEW h \in Providers, PaOnConn(p, h)
    PROVE  StartInv'
<1>1. h \in Range(ends[p])
  BY DEF PaOnConn, StartInv, ProcessInv
<1>2. seeds[p] # NoSeed /\ ends[p] = Hosts(uv_argv) /\ p \in DOMAIN pids
  <2>1. ends[p] # <<>>
    BY <1>1 DEF Range
  <2>2. QED BY <2>1 DEF StartInv, ProcessInv
<1>3. pa[h] = "listens" \/ h \in early
  BY <1>1, <1>2 DEF StartInv, LaunchInv, Found
<1> DEFINE c == IF pa[h] = "listens" THEN "connected" ELSE "dead"
<1>4. client' = [client EXCEPT ![p][h] = c] /\ UNCHANGED <<etcd, providerVars, launchVars, clock, seeds, ends>>
  BY DEF PaOnConn
<1>5. c \in {"connecting", "connected", "dead"} /\ (c = "dead" => h \in early)
  BY <1>3
<1> HIDE DEF c
<1>6. QED BY <1>1, <1>4, <1>5, ClientStep

\* The steps of the providers and of their containers.
LEMMA ProviderStep ==
    ASSUME StartInv, NEW h \in Providers,
           ServiceStarts(h) \/ Register(h) \/ ProviderFound(h) \/ PaMain(h) \/ DOnConnect(h)
    PROVE  StartInv'
<1>t. StartTypeOK /\ \A g \in Providers : HostInv(g)
  BY DEF StartInv
<1>u. UNCHANGED <<etcd, launcher, uv_argv, early, pids, clock, seeds, ends, client>>
  BY DEF ServiceStarts, Register, ProviderFound, PaMain, DOnConnect, launchVars, agentVars
<1> SUFFICES StartTypeOK' /\ registry \subseteq registry' /\ (\A g \in Providers : pa[g] = "listens" => pa'[g] = "listens")
             /\ \A g \in Providers : HostInv(g)'
  BY <1>u, ProvidersStep DEF StartInv
<1>1. CASE ServiceStarts(h)
  BY <1>1, <1>t, <1>u DEF ServiceStarts, StartTypeOK, HostInv
<1>2. CASE Register(h)
  BY <1>2, <1>t, <1>u DEF Register, StartTypeOK, HostInv
<1>3. CASE ProviderFound(h)
  BY <1>3, <1>t, <1>u DEF ProviderFound, StartTypeOK, HostInv
<1>4. CASE PaMain(h)
  BY <1>4, <1>t, <1>u DEF PaMain, MayRun, StartTypeOK, HostInv
<1>5. CASE DOnConnect(h)
  BY <1>5, <1>t, <1>u DEF DOnConnect, StartTypeOK, HostInv
<1>6. QED BY <1>1, <1>2, <1>3, <1>4, <1>5

LEMMA StartStep == StartInv /\ [Next]_vars => StartInv'
<1> SUFFICES ASSUME StartInv, [Next]_vars PROVE StartInv'
  OBVIOUS
<1>1. CASE EtcdStarts
  <2>1. /\ etcd' = TRUE
        /\ UNCHANGED <<registry, service, register, pa, dubbo, launcher, uv_argv, early, pids, clock, seeds, ends, client>>
    BY <1>1 DEF EtcdStarts, providerVars, launchVars, agentVars
  <2>2. StartTypeOK'
    BY <2>1 DEF StartInv, StartTypeOK
  <2>3. \A h \in Providers : HostInv(h)'
    BY <2>1, HostsKept
  <2>4. QED BY <2>1, <2>2, <2>3, ProvidersStep DEF StartInv
<1>2. CASE Tick
  <2>1. /\ clock' = clock + 1
        /\ UNCHANGED <<etcd, registry, service, register, pa, dubbo, launcher, uv_argv, early, pids, seeds, ends, client>>
    BY <1>2 DEF Tick, providerVars, launchVars, agentVars
  <2>2. StartTypeOK'
    BY <2>1 DEF StartInv, StartTypeOK
  <2>3. \A h \in Providers : HostInv(h)'
    BY <2>1, HostsKept
  <2>4. QED BY <2>1, <2>2, <2>3, ProvidersStep DEF StartInv
<1>3. CASE CaStartup
  BY <1>3, CaStartupStep
<1>4. ASSUME NEW h \in Providers,
             ServiceStarts(h) \/ Register(h) \/ ProviderFound(h) \/ PaMain(h) \/ DOnConnect(h)
      PROVE  StartInv'
  BY <1>4, ProviderStep
<1>5. ASSUME NEW gap \in Gaps, Fork(gap) PROVE StartInv'
  BY <1>5, ForkStep
<1>6. ASSUME NEW i \in Processes, CaMain(i) PROVE StartInv'
  BY <1>6, CaMainStep
<1>7. ASSUME NEW i \in Processes, NEW h \in Providers, CreatePaClient(i, h) \/ PaOnConn(i, h)
      PROVE  StartInv'
  BY <1>7, CreatePaClientStep, PaOnConnStep
<1>8. CASE UNCHANGED vars
  <2>1. UNCHANGED <<etcd, registry, service, register, pa, dubbo, launcher, uv_argv, early, pids, clock, seeds, ends, client>>
    BY <1>8 DEF vars, providerVars, launchVars, agentVars
  <2>2. StartTypeOK'
    BY <2>1 DEF StartInv, StartTypeOK
  <2>3. \A h \in Providers : HostInv(h)'
    BY <2>1, HostsKept
  <2>4. QED BY <2>1, <2>2, <2>3, ProvidersStep DEF StartInv
<1>9. QED BY <1>1, <1>2, <1>3, <1>4, <1>5, <1>6, <1>7, <1>8 DEF Next

\* The invariant holds of every start.
LEMMA StartInvariant == Spec => []StartInv
  BY StartInit, StartStep, PTL DEF Spec

-----------------------------------------------------------------------------
\* Hosts, containers, processes and clients are in one of their states.
THEOREM StartTypeCorrect == Spec => []StartTypeOK
<1>1. StartInv => StartTypeOK
  BY DEF StartInv
<1>2. QED BY <1>1, StartInvariant, PTL

\* Every process that runs has a balancer nextIdx (lb.h) can use, the same as
\* the other one's.
THEOREM BalancersUsable == Spec => []BalancerUsable
<1>1. StartInv => BalancerUsable
  <2> SUFFICES ASSUME StartInv, NEW i \in Processes, seeds[i] # NoSeed
               PROVE  /\ Len(ends[i]) \in 1 .. MAX_EDS
                      /\ Range(ends[i]) \subseteq registry /\ IsInjective(ends[i])
                      /\ \A j \in Processes : seeds[j] # NoSeed => ends[j] = ends[i]
    BY DEF BalancerUsable
  <2>1. \A j \in Processes : seeds[j] # NoSeed => ends[j] = Hosts(uv_argv) /\ j \in DOMAIN pids
    BY DEF StartInv, ProcessInv
  <2>2. launcher = "read"
    BY <2>1 DEF StartInv, LaunchInv
  <2>3. Usable(Hosts(uv_argv))
    BY <2>2 DEF StartInv, LaunchInv
  <2>4. QED BY <2>1, <2>3 DEF Usable
<1>2. QED BY <1>1, StartInvariant, PTL

\* The wait of pa_register.py: an endpoint in etcd has its provider, and the
\* connect of its agent is not refused.
THEOREM RegisteredHaveProviders == Spec => []RegisteredServes
<1>1. StartInv => RegisteredServes
  BY DEF StartInv, StartTypeOK, HostInv, RegisteredServes
<1>2. QED BY <1>1, StartInvariant, PTL

\* A client that is dead belongs to an endpoint whose agent did not listen yet
\* when ca_startup.py read etcd.
THEOREM DeadClientsReadEarly == Spec => []DeadNeedsEarlyRead
<1>1. StartInv => DeadNeedsEarlyRead
  BY DEF StartInv, ProcessInv, DeadNeedsEarlyRead
<1>2. QED BY <1>1, StartInvariant, PTL

\* The two processes run through the same ids only if their numbers are a
\* multiple of sixteen apart, whatever the times.
THEOREM SameSeedsNeedGap == Spec => []SameSeedNeedsGap
<1>1. StartInv => SameSeedNeedsGap
  <2> SUFFICES ASSUME StartInv, NEW i \in DOMAIN pids, NEW j \in DOMAIN pids,
                      i # j, seeds[i] # NoSeed, seeds[i] = seeds[j]
               PROVE  (pids[i] - pids[j]) % 16 = 0
    BY DEF SameSeedNeedsGap
  <2>1. pids[i] \in Nat /\ pids[j] \in Nat
    BY DEF StartInv, StartTypeOK
  <2>2. i \in Processes /\ j \in Processes
    BY DEF StartInv, StartTypeOK
  <2>3. Bits(pids[i]) \cap 0 .. 3 = Bits(pids[j]) \cap 0 .. 3
    BY <2>2 DEF StartInv, ProcessInv
  <2>4. QED BY <2>1, <2>3, LowBits
<1>2. QED BY <1>1, StartInvariant, PTL
=============================================================================
