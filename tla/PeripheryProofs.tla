--------------------------- MODULE PeripheryProofs ---------------------------
(***************************************************************************)
(* Three of the parts around the store, for every value of their           *)
(* constants: the listeners of artifactd, the test registry and the paged  *)
(* listing; and the composition of the four, the OCI layout with them.     *)
(***************************************************************************)
EXTENDS MCPeriphery, OciLayoutProofs, FiniteSetTheorems, WellFoundedInduction, TLAPS

(***************************************************************************)
(* Listeners                                                               *)
(***************************************************************************)
\* What the listeners, the announcement and the exit code are in each phase.
GroupInv ==
    /\ OriginsTypeOK
    /\ \A l \in Labels : l \notin Entries => lsn[l] = "none"
    /\ phase \in {"config", "stores", "servers", "refused"} => \A l \in Labels : lsn[l] = "none"
    /\ phase = "binding" => \A l \in Entries : lsn[l] \in {"binding", "bound", "failed"}
    /\ phase = "up" => announced = Entries /\ \A l \in Entries : lsn[l] = "bound"
    /\ phase \in {"aborted", "down"} => \A l \in Labels : lsn[l] \in {"none", "failed", "closed"}
    /\ phase \in {"refused", "aborted", "down"} => exitCode = 1
    /\ announced # {} => phase \in {"up", "down"}

LEMMA EntriesAreLabels == Entries \subseteq Labels /\ Entries # {}
  BY DEF Entries, Labels

LEMMA GroupStep == GroupInv /\ [OriginsNext]_originVars => GroupInv'
<1> SUFFICES ASSUME GroupInv, [OriginsNext]_originVars PROVE GroupInv'
  OBVIOUS
<1> USE EntriesAreLabels DEF GroupInv, OriginsTypeOK, Phases, ListenerStates
<1>1. CASE CheckConfig
  BY <1>1 DEF CheckConfig, StartFails, Entries, Separated
<1>2. CASE OpenStores
  BY <1>2 DEF OpenStores, StartFails, Entries, Separated
<1>3. CASE CreateServers
  <2>1. config' = config /\ Entries' = Entries
    BY <1>3 DEF CreateServers, StartFails, Entries, Separated
  <2>2. CASE StartFails
    BY <1>3, <2>1, <2>2 DEF CreateServers, StartFails
  <2>3. CASE ~StartFails
    BY <1>3, <2>1, <2>3 DEF CreateServers
  <2> QED BY <2>2, <2>3
<1>4. CASE GroupDecides
  <2>1. config' = config /\ Entries' = Entries
    BY <1>4 DEF GroupDecides, Entries, Separated
  <2> QED BY <1>4, <2>1 DEF GroupDecides, AllSettled, Closing
<1>5. ASSUME NEW l \in Labels, BindEnds(l) PROVE GroupInv'
  <2>1. config' = config /\ Entries' = Entries
    BY <1>5 DEF BindEnds, Entries, Separated
  <2> QED BY <1>5, <2>1 DEF BindEnds
<1>6. ASSUME NEW l \in Labels, ListenerError(l) PROVE GroupInv'
  <2>1. config' = config /\ Entries' = Entries
    BY <1>6 DEF ListenerError, Entries, Separated
  <2>2. phase \in {"binding", "up"}
    BY <1>6 DEF ListenerError
  <2> QED BY <1>6, <2>1, <2>2 DEF ListenerError, Ending
<1>7. CASE UNCHANGED originVars
  BY <1>7 DEF originVars, Entries, Separated
<1> QED BY <1>1, <1>2, <1>3, <1>4, <1>5, <1>6, <1>7 DEF OriginsNext, OriginsSteps

LEMMA GroupHolds == OriginsSpec => []GroupInv
<1>1. OriginsInit => GroupInv
  BY DEF OriginsInit, GroupInv, OriginsTypeOK, Phases, ListenerStates
<1> QED BY <1>1, GroupStep, PTL DEF OriginsSpec

\* A start of artifactd announces all listeners of its topology or keeps none
\* open, whatever the configuration and whichever binds and errors come first
\* (server index.js:424-493).
THEOREM DeploymentsAreWhole == OriginsSpec => []NoHalfDeployment
<1>1. GroupInv => NoHalfDeployment
  BY EntriesAreLabels DEF GroupInv, NoHalfDeployment, OriginsTypeOK, ListenerStates
<1> QED BY <1>1, GroupHolds, PTL

(***************************************************************************)
(* Hosts                                                                   *)
(***************************************************************************)
\* A group that binds has a configuration whose hosts are unambiguous.
HostsInv ==
    /\ config \in Configs
    /\ phase \in {"binding", "up"} /\ Separated(config) => BindingOK(config)

LEMMA HostsHold == OriginsSpec => []HostsInv
<1>1. OriginsInit => HostsInv
  BY DEF OriginsInit, HostsInv
<1>2. HostsInv /\ [OriginsNext]_originVars => HostsInv'
  <2> SUFFICES ASSUME HostsInv, [OriginsNext]_originVars PROVE HostsInv'
    OBVIOUS
  <2>1. config' = config
    BY DEF OriginsNext, OriginsSteps, CheckConfig, OpenStores, CreateServers, BindEnds,
           GroupDecides, ListenerError, StartFails, originVars
  <2>2. phase' \in {"binding", "up"} => phase \in {"binding", "up"} \/ RuntimeOK(config)
    BY DEF OriginsNext, OriginsSteps, CheckConfig, OpenStores, CreateServers, BindEnds,
           GroupDecides, ListenerError, StartFails, originVars
  <2>3. (Separated(config)' <=> Separated(config)) /\ (BindingOK(config)' <=> BindingOK(config))
    <3>1. Separated(config)' <=> Separated(config)
      BY <2>1, Zenon DEF Separated
    <3>2. BindingOK(config)' <=> BindingOK(config)
      BY <2>1, ZenonT(60) DEF BindingOK
    <3> QED BY <3>1, <3>2
  <2>4. phase' \in {"binding", "up"} /\ Separated(config) => BindingOK(config)
    <3>1. phase \in {"binding", "up"} /\ Separated(config) => BindingOK(config)
      BY DEF HostsInv
    <3>2. RuntimeOK(config) /\ Separated(config) => BindingOK(config)
      BY DEF RuntimeOK
    <3> QED BY <2>2, <3>1, <3>2
  <2>5. config' \in Configs
    BY <2>1 DEF HostsInv
  <2> QED BY <2>3, <2>4, <2>5 DEF HostsInv
<1> QED BY <1>1, <1>2, PTL DEF OriginsSpec

\* The host of a label under the base domain leads to that label's site.
LEMMA WildcardLeadsBack ==
  ASSUME NEW c \in Configs, BindingOK(c), c.base # Nothing,
         NEW s \in Slug, s \in DnsLabel
  PROVE  Resolve(c, [name |-> <<s>> \o c.base, clean |-> TRUE, port |-> "given"]) = s
<1> DEFINE n == <<s>> \o c.base
           h == [name |-> n, clean |-> TRUE, port |-> "given"]
           pins == {c.hosts[i].site : i \in {j \in DOMAIN c.hosts :
                                               c.hosts[j].host.name = h.name}}
<1>1. c.base \in Seq(STRING) /\ s \in STRING /\ PlainName(c.base)
  BY NamesAndAnswers DEF NamesAndAnswers, BindingOK
<1>2. /\ n \in Seq(STRING) /\ Len(n) = Len(c.base) + 1 /\ Len(c.base) \in Nat
      /\ n[1] = s /\ Head(n) = s
      /\ \A i \in 1 .. Len(c.base) : n[i + 1] = c.base[i]
  BY <1>1
<1>3. SubSeq(n, 2, Len(n)) = c.base
  BY <1>1, <1>2
<1>4. Ends(n, c.base)
  BY <1>2, <1>3 DEF Ends
<1>5. PlainName(n)
  <2>1. \A i \in 1 .. Len(n) : n[i] \in DnsLabel
    <3> TAKE i \in 1 .. Len(n)
    <3>1. CASE i = 1
      BY <3>1, <1>2
    <3>2. CASE i # 1
      <4>1. i - 1 \in 1 .. Len(c.base) /\ (i - 1) + 1 = i
        BY <3>2, <1>2
      <4> QED BY <4>1, <1>1, <1>2 DEF PlainName
    <3> QED BY <3>1, <3>2
  <2> QED BY <2>1, <1>2 DEF PlainName
<1>6. pins = {}
  BY <1>4 DEF BindingOK
<1>7. h.name = n /\ Parses(h)
  BY <1>5 DEF Parses
<1> HIDE DEF n, h, pins
<1>8. Resolve(c, h) = IF pins # {} THEN CHOOSE x \in pins : TRUE
                      ELSE IF /\ c.base # Nothing /\ Ends(h.name, c.base)
                              /\ Len(h.name) = Len(c.base) + 1 /\ Head(h.name) \in Slug
                           THEN Head(h.name) ELSE "404"
  BY <1>7 DEF Resolve, pins
<1> QED BY <1>2, <1>4, <1>6, <1>7, <1>8 DEF n, h

\* A pinned host leads to the one site it is pinned to.
LEMMA PinLeadsBack ==
  ASSUME NEW c \in Configs, BindingOK(c), NEW i \in DOMAIN c.hosts
  PROVE  /\ Resolve(c, [name |-> c.hosts[i].host.name, clean |-> TRUE, port |-> "given"])
              = c.hosts[i].site
         /\ \A j \in DOMAIN c.hosts :
              c.hosts[j].host.name = c.hosts[i].host.name => c.hosts[j].site = c.hosts[i].site
<1> DEFINE h == [name |-> c.hosts[i].host.name, clean |-> TRUE, port |-> "given"]
           pins == {c.hosts[k].site : k \in {j \in DOMAIN c.hosts :
                                               c.hosts[j].host.name = h.name}}
<1>1. \A j \in DOMAIN c.hosts : c.hosts[j].host.name = c.hosts[i].host.name => j = i
  BY DEF BindingOK
<1>2. pins = {c.hosts[i].site}
  BY <1>1
<1>3. Parses(h)
  BY DEF BindingOK, Parses
<1> HIDE DEF pins
<1>4. Resolve(c, h) = CHOOSE x \in pins : TRUE
  BY <1>2, <1>3 DEF Resolve, pins
<1> QED BY <1>1, <1>2, <1>4

\* A Host header reaches at most one site, whatever its port and the query are, and
\* the canonical host of a site reaches just that site (content-host.js:79-156).
THEOREM HostsReachOneSite == OriginsSpec => []HostReachesOneSite
<1>1. HostsInv => HostReachesOneSite
  <2> SUFFICES ASSUME HostsInv, phase = "up", Separated(config)
               PROVE  HostReachesOneSite
    BY DEF HostReachesOneSite
  <2>1. BindingOK(config) /\ config \in Configs
    BY DEF HostsInv
  <2>2. \A r \in Request : /\ Dispatch("content", r) \in Slug \cup {"400", "404"}
                           /\ Dispatch("content", r) \in Slug =>
                                Parses(r.host) /\ Dispatch("content", r) = Resolve(config, r.host)
    <3> TAKE r \in Request
    <3>1. Dispatch("content", r) \in {"404", Resolve(config, r.host)}
      BY DEF Dispatch, ContentDispatch
    <3>2. Resolve(config, r.host) \in Slug \cup {"400", "404"}
      <4> DEFINE at == {j \in DOMAIN config.hosts : config.hosts[j].host.name = r.host.name}
                 pins == {config.hosts[i].site : i \in at}
      <4>1. pins \subseteq Slug
        BY <2>1 DEF BindingOK
      <4>2. pins # {} => (CHOOSE x \in pins : TRUE) \in Slug
        BY <4>1
      <4> QED BY <4>2 DEF Resolve
    <3>3. ~Parses(r.host) => Resolve(config, r.host) = "400"
      BY DEF Resolve
    <3> QED BY <3>1, <3>2, <3>3, NamesAndAnswers DEF NamesAndAnswers
  <2>3. ASSUME NEW name \in Hosts
        PROVE  Cardinality(Slug \cap {Dispatch("content", r) :
                                      r \in {q \in Request : q.host.name = name}}) <= 1
    <3> DEFINE S == Slug \cap {Dispatch("content", r) : r \in {q \in Request : q.host.name = name}}
    <3>1. ASSUME NEW r \in Request, NEW q \in Request, r.host.name = q.host.name,
                 Parses(r.host), Parses(q.host)
          PROVE  Resolve(config, r.host) = Resolve(config, q.host)
      BY <3>1 DEF Resolve
    <3>2. \A x, y \in S : x = y
      BY <3>1, <2>2
    <3>3. S = {} \/ \E x : S = {x}
      BY <3>2
    <3> HIDE DEF S
    <3>4. Cardinality(S) = 0 \/ Cardinality(S) = 1
      BY <3>3, FS_EmptySet, FS_Singleton
    <3>5. Cardinality(S) <= 1
      BY <3>4
    <3> QED BY <3>5 DEF S
  <2>4. ASSUME NEW s \in Slug, CanonicalContentUrl(config, s) # Nothing
        PROVE  LET url == CanonicalContentUrl(config, s) IN
               /\ s \in DnsLabel => Resolve(config,
                      [name |-> url.host, clean |-> TRUE, port |-> "given"]) = s
               /\ \A t \in Slug \ {s} : CanonicalContentUrl(config, t) # url
    <3> DEFINE url == CanonicalContentUrl(config, s)
    <3>1. HostFor(config, s) # Nothing /\ url.host = HostFor(config, s)
      BY <2>4 DEF CanonicalContentUrl
    <3>2. \A t \in Slug : CanonicalContentUrl(config, t) = url => HostFor(config, t) = HostFor(config, s)
      BY <2>4, <3>1 DEF CanonicalContentUrl
    <3>3. CASE config.base # Nothing
      <4>1. HostFor(config, s) = <<s>> \o config.base
        BY <3>3 DEF HostFor
      <4>2. ASSUME NEW t \in Slug, HostFor(config, t) = HostFor(config, s) PROVE t = s
        <5>1. config.base \in Seq(STRING) /\ s \in STRING /\ t \in STRING
          BY <3>3, <2>1, NamesAndAnswers DEF NamesAndAnswers
        <5>2. (<<t>> \o config.base)[1] = t /\ (<<s>> \o config.base)[1] = s
          BY <5>1
        <5> QED BY <5>2, <4>1, <4>2, <3>3 DEF HostFor
      <4> QED BY <2>1, <3>1, <3>2, <3>3, <4>1, <4>2, WildcardLeadsBack
    <3>4. CASE config.base = Nothing
      <4> DEFINE names(t) == {config.hosts[i].host.name :
                                i \in {j \in DOMAIN config.hosts : config.hosts[j].site = t}}
      <4>1. ASSUME NEW t \in Slug, HostFor(config, t) # Nothing
            PROVE  \E i \in DOMAIN config.hosts :
                     /\ config.hosts[i].site = t
                     /\ config.hosts[i].host.name = HostFor(config, t)
        <5>1. /\ Cardinality(names(t)) = 1
              /\ HostFor(config, t) = CHOOSE n \in names(t) : TRUE
          BY <3>4, <4>1 DEF HostFor
        <5>2. names(t) # {}
          BY <5>1, FS_EmptySet
        <5> QED BY <5>1, <5>2
      <4>2. PICK i \in DOMAIN config.hosts :
              config.hosts[i].site = s /\ config.hosts[i].host.name = HostFor(config, s)
        BY <3>1, <4>1
      <4>3. ASSUME NEW t \in Slug, HostFor(config, t) = HostFor(config, s) PROVE t = s
        <5>1. PICK j \in DOMAIN config.hosts :
                config.hosts[j].site = t /\ config.hosts[j].host.name = HostFor(config, t)
          BY <3>1, <4>1, <4>3
        <5> QED BY <5>1, <4>2, <4>3, <2>1, PinLeadsBack
      <4> QED BY <2>1, <3>1, <3>2, <4>2, <4>3, PinLeadsBack
    <3> QED BY <3>3, <3>4
  <2> QED BY <2>2, <2>3, <2>4, NamesAndAnswers DEF HostReachesOneSite, NamesAndAnswers
<1> QED BY <1>1, HostsHold, PTL

(***************************************************************************)
(* The test registry                                                       *)
(***************************************************************************)
\* Which processes there may be at each point of the start and of the stop, and
\* how late an answer under judgement can have been.
StartInv ==
    /\ RegistryTypeOK
    /\ reg.k \in 1 .. Len(SetupSteps) /\ reg = [pc |-> reg.pc, k |-> reg.k]
    /\ child \in {"none", "running", "dead", "unspawned"} /\ exited \in BOOLEAN
    /\ dir \in {"none", "there", "removed"}
    /\ probe \in {"none", "sent", "answered", "error"}
    /\ tool # "none" => reg.k < Len(SetupSteps)
    /\ exited => child \in {"dead", "unspawned"}
    /\ reg.pc \in {"setup", "spawn"} => child = "none"
    /\ reg.pc \in {"loop", "probe", "delay", "ready", "term", "killed"} => child # "none"
    /\ reg.pc \in {"remove", "rejected", "stopped"} => child = "none" \/ exited
    /\ probe = "answered" => answer.kind \in Kinds /\ answer.left \in Int /\ answer.left >= budget
    /\ reg.pc = "ready" => answer.kind = "challenge" /\ answer.left >= 0
    /\ reg.pc = "rejected" => cause # "none"
    /\ reg.pc \in {"rejected", "stopped"} /\ dir = "there" => problems # {}

LEMMA SetupCauses == /\ Len(SetupSteps) = 7 /\ DOMAIN SetupSteps = 1 .. 7
                     /\ \A k \in 1 .. 7 : SetupSteps[k] # "none"
                     /\ SetupSteps[7] \notin Tools
  BY DEF SetupSteps, Tools

LEMMA StartStep == StartInv /\ [RegistryNext]_registryVars => StartInv'
<1> SUFFICES ASSUME StartInv, [RegistryNext]_registryVars PROVE StartInv'
  OBVIOUS
<1> USE RegistryTimes, SetupCauses DEF RegistryTimes, StartInv, RegistryTypeOK, At, To, Fails
<1>1. ASSUME NEW s \in {SetupSteps[k] : k \in DOMAIN SetupSteps}, SetupStep(s) PROVE StartInv'
  BY <1>1 DEF SetupStep
<1>2. CASE ToolCloses
  BY <1>2 DEF ToolCloses
<1>3. CASE ToolTimesOut
  BY <1>3 DEF ToolTimesOut
<1>4. CASE Spawn
  BY <1>4 DEF Spawn
<1>5. CASE Probe
  BY <1>5 DEF Probe, Expired
<1>6. CASE Answers
  BY <1>6 DEF Answers
<1>7. CASE ProbeErrs
  BY <1>7 DEF ProbeErrs
<1>8. CASE ProbeTimesOut
  BY <1>8 DEF ProbeTimesOut
<1>9. CASE Judge
  BY <1>9 DEF Judge, InTime, Kinds
<1>10. CASE DelayEnds
  BY <1>10 DEF DelayEnds
<1>11. CASE Stop
  BY <1>11 DEF Stop
<1>12. CASE Kill
  BY <1>12 DEF Kill
<1>13. CASE ChildGone
  BY <1>13 DEF ChildGone, Reaped
<1>14. CASE RemoveState
  BY <1>14 DEF RemoveState
<1>15. CASE ChildDies
  BY <1>15 DEF ChildDies
<1>16. CASE ReportExit
  BY <1>16 DEF ReportExit
<1>17. CASE Tick
  BY <1>17 DEF Tick
<1>18. CASE UNCHANGED registryVars
  BY <1>18 DEF registryVars
<1> QED BY <1>1, <1>2, <1>3, <1>4, <1>5, <1>6, <1>7, <1>8, <1>9, <1>10, <1>11, <1>12,
           <1>13, <1>14, <1>15, <1>16, <1>17, <1>18 DEF RegistryNext, SetUp

LEMMA StartHolds == RegistrySpec => []StartInv
<1>1. ASSUME RegistryInit PROVE StartInv
  <2>1. reg = [pc |-> "setup", k |-> 1] /\ reg.pc = "setup" /\ reg.k = 1
    BY <1>1 DEF RegistryInit
  <2>2. RegistryTypeOK
    BY <1>1, <2>1, RegistryTimes DEF RegistryInit, RegistryTypeOK, RegistryTimes, At
  <2>3. reg.k \in 1 .. Len(SetupSteps)
    BY <2>1, SetupCauses
  <2>4. probe = "none" /\ ~exited /\ child = "none" /\ tool = "none" /\ dir = "none" /\ exited \in BOOLEAN
    BY <1>1 DEF RegistryInit
  <2> QED BY <2>1, <2>2, <2>3, <2>4 DEF StartInv
<1> QED BY <1>1, StartStep, PTL DEF RegistrySpec

\* However late the event loop comes to a timer or to an answer, a registry is
\* handed out only on an answer that came within its budget and was the right
\* one (tls-registry.js:438-477).
THEOREM ReadyIsReady == RegistrySpec => []ReadyMeansReady
<1>1. StartInv => ReadyMeansReady
  BY DEF StartInv, ReadyMeansReady, At
<1> QED BY <1>1, StartHolds, PTL

\* A start that fails and a stop that ends leave no process, no request and no
\* directory that is not reported (tls-registry.js:371-406).
THEOREM FailuresAreClean == RegistrySpec => []FailureLeavesNothing
<1>1. StartInv => FailureLeavesNothing
  BY DEF StartInv, RegistryTypeOK, FailureLeavesNothing, At
<1> QED BY <1>1, StartHolds, PTL

(***************************************************************************)
(* The paged listing                                                       *)
(***************************************************************************)
LEMMA KeysAreNumbers == Keys \subseteq Nat \ {0} /\ IsFiniteSet(Keys)
<1>1. PICK n \in Nat : Keys = 1 .. n
  BY ListingBounds DEF ListingBounds
<1> QED BY <1>1, FS_Interval

LEMMA LastIsGreatest ==
  ASSUME NEW T \in SUBSET Keys, T # {}
  PROVE  Last(T) \in T /\ \A j \in T : j <= Last(T)
<1>1. PICK n \in Nat : Keys = 1 .. n
  BY ListingBounds DEF ListingBounds
<1> DEFINE D == {n - k : k \in T}
<1>2. D \subseteq Nat /\ D # {}
  <2>1. \A k \in T : k \in Int /\ k <= n
    BY <1>1
  <2> QED BY <2>1
<1>3. PICK x \in D : \A y \in D : ~ (<<y, x>> \in OpToRel(<, Nat))
  BY <1>2, WFMin, NatLessThanWellFounded, Zenon
<1>4. PICK k \in T : x = n - k
  BY <1>3
<1>5. ASSUME NEW j \in T PROVE j <= k
  <2>1. n - j \in D /\ n - j \in Nat /\ x \in Nat
    BY <1>2, <1>3
  <2>2. ~(n - j < x)
    BY <2>1, <1>3 DEF OpToRel
  <2> QED BY <2>1, <2>2, <1>1, <1>4
<1> QED BY <1>4, <1>5 DEF Last

LEMMA SomeKeyIsLeast ==
  ASSUME NEW T \in SUBSET Keys, T # {}
  PROVE  \E k \in T : \A j \in T : k <= j
<1>1. T \subseteq Nat
  BY KeysAreNumbers
<1>2. PICK k \in T : \A j \in T : ~ (<<j, k>> \in OpToRel(<, Nat))
  BY <1>1, WFMin, NatLessThanWellFounded, Zenon
<1>3. ASSUME NEW j \in T PROVE k <= j
  <2>1. ~(j < k) /\ j \in Nat /\ k \in Nat
    BY <1>1, <1>2 DEF OpToRel
  <2> QED BY <2>1
<1> QED BY <1>3

\* A page is a beginning of what is still to come, and not empty unless that is.
LEMMA PageIsPrefix ==
  ASSUME bucket \subseteq Keys
  PROVE  /\ PageKeys \subseteq Upcoming /\ Upcoming \subseteq bucket
         /\ Upcoming # {} => PageKeys # {}
         /\ PageKeys # {} => /\ Last(PageKeys) \in PageKeys
                             /\ \A k \in Upcoming : k <= Last(PageKeys) => k \in PageKeys
<1> DEFINE UpTo(k) == {j \in Upcoming : j <= k}
<1>1. PageKeys \subseteq Upcoming /\ Upcoming \subseteq bucket /\ Upcoming \subseteq Keys
  BY DEF PageKeys, Upcoming
<1>2. IsFiniteSet(Upcoming) /\ Upcoming \subseteq Nat
  BY <1>1, KeysAreNumbers, FS_Subset
<1>3. \A k \in Upcoming : IsFiniteSet(UpTo(k)) /\ Cardinality(UpTo(k)) \in Nat
  <2> TAKE k \in Upcoming
  <2>1. UpTo(k) \in SUBSET Upcoming
    OBVIOUS
  <2> QED BY <1>2, <2>1, FS_Subset, FS_CardinalityType
<1>4. Upcoming # {} => PageKeys # {}
  <2> HAVE Upcoming # {}
  <2>1. PICK k \in Upcoming : \A j \in Upcoming : k <= j
    BY <1>1, SomeKeyIsLeast
  <2>2. UpTo(k) = {k}
    <3>1. k \in UpTo(k)
      BY <1>2
    <3>2. ASSUME NEW j \in UpTo(k) PROVE j = k
      <4>1. j \in Nat /\ k \in Nat /\ j <= k /\ k <= j
        BY <2>1, <1>2, <3>2
      <4> QED BY <4>1
    <3> QED BY <3>1, <3>2
  <2>3. Cardinality(UpTo(k)) = 1
    BY <2>2, FS_Singleton
  <2> QED BY <2>3, ListingBounds DEF ListingBounds, PageKeys
<1>5. ASSUME PageKeys # {}
      PROVE  /\ Last(PageKeys) \in PageKeys
             /\ \A k \in Upcoming : k <= Last(PageKeys) => k \in PageKeys
  <2>1. Last(PageKeys) \in PageKeys
    BY <1>1, <1>5, LastIsGreatest
  <2>2. ASSUME NEW k \in Upcoming, k <= Last(PageKeys) PROVE k \in PageKeys
    <3> DEFINE m == Last(PageKeys)
    <3>1. m \in Upcoming /\ Cardinality(UpTo(m)) <= MaxKeys
      BY <2>1 DEF PageKeys
    <3>2. UpTo(k) \in SUBSET UpTo(m)
      <4> SUFFICES ASSUME NEW j \in UpTo(k) PROVE j <= m
        OBVIOUS
      <4>1. j \in Nat /\ k \in Nat /\ m \in Nat /\ j <= k /\ k <= m
        BY <2>2, <3>1, <1>2
      <4> QED BY <4>1
    <3>3. Cardinality(UpTo(k)) <= Cardinality(UpTo(m))
      BY <3>1, <3>2, <1>3, FS_Subset
    <3>4. Cardinality(UpTo(k)) <= MaxKeys
      <4>1. Cardinality(UpTo(k)) \in Nat /\ Cardinality(UpTo(m)) \in Nat
        BY <3>1, <1>3
      <4>2. MaxKeys \in Nat
        BY ListingBounds DEF ListingBounds
      <4> HIDE DEF UpTo, m
      <4> QED BY <3>1, <3>3, <4>1, <4>2
    <3> QED BY <3>4 DEF PageKeys
  <2> QED BY <2>1, <2>2
<1> QED BY <1>1, <1>4, <1>5

\* The blobs behind the token are found, unless they are gone or were passed over;
\* the keys of the answer being read are those up to its own token, but for what it
\* passes over, or an error will end it.
ListingInv ==
    /\ bucket \subseteq Keys /\ kept \subseteq bucket /\ bucket \subseteq seen
    /\ list = [pc |-> list.pc, token |-> list.token, pages |-> list.pages]
    /\ list.token \in Keys \cup {NoToken}
    /\ out \subseteq seen \cap BlobKeys
    /\ list.pc \in {"ask", "read"} =>
         \A k \in kept \cap BlobKeys : k <= After(list.token) => k \in out \cup withheld
    /\ list.pc = "read" =>
         /\ page.keys \subseteq seen
         /\ page.ok /\ TokenOK /\ page.truncated =>
              /\ page.token \in Keys
              /\ \A k \in kept : k <= page.token =>
                                 k <= After(list.token) \/ k \in page.keys \cup withheld
         /\ page.ok /\ ~page.truncated =>
              \A k \in kept : k <= After(list.token) \/ k \in page.keys \cup withheld
    /\ ListingIsComplete

LEMMA PagesAnswer ==
  ASSUME ListingInv, AskPage PROVE ListingInv'
<1>1. /\ list' = [list EXCEPT !.pc = "read"] /\ list'.pc = "read" /\ list'.token = list.token
      /\ list.pc = "ask"
      /\ UNCHANGED <<bucket, kept, seen, out, changes>>
      /\ withheld' = withheld \cup PassedOver(page')
  BY DEF AskPage, ListingInv
<1>2. /\ PageKeys \subseteq Upcoming /\ Upcoming \subseteq bucket
      /\ PageKeys # Upcoming => Last(PageKeys) \in PageKeys
  BY PageIsPrefix DEF ListingInv
<1>3. \A k \in kept : k <= After(list.token) \/ k \in Upcoming
  BY KeysAreNumbers DEF ListingInv, Upcoming, After
<1>4. \/ page' = NoPage \/ page' = Honest
      \/ \E e \in {"garbled", "unsized"} : page' = [Honest EXCEPT !.entries = e]
      \/ \E t \in {"absent", "empty", "garbled"} :
            page' = [Honest EXCEPT !.truncated = TRUE, !.text = t]
      \/ list.token # NoToken /\ page' = [Honest EXCEPT !.truncated = TRUE, !.token = list.token]
      \/ \E some \in SUBSET PageKeys : page' = [Honest EXCEPT !.keys = some]
      \/ \E some \in SUBSET PageKeys : page' = [Honest EXCEPT !.keys = some, !.truncated = FALSE]
  <2>1. page' \in {Honest} \cup Faulty \cup Silent
    BY DEF AskPage
  <2>2. CASE page' \in Silent
    BY <2>2, Zenon DEF Silent
  <2>3. CASE page' \in Faulty
    <3>1. \/ page' = NoPage
          \/ page' \in {[Honest EXCEPT !.entries = e] : e \in {"garbled", "unsized"}}
          \/ page' \in {[Honest EXCEPT !.truncated = TRUE, !.text = t] :
                           t \in {"absent", "empty", "garbled"}}
          \/ list.token # NoToken /\ page' = [Honest EXCEPT !.truncated = TRUE, !.token = list.token]
      BY <2>3, Zenon DEF Faulty
    <3> QED BY <3>1
  <2> QED BY <2>1, <2>2, <2>3
<1>5. /\ page'.keys \subseteq PageKeys
      /\ page'.ok /\ TokenOK' /\ page'.truncated => page'.token \in Keys
  <2>1. CASE page' = NoPage
    BY <2>1 DEF NoPage
  <2>2. CASE page' = Honest \/ \E e \in {"garbled", "unsized"} : page' = [Honest EXCEPT !.entries = e]
    <3>1. /\ page'.keys = PageKeys /\ page'.truncated = (PageKeys # Upcoming)
          /\ PageKeys # Upcoming => page'.token = Last(PageKeys)
      BY <2>2 DEF Honest
    <3> QED BY <3>1, <1>2 DEF ListingInv
  <2>3. CASE \E t \in {"absent", "empty", "garbled"} :
                page' = [Honest EXCEPT !.truncated = TRUE, !.text = t]
    BY <2>3 DEF Honest, TokenOK, Decodes
  <2>4. CASE list.token # NoToken /\ page' = [Honest EXCEPT !.truncated = TRUE, !.token = list.token]
    BY <2>4 DEF Honest, ListingInv
  <2>5. CASE \E some \in SUBSET PageKeys :
                page' = [Honest EXCEPT !.keys = some]
                  \/ page' = [Honest EXCEPT !.keys = some, !.truncated = FALSE]
    <3>1. PICK some \in SUBSET PageKeys :
                 page' = [Honest EXCEPT !.keys = some]
                   \/ page' = [Honest EXCEPT !.keys = some, !.truncated = FALSE]
      BY <2>5
    <3>2. /\ page'.keys = some
          /\ page'.truncated => PageKeys # Upcoming
          /\ PageKeys # Upcoming => page'.token = Last(PageKeys)
      BY <3>1 DEF Honest
    <3> QED BY <3>2, <1>2 DEF ListingInv
  <2> QED BY <2>1, <2>2, <2>3, <2>4, <2>5, <1>4
<1>6. /\ page'.ok /\ TokenOK' /\ page'.truncated =>
           \A k \in kept : k <= page'.token =>
                             k <= After(list.token) \/ k \in page'.keys \cup PassedOver(page')
      /\ page'.ok /\ ~page'.truncated =>
           \A k \in kept : k <= After(list.token) \/ k \in page'.keys \cup PassedOver(page')
  <2>1. page'.ok /\ TokenOK' /\ page'.truncated => After(page'.token) = page'.token
    BY <1>5, ListingBounds DEF ListingBounds, After
  <2> QED BY <2>1, <1>3 DEF PassedOver
<1>7. /\ kept' = kept /\ After(list'.token) = After(list.token) /\ page'.keys \subseteq seen'
      /\ withheld \subseteq withheld' /\ PassedOver(page') \subseteq withheld'
  BY <1>1, <1>2, <1>5 DEF ListingInv, After
<1>8. /\ page'.ok /\ TokenOK' /\ page'.truncated =>
           /\ page'.token \in Keys
           /\ \A k \in kept' : k <= page'.token =>
                               k <= After(list'.token) \/ k \in page'.keys \cup withheld'
      /\ page'.ok /\ ~page'.truncated =>
           \A k \in kept' : k <= After(list'.token) \/ k \in page'.keys \cup withheld'
  BY <1>5, <1>6, <1>7
<1>9. \A k \in kept' \cap BlobKeys : k <= After(list'.token) => k \in out' \cup withheld'
  BY <1>1, <1>7 DEF ListingInv
<1> QED BY <1>1, <1>7, <1>8, <1>9 DEF ListingInv, ListingIsComplete

LEMMA PagesRead ==
  ASSUME ListingInv, ReadPage PROVE ListingInv'
<1> DEFINE found == page.keys \cap BlobKeys
           more == page.truncated /\ page.text # "absent"
           bad == \/ ~page.ok \/ ~TokenOK \/ page.entries = "garbled"
                  \/ (page.entries = "unsized" /\ found # {})
                  \/ list.pages + 1 > MaxPages
<1>1. list.pc = "read" /\ UNCHANGED <<bucket, kept, seen, withheld, changes>>
  BY DEF ReadPage
<1>2. CASE bad
  <2>1. list' = [list EXCEPT !.pc = "failed"] /\ out' = {}
    BY <1>2 DEF ReadPage
  <2> QED BY <1>1, <2>1 DEF ListingInv, ListingIsComplete
<1>3. CASE ~bad
  <2>1. /\ list' = [pc |-> IF more THEN "ask" ELSE "done", pages |-> list.pages + 1,
                    token |-> IF more THEN page.token ELSE NoToken]
        /\ out' = out \cup found
    BY <1>3 DEF ReadPage
  <2>2. page.ok /\ TokenOK /\ (page.truncated => more)
    BY <1>3 DEF TokenOK
  <2>3. CASE more
    <3>1. page.token \in Keys /\ page.token # NoToken
      BY <1>1, <2>2, <2>3, ListingBounds DEF ListingInv, ListingBounds
    <3>2. list'.token = page.token /\ list'.pc = "ask" /\ After(list'.token) = page.token
      BY <2>1, <2>3, <3>1 DEF After
    <3>3. \A k \in kept \cap BlobKeys : k <= page.token => k \in out \cup found \cup withheld
      BY <1>1, <2>2, <2>3 DEF ListingInv
    <3> QED BY <1>1, <2>1, <3>1, <3>2, <3>3 DEF ListingInv, ListingIsComplete
  <2>4. CASE ~more
    <3>1. list'.pc = "done" /\ list'.token = NoToken
      BY <2>1, <2>4
    <3>2. \A k \in kept \cap BlobKeys : k \in out \cup found \cup withheld
      BY <1>1, <2>2, <2>4 DEF ListingInv
    <3> QED BY <1>1, <2>1, <3>1, <3>2 DEF ListingInv, ListingIsComplete
  <2> QED BY <2>3, <2>4
<1> QED BY <1>2, <1>3

LEMMA OthersChange ==
  ASSUME ListingInv, NEW k \in Keys, BucketChanges(k) PROVE ListingInv'
<1>1. UNCHANGED <<list, out, page, withheld>> /\ list.pc \in {"ask", "read"}
  BY DEF BucketChanges
<1>2. bucket' \subseteq Keys /\ kept' \subseteq bucket' /\ bucket' \subseteq seen'
      /\ kept' \subseteq kept /\ seen \subseteq seen'
  BY DEF BucketChanges, ListingInv
<1>3. TokenOK' = TokenOK /\ After(list'.token) = After(list.token)
  BY <1>1 DEF TokenOK, Decodes, After
<1> QED BY <1>1, <1>2, <1>3 DEF ListingInv, ListingIsComplete

\* The pages are counted, and only blobs are found.
LEMMA ListingTypes == ListingInv /\ ListingTypeOK /\ [ListingNext]_listingVars => ListingTypeOK'
<1> SUFFICES ASSUME ListingInv, ListingTypeOK, [ListingNext]_listingVars PROVE ListingTypeOK'
  OBVIOUS
<1>1. /\ list = [pc |-> list.pc, token |-> list.token, pages |-> list.pages]
      /\ MaxPages \in Nat
  BY ListingBounds DEF ListingInv, ListingBounds
<1>2. CASE AskPage
  <2>1. withheld' = withheld \cup PassedOver(page') /\ UNCHANGED <<bucket, kept, seen, out>>
        /\ list' = [list EXCEPT !.pc = "read"]
    BY <1>2 DEF AskPage
  <2>2. PassedOver(page') \subseteq seen
    BY DEF PassedOver, Upcoming, ListingTypeOK
  <2> QED BY <1>1, <2>1, <2>2 DEF ListingTypeOK
<1>3. CASE ReadPage
  <2>1. \/ list' = [list EXCEPT !.pc = "failed"] /\ out' = {}
        \/ /\ ~ (list.pages + 1 > MaxPages) /\ out' = out \cup (page.keys \cap BlobKeys)
           /\ list'.pages = list.pages + 1 /\ list'.pc \in {"ask", "done"}
    BY <1>3 DEF ReadPage
  <2> QED BY <1>1, <1>3, <2>1 DEF ReadPage, ListingTypeOK
<1>4. ASSUME NEW k \in Keys, BucketChanges(k) PROVE ListingTypeOK'
  BY <1>4 DEF BucketChanges, ListingTypeOK
<1>5. CASE UNCHANGED listingVars
  BY <1>5 DEF listingVars, ListingTypeOK
<1> QED BY <1>2, <1>3, <1>4, <1>5 DEF ListingNext

LEMMA ListingHolds == ListingSpec => [](ListingInv /\ ListingTypeOK)
<1>1. ListingInit => ListingInv /\ ListingTypeOK
  BY KeysAreNumbers, ListingBounds
     DEF ListingInit, ListingInv, ListingIsComplete, After, ListingTypeOK, ListingBounds
<1>2. ListingInv /\ [ListingNext]_listingVars => ListingInv'
  <2> SUFFICES ASSUME ListingInv, [ListingNext]_listingVars PROVE ListingInv'
    OBVIOUS
  <2>1. CASE UNCHANGED listingVars
    BY <2>1 DEF listingVars, ListingInv, ListingIsComplete, After, TokenOK, Decodes
  <2> QED BY <2>1, PagesAnswer, PagesRead, OthersChange DEF ListingNext
<1> QED BY <1>1, <1>2, ListingTypes, PTL DEF ListingSpec

\* A listing that returns is true, and misses only what answers of status 200
\* passed over, for every number of keys, every page size and any number of changes
\* meanwhile: every other fault of an answer, a lost or broken token among them,
\* fails it (storage-s3 index.js:272-315).
THEOREM ListingsAreComplete == ListingSpec => []ListingIsComplete
<1>1. ListingInv => ListingIsComplete
  BY DEF ListingInv
<1> QED BY <1>1, ListingHolds, PTL

-----------------------------------------------------------------------------
(***************************************************************************)
(* The composition                                                         *)
(***************************************************************************)
\* One part runs and the others stay: each part's behaviour in the composition is
\* one of its own specification, so that what is proved of a part alone holds of
\* it there.
THEOREM PartsAreThemselves ==
  Spec => OriginsSpec /\ LayoutSpec /\ ListingSpec /\ RegistrySpec
<1>1. Init => OriginsInit /\ LayoutInit /\ ListingInit /\ RegistryInit
  BY DEF Init
<1>2. [Next]_vars => /\ [OriginsNext]_originVars /\ [LayoutNext]_layoutVars
                     /\ [ListingNext]_listingVars /\ [RegistryNext]_registryVars
  BY DEF Next, vars, OriginsRuns, LayoutRuns, ListingRuns, RegistryRuns
<1> QED BY <1>1, <1>2, PTL DEF Spec, OriginsSpec, LayoutSpec, ListingSpec, RegistrySpec

\* Every variable of the four parts stays in its type (server index.js:426-503,
\* transport-oci index.js:36-159, storage-s3 index.js:272-315, tls-registry.js).
THEOREM PeripheryTypes == Spec => []PeripheryTypeOK
<1>1. Init => running \in Parts
  BY DEF Init
<1>2. running \in Parts /\ [Next]_vars => (running \in Parts)'
  BY DEF Next, vars, OriginsRuns, LayoutRuns, ListingRuns, RegistryRuns
<1>3. GroupInv => OriginsTypeOK
  BY DEF GroupInv
<1>4. StartInv => RegistryTypeOK
  BY DEF StartInv
<1>5. running \in Parts /\ OriginsTypeOK /\ LayoutTypeOK /\ ListingTypeOK /\ RegistryTypeOK
        => PeripheryTypeOK
  BY DEF PeripheryTypeOK
<1>6. Spec => [](running \in Parts)
  BY <1>1, <1>2, PTL DEF Spec
<1> QED BY <1>3, <1>4, <1>5, <1>6, PartsAreThemselves, GroupHolds, LayoutTypeCorrect,
           ListingHolds, StartHolds, PTL
=============================================================================
