------------------------------ MODULE Origins ------------------------------
(***************************************************************************)
(* How artifactd comes up, and which requests its origins answer: main,    *)
(* startListenerGroup and the dispatchers of packages/server/src/index.js, *)
(* the host binding of content-host.js.                                    *)
(*                                                                         *)
(* With a content origin configured, control and content are two listeners *)
(* that live and die together; what a content request reaches is decided   *)
(* by its Host header and by nothing else in it.                           *)
(*                                                                         *)
(* A host name is the sequence of its labels.  Text is abstracted: a Host  *)
(* header is a name, whether it holds anything but printable ASCII without *)
(* the refused delimiters (clean), and what its port is.  Case is folded   *)
(* away before anything is compared, so names here are lower case; two     *)
(* spellings of one name in a host map are two entries with that name.     *)
(***************************************************************************)
EXTENDS Naturals, Sequences, FiniteSets

CONSTANTS
    DnsLabel,       \* labels DOMAIN_LABEL accepts
    Slug,           \* labels isSiteScope accepts
    Configs,        \* the environments artifactd is started in
    Hosts,          \* names that occur in requests
    Nothing         \* null

\* A slug is not one of the words that stand for another answer here, a configured
\* name is a sequence of labels.
ASSUME NamesAndAnswers ==
    /\ Slug \cap {"control", "400", "404"} = {} /\ Slug \subseteq STRING
    /\ \A c \in Configs : c.base # Nothing => c.base \in Seq(STRING)

Labels == {"artifactd", "control", "content"}

VARIABLES
    config,         \* the environment of this start
    phase,          \* where main is
    lsn,            \* lsn[l]: the listener of entry l
    missed,         \* listeners whose first error went unheard
    announced,      \* labels onReady was called for
    exitCode        \* process.exitCode

originVars == <<config, phase, lsn, missed, announced, exitCode>>

Phases == {"config", "stores", "servers", "binding", "up", "aborted", "refused",
           "down"}
ListenerStates == {"none", "binding", "bound", "failed", "closed"}

(***************************************************************************)
(* The binding of hosts to sites                                           *)
(***************************************************************************)
Ends(name, base) == /\ Len(name) > Len(base)
                    /\ SubSeq(name, Len(name) - Len(base) + 1, Len(name)) = base

PlainName(name) == name # << >> /\ \A i \in DOMAIN name : name[i] \in DnsLabel

\* parseHostHeader: FALSE stands for null, a malformed header.
Parses(h) == h.clean /\ h.port # "bad" /\ PlainName(h.name)

\* createHostBinding refuses what would leave a host with two meanings.
\* (Mutant: a pinned child of the base domain is accepted.)
NoOverlapCheck(c) ==
    /\ c.base # Nothing => PlainName(c.base)
    /\ \A i \in DOMAIN c.hosts : Parses(c.hosts[i].host) /\ c.hosts[i].site \in Slug

BindingOK(c) ==
    /\ c.base # Nothing => PlainName(c.base)
    /\ c.base # Nothing \/ c.hosts # << >>
    /\ \A i \in DOMAIN c.hosts :
         /\ Parses(c.hosts[i].host) /\ c.hosts[i].host.port = "none"
         /\ c.hosts[i].site \in Slug
         /\ \A j \in DOMAIN c.hosts :
              c.hosts[i].host.name = c.hosts[j].host.name => i = j
         /\ c.base # Nothing => ~Ends(c.hosts[i].host.name, c.base)

\* binding.resolve: a site, or the status of the ContentHostError.
Resolve(c, h) ==
    IF ~Parses(h) THEN "400"
    ELSE LET pins == {c.hosts[i].site : i \in {j \in DOMAIN c.hosts :
                                                c.hosts[j].host.name = h.name}} IN
         IF pins # {} THEN CHOOSE s \in pins : TRUE
         ELSE IF /\ c.base # Nothing /\ Ends(h.name, c.base)
                 /\ Len(h.name) = Len(c.base) + 1 /\ Head(h.name) \in Slug
              THEN Head(h.name) ELSE "404"

\* binding.hostFor: the one canonical host of a site, or null.
HostFor(c, s) ==
    IF c.base # Nothing THEN <<s>> \o c.base
    ELSE LET pins == {c.hosts[i].host.name : i \in {j \in DOMAIN c.hosts :
                                                    c.hosts[j].site = s}} IN
         IF Cardinality(pins) = 1 THEN CHOOSE n \in pins : TRUE ELSE Nothing

CanonicalContentUrl(c, s) ==
    IF s \notin Slug \/ HostFor(c, s) = Nothing THEN Nothing
    ELSE [scheme |-> c.scheme, host |-> HostFor(c, s),
          port |-> IF c.port \in {0, IF c.scheme = "https" THEN 443 ELSE 80}
                   THEN 0 ELSE c.port]

(***************************************************************************)
(* Requests.  A path is "reserved" (CONTROL_RESERVED_PATH) or "page".      *)
(***************************************************************************)
Request == [method : {"GET", "POST"}, path : {"reserved", "page"},
            query : Slug \cup {Nothing},
            host : [name : Hosts, clean : BOOLEAN, port : {"none", "given", "bad"}]]

ContentDispatch(c, r) == IF r.path = "reserved" \/ r.method # "GET" THEN "404"
                         ELSE Resolve(c, r.host)

ControlDispatch(r) == IF r.path = "reserved" THEN "control" ELSE "404"

\* The prototype's selection, by a .localhost host or else by the query.
LegacySite(r) == IF Ends(r.host.name, <<"localhost">>)
                 THEN SubSeq(r.host.name, 1, Len(r.host.name) - 1) ELSE <<r.query>>

LegacyContentDispatch(r) ==
    IF r.method = "GET" /\ Len(LegacySite(r)) = 1 /\ LegacySite(r)[1] \in Slug
    THEN LegacySite(r)[1] ELSE "404"

\* What listener l makes of a request: "control", a site, or a refusal.
Dispatch(l, r) ==
    CASE l = "content"   -> ContentDispatch(config, r)
      [] l = "control"   -> ControlDispatch(r)
      [] l = "artifactd" -> IF ControlDispatch(r) = "control" THEN "control"
                            ELSE LegacyContentDispatch(r)

(***************************************************************************)
(* Startup                                                                 *)
(***************************************************************************)
Separated(c) == c.base # Nothing \/ c.map # "unset"

Entries == IF Separated(config) THEN {"control", "content"} ELSE {"artifactd"}

\* listenPort takes canonical decimals only; 65536 stands for all other text.
PortOK(port) == port \in 0 .. 65535

\* --dev ignores the configured hosts.
HostOf(c, host) == IF c.mode = "dev" THEN "127.0.0.1" ELSE host

SameAddress(c) ==
    /\ HostOf(c, c.controlHost) = HostOf(c, c.contentHost)
    /\ c.controlPort = c.contentPort /\ c.controlPort # 0

\* createRuntime; a content port that is not given is 0.
RuntimeOK(c) ==
    Separated(c) => BindingOK(c) /\ c.scheme \in {"http", "https"} /\ PortOK(c.port)

OriginsInit ==
    /\ config \in Configs /\ phase = "config"
    /\ lsn = [l \in Labels |-> "none"]
    /\ missed = {} /\ announced = {} /\ exitCode = 0

StartFails == /\ phase' = "refused" /\ exitCode' = 1
              /\ UNCHANGED <<config, lsn, missed, announced>>

\* createAuthorizer and contentConfigFromEnv, before anything is opened.
CheckConfig ==
    /\ phase = "config"
    /\ IF \/ config.mode \notin {"required", "dev"}
          \/ config.mode = "required" /\ ~config.secret
          \/ config.map = "malformed"
       THEN StartFails
       ELSE phase' = "stores" /\ UNCHANGED <<config, lsn, missed, announced, exitCode>>

OpenStores ==
    /\ phase = "stores"
    /\ StartFails \/ (phase' = "servers" /\ UNCHANGED <<config, lsn, missed, announced, exitCode>>)

\* The ports, the servers and the first turn of startListenerGroup are one step.
CreateServers ==
    /\ phase = "servers"
    /\ IF \/ ~PortOK(config.controlPort) \/ ~RuntimeOK(config)
          \/ Separated(config) /\ (~PortOK(config.contentPort) \/ SameAddress(config))
       THEN StartFails
       ELSE /\ phase' = "binding"
            /\ lsn' = [l \in Labels |-> IF l \in Entries THEN "binding" ELSE "none"]
            /\ UNCHANGED <<config, missed, announced, exitCode>>

\* listen() calls back, throws, or the server emits 'error' instead.
BindEnds(l) ==
    /\ lsn[l] = "binding"
    /\ \E outcome \in {"bound", "failed"} : lsn' = [lsn EXCEPT ![l] = outcome]
    /\ UNCHANGED <<config, phase, missed, announced, exitCode>>

\* closeQuietly stops accepting at once, whatever its callback waits for.
Closing == [l \in Labels |-> IF lsn[l] = "bound" THEN "closed" ELSE lsn[l]]

\* The outcomes startListenerGroup waits for before it decides.  (Mutant: the
\* first failure decides.)
AnyFailure == \E l \in Entries : lsn[l] = "failed" \/ \A m \in Entries : lsn[m] = "bound"

AllSettled == \A l \in Entries : lsn[l] # "binding"

GroupDecides ==
    /\ phase = "binding" /\ AllSettled
    /\ IF \E l \in Entries : lsn[l] = "failed"
       THEN /\ phase' = "aborted" /\ exitCode' = 1 /\ lsn' = Closing
            /\ UNCHANGED announced
       ELSE /\ phase' = "up" /\ announced' = Entries
            /\ UNCHANGED <<lsn, exitCode>>
    /\ UNCHANGED <<config, missed>>

\* An error of a bound listener.  Until the group is up its only handler is the
\* one that reports the bind, which has already reported: the first error is
\* lost, a second one has no handler at all and ends the process.
Ending == [l \in Labels |-> IF lsn[l] \in {"binding", "bound"} THEN "closed" ELSE lsn[l]]

ListenerError(l) ==
    /\ lsn[l] = "bound"
    /\ IF phase = "up" \/ l \in missed
       THEN phase' = "down" /\ exitCode' = 1 /\ lsn' = Ending /\ UNCHANGED missed
       ELSE missed' = missed \cup {l} /\ UNCHANGED <<phase, exitCode, lsn>>
    /\ UNCHANGED <<config, announced>>

OriginsSteps == CheckConfig \/ OpenStores \/ CreateServers \/ GroupDecides
                    \/ \E l \in Labels : BindEnds(l)
OriginsNext  == OriginsSteps \/ \E l \in Labels : ListenerError(l)

OriginsSpec == OriginsInit /\ [][OriginsNext]_originVars

(***************************************************************************)
(* Properties                                                              *)
(***************************************************************************)
OriginsTypeOK == /\ phase \in Phases /\ lsn \in [Labels -> ListenerStates]
                 /\ missed \subseteq Labels /\ announced \subseteq Labels
                 /\ exitCode \in {0, 1}

\* A deployment is whole or not there: what is announced has every listener of
\* its topology bound; a start that was refused or aborted, and a group one of
\* whose listeners failed later, keeps none open and says so in its exit code.
NoHalfDeployment ==
    /\ phase = "up" => announced = Entries /\ \A l \in Entries : lsn[l] = "bound"
    /\ phase \in {"refused", "aborted", "down"} =>
         exitCode = 1 /\ \A l \in Labels : lsn[l] \in {"none", "failed", "closed"}
    /\ announced # {} => phase \in {"up", "down"}

\* On the content origin a request reaches no control route, and a site only by
\* its Host: the same name reaches the same site whatever the port or the query.
\* A site's canonical URL leads back to that site, where the slug can be a DNS
\* label at all, and no other site has that URL.
HostReachesOneSite ==
    phase = "up" /\ Separated(config) =>
      /\ \A r \in Request : Dispatch("content", r) # "control"
      /\ \A name \in Hosts : Cardinality(Slug \cap
           {Dispatch("content", r) : r \in {q \in Request : q.host.name = name}}) <= 1
      /\ \A s \in Slug : LET url == CanonicalContentUrl(config, s) IN
           url # Nothing =>
             /\ s \in DnsLabel => Resolve(config,
                    [name |-> url.host, clean |-> TRUE, port |-> "given"]) = s
             /\ \A t \in Slug \ {s} : CanonicalContentUrl(config, t) # url
=============================================================================
