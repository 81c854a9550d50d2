------------------------- MODULE ControlPlaneProofs -------------------------
(***************************************************************************)
(* What stands behind every effect of the control plane, for any number of *)
(* publishers, digests and sites: authority, and the bytes themselves.     *)
(***************************************************************************)
EXTENDS ControlPlane, WellFoundedInduction, TLAPS

\* The deployment and the commands are those of a scenario.
Fixed == \E s \in Scenarios : env = s.env /\ job = s.job

\* A manifest, and the headers of a request.
ManifestOK(files) ==
    /\ files \in Seq(File) /\ Len(files) \in Nat /\ 1 \in DOMAIN files
    /\ DOMAIN files = 1 .. Len(files)
    /\ \A i \in DOMAIN files : files[i] \in File

HeadersOK(b) ==
    /\ Len(b) \in Nat /\ DOMAIN b = 1 .. Len(b) /\ (Len(b) = 0 => b = << >>)
    /\ \A i \in DOMAIN b : /\ b[i].exp \in Nat
                           /\ b[i].form \in {"owa1", "respelt", "garbled"}

LEMMA Jobs ==
  ASSUME Fixed
  PROVE  /\ GrantTTL \in Nat \ {0} /\ MaxTime \in Nat
         /\ None \notin Publisher /\ None \notin Grant
         /\ env.mode \in {"required", "dev"} /\ env.direct \in BOOLEAN
         /\ env.direct \/ env.evidence = "enforced" => env.enforcing
         /\ \A p \in Publisher : /\ Scope(p) \in Site /\ ManifestOK(Files(p))
                                /\ HeadersOK(job[p].request.bearer)
<1>1. PICK s \in Scenarios : env = s.env /\ job = s.job
  BY DEF Fixed
<1>2. /\ GrantTTL \in Nat \ {0} /\ MaxTime \in Nat
      /\ None \notin Publisher /\ None \notin Grant
      /\ env.mode \in {"required", "dev"} /\ env.direct \in BOOLEAN
      /\ env.direct \/ env.evidence = "enforced" => env.enforcing
  BY <1>1, JobsAreWellFormed, OperatorKeepsContract
     DEF JobsAreWellFormed, OperatorKeepsContract
<1>3. ASSUME NEW p \in Publisher
      PROVE  /\ Scope(p) \in Site
             /\ Files(p) \in Seq(File) /\ Files(p) # << >>
             /\ job[p].request.bearer \in
                  Seq({job[p].request.bearer[i] : i \in DOMAIN job[p].request.bearer})
             /\ \A i \in DOMAIN job[p].request.bearer :
                  /\ job[p].request.bearer[i].exp \in Nat
                  /\ job[p].request.bearer[i].form \in {"owa1", "respelt", "garbled"}
  <2>1. /\ s.job[p].site \in Site
        /\ s.job[p].files \in Seq(File) /\ s.job[p].files # << >>
        /\ s.job[p].request.bearer \in
             Seq({s.job[p].request.bearer[i] : i \in DOMAIN s.job[p].request.bearer})
        /\ \A i \in DOMAIN s.job[p].request.bearer :
             /\ s.job[p].request.bearer[i].exp \in Nat
             /\ s.job[p].request.bearer[i].form \in {"owa1", "respelt", "garbled"}
    BY JobsAreWellFormed, Zenon DEF JobsAreWellFormed
  <2>2. job = s.job
    BY <1>1
  <2> QED BY <2>1, <2>2, Zenon DEF Scope, Files
<1>4. ASSUME NEW S, NEW q \in Seq(S)
      PROVE  /\ Len(q) \in Nat /\ DOMAIN q = 1 .. Len(q)
             /\ Len(q) = 0 => q = << >>
             /\ q # << >> => 1 \in DOMAIN q
             /\ \A i \in DOMAIN q : q[i] \in S
  OBVIOUS
<1>5. ASSUME NEW p \in Publisher
      PROVE  /\ Scope(p) \in Site /\ ManifestOK(Files(p))
             /\ HeadersOK(job[p].request.bearer)
  <2>1. ManifestOK(Files(p))
    <3>1. Files(p) \in Seq(File) /\ Files(p) # << >>
      BY <1>3
    <3> QED BY <3>1, <1>4, Zenon DEF ManifestOK
  <2> DEFINE b == job[p].request.bearer
             T == {job[p].request.bearer[i] : i \in DOMAIN job[p].request.bearer}
  <2>2. b \in Seq(T)
    BY <1>3, Zenon
  <2> HIDE DEF b, T
  <2>3. Len(b) \in Nat /\ DOMAIN b = 1 .. Len(b) /\ (Len(b) = 0 => b = << >>)
    BY <2>2, <1>4, Zenon
  <2> QED BY <1>3, <2>1, <2>3, Zenon DEF b, HeadersOK
<1>6. \A p \in Publisher : /\ Scope(p) \in Site /\ ManifestOK(Files(p))
                          /\ HeadersOK(job[p].request.bearer)
  BY <1>5
<1> QED BY <1>2, <1>6, Zenon

(***************************************************************************)
(* Authorization.  The operators of Auth are constant: what they say of a  *)
(* request at one time can be compared with what they say at another.      *)
(***************************************************************************)
LEMMA OneHeader ==
  ASSUME NEW b, HeadersOK(b), ~ Len(b) > 1, b # << >>
  PROVE  Len(b) = 1 /\ 1 \in DOMAIN b
<1> DEFINE n == Len(b)
<1>1. n \in Nat /\ DOMAIN b = 1 .. n /\ (n = 0 => b = << >>) /\ ~ n > 1 /\ b # << >>
  BY DEF HeadersOK
<1> HIDE DEF n
<1>2. n = 1
  BY <1>1
<1>3. DOMAIN b = 1 .. 1
  BY <1>1, <1>2, Zenon
<1>4. 1 \in DOMAIN b
  BY <1>3
<1> QED BY <1>2, <1>4 DEF n

LEMMA AuthorizedThroughout ==
  ASSUME NEW mode, NEW req, NEW site, NEW caps, NEW t \in Nat,
         HeadersOK(req.bearer),
         Authorize(mode, req, site, caps, t) = OK
  PROVE  /\ Authorize(mode, req, site, caps, 0) = OK
         /\ site \in Site
         /\ mode # "dev" => req.bearer[1].exp \in Nat /\ req.bearer[1].exp > t
<1>1. CASE mode = "dev"
  BY <1>1 DEF Authorize, OK
<1>2. CASE mode # "dev"
  <2>1. Len(req.bearer) = 1 /\ 1 \in DOMAIN req.bearer /\ BearerToken(req) = OK
    <3>1. BearerToken(req) = OK
      BY <1>2, Zenon DEF Authorize
    <3>2. ~ Len(req.bearer) > 1 /\ req.bearer # << >>
      BY <3>1 DEF BearerToken, OK
    <3> QED BY <3>1, <3>2, OneHeader, Zenon
  <2>2. VerifyWithKey(req.bearer[1], t) = OK
    BY <1>2 DEF Authorize, OK
  <2>3. req.bearer[1].exp \in Nat /\ req.bearer[1].exp > t /\ VerifyWithKey(req.bearer[1], 0) = OK
    <3>1. req.bearer[1].exp \in Nat
      BY <2>1, Zenon DEF HeadersOK
    <3> QED BY <3>1, <2>2 DEF VerifyWithKey, OK
  <2> QED BY <1>2, <2>1, <2>3 DEF Authorize, OK
<1> QED BY <1>1, <1>2

LEMMA FewerCapabilities ==
  ASSUME NEW mode, NEW req, NEW site, NEW caps, NEW fewer \in SUBSET caps, NEW t,
         Authorize(mode, req, site, caps, t) = OK
  PROVE  Authorize(mode, req, site, fewer, t) = OK
  BY DEF Authorize, OK

LEMMA TruthfulRefusal ==
  ASSUME NEW mode \in {"required", "dev"}, NEW req, NEW site \in Site, NEW caps, NEW t \in Nat,
         HeadersOK(req.bearer),
         NEW code, code = Authorize(mode, req, site, caps, t)
  PROVE  LET k == req.bearer[1] IN
         /\ code = "OWA_AUTH_INVALID_SIGNATURE" => ~k.mac
         /\ code \in {"OWA_AUTH_EXPIRED", "OWA_AUTH_SITE", "OWA_AUTH_CAPABILITY"}
              => k.mac /\ k.form = "owa1"
         /\ code = "OWA_AUTH_EXPIRED" => k.exp \in Nat /\ k.exp <= t
         /\ code = "OWA_AUTH_SITE" => ~In(site, k.sites)
         /\ code = "OWA_AUTH_CAPABILITY" => In(site, k.sites)
<1>1. CASE mode = "dev"
  BY <1>1 DEF Authorize, OK
<1>2. CASE mode = "required" /\ BearerToken(req) # OK
  <2>1. code = BearerToken(req)
    BY <1>2 DEF Authorize
  <2> QED BY <1>2, <2>1 DEF BearerToken, OK
<1>3. CASE mode = "required" /\ BearerToken(req) = OK
  <2> DEFINE k == req.bearer[1]
  <2>1. Len(req.bearer) = 1 /\ 1 \in DOMAIN req.bearer
    <3>1. ~ Len(req.bearer) > 1 /\ req.bearer # << >>
      BY <1>3 DEF BearerToken, OK
    <3> QED BY <3>1, OneHeader, Zenon
  <2>2. k.exp \in Nat /\ k.form \in {"owa1", "respelt", "garbled"}
    BY <2>1, Zenon DEF HeadersOK
  <2>3. CASE VerifyWithKey(k, t) # OK
    <3>1. code = VerifyWithKey(k, t)
      BY <1>3, <2>3 DEF Authorize
    <3> QED BY <3>1, <2>2, <2>3 DEF VerifyWithKey, OK
  <2>4. CASE VerifyWithKey(k, t) = OK
    <3>1. k.mac /\ k.form = "owa1"
      BY <2>2, <2>4 DEF VerifyWithKey, OK
    <3>2. code = IF site \notin Site \/ ~In(site, k.sites) THEN "OWA_AUTH_SITE"
                 ELSE IF \E c \in caps : ~In(c, k.caps) THEN "OWA_AUTH_CAPABILITY"
                 ELSE OK
      BY <1>3, <2>4, Zenon DEF Authorize
    <3>3. /\ code \in {OK, "OWA_AUTH_SITE", "OWA_AUTH_CAPABILITY"}
          /\ code = "OWA_AUTH_SITE" => ~In(site, k.sites)
          /\ code = "OWA_AUTH_CAPABILITY" => In(site, k.sites)
      <4>1. CASE In(site, k.sites)
        BY <4>1, <3>2 DEF OK
      <4>2. CASE ~In(site, k.sites)
        BY <4>2, <3>2 DEF OK
      <4> QED BY <4>1, <4>2
    <3> HIDE DEF k
    <3>4. code \notin {"OWA_AUTH_INVALID_SIGNATURE", "OWA_AUTH_EXPIRED"}
      BY <3>3 DEF OK
    <3> QED BY <3>1, <3>3, <3>4 DEF k
  <2> QED BY <2>3, <2>4
<1> QED BY <1>1, <1>2, <1>3

(***************************************************************************)
(* The inductive invariant.  Shared is about what everybody shares, the    *)
(* rest about one publisher's handler and process.                         *)
(***************************************************************************)
Planning == {"plan.has", "plan.head", "plan.get"}
Checking == {"commit.head", "commit.get", "commit.save", "commit.point"}

Shared ==
    /\ now \in 0 .. MaxTime
    /\ cli = [p \in Publisher |-> cli[p]] /\ srv = [p \in Publisher |-> srv[p]]
    /\ store \in [Digest -> Contents] /\ leased \subseteq Digest
    /\ issued \subseteq Grant /\ releases \subseteq Publisher
    /\ active \in [Site -> Publisher \cup {None}]
    /\ env.enforcing => \A d \in Digest : store[d] # "claimed"

Typed(p) ==
    /\ cli[p] \in Client /\ srv[p] \in Handler
    /\ srv[p].i \in DOMAIN Files(p)
    /\ srv[p].pc \in {"upload.body", "upload.put"} <=> srv[p].grant # None

\* A client that waits has a handler that works for it, and one that does not
\* has none unless it has ended.
Paired(p) ==
    /\ cli[p].pc \in {"start", "upload"} => srv[p].pc = "idle"
    /\ cli[p].pc = "plan" => srv[p].pc \in {"plan.body"} \cup Planning
    /\ cli[p].pc = "sent" => srv[p].pc \in {"upload.body", "upload.put"}
    /\ cli[p].pc = "commit" => srv[p].pc \in {"commit.body"} \cup Checking
    /\ cli[p].pc = "asked" => srv[p].pc \in {"activate.save", "releases.read"}

LEMMA TypeParts ==
  ASSUME Shared, \A p \in Publisher : Typed(p)
  PROVE  TypeOK
<1>1. cli \in [Publisher -> Client] /\ srv \in [Publisher -> Handler]
  BY DEF Shared, Typed
<1> QED BY <1>1 DEF Shared, Typed, TypeOK

(***************************************************************************)
(* How an action of p changes the processes.                               *)
(***************************************************************************)
Only(p) == /\ srv' = [srv EXCEPT ![p] = srv'[p]] /\ cli' = [cli EXCEPT ![p] = cli'[p]]
Goes(p, h) == Only(p) /\ srv'[p] = h /\ cli'[p] = cli[p]
Still(p, code) == Only(p) /\ srv'[p] = srv[p] /\ cli'[p] = Ended("failed", code)
Replied(p, c) ==
    /\ Only(p) /\ srv'[p] = Idle
    /\ \/ ~Waiting(p) /\ cli'[p] = cli[p]
       \/ Waiting(p) /\ cli'[p] \in {c, Ended("failed", "OWA_CLI_NETWORK")}

\* What a client that waits at pc may be told when a route has answered code.
Told(pc, code) ==
    {"OWA_CLI_CONFIG", "OWA_CLI_NETWORK", "OWA_CLI_HTTP", "OWA_CLI_UPLOAD"}
        \cup (IF pc = "sent" THEN {} ELSE ERRORS \cap {code})
Refused(p, code) ==
    /\ Only(p) /\ srv'[p] = Idle
    /\ \/ ~Waiting(p) /\ cli'[p] = cli[p]
       \/ Waiting(p) /\ \E x \in Told(cli[p].pc, code) : cli'[p] = Ended("failed", x)

LEMMA OnlyOne ==
  ASSUME Shared, NEW p \in Publisher, Only(p)
  PROVE  /\ \A q \in Publisher \ {p} : srv'[q] = srv[q] /\ cli'[q] = cli[q]
         /\ cli' = [q \in Publisher |-> cli'[q]] /\ srv' = [q \in Publisher |-> srv'[q]]
  BY DEF Shared, Only

LEMMA FailsMeans ==
  ASSUME Shared, NEW p \in Publisher, NEW code, Fails(p, code)
  PROVE  cli'[p] = Ended("failed", code) /\ cli' = [cli EXCEPT ![p] = cli'[p]]
  BY DEF Shared, Fails

LEMMA RefuseMeans ==
  ASSUME Shared, NEW p \in Publisher, NEW code, Refuse(p, code)
  PROVE  Refused(p, code)
<1>1. srv'[p] = Idle /\ srv' = [srv EXCEPT ![p] = srv'[p]]
  BY DEF Shared, Refuse
<1>2. CASE ~Waiting(p)
  <2>1. cli' = cli
    BY <1>2 DEF Refuse
  <2>2. cli' = [cli EXCEPT ![p] = cli'[p]]
    BY <2>1 DEF Shared
  <2> QED BY <1>1, <1>2, <2>1, <2>2 DEF Refused, Only
<1>3. CASE Waiting(p)
  <2>1. PICK x \in Told(cli[p].pc, code) : Fails(p, x)
    BY <1>3 DEF Refuse, Told, Unread, Seen
  <2> QED BY <1>1, <1>3, <2>1, FailsMeans DEF Refused, Only
<1> QED BY <1>2, <1>3

LEMMA ReplyMeans ==
  ASSUME Shared, NEW p \in Publisher, NEW c, Reply(p, c)
  PROVE  Replied(p, c)
<1>1. srv'[p] = Idle /\ srv' = [srv EXCEPT ![p] = srv'[p]]
  BY DEF Shared, Reply
<1>2. CASE ~Waiting(p)
  <2>1. cli' = cli
    BY <1>2 DEF Reply
  <2>2. cli' = [cli EXCEPT ![p] = cli'[p]]
    BY <2>1 DEF Shared
  <2> QED BY <1>1, <1>2, <2>1, <2>2 DEF Replied, Only
<1>3. CASE Waiting(p)
  <2>1. CASE cli' = [cli EXCEPT ![p] = c]
    <3>1. cli'[p] = c /\ cli' = [cli EXCEPT ![p] = cli'[p]]
      BY <2>1 DEF Shared
    <3> QED BY <1>1, <1>3, <3>1 DEF Replied, Only
  <2>2. CASE Fails(p, "OWA_CLI_NETWORK")
    BY <1>1, <1>3, <2>2, FailsMeans DEF Replied, Only
  <2> QED BY <1>3, <2>1, <2>2 DEF Reply, Unread
<1> QED BY <1>2, <1>3

LEMMA SendMeans ==
  ASSUME Shared, NEW p \in Publisher, NEW code, NEW c, NEW h, Send(p, code, c, h)
  PROVE  \/ code = OK /\ Only(p) /\ srv'[p] = h /\ cli'[p] = c
         \/ \E x \in Told(c.pc, code) : Still(p, x)
<1>1. CASE code = OK
  <2>1. cli' = [cli EXCEPT ![p] = c] /\ srv' = [srv EXCEPT ![p] = h]
    BY <1>1 DEF Send
  <2>2. cli'[p] = c /\ srv'[p] = h
    BY <2>1 DEF Shared
  <2> QED BY <1>1, <2>1, <2>2 DEF Only
<1>2. CASE code # OK
  <2>1. srv' = srv
    BY <1>2 DEF Send
  <2>2. srv' = [srv EXCEPT ![p] = srv'[p]]
    BY <2>1 DEF Shared
  <2>3. PICK x \in Told(c.pc, code) : Fails(p, x)
    BY <1>2 DEF Send, Told, Unread, Seen
  <2> QED BY <2>1, <2>2, <2>3, FailsMeans DEF Still, Only
<1> QED BY <1>1, <1>2

LEMMA GoesMeans ==
  ASSUME Shared, NEW p \in Publisher, NEW h,
         srv' = [srv EXCEPT ![p] = h], UNCHANGED cli
  PROVE  Goes(p, h)
<1>1. srv'[p] = h /\ cli'[p] = cli[p]
  BY DEF Shared
<1>2. cli' = [cli EXCEPT ![p] = cli'[p]]
  BY DEF Shared
<1> QED BY <1>1, <1>2 DEF Goes, Only

(***************************************************************************)
(* What an answer of the authorizer says, now and later.                   *)
(***************************************************************************)
Blameless(p, code, time) ==
    LET t == job[p].request.bearer[1] IN
    /\ code = "OWA_AUTH_INVALID_SIGNATURE" => ~t.mac
    /\ code \in {"OWA_AUTH_EXPIRED", "OWA_AUTH_SITE", "OWA_AUTH_CAPABILITY"}
         => t.mac /\ t.form = "owa1"
    /\ code = "OWA_AUTH_EXPIRED" => t.exp \in Nat /\ t.exp <= time
    /\ code = "OWA_AUTH_SITE" => ~In(Scope(p), t.sites)
    /\ code = "OWA_AUTH_CAPABILITY" => In(Scope(p), t.sites)

Accused == {"OWA_AUTH_INVALID_SIGNATURE", "OWA_AUTH_EXPIRED", "OWA_AUTH_SITE",
            "OWA_AUTH_CAPABILITY"}

LEMMA Harmless ==
  ASSUME NEW p, NEW code, code \notin Accused, NEW time
  PROVE  Blameless(p, code, time)
  BY DEF Blameless, Accused

LEMMA ToldIsTrue ==
  ASSUME NEW p, NEW pc, NEW code, NEW x \in Told(pc, code),
         pc = "sent" \/ Blameless(p, code, now)
  PROVE  Blameless(p, x, now)
<1>1. x \notin Accused \/ (pc # "sent" /\ x = code)
  BY DEF Told, Accused
<1> QED BY <1>1, Harmless, Zenon

LEMMA AllowedMeans ==
  ASSUME Fixed, Shared, NEW p \in Publisher, NEW site, NEW caps,
         Allowed(p, site, caps) = OK
  PROVE  /\ Permitted(p, site, caps) /\ InForce(p, now) /\ site \in Site
         /\ env.mode # "dev" => /\ job[p].request.bearer[1].exp \in Nat
                               /\ job[p].request.bearer[1].exp > now
<1>1. HeadersOK(job[p].request.bearer) /\ env.mode \in {"required", "dev"}
  BY Jobs, Zenon
<1>2. now \in Nat
  BY Jobs DEF Shared
<1>3. Authorize(env.mode, job[p].request, site, caps, now) = OK
  BY Zenon DEF Allowed
<1>4. /\ Authorize(env.mode, job[p].request, site, caps, 0) = OK /\ site \in Site
      /\ env.mode # "dev" => /\ job[p].request.bearer[1].exp \in Nat
                            /\ job[p].request.bearer[1].exp > now
  BY <1>1, <1>2, <1>3, AuthorizedThroughout, Zenon
<1>5. InForce(p, now)
  BY <1>4, Zenon DEF InForce
<1> QED BY <1>4, <1>5, Zenon DEF Permitted

LEMMA PermittedFewer ==
  ASSUME NEW p, NEW site, NEW caps, NEW fewer \in SUBSET caps, Permitted(p, site, caps)
  PROVE  Permitted(p, site, fewer)
<1>1. Authorize(env.mode, job[p].request, site, caps, 0) = OK
  BY Zenon DEF Permitted
<1>2. Authorize(env.mode, job[p].request, site, fewer, 0) = OK
  BY <1>1, FewerCapabilities, Zenon
<1> QED BY <1>2, Zenon DEF Permitted

LEMMA RefusalIsTrue ==
  ASSUME Fixed, Shared, NEW p \in Publisher, NEW caps
  PROVE  Blameless(p, Allowed(p, Scope(p), caps), now)
<1>1. /\ HeadersOK(job[p].request.bearer) /\ env.mode \in {"required", "dev"}
      /\ Scope(p) \in Site
  BY Jobs, Zenon
<1>2. now \in Nat
  BY Jobs DEF Shared
<1> DEFINE code == Authorize(env.mode, job[p].request, Scope(p), caps, now)
           k == job[p].request.bearer[1]
<1>3. /\ code = "OWA_AUTH_INVALID_SIGNATURE" => ~k.mac
      /\ code \in {"OWA_AUTH_EXPIRED", "OWA_AUTH_SITE", "OWA_AUTH_CAPABILITY"}
            => k.mac /\ k.form = "owa1"
      /\ code = "OWA_AUTH_EXPIRED" => k.exp \in Nat /\ k.exp <= now
      /\ code = "OWA_AUTH_SITE" => ~In(Scope(p), k.sites)
      /\ code = "OWA_AUTH_CAPABILITY" => In(Scope(p), k.sites)
  <2> HIDE DEF code
  <2>1. code = Authorize(env.mode, job[p].request, Scope(p), caps, now)
    BY DEF code
  <2> QED BY <1>1, <1>2, <2>1, TruthfulRefusal, Zenon
<1> QED BY <1>3, Zenon DEF Blameless, Allowed

(***************************************************************************)
(* What stands behind a publisher's grants, its handler and its process.   *)
(***************************************************************************)
Blame(p) == Blameless(p, cli[p].code, now)

Backed(p, g) == /\ g.by = p /\ Permitted(p, g.site, {"plan", "upload"})
                /\ InForce(p, g.expires - 1)

Authorized(p) ==
    /\ \A i \in DOMAIN srv[p].out : Backed(p, srv[p].out[i])
    /\ srv[p].pc = "upload.put" =>
         /\ Permitted(p, srv[p].grant.site, {"upload"})
         /\ InForce(p, srv[p].at) /\ srv[p].grant.expires > srv[p].at
         /\ srv[p].body = "whole"
    /\ srv[p].pc \in Checking =>
         Permitted(p, Scope(p), CommitNeeds(p)) /\ InForce(p, srv[p].at)
    /\ srv[p].pc = "activate.save" =>
         job[p].cmd = "activate" /\ Permitted(p, Scope(p), {"activate"})
    /\ srv[p].pc = "commit.point" => p \in releases /\ Activates(p)

\* A blob that is whole, one that is whole or has a grant, a grant whose 412 can
\* be believed.
Good(p, d)      == store[d] \in Whole /\ Declared(p, d) = "right"
Covered(d, gs)  == store[d] \in Whole \/ \E k \in DOMAIN gs : gs[k].digest = d
Credible(g)     == g.once => store[g.digest] \in Whole \cup {"absent"}

HandlerHolds(p) ==
    /\ srv[p].pc \in {"plan.body", "commit.body"} => srv[p].i = 1 /\ srv[p].out = << >>
    /\ srv[p].pc \in Planning \cup {"commit.body"} \cup Checking => DigestsOf(p) \subseteq leased
    /\ srv[p].pc \in Checking => ~Conflicting(p)
    /\ srv[p].pc \in Planning =>
         \A j \in Firsts(p) : j < srv[p].i => Covered(Files(p)[j].digest, srv[p].out)
    /\ srv[p].pc \in {"commit.head", "commit.get"} =>
         \A j \in Firsts(p) : j < srv[p].i => Good(p, Files(p)[j].digest)
    /\ srv[p].pc \in {"commit.save", "commit.point"} => \A d \in DigestsOf(p) : Good(p, d)
    /\ \A k \in DOMAIN srv[p].out : Credible(srv[p].out[k])

ClientHolds(p) ==
    /\ cli[p].pc \in {"upload", "sent", "commit"} => DigestsOf(p) \subseteq leased
    /\ \A k \in DOMAIN cli[p].todo : Credible(cli[p].todo[k])
    /\ cli[p].pc = "upload" => \A d \in DigestsOf(p) : Covered(d, cli[p].todo)
    /\ cli[p].pc = "sent" =>
         \A d \in DigestsOf(p) : Covered(d, cli[p].todo) \/ d = srv[p].grant.digest
    /\ cli[p].pc = "commit" => \A d \in DigestsOf(p) : store[d] \in Whole

Local(p) == /\ Typed(p) /\ Paired(p) /\ Authorized(p) /\ HandlerHolds(p)
            /\ ClientHolds(p) /\ Blame(p)

(***************************************************************************)
(* What a step may do to what others rely on.                              *)
(***************************************************************************)
StoreStep == \A d \in Digest : \/ store'[d] \in {store[d], "proven"}
                               \/ store'[d] = "absent" /\ d \notin leased
Steady == /\ UNCHANGED fixed /\ StoreStep /\ now' >= now
          /\ leased \subseteq leased' /\ releases \subseteq releases'

LEMMA Manifest ==
  ASSUME Fixed, NEW p \in Publisher
  PROVE  DigestsOf(p) \subseteq Digest
<1>1. \A i \in DOMAIN Files(p) : Files(p)[i] \in File
  BY Jobs, Zenon DEF ManifestOK
<1> QED BY <1>1 DEF DigestsOf, File

LEMMA SameJob ==
  ASSUME UNCHANGED fixed, NEW p \in Publisher
  PROVE  /\ Files(p)' = Files(p) /\ DigestsOf(p)' = DigestsOf(p)
         /\ Firsts(p)' = Firsts(p) /\ Scope(p)' = Scope(p)
         /\ Conflicting(p)' <=> Conflicting(p)
         /\ CommitNeeds(p)' = CommitNeeds(p) /\ (Activates(p)' <=> Activates(p))
         /\ job[p]' = job[p] /\ env' = env /\ (Fixed' <=> Fixed)
         /\ \A d : Declared(p, d)' = Declared(p, d)
<1>1. env' = env /\ job' = job /\ job[p]' = job[p]
  BY DEF fixed
<1>2. /\ Files(p)' = Files(p) /\ DigestsOf(p)' = DigestsOf(p)
      /\ Firsts(p)' = Firsts(p) /\ Scope(p)' = Scope(p)
      /\ Conflicting(p)' <=> Conflicting(p)
  BY <1>1, Zenon DEF Files, DigestsOf, Firsts, Scope, Conflicting
<1>3. CommitNeeds(p)' = CommitNeeds(p) /\ (Activates(p)' <=> Activates(p))
  BY <1>1, Zenon DEF CommitNeeds, Activates
<1>4. ASSUME NEW d
      PROVE  Declared(p, d)' = Declared(p, d)
  BY <1>1, Zenon DEF Declared, Files
<1>5. Fixed' <=> Fixed
  BY <1>1, Zenon DEF Fixed
<1> QED BY <1>1, <1>2, <1>3, <1>4, <1>5, Zenon

LEMMA SameWord ==
  ASSUME UNCHANGED fixed, NEW p
  PROVE  /\ \A site, caps : Permitted(p, site, caps)' <=> Permitted(p, site, caps)
         /\ \A time : InForce(p, time)' <=> InForce(p, time)
         /\ \A g : Backed(p, g)' <=> Backed(p, g)
         /\ \A code, time : Blameless(p, code, time)' <=> Blameless(p, code, time)
<1>1. env' = env /\ job' = job
  BY DEF fixed
<1>2. ASSUME NEW site, NEW caps
      PROVE  Permitted(p, site, caps)' <=> Permitted(p, site, caps)
  BY <1>1, Zenon DEF Permitted
<1>3. ASSUME NEW time
      PROVE  InForce(p, time)' <=> InForce(p, time)
  BY <1>1, Zenon DEF InForce
<1>4. ASSUME NEW g
      PROVE  Backed(p, g)' <=> Backed(p, g)
  BY <1>2, <1>3, Zenon DEF Backed
<1>5. ASSUME NEW code, NEW time
      PROVE  Blameless(p, code, time)' <=> Blameless(p, code, time)
  BY <1>1, Zenon DEF Blameless, Scope
<1> QED BY <1>2, <1>3, <1>4, <1>5, Zenon

LEMMA KeysImprove ==
  ASSUME Shared, StoreStep, NEW d \in Digest
  PROVE  /\ store[d] \in Whole /\ d \in leased => store'[d] \in Whole
         /\ store[d] \in Whole \cup {"absent"} => store'[d] \in Whole \cup {"absent"}
  BY DEF StoreStep, Whole

LEMMA GoodStays ==
  ASSUME Fixed, Shared, Steady, NEW p \in Publisher, DigestsOf(p) \subseteq leased,
         NEW d \in DigestsOf(p)
  PROVE  /\ Good(p, d) => Good(p, d)'
         /\ store[d] \in Whole => store'[d] \in Whole
         /\ \A gs : Covered(d, gs) => Covered(d, gs)'
<1>1. d \in Digest /\ d \in leased /\ Declared(p, d)' = Declared(p, d)
  BY Manifest, SameJob DEF Steady
<1>2. store[d] \in Whole => store'[d] \in Whole
  BY <1>1, KeysImprove DEF Steady
<1>3. Good(p, d) => Good(p, d)'
  BY <1>1, <1>2, Zenon DEF Good
<1>4. ASSUME NEW gs, Covered(d, gs)
      PROVE  Covered(d, gs)'
  BY <1>2, <1>4, Zenon DEF Covered
<1> QED BY <1>2, <1>3, <1>4, Zenon

LEMMA CredibleStays ==
  ASSUME Shared, StoreStep, NEW g \in Grant, Credible(g)
  PROVE  Credible(g)'
<1>1. g.digest \in Digest
  BY DEF Grant
<1>2. store[g.digest] \in Whole \cup {"absent"} => store'[g.digest] \in Whole \cup {"absent"}
  BY <1>1, KeysImprove
<1> QED BY <1>2, Zenon DEF Credible

LEMMA TypedGrants ==
  ASSUME NEW p \in Publisher, Typed(p)
  PROVE  /\ \A k \in DOMAIN srv[p].out : srv[p].out[k] \in Grant
         /\ \A k \in DOMAIN cli[p].todo : cli[p].todo[k] \in Grant
         /\ srv[p].out \in Seq(Grant) /\ cli[p].todo \in Seq(Grant)
<1>1. srv[p].out \in Seq(Grant) /\ cli[p].todo \in Seq(Grant)
  BY DEF Typed, Handler, Client
<1>2. ASSUME NEW q \in Seq(Grant), NEW k \in DOMAIN q
      PROVE  q[k] \in Grant
  OBVIOUS
<1> QED BY <1>1, <1>2, Zenon

LEMMA CoveredFiles ==
  ASSUME Fixed, NEW p \in Publisher, NEW j \in Firsts(p)
  PROVE  j \in DOMAIN Files(p) /\ Files(p)[j].digest \in DigestsOf(p)
  BY DEF Firsts, DigestsOf

LEMMA HandlerFrame ==
  ASSUME Fixed, Shared, Steady, NEW p \in Publisher, Typed(p),
         srv'[p] = srv[p], HandlerHolds(p)
  PROVE  HandlerHolds(p)'
<1>1. /\ Files(p)' = Files(p) /\ DigestsOf(p)' = DigestsOf(p) /\ Firsts(p)' = Firsts(p)
      /\ Conflicting(p)' <=> Conflicting(p)
  BY SameJob, Zenon DEF Steady
<1>2. /\ srv'[p].pc \in {"plan.body", "commit.body"} => srv'[p].i = 1 /\ srv'[p].out = << >>
      /\ srv'[p].pc \in Checking => ~Conflicting(p)'
  BY <1>1, Zenon DEF HandlerHolds
<1>3. srv'[p].pc \in Planning \cup {"commit.body"} \cup Checking => DigestsOf(p)' \subseteq leased'
  BY <1>1, Zenon DEF HandlerHolds, Steady
<1>4. ASSUME srv[p].pc \in Planning, NEW j \in Firsts(p), j < srv[p].i
      PROVE  Covered(Files(p)[j].digest, srv[p].out)'
  <2>1. Covered(Files(p)[j].digest, srv[p].out) /\ DigestsOf(p) \subseteq leased
    BY <1>4, Zenon DEF HandlerHolds
  <2> DEFINE d == Files(p)[j].digest
             gs == srv[p].out
  <2>2. d' = d /\ gs' = gs /\ d \in DigestsOf(p)
    BY <1>1, CoveredFiles, Zenon
  <2> HIDE DEF d, gs
  <2>3. Covered(d, gs) => Covered(d, gs)'
    <3>1. \/ store[d] \in Whole => store'[d] \in Whole
      BY <2>1, <2>2, GoodStays, Zenon
    <3> QED BY <2>2, <3>1, Zenon DEF Covered
  <2> QED BY <2>1, <2>3, Zenon DEF d, gs
<1>5. ASSUME srv[p].pc \in {"commit.head", "commit.get"}, NEW j \in Firsts(p), j < srv[p].i
      PROVE  Good(p, Files(p)[j].digest)'
  <2>1. Good(p, Files(p)[j].digest) /\ DigestsOf(p) \subseteq leased
    BY <1>5, Zenon DEF HandlerHolds, Checking
  <2> DEFINE d == Files(p)[j].digest
  <2>2. d' = d /\ d \in DigestsOf(p)
    BY <1>1, CoveredFiles, Zenon
  <2> HIDE DEF d
  <2>3. /\ store[d] \in Whole => store'[d] \in Whole
        /\ Declared(p, d)' = Declared(p, d')
    BY <2>1, <2>2, GoodStays, SameJob, Zenon DEF Steady
  <2>4. Good(p, d) => Good(p, d)'
    BY <2>2, <2>3, SameJob, Zenon DEF Good, Steady
  <2> QED BY <2>1, <2>4, Zenon DEF d
<1>6. ASSUME srv[p].pc \in {"commit.save", "commit.point"}, NEW d \in DigestsOf(p)
      PROVE  Good(p, d)'
  BY <1>6, GoodStays, Zenon DEF HandlerHolds, Checking
<1>7. ASSUME NEW k \in DOMAIN srv[p].out
      PROVE  Credible(srv[p].out[k])'
  <2> DEFINE g == srv[p].out[k]
  <2>1. g \in Grant /\ Credible(g) /\ g' = g
    BY TypedGrants, Zenon DEF HandlerHolds
  <2> HIDE DEF g
  <2>2. g.digest \in Digest
    BY <2>1 DEF Grant
  <2>3. Credible(g) => Credible(g)'
    BY <2>1, <2>2, KeysImprove, Zenon DEF Credible, Steady
  <2> QED BY <2>1, <2>3, Zenon DEF g
<1> QED BY <1>1, <1>2, <1>3, <1>4, <1>5, <1>6, <1>7, Zenon DEF HandlerHolds

LEMMA ClientFrame ==
  ASSUME Fixed, Shared, Steady, NEW p \in Publisher, Typed(p), cli'[p] = cli[p],
         cli[p].pc = "sent" => srv'[p].grant = srv[p].grant, ClientHolds(p)
  PROVE  ClientHolds(p)'
<1>1. DigestsOf(p)' = DigestsOf(p)
  BY SameJob, Zenon DEF Steady
<1>2. cli'[p].pc \in {"upload", "sent", "commit"} => DigestsOf(p)' \subseteq leased'
  BY <1>1, Zenon DEF ClientHolds, Steady
<1>3. ASSUME NEW k \in DOMAIN cli[p].todo
      PROVE  Credible(cli[p].todo[k])'
  <2> DEFINE g == cli[p].todo[k]
  <2>1. g \in Grant /\ Credible(g) /\ g' = g
    BY TypedGrants, Zenon DEF ClientHolds
  <2> HIDE DEF g
  <2>2. g.digest \in Digest
    BY <2>1 DEF Grant
  <2>3. Credible(g) => Credible(g)'
    BY <2>1, <2>2, KeysImprove, Zenon DEF Credible, Steady
  <2> QED BY <2>1, <2>3, Zenon DEF g
<1>4. ASSUME cli[p].pc \in {"upload", "sent"}, NEW d \in DigestsOf(p),
             Covered(d, cli[p].todo)
      PROVE  Covered(d, cli[p].todo)'
  <2>1. store[d] \in Whole => store'[d] \in Whole
    BY <1>4, GoodStays, Zenon DEF ClientHolds
  <2>2. (cli[p].todo)' = cli[p].todo
    BY Zenon
  <2> QED BY <1>4, <2>1, <2>2, Zenon DEF Covered
<1>5. ASSUME cli[p].pc = "commit", NEW d \in DigestsOf(p)
      PROVE  store'[d] \in Whole
  BY <1>5, GoodStays, Zenon DEF ClientHolds
<1>6. cli'[p].pc = "upload" => \A d \in DigestsOf(p)' : Covered(d, cli[p].todo)'
  BY <1>1, <1>4, Zenon DEF ClientHolds
<1>7. cli'[p].pc = "sent" =>
        \A d \in DigestsOf(p)' : Covered(d, cli[p].todo)' \/ d = srv'[p].grant.digest
  BY <1>1, <1>4, Zenon DEF ClientHolds
<1> QED BY <1>1, <1>2, <1>3, <1>5, <1>6, <1>7, Zenon DEF ClientHolds

LEMMA AuthorizedFrame ==
  ASSUME Steady, NEW p \in Publisher, srv'[p] = srv[p], Authorized(p)
  PROVE  Authorized(p)'
<1>1. /\ \A site, caps : Permitted(p, site, caps)' <=> Permitted(p, site, caps)
      /\ \A time : InForce(p, time)' <=> InForce(p, time)
  BY SameWord, Zenon DEF Steady
<1>2. /\ Scope(p)' = Scope(p) /\ CommitNeeds(p)' = CommitNeeds(p) /\ job[p]' = job[p]
      /\ Activates(p)' <=> Activates(p)
  BY SameJob, Zenon DEF Steady
<1>3. ASSUME NEW k \in DOMAIN srv[p].out
      PROVE  Backed(p, srv[p].out[k])'
  <2> DEFINE g == srv[p].out[k]
  <2>1. g' = g /\ Backed(p, g)
    BY Zenon DEF Authorized
  <2> HIDE DEF g
  <2>2. Backed(p, g)'
    BY <1>1, <2>1, Zenon DEF Backed
  <2> QED BY <2>2, Zenon DEF g
<1>4. srv'[p].pc = "upload.put" =>
        /\ Permitted(p, srv[p].grant.site, {"upload"})'
        /\ InForce(p, srv[p].at)' /\ srv'[p].grant.expires > srv'[p].at
        /\ srv'[p].body = "whole"
  <2>1. env' = env /\ job' = job
    BY DEF Steady, fixed
  <2> QED BY <2>1, Zenon DEF Authorized, Permitted, InForce
<1>5. srv'[p].pc \in Checking =>
        Permitted(p, Scope(p), CommitNeeds(p))' /\ InForce(p, srv[p].at)'
  BY <1>1, <1>2, Zenon DEF Authorized
<1>6. srv'[p].pc = "activate.save" =>
        job'[p].cmd = "activate" /\ Permitted(p, Scope(p), {"activate"})'
  BY <1>1, <1>2, Zenon DEF Authorized
<1>7. srv'[p].pc = "commit.point" => p \in releases' /\ Activates(p)'
  BY <1>2, Zenon DEF Authorized, Steady
<1> QED BY <1>3, <1>4, <1>5, <1>6, <1>7, Zenon DEF Authorized

LEMMA BlameFrame ==
  ASSUME Fixed, Shared, Steady, Shared', NEW p \in Publisher, NEW code, Blameless(p, code, now)
  PROVE  Blameless(p, code, now)'
<1>1. job' = job /\ Scope(p)' = Scope(p)
  BY SameJob DEF Steady, fixed
<1>2. MaxTime \in Nat
  BY Jobs
<1>3. now \in Nat /\ now' \in Nat /\ now <= now'
  BY <1>2 DEF Shared, Steady
<1> DEFINE e == job[p].request.bearer[1].exp
<1> HIDE DEF e
<1>4. e \in Nat /\ e <= now => e <= now'
  BY <1>3
<1> USE DEF e
<1> QED BY <1>1, <1>4, Zenon DEF Blameless

LEMMA BlameStays ==
  ASSUME Fixed, Shared, Steady, Shared', NEW p \in Publisher, cli'[p].code = cli[p].code,
         Blame(p)
  PROVE  Blame(p)'
  BY BlameFrame, Zenon DEF Blame

LEMMA LocalFrame ==
  ASSUME Fixed, Shared, Steady, Shared', NEW p \in Publisher,
         srv'[p] = srv[p], cli'[p] = cli[p], Local(p)
  PROVE  Local(p)'
<1>1. Files(p)' = Files(p)
  BY SameJob, Zenon DEF Steady
<1>2. Typed(p)' /\ Paired(p)'
  BY <1>1, Zenon DEF Local, Typed, Paired, Client, Handler
<1>3. Authorized(p)' /\ HandlerHolds(p)'
  BY AuthorizedFrame, HandlerFrame, Zenon DEF Local
<1>4. ClientHolds(p)' /\ Blame(p)'
  BY ClientFrame, BlameStays, Zenon DEF Local
<1> QED BY <1>2, <1>3, <1>4, Zenon DEF Local

LEMMA IdleIsTyped ==
  ASSUME Fixed, NEW p \in Publisher
  PROVE  /\ Idle \in Handler /\ Idle.i \in DOMAIN Files(p) /\ Idle.grant = None
         /\ Idle.out = << >> /\ Idle.pc = "idle" /\ Idle.i = 1
<1>1. 1 \in DOMAIN Files(p)
  BY Jobs, Zenon DEF ManifestOK
<1>2. << >> \in Seq(Grant)
  OBVIOUS
<1> QED BY <1>1, <1>2 DEF Idle, Handler, ServerPCs

LEMMA IdleHolds ==
  ASSUME Fixed, NEW p \in Publisher, srv'[p] = Idle, UNCHANGED fixed
  PROVE  Authorized(p)' /\ HandlerHolds(p)'
<1>1. srv'[p].pc = "idle" /\ srv'[p].out = << >>
  BY IdleIsTyped
<1>2. DOMAIN srv'[p].out = {}
  BY <1>1
<1> QED BY <1>1, <1>2 DEF Authorized, HandlerHolds, Planning, Checking

LEMMA EndedIsTyped ==
  ASSUME NEW pc \in ClientPCs, NEW code \in ClientCodes
  PROVE  Ended(pc, code) \in Client
<1>1. << >> \in Seq(Grant)
  OBVIOUS
<1> QED BY <1>1 DEF Ended, Client

\* The handler has ended and so has the command.
LEMMA EndIsLocal ==
  ASSUME Fixed, Shared, Steady, Shared', NEW p \in Publisher, Local(p), srv'[p] = Idle,
         \/ cli'[p] = cli[p] /\ cli[p].pc \in {"done", "failed"}
         \/ \E pc \in {"done", "failed"}, code \in ClientCodes :
              cli'[p] = Ended(pc, code) /\ Blameless(p, code, now)
  PROVE  Local(p)'
<1>1. Files(p)' = Files(p) /\ UNCHANGED fixed
  BY SameJob, Zenon DEF Steady
<1>2. Authorized(p)' /\ HandlerHolds(p)'
  BY <1>1, IdleHolds
<1>3. cli'[p] \in Client /\ cli'[p].pc \in {"done", "failed"}
  <2>1. CASE cli'[p] = cli[p] /\ cli[p].pc \in {"done", "failed"}
    BY <2>1 DEF Local, Typed
  <2>2. ASSUME NEW pc \in {"done", "failed"}, NEW code \in ClientCodes, cli'[p] = Ended(pc, code)
        PROVE  cli'[p] \in Client /\ cli'[p].pc \in {"done", "failed"}
    BY <2>2, EndedIsTyped DEF Ended, ClientPCs
  <2> QED BY <2>1, <2>2
<1>4. Typed(p)'
  <2>1. srv'[p] \in Handler /\ srv'[p].i \in DOMAIN Files(p)
        /\ srv'[p].grant = None /\ srv'[p].pc = "idle"
    BY IdleIsTyped
  <2> QED BY <1>1, <1>3, <2>1 DEF Typed, Handler, Client
<1>5. Paired(p)'
  BY <1>3 DEF Paired
<1>6. ClientHolds(p)'
  <2>1. CASE cli'[p] = cli[p]
    BY <2>1, <1>3, ClientFrame DEF Local
  <2>2. ASSUME NEW pc \in {"done", "failed"}, NEW code \in ClientCodes, cli'[p] = Ended(pc, code)
        PROVE  ClientHolds(p)'
    <3>1. cli'[p].pc \in {"done", "failed"} /\ DOMAIN cli'[p].todo = {}
      BY <2>2 DEF Ended
    <3> QED BY <3>1 DEF ClientHolds
  <2> QED BY <2>1, <2>2
<1>7. Blame(p)'
  <2>1. CASE cli'[p] = cli[p]
    BY <2>1, BlameStays DEF Local
  <2>2. ASSUME NEW pc \in {"done", "failed"}, NEW code \in ClientCodes, cli'[p] = Ended(pc, code),
               Blameless(p, code, now)
        PROVE  Blame(p)'
    <3>1. cli'[p].code = code /\ Blameless(p, code, now)'
      BY <2>2, BlameFrame DEF Ended
    <3> QED BY <3>1, Zenon DEF Blame
  <2> QED BY <2>1, <2>2
<1> QED BY <1>2, <1>4, <1>5, <1>6, <1>7, Zenon DEF Local

LEMMA ToldIsText ==
  ASSUME NEW pc, NEW code, NEW x \in Told(pc, code)
  PROVE  x \in ClientCodes
<1>1. x \in {"OWA_CLI_CONFIG", "OWA_CLI_NETWORK", "OWA_CLI_HTTP", "OWA_CLI_UPLOAD"} \cup ERRORS
  BY Zenon DEF Told
<1> QED BY <1>1 DEF ClientCodes

LEMMA RefusedIsLocal ==
  ASSUME Fixed, Shared, Steady, Shared', NEW p \in Publisher, Local(p),
         srv[p].pc # "idle", NEW code, Refused(p, code),
         cli[p].pc = "sent" \/ Blameless(p, code, now)
  PROVE  Local(p)'
<1>1. CASE ~Waiting(p) /\ cli'[p] = cli[p]
  <2>1. cli[p].pc \in {"done", "failed"}
    BY <1>1 DEF Local, Typed, Client, ClientPCs, Waiting, Paired
  <2> QED BY <1>1, <2>1, EndIsLocal, Zenon DEF Refused
<1>2. CASE \E x \in Told(cli[p].pc, code) : cli'[p] = Ended("failed", x)
  <2>1. PICK x \in Told(cli[p].pc, code) : cli'[p] = Ended("failed", x)
    BY <1>2
  <2>2. x \in ClientCodes /\ Blameless(p, x, now)
    BY ToldIsText, ToldIsTrue, Zenon
  <2>3. \E pc \in {"done", "failed"}, y \in ClientCodes :
          cli'[p] = Ended(pc, y) /\ Blameless(p, y, now)
    BY <2>1, <2>2
  <2>4. srv'[p] = Idle
    BY DEF Refused
  <2> QED BY <2>3, <2>4, EndIsLocal, Zenon
<1> QED BY <1>1, <1>2, Zenon DEF Refused

LEMMA RepliedIsLocal ==
  ASSUME Fixed, Shared, Steady, Shared', NEW p \in Publisher, Local(p),
         srv[p].pc # "idle", NEW pc \in {"done", "failed"}, NEW code \in ClientCodes \ Accused,
         Replied(p, Ended(pc, code))
  PROVE  Local(p)'
<1>1. CASE ~Waiting(p) /\ cli'[p] = cli[p]
  <2>1. cli[p].pc \in {"done", "failed"}
    BY <1>1 DEF Local, Typed, Client, ClientPCs, Waiting, Paired
  <2> QED BY <1>1, <2>1, EndIsLocal, Zenon DEF Replied
<1>2. CASE cli'[p] \in {Ended(pc, code), Ended("failed", "OWA_CLI_NETWORK")}
  <2>1. Blameless(p, code, now) /\ Blameless(p, "OWA_CLI_NETWORK", now)
    <3>1. "OWA_CLI_NETWORK" \notin Accused /\ code \notin Accused
      BY DEF Accused
    <3> QED BY <3>1, Harmless, Zenon
  <2>2. \E qc \in {"done", "failed"}, y \in ClientCodes :
          cli'[p] = Ended(qc, y) /\ Blameless(p, y, now)
    BY <1>2, <2>1 DEF ClientCodes
  <2>3. srv'[p] = Idle
    BY DEF Replied
  <2> QED BY <2>2, <2>3, EndIsLocal, Zenon
<1> QED BY <1>1, <1>2, Zenon DEF Replied

\* The client has given up, its handler goes on.
LEMMA GivenUpIsLocal ==
  ASSUME Fixed, Shared, Steady, Shared', NEW p \in Publisher, Local(p), srv'[p] = srv[p],
         NEW code \in ClientCodes, cli'[p] = Ended("failed", code), Blameless(p, code, now)
  PROVE  Local(p)'
<1>1. Files(p)' = Files(p)
  BY SameJob, Zenon DEF Steady
<1>2. Authorized(p)' /\ HandlerHolds(p)'
  BY AuthorizedFrame, HandlerFrame, Zenon DEF Local
<1>3. /\ cli'[p] \in Client /\ cli'[p].pc = "failed" /\ cli'[p].code = code
      /\ DOMAIN cli'[p].todo = {}
  BY EndedIsTyped DEF Ended, ClientPCs
<1>4. Typed(p)' /\ Paired(p)'
  BY <1>1, <1>3 DEF Local, Typed, Paired, Handler, Client
<1>5. ClientHolds(p)'
  BY <1>3 DEF ClientHolds
<1>6. Blameless(p, code, now)'
  BY BlameFrame
<1>7. Blame(p)'
  BY <1>3, <1>6, Zenon DEF Blame
<1> QED BY <1>2, <1>4, <1>5, <1>7, Zenon DEF Local

(***************************************************************************)
(* A loop over a manifest's digests takes each where it occurs first.      *)
(***************************************************************************)
LEMMA LeastIndex ==
  ASSUME NEW T \in SUBSET Nat, T # {}
  PROVE  \E k \in T : \A j \in T : k <= j
<1>1. PICK k \in T : \A j \in T : ~ (<<j, k>> \in OpToRel(<, Nat))
  BY WFMin, NatLessThanWellFounded, Zenon
<1>2. ASSUME NEW j \in T PROVE k <= j
  <2>1. ~(j < k) /\ j \in Nat /\ k \in Nat
    BY <1>1 DEF OpToRel
  <2> QED BY <2>1
<1> QED BY <1>2

LEMMA Indices ==
  ASSUME Fixed, NEW p \in Publisher
  PROVE  DOMAIN Files(p) \subseteq Nat /\ Firsts(p) \subseteq DOMAIN Files(p)
<1>1. Len(Files(p)) \in Nat /\ DOMAIN Files(p) = 1 .. Len(Files(p))
  BY Jobs, Zenon DEF ManifestOK
<1>2. DOMAIN Files(p) \subseteq Nat
  <2> DEFINE n == Len(Files(p))
  <2>1. n \in Nat /\ DOMAIN Files(p) = 1 .. n
    BY <1>1
  <2> HIDE DEF n
  <2> QED BY <2>1
<1> QED BY <1>2 DEF Firsts

LEMMA FollowingMeans ==
  ASSUME Fixed, NEW p \in Publisher, NEW i \in DOMAIN Files(p), Later(p, i) # {}
  PROVE  /\ Following(p, i) \in Firsts(p) /\ Following(p, i) > i
         /\ \A j \in Firsts(p) : j < Following(p, i) => j <= i
<1>1. i \in Nat /\ Firsts(p) \subseteq Nat /\ Later(p, i) \subseteq Nat
  BY Indices DEF Later
<1>2. \E k \in Later(p, i) : \A j \in Later(p, i) : k <= j
  BY <1>1, LeastIndex, Zenon
<1>3. /\ Following(p, i) \in Later(p, i)
      /\ \A j \in Later(p, i) : Following(p, i) <= j
  BY <1>2, Zenon DEF Following
<1> DEFINE f == Following(p, i)
<1>4. f \in Later(p, i) /\ \A j \in Later(p, i) : f <= j
  BY <1>3
<1> HIDE DEF f
<1>5. f \in Firsts(p) /\ f > i /\ f \in Nat
  BY <1>1, <1>4 DEF Later
<1>6. ASSUME NEW j \in Firsts(p), j < f PROVE j <= i
  BY <1>1, <1>4, <1>5, <1>6 DEF Later
<1> QED BY <1>5, <1>6 DEF f

LEMMA NoneLater ==
  ASSUME Fixed, NEW p \in Publisher, NEW i \in DOMAIN Files(p), Later(p, i) = {}
  PROVE  \A j \in Firsts(p) : j <= i
  BY Indices DEF Later

LEMMA FirstOfEach ==
  ASSUME Fixed, NEW p \in Publisher, NEW d \in DigestsOf(p)
  PROVE  \E j \in Firsts(p) : Files(p)[j].digest = d
<1> DEFINE T == {j \in DOMAIN Files(p) : Files(p)[j].digest = d}
<1>1. T \in SUBSET Nat /\ T # {}
  BY Indices DEF DigestsOf
<1>2. PICK j \in T : \A k \in T : j <= k
  <2> HIDE DEF T
  <2> QED BY <1>1, LeastIndex, Zenon
<1> DEFINE n == Len(Files(p))
<1>3. n \in Nat /\ DOMAIN Files(p) = 1 .. n
  BY Jobs, Zenon DEF ManifestOK
<1> HIDE DEF n
<1>4. ASSUME NEW k \in 1 .. j - 1, Files(p)[k].digest = d PROVE FALSE
  <2>1. k \in DOMAIN Files(p) /\ k < j /\ k \in Nat /\ j \in Nat
    BY <1>2, <1>3
  <2>2. k \in T
    BY <2>1, <1>4
  <2>3. j <= k
    BY <1>2, <2>2, Zenon
  <2> QED BY <2>1, <2>3
<1>5. j \in DOMAIN Files(p) /\ Files(p)[j].digest = d
  BY <1>2
<1> QED BY <1>4, <1>5 DEF Firsts

(***************************************************************************)
(* Grants                                                                  *)
(***************************************************************************)
LEMMA MintMeans ==
  ASSUME Fixed, Shared, NEW p \in Publisher, MayMint(p) = OK,
         NEW d \in Digest, NEW repair \in BOOLEAN
  PROVE  /\ Remaining(p) > 0
         /\ Minting(p, d, repair) \in Grant /\ Minting(p, d, repair).digest = d
         /\ Minting(p, d, repair).once => ~repair
         /\ Backed(p, Minting(p, d, repair))
<1> DEFINE e == job[p].request.bearer[1].exp
           g == Minting(p, d, repair)
<1>1. /\ Permitted(p, Scope(p), {"plan", "upload"})
      /\ env.mode # "dev" => e \in Nat /\ e > now
  BY AllowedMeans, Zenon DEF MayMint
<1>2. GrantTTL \in Nat \ {0} /\ MaxTime \in Nat /\ Scope(p) \in Site /\ env.direct \in BOOLEAN
      /\ env.mode \in {"required", "dev"}
  BY Jobs, Zenon
<1>3. now \in Nat
  BY <1>2 DEF Shared
<1>4. Remaining(p) = IF env.mode = "dev" THEN GrantTTL ELSE e - now
  BY DEF Remaining
<1> HIDE DEF e
<1>5. Remaining(p) \in Nat \ {0} /\ (env.mode # "dev" => now + Remaining(p) = e)
  BY <1>1, <1>2, <1>3, <1>4
<1> DEFINE l == Lifetime(p)
           r == Remaining(p)
<1>6. l \in Nat /\ l <= r
  <2>1. r \in Nat /\ l = IF r < GrantTTL THEN r ELSE GrantTTL
    BY <1>5 DEF Lifetime
  <2> HIDE DEF l, r
  <2> QED BY <2>1, <1>2
<1>7. /\ g.by = p /\ g.digest = d /\ g.site = Scope(p) /\ g.expires = now + l
      /\ g.once \in BOOLEAN /\ (g.once => ~repair) /\ DOMAIN g = {"by", "digest", "site", "once", "expires"}
      /\ g = [by |-> g.by, digest |-> g.digest, site |-> g.site, once |-> g.once, expires |-> g.expires]
  BY <1>2 DEF Minting, DirectUploads
<1> HIDE DEF g, l, r
<1>8. g.expires \in Nat
  BY <1>3, <1>6, <1>7
<1>9. g \in Grant
  BY <1>2, <1>7, <1>8 DEF Grant
<1>10. InForce(p, g.expires - 1)
  <2>1. env.mode # "dev" => e > g.expires - 1
    BY <1>1, <1>3, <1>5, <1>6, <1>7 DEF r
  <2> QED BY <2>1, Zenon DEF InForce, e
<1>11. Backed(p, g)
  BY <1>1, <1>7, <1>10, Zenon DEF Backed
<1> QED BY <1>5, <1>7, <1>9, <1>11 DEF g

LEMMA SharedParts ==
  ASSUME Shared, NEW p \in Publisher, Only(p), UNCHANGED <<now, fixed, store>>,
         leased' \subseteq Digest, issued' \subseteq Grant, releases' \subseteq Publisher,
         active' \in [Site -> Publisher \cup {None}]
  PROVE  Shared'
<1>1. cli' = [q \in Publisher |-> cli'[q]] /\ srv' = [q \in Publisher |-> srv'[q]]
  BY OnlyOne, Zenon
<1> QED BY <1>1 DEF Shared, fixed

LEMMA QuietIsSteady ==
  ASSUME Fixed, Shared, UNCHANGED <<now, fixed, store>>,
         leased \subseteq leased', releases \subseteq releases'
  PROVE  Steady
<1>1. now \in Int
  BY Jobs DEF Shared
<1>2. StoreStep
  BY DEF StoreStep
<1>3. now' >= now
  BY <1>1
<1> QED BY <1>2, <1>3 DEF Steady

(***************************************************************************)
(* The plan's loop: h is the handler once it has dealt with the file it is *)
(* at.                                                                     *)
(***************************************************************************)
Dealt(p, h) ==
    /\ h \in Handler /\ h.pc \in Planning /\ h.i = srv[p].i /\ h.grant = None
    /\ \A k \in DOMAIN h.out : Backed(p, h.out[k]) /\ Credible(h.out[k])
    /\ \A j \in Firsts(p) : j <= h.i => Covered(Files(p)[j].digest, h.out)

\* What the plan's actions share.
InPlan(p) == /\ Fixed /\ Shared /\ Local(p) /\ srv[p].pc \in Planning
             /\ UNCHANGED <<now, fixed, store, leased, releases, active>>

\* A grant comes with its authority, a plan with that of its moment.
Sound(p) ==
    /\ Only(p) /\ Shared' /\ Steady /\ Local(p)'
    /\ \A g \in issued' : g \in issued \/ Backed(p, g)
    /\ cli[p].pc = "plan" /\ cli'[p].pc = "upload"
         => Permitted(p, Scope(p), {"plan"}) /\ InForce(p, now)

LEMMA PlanGoesOn ==
  ASSUME NEW p \in Publisher, InPlan(p), NEW h \in Handler, Goes(p, h),
         UNCHANGED issued, h.pc \in Planning, h.grant = None, h.i \in DOMAIN Files(p),
         \A k \in DOMAIN h.out : Backed(p, h.out[k]) /\ Credible(h.out[k]),
         \A j \in Firsts(p) : j < h.i => Covered(Files(p)[j].digest, h.out)
  PROVE  Sound(p)
<1>1. Only(p) /\ Fixed /\ Shared /\ Local(p) /\ srv'[p] = h /\ cli'[p] = cli[p]
  BY DEF InPlan, Goes
<1>2. Steady
  BY <1>1, QuietIsSteady DEF InPlan
<1>3. Shared'
  BY <1>1, SharedParts DEF InPlan, Shared
<1>4. Files(p)' = Files(p) /\ Firsts(p)' = Firsts(p) /\ DigestsOf(p)' = DigestsOf(p)
  BY SameJob, Zenon DEF InPlan
<1>5. Typed(p)' /\ Paired(p)'
  <2>1. srv[p].pc \in Planning /\ Typed(p) /\ Paired(p)
    BY DEF InPlan, Local
  <2>2. Typed(p)'
    BY <1>1, <1>4, <2>1 DEF Typed, Planning
  <2>3. Paired(p)'
    <3>1. /\ srv'[p].pc \in Planning /\ cli'[p].pc = cli[p].pc
          /\ cli[p].pc \notin {"start", "upload", "sent", "commit", "asked"}
      BY <1>1, <2>1 DEF Paired, Planning, Checking
    <3> QED BY <3>1 DEF Paired, Planning
  <2> QED BY <2>2, <2>3
<1>6. /\ \A k \in DOMAIN h.out : Backed(p, h.out[k])'
      /\ \A k \in DOMAIN h.out : Credible(h.out[k])'
  <2>1. env' = env /\ job' = job /\ store' = store
    BY DEF InPlan, fixed
  <2> QED BY <2>1, Zenon DEF Backed, Permitted, InForce, Credible
<1>7. Authorized(p)'
  BY <1>1, <1>6 DEF Authorized, Planning, Checking
<1>8. HandlerHolds(p)'
  <2>1. \A j \in Firsts(p)' : j < srv'[p].i => Covered(Files(p)[j].digest, srv[p].out)'
    BY <1>1, <1>4, Zenon DEF Covered, InPlan
  <2>2. DigestsOf(p)' \subseteq leased'
    BY <1>1, <1>4, Zenon DEF InPlan, Local, HandlerHolds
  <2> QED BY <1>1, <1>4, <1>6, <2>1, <2>2 DEF HandlerHolds, Planning, Checking
<1>9. ClientHolds(p)' /\ Blame(p)'
  <2>1. cli[p].pc # "sent"
    BY DEF InPlan, Local, Paired, Planning
  <2> QED BY <1>1, <1>2, <1>3, <2>1, ClientFrame, BlameStays, Zenon DEF Local
<1>10. Local(p)'
  BY <1>5, <1>7, <1>8, <1>9, Zenon DEF Local
<1>11. ~(cli[p].pc = "plan" /\ cli'[p].pc = "upload")
  BY <1>1
<1> QED BY <1>1, <1>2, <1>3, <1>10, <1>11 DEF Sound

LEMMA PlanEnds ==
  ASSUME NEW p \in Publisher, InPlan(p), NEW code, Refused(p, code), UNCHANGED issued,
         Blameless(p, code, now)
  PROVE  Sound(p)
<1>1. Only(p) /\ Fixed /\ Shared /\ Local(p) /\ srv[p].pc # "idle"
  BY DEF InPlan, Refused, Planning
<1>2. Steady
  BY <1>1, QuietIsSteady DEF InPlan
<1>3. Shared'
  BY <1>1, SharedParts DEF InPlan, Shared
<1>4. Local(p)'
  BY <1>1, <1>2, <1>3, RefusedIsLocal, Zenon
<1>5. ~(cli[p].pc = "plan" /\ cli'[p].pc = "upload")
  <2>1. ASSUME NEW x, cli'[p] = Ended("failed", x) PROVE cli'[p].pc = "failed"
    BY <2>1 DEF Ended
  <2>2. cli'[p].pc \in {cli[p].pc, "failed"}
    BY <2>1, Zenon DEF Refused
  <2> QED BY <2>2
<1> QED BY <1>1, <1>2, <1>3, <1>4, <1>5 DEF Sound

LEMMA PlanAnswered ==
  ASSUME NEW p \in Publisher, InPlan(p), NEW h, Dealt(p, h), Later(p, h.i) = {},
         Allowed(p, Scope(p), {"plan"}) = OK,
         issued' = issued \cup {h.out[k] : k \in DOMAIN h.out},
         \/ Reply(p, [cli[p] EXCEPT !.pc = "upload", !.todo = h.out])
         \/ Reply(p, Ended("failed", "OWA_CLI_RESPONSE"))
  PROVE  Sound(p)
<1> DEFINE c == [cli[p] EXCEPT !.pc = "upload", !.todo = h.out]
<1>1. Fixed /\ Shared /\ Local(p) /\ srv[p].pc \in Planning /\ srv[p].pc # "idle"
  BY DEF InPlan, Planning
<1>2. Replied(p, c) \/ Replied(p, Ended("failed", "OWA_CLI_RESPONSE"))
  BY <1>1, ReplyMeans, Zenon
<1>3. Only(p)
  BY <1>2, Zenon DEF Replied
<1>4. \A k \in DOMAIN h.out : h.out[k] \in Grant
  <2>1. ASSUME NEW q \in Seq(Grant), NEW k \in DOMAIN q PROVE q[k] \in Grant
    OBVIOUS
  <2>2. h.out \in Seq(Grant)
    BY DEF Dealt, Handler
  <2> QED BY <2>1, <2>2, Zenon
<1>5. Steady
  BY <1>1, QuietIsSteady DEF InPlan
<1>6. issued \subseteq Grant /\ leased \subseteq Digest /\ releases \subseteq Publisher
      /\ active \in [Site -> Publisher \cup {None}]
  BY <1>1 DEF Shared
<1>7. Shared'
  <2>1. issued' \subseteq Grant
    BY <1>4, <1>6
  <2> QED BY <1>1, <1>3, <1>6, <2>1, SharedParts DEF InPlan
<1>8. \A g \in issued' : g \in issued \/ Backed(p, g)
  BY DEF Dealt
<1>9. Permitted(p, Scope(p), {"plan"}) /\ InForce(p, now)
  BY <1>1, AllowedMeans, Zenon
<1>10. CASE Replied(p, Ended("failed", "OWA_CLI_RESPONSE"))
  <2>1. "OWA_CLI_RESPONSE" \in ClientCodes \ Accused /\ "failed" \in {"done", "failed"}
    BY DEF ClientCodes, Accused
  <2>2. Local(p)'
    BY <1>1, <1>5, <1>7, <1>10, <2>1, RepliedIsLocal, Zenon
  <2> QED BY <1>3, <1>5, <1>7, <1>8, <1>9, <2>2, Zenon DEF Sound
<1>11. CASE Replied(p, c) /\ ~(Waiting(p) /\ cli'[p] = c)
  <2>1. Replied(p, Ended("failed", "OWA_CLI_NETWORK"))
    BY <1>11, Zenon DEF Replied
  <2>2. "OWA_CLI_NETWORK" \in ClientCodes \ Accused /\ "failed" \in {"done", "failed"}
    BY DEF ClientCodes, Accused
  <2>3. Local(p)'
    BY <1>1, <1>5, <1>7, <2>1, <2>2, RepliedIsLocal, Zenon
  <2> QED BY <1>3, <1>5, <1>7, <1>8, <1>9, <2>3, Zenon DEF Sound
<1>12. CASE Replied(p, c) /\ Waiting(p) /\ cli'[p] = c
  <2>1. Files(p)' = Files(p) /\ DigestsOf(p)' = DigestsOf(p) /\ UNCHANGED fixed
    BY SameJob, Zenon DEF Steady, InPlan
  <2>2. srv'[p] = Idle
    BY <1>12 DEF Replied
  <2>3. h.out \in Seq(Grant)
    BY DEF Dealt, Handler
  <2>4. /\ cli'[p] \in Client /\ cli'[p].pc = "upload" /\ cli'[p].todo = h.out
        /\ cli'[p].code = cli[p].code
    <3>1. cli[p] \in Client
      BY <1>1 DEF Local, Typed
    <3> QED BY <1>12, <2>3, <3>1 DEF Client, ClientPCs
  <2>5. Typed(p)' /\ Paired(p)'
    BY <1>1, <2>1, <2>2, <2>4, IdleIsTyped DEF Typed, Paired
  <2>6. Authorized(p)' /\ HandlerHolds(p)'
    BY <1>1, <2>1, <2>2, IdleHolds
  <2>7. ClientHolds(p)'
    <3>1. DigestsOf(p)' \subseteq leased'
      BY <1>1, <2>1, Zenon DEF Local, HandlerHolds, InPlan
    <3>2. ASSUME NEW d \in DigestsOf(p) PROVE Covered(d, cli[p].todo)'
      <4>1. PICK j \in Firsts(p) : Files(p)[j].digest = d
        BY <1>1, FirstOfEach
      <4>2. h.i \in DOMAIN Files(p)
        BY <1>1 DEF Dealt, Local, Typed
      <4>3. Covered(d, h.out)
        BY <1>1, <4>1, <4>2, NoneLater, Zenon DEF Dealt
      <4> QED BY <2>4, <4>3, Zenon DEF Covered, InPlan
    <3>3. \A k \in DOMAIN cli'[p].todo : Credible(cli[p].todo[k])'
      BY <2>4, Zenon DEF Dealt, Credible, InPlan
    <3> QED BY <2>1, <2>4, <3>1, <3>2, <3>3 DEF ClientHolds
  <2>8. Blame(p)'
    BY <1>1, <1>5, <1>7, <2>4, BlameStays DEF Local
  <2>9. Local(p)'
    BY <2>5, <2>6, <2>7, <2>8, Zenon DEF Local
  <2> QED BY <1>3, <1>5, <1>7, <1>8, <1>9, <2>9, Zenon DEF Sound
<1> QED BY <1>2, <1>10, <1>11, <1>12, Zenon

LEMMA PlanAdvances ==
  ASSUME NEW p \in Publisher, InPlan(p), NEW h, Dealt(p, h), Advance(p, h)
  PROVE  Sound(p)
<1>1. /\ Fixed /\ Shared /\ Local(p) /\ h \in Handler /\ h.i \in DOMAIN Files(p)
      /\ h.grant = None
  BY DEF InPlan, Dealt, Local, Typed
<1>2. CASE Later(p, h.i) # {}
  <2> DEFINE f == Following(p, h.i)
             n == [h EXCEPT !.pc = "plan.has", !.i = f]
  <2>1. f \in Firsts(p) /\ f \in DOMAIN Files(p) /\ f \in Nat
        /\ \A j \in Firsts(p) : j < f => j <= h.i
    BY <1>1, <1>2, FollowingMeans, Indices
  <2>2. srv' = [srv EXCEPT ![p] = n] /\ UNCHANGED cli /\ UNCHANGED issued
    BY <1>2, Zenon DEF Advance
  <2> HIDE DEF f
  <2>3. n \in Handler /\ n.pc \in Planning /\ n.grant = None /\ n.i = f /\ n.out = h.out
    BY <1>1, <2>1 DEF Handler, ServerPCs, Planning
  <2> HIDE DEF n
  <2>4. Goes(p, n)
    BY <1>1, <2>2, GoesMeans
  <2>5. \A j \in Firsts(p) : j < f => Covered(Files(p)[j].digest, h.out)
    BY <2>1, Zenon DEF Dealt
  <2>6. \A k \in DOMAIN n.out : Backed(p, n.out[k]) /\ Credible(n.out[k])
    BY <2>3, Zenon DEF Dealt
  <2> QED BY <2>1, <2>2, <2>3, <2>4, <2>5, <2>6, PlanGoesOn, Zenon
<1>3. CASE Later(p, h.i) = {} /\ Allowed(p, Scope(p), {"plan"}) # OK
  <2>1. Refuse(p, Allowed(p, Scope(p), {"plan"})) /\ UNCHANGED issued
    BY <1>3, Zenon DEF Advance
  <2>2. Blameless(p, Allowed(p, Scope(p), {"plan"}), now)
    BY <1>1, RefusalIsTrue
  <2> QED BY <1>1, <2>1, <2>2, RefuseMeans, PlanEnds, Zenon
<1>4. CASE Later(p, h.i) = {} /\ Allowed(p, Scope(p), {"plan"}) = OK
  <2>1. issued' = issued \cup {h.out[k] : k \in DOMAIN h.out}
    BY <1>4, Zenon DEF Advance
  <2>2. Reply(p, IF PlanAccepted(p, h) THEN [cli[p] EXCEPT !.pc = "upload", !.todo = h.out]
                 ELSE Ended("failed", "OWA_CLI_RESPONSE"))
    BY <1>4, Zenon DEF Advance
  <2>3. \/ Reply(p, [cli[p] EXCEPT !.pc = "upload", !.todo = h.out])
        \/ Reply(p, Ended("failed", "OWA_CLI_RESPONSE"))
    <3>1. CASE PlanAccepted(p, h)
      BY <2>2, <3>1, Zenon
    <3>2. CASE ~PlanAccepted(p, h)
      BY <2>2, <3>2, Zenon
    <3> QED BY <3>1, <3>2
  <2> QED BY <1>4, <2>1, <2>3, PlanAnswered, Zenon
<1> QED BY <1>2, <1>3, <1>4, Zenon

LEMMA Appended ==
  ASSUME NEW S, NEW q \in Seq(S), NEW g \in S
  PROVE  /\ Append(q, g) \in Seq(S)
         /\ \A k \in DOMAIN Append(q, g) : (k \in DOMAIN q /\ Append(q, g)[k] = q[k]) \/ Append(q, g)[k] = g
         /\ \A k \in DOMAIN q : k \in DOMAIN Append(q, g) /\ Append(q, g)[k] = q[k]
         /\ \E k \in DOMAIN Append(q, g) : Append(q, g)[k] = g
<1>1. Append(q, g)[Len(q) + 1] = g /\ Len(q) + 1 \in DOMAIN Append(q, g)
  OBVIOUS
<1>2. \E k \in DOMAIN Append(q, g) : Append(q, g)[k] = g
  BY <1>1
<1> QED BY <1>2

\* The file a handler's loop is at is the only first occurrence that its next
\* step adds to what it has dealt with.
LEMMA DealtWith ==
  ASSUME NEW p \in Publisher, InPlan(p), NEW h \in Handler, h.pc \in Planning,
         h.i = srv[p].i, h.grant = None,
         \A k \in DOMAIN h.out : Backed(p, h.out[k]) /\ Credible(h.out[k]),
         \A d : Covered(d, srv[p].out) => Covered(d, h.out),
         Covered(This(p), h.out)
  PROVE  Dealt(p, h)
<1>1. srv[p].i \in DOMAIN Files(p) /\ Fixed
  BY DEF InPlan, Local, Typed
<1>2. ASSUME NEW j \in Firsts(p), j <= srv[p].i PROVE Covered(Files(p)[j].digest, h.out)
  <2>1. CASE j < srv[p].i
    BY <2>1, Zenon DEF InPlan, Local, HandlerHolds
  <2>2. CASE j = srv[p].i
    BY <2>2, Zenon DEF This
  <2>3. j \in Nat /\ srv[p].i \in Nat
    BY <1>1, Indices
  <2>4. j < srv[p].i \/ j = srv[p].i
    BY <1>2, <2>3
  <2> QED BY <2>1, <2>2, <2>4
<1> QED BY <1>2, Zenon DEF Dealt

LEMMA PlanFacts ==
  ASSUME NEW p \in Publisher, InPlan(p)
  PROVE  /\ srv[p] \in Handler /\ srv[p].grant = None /\ This(p) \in Digest
         /\ Fixed /\ Shared /\ Local(p) /\ srv[p].pc # "idle"
         /\ \A k \in DOMAIN srv[p].out : Backed(p, srv[p].out[k]) /\ Credible(srv[p].out[k])
         /\ DigestsOf(p) \subseteq leased /\ This(p) \in DigestsOf(p)
<1>1. Fixed /\ Shared /\ Local(p) /\ srv[p].pc \in Planning
  BY DEF InPlan
<1>2. srv[p] \in Handler /\ srv[p].i \in DOMAIN Files(p) /\ srv[p].grant = None
      /\ srv[p].pc # "idle"
  BY <1>1 DEF Local, Typed, Planning
<1>3. This(p) \in DigestsOf(p)
  BY <1>2 DEF This, DigestsOf
<1>4. This(p) \in Digest
  BY <1>1, <1>3, Manifest
<1>5. \A k \in DOMAIN srv[p].out : Backed(p, srv[p].out[k]) /\ Credible(srv[p].out[k])
  BY <1>1, Zenon DEF Local, Authorized, HandlerHolds
<1>6. DigestsOf(p) \subseteq leased
  BY <1>1, Zenon DEF Local, HandlerHolds
<1> QED BY <1>1, <1>2, <1>3, <1>4, <1>5, <1>6, Zenon

LEMMA PlanMints ==
  ASSUME NEW p \in Publisher, InPlan(p), NEW repair \in BOOLEAN, Mint(p, repair),
         repair \/ store[This(p)] = "absent"
  PROVE  Sound(p)
<1>1. Fixed /\ Shared /\ Local(p) /\ This(p) \in Digest
  BY PlanFacts
<1>2. CASE MayMint(p) # OK
  <2>1. Refuse(p, MayMint(p)) /\ UNCHANGED issued
    BY <1>2, Zenon DEF Mint
  <2>2. Blameless(p, MayMint(p), now)
    BY <1>1, RefusalIsTrue DEF MayMint
  <2> QED BY <1>1, <2>1, <2>2, RefuseMeans, PlanEnds, Zenon
<1>3. CASE MayMint(p) = OK
  <2> DEFINE g == Minting(p, This(p), repair)
             h == [srv[p] EXCEPT !.out = Append(@, g)]
  <2>1. /\ Remaining(p) > 0 /\ g \in Grant /\ g.digest = This(p) /\ (g.once => ~repair)
        /\ Backed(p, g)
    BY <1>1, <1>3, MintMeans
  <2>2. Advance(p, h)
    <3>1. ~ Remaining(p) <= 0
      <4>1. Remaining(p) \in Int
        <5>1. CASE env.mode = "dev"
          BY <1>1, <5>1, Jobs DEF Remaining
        <5>2. CASE env.mode # "dev"
          <6>1. job[p].request.bearer[1].exp \in Nat
            BY <1>1, <1>3, <5>2, AllowedMeans, Zenon DEF MayMint
          <6>2. now \in Int
            BY <1>1, Jobs DEF Shared
          <6> QED BY <5>2, <6>1, <6>2 DEF Remaining
        <5> QED BY <5>1, <5>2
      <4> QED BY <2>1, <4>1
    <3> QED BY <1>3, <3>1, Zenon DEF Mint
  <2> HIDE DEF g
  <2> DEFINE q == srv[p].out
  <2>3. q \in Seq(Grant) /\ h \in Handler /\ h.pc = srv[p].pc /\ h.i = srv[p].i
        /\ h.grant = None /\ h.out = Append(q, g)
    <3>1. srv[p] \in Handler /\ srv[p].grant = None /\ q \in Seq(Grant)
      BY PlanFacts DEF Handler
    <3>2. Append(q, g) \in Seq(Grant)
      BY <2>1, <3>1
    <3> QED BY <3>1, <3>2 DEF Handler
  <2>4. Credible(g)
    BY <2>1 DEF Credible
  <2>5. \A k \in DOMAIN q : Backed(p, q[k]) /\ Credible(q[k])
    BY PlanFacts
  <2> HIDE DEF h, q
  <2> DEFINE o == Append(q, g)
  <2>6. /\ \A k \in DOMAIN o : (k \in DOMAIN q /\ o[k] = q[k]) \/ o[k] = g
        /\ \A k \in DOMAIN q : k \in DOMAIN o /\ o[k] = q[k]
        /\ \E k \in DOMAIN o : o[k] = g
    BY <2>1, <2>3, Appended
  <2>7. h.out = o
    BY <2>3
  <2> HIDE DEF o
  <2>8. \A k \in DOMAIN o : Backed(p, o[k]) /\ Credible(o[k])
    <3>1. ASSUME NEW k \in DOMAIN o PROVE Backed(p, o[k]) /\ Credible(o[k])
      <4>1. CASE o[k] = g
        BY <2>1, <2>4, <4>1, Zenon
      <4>2. CASE k \in DOMAIN q /\ o[k] = q[k]
        BY <2>5, <4>2, Zenon
      <4> QED BY <2>6, <4>1, <4>2, Zenon
    <3> QED BY <3>1, Zenon
  <2>9. \A k \in DOMAIN h.out : Backed(p, h.out[k]) /\ Credible(h.out[k])
    BY <2>7, <2>8, Zenon
  <2>10. \A d : Covered(d, q) => Covered(d, o)
    <3>1. ASSUME NEW d, NEW k \in DOMAIN q, q[k].digest = d
          PROVE  \E i \in DOMAIN o : o[i].digest = d
      <4>1. k \in DOMAIN o /\ o[k] = q[k]
        BY <2>6, Zenon
      <4>2. o[k].digest = d
        BY <3>1, <4>1
      <4> QED BY <4>1, <4>2
    <3> QED BY <3>1, Zenon DEF Covered
  <2>11. \A d : Covered(d, q) => Covered(d, h.out)
    BY <2>7, <2>10, Zenon
  <2>12. Covered(This(p), h.out)
    <3>1. PICK k \in DOMAIN o : o[k] = g
      BY <2>6, Zenon
    <3>2. o[k].digest = This(p)
      BY <2>1, <3>1
    <3> QED BY <2>7, <3>2, Zenon DEF Covered
  <2>13. Dealt(p, h)
    <3>1. h.pc \in Planning
      BY <2>3 DEF InPlan
    <3> QED BY <2>3, <2>9, <2>11, <2>12, <3>1, DealtWith DEF q
  <2> QED BY <2>2, <2>13, PlanAdvances
<1> QED BY <1>2, <1>3

LEMMA Verdicts ==
  ASSUME Fixed, Shared, NEW d \in Digest, NEW size, NEW len,
         NEW verdict \in {HeadVerdict(d, size), GetVerdict(d, size, len)}
  PROVE  /\ verdict = "ok" => store[d] \in Whole /\ size = "right"
         /\ verdict = "missing" => store[d] = "absent"
         /\ Failure(verdict) \notin Accused
<1>1. env.evidence = "enforced" => store[d] # "claimed"
  BY Jobs DEF Shared
<1>2. store[d] \in Contents
  BY DEF Shared
<1>3. /\ verdict = "ok" => store[d] \in Whole /\ size = "right"
      /\ verdict = "missing" => store[d] = "absent"
  <2>1. CASE verdict = HeadVerdict(d, size)
    BY <1>1, <1>2, <2>1 DEF HeadVerdict, LenOf, Whole
  <2>2. CASE verdict = GetVerdict(d, size, len)
    BY <1>2, <2>2 DEF GetVerdict, LenOf, Whole
  <2> QED BY <2>1, <2>2
<1>4. Failure(verdict) \notin Accused
  BY DEF Failure, Accused
<1> QED BY <1>3, <1>4

LEMMA PlanDecides ==
  ASSUME NEW p \in Publisher, InPlan(p), NEW verdict, PlanVerdict(p, verdict),
         verdict = "ok" => store[This(p)] \in Whole,
         verdict = "missing" => store[This(p)] = "absent",
         Failure(verdict) \notin Accused
  PROVE  Sound(p)
<1>1. CASE verdict = "ok"
  <2> DEFINE h == [srv[p] EXCEPT !.reused = @ + 1]
  <2>1. Advance(p, h)
    BY <1>1 DEF PlanVerdict
  <2>2. h \in Handler /\ h.pc = srv[p].pc /\ h.i = srv[p].i /\ h.grant = None
        /\ h.out = srv[p].out
    BY PlanFacts DEF Handler
  <2> HIDE DEF h
  <2>3. \A k \in DOMAIN h.out : Backed(p, h.out[k]) /\ Credible(h.out[k])
    BY <2>2, PlanFacts, Zenon
  <2>4. Covered(This(p), h.out)
    BY <1>1, Zenon DEF Covered
  <2>5. \A d : Covered(d, srv[p].out) => Covered(d, h.out)
    BY <2>2, Zenon
  <2>6. h.pc \in Planning
    BY <2>2 DEF InPlan
  <2>7. Dealt(p, h)
    BY <2>2, <2>3, <2>4, <2>5, <2>6, DealtWith
  <2> QED BY <2>1, <2>7, PlanAdvances
<1>2. CASE verdict = "digest"
  <2>1. Mint(p, TRUE)
    BY <1>2 DEF PlanVerdict
  <2> QED BY <2>1, PlanMints
<1>3. CASE verdict = "missing"
  <2>1. Mint(p, FALSE)
    BY <1>3 DEF PlanVerdict
  <2> QED BY <1>3, <2>1, PlanMints
<1>4. CASE verdict \notin {"ok", "digest", "missing"}
  <2>1. Refuse(p, Failure(verdict)) /\ UNCHANGED issued
    BY <1>4 DEF PlanVerdict
  <2>2. Blameless(p, Failure(verdict), now)
    BY Harmless
  <2>3. Refused(p, Failure(verdict))
    BY <2>1, RefuseMeans, PlanFacts, Zenon
  <2> QED BY <2>1, <2>2, <2>3, PlanEnds
<1> QED BY <1>1, <1>2, <1>3, <1>4

LEMMA PlanMoves ==
  ASSUME NEW p \in Publisher, InPlan(p), NEW h, UNCHANGED <<cli, issued>>,
         srv' = [srv EXCEPT ![p] = h], h \in Handler, h.pc \in Planning,
         h.i = srv[p].i, h.grant = None, h.out = srv[p].out
  PROVE  Sound(p)
<1>1. Goes(p, h)
  BY PlanFacts, GoesMeans
<1>2. \A k \in DOMAIN h.out : Backed(p, h.out[k]) /\ Credible(h.out[k])
  BY PlanFacts, Zenon
<1>3. \A j \in Firsts(p) : j < h.i => Covered(Files(p)[j].digest, h.out)
  BY Zenon DEF InPlan, Local, HandlerHolds
<1>4. h.i \in DOMAIN Files(p) /\ UNCHANGED issued
  BY DEF InPlan, Local, Typed
<1> QED BY <1>1, <1>2, <1>3, <1>4, PlanGoesOn, Zenon

LEMMA PlanStep ==
  ASSUME Fixed, Shared, NEW p \in Publisher, Local(p), PlanHas(p) \/ PlanHead(p) \/ PlanGet(p)
  PROVE  Sound(p)
<1>1. InPlan(p)
  BY Zenon DEF InPlan, PlanHas, PlanHead, PlanGet, Planning
<1>2. This(p) \in Digest /\ srv[p] \in Handler /\ srv[p].grant = None
  BY <1>1, PlanFacts
<1>3. CASE PlanHas(p) /\ store[This(p)] = "absent"
  <2>1. Mint(p, FALSE)
    BY <1>3 DEF PlanHas
  <2> QED BY <1>1, <1>3, <2>1, PlanMints
<1>4. CASE PlanHas(p) /\ store[This(p)] # "absent"
  <2> DEFINE h == [srv[p] EXCEPT !.pc = "plan.head"]
  <2>1. srv' = [srv EXCEPT ![p] = h] /\ UNCHANGED <<cli, issued>>
    BY <1>4 DEF PlanHas, Shared
  <2>2. h \in Handler /\ h.pc \in Planning /\ h.i = srv[p].i /\ h.grant = None
        /\ h.out = srv[p].out
    BY <1>2 DEF Handler, ServerPCs, Planning
  <2> HIDE DEF h
  <2> QED BY <1>1, <2>1, <2>2, PlanMoves
<1> DEFINE verdict == HeadVerdict(This(p), Declared(p, This(p)))
<1>5. CASE PlanHead(p) /\ verdict # "rehash"
  <2>1. PlanVerdict(p, verdict)
    BY <1>5 DEF PlanHead
  <2> DEFINE len == "right"
  <2>2. verdict \in {HeadVerdict(This(p), Declared(p, This(p))),
                     GetVerdict(This(p), Declared(p, This(p)), len)}
    OBVIOUS
  <2> HIDE DEF verdict, len
  <2> QED BY <1>1, <1>2, <2>1, <2>2, Verdicts, PlanDecides, Zenon
<1>6. CASE PlanHead(p) /\ verdict = "rehash"
  <2> DEFINE len == LenOf(store[This(p)])
             h == [srv[p] EXCEPT !.pc = "plan.get", !.len = len]
  <2>1. srv' = [srv EXCEPT ![p] = h] /\ UNCHANGED <<cli, issued>>
    BY <1>6 DEF PlanHead, Shared
  <2>2. len \in {"right", "off"}
    BY DEF LenOf
  <2> HIDE DEF len
  <2>3. h \in Handler /\ h.pc \in Planning /\ h.i = srv[p].i /\ h.grant = None
        /\ h.out = srv[p].out
    BY <1>2, <2>2 DEF Handler, ServerPCs, Planning
  <2> HIDE DEF h
  <2> QED BY <1>1, <2>1, <2>3, PlanMoves
<1>7. CASE PlanGet(p)
  <2> DEFINE got == GetVerdict(This(p), Declared(p, This(p)), srv[p].len)
  <2>1. PlanVerdict(p, got)
    BY <1>7 DEF PlanGet
  <2>2. got \in {HeadVerdict(This(p), Declared(p, This(p))),
                 GetVerdict(This(p), Declared(p, This(p)), srv[p].len)}
    OBVIOUS
  <2> HIDE DEF got
  <2> QED BY <1>1, <1>2, <2>1, <2>2, Verdicts, PlanDecides, Zenon
<1> QED BY <1>3, <1>4, <1>5, <1>6, <1>7

(***************************************************************************)
(* The other actions.  Everything but what a lemma says is as it was.      *)
(***************************************************************************)
Quiet == UNCHANGED <<now, fixed, store, issued>>

LEMMA RefusedIsSound ==
  ASSUME Fixed, Shared, NEW p \in Publisher, Local(p), srv[p].pc # "idle",
         NEW code, Refused(p, code), cli[p].pc = "sent" \/ Blameless(p, code, now),
         Quiet, UNCHANGED <<leased, releases, active>>
  PROVE  Sound(p)
<1>1. Only(p)
  BY DEF Refused
<1>2. Steady
  BY QuietIsSteady DEF Quiet
<1>3. Shared'
  BY <1>1, SharedParts DEF Quiet, Shared
<1>4. Local(p)'
  BY <1>2, <1>3, RefusedIsLocal, Zenon
<1>5. ~(cli[p].pc = "plan" /\ cli'[p].pc = "upload")
  <2>1. ASSUME NEW x, cli'[p] = Ended("failed", x) PROVE cli'[p].pc = "failed"
    BY <2>1 DEF Ended
  <2>2. cli'[p].pc \in {cli[p].pc, "failed"}
    BY <2>1, Zenon DEF Refused
  <2> QED BY <2>2
<1> QED BY <1>1, <1>2, <1>3, <1>4, <1>5 DEF Sound, Quiet

LEMMA DoneIsSound ==
  ASSUME Fixed, Shared, NEW p \in Publisher, Local(p), srv[p].pc # "idle",
         Replied(p, Done(p)), Quiet, UNCHANGED leased,
         releases \subseteq releases', releases' \subseteq Publisher,
         active' \in [Site -> Publisher \cup {None}]
  PROVE  Sound(p)
<1>1. Only(p)
  BY DEF Replied
<1>2. Steady
  BY QuietIsSteady DEF Quiet
<1>3. Shared'
  BY <1>1, SharedParts DEF Quiet, Shared
<1>4. Local(p)'
  <2>1. "done" \in {"done", "failed"} /\ OK \in ClientCodes \ Accused
    BY DEF ClientCodes, Accused, OK
  <2>2. Replied(p, Ended("done", OK))
    BY Zenon DEF Done
  <2> QED BY <1>2, <1>3, <2>1, <2>2, RepliedIsLocal, Zenon
<1>5. ~(cli[p].pc = "plan" /\ cli'[p].pc = "upload")
  <2>1. Ended("done", OK).pc = "done" /\ Ended("failed", "OWA_CLI_NETWORK").pc = "failed"
    BY DEF Ended
  <2>2. cli'[p] \in {cli[p], Ended("done", OK), Ended("failed", "OWA_CLI_NETWORK")}
    BY DEF Replied, Done
  <2>3. cli'[p].pc \in {cli[p].pc, "done", "failed"}
    BY <2>1, <2>2
  <2> QED BY <2>3
<1> QED BY <1>1, <1>2, <1>3, <1>4, <1>5 DEF Sound, Quiet

\* The client as it was, or one that has not come from a plan.
LEMMA MovedIsSound ==
  ASSUME Fixed, Shared, NEW p \in Publisher, Only(p), Quiet,
         leased \subseteq leased', leased' \subseteq Digest,
         releases \subseteq releases', releases' \subseteq Publisher, UNCHANGED active,
         cli[p].pc # "plan" \/ cli'[p] = cli[p],
         Typed(p)', Paired(p)', Authorized(p)', HandlerHolds(p)', ClientHolds(p)',
         Blame(p), cli'[p].code = cli[p].code
  PROVE  Sound(p)
<1>1. Steady
  BY QuietIsSteady DEF Quiet
<1>2. Shared'
  BY SharedParts DEF Quiet, Shared
<1>3. Blame(p)'
  BY <1>1, <1>2, BlameStays
<1>4. Local(p)'
  BY <1>3, Zenon DEF Local
<1>5. ~(cli[p].pc = "plan" /\ cli'[p].pc = "upload")
  OBVIOUS
<1> QED BY <1>1, <1>2, <1>4, <1>5 DEF Sound, Quiet

LEMMA PlanBodyStep ==
  ASSUME Fixed, Shared, NEW p \in Publisher, Local(p), PlanBody(p)
  PROVE  Sound(p)
<1>1. Quiet /\ UNCHANGED <<releases, active>> /\ srv[p].pc = "plan.body" /\ srv[p].pc # "idle"
  BY DEF PlanBody, Quiet
<1>2. CASE UNCHANGED leased /\ \E code : Refuse(p, code) /\ Blameless(p, code, now)
  <2>1. PICK code : Refuse(p, code) /\ Blameless(p, code, now)
    BY <1>2
  <2>2. Refused(p, code)
    BY <2>1, RefuseMeans, Zenon
  <2> QED BY <1>1, <1>2, <2>1, <2>2, RefusedIsSound, Zenon
<1>3. CASE /\ Allowed(p, Scope(p), {"plan"}) = OK /\ ~Conflicting(p)
           /\ leased' = leased \cup DigestsOf(p)
           /\ srv' = [srv EXCEPT ![p].pc = "plan.has"]
           /\ UNCHANGED cli
  <2> DEFINE h == [srv[p] EXCEPT !.pc = "plan.has"]
  <2>1. srv[p] \in Handler /\ srv[p].i \in DOMAIN Files(p) /\ srv[p].grant = None
        /\ srv[p].i = 1 /\ srv[p].out = << >> /\ cli[p] \in Client
    BY <1>1 DEF Local, Typed, HandlerHolds
  <2>2. srv' = [srv EXCEPT ![p] = h]
    BY <1>3
  <2>3. h \in Handler /\ h.pc = "plan.has" /\ h.i = 1 /\ h.out = << >> /\ h.grant = None
    BY <2>1 DEF Handler, ServerPCs
  <2> HIDE DEF h
  <2>4. Only(p) /\ srv'[p] = h /\ cli'[p] = cli[p]
    BY <1>3, <2>2, GoesMeans DEF Goes
  <2>5. Files(p)' = Files(p) /\ Firsts(p)' = Firsts(p) /\ DigestsOf(p)' = DigestsOf(p)
    BY <1>1, SameJob, Zenon DEF Quiet
  <2>6. Typed(p)'
    BY <2>1, <2>3, <2>4, <2>5 DEF Typed
  <2>7. Paired(p)'
    <3>1. cli[p].pc \notin {"start", "upload", "sent", "commit", "asked"}
      BY <1>1 DEF Local, Paired, Checking
    <3> QED BY <2>3, <2>4, <3>1 DEF Paired, Planning
  <2>8. DOMAIN h.out = {}
    BY <2>3
  <2>9. Authorized(p)'
    BY <2>3, <2>4, <2>8 DEF Authorized, Checking
  <2>10. HandlerHolds(p)'
    <3>1. \A j \in Firsts(p) : ~(j < 1)
      <4> DEFINE n == Len(Files(p))
      <4>1. DOMAIN Files(p) = 1 .. n /\ n \in Nat
        BY Jobs, Zenon DEF ManifestOK
      <4>2. Firsts(p) \subseteq 1 .. n
        BY <4>1, Indices, Zenon
      <4> HIDE DEF n
      <4> QED BY <4>1, <4>2
    <3> QED BY <1>3, <2>3, <2>4, <2>5, <2>8, <3>1 DEF HandlerHolds, Planning, Checking
  <2>11. DigestsOf(p) \subseteq Digest /\ leased \subseteq Digest
    BY Manifest DEF Shared
  <2>12. leased \subseteq leased' /\ leased' \subseteq Digest
    BY <1>3, <2>11
  <2>13. ClientHolds(p)'
    <3>1. cli[p].pc # "sent"
      BY <1>1 DEF Local, Paired
    <3>2. Steady
      BY <1>1, <2>12, QuietIsSteady DEF Quiet
    <3> QED BY <2>4, <3>1, <3>2, ClientFrame, Zenon DEF Local
  <2>14. /\ cli[p].pc # "plan" \/ cli'[p] = cli[p]
         /\ releases \subseteq releases' /\ releases' \subseteq Publisher /\ UNCHANGED active
         /\ Blame(p) /\ cli'[p].code = cli[p].code
    BY <1>1, <2>4 DEF Local, Shared
  <2> QED BY <1>1, <2>4, <2>6, <2>7, <2>9, <2>10, <2>12, <2>13, <2>14, MovedIsSound, Zenon
<1> QED
  <2>1. CASE Allowed(p, Scope(p), {"plan"}) # OK
    BY <2>1, <1>2, RefusalIsTrue, Zenon DEF PlanBody
  <2>2. CASE Allowed(p, Scope(p), {"plan"}) = OK /\ Conflicting(p)
    <3>1. Blameless(p, "OWA_BLOB_INTEGRITY", now)
      <4>1. "OWA_BLOB_INTEGRITY" \notin Accused
        BY DEF Accused
      <4> QED BY <4>1, Harmless
    <3> QED BY <2>2, <3>1, <1>2, Zenon DEF PlanBody
  <2>3. CASE Allowed(p, Scope(p), {"plan"}) = OK /\ ~Conflicting(p)
    BY <2>3, <1>3, Zenon DEF PlanBody
  <2> QED BY <2>1, <2>2, <2>3

LEMMA NoLoop ==
  ASSUME NEW p \in Publisher,
         srv'[p].pc \notin Planning \cup Checking \cup {"plan.body", "commit.body"},
         \A k \in DOMAIN srv'[p].out : Credible(srv[p].out[k])'
  PROVE  HandlerHolds(p)'
<1> DEFINE pc == srv'[p].pc
<1>1. /\ pc \notin {"plan.body", "commit.body"} /\ pc \notin Planning
      /\ pc \notin Planning \cup {"commit.body"} \cup Checking /\ pc \notin Checking
      /\ pc \notin {"commit.head", "commit.get"} /\ pc \notin {"commit.save", "commit.point"}
  BY DEF Planning, Checking
<1> QED BY <1>1, Zenon DEF HandlerHolds

LEMMA HandlerMoves ==
  ASSUME Fixed, Shared, NEW p \in Publisher, Local(p), Quiet, UNCHANGED <<cli, leased, active>>,
         releases \subseteq releases', releases' \subseteq Publisher,
         NEW h \in Handler, srv' = [srv EXCEPT ![p] = h], h.i \in DOMAIN Files(p),
         h.grant = srv[p].grant,
         \/ srv[p].pc = "upload.body" /\ h.pc = "upload.put"
         \/ srv[p].pc \in {"commit.body"} \cup Checking /\ h.pc \in Checking,
         Authorized(p)', HandlerHolds(p)'
  PROVE  Sound(p)
<1>1. Only(p) /\ srv'[p] = h /\ cli'[p] = cli[p]
  BY GoesMeans DEF Goes
<1>2. Files(p)' = Files(p)
  BY SameJob, Zenon DEF Quiet
<1>3. Typed(p)'
  BY <1>1, <1>2 DEF Local, Typed, Checking
<1>4. Paired(p)'
  <2>1. CASE srv[p].pc = "upload.body" /\ h.pc = "upload.put"
    <3>1. cli[p].pc \notin {"start", "upload", "plan", "commit", "asked"}
      BY <2>1 DEF Local, Paired, Planning, Checking
    <3> QED BY <1>1, <2>1, <3>1 DEF Paired
  <2>2. CASE srv[p].pc \in {"commit.body"} \cup Checking /\ h.pc \in Checking
    <3>1. cli[p].pc \notin {"start", "upload", "plan", "sent", "asked"}
      BY <2>2 DEF Local, Paired, Planning, Checking
    <3> QED BY <1>1, <2>2, <3>1 DEF Paired
  <2> QED BY <2>1, <2>2
<1>5. Steady
  BY QuietIsSteady DEF Quiet
<1>6. ClientHolds(p)'
  BY <1>1, <1>5, ClientFrame DEF Local
<1>7. leased \subseteq leased' /\ leased' \subseteq Digest /\ Blame(p) /\ UNCHANGED active
  BY DEF Shared, Local
<1> QED BY <1>1, <1>3, <1>4, <1>6, <1>7, MovedIsSound, Zenon

LEMMA UploadBodyStep ==
  ASSUME Fixed, Shared, NEW p \in Publisher, Local(p), UploadBody(p)
  PROVE  Sound(p)
<1>1. Quiet /\ UNCHANGED <<leased, releases, active>>
      /\ srv[p].pc = "upload.body" /\ srv[p].pc # "idle"
  BY DEF UploadBody, Quiet
<1>2. ASSUME NEW code, Refuse(p, code)
      PROVE  Sound(p)
  <2>1. Refused(p, code)
    BY <1>2, RefuseMeans, Zenon
  <2>2. CASE cli[p].pc = "sent"
    BY <1>1, <2>1, <2>2, RefusedIsSound, Zenon
  <2>3. CASE cli[p].pc # "sent"
    <3>1. ~Waiting(p)
      BY <1>1, <2>3 DEF Local, Paired, Waiting, Planning, Checking
    <3>2. Refused(p, OK)
      BY <2>1, <3>1, Zenon DEF Refused
    <3>3. Blameless(p, OK, now)
      <4>1. OK \notin Accused
        BY DEF OK, Accused
      <4> QED BY <4>1, Harmless, Zenon
    <3> QED BY <1>1, <3>2, <3>3, RefusedIsSound, Zenon
  <2> QED BY <2>2, <2>3
<1>3. ASSUME NEW body \in {"whole", "damaged"}, UploadCloses(p, srv[p].grant, body) = OK,
             srv' = [srv EXCEPT ![p].pc = "upload.put", ![p].body = body, ![p].at = now],
             UNCHANGED cli
      PROVE  Sound(p)
  <2>14. PICK h, g : /\ h = [srv[p] EXCEPT !.pc = "upload.put", !.body = body, !.at = now]
                     /\ g = srv[p].grant
    OBVIOUS
  <2>1. srv[p] \in Handler /\ srv[p].i \in DOMAIN Files(p) /\ now \in Nat
    BY <1>1, Jobs DEF Local, Typed, Shared
  <2>2. srv' = [srv EXCEPT ![p] = h]
    BY <1>3, <2>14
  <2>3. h \in Handler /\ h.pc = "upload.put" /\ h.body = body /\ h.at = now
        /\ h.i = srv[p].i /\ h.grant = g /\ h.out = srv[p].out
    BY <2>1, <2>14 DEF Handler, ServerPCs
  <2>4. UploadOpens(p, g) = OK /\ body = "whole"
    <3>1. UploadOpens(p, g) = OK
      BY <1>3, <2>14, Zenon DEF UploadCloses
    <3> QED BY <1>3, <2>14, <3>1 DEF UploadCloses, OK
  <2>5. Allowed(p, g.site, {"upload"}) = OK /\ ~(g.expires <= now)
    <3>1. Allowed(p, g.site, {"upload"}) = OK
      BY <2>4, Zenon DEF UploadOpens
    <3> QED BY <2>4, <3>1 DEF UploadOpens, OK
  <2>6. Permitted(p, g.site, {"upload"}) /\ InForce(p, now)
    BY <2>5, AllowedMeans, Zenon
  <2>7. g.expires > now
    <3>1. g \in Grant
      BY <1>1, <2>1, <2>14 DEF Local, Typed, Handler
    <3>2. g.expires \in Nat
      BY <3>1 DEF Grant
    <3> DEFINE e == g.expires
    <3>3. e \in Nat /\ ~(e <= now)
      BY <2>5, <3>2
    <3> HIDE DEF e
    <3>4. e > now
      BY <2>1, <3>3
    <3> QED BY <3>4 DEF e
  <2>8. srv'[p] = h /\ env' = env /\ job' = job /\ store' = store
    BY <1>1, <2>2 DEF Shared, Quiet, fixed
  <2>9. /\ \A k \in DOMAIN h.out : Backed(p, h.out[k])'
        /\ \A k \in DOMAIN h.out : Credible(h.out[k])'
    <3>1. \A k \in DOMAIN h.out : Backed(p, h.out[k]) /\ Credible(h.out[k])
      BY <2>3, Zenon DEF Local, Authorized, HandlerHolds
    <3> QED BY <2>8, <3>1, Zenon DEF Backed, Permitted, InForce, Credible
  <2>10. PICK t : t = now
    OBVIOUS
  <2>11. Authorized(p)'
    <3>1. Permitted(p, g.site, {"upload"})' /\ InForce(p, t)'
      BY <2>6, <2>8, <2>10, Zenon DEF Permitted, InForce
    <3>2. /\ srv'[p].out = h.out /\ srv'[p].pc = "upload.put" /\ srv'[p].grant = g
          /\ srv'[p].at = t /\ g.expires > t /\ srv'[p].body = "whole"
      BY <2>3, <2>4, <2>7, <2>8, <2>10
    <3>3. srv'[p].pc \notin Checking \cup {"activate.save", "commit.point"}
      BY <3>2 DEF Checking
    <3> QED BY <2>9, <3>1, <3>2, <3>3, Zenon DEF Authorized
  <2>12. HandlerHolds(p)'
    <3>1. srv'[p].out = h.out /\ srv'[p].pc = "upload.put"
      BY <2>3, <2>8
    <3>2. srv'[p].pc \notin Planning \cup Checking \cup {"plan.body", "commit.body"}
      BY <3>1 DEF Planning, Checking
    <3>3. \A k \in DOMAIN srv'[p].out : Credible(srv[p].out[k])'
      BY <2>9, <3>1, Zenon
    <3> QED BY <3>2, <3>3, NoLoop, Zenon
  <2>13. h.i \in DOMAIN Files(p) /\ releases \subseteq releases' /\ releases' \subseteq Publisher
    BY <1>1, <2>1, <2>3 DEF Shared
  <2>15. UNCHANGED <<cli, leased, active>> /\ h.grant = srv[p].grant
    BY <1>1, <1>3, <2>3, <2>14
  <2> QED BY <1>1, <2>2, <2>3, <2>11, <2>12, <2>13, <2>15, HandlerMoves, Zenon
<1> QED BY <1>2, <1>3, Zenon DEF UploadBody

LEMMA StorePut ==
  ASSUME Fixed, Shared, NEW p \in Publisher, Only(p), NEW d \in Digest,
         store' = [store EXCEPT ![d] = "proven"] \/ UNCHANGED store,
         UNCHANGED <<now, fixed, leased, issued, releases, active>>
  PROVE  Shared' /\ Steady
<1>1. cli' = [q \in Publisher |-> cli'[q]] /\ srv' = [q \in Publisher |-> srv'[q]]
  BY OnlyOne, Zenon
<1>2. store \in [Digest -> Contents] /\ "proven" \in Contents
  BY DEF Shared, Contents
<1>3. store' \in [Digest -> Contents] /\ \A e \in Digest : store'[e] \in {store[e], "proven"}
  BY <1>2
<1>4. env' = env
  BY DEF fixed
<1>5. Shared'
  BY <1>1, <1>3, <1>4 DEF Shared
<1>6. now' >= now
  BY Jobs DEF Shared
<1>7. Steady
  BY <1>3, <1>6 DEF Steady, StoreStep
<1> QED BY <1>5, <1>7

LEMMA UploadPutStep ==
  ASSUME Fixed, Shared, NEW p \in Publisher, Local(p), UploadPut(p)
  PROVE  Sound(p)
<1>1. PICK g : g = srv[p].grant
  OBVIOUS
<1>2. /\ srv[p].pc = "upload.put" /\ srv[p].pc # "idle" /\ srv[p].body = "whole"
      /\ g \in Grant /\ g.digest \in Digest
  <2>1. srv[p].pc = "upload.put"
    BY DEF UploadPut
  <2>2. g \in Grant
    BY <1>1, <2>1 DEF Local, Typed, Handler
  <2> QED BY <2>1, <2>2 DEF Local, Authorized, Grant
<1>3. /\ store' = [store EXCEPT ![g.digest] = "proven"]
      /\ UNCHANGED <<now, fixed, leased, issued, releases, active>>
      /\ Reply(p, [cli[p] EXCEPT !.pc = "upload"]) \/ Refuse(p, "OWA_OPERATION_FAILED")
  BY <1>1, <1>2 DEF UploadPut
<1>4. PICK c : c = [cli[p] EXCEPT !.pc = "upload"]
  OBVIOUS
<1>5. Replied(p, c) \/ Refused(p, "OWA_OPERATION_FAILED")
  BY <1>3, <1>4, ReplyMeans, RefuseMeans, Zenon
<1>6. Only(p)
  BY <1>5, Zenon DEF Replied, Refused
<1>7. Shared' /\ Steady
  BY <1>2, <1>3, <1>6, StorePut
<1>8. cli[p].pc # "plan"
  BY <1>2 DEF Local, Paired, Planning
<1>9. CASE Refused(p, "OWA_OPERATION_FAILED")
  <2>1. "OWA_OPERATION_FAILED" \notin Accused
    BY DEF Accused
  <2>2. Local(p)'
    BY <1>2, <1>7, <1>9, <2>1, Harmless, RefusedIsLocal, Zenon
  <2> QED BY <1>3, <1>6, <1>7, <1>8, <2>2 DEF Sound
<1>10. CASE Replied(p, c) /\ ~(Waiting(p) /\ cli'[p] = c)
  <2>1. Replied(p, Ended("failed", "OWA_CLI_NETWORK"))
    BY <1>10, Zenon DEF Replied
  <2>2. "OWA_CLI_NETWORK" \in ClientCodes \ Accused /\ "failed" \in {"done", "failed"}
    BY DEF ClientCodes, Accused
  <2>3. Local(p)'
    BY <1>2, <1>7, <2>1, <2>2, RepliedIsLocal, Zenon
  <2> QED BY <1>3, <1>6, <1>7, <1>8, <2>3 DEF Sound
<1>11. CASE Replied(p, c) /\ Waiting(p) /\ cli'[p] = c
  <2>1. cli[p].pc = "sent"
    BY <1>2, <1>11 DEF Waiting, Local, Paired, Planning, Checking
  <2>2. /\ srv'[p] = Idle /\ cli'[p] \in Client /\ cli'[p].pc = "upload"
        /\ cli'[p].todo = cli[p].todo /\ cli'[p].code = cli[p].code
    <3>1. cli[p] \in Client
      BY DEF Local, Typed
    <3> QED BY <1>4, <1>11, <3>1 DEF Replied, Client, ClientPCs
  <2>3. Files(p)' = Files(p) /\ DigestsOf(p)' = DigestsOf(p) /\ UNCHANGED fixed
    BY <1>3, SameJob, Zenon DEF Steady
  <2>4. Typed(p)' /\ Paired(p)'
    BY <2>2, <2>3, IdleIsTyped DEF Typed, Paired
  <2>5. Authorized(p)' /\ HandlerHolds(p)'
    BY <2>2, <2>3, IdleHolds
  <2>6. ClientHolds(p)'
    <3>1. DigestsOf(p) \subseteq leased /\ DigestsOf(p)' \subseteq leased'
      <4>1. DigestsOf(p) \subseteq leased
        BY <2>1, Zenon DEF Local, ClientHolds
      <4> QED BY <1>3, <2>3, <4>1
    <3>2. PICK gs : gs = cli[p].todo
      OBVIOUS
    <3>3. cli'[p].todo = gs
      BY <2>2, <3>2
    <3>4. ASSUME NEW d \in DigestsOf(p) PROVE Covered(d, gs)'
      <4>1. CASE d = g.digest
        <5>1. store'[d] \in Whole
          BY <1>2, <1>3, <4>1 DEF Shared, Whole
        <5> QED BY <5>1, Zenon DEF Covered
      <4>2. CASE Covered(d, gs)
        BY <1>7, <3>1, <4>2, GoodStays, Zenon
      <4> QED BY <1>1, <2>1, <3>2, <4>1, <4>2, Zenon DEF Local, ClientHolds
    <3>5. ASSUME NEW k \in DOMAIN gs PROVE Credible(gs[k])'
      <4>1. gs[k] \in Grant /\ Credible(gs[k])
        BY <3>2, TypedGrants, Zenon DEF Local, ClientHolds
      <4> QED BY <1>7, <4>1, CredibleStays, Zenon DEF Steady
    <3>6. /\ \A d \in DigestsOf(p)' : Covered(d, cli[p].todo)'
          /\ \A k \in DOMAIN cli'[p].todo : Credible(cli[p].todo[k])'
      BY <2>3, <3>3, <3>4, <3>5, Zenon DEF Covered, Credible
    <3> QED BY <2>2, <3>1, <3>6 DEF ClientHolds
  <2>7. Blame(p)'
    BY <1>7, <2>2, BlameStays DEF Local
  <2>8. Local(p)'
    BY <2>4, <2>5, <2>6, <2>7, Zenon DEF Local
  <2> QED BY <1>3, <1>6, <1>7, <1>8, <2>8 DEF Sound
<1> QED BY <1>5, <1>9, <1>10, <1>11

LEMMA CommitMoves ==
  ASSUME Fixed, Shared, NEW p \in Publisher, Local(p), Quiet, UNCHANGED <<cli, leased, active>>,
         releases \subseteq releases', releases' \subseteq Publisher,
         srv[p].pc \in {"commit.body"} \cup Checking,
         NEW h \in Handler, srv' = [srv EXCEPT ![p] = h], h.pc \in Checking,
         h.i \in DOMAIN Files(p), h.grant = srv[p].grant, h.out = srv[p].out,
         Permitted(p, Scope(p), CommitNeeds(p)), InForce(p, h.at), ~Conflicting(p),
         h.pc \in {"commit.head", "commit.get"} =>
            \A j \in Firsts(p) : j < h.i => Good(p, Files(p)[j].digest),
         h.pc \in {"commit.save", "commit.point"} => \A d \in DigestsOf(p) : Good(p, d),
         h.pc = "commit.point" => p \in releases' /\ Activates(p)
  PROVE  Sound(p)
<1>1. srv'[p] = h /\ env' = env /\ job' = job /\ store' = store /\ leased' = leased
  BY DEF Shared, Quiet, fixed
<1>2. /\ Files(p)' = Files(p) /\ DigestsOf(p)' = DigestsOf(p)
      /\ Firsts(p)' = Firsts(p) /\ Scope(p)' = Scope(p) /\ (Conflicting(p)' <=> Conflicting(p))
      /\ CommitNeeds(p)' = CommitNeeds(p) /\ (Activates(p)' <=> Activates(p))
      /\ \A d : Declared(p, d)' = Declared(p, d)
  BY SameJob, Zenon DEF Quiet
<1>3. h.pc \notin {"upload.put", "activate.save", "plan.body", "commit.body"} \cup Planning
  BY DEF Checking, Planning
<1>4. /\ \A k \in DOMAIN h.out : Backed(p, h.out[k])'
      /\ \A k \in DOMAIN h.out : Credible(h.out[k])'
  <2>1. \A k \in DOMAIN h.out : Backed(p, h.out[k]) /\ Credible(h.out[k])
    BY Zenon DEF Local, Authorized, HandlerHolds
  <2> QED BY <1>1, <2>1, Zenon DEF Backed, Permitted, InForce, Credible
<1>5. Permitted(p, Scope(p), CommitNeeds(p))' /\ InForce(p, h.at)'
  BY <1>1, <1>2, Zenon DEF Permitted, InForce
<1>6. Authorized(p)'
  <2>1. /\ \A k \in DOMAIN srv'[p].out : Backed(p, srv[p].out[k])'
        /\ InForce(p, srv[p].at)'
    BY <1>1, <1>4, <1>5, Zenon DEF InForce
  <2>2. srv'[p].pc # "upload.put" /\ srv'[p].pc # "activate.save"
    BY <1>1, <1>3
  <2>3. srv'[p].pc = "commit.point" => p \in releases' /\ Activates(p)'
    BY <1>1, <1>2
  <2> QED BY <1>5, <2>1, <2>2, <2>3, Zenon DEF Authorized
<1>7. HandlerHolds(p)'
  <2>1. srv'[p].pc = h.pc /\ srv'[p].i = h.i /\ srv'[p].pc \notin {"plan.body", "commit.body"}
        /\ srv'[p].pc \notin Planning
    BY <1>1, <1>3
  <2>2. DigestsOf(p)' \subseteq leased'
    BY <1>1, <1>2, Zenon DEF Local, HandlerHolds
  <2>3. srv'[p].pc \in {"commit.head", "commit.get"} =>
          \A j \in Firsts(p)' : j < srv'[p].i => Good(p, Files(p)[j].digest)'
    BY <1>1, <1>2, <2>1, Zenon DEF Good
  <2>4. srv'[p].pc \in {"commit.save", "commit.point"} => \A d \in DigestsOf(p)' : Good(p, d)'
    BY <1>1, <1>2, <2>1, Zenon DEF Good
  <2>5. \A k \in DOMAIN srv'[p].out : Credible(srv[p].out[k])'
    BY <1>1, <1>4, Zenon
  <2> QED BY <1>2, <2>1, <2>2, <2>3, <2>4, <2>5, Zenon DEF HandlerHolds
<1> QED BY <1>6, <1>7, HandlerMoves, Zenon

LEMMA CommitFacts ==
  ASSUME Fixed, Shared, NEW p \in Publisher, Local(p), srv[p].pc \in {"commit.body"} \cup Checking
  PROVE  /\ srv[p] \in Handler /\ srv[p].i \in DOMAIN Files(p) /\ srv[p].pc # "idle"
         /\ DigestsOf(p) \subseteq leased /\ This(p) \in DigestsOf(p) /\ This(p) \in Digest
         /\ srv[p].pc \in Checking => /\ Permitted(p, Scope(p), CommitNeeds(p))
                                      /\ InForce(p, srv[p].at) /\ ~Conflicting(p)
<1>1. srv[p] \in Handler /\ srv[p].i \in DOMAIN Files(p) /\ srv[p].pc # "idle"
  BY DEF Local, Typed, Checking
<1>2. This(p) \in DigestsOf(p) /\ This(p) \in Digest
  BY <1>1, Manifest DEF This, DigestsOf
<1>3. DigestsOf(p) \subseteq leased
  BY Zenon DEF Local, HandlerHolds
<1>4. srv[p].pc \in Checking => /\ Permitted(p, Scope(p), CommitNeeds(p))
                                /\ InForce(p, srv[p].at) /\ ~Conflicting(p)
  BY Zenon DEF Local, HandlerHolds, Authorized
<1> QED BY <1>1, <1>2, <1>3, <1>4

LEMMA CommitBodyStep ==
  ASSUME Fixed, Shared, NEW p \in Publisher, Local(p), CommitBody(p)
  PROVE  Sound(p)
<1>1. /\ Quiet /\ UNCHANGED <<leased, releases, active>>
      /\ srv[p].pc = "commit.body" /\ srv[p].pc # "idle"
      /\ srv[p].pc \in {"commit.body"} \cup Checking
  BY DEF CommitBody, Quiet
<1>2. CASE \E code : Refuse(p, code) /\ Blameless(p, code, now)
  <2>1. PICK code : Refuse(p, code) /\ Blameless(p, code, now)
    BY <1>2
  <2> QED BY <1>1, <2>1, RefuseMeans, RefusedIsSound, Zenon
<1>3. CASE /\ Allowed(p, Scope(p), CommitNeeds(p)) = OK /\ ~Conflicting(p)
           /\ srv' = [srv EXCEPT ![p].pc = "commit.head", ![p].at = now] /\ UNCHANGED cli
  <2>1. PICK h : h = [srv[p] EXCEPT !.pc = "commit.head", !.at = now]
    OBVIOUS
  <2>2. srv' = [srv EXCEPT ![p] = h]
    BY <1>3, <2>1
  <2>3. now \in Nat
    BY Jobs DEF Shared
  <2>4. /\ h \in Handler /\ h.pc = "commit.head" /\ h.i = srv[p].i /\ h.grant = srv[p].grant
        /\ h.out = srv[p].out /\ h.at = now /\ h.pc \in Checking
    BY <1>1, <2>1, <2>3, CommitFacts DEF Handler, ServerPCs, Checking
  <2>5. h.i \in DOMAIN Files(p) /\ h.i = 1
    BY <1>1, <2>4 DEF Local, Typed, HandlerHolds
  <2>6. \A j \in Firsts(p) : ~(j < h.i)
    <3> DEFINE n == Len(Files(p))
    <3>1. DOMAIN Files(p) = 1 .. n /\ n \in Nat
      BY Jobs, Zenon DEF ManifestOK
    <3>2. Firsts(p) \subseteq 1 .. n
      BY <3>1, Indices, Zenon
    <3> HIDE DEF n
    <3> QED BY <2>5, <3>1, <3>2
  <2>7. Permitted(p, Scope(p), CommitNeeds(p)) /\ InForce(p, h.at)
    BY <1>3, <2>4, AllowedMeans, Zenon
  <2>8. releases \subseteq releases' /\ releases' \subseteq Publisher
        /\ UNCHANGED <<cli, leased, active>>
    BY <1>1, <1>3 DEF Shared
  <2>9. h.pc \notin {"commit.save", "commit.point"}
    BY <2>4
  <2>10. h.pc # "commit.point"
    BY <2>4
  <2> QED BY <1>1, <1>3, <2>2, <2>4, <2>5, <2>6, <2>7, <2>8, <2>9, <2>10, CommitMoves, Zenon
<1> QED
  <2>1. CASE Allowed(p, Scope(p), CommitNeeds(p)) # OK
    BY <2>1, <1>2, RefusalIsTrue, Zenon DEF CommitBody
  <2>2. CASE Allowed(p, Scope(p), CommitNeeds(p)) = OK /\ Conflicting(p)
    <3>1. Blameless(p, "OWA_BLOB_INTEGRITY", now)
      <4>1. "OWA_BLOB_INTEGRITY" \notin Accused
        BY DEF Accused
      <4> QED BY <4>1, Harmless
    <3> QED BY <2>2, <3>1, <1>2, Zenon DEF CommitBody
  <2>3. CASE Allowed(p, Scope(p), CommitNeeds(p)) = OK /\ ~Conflicting(p)
    BY <2>3, <1>3, Zenon DEF CommitBody
  <2> QED BY <2>1, <2>2, <2>3

LEMMA CommitDecides ==
  ASSUME Fixed, Shared, NEW p \in Publisher, Local(p), Quiet,
         UNCHANGED <<leased, releases, active>>,
         srv[p].pc \in {"commit.head", "commit.get"}, NEW verdict, CommitVerdict(p, verdict),
         verdict = "ok" => Good(p, This(p)), Failure(verdict) \notin Accused
  PROVE  Sound(p)
<1>1. /\ srv[p] \in Handler /\ srv[p].i \in DOMAIN Files(p) /\ srv[p].pc # "idle"
      /\ srv[p].pc \in Checking /\ srv[p].pc \in {"commit.body"} \cup Checking
      /\ Permitted(p, Scope(p), CommitNeeds(p))
      /\ InForce(p, srv[p].at) /\ ~Conflicting(p)
  <2>1. srv[p].pc \in Checking /\ srv[p].pc \in {"commit.body"} \cup Checking
    BY DEF Checking
  <2> QED BY <2>1, CommitFacts
<1>2. CASE verdict # "ok"
  <2>1. Refuse(p, Failure(verdict))
    BY <1>2 DEF CommitVerdict
  <2> QED BY <1>1, <2>1, Harmless, RefuseMeans, RefusedIsSound, Zenon
<1>3. releases \subseteq releases' /\ releases' \subseteq Publisher
  BY DEF Shared
<1>4. ASSUME verdict = "ok", NEW j \in Firsts(p), j <= srv[p].i
      PROVE  Good(p, Files(p)[j].digest)
  <2>1. CASE j = srv[p].i
    BY <1>4, <2>1, Zenon DEF This
  <2>2. CASE j < srv[p].i
    BY <2>2, Zenon DEF Local, HandlerHolds
  <2>3. j \in Nat /\ srv[p].i \in Nat
    BY <1>1, Indices
  <2> QED BY <1>4, <2>1, <2>2, <2>3
<1>5. CASE verdict = "ok" /\ Later(p, srv[p].i) # {}
  <2>1. PICK f : f = Following(p, srv[p].i)
    OBVIOUS
  <2>2. f \in Firsts(p) /\ f \in DOMAIN Files(p) /\ f \in Nat
        /\ \A j \in Firsts(p) : j < f => j <= srv[p].i
    BY <1>1, <1>5, <2>1, FollowingMeans, Indices
  <2>3. PICK h : h = [srv[p] EXCEPT !.pc = "commit.head", !.i = f]
    OBVIOUS
  <2>4. srv' = [srv EXCEPT ![p] = h] /\ UNCHANGED cli
    BY <1>5, <2>1, <2>3 DEF CommitVerdict
  <2>5. /\ h \in Handler /\ h.pc = "commit.head" /\ h.i = f /\ h.grant = srv[p].grant
        /\ h.out = srv[p].out /\ h.at = srv[p].at
    BY <1>1, <2>2, <2>3 DEF Handler, ServerPCs
  <2>6. \A j \in Firsts(p) : j < h.i => Good(p, Files(p)[j].digest)
    BY <1>4, <1>5, <2>2, <2>5, Zenon
  <2>7. h.pc \in Checking /\ h.pc \notin {"commit.save", "commit.point"} /\ h.pc # "commit.point"
    BY <2>5 DEF Checking
  <2>8. UNCHANGED <<cli, leased, active>> /\ h.i \in DOMAIN Files(p) /\ InForce(p, h.at)
    BY <1>1, <2>2, <2>4, <2>5
  <2> QED BY <1>1, <1>3, <2>4, <2>5, <2>6, <2>7, <2>8, CommitMoves, Zenon
<1>6. CASE verdict = "ok" /\ Later(p, srv[p].i) = {}
  <2>3. PICK h : h = [srv[p] EXCEPT !.pc = "commit.save"]
    OBVIOUS
  <2>4. srv' = [srv EXCEPT ![p] = h] /\ UNCHANGED cli
    BY <1>6, <2>3 DEF CommitVerdict
  <2>5. /\ h \in Handler /\ h.pc = "commit.save" /\ h.i = srv[p].i /\ h.grant = srv[p].grant
        /\ h.out = srv[p].out /\ h.at = srv[p].at
    BY <1>1, <2>3 DEF Handler, ServerPCs
  <2>6. \A d \in DigestsOf(p) : Good(p, d)
    <3>1. ASSUME NEW d \in DigestsOf(p) PROVE Good(p, d)
      <4>1. PICK j \in Firsts(p) : Files(p)[j].digest = d
        BY FirstOfEach
      <4>2. j <= srv[p].i
        BY <1>1, <1>6, NoneLater
      <4> QED BY <1>4, <1>6, <4>1, <4>2, Zenon
    <3> QED BY <3>1, Zenon
  <2>7. h.pc \in Checking /\ h.pc \notin {"commit.head", "commit.get"} /\ h.pc # "commit.point"
    BY <2>5 DEF Checking
  <2>8. UNCHANGED <<cli, leased, active>> /\ h.i \in DOMAIN Files(p) /\ InForce(p, h.at)
    BY <1>1, <2>4, <2>5
  <2> QED BY <1>1, <1>3, <2>4, <2>5, <2>6, <2>7, <2>8, CommitMoves, Zenon
<1> QED BY <1>2, <1>5, <1>6

LEMMA CommitVerdictStep ==
  ASSUME Fixed, Shared, NEW p \in Publisher, Local(p), CommitHead(p) \/ CommitGet(p)
  PROVE  Sound(p)
<1>1. /\ Quiet /\ UNCHANGED <<leased, releases, active>>
      /\ srv[p].pc \in {"commit.head", "commit.get"}
      /\ srv[p].pc \in {"commit.body"} \cup Checking
  BY DEF CommitHead, CommitGet, Quiet, Checking
<1>2. /\ srv[p] \in Handler /\ srv[p].i \in DOMAIN Files(p) /\ This(p) \in Digest
      /\ srv[p].pc \in Checking
      /\ Permitted(p, Scope(p), CommitNeeds(p)) /\ InForce(p, srv[p].at) /\ ~Conflicting(p)
  <2>1. srv[p].pc \in Checking
    BY <1>1 DEF Checking
  <2> QED BY <1>1, <2>1, CommitFacts
<1>3. ASSUME NEW verdict, CommitVerdict(p, verdict),
             verdict \in {HeadVerdict(This(p), Declared(p, This(p))),
                          GetVerdict(This(p), Declared(p, This(p)), srv[p].len)}
      PROVE  Sound(p)
  <2>1. /\ verdict = "ok" => store[This(p)] \in Whole /\ Declared(p, This(p)) = "right"
        /\ Failure(verdict) \notin Accused
    BY <1>2, <1>3, Verdicts, Zenon
  <2>2. verdict = "ok" => Good(p, This(p))
    BY <2>1, Zenon DEF Good
  <2> QED BY <1>1, <1>3, <2>1, <2>2, CommitDecides, Zenon
<1>4. PICK head, get : /\ head = HeadVerdict(This(p), Declared(p, This(p)))
                       /\ get = GetVerdict(This(p), Declared(p, This(p)), srv[p].len)
  OBVIOUS
<1>5. CASE CommitHead(p) /\ head # "rehash"
  <2>1. CommitVerdict(p, head)
    BY <1>4, <1>5 DEF CommitHead
  <2> QED BY <1>3, <1>4, <2>1
<1>6. CASE CommitGet(p)
  <2>1. CommitVerdict(p, get)
    BY <1>4, <1>6 DEF CommitGet
  <2> QED BY <1>3, <1>4, <2>1
<1>7. CASE CommitHead(p) /\ head = "rehash"
  <2>1. PICK len : len = LenOf(store[This(p)])
    OBVIOUS
  <2>2. PICK h : h = [srv[p] EXCEPT !.pc = "commit.get", !.len = len]
    OBVIOUS
  <2>3. srv' = [srv EXCEPT ![p] = h] /\ UNCHANGED cli
    BY <1>4, <1>7, <2>1, <2>2 DEF CommitHead
  <2>4. len \in {"right", "off"}
    BY <2>1 DEF LenOf
  <2>5. /\ h \in Handler /\ h.pc = "commit.get" /\ h.i = srv[p].i /\ h.grant = srv[p].grant
        /\ h.out = srv[p].out /\ h.at = srv[p].at
    BY <1>2, <2>2, <2>4 DEF Handler, ServerPCs
  <2>6. \A j \in Firsts(p) : j < h.i => Good(p, Files(p)[j].digest)
    BY <1>1, <2>5, Zenon DEF Local, HandlerHolds
  <2>7. h.pc \in Checking /\ h.pc \notin {"commit.save", "commit.point"} /\ h.pc # "commit.point"
    BY <2>5 DEF Checking
  <2>8. /\ UNCHANGED <<cli, leased, active>> /\ h.i \in DOMAIN Files(p) /\ InForce(p, h.at)
        /\ releases \subseteq releases' /\ releases' \subseteq Publisher
    BY <1>1, <1>2, <2>3, <2>5 DEF Shared
  <2> QED BY <1>1, <1>2, <2>3, <2>5, <2>6, <2>7, <2>8, CommitMoves, Zenon
<1> QED BY <1>5, <1>6, <1>7

LEMMA CommitSaveStep ==
  ASSUME Fixed, Shared, NEW p \in Publisher, Local(p), CommitSave(p)
  PROVE  Sound(p)
<1>1. /\ Quiet /\ UNCHANGED <<leased, active>> /\ releases' = releases \cup {p}
      /\ srv[p].pc = "commit.save" /\ srv[p].pc # "idle"
      /\ srv[p].pc \in {"commit.body"} \cup Checking /\ srv[p].pc \in Checking
  BY DEF CommitSave, Quiet, Checking
<1>2. /\ srv[p] \in Handler /\ srv[p].i \in DOMAIN Files(p)
      /\ Permitted(p, Scope(p), CommitNeeds(p)) /\ InForce(p, srv[p].at) /\ ~Conflicting(p)
  BY <1>1, CommitFacts
<1>3. /\ releases \subseteq releases' /\ releases' \subseteq Publisher /\ p \in releases'
      /\ active' \in [Site -> Publisher \cup {None}]
  BY <1>1 DEF Shared
<1>4. CASE ~Activates(p)
  <2>1. Replied(p, Done(p))
    BY <1>4, ReplyMeans, Zenon DEF CommitSave
  <2>2. UNCHANGED leased
    BY <1>1
  <2> QED BY <1>1, <1>3, <2>1, <2>2, DoneIsSound, Zenon
<1>5. CASE Activates(p)
  <2>1. PICK h : h = [srv[p] EXCEPT !.pc = "commit.point"]
    OBVIOUS
  <2>2. srv' = [srv EXCEPT ![p] = h] /\ UNCHANGED cli
    <3>1. srv' = [srv EXCEPT ![p].pc = "commit.point"] /\ UNCHANGED cli
      BY <1>5, Zenon DEF CommitSave
    <3> QED BY <2>1, <3>1
  <2>3. /\ h \in Handler /\ h.pc = "commit.point" /\ h.i = srv[p].i /\ h.grant = srv[p].grant
        /\ h.out = srv[p].out /\ h.at = srv[p].at
    BY <1>2, <2>1 DEF Handler, ServerPCs
  <2>4. \A d \in DigestsOf(p) : Good(p, d)
    BY <1>1, Zenon DEF Local, HandlerHolds
  <2>5. h.pc \in Checking /\ h.pc \notin {"commit.head", "commit.get"}
    BY <2>3 DEF Checking
  <2>6. UNCHANGED <<cli, leased, active>> /\ h.i \in DOMAIN Files(p) /\ InForce(p, h.at)
    BY <1>1, <1>2, <2>2, <2>3
  <2> QED BY <1>1, <1>2, <1>3, <1>5, <2>2, <2>3, <2>4, <2>5, <2>6, CommitMoves, Zenon
<1> QED BY <1>4, <1>5

LEMMA CommitPointStep ==
  ASSUME Fixed, Shared, NEW p \in Publisher, Local(p), CommitPoint(p)
  PROVE  Sound(p)
<1>1. /\ Quiet /\ UNCHANGED leased /\ UNCHANGED releases
      /\ srv[p].pc # "idle" /\ active' = [active EXCEPT ![Scope(p)] = p] /\ Reply(p, Done(p))
  BY DEF CommitPoint, Quiet
<1>2. /\ releases \subseteq releases' /\ releases' \subseteq Publisher
      /\ active' \in [Site -> Publisher \cup {None}]
  BY <1>1 DEF Shared
<1> QED BY <1>1, <1>2, ReplyMeans, DoneIsSound, Zenon

LEMMA Unfinished ==
  ASSUME Fixed, Shared, NEW p \in Publisher, Local(p), srv[p].pc # "idle", Quiet,
         UNCHANGED <<leased, releases, active>>, NEW code, code \notin Accused,
         Refuse(p, code)
  PROVE  Sound(p)
  BY Harmless, RefuseMeans, RefusedIsSound, Zenon

LEMMA ActivateSaveStep ==
  ASSUME Fixed, Shared, NEW p \in Publisher, Local(p), ActivateSave(p)
  PROVE  Sound(p)
<1>1. PICK r : r = job[p].release
  OBVIOUS
<1>2. Quiet /\ UNCHANGED leased /\ UNCHANGED releases /\ srv[p].pc # "idle"
  BY DEF ActivateSave, Quiet
<1>3. CASE r \in releases /\ Scope(r) = Scope(p)
  <2>1. active' = [active EXCEPT ![Scope(p)] = r] /\ Reply(p, Done(p))
    BY <1>1, <1>3 DEF ActivateSave
  <2>2. /\ releases \subseteq releases' /\ releases' \subseteq Publisher
        /\ active' \in [Site -> Publisher \cup {None}]
    BY <1>2, <1>3, <2>1 DEF Shared
  <2> QED BY <1>2, <2>1, <2>2, ReplyMeans, DoneIsSound, Zenon
<1>4. CASE ~(r \in releases /\ Scope(r) = Scope(p))
  <2>1. Refuse(p, "OWA_OPERATION_FAILED") /\ UNCHANGED active
    BY <1>1, <1>4 DEF ActivateSave
  <2>2. "OWA_OPERATION_FAILED" \notin Accused
    BY DEF Accused
  <2>3. UNCHANGED <<leased, releases, active>>
    BY <1>2, <2>1
  <2> QED BY <1>2, <2>1, <2>2, <2>3, Unfinished
<1> QED BY <1>3, <1>4

LEMMA ReadReleasesStep ==
  ASSUME Fixed, Shared, NEW p \in Publisher, Local(p), ReadReleases(p)
  PROVE  Sound(p)
<1>1. Quiet /\ UNCHANGED <<leased, releases, active>> /\ srv[p].pc # "idle"
  BY DEF ReadReleases, Quiet
<1>2. CASE Reply(p, Done(p))
  <2>1. /\ releases \subseteq releases' /\ releases' \subseteq Publisher
        /\ active' \in [Site -> Publisher \cup {None}] /\ UNCHANGED leased
    BY <1>1 DEF Shared
  <2> QED BY <1>1, <1>2, <2>1, ReplyMeans, DoneIsSound, Zenon
<1>3. CASE Refuse(p, "site not found")
  <2>1. "site not found" \notin Accused
    BY DEF Accused
  <2> QED BY <1>1, <1>3, <2>1, Unfinished
<1> QED BY <1>2, <1>3, Zenon DEF ReadReleases

LEMMA ProviderFailsStep ==
  ASSUME Fixed, Shared, NEW p \in Publisher, Local(p), ProviderFails(p)
  PROVE  Sound(p)
<1>1. /\ Quiet /\ UNCHANGED <<leased, releases, active>> /\ srv[p].pc # "idle"
      /\ Refuse(p, "OWA_BLOB_UNVERIFIED")
  BY DEF ProviderFails, Quiet
<1>2. "OWA_BLOB_UNVERIFIED" \notin Accused
  BY DEF Accused
<1> QED BY <1>1, <1>2, Unfinished

(***************************************************************************)
(* Requests.                                                               *)
(***************************************************************************)
LEMMA StillIsSound ==
  ASSUME Fixed, Shared, NEW p \in Publisher, Local(p), Quiet,
         UNCHANGED <<leased, releases, active>>, NEW x \in ClientCodes, Still(p, x),
         Blameless(p, x, now)
  PROVE  Sound(p)
<1>1. Only(p) /\ srv'[p] = srv[p] /\ cli'[p] = Ended("failed", x)
  BY DEF Still
<1>2. Steady
  BY QuietIsSteady DEF Quiet
<1>3. Shared'
  BY <1>1, SharedParts DEF Quiet, Shared
<1>4. Local(p)'
  BY <1>1, <1>2, <1>3, GivenUpIsLocal
<1>5. cli'[p].pc # "upload"
  BY <1>1 DEF Ended
<1> QED BY <1>1, <1>2, <1>3, <1>4, <1>5 DEF Sound, Quiet

LEMMA LoseStep ==
  ASSUME Fixed, Shared, NEW p \in Publisher, Local(p), Lose(p)
  PROVE  Sound(p)
<1>1. Quiet /\ UNCHANGED <<leased, releases, active>> /\ UNCHANGED srv /\ Unread(p)
  BY DEF Lose, Quiet
<1>2. cli'[p] = Ended("failed", "OWA_CLI_NETWORK") /\ cli' = [cli EXCEPT ![p] = cli'[p]]
  BY <1>1, FailsMeans DEF Unread
<1>3. srv'[p] = srv[p] /\ srv' = [srv EXCEPT ![p] = srv'[p]]
  BY <1>1 DEF Shared
<1>4. "OWA_CLI_NETWORK" \in ClientCodes /\ "OWA_CLI_NETWORK" \notin Accused
  BY DEF ClientCodes, Accused
<1>5. Still(p, "OWA_CLI_NETWORK")
  BY <1>2, <1>3, Zenon DEF Still, Only
<1> QED BY <1>1, <1>4, <1>5, Harmless, StillIsSound, Zenon

LEMMA AtIsTyped ==
  ASSUME Fixed, NEW p \in Publisher, NEW pc \in ServerPCs, NEW g \in Grant \cup {None}
  PROVE  /\ At(pc, g) \in Handler /\ At(pc, g).i = 1 /\ At(pc, g).i \in DOMAIN Files(p)
         /\ At(pc, g).grant = g /\ At(pc, g).out = << >> /\ At(pc, g).pc = pc
<1>1. Idle \in Handler /\ Idle.i \in DOMAIN Files(p) /\ Idle.out = << >> /\ Idle.i = 1
  BY IdleIsTyped
<1> QED BY <1>1 DEF At, Handler

LEMMA RequestIsSound ==
  ASSUME Fixed, Shared, NEW p \in Publisher, Local(p), Quiet, Only(p),
         UNCHANGED <<leased, releases, active>>,
         NEW pc \in {"plan.body", "upload.body", "commit.body", "activate.save",
                     "releases.read"},
         NEW g \in Grant \cup {None}, pc = "upload.body" <=> g # None,
         srv'[p] = At(pc, g), cli'[p] \in Client, cli'[p].code = cli[p].code,
         cli[p].pc # "plan" \/ cli'[p] = cli[p], Paired(p)', ClientHolds(p)',
         pc = "commit.body" => DigestsOf(p) \subseteq leased,
         pc = "activate.save" =>
            job[p].cmd = "activate" /\ Permitted(p, Scope(p), {"activate"})
  PROVE  Sound(p)
<1>1. /\ srv'[p] \in Handler /\ srv'[p].i = 1 /\ srv'[p].i \in DOMAIN Files(p)
      /\ srv'[p].grant = g /\ srv'[p].out = << >> /\ srv'[p].pc = pc
  <2>1. pc \in ServerPCs
    BY DEF ServerPCs
  <2> QED BY <2>1, AtIsTyped
<1>2. /\ Files(p)' = Files(p) /\ DigestsOf(p)' = DigestsOf(p) /\ Scope(p)' = Scope(p)
      /\ job[p]' = job[p] /\ env' = env
  BY SameJob, Zenon DEF Quiet
<1>3. Typed(p)'
  BY <1>1, <1>2 DEF Typed
<1>4. DOMAIN srv'[p].out = {}
  BY <1>1
<1>5. Permitted(p, Scope(p), {"activate"}) => Permitted(p, Scope(p), {"activate"})'
  BY <1>2, Zenon DEF Permitted
<1>6. Authorized(p)'
  BY <1>1, <1>2, <1>4, <1>5 DEF Authorized, Checking
<1>7. HandlerHolds(p)'
  BY <1>1, <1>2, <1>4 DEF HandlerHolds, Planning, Checking
<1>8. /\ leased \subseteq leased' /\ leased' \subseteq Digest /\ UNCHANGED active
      /\ releases \subseteq releases' /\ releases' \subseteq Publisher /\ Blame(p)
  BY DEF Shared, Local
<1> QED BY <1>3, <1>6, <1>7, <1>8, MovedIsSound, Zenon

\* A request that its route has not refused, or an answer that has.
LEMMA SendIsSound ==
  ASSUME Fixed, Shared, NEW p \in Publisher, Local(p), Quiet,
         UNCHANGED <<leased, releases, active>>, NEW code, NEW c \in Client,
         NEW pc \in {"plan.body", "upload.body", "commit.body", "activate.save",
                     "releases.read"},
         NEW g \in Grant \cup {None}, pc = "upload.body" <=> g # None,
         Send(p, code, c, At(pc, g)), c.code = cli[p].code, cli[p].pc # "plan",
         c.pc = "sent" \/ Blameless(p, code, now),
         \/ c.pc = "plan" /\ pc = "plan.body"
         \/ c.pc = "sent" /\ pc = "upload.body"
         \/ c.pc = "commit" /\ pc = "commit.body"
         \/ c.pc = "asked" /\ pc \in {"activate.save", "releases.read"},
         \A k \in DOMAIN c.todo : Credible(c.todo[k]),
         c.pc \in {"sent", "commit"} => DigestsOf(p) \subseteq leased,
         c.pc = "sent" => \A d \in DigestsOf(p) : Covered(d, c.todo) \/ d = g.digest,
         c.pc = "commit" => \A d \in DigestsOf(p) : store[d] \in Whole,
         code = OK /\ pc = "activate.save" =>
            job[p].cmd = "activate" /\ Permitted(p, Scope(p), {"activate"})
  PROVE  Sound(p)
<1>1. CASE \E x \in Told(c.pc, code) : Still(p, x)
  <2>1. PICK x \in Told(c.pc, code) : Still(p, x)
    BY <1>1
  <2>2. x \in ClientCodes /\ Blameless(p, x, now)
    BY ToldIsText, ToldIsTrue, Zenon
  <2> QED BY <2>1, <2>2, StillIsSound
<1>2. CASE code = OK /\ Only(p) /\ srv'[p] = At(pc, g) /\ cli'[p] = c
  <2>1. pc \in ServerPCs
    BY DEF ServerPCs
  <2>2. At(pc, g).pc = pc /\ At(pc, g).grant = g
    BY <2>1, AtIsTyped
  <2>3. Paired(p)'
    BY <1>2, <2>2 DEF Paired, Planning, Checking
  <2>4. DigestsOf(p)' = DigestsOf(p) /\ leased' = leased /\ store' = store
    BY SameJob, Zenon DEF Quiet
  <2>5. ClientHolds(p)'
    <3>1. \A k \in DOMAIN cli'[p].todo : Credible(cli[p].todo[k])'
      BY <1>2, <2>4, Zenon DEF Credible
    <3>2. cli'[p].pc = "sent" =>
            \A d \in DigestsOf(p)' : Covered(d, cli[p].todo)' \/ d = srv'[p].grant.digest
      BY <1>2, <2>2, <2>4, Zenon DEF Covered
    <3>3. cli'[p].pc = "commit" => \A d \in DigestsOf(p)' : store'[d] \in Whole
      BY <1>2, <2>4, Zenon
    <3>4. /\ cli'[p].pc # "upload"
          /\ cli'[p].pc \in {"upload", "sent", "commit"} => DigestsOf(p)' \subseteq leased'
      BY <1>2, <2>4
    <3> QED BY <3>1, <3>2, <3>3, <3>4, Zenon DEF ClientHolds
  <2>6. pc = "commit.body" => DigestsOf(p) \subseteq leased
    OBVIOUS
  <2> QED BY <1>2, <2>3, <2>5, <2>6, RequestIsSound, Zenon
<1> QED BY <1>1, <1>2, SendMeans, Zenon

LEMMA StartStep ==
  ASSUME Fixed, Shared, NEW p \in Publisher, Local(p), Start(p)
  PROVE  Sound(p)
<1>1. /\ Quiet /\ UNCHANGED <<leased, releases, active>> /\ cli[p].pc = "start"
      /\ cli[p] \in Client /\ None \in Grant \cup {None}
      /\ \A k \in DOMAIN cli[p].todo : Credible(cli[p].todo[k])
  BY Zenon DEF Start, Quiet, Local, Typed, ClientHolds
<1>2. CASE Fails(p, "OWA_CLI_CONFIG") /\ UNCHANGED srv
  <2>1. cli'[p] = Ended("failed", "OWA_CLI_CONFIG") /\ cli' = [cli EXCEPT ![p] = cli'[p]]
    BY <1>2, FailsMeans
  <2>2. srv'[p] = srv[p] /\ srv' = [srv EXCEPT ![p] = srv'[p]]
    BY <1>2 DEF Shared
  <2>3. "OWA_CLI_CONFIG" \in ClientCodes /\ "OWA_CLI_CONFIG" \notin Accused
    BY DEF ClientCodes, Accused
  <2>4. Still(p, "OWA_CLI_CONFIG")
    BY <2>1, <2>2, Zenon DEF Still, Only
  <2> QED BY <1>1, <2>3, <2>4, Harmless, StillIsSound, Zenon
<1>3. PICK plan, asked : /\ plan = [cli[p] EXCEPT !.pc = "plan"]
                         /\ asked = [cli[p] EXCEPT !.pc = "asked"]
  OBVIOUS
<1>4. /\ plan \in Client /\ plan.pc = "plan" /\ plan.code = cli[p].code /\ plan.todo = cli[p].todo
      /\ asked \in Client /\ asked.pc = "asked" /\ asked.code = cli[p].code
      /\ asked.todo = cli[p].todo
  BY <1>1, <1>3 DEF Client, ClientPCs
<1>5. ASSUME NEW code, NEW c \in {plan, asked},
             NEW pc \in {"plan.body", "activate.save", "releases.read"},
             Send(p, code, c, At(pc, None)), Blameless(p, code, now),
             (c = plan /\ pc = "plan.body") \/ (c = asked /\ pc # "plan.body"),
             code = OK /\ pc = "activate.save" =>
                job[p].cmd = "activate" /\ Permitted(p, Scope(p), {"activate"})
      PROVE  Sound(p)
  <2>1. /\ c \in Client /\ c.pc \notin {"sent", "commit"} /\ c.code = cli[p].code
        /\ c.todo = cli[p].todo
    BY <1>4, <1>5
  <2>2. \A k \in DOMAIN c.todo : Credible(c.todo[k])
    BY <1>1, <2>1, Zenon
  <2>3. /\ pc \in {"plan.body", "upload.body", "commit.body", "activate.save", "releases.read"}
        /\ pc # "upload.body" /\ cli[p].pc # "plan"
    BY <1>1, <1>5
  <2>4. \/ c.pc = "plan" /\ pc = "plan.body"
        \/ c.pc = "sent" /\ pc = "upload.body"
        \/ c.pc = "commit" /\ pc = "commit.body"
        \/ c.pc = "asked" /\ pc \in {"activate.save", "releases.read"}
    BY <1>4, <1>5
  <2>5. c.pc # "sent" /\ c.pc # "commit"
    BY <2>1
  <2> QED BY <1>1, <1>5, <2>1, <2>2, <2>3, <2>4, <2>5, SendIsSound, Zenon
<1>6. CASE Send(p, Allowed(p, Scope(p), {"plan"}), plan, At("plan.body", None))
  BY <1>5, <1>6, RefusalIsTrue
<1>7. CASE /\ job[p].cmd = "activate"
           /\ Send(p, Allowed(p, Scope(p), {"activate"}), asked, At("activate.save", None))
  <2>1. Allowed(p, Scope(p), {"activate"}) = OK => Permitted(p, Scope(p), {"activate"})
    BY AllowedMeans, Zenon
  <2> QED BY <1>5, <1>7, <2>1, RefusalIsTrue
<1>8. CASE Send(p, Allowed(p, Scope(p), {"read"}), asked, At("releases.read", None))
  BY <1>5, <1>8, RefusalIsTrue
<1> QED BY <1>2, <1>3, <1>6, <1>7, <1>8 DEF Start

LEMMA SendCommitStep ==
  ASSUME Fixed, Shared, NEW p \in Publisher, Local(p), SendCommit(p)
  PROVE  Sound(p)
<1>1. /\ Quiet /\ UNCHANGED <<leased, releases, active>> /\ cli[p].pc = "upload"
      /\ cli[p].todo = << >> /\ cli[p] \in Client /\ None \in Grant \cup {None}
  BY Zenon DEF SendCommit, Quiet, Local, Typed
<1>2. /\ DigestsOf(p) \subseteq leased
      /\ \A d \in DigestsOf(p) : Covered(d, cli[p].todo)
  BY <1>1, Zenon DEF Local, ClientHolds
<1>3. DOMAIN cli[p].todo = {}
  BY <1>1
<1>4. \A d \in DigestsOf(p) : store[d] \in Whole
  BY <1>2, <1>3, Zenon DEF Covered
<1>5. PICK c : c = [cli[p] EXCEPT !.pc = "commit"]
  OBVIOUS
<1>6. c \in Client /\ c.pc = "commit" /\ c.code = cli[p].code /\ c.todo = cli[p].todo
  BY <1>1, <1>5 DEF Client, ClientPCs
<1>7. Send(p, Allowed(p, Scope(p), {"commit"}), c, At("commit.body", None))
  BY <1>5, Zenon DEF SendCommit
<1>8. Blameless(p, Allowed(p, Scope(p), {"commit"}), now)
  BY RefusalIsTrue
<1>9. \A k \in DOMAIN c.todo : Credible(c.todo[k])
  BY <1>3, <1>6, Zenon
<1>10. cli[p].pc # "plan" /\ c.pc # "sent"
  BY <1>1, <1>6
<1> QED BY <1>1, <1>2, <1>4, <1>6, <1>7, <1>8, <1>9, <1>10, SendIsSound

\* The queue of grants loses its first.
LEMMA HeadAndTail ==
  ASSUME NEW S, NEW q \in Seq(S), q # << >>
  PROVE  /\ Head(q) \in S /\ Tail(q) \in Seq(S)
         /\ \A k \in DOMAIN q : q[k] = Head(q) \/ \E j \in DOMAIN Tail(q) : q[k] = Tail(q)[j]
         /\ \A j \in DOMAIN Tail(q) : \E k \in DOMAIN q : Tail(q)[j] = q[k]
         /\ \E k \in DOMAIN q : Head(q) = q[k]
<1>1. Head(q) \in S /\ Tail(q) \in Seq(S) /\ Head(q) = q[1] /\ 1 \in DOMAIN q
  OBVIOUS
<1>2. /\ Len(q) \in Nat /\ DOMAIN q = 1 .. Len(q) /\ Len(Tail(q)) = Len(q) - 1
      /\ DOMAIN Tail(q) = 1 .. Len(Tail(q))
      /\ \A j \in 1 .. Len(q) - 1 : Tail(q)[j] = q[j + 1]
  OBVIOUS
<1>3. ASSUME NEW k \in DOMAIN q, k # 1
      PROVE  \E j \in DOMAIN Tail(q) : q[k] = Tail(q)[j]
  <2>1. k - 1 \in DOMAIN Tail(q) /\ k - 1 \in 1 .. Len(q) - 1 /\ (k - 1) + 1 = k
    BY <1>2, <1>3
  <2> QED BY <1>2, <2>1
<1>4. ASSUME NEW j \in DOMAIN Tail(q)
      PROVE  \E k \in DOMAIN q : Tail(q)[j] = q[k]
  <2>1. j + 1 \in DOMAIN q /\ j \in 1 .. Len(q) - 1
    BY <1>2, <1>4
  <2> QED BY <1>2, <2>1
<1> QED BY <1>1, <1>3, <1>4

LEMMA NextGrant ==
  ASSUME Fixed, NEW p \in Publisher, Local(p), cli[p].pc = "upload", cli[p].todo # << >>
  PROVE  LET g == Head(cli[p].todo) IN
         /\ g \in Grant /\ g.digest \in Digest /\ Credible(g)
         /\ Tail(cli[p].todo) \in Seq(Grant)
         /\ \A k \in DOMAIN Tail(cli[p].todo) : Credible(Tail(cli[p].todo)[k])
         /\ \A d \in DigestsOf(p) : Covered(d, Tail(cli[p].todo)) \/ d = g.digest
         /\ DigestsOf(p) \subseteq leased
<1> DEFINE q == cli[p].todo
           g == Head(q)
<1>1. q \in Seq(Grant) /\ q # << >>
  BY TypedGrants, Zenon DEF Local
<1>2. /\ \A k \in DOMAIN q : Credible(q[k])
      /\ \A d \in DigestsOf(p) : Covered(d, q)
  BY Zenon DEF Local, ClientHolds
<1>3. DigestsOf(p) \subseteq leased
  BY Zenon DEF Local, ClientHolds
<1> HIDE DEF q
<1>4. /\ g \in Grant /\ Tail(q) \in Seq(Grant)
      /\ \A k \in DOMAIN q : q[k] = g \/ \E j \in DOMAIN Tail(q) : q[k] = Tail(q)[j]
      /\ \A j \in DOMAIN Tail(q) : \E k \in DOMAIN q : Tail(q)[j] = q[k]
      /\ \E k \in DOMAIN q : g = q[k]
  BY <1>1, HeadAndTail
<1> HIDE DEF g
<1>5. g.digest \in Digest
  BY <1>4 DEF Grant
<1>6. Credible(g) /\ \A j \in DOMAIN Tail(q) : Credible(Tail(q)[j])
  BY <1>2, <1>4, Zenon
<1>7. ASSUME NEW d \in DigestsOf(p)
      PROVE  Covered(d, Tail(q)) \/ d = g.digest
  <2>1. CASE store[d] \in Whole
    BY <2>1, Zenon DEF Covered
  <2>2. CASE store[d] \notin Whole
    <3>1. PICK k \in DOMAIN q : q[k].digest = d
      BY <1>2, <2>2, Zenon DEF Covered
    <3>2. CASE q[k] = g
      BY <3>1, <3>2
    <3>3. ASSUME NEW j \in DOMAIN Tail(q), q[k] = Tail(q)[j]
          PROVE  Covered(d, Tail(q))
      BY <3>1, <3>3, Zenon DEF Covered
    <3> QED BY <1>4, <3>2, <3>3, Zenon
  <2> QED BY <2>1, <2>2
<1> QED BY <1>3, <1>4, <1>5, <1>6, <1>7, Zenon DEF g, q

LEMMA SendUploadStep ==
  ASSUME Fixed, Shared, NEW p \in Publisher, Local(p), SendUpload(p)
  PROVE  Sound(p)
<1>1. /\ Quiet /\ UNCHANGED <<leased, releases, active>> /\ cli[p].pc = "upload"
      /\ cli[p].todo # << >> /\ cli[p] \in Client
  BY Zenon DEF SendUpload, Quiet, Local, Typed
<1>2. PICK g : g = Head(cli[p].todo)
  OBVIOUS
<1>3. PICK c : c = [cli[p] EXCEPT !.pc = "sent", !.todo = Tail(@)]
  OBVIOUS
<1>4. /\ g \in Grant /\ Tail(cli[p].todo) \in Seq(Grant)
      /\ \A k \in DOMAIN Tail(cli[p].todo) : Credible(Tail(cli[p].todo)[k])
      /\ \A d \in DigestsOf(p) : Covered(d, Tail(cli[p].todo)) \/ d = g.digest
      /\ DigestsOf(p) \subseteq leased
  BY <1>1, <1>2, NextGrant, Zenon
<1>5. /\ c \in Client /\ c.pc = "sent" /\ c.code = cli[p].code
      /\ c.todo = Tail(cli[p].todo)
  BY <1>1, <1>3, <1>4 DEF Client, ClientPCs
<1>6. Send(p, UploadOpens(p, g), c, At("upload.body", g))
  BY <1>2, <1>3, Zenon DEF SendUpload
<1>7. /\ \A k \in DOMAIN c.todo : Credible(c.todo[k])
      /\ \A d \in DigestsOf(p) : Covered(d, c.todo) \/ d = g.digest
  BY <1>4, <1>5, Zenon
<1>8. g # None
  BY <1>4, Jobs, Zenon
<1>9. PICK pc : pc = "upload.body"
  OBVIOUS
<1>10. /\ pc \in {"plan.body", "upload.body", "commit.body", "activate.save", "releases.read"}
       /\ pc # "activate.save" /\ c.pc # "commit" /\ c.pc # "plan" /\ c.pc # "asked"
       /\ cli[p].pc # "plan" /\ g \in Grant \cup {None}
       /\ Send(p, UploadOpens(p, g), c, At(pc, g))
  BY <1>1, <1>4, <1>5, <1>6, <1>9
<1> QED BY <1>1, <1>4, <1>5, <1>7, <1>8, <1>9, <1>10, SendIsSound, Zenon

\* What a presigned PUT does to the key, and what its answer says of it.
LEMMA DirectPutMeans ==
  ASSUME Fixed, Shared, DirectUploads, NEW g \in Grant, NEW body \in {"whole", "damaged"},
         DirectPut(g, body)
  PROVE  /\ store' = [store EXCEPT ![g.digest] = "proven"] \/ UNCHANGED store
         /\ Uploaded(g, PutStatus(g, body)) /\ Credible(g) => store'[g.digest] \in Whole
<1>1. env.enforcing /\ g.digest \in Digest /\ store \in [Digest -> Contents]
  BY Jobs DEF DirectUploads, Grant, Shared
<1>2. store' = [store EXCEPT ![g.digest] = PutLeaves(g, body)]
  BY DEF DirectPut
<1>3. PICK status : status = PutStatus(g, body)
  OBVIOUS
<1>4. /\ status \in {200, 400, 403, 412}
      /\ status = 200 => body = "whole"
      /\ status = 412 => store[g.digest] # "absent"
  BY <1>1, <1>3 DEF PutStatus
<1>5. CASE status = 200
  <2>1. PutLeaves(g, body) = "proven"
    BY <1>3, <1>4, <1>5 DEF PutLeaves
  <2>2. store' = [store EXCEPT ![g.digest] = "proven"]
    BY <1>2, <2>1
  <2>3. store'[g.digest] \in Whole
    BY <1>1, <2>2 DEF Whole
  <2> QED BY <2>2, <2>3
<1>6. CASE status # 200
  <2>1. PutLeaves(g, body) = store[g.digest]
    BY <1>3, <1>6 DEF PutLeaves
  <2>2. store' = store
    BY <1>1, <1>2, <2>1
  <2>3. ASSUME Uploaded(g, status), Credible(g)
        PROVE  store[g.digest] \in Whole
    <3>1. status = 412 /\ g.once
      BY <1>6, <2>3 DEF Uploaded
    <3>2. store[g.digest] \in Whole \cup {"absent"}
      BY <2>3, <3>1, Zenon DEF Credible
    <3> QED BY <1>4, <3>1, <3>2
  <2> QED BY <1>3, <2>2, <2>3, Zenon
<1> QED BY <1>5, <1>6

\* The client's next grant is spent and what it was for is there.
LEMMA NextIsSound ==
  ASSUME Fixed, Shared, Steady, Shared', NEW p \in Publisher, Local(p), srv'[p] = srv[p],
         cli[p].pc = "upload", cli[p].todo # << >>,
         cli'[p] = [cli[p] EXCEPT !.todo = Tail(@)],
         store'[Head(cli[p].todo).digest] \in Whole
  PROVE  Local(p)'
<1>1. PICK rest : rest = Tail(cli[p].todo)
  OBVIOUS
<1>2. /\ rest \in Seq(Grant) /\ \A k \in DOMAIN rest : Credible(rest[k])
      /\ \A d \in DigestsOf(p) : Covered(d, rest) \/ store'[d] \in Whole
      /\ DigestsOf(p) \subseteq leased
  BY <1>1, NextGrant, Zenon
<1>3. cli[p] \in Client
  BY DEF Local, Typed
<1>4. /\ cli'[p] \in Client /\ cli'[p].pc = "upload" /\ cli'[p].todo = rest
      /\ cli'[p].code = cli[p].code
  BY <1>1, <1>2, <1>3 DEF Client
<1>5. Files(p)' = Files(p) /\ DigestsOf(p)' = DigestsOf(p)
  BY SameJob, Zenon DEF Steady
<1>6. Typed(p)' /\ Paired(p)'
  BY <1>4, <1>5 DEF Local, Typed, Paired, Handler, Client
<1>7. Authorized(p)' /\ HandlerHolds(p)'
  BY AuthorizedFrame, HandlerFrame, Zenon DEF Local
<1>8. ASSUME NEW d \in DigestsOf(p) PROVE Covered(d, rest)'
  BY <1>2, GoodStays, Zenon DEF Covered
<1>9. ASSUME NEW k \in DOMAIN rest PROVE Credible(rest[k])'
  <2>1. rest[k] \in Grant /\ Credible(rest[k])
    <3>1. ASSUME NEW s \in Seq(Grant), NEW i \in DOMAIN s PROVE s[i] \in Grant
      OBVIOUS
    <3> QED BY <1>2, <3>1, Zenon
  <2> QED BY <2>1, CredibleStays, Zenon DEF Steady
<1>10. ClientHolds(p)'
  <2>1. /\ \A d \in DigestsOf(p)' : Covered(d, cli[p].todo)'
        /\ \A k \in DOMAIN cli'[p].todo : Credible(cli[p].todo[k])'
    BY <1>4, <1>5, <1>8, <1>9, Zenon DEF Covered, Credible
  <2>2. DigestsOf(p)' \subseteq leased'
    BY <1>2, <1>5, Zenon DEF Steady
  <2> QED BY <1>4, <2>1, <2>2 DEF ClientHolds
<1>11. Blame(p)'
  BY <1>4, BlameStays, Zenon DEF Local
<1> QED BY <1>6, <1>7, <1>10, <1>11, Zenon DEF Local

LEMMA PutDirectStep ==
  ASSUME Fixed, Shared, NEW p \in Publisher, Local(p), PutDirect(p)
  PROVE  Sound(p)
<1>1. /\ DirectUploads /\ cli[p].pc = "upload" /\ cli[p].todo # << >>
      /\ UNCHANGED <<now, fixed, srv, leased, issued, releases, active>>
  BY DEF PutDirect
<1>2. PICK g : g = Head(cli[p].todo)
  OBVIOUS
<1>3. g \in Grant /\ g.digest \in Digest /\ Credible(g)
  BY <1>1, <1>2, NextGrant, Zenon
<1>4. PICK body \in {"whole", "damaged"} :
        /\ DirectPut(g, body)
        /\ \/ Unread(p)
           \/ IF Uploaded(g, PutStatus(g, body))
              THEN cli' = [cli EXCEPT ![p].todo = Tail(@)]
              ELSE Fails(p, "OWA_CLI_UPLOAD")
  BY <1>2, Zenon DEF PutDirect
<1>5. /\ store' = [store EXCEPT ![g.digest] = "proven"] \/ UNCHANGED store
      /\ Uploaded(g, PutStatus(g, body)) => store'[g.digest] \in Whole
  BY <1>1, <1>3, <1>4, DirectPutMeans, Zenon
<1>6. srv'[p] = srv[p] /\ srv' = [srv EXCEPT ![p] = srv'[p]]
  BY <1>1 DEF Shared
<1>7. CASE \E x \in {"OWA_CLI_NETWORK", "OWA_CLI_UPLOAD"} : Fails(p, x)
  <2>1. PICK x \in {"OWA_CLI_NETWORK", "OWA_CLI_UPLOAD"} : Fails(p, x)
    BY <1>7
  <2>2. cli'[p] = Ended("failed", x) /\ cli' = [cli EXCEPT ![p] = cli'[p]]
    BY <2>1, FailsMeans
  <2>3. x \in ClientCodes /\ x \notin Accused
    BY DEF ClientCodes, Accused
  <2>4. Only(p)
    BY <1>6, <2>2, Zenon DEF Only
  <2>5. Shared' /\ Steady
    BY <1>1, <1>3, <1>5, <2>4, StorePut
  <2>6. Local(p)'
    BY <1>6, <2>2, <2>3, <2>5, Harmless, GivenUpIsLocal, Zenon
  <2> QED BY <1>1, <2>4, <2>5, <2>6 DEF Sound
<1>8. CASE /\ Uploaded(g, PutStatus(g, body))
           /\ cli' = [cli EXCEPT ![p].todo = Tail(@)]
  <2>1. cli'[p] = [cli[p] EXCEPT !.todo = Tail(@)] /\ cli' = [cli EXCEPT ![p] = cli'[p]]
    BY <1>8 DEF Shared
  <2>2. Only(p)
    BY <1>6, <2>1, Zenon DEF Only
  <2>3. Shared' /\ Steady
    BY <1>1, <1>3, <1>5, <2>2, StorePut
  <2>4. Local(p)'
    BY <1>1, <1>2, <1>5, <1>6, <1>8, <2>1, <2>3, NextIsSound
  <2> QED BY <1>1, <2>2, <2>3, <2>4 DEF Sound
<1> QED BY <1>4, <1>7, <1>8 DEF Unread

LEMMA ResendStep ==
  ASSUME Fixed, Shared, NEW p \in Publisher, Local(p), Resend(p)
  PROVE  Sound(p)
<1>1. /\ cli[p].pc \in {"done", "failed"}
      /\ UNCHANGED <<now, fixed, cli, leased, issued, releases, active>>
  BY DEF Resend
<1>2. PICK g \in issued :
        IF DirectUploads
        THEN UNCHANGED srv /\ \E body \in {"whole", "damaged"} : DirectPut(g, body)
        ELSE /\ srv' = [srv EXCEPT ![p] = At("upload.body", g)]
             /\ UNCHANGED store
  BY DEF Resend
<1>3. g \in Grant /\ g.digest \in Digest /\ g # None
  <2>1. g \in Grant
    BY DEF Shared
  <2> QED BY <2>1, Jobs DEF Grant
<1>4. cli'[p] = cli[p] /\ cli' = [cli EXCEPT ![p] = cli'[p]]
  BY <1>1 DEF Shared
<1>5. CASE DirectUploads
  <2>1. store' = [store EXCEPT ![g.digest] = "proven"] \/ UNCHANGED store
    BY <1>2, <1>3, <1>5, DirectPutMeans, Zenon
  <2>2. srv'[p] = srv[p] /\ srv' = [srv EXCEPT ![p] = srv'[p]]
    BY <1>2, <1>5 DEF Shared
  <2>3. Only(p)
    BY <1>4, <2>2, Zenon DEF Only
  <2>4. Shared' /\ Steady
    BY <1>1, <1>3, <2>1, <2>3, StorePut
  <2>5. Local(p)'
    BY <1>4, <2>2, <2>4, LocalFrame, Zenon
  <2> QED BY <1>1, <1>4, <2>3, <2>4, <2>5 DEF Sound
<1>6. CASE ~DirectUploads
  <2>1. Quiet /\ UNCHANGED <<leased, releases, active>>
    BY <1>1, <1>2, <1>6 DEF Quiet
  <2>2. srv'[p] = At("upload.body", g) /\ srv' = [srv EXCEPT ![p] = srv'[p]]
    BY <1>2, <1>6 DEF Shared
  <2>3. Only(p)
    BY <1>4, <2>2, Zenon DEF Only
  <2>4. Steady
    BY <2>1, QuietIsSteady DEF Quiet
  <2>5. /\ cli'[p] \in Client /\ cli[p].pc # "plan" /\ cli[p].pc # "sent"
        /\ cli'[p].code = cli[p].code
    BY <1>1, <1>4 DEF Local, Typed
  <2>6. Paired(p)'
    BY <1>1, <1>4 DEF Paired
  <2>7. ClientHolds(p)'
    BY <1>4, <2>4, <2>5, ClientFrame, Zenon DEF Local
  <2>8. PICK pc : pc = "upload.body"
    OBVIOUS
  <2>9. /\ pc \in {"plan.body", "upload.body", "commit.body", "activate.save", "releases.read"}
        /\ pc # "commit.body" /\ pc # "activate.save" /\ g \in Grant \cup {None}
        /\ srv'[p] = At(pc, g)
    BY <1>3, <2>2, <2>8
  <2> QED BY <1>3, <2>1, <2>3, <2>5, <2>6, <2>7, <2>8, <2>9, RequestIsSound, Zenon
<1> QED BY <1>5, <1>6

(***************************************************************************)
(* The environment                                                         *)
(***************************************************************************)
LEMMA TickStep ==
  ASSUME Fixed, Shared, Tick
  PROVE  Shared' /\ Steady
<1>1. MaxTime \in Nat
  BY Jobs
<1>2. now' \in 0 .. MaxTime /\ now' >= now
  BY <1>1 DEF Tick, Shared
<1>3. Shared'
  BY <1>2 DEF Tick, Shared, fixed
<1>4. StoreStep
  BY DEF Tick, StoreStep
<1> QED BY <1>2, <1>3, <1>4 DEF Tick, Steady

LEMMA SweepStep ==
  ASSUME Fixed, Shared, NEW d \in Digest, Sweep(d)
  PROVE  Shared' /\ Steady
<1>1. store \in [Digest -> Contents] /\ "absent" \in Contents
  BY DEF Shared, Contents
<1>2. /\ store' \in [Digest -> Contents]
      /\ \A e \in Digest : store'[e] = store[e] \/ (store'[e] = "absent" /\ e \notin leased)
  BY <1>1 DEF Sweep
<1>3. UNCHANGED <<now, fixed, cli, srv, leased, issued, releases, active>>
  BY DEF Sweep
<1>4. Shared'
  BY <1>2, <1>3 DEF Shared, fixed
<1>5. now' >= now
  BY <1>3, Jobs DEF Shared
<1> QED BY <1>2, <1>3, <1>4, <1>5 DEF Steady, StoreStep

(***************************************************************************)
(* Releases and pointers                                                   *)
(***************************************************************************)
Filed(p) == /\ DigestsOf(p) \subseteq leased /\ ~Conflicting(p)
            /\ \A d \in DigestsOf(p) : Good(p, d)
            /\ Permitted(p, Scope(p), {"commit"})

Moves(p, s, r) == /\ Scope(p) = s /\ Permitted(p, s, {"activate"})
                  /\ \/ Activates(p) /\ p = r
                     \/ job[p].cmd = "activate" /\ job[p].release = r

Pointed(s, r) == r # None => /\ r \in releases /\ Scope(r) = s
                             /\ \E p \in Publisher : Moves(p, s, r)

\* What p does.
Act(p) == \/ Start(p) \/ SendUpload(p) \/ PutDirect(p) \/ SendCommit(p)
          \/ Lose(p) \/ Resend(p)
          \/ PlanBody(p) \/ PlanHas(p) \/ PlanHead(p) \/ PlanGet(p)
          \/ UploadBody(p) \/ UploadPut(p)
          \/ CommitBody(p) \/ CommitHead(p) \/ CommitGet(p)
          \/ CommitSave(p) \/ CommitPoint(p) \/ ActivateSave(p) \/ ReadReleases(p)
          \/ ProviderFails(p)

LEMMA ActIsSound ==
  ASSUME Fixed, Shared, NEW p \in Publisher, Local(p), Act(p)
  PROVE  Sound(p)
<1>1. CASE Start(p) \/ SendUpload(p) \/ PutDirect(p) \/ SendCommit(p) \/ Lose(p) \/ Resend(p)
  BY <1>1, StartStep, SendUploadStep, PutDirectStep, SendCommitStep, LoseStep, ResendStep, Zenon
<1>2. CASE \/ PlanBody(p) \/ PlanHas(p) \/ PlanHead(p) \/ PlanGet(p)
           \/ UploadBody(p) \/ UploadPut(p)
  BY <1>2, PlanBodyStep, PlanStep, UploadBodyStep, UploadPutStep, Zenon
<1>3. CASE CommitBody(p) \/ CommitHead(p) \/ CommitGet(p) \/ CommitSave(p) \/ CommitPoint(p)
  BY <1>3, CommitBodyStep, CommitVerdictStep, CommitSaveStep, CommitPointStep, Zenon
<1>4. CASE ActivateSave(p) \/ ReadReleases(p) \/ ProviderFails(p)
  BY <1>4, ActivateSaveStep, ReadReleasesStep, ProviderFailsStep, Zenon
<1> QED BY <1>1, <1>2, <1>3, <1>4, Zenon DEF Act

\* Only a commit files a release, and only a commit or an activation moves a
\* site's pointer.
LEMMA ActFiles ==
  ASSUME NEW p \in Publisher, Act(p)
  PROVE  /\ \/ UNCHANGED releases
            \/ releases' = releases \cup {p} /\ srv[p].pc = "commit.save"
         /\ \/ UNCHANGED active
            \/ srv[p].pc = "commit.point" /\ active' = [active EXCEPT ![Scope(p)] = p]
            \/ /\ srv[p].pc = "activate.save" /\ job[p].release \in releases
               /\ Scope(job[p].release) = Scope(p)
               /\ active' = [active EXCEPT ![Scope(p)] = job[p].release]
<1>1. CASE CommitSave(p)
  BY <1>1 DEF CommitSave
<1>2. CASE CommitPoint(p)
  BY <1>2 DEF CommitPoint
<1>3. CASE ActivateSave(p)
  BY <1>3, Zenon DEF ActivateSave
<1>4. CASE Start(p) \/ SendUpload(p) \/ PutDirect(p) \/ SendCommit(p) \/ Lose(p) \/ Resend(p)
  BY <1>4 DEF Start, SendUpload, PutDirect, SendCommit, Lose, Resend
<1>5. CASE \/ PlanBody(p) \/ PlanHas(p) \/ PlanHead(p) \/ PlanGet(p)
           \/ UploadBody(p) \/ UploadPut(p)
  BY <1>5, Zenon DEF PlanBody, PlanHas, PlanHead, PlanGet, UploadBody, UploadPut
<1>6. CASE \/ CommitBody(p) \/ CommitHead(p) \/ CommitGet(p) \/ ReadReleases(p)
           \/ ProviderFails(p)
  BY <1>6 DEF CommitBody, CommitHead, CommitGet, ReadReleases, ProviderFails
<1> QED BY <1>1, <1>2, <1>3, <1>4, <1>5, <1>6, Zenon DEF Act

LEMMA FiledStays ==
  ASSUME Fixed, Shared, Steady, NEW p \in Publisher, Filed(p)
  PROVE  Filed(p)'
<1>1. /\ DigestsOf(p)' = DigestsOf(p) /\ (Conflicting(p)' <=> Conflicting(p))
      /\ Scope(p)' = Scope(p) /\ UNCHANGED fixed /\ leased \subseteq leased'
  BY SameJob, Zenon DEF Steady
<1>2. DigestsOf(p) \subseteq leased /\ \A d \in DigestsOf(p) : Good(p, d)
  BY Zenon DEF Filed
<1>3. \A d \in DigestsOf(p) : Good(p, d)'
  BY <1>2, GoodStays, Zenon
<1>4. Permitted(p, Scope(p), {"commit"})'
  <2>1. Permitted(p, Scope(p), {"commit"})
    BY Zenon DEF Filed
  <2>2. env' = env /\ job' = job
    BY <1>1 DEF fixed
  <2> QED BY <1>1, <2>1, <2>2, Zenon DEF Permitted
<1>5. DigestsOf(p)' \subseteq leased' /\ ~Conflicting(p)'
  BY <1>1, Zenon DEF Filed
<1>6. \A d \in DigestsOf(p)' : Good(p, d)'
  BY <1>1, <1>3, Zenon
<1> QED BY <1>4, <1>5, <1>6, Zenon DEF Filed

LEMMA FiledNow ==
  ASSUME Fixed, Shared, NEW p \in Publisher, Local(p), srv[p].pc = "commit.save"
  PROVE  Filed(p)
<1>1. /\ srv[p].pc \in Checking
      /\ srv[p].pc \in Planning \cup {"commit.body"} \cup Checking
      /\ srv[p].pc \in {"commit.save", "commit.point"}
  BY DEF Checking
<1>2. /\ DigestsOf(p) \subseteq leased /\ ~Conflicting(p)
      /\ \A d \in DigestsOf(p) : Good(p, d)
  BY <1>1, Zenon DEF Local, HandlerHolds
<1>3. Permitted(p, Scope(p), CommitNeeds(p))
  BY <1>1, Zenon DEF Local, Authorized
<1>4. {"commit"} \in SUBSET CommitNeeds(p)
  BY DEF CommitNeeds
<1>5. Permitted(p, Scope(p), {"commit"})
  BY <1>3, <1>4, PermittedFewer, Zenon
<1> QED BY <1>2, <1>5, Zenon DEF Filed

LEMMA PointedStays ==
  ASSUME Steady, NEW s, NEW r, Pointed(s, r)
  PROVE  r # None => /\ r \in releases' /\ Scope(r)' = s
                     /\ \E p \in Publisher : Moves(p, s, r)'
<1>1. env' = env /\ job' = job /\ releases \subseteq releases'
  BY DEF Steady, fixed
<1> QED BY <1>1, Zenon DEF Pointed, Moves, Scope, Permitted, Activates

(***************************************************************************)
(* The induction                                                           *)
(***************************************************************************)
IInv == /\ Fixed /\ Shared
        /\ \A p \in Publisher : Local(p)
        /\ \A g \in issued : Backed(g.by, g)
        /\ \A p \in releases : Filed(p)
        /\ \A s \in Site : Pointed(s, active[s])

LEMMA InitIsShared ==
  ASSUME Init
  PROVE  Fixed /\ Shared
<1>1. PICK s \in Scenarios : env = s.env /\ job = s.job /\ store = s.store
  BY DEF Init
<1>2. Fixed
  BY <1>1 DEF Fixed
<1>3. store \in [Digest -> Contents] /\ MaxTime \in Nat
  BY <1>1, JobsAreWellFormed DEF JobsAreWellFormed
<1>4. env.enforcing => \A d \in Digest : store[d] # "claimed"
  BY <1>1, OperatorKeepsContract DEF OperatorKeepsContract
<1>5. now \in 0 .. MaxTime
  BY <1>3 DEF Init
<1>6. /\ cli = [p \in Publisher |-> cli[p]] /\ srv = [p \in Publisher |-> srv[p]]
      /\ leased = {} /\ issued = {} /\ releases = {}
      /\ active \in [Site -> Publisher \cup {None}]
  BY DEF Init
<1> QED BY <1>2, <1>3, <1>4, <1>5, <1>6 DEF Shared

LEMMA InitIsLocal ==
  ASSUME Init, NEW p \in Publisher
  PROVE  Local(p)
<1>1. Fixed
  BY InitIsShared
<1>2. /\ srv[p] = Idle /\ cli[p].pc = "start" /\ cli[p].todo = << >> /\ cli[p].code = OK
      /\ cli[p] = [pc |-> "start", todo |-> << >>, code |-> OK]
  BY DEF Init
<1>3. /\ Idle \in Handler /\ Idle.i \in DOMAIN Files(p) /\ Idle.grant = None
      /\ Idle.out = << >> /\ Idle.pc = "idle"
  BY <1>1, IdleIsTyped
<1>4. DOMAIN srv[p].out = {} /\ DOMAIN cli[p].todo = {}
  BY <1>2, <1>3
<1>5. cli[p] \in Client
  <2>1. << >> \in Seq(Grant) /\ OK \in ClientCodes
    BY DEF ClientCodes
  <2> QED BY <1>2, <2>1 DEF Client, ClientPCs
<1>6. Typed(p)
  BY <1>2, <1>3, <1>5 DEF Typed
<1>7. Paired(p)
  BY <1>2, <1>3 DEF Paired
<1>8. Authorized(p)
  BY <1>2, <1>3, <1>4 DEF Authorized, Checking
<1>9. HandlerHolds(p)
  BY <1>2, <1>3, <1>4 DEF HandlerHolds, Planning, Checking
<1>10. ClientHolds(p)
  BY <1>2, <1>4 DEF ClientHolds
<1>11. Blame(p)
  <2>1. cli[p].code \notin Accused
    BY <1>2 DEF Accused, OK
  <2> QED BY <2>1, Harmless, Zenon DEF Blame
<1> QED BY <1>6, <1>7, <1>8, <1>9, <1>10, <1>11, Zenon DEF Local

LEMMA Starts == Init => IInv
<1>1. ASSUME Init PROVE IInv
  <2>1. Fixed /\ Shared /\ \A p \in Publisher : Local(p)
    BY <1>1, InitIsShared, InitIsLocal, Zenon
  <2>2. issued = {} /\ releases = {}
    BY <1>1 DEF Init
  <2>3. \A s \in Site : Pointed(s, active[s])
    <3>1. \A s \in Site : active[s] = None
      BY <1>1 DEF Init
    <3> QED BY <3>1, Zenon DEF Pointed
  <2> QED BY <2>1, <2>2, <2>3 DEF IInv
<1> QED BY <1>1

\* The word behind what is issued, filed and pointed to stays good.
LEMMA IssuedStays ==
  ASSUME UNCHANGED fixed, NEW g, Backed(g.by, g)
  PROVE  Backed(g.by, g)'
<1>1. env' = env /\ job' = job
  BY DEF fixed
<1> QED BY <1>1, Zenon DEF Backed, Permitted, InForce

\* A step of nobody.
LEMMA CarriesOver ==
  ASSUME IInv, Shared', Steady, UNCHANGED <<cli, srv, issued, releases, active>>
  PROVE  IInv'
<1>1. Fixed /\ Shared /\ UNCHANGED fixed
  BY Zenon DEF IInv, Steady
<1>2. Fixed'
  BY <1>1, Zenon DEF Fixed, fixed
<1>3. ASSUME NEW p \in Publisher PROVE Local(p)'
  <2>1. Local(p) /\ srv'[p] = srv[p] /\ cli'[p] = cli[p]
    BY Zenon DEF IInv
  <2> QED BY <1>1, <2>1, LocalFrame, Zenon
<1>4. ASSUME NEW g \in issued' PROVE Backed(g.by, g)'
  <2>1. Backed(g.by, g)
    BY Zenon DEF IInv
  <2> QED BY <1>1, <2>1, IssuedStays, Zenon
<1>5. ASSUME NEW p \in releases' PROVE Filed(p)'
  <2>1. Filed(p) /\ p \in Publisher
    BY Zenon DEF IInv, Shared
  <2> QED BY <1>1, <2>1, FiledStays, Zenon
<1>6. ASSUME NEW s \in Site PROVE Pointed(s, active[s])'
  <2>1. PICK r : r = active[s]
    OBVIOUS
  <2>2. Pointed(s, r) /\ active'[s] = r
    BY <2>1, Zenon DEF IInv
  <2>3. r # None => /\ r \in releases' /\ Scope(r)' = s
                    /\ \E p \in Publisher : Moves(p, s, r)'
    BY <2>2, PointedStays, Zenon
  <2> QED BY <2>2, <2>3, Zenon DEF Pointed, Moves, Scope
<1> QED BY <1>2, <1>3, <1>4, <1>5, <1>6 DEF IInv

LEMMA ActKeeps ==
  ASSUME IInv, NEW p \in Publisher, Act(p)
  PROVE  IInv' /\ Steady /\ Sound(p)
<1>1. Fixed /\ Shared /\ Local(p)
  BY Zenon DEF IInv
<1>2. Sound(p)
  BY <1>1, ActIsSound, Zenon
<1>3. Shared' /\ Steady /\ Only(p) /\ Local(p)' /\ UNCHANGED fixed
  BY <1>2, Zenon DEF Sound, Steady
<1>4. Fixed'
  BY <1>1, <1>3, Zenon DEF Fixed, fixed
<1>5. ASSUME NEW q \in Publisher PROVE Local(q)'
  <2>1. CASE q = p
    BY <1>3, <2>1
  <2>2. CASE q # p
    <3>1. srv'[q] = srv[q] /\ cli'[q] = cli[q]
      BY <1>1, <1>3, <2>2, OnlyOne
    <3>2. Local(q)
      BY Zenon DEF IInv
    <3> QED BY <1>1, <1>3, <3>1, <3>2, LocalFrame, Zenon
  <2> QED BY <2>1, <2>2
<1>6. ASSUME NEW g \in issued' PROVE Backed(g.by, g)'
  <2>1. Backed(g.by, g)
    <3>1. CASE g \in issued
      BY <3>1, Zenon DEF IInv
    <3>2. CASE Backed(p, g)
      BY <3>2, Zenon DEF Backed
    <3> QED BY <1>2, <3>1, <3>2, Zenon DEF Sound
  <2> QED BY <1>3, <2>1, IssuedStays, Zenon
<1>7. ASSUME NEW q \in releases' PROVE Filed(q)'
  <2>1. Filed(q) /\ q \in Publisher
    <3>1. CASE q \in releases
      BY <3>1, Zenon DEF IInv, Shared
    <3>2. CASE q \notin releases
      <4>1. q = p /\ srv[p].pc = "commit.save"
        BY <3>2, ActFiles
      <4> QED BY <1>1, <4>1, FiledNow, Zenon
    <3> QED BY <3>1, <3>2
  <2> QED BY <1>1, <1>3, <2>1, FiledStays, Zenon
<1>8. ASSUME NEW s \in Site PROVE Pointed(s, active[s])'
  <2>1. Pointed(s, active'[s])
    <3>1. active \in [Site -> Publisher \cup {None}] /\ Pointed(s, active[s])
      BY Zenon DEF IInv, Shared
    <3>2. CASE active'[s] = active[s]
      BY <3>1, <3>2, Zenon
    <3>3. CASE active'[s] # active[s]
      <4>1. CASE srv[p].pc = "commit.point" /\ active' = [active EXCEPT ![Scope(p)] = p]
        <5>1. s = Scope(p) /\ active'[s] = p
          BY <3>1, <3>3, <4>1
        <5>2. /\ srv[p].pc \in Checking /\ p \in releases /\ Activates(p)
              /\ Permitted(p, Scope(p), CommitNeeds(p))
          <6>1. srv[p].pc \in Checking
            BY <4>1 DEF Checking
          <6> QED BY <1>1, <4>1, <6>1, Zenon DEF Local, Authorized
        <5>3. Permitted(p, Scope(p), {"activate"})
          <6>1. {"activate"} \in SUBSET CommitNeeds(p)
            BY <5>2 DEF CommitNeeds
          <6> QED BY <5>2, <6>1, PermittedFewer, Zenon
        <5>4. Moves(p, s, p)
          BY <5>1, <5>2, <5>3, Zenon DEF Moves
        <5> QED BY <5>1, <5>2, <5>4, Zenon DEF Pointed
      <4>2. CASE /\ srv[p].pc = "activate.save" /\ job[p].release \in releases
                 /\ Scope(job[p].release) = Scope(p)
                 /\ active' = [active EXCEPT ![Scope(p)] = job[p].release]
        <5>1. PICK r : r = job[p].release
          OBVIOUS
        <5>2. s = Scope(p) /\ active'[s] = r /\ r \in releases /\ Scope(r) = s
          BY <3>1, <3>3, <4>2, <5>1
        <5>3. job[p].cmd = "activate" /\ Permitted(p, Scope(p), {"activate"})
          BY <1>1, <4>2, Zenon DEF Local, Authorized
        <5>4. Moves(p, s, r)
          BY <5>1, <5>2, <5>3, Zenon DEF Moves
        <5> QED BY <5>2, <5>4, Zenon DEF Pointed
      <4>3. active' # active
        BY <3>3
      <4> QED BY <4>1, <4>2, <4>3, ActFiles, Zenon
    <3> QED BY <3>2, <3>3
  <2>2. PICK r : r = active'[s]
    OBVIOUS
  <2>3. r # None => /\ r \in releases' /\ Scope(r)' = s
                    /\ \E q \in Publisher : Moves(q, s, r)'
    BY <1>3, <2>1, <2>2, PointedStays, Zenon
  <2> QED BY <2>2, <2>3, Zenon DEF Pointed, Moves, Scope
<1> QED BY <1>2, <1>3, <1>4, <1>5, <1>6, <1>7, <1>8 DEF IInv

LEMMA Steps ==
  ASSUME IInv, [Next]_vars
  PROVE  /\ IInv' /\ Steady
         /\ \A p \in Publisher : cli[p].pc = "plan" /\ cli'[p].pc = "upload"
               => Permitted(p, Scope(p), {"plan"}) /\ InForce(p, now)
<1>1. Fixed /\ Shared
  BY Zenon DEF IInv
<1>2. CASE UNCHANGED <<cli, srv, issued, releases, active>> /\ Shared' /\ Steady
  <2>1. IInv'
    BY <1>2, CarriesOver, Zenon
  <2>2. \A p \in Publisher : ~(cli[p].pc = "plan" /\ cli'[p].pc = "upload")
    BY <1>2
  <2> QED BY <1>2, <2>1, <2>2
<1>3. CASE Tick
  BY <1>1, <1>2, <1>3, TickStep DEF Tick
<1>4. ASSUME NEW d \in Digest, Sweep(d)
      PROVE  UNCHANGED <<cli, srv, issued, releases, active>> /\ Shared' /\ Steady
  BY <1>1, <1>4, SweepStep DEF Sweep
<1>5. CASE UNCHANGED vars
  <2>1. /\ UNCHANGED <<now, fixed, store>> /\ UNCHANGED leased
        /\ UNCHANGED <<cli, srv, issued, releases, active>>
    BY <1>5 DEF vars, fixed
  <2>2. Shared'
    BY <1>1, <2>1 DEF Shared, fixed
  <2>3. Steady
    BY <1>1, <2>1, QuietIsSteady
  <2> QED BY <1>2, <2>1, <2>2, <2>3, Zenon
<1>6. ASSUME NEW p \in Publisher, Act(p)
      PROVE  /\ IInv' /\ Steady
             /\ \A q \in Publisher : cli[q].pc = "plan" /\ cli'[q].pc = "upload"
                   => Permitted(q, Scope(q), {"plan"}) /\ InForce(q, now)
  <2>1. IInv' /\ Steady /\ Sound(p)
    BY <1>6, ActKeeps, Zenon
  <2>2. ASSUME NEW q \in Publisher, cli[q].pc = "plan", cli'[q].pc = "upload"
        PROVE  Permitted(q, Scope(q), {"plan"}) /\ InForce(q, now)
    <3>1. Only(p)
      BY <2>1, Zenon DEF Sound
    <3>2. q = p
      BY <1>1, <2>2, <3>1, OnlyOne
    <3> QED BY <2>1, <2>2, <3>2, Zenon DEF Sound
  <2> QED BY <2>1, <2>2
<1> QED BY <1>2, <1>3, <1>4, <1>5, <1>6, Zenon DEF Next, Act

(***************************************************************************)
(* What follows                                                            *)
(***************************************************************************)
\* A manifest without conflicts declares each file's own size.
LEMMA DeclaredSize ==
  ASSUME Fixed, NEW p \in Publisher, ~Conflicting(p), NEW i \in DOMAIN Files(p)
  PROVE  Declared(p, Files(p)[i].digest) = Files(p)[i].size
<1> DEFINE d == Files(p)[i].digest
           n == Len(Files(p))
           T == {j \in DOMAIN Files(p) : Files(p)[j].digest = d}
           U == {n - j : j \in T}
<1>1. n \in Nat /\ DOMAIN Files(p) = 1 .. n
  BY Jobs, Zenon DEF ManifestOK
<1> HIDE DEF n
<1>2. U \in SUBSET Nat /\ i \in T /\ n - i \in U /\ T \subseteq 1 .. n
  BY <1>1
<1>3. PICK k \in U : \A m \in U : k <= m
  <2> HIDE DEF U
  <2> QED BY <1>2, LeastIndex
<1>4. PICK j \in T : k = n - j
  BY <1>3
<1>5. \A m \in T : m <= j
  <2>1. ASSUME NEW m \in T PROVE m <= j
    <3>1. n - j <= n - m
      BY <1>3, <1>4
    <3> QED BY <1>1, <1>2, <3>1
  <2> QED BY <2>1
<1>6. /\ j \in DOMAIN Files(p) /\ Files(p)[j].digest = d
      /\ \A m \in DOMAIN Files(p) : Files(p)[m].digest = d => m <= j
  BY <1>5
<1> DEFINE last == CHOOSE x \in DOMAIN Files(p) :
                      /\ Files(p)[x].digest = d
                      /\ \A m \in DOMAIN Files(p) : Files(p)[m].digest = d => m <= x
<1>7. last \in DOMAIN Files(p) /\ Files(p)[last].digest = d
  BY <1>6, Zenon
<1>8. Declared(p, d) = Files(p)[last].size
  BY Zenon DEF Declared
<1> HIDE DEF last
<1>9. Files(p)[last].size = Files(p)[i].size
  BY <1>7, Zenon DEF Conflicting
<1> QED BY <1>8, <1>9

LEMMA Follows ==
  ASSUME IInv
  PROVE  /\ TypeOK /\ GrantsInForce /\ BodiesDoNotExtend /\ BlameIsRight /\ ReadyToCommit
         /\ EffectsPermitted /\ CommittedIsWhole
<1>1. Fixed /\ Shared /\ \A p \in Publisher : Local(p)
  BY Zenon DEF IInv
<1>2. TypeOK
  BY <1>1, TypeParts, Zenon DEF Local
<1>3. GrantsInForce
  <2>1. ASSUME NEW p \in Publisher, NEW g, Backed(p, g)
        PROVE  Permitted(p, g.site, {"plan", "upload"}) /\ InForce(p, g.expires - 1)
    BY <2>1, Zenon DEF Backed
  <2>2. ASSUME NEW p \in Publisher, NEW g \in issued, g.by = p
        PROVE  Backed(p, g)
    BY <2>2, Zenon DEF IInv
  <2>3. ASSUME NEW p \in Publisher, NEW k \in DOMAIN srv[p].out
        PROVE  Backed(p, srv[p].out[k])
    BY <1>1, Zenon DEF Local, Authorized
  <2> QED BY <2>1, <2>2, <2>3, Zenon DEF GrantsInForce
<1>4. BodiesDoNotExtend
  BY <1>1, Zenon DEF Local, Authorized, Checking, BodiesDoNotExtend
<1>5. BlameIsRight
  BY <1>1 DEF Local, Blame, Blameless, BlameIsRight
<1>6. ReadyToCommit
  <2>1. ASSUME NEW p \in Publisher, NEW d \in DigestsOf(p), cli[p].pc = "commit"
        PROVE  store[d] \in Whole
    BY <1>1, <2>1, Zenon DEF Local, ClientHolds
  <2>2. ASSUME NEW p \in Publisher, NEW d \in DigestsOf(p), cli[p].pc = "upload",
               cli[p].todo = << >>
        PROVE  store[d] \in Whole
    <3>1. DOMAIN cli[p].todo = {}
      BY <2>2
    <3>2. Covered(d, cli[p].todo)
      BY <1>1, <2>2, Zenon DEF Local, ClientHolds
    <3> QED BY <3>1, <3>2, Zenon DEF Covered
  <2> QED BY <2>1, <2>2, Zenon DEF ReadyToCommit
<1>7. EffectsPermitted
  <2>1. \A p \in releases : Permitted(p, Scope(p), {"commit"})
    BY Zenon DEF IInv, Filed
  <2>2. ASSUME NEW s \in Site, active[s] # None
        PROVE  /\ active[s] \in releases /\ Scope(active[s]) = s
               /\ \E p \in Publisher : Moves(p, s, active[s])
    BY <2>2, Zenon DEF IInv, Pointed
  <2> QED BY <2>1, <2>2, Zenon DEF EffectsPermitted, Moves
<1>8. CommittedIsWhole
  <2>1. ASSUME NEW p \in releases, NEW i \in DOMAIN Files(p)
        PROVE  /\ store[Files(p)[i].digest] \in Whole
               /\ Files(p)[i].size = LenOf(store[Files(p)[i].digest])
    <3>1. p \in Publisher /\ ~Conflicting(p) /\ \A d \in DigestsOf(p) : Good(p, d)
      BY Zenon DEF IInv, Filed, Shared
    <3>2. Files(p)[i].digest \in DigestsOf(p)
      BY Zenon DEF DigestsOf
    <3>3. PICK d : d = Files(p)[i].digest
      OBVIOUS
    <3>4. store[d] \in Whole /\ Declared(p, d) = "right"
      BY <3>1, <3>2, <3>3, Zenon DEF Good
    <3>5. Declared(p, d) = Files(p)[i].size
      BY <1>1, <3>1, <3>3, DeclaredSize
    <3>6. LenOf(store[d]) = "right"
      BY <3>4 DEF LenOf, Whole
    <3> QED BY <3>3, <3>4, <3>5, <3>6
  <2> QED BY <2>1 DEF CommittedIsWhole
<1> QED BY <1>2, <1>3, <1>4, <1>5, <1>6, <1>7, <1>8

LEMMA Throughout == Spec => []IInv
<1>1. IInv /\ [Next]_vars => IInv'
  BY Steps, Zenon
<1> QED BY <1>1, Starts, PTL DEF Spec

\* For any number of publishers, digests and scenarios the state is what the
\* code takes it for, and a handler holds a grant just while it serves an
\* upload.
THEOREM TypeCorrect == Spec => []TypeOK
<1>1. IInv => TypeOK
  BY Follows, Zenon
<1> QED BY <1>1, Throughout, PTL

\* Whatever publishers upload, repair or repeat, and whatever the collector
\* takes, every blob of a stored release is there, hashes to its digest and has
\* the size its manifest declares: commitManifest's check, and the grants that
\* outlive it.
THEOREM ReleasesStayWhole == Spec => []CommittedIsWhole
<1>1. IInv => CommittedIsWhole
  BY Follows, Zenon
<1> QED BY <1>1, Throughout, PTL

\* The bytes at a key only get better: neither a mediated nor a direct upload
\* puts damaged bytes in the place of whole ones, and only the collector takes
\* them, outside every lease.
THEOREM BytesOnlyImprove == Spec => WholeStaysWhole
<1>1. ASSUME IInv, [Next]_vars
      PROVE  [\A d \in Digest : store[d] \in Whole =>
                store'[d] \in Whole \/ (store'[d] = "absent" /\ d \notin leased)]_vars
  <2>1. StoreStep
    BY <1>1, Steps, Zenon DEF Steady
  <2> QED BY <2>1 DEF StoreStep, Whole
<1> QED BY <1>1, Throughout, PTL DEF Spec, WholeStaysWhole

\* uploadFactory mints no grant that its token does not permit or that outlives
\* it, however long the plan's loop takes.
THEOREM GrantsDieWithTokens == Spec => []GrantsInForce
<1>1. IInv => GrantsInForce
  BY Follows, Zenon
<1> QED BY <1>1, Throughout, PTL

\* A plan is answered only under an authorization of that moment.
THEOREM PlansAreAuthorized == Spec => PlansInForce
<1>1. ASSUME IInv, [Next]_vars
      PROVE  [\A p \in Publisher : cli[p].pc = "plan" /\ cli'[p].pc = "upload"
                => Permitted(p, Scope(p), {"plan"}) /\ InForce(p, now)]_vars
  BY <1>1, Steps, Zenon
<1> QED BY <1>1, Throughout, PTL DEF Spec, PlansInForce

\* Every write of a handler was authorized when the body was complete.
THEOREM SlowBodiesGainNothing == Spec => []BodiesDoNotExtend
<1>1. IInv => BodiesDoNotExtend
  BY Follows, Zenon
<1> QED BY <1>1, Throughout, PTL

\* Releases are filed and pointers moved only on the word of someone permitted
\* to, and a site never serves another's release.
THEOREM EffectsHaveAuthority == Spec => []EffectsPermitted
<1>1. IInv => EffectsPermitted
  BY Follows, Zenon
<1> QED BY <1>1, Throughout, PTL

\* A client that has carried out its plan, 412s included, finds every blob there
\* and whole: its commit cannot fail for want of an upload.
THEOREM PlansSuffice == Spec => []ReadyToCommit
<1>1. IInv => ReadyToCommit
  BY Follows, Zenon
<1> QED BY <1>1, Throughout, PTL

\* What the authorizer blames on a token is true of it.
THEOREM BlameIsTrue == Spec => []BlameIsRight
<1>1. IInv => BlameIsRight
  BY Follows, Zenon
<1> QED BY <1>1, Throughout, PTL
=============================================================================
