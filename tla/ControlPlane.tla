---------------------------- MODULE ControlPlane ----------------------------
(***************************************************************************)
(* The CLI's remote client, artifactd's control routes and the S3 store    *)
(* they publish into, with the clock running between every two awaits.     *)
(*                                                                         *)
(* What the module is about: an authorization or an upload grant is read   *)
(* at one moment and used at a later one - after a slow body, after a slow *)
(* existence check, after the publisher has committed - and every object   *)
(* of the content-addressed store is shared by publishers who may hold     *)
(* grants for it.  One action is what a process does between two awaits.   *)
(*                                                                         *)
(* A publisher runs one command of the CLI and a handler of artifactd      *)
(* serves it; the handler goes on when the client has given up.  Leases    *)
(* outlive the runs of this module (24 hours against a quarter of one);    *)
(* their expiry and the collector's passes are the subject of PublishGC,   *)
(* metadata read-modify-write races that of SiteMetadata.                  *)
(***************************************************************************)
EXTENDS Auth, Integers, FiniteSets

CONSTANTS
    Digest,         \* content addresses
    Publisher,      \* processes that run one CLI command
    Scenarios,      \* deployments, commands and stores to start from
    None,           \* no release, no grant
    GrantTTL,       \* lifetime of an upload grant
    MaxTime         \* bound on the clock

(***************************************************************************)
(* What a key of the store holds: right bytes with ("proven") or without   *)
(* ("plain") the checksum header, wrong bytes of the right length ("wrong",*)
(* "claimed" when the header is there all the same), wrong bytes of        *)
(* another length ("short").                                               *)
(***************************************************************************)
Contents == {"absent", "proven", "plain", "wrong", "claimed", "short"}
Whole    == {"proven", "plain"}

\* A manifest is a sequence of files; size says whether the declared size is
\* the true one.
File == [digest : Digest, size : {"right", "off"}]

\* An upload grant; once is the provider's create-once, if-none-match: *.
Grant == [by : Publisher, digest : Digest, site : Site, once : BOOLEAN,
          expires : Nat]

\* The operator's part of the contract (docs/integrity.md): direct grants and
\* checksum evidence are enabled only where the provider enforces the checksum
\* it was sent and create-once.
ASSUME OperatorKeepsContract ==
    \A s \in Scenarios :
        /\ s.env.direct \/ s.env.evidence = "enforced" => s.env.enforcing
        /\ s.env.enforcing => \A d \in Digest : s.store[d] # "claimed"

\* A job names a site and a manifest that is not empty; a header is a sequence
\* whatever it holds.
ASSUME JobsAreWellFormed ==
    /\ GrantTTL \in Nat \ {0} /\ MaxTime \in Nat
    /\ None \notin Publisher /\ None \notin Grant
    /\ \A s \in Scenarios :
         /\ s.env.mode \in {"required", "dev"} /\ s.store \in [Digest -> Contents]
         /\ s.env.direct \in BOOLEAN /\ s.env.enforcing \in BOOLEAN
         /\ \A p \in Publisher :
              LET headers == s.job[p].request.bearer IN
              /\ s.job[p].site \in Site
              /\ s.job[p].files \in Seq(File) /\ s.job[p].files # << >>
              /\ headers \in Seq({headers[i] : i \in DOMAIN headers})
              /\ \A i \in DOMAIN headers : /\ headers[i].exp \in Nat
                                           /\ headers[i].form \in {"owa1", "respelt", "garbled"}

\* Whoever holds the key signs only what createToken lets pass.
ASSUME TokensAreMinted ==
    \A s \in Scenarios, p \in Publisher : \A i \in DOMAIN s.job[p].request.bearer :
        LET t == s.job[p].request.bearer[i] IN t.mac => CreateToken(t, 0) = OK

ServerPCs == {"idle", "plan.body", "plan.has", "plan.head", "plan.get",
              "upload.body", "upload.put", "commit.body", "commit.head",
              "commit.get", "commit.save", "commit.point", "activate.save",
              "releases.read"}
ClientPCs == {"start", "plan", "upload", "sent", "commit", "asked", "done",
              "failed"}
\* What the command ends with: an error of the authorizer, or one of its own.
ClientCodes == ERRORS \cup {OK, "OWA_CLI_CONFIG", "OWA_CLI_NETWORK", "OWA_CLI_HTTP",
                            "OWA_CLI_UPLOAD", "OWA_CLI_RESPONSE"}

VARIABLES
    now,        \* authorizer.now(), in seconds
    env,        \* the deployment: mode and the three facts about the store
    job,        \* job[p]: p's command
    cli,        \* cli[p]: p's process
    srv,        \* srv[p]: the handler that serves p's request
    store,      \* store[d]: what is stored at d's key
    leased,     \* digests under a publish lease
    issued,     \* every upload grant handed to a publisher so far
    releases,   \* publishers whose release record is stored
    active      \* active[s]: the release s serves

vars == <<now, env, job, cli, srv, store, leased, issued, releases, active>>
fixed == <<env, job>>

Idle == [pc |-> "idle", i |-> 1, len |-> "right", out |-> << >>, reused |-> 0,
         grant |-> None, body |-> "whole", at |-> 0]

Init == /\ now = 0
        /\ \E s \in Scenarios : env = s.env /\ job = s.job /\ store = s.store
        /\ cli = [p \in Publisher |->
                    [pc |-> "start", todo |-> << >>, code |-> OK]]
        /\ srv = [p \in Publisher |-> Idle]
        /\ leased = {} /\ issued = {} /\ releases = {}
        /\ active = [s \in Site |-> None]

(***************************************************************************)
(* Manifests                                                               *)
(***************************************************************************)
Files(p)      == job[p].files
DigestsOf(p)  == {Files(p)[i].digest : i \in DOMAIN Files(p)}
\* A loop over the set of digests takes each where it occurs first.
Firsts(p)     == {i \in DOMAIN Files(p) :
                    \A j \in 1 .. i - 1 : Files(p)[j].digest # Files(p)[i].digest}
Later(p, i)   == {j \in Firsts(p) : j > i}
Following(p, i) == CHOOSE j \in Later(p, i) : \A k \in Later(p, i) : j <= k
\* expectedBlobSizes refuses a digest declared with two sizes.  (Mutant: the
\* last size wins.)
LastSizeWins(p) == FALSE
Conflicting(p) == \E i, j \in DOMAIN Files(p) :
                    /\ Files(p)[i].digest = Files(p)[j].digest
                    /\ Files(p)[i].size # Files(p)[j].size
\* ... and otherwise maps each digest to its (last) declared size.
Declared(p, d) == Files(p)[CHOOSE i \in DOMAIN Files(p) :
                    /\ Files(p)[i].digest = d
                    /\ \A j \in DOMAIN Files(p) : Files(p)[j].digest = d => j <= i].size

(***************************************************************************)
(* Authorization                                                           *)
(***************************************************************************)
Allowed(p, site, caps) == Authorize(env.mode, job[p].request, site, caps, now)

Scope(p) == job[p].site

\* uploadLifetime: a grant dies with the token it was minted for.
Remaining(p) == IF env.mode = "dev" THEN GrantTTL
                ELSE job[p].request.bearer[1].exp - now

\* (Mutant: the token's expiry is not looked at.)
FullLifetime(p) == GrantTTL

Lifetime(p) == IF Remaining(p) < GrantTTL THEN Remaining(p) ELSE GrantTTL

\* The capability is declared by the store, never inferred from it.  (Mutant: it
\* is inferred from the presence of createUpload.)
HasCreateUpload == env.mode = "required"
DirectUploads == env.direct

\* A repair grant is the one without create-once; a mediated grant needs none.
\* (Mutant: the time is taken from the lifetime.)
ExpiresBackwards(p, d, repair) ==
    [by |-> p, digest |-> d, site |-> Scope(p), once |-> ~repair,
     expires |-> Lifetime(p) - now]

Minting(p, d, repair) ==
    [by |-> p, digest |-> d, site |-> Scope(p),
     once |-> DirectUploads /\ ~repair,
     expires |-> now + Lifetime(p)]

(***************************************************************************)
(* Answers.  A client that still waits reads the answer, or nothing it can *)
(* use (a lost or a malformed one); only auth codes are passed on.         *)
(***************************************************************************)
Seen(code) == IF code \in ERRORS THEN code ELSE "OWA_CLI_HTTP"

Ended(pc, code) == [pc |-> pc, todo |-> << >>, code |-> code]

Fails(p, code) == cli' = [cli EXCEPT ![p] = Ended("failed", code)]

Waiting(p) == cli[p].pc \in {"plan", "sent", "commit", "asked"}

Unread(p) == Fails(p, "OWA_CLI_NETWORK")

\* The handler ends with an error.
Refuse(p, code) ==
    /\ srv' = [srv EXCEPT ![p] = Idle]
    /\ IF ~Waiting(p) THEN UNCHANGED cli
       ELSE IF cli[p].pc = "sent" THEN Fails(p, "OWA_CLI_UPLOAD") \/ Unread(p)
       ELSE Fails(p, Seen(code)) \/ Unread(p)

\* The handler ends well; the client goes on as c.
Reply(p, c) ==
    /\ srv' = [srv EXCEPT ![p] = Idle]
    /\ IF ~Waiting(p) THEN UNCHANGED cli
       ELSE cli' = [cli EXCEPT ![p] = c] \/ Unread(p)

\* A request arrives and its route answers code before reading a body.
Send(p, code, c, handler) ==
    IF code = OK
    THEN /\ cli' = [cli EXCEPT ![p] = c]
         /\ srv' = [srv EXCEPT ![p] = handler]
    ELSE /\ Fails(p, IF c.pc = "sent" THEN "OWA_CLI_UPLOAD" ELSE Seen(code)) \/ Unread(p)
         /\ UNCHANGED srv

At(pc, g) == [Idle EXCEPT !.pc = pc, !.grant = g]

(***************************************************************************)
(* The client: start, uploads, commit                                      *)
(***************************************************************************)
Publishing(p) == job[p].cmd \in {"publish", "stage"}
Activates(p)  == job[p].cmd = "publish"     \* activate defaults to true

Start(p) ==
    /\ cli[p].pc = "start"
    /\ IF job[p].request.bearer # << >> /\ job[p].origin = "http"
       THEN Fails(p, "OWA_CLI_CONFIG") /\ UNCHANGED srv
       ELSE IF Publishing(p)
       THEN Send(p, Allowed(p, Scope(p), {"plan"}),
                 [cli[p] EXCEPT !.pc = "plan"], At("plan.body", None))
       ELSE IF job[p].cmd = "activate"
       THEN Send(p, Allowed(p, Scope(p), {"activate"}),
                 [cli[p] EXCEPT !.pc = "asked"], At("activate.save", None))
       ELSE Send(p, Allowed(p, Scope(p), {"read"}),
                 [cli[p] EXCEPT !.pc = "asked"], At("releases.read", None))
    /\ UNCHANGED <<now, fixed, store, leased, issued, releases, active>>

\* The upload route up to its body.
UploadOpens(p, g) == IF Allowed(p, g.site, {"upload"}) # OK
                     THEN Allowed(p, g.site, {"upload"})
                     ELSE IF g.expires <= now THEN "OWA_UPLOAD_INVALID" ELSE OK

SendUpload(p) ==
    /\ ~DirectUploads /\ cli[p].pc = "upload" /\ cli[p].todo # << >>
    /\ LET g == Head(cli[p].todo) IN
       Send(p, UploadOpens(p, g),
            [cli[p] EXCEPT !.pc = "sent", !.todo = Tail(@)], At("upload.body", g))
    /\ UNCHANGED <<now, fixed, store, leased, issued, releases, active>>

\* The provider's answer to a presigned PUT, and what the key holds afterwards.  A
\* create-once grant is refused before the checksum is looked at.
PutStatus(g, body) ==
    IF g.expires <= now THEN 403
    ELSE IF env.enforcing /\ g.once /\ store[g.digest] # "absent" THEN 412
    ELSE IF env.enforcing /\ body = "damaged" THEN 400
    ELSE 200

PutLeaves(g, body) == IF PutStatus(g, body) # 200 THEN store[g.digest]
                      ELSE IF body = "whole" THEN "proven" ELSE "claimed"

DirectPut(g, body) == store' = [store EXCEPT ![g.digest] = PutLeaves(g, body)]

\* A 2xx goes on to the next grant; so does a 412 under a create-once grant.
\* (Mutant: so does any answer but a 403.)
NotForbidden(g, status) == status # 403
Uploaded(g, status) == status = 200 \/ (status = 412 /\ g.once)

PutDirect(p) ==
    /\ DirectUploads /\ cli[p].pc = "upload" /\ cli[p].todo # << >>
    /\ \E body \in {"whole", "damaged"} :
         LET g == Head(cli[p].todo) IN
         /\ DirectPut(g, body)
         /\ \/ Unread(p)
            \/ IF Uploaded(g, PutStatus(g, body))
               THEN cli' = [cli EXCEPT ![p].todo = Tail(@)]
               ELSE Fails(p, "OWA_CLI_UPLOAD")
    /\ UNCHANGED <<now, fixed, srv, leased, issued, releases, active>>

SendCommit(p) ==
    /\ cli[p].pc = "upload" /\ cli[p].todo = << >>
    /\ Send(p, Allowed(p, Scope(p), {"commit"}),
            [cli[p] EXCEPT !.pc = "commit"], At("commit.body", None))
    /\ UNCHANGED <<now, fixed, store, leased, issued, releases, active>>

\* The client stops waiting; the handler does not know.
Lose(p) == /\ Waiting(p)
           /\ Unread(p)
           /\ UNCHANGED <<now, fixed, srv, store, leased, issued, releases, active>>

\* The network delivers an upload again after the command has ended.
Resend(p) ==
    /\ cli[p].pc \in {"done", "failed"} /\ srv[p].pc = "idle"
    /\ \E g \in issued :
         /\ g.by = p
         /\ IF DirectUploads
            THEN UNCHANGED srv /\ \E body \in {"whole", "damaged"} : DirectPut(g, body)
            ELSE /\ UploadOpens(p, g) = OK
                 /\ srv' = [srv EXCEPT ![p] = At("upload.body", g)]
                 /\ UNCHANGED store
    /\ UNCHANGED <<now, fixed, cli, leased, issued, releases, active>>

(***************************************************************************)
(* verifyStoredBlob over S3BlobStore.verifyBlob: a HEAD, then a GET unless *)
(* trusted evidence answers.                                               *)
(***************************************************************************)
LenOf(c) == IF c = "short" THEN "off" ELSE "right"

HeadVerdict(d, size) ==
    IF store[d] = "absent" THEN "missing"
    ELSE IF env.evidence = "enforced" /\ store[d] \in {"proven", "claimed"}
    THEN IF LenOf(store[d]) # size THEN "size" ELSE "ok"
    ELSE "rehash"

GetVerdict(d, size, len) ==
    IF store[d] = "absent" THEN "missing"
    ELSE IF LenOf(store[d]) # len THEN "unverified"
    ELSE IF store[d] \notin Whole THEN "digest"
    ELSE IF len # size THEN "size" ELSE "ok"

Failure(verdict) == IF verdict = "missing" THEN "OWA_BLOB_MISSING"
                    ELSE IF verdict = "unverified" THEN "OWA_BLOB_UNVERIFIED"
                    ELSE "OWA_BLOB_INTEGRITY"

\* The digest a handler is at.
This(p) == Files(p)[srv[p].i].digest

(***************************************************************************)
(* POST .../publish/plan                                                   *)
(***************************************************************************)
PlanBody(p) ==
    /\ srv[p].pc = "plan.body"
    /\ IF Allowed(p, Scope(p), {"plan"}) # OK
       THEN Refuse(p, Allowed(p, Scope(p), {"plan"})) /\ UNCHANGED leased
       ELSE IF Conflicting(p)
       THEN Refuse(p, "OWA_BLOB_INTEGRITY") /\ UNCHANGED leased
       ELSE /\ leased' = leased \cup DigestsOf(p)
            /\ srv' = [srv EXCEPT ![p].pc = "plan.has"]
            /\ UNCHANGED cli
    /\ UNCHANGED <<now, fixed, store, issued, releases, active>>

\* remotePublishResult accepts a plan that accounts for every blob once.
PlanAccepted(p, h) == Len(h.out) + h.reused = Cardinality(Firsts(p))

\* The loop of planManifest goes on as h, or the plan is answered - under an
\* authorization of that moment.  (Mutant: under the one of its body.)
AnswersAnyway(p, h) ==
    IF Later(p, h.i) # {}
    THEN /\ srv' = [srv EXCEPT ![p] = [h EXCEPT !.pc = "plan.has", !.i = Following(p, h.i)]]
         /\ UNCHANGED <<cli, issued>>
    ELSE /\ issued' = issued \cup {h.out[i] : i \in DOMAIN h.out}
         /\ Reply(p, [cli[p] EXCEPT !.pc = "upload", !.todo = h.out])

Advance(p, h) ==
    IF Later(p, h.i) # {}
    THEN /\ srv' = [srv EXCEPT ![p] = [h EXCEPT !.pc = "plan.has", !.i = Following(p, h.i)]]
         /\ UNCHANGED <<cli, issued>>
    ELSE IF Allowed(p, Scope(p), {"plan"}) # OK
    THEN Refuse(p, Allowed(p, Scope(p), {"plan"})) /\ UNCHANGED issued
    ELSE /\ issued' = issued \cup {h.out[i] : i \in DOMAIN h.out}
         /\ Reply(p, IF PlanAccepted(p, h)
                     THEN [cli[p] EXCEPT !.pc = "upload", !.todo = h.out]
                     ELSE Ended("failed", "OWA_CLI_RESPONSE"))

MayMint(p) == Allowed(p, Scope(p), {"plan", "upload"})

\* uploadFactory: the authorization is checked where the grant is minted.
Mint(p, repair) ==
    IF MayMint(p) # OK THEN Refuse(p, MayMint(p)) /\ UNCHANGED issued
    ELSE IF Remaining(p) <= 0
    THEN Refuse(p, "OWA_AUTH_EXPIRED") /\ UNCHANGED issued
    ELSE Advance(p, [srv[p] EXCEPT !.out = Append(@, Minting(p, This(p), repair))])

\* A corrupt object is repaired, a lying manifest or an unprovable object fails.
PlanVerdict(p, verdict) ==
    CASE verdict = "ok"      -> Advance(p, [srv[p] EXCEPT !.reused = @ + 1])
      [] verdict = "digest"  -> Mint(p, TRUE)
      [] verdict = "missing" -> Mint(p, FALSE)
      [] OTHER               -> Refuse(p, Failure(verdict)) /\ UNCHANGED issued

PlanHas(p) ==
    /\ srv[p].pc = "plan.has"
    /\ IF store[This(p)] = "absent" THEN Mint(p, FALSE)
       ELSE srv' = [srv EXCEPT ![p].pc = "plan.head"] /\ UNCHANGED <<cli, issued>>
    /\ UNCHANGED <<now, fixed, store, leased, releases, active>>

PlanHead(p) ==
    /\ srv[p].pc = "plan.head"
    /\ LET verdict == HeadVerdict(This(p), Declared(p, This(p))) IN
       IF verdict # "rehash" THEN PlanVerdict(p, verdict)
       ELSE /\ srv' = [srv EXCEPT ![p].pc = "plan.get", ![p].len = LenOf(store[This(p)])]
            /\ UNCHANGED <<cli, issued>>
    /\ UNCHANGED <<now, fixed, store, leased, releases, active>>

PlanGet(p) ==
    /\ srv[p].pc = "plan.get"
    /\ PlanVerdict(p, GetVerdict(This(p), Declared(p, This(p)), srv[p].len))
    /\ UNCHANGED <<now, fixed, store, leased, releases, active>>

(***************************************************************************)
(* PUT /v1/uploads/<digest>                                                *)
(***************************************************************************)
\* The token and the grant are checked again once the body is in.  (Mutant:
\* only the bytes are.)
OnlyHashes(p, g, body) == IF body = "damaged" THEN "digest mismatch" ELSE OK

UploadCloses(p, g, body) ==
    IF UploadOpens(p, g) # OK THEN UploadOpens(p, g)
    ELSE IF body = "damaged" THEN "digest mismatch" ELSE OK

UploadBody(p) ==
    /\ srv[p].pc = "upload.body"
    /\ \E body \in {"whole", "damaged"} :
         IF UploadCloses(p, srv[p].grant, body) # OK
         THEN Refuse(p, UploadCloses(p, srv[p].grant, body))
         ELSE /\ srv' = [srv EXCEPT ![p].pc = "upload.put", ![p].body = body, ![p].at = now]
              /\ UNCHANGED cli
    /\ UNCHANGED <<now, fixed, store, leased, issued, releases, active>>

\* The bytes land; the answer of the provider may be lost on the way.
UploadPut(p) ==
    /\ srv[p].pc = "upload.put"
    /\ store' = [store EXCEPT ![srv[p].grant.digest] =
                    IF srv[p].body = "whole" THEN "proven" ELSE "claimed"]
    /\ Reply(p, [cli[p] EXCEPT !.pc = "upload"]) \/ Refuse(p, "OWA_OPERATION_FAILED")
    /\ UNCHANGED <<now, fixed, leased, issued, releases, active>>

(***************************************************************************)
(* POST .../publish/commit and .../activate/<release>                      *)
(***************************************************************************)
\* (Mutant: activation is not a capability of its own.)
CommitIsEnough(p) == {"commit"}

CommitNeeds(p) == IF Activates(p) THEN {"commit", "activate"} ELSE {"commit"}

CommitBody(p) ==
    /\ srv[p].pc = "commit.body"
    /\ IF Allowed(p, Scope(p), CommitNeeds(p)) # OK
       THEN Refuse(p, Allowed(p, Scope(p), CommitNeeds(p)))
       ELSE IF Conflicting(p) THEN Refuse(p, "OWA_BLOB_INTEGRITY")
       ELSE srv' = [srv EXCEPT ![p].pc = "commit.head", ![p].at = now] /\ UNCHANGED cli
    /\ UNCHANGED <<now, fixed, store, leased, issued, releases, active>>

CommitVerdict(p, verdict) ==
    IF verdict # "ok" THEN Refuse(p, Failure(verdict))
    ELSE /\ srv' = [srv EXCEPT ![p] =
                IF Later(p, srv[p].i) # {}
                THEN [@ EXCEPT !.pc = "commit.head", !.i = Following(p, srv[p].i)]
                ELSE [@ EXCEPT !.pc = "commit.save"]]
         /\ UNCHANGED cli

CommitHead(p) ==
    /\ srv[p].pc = "commit.head"
    /\ LET verdict == HeadVerdict(This(p), Declared(p, This(p))) IN
       IF verdict # "rehash" THEN CommitVerdict(p, verdict)
       ELSE /\ srv' = [srv EXCEPT ![p].pc = "commit.get", ![p].len = LenOf(store[This(p)])]
            /\ UNCHANGED cli
    /\ UNCHANGED <<now, fixed, store, leased, issued, releases, active>>

CommitGet(p) ==
    /\ srv[p].pc = "commit.get"
    /\ CommitVerdict(p, GetVerdict(This(p), Declared(p, This(p)), srv[p].len))
    /\ UNCHANGED <<now, fixed, store, leased, issued, releases, active>>

Done(p) == Ended("done", OK)

CommitSave(p) ==
    /\ srv[p].pc = "commit.save"
    /\ releases' = releases \cup {p}
    /\ IF Activates(p)
       THEN srv' = [srv EXCEPT ![p].pc = "commit.point"] /\ UNCHANGED cli
       ELSE Reply(p, Done(p))
    /\ UNCHANGED <<now, fixed, store, leased, issued, active>>

CommitPoint(p) ==
    /\ srv[p].pc = "commit.point"
    /\ active' = [active EXCEPT ![Scope(p)] = p]
    /\ Reply(p, Done(p))
    /\ UNCHANGED <<now, fixed, store, leased, issued, releases>>

\* activateRelease looks the release up under the site of the request.
ActivateSave(p) ==
    /\ srv[p].pc = "activate.save"
    /\ LET r == job[p].release IN
       IF r \in releases /\ Scope(r) = Scope(p)
       THEN active' = [active EXCEPT ![Scope(p)] = r] /\ Reply(p, Done(p))
       ELSE Refuse(p, "OWA_OPERATION_FAILED") /\ UNCHANGED active
    /\ UNCHANGED <<now, fixed, store, leased, issued, releases>>

\* GET .../releases: a site exists from its first commit on.
ReadReleases(p) ==
    /\ srv[p].pc = "releases.read"
    /\ IF \E r \in releases : Scope(r) = Scope(p)
       THEN Reply(p, Done(p)) ELSE Refuse(p, "site not found")
    /\ UNCHANGED <<now, fixed, store, leased, issued, releases, active>>

(***************************************************************************)
(* The environment                                                         *)
(***************************************************************************)
\* A request to the provider fails; nothing has changed there.
ProviderFails(p) ==
    /\ srv[p].pc \in {"plan.has", "plan.head", "plan.get", "upload.put",
                      "commit.head", "commit.get"}
    /\ Refuse(p, "OWA_BLOB_UNVERIFIED")
    /\ UNCHANGED <<now, fixed, store, leased, issued, releases, active>>

Referenced == UNION {DigestsOf(p) : p \in releases}

\* owa-gc deletes an object no lease and no release protects.
Sweep(d) == /\ store[d] # "absent" /\ d \notin leased /\ d \notin Referenced
            /\ store' = [store EXCEPT ![d] = "absent"]
            /\ UNCHANGED <<now, fixed, cli, srv, leased, issued, releases, active>>

Tick == /\ now < MaxTime
        /\ now' = now + 1
        /\ UNCHANGED <<fixed, cli, srv, store, leased, issued, releases, active>>

Next == \/ Tick
        \/ \E d \in Digest : Sweep(d)
        \/ \E p \in Publisher :
             \/ Start(p) \/ SendUpload(p) \/ PutDirect(p) \/ SendCommit(p)
             \/ Lose(p) \/ Resend(p)
             \/ PlanBody(p) \/ PlanHas(p) \/ PlanHead(p) \/ PlanGet(p)
             \/ UploadBody(p) \/ UploadPut(p)
             \/ CommitBody(p) \/ CommitHead(p) \/ CommitGet(p)
             \/ CommitSave(p) \/ CommitPoint(p) \/ ActivateSave(p) \/ ReadReleases(p)
             \/ ProviderFails(p)

Spec == Init /\ [][Next]_vars

(***************************************************************************)
(* Properties                                                              *)
(***************************************************************************)
Handler == [pc : ServerPCs, i : Nat, len : {"right", "off"}, out : Seq(Grant),
            reused : Nat, grant : Grant \cup {None}, body : {"whole", "damaged"}, at : Nat]
Client  == [pc : ClientPCs, todo : Seq(Grant), code : ClientCodes]

TypeOK ==
    /\ now \in 0 .. MaxTime
    /\ cli \in [Publisher -> Client] /\ srv \in [Publisher -> Handler]
    /\ \A p \in Publisher :
         /\ srv[p].i \in DOMAIN Files(p)
         /\ srv[p].pc \in {"upload.body", "upload.put"} <=> srv[p].grant # None
    /\ store \in [Digest -> Contents] /\ leased \subseteq Digest
    /\ issued \subseteq Grant /\ releases \subseteq Publisher
    /\ active \in [Site -> Publisher \cup {None}]

\* What p's credentials permit, whenever they are in force.
Permitted(p, site, caps) == Authorize(env.mode, job[p].request, site, caps, 0) = OK
InForce(p, time) == env.mode = "required" => job[p].request.bearer[1].exp > time

\* HOST INVARIANT of core/src/index.js: every blob of a stored release is there,
\* hashes to its digest and has the declared size - and stays so under grants
\* that are used again after the commit, by anybody.
CommittedIsWhole ==
    \A p \in releases : \A i \in DOMAIN Files(p) :
        /\ store[Files(p)[i].digest] \in Whole
        /\ Files(p)[i].size = LenOf(store[Files(p)[i].digest])

\* No upload, repair or repetition of one ever puts wrong bytes in the place of
\* right ones: the bytes at a key only get better until the collector takes them.
WholeStaysWhole ==
    [][\A d \in Digest : store[d] \in Whole =>
            store'[d] \in Whole \/ (store'[d] = "absent" /\ d \notin leased)]_vars

\* Every grant that leaves the plan route, or waits in its loop, was minted for
\* credentials that permit plan and upload on that site, and dies with the token.
GrantsInForce ==
    \A p \in Publisher : \A g \in {h \in issued : h.by = p} \cup
                                  {srv[p].out[i] : i \in DOMAIN srv[p].out} :
        /\ Permitted(p, g.site, {"plan", "upload"})
        /\ InForce(p, g.expires - 1)

\* A client is handed a plan, one that found every blob there included, only
\* while its token is in force: existence checks take as long as they like.
PlansInForce ==
    [][\A p \in Publisher : cli[p].pc = "plan" /\ cli'[p].pc = "upload"
            => Permitted(p, Scope(p), {"plan"}) /\ InForce(p, now)]_vars

\* A body that takes its time does not extend an authorization: whatever the
\* handlers do to the store or the metadata, the token (and the grant) held
\* with the capabilities of the route when the body was complete.
BodiesDoNotExtend ==
    \A p \in Publisher :
        /\ srv[p].pc = "upload.put" =>
             /\ Permitted(p, srv[p].grant.site, {"upload"})
             /\ InForce(p, srv[p].at) /\ srv[p].grant.expires > srv[p].at
        /\ srv[p].pc \in {"commit.head", "commit.get", "commit.save", "commit.point"} =>
             Permitted(p, Scope(p), CommitNeeds(p)) /\ InForce(p, srv[p].at)

\* A release is filed, and a site's pointer moves, only on the word of someone
\* whose credentials permit just that on just that site, and a site never
\* serves a release of another one.
EffectsPermitted ==
    /\ \A p \in releases : Permitted(p, Scope(p), {"commit"})
    /\ \A s \in Site : active[s] # None =>
         /\ active[s] \in releases /\ Scope(active[s]) = s
         /\ \E p \in Publisher :
              /\ Scope(p) = s /\ Permitted(p, s, {"activate"})
              /\ \/ Activates(p) /\ p = active[s]
                 \/ job[p].cmd = "activate" /\ job[p].release = active[s]

\* When the client has carried out its plan every blob is there and whole: what
\* the plan counted as reused, what a 2xx or a 412 said was stored.  The commit
\* then cannot fail for want of an upload.
ReadyToCommit ==
    \A p \in Publisher :
        cli[p].pc = "commit" \/ (cli[p].pc = "upload" /\ cli[p].todo = << >>)
            => \A d \in DigestsOf(p) : store[d] \in Whole

\* A publisher who is told why is told the truth: a forged token is never
\* reported as expired or out of scope, an expired one not as unpermitted.
BlameIsRight ==
    \A p \in Publisher : LET t == job[p].request.bearer[1] IN
        /\ cli[p].code = "OWA_AUTH_INVALID_SIGNATURE" => ~t.mac
        /\ cli[p].code \in {"OWA_AUTH_EXPIRED", "OWA_AUTH_SITE", "OWA_AUTH_CAPABILITY"}
             => t.mac /\ t.form = "owa1"
        /\ cli[p].code = "OWA_AUTH_EXPIRED" => t.exp <= now
        /\ cli[p].code = "OWA_AUTH_SITE" => ~In(Scope(p), t.sites)
        /\ cli[p].code = "OWA_AUTH_CAPABILITY" => In(Scope(p), t.sites)
=============================================================================
