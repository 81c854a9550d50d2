----------------------------- MODULE PublishGC -----------------------------
(***************************************************************************)
(* Publishing and garbage collection over one content-addressed store.     *)
(*                                                                         *)
(* Publishers (HTTP plan/upload/commit, the publishDirectory library call, *)
(* the local CLI, the CLI's OCI import) and collectors (owa-gc) share the  *)
(* blobs, the publish leases and the release records and hold no lock.     *)
(* One action is what the code does between two awaits that matter: one    *)
(* read or write of shared state and the local bookkeeping that follows.   *)
(*                                                                         *)
(* The object store here has atomic puts (S3BlobStore); what a file store  *)
(* does during a put is the subject of module FsBlobStore.  A lease refresh*)
(* reads a record, empties it and fills it in three steps, as in LeaseStore*)
(* it does; one listing of all the records is one step here, not there.    *)
(*                                                                         *)
(* A client that gives up leaves nothing running: a handler that goes on   *)
(* without its client is a publisher of its own.                           *)
(***************************************************************************)
EXTENDS Naturals, FiniteSets

CONSTANTS
    Digest,         \* content addresses of blobs
    Site,           \* sites releases are filed under
    Publisher,      \* publish attempts, each with one manifest
    Collector,      \* owa-gc processes
    Needs,          \* Needs[p]: uniqueFileDigests of p's manifest
    SiteOf,         \* SiteOf[p]: the site p publishes to
    Kind,           \* Kind[p]: the code path p takes
    Pruning,        \* the collectors run with --prune-expired-leases
    LeaseTTL,       \* PUBLISH_LEASE_TTL_SECONDS
    GrantTTL,       \* lifetime of an upload grant
    Grace,          \* graceSeconds
    MaxTime         \* bound on the clock

Kinds == {"http", "library", "cli", "import"}

ASSUME ConstantsOK ==
    /\ Needs \in [Publisher -> SUBSET Digest]
    /\ SiteOf \in [Publisher -> Site]
    /\ Kind \in [Publisher -> Kinds]
    /\ Pruning \subseteq Collector
    /\ LeaseTTL \in Nat \ {0} /\ GrantTTL \in Nat \ {0}
    /\ Grace \in Nat /\ MaxTime \in Nat

\* validateManifest refuses a manifest with no files.
ASSUME ManifestsNonempty == \A p \in Publisher : Needs[p] # {}

VARIABLES
    clock,      \* wall clock, shared by the processes
    blob,       \* blob[d]: what is stored at d's key
    mtime,      \* mtime[d]: lastModified of that object
    lease,      \* lease[d]: expiresAt of d's last whole lease record, 0 for none
    torn,       \* digests whose lease record is emptied and not filled again
    sites,      \* sites with a site record
    releases,   \* publishers whose release record is stored
    ppc,        \* ppc[p]: where publisher p is
    todo,       \* todo[p]: digests left in p's current loop
    grant,      \* grant[p][d]: expiry of p's upload grant for d, 0 for none
    until,      \* until[p]: the expiry p's own lease refresh asked for
    draft,      \* draft[p][d]: the expiry p is about to write for d, 0 for none
    gpc,        \* gpc[c]: where collector c is
    round,      \* round[c]: 1 while scanning, 2 from the final re-mark on
    apply,      \* apply[c]: FALSE for a dry run
    startedAt,  \* startedAt[c]: the scan start time of c's pass
    pend,       \* pend[c]: sites listed and not yet marked
    marked,     \* marked[c]: digests some release was seen to reference
    leased,     \* leased[c]: digests seen under an unexpired lease
    cands,      \* cands[c]: candidates not yet handled (round 1: none)
    stale,      \* stale[c]: expired lease records c is about to remove
    roots,      \* history: the releases stored when c began its final re-mark
    gone,       \* history: leases in force at c's start, since pruned or cut short
    exposure    \* history: why p's blobs may have lost their protection

storeVars == <<blob, mtime, lease, torn, sites, releases>>
pubVars   == <<ppc, todo, grant, until, draft>>
scanVars  == <<pend, marked, leased, cands, stale>>
gcVars    == <<gpc, round, apply, startedAt, scanVars, roots, gone>>
vars      == <<clock, storeVars, pubVars, gcVars, exposure>>

Contents  == {"absent", "good", "corrupt"}
Leasing   == {"leasing", "opening", "filling", "lost"}
Admitted  == {"probing", "uploading", "verifying", "saving", "done"}
PubPhases == {"idle"} \cup Leasing \cup Admitted
GcPhases  == {"idle", "sites", "marking", "listing", "sweeping", "ending"}

\* The code paths that pass a lease store to core.
TakesLease(p) == Kind[p] \in {"http", "library"}

\* What collector c will delete unless it stops: the sweep loop's decision,
\* fixed by the final re-mark.  (Mutant: the re-mark forgets the leases.)
CondemnedDespiteLease(c) ==
    IF gpc[c] = "sweeping" THEN cands[c] \ marked[c] ELSE {}
Condemned(c) ==
    IF gpc[c] = "sweeping" THEN cands[c] \ (marked[c] \cup leased[c]) ELSE {}

\* A publisher without leases has no protection to lose.
Unexposed(p) == IF TakesLease(p) THEN "none" ELSE "unleased"

\* p has the lease its refresh asked for on d.
HasLeased(p, d) ==
    /\ TakesLease(p) /\ d \in Needs[p]
    /\ ppc[p] \in Admitted \/ (ppc[p] \in Leasing /\ d \notin todo[p])

\* Record the first cause for which the publishers in P lose protection.
Expose(P, cause) ==
    exposure' = [p \in Publisher |->
        IF p \in P /\ exposure[p] = "none" THEN cause ELSE exposure[p]]

-----------------------------------------------------------------------------
(* Publishers.                                                             *)

Goto(p, phase) == ppc' = [ppc EXCEPT ![p] = phase]
Remaining(p, S) == todo' = [todo EXCEPT ![p] = S]

\* One turn of p's loop over its digests: go round again, or on after the last.
\* (Mutant: the loop ends after its first turn.)
FirstTurnThen(p, d, again, next) == Goto(p, next) /\ Remaining(p, Needs[p])
TurnThen(p, d, again, next) ==
    IF todo[p] = {d} THEN Goto(p, next) /\ Remaining(p, Needs[p])
                     ELSE Goto(p, again) /\ Remaining(p, todo[p] \ {d})

\* Start a publish: the manifest is validated, and a publisher that takes
\* leases fixes their expiry from one reading of the clock.
StartPublish(p) ==
    /\ ppc[p] = "idle"
    /\ Remaining(p, Needs[p])
    /\ IF TakesLease(p)
         THEN /\ Goto(p, "leasing")
              /\ until' = [until EXCEPT ![p] = clock + LeaseTTL]
         ELSE Goto(p, "probing") /\ UNCHANGED until
    /\ UNCHANGED <<clock, storeVars, grant, draft, gcVars, exposure>>

\* What refresh reads of a record: one that is absent, or that is caught empty,
\* counts as none.
SeenLease(d) == IF d \in torn THEN 0 ELSE lease[d]

\* The later expiry wins.  (Mutant: the one asked for.)
Overwritten(d, t) == t
Extended(d, t) == IF SeenLease(d) > t THEN SeenLease(d) ELSE t

\* refresh(), one digest of the loop: read its record and decide what to write.
\* Who leased d for longer, in a record that is caught empty, will be cut short.
\* Every digest is leased before the first probe.
LeaseRead(p, d) ==
    /\ ppc[p] = "leasing" /\ d \in todo[p]
    /\ Goto(p, "opening")
    /\ draft' = [draft EXCEPT ![p][d] = Extended(d, until[p])]
    /\ exposure' = [q \in Publisher |->
         IF /\ d \in torn /\ HasLeased(q, d)
            /\ until[q] > clock /\ until[q] > until[p]
           THEN "crossed" ELSE exposure[q]]
    /\ UNCHANGED <<clock, storeVars, todo, grant, until, gcVars>>

\* writeFile opens the file, which empties it ...
LeaseOpen(p, d) ==
    /\ ppc[p] = "opening" /\ draft[p][d] # 0
    /\ Goto(p, "filling")
    /\ torn' = torn \cup {d}
    /\ UNCHANGED <<clock, blob, mtime, lease, sites, releases, todo, grant,
                   until, draft, gcVars, exposure>>

NoDraft == [d \in Digest |-> 0]

\* Another call read d's record before p fills it and will write less, or unlink
\* it as expired.
Crossed(p, d) ==
    \/ \E q \in Publisher \ {p} : draft[q][d] # 0 /\ draft[q][d] < until[p]
    \/ \E c \in Collector : d \in stale[c]

\* ... and fills it.  A publisher is exposed that comes after a sweep's decision,
\* or that a crossing call will deprive of its lease.
LeaseFill(p, d) ==
    /\ ppc[p] = "filling" /\ draft[p][d] # 0
    /\ lease' = [lease EXCEPT ![d] = draft[p][d]]
    /\ torn' = torn \ {d}
    /\ draft' = [draft EXCEPT ![p] = NoDraft]
    /\ TurnThen(p, d, "leasing", "probing")
    /\ IF Crossed(p, d) THEN exposure' = [exposure EXCEPT ![p] = "crossed"]
       ELSE Expose(IF \E c \in Collector : d \in Condemned(c) THEN {p} ELSE {},
                   "late")
    /\ gone' = [b \in Collector |->
         IF lease[d] > startedAt[b] /\ draft[p][d] <= startedAt[b]
           THEN gone[b] \cup {d} ELSE gone[b]]
    /\ UNCHANGED <<clock, blob, mtime, sites, releases, grant, until, gpc, round,
                   apply, startedAt, scanVars, roots>>

\* The file p opened has been unlinked, and what p fills is no record.
LeaseLost(p, d) ==
    /\ ppc[p] = "lost" /\ draft[p][d] # 0
    /\ draft' = [draft EXCEPT ![p] = NoDraft]
    /\ TurnThen(p, d, "leasing", "probing")
    /\ exposure' = [exposure EXCEPT ![p] = "crossed"]
    /\ UNCHANGED <<clock, storeVars, grant, until, gcVars>>

\* The grant's expiry.  (Mutant: the lifetime is subtracted.)
GrantExpiryBackwards == clock - GrantTTL
GrantExpiry == clock + GrantTTL

\* planManifest, one digest: an object that verifies is reused, one that is
\* missing or does not hash to its key gets an upload (repair) grant.
PlanProbe(p, d) ==
    /\ ppc[p] = "probing" /\ Kind[p] = "http"
    /\ d \in todo[p]
    /\ Remaining(p, todo[p] \ {d})
    /\ grant' = IF blob[d] = "good" THEN grant
                ELSE [grant EXCEPT ![p][d] = GrantExpiry]
    /\ UNCHANGED <<clock, storeVars, ppc, until, draft, gcVars, exposure>>

\* The plan's response reaches the client, which uploads what it was granted.
PlanAnswer(p) ==
    /\ ppc[p] = "probing" /\ Kind[p] = "http"
    /\ todo[p] = {}
    /\ Goto(p, "uploading")
    /\ Remaining(p, {d \in Needs[p] : grant[p][d] # 0})
    /\ UNCHANGED <<clock, storeVars, grant, until, draft, gcVars, exposure>>

\* A PUT under an unexpired grant.  Only bytes that hash to the digest are
\* written, so the key holds the right object afterwards.  A client may use a
\* grant again at any time until it expires, after the commit too.
Upload(p, d) ==
    /\ grant[p][d] > clock
    /\ ppc[p] \in {"uploading", "verifying", "saving", "done"}
    /\ blob' = [blob EXCEPT ![d] = "good"]
    /\ mtime' = [mtime EXCEPT ![d] = clock]
    /\ IF ppc[p] = "uploading" THEN Remaining(p, todo[p] \ {d})
                               ELSE UNCHANGED todo
    /\ UNCHANGED <<clock, lease, torn, sites, releases, ppc, grant, until, draft,
                   gcVars, exposure>>

\* The publish stops before its release is stored.  What it wrote stays; the
\* publisher may start over with a new plan.
Abandon(p) ==
    /\ Goto(p, "idle")
    /\ Remaining(p, {})
    /\ grant' = [grant EXCEPT ![p] = [d \in Digest |-> 0]]
    /\ until' = [until EXCEPT ![p] = 0]
    /\ draft' = [draft EXCEPT ![p] = NoDraft]
    /\ exposure' = [exposure EXCEPT ![p] = Unexposed(p)]
    /\ UNCHANGED <<clock, storeVars, gcVars>>

\* A PUT under an expired grant is refused, and the client reports failure.
UploadRefused(p) ==
    /\ ppc[p] = "uploading"
    /\ \E d \in todo[p] : grant[p][d] <= clock
    /\ Abandon(p)

\* A check fails, an answer is lost, the client or the process dies.
GiveUp(p) == ppc[p] \notin {"idle", "done"} /\ Abandon(p)

\* The client sends the commit once everything it was granted is uploaded.
SendCommit(p) ==
    /\ ppc[p] = "uploading"
    /\ todo[p] = {}
    /\ Goto(p, "verifying")
    /\ Remaining(p, Needs[p])
    /\ UNCHANGED <<clock, storeVars, grant, until, draft, gcVars, exposure>>

\* publishDirectory and import-oci, one digest.  publishDirectory reuses what
\* verifies and writes the rest; the import reuses whatever exists.
StorePacked(p, d) ==
    LET reuse == IF Kind[p] = "import" THEN blob[d] # "absent"
                                       ELSE blob[d] = "good"
    IN /\ ppc[p] = "probing" /\ Kind[p] # "http"
       /\ d \in todo[p]
       /\ blob' = IF reuse THEN blob ELSE [blob EXCEPT ![d] = "good"]
       /\ mtime' = IF reuse THEN mtime ELSE [mtime EXCEPT ![d] = clock]
       /\ TurnThen(p, d, "probing", "verifying")
       /\ UNCHANGED <<clock, lease, torn, sites, releases, grant, until, draft,
                      gcVars, exposure>>

\* commitManifest's integrity gate, one digest: anything but the right bytes
\* fails the commit before any metadata is touched.
VerifyBlob(p, d) ==
    /\ ppc[p] = "verifying"
    /\ d \in todo[p]
    /\ IF blob[d] = "good"
         THEN /\ Remaining(p, todo[p] \ {d})
              /\ UNCHANGED <<clock, storeVars, ppc, grant, until, draft, gcVars,
                             exposure>>
         ELSE Abandon(p)

\* The gate is passed: read the site, or create it.
EnsureSite(p) ==
    /\ ppc[p] = "verifying"
    /\ todo[p] = {}
    /\ sites' = sites \cup {SiteOf[p]}
    /\ Goto(p, "saving")
    /\ UNCHANGED <<clock, blob, mtime, lease, torn, releases, todo, grant, until,
                   draft, gcVars, exposure>>

SaveRelease(p) ==
    /\ ppc[p] = "saving"
    /\ releases' = releases \cup {p}
    /\ Goto(p, "done")
    /\ UNCHANGED <<clock, blob, mtime, lease, torn, sites, todo, grant, until,
                   draft, gcVars, exposure>>

\* What a publisher does when nothing stops it.
PublisherStep(p) ==
    \/ StartPublish(p) \/ PlanAnswer(p) \/ UploadRefused(p) \/ SendCommit(p)
    \/ EnsureSite(p) \/ SaveRelease(p)
    \/ \E d \in Digest : \/ LeaseRead(p, d) \/ LeaseOpen(p, d)
                         \/ LeaseFill(p, d) \/ LeaseLost(p, d)
                         \/ PlanProbe(p, d) \/ Upload(p, d)
                         \/ StorePacked(p, d) \/ VerifyBlob(p, d)

-----------------------------------------------------------------------------
(* Collectors.                                                             *)

\* collectGarbage records its start time; a dry run is the default.
StartPass(c) ==
    /\ gpc[c] = "idle"
    /\ gpc' = [gpc EXCEPT ![c] = "sites"]
    /\ round' = [round EXCEPT ![c] = 1]
    /\ \E a \in BOOLEAN : apply' = [apply EXCEPT ![c] = a]
    /\ startedAt' = [startedAt EXCEPT ![c] = clock]
    /\ UNCHANGED <<clock, storeVars, pubVars, scanVars, roots, gone, exposure>>

\* markReleaseDigests: list the sites, then read each site's releases.
ListSites(c) ==
    /\ gpc[c] = "sites"
    /\ gpc' = [gpc EXCEPT ![c] = "marking"]
    /\ pend' = [pend EXCEPT ![c] = sites]
    /\ marked' = [marked EXCEPT ![c] = {}]
    /\ roots' = [roots EXCEPT ![c] = IF round[c] = 2 THEN releases ELSE {}]
    /\ UNCHANGED <<clock, storeVars, pubVars, round, apply, startedAt, leased,
                   cands, stale, gone, exposure>>

\* listAllReleases: every stored release is a root.  (Mutant: one whose
\* publisher's protection has expired is not.)
FreshReleasesOf(s) == {r \in releases : SiteOf[r] = s /\ until[r] > clock}
ReleasesOf(s) == {r \in releases : SiteOf[r] = s}

MarkSite(c, s) ==
    /\ gpc[c] = "marking"
    /\ s \in pend[c]
    /\ pend' = [pend EXCEPT ![c] = @ \ {s}]
    /\ marked' = [marked EXCEPT ![c] =
                     @ \cup UNION {Needs[r] : r \in ReleasesOf(s)}]
    /\ UNCHANGED <<clock, storeVars, pubVars, gpc, round, apply, startedAt,
                   leased, cands, stale, roots, gone, exposure>>

\* leases.active(asOf) where it answers.  (Mutant: a lease counts as expired one
\* tick early.)
EarlyExpiredLeases(asOf) == {d \in Digest : lease[d] > asOf + 1}
ActiveLeases(asOf) == {d \in Digest : lease[d] > asOf}

\* The first lease mark is taken as of the scan's start.
MarkLeases(c) ==
    /\ gpc[c] = "marking" /\ pend[c] = {} /\ round[c] = 1 /\ torn = {}
    /\ leased' = [leased EXCEPT ![c] = ActiveLeases(startedAt[c])]
    /\ gpc' = [gpc EXCEPT ![c] = "listing"]
    /\ UNCHANGED <<clock, storeVars, pubVars, round, apply, startedAt, pend,
                   marked, cands, stale, roots, gone, exposure>>

\* The unreferenced, unleased and old objects.  (Mutant: an object exactly as
\* old as the cutoff is spared.)
OlderOrphans(c) == {d \in Digest : /\ blob[d] # "absent"
                                   /\ d \notin marked[c] \cup leased[c]
                                   /\ mtime[d] + Grace < startedAt[c]}
Orphans(c) == {d \in Digest : /\ blob[d] # "absent"
                              /\ d \notin marked[c] \cup leased[c]
                              /\ mtime[d] + Grace <= startedAt[c]}

\* Enumerate the objects and choose the candidates.  A dry run reports them and
\* stops; an apply goes on to the final re-mark.
ListBlobs(c) ==
    /\ gpc[c] = "listing"
    /\ cands' = [cands EXCEPT ![c] = IF apply[c] THEN Orphans(c) ELSE {}]
    /\ gpc' = [gpc EXCEPT ![c] = IF apply[c] THEN "sites" ELSE "ending"]
    /\ round' = [round EXCEPT ![c] = IF apply[c] THEN 2 ELSE 1]
    /\ marked' = [marked EXCEPT ![c] = {}]
    /\ leased' = [leased EXCEPT ![c] = {}]
    /\ UNCHANGED <<clock, storeVars, pubVars, apply, startedAt, pend, stale,
                   roots, gone, exposure>>

\* The final lease re-mark, as of now, after the final release re-mark.
RemarkLeases(c) ==
    /\ gpc[c] = "marking" /\ pend[c] = {} /\ round[c] = 2 /\ torn = {}
    /\ leased' = [leased EXCEPT ![c] = ActiveLeases(clock)]
    /\ gpc' = [gpc EXCEPT ![c] = "sweeping"]
    /\ Expose({p \in releases : /\ until[p] <= clock
                                 /\ ~(Needs[p] \subseteq marked[c])}, "gap")
    /\ UNCHANGED <<clock, storeVars, pubVars, round, apply, startedAt, pend,
                   marked, cands, stale, roots, gone>>

\* One turn of the sweep loop: skip what the re-mark protects, delete the rest.
Sweep(c, d) ==
    /\ gpc[c] = "sweeping"
    /\ d \in cands[c]
    /\ cands' = [cands EXCEPT ![c] = @ \ {d}]
    /\ blob' = IF d \in Condemned(c) THEN [blob EXCEPT ![d] = "absent"]
                                     ELSE blob
    /\ mtime' = IF d \in Condemned(c) THEN [mtime EXCEPT ![d] = 0] ELSE mtime
    /\ UNCHANGED <<clock, lease, torn, sites, releases, pubVars, gpc, round,
                   apply, startedAt, pend, marked, leased, stale, roots, gone,
                   exposure>>

\* The sweep is over; pruneExpired first lists the expired lease records.
EndSweep(c) ==
    /\ gpc[c] = "sweeping"
    /\ cands[c] = {} /\ (c \in Pruning => torn = {})
    /\ gpc' = [gpc EXCEPT ![c] = "ending"]
    /\ stale' = [stale EXCEPT ![c] =
         IF c \in Pruning THEN {d \in Digest : lease[d] # 0 /\ lease[d] <= clock}
                          ELSE {}]
    /\ UNCHANGED <<clock, storeVars, pubVars, round, apply, startedAt, pend,
                   marked, leased, cands, roots, gone, exposure>>

\* pruneExpired unlinks a record it listed as expired without reading it again:
\* one that was renewed meanwhile, or one that is just being filled, goes too.
PruneLease(c, d) ==
    /\ gpc[c] = "ending"
    /\ d \in stale[c]
    /\ lease' = [lease EXCEPT ![d] = 0]
    /\ torn' = torn \ {d}
    /\ ppc' = [p \in Publisher |->
         IF ppc[p] = "filling" /\ draft[p][d] # 0 THEN "lost" ELSE ppc[p]]
    /\ stale' = [stale EXCEPT ![c] = @ \ {d}]
    /\ gone' = [b \in Collector |->
         IF gpc[b] \notin {"idle", "ending"} /\ lease[d] > startedAt[b]
           THEN gone[b] \cup {d} ELSE gone[b]]
    /\ UNCHANGED <<clock, blob, mtime, sites, releases, todo, grant, until, draft,
                   gpc, round, apply, startedAt, pend, marked, leased, cands,
                   roots, exposure>>

\* The pass is over and its local state gone.
Forget(c) ==
    /\ gpc' = [gpc EXCEPT ![c] = "idle"]
    /\ round' = [round EXCEPT ![c] = 1]
    /\ apply' = [apply EXCEPT ![c] = FALSE]
    /\ startedAt' = [startedAt EXCEPT ![c] = 0]
    /\ pend' = [pend EXCEPT ![c] = {}]
    /\ marked' = [marked EXCEPT ![c] = {}]
    /\ leased' = [leased EXCEPT ![c] = {}]
    /\ cands' = [cands EXCEPT ![c] = {}]
    /\ stale' = [stale EXCEPT ![c] = {}]
    /\ roots' = [roots EXCEPT ![c] = {}]
    /\ gone' = [gone EXCEPT ![c] = {}]
    /\ UNCHANGED <<clock, storeVars, pubVars, exposure>>

EndPass(c) == gpc[c] = "ending" /\ stale[c] = {} /\ Forget(c)

\* A lease record that does not parse fails the mark, and the listing to prune.
LeasesUnreadable(c) ==
    /\ torn # {}
    /\ \/ gpc[c] = "marking" /\ pend[c] = {}
       \/ gpc[c] = "sweeping" /\ cands[c] = {} /\ c \in Pruning
    /\ Forget(c)

\* A step fails closed, a delete fails, or the process dies.
AbortPass(c) == gpc[c] # "idle" /\ Forget(c)

CollectorStep(c) ==
    \/ StartPass(c) \/ ListSites(c) \/ MarkLeases(c) \/ ListBlobs(c)
    \/ RemarkLeases(c) \/ EndSweep(c) \/ EndPass(c) \/ LeasesUnreadable(c)
    \/ \E s \in Site : MarkSite(c, s)
    \/ \E d \in Digest : Sweep(c, d) \/ PruneLease(c, d)

-----------------------------------------------------------------------------
\* Time passes; a publisher still under way when its own lease runs out has
\* outlived its protection.
Tick ==
    /\ clock < MaxTime
    /\ clock' = clock + 1
    /\ Expose({p \in Publisher : /\ ppc[p] \notin {"idle", "done"}
                                  /\ until[p] <= clock'}, "lapsed")
    /\ UNCHANGED <<storeVars, pubVars, gcVars>>

\* The store may hold old objects from abandoned publishes, intact or not.
Init ==
    /\ clock = 0
    /\ blob \in [Digest -> Contents]
    /\ mtime = [d \in Digest |-> 0]
    /\ lease = [d \in Digest |-> 0] /\ torn = {}
    /\ sites = {} /\ releases = {}
    /\ ppc = [p \in Publisher |-> "idle"]
    /\ todo = [p \in Publisher |-> {}]
    /\ grant = [p \in Publisher |-> [d \in Digest |-> 0]]
    /\ until = [p \in Publisher |-> 0]
    /\ draft = [p \in Publisher |-> NoDraft]
    /\ gpc = [c \in Collector |-> "idle"]
    /\ round = [c \in Collector |-> 1]
    /\ apply = [c \in Collector |-> FALSE]
    /\ startedAt = [c \in Collector |-> 0]
    /\ pend = [c \in Collector |-> {}]
    /\ marked = [c \in Collector |-> {}]
    /\ leased = [c \in Collector |-> {}]
    /\ cands = [c \in Collector |-> {}]
    /\ stale = [c \in Collector |-> {}]
    /\ roots = [c \in Collector |-> {}]
    /\ gone = [c \in Collector |-> {}]
    /\ exposure = [p \in Publisher |-> Unexposed(p)]

\* The steps of a system in which no client, server or collector dies.
Healthy ==
    \/ Tick
    \/ \E p \in Publisher : PublisherStep(p)
    \/ \E c \in Collector : CollectorStep(c)

Next ==
    \/ Healthy
    \/ \E p \in Publisher : GiveUp(p)
    \/ \E c \in Collector : AbortPass(c)

Spec == Init /\ [][Next]_vars

\* A publisher is a client that retries, and its server: each goes on with the
\* step it has reached.  Collectors run when an operator starts them.
FairSpec ==
    /\ Init /\ [][Healthy]_vars
    /\ \A p \in Publisher : WF_vars(PublisherStep(p))

-----------------------------------------------------------------------------
(* Properties.                                                             *)

Exposures == {"none", "unleased", "late", "lapsed", "gap", "crossed"}

\* Every variable keeps its shape.
TypeOK ==
    /\ clock \in Nat
    /\ blob \in [Digest -> Contents]
    /\ mtime \in [Digest -> Nat] /\ lease \in [Digest -> Nat]
    /\ torn \subseteq Digest
    /\ sites \subseteq Site /\ releases \subseteq Publisher
    /\ ppc \in [Publisher -> PubPhases]
    /\ todo \in [Publisher -> SUBSET Digest]
    /\ grant \in [Publisher -> [Digest -> Nat]]
    /\ until \in [Publisher -> Nat]
    /\ draft \in [Publisher -> [Digest -> Nat]]
    /\ gpc \in [Collector -> GcPhases]
    /\ round \in [Collector -> {1, 2}]
    /\ apply \in [Collector -> BOOLEAN]
    /\ startedAt \in [Collector -> Nat]
    /\ pend \in [Collector -> SUBSET Site]
    /\ marked \in [Collector -> SUBSET Digest]
    /\ leased \in [Collector -> SUBSET Digest]
    /\ cands \in [Collector -> SUBSET Digest]
    /\ stale \in [Collector -> SUBSET Digest]
    /\ roots \in [Collector -> SUBSET Publisher]
    /\ gone \in [Collector -> SUBSET Digest]
    /\ exposure \in [Publisher -> Exposures]

Intact(p) == \A d \in Needs[p] : blob[d] = "good"

\* No collection takes a blob from a stored release whose publisher leased it
\* before the sweep condemned it, in a refresh no other call crossed, and saved
\* the release within the lease.
ReleasesIntact ==
    \A p \in releases : exposure[p] = "none" => Intact(p)

\* A publisher that keeps within its lease never fails the commit gate: what
\* the plan called reusable, and what was uploaded, is still there.
PlanKept ==
    \A p \in Publisher :
        ppc[p] \in {"verifying", "saving"} /\ exposure[p] = "none" => Intact(p)

\* A lease can only be lost to a call that was under way when it was written: one
\* written while no refresh was about to write less and no prune to unlink it, and
\* not caught empty since, reaches as far as was asked until it has run out,
\* whatever refreshes and prunes of that digest begin, stall or die afterwards.
\* (That it can be lost is LeaseStore's NeverShortened.)
LeasesHeld ==
    \A p \in Publisher, d \in Digest :
        HasLeased(p, d) /\ until[p] > clock /\ exposure[p] # "crossed"
        => lease[d] >= until[p]

\* Every stored release is a root: one that was stored when the final re-mark
\* began loses nothing to the sweep, however it was published and whatever
\* happened to its leases.
RootsNeverSwept ==
    \A c \in Collector : gpc[c] = "sweeping" =>
        \A r \in roots[c] : Needs[r] \cap Condemned(c) = {}

\* What a pass leaves in the store has a reason to stay: it is referenced, it is
\* younger than the grace or was written since, or it was leased as of the pass's
\* start or later, in a record that stands or that was pruned or cut short.
Excused(c, d) ==
    \/ mtime[d] + Grace > startedAt[c] \/ mtime[d] >= startedAt[c]
    \/ \E r \in releases : d \in Needs[r]
    \/ lease[d] > startedAt[c] \/ d \in gone[c]

\* A sweep that ran to its end reclaimed all it could.
SweepComplete ==
    \A c \in Collector : gpc[c] = "sweeping" /\ cands[c] = {} =>
        \A d \in Digest : blob[d] # "absent" => Excused(c, d)

\* A client that retries gets its release stored: collections can make it plan
\* again, but within one lease they cannot keep doing so.
PublishCompletes == \A p \in Publisher : <>(ppc[p] = "done")

\* docs/gc.md: once the release exists, release marking protects the blobs
\* regardless of the lease.
CommittedBlobsKept ==
    \A p \in releases : exposure[p] \in {"none", "gap"} => Intact(p)

\* docs/gc.md: the local publisher is protected too.
LocalPublisherKept == \A p \in releases : Kind[p] = "cli" => Intact(p)
=============================================================================
