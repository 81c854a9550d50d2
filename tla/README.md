# A verification development of Open Web Artifact

Open Web Artifact (OWA) packs a directory into a manifest of content-addressed
blobs, publishes the manifest as an immutable release of a site, and serves the
release a site's pointer names. Several processes do this over one store, and
none of them takes a lock: HTTP servers with their clients, the local CLI,
importers of OCI layouts, and a garbage collector. What makes that correct is
order (what is written before what), re-checking (what is looked at again before
it is relied on) and expiry (leases, grants, tokens). This directory models those
parts in TLA+, checks them with TLC on small instances and proves the main
results with TLAPS for every instance.

Paths below are relative to `src/`; `fs` is
`packages/storage-filesystem/src/index.js`, `core` is `packages/core/src/index.js`,
`gc` is `packages/gc/src/index.js`, `server` is `packages/server/src/index.js`,
`remote` is `packages/cli/src/remote.js`.

## 1. Inventory

| Component | State it keeps | Operations | Shared with |
|---|---|---|---|
| Core publishing (`core`) | none of its own | `planManifest`, `commitManifest`, `publishDirectory`, `activateRelease`, `packDirectory`, `resolveRequestPath` | blobs, leases, metadata |
| Filesystem blob store (`fs` 88-190) | one file per digest | `has`, `put`, `get`, `verifyBlob`, `delete`, `listBlobs` | publishers, readers, collectors |
| Filesystem lease store (`fs` 192-286) | one JSON record per leased digest | `refresh`, `list`, `active`, `pruneExpired` | publishers write, collectors read and prune |
| Filesystem metadata store (`fs` 288-369) | slug index, site record, release files | `createSite`, `getSite`, `saveSite`, `saveRelease`, `getRelease`, `listReleases`, `listSites`, `listAllReleases` | requests, collectors |
| S3 blob store (`packages/storage-s3`) | one object per digest | as the filesystem's, plus presigned uploads and paged listing | publishers, clients with a presigned URL, collectors |
| Collector (`gc`, `packages/gc/src/cli.js`) | marks, candidates, report, for one pass | `collectGarbage` | leases, metadata, blobs |
| Control routes (`server` 117-228) | none; grants are signed URLs | plan, upload, commit, activate, list releases | everything above |
| Content serving (`server` 228-272) | none | `serveSite` | metadata, blobs |
| Listener group (`server` 403-503) | the listeners and whether the group is ready | start, fail, close | the operating system |
| Authentication (`packages/server/src/auth.js`) | configured keys | `authorize`, token and grant verification | the clock |
| Content host binding (`packages/server/src/content-host.js`) | a fixed map | host to site and back | configuration |
| Remote client (`remote`) | one publish | plan, upload, commit, retries | the server |
| Local CLI (`packages/cli/src/index.js`) | none | publish, import, export, serve | the stores, without leases |
| OCI transport (`packages/transport-oci`) | a layout directory | write and read a layout | import and export |
| Test registry (`packages/integration/oci/tls-registry.js`) | a child process, its state directory, one deadline | start, stop | the OCI harness |
| Manifest specification (`packages/spec`) | none | canonical JSON, validation | everybody |
| MCP adapter (`packages/mcp`) | none | tools over the HTTP protocol | the server |
| Go conformance runner (`implementations/go-conformance`) | none | the pure parts again | test vectors |

How they interact: a client asks the server for a *plan*; the server leases every
digest of the manifest, then probes and verifies each, and grants an upload for
what is missing or corrupt. The client uploads under the grants and asks for a
*commit*; the server verifies every blob (the integrity gate), finds or creates
the site, stores the release and, unless the commit is staged, saves the pointer.
A collector marks releases and leases, lists old unmarked objects, marks again
and deletes what is still unmarked. It never talks to a publisher: leases and
release records are all that protects one from the other.

What is hard, and what correctness means for each part:

- **Publishing against collection.** A collector may be anywhere in its pass at
  each step of a publish, reads a clock and timestamps that go stale, and may die;
  a publisher may die, retry, outlive its lease. Correct: a stored release keeps
  its blobs, a plan is not broken within its lease, garbage is reclaimed, retrying
  clients get through.
- **Leases.** A refresh is a read followed by a truncate and a write; a prune acts
  on an older listing. Correct: protection is never shortened (it can be, section 6;
  only calls already under way can do it), and an answer of `active()` is complete or
  an error.
- **Metadata.** A commit writes up to five files, each of which is empty for a
  moment; requests race and die. Correct: pointers and indexes never dangle, a slug
  keeps its site except in a race of first publishes, a scan sees every root or fails.
- **A blob's file.** `put` empties the file it writes. Correct: what the gate
  accepts is whole, a failed or interrupted write is repaired.
- **Authority over time.** Tokens and grants expire while bodies arrive and probes
  run. Correct: nothing is granted or stored on authority that has lapsed.
- **Starting and stopping.** Two listeners bind separately, a child process may
  hang. Correct: what is announced is whole, what failed leaves nothing behind,
  and both end.
- **Transport.** A layout's files are written one after another and read one after
  another; a listing arrives in pages. Correct: what is read is exactly one
  artifact, a listing lacks nothing but what an answer that looks whole withheld.
- **Configuration.** Correct: a host name reaches one site, and a control route is
  not reached from a content origin.

`PROJECT.json` lists every component with its status, and each hazard at its line
with the properties that cover it, or the reason none does.

## 2. Modules

```
LeaseRegister        what a lease store promises about one clock
  LeaseStore         the files behind it               (implements it; see below)
  LeaseStoreProofs     types, answers, the refinement
PublishGC            publishers and collectors over blobs, leases and releases
  PublishGCProofs      types, roots, what a sweep reclaims
  PublishGCIntact      leases, plans, releases
SiteMetadata         the metadata files under requests, crashes and a scan
  SiteMetadataProofs   types and all of its invariants
FsBlobStore          one blob's file under writers, readers and a collector
  FsBlobStoreProofs    types, writers that heal what they empty, gate and repair
Auth                 tokens and what they permit (operators)
  ControlPlane         client, routes and S3 store while the clock runs
    ControlPlaneProofs   types, authority, and the bytes of what is released
Origins              artifactd's start, its listeners, its hosts
OciLayout            an exporter and a reader of one layout
  OciLayoutProofs      types, and what a read returns
S3Listing            the paged listing
TlsRegistry          a child process under a deadline
  MCPeriphery          the four of them, one per behaviour
  PeripheryProofs      listeners, hosts, listing, registry, and the composition
MC*                  instances for TLC
```

`ControlPlane` is the composition in which the control side is whole: the
client's process, the handler that serves it, the object store and the grants that
outlive both. It gives leases and the collector the simplest form they can have
(leases do not expire within a run, `Sweep` deletes whatever neither a lease nor a
release names), because their interleaving is what `PublishGC` is about, and
metadata is one atomic write each, because those races are `SiteMetadata`'s.

The others meet at two interfaces. `PublishGC` has the lease refresh in the steps
`LeaseStore` has it in (read and decide, empty, fill), so that crossing refreshes
and stale prunes happen there too, but lets a collector read all the records in one
step; `LeaseStore` reads them one by one and measures the files against their promise
(`LeaseRegister`). `PublishGC` takes the object store to have atomic puts, as S3 has;
`FsBlobStore` shows what a file put really does.

### PublishGC

| Model | Code |
|---|---|
| `ppc`: idle, leasing, opening, filling, lost, probing, uploading, verifying, saving, done | `planManifest` and `commitManifest` (`core` 196-250), `publishDirectory` (252-275), `remotePublishResult` (`remote` 146-171) |
| `LeaseRead`, `LeaseOpen`, `LeaseFill`, `LeaseLost` | one digest of `leaseManifestDigests` (`core` 109), `refresh` (`fs` 204-226): the record is read and the expiry decided, the file is emptied, it is filled; or the file it opened has been unlinked |
| `lease`, `torn`, `draft` | the last whole record of a digest, whether its file is empty at present, what a refresh is about to write |
| `PruneLease`, `LeasesUnreadable` | `pruneExpired` unlinks what it listed, `list` refuses a record it cannot parse |
| `PlanProbe`, `PlanAnswer` | the loop of `planManifest`, its response |
| `Upload`, `UploadRefused` | the upload route (`server` 164-183) |
| `VerifyBlob`, `EnsureSite`, `SaveRelease` | the gate and the writes of `commitManifest` |
| `gpc`, `round` and the collector's actions | `collectGarbage` (`gc` 109-197), `markReleaseDigests`, `markLeasedDigests` |
| `GiveUp`, `AbortPass` | a throw, a lost answer or a dead process, at any point |
| `exposure` | history only: the first reason for which a publisher's blobs may have lost protection |

`Kind` selects the code path: `http`, `library` (`publishDirectory` given a lease
store), `cli` (`publishDirectory` without one, which is what the CLI does) and
`import`. Abandoning a publish drops its grants: a client that starts over does
not upload under an old plan, although an old grant may be used until it expires
by the publish it was made for. A verification that could not be carried out is a
`GiveUp`. Report counters are left out.

`exposure` is what lets a property say *within its lease* without assuming it:

- `unleased`: the code path takes no lease;
- `late`: the lease was taken when a sweep had already condemned the digest;
- `lapsed`: the lease ran out before the release was stored;
- `gap`: the release was stored after the re-mark had read its site, and its lease
  ran out before the re-mark read the leases;
- `crossed`: when the lease was written, another refresh of the digest had already
  read its record and was going to write less, or a prune had already listed it
  (`Crossed`); or its record was emptied by one refresh and read, empty, by another
  that asked for less.

`crossed` does not look at what happens to the record: it is set when the lease is
written, or when its record is caught empty, and `LeasesHeld` then says that nothing
else takes a lease away. A refresh that begins later reads the record and keeps the
longer expiry; a prune that begins later does not list it until it has run out. A
publisher that dies between emptying and filling leaves the record empty, which
fails every mark until somebody refreshes it.

`gone` is a history of the same sort for the collectors: the leases that were in
force when a collector started and that have been pruned since, or cut short by a
refresh that had read an older record. `SweepComplete` lets a completed sweep leave
an object only for a reason in `Excused`: something references it, it is too young or
was rewritten since, a lease reaches past the start, or such a lease is in `gone`.

### LeaseRegister and LeaseStore

`LeaseRegister` is the abstract specification: per digest an instant up to which
it is protected, which moves forward, or anywhere once it has passed. `LeaseStore`
has a file per digest (`none`, `torn`, `whole`), refreshers that read, truncate
and write one digest at a time, and readers that list names, read each and, when
pruning, unlink. `NeverShortened` instantiates the register with the last whole
record. It is violated (section 6), so a second instance, `ShortenedOnlyByRaces`,
says how far the promise does hold: with `sure`, which follows the record until
the first crossing of two calls on that digest, as the protection. `due[g]` are the
digests protected when reader g listed the names, `gone[g]` those of them whose
record was unlinked before g had its answer.

### SiteMetadata

`index`, `record` and `release` are the three kinds of file; `Torn` is one that
has been emptied and not refilled. `ReadIndex` and `ReadRecord` are the two reads
of `getSite`, which a commit does three times: in the route (for the
authorization scope), in `commitManifest`, and in `createSite`. `OpenFile` and
`WriteFile` are the two halves of `writeJson`; `AfterWrite` is the order of the
files. `Crash` ends a process between any two steps. The scan is
`markReleaseDigests` over `listSites` and `listAllReleases`. All writes of one file
have the same length here, so that two writers do not leave a mixture of both.
Random identifiers are modelled by naming a site and a release after the request
that makes them. The initial state has a site for the slug or has none. `held[w]` is
a history: the sites that requests for the slug had found or were making when w first
wrote its own site's index. Two first publishes that race are in each other's `held`,
and either may end up with the slug (section 6, 4); `SiteIsStable` says that nobody
else ever does, so that a site made alone, at the start or in the run, stands for good.

### FsBlobStore

One digest. A file is named by the put that created it, so that `rm` followed by a
`put` is a different file and whoever has the old one open still reads it. `Has`,
`Lstat`, `OpenToRead`, `Read`, `ReadEnd` are the steps of `has`, `verifyBlob` and
`get`; `Create` truncates, `Write` adds a piece. `Decide` is what the callers do
with a verification's outcome: before the gate a missing or corrupt object is
(re)written, at the gate only a verified one passes. A remote publisher (plan, PUT,
commit) and `publishDirectory` are the same machine per blob; `import` trusts what
exists and leaves the rest to the gate; `replay` is an upload whose grant is used
again. The bytes written are the right ones, because the upload route, the packer
and the importer have hashed them; the blob is not empty.

### Auth and ControlPlane

| Model | Code |
|---|---|
| `CreateToken`, `VerifyWithKey`, `Authorize` | `packages/server/src/auth.js` 112-213, one conditional per check, in its order |
| `cli[p].pc`: start, plan, upload, sent, commit, asked, done, failed | one command of the CLI (`remote` 61-186) |
| `srv[p].pc`: `plan.body`, `plan.has`, ..., `commit.point` | the handler (`server` 129-228), named for the await it is in |
| `PlanBody`, `PlanHas`, `PlanHead`, `PlanGet`, `Mint`, `Advance` | the plan route and the loop of `planManifest` (`core` 196-234) with `uploadFactory` |
| `UploadOpens`, `UploadBody`, `UploadPut` | the upload route before its body, after it, and the store's put |
| `CommitBody` to `CommitPoint` | the commit route and `commitManifest` (`core` 236-249) |
| `HeadVerdict`, `GetVerdict` | `S3BlobStore.verifyBlob` with enforced and with advisory checksums |
| `PutStatus`, `PutLeaves` | the provider's side of a presigned PUT (external) |
| `Lose`, `Resend`, `ProviderFails`, `Unread` | a lost or unusable answer, an upload delivered again, a provider error |

One action is what a process does between two awaits, so the clock, the collector
and other publishers move between any two. A client that has given up does not
stop its handler. The store holds for each key one of six contents, which tell
apart what the code can tell apart: present or not, right bytes or not, right
length or not, checksum metadata or not. `OperatorKeepsContract` is the part of the
contract `docs/integrity.md` puts on the operator; `TokensAreMinted` says signed
tokens came from `createToken`.

### Origins, OciLayout, S3Listing, TlsRegistry

`Origins` goes from the environment to the announcement (`server` 456-503) and has
the host binding and the dispatchers as operators on it. Host names are sequences of
labels, so that the suffix rules of `content-host.js` are statements about sequences.
`ListenerError` may strike a bound listener at any time.

`OciLayout` has one exporter, which empties and fills the files of a layout in the
order of `Writes`, may die at each, and may begin again over what is there; and one
reader, which reads the files one at a time meanwhile. Layouts made by others
are initial states (`Found`): ambiguous references, layers without paths, twice the
same path, foreign artifacts.

`S3Listing` has pages, continuation tokens and other processes that add and delete
keys meanwhile. The code searches a body for its elements and does not check that it
is a listing. `Faulty` are the answers it refuses: no answer or an error status, a key
that is no XML text, a blob's size or time that is none, a truncated page whose token
is missing, empty or garbled, a token given before (refused after `MaxPages` at the
latest). `Silent` are the answers of status 200 it takes at their word: entries without
a `<Key>` are skipped, and without `<IsTruncated>` the listing is over, so that a body
that is no listing at all is an empty and complete one. `withheld` records what such an
answer passed over, and `ListingIsComplete` says that nothing else is missing. An answer
that names keys which are not there is left out.

`TlsRegistry` counts what is left of each time: `budget` to the readiness deadline,
`timer` to the one timer that is pending. A timer that is due fires when the event
loop comes to it, which is what makes late answers possible. The child may answer,
err, hang, die, and ignore SIGTERM; tools may hang.

## 3. What is checked

Invariants unless marked (p), a temporal property.

| Run | Checks | Shows |
|---|---|---|
| `publish_shared` | `TypeOK` `ReleasesIntact` `PlanKept` `LeasesHeld` `RootsNeverSwept` | Two publishers, remote and library, that share a blob, its lease and a site, beside a collector that prunes. |
| `publish_live` | `ReleasesIntact` `PlanKept` `SweepComplete` `PublishCompletes` (p) | One publisher of two blobs, retrying, beside a collector that prunes. |
| `publish_gap` | `CommittedBlobsKept`, violated | Section 6, 1. |
| `publish_cli` | `LocalPublisherKept`, violated | Section 6, 2. |
| `lease_store` | `TypeOK` `ActiveComplete` `ShortenedOnlyByRaces` (p) | Two refreshers of a digest with two lifetimes, which may die, and a reader that prunes. |
| `lease_overlap` | `NeverShortened` (p), violated | Section 6, 3. |
| `site_mixed` | `TypeOK` `PointerNeverDangles` `IndexNeverDangles` `ScanComplete` `SiteIsStable` `OnlyAskedForIsActive` `ServedReleaseIsThere` | A publish, a stage, an activation, a request for content and a scan on one slug, with crashes. |
| `site_race` | `FirstPublishStands`, violated | Section 6, 4. |
| `blob_mixed` | `TypeOK` `WholeWhenQuiet` `FailureIsDisturbance` `CommitIsSound` (p) | A publish, an import, a replayed upload and a sweep of one blob, with crashes. |
| `blob_replay` | `ServedIsWhole`, violated | Section 6, 5. |
| `control_routes` | `TypeOK` `CommittedIsWhole` `GrantsInForce` `BodiesDoNotExtend` `EffectsPermitted` `ReadyToCommit` `BlameIsRight` `WholeStaysWhole` (p) `PlansInForce` (p) | Two commands against the routes and an S3 store, over some forty scenarios of deployment, token, manifest and store. |
| `periphery_settles` | `PeripheryTypeOK` `NoHalfDeployment` `HostReachesOneSite` `LayoutReadsExactly` `ListingIsComplete` `ReadyMeansReady` `FailureLeavesNothing` `Settles` (p) | The four parts around the store, one per behaviour. |

Every property of a passing run has a mutant in `PROJECT.json`: a plausible bug
in one mapped definition, under which TLC finds the property violated.

### Bounds

- *Clock 0..3, lease 2, grant 1, grace 1.* Enough for a grant to expire inside a
  lease, a lease to expire inside a pass, an object to be younger than, exactly as
  old as and older than the cutoff, and a lease to be exactly at its expiry.
  `publish_shared` has the clock 0..2: two refreshes can ask for different expiries and
  cross, and a lease can run out at 2, be listed by a prune, be renewed, and be
  unlinked.
- *One or two publishers, one collector.* Publishers interact through the blob and the
  lease of a shared digest, which two show. Collectors interact with each other through
  the blobs and leases they remove; the proofs of section 4 hold for any number of them.
- *One site.* Sites are marked one at a time, and a release stored during the
  marking may fall on either side of its own site's turn, which one site shows;
  the proofs cover any number.
- *Two digests where loops matter* (`publish_live`), one where publishers share it.
- *One digest in `LeaseStore`*: its records are independent, each step touches one.
- *One slug in `SiteMetadata`*: slugs share no file. Five requests with the seed.
- *`control_routes`: two publishers, two digests, clock 0..3, grant 2.* Tokens of
  lifetime 2 and 9: one expires inside a plan, a body or a grant, the other never.
  The manifest of three files names one digest twice. `Scenes` in `MCControlPlane`
  lists the deployments (mediated and direct uploads, enforced and advisory
  checksums, development mode), the tokens (forged, respelt, garbled, missing
  capabilities, wrong site, twice the header) and what the store holds at first.
  Publishers interact through the store and the site's pointer.
- *`periphery_settles`*: two listeners are all there are; hosts include the base
  domain, a child, a grandchild, pins, a slug that is no DNS label; two exports with
  one read, so that a read may meet an export over an older layout; four keys,
  two of them blobs, on pages of two, with two pages more than needed and two foreign
  changes; a
  registry with a budget of four ticks, two probes of two or one with a delay.
- *Two pieces per blob*, so that a file can be empty, partial, holed and whole;
  proofs cover any length.

`CHECK_DEADLOCK FALSE` is in every configuration because the models end: the
clock is bounded and each request, command and process is carried out once.

### Fairness

`FairSpec` of `PublishGC` states weak fairness of each publisher's next
step. A publisher is a client that retries and the server that answers it; each
goes on with the step it has reached and nothing blocks it. Collectors have no
fairness, an operator starts them. `Healthy` leaves out deaths and lost answers
(`GiveUp`, `AbortPass`) but keeps every refusal the code makes: a failed gate and
an expired grant send the publisher back to planning. `PublishCompletes` depends
on the clock being bounded in one respect: a publisher that is so slow that its
grant expires on each attempt would retry for ever, and the bound ends that.

`MCPeriphery` states weak fairness of what the Node event loop runs by itself:
handlers, due timers, `listen` reporting one way or the other, the close event of a
process that has ended, the end of a process sent SIGKILL, and time. None is assumed
of what the outside may withhold: a child's answer, a tool's end, a child's reaction to
SIGTERM, a caller's `stop`. `Settles` therefore says that the timeouts of the code are
enough by themselves. Each action under weak fairness stays enabled until it is taken
or its purpose is gone, and a timer once due stays due.

## 4. What is proved

TLAPS checks, for every value of the constants that satisfies the named assumptions
of the modules, all of which TLC evaluates in the runs:

| Module | Theorem | Property |
|---|---|---|
| `PublishGCProofs` | `TypeCorrect`, `RootsAreSafe`, `SweepsAreComplete` | `TypeOK`, `RootsNeverSwept`, `SweepComplete` |
| `PublishGCIntact` | `LeasesAreHeld`, `PlansAreKept`, `ReleasesStayIntact` | `LeasesHeld`, `PlanKept`, `ReleasesIntact` |
| `LeaseStoreProofs` | `LeaseTypeOK`, `ActiveIsComplete`, `RegisterUpToRaces` | `TypeOK`, `ActiveComplete`, `ShortenedOnlyByRaces` |
| `LeaseStoreProofs` | `CalmNeverShortens` | `NeverShortened`, where refreshes share no digest, none dies and nobody prunes |
| `SiteMetadataProofs` | `TypeCorrect`, `PointersHold`, `IndexesHold`, `ScansAreComplete`, `ServedReleases`, `OnlyAskedForActivates`, `SitesStand` | the seven of `site_mixed` |
| `FsBlobStoreProofs` | `TypeCorrect`, `WritersRestore`, `PublishRepairs`, `GateIsSound` | `TypeOK`, `WholeWhenQuiet`, `FailureIsDisturbance`, `CommitIsSound` |
| `ControlPlaneProofs` | `TypeCorrect`, `ReleasesStayWhole`, `BytesOnlyImprove`, `PlansSuffice` | `TypeOK`, `CommittedIsWhole`, `WholeStaysWhole`, `ReadyToCommit` |
| `ControlPlaneProofs` | `GrantsDieWithTokens`, `PlansAreAuthorized`, `SlowBodiesGainNothing`, `EffectsHaveAuthority`, `BlameIsTrue` | `GrantsInForce`, `PlansInForce`, `BodiesDoNotExtend`, `EffectsPermitted`, `BlameIsRight` |
| `PeripheryProofs` | `DeploymentsAreWhole`, `HostsReachOneSite`, `ListingsAreComplete`, `ReadyIsReady`, `FailuresAreClean` | `NoHalfDeployment`, `HostReachesOneSite`, `ListingIsComplete`, `ReadyMeansReady`, `FailureLeavesNothing` |
| `PeripheryProofs` | `PartsAreThemselves`, `PeripheryTypes` | the composition behaves as each part alone; `PeripheryTypeOK` |
| `OciLayoutProofs` | `LayoutTypeCorrect`, `ReadsAreExact` | `LayoutTypeOK` (part of `PeripheryTypeOK`), `LayoutReadsExactly` |

The assumptions:

- `ConstantsOK` (three modules), `JobsAreWellFormed`, `NamesAndAnswers`,
  `ListingBounds`, `RegistryTimes`: constants have their types, times and sizes are
  natural numbers, names differ from the values that mean none.
- `LayoutConstantsOK`, `ExportsHaveImages`: what an OWA manifest lists has distinct
  paths, none of them empty, which `validateManifest` demands; descriptors and layers
  have their fields; what an export would write as the OCI manifest has a name. A
  digest may be a manifest's and a file's at once.
- `ManifestsNonempty`, `OneSeed`, `MarksDiffer`: a manifest names a blob; a slug has at
  most one site at first; the marks of files are distinct values.
- `OperatorKeepsContract`: where direct uploads or checksum evidence are switched on,
  the provider enforces checksums and create-once. `docs/integrity.md` makes this the
  operator's part; the theorems about bytes need it, as the code does.
- `TokensAreMinted`: what is signed came from `createToken`. No proof uses it.

The arguments:

- **Roots.** `RootsNeverSwept` is not inductive: it speaks of a sweep, whose marks
  were taken earlier. `RootsInv` adds that while the re-mark is under way, every
  release in `roots` is filed under a site still pending or has its digests
  marked; that needs a stored release to have a stored site.
- **Leases and releases.** `ReleasesIntact` says nothing of a publisher between its
  plan and its release. `IntactInv` follows the protection through. What a refresh is
  about to write reaches as far as its publisher asked (`Drafts`). The lease of a
  publisher whose refresh nothing crossed `Stands`: its record reaches as far as was
  asked, whatever any refresh is about to write there does too, and no prune is about to
  unlink it (`Covered`). The record alone is not inductive: the next fill and the next
  unlink depend on reads made before them, and these two clauses are what those reads
  must have found. A refresh that reads a whole record keeps them (the longer expiry
  wins); one that reads an emptied record breaks them only where it exposes. A publisher
  under way and not exposed is within its lease
  (`InTime`), so that a final re-mark sees the record; what a sweep will delete is
  therefore no such publisher's (`Spared`); and what it has found or written stays
  where it is (`Held`). The causes of exposure are exactly the steps at which one
  of these links can break.
- **What a sweep reclaims.** `ReclaimInv` says that a mark names only what a release
  references or what was leased past the start, and that from the choice of the
  candidates on whatever is stored and is no candidate is `Excused`. Reasons last
  (`ExcuseLasts`): releases and records are only added to, a prune leaves its trace in
  `gone`, as does a refresh that cuts a record short, and what is rewritten is newer than
  the start. The first version of the
  property did not speak of other collectors, and its proof failed at their prune: with
  two of them that prune it was false, and TLC finds the counterexample once a second
  collector is added to `publish_live` with one digest and no grace.
- **The lease files.** `LeaseInv` speaks of digests not in `raced`. For those the
  histories are the files' (`Agrees`), a refresher that holds a digest is the only one
  and is about to write no less than what is there (`Held`), and a reader has, or still
  has to read, a whole record of everything it owes an answer (`Answers`). Every write
  is then a step of the register: `Held` makes it an extension, a first crossing freezes
  `sure`, and what else touches a record leaves it. `Answers` failed without `gone` for
  the reason given in the last observation of section 6. `CalmNeverShortens` takes the three causes of
  crossing away, and what the documents promise follows without reservation.
- **Metadata.** `DiskInv` ties the files to the requests that are writing them: a
  record's pointer names a release already stored whole, because the release is
  written before any record names it and never rewritten. `ScanInv` is the scan's obligation:
  a release owed is marked, or listed, or under a site still to be listed.
  `AskedInv` and `StandInv` do the same for what is active and for the site: every
  request for the slug has a site of `held` in hand or none (`Standing`), and one that
  has none finds one, because a site in hand has its record before its index (`Looking`)
  and a torn index fails the request.
- **A blob's file.** Writers empty each other's file, so wholeness is not
  inductive. `HealInv` says that a piece which is missing is still to come from a
  writer under way at or before that piece (`Healing`), or that nobody has emptied
  the file yet and what has been read of it is true of it (`Faithful`). It holds as
  long as no process dies and nothing is deleted (`Calm`), which the property's
  antecedent says.
- **A gate nobody disturbs.** `AloneInv` follows one process while no other writes or
  deletes: what it has read is in the file it has open, what it has written is the
  prefix of the file at the key, and once it is at the gate the file is whole. Another
  process's step either disturbs it or leaves all of this alone (`OthersAlone`). So the
  verdict is about one file, whose length and bytes agree (`VerdictAlone`).
- **The control plane.** `IInv` is what everybody shares (`Shared`), what holds of one
  publisher's process and handler (`Local`), and what holds of every grant ever
  issued, every stored release and every pointer (`Backed`, `Filed`, `Pointed`). The
  local part has six conjuncts: types; which handler a waiting client has (`Paired`);
  the authority behind what the handler holds (`Authorized`); what its loop has dealt
  with so far (`HandlerHolds`: every digest before the loop's index is whole or has a
  grant, respectively is whole and declared right); what the client relies on
  (`ClientHolds`); and that what it was told is true (`Blame`). Every action of p is
  shown to be `Sound(p)`: it restores p's own part, mints only backed grants, and is
  `Steady` towards everybody else, which means that the clock, the leases and the
  releases only grow and that a key's bytes stay, become proven, or are deleted
  outside every lease. `LocalFrame` shows once that a `Steady` step keeps the part of
  anyone it does not touch; the collector and the clock are `Steady` as well. Two links
  are easy to miss. A 412 says that the blob is whole only because a create-once grant
  is minted for a key that is empty, and an empty key can only become whole
  (`Credible`). And a loop over a set of digests reaches each of them because it steps
  from each first occurrence to the next (`FirstOfEach`, `FollowingMeans`), which
  needs the least element of a set of indices; that the size recorded for a digest is
  each file's own needs the greatest (`DeclaredSize`).
- **Listeners and hosts.** `GroupInv` says what the listeners, the announcement and the
  exit code are in each phase; `HostsInv` that a group that binds has hosts without
  overlap, from which the dispatch follows by reasoning on labels.
- **A layout.** `ExportInv` says that all files before the k-th write are in place, the
  one that is open excepted, which may be a file written before (two entries of one
  digest), and that the index is what it was, torn, or final (`Progress`, `Complete`).
  `ReadInv` counts the layers used: each file took exactly one new one
  (`OneCandidate`, which needs the paths of layers to be distinct), so that after k - 1
  files there are k - 1 layers. For a read that began after an export completed and
  asks for its ref (`Sure`), every check succeeds and the layers used are 1 .. k - 1.
- **The composition.** A step of `MCPeriphery` is a step of one part that leaves the
  variables of the others alone, hence a step or a stutter of each.
- **A listing.** `ListingInv` says that what was there throughout and lies at or before
  the continuation token has been found or was withheld, and that an answer under way
  continues from there, but for what it withholds, or will be refused. That a page's last key exists is a greatest element of a finite set.
- **The registry.** `StartInv` says which processes there may be at each point, and that
  an answer under judgement arrived with at least the budget that is left now.

Only model-checked: liveness under fairness (`PublishCompletes`, `Settles`), which is out
of this prover's reach. Every invariant and every action property of a passing run is
also a theorem. The theorems of the part of the system that `MCPeriphery` composes are
about the parts' own specifications; `PartsAreThemselves` carries them over.

## 5. What is not modelled, and why

- *Packing, request paths, manifest validation, canonical JSON, the Go runner*: pure
  functions of text or of a directory, without state and without order. What they
  decide is spelling, which a model would have to abstract away; the repository
  compares the two implementations by test vectors.
- *The MCP adapter*: a stateless client, each of whose tools is one request or a few
  to routes that `ControlPlane` has.
- *Response headers, rate limits, audit lines, body limits, request signing, printing,
  report counters*: none of them changes what the properties speak of.
- *Test harnesses and CI scripts*, but for the test registry, whose start and stop are a
  state machine of their own.
- Within the modelled parts: symbolic-link checks, permission errors other than as a
  failure at any point, response bodies, the shape checks of answers and URLs in the
  client, the expiry of an artifact in `serveSite`, and the content of manifests
  beyond their digests, sizes, paths and types.

## 6. Where the code and its documents disagree

1. **The lease may expire once the release exists** (`docs/gc.md` 108). The final
   re-mark reads releases (`gc` 181) and then leases as of a later instant (182).
   A release stored between the reading of its site and the reading of the leases,
   whose lease expires there, is in neither mark.
2. **The local publisher is protected too** (`docs/gc.md` 105). True of
   `publishDirectory`, not of the CLI, which passes it no lease store.
3. **Protection is never shortened** (`fs` 200). `refresh` computes an expiry from
   a record it read before another refresh rewrote it, and `pruneExpired` unlinks
   what an older listing read as expired. `LeasesHeld` says how far the damage goes:
   a lease can be lost only to a call that was under way when it was written, or that
   caught it empty.
4. **A slug's first publish** (`README.md`). Two first commits each find no site
   and make one; the later index makes the earlier site and its pointer
   unreachable. Its releases are still listed by the collector (`ScanComplete`), and
   nothing that comes later replaces a site (`SiteIsStable`).
5. **A replay can only restore identical content** (`docs/integrity.md` 252). It
   can; but it empties the file first, and a reader meanwhile is served less.

Observations without a run:

- The age of an object is the one its listing reported, so that an orphan rewritten
  during the pass by a publisher without a lease is deleted young.
- A listing page of status 200 that is no listing, or lacks `<IsTruncated>` (S3 store,
  304), ends `listBlobs` as if it were complete. Its only caller, the collector, then
  misses candidates until its next pass.
- `docs/integrity.md` 320 has a provider answer 412 to a used create-once grant before it
  looks at the checksum, and its measured table (132) has a 400 for wrong bytes under a
  grant; `PutStatus` takes the first. Either leaves the object as it is.
- `import-oci` counts a corrupt object as present, so that no repetition of the import
  repairs it, while a publish does.
- A slug with an underscore or a hyphen at its end is a site (`isSiteScope`) and gets a
  canonical content URL, but `parseHostHeader` answers that very host with 400, since
  `DOMAIN_LABEL` (`content-host.js` 12, 72) does not have those. `HostReachesOneSite`
  says the round trip for slugs that are DNS labels.
- An error a listener emits between its bind and the end of the group's start is
  swallowed: the `once` handler (`server` 429) has already reported. `missed` follows
  it; the group goes up, and `NoHalfDeployment` is about what the code knows.
- An export over an existing layout empties the blobs the old index still names, so
  that a crash can damage the old layout; the next export that completes heals it,
  which `LayoutReadsExactly` says.
- `docs/gc.md` 46 promises "every unexpired publish lease at T0". `active(asOf)` compares
  each record with `asOf` when it comes to it. A lease unexpired at `asOf` that runs out,
  is pruned by another collector and is written again with an older expiry, by a refresh
  that stalled longer than its lifetime, is missing from an answer that reports no error.
  Nobody within a lease loses anything by it; `ActiveComplete` states what remains true.

## 7. Plan

Done: every part with state, in the order of what a loss would cost. Left:

1. A composition in which `ControlPlane`'s leases expire and its `Sweep` is `PublishGC`'s
   collector, if its state space allows.
2. Request paths and manifest path rules as operators against reference definitions over
   bounded inputs, should a way be found to state them that is not their text.
