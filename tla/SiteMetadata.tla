---------------------------- MODULE SiteMetadata ----------------------------
(***************************************************************************)
(* FilesystemMetadataStore under concurrent requests and crashes.          *)
(*                                                                         *)
(* A slug's index file names its site; the site's record holds the active  *)
(* release; each release is a file under its site.  Publishing, staging    *)
(* (activate: false), activating and serving interleave at every read and  *)
(* at every write, and a write empties its file before it fills it, so     *)
(* that a reader may find a torn one.  A collector lists all of it and     *)
(* fails closed.                                                           *)
(*                                                                         *)
(* Site ids and release ids are random: the site and the release a request *)
(* makes are named by the request.                                         *)
(***************************************************************************)
EXTENDS Naturals, FiniteSets

CONSTANTS
    Slug,
    Worker,         \* requests, each carried out once
    Kind,           \* Kind[w]: what w does; a seed was a publish, long over
    SlugOf,         \* SlugOf[w]: the slug w is about
    Crashes,        \* processes may die between two steps
    Scans,          \* a collector may mark releases
    Absent, Torn, Null, Whole

Kinds == {"seed", "publish", "stage", "activate", "serve"}

ASSUME ConstantsOK ==
    /\ Kind \in [Worker -> Kinds]
    /\ SlugOf \in [Worker -> Slug]
    /\ Crashes \in BOOLEAN /\ Scans \in BOOLEAN

\* A slug has at most one site to begin with.
ASSUME OneSeed == \A v, w \in Worker :
    Kind[v] = "seed" /\ Kind[w] = "seed" /\ SlugOf[v] = SlugOf[w] => v = w

ASSUME MarksDiffer ==
    /\ {Absent, Torn, Null, Whole} \cap Worker = {}
    /\ Absent # Torn /\ Absent # Null /\ Absent # Whole
    /\ Torn # Null /\ Torn # Whole

VARIABLES
    index,      \* index[s]: Absent, Torn, or the site id it holds
    record,     \* record[i]: Absent, Torn, or site i's activeReleaseId
    release,    \* release[r]: Absent, Torn or Whole
    pc,         \* pc[w]: where request w is
    mine,       \* mine[w]: the site w works on; w's release is filed there
    chosen,     \* chosen[w]: the release w makes active, or serves
    open,       \* open[w]: w has emptied the file it is about to fill
    held,       \* history, held[w]: the sites in hand for w's slug when w first
                \* wrote its own site's index, {} if w has not
    scan,       \* where the collector is
    sitesLeft,  \* sites whose record the collector has yet to read
    dirsLeft,   \* sites whose releases it has yet to list
    filesLeft,  \* releases it has yet to read
    roots,      \* releases it has marked
    owed        \* history: the releases stored whole when it started

diskVars == <<index, record, release>>
reqVars  == <<pc, mine, chosen, open, held>>
scanVars == <<scan, sitesLeft, dirsLeft, filesLeft, roots, owed>>
vars     == <<diskVars, reqVars, scanVars>>

Commits(w) == Kind[w] \in {"publish", "stage"}
Lookups == {"route", "find", "create"}
Writes  == {"newRecord", "newIndex", "release", "record", "index"}
Ended   == {"done", "failed"}

Goto(w, phase) == pc' = [pc EXCEPT ![w] = phase]

-----------------------------------------------------------------------------
(* getSite: read the slug's index, then the record it names.               *)

\* createSite writes the record first.  (Mutant: it writes only the index.)
IndexOnly == "newIndex"
FirstFile == "newRecord"

\* What a request does once it knows its site, or that there is none.
AfterLookup(w, found) ==
    CASE pc[w] = "route" -> "find"
      [] pc[w] # "route" /\ found ->
           IF Commits(w) THEN "release" ELSE "getRelease"
      [] pc[w] = "find" /\ ~found -> IF Commits(w) THEN "create" ELSE "failed"
      [] pc[w] = "create" /\ ~found -> FirstFile

\* The site a request holds after a lookup that found nothing: createSite makes
\* one with a fresh id.  (Mutant: it is kept as null.)
NullSite(w) == Null
NoSite(w) == IF pc[w] = "create" THEN w ELSE Absent

\* An index that does not parse fails the request.  (Mutant: it counts as none.)
LenientIndex(s) == IF index[s] = Torn THEN Absent ELSE index[s]
SeenIndex(s) == index[s]

ReadIndex(w) ==
    LET i == SeenIndex(SlugOf[w])
    IN /\ pc[w] \in Lookups /\ mine[w] = Absent
       /\ CASE i = Torn   -> Goto(w, "failed") /\ UNCHANGED mine
            [] i = Absent -> /\ Goto(w, AfterLookup(w, FALSE))
                             /\ mine' = [mine EXCEPT ![w] = NoSite(w)]
            [] i \in Worker -> mine' = [mine EXCEPT ![w] = i] /\ UNCHANGED pc
       /\ UNCHANGED <<diskVars, chosen, open, held, scanVars>>

ReadRecord(w) ==
    LET a == record[mine[w]]
    IN /\ pc[w] \in Lookups /\ mine[w] # Absent
       /\ CASE a = Torn   -> Goto(w, "failed") /\ UNCHANGED <<mine, chosen>>
            [] a = Absent -> /\ Goto(w, AfterLookup(w, FALSE))
                             /\ mine' = [mine EXCEPT ![w] = NoSite(w)]
                             /\ UNCHANGED chosen
            [] OTHER ->
                 /\ Goto(w, IF Kind[w] = "serve" /\ a = Null
                              THEN "failed" ELSE AfterLookup(w, TRUE))
                 /\ mine' = IF pc[w] = "route" THEN [mine EXCEPT ![w] = Absent]
                                               ELSE mine
                 /\ chosen' = IF Kind[w] = "serve" /\ a # Null
                              THEN [chosen EXCEPT ![w] = a] ELSE chosen
       /\ UNCHANGED <<diskVars, open, held, scanVars>>

\* getRelease under the site in hand: an activation needs the release it is
\* asked for, a request for content the one the record named.
Filed(r, i) == release[r] # Absent /\ mine[r] = i

ReadRelease(w) ==
    /\ pc[w] = "getRelease"
    /\ Goto(w, IF Filed(chosen[w], mine[w]) /\ release[chosen[w]] = Whole
                 THEN IF Kind[w] = "serve" THEN "done" ELSE "record"
                 ELSE "failed")
    /\ UNCHANGED <<diskVars, mine, chosen, open, held, scanVars>>

-----------------------------------------------------------------------------
(* writeJson: empty the file, then fill it.                                *)

\* The file w writes in its phase gets contents v (a record written by
\* createSite has no active release yet).
Put(w, v) ==
    /\ index' = IF pc[w] \in {"newIndex", "index"}
                  THEN [index EXCEPT ![SlugOf[w]] = IF v = Torn THEN v ELSE mine[w]]
                  ELSE index
    /\ record' = CASE pc[w] = "newRecord" ->
                        [record EXCEPT ![w] = IF v = Torn THEN v ELSE Null]
                   [] pc[w] = "record" ->
                        [record EXCEPT ![mine[w]] = IF v = Torn THEN v
                                                               ELSE chosen[w]]
                   [] OTHER -> record
    /\ release' = IF pc[w] = "release" THEN [release EXCEPT ![w] = v] ELSE release

\* The sites the requests for slug s have found there or are making.
InHand(s) == {mine[x] : x \in {v \in Worker : SlugOf[v] = s /\ pc[v] \notin Ended}}
             \ {Absent}

OpenFile(w) ==
    /\ pc[w] \in Writes /\ ~open[w]
    /\ Put(w, Torn)
    /\ open' = [open EXCEPT ![w] = TRUE]
    /\ held' = IF pc[w] = "newIndex" THEN [held EXCEPT ![w] = InHand(SlugOf[w])]
                                     ELSE held
    /\ UNCHANGED <<pc, mine, chosen, scanVars>>

\* createSite writes the record, then the index; then the release is stored;
\* then saveSite writes the record and the index, unless the commit is staged.
\* (Mutants: the pointer moves first; a staged commit moves it too.)
PointerFirst(w) ==
    CASE pc[w] = "newRecord" -> "newIndex"
      [] pc[w] = "newIndex"  -> IF Kind[w] = "stage" THEN "release" ELSE "record"
      [] pc[w] = "record"    -> "index"
      [] pc[w] = "index"     -> IF Kind[w] = "publish" THEN "release" ELSE "done"
      [] pc[w] = "release"   -> "done"
AlwaysActivates(w) ==
    CASE pc[w] = "newRecord" -> "newIndex"
      [] pc[w] = "newIndex"  -> "release"
      [] pc[w] = "release"   -> "record"
      [] pc[w] = "record"    -> "index"
      [] pc[w] = "index"     -> "done"
AfterWrite(w) ==
    CASE pc[w] = "newRecord" -> "newIndex"
      [] pc[w] = "newIndex"  -> "release"
      [] pc[w] = "release"   -> IF Kind[w] = "stage" THEN "done" ELSE "record"
      [] pc[w] = "record"    -> "index"
      [] pc[w] = "index"     -> "done"

WriteFile(w) ==
    /\ pc[w] \in Writes /\ open[w]
    /\ Put(w, Whole)
    /\ Goto(w, AfterWrite(w))
    /\ open' = [open EXCEPT ![w] = FALSE]
    /\ UNCHANGED <<mine, chosen, held, scanVars>>

\* The process dies; a file it had emptied stays so.
Crash(w) ==
    /\ Crashes /\ pc[w] \notin Ended
    /\ Goto(w, "failed")
    /\ open' = [open EXCEPT ![w] = FALSE]
    /\ UNCHANGED <<diskVars, mine, chosen, held, scanVars>>

-----------------------------------------------------------------------------
(* listSites and listAllReleases, as markReleaseDigests calls them.        *)

StartScan ==
    /\ Scans /\ scan = "idle"
    /\ scan' = "scanning"
    /\ sitesLeft' = {i \in Worker : record[i] # Absent}
    /\ dirsLeft' = {i \in Worker : record[i] # Absent}
    /\ owed' = {r \in Worker : release[r] = Whole}
    /\ UNCHANGED <<diskVars, reqVars, filesLeft, roots>>

\* A record that does not parse stops the scan, which returns nothing then.
Stop ==
    /\ scan' = "stopped"
    /\ sitesLeft' = {} /\ dirsLeft' = {} /\ filesLeft' = {}
    /\ roots' = {} /\ owed' = {}

ScanSite(i) ==
    /\ scan = "scanning" /\ i \in sitesLeft
    /\ IF record[i] = Torn THEN Stop
       ELSE /\ sitesLeft' = sitesLeft \ {i}
            /\ UNCHANGED <<scan, dirsLeft, filesLeft, roots, owed>>
    /\ UNCHANGED <<diskVars, reqVars>>

\* The releases of a site are listed once, after every site's record is read.
\* (Mutant: only the active release is.)
ActiveOnly(i) == {r \in Worker : Filed(r, i) /\ record[i] = r}
ReleasesUnder(i) == {r \in Worker : Filed(r, i)}

ListReleases(i) ==
    /\ scan = "scanning" /\ sitesLeft = {} /\ filesLeft = {} /\ i \in dirsLeft
    /\ dirsLeft' = dirsLeft \ {i}
    /\ filesLeft' = ReleasesUnder(i)
    /\ UNCHANGED <<diskVars, reqVars, scan, sitesLeft, roots, owed>>

ScanRelease(r) ==
    /\ scan = "scanning" /\ r \in filesLeft
    /\ IF release[r] = Torn THEN Stop
       ELSE /\ roots' = roots \cup {r} /\ filesLeft' = filesLeft \ {r}
            /\ UNCHANGED <<scan, sitesLeft, dirsLeft, owed>>
    /\ UNCHANGED <<diskVars, reqVars>>

EndScan ==
    /\ scan = "scanning" /\ sitesLeft = {} /\ dirsLeft = {} /\ filesLeft = {}
    /\ scan' = "marked"
    /\ UNCHANGED <<diskVars, reqVars, sitesLeft, dirsLeft, filesLeft, roots, owed>>

-----------------------------------------------------------------------------

\* The sites there are to begin with: some of those seeds would have made.
Seeds == {w \in Worker : Kind[w] = "seed"}
SiteOf(s, old) == {w \in old : SlugOf[w] = s}

Init ==
    /\ \E old \in SUBSET Seeds :
         /\ index = [s \in Slug |-> IF SiteOf(s, old) = {} THEN Absent
                                    ELSE CHOOSE w \in SiteOf(s, old) : TRUE]
         /\ record = [w \in Worker |-> IF w \in old THEN w ELSE Absent]
         /\ release = [w \in Worker |-> IF w \in old THEN Whole ELSE Absent]
         /\ mine = [w \in Worker |-> IF w \in old THEN w ELSE Absent]
         /\ pc = [w \in Worker |-> IF w \in old THEN "done"
                                   ELSE IF w \in Seeds THEN "failed"
                                   ELSE IF Kind[w] = "serve" THEN "find"
                                   ELSE "route"]
         /\ held = [w \in Worker |-> {w} \cap old]
    /\ chosen \in [Worker -> Worker]
    /\ \A w \in Worker : \/ chosen[w] = w
                         \/ Kind[w] = "activate" /\ (Commits(chosen[w]) \/ chosen[w] \in Seeds)
    /\ open = [w \in Worker |-> FALSE]
    /\ scan = "idle"
    /\ sitesLeft = {} /\ dirsLeft = {} /\ filesLeft = {}
    /\ roots = {} /\ owed = {}

Step(w) ==
    \/ ReadIndex(w) \/ ReadRecord(w) \/ ReadRelease(w)
    \/ OpenFile(w) \/ WriteFile(w)

ScanStep ==
    \/ StartScan \/ EndScan
    \/ \E i \in Worker : ScanSite(i) \/ ListReleases(i) \/ ScanRelease(i)

Next == ScanStep \/ \E w \in Worker : Step(w) \/ Crash(w)

Spec == Init /\ [][Next]_vars

-----------------------------------------------------------------------------
(* Properties.                                                             *)

\* Every variable keeps its shape.
TypeOK ==
    /\ index \in [Slug -> {Absent, Torn} \cup Worker]
    /\ record \in [Worker -> {Absent, Torn, Null} \cup Worker]
    /\ release \in [Worker -> {Absent, Torn, Whole}]
    /\ pc \in [Worker -> Lookups \cup Writes \cup Ended \cup {"getRelease"}]
    /\ mine \in [Worker -> {Absent} \cup Worker]
    /\ chosen \in [Worker -> Worker]
    /\ open \in [Worker -> BOOLEAN]
    /\ held \in [Worker -> SUBSET Worker]
    /\ scan \in {"idle", "scanning", "stopped", "marked"}
    /\ sitesLeft \subseteq Worker /\ dirsLeft \subseteq Worker
    /\ filesLeft \subseteq Worker /\ roots \subseteq Worker
    /\ owed \subseteq Worker

\* The active pointer never dangles: whatever order requests interleave in and
\* wherever one dies, a site's record names no release but one of its own that
\* is stored whole.
PointerNeverDangles ==
    \A i \in Worker : record[i] \in Worker =>
        release[record[i]] = Whole /\ mine[record[i]] = i

\* An index names a site that has a record, so that a slug with an index is not
\* taken for a new one.
IndexNeverDangles ==
    \A s \in Slug : index[s] \in Worker =>
        record[index[s]] # Absent

\* A scan that completes has marked every release stored when it started, those
\* under a site that lost its slug included.
ScanComplete == scan = "marked" => owed \subseteq roots

\* A slug loses a site only to another that was in hand already when the site's
\* index was first written: to a first publish that had found none, or to whoever
\* had found that one's site.  A request that comes later replaces no site, and
\* one that stood with nothing else in hand keeps its slug, whoever crashes: its
\* releases stay listed and its pointer stays the slug's.
SiteIsStable ==
    \A w \in Worker : held[w] # {} => index[SlugOf[w]] \in held[w] \cup {Torn}

\* README: remote --no-activate preserves the existing active pointer.  What a
\* site's record names is what a publish or an activation of it asked for, and a
\* staged release is not among it until one asks.
OnlyAskedForIsActive ==
    \A i \in Worker : record[i] \in Worker =>
        \E w \in Worker : /\ Kind[w] \in {"seed", "publish", "activate"}
                          /\ mine[w] = i /\ chosen[w] = record[i]

\* A request for content that has read a pointer finds the release it named,
\* whatever commits and activations have done meanwhile.
ServedReleaseIsThere ==
    \A w \in Worker : Kind[w] = "serve" /\ pc[w] = "getRelease" =>
        release[chosen[w]] = Whole /\ mine[chosen[w]] = mine[w]

\* The release a request for slug s would be answered with, were it alone.
Serving(s) ==
    IF index[s] \in Worker /\ record[index[s]] \in Worker
      THEN record[index[s]] ELSE Null

\* README, of a slug's first publish: once it is answered, and nobody else
\* publishes or activates, what it made active is what the slug serves.
FirstPublishStands ==
    \A w \in Worker :
        /\ Kind[w] = "publish" /\ pc[w] = "done"
        /\ \A v \in Worker : Kind[v] \in {"publish", "activate"} => v = w
        /\ index[SlugOf[w]] # Torn
        => Serving(SlugOf[w]) = w
=============================================================================
