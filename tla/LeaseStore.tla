----------------------------- MODULE LeaseStore -----------------------------
(***************************************************************************)
(* FilesystemLeaseStore: one JSON file per leased digest, under gc-leases. *)
(*                                                                         *)
(* refresh() reads a record and then rewrites it, and the rewrite truncates*)
(* the file before it fills it; active() and pruneExpired() list the names,*)
(* read each file and, when pruning, unlink what they read as expired.  All*)
(* of these interleave: nothing locks the directory.                       *)
(***************************************************************************)
EXTENDS Naturals, FiniteSets

CONSTANTS
    Digest,
    Refresher,      \* processes that call refresh()
    Reader,         \* collectors, which call active() and pruneExpired()
    Asks,           \* Asks[r]: the digests r refreshes
    TTLs,           \* the lease lifetimes asked for
    Pruning,        \* the readers that go on to prune
    Crashes,        \* refreshers may die between two steps
    MaxTime         \* bound on the clock

ASSUME ConstantsOK ==
    /\ Asks \in [Refresher -> SUBSET Digest]
    /\ TTLs \subseteq Nat \ {0}
    /\ Pruning \subseteq Reader
    /\ Crashes \in BOOLEAN
    /\ MaxTime \in Nat

VARIABLES
    clock,
    file,       \* file[d]: "none", "torn", or a whole record
    expiry,     \* expiry[d]: expiresAt in d's record when it is whole
    rpc,        \* rpc[r]: where refresher r is
    left,       \* left[r]: digests r has not refreshed yet
    cur,        \* cur[r]: the digest in hand (a set of at most one)
    target,     \* target[r]: the expiry r asks for
    next,       \* next[r]: the expiry r decided to write
    gpc,        \* gpc[g]: where reader g is
    asOf,       \* asOf[g]: the instant g compares with
    names,      \* names[g]: listed and not yet read (or, pruning, not removed)
    live,       \* live[g]: digests g read as unexpired
    dead,       \* dead[g]: digests g read as expired
    whole,      \* history: the expiry of d's last whole record, 0 once unlinked
    raced,      \* history: the digests on which two steps of two calls crossed
    sure,       \* history: whole, up to the first race on the digest
    due,        \* history: digests protected when g listed the names
    gone        \* history: those of due[g] that expired and were pruned since

fileVars == <<file, expiry, whole, raced, sure>>
refVars  == <<rpc, left, cur, target, next>>
readVars == <<gpc, asOf, names, live, dead, due, gone>>
vars     == <<clock, fileVars, refVars, readVars>>

\* After a step that makes whole' and crosses another call on the digests in R.
Settle(R) ==
    /\ raced' = raced \cup R
    /\ sure' = [d \in Digest |-> IF d \in raced' THEN sure[d] ELSE whole'[d]]

-----------------------------------------------------------------------------
(* refresh(digests, {ttlSeconds})                                          *)

\* The expiry a refresh asks for.  (Mutant: the lifetime is subtracted.)
TargetBackwards(ttl) == clock - ttl
Target(ttl) == clock + ttl

BeginRefresh(r) ==
    /\ rpc[r] = "idle"
    /\ \E ttl \in TTLs : target' = [target EXCEPT ![r] = Target(ttl)]
    /\ left' = [left EXCEPT ![r] = Asks[r]]
    /\ rpc' = [rpc EXCEPT ![r] = "read"]
    /\ UNCHANGED <<clock, fileVars, cur, next, readVars>>

\* The record's expiry as refresh reads it: one that is absent or does not
\* parse counts as none.
SeenExpiry(d) == IF file[d] = "whole" THEN expiry[d] ELSE 0

\* The longer of the two protections wins.  (Mutant: the new one.)
NewerWins(seen, wanted) == wanted
LongerWins(seen, wanted) == IF seen > wanted THEN seen ELSE wanted

\* It crosses a call that is about to rewrite the record, or that died doing so.
Crossed(r, d) == file[d] = "torn" \/ \E q \in Refresher \ {r} : d \in cur[q]

ReadRecord(r, d) ==
    /\ rpc[r] = "read"
    /\ d \in left[r]
    /\ cur' = [cur EXCEPT ![r] = {d}]
    /\ left' = [left EXCEPT ![r] = @ \ {d}]
    /\ next' = [next EXCEPT ![r] = LongerWins(SeenExpiry(d), target[r])]
    /\ rpc' = [rpc EXCEPT ![r] = "open"]
    /\ UNCHANGED <<clock, file, expiry, whole, target, readVars>>
    /\ Settle(IF Crossed(r, d) THEN {d} ELSE {})

\* writeFile opens the file for writing, which empties it ...
OpenRecord(r, d) ==
    /\ rpc[r] = "open" /\ d \in cur[r]
    /\ file' = [file EXCEPT ![d] = "torn"]
    /\ rpc' = [rpc EXCEPT ![r] = "write"]
    /\ UNCHANGED <<clock, expiry, whole, raced, sure, left, cur, target, next,
                   readVars>>

\* ... and then writes the record; into nothing if the file it opened was
\* unlinked meanwhile.
WriteRecord(r, d) ==
    /\ rpc[r] \in {"write", "lost"} /\ d \in cur[r]
    /\ IF rpc[r] = "write"
         THEN /\ file' = [file EXCEPT ![d] = "whole"]
              /\ expiry' = [expiry EXCEPT ![d] = next[r]]
              /\ whole' = [whole EXCEPT ![d] = next[r]]
              /\ Settle({})
         ELSE UNCHANGED fileVars
    /\ cur' = [cur EXCEPT ![r] = {}]
    /\ next' = [next EXCEPT ![r] = 0]
    /\ target' = [target EXCEPT ![r] = IF left[r] = {} THEN 0 ELSE @]
    /\ rpc' = [rpc EXCEPT ![r] = IF left[r] = {} THEN "idle" ELSE "read"]
    /\ UNCHANGED <<clock, left, readVars>>

Crash(r) ==
    /\ Crashes /\ rpc[r] # "idle"
    /\ rpc' = [rpc EXCEPT ![r] = "idle"]
    /\ left' = [left EXCEPT ![r] = {}]
    /\ cur' = [cur EXCEPT ![r] = {}]
    /\ target' = [target EXCEPT ![r] = 0]
    /\ next' = [next EXCEPT ![r] = 0]
    /\ UNCHANGED <<clock, fileVars, readVars>>

-----------------------------------------------------------------------------
(* list(), active(asOf) and pruneExpired(asOf)                             *)

\* One listing of the lease directory.
ListNames(g) ==
    /\ gpc[g] = "idle"
    /\ gpc' = [gpc EXCEPT ![g] = "reading"]
    /\ asOf' = [asOf EXCEPT ![g] = clock]
    /\ names' = [names EXCEPT ![g] = {d \in Digest : file[d] # "none"}]
    /\ due' = [due EXCEPT ![g] = {d \in Digest : whole[d] > clock}]
    /\ UNCHANGED <<clock, fileVars, refVars, live, dead, gone>>

\* A record that cannot be read whole fails the listing.  (Mutant: it is
\* skipped.)
SkipsMalformed(d) == TRUE
Readable(d) == file[d] = "whole"

ReadName(g, d) ==
    /\ gpc[g] = "reading"
    /\ d \in names[g]
    /\ names' = [names EXCEPT ![g] = @ \ {d}]
    /\ IF Readable(d)
         THEN /\ live' = [live EXCEPT ![g] =
                   IF SeenExpiry(d) > asOf[g] THEN @ \cup {d} ELSE @]
              /\ dead' = [dead EXCEPT ![g] =
                   IF SeenExpiry(d) > asOf[g] THEN @ ELSE @ \cup {d}]
              /\ UNCHANGED gpc
         ELSE /\ gpc' = [gpc EXCEPT ![g] = "failed"]
              /\ UNCHANGED <<live, dead>>
    /\ UNCHANGED <<clock, fileVars, refVars, asOf, due, gone>>

\* active() returns live[g]; pruneExpired(), which a pruning collector calls in
\* the end, goes on to unlink dead[g].
Listed(g) ==
    /\ gpc[g] = "reading" /\ names[g] = {}
    /\ \/ /\ gpc' = [gpc EXCEPT ![g] = "ok"]
          /\ UNCHANGED names
       \/ /\ g \in Pruning
          /\ gpc' = [gpc EXCEPT ![g] = "pruning"]
          /\ names' = [names EXCEPT ![g] = dead[g]]
    /\ UNCHANGED <<clock, fileVars, refVars, asOf, live, dead, due, gone>>

\* The record was read as expired; it is unlinked without being read again.
Unlink(g, d) ==
    /\ gpc[g] = "pruning" /\ d \in names[g]
    /\ file' = [file EXCEPT ![d] = "none"]
    /\ whole' = [whole EXCEPT ![d] = 0]
    /\ Settle(IF whole[d] > clock THEN {d} ELSE {})
    /\ names' = [names EXCEPT ![g] = @ \ {d}]
    /\ rpc' = [r \in Refresher |->
                 IF rpc[r] = "write" /\ d \in cur[r] THEN "lost" ELSE rpc[r]]
    /\ gone' = [h \in Reader |-> gone[h] \cup ({d} \cap due[h])]
    /\ UNCHANGED <<clock, expiry, left, cur, target, next, gpc, asOf, live,
                   dead, due>>

Return(g) ==
    /\ \/ gpc[g] \in {"ok", "failed"}
       \/ gpc[g] = "pruning" /\ names[g] = {}
    /\ gpc' = [gpc EXCEPT ![g] = "idle"]
    /\ asOf' = [asOf EXCEPT ![g] = 0]
    /\ names' = [names EXCEPT ![g] = {}]
    /\ live' = [live EXCEPT ![g] = {}]
    /\ dead' = [dead EXCEPT ![g] = {}]
    /\ due' = [due EXCEPT ![g] = {}]
    /\ gone' = [gone EXCEPT ![g] = {}]
    /\ UNCHANGED <<clock, fileVars, refVars>>

-----------------------------------------------------------------------------

Tick ==
    /\ clock < MaxTime
    /\ clock' = clock + 1
    /\ UNCHANGED <<fileVars, refVars, readVars>>

Init ==
    /\ clock = 0
    /\ file = [d \in Digest |-> "none"]
    /\ expiry = [d \in Digest |-> 0]
    /\ whole = [d \in Digest |-> 0]
    /\ raced = {} /\ sure = [d \in Digest |-> 0]
    /\ rpc = [r \in Refresher |-> "idle"]
    /\ left = [r \in Refresher |-> {}]
    /\ cur = [r \in Refresher |-> {}]
    /\ target = [r \in Refresher |-> 0]
    /\ next = [r \in Refresher |-> 0]
    /\ gpc = [g \in Reader |-> "idle"]
    /\ asOf = [g \in Reader |-> 0]
    /\ names = [g \in Reader |-> {}]
    /\ live = [g \in Reader |-> {}]
    /\ dead = [g \in Reader |-> {}]
    /\ due = [g \in Reader |-> {}]
    /\ gone = [g \in Reader |-> {}]

Next ==
    \/ Tick
    \/ \E r \in Refresher :
         \/ BeginRefresh(r) \/ Crash(r)
         \/ \E d \in Digest : ReadRecord(r, d) \/ OpenRecord(r, d)
                              \/ WriteRecord(r, d)
    \/ \E g \in Reader :
         \/ ListNames(g) \/ Listed(g) \/ Return(g)
         \/ \E d \in Digest : ReadName(g, d) \/ Unlink(g, d)

Spec == Init /\ [][Next]_vars

-----------------------------------------------------------------------------
(* Properties.                                                             *)

\* Every variable keeps its shape.
TypeOK ==
    /\ clock \in Nat
    /\ file \in [Digest -> {"none", "torn", "whole"}]
    /\ expiry \in [Digest -> Nat] /\ whole \in [Digest -> Nat]
    /\ raced \subseteq Digest /\ sure \in [Digest -> Nat]
    /\ rpc \in [Refresher -> {"idle", "read", "open", "write", "lost"}]
    /\ left \in [Refresher -> SUBSET Digest]
    /\ cur \in [Refresher -> SUBSET Digest]
    /\ target \in [Refresher -> Nat] /\ next \in [Refresher -> Nat]
    /\ gpc \in [Reader -> {"idle", "reading", "pruning", "ok", "failed"}]
    /\ asOf \in [Reader -> Nat]
    /\ names \in [Reader -> SUBSET Digest] /\ live \in [Reader -> SUBSET Digest]
    /\ dead \in [Reader -> SUBSET Digest] /\ due \in [Reader -> SUBSET Digest]
    /\ gone \in [Reader -> SUBSET Digest]

\* "Protection is NEVER shortened": the last whole record of a digest, which is
\* in force for GC also while its file is torn, because a torn file fails the
\* listing, never loses reach before it has expired.
Register == INSTANCE LeaseRegister WITH now <- clock, prot <- whole
NeverShortened == Register!Spec

\* What the store does keep of it: a digest's protection is a lease register's
\* up to the first time a refresh read the record while another refresh was about
\* to rewrite it or had died doing so, or a prune removed a record in force.
Uncrossed == INSTANCE LeaseRegister WITH now <- clock, prot <- sure
ShortenedOnlyByRaces == Uncrossed!Spec

\* active() answers or fails, but an answer never leaves out a digest that was
\* protected when it started, unless the lease ran out and another collector
\* pruned it meanwhile: neither a record that it caught being rewritten, nor one
\* that it cannot read, may count as expired.  (A race has its own losses.)
ActiveComplete ==
    \A g \in Reader :
        gpc[g] = "ok" => due[g] \ (raced \cup gone[g]) \subseteq live[g]
=============================================================================
