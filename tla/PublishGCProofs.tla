-------------------------- MODULE PublishGCProofs --------------------------
(***************************************************************************)
(* Proofs about PublishGC, for any numbers of digests, publishers and      *)
(* collectors and any lease, grant and grace times.                        *)
(***************************************************************************)
EXTENDS PublishGC, TLAPS

USE DEF Contents, PubPhases, Leasing, Admitted, GcPhases, Kinds, Exposures

-----------------------------------------------------------------------------
(* Type correctness.                                                       *)

\* The sub-steps that move publisher p leave its fields well typed.
LEMMA TurnTypes ==
    ASSUME TypeOK, NEW p \in Publisher, NEW d \in Digest,
           NEW again \in PubPhases, NEW next \in PubPhases,
           TurnThen(p, d, again, next)
    PROVE  /\ ppc' \in [Publisher -> PubPhases]
           /\ todo' \in [Publisher -> SUBSET Digest]
<1>1. Needs[p] \in SUBSET Digest /\ todo[p] \ {d} \in SUBSET Digest
  BY ConstantsOK DEF ConstantsOK, TypeOK
<1>2. CASE todo[p] = {d}
  <2>1. Goto(p, next) /\ Remaining(p, Needs[p])
    BY <1>2 DEF TurnThen
  <2>2. QED
    BY <1>1, <2>1 DEF TypeOK, Goto, Remaining
<1>3. CASE todo[p] # {d}
  <2>1. Goto(p, again) /\ Remaining(p, todo[p] \ {d})
    BY <1>3 DEF TurnThen
  <2>2. QED
    BY <1>1, <2>1 DEF TypeOK, Goto, Remaining
<1>4. QED
  BY <1>2, <1>3 DEF TypeOK

LEMMA ExposeTypes ==
    ASSUME TypeOK, NEW P, NEW cause \in Exposures, Expose(P, cause)
    PROVE  exposure' \in [Publisher -> Exposures]
BY DEF TypeOK, Expose

LEMMA AbandonTypes ==
    ASSUME TypeOK, NEW p \in Publisher, Abandon(p)
    PROVE  TypeOK'
BY DEF TypeOK, Abandon, NoDraft, Goto, Remaining, Unexposed, storeVars, gcVars,
       scanVars

\* A step of a lease refresh keeps the types.
LEMMA RefreshTypes ==
    ASSUME TypeOK, NEW p \in Publisher, NEW d \in Digest,
           \/ LeaseRead(p, d) \/ LeaseOpen(p, d)
           \/ LeaseFill(p, d) \/ LeaseLost(p, d)
    PROVE  TypeOK'
<1> USE DEF storeVars, gcVars, scanVars
<1>1. CASE LeaseRead(p, d)
  <2>1. Extended(d, until[p]) \in Nat
    BY DEF Extended, SeenLease, TypeOK
  <2>2. draft' \in [Publisher -> [Digest -> Nat]]
    BY <1>1, <2>1 DEF LeaseRead, TypeOK
  <2>3. exposure' \in [Publisher -> Exposures]
    BY <1>1 DEF LeaseRead, TypeOK
  <2>. QED
    BY <1>1, <2>2, <2>3 DEF LeaseRead, Goto, TypeOK
<1>2. CASE LeaseOpen(p, d)
  BY <1>2 DEF LeaseOpen, Goto, TypeOK
<1>3. CASE LeaseFill(p, d)
  <2>1. TurnThen(p, d, "leasing", "probing")
    BY <1>3 DEF LeaseFill
  <2>2. exposure' \in [Publisher -> Exposures]
    BY <1>3, ExposeTypes DEF LeaseFill, TypeOK
  <2>3. /\ lease' \in [Digest -> Nat] /\ torn' \subseteq Digest
        /\ draft' \in [Publisher -> [Digest -> Nat]]
    BY <1>3 DEF LeaseFill, NoDraft, TypeOK
  <2>4. gone' \in [Collector -> SUBSET Digest]
    BY <1>3 DEF LeaseFill, TypeOK
  <2>. QED
    BY <1>3, <2>1, <2>2, <2>3, <2>4, TurnTypes DEF LeaseFill, TypeOK
<1>4. CASE LeaseLost(p, d)
  <2>1. TurnThen(p, d, "leasing", "probing")
    BY <1>4 DEF LeaseLost
  <2>. QED
    BY <1>4, <2>1, TurnTypes DEF LeaseLost, NoDraft, TypeOK
<1>. QED
  BY <1>1, <1>2, <1>3, <1>4

LEMMA PublisherTypes ==
    ASSUME TypeOK, NEW p \in Publisher,
           PublisherStep(p) \/ GiveUp(p)
    PROVE  TypeOK'
<1> USE DEF storeVars, gcVars, scanVars
<1>1. CASE StartPublish(p)
  <2>1. Needs[p] \in SUBSET Digest
    BY ConstantsOK DEF ConstantsOK
  <2>2. todo' \in [Publisher -> SUBSET Digest]
    BY <1>1, <2>1 DEF TypeOK, StartPublish, Remaining
  <2>3. ppc' \in [Publisher -> PubPhases]
    <3>1. Goto(p, "leasing") \/ Goto(p, "probing")
      BY <1>1 DEF StartPublish
    <3>2. QED
      BY <3>1 DEF TypeOK, Goto
  <2>4. clock + LeaseTTL \in Nat
    BY ConstantsOK DEF ConstantsOK, TypeOK
  <2>5. until' \in [Publisher -> Nat]
    BY <1>1, <2>4 DEF TypeOK, StartPublish
  <2>6. QED
    BY <1>1, <2>2, <2>3, <2>5 DEF TypeOK, StartPublish
<1>2. CASE PlanAnswer(p)
  BY <1>2, ConstantsOK DEF ConstantsOK, TypeOK, PlanAnswer, Goto, Remaining
<1>3. CASE UploadRefused(p)
  BY <1>3, AbandonTypes DEF UploadRefused
<1>4. CASE SendCommit(p)
  BY <1>4, ConstantsOK DEF ConstantsOK, TypeOK, SendCommit, Goto, Remaining
<1>5. CASE EnsureSite(p)
  <2>1. SiteOf[p] \in Site
    BY ConstantsOK DEF ConstantsOK
  <2>2. QED
    BY <1>5, <2>1 DEF TypeOK, EnsureSite, Goto
<1>6. CASE SaveRelease(p)
  BY <1>6 DEF TypeOK, SaveRelease, Goto
<1>7. CASE GiveUp(p)
  BY <1>7, AbandonTypes DEF GiveUp
<1>8. ASSUME NEW d \in Digest,
             \/ LeaseRead(p, d) \/ LeaseOpen(p, d)
             \/ LeaseFill(p, d) \/ LeaseLost(p, d)
      PROVE  TypeOK'
  BY <1>8, RefreshTypes
<1>9. ASSUME NEW d \in Digest, PlanProbe(p, d)
      PROVE  TypeOK'
  <2>1. grant' \in [Publisher -> [Digest -> Nat]]
    BY <1>9, ConstantsOK DEF ConstantsOK, PlanProbe, GrantExpiry, TypeOK
  <2>2. QED
    BY <1>9, <2>1 DEF PlanProbe, Remaining, TypeOK
<1>10. ASSUME NEW d \in Digest, Upload(p, d)
       PROVE  TypeOK'
  <2>1. todo[p] \ {d} \in SUBSET Digest
    BY DEF TypeOK
  <2>2. todo' \in [Publisher -> SUBSET Digest]
    BY <1>10, <2>1 DEF TypeOK, Upload, Remaining
  <2>3. blob' \in [Digest -> Contents] /\ mtime' \in [Digest -> Nat]
    BY <1>10 DEF TypeOK, Upload
  <2>4. QED
    BY <1>10, <2>2, <2>3 DEF TypeOK, Upload
<1>11. ASSUME NEW d \in Digest, StorePacked(p, d)
       PROVE  TypeOK'
  <2>1. TurnThen(p, d, "probing", "verifying")
    BY <1>11 DEF StorePacked
  <2>2. QED
    BY <1>11, <2>1, TurnTypes DEF StorePacked, TypeOK
<1>12. ASSUME NEW d \in Digest, VerifyBlob(p, d)
       PROVE  TypeOK'
  <2>1. todo[p] \ {d} \in SUBSET Digest
    BY DEF TypeOK
  <2>2. CASE blob[d] = "good"
    BY <1>12, <2>1, <2>2 DEF TypeOK, VerifyBlob, Remaining
  <2>3. CASE blob[d] # "good"
    BY <1>12, <2>3, AbandonTypes DEF VerifyBlob
  <2>4. QED
    BY <2>2, <2>3
<1>13. QED
  BY <1>1, <1>2, <1>3, <1>4, <1>5, <1>6, <1>7, <1>8, <1>9, <1>10, <1>11,
     <1>12 DEF PublisherStep

LEMMA CollectorTypes ==
    ASSUME TypeOK, NEW c \in Collector,
           CollectorStep(c) \/ AbortPass(c)
    PROVE  TypeOK'
<1> USE DEF storeVars, pubVars, scanVars
<1>1. CASE StartPass(c)
  BY <1>1 DEF TypeOK, StartPass
<1>2. CASE ListSites(c)
  BY <1>2 DEF TypeOK, ListSites
<1>3. CASE MarkLeases(c)
  BY <1>3 DEF TypeOK, MarkLeases, ActiveLeases
<1>4. CASE ListBlobs(c)
  BY <1>4 DEF TypeOK, ListBlobs, Orphans
<1>5. CASE RemarkLeases(c)
  BY <1>5, ExposeTypes DEF TypeOK, RemarkLeases, ActiveLeases
<1>6. CASE EndSweep(c)
  BY <1>6 DEF TypeOK, EndSweep
<1>7. CASE EndPass(c) \/ LeasesUnreadable(c) \/ AbortPass(c)
  <2>1. Forget(c)
    BY <1>7 DEF EndPass, LeasesUnreadable, AbortPass
  <2>2. /\ gpc' \in [Collector -> GcPhases] /\ round' \in [Collector -> {1, 2}]
        /\ apply' \in [Collector -> BOOLEAN]
        /\ startedAt' \in [Collector -> Nat]
    BY <2>1 DEF Forget, TypeOK
  <2>3. /\ pend' \in [Collector -> SUBSET Site]
        /\ marked' \in [Collector -> SUBSET Digest]
        /\ leased' \in [Collector -> SUBSET Digest]
    BY <2>1 DEF Forget, TypeOK
  <2>4. /\ cands' \in [Collector -> SUBSET Digest]
        /\ stale' \in [Collector -> SUBSET Digest]
        /\ roots' \in [Collector -> SUBSET Publisher]
        /\ gone' \in [Collector -> SUBSET Digest]
    BY <2>1 DEF Forget, TypeOK
  <2>5. QED
    BY <2>1, <2>2, <2>3, <2>4 DEF TypeOK, Forget
<1>8. ASSUME NEW s \in Site, MarkSite(c, s)
      PROVE  TypeOK'
  <2>1. UNION {Needs[r] : r \in ReleasesOf(s)} \subseteq Digest
    BY ConstantsOK DEF ConstantsOK, TypeOK, ReleasesOf
  <2>2. QED
    BY <1>8, <2>1 DEF TypeOK, MarkSite
<1>9. ASSUME NEW d \in Digest, Sweep(c, d) \/ PruneLease(c, d)
      PROVE  TypeOK'
  <2>1. cands[c] \ {d} \in SUBSET Digest /\ stale[c] \ {d} \in SUBSET Digest
    BY DEF TypeOK
  <2>2. CASE Sweep(c, d)
    <3>1. cands' \in [Collector -> SUBSET Digest]
      BY <2>1, <2>2 DEF TypeOK, Sweep
    <3>2. blob' \in [Digest -> Contents] /\ mtime' \in [Digest -> Nat]
      BY <1>9, <2>2 DEF TypeOK, Sweep
    <3>3. QED
      BY <2>2, <3>1, <3>2 DEF TypeOK, Sweep
  <2>3. CASE PruneLease(c, d)
    <3>1. stale' \in [Collector -> SUBSET Digest]
      BY <2>1, <2>3 DEF TypeOK, PruneLease
    <3>2. lease' \in [Digest -> Nat]
      BY <1>9, <2>3 DEF TypeOK, PruneLease
    <3>3. gone' \in [Collector -> SUBSET Digest]
      BY <1>9, <2>3 DEF TypeOK, PruneLease
    <3>4. ppc' \in [Publisher -> PubPhases] /\ torn' \subseteq Digest
      BY <1>9, <2>3 DEF TypeOK, PruneLease
    <3>5. QED
      BY <2>3, <3>1, <3>2, <3>3, <3>4 DEF TypeOK, PruneLease
  <2>4. QED
    BY <1>9, <2>2, <2>3
<1>10. QED
  BY <1>1, <1>2, <1>3, <1>4, <1>5, <1>6, <1>7, <1>8, <1>9
     DEF CollectorStep

LEMMA TypeCorrectInit == Init => TypeOK
BY DEF Init, NoDraft, TypeOK, Unexposed

LEMMA TypeCorrectStep == TypeOK /\ [Next]_vars => TypeOK'
<1> SUFFICES ASSUME TypeOK, [Next]_vars PROVE TypeOK'
  OBVIOUS
<1>1. CASE Tick
  BY <1>1, ExposeTypes DEF Tick, TypeOK, storeVars, pubVars, gcVars, scanVars
<1>2. CASE UNCHANGED vars
  BY <1>2 DEF TypeOK, vars, storeVars, pubVars, gcVars, scanVars
<1>3. QED
  BY <1>1, <1>2, PublisherTypes, CollectorTypes DEF Next, Healthy

\* Every reachable state is well typed: each field keeps its shape under every
\* step of a publisher, a collector and the clock.
THEOREM TypeCorrect == Spec => []TypeOK
BY TypeCorrectInit, TypeCorrectStep, PTL DEF Spec

-----------------------------------------------------------------------------
(* A stored release is a root.                                             *)

\* A release has a site record for as long as it has existed, so a listing of
\* the sites taken afterwards leads to it.
Filed ==
    /\ \A p \in releases : ppc[p] = "done"
    /\ \A p \in Publisher : ppc[p] \in {"saving", "done"} => SiteOf[p] \in sites

\* What a collector's final re-mark still owes to the roots it started from.
RootsCovered(c) ==
    /\ roots[c] \subseteq releases
    /\ gpc[c] = "marking" =>
         \A r \in roots[c] : SiteOf[r] \in pend[c] \/ Needs[r] \subseteq marked[c]
    /\ gpc[c] = "sweeping" => \A r \in roots[c] : Needs[r] \subseteq marked[c]

RootsInv == TypeOK /\ Filed /\ \A c \in Collector : RootsCovered(c)

LEMMA PublisherKeepsRoots ==
    ASSUME RootsInv, NEW p \in Publisher, PublisherStep(p) \/ GiveUp(p)
    PROVE  RootsInv'
<1> USE DEF storeVars, gcVars, scanVars
<1>1. TypeOK'
  BY PublisherTypes DEF RootsInv
<1>2. releases \subseteq releases' /\ sites \subseteq sites'
  BY DEF PublisherStep, GiveUp, UploadRefused, Abandon, StartPublish, PlanAnswer,
         SendCommit, EnsureSite, SaveRelease, LeaseRead, LeaseOpen, LeaseFill,
         LeaseLost, PlanProbe, Upload, StorePacked, VerifyBlob
<1>3. UNCHANGED <<gpc, pend, marked, roots>>
  BY DEF PublisherStep, GiveUp, UploadRefused, Abandon, StartPublish, PlanAnswer,
         SendCommit, EnsureSite, SaveRelease, LeaseRead, LeaseOpen, LeaseFill,
         LeaseLost, PlanProbe, Upload, StorePacked, VerifyBlob
<1>4. Filed'
  <2> USE DEF RootsInv, Filed, TypeOK, Goto
  <2>1. CASE StartPublish(p)
    <3>1. Goto(p, "leasing") \/ Goto(p, "probing")
      BY <2>1 DEF StartPublish
    <3>2. QED
      BY <2>1, <3>1 DEF StartPublish
  <2>2. CASE PlanAnswer(p) \/ SendCommit(p)
    BY <2>2 DEF PlanAnswer, SendCommit
  <2>3. CASE EnsureSite(p)
    BY <2>3 DEF EnsureSite
  <2>4. CASE SaveRelease(p)
    BY <2>4 DEF SaveRelease
  <2>5. ASSUME Abandon(p), p \notin releases
        PROVE  Filed'
    BY <2>5 DEF Abandon
  <2>6. CASE UploadRefused(p) \/ GiveUp(p)
    BY <2>5, <2>6 DEF UploadRefused, GiveUp
  <2>7. ASSUME NEW d \in Digest, NEW again \in {"leasing", "probing"},
               NEW next \in {"probing", "verifying"},
               TurnThen(p, d, again, next), ppc[p] # "done",
               UNCHANGED <<releases, sites>>
        PROVE  Filed'
    BY <2>7 DEF TurnThen
  <2>8. ASSUME NEW d \in Digest,
               LeaseFill(p, d) \/ LeaseLost(p, d) \/ StorePacked(p, d)
        PROVE  Filed'
    BY <2>7, <2>8 DEF LeaseFill, LeaseLost, StorePacked
  <2>9. ASSUME NEW d \in Digest, LeaseRead(p, d) \/ LeaseOpen(p, d)
         PROVE  Filed'
    BY <2>9 DEF LeaseRead, LeaseOpen
  <2>10. ASSUME NEW d \in Digest, PlanProbe(p, d) \/ Upload(p, d)
        PROVE  Filed'
    BY <2>10 DEF PlanProbe, Upload
  <2>11. ASSUME NEW d \in Digest, VerifyBlob(p, d)
         PROVE  Filed'
    BY <2>5, <2>11 DEF VerifyBlob
  <2>12. QED
    BY <2>1, <2>2, <2>3, <2>4, <2>6, <2>8, <2>9, <2>10, <2>11
       DEF PublisherStep
<1>5. QED
  BY <1>1, <1>2, <1>3, <1>4 DEF RootsInv, RootsCovered

LEMMA CollectorKeepsRoots ==
    ASSUME RootsInv, NEW c \in Collector, CollectorStep(c) \/ AbortPass(c)
    PROVE  RootsInv'
<1> USE DEF storeVars, pubVars, scanVars
<1>1. TypeOK'
  BY CollectorTypes DEF RootsInv
<1>2. /\ UNCHANGED <<releases, sites>>
      /\ \A p \in Publisher : ppc'[p] = ppc[p] \/ {ppc[p], ppc'[p]} \subseteq Leasing
  BY DEF RootsInv, TypeOK, CollectorStep, LeasesUnreadable, AbortPass, EndPass,
         Forget, StartPass, ListSites, MarkLeases, ListBlobs, RemarkLeases,
         EndSweep, MarkSite, Sweep, PruneLease
<1>3. Filed'
  BY <1>2 DEF RootsInv, TypeOK, Filed
<1>4. ASSUME NEW k \in Collector, k # c
      PROVE  RootsCovered(k)'
  <2>1. /\ gpc'[k] = gpc[k] /\ pend'[k] = pend[k]
        /\ marked'[k] = marked[k] /\ roots'[k] = roots[k]
    BY <1>4 DEF RootsInv, TypeOK, CollectorStep, LeasesUnreadable, AbortPass,
         EndPass, Forget, StartPass, ListSites, MarkLeases, ListBlobs, RemarkLeases, EndSweep,
         MarkSite, Sweep, PruneLease
  <2>2. QED
    BY <1>2, <2>1 DEF RootsInv, RootsCovered
<1>5. RootsCovered(c)'
  <2> USE DEF RootsInv, RootsCovered, TypeOK
  <2>1. CASE StartPass(c) \/ MarkLeases(c) \/ ListBlobs(c) \/ EndSweep(c)
    BY <2>1 DEF StartPass, MarkLeases, ListBlobs, EndSweep
  <2>2. CASE ListSites(c)
    BY <2>2 DEF ListSites, Filed
  <2>3. CASE RemarkLeases(c)
    BY <2>3 DEF RemarkLeases
  <2>4. CASE EndPass(c) \/ LeasesUnreadable(c) \/ AbortPass(c)
    BY <2>4 DEF EndPass, LeasesUnreadable, AbortPass, Forget
  <2>5. ASSUME NEW s \in Site, MarkSite(c, s)
        PROVE  RootsCovered(c)'
    BY <2>5 DEF MarkSite, ReleasesOf
  <2>6. ASSUME NEW d \in Digest, Sweep(c, d) \/ PruneLease(c, d)
        PROVE  RootsCovered(c)'
    BY <2>6 DEF Sweep, PruneLease
  <2>7. QED
    BY <2>1, <2>2, <2>3, <2>4, <2>5, <2>6 DEF CollectorStep
<1>6. QED
  BY <1>1, <1>3, <1>4, <1>5 DEF RootsInv

\* A sweep takes nothing that a release stored before its final re-mark
\* references: for any mix of publishers and collectors, with lease pruning,
\* and however short the leases are.
THEOREM RootsAreSafe == Spec => []RootsNeverSwept
<1>1. Init => RootsInv
  <2>1. Init => TypeOK
    BY TypeCorrectInit
  <2>2. QED
    BY <2>1 DEF Init, RootsInv, Filed, RootsCovered
<1>2. RootsInv /\ [Next]_vars => RootsInv'
  <2> SUFFICES ASSUME RootsInv, [Next]_vars PROVE RootsInv'
    OBVIOUS
  <2>1. TypeOK'
    BY TypeCorrectStep DEF RootsInv
  <2>2. CASE Tick \/ UNCHANGED vars
    BY <2>1, <2>2 DEF Tick, vars, storeVars, pubVars, gcVars, scanVars,
         RootsInv, Filed, RootsCovered
  <2>3. QED
    BY <2>2, PublisherKeepsRoots, CollectorKeepsRoots DEF Next, Healthy
<1>3. RootsInv => RootsNeverSwept
  BY DEF RootsInv, RootsCovered, RootsNeverSwept, Condemned
<1>4. QED
  BY <1>1, <1>2, <1>3, PTL DEF Spec

-----------------------------------------------------------------------------
(* What a sweep leaves has a reason to stay.                               *)

Sweeps(c) == round[c] = 2 /\ gpc[c] \in {"sites", "marking", "sweeping"}

\* A mark only ever names what is referenced, or leased as of the start or later;
\* and from the choice of the candidates on, whatever is stored and is not one of
\* those left to handle is excused.
Reclaims(c) ==
    /\ gpc[c] # "idle" => startedAt[c] <= clock
    /\ gpc[c] = "sweeping" => round[c] = 2
    /\ \A d \in marked[c] : \E r \in releases : d \in Needs[r]
    /\ gpc[c] \in {"listing", "sweeping"} =>
         \A d \in leased[c] : lease[d] > startedAt[c] \/ d \in gone[c]
    /\ Sweeps(c) =>
         \A d \in Digest : blob[d] # "absent" /\ d \notin cands[c] => Excused(c, d)

ReclaimInv == TypeOK /\ \A c \in Collector : Reclaims(c)

\* A reason to stay lasts: releases are only ever added to, whoever prunes a lease
\* record or cuts it short leaves a trace, and what is written is new.
LEMMA ExcuseLasts ==
    ASSUME TypeOK, TypeOK', NEW c \in Collector, NEW d \in Digest,
           startedAt'[c] = startedAt[c], startedAt[c] <= clock,
           releases \subseteq releases', gone[c] \subseteq gone'[c],
           lease[d] > startedAt[c] => lease'[d] > startedAt[c] \/ d \in gone'[c],
           \/ mtime'[d] = clock
           \/ mtime'[d] = mtime[d] /\ Excused(c, d)
    PROVE  Excused(c, d)'
<1>. DEFINE s == startedAt[c]
<1>1. /\ s \in Nat /\ clock \in Nat /\ mtime[d] \in Nat
      /\ lease[d] \in Nat /\ lease'[d] \in Nat
  BY DEF TypeOK
<1>2. CASE mtime'[d] = clock
  BY <1>1, <1>2 DEF Excused
<1>3. CASE mtime'[d] = mtime[d] /\ Excused(c, d)
  <2>1. CASE mtime[d] + Grace > s \/ mtime[d] >= s
    BY <1>3, <2>1 DEF Excused
  <2>2. CASE \E r \in releases : d \in Needs[r]
    BY <2>2 DEF Excused
  <2>3. CASE lease[d] > s
    BY <1>1, <2>3 DEF Excused
  <2>4. CASE d \in gone[c]
    BY <2>4 DEF Excused
  <2>. QED
    BY <1>3, <2>1, <2>2, <2>3, <2>4 DEF Excused
<1>. QED
  BY <1>2, <1>3

\* What a step must do to the store and the histories for a collector that does
\* not move to go on reclaiming.
LEMMA StoreStepReclaims ==
    ASSUME TypeOK, TypeOK', NEW c \in Collector, Reclaims(c), clock' >= clock,
           /\ gpc'[c] = gpc[c] /\ round'[c] = round[c]
           /\ startedAt'[c] = startedAt[c] /\ marked'[c] = marked[c]
           /\ leased'[c] = leased[c] /\ cands'[c] = cands[c],
           releases \subseteq releases', gone[c] \subseteq gone'[c],
           \A d \in Digest :
             \/ blob'[d] = "absent" \/ mtime'[d] = clock
             \/ blob'[d] = blob[d] /\ mtime'[d] = mtime[d],
           \A d \in Digest :
             gpc[c] \notin {"idle", "ending"} /\ lease[d] > startedAt[c]
             => lease'[d] > startedAt[c] \/ d \in gone'[c]
    PROVE  Reclaims(c)'
<1>1. gpc[c] # "idle" => startedAt[c] <= clock /\ startedAt[c] <= clock'
  BY DEF Reclaims, TypeOK
<1>2. \A d \in marked[c] : \E r \in releases' : d \in Needs[r]
  BY DEF Reclaims
<1>3. ASSUME gpc[c] \in {"listing", "sweeping"}, NEW d \in leased[c]
      PROVE  lease'[d] > startedAt[c] \/ d \in gone'[c]
  <2>1. /\ d \in Digest /\ lease[d] \in Nat /\ lease'[d] \in Nat
        /\ startedAt[c] \in Nat
    BY DEF TypeOK
  <2>2. lease[d] > startedAt[c] \/ d \in gone[c]
    BY <1>3 DEF Reclaims
  <2>. QED
    BY <1>3, <2>1, <2>2
<1>4. ASSUME Sweeps(c), NEW d \in Digest, blob'[d] # "absent", d \notin cands[c]
      PROVE  Excused(c, d)'
  <2>1. startedAt[c] <= clock /\ gpc[c] \notin {"idle", "ending"}
    BY <1>1, <1>4 DEF Sweeps
  <2>2. \/ mtime'[d] = clock
        \/ mtime'[d] = mtime[d] /\ Excused(c, d)
    BY <1>4 DEF Reclaims
  <2>. QED
    BY <1>4, <2>1, <2>2, ExcuseLasts
<1>. QED
  BY <1>1, <1>2, <1>3, <1>4 DEF Reclaims, Sweeps

\* What a step may do to the store, the collectors unmoved: a lease record that
\* is cut short is on record.
StoresOnly ==
    /\ UNCHANGED <<clock, gpc, round, startedAt, marked, leased, cands>>
    /\ releases \subseteq releases'
    /\ \A c \in Collector : gone[c] \subseteq gone'[c]
    /\ \A d \in Digest :
         \/ mtime'[d] = clock
         \/ blob'[d] = blob[d] /\ mtime'[d] = mtime[d]
    /\ \A d \in Digest, c \in Collector :
         lease[d] > startedAt[c]
         => lease'[d] > startedAt[c] \/ d \in gone'[c]

\* What a publisher does to the store.
LEMMA PublisherStores ==
    ASSUME TypeOK, NEW p \in Publisher, PublisherStep(p) \/ GiveUp(p)
    PROVE  StoresOnly
<1>. USE DEF storeVars, gcVars, scanVars
<1>1. ASSUME UNCHANGED <<clock, blob, mtime, lease, releases, gcVars>>
      PROVE  StoresOnly
  BY <1>1 DEF TypeOK, StoresOnly
<1>2. CASE Abandon(p)
  BY <1>1, <1>2 DEF Abandon
<1>3. CASE StartPublish(p) \/ PlanAnswer(p) \/ SendCommit(p)
  BY <1>1, <1>3 DEF StartPublish, PlanAnswer, SendCommit
<1>4. CASE UploadRefused(p) \/ GiveUp(p)
  BY <1>2, <1>4 DEF UploadRefused, GiveUp
<1>5. CASE EnsureSite(p) \/ SaveRelease(p)
  BY <1>5 DEF EnsureSite, SaveRelease, TypeOK, StoresOnly
<1>6. ASSUME NEW d \in Digest,
             \/ LeaseRead(p, d) \/ LeaseOpen(p, d) \/ LeaseLost(p, d)
             \/ PlanProbe(p, d) \/ VerifyBlob(p, d)
      PROVE  StoresOnly
  <2>1. \/ Abandon(p)
        \/ UNCHANGED <<clock, blob, mtime, lease, releases, gcVars>>
    BY <1>6 DEF LeaseRead, LeaseOpen, LeaseLost, PlanProbe, VerifyBlob
  <2>. QED
    BY <1>1, <1>2, <2>1
<1>7. ASSUME NEW d \in Digest, LeaseFill(p, d)
      PROVE  StoresOnly
  <2>1. /\ UNCHANGED <<clock, blob, mtime, releases, gpc, round, startedAt, marked,
                       leased, cands>>
        /\ lease' = [lease EXCEPT ![d] = draft[p][d]]
    BY <1>7 DEF LeaseFill
  <2>2. ASSUME NEW c \in Collector
        PROVE  /\ gone[c] \subseteq gone'[c]
               /\ \A e \in Digest : lease[e] > startedAt[c]
                    => lease'[e] > startedAt[c] \/ e \in gone'[c]
    <3>1. gone'[c] = IF lease[d] > startedAt[c] /\ draft[p][d] <= startedAt[c]
                       THEN gone[c] \cup {d} ELSE gone[c]
      BY <1>7 DEF LeaseFill
    <3>2. draft[p][d] \in Nat /\ startedAt[c] \in Nat
      BY DEF TypeOK
    <3>. QED
      BY <2>1, <3>1, <3>2 DEF TypeOK
  <2>. QED
    BY <2>1, <2>2 DEF StoresOnly
<1>8. ASSUME NEW d \in Digest, Upload(p, d) \/ StorePacked(p, d)
      PROVE  StoresOnly
  <2>1. UNCHANGED <<clock, lease, releases, gcVars>>
    BY <1>8 DEF Upload, StorePacked
  <2>2. \/ mtime' = [mtime EXCEPT ![d] = clock]
           /\ blob' = [blob EXCEPT ![d] = "good"]
        \/ mtime' = mtime /\ blob' = blob
    BY <1>8 DEF Upload, StorePacked
  <2>. QED
    BY <2>1, <2>2 DEF TypeOK, StoresOnly
<1>. QED
  BY <1>1, <1>2, <1>3, <1>4, <1>5, <1>6, <1>7, <1>8 DEF PublisherStep

\* What a collector does to the store and to the other collectors' histories.
LEMMA CollectorStores ==
    ASSUME TypeOK, NEW c \in Collector, CollectorStep(c) \/ AbortPass(c)
    PROVE  /\ clock' = clock /\ releases' = releases
           /\ \A d \in Digest :
                \/ blob'[d] = "absent"
                \/ blob'[d] = blob[d] /\ mtime'[d] = mtime[d]
           /\ \A b \in Collector \ {c} :
                /\ gpc'[b] = gpc[b] /\ round'[b] = round[b]
                /\ startedAt'[b] = startedAt[b] /\ marked'[b] = marked[b]
                /\ leased'[b] = leased[b] /\ cands'[b] = cands[b]
                /\ gone[b] \subseteq gone'[b]
                /\ \A d \in Digest :
                     /\ gpc[b] \notin {"idle", "ending"}
                     /\ lease[d] > startedAt[b]
                     => lease'[d] > startedAt[b] \/ d \in gone'[b]
<1>. USE DEF storeVars, pubVars, scanVars
<1>1. clock' = clock /\ releases' = releases
  BY DEF CollectorStep, LeasesUnreadable, AbortPass, EndPass, Forget,
         StartPass, ListSites, MarkLeases, ListBlobs, RemarkLeases, EndSweep, MarkSite, Sweep,
         PruneLease
<1>2. \A b \in Collector \ {c} :
        /\ gpc'[b] = gpc[b] /\ round'[b] = round[b]
        /\ startedAt'[b] = startedAt[b] /\ marked'[b] = marked[b]
        /\ leased'[b] = leased[b] /\ cands'[b] = cands[b]
  BY DEF TypeOK, CollectorStep, LeasesUnreadable, AbortPass, EndPass, Forget,
         StartPass, ListSites, MarkLeases, ListBlobs, RemarkLeases, EndSweep, MarkSite, Sweep, PruneLease
<1>3. ASSUME NEW e \in Digest, Sweep(c, e)
      PROVE  \A d \in Digest :
                \/ blob'[d] = "absent"
                \/ blob'[d] = blob[d] /\ mtime'[d] = mtime[d]
  BY <1>3 DEF Sweep, TypeOK
<1>4. \/ \E e \in Digest : Sweep(c, e)
      \/ UNCHANGED <<blob, mtime>>
  BY DEF CollectorStep, LeasesUnreadable, AbortPass, EndPass, Forget,
         StartPass, ListSites, MarkLeases, ListBlobs, RemarkLeases, EndSweep, MarkSite, PruneLease
<1>5. \/ \E e \in Digest : PruneLease(c, e)
      \/ /\ lease' = lease
         /\ \A b \in Collector \ {c} : gone'[b] = gone[b]
  BY DEF TypeOK, CollectorStep, LeasesUnreadable, AbortPass, EndPass, Forget,
         StartPass, ListSites, MarkLeases, ListBlobs, RemarkLeases, EndSweep, MarkSite, Sweep
<1>6. ASSUME NEW e \in Digest, PruneLease(c, e), NEW b \in Collector \ {c}
      PROVE  /\ gone[b] \subseteq gone'[b]
             /\ \A d \in Digest :
                  /\ gpc[b] \notin {"idle", "ending"}
                  /\ lease[d] > startedAt[b]
                  => lease'[d] > startedAt[b] \/ d \in gone'[b]
  <2>1. /\ lease' = [lease EXCEPT ![e] = 0]
        /\ gone'[b] = IF gpc[b] \notin {"idle", "ending"} /\ lease[e] > startedAt[b]
                        THEN gone[b] \cup {e} ELSE gone[b]
    BY <1>6 DEF PruneLease
  <2>. QED
    BY <2>1 DEF TypeOK
<1>7. CASE lease' = lease /\ \A b \in Collector \ {c} : gone'[b] = gone[b]
  BY <1>1, <1>2, <1>3, <1>4, <1>7 DEF TypeOK
<1>. QED
  BY <1>1, <1>2, <1>3, <1>4, <1>5, <1>6, <1>7

\* The scan: the marks name what they should, and the candidates are all that has
\* no excuse.
LEMMA ScanReclaims ==
    ASSUME TypeOK, TypeOK', NEW c \in Collector, Reclaims(c),
           \/ StartPass(c) \/ ListSites(c) \/ MarkLeases(c) \/ ListBlobs(c)
           \/ \E s \in Site : MarkSite(c, s)
    PROVE  Reclaims(c)'
<1>. USE DEF storeVars, pubVars, scanVars
<1>1. CASE StartPass(c)
  <2>1. gpc'[c] = "sites" /\ round'[c] = 1 /\ startedAt'[c] = clock /\ clock' = clock
        /\ UNCHANGED <<marked, releases>>
    BY <1>1 DEF StartPass, TypeOK
  <2>2. clock <= clock
    BY DEF TypeOK
  <2>. QED
    BY <2>1, <2>2 DEF Reclaims, Sweeps
<1>2. CASE ListSites(c)
  <2>1. /\ gpc[c] = "sites" /\ gpc'[c] = "marking" /\ marked'[c] = {}
        /\ UNCHANGED <<clock, storeVars, round, startedAt, cands, gone>>
    BY <1>2 DEF ListSites, TypeOK
  <2>. QED
    BY <2>1 DEF Reclaims, Sweeps, Excused
<1>3. CASE MarkLeases(c)
  <2>1. /\ gpc[c] = "marking" /\ gpc'[c] = "listing" /\ round'[c] = 1
        /\ leased'[c] = ActiveLeases(startedAt[c])
        /\ UNCHANGED <<clock, storeVars, startedAt, marked, gone>>
    BY <1>3 DEF MarkLeases, TypeOK
  <2>. QED
    BY <2>1 DEF Reclaims, Sweeps, ActiveLeases
<1>4. CASE ListBlobs(c)
  <2>1. /\ gpc[c] = "listing" /\ gpc'[c] \in {"sites", "ending"}
        /\ round'[c] = 2 => apply[c]
        /\ apply[c] => cands'[c] = Orphans(c)
        /\ marked'[c] = {}
        /\ UNCHANGED <<clock, storeVars, startedAt, gone>>
    BY <1>4 DEF ListBlobs, TypeOK
  <2>2. ASSUME NEW d \in Digest, blob[d] # "absent", d \notin Orphans(c)
        PROVE  Excused(c, d)
    <3>1. d \in marked[c] \/ d \in leased[c] \/ ~(mtime[d] + Grace <= startedAt[c])
      BY <2>2 DEF Orphans
    <3>2. ~(mtime[d] + Grace <= startedAt[c]) => mtime[d] + Grace > startedAt[c]
      BY ConstantsOK DEF ConstantsOK, TypeOK
    <3>. QED
      BY <2>1, <3>1, <3>2 DEF Reclaims, Excused
  <2>. QED
    BY <2>1, <2>2 DEF Reclaims, Sweeps, Excused
<1>5. ASSUME NEW s \in Site, MarkSite(c, s)
      PROVE  Reclaims(c)'
  <2>1. /\ gpc[c] = "marking"
        /\ marked'[c] = marked[c] \cup UNION {Needs[r] : r \in ReleasesOf(s)}
        /\ UNCHANGED <<clock, storeVars, gpc, round, startedAt, leased, cands, gone>>
    BY <1>5 DEF MarkSite, TypeOK
  <2>2. \A d \in marked'[c] : \E r \in releases : d \in Needs[r]
    BY <2>1 DEF Reclaims, ReleasesOf
  <2>. QED
    BY <2>1, <2>2 DEF Reclaims, Sweeps, Excused
<1>. QED
  BY <1>1, <1>2, <1>3, <1>4, <1>5

\* The sweep: what it skips is referenced or leased, what it deletes is gone.
LEMMA SweepReclaims ==
    ASSUME TypeOK, TypeOK', NEW c \in Collector, Reclaims(c),
           \/ RemarkLeases(c) \/ EndSweep(c)
           \/ EndPass(c) \/ LeasesUnreadable(c) \/ AbortPass(c)
           \/ \E d \in Digest : Sweep(c, d) \/ PruneLease(c, d)
    PROVE  Reclaims(c)'
<1>. USE DEF storeVars, pubVars, scanVars
<1>1. CASE RemarkLeases(c)
  <2>1. /\ gpc[c] = "marking" /\ round[c] = 2 /\ gpc'[c] = "sweeping"
        /\ leased'[c] = ActiveLeases(clock)
        /\ UNCHANGED <<clock, storeVars, round, startedAt, marked, cands, gone>>
    BY <1>1 DEF RemarkLeases, TypeOK
  <2>2. startedAt[c] <= clock
    BY <2>1 DEF Reclaims
  <2>3. \A d \in ActiveLeases(clock) : lease[d] > startedAt[c]
    BY <2>2 DEF ActiveLeases, TypeOK
  <2>. QED
    BY <2>1, <2>3 DEF Reclaims, Sweeps, Excused
<1>2. CASE EndSweep(c)
  <2>1. /\ gpc[c] = "sweeping" /\ gpc'[c] = "ending"
        /\ UNCHANGED <<clock, storeVars, startedAt, marked>>
    BY <1>2 DEF EndSweep, TypeOK
  <2>. QED
    BY <2>1 DEF Reclaims, Sweeps
<1>3. CASE EndPass(c) \/ LeasesUnreadable(c) \/ AbortPass(c)
  <2>1. gpc'[c] = "idle" /\ marked'[c] = {}
    BY <1>3 DEF EndPass, LeasesUnreadable, AbortPass, Forget, TypeOK
  <2>. QED
    BY <2>1 DEF Reclaims, Sweeps
<1>4. ASSUME NEW d \in Digest, PruneLease(c, d)
      PROVE  Reclaims(c)'
  <2>1. /\ gpc[c] = "ending"
        /\ UNCHANGED <<clock, releases, gpc, round, startedAt, marked>>
    BY <1>4 DEF PruneLease
  <2>. QED
    BY <2>1 DEF Reclaims, Sweeps
<1>5. ASSUME NEW d \in Digest, Sweep(c, d)
      PROVE  Reclaims(c)'
  <2>1. /\ gpc[c] = "sweeping" /\ cands'[c] = cands[c] \ {d}
        /\ UNCHANGED <<clock, lease, releases, gpc, round, startedAt, marked,
                       leased, gone>>
    BY <1>5 DEF Sweep, TypeOK
  <2>2. \A e \in Digest \ {d} : blob'[e] = blob[e] /\ mtime'[e] = mtime[e]
    BY <1>5 DEF Sweep, TypeOK
  <2>3. ASSUME blob'[d] # "absent" PROVE Excused(c, d)'
    <3>1. d \notin Condemned(c) /\ d \in cands[c]
      BY <1>5, <2>3 DEF Sweep, TypeOK
    <3>2. d \in marked[c] \/ d \in leased[c]
      BY <2>1, <3>1 DEF Condemned
    <3>. QED
      BY <2>1, <3>2 DEF Reclaims, Excused
  <2>4. ASSUME Sweeps(c), NEW e \in Digest \ {d}, blob'[e] # "absent",
               e \notin cands[c]
        PROVE  Excused(c, e)'
    BY <2>1, <2>2, <2>4 DEF Reclaims, Excused
  <2>. QED
    BY <2>1, <2>3, <2>4 DEF Reclaims, Sweeps
<1>. QED
  BY <1>1, <1>2, <1>3, <1>4, <1>5

LEMMA ReclaimInductive ==
    /\ Init => ReclaimInv
    /\ ReclaimInv /\ [Next]_vars => ReclaimInv'
<1>1. Init => ReclaimInv
  <2>1. Init => TypeOK
    BY TypeCorrectInit
  <2>. QED
    BY <2>1 DEF Init, ReclaimInv, Reclaims, Sweeps
<1>2. ReclaimInv /\ [Next]_vars => ReclaimInv'
  <2>. SUFFICES ASSUME ReclaimInv, [Next]_vars PROVE ReclaimInv'
    OBVIOUS
  <2>1. TypeOK /\ TypeOK' /\ \A c \in Collector : Reclaims(c)
    BY TypeCorrectStep DEF ReclaimInv
  <2>2. CASE UNCHANGED vars
    BY <2>1, <2>2 DEF vars, storeVars, gcVars, scanVars, ReclaimInv, Reclaims,
                      Sweeps, Excused
  <2>3. ASSUME Tick, NEW c \in Collector PROVE Reclaims(c)'
    <3>1. clock' >= clock /\ UNCHANGED <<storeVars, gcVars>>
      BY <2>1, <2>3 DEF Tick, TypeOK
    <3>. QED
      BY <2>1, <3>1, StoreStepReclaims DEF storeVars, gcVars, scanVars
  <2>4. ASSUME NEW p \in Publisher, PublisherStep(p) \/ GiveUp(p),
               NEW c \in Collector
        PROVE  Reclaims(c)'
    <3>1. StoresOnly
      BY <2>1, <2>4, PublisherStores
    <3>2. clock' >= clock
      BY <2>1, <3>1 DEF StoresOnly, TypeOK
    <3>. QED
      BY <2>1, <3>1, <3>2, StoreStepReclaims DEF StoresOnly
  <2>5. ASSUME NEW b \in Collector, CollectorStep(b) \/ AbortPass(b),
               NEW c \in Collector
        PROVE  Reclaims(c)'
    <3>1. CASE c = b
      BY <2>1, <2>5, <3>1, ScanReclaims, SweepReclaims DEF CollectorStep
    <3>2. CASE c # b
      <4>1. clock' >= clock
        BY <2>1, <2>5, CollectorStores DEF TypeOK
      <4>. QED
        BY <2>1, <2>5, <3>2, <4>1, CollectorStores, StoreStepReclaims
    <3>. QED
      BY <3>1, <3>2
  <2>. QED
    BY <2>1, <2>2, <2>3, <2>4, <2>5 DEF Next, Healthy, ReclaimInv
<1>. QED
  BY <1>1, <1>2

\* A sweep that ran to its end reclaimed all it could: whatever it leaves is
\* referenced, young or new, or was leased during the pass, whichever publishers
\* and other collectors, pruning or not, were at work beside it.
THEOREM SweepsAreComplete == Spec => []SweepComplete
<1>1. ReclaimInv => SweepComplete
  BY DEF ReclaimInv, Reclaims, Sweeps, SweepComplete, TypeOK
<1>. QED
  BY <1>1, ReclaimInductive, PTL DEF Spec

=============================================================================
