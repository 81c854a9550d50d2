-------------------------- MODULE PublishGCIntact --------------------------
(***************************************************************************)
(* The lease protocol protects a publish: proofs of LeasesHeld, PlanKept   *)
(* and ReleasesIntact.                                                     *)
(*                                                                         *)
(* The argument.  What a refresh is about to write reaches as far as its   *)
(* own publisher asked (Drafts).  Once a lease is written that no call was  *)
(* crossing, its record reaches as far as was asked, and so does whatever  *)
(* any refresh is about to write there, and no prune is about to unlink it *)
(* (Covered): the record alone would not be inductive, for the two other   *)
(* clauses are what the next write and the next unlink depend on.  An      *)
(* unexposed publisher under way is within its lease (InTime), so the      *)
(* collector's final re-mark sees the record; a digest the sweep will      *)
(* delete is therefore no unexposed publisher's (Spared), and what such a  *)
(* publisher has checked or written stays put (Held).                      *)
(***************************************************************************)
EXTENDS PublishGCProofs

USE DEF Contents, PubPhases, Leasing, Admitted, GcPhases, Exposures

\* What p is about to write reaches as far as p asked.
Drafts(p) == \A d \in Digest : draft[p][d] # 0 =>
    ppc[p] \in Leasing \ {"leasing"} /\ draft[p][d] >= until[p]

\* Unless a call crossed it, p's lease in force stands in the record, will be
\* kept by every refresh that has read it, and is not about to be unlinked.
Stands(p, d) ==
    /\ lease[d] >= until[p]
    /\ \A q \in Publisher : draft[q][d] # 0 => draft[q][d] >= until[p]
    /\ \A c \in Collector : d \notin stale[c]

Covered(p) == exposure[p] # "crossed" =>
    \A d \in Digest : HasLeased(p, d) /\ until[p] > clock => Stands(p, d)

\* An unexposed publisher took leases, and is within them while under way.
InTime(p) == exposure[p] = "none" =>
    /\ TakesLease(p)
    /\ ppc[p] \notin {"idle", "done"} => until[p] > clock

\* A sweep condemns nothing that an unexposed publisher has leased.
Spared(p) == exposure[p] = "none" =>
    \A d \in Digest, c \in Collector : HasLeased(p, d) => d \notin Condemned(c)

\* d is in the store, or p was granted its upload.
Promised(p, d) == blob[d] = "good" \/ (Kind[p] = "http" /\ grant[p][d] # 0)

\* What an unexposed publisher knows of each of its digests.
Held(p) == exposure[p] = "none" => \A d \in Needs[p] :
    /\ ppc[p] = "probing" /\ d \notin todo[p] => Promised(p, d)
    /\ ppc[p] = "uploading" /\ d \notin todo[p] => blob[d] = "good"
    /\ ppc[p] \in {"verifying", "saving", "done"} => blob[d] = "good"

Safe(p) ==
    /\ p \in releases <=> ppc[p] = "done"
    /\ Drafts(p) /\ Covered(p) /\ InTime(p) /\ Spared(p) /\ Held(p)

IntactInv ==
    /\ TypeOK
    /\ \A p \in Publisher : Safe(p)

-----------------------------------------------------------------------------
(* Publishers' steps.                                                      *)

\* What the other publishers and the collectors have of a step of p.
Apart(p) ==
    /\ \A q \in Publisher \ {p} :
         /\ ppc'[q] = ppc[q] /\ todo'[q] = todo[q]
         /\ grant'[q] = grant[q] /\ until'[q] = until[q]
         /\ draft'[q] = draft[q]
         /\ q \in releases' <=> q \in releases
    /\ \A d \in Digest : blob[d] = "good" => blob'[d] = "good"
    /\ UNCHANGED <<clock, gpc, cands, marked, leased, stale>>

\* The lease records and their refreshes are left alone by a step that is none
\* of a refresh: an abandoned one writes nothing.
Aside ==
    /\ UNCHANGED lease
    /\ \A q \in Publisher, d \in Digest :
         draft'[q][d] = draft[q][d] \/ draft'[q][d] = 0

Refresh(p, d) ==
    \/ LeaseRead(p, d) \/ LeaseOpen(p, d) \/ LeaseFill(p, d) \/ LeaseLost(p, d)

\* A publisher's step leaves the others' fields alone, condemns nothing and never
\* takes a good object away.
LEMMA PublisherFrame ==
    ASSUME TypeOK, NEW p \in Publisher, PublisherStep(p) \/ GiveUp(p)
    PROVE  /\ Apart(p)
           /\ \/ \E d \in Digest : Refresh(p, d)
              \/ Aside /\ \A q \in Publisher \ {p} : exposure'[q] = exposure[q]
<1> USE DEF storeVars, gcVars, scanVars, Goto, Remaining, TypeOK, Apart, Aside
<1>1. CASE StartPublish(p)
  BY <1>1 DEF StartPublish
<1>2. CASE PlanAnswer(p) \/ SendCommit(p) \/ EnsureSite(p) \/ SaveRelease(p)
  BY <1>2 DEF PlanAnswer, SendCommit, EnsureSite, SaveRelease
<1>3. CASE Abandon(p)
  BY <1>3 DEF Abandon, NoDraft
<1>4. CASE UploadRefused(p) \/ GiveUp(p)
  BY <1>3, <1>4 DEF UploadRefused, GiveUp
<1>5. ASSUME NEW d \in Digest, LeaseRead(p, d) \/ LeaseOpen(p, d)
      PROVE  Apart(p)
  BY <1>5 DEF LeaseRead, LeaseOpen
<1>6. ASSUME NEW d \in Digest, LeaseFill(p, d) \/ LeaseLost(p, d)
      PROVE  Apart(p)
  <2>1. TurnThen(p, d, "leasing", "probing")
    BY <1>6 DEF LeaseFill, LeaseLost
  <2>2. \A q \in Publisher \ {p} : ppc'[q] = ppc[q] /\ todo'[q] = todo[q]
    BY <2>1 DEF TurnThen
  <2>3. /\ \A q \in Publisher \ {p} : draft'[q] = draft[q]
        /\ UNCHANGED <<clock, blob, releases, grant, until, gpc, cands, marked,
                       leased, stale>>
    BY <1>6 DEF LeaseFill, LeaseLost
  <2>. QED
    BY <2>2, <2>3
<1>7. ASSUME NEW d \in Digest, PlanProbe(p, d) \/ Upload(p, d)
      PROVE  Apart(p) /\ UNCHANGED <<lease, draft, exposure>>
  BY <1>7 DEF PlanProbe, Upload
<1>8. ASSUME NEW d \in Digest, StorePacked(p, d)
      PROVE  Apart(p) /\ UNCHANGED <<lease, draft, exposure>>
  BY <1>8 DEF StorePacked, TurnThen
<1>9. ASSUME NEW d \in Digest, VerifyBlob(p, d), ~Abandon(p)
      PROVE  Apart(p) /\ UNCHANGED <<lease, draft, exposure>>
  BY <1>9 DEF VerifyBlob
<1>10. CASE \E d \in Digest : Refresh(p, d)
  BY <1>10, <1>5, <1>6 DEF Refresh
<1>11. CASE \E d \in Digest : PlanProbe(p, d) \/ Upload(p, d)
  BY <1>11, <1>7
<1>12. CASE \E d \in Digest : StorePacked(p, d)
  BY <1>12, <1>8
<1>13. CASE \E d \in Digest : VerifyBlob(p, d)
  BY <1>13, <1>3, <1>9
<1>14. QED
  BY <1>1, <1>2, <1>4, <1>10, <1>11, <1>12, <1>13 DEF PublisherStep, Refresh

\* A lease stands through every step that is none of a refresh or of a prune.
LEMMA StandsAside ==
    ASSUME NEW p \in Publisher, NEW d \in Digest, Stands(p, d), Aside,
           until'[p] = until[p],
           \A c \in Collector : d \in stale'[c] => d \in stale[c]
    PROVE  Stands(p, d)'
BY DEF Stands, Aside

\* Another's refresh keeps a lease it has not seen: if it caught the record empty
\* and asks for less, q is exposed; what it reads otherwise reaches far enough.
LEMMA StandsRefresh ==
    ASSUME IntactInv, NEW p \in Publisher, NEW e \in Digest, Refresh(p, e),
           NEW q \in Publisher, NEW d \in Digest, Stands(q, d),
           HasLeased(q, d), until[q] > clock, exposure'[q] # "crossed",
           TypeOK'
    PROVE  Stands(q, d)'
<1> USE DEF IntactInv, storeVars, gcVars, scanVars
<1>1. UNCHANGED <<until, stale>>
  BY DEF Refresh, LeaseRead, LeaseOpen, LeaseFill, LeaseLost
<1>2. CASE LeaseRead(p, e)
  <2>1. /\ UNCHANGED lease
        /\ draft' = [draft EXCEPT ![p][e] = Extended(e, until[p])]
        /\ d = e /\ e \in torn => ~(until[q] > until[p])
    BY <1>2 DEF LeaseRead
  <2>2. /\ lease[d] \in Nat /\ until[p] \in Nat /\ until[q] \in Nat
        /\ lease[d] >= until[q]
    BY DEF TypeOK, Stands
  <2>3. d = e => Extended(e, until[p]) >= until[q]
    BY <2>1, <2>2 DEF Extended, SeenLease
  <2>. QED
    BY <1>1, <2>1, <2>3 DEF Stands, TypeOK
<1>3. CASE LeaseOpen(p, e)
  BY <1>1, <1>3 DEF LeaseOpen, Stands
<1>4. CASE LeaseFill(p, e)
  <2>1. /\ lease' = [lease EXCEPT ![e] = draft[p][e]] /\ draft[p][e] # 0
        /\ draft' = [draft EXCEPT ![p] = NoDraft]
    BY <1>4 DEF LeaseFill
  <2>2. lease'[d] >= until[q]
    BY <2>1 DEF Stands, TypeOK
  <2>. QED
    BY <1>1, <2>1, <2>2 DEF Stands, NoDraft, TypeOK
<1>5. CASE LeaseLost(p, e)
  BY <1>1, <1>5 DEF LeaseLost, NoDraft, Stands, TypeOK
<1>. QED
  BY <1>2, <1>3, <1>4, <1>5 DEF Refresh

\* What a publisher's step leaves of the other publishers' safety.
LEMMA OthersStaySafe ==
    ASSUME IntactInv, NEW p \in Publisher, PublisherStep(p) \/ GiveUp(p),
           NEW q \in Publisher, q # p
    PROVE  Safe(q)'
<1>1. TypeOK /\ Safe(q) /\ TypeOK'
  BY PublisherTypes DEF IntactInv
<1>2. /\ ppc'[q] = ppc[q] /\ todo'[q] = todo[q]
      /\ grant'[q] = grant[q] /\ until'[q] = until[q] /\ draft'[q] = draft[q]
      /\ q \in releases' <=> q \in releases
  BY <1>1, PublisherFrame DEF Apart
<1>3. /\ \A d \in Digest : blob[d] = "good" => blob'[d] = "good"
      /\ UNCHANGED <<clock, gpc, cands, marked, leased, stale>>
  BY <1>1, PublisherFrame DEF Apart
<1>4. /\ exposure'[q] # "crossed" => exposure[q] # "crossed"
      /\ exposure'[q] = "none" => exposure[q] = "none"
  <2>1. CASE \E d \in Digest : Refresh(p, d)
    BY <1>1, <2>1 DEF Refresh, LeaseRead, LeaseOpen, LeaseFill, LeaseLost, Expose,
                      TypeOK
  <2>2. CASE exposure'[q] = exposure[q]
    BY <2>2
  <2>. QED
    BY <1>1, <2>1, <2>2, PublisherFrame
<1>5. Covered(q)'
  <2>1. ASSUME NEW d \in Digest, HasLeased(q, d)', until'[q] > clock',
               exposure'[q] # "crossed"
        PROVE  Stands(q, d)'
    <3>1. HasLeased(q, d) /\ until[q] > clock /\ Stands(q, d)
      BY <1>1, <1>2, <1>3, <1>4, <2>1 DEF Safe, Covered, HasLeased, TakesLease
    <3>2. CASE \E e \in Digest : Refresh(p, e)
      BY <1>1, <2>1, <3>1, <3>2, StandsRefresh
    <3>3. CASE Aside
      BY <1>2, <1>3, <3>1, <3>3, StandsAside
    <3>. QED
      BY <1>1, <3>2, <3>3, PublisherFrame
  <2>2. QED
    BY <2>1 DEF Covered
<1>6. InTime(q)' /\ Drafts(q)'
  BY <1>1, <1>2, <1>3, <1>4 DEF Safe, InTime, Drafts, TakesLease
<1>7. Spared(q)'
  BY <1>1, <1>2, <1>3, <1>4 DEF Safe, Spared, Condemned, HasLeased, TakesLease
<1>8. Held(q)'
  BY <1>1, <1>2, <1>3, <1>4, ConstantsOK DEF ConstantsOK, Safe, Held, Promised
<1>9. QED
  BY <1>1, <1>2, <1>5, <1>6, <1>7, <1>8 DEF Safe

\* An abandoned publish has no lease to count on and holds nothing.
LEMMA AbandonSafe ==
    ASSUME IntactInv, NEW p \in Publisher, Abandon(p), p \notin releases
    PROVE  Safe(p)'
<1>1. /\ ppc'[p] = "idle" /\ exposure'[p] = Unexposed(p) /\ releases' = releases
  BY DEF IntactInv, TypeOK, Abandon, Goto, storeVars
<1>2. ~ \E d \in Digest : HasLeased(p, d)'
  BY <1>1 DEF HasLeased
<1>3. Drafts(p)'
  BY DEF IntactInv, TypeOK, Abandon, NoDraft, Drafts
<1>4. QED
  BY <1>1, <1>2, <1>3 DEF Safe, Covered, InTime, Spared, Held, Unexposed, TakesLease

LEMMA StartSafe ==
    ASSUME IntactInv, NEW p \in Publisher, StartPublish(p)
    PROVE  Safe(p)'
<1> USE DEF IntactInv, TypeOK, StartPublish, Goto, Remaining, storeVars, gcVars
<1>1. /\ todo'[p] = Needs[p] /\ UNCHANGED <<clock, releases, exposure, blob>>
      /\ p \notin releases /\ Drafts(p)'
  BY DEF Safe, Drafts
<1>2. CASE TakesLease(p)
  <2>1. ppc'[p] = "leasing" /\ until'[p] = clock + LeaseTTL
    BY <1>2
  <2>2. until'[p] > clock'
    BY <1>1, <2>1, ConstantsOK DEF ConstantsOK
  <2>3. ~ \E d \in Digest : HasLeased(p, d)'
    BY <1>1, <2>1 DEF HasLeased
  <2>4. TakesLease(p)'
    BY <1>2 DEF TakesLease
  <2>5. QED
    BY <1>1, <2>1, <2>2, <2>3, <2>4 DEF Safe, Covered, InTime, Spared, Held
<1>3. CASE ~TakesLease(p)
  <2>1. ppc'[p] = "probing" /\ exposure'[p] # "none"
    BY <1>1, <1>3 DEF Safe, InTime
  <2>2. ~ \E d \in Digest : HasLeased(p, d)'
    BY <1>3 DEF HasLeased, TakesLease
  <2>3. QED
    BY <1>1, <2>1, <2>2 DEF Safe, Covered, InTime, Spared, Held
<1>4. QED
  BY <1>2, <1>3

\* Before it has filled the record, a refresh gives its own publisher nothing to
\* count on, and takes nothing from what it counts on already.
LEMMA RefreshBeginsSafe ==
    ASSUME IntactInv, NEW p \in Publisher, NEW d \in Digest,
           LeaseRead(p, d) \/ LeaseOpen(p, d)
    PROVE  Safe(p)'
<1> USE DEF IntactInv
<1>1. /\ ppc[p] \in {"leasing", "opening"} /\ ppc'[p] \in {"opening", "filling"}
      /\ UNCHANGED <<clock, blob, releases, todo, grant, until, gpc, cands, marked,
                     leased, stale>>
  BY DEF LeaseRead, LeaseOpen, Goto, TypeOK, storeVars, gcVars, scanVars
<1>2. /\ exposure'[p] # "crossed" => exposure[p] # "crossed"
      /\ exposure'[p] = "none" => exposure[p] = "none"
  BY DEF LeaseRead, LeaseOpen, TypeOK
<1>3. TypeOK' /\ Refresh(p, d)
  BY RefreshTypes DEF Refresh
<1>4. Drafts(p)'
  <2>1. CASE LeaseRead(p, d)
    <3>1. Extended(d, until[p]) >= until[p]
      BY DEF Extended, SeenLease, TypeOK
    <3>2. /\ ppc[p] = "leasing"
          /\ draft' = [draft EXCEPT ![p][d] = Extended(d, until[p])]
      BY <2>1 DEF LeaseRead
    <3>. QED
      BY <1>1, <3>1, <3>2 DEF Safe, Drafts, TypeOK
  <2>2. CASE LeaseOpen(p, d)
    BY <1>1, <2>2 DEF LeaseOpen, Safe, Drafts
  <2>. QED
    BY <2>1, <2>2
<1>5. \A e \in Digest : HasLeased(p, e)' => HasLeased(p, e)
  BY <1>1 DEF HasLeased, TakesLease
<1>6. Covered(p)'
  BY <1>1, <1>2, <1>3, <1>5, StandsRefresh DEF Safe, Covered
<1>7. InTime(p)'
  BY <1>1, <1>2 DEF Safe, InTime, TakesLease
<1>8. Spared(p)'
  BY <1>1, <1>2, <1>5 DEF Safe, Spared, Condemned
<1>9. Held(p)'
  BY <1>1 DEF Held
<1>. QED
  BY <1>1, <1>4, <1>6, <1>7, <1>8, <1>9 DEF Safe

\* Having leased one more digest: unless a call crosses it the lease stands, and
\* a digest that is condemned already exposes the publisher.
LEMMA LeaseSafe ==
    ASSUME IntactInv, NEW p \in Publisher, NEW d \in Digest,
           LeaseFill(p, d) \/ LeaseLost(p, d)
    PROVE  Safe(p)'
<1> USE DEF IntactInv
<1>1. /\ ppc[p] \in Leasing
      /\ UNCHANGED <<clock, blob, releases, grant, until, gpc, cands, marked,
                     leased, stale>>
      /\ draft' = [draft EXCEPT ![p] = NoDraft]
      /\ TurnThen(p, d, "leasing", "probing")
  BY DEF LeaseFill, LeaseLost, storeVars, gcVars, scanVars
<1>2. \/ ppc'[p] = "leasing" /\ todo'[p] = todo[p] \ {d}
      \/ ppc'[p] = "probing" /\ todo'[p] = Needs[p] /\ todo[p] = {d}
  BY <1>1 DEF TypeOK, TurnThen, Goto, Remaining
<1>3. \A e \in Digest : HasLeased(p, e)' => e = d \/ HasLeased(p, e)
  BY <1>1, <1>2 DEF HasLeased, TakesLease
<1>4. /\ exposure'[p] # "crossed" => exposure[p] # "crossed" /\ ~Crossed(p, d)
                                    /\ LeaseFill(p, d)
      /\ exposure'[p] = "none" => exposure[p] = "none"
      /\ exposure'[p] = "none" => \A c \in Collector : d \notin Condemned(c)
  BY DEF LeaseFill, LeaseLost, Expose, TypeOK
<1>5. TypeOK' /\ Refresh(p, d)
  BY RefreshTypes DEF Refresh
<1>6. ASSUME exposure'[p] # "crossed"
      PROVE  Stands(p, d)'
  <2>1. /\ lease' = [lease EXCEPT ![d] = draft[p][d]] /\ draft[p][d] # 0
        /\ ~Crossed(p, d)
    BY <1>4, <1>6 DEF LeaseFill
  <2>2. lease'[d] >= until'[p]
    BY <1>1, <2>1 DEF Safe, Drafts, TypeOK
  <2>3. ASSUME NEW q \in Publisher, draft'[q][d] # 0
        PROVE  draft'[q][d] >= until'[p]
    BY <1>1, <2>1, <2>3 DEF Crossed, NoDraft, TypeOK
  <2>4. \A c \in Collector : d \notin stale'[c]
    BY <1>1, <2>1 DEF Crossed
  <2>. QED
    BY <2>2, <2>3, <2>4 DEF Stands
<1>7. Covered(p)'
  BY <1>1, <1>3, <1>4, <1>5, <1>6, StandsRefresh DEF Safe, Covered
<1>8. InTime(p)'
  BY <1>1, <1>2, <1>4 DEF Safe, InTime, TakesLease
<1>9. \A c \in Collector : Condemned(c)' = Condemned(c)
  BY <1>1 DEF Condemned
<1>10. Spared(p)'
  BY <1>3, <1>4, <1>9 DEF Safe, Spared
<1>11. Held(p)' /\ Drafts(p)'
  BY <1>1, <1>2 DEF Held, Drafts, NoDraft, TypeOK
<1>12. QED
  BY <1>1, <1>2, <1>7, <1>8, <1>10, <1>11 DEF Safe

\* A step that moves an admitted publisher on without touching its leases, its
\* expiry or its exposure keeps what depends on these.
LEMMA Onward ==
    ASSUME IntactInv, NEW p \in Publisher,
           ppc[p] \in Admitted, ppc'[p] \in Admitted,
           ppc[p] = "done" => ppc'[p] = "done",
           UNCHANGED <<clock, lease, until, draft, exposure, gpc, cands, marked,
                       leased, stale>>
    PROVE  Drafts(p)' /\ Covered(p)' /\ InTime(p)' /\ Spared(p)'
<1>1. \A d \in Digest : HasLeased(p, d)' => HasLeased(p, d)
  BY DEF HasLeased, TakesLease
<1>2. \A c \in Collector : Condemned(c)' = Condemned(c)
  BY DEF Condemned
<1>3. Covered(p)' /\ Spared(p)'
  BY <1>1, <1>2 DEF IntactInv, Safe, Covered, Stands, Spared
<1>4. InTime(p)'
  BY DEF IntactInv, Safe, InTime, TakesLease
<1>5. Drafts(p)'
  BY DEF IntactInv, Safe, Drafts
<1>6. QED
  BY <1>3, <1>4, <1>5

LEMMA OwnStaysSafe ==
    ASSUME IntactInv, NEW p \in Publisher, PublisherStep(p) \/ GiveUp(p)
    PROVE  Safe(p)'
<1> USE DEF IntactInv
<1> DEFINE Kept == UNCHANGED <<clock, lease, until, draft, exposure, gpc, cands,
                               marked, leased, stale>>
<1>1. CASE StartPublish(p)
  BY <1>1, StartSafe
<1>2. CASE UploadRefused(p) \/ GiveUp(p)
  <2>1. Abandon(p) /\ ppc[p] # "done"
    BY <1>2 DEF UploadRefused, GiveUp
  <2>2. QED
    BY <2>1, AbandonSafe DEF Safe
<1>3. ASSUME NEW d \in Digest, Refresh(p, d)
      PROVE  Safe(p)'
  BY <1>3, RefreshBeginsSafe, LeaseSafe DEF Refresh
<1>4. CASE PlanAnswer(p)
  <2>1. /\ ppc[p] = "probing" /\ todo[p] = {} /\ ppc'[p] = "uploading"
        /\ todo'[p] = {d \in Needs[p] : grant[p][d] # 0}
        /\ UNCHANGED <<blob, releases>> /\ Kept
    BY <1>4 DEF PlanAnswer, TypeOK, Goto, Remaining, storeVars, gcVars, scanVars
  <2>2. Held(p)'
    BY <2>1 DEF Safe, Held, Promised
  <2>3. QED
    BY <2>1, <2>2, Onward DEF Safe
<1>5. CASE SendCommit(p)
  <2>1. /\ ppc[p] = "uploading" /\ todo[p] = {} /\ ppc'[p] = "verifying"
        /\ UNCHANGED <<blob, releases>> /\ Kept
    BY <1>5 DEF SendCommit, TypeOK, Goto, storeVars, gcVars, scanVars
  <2>2. Held(p)'
    BY <2>1 DEF Safe, Held
  <2>3. QED
    BY <2>1, <2>2, Onward DEF Safe
<1>6. CASE EnsureSite(p)
  <2>1. /\ ppc[p] = "verifying" /\ ppc'[p] = "saving"
        /\ UNCHANGED <<blob, releases>> /\ Kept
    BY <1>6 DEF EnsureSite, TypeOK, Goto, gcVars, scanVars
  <2>2. Held(p)'
    BY <2>1 DEF Safe, Held
  <2>3. QED
    BY <2>1, <2>2, Onward DEF Safe
<1>7. CASE SaveRelease(p)
  <2>1. /\ ppc[p] = "saving" /\ ppc'[p] = "done" /\ p \in releases'
        /\ UNCHANGED blob /\ Kept
    BY <1>7 DEF SaveRelease, TypeOK, Goto, gcVars, scanVars
  <2>2. Held(p)'
    BY <2>1 DEF Safe, Held
  <2>3. QED
    BY <2>1, <2>2, Onward DEF Safe
<1>8. ASSUME NEW d \in Digest, PlanProbe(p, d)
      PROVE  Safe(p)'
  <2>1. /\ ppc[p] = "probing" /\ Kind[p] = "http" /\ ppc' = ppc
        /\ todo'[p] = todo[p] \ {d}
        /\ UNCHANGED <<blob, releases>> /\ Kept
    BY <1>8 DEF PlanProbe, TypeOK, Remaining, storeVars, gcVars, scanVars
  <2>2. GrantExpiry # 0
    BY ConstantsOK DEF ConstantsOK, GrantExpiry, TypeOK
  <2>3. /\ blob[d] = "good" \/ grant'[p][d] # 0
        /\ \A e \in Digest \ {d} : grant'[p][e] = grant[p][e]
    BY <1>8, <2>2 DEF PlanProbe, TypeOK
  <2>4. Held(p)'
    BY <2>1, <2>3, ConstantsOK DEF ConstantsOK, Safe, Held, Promised
  <2>5. QED
    BY <2>1, <2>4, Onward DEF Safe
<1>9. ASSUME NEW d \in Digest, Upload(p, d)
      PROVE  Safe(p)'
  <2>1. /\ ppc[p] \in {"uploading", "verifying", "saving", "done"} /\ ppc' = ppc
        /\ UNCHANGED releases /\ Kept
    BY <1>9 DEF Upload, gcVars, scanVars
  <2>2. blob'[d] = "good" /\ \A e \in Digest \ {d} : blob'[e] = blob[e]
    BY <1>9 DEF Upload, TypeOK
  <2>3. ppc[p] = "uploading" => todo'[p] = todo[p] \ {d}
    BY <1>9 DEF Upload, Remaining, TypeOK
  <2>4. Held(p)'
    BY <2>1, <2>2, <2>3, ConstantsOK DEF ConstantsOK, Safe, Held
  <2>5. QED
    BY <2>1, <2>4, Onward DEF Safe
<1>10. ASSUME NEW d \in Digest, StorePacked(p, d)
       PROVE  Safe(p)'
  <2>1. /\ ppc[p] = "probing" /\ Kind[p] # "http" /\ UNCHANGED releases /\ Kept
        /\ TurnThen(p, d, "probing", "verifying")
    BY <1>10 DEF StorePacked, gcVars, scanVars
  <2>2. \/ ppc'[p] = "probing" /\ todo'[p] = todo[p] \ {d}
        \/ ppc'[p] = "verifying" /\ todo[p] = {d}
    BY <2>1 DEF TypeOK, TurnThen, Goto, Remaining
  <2>3. /\ Kind[p] # "import" => blob'[d] = "good"
        /\ \A e \in Digest \ {d} : blob'[e] = blob[e]
    BY <1>10 DEF StorePacked, TypeOK
  <2>4. exposure[p] = "none" => Kind[p] # "import"
    BY DEF Safe, InTime, TakesLease
  <2>5. Held(p)'
    BY <2>1, <2>2, <2>3, <2>4, ConstantsOK
       DEF ConstantsOK, Safe, Held, Promised
  <2>6. QED
    BY <2>1, <2>2, <2>5, Onward DEF Safe
<1>11. ASSUME NEW d \in Digest, VerifyBlob(p, d)
       PROVE  Safe(p)'
  <2>1. CASE Abandon(p)
    <3>1. ppc[p] = "verifying"
      BY <1>11 DEF VerifyBlob
    <3>2. QED
      BY <2>1, <3>1, AbandonSafe DEF Safe
  <2>2. CASE ~Abandon(p)
    <3>1. /\ ppc[p] = "verifying" /\ ppc' = ppc
          /\ UNCHANGED <<blob, releases>> /\ Kept
      BY <1>11, <2>2 DEF VerifyBlob, storeVars, gcVars, scanVars
    <3>2. Held(p)'
      BY <3>1 DEF Safe, Held
    <3>3. QED
      BY <3>1, <3>2, Onward DEF Safe
  <2>3. QED
    BY <2>1, <2>2
<1>12. QED
  BY <1>1, <1>2, <1>3, <1>4, <1>5, <1>6, <1>7, <1>8, <1>9, <1>10, <1>11
     DEF PublisherStep, Refresh

-----------------------------------------------------------------------------
(* Collectors' steps.                                                      *)

\* Short of the sweep, the final lease re-mark and the prune, a collector condemns
\* nothing new and touches nothing a publisher relies on.
LEMMA QuietCollector ==
    ASSUME IntactInv, NEW c \in Collector,
           \/ StartPass(c) \/ ListSites(c) \/ MarkLeases(c) \/ ListBlobs(c)
           \/ EndSweep(c) \/ EndPass(c) \/ LeasesUnreadable(c) \/ AbortPass(c)
           \/ \E s \in Site : MarkSite(c, s)
    PROVE  /\ UNCHANGED <<clock, storeVars, pubVars, exposure>>
           /\ \A k \in Collector : Condemned(k)' \subseteq Condemned(k)
           /\ \A k \in Collector, d \in Digest :
                d \in stale'[k] => d \in stale[k] \/ lease[d] <= clock
<1> USE DEF IntactInv, TypeOK, scanVars, Condemned
<1>1. CASE StartPass(c)
  BY <1>1 DEF StartPass
<1>2. CASE ListSites(c) \/ MarkLeases(c)
  BY <1>2 DEF ListSites, MarkLeases
<1>3. CASE ListBlobs(c)
  BY <1>3 DEF ListBlobs
<1>4. CASE EndSweep(c)
  BY <1>4 DEF EndSweep
<1>5. CASE EndPass(c) \/ LeasesUnreadable(c) \/ AbortPass(c)
  <2>1. Forget(c)
    BY <1>5 DEF EndPass, LeasesUnreadable, AbortPass
  <2>2. /\ gpc'[c] = "idle" /\ stale'[c] = {}
        /\ \A k \in Collector \ {c} :
             /\ gpc'[k] = gpc[k] /\ cands'[k] = cands[k] /\ stale'[k] = stale[k]
             /\ marked'[k] = marked[k] /\ leased'[k] = leased[k]
    BY <2>1 DEF Forget
  <2>3. UNCHANGED <<clock, storeVars, pubVars, exposure>>
    BY <2>1 DEF Forget
  <2>4. QED
    BY <2>2, <2>3
<1>6. ASSUME NEW s \in Site, MarkSite(c, s)
      PROVE  /\ UNCHANGED <<clock, storeVars, pubVars, stale, exposure>>
             /\ \A k \in Collector : Condemned(k)' \subseteq Condemned(k)
  BY <1>6 DEF MarkSite
<1>7. QED
  BY <1>1, <1>2, <1>3, <1>4, <1>5, <1>6

\* A lease in force is never listed as expired.
LEMMA QuietSafe ==
    ASSUME IntactInv, UNCHANGED <<clock, storeVars, pubVars, exposure>>,
           \A k \in Collector : Condemned(k)' \subseteq Condemned(k),
           \A k \in Collector, d \in Digest :
             d \in stale'[k] => d \in stale[k] \/ lease[d] <= clock,
           NEW p \in Publisher
    PROVE  Safe(p)'
<1>1. \A d \in Digest : HasLeased(p, d)' = HasLeased(p, d)
  BY DEF HasLeased, TakesLease, pubVars
<1>2. Spared(p)'
  BY <1>1 DEF IntactInv, Safe, Spared
<1>3. InTime(p)' /\ Held(p)' /\ Drafts(p)'
  BY DEF IntactInv, Safe, InTime, Held, Promised, Drafts, TakesLease, storeVars,
         pubVars
<1>4. Covered(p)'
  <2>1. ASSUME NEW d \in Digest, HasLeased(p, d), until[p] > clock,
               exposure[p] # "crossed"
        PROVE  Stands(p, d)'
    <3>1. Stands(p, d)
      BY <2>1 DEF IntactInv, Safe, Covered
    <3>2. ~(lease[d] <= clock)
      BY <2>1, <3>1 DEF Stands, IntactInv, TypeOK
    <3>. QED
      BY <3>1, <3>2 DEF Stands, storeVars, pubVars
  <2>. QED
    BY <1>1, <2>1 DEF Covered, pubVars
<1>5. QED
  BY <1>2, <1>3, <1>4 DEF IntactInv, Safe, storeVars, pubVars

\* The final re-mark sees the lease of every publisher it does not expose.
LEMMA RemarkSafe ==
    ASSUME IntactInv, NEW c \in Collector, RemarkLeases(c), NEW p \in Publisher
    PROVE  Safe(p)'
<1> USE DEF IntactInv, RemarkLeases, scanVars
<1>1. UNCHANGED <<clock, storeVars, pubVars, stale, marked, cands>>
  OBVIOUS
<1>2. /\ exposure'[p] = "none" => exposure[p] = "none"
      /\ exposure'[p] # "crossed" => exposure[p] # "crossed"
      /\ p \in releases /\ until[p] <= clock /\ ~(Needs[p] \subseteq marked[c])
           => exposure'[p] # "none"
  BY DEF Expose, TypeOK
<1>3. \A d \in Digest : HasLeased(p, d)' = HasLeased(p, d)
  BY <1>1 DEF HasLeased, TakesLease, pubVars
<1>4. ASSUME NEW d \in Digest, HasLeased(p, d), exposure'[p] = "none"
      PROVE  d \notin Condemned(c)'
  <2>1. /\ until[p] > clock => lease[d] >= until[p]
        /\ lease[d] \in Nat /\ until[p] \in Nat /\ clock \in Nat
    BY <1>2, <1>4 DEF Safe, Covered, Stands, TypeOK
  <2>2. leased'[c] = {e \in Digest : lease[e] > clock} /\ marked'[c] = marked[c]
    BY DEF ActiveLeases, TypeOK
  <2>3. CASE until[p] > clock
    <3>1. lease[d] > clock
      BY <2>1, <2>3
    <3>2. QED
      BY <2>2, <3>1 DEF Condemned
  <2>4. CASE ~(until[p] > clock)
    <3>1. ppc[p] = "done"
      BY <1>2, <1>4, <2>4 DEF Safe, InTime, HasLeased, TypeOK
    <3>2. p \in releases /\ until[p] <= clock
      BY <2>1, <2>4, <3>1 DEF Safe
    <3>3. Needs[p] \subseteq marked[c] /\ d \in Needs[p]
      BY <1>2, <1>4, <3>2 DEF HasLeased
    <3>4. QED
      BY <2>2, <3>3 DEF Condemned
  <2>5. QED
    BY <2>3, <2>4
<1>5. \A k \in Collector : k # c => Condemned(k)' = Condemned(k)
  BY DEF Condemned, TypeOK
<1>6. Spared(p)'
  BY <1>2, <1>3, <1>4, <1>5 DEF Safe, Spared
<1>7. Drafts(p)' /\ Covered(p)' /\ InTime(p)' /\ Held(p)'
  BY <1>1, <1>2, <1>3 DEF Safe, Drafts, Covered, Stands, InTime, Held, Promised,
       TakesLease, storeVars, pubVars
<1>8. QED
  BY <1>1, <1>6, <1>7 DEF Safe, storeVars, pubVars

\* A deletion takes only what no unexposed publisher has leased, so what such a
\* publisher holds survives it.
LEMMA SweepSafe ==
    ASSUME IntactInv, NEW c \in Collector, NEW d \in Digest, Sweep(c, d),
           NEW p \in Publisher
    PROVE  Safe(p)'
<1> USE DEF IntactInv
<1>1. /\ UNCHANGED <<clock, lease, releases, ppc, todo, grant, until, draft, gpc,
                     marked, leased, stale, exposure>>
      /\ cands' = [cands EXCEPT ![c] = @ \ {d}]
  BY DEF Sweep, pubVars
<1>2. \A k \in Collector : Condemned(k)' \subseteq Condemned(k)
  BY <1>1 DEF Condemned, TypeOK
<1>3. \A e \in Digest : HasLeased(p, e)' = HasLeased(p, e)
  BY <1>1 DEF HasLeased, TakesLease
<1>4. \A e \in Digest : blob'[e] = blob[e] \/ e \in Condemned(c)
  BY DEF Sweep, TypeOK
<1>5. Drafts(p)' /\ Covered(p)' /\ InTime(p)' /\ Spared(p)'
  BY <1>1, <1>2, <1>3 DEF Safe, Drafts, Covered, Stands, InTime, Spared, TakesLease
<1>6. ASSUME exposure'[p] = "none", NEW e \in Needs[p],
             ppc[p] \in {"probing", "uploading", "verifying", "saving", "done"}
      PROVE  blob'[e] = blob[e]
  <2>1. HasLeased(p, e) /\ e \in Digest /\ exposure[p] = "none"
    BY <1>1, <1>6, ConstantsOK DEF ConstantsOK, Safe, InTime, HasLeased
  <2>2. QED
    BY <1>4, <2>1 DEF Safe, Spared
<1>7. Held(p)'
  BY <1>1, <1>6 DEF Safe, Held, Promised
<1>8. QED
  BY <1>1, <1>5, <1>7 DEF Safe

\* Pruning a lease record takes it from no publisher that has it in force, but
\* for one that was exposed when it filled the record.
LEMMA PruneSafe ==
    ASSUME IntactInv, NEW c \in Collector, NEW d \in Digest, PruneLease(c, d),
           NEW p \in Publisher
    PROVE  Safe(p)'
<1> USE DEF IntactInv
<1>1. /\ UNCHANGED <<clock, blob, releases, todo, grant, until, draft, gpc, cands,
                     marked, leased, exposure>>
      /\ d \in stale[c] /\ \A e \in Digest \ {d} : lease'[e] = lease[e]
      /\ \A k \in Collector : stale'[k] \subseteq stale[k]
      /\ ppc'[p] = ppc[p] \/ (ppc[p] = "filling" /\ ppc'[p] = "lost")
  BY DEF PruneLease, TypeOK
<1>2. \A e \in Digest : HasLeased(p, e)' = HasLeased(p, e)
  BY <1>1 DEF HasLeased, TakesLease
<1>3. Covered(p)'
  <2>1. ASSUME NEW e \in Digest, Stands(p, e)
        PROVE  Stands(p, e)'
    BY <1>1, <2>1 DEF Stands
  <2>. QED
    BY <1>1, <1>2, <2>1 DEF Safe, Covered
<1>4. InTime(p)' /\ Drafts(p)'
  BY <1>1 DEF Safe, InTime, Drafts, TakesLease
<1>5. \A k \in Collector : Condemned(k)' = Condemned(k)
  BY <1>1 DEF Condemned
<1>6. Spared(p)'
  BY <1>1, <1>2, <1>5 DEF Safe, Spared
<1>7. Held(p)'
  BY <1>1 DEF Safe, Held, Promised
<1>8. QED
  BY <1>1, <1>3, <1>4, <1>6, <1>7 DEF Safe

LEMMA CollectorKeepsIntact ==
    ASSUME IntactInv, NEW c \in Collector,
           CollectorStep(c) \/ AbortPass(c)
    PROVE  IntactInv'
<1>1. TypeOK'
  BY CollectorTypes DEF IntactInv
<1>2. CASE RemarkLeases(c)
  BY <1>1, <1>2, RemarkSafe DEF IntactInv
<1>3. CASE \E d \in Digest : Sweep(c, d)
  BY <1>1, <1>3, SweepSafe DEF IntactInv
<1>4. CASE \E d \in Digest : PruneLease(c, d)
  BY <1>1, <1>4, PruneSafe DEF IntactInv
<1>5. CASE /\ ~RemarkLeases(c)
           /\ ~ \E d \in Digest : Sweep(c, d) \/ PruneLease(c, d)
  <2>1. /\ UNCHANGED <<clock, storeVars, pubVars, exposure>>
        /\ \A k \in Collector : Condemned(k)' \subseteq Condemned(k)
        /\ \A k \in Collector, d \in Digest :
             d \in stale'[k] => d \in stale[k] \/ lease[d] <= clock
    BY <1>5, QuietCollector DEF CollectorStep
  <2>2. \A p \in Publisher : Safe(p)'
    BY <2>1, QuietSafe
  <2>3. QED
    BY <1>1, <2>2 DEF IntactInv
<1>6. QED
  BY <1>2, <1>3, <1>4, <1>5

-----------------------------------------------------------------------------

LEMMA PublisherKeepsIntact ==
    ASSUME IntactInv, NEW p \in Publisher, PublisherStep(p) \/ GiveUp(p)
    PROVE  IntactInv'
<1>1. TypeOK'
  BY PublisherTypes DEF IntactInv
<1>2. \A q \in Publisher : Safe(q)'
  BY OthersStaySafe, OwnStaysSafe
<1>3. QED
  BY <1>1, <1>2 DEF IntactInv

\* A publisher that outlives its lease is exposed; the others stay within.
LEMMA TickKeepsIntact ==
    ASSUME IntactInv, Tick
    PROVE  IntactInv'
<1> USE DEF Tick, storeVars, pubVars, gcVars, scanVars
<1>1. TypeOK'
  BY TypeCorrectStep DEF IntactInv, Next, Healthy
<1>2. ASSUME NEW p \in Publisher
      PROVE  Safe(p)'
  <2>1. /\ exposure'[p] = "none" => exposure[p] = "none"
        /\ exposure'[p] # "crossed" => exposure[p] # "crossed"
        /\ ppc[p] \notin {"idle", "done"} /\ until[p] <= clock'
             => exposure'[p] # "none"
    BY DEF Expose, IntactInv, TypeOK
  <2>2. until[p] \in Nat /\ clock \in Nat /\ clock' = clock + 1
    BY <1>1 DEF IntactInv, TypeOK
  <2>3. InTime(p)'
    BY <2>1, <2>2 DEF IntactInv, Safe, InTime, TakesLease
  <2>4. Covered(p)' /\ Spared(p)' /\ Held(p)' /\ Drafts(p)'
    BY <2>1, <2>2 DEF IntactInv, Safe, Covered, Stands, Spared, Held, Drafts,
         HasLeased, TakesLease, Condemned, Promised
  <2>5. QED
    BY <2>3, <2>4 DEF IntactInv, Safe
<1>3. QED
  BY <1>1, <1>2 DEF IntactInv

LEMMA IntactInit == Init => IntactInv
<1> SUFFICES ASSUME Init PROVE IntactInv
  OBVIOUS
<1>1. TypeOK
  BY TypeCorrectInit
<1>2. ASSUME NEW p \in Publisher
      PROVE  Safe(p)
  <2>1. /\ ppc[p] = "idle" /\ p \notin releases /\ exposure[p] = Unexposed(p)
        /\ draft[p] = NoDraft
    BY DEF Init
  <2>2. QED
    BY <2>1 DEF Safe, Drafts, NoDraft, Covered, InTime, Spared, Held, HasLeased,
                Unexposed
<1>3. QED
  BY <1>1, <1>2 DEF IntactInv, Init

LEMMA IntactStep == IntactInv /\ [Next]_vars => IntactInv'
<1> SUFFICES ASSUME IntactInv, [Next]_vars PROVE IntactInv'
  OBVIOUS
<1>1. CASE UNCHANGED vars
  <2>1. TypeOK'
    BY TypeCorrectStep DEF IntactInv
  <2>2. \A k \in Collector : Condemned(k)' \subseteq Condemned(k)
    BY <1>1 DEF vars, gcVars, scanVars, Condemned
  <2>3. \A p \in Publisher : Safe(p)'
    BY <1>1, <2>2, QuietSafe DEF vars, gcVars, scanVars
  <2>4. QED
    BY <1>1, <2>1, <2>3 DEF IntactInv, vars, gcVars, scanVars
<1>2. QED
  BY <1>1, TickKeepsIntact, PublisherKeepsIntact, CollectorKeepsIntact
     DEF Next, Healthy

\* A lease written while no refresh of its digest was about to write less and no
\* prune to unlink it, and not caught empty since, reaches as far as was asked
\* until it has run out: the refreshes of other publishers, which read and write in
\* separate steps, and the prunes, which do not read again, can deprive it of
\* nothing unless they were under way already.
THEOREM LeasesAreHeld == Spec => []LeasesHeld
<1>1. IntactInv => LeasesHeld
  BY DEF IntactInv, Safe, Covered, Stands, LeasesHeld
<1>2. IntactInv /\ [Next]_vars => IntactInv'
  BY IntactStep
<1>3. QED
  BY <1>1, <1>2, IntactInit, PTL DEF Spec

\* What a plan found, or was uploaded under it, passes the commit gate as long
\* as the publisher is within its leases and no call crossed its refreshes,
\* whatever collectors run meanwhile.
THEOREM PlansAreKept == Spec => []PlanKept
<1>1. IntactInv => PlanKept
  BY DEF IntactInv, Safe, Held, PlanKept, Intact
<1>2. IntactInv /\ [Next]_vars => IntactInv'
  BY IntactStep
<1>3. QED
  BY <1>1, <1>2, IntactInit, PTL DEF Spec

\* No interleaving of publishers and collectors takes a blob away from a stored
\* release whose publisher leased it in time, in a refresh that no other call
\* crossed.
THEOREM ReleasesStayIntact == Spec => []ReleasesIntact
<1>1. ASSUME IntactInv, NEW p \in releases, exposure[p] = "none"
      PROVE  Intact(p)
  <2>1. p \in Publisher /\ ppc[p] = "done"
    BY <1>1 DEF IntactInv, TypeOK, Safe
  <2>2. QED
    BY <1>1, <2>1 DEF IntactInv, Safe, Held, Intact
<1>2. IntactInv /\ [Next]_vars => IntactInv'
  BY IntactStep
<1>3. IntactInv => ReleasesIntact
  BY <1>1 DEF ReleasesIntact
<1>4. QED
  BY <1>2, <1>3, IntactInit, PTL DEF Spec
=============================================================================
