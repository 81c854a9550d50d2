------------------------- MODULE SiteMetadataProofs -------------------------
(***************************************************************************)
(* Pointers never dangle and a completed scan has every root, for any      *)
(* number of slugs and requests, in any order, with crashes.               *)
(***************************************************************************)
EXTENDS SiteMetadata, TLAPS

USE DEF Lookups, Writes, Ended, Kinds

Placed == Writes \cup {"getRelease"}

\* A request past its lookups has a site, and that site has a record once the
\* request has made or found it.
Placement(w) ==
    /\ pc[w] \in Placed => mine[w] \in Worker
    /\ pc[w] = "newRecord" => mine[w] = w
    /\ pc[w] \in Placed \ {"newRecord"} => record[mine[w]] # Absent
    /\ pc[w] \in {"create", "newRecord", "newIndex", "release"} => Commits(w)
    /\ pc[w] = "getRelease" => ~Commits(w)

\* A release file appears when its request writes it and stays as written.
Writing(w) ==
    /\ Commits(w) => chosen[w] = w
    /\ release[w] # Absent =>
         /\ pc[w] \notin Lookups \cup {"newRecord", "newIndex", "getRelease"}
         /\ mine[w] \in Worker /\ record[mine[w]] # Absent
    /\ release[w] = Whole => pc[w] # "release"

\* What a request is about to make active is stored under its site.
Stored(r, i) == release[r] = Whole /\ mine[r] = i

Pointing(w) == pc[w] \in {"record", "index"} => Stored(chosen[w], mine[w])

Pointer(i) == record[i] \in Worker => Stored(record[i], i)

DiskInv ==
    /\ TypeOK
    /\ \A w \in Worker : Placement(w) /\ Writing(w) /\ Pointing(w) /\ Pointer(w)
    /\ IndexNeverDangles

\* While a scan runs, a release it owes is marked, listed, or under a site whose
\* directory it has yet to list; and it stays stored where it is.
ScanInv == scan \in {"scanning", "marked"} =>
    \A r \in owed :
        /\ release[r] = Whole
        /\ \/ r \in roots
           \/ scan = "scanning" /\ (r \in filesLeft \/ mine[r] \in dirsLeft)

-----------------------------------------------------------------------------
(* Type correctness.                                                       *)

LEMMA AfterLookupIs ==
    ASSUME NEW w \in Worker, pc[w] \in Lookups
    PROVE  /\ AfterLookup(w, TRUE) = IF pc[w] = "route" THEN "find"
                ELSE IF Commits(w) THEN "release" ELSE "getRelease"
           /\ AfterLookup(w, FALSE) = IF pc[w] = "route" THEN "find"
                ELSE IF pc[w] = "create" THEN "newRecord"
                ELSE IF Commits(w) THEN "create" ELSE "failed"
<1>1. CASE pc[w] = "route"
  BY <1>1 DEF AfterLookup, FirstFile
<1>2. CASE pc[w] = "find"
  BY <1>2 DEF AfterLookup, FirstFile
<1>3. CASE pc[w] = "create"
  BY <1>3 DEF AfterLookup, FirstFile
<1>4. QED
  BY <1>1, <1>2, <1>3

\* Where a lookup may take its request.
AfterLooking == Lookups \cup {"newRecord", "release", "getRelease", "failed"}

\* What a lookup does to its request.
LEMMA LookupMoves ==
    ASSUME TypeOK, NEW w \in Worker, ReadIndex(w) \/ ReadRecord(w)
    PROVE  /\ pc[w] \in Lookups /\ UNCHANGED <<diskVars, open, held, scanVars>>
           /\ UNCHANGED pc \/ \E p \in AfterLooking : Goto(w, p)
           /\ \E i \in Worker \cup {Absent} : mine' = [mine EXCEPT ![w] = i]
           /\ chosen' = chosen \/ (Kind[w] = "serve" /\ \E r \in Worker :
                                     chosen' = [chosen EXCEPT ![w] = r])
<1> USE DEF AfterLooking
<1>1. mine[w] \in Worker \cup {Absent} /\ mine = [mine EXCEPT ![w] = mine[w]]
  BY DEF TypeOK
<1>2. NoSite(w) \in Worker \cup {Absent}
  BY DEF NoSite
<1>3. CASE ReadIndex(w)
  <2>1. /\ pc[w] \in Lookups
        /\ UNCHANGED <<diskVars, open, held, scanVars>> /\ UNCHANGED chosen
    BY <1>3 DEF ReadIndex
  <2>2. AfterLookup(w, FALSE) \in AfterLooking
    BY <2>1, AfterLookupIs
  <2>3. index[SlugOf[w]] \in {Absent, Torn} \cup Worker
    BY ConstantsOK DEF ConstantsOK, TypeOK
  <2>4. CASE index[SlugOf[w]] = Torn
    <3>1. Goto(w, "failed") /\ UNCHANGED mine
      BY <1>3, <2>4, MarksDiffer DEF ReadIndex, SeenIndex, MarksDiffer
    <3>2. QED
      BY <1>1, <2>1, <3>1
  <2>5. CASE index[SlugOf[w]] = Absent
    <3>1. Goto(w, AfterLookup(w, FALSE)) /\ mine' = [mine EXCEPT ![w] = NoSite(w)]
      BY <1>3, <2>5, MarksDiffer DEF ReadIndex, SeenIndex, MarksDiffer
    <3>2. QED
      BY <1>2, <2>1, <2>2, <3>1
  <2>6. CASE index[SlugOf[w]] \in Worker
    <3>1. UNCHANGED pc /\ mine' = [mine EXCEPT ![w] = index[SlugOf[w]]]
      BY <1>3, <2>6, MarksDiffer DEF ReadIndex, SeenIndex, MarksDiffer
    <3>2. QED
      BY <2>1, <2>6, <3>1
  <2>7. QED
    BY <2>3, <2>4, <2>5, <2>6
<1>4. CASE ReadRecord(w)
  <2>1. pc[w] \in Lookups /\ UNCHANGED <<diskVars, open, held, scanVars>>
    BY <1>4 DEF ReadRecord
  <2>2. AfterLookup(w, FALSE) \in AfterLooking /\ AfterLookup(w, TRUE) \in AfterLooking
    BY <2>1, AfterLookupIs
  <2>3. mine[w] \in Worker /\ record[mine[w]] \in {Absent, Torn, Null} \cup Worker
    BY <1>4 DEF ReadRecord, TypeOK
  <2>4. CASE record[mine[w]] = Torn
    <3>1. Goto(w, "failed") /\ UNCHANGED <<mine, chosen>>
      BY <1>4, <2>4, MarksDiffer DEF ReadRecord, MarksDiffer
    <3>2. QED
      BY <1>1, <2>1, <3>1
  <2>5. CASE record[mine[w]] = Absent
    <3>1. /\ Goto(w, AfterLookup(w, FALSE)) /\ UNCHANGED chosen
          /\ mine' = [mine EXCEPT ![w] = NoSite(w)]
      BY <1>4, <2>5, MarksDiffer DEF ReadRecord, MarksDiffer
    <3>2. QED
      BY <1>2, <2>1, <2>2, <3>1
  <2>6. CASE record[mine[w]] \in Worker \cup {Null}
    <3>1. /\ Goto(w, "failed") \/ Goto(w, AfterLookup(w, TRUE))
          /\ mine' = [mine EXCEPT ![w] = Absent] \/ UNCHANGED mine
          /\ \/ UNCHANGED chosen
             \/ /\ Kind[w] = "serve" /\ record[mine[w]] \in Worker
                /\ chosen' = [chosen EXCEPT ![w] = record[mine[w]]]
      BY <1>4, <2>6, MarksDiffer DEF ReadRecord, MarksDiffer
    <3>2. QED
      BY <1>1, <2>1, <2>2, <3>1
  <2>7. QED
    BY <2>3, <2>4, <2>5, <2>6
<1>5. QED
  BY <1>3, <1>4

LEMMA AfterWriteIs ==
    ASSUME NEW w \in Worker, pc[w] \in Writes
    PROVE  AfterWrite(w) = IF pc[w] = "newRecord" THEN "newIndex"
                ELSE IF pc[w] = "newIndex" THEN "release"
                ELSE IF pc[w] = "record" THEN "index"
                ELSE IF pc[w] = "index" THEN "done"
                ELSE IF Kind[w] = "stage" THEN "done" ELSE "record"
<1>1. CASE pc[w] \in {"newRecord", "newIndex"}
  BY <1>1 DEF AfterWrite
<1>2. CASE pc[w] \in {"record", "index"}
  BY <1>2 DEF AfterWrite
<1>3. CASE pc[w] = "release"
  BY <1>3 DEF AfterWrite
<1>4. QED
  BY <1>1, <1>2, <1>3

\* What a write does to the disk.
LEMMA PutIs ==
    ASSUME NEW w \in Worker, NEW v, Put(w, v), pc[w] \in Writes
    PROVE  /\ pc[w] \in {"newIndex", "index"} =>
                /\ index' = [index EXCEPT ![SlugOf[w]] =
                               IF v = Torn THEN v ELSE mine[w]]
                /\ UNCHANGED <<record, release>>
           /\ pc[w] = "newRecord" =>
                /\ record' = [record EXCEPT ![w] = IF v = Torn THEN v ELSE Null]
                /\ UNCHANGED <<index, release>>
           /\ pc[w] = "record" =>
                /\ record' = [record EXCEPT ![mine[w]] =
                                IF v = Torn THEN v ELSE chosen[w]]
                /\ UNCHANGED <<index, release>>
           /\ pc[w] = "release" =>
                /\ release' = [release EXCEPT ![w] = v]
                /\ UNCHANGED <<index, record>>
<1>1. CASE pc[w] \in {"newIndex", "index"}
  BY <1>1 DEF Put
<1>2. CASE pc[w] = "newRecord"
  BY <1>2 DEF Put
<1>3. CASE pc[w] = "record"
  BY <1>3 DEF Put
<1>4. CASE pc[w] = "release"
  BY <1>4 DEF Put
<1>5. QED
  BY <1>1, <1>2, <1>3, <1>4

-----------------------------------------------------------------------------
(* Type correctness.                                                       *)

LEMMA PutTypes ==
    ASSUME TypeOK, NEW w \in Worker, NEW v \in {Torn, Whole}, Put(w, v),
           pc[w] \in Writes, mine[w] \in Worker
    PROVE  /\ index' \in [Slug -> {Absent, Torn} \cup Worker]
           /\ record' \in [Worker -> {Absent, Torn, Null} \cup Worker]
           /\ release' \in [Worker -> {Absent, Torn, Whole}]
<1>1. SlugOf[w] \in Slug
  BY ConstantsOK DEF ConstantsOK
<1>2. /\ (IF v = Torn THEN v ELSE mine[w]) \in {Absent, Torn} \cup Worker
      /\ (IF v = Torn THEN v ELSE Null) \in {Absent, Torn, Null} \cup Worker
      /\ (IF v = Torn THEN v ELSE chosen[w]) \in {Absent, Torn, Null} \cup Worker
  BY DEF TypeOK
<1>3. CASE pc[w] \in {"newIndex", "index"}
  BY <1>1, <1>2, <1>3, PutIs DEF TypeOK
<1>4. CASE pc[w] = "newRecord"
  BY <1>2, <1>4, PutIs DEF TypeOK
<1>5. CASE pc[w] = "record"
  BY <1>2, <1>5, PutIs DEF TypeOK
<1>6. CASE pc[w] = "release"
  BY <1>6, PutIs DEF TypeOK
<1>7. QED
  BY <1>3, <1>4, <1>5, <1>6

LEMMA RequestTypes ==
    ASSUME TypeOK, NEW w \in Worker, pc[w] \in Writes => mine[w] \in Worker,
           Step(w) \/ Crash(w)
    PROVE  TypeOK'
<1>1. CASE ReadIndex(w) \/ ReadRecord(w)
  <2>1. UNCHANGED <<index, record, release, open, held, scanVars>>
    BY <1>1, LookupMoves DEF diskVars
  <2>2. pc' \in [Worker -> Lookups \cup Writes \cup Ended \cup {"getRelease"}]
    <3>1. CASE UNCHANGED pc
      BY <3>1 DEF TypeOK
    <3>2. CASE \E p \in AfterLooking : Goto(w, p)
      BY <3>2 DEF TypeOK, Goto, AfterLooking
    <3>3. QED
      BY <1>1, <3>1, <3>2, LookupMoves
  <2>3. mine' \in [Worker -> {Absent} \cup Worker]
    <3>1. PICK i \in Worker \cup {Absent} : mine' = [mine EXCEPT ![w] = i]
      BY <1>1, LookupMoves
    <3>2. QED
      BY <3>1 DEF TypeOK
  <2>4. chosen' \in [Worker -> Worker]
    BY <1>1, LookupMoves DEF TypeOK
  <2>5. QED
    BY <2>1, <2>2, <2>3, <2>4 DEF TypeOK, scanVars
<1>2. CASE ReadRelease(w)
  <2>1. \E p \in {"done", "record", "failed"} : Goto(w, p)
    BY <1>2 DEF ReadRelease
  <2>2. pc' \in [Worker -> Lookups \cup Writes \cup Ended \cup {"getRelease"}]
    BY <2>1 DEF TypeOK, Goto
  <2>3. QED
    BY <1>2, <2>2 DEF ReadRelease, TypeOK, diskVars, scanVars
<1>3. CASE OpenFile(w)
  <2>1. Put(w, Torn) /\ pc[w] \in Writes
    BY <1>3 DEF OpenFile
  <2>2. /\ index' \in [Slug -> {Absent, Torn} \cup Worker]
        /\ record' \in [Worker -> {Absent, Torn, Null} \cup Worker]
        /\ release' \in [Worker -> {Absent, Torn, Whole}]
    BY <2>1, PutTypes
  <2>3. InHand(SlugOf[w]) \in SUBSET Worker
    BY DEF InHand, TypeOK
  <2>4. held' \in [Worker -> SUBSET Worker]
    BY <1>3, <2>3 DEF OpenFile, TypeOK
  <2>5. QED
    BY <1>3, <2>2, <2>4 DEF OpenFile, TypeOK, scanVars
<1>4. CASE WriteFile(w)
  <2>1. Put(w, Whole) /\ pc[w] \in Writes
    BY <1>4 DEF WriteFile
  <2>2. /\ index' \in [Slug -> {Absent, Torn} \cup Worker]
        /\ record' \in [Worker -> {Absent, Torn, Null} \cup Worker]
        /\ release' \in [Worker -> {Absent, Torn, Whole}]
    BY <2>1, PutTypes
  <2>3. AfterWrite(w) \in Writes \cup Ended
    BY <2>1, AfterWriteIs
  <2>4. pc' \in [Worker -> Lookups \cup Writes \cup Ended \cup {"getRelease"}]
    BY <1>4, <2>3 DEF WriteFile, TypeOK, Goto
  <2>5. QED
    BY <1>4, <2>2, <2>4 DEF WriteFile, TypeOK, scanVars
<1>5. CASE Crash(w)
  BY <1>5 DEF Crash, TypeOK, diskVars, scanVars, Goto
<1>6. QED
  BY <1>1, <1>2, <1>3, <1>4, <1>5 DEF Step

LEMMA ScanTypes ==
    ASSUME TypeOK, ScanStep
    PROVE  TypeOK' /\ UNCHANGED <<diskVars, reqVars>>
<1>1. CASE StartScan
  BY <1>1 DEF StartScan, TypeOK, diskVars, reqVars
<1>2. CASE EndScan
  BY <1>2 DEF EndScan, TypeOK, diskVars, reqVars
<1>3. ASSUME NEW i \in Worker, ScanSite(i)
      PROVE  TypeOK' /\ UNCHANGED <<diskVars, reqVars>>
  BY <1>3 DEF ScanSite, Stop, TypeOK, diskVars, reqVars
<1>4. ASSUME NEW i \in Worker, ListReleases(i)
      PROVE  TypeOK' /\ UNCHANGED <<diskVars, reqVars>>
  BY <1>4 DEF ListReleases, ReleasesUnder, TypeOK, diskVars, reqVars
<1>5. ASSUME NEW i \in Worker, ScanRelease(i)
      PROVE  TypeOK' /\ UNCHANGED <<diskVars, reqVars>>
  BY <1>5 DEF ScanRelease, Stop, TypeOK, diskVars, reqVars
<1>6. QED
  BY <1>1, <1>2, <1>3, <1>4, <1>5 DEF ScanStep

-----------------------------------------------------------------------------
(* A request keeps the disk consistent, whatever the others are at.        *)

\* Nothing stored goes missing, and no site's record does.
Kept ==
    /\ \A i \in Worker : record[i] # Absent => record'[i] # Absent
    /\ \A r, i \in Worker : Stored(r, i) => Stored(r, i)'

\* What one request must see to, for the whole invariant to survive its step.
LEMMA OthersKeep ==
    ASSUME DiskInv, TypeOK', Kept, NEW w \in Worker,
           \A x \in Worker \ {w} : /\ pc'[x] = pc[x] /\ mine'[x] = mine[x]
                                   /\ chosen'[x] = chosen[x]
                                   /\ release'[x] = release[x],
           \A i \in Worker : record'[i] \in Worker =>
               record'[i] = record[i] \/ Stored(record[i], i)',
           \A s \in Slug : index'[s] \in Worker =>
               index'[s] = index[s] \/ record'[index'[s]] # Absent,
           Placement(w)', Writing(w)', Pointing(w)'
    PROVE  DiskInv'
<1>1. TypeOK
  BY DEF DiskInv
<1>2. ASSUME NEW x \in Worker \ {w}
      PROVE  Placement(x)' /\ Writing(x)' /\ Pointing(x)'
  <2>1. Placement(x) /\ Writing(x) /\ Pointing(x) /\ chosen[x] \in Worker
    BY <1>1 DEF DiskInv, TypeOK
  <2>2. Placement(x)'
    BY <2>1 DEF Placement, Placed, Kept, Commits
  <2>3. Writing(x)'
    BY <2>1 DEF Writing, Kept, Commits
  <2>4. Pointing(x)'
    <3>1. SUFFICES ASSUME pc[x] \in {"record", "index"}
                   PROVE  Stored(chosen[x], mine[x])'
      BY DEF Pointing, Stored
    <3>2. Stored(chosen[x], mine[x]) /\ mine[x] \in Worker
      BY <2>1, <3>1 DEF Pointing, Placement, Placed
    <3>3. QED
      BY <2>1, <3>2 DEF Kept
  <2>5. QED
    BY <2>2, <2>3, <2>4
<1>3. ASSUME NEW i \in Worker
      PROVE  Pointer(i)'
  <2>1. SUFFICES ASSUME record'[i] \in Worker, record'[i] = record[i]
                 PROVE  Stored(record[i], i)'
    BY DEF Pointer, Stored
  <2>2. Stored(record[i], i)
    BY <2>1 DEF DiskInv, Pointer
  <2>3. QED
    BY <2>1, <2>2 DEF Kept, Stored
<1>4. IndexNeverDangles'
  <2>1. ASSUME NEW s \in Slug, index'[s] \in Worker
        PROVE  record'[index'[s]] # Absent
    BY <2>1 DEF DiskInv, IndexNeverDangles, Kept
  <2>2. QED
    BY <2>1 DEF IndexNeverDangles
<1>5. QED
  BY <1>2, <1>3, <1>4 DEF DiskInv

LEMMA LookupKeeps ==
    ASSUME DiskInv, NEW w \in Worker, ReadIndex(w) \/ ReadRecord(w)
    PROVE  DiskInv' /\ Kept
<1>1. /\ TypeOK /\ Placement(w) /\ Writing(w) /\ Pointing(w)
  BY DEF DiskInv
<1>2. /\ pc[w] \in Lookups /\ UNCHANGED <<index, record, release>>
  BY <1>1, LookupMoves DEF diskVars
<1>3. release[w] = Absent /\ release'[w] = Absent
  BY <1>1, <1>2 DEF Writing
<1>4. TypeOK'
  BY <1>1, <1>2, RequestTypes DEF Step
<1>5. \A x \in Worker \ {w} : /\ pc'[x] = pc[x] /\ mine'[x] = mine[x]
                              /\ chosen'[x] = chosen[x]
  <2>1. \A x \in Worker \ {w} : pc'[x] = pc[x]
    BY <1>1, LookupMoves DEF TypeOK, Goto
  <2>2. \A x \in Worker \ {w} : mine'[x] = mine[x]
    BY <1>1, LookupMoves DEF TypeOK
  <2>3. \A x \in Worker \ {w} : chosen'[x] = chosen[x]
    BY <1>1, LookupMoves DEF TypeOK
  <2>4. QED
    BY <2>1, <2>2, <2>3
<1>6. Kept
  BY <1>2, <1>3, <1>5, MarksDiffer DEF Kept, Stored, MarksDiffer
<1>7. pc'[w] \in AfterLooking
  BY <1>1, <1>2, LookupMoves DEF TypeOK, Goto, AfterLooking
<1>8. Placement(w)'
  <2>1. CASE ReadIndex(w)
    <3>1. index[SlugOf[w]] \in {Absent, Torn} \cup Worker
      BY <1>1, ConstantsOK DEF ConstantsOK, TypeOK
    <3>2. CASE index[SlugOf[w]] = Absent
      <4>1. Goto(w, AfterLookup(w, FALSE)) /\ mine' = [mine EXCEPT ![w] = NoSite(w)]
        BY <2>1, <3>2, MarksDiffer DEF ReadIndex, SeenIndex, MarksDiffer
      <4>2. /\ pc'[w] = IF pc[w] = "route" THEN "find"
                        ELSE IF pc[w] = "create" THEN "newRecord"
                        ELSE IF Commits(w) THEN "create" ELSE "failed"
            /\ mine'[w] = NoSite(w)
        BY <1>1, <1>2, <4>1, AfterLookupIs DEF Goto, TypeOK
      <4>3. QED
        BY <1>1, <1>2, <4>2 DEF Placement, Placed, NoSite, Commits
    <3>3. CASE index[SlugOf[w]] # Absent
      <4>1. Goto(w, "failed") \/ UNCHANGED pc
        BY <2>1, <3>1, <3>3, MarksDiffer DEF ReadIndex, SeenIndex, MarksDiffer, Goto
      <4>2. pc'[w] = "failed" \/ pc'[w] = pc[w]
        BY <1>1, <4>1 DEF Goto, TypeOK
      <4>3. QED
        BY <1>1, <1>2, <4>2 DEF Placement, Placed, Commits
    <3>4. QED
      BY <3>2, <3>3
  <2>2. CASE ReadRecord(w)
    <3>1. mine[w] \in Worker
      BY <1>1, <2>2 DEF ReadRecord, TypeOK
    <3>2. CASE record[mine[w]] = Torn
      <4>1. Goto(w, "failed")
        BY <2>2, <3>2, MarksDiffer DEF ReadRecord, MarksDiffer
      <4>2. QED
        BY <1>1, <4>1 DEF Goto, TypeOK, Placement, Placed
    <3>3. CASE record[mine[w]] = Absent
      <4>1. Goto(w, AfterLookup(w, FALSE)) /\ mine' = [mine EXCEPT ![w] = NoSite(w)]
        BY <2>2, <3>3, MarksDiffer DEF ReadRecord, MarksDiffer
      <4>2. /\ pc'[w] = IF pc[w] = "route" THEN "find"
                        ELSE IF pc[w] = "create" THEN "newRecord"
                        ELSE IF Commits(w) THEN "create" ELSE "failed"
            /\ mine'[w] = NoSite(w)
        BY <1>1, <1>2, <4>1, AfterLookupIs DEF Goto, TypeOK
      <4>3. QED
        BY <1>1, <1>2, <4>2 DEF Placement, Placed, NoSite, Commits
    <3>4. CASE record[mine[w]] \notin {Torn, Absent}
      <4>1. /\ Goto(w, "failed") \/ Goto(w, AfterLookup(w, TRUE))
            /\ pc[w] # "route" => UNCHANGED mine
        BY <2>2, <3>4, MarksDiffer DEF ReadRecord, MarksDiffer
      <4>2. pc'[w] = "failed" \/ pc'[w] =
                IF pc[w] = "route" THEN "find"
                ELSE IF Commits(w) THEN "release" ELSE "getRelease"
        BY <1>1, <1>2, <4>1, AfterLookupIs DEF Goto, TypeOK
      <4>3. QED
        BY <1>1, <1>2, <3>1, <3>4, <4>1, <4>2 DEF Placement, Placed, Commits
    <3>5. QED
      BY <3>2, <3>3, <3>4
  <2>3. QED
    BY <2>1, <2>2
<1>9. Writing(w)'
  <2>1. Commits(w) => chosen'[w] = chosen[w]
    BY <1>1, LookupMoves DEF Commits
  <2>2. QED
    BY <1>1, <1>3, <2>1, MarksDiffer DEF Writing, MarksDiffer, Commits
<1>10. Pointing(w)'
  BY <1>7 DEF Pointing, AfterLooking
<1>11. \A x \in Worker \ {w} : release'[x] = release[x]
  BY <1>2
<1>12. /\ \A i \in Worker : record'[i] \in Worker => record'[i] = record[i]
       /\ \A s \in Slug : index'[s] \in Worker => index'[s] = index[s]
  BY <1>2
<1>13. DiskInv'
  BY <1>4, <1>5, <1>6, <1>8, <1>9, <1>10, <1>11, <1>12, OthersKeep
<1>14. QED
  BY <1>6, <1>13

LEMMA ReadReleaseKeeps ==
    ASSUME DiskInv, NEW w \in Worker, ReadRelease(w) \/ Crash(w)
    PROVE  DiskInv' /\ Kept
<1>1. TypeOK /\ Placement(w) /\ Writing(w) /\ Pointing(w)
  BY DEF DiskInv
<1>2. UNCHANGED <<index, record, release, mine, chosen>>
  BY DEF ReadRelease, Crash, diskVars
<1>3. TypeOK'
  BY <1>1, RequestTypes DEF Step, Placement, Placed
<1>4. Kept
  BY <1>2 DEF Kept, Stored
<1>5. \A x \in Worker \ {w} : pc'[x] = pc[x]
  BY <1>1 DEF ReadRelease, Crash, Goto, TypeOK
<1>6. \/ pc'[w] = "failed"
      \/ pc'[w] \in {"done", "record"} /\ pc[w] = "getRelease"
           /\ Stored(chosen[w], mine[w])
  BY <1>1 DEF ReadRelease, Crash, Goto, TypeOK, Filed, Stored
<1>7. Placement(w)'
  BY <1>1, <1>2, <1>6 DEF Placement, Placed, Commits
<1>8. Writing(w)'
  BY <1>1, <1>2, <1>6 DEF Writing, Commits
<1>9. Pointing(w)'
  BY <1>1, <1>2, <1>6 DEF Pointing, Stored
<1>10. DiskInv'
  BY <1>2, <1>3, <1>4, <1>5, <1>7, <1>8, <1>9, OthersKeep
<1>11. QED
  BY <1>4, <1>10

\* What Put does to the two files that carry the pointer and to the release.
LEMMA PutKeeps ==
    ASSUME DiskInv, NEW w \in Worker, NEW v \in {Torn, Whole}, Put(w, v),
           pc[w] \in Writes, mine' = mine
    PROVE  /\ Kept
           /\ \A x \in Worker \ {w} : release'[x] = release[x]
           /\ \A i \in Worker : record'[i] \in Worker =>
                record'[i] = record[i] \/ Stored(record[i], i)'
           /\ \A s \in Slug : index'[s] \in Worker =>
                index'[s] = index[s] \/ record'[index'[s]] # Absent
           /\ pc[w] # "release" => UNCHANGED release
           /\ pc[w] = "release" => release'[w] = v
           /\ pc[w] \in Writes \ {"newRecord", "release"} => record'[mine[w]] # Absent
           /\ pc[w] = "newRecord" => record'[w] # Absent
<1>1. /\ TypeOK /\ Placement(w) /\ Writing(w) /\ Pointing(w)
      /\ mine[w] \in Worker /\ chosen[w] \in Worker /\ SlugOf[w] \in Slug
  BY ConstantsOK DEF DiskInv, TypeOK, Placement, Placed, ConstantsOK
<1>2. /\ \A i \in Worker : Pointer(i)
      /\ IndexNeverDangles
  BY DEF DiskInv
<1>3. CASE pc[w] \in {"newIndex", "index"}
  <2>1. /\ index' = [index EXCEPT ![SlugOf[w]] = IF v = Torn THEN v ELSE mine[w]]
        /\ UNCHANGED <<record, release>>
    BY <1>3, PutIs
  <2>2. record[mine[w]] # Absent
    BY <1>1, <1>3 DEF Placement, Placed
  <2>3. \A s \in Slug : index'[s] \in Worker =>
          index'[s] = index[s] \/ record'[index'[s]] # Absent
    BY <1>1, <2>1, <2>2, MarksDiffer DEF MarksDiffer, TypeOK
  <2>4. Kept
    BY <2>1 DEF Kept, Stored
  <2>5. QED
    BY <1>3, <2>1, <2>2, <2>3, <2>4
<1>4. CASE pc[w] = "newRecord"
  <2>1. /\ record' = [record EXCEPT ![w] = IF v = Torn THEN v ELSE Null]
        /\ UNCHANGED <<index, release>>
    BY <1>4, PutIs
  <2>2. /\ record'[w] \in {Torn, Null}
        /\ \A i \in Worker \ {w} : record'[i] = record[i]
    BY <1>1, <2>1 DEF TypeOK
  <2>3. Kept
    BY <2>1, <2>2, MarksDiffer DEF Kept, Stored, MarksDiffer
  <2>4. \A i \in Worker : record'[i] \in Worker => record'[i] = record[i]
    BY <2>2, MarksDiffer DEF MarksDiffer
  <2>5. QED
    BY <1>4, <2>1, <2>2, <2>3, <2>4, MarksDiffer DEF MarksDiffer
<1>5. CASE pc[w] = "record"
  <2>1. /\ record' = [record EXCEPT ![mine[w]] = IF v = Torn THEN v ELSE chosen[w]]
        /\ UNCHANGED <<index, release>>
    BY <1>5, PutIs
  <2>2. /\ record'[mine[w]] = Torn \/ record'[mine[w]] = chosen[w]
        /\ \A i \in Worker : i # mine[w] => record'[i] = record[i]
    BY <1>1, <2>1 DEF TypeOK
  <2>3. Kept
    BY <1>1, <2>1, <2>2, MarksDiffer DEF Kept, Stored, MarksDiffer
  <2>4. Stored(chosen[w], mine[w])
    BY <1>1, <1>5 DEF Pointing
  <2>5. \A i \in Worker : record'[i] \in Worker =>
          record'[i] = record[i] \/ Stored(record[i], i)'
    BY <1>1, <2>1, <2>2, <2>4, MarksDiffer DEF Stored, MarksDiffer
  <2>6. record'[mine[w]] # Absent
    BY <1>1, <2>2, MarksDiffer DEF MarksDiffer
  <2>7. QED
    BY <1>5, <2>1, <2>3, <2>5, <2>6
<1>6. CASE pc[w] = "release"
  <2>1. /\ release' = [release EXCEPT ![w] = v]
        /\ UNCHANGED <<index, record>>
    BY <1>6, PutIs
  <2>2. /\ release'[w] = v
        /\ \A x \in Worker \ {w} : release'[x] = release[x]
    BY <1>1, <2>1 DEF TypeOK
  <2>3. release[w] # Whole
    BY <1>1, <1>6 DEF Writing
  <2>4. Kept
    BY <2>1, <2>2, <2>3 DEF Kept, Stored
  <2>5. QED
    BY <1>6, <2>1, <2>2, <2>4
<1>7. QED
  BY <1>3, <1>4, <1>5, <1>6

LEMMA WriteKeeps ==
    ASSUME DiskInv, NEW w \in Worker, OpenFile(w) \/ WriteFile(w)
    PROVE  DiskInv' /\ Kept
<1>1. TypeOK /\ Placement(w) /\ Writing(w) /\ Pointing(w) /\ pc[w] \in Writes
  BY DEF DiskInv, OpenFile, WriteFile
<1>2. PICK v \in {Torn, Whole} : /\ Put(w, v)
                                 /\ v = Torn => pc'[w] = pc[w]
                                 /\ v = Whole => pc'[w] = AfterWrite(w)
  BY <1>1, MarksDiffer DEF OpenFile, WriteFile, Goto, TypeOK, MarksDiffer
<1>3. UNCHANGED <<mine, chosen>>
  BY DEF OpenFile, WriteFile
<1>4. TypeOK'
  BY <1>1, RequestTypes DEF Step, Placement, Placed
<1>5. \A x \in Worker \ {w} : pc'[x] = pc[x]
  BY <1>1 DEF OpenFile, WriteFile, Goto, TypeOK
<1>6. /\ mine[w] \in Worker
      /\ pc[w] = "newRecord" => mine[w] = w
      /\ pc[w] \in {"newRecord", "newIndex", "release"} => Commits(w)
      /\ pc[w] # "newRecord" => record[mine[w]] # Absent
  BY <1>1 DEF Placement, Placed
<1>7. /\ Kept
      /\ \A x \in Worker \ {w} : release'[x] = release[x]
      /\ \A i \in Worker : record'[i] \in Worker =>
           record'[i] = record[i] \/ Stored(record[i], i)'
      /\ \A s \in Slug : index'[s] \in Worker =>
           index'[s] = index[s] \/ record'[index'[s]] # Absent
      /\ pc[w] # "release" => UNCHANGED release
      /\ pc[w] = "release" => release'[w] = v
      /\ pc[w] = "newRecord" => record'[w] # Absent
  BY <1>1, <1>2, <1>3, PutKeeps
<1>8. record'[mine[w]] # Absent \/ (pc[w] = "newRecord" /\ pc'[w] = pc[w])
  BY <1>6, <1>7 DEF Kept
<1>9. Placement(w)'
  <2>1. CASE v = Torn
    BY <1>1, <1>2, <1>3, <1>8, <2>1 DEF Placement, Placed, Commits
  <2>2. CASE v = Whole
    <3>1. /\ pc'[w] \in {"newIndex", "release", "record", "index", "done"}
          /\ pc'[w] \in {"newIndex", "release"} => pc[w] \in {"newRecord", "newIndex"}
      BY <1>1, <1>2, <2>2, AfterWriteIs
    <3>2. QED
      BY <1>1, <1>3, <1>6, <1>8, <3>1 DEF Placement, Placed, Commits
  <2>3. QED
    BY <2>1, <2>2
<1>10. Writing(w)'
  <2>1. Commits(w) => chosen'[w] = w
    BY <1>1, <1>3 DEF Writing
  <2>2. CASE pc[w] = "release"
    <3>1. pc'[w] \in {"release", "record", "done"} /\ (v = Whole => pc'[w] # "release")
      BY <1>1, <1>2, <2>2, AfterWriteIs
    <3>2. release'[w] = v
      BY <1>7, <2>2
    <3>3. record'[mine[w]] # Absent
      BY <1>8, <2>2
    <3>4. QED
      BY <1>2, <1>3, <1>6, <2>1, <3>1, <3>2, <3>3, MarksDiffer
      DEF Writing, MarksDiffer, Commits
  <2>3. CASE pc[w] # "release"
    <3>1. UNCHANGED release
      BY <1>7, <2>3
    <3>2. CASE release[w] = Absent
      BY <2>1, <3>1, <3>2, MarksDiffer DEF Writing, MarksDiffer, Commits
    <3>3. CASE release[w] # Absent
      <4>1. pc[w] \in {"record", "index"}
        BY <1>1, <2>3, <3>3 DEF Writing
      <4>2. pc'[w] \in {"record", "index", "done"}
        BY <1>1, <1>2, <4>1, AfterWriteIs
      <4>3. QED
        BY <1>3, <1>6, <1>8, <2>1, <4>1, <4>2 DEF Writing, Commits
    <3>4. QED
      BY <3>2, <3>3
  <2>4. QED
    BY <2>2, <2>3
<1>11. Pointing(w)'
  <2>1. SUFFICES ASSUME pc'[w] \in {"record", "index"}
                 PROVE  Stored(chosen[w], mine[w])'
    BY DEF Pointing, Stored
  <2>2. CASE pc[w] = "release"
    <3>1. v = Whole
      BY <1>2, <2>1, <2>2
    <3>2. chosen[w] = w /\ release'[w] = Whole
      BY <1>1, <1>6, <1>7, <2>2, <3>1 DEF Writing
    <3>3. QED
      BY <1>3, <3>2 DEF Stored
  <2>3. CASE pc[w] # "release"
    <3>1. pc[w] \in {"record", "index"}
      BY <1>1, <1>2, <2>1, <2>3, AfterWriteIs
    <3>2. Stored(chosen[w], mine[w])
      BY <1>1, <3>1 DEF Pointing
    <3>3. QED
      BY <1>3, <1>7, <2>3, <3>2 DEF Stored
  <2>4. QED
    BY <2>2, <2>3
<1>12. DiskInv'
  BY <1>3, <1>4, <1>5, <1>7, <1>9, <1>10, <1>11, OthersKeep
<1>13. QED
  BY <1>7, <1>12

LEMMA RequestKeeps ==
    ASSUME DiskInv, NEW w \in Worker, Step(w) \/ Crash(w)
    PROVE  DiskInv' /\ Kept
BY LookupKeeps, ReadReleaseKeeps, WriteKeeps DEF Step

-----------------------------------------------------------------------------
(* The theorems.                                                           *)

\* What there is to begin with.
LEMMA InitIs ==
    ASSUME Init
    PROVE  /\ TypeOK
           /\ \A w \in Worker :
                \/ /\ record[w] = w /\ release[w] = Whole /\ mine[w] = w
                   /\ pc[w] = "done" /\ Kind[w] = "seed" /\ held[w] = {w}
                \/ /\ record[w] = Absent /\ release[w] = Absent /\ mine[w] = Absent
                   /\ held[w] = {} /\ pc[w] = IF Kind[w] = "seed" THEN "failed"
                               ELSE IF Kind[w] = "serve" THEN "find" ELSE "route"
           /\ \A s \in Slug :
                \/ /\ index[s] = Absent
                   /\ \A w \in Seeds : SlugOf[w] = s => pc[w] = "failed"
                \/ \E w \in Seeds : index[s] = w /\ SlugOf[w] = s /\ pc[w] = "done"
<1>1. PICK old \in SUBSET Seeds :
         /\ index = [s \in Slug |-> IF SiteOf(s, old) = {} THEN Absent
                                    ELSE CHOOSE w \in SiteOf(s, old) : TRUE]
         /\ record = [w \in Worker |-> IF w \in old THEN w ELSE Absent]
         /\ release = [w \in Worker |-> IF w \in old THEN Whole ELSE Absent]
         /\ mine = [w \in Worker |-> IF w \in old THEN w ELSE Absent]
         /\ pc = [w \in Worker |-> IF w \in old THEN "done"
                                   ELSE IF w \in Seeds THEN "failed"
                                   ELSE IF Kind[w] = "serve" THEN "find"
                                   ELSE "route"]
         /\ held = [w \in Worker |-> {w} \cap old]
  BY DEF Init
<1>2. \A w \in old : w \in Worker /\ Kind[w] = "seed"
  BY DEF Seeds
<1>3. ASSUME NEW w \in Worker
      PROVE  \/ /\ record[w] = w /\ release[w] = Whole /\ mine[w] = w
                /\ pc[w] = "done" /\ Kind[w] = "seed" /\ held[w] = {w}
             \/ /\ record[w] = Absent /\ release[w] = Absent /\ mine[w] = Absent
                /\ held[w] = {} /\ pc[w] = IF Kind[w] = "seed" THEN "failed"
                           ELSE IF Kind[w] = "serve" THEN "find" ELSE "route"
  BY <1>1, <1>2 DEF Seeds
<1>4. ASSUME NEW s \in Slug
      PROVE  \/ /\ index[s] = Absent
                /\ \A w \in Seeds : SlugOf[w] = s => pc[w] = "failed"
             \/ \E w \in Seeds : index[s] = w /\ SlugOf[w] = s /\ pc[w] = "done"
  <2>1. CASE SiteOf(s, old) = {}
    <3>1. index[s] = Absent
      BY <1>1, <2>1
    <3>2. \A w \in Seeds : SlugOf[w] = s => w \notin old
      BY <2>1 DEF SiteOf
    <3>3. QED
      BY <1>1, <3>1, <3>2 DEF Seeds
  <2>2. CASE SiteOf(s, old) # {}
    <3>1. index[s] \in SiteOf(s, old)
      BY <1>1, <2>2
    <3>2. QED
      BY <1>1, <3>1 DEF SiteOf, Seeds
  <2>3. QED
    BY <2>1, <2>2
<1>5. index \in [Slug -> {Absent, Torn} \cup Worker]
  <2> DEFINE site(s) == IF SiteOf(s, old) = {} THEN Absent
                         ELSE CHOOSE w \in SiteOf(s, old) : TRUE
  <2>1. index = [s \in Slug |-> site(s)]
    BY <1>1
  <2> HIDE DEF site
  <2>2. \A s \in Slug : site(s) \in {Absent, Torn} \cup Worker
    BY <1>4, <2>1 DEF Seeds
  <2>3. QED
    BY <2>1, <2>2
<1>6. /\ record \in [Worker -> {Absent, Torn, Null} \cup Worker]
      /\ release \in [Worker -> {Absent, Torn, Whole}]
      /\ mine \in [Worker -> {Absent} \cup Worker]
      /\ pc \in [Worker -> Lookups \cup Writes \cup Ended \cup {"getRelease"}]
      /\ held \in [Worker -> SUBSET Worker]
  BY <1>1
<1>7. TypeOK
  BY <1>5, <1>6 DEF Init, TypeOK
<1>8. QED
  BY <1>3, <1>4, <1>7

LEMMA DiskInit == Init => DiskInv
<1> SUFFICES ASSUME Init PROVE DiskInv
  OBVIOUS
<1>1. TypeOK
  BY InitIs
<1>2. ASSUME NEW w \in Worker
      PROVE  Placement(w) /\ Writing(w) /\ Pointing(w) /\ Pointer(w)
  <2>1. Commits(w) => chosen[w] = w
    BY DEF Init, Commits
  <2>2. Placement(w) /\ Pointing(w)
    BY InitIs DEF Placement, Placed, Pointing, Commits
  <2>3. Writing(w)
    BY <2>1, InitIs, MarksDiffer DEF Writing, MarksDiffer
  <2>4. Pointer(w)
    BY InitIs, MarksDiffer DEF Pointer, Stored, MarksDiffer
  <2>5. QED
    BY <2>2, <2>3, <2>4
<1>3. IndexNeverDangles
  BY InitIs, MarksDiffer DEF IndexNeverDangles, MarksDiffer, Seeds
<1>4. QED
  BY <1>1, <1>2, <1>3 DEF DiskInv

LEMMA DiskStep == DiskInv /\ [Next]_vars => DiskInv'
<1> SUFFICES ASSUME DiskInv, [Next]_vars PROVE DiskInv'
  OBVIOUS
<1>1. ASSUME NEW w \in Worker, Step(w) \/ Crash(w)
      PROVE  DiskInv'
  BY <1>1, RequestKeeps
<1>2. CASE ScanStep
  <2>1. TypeOK' /\ UNCHANGED <<diskVars, reqVars>>
    BY <1>2, ScanTypes DEF DiskInv
  <2>2. QED
    BY <2>1 DEF DiskInv, Placement, Writing, Pointing, Pointer, Stored, Commits,
                IndexNeverDangles, diskVars, reqVars
<1>3. CASE UNCHANGED vars
  BY <1>3 DEF DiskInv, Placement, Writing, Pointing, Pointer, Stored, Commits,
              IndexNeverDangles, TypeOK, vars, diskVars, reqVars, scanVars
<1>4. QED
  BY <1>1, <1>2, <1>3 DEF Next

\* Every variable keeps its shape, whatever the requests do.
THEOREM TypeCorrect == Spec => []TypeOK
<1>1. DiskInv => TypeOK
  BY DEF DiskInv
<1>2. QED
  BY <1>1, DiskInit, DiskStep, PTL DEF Spec

\* No order of requests and no crash leaves a site's active pointer naming a
\* release that is missing, torn or another site's.
THEOREM PointersHold == Spec => []PointerNeverDangles
<1>1. DiskInv => PointerNeverDangles
  BY DEF DiskInv, PointerNeverDangles, Pointer, Stored
<1>2. QED
  BY <1>1, DiskInit, DiskStep, PTL DEF Spec

\* Nor does one leave a slug's index naming a site without a record.
THEOREM IndexesHold == Spec => []IndexNeverDangles
<1>1. DiskInv => IndexNeverDangles
  BY DEF DiskInv
<1>2. QED
  BY <1>1, DiskInit, DiskStep, PTL DEF Spec

LEMMA ScanInit == Init => ScanInv
BY DEF Init, ScanInv

LEMMA ScanningStep ==
    ASSUME DiskInv, ScanInv, ScanStep
    PROVE  ScanInv'
<1>1. UNCHANGED <<diskVars, reqVars>>
  BY ScanTypes DEF DiskInv
<1>2. TypeOK
  BY DEF DiskInv
<1>3. CASE StartScan
  <2>1. SUFFICES ASSUME NEW r \in Worker, release[r] = Whole
                 PROVE  mine[r] \in Worker /\ record[mine[r]] # Absent
    BY <1>1, <1>3 DEF StartScan, ScanInv, diskVars, reqVars
  <2>2. QED
    BY <2>1, MarksDiffer DEF DiskInv, Writing, MarksDiffer
<1>4. CASE EndScan
  BY <1>1, <1>4 DEF EndScan, ScanInv, diskVars, reqVars
<1>5. ASSUME NEW i \in Worker, ScanSite(i)
      PROVE  ScanInv'
  BY <1>1, <1>5 DEF ScanSite, Stop, ScanInv, diskVars, reqVars
<1>6. ASSUME NEW i \in Worker, ListReleases(i)
      PROVE  ScanInv'
  <2>1. ASSUME NEW r \in owed
        PROVE  /\ release[r] = Whole
               /\ r \in roots \/ r \in filesLeft' \/ mine[r] \in dirsLeft'
    <3>1. /\ release[r] = Whole /\ r \in Worker
          /\ r \in roots \/ mine[r] \in dirsLeft
      BY <1>2, <1>6 DEF ListReleases, ScanInv, TypeOK
    <3>2. mine[r] = i => r \in filesLeft'
      BY <1>6, <3>1, MarksDiffer DEF ListReleases, ReleasesUnder, Filed, MarksDiffer
    <3>3. QED
      BY <1>6, <3>1, <3>2 DEF ListReleases
  <2>2. QED
    BY <1>1, <1>6, <2>1 DEF ListReleases, ScanInv, diskVars, reqVars
<1>7. ASSUME NEW r \in Worker, ScanRelease(r)
      PROVE  ScanInv'
  BY <1>1, <1>7 DEF ScanRelease, Stop, ScanInv, diskVars, reqVars
<1>8. QED
  BY <1>3, <1>4, <1>5, <1>6, <1>7 DEF ScanStep

LEMMA RequestsSpareTheScan ==
    ASSUME DiskInv, ScanInv, NEW w \in Worker, Step(w) \/ Crash(w)
    PROVE  ScanInv'
<1>1. UNCHANGED scanVars
  BY DEF Step, ReadIndex, ReadRecord, ReadRelease, OpenFile, WriteFile, Crash
<1>2. Kept /\ TypeOK
  BY RequestKeeps DEF DiskInv
<1>3. ASSUME NEW r \in owed, scan \in {"scanning", "marked"}
      PROVE  release'[r] = Whole /\ mine'[r] = mine[r]
  <2>1. r \in Worker /\ release[r] = Whole
    BY <1>2, <1>3 DEF ScanInv, TypeOK
  <2>2. mine[r] \in Worker
    BY <2>1, MarksDiffer DEF DiskInv, Writing, MarksDiffer
  <2>3. QED
    BY <1>2, <2>1, <2>2 DEF Kept, Stored
<1>4. QED
  BY <1>1, <1>3 DEF ScanInv, scanVars

LEMMA ScanStays == DiskInv /\ ScanInv /\ [Next]_vars => ScanInv'
<1>1. ASSUME DiskInv, ScanInv, UNCHANGED vars
      PROVE  ScanInv'
  BY <1>1 DEF ScanInv, vars, diskVars, reqVars, scanVars
<1>2. QED
  BY <1>1, ScanningStep, RequestsSpareTheScan DEF Next

\* Requests that run beside a scan, and die beside it, hide no release from it
\* that was stored when it started: the roots the collector retains are complete.
THEOREM ScansAreComplete == Spec => []ScanComplete
<1>1. ScanInv => ScanComplete
  BY DEF ScanInv, ScanComplete
<1>2. QED
  BY <1>1, DiskInit, DiskStep, ScanInit, ScanStays, PTL DEF Spec

-----------------------------------------------------------------------------
(* What requests may count on.                                             *)

\* A request's step moves that request alone.
LEMMA RequestFrame ==
    ASSUME TypeOK, NEW w \in Worker, Step(w) \/ Crash(w), NEW x \in Worker \ {w}
    PROVE  pc'[x] = pc[x] /\ mine'[x] = mine[x] /\ chosen'[x] = chosen[x]
<1>1. CASE ReadIndex(w) \/ ReadRecord(w)
  <2>1. pc'[x] = pc[x]
    BY <1>1, LookupMoves DEF TypeOK, Goto
  <2>2. mine'[x] = mine[x]
    BY <1>1, LookupMoves DEF TypeOK
  <2>3. chosen'[x] = chosen[x]
    BY <1>1, LookupMoves DEF TypeOK
  <2>4. QED
    BY <2>1, <2>2, <2>3
<1>2. CASE ReadRelease(w) \/ OpenFile(w) \/ WriteFile(w) \/ Crash(w)
  BY <1>2 DEF TypeOK, ReadRelease, OpenFile, WriteFile, Crash, Goto
<1>3. QED
  BY <1>1, <1>2 DEF Step

\* A request for content holds a release that is stored.
Served(w) == Kind[w] = "serve" /\ pc[w] = "getRelease" =>
    Stored(chosen[w], mine[w])

LEMMA ServedStays ==
    ASSUME DiskInv, NEW w \in Worker, Step(w) \/ Crash(w),
           \A x \in Worker : Served(x)
    PROVE  \A x \in Worker : Served(x)'
<1>1. TypeOK /\ Placement(w) /\ Kept
  BY RequestKeeps DEF DiskInv
<1>2. ASSUME NEW x \in Worker \ {w}
      PROVE  Served(x)'
  <2>1. SUFFICES ASSUME Kind[x] = "serve", pc[x] = "getRelease"
                 PROVE  Stored(chosen[x], mine[x])'
    BY <1>1, RequestFrame DEF Served, Stored
  <2>2. Stored(chosen[x], mine[x]) /\ chosen[x] \in Worker /\ mine[x] \in Worker
    BY <1>1, <2>1 DEF Served, DiskInv, Placement, Placed, TypeOK
  <2>3. chosen'[x] = chosen[x] /\ mine'[x] = mine[x]
    BY <1>1, RequestFrame
  <2>4. QED
    BY <1>1, <2>2, <2>3 DEF Kept, Stored
<1>3. Served(w)'
  <2>1. SUFFICES ASSUME Kind[w] = "serve", pc'[w] = "getRelease"
                 PROVE  Stored(chosen[w], mine[w])'
    BY DEF Served, Stored
  <2>2. pc[w] # "getRelease" => ReadRecord(w) /\ pc[w] \in Lookups
    <3>1. CASE ReadIndex(w)
      <4>1. index[SlugOf[w]] \in {Absent, Torn} \cup Worker /\ pc[w] \in Lookups
        BY <1>1, <3>1, ConstantsOK DEF ConstantsOK, TypeOK, ReadIndex
      <4>2. pc'[w] = pc[w] \/ pc'[w] = "failed" \/ pc'[w] = AfterLookup(w, FALSE)
        <5>1. \/ Goto(w, "failed") \/ Goto(w, AfterLookup(w, FALSE))
              \/ UNCHANGED pc
          BY <3>1, <4>1, MarksDiffer DEF ReadIndex, SeenIndex, MarksDiffer
        <5>. QED
          BY <1>1, <5>1 DEF Goto, TypeOK
      <4>3. QED
        BY <2>1, <4>1, <4>2, AfterLookupIs
    <3>2. CASE ReadRecord(w)
      BY <3>2 DEF ReadRecord
    <3>3. CASE ReadRelease(w)
      BY <3>3 DEF ReadRelease
    <3>4. CASE OpenFile(w)
      BY <2>1, <3>4 DEF OpenFile
    <3>5. CASE WriteFile(w)
      <4>1. pc[w] \in Writes /\ pc'[w] = AfterWrite(w)
        BY <1>1, <3>5 DEF WriteFile, Goto, TypeOK
      <4>2. QED
        BY <2>1, <4>1, AfterWriteIs
    <3>6. CASE Crash(w)
      BY <1>1, <2>1, <3>6 DEF Crash, Goto, TypeOK
    <3>7. QED
      BY <3>1, <3>2, <3>3, <3>4, <3>5, <3>6 DEF Step
  <2>3. CASE pc[w] = "getRelease"
    <3>1. ~ReadIndex(w) /\ ~ReadRecord(w) /\ ~OpenFile(w) /\ ~WriteFile(w)
      BY <2>3 DEF ReadIndex, ReadRecord, OpenFile, WriteFile
    <3>2. pc'[w] # "getRelease"
      BY <1>1, <3>1, ReadReleaseKeeps DEF Step, ReadRelease, Crash, Goto, TypeOK
    <3>3. QED
      BY <2>1, <3>2
  <2>4. CASE pc[w] # "getRelease"
    <3>1. ReadRecord(w) /\ pc[w] \in Lookups
      BY <2>2, <2>4
    <3>2. mine[w] \in Worker /\ record[mine[w]] \in {Absent, Torn, Null} \cup Worker
      BY <1>1, <3>1 DEF ReadRecord, TypeOK
    <3>3. record[mine[w]] # Torn
      BY <1>1, <2>1, <3>1, MarksDiffer DEF ReadRecord, Goto, TypeOK, MarksDiffer
    <3>4. record[mine[w]] # Absent
      <4>1. SUFFICES ASSUME record[mine[w]] = Absent PROVE FALSE
        OBVIOUS
      <4>2. pc'[w] = AfterLookup(w, FALSE)
        BY <1>1, <3>1, <4>1, MarksDiffer DEF ReadRecord, Goto, TypeOK, MarksDiffer
      <4>3. QED
        BY <2>1, <3>1, <4>2, AfterLookupIs
    <3>5. /\ record[mine[w]] = Null => pc'[w] = "failed"
          /\ UNCHANGED <<release, record>>
      BY <1>1, <2>1, <3>1, <3>3, <3>4, MarksDiffer
      DEF ReadRecord, Goto, TypeOK, MarksDiffer, diskVars
    <3>6. record[mine[w]] \in Worker
      BY <2>1, <3>2, <3>3, <3>4, <3>5
    <3>7. pc[w] # "route"
      <4>1. SUFFICES ASSUME pc[w] = "route" PROVE FALSE
        OBVIOUS
      <4>2. pc'[w] = AfterLookup(w, TRUE)
        BY <1>1, <3>1, <3>3, <3>4, <3>6, MarksDiffer
        DEF ReadRecord, Goto, TypeOK, MarksDiffer
      <4>3. QED
        BY <2>1, <3>1, <4>1, <4>2, AfterLookupIs
    <3>8. mine'[w] = mine[w] /\ chosen'[w] = record[mine[w]]
      BY <1>1, <2>1, <3>1, <3>3, <3>4, <3>6, <3>7, MarksDiffer
      DEF ReadRecord, TypeOK, MarksDiffer
    <3>9. Stored(record[mine[w]], mine[w])
      BY <3>2, <3>6 DEF DiskInv, Pointer
    <3>10. QED
      BY <1>1, <3>2, <3>6, <3>8, <3>9 DEF Kept, Stored
  <2>5. QED
    BY <2>3, <2>4
<1>4. QED
  BY <1>2, <1>3

\* A content request's release is there when it reads it.
THEOREM ServedReleases == Spec => []ServedReleaseIsThere
<1> DEFINE AllServed == \A x \in Worker : Served(x)
<1>1. Init => AllServed
  BY InitIs DEF Served
<1>2. DiskInv /\ AllServed /\ [Next]_vars => AllServed'
  <2>1. ASSUME DiskInv, AllServed, ScanStep
        PROVE  AllServed'
    BY <2>1, ScanTypes DEF Served, Stored, DiskInv, diskVars, reqVars
  <2>2. ASSUME AllServed, UNCHANGED vars
        PROVE  AllServed'
    BY <2>2 DEF Served, Stored, vars, diskVars, reqVars
  <2>3. QED
    BY <2>1, <2>2, ServedStays DEF Next
<1>3. AllServed => ServedReleaseIsThere
  BY DEF Served, Stored, ServedReleaseIsThere
<1>4. QED
  BY <1>1, <1>2, <1>3, DiskInit, DiskStep, PTL DEF Spec

\* Who may move a pointer, and who did.
Asking == {"seed", "publish", "activate"}
Asks(w) == pc[w] \in {"record", "index"} => Kind[w] \in Asking
Asked(i) == record[i] \in Worker => \E w \in Worker :
    /\ Kind[w] \in Asking /\ pc[w] \in Ended \cup {"index"}
    /\ mine[w] = i /\ chosen[w] = record[i]
AskedInv == \A w \in Worker : Asks(w) /\ Asked(w)

\* A request that leaves the pointers alone.
LEMMA PointersLeft ==
    ASSUME TypeOK, AskedInv, NEW w \in Worker, Step(w) \/ Crash(w), Asks(w)',
           \A i \in Worker : record'[i] \in Worker => record'[i] = record[i],
           pc[w] \in Ended \cup {"index"} =>
             /\ pc'[w] \in Ended \cup {"index"}
             /\ mine'[w] = mine[w] /\ chosen'[w] = chosen[w]
    PROVE  AskedInv'
<1>1. \A x \in Worker \ {w} : Asks(x)'
  BY RequestFrame DEF AskedInv, Asks
<1>2. ASSUME NEW i \in Worker, record'[i] \in Worker
      PROVE  \E x \in Worker :
                /\ Kind[x] \in Asking /\ pc'[x] \in Ended \cup {"index"}
                /\ mine'[x] = i /\ chosen'[x] = record'[i]
  <2>1. record[i] \in Worker /\ record'[i] = record[i]
    BY <1>2
  <2>2. PICK x \in Worker : /\ Kind[x] \in Asking /\ pc[x] \in Ended \cup {"index"}
                           /\ mine[x] = i /\ chosen[x] = record[i]
    BY <2>1 DEF AskedInv, Asked
  <2>3. CASE x = w
    BY <2>1, <2>2, <2>3
  <2>4. CASE x # w
    BY <2>1, <2>2, <2>4, RequestFrame
  <2>5. QED
    BY <2>3, <2>4
<1>3. QED
  BY <1>1, <1>2 DEF AskedInv, Asked

LEMMA AskedStays ==
    ASSUME DiskInv, AskedInv, NEW w \in Worker, Step(w) \/ Crash(w)
    PROVE  AskedInv'
<1>1. TypeOK /\ Placement(w) /\ Kind[w] \in Kinds /\ Asks(w)
  BY ConstantsOK DEF DiskInv, ConstantsOK, AskedInv
<1>2. CASE ReadIndex(w) \/ ReadRecord(w)
  <2>1. pc[w] \in Lookups /\ UNCHANGED record
    BY <1>1, <1>2, LookupMoves DEF diskVars
  <2>2. pc'[w] \in AfterLooking
    BY <1>1, <1>2, LookupMoves DEF TypeOK, Goto, AfterLooking
  <2>3. Asks(w)'
    BY <2>2 DEF Asks, AfterLooking
  <2>4. QED
    BY <1>1, <2>1, <2>3, PointersLeft
<1>3. CASE ReadRelease(w)
  <2>1. pc[w] = "getRelease" /\ UNCHANGED record
    BY <1>3 DEF ReadRelease, diskVars
  <2>2. pc'[w] = "record" => Kind[w] # "serve"
    BY <1>1, <1>3 DEF ReadRelease, Goto, TypeOK
  <2>3. pc'[w] \in {"done", "record", "failed"}
    BY <1>1, <1>3 DEF ReadRelease, Goto, TypeOK
  <2>4. Asks(w)'
    BY <1>1, <2>1, <2>2, <2>3 DEF Asks, Asking, Placement, Commits
  <2>5. QED
    BY <1>1, <2>1, <2>4, PointersLeft
<1>4. CASE Crash(w)
  <2>1. pc'[w] = "failed" /\ UNCHANGED <<record, mine, chosen>>
    BY <1>1, <1>4 DEF Crash, Goto, TypeOK, diskVars
  <2>2. Asks(w)'
    BY <2>1 DEF Asks
  <2>3. QED
    BY <1>1, <2>1, <2>2, PointersLeft
<1>5. CASE OpenFile(w)
  <2>1. Put(w, Torn) /\ pc[w] \in Writes /\ UNCHANGED <<pc, mine, chosen>>
    BY <1>5 DEF OpenFile
  <2>2. \A i \in Worker : record'[i] \in Worker => record'[i] = record[i]
    BY <1>1, <2>1, PutIs, MarksDiffer DEF TypeOK, MarksDiffer
  <2>3. Asks(w)'
    BY <1>1, <2>1 DEF Asks
  <2>4. QED
    BY <1>1, <2>1, <2>2, <2>3, PointersLeft
<1>6. CASE WriteFile(w)
  <2>1. /\ Put(w, Whole) /\ pc[w] \in Writes /\ UNCHANGED <<mine, chosen>>
        /\ pc'[w] = AfterWrite(w)
    BY <1>1, <1>6 DEF WriteFile, Goto, TypeOK
  <2>2. Asks(w)'
    <3>1. SUFFICES ASSUME pc'[w] \in {"record", "index"} PROVE Kind[w] \in Asking
      BY DEF Asks
    <3>2. \/ pc[w] = "record"
          \/ pc[w] = "release" /\ Kind[w] # "stage"
      BY <2>1, <3>1, AfterWriteIs
    <3>3. QED
      BY <1>1, <3>2 DEF Asks, Asking, Placement, Commits
  <2>3. CASE pc[w] # "record"
    <3>1. \A i \in Worker : record'[i] \in Worker => record'[i] = record[i]
      BY <1>1, <2>1, <2>3, PutIs, MarksDiffer DEF TypeOK, MarksDiffer
    <3>2. pc[w] = "index" => pc'[w] = "done"
      BY <2>1, AfterWriteIs
    <3>3. QED
      BY <1>1, <2>1, <2>2, <3>1, <3>2, PointersLeft
  <2>4. CASE pc[w] = "record"
    <3>1. pc'[w] = "index" /\ Kind[w] \in Asking /\ mine[w] \in Worker
      BY <1>1, <2>1, <2>4, AfterWriteIs DEF Asks, Placement, Placed
    <3>2. record' = [record EXCEPT ![mine[w]] = chosen[w]]
      BY <2>1, <2>4, PutIs, MarksDiffer DEF MarksDiffer
    <3>3. ASSUME NEW i \in Worker
          PROVE  Asked(i)'
      <4>1. CASE i = mine[w]
        <5>1. record'[i] = chosen[w]
          BY <1>1, <3>2, <4>1 DEF TypeOK
        <5>2. QED
          BY <2>1, <3>1, <4>1, <5>1 DEF Asked
      <4>2. CASE i # mine[w]
        <5>1. SUFFICES ASSUME record[i] \in Worker, record'[i] = record[i]
                       PROVE  Asked(i)'
          BY <1>1, <3>2, <4>2 DEF TypeOK, Asked
        <5>2. PICK x \in Worker :
                 /\ Kind[x] \in Asking /\ pc[x] \in Ended \cup {"index"}
                 /\ mine[x] = i /\ chosen[x] = record[i]
          BY <5>1 DEF AskedInv, Asked
        <5>3. x # w
          BY <4>2, <5>2
        <5>4. pc'[x] = pc[x] /\ mine'[x] = mine[x] /\ chosen'[x] = chosen[x]
          BY <1>1, <5>3, RequestFrame
        <5>5. QED
          BY <5>1, <5>2, <5>4 DEF Asked
      <4>3. QED
        BY <4>1, <4>2
    <3>4. \A x \in Worker : Asks(x)'
      BY <1>1, <2>2, RequestFrame DEF AskedInv, Asks
    <3>5. QED
      BY <3>3, <3>4 DEF AskedInv
  <2>5. QED
    BY <2>3, <2>4
<1>7. QED
  BY <1>2, <1>3, <1>4, <1>5, <1>6 DEF Step

\* A staged release is never active unless an activation asks for it: no order
\* of requests lets a stage move a pointer.
THEOREM OnlyAskedForActivates == Spec => []OnlyAskedForIsActive
<1>1. Init => AskedInv
  <2>1. ASSUME Init, NEW w \in Worker
        PROVE  Asks(w) /\ Asked(w)
    <3>1. Asks(w)
      BY <2>1, InitIs DEF Asks
    <3>2. Kind[w] = "seed" => chosen[w] = w
      BY <2>1 DEF Init
    <3>3. Asked(w)
      BY <2>1, <3>2, InitIs, MarksDiffer DEF Asked, Asking, MarksDiffer
    <3>4. QED
      BY <3>1, <3>3
  <2>2. QED
    BY <2>1 DEF AskedInv
<1>2. DiskInv /\ AskedInv /\ [Next]_vars => AskedInv'
  <2>1. ASSUME DiskInv, AskedInv, ScanStep
        PROVE  AskedInv'
    BY <2>1, ScanTypes DEF AskedInv, Asks, Asked, DiskInv, diskVars, reqVars
  <2>2. ASSUME AskedInv, UNCHANGED vars
        PROVE  AskedInv'
    BY <2>2 DEF AskedInv, Asks, Asked, vars, diskVars, reqVars
  <2>3. QED
    BY <2>1, <2>2, AskedStays DEF Next
<1>3. AskedInv => OnlyAskedForIsActive
  BY DEF AskedInv, Asked, Asking, OnlyAskedForIsActive
<1>4. QED
  BY <1>1, <1>2, <1>3, DiskInit, DiskStep, PTL DEF Spec

\* Only the sites in hand when w's was first written may hold its slug, and the
\* requests for it work on these or on none yet: a lookup finds one of them.
Standing(w) == held[w] # {} =>
    /\ index[SlugOf[w]] \in held[w] \cup {Torn}
    /\ \A v \in Worker : SlugOf[v] = SlugOf[w] /\ pc[v] \notin Ended =>
         mine[v] \in held[w] \cup {Absent}

\* The site a lookup has in hand has a record, so that it is found.
Looking(v) == pc[v] \in Lookups /\ mine[v] \in Worker => record[mine[v]] # Absent

StandInv == \A w \in Worker : Standing(w) /\ Looking(w)

LEMMA LookingStays ==
    ASSUME DiskInv, StandInv, NEW v \in Worker, Step(v) \/ Crash(v),
           NEW x \in Worker
    PROVE  Looking(x)'
<1>1. TypeOK /\ Kept /\ Placement(v) /\ Looking(x) /\ Looking(v)
  BY RequestKeeps DEF DiskInv, StandInv
<1>2. CASE x # v
  <2>1. pc'[x] = pc[x] /\ mine'[x] = mine[x]
    BY <1>1, <1>2, RequestFrame
  <2>. QED
    BY <1>1, <2>1 DEF Looking, Kept
<1>3. CASE ReadIndex(v)
  <2>1. UNCHANGED record /\ SlugOf[v] \in Slug /\ pc[v] \in Lookups
    BY <1>3, ConstantsOK DEF ReadIndex, diskVars, ConstantsOK
  <2>2. CASE index[SlugOf[v]] = Torn
    <3>1. Goto(v, "failed")
      BY <1>3, <2>2, MarksDiffer DEF ReadIndex, SeenIndex, MarksDiffer
    <3>. QED
      BY <1>1, <1>2, <3>1 DEF Looking, Goto, TypeOK
  <2>3. CASE index[SlugOf[v]] = Absent
    <3>1. Goto(v, AfterLookup(v, FALSE)) /\ mine' = [mine EXCEPT ![v] = NoSite(v)]
      BY <1>3, <2>3, MarksDiffer DEF ReadIndex, SeenIndex, MarksDiffer
    <3>2. pc'[v] \in Lookups => mine'[v] = Absent
      BY <1>1, <2>1, <3>1, AfterLookupIs DEF Goto, NoSite, TypeOK
    <3>. QED
      BY <1>2, <3>2, MarksDiffer DEF Looking, MarksDiffer
  <2>4. CASE index[SlugOf[v]] \in Worker
    <3>1. mine' = [mine EXCEPT ![v] = index[SlugOf[v]]]
      BY <1>3, <2>4, MarksDiffer DEF ReadIndex, SeenIndex, MarksDiffer
    <3>2. record[index[SlugOf[v]]] # Absent
      BY <2>1, <2>4 DEF DiskInv, IndexNeverDangles
    <3>. QED
      BY <1>1, <1>2, <2>1, <3>1, <3>2 DEF Looking, TypeOK
  <2>. QED
    BY <1>1, <2>1, <2>2, <2>3, <2>4 DEF TypeOK
<1>4. CASE ReadRecord(v)
  <2>1. /\ UNCHANGED record /\ mine[v] \in Worker /\ pc[v] \in Lookups
        /\ record[mine[v]] \in {Torn, Null} \cup Worker
    BY <1>1, <1>4 DEF ReadRecord, diskVars, Looking, TypeOK
  <2>2. UNCHANGED mine \/ mine' = [mine EXCEPT ![v] = Absent]
    BY <1>4, <2>1, MarksDiffer DEF ReadRecord, MarksDiffer
  <2>. QED
    BY <1>1, <1>2, <2>1, <2>2, MarksDiffer DEF Looking, TypeOK, MarksDiffer
<1>5. CASE ReadRelease(v) \/ Crash(v)
  <2>1. pc'[v] \in {"done", "record", "failed"}
    BY <1>1, <1>5 DEF ReadRelease, Crash, Goto, TypeOK
  <2>. QED
    BY <1>2, <2>1 DEF Looking
<1>6. CASE OpenFile(v)
  BY <1>2, <1>6 DEF OpenFile, Looking
<1>7. CASE WriteFile(v)
  <2>1. pc'[v] \in Writes \cup Ended
    BY <1>1, <1>7, AfterWriteIs DEF WriteFile, Goto, TypeOK
  <2>. QED
    BY <1>2, <2>1 DEF Looking
<1>. QED
  BY <1>2, <1>3, <1>4, <1>5, <1>6, <1>7 DEF Step

\* The index of a slug changes only to what a request for it has in hand.
LEMMA IndexWrites ==
    ASSUME DiskInv, NEW v \in Worker, Step(v) \/ Crash(v), NEW s \in Slug
    PROVE  \/ index'[s] = index[s]
           \/ /\ SlugOf[v] = s /\ pc[v] \in Writes /\ mine[v] \in Worker
              /\ index'[s] \in {mine[v], Torn}
<1>1. TypeOK /\ Placement(v) /\ SlugOf[v] \in Slug
  BY ConstantsOK DEF DiskInv, ConstantsOK
<1>2. CASE OpenFile(v) \/ WriteFile(v)
  <2>1. PICK c : Put(v, c) /\ pc[v] \in Writes
    BY <1>2 DEF OpenFile, WriteFile
  <2>2. mine[v] \in Worker
    BY <1>1, <2>1 DEF Placement, Placed
  <2>3. CASE pc[v] \in {"newIndex", "index"}
    BY <1>1, <2>1, <2>2, <2>3, PutIs DEF TypeOK
  <2>4. CASE pc[v] \notin {"newIndex", "index"}
    BY <2>1, <2>4, PutIs
  <2>. QED
    BY <2>3, <2>4
<1>3. CASE ~OpenFile(v) /\ ~WriteFile(v)
  BY <1>1, <1>3, LookupMoves DEF Step, ReadRelease, Crash, diskVars
<1>. QED
  BY <1>2, <1>3

\* A request works on what it had in hand, or on what it finds: it begins to make
\* a site of its own only if its slug's index is absent.
LEMMA HandMoves ==
    ASSUME DiskInv, StandInv, NEW v \in Worker, Step(v) \/ Crash(v),
           pc'[v] \notin Ended
    PROVE  /\ pc[v] \notin Ended
           /\ \/ mine'[v] \in {mine[v], Absent}
              \/ index[SlugOf[v]] \in Worker /\ mine'[v] = index[SlugOf[v]]
              \/ index[SlugOf[v]] = Absent
<1>1. TypeOK /\ Looking(v) /\ index[SlugOf[v]] \in {Absent, Torn} \cup Worker
  BY ConstantsOK DEF DiskInv, StandInv, TypeOK, ConstantsOK
<1>2. CASE ReadIndex(v)
  <2>1. pc[v] \notin Ended
    BY <1>2 DEF ReadIndex
  <2>2. index[SlugOf[v]] = Torn => Goto(v, "failed")
    BY <1>2, MarksDiffer DEF ReadIndex, SeenIndex, MarksDiffer
  <2>3. index[SlugOf[v]] \in Worker => mine' = [mine EXCEPT ![v] = index[SlugOf[v]]]
    BY <1>2, MarksDiffer DEF ReadIndex, SeenIndex, MarksDiffer
  <2>. QED
    BY <1>1, <2>1, <2>2, <2>3 DEF Goto, TypeOK
<1>3. CASE ReadRecord(v)
  <2>1. /\ mine[v] \in Worker /\ pc[v] \in Lookups
        /\ record[mine[v]] \in {Torn, Null} \cup Worker
    BY <1>1, <1>3 DEF ReadRecord, Looking, TypeOK
  <2>2. UNCHANGED mine \/ mine' = [mine EXCEPT ![v] = Absent]
    BY <1>3, <2>1, MarksDiffer DEF ReadRecord, MarksDiffer
  <2>. QED
    BY <1>1, <2>1, <2>2 DEF TypeOK
<1>4. CASE ReadRelease(v) \/ OpenFile(v) \/ WriteFile(v) \/ Crash(v)
  BY <1>1, <1>4 DEF ReadRelease, OpenFile, WriteFile, Crash, Goto, TypeOK
<1>. QED
  BY <1>2, <1>3, <1>4 DEF Step

\* One step of a request.
LEMMA StandsUnder ==
    ASSUME DiskInv, StandInv, NEW v \in Worker, Step(v) \/ Crash(v),
           NEW w \in Worker
    PROVE  Standing(w)'
<1> DEFINE s == SlugOf[w]
<1>1. /\ TypeOK /\ TypeOK' /\ Standing(w) /\ s \in Slug
      /\ \A x \in Worker \ {v} : pc'[x] = pc[x] /\ mine'[x] = mine[x]
  BY RequestKeeps, RequestFrame, ConstantsOK DEF DiskInv, StandInv, ConstantsOK
<1>2. CASE OpenFile(v) /\ pc[v] = "newIndex" /\ w = v
  <2>1. held'[w] = InHand(s) /\ UNCHANGED <<pc, mine>>
    BY <1>1, <1>2 DEF OpenFile, TypeOK
  <2>2. index'[s] = Torn
    BY <1>1, <1>2, PutIs DEF OpenFile, TypeOK
  <2>3. ASSUME NEW x \in Worker, SlugOf[x] = s, pc[x] \notin Ended
        PROVE  mine[x] \in InHand(s) \cup {Absent}
    BY <2>3 DEF InHand
  <2>. QED
    BY <2>1, <2>2, <2>3 DEF Standing
<1>3. CASE ~(OpenFile(v) /\ pc[v] = "newIndex" /\ w = v)
  <2>1. held'[w] = held[w]
    <3>1. CASE ReadIndex(v) \/ ReadRecord(v)
      BY <1>1, <3>1, LookupMoves
    <3>2. CASE ReadRelease(v) \/ OpenFile(v) \/ WriteFile(v) \/ Crash(v)
      BY <1>1, <1>3, <3>2 DEF ReadRelease, OpenFile, WriteFile, Crash, TypeOK
    <3>. QED
      BY <3>1, <3>2 DEF Step
  <2>2. SUFFICES ASSUME held[w] # {}
                 PROVE  /\ index'[s] \in held[w] \cup {Torn}
                        /\ \A x \in Worker : SlugOf[x] = s /\ pc'[x] \notin Ended
                             => mine'[x] \in held[w] \cup {Absent}
    BY <2>1 DEF Standing
  <2>3. /\ index[s] \in held[w] \cup {Torn} /\ held[w] \subseteq Worker
        /\ \A x \in Worker : SlugOf[x] = s /\ pc[x] \notin Ended
             => mine[x] \in held[w] \cup {Absent}
    BY <1>1, <2>2 DEF Standing, TypeOK
  <2>4. index'[s] \in held[w] \cup {Torn}
    BY <1>1, <2>3, IndexWrites, MarksDiffer DEF MarksDiffer
  <2>5. ASSUME SlugOf[v] = s, pc'[v] \notin Ended
        PROVE  mine'[v] \in held[w] \cup {Absent}
    BY <2>3, <2>5, HandMoves, MarksDiffer DEF MarksDiffer
  <2>. QED
    BY <1>1, <2>3, <2>4, <2>5
<1>. QED
  BY <1>2, <1>3

\* For any number of slugs and requests, in any order and wherever one dies: a slug
\* keeps its site, one made a moment ago too, unless another was in hand when the
\* site's index was first written; nothing that starts later replaces it.
THEOREM SitesStand == Spec => []SiteIsStable
<1>1. Init => StandInv
  <2>1. ASSUME Init, NEW w \in Worker
        PROVE  Standing(w)
    <3>1. SUFFICES ASSUME held[w] # {}
                   PROVE  /\ index[SlugOf[w]] = w /\ held[w] = {w}
                          /\ \A v \in Worker : pc[v] \notin Ended => mine[v] = Absent
      BY DEF Standing
    <3>2. w \in Seeds /\ pc[w] = "done" /\ held[w] = {w} /\ SlugOf[w] \in Slug
      BY <2>1, <3>1, InitIs, ConstantsOK DEF Seeds, ConstantsOK
    <3>3. index[SlugOf[w]] = w
      BY <2>1, <3>2, InitIs, OneSeed DEF OneSeed, Seeds
    <3>. QED
      BY <2>1, <3>2, <3>3, InitIs
  <2>2. ASSUME Init, NEW w \in Worker
        PROVE  Looking(w)
    BY <2>2, InitIs, MarksDiffer DEF Looking, MarksDiffer
  <2>. QED
    BY <2>1, <2>2 DEF StandInv
<1>2. DiskInv /\ StandInv /\ [Next]_vars => StandInv'
  <2>1. ASSUME DiskInv, StandInv, NEW v \in Worker, Step(v) \/ Crash(v)
        PROVE  StandInv'
    BY <2>1, StandsUnder, LookingStays DEF StandInv
  <2>2. ASSUME DiskInv, StandInv, ScanStep
        PROVE  StandInv'
    BY <2>2, ScanTypes DEF StandInv, Standing, Looking, DiskInv, diskVars, reqVars
  <2>3. ASSUME StandInv, UNCHANGED vars
        PROVE  StandInv'
    BY <2>3 DEF StandInv, Standing, Looking, vars, diskVars, reqVars
  <2>4. QED
    BY <2>1, <2>2, <2>3 DEF Next
<1>3. StandInv => SiteIsStable
  BY DEF StandInv, Standing, SiteIsStable
<1>4. QED
  BY <1>1, <1>2, <1>3, DiskInit, DiskStep, PTL DEF Spec
=============================================================================
