-------------------------- MODULE LeaseStoreProofs --------------------------
(***************************************************************************)
(* Proofs about LeaseStore, for every set of digests, refreshers, readers  *)
(* and lifetimes, and with no bound on the clock but MaxTime.              *)
(*                                                                         *)
(* The store promises a LeaseRegister only up to the first crossing on a   *)
(* digest, so every part of the invariant speaks of the digests that are   *)
(* not in raced: there the history variables agree with the files, a       *)
(* refresher that holds a digest is the only one that does and is about to *)
(* write no less than what is there, and a reader still has in its list    *)
(* every protected digest that it has not read as live.                    *)
(***************************************************************************)
EXTENDS LeaseStore, TLAPS

\* The histories are those of the files.
Agrees ==
    \A d \in Digest :
        /\ file[d] = "whole" => expiry[d] = whole[d]
        /\ file[d] = "none" => whole[d] = 0
        /\ d \notin raced => sure[d] = whole[d]

\* A digest that no two calls crossed on is in one refresher's hand at most, and
\* that one decided on an expiry no shorter than the record's.
Held ==
    \A r \in Refresher : \A d \in cur[r] :
        d \notin raced =>
            /\ next[r] >= whole[d]
            /\ \A q \in Refresher \ {r} : d \notin cur[q]

\* What a reader must still find, or has found, live.
Owed(g) == due[g] \ (raced \cup gone[g])
Answers ==
    \A g \in Reader :
        /\ gpc[g] = "reading" => \A d \in Owed(g) :
               d \in live[g] \/ (d \in names[g] /\ whole[d] > asOf[g])
        /\ gpc[g] = "ok" => Owed(g) \subseteq live[g]

LeaseInv == TypeOK /\ Agrees /\ Held /\ Answers

-----------------------------------------------------------------------------
(* Type correctness.                                                       *)

LEMMA SettleTyped ==
    ASSUME TypeOK, NEW R \in SUBSET Digest, Settle(R),
           whole' \in [Digest -> Nat]
    PROVE  raced' \subseteq Digest /\ sure' \in [Digest -> Nat]
  BY DEF TypeOK, Settle

\* A refresh's own steps keep the types: the expiry it writes is a natural number.
LEMMA RefreshTyped ==
    ASSUME TypeOK, NEW r \in Refresher,
           \/ BeginRefresh(r) \/ Crash(r)
           \/ \E d \in Digest : \/ ReadRecord(r, d) \/ OpenRecord(r, d)
                                \/ WriteRecord(r, d)
    PROVE  TypeOK'
<1>1. CASE BeginRefresh(r)
  <2>1. \A ttl \in TTLs : Target(ttl) \in Nat
    BY ConstantsOK DEF ConstantsOK, TypeOK, Target
  <2>2. Asks[r] \in SUBSET Digest
    BY ConstantsOK DEF ConstantsOK
  <2>. QED
    BY <1>1, <2>1, <2>2 DEF BeginRefresh, TypeOK, fileVars, readVars
<1>2. CASE Crash(r)
  BY <1>2 DEF Crash, TypeOK, fileVars, readVars
<1>3. ASSUME NEW d \in Digest, ReadRecord(r, d)
      PROVE  TypeOK'
  <2>1. LongerWins(SeenExpiry(d), target[r]) \in Nat
    BY DEF TypeOK, LongerWins, SeenExpiry
  <2>2. raced' \subseteq Digest /\ sure' \in [Digest -> Nat]
    BY <1>3, SettleTyped DEF ReadRecord, TypeOK
  <2>. QED
    BY <1>3, <2>1, <2>2 DEF ReadRecord, TypeOK, readVars
<1>4. ASSUME NEW d \in Digest, OpenRecord(r, d)
      PROVE  TypeOK'
  BY <1>4 DEF OpenRecord, TypeOK, readVars
<1>5. ASSUME NEW d \in Digest, WriteRecord(r, d)
      PROVE  TypeOK'
  <2>1. /\ left' = left /\ cur' \in [Refresher -> SUBSET Digest]
        /\ target' \in [Refresher -> Nat] /\ next' \in [Refresher -> Nat]
        /\ rpc' \in [Refresher -> {"idle", "read", "open", "write", "lost"}]
        /\ UNCHANGED <<clock, readVars>>
    BY <1>5 DEF WriteRecord, TypeOK
  <2>2. CASE rpc[r] = "write"
    <3>1. /\ file' = [file EXCEPT ![d] = "whole"]
          /\ expiry' = [expiry EXCEPT ![d] = next[r]]
          /\ whole' = [whole EXCEPT ![d] = next[r]]
          /\ Settle({})
      BY <1>5, <2>2 DEF WriteRecord
    <3>2. /\ file' \in [Digest -> {"none", "torn", "whole"}]
          /\ expiry' \in [Digest -> Nat] /\ whole' \in [Digest -> Nat]
      BY <3>1 DEF TypeOK
    <3>3. raced' \subseteq Digest /\ sure' \in [Digest -> Nat]
      BY <3>1, <3>2, SettleTyped
    <3>. QED
      BY <2>1, <3>2, <3>3 DEF TypeOK, readVars
  <2>3. CASE rpc[r] # "write"
    <3>1. UNCHANGED fileVars
      BY <1>5, <2>3 DEF WriteRecord
    <3>. QED
      BY <2>1, <3>1 DEF TypeOK, readVars, fileVars
  <2>. QED
    BY <2>2, <2>3
<1>. QED
  BY <1>1, <1>2, <1>3, <1>4, <1>5

\* So do a reader's.
LEMMA ReadTyped ==
    ASSUME TypeOK, NEW g \in Reader,
           \/ ListNames(g) \/ Listed(g) \/ Return(g)
           \/ \E d \in Digest : ReadName(g, d) \/ Unlink(g, d)
    PROVE  TypeOK'
<1>1. CASE ListNames(g)
  BY <1>1 DEF ListNames, TypeOK, fileVars, refVars
<1>2. CASE Listed(g)
  BY <1>2 DEF Listed, TypeOK, fileVars, refVars
<1>3. CASE Return(g)
  BY <1>3 DEF Return, TypeOK, fileVars, refVars
<1>4. ASSUME NEW d \in Digest, ReadName(g, d)
      PROVE  TypeOK'
  BY <1>4 DEF ReadName, TypeOK, fileVars, refVars
<1>5. ASSUME NEW d \in Digest, Unlink(g, d)
      PROVE  TypeOK'
  <2>1. whole' \in [Digest -> Nat]
        /\ file' \in [Digest -> {"none", "torn", "whole"}]
    BY <1>5 DEF Unlink, TypeOK
  <2>2. raced' \subseteq Digest /\ sure' \in [Digest -> Nat]
    BY <1>5, <2>1, SettleTyped DEF Unlink
  <2>. QED
    BY <1>5, <2>1, <2>2 DEF Unlink, TypeOK
<1>. QED
  BY <1>1, <1>2, <1>3, <1>4, <1>5

LEMMA TickTyped == ASSUME TypeOK, Tick PROVE TypeOK'
  BY DEF Tick, TypeOK, fileVars, refVars, readVars

\* Every variable of the lease store keeps its shape: in particular the expiry a
\* refresh writes is a natural number, and a reader's sets are sets of digests.
THEOREM LeaseTypeOK == Spec => []TypeOK
<1>1. Init => TypeOK
  BY DEF Init, TypeOK
<1>2. TypeOK /\ [Next]_vars => TypeOK'
  <2>. SUFFICES ASSUME TypeOK, [Next]_vars PROVE TypeOK'
    OBVIOUS
  <2>1. CASE UNCHANGED vars
    BY <2>1 DEF TypeOK, vars, fileVars, refVars, readVars
  <2>. QED
    BY <2>1, RefreshTyped, ReadTyped, TickTyped DEF Next
<1>. QED
  BY <1>1, <1>2, PTL DEF Spec

-----------------------------------------------------------------------------
(* The invariant, action by action.                                        *)

\* The three parts see no more of the state than this.
LEMMA LeaseInvFrame ==
    ASSUME LeaseInv, TypeOK', UNCHANGED <<fileVars, cur, next, gpc, asOf,
           names, live, due, gone>>
    PROVE  LeaseInv'
<1>1. Agrees'
  BY DEF LeaseInv, Agrees, fileVars
<1>2. Held'
  BY DEF LeaseInv, Held, fileVars
<1>3. Answers'
  BY DEF LeaseInv, Answers, Owed, fileVars
<1>. QED
  BY <1>1, <1>2, <1>3 DEF LeaseInv

LEMMA BeginRefreshInv ==
    ASSUME LeaseInv, NEW r \in Refresher, BeginRefresh(r)
    PROVE  LeaseInv'
<1>1. TypeOK'
  BY RefreshTyped DEF LeaseInv
<1>. QED
  BY <1>1, LeaseInvFrame DEF BeginRefresh, readVars

LEMMA TickInv == ASSUME LeaseInv, Tick PROVE LeaseInv'
<1>1. TypeOK'
  BY TickTyped DEF LeaseInv
<1>. QED
  BY <1>1, LeaseInvFrame DEF Tick, fileVars, refVars, readVars

\* A refresher that dies lets go of its digest.
LEMMA CrashInv ==
    ASSUME LeaseInv, NEW r \in Refresher, Crash(r)
    PROVE  LeaseInv'
<1>1. TypeOK'
  BY RefreshTyped DEF LeaseInv
<1>2. Agrees' /\ Answers'
  BY DEF LeaseInv, Agrees, Answers, Owed, Crash, fileVars, readVars
<1>3. Held'
  <2>. SUFFICES ASSUME NEW p \in Refresher, NEW e \in cur'[p], e \notin raced
                PROVE  /\ next'[p] >= whole[e]
                       /\ \A q \in Refresher \ {p} : e \notin cur'[q]
    BY DEF Held, Crash, fileVars
  <2>1. /\ p # r /\ cur'[p] = cur[p] /\ next'[p] = next[p]
        /\ \A q \in Refresher : cur'[q] \subseteq cur[q]
    BY DEF LeaseInv, TypeOK, Crash
  <2>. QED
    BY <2>1 DEF LeaseInv, Held
<1>. QED
  BY <1>1, <1>2, <1>3 DEF LeaseInv

\* Reading a digest that nobody else holds and whose file is not torn, a refresher
\* sees the record's true expiry, and its own wish can only lengthen it.
LEMMA ReadRecordInv ==
    ASSUME LeaseInv, NEW r \in Refresher, NEW d \in Digest, ReadRecord(r, d)
    PROVE  LeaseInv'
<1>1. TypeOK'
  BY RefreshTyped DEF LeaseInv
<1>2. /\ raced \subseteq raced'
      /\ d \notin raced' => ~Crossed(r, d)
      /\ \A e \in Digest : sure'[e] = IF e \in raced' THEN sure[e] ELSE whole'[e]
      /\ UNCHANGED <<clock, file, expiry, whole, target, readVars>>
  BY DEF ReadRecord, Settle
<1>3. Agrees'
  BY <1>2 DEF LeaseInv, Agrees
<1>4. Answers'
  BY <1>2 DEF LeaseInv, Answers, Owed, readVars
<1>5. Held'
  <2>. SUFFICES ASSUME NEW p \in Refresher, NEW e \in cur'[p], e \notin raced'
                PROVE  /\ next'[p] >= whole[e]
                       /\ \A q \in Refresher \ {p} : e \notin cur'[q]
    BY <1>2 DEF Held
  <2>1. cur' = [cur EXCEPT ![r] = {d}]
        /\ next' = [next EXCEPT ![r] = LongerWins(SeenExpiry(d), target[r])]
    BY DEF ReadRecord
  <2>2. CASE p = r
    <3>1. e = d /\ ~Crossed(r, d)
      BY <1>2, <2>1, <2>2 DEF LeaseInv, TypeOK
    <3>2. \A q \in Refresher \ {r} : d \notin cur'[q]
      BY <2>1, <3>1 DEF Crossed, LeaseInv, TypeOK
    <3>3. SeenExpiry(d) = whole[d]
      BY <3>1 DEF Crossed, SeenExpiry, LeaseInv, Agrees, TypeOK
    <3>4. next'[r] >= whole[d]
      BY <2>1, <3>3 DEF LongerWins, LeaseInv, TypeOK
    <3>. QED
      BY <2>2, <3>1, <3>2, <3>4
  <2>3. CASE p # r
    <3>1. cur'[p] = cur[p] /\ next'[p] = next[p] /\ cur'[r] = {d}
          /\ \A q \in Refresher \ {r} : cur'[q] = cur[q]
      BY <2>1, <2>3 DEF LeaseInv, TypeOK
    <3>2. e \in cur[p] /\ e \notin raced
      BY <1>2, <3>1
    <3>3. e # d
      BY <1>2, <2>3, <3>2 DEF Crossed
    <3>. QED
      BY <3>1, <3>2, <3>3 DEF LeaseInv, Held
  <2>. QED
    BY <2>2, <2>3
<1>. QED
  BY <1>1, <1>3, <1>4, <1>5 DEF LeaseInv

\* Opening the file tears it, and changes no history.
LEMMA OpenRecordInv ==
    ASSUME LeaseInv, NEW r \in Refresher, NEW d \in Digest, OpenRecord(r, d)
    PROVE  LeaseInv'
<1>1. TypeOK'
  BY RefreshTyped DEF LeaseInv
<1>2. Agrees'
  BY DEF LeaseInv, TypeOK, Agrees, OpenRecord
<1>3. Held'
  BY DEF LeaseInv, Held, OpenRecord
<1>4. Answers'
  BY DEF LeaseInv, Answers, Owed, OpenRecord, readVars
<1>. QED
  BY <1>1, <1>2, <1>3, <1>4 DEF LeaseInv

\* What a refresher writes to a digest no two calls crossed on reaches no less far
\* than the record it replaces.
LEMMA WriteGrows ==
    ASSUME LeaseInv, NEW r \in Refresher, NEW d \in Digest, WriteRecord(r, d)
    PROVE  /\ raced' = raced
           /\ \A e \in Digest : e \notin raced => whole'[e] >= whole[e]
           /\ \A e \in Digest : e # d => whole'[e] = whole[e]
           /\ \A e \in raced : sure'[e] = sure[e]
           /\ \A e \in Digest \ raced : sure'[e] = whole'[e]
<1>1. CASE rpc[r] = "write"
  <2>1. whole' = [whole EXCEPT ![d] = next[r]] /\ Settle({})
    BY <1>1 DEF WriteRecord
  <2>2. d \in cur[r]
    BY DEF WriteRecord
  <2>3. d \notin raced => next[r] >= whole[d]
    BY <2>2 DEF LeaseInv, Held
  <2>4. raced' = raced
        /\ sure' = [e \in Digest |-> IF e \in raced THEN sure[e] ELSE whole'[e]]
    BY <2>1 DEF Settle
  <2>. QED
    BY <2>1, <2>3, <2>4 DEF LeaseInv, TypeOK
<1>2. CASE rpc[r] # "write"
  <2>1. UNCHANGED fileVars
    BY <1>2 DEF WriteRecord
  <2>. QED
    BY <2>1 DEF fileVars, LeaseInv, TypeOK, Agrees
<1>. QED
  BY <1>1, <1>2

LEMMA WriteRecordInv ==
    ASSUME LeaseInv, NEW r \in Refresher, NEW d \in Digest, WriteRecord(r, d)
    PROVE  LeaseInv'
<1>1. TypeOK'
  BY RefreshTyped DEF LeaseInv
<1>2. cur' = [cur EXCEPT ![r] = {}] /\ next' = [next EXCEPT ![r] = 0]
      /\ d \in cur[r] /\ UNCHANGED readVars
  BY DEF WriteRecord
<1>3. Agrees'
  <2>1. CASE rpc[r] = "write"
    <3>1. /\ file' = [file EXCEPT ![d] = "whole"]
          /\ expiry' = [expiry EXCEPT ![d] = next[r]]
          /\ whole' = [whole EXCEPT ![d] = next[r]]
      BY <2>1 DEF WriteRecord
    <3>2. \A e \in Digest : e \notin raced' => sure'[e] = whole'[e]
      BY WriteGrows
    <3>. QED
      BY <3>1, <3>2 DEF Agrees, LeaseInv, TypeOK
  <2>2. CASE rpc[r] # "write"
    BY <2>2 DEF WriteRecord, fileVars, LeaseInv, Agrees
  <2>. QED
    BY <2>1, <2>2
<1>4. Held'
  <2>. SUFFICES ASSUME NEW p \in Refresher, NEW e \in cur'[p], e \notin raced'
                PROVE  /\ next'[p] >= whole'[e]
                       /\ \A q \in Refresher \ {p} : e \notin cur'[q]
    BY DEF Held
  <2>1. /\ p # r /\ cur'[p] = cur[p] /\ next'[p] = next[p] /\ e \in Digest
        /\ \A q \in Refresher : cur'[q] \subseteq cur[q]
    BY <1>2 DEF LeaseInv, TypeOK
  <2>2. e # d
    BY <1>2, <2>1, WriteGrows DEF LeaseInv, Held
  <2>3. whole'[e] = whole[e] /\ e \notin raced
    BY <2>1, <2>2, WriteGrows
  <2>. QED
    BY <2>1, <2>3 DEF LeaseInv, Held
<1>5. Answers'
  <2>1. raced' = raced /\ \A e \in Digest \ raced :
            whole'[e] \in Nat /\ whole[e] \in Nat /\ whole'[e] >= whole[e]
    BY <1>1, WriteGrows DEF LeaseInv, TypeOK
  <2>2. \A h \in Reader : asOf[h] \in Nat /\ Owed(h) \subseteq Digest \ raced
    BY DEF LeaseInv, TypeOK, Owed
  <2>3. \A h \in Reader : Owed(h)' = Owed(h)
    BY <1>2, <2>1 DEF Owed, readVars
  <2>. QED
    BY <1>2, <2>1, <2>2, <2>3 DEF LeaseInv, Answers, readVars
<1>. QED
  BY <1>1, <1>3, <1>4, <1>5 DEF LeaseInv

\* A listing takes in every digest in force, each of which has a file.
LEMMA ListNamesInv ==
    ASSUME LeaseInv, NEW g \in Reader, ListNames(g)
    PROVE  LeaseInv'
<1>1. TypeOK'
  BY ReadTyped DEF LeaseInv
<1>2. Agrees' /\ Held'
  BY DEF LeaseInv, Agrees, Held, ListNames, fileVars, refVars
<1>3. Answers'
  <2>1. /\ gpc' = [gpc EXCEPT ![g] = "reading"]
        /\ asOf' = [asOf EXCEPT ![g] = clock]
        /\ names' = [names EXCEPT ![g] = {d \in Digest : file[d] # "none"}]
        /\ due' = [due EXCEPT ![g] = {d \in Digest : whole[d] > clock}]
        /\ UNCHANGED <<whole, raced, live, gone>>
    BY DEF ListNames, fileVars
  <2>2. \A d \in Digest : whole[d] > clock => file[d] # "none"
    BY DEF LeaseInv, TypeOK, Agrees
  <2>. SUFFICES ASSUME NEW h \in Reader
                PROVE  /\ gpc'[h] = "reading" => \A d \in Owed(h)' :
                            \/ d \in live'[h]
                            \/ d \in names'[h] /\ whole'[d] > asOf'[h]
                       /\ gpc'[h] = "ok" => Owed(h)' \subseteq live'[h]
    BY DEF Answers
  <2>3. CASE h = g
    BY <2>1, <2>2, <2>3 DEF LeaseInv, TypeOK, Owed
  <2>4. CASE h # g
    BY <2>1, <2>4 DEF LeaseInv, TypeOK, Answers, Owed
  <2>. QED
    BY <2>3, <2>4
<1>. QED
  BY <1>1, <1>2, <1>3 DEF LeaseInv

\* A digest still owed is read as live, or its file fails the listing.
LEMMA ReadNameInv ==
    ASSUME LeaseInv, NEW g \in Reader, NEW d \in Digest, ReadName(g, d)
    PROVE  LeaseInv'
<1>1. TypeOK'
  BY ReadTyped DEF LeaseInv
<1>2. Agrees' /\ Held'
  BY DEF LeaseInv, Agrees, Held, ReadName, fileVars, refVars
<1>3. Answers'
  <2>1. names' = [names EXCEPT ![g] = @ \ {d}] /\ gpc[g] = "reading"
        /\ UNCHANGED <<file, expiry, whole, raced, asOf, due, gone>>
    BY DEF ReadName, fileVars
  <2>2. \A h \in Reader : Owed(h)' = Owed(h)
    BY <2>1 DEF Owed
  <2>3. CASE Readable(d)
    <3>1. /\ live' = [live EXCEPT ![g] =
                IF SeenExpiry(d) > asOf[g] THEN @ \cup {d} ELSE @]
          /\ gpc' = gpc
      BY <2>3 DEF ReadName
    <3>2. SeenExpiry(d) = whole[d]
      BY <2>3 DEF Readable, SeenExpiry, LeaseInv, Agrees
    <3>. QED
      BY <2>1, <2>2, <3>1, <3>2 DEF LeaseInv, TypeOK, Answers
  <2>4. CASE ~Readable(d)
    <3>1. gpc' = [gpc EXCEPT ![g] = "failed"] /\ live' = live
      BY <2>4 DEF ReadName
    <3>. QED
      BY <2>1, <2>2, <3>1 DEF LeaseInv, TypeOK, Answers
  <2>. QED
    BY <2>3, <2>4
<1>. QED
  BY <1>1, <1>2, <1>3 DEF LeaseInv

LEMMA ListedInv ==
    ASSUME LeaseInv, NEW g \in Reader, Listed(g)
    PROVE  LeaseInv'
<1>1. TypeOK'
  BY ReadTyped DEF LeaseInv
<1>2. Agrees' /\ Held'
  BY DEF LeaseInv, Agrees, Held, Listed, fileVars, refVars
<1>3. Answers'
  <2>1. /\ gpc[g] = "reading" /\ names[g] = {}
        /\ \/ gpc' = [gpc EXCEPT ![g] = "ok"] /\ names' = names
           \/ /\ gpc' = [gpc EXCEPT ![g] = "pruning"]
              /\ names' = [names EXCEPT ![g] = dead[g]]
        /\ UNCHANGED <<whole, raced, asOf, live, due, gone>>
    BY DEF Listed, fileVars
  <2>2. \A h \in Reader : Owed(h)' = Owed(h)
    BY <2>1 DEF Owed
  <2>3. Owed(g) \subseteq live[g]
    BY <2>1 DEF LeaseInv, Answers
  <2>. QED
    BY <2>1, <2>2, <2>3 DEF LeaseInv, TypeOK, Answers
<1>. QED
  BY <1>1, <1>2, <1>3 DEF LeaseInv

LEMMA ReturnInv ==
    ASSUME LeaseInv, NEW g \in Reader, Return(g)
    PROVE  LeaseInv'
<1>1. TypeOK'
  BY ReadTyped DEF LeaseInv
<1>2. Agrees' /\ Held'
  BY DEF LeaseInv, Agrees, Held, Return, fileVars, refVars
<1>3. Answers'
  <2>1. \A h \in Reader : h # g =>
          /\ gpc'[h] = gpc[h] /\ asOf'[h] = asOf[h] /\ names'[h] = names[h]
          /\ live'[h] = live[h] /\ due'[h] = due[h] /\ gone'[h] = gone[h]
    BY DEF Return, LeaseInv, TypeOK
  <2>2. gpc'[g] = "idle" /\ UNCHANGED <<whole, raced>>
    BY DEF Return, LeaseInv, TypeOK, fileVars
  <2>. QED
    BY <2>1, <2>2 DEF LeaseInv, Answers, Owed
<1>. QED
  BY <1>1, <1>2, <1>3 DEF LeaseInv

\* A collector that unlinks a record in force races with whoever refreshed it; one
\* that unlinks an expired record only takes it from what other readers are owed.
LEMMA UnlinkShape ==
    ASSUME LeaseInv, NEW g \in Reader, NEW d \in Digest, Unlink(g, d)
    PROVE  /\ raced' = raced \cup (IF whole[d] > clock THEN {d} ELSE {})
           /\ whole' = [whole EXCEPT ![d] = 0]
           /\ sure' = [e \in Digest |-> IF e \in raced' THEN sure[e] ELSE whole'[e]]
           /\ UNCHANGED <<clock, expiry, cur, next, gpc, asOf, live, due>>
  BY DEF Unlink, Settle

LEMMA UnlinkInv ==
    ASSUME LeaseInv, NEW g \in Reader, NEW d \in Digest, Unlink(g, d)
    PROVE  LeaseInv'
<1>1. TypeOK'
  BY ReadTyped DEF LeaseInv
<1>2. file' = [file EXCEPT ![d] = "none"]
      /\ names' = [names EXCEPT ![g] = @ \ {d}]
      /\ gone' = [h \in Reader |-> gone[h] \cup ({d} \cap due[h])]
      /\ gpc[g] = "pruning"
  BY DEF Unlink
<1>3. Agrees'
  BY <1>2, UnlinkShape DEF LeaseInv, TypeOK, Agrees
<1>4. Held'
  <2>. SUFFICES ASSUME NEW p \in Refresher, NEW e \in cur[p], e \notin raced'
                PROVE  /\ next[p] >= whole'[e]
                       /\ \A q \in Refresher \ {p} : e \notin cur[q]
    BY UnlinkShape DEF Held
  <2>1. e \notin raced /\ e \in Digest /\ next[p] \in Nat
    BY UnlinkShape DEF LeaseInv, TypeOK
  <2>2. whole'[e] = whole[e] \/ whole'[e] = 0
    BY <2>1, UnlinkShape DEF LeaseInv, TypeOK
  <2>. QED
    BY <2>1, <2>2 DEF LeaseInv, Held
<1>5. Answers'
  <2>. SUFFICES ASSUME NEW h \in Reader
                PROVE  /\ gpc[h] = "reading" => \A e \in Owed(h)' :
                            \/ e \in live[h]
                            \/ e \in names'[h] /\ whole'[e] > asOf[h]
                       /\ gpc[h] = "ok" => Owed(h)' \subseteq live[h]
    BY UnlinkShape DEF Answers
  <2>1. Owed(h)' \subseteq Owed(h) \ {d}
    BY <1>2, UnlinkShape DEF Owed
  <2>2. \A e \in Owed(h)' : e \in Digest /\ whole'[e] = whole[e]
    BY <2>1, UnlinkShape DEF Owed, LeaseInv, TypeOK
  <2>3. gpc[h] = "reading" => names'[h] = names[h]
    BY <1>2 DEF LeaseInv, TypeOK
  <2>. QED
    BY <2>1, <2>2, <2>3 DEF LeaseInv, Answers
<1>. QED
  BY <1>1, <1>3, <1>4, <1>5 DEF LeaseInv

LEMMA LeaseInvInductive ==
    /\ Init => LeaseInv
    /\ LeaseInv /\ [Next]_vars => LeaseInv'
<1>1. Init => LeaseInv
  BY DEF Init, LeaseInv, TypeOK, Agrees, Held, Answers
<1>2. LeaseInv /\ [Next]_vars => LeaseInv'
  <2>. SUFFICES ASSUME LeaseInv, [Next]_vars PROVE LeaseInv'
    OBVIOUS
  <2>1. CASE UNCHANGED vars
    <3>1. TypeOK'
      BY <2>1 DEF LeaseInv, TypeOK, vars, fileVars, refVars, readVars
    <3>. QED
      BY <2>1, <3>1, LeaseInvFrame DEF vars, refVars, readVars
  <2>. QED
    BY <2>1, TickInv, BeginRefreshInv, CrashInv, ReadRecordInv, OpenRecordInv,
       WriteRecordInv, ListNamesInv, ReadNameInv, ListedInv, ReturnInv, UnlinkInv
    DEF Next
<1>. QED
  BY <1>1, <1>2

LEMMA LeaseInvHolds == Spec => []LeaseInv
  BY LeaseInvInductive, PTL DEF Spec

\* An answer of active() never leaves out a digest that was protected when its
\* listing began, unless two calls crossed on the digest or the lease ran out and
\* another collector pruned the record before it was read.
THEOREM ActiveIsComplete == Spec => []ActiveComplete
<1>1. LeaseInv => ActiveComplete
  BY DEF LeaseInv, Answers, Owed, ActiveComplete
<1>. QED
  BY <1>1, LeaseInvHolds, PTL

-----------------------------------------------------------------------------
(* The refinement: up to the races, the store is a lease register.         *)

LEMMA RegisterInit == Init => Uncrossed!Init
  BY DEF Init, Uncrossed!Init

\* A write is an extension, or leaves the protection as it was.
LEMMA WriteRefines ==
    ASSUME LeaseInv, sure' \in [Digest -> Nat],
           NEW r \in Refresher, NEW d \in Digest, WriteRecord(r, d)
    PROVE  [Uncrossed!Next]_<<clock, sure>>
<1>1. clock' = clock
  BY DEF WriteRecord
<1>2. \A e \in Digest : e # d => sure'[e] = sure[e]
  BY WriteGrows DEF LeaseInv, Agrees
<1>3. sure'[d] = sure[d] \/ sure'[d] > sure[d]
  BY WriteGrows DEF LeaseInv, Agrees, TypeOK
<1>4. CASE sure'[d] = sure[d]
  BY <1>1, <1>2, <1>4 DEF LeaseInv, TypeOK
<1>5. CASE sure'[d] > sure[d]
  <2>1. Uncrossed!Extend(d)
    BY <1>1, <1>2, <1>5 DEF Uncrossed!Extend, Uncrossed!Changes
  <2>. QED
    BY <2>1 DEF Uncrossed!Next
<1>. QED
  BY <1>3, <1>4, <1>5

\* So an unlink: of an expired record it forgets, of one in force it is a race.
LEMMA UnlinkRefines ==
    ASSUME LeaseInv, sure' \in [Digest -> Nat],
           NEW g \in Reader, NEW d \in Digest, Unlink(g, d)
    PROVE  [Uncrossed!Next]_<<clock, sure>>
<1>1. clock' = clock
  BY DEF Unlink
<1>2. \A e \in Digest : e # d => sure'[e] = sure[e]
  BY UnlinkShape DEF LeaseInv, Agrees, TypeOK
<1>3. CASE d \in raced'
  <2>1. sure'[d] = sure[d]
    BY <1>3, UnlinkShape
  <2>. QED
    BY <1>1, <1>2, <2>1 DEF LeaseInv, TypeOK
<1>4. CASE d \notin raced'
  <2>1. sure'[d] = 0 /\ sure[d] = whole[d] /\ whole[d] <= clock
    BY <1>4, UnlinkShape DEF LeaseInv, Agrees, TypeOK
  <2>2. Uncrossed!Forget(d)
    BY <1>1, <1>2, <2>1 DEF Uncrossed!Forget, Uncrossed!Changes
  <2>. QED
    BY <2>2 DEF Uncrossed!Next
<1>. QED
  BY <1>3, <1>4

\* A read that meets a race freezes the digest's protection where it was.
LEMMA ReadRefines ==
    ASSUME LeaseInv, NEW r \in Refresher, NEW d \in Digest, ReadRecord(r, d)
    PROVE  sure' = sure
  BY DEF ReadRecord, Settle, LeaseInv, TypeOK, Agrees

LEMMA RegisterStep ==
    LeaseInv /\ LeaseInv' /\ [Next]_vars => [Uncrossed!Next]_<<clock, sure>>
<1>. SUFFICES ASSUME LeaseInv, LeaseInv', [Next]_vars
              PROVE  [Uncrossed!Next]_<<clock, sure>>
  OBVIOUS
<1>1. sure' \in [Digest -> Nat]
  BY DEF LeaseInv, TypeOK
<1>2. CASE UNCHANGED <<clock, sure>>
  BY <1>2
<1>3. CASE Tick
  BY <1>1, <1>3 DEF Tick, fileVars, Uncrossed!Next, Uncrossed!Advance
<1>4. ASSUME NEW r \in Refresher, BeginRefresh(r) \/ Crash(r)
      PROVE  UNCHANGED <<clock, sure>>
  BY <1>4 DEF BeginRefresh, Crash, fileVars
<1>5. ASSUME NEW r \in Refresher, NEW d \in Digest,
             ReadRecord(r, d) \/ OpenRecord(r, d)
      PROVE  UNCHANGED <<clock, sure>>
  BY <1>5, ReadRefines DEF ReadRecord, OpenRecord
<1>6. ASSUME NEW g \in Reader, ListNames(g) \/ Listed(g) \/ Return(g)
      PROVE  UNCHANGED <<clock, sure>>
  BY <1>6 DEF ListNames, Listed, Return, fileVars
<1>7. ASSUME NEW g \in Reader, NEW d \in Digest, ReadName(g, d)
      PROVE  UNCHANGED <<clock, sure>>
  BY <1>7 DEF ReadName, fileVars
<1>8. CASE UNCHANGED vars
  BY <1>8 DEF vars, fileVars
<1>. QED
  BY <1>1, <1>2, <1>3, <1>4, <1>5, <1>6, <1>7, <1>8, WriteRefines, UnlinkRefines
  DEF Next

\* Refinement: until the first race on a digest its protection is that of a lease
\* register, so it only ever moves into the future and is forgotten only once it
\* has passed, however refreshes, crashes, listings and prunes interleave.
THEOREM RegisterUpToRaces == Spec => ShortenedOnlyByRaces
<1>1. Spec => Uncrossed!Init /\ [][Uncrossed!Next]_<<clock, sure>>
  BY RegisterInit, RegisterStep, LeaseInvHolds, PTL DEF Spec
<1>. QED
  BY <1>1 DEF ShortenedOnlyByRaces, Uncrossed!Spec

-----------------------------------------------------------------------------
(* Where the store keeps its whole promise.                                *)

\* Nobody refreshes another's digest, no refresh dies half way, and the collectors
\* only read.
Calm ==
    /\ \A r \in Refresher : \A q \in Refresher \ {r} : Asks[r] \cap Asks[q] = {}
    /\ ~Crashes
    /\ Pruning = {}

CalmInv ==
    /\ raced = {}
    /\ \A r \in Refresher :
        /\ left[r] \cup cur[r] \subseteq Asks[r]
        /\ rpc[r] # "lost" /\ (rpc[r] \in {"idle", "read"} => cur[r] = {})
        /\ \A d, e \in cur[r] : d = e
    /\ \A d \in Digest : file[d] = "torn" => \E r \in Refresher : d \in cur[r]
    /\ \A g \in Reader : gpc[g] # "pruning"

LEMMA CalmRead ==
    ASSUME Calm, LeaseInv, CalmInv,
           NEW r \in Refresher, NEW d \in Digest, ReadRecord(r, d)
    PROVE  CalmInv'
<1>1. rpc[r] = "read" /\ cur[r] = {} /\ d \in left[r] /\ d \in Asks[r]
  BY DEF ReadRecord, CalmInv
<1>2. \A q \in Refresher : d \notin cur[q]
  BY <1>1 DEF Calm, CalmInv
<1>3. file[d] # "torn"
  BY <1>2 DEF CalmInv
<1>4. raced' = {}
  BY <1>2, <1>3 DEF ReadRecord, Settle, Crossed, CalmInv
<1>5. /\ cur' = [cur EXCEPT ![r] = {d}] /\ left' = [left EXCEPT ![r] = @ \ {d}]
      /\ rpc' = [rpc EXCEPT ![r] = "open"] /\ UNCHANGED <<file, gpc>>
  BY DEF ReadRecord, readVars
<1>6. \A q \in Refresher :
        /\ left'[q] \cup cur'[q] \subseteq Asks[q]
        /\ rpc'[q] # "lost" /\ (rpc'[q] \in {"idle", "read"} => cur'[q] = {})
        /\ \A e, f \in cur'[q] : e = f
  BY <1>1, <1>5 DEF LeaseInv, TypeOK, CalmInv
<1>7. \A q \in Refresher : cur[q] \subseteq cur'[q]
  BY <1>1, <1>5 DEF LeaseInv, TypeOK
<1>. QED
  BY <1>4, <1>5, <1>6, <1>7 DEF CalmInv

LEMMA CalmOpen ==
    ASSUME Calm, LeaseInv, CalmInv,
           NEW r \in Refresher, NEW d \in Digest, OpenRecord(r, d)
    PROVE  CalmInv'
<1>1. /\ file' = [file EXCEPT ![d] = "torn"] /\ rpc' = [rpc EXCEPT ![r] = "write"]
      /\ d \in cur[r] /\ UNCHANGED <<raced, left, cur, gpc>>
  BY DEF OpenRecord, readVars
<1>. QED
  BY <1>1 DEF LeaseInv, TypeOK, CalmInv

LEMMA CalmWrite ==
    ASSUME Calm, LeaseInv, CalmInv,
           NEW r \in Refresher, NEW d \in Digest, WriteRecord(r, d)
    PROVE  CalmInv'
<1>1. rpc[r] = "write" /\ d \in cur[r] /\ cur[r] = {d}
  BY DEF WriteRecord, CalmInv
<1>2. /\ file' = [file EXCEPT ![d] = "whole"] /\ raced' = raced
      /\ cur' = [cur EXCEPT ![r] = {}] /\ UNCHANGED <<left, gpc>>
      /\ rpc' = [rpc EXCEPT ![r] = IF left[r] = {} THEN "idle" ELSE "read"]
  BY <1>1, WriteGrows DEF WriteRecord, readVars
<1>3. \A q \in Refresher : q # r => cur'[q] = cur[q]
  BY <1>2 DEF LeaseInv, TypeOK
<1>4. \A e \in Digest : file'[e] = "torn" => e # d /\ file[e] = "torn"
  BY <1>2 DEF LeaseInv, TypeOK
<1>5. \A e \in Digest : file'[e] = "torn" => \E q \in Refresher : e \in cur'[q]
  BY <1>1, <1>3, <1>4 DEF CalmInv
<1>. QED
  BY <1>2, <1>5 DEF LeaseInv, TypeOK, CalmInv

LEMMA CalmInductive ==
    ASSUME Calm
    PROVE  /\ Init => CalmInv
           /\ LeaseInv /\ CalmInv /\ [Next]_vars => CalmInv'
<1>1. Init => CalmInv
  BY DEF Init, CalmInv
<1>2. LeaseInv /\ CalmInv /\ [Next]_vars => CalmInv'
  <2>. SUFFICES ASSUME LeaseInv, CalmInv, [Next]_vars PROVE CalmInv'
    OBVIOUS
  <2>1. CASE UNCHANGED vars
    BY <2>1 DEF vars, fileVars, refVars, readVars, CalmInv
  <2>2. CASE Tick
    BY <2>2 DEF Tick, fileVars, refVars, readVars, CalmInv
  <2>3. ASSUME NEW r \in Refresher, BeginRefresh(r)
        PROVE  CalmInv'
    BY <2>3 DEF BeginRefresh, fileVars, readVars, LeaseInv, TypeOK, CalmInv
  <2>4. ASSUME NEW r \in Refresher PROVE ~Crash(r)
    BY DEF Calm, Crash
  <2>5. ASSUME NEW g \in Reader,
               ListNames(g) \/ Return(g) \/ (\E d \in Digest : ReadName(g, d))
        PROVE  CalmInv'
    BY <2>5 DEF ListNames, Return, ReadName, fileVars, refVars, LeaseInv, TypeOK,
                CalmInv
  <2>6. ASSUME NEW g \in Reader, Listed(g)
        PROVE  CalmInv'
    BY <2>6 DEF Listed, Calm, fileVars, refVars, LeaseInv, TypeOK, CalmInv
  <2>7. ASSUME NEW g \in Reader, NEW d \in Digest PROVE ~Unlink(g, d)
    BY DEF Unlink, CalmInv
  <2>. QED
    BY <2>1, <2>2, <2>3, <2>4, <2>5, <2>6, <2>7, CalmRead, CalmOpen, CalmWrite
    DEF Next
<1>. QED
  BY <1>1, <1>2

\* Where every digest is refreshed by one call at a time that lives to the end, and
\* no collector prunes, protection is indeed never shortened.
THEOREM CalmNeverShortens == ASSUME Calm PROVE Spec => NeverShortened
<1>1. Spec => []CalmInv
  BY CalmInductive, LeaseInvHolds, PTL DEF Spec
<1>2. LeaseInv /\ CalmInv => sure = whole
  BY DEF LeaseInv, TypeOK, Agrees, CalmInv
<1>3. Init => Register!Init
  BY DEF Init, Register!Init
<1>4. LeaseInv /\ LeaseInv' /\ CalmInv /\ CalmInv' /\ [Next]_vars
        => [Register!Next]_<<clock, whole>>
  <2>. SUFFICES ASSUME LeaseInv, LeaseInv', CalmInv, CalmInv', [Next]_vars
                PROVE  [Register!Next]_<<clock, whole>>
    OBVIOUS
  <2>1. sure = whole
    BY <1>2
  <2>2. sure' = whole'
    BY DEF LeaseInv, TypeOK, Agrees, CalmInv
  <2>. QED
    BY <2>1, <2>2, RegisterStep
    DEF Uncrossed!Next, Uncrossed!Advance, Uncrossed!Extend, Uncrossed!Forget,
        Uncrossed!Changes, Register!Next, Register!Advance, Register!Extend,
        Register!Forget, Register!Changes
<1>5. Spec => Register!Init /\ [][Register!Next]_<<clock, whole>>
  BY <1>1, <1>3, <1>4, LeaseInvHolds, PTL DEF Spec
<1>. QED
  BY <1>5 DEF NeverShortened, Register!Spec

=============================================================================
