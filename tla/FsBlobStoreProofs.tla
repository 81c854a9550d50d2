-------------------------- MODULE FsBlobStoreProofs --------------------------
(***************************************************************************)
(* Writers that empty each other's file leave it whole, for any number of  *)
(* them and a blob of any length.                                          *)
(***************************************************************************)
EXTENDS FsBlobStore, FiniteSetTheorems, TLAPS

USE DEF Kinds, Ended, Piece, Inode

\* Whoever reads or writes has a file open, and a writer has a piece left.
Shape ==
    /\ TypeOK
    /\ \A w \in Worker : pc[w] = "writing" => at[w] <= Chunks

\* Every piece the blob lacks is still to come from a writer under way.
Healing ==
    /\ name # Absent
    /\ \A q \in Piece : q \notin data[name] =>
         \E v \in Worker : pc[v] = "writing" /\ at[v] <= q

\* Before the first put has emptied the file, what is read of it stays true of it.
Faithful ==
    \A w \in Worker : pc[w] = "reading" /\ good[w] =>
        \A q \in Piece : q < at[w] => q \in data[name]

\* While nothing is swept the file at the key is the one everybody has open; and a
\* release is committed only once the file is healing, for good.
HealInv ==
    /\ Shape
    /\ \A w \in Worker : pc[w] \in {"delete", "rm"} => Kind[w] = "sweep"
    /\ \A w \in Worker : pc[w] \in {"reading", "writing"} =>
         name # Absent /\ fd[w] = name
    /\ (\E w \in Worker : pc[w] = "committed") => Healing
    /\ Healing \/ Faithful

\* It holds for as long as it stays calm, and only collectors ever delete.
CalmInv ==
    /\ Shape
    /\ \A w \in Worker : pc[w] \in {"delete", "rm"} => Kind[w] = "sweep"
    /\ Calm => HealInv

-----------------------------------------------------------------------------
(* Type correctness.                                                       *)

LEMMA LengthBound ==
    ASSUME NEW i
    PROVE  Length(i) \in 0..Chunks
<1> DEFINE S == {n \in Piece : \E m \in data[i] : n <= m}
<1>1. IsFiniteSet(Piece) /\ Cardinality(Piece) = Chunks
  BY ConstantsOK, FS_Interval DEF ConstantsOK
<1>2. IsFiniteSet(S) /\ Cardinality(S) <= Cardinality(Piece)
  BY <1>1, FS_Subset
<1>3. Cardinality(S) \in Nat
  BY <1>2, FS_CardinalityType
<1>4. QED
  BY <1>1, <1>2, <1>3, ConstantsOK DEF Length, ConstantsOK

LEMMA DecideTypes ==
    ASSUME TypeOK, NEW w \in Worker, NEW o, Decide(w, o)
    PROVE  /\ pc' \in [Worker -> Ended \cup {"has", "lstat", "open", "reading",
                                     "create", "writing", "delete", "rm"}]
           /\ gate' \in [Worker -> BOOLEAN]
           /\ pc'[w] \in {"committed", "lstat", "create", "failed"}
           /\ \A v \in Worker \ {w} : pc'[v] = pc[v]
<1>1. \E p \in {"committed", "lstat", "create", "failed"} : Goto(w, p)
  BY DEF Decide
<1>2. /\ pc' \in [Worker -> Ended \cup {"has", "lstat", "open", "reading",
                                     "create", "writing", "delete", "rm"}]
      /\ pc'[w] \in {"committed", "lstat", "create", "failed"}
      /\ \A v \in Worker \ {w} : pc'[v] = pc[v]
  BY <1>1 DEF TypeOK, Goto
<1>3. (gate[w] \/ o = "ok") \in BOOLEAN
  OBVIOUS
<1>4. gate' \in [Worker -> BOOLEAN]
  BY <1>3 DEF Decide, TypeOK
<1>5. QED
  BY <1>2, <1>4

LEMMA DisturbTypes ==
    ASSUME NEW w, Disturb(w)
    PROVE  disturbed' \in [Worker -> BOOLEAN]
<1>1. \A v \in Worker : (disturbed[v] \/ (v # w /\ Running(v))) \in BOOLEAN
  OBVIOUS
<1>2. QED
  BY <1>1 DEF Disturb

LEMMA ShapeInit == Init => Shape
<1> SUFFICES ASSUME Init PROVE Shape
  OBVIOUS
<1>1. \A k \in Kinds : Start[k] \in {"has", "create", "open", "delete"}
  BY DEF Start
<1>2. \A w \in Worker : pc[w] \in {"has", "create", "open", "delete"}
  BY <1>1, ConstantsOK DEF Init, ConstantsOK
<1>3. pc \in [Worker -> {"has", "create", "open", "delete"}]
  <2>1. \A w \in Worker : Start[Kind[w]] \in {"has", "create", "open", "delete"}
    BY <1>1, ConstantsOK DEF ConstantsOK
  <2>2. QED
    BY <2>1 DEF Init
<1>4. data \in [Inode -> SUBSET Piece]
  BY DEF Init
<1>5. QED
  BY <1>2, <1>3, <1>4, ConstantsOK DEF Init, Shape, TypeOK, ConstantsOK

LEMMA ShapeStep == Shape /\ [Next]_vars => Shape'
<1> SUFFICES ASSUME Shape, [Next]_vars PROVE Shape'
  OBVIOUS
<1> DEFINE Phase == Ended \cup {"has", "lstat", "open", "reading", "create",
                                "writing", "delete", "rm"}
<1>1. TypeOK /\ Chunks \in Nat \ {0}
  BY ConstantsOK DEF Shape, ConstantsOK
<1>2. ASSUME NEW w \in Worker, Has(w)
      PROVE  Shape'
  <2>1. (name # Absent /\ TrustsPresent(w)) \in BOOLEAN
    OBVIOUS
  <2>2. gate' \in [Worker -> BOOLEAN]
    BY <1>1, <1>2, <2>1 DEF Has, TypeOK
  <2>3. Goto(w, "create") \/ Goto(w, "lstat")
    BY <1>2 DEF Has
  <2>4. QED
    BY <1>1, <1>2, <2>2, <2>3 DEF Has, Shape, TypeOK, Goto
<1>3. ASSUME NEW w \in Worker, Lstat(w)
      PROVE  Shape'
  <2>1. CASE name = Absent
    <3>1. Decide(w, "missing") /\ UNCHANGED size
      BY <1>3, <2>1 DEF Lstat
    <3>2. QED
      BY <1>1, <1>3, <3>1, DecideTypes DEF Lstat, Shape, TypeOK
  <2>2. CASE name # Absent
    <3>1. size' = [size EXCEPT ![w] = Length(name)] /\ Goto(w, "open") /\ UNCHANGED gate
      BY <1>3, <2>2 DEF Lstat
    <3>2. size' \in [Worker -> 0..Chunks]
      BY <1>1, <3>1, LengthBound DEF TypeOK
    <3>3. QED
      BY <1>1, <1>3, <3>1, <3>2 DEF Lstat, Shape, TypeOK, Goto
  <2>3. QED
    BY <2>1, <2>2
<1>4. ASSUME NEW w \in Worker, OpenToRead(w)
      PROVE  Shape'
  <2>1. CASE name = Absent
    <3>1. (Goto(w, "failed") /\ UNCHANGED gate) \/ Decide(w, "unverified")
      BY <1>4, <2>1 DEF OpenToRead
    <3>2. /\ pc' \in [Worker -> Phase] /\ gate' \in [Worker -> BOOLEAN]
          /\ pc'[w] # "writing"
          /\ \A v \in Worker \ {w} : pc'[v] = pc[v]
      BY <1>1, <3>1, DecideTypes DEF TypeOK, Goto
    <3>3. UNCHANGED <<name, data, fd, at, size, good, disturbed>>
      BY <1>4, <2>1 DEF OpenToRead
    <3>4. QED
      BY <1>1, <3>2, <3>3 DEF Shape, TypeOK
  <2>2. CASE name # Absent
    <3>1. /\ fd' = [fd EXCEPT ![w] = name] /\ at' = [at EXCEPT ![w] = 1]
          /\ good' = [good EXCEPT ![w] = TRUE]
          /\ Goto(w, "reading") /\ UNCHANGED gate
          /\ UNCHANGED <<name, data, size, disturbed>>
      BY <1>4, <2>2 DEF OpenToRead
    <3>2. QED
      BY <1>1, <2>2, <3>1 DEF Shape, TypeOK, Goto
  <2>3. QED
    BY <2>1, <2>2
<1>5. ASSUME NEW w \in Worker, Read(w)
      PROVE  Shape'
  <2>1. at[w] + 1 \in 1..(Chunks + 1)
    BY <1>1, <1>5, LengthBound DEF Read, TypeOK
  <2>2. (good[w] /\ at[w] \in data[fd[w]]) \in BOOLEAN
    OBVIOUS
  <2>3. at' \in [Worker -> 1..(Chunks + 1)] /\ good' \in [Worker -> BOOLEAN]
    BY <1>1, <1>5, <2>1, <2>2 DEF Read, TypeOK
  <2>4. QED
    BY <1>1, <1>5, <2>3 DEF Read, Shape, TypeOK
<1>6. ASSUME NEW w \in Worker, ReadEnd(w)
      PROVE  Shape'
  <2>1. (Goto(w, "done") /\ UNCHANGED gate) \/ Decide(w, Verdict(w))
    BY <1>6 DEF ReadEnd
  <2>2. /\ pc' \in [Worker -> Phase] /\ gate' \in [Worker -> BOOLEAN]
        /\ pc'[w] # "writing"
        /\ \A v \in Worker \ {w} : pc'[v] = pc[v]
    BY <1>1, <2>1, DecideTypes DEF TypeOK, Goto
  <2>3. QED
    BY <1>1, <1>6, <2>2 DEF ReadEnd, Shape, TypeOK
<1>7. ASSUME NEW w \in Worker, Create(w)
      PROVE  Shape'
  <2>1. PICK i \in Inode : /\ name' = i /\ data' = [data EXCEPT ![i] = {}]
                           /\ fd' = [fd EXCEPT ![w] = i]
    BY <1>1, <1>7 DEF Create, TypeOK
  <2>2. /\ data' \in [Inode -> SUBSET Piece]
        /\ fd' \in [Worker -> Inode]
    BY <1>1, <2>1 DEF TypeOK
  <2>3. disturbed' \in [Worker -> BOOLEAN]
    BY <1>7, DisturbTypes DEF Create
  <2>4. QED
    BY <1>1, <1>7, <2>1, <2>2, <2>3 DEF Create, Shape, TypeOK, Goto
<1>8. ASSUME NEW w \in Worker, Write(w)
      PROVE  Shape'
  <2>1. at[w] \in Piece
    BY <1>1, <1>8 DEF Write, Shape, TypeOK
  <2>2. data' \in [Inode -> SUBSET Piece]
    BY <1>1, <1>8, <2>1 DEF Write, TypeOK
  <2>3. disturbed' \in [Worker -> BOOLEAN]
    BY <1>8, DisturbTypes DEF Write
  <2>4. gate' \in [Worker -> BOOLEAN] /\ at' \in [Worker -> 1..(Chunks + 1)]
    BY <1>1, <1>8, <2>1 DEF Write, TypeOK, LastPiece
  <2>5. /\ pc' \in [Worker -> Phase]
        /\ pc'[w] = "writing" => at'[w] <= Chunks
        /\ \A v \in Worker \ {w} : pc'[v] = pc[v] /\ at'[v] = at[v]
    BY <1>1, <1>8, <2>1 DEF Write, TypeOK, LastPiece, Goto
  <2>6. QED
    BY <1>1, <1>8, <2>2, <2>3, <2>4, <2>5 DEF Write, Shape, TypeOK
<1>9. ASSUME NEW w \in Worker, Delete(w)
      PROVE  Shape'
  BY <1>1, <1>9 DEF Delete, Shape, TypeOK, Goto
<1>10. ASSUME NEW w \in Worker, Rm(w)
       PROVE  Shape'
  <2>1. disturbed' \in [Worker -> BOOLEAN]
    BY <1>10, DisturbTypes DEF Rm
  <2>2. QED
    BY <1>1, <1>10, <2>1 DEF Rm, Shape, TypeOK, Goto
<1>11. ASSUME NEW w \in Worker, Die(w)
       PROVE  Shape'
  BY <1>1, <1>11 DEF Die, Shape, TypeOK, Goto
<1>12. CASE UNCHANGED vars
  BY <1>12 DEF Shape, TypeOK, vars
<1>13. QED
  BY <1>2, <1>3, <1>4, <1>5, <1>6, <1>7, <1>8, <1>9, <1>10, <1>11, <1>12
  DEF Next, Step

\* Every variable keeps its shape: a verification never reads, and a put never
\* writes, past the end of the blob.
THEOREM TypeCorrect == Spec => []TypeOK
<1>1. Shape => TypeOK
  BY DEF Shape
<1>2. QED
  BY <1>1, ShapeInit, ShapeStep, PTL DEF Spec

-----------------------------------------------------------------------------
(* Healing.                                                                *)

LEMMA HealInit == Init => HealInv
<1> SUFFICES ASSUME Init PROVE HealInv
  OBVIOUS
<1>1. \A w \in Worker : pc[w] \in {"has", "create", "open", "delete"} /\
                        (pc[w] = "delete" => Kind[w] = "sweep")
  <2>1. \A w \in Worker : Kind[w] \in Kinds /\ pc[w] = Start[Kind[w]]
    BY ConstantsOK DEF Init, ConstantsOK
  <2>2. QED
    BY <2>1 DEF Start
<1>2. QED
  BY <1>1, ShapeInit DEF HealInv, Faithful

\* A step that changes neither the file nor who writes it.
LEMMA BystanderHeals ==
    ASSUME Healing, UNCHANGED <<name, data>>,
           \A v \in Worker : pc[v] = "writing" => pc'[v] = pc[v] /\ at'[v] = at[v]
    PROVE  Healing'
<1>1. ASSUME NEW q \in Piece, q \notin data'[name']
      PROVE  \E v \in Worker : pc'[v] = "writing" /\ at'[v] <= q
  <2>1. PICK v \in Worker : pc[v] = "writing" /\ at[v] <= q
    BY <1>1 DEF Healing
  <2>2. QED
    BY <2>1
<1>2. QED
  BY <1>1 DEF Healing

LEMMA CreateHeals ==
    ASSUME HealInv, NEW w \in Worker, Create(w)
    PROVE  HealInv'
<1>1. Shape /\ TypeOK /\ Chunks \in Nat
  BY ConstantsOK DEF HealInv, Shape, ConstantsOK
<1>2. Shape'
  BY <1>1, ShapeStep DEF Next, Step
<1>3. PICK i \in Inode : /\ i = (IF name = Absent THEN w ELSE name)
                         /\ name' = i /\ fd' = [fd EXCEPT ![w] = i]
  BY <1>1 DEF Create, TypeOK
<1>4. i # Absent
  BY ConstantsOK DEF ConstantsOK
<1>5. /\ pc'[w] = "writing" /\ at'[w] = 1
      /\ \A v \in Worker \ {w} : pc'[v] = pc[v] /\ fd'[v] = fd[v]
      /\ fd'[w] = i
  BY <1>1, <1>3 DEF Create, TypeOK, Goto
<1>6. Healing'
  BY <1>3, <1>4, <1>5 DEF Healing
<1>7. \A v \in Worker : pc'[v] \in {"reading", "writing"} => fd'[v] = name'
  BY <1>3, <1>5 DEF HealInv
<1>8. QED
  BY <1>2, <1>3, <1>4, <1>5, <1>6, <1>7 DEF HealInv

LEMMA WriteHeals ==
    ASSUME HealInv, NEW w \in Worker, Write(w)
    PROVE  HealInv'
<1>1. Shape /\ TypeOK /\ Chunks \in Nat
  BY ConstantsOK DEF HealInv, Shape, ConstantsOK
<1>2. Shape'
  BY <1>1, ShapeStep DEF Next, Step
<1>3. /\ pc[w] = "writing" /\ name # Absent /\ fd[w] = name /\ name' = name
      /\ fd' = fd /\ name \in Inode /\ at[w] \in Piece /\ good' = good
  BY <1>1 DEF Write, HealInv, Shape, TypeOK
<1>4. data'[name'] = data[name] \cup {at[w]}
  BY <1>1, <1>3 DEF Write, TypeOK
<1>5. /\ \A v \in Worker \ {w} : pc'[v] = pc[v] /\ at'[v] = at[v]
      /\ at[w] < Chunks => pc'[w] = "writing" /\ at'[w] = at[w] + 1
      /\ pc'[w] \in {"writing", "done", "lstat"}
  BY <1>1, <1>3 DEF Write, TypeOK, Goto, LastPiece
<1>6. Healing => Healing'
  <2>1. SUFFICES ASSUME Healing, NEW q \in Piece, q \notin data'[name']
                 PROVE  \E v \in Worker : pc'[v] = "writing" /\ at'[v] <= q
    BY <1>3 DEF Healing
  <2>2. PICK v \in Worker : pc[v] = "writing" /\ at[v] <= q
    BY <1>4, <2>1 DEF Healing
  <2>3. q # at[w]
    BY <1>4, <2>1
  <2>4. CASE v = w
    <3>1. at[w] < q /\ q <= Chunks /\ q \in Int
      BY <1>1, <1>3, <2>2, <2>3, <2>4
    <3>2. pc'[w] = "writing" /\ at'[w] <= q
      BY <1>3, <1>5, <3>1, <1>1
    <3>3. QED
      BY <3>2
  <2>5. CASE v # w
    BY <1>5, <2>2, <2>5
  <2>6. QED
    BY <2>4, <2>5
<1>7. Faithful => Faithful'
  <2>1. \A v \in Worker : pc'[v] = "reading" =>
          v # w /\ pc[v] = "reading" /\ at'[v] = at[v]
    BY <1>5
  <2>2. QED
    BY <1>3, <1>4, <2>1 DEF Faithful
<1>8. \A v \in Worker : pc'[v] \in {"reading", "writing", "delete", "rm", "committed"}
        => pc[v] = pc'[v]
  BY <1>3, <1>5
<1>9. QED
  BY <1>2, <1>3, <1>6, <1>7, <1>8 DEF HealInv

\* What a step that leaves the file alone must see to.
LEMMA LookingHeals ==
    ASSUME HealInv, Shape', NEW w \in Worker, UNCHANGED <<name, data>>,
           pc[w] # "writing", pc'[w] # "writing",
           pc'[w] = "delete" => pc[w] = "delete",
           pc'[w] = "rm" => Kind[w] = "sweep",
           pc'[w] = "reading" => name # Absent /\ fd'[w] = name,
           pc'[w] = "committed" => Healing,
           Faithful => Faithful',
           \A v \in Worker \ {w} : pc'[v] = pc[v] /\ at'[v] = at[v] /\ fd'[v] = fd[v]
    PROVE  HealInv'
<1>1. Healing => Healing'
  BY BystanderHeals
<1>2. (\E v \in Worker : pc'[v] = "committed") => Healing'
  BY <1>1 DEF HealInv
<1>3. \A v \in Worker : pc'[v] \in {"reading", "writing"} =>
        name' # Absent /\ fd'[v] = name'
  BY DEF HealInv
<1>4. \A v \in Worker : pc'[v] \in {"delete", "rm"} => Kind[v] = "sweep"
  BY DEF HealInv
<1>5. QED
  BY <1>1, <1>2, <1>3, <1>4 DEF HealInv

LEMMA LookHeals ==
    ASSUME HealInv, NEW w \in Worker, Has(w) \/ Lstat(w) \/ Delete(w)
    PROVE  HealInv'
<1>1. Shape /\ TypeOK
  BY DEF HealInv, Shape
<1>2. Shape'
  BY <1>1, ShapeStep DEF Next, Step
<1>3. /\ UNCHANGED <<name, data, fd, at, good>>
      /\ pc[w] \in {"has", "lstat", "delete"}
  BY DEF Has, Lstat, Delete
<1>4. /\ pc'[w] \in {"create", "lstat", "failed", "open", "done", "rm"}
      /\ pc'[w] = "rm" => pc[w] = "delete"
      /\ \A v \in Worker \ {w} : pc'[v] = pc[v]
  <2>1. CASE Has(w)
    BY <1>1, <2>1 DEF Has, Goto, TypeOK
  <2>2. CASE Lstat(w)
    BY <1>1, <2>2 DEF Lstat, Decide, Goto, TypeOK
  <2>3. CASE Delete(w)
    BY <1>1, <2>3 DEF Delete, Goto, TypeOK
  <2>4. QED
    BY <2>1, <2>2, <2>3
<1>5. Faithful => Faithful'
  BY <1>3, <1>4 DEF Faithful
<1>6. pc'[w] = "rm" => Kind[w] = "sweep"
  BY <1>4 DEF HealInv
<1>7. QED
  BY <1>2, <1>3, <1>4, <1>5, <1>6, LookingHeals

LEMMA OpenHeals ==
    ASSUME HealInv, NEW w \in Worker, OpenToRead(w)
    PROVE  HealInv'
<1>1. Shape /\ TypeOK
  BY DEF HealInv, Shape
<1>2. Shape'
  BY <1>1, ShapeStep DEF Next, Step
<1>3. UNCHANGED <<name, data>> /\ pc[w] = "open"
  BY DEF OpenToRead
<1>4. CASE name = Absent
  <2>1. /\ Goto(w, "failed") \/ Decide(w, "unverified")
        /\ UNCHANGED <<fd, at, good>>
    BY <1>4 DEF OpenToRead
  <2>2. pc'[w] = "failed" /\ \A v \in Worker \ {w} : pc'[v] = pc[v]
    BY <1>1, <2>1 DEF Decide, Goto, TypeOK
  <2>3. Faithful => Faithful'
    BY <1>3, <2>1, <2>2 DEF Faithful
  <2>4. QED
    BY <1>2, <1>3, <2>1, <2>2, <2>3, LookingHeals
<1>5. CASE name # Absent
  <2>1. /\ pc'[w] = "reading" /\ fd'[w] = name /\ at'[w] = 1
        /\ \A v \in Worker \ {w} : /\ pc'[v] = pc[v] /\ at'[v] = at[v]
                                   /\ fd'[v] = fd[v] /\ good'[v] = good[v]
    BY <1>1, <1>5 DEF OpenToRead, Goto, TypeOK
  <2>2. Faithful => Faithful'
    <3>1. \A q \in Piece : ~(q < 1)
      BY ConstantsOK DEF ConstantsOK
    <3>2. QED
      BY <1>3, <2>1, <3>1 DEF Faithful
  <2>3. QED
    BY <1>2, <1>3, <1>5, <2>1, <2>2, LookingHeals
<1>6. QED
  BY <1>4, <1>5

LEMMA ReadHeals ==
    ASSUME HealInv, NEW w \in Worker, Read(w)
    PROVE  HealInv'
<1>1. Shape /\ TypeOK /\ Chunks \in Nat
  BY ConstantsOK DEF HealInv, Shape, ConstantsOK
<1>2. Shape'
  BY <1>1, ShapeStep DEF Next, Step
<1>3. /\ UNCHANGED <<name, data, pc, fd>> /\ pc[w] = "reading"
      /\ at' = [at EXCEPT ![w] = at[w] + 1]
      /\ good' = [good EXCEPT ![w] = good[w] /\ at[w] \in data[fd[w]]]
  BY DEF Read
<1>4. fd[w] = name /\ name # Absent
  BY <1>3 DEF HealInv
<1>5. /\ \A v \in Worker \ {w} : at'[v] = at[v] /\ good'[v] = good[v]
      /\ at'[w] = at[w] + 1
      /\ good'[w] => good[w] /\ at[w] \in data[name]
  BY <1>1, <1>3, <1>4 DEF TypeOK
<1>6. Faithful => Faithful'
  <2>1. \A q \in Piece : q < at[w] + 1 => q < at[w] \/ q = at[w]
    BY <1>1 DEF TypeOK
  <2>2. QED
    BY <1>3, <1>5, <2>1 DEF Faithful
<1>7. QED
  BY <1>2, <1>3, <1>4, <1>5, <1>6, LookingHeals

LEMMA ReadEndHeals ==
    ASSUME HealInv, NEW w \in Worker, ReadEnd(w)
    PROVE  HealInv'
<1>1. Shape /\ TypeOK /\ Chunks \in Nat \ {0}
  BY ConstantsOK DEF HealInv, Shape, ConstantsOK
<1>2. Shape'
  BY <1>1, ShapeStep DEF Next, Step
<1>3. /\ UNCHANGED <<name, data, fd, at, good>> /\ pc[w] = "reading"
      /\ Goto(w, "done") \/ Decide(w, Verdict(w))
  BY DEF ReadEnd
<1>4. /\ pc'[w] \in {"done", "committed", "lstat", "create", "failed"}
      /\ pc'[w] = "committed" => Verdict(w) = "ok"
      /\ \A v \in Worker \ {w} : pc'[v] = pc[v]
  BY <1>1, <1>3 DEF Decide, Goto, TypeOK
<1>5. Verdict(w) = "ok" => good[w] /\ at[w] = Chunks + 1
  BY <1>1 DEF Verdict, TypeOK
<1>6. Verdict(w) = "ok" => Healing
  <2>1. SUFFICES ASSUME Verdict(w) = "ok", Faithful
                 PROVE  Healing
    BY DEF HealInv
  <2>2. \A q \in Piece : q \in data[name]
    BY <1>1, <1>3, <1>5, <2>1 DEF Faithful
  <2>3. QED
    BY <1>3, <2>2 DEF Healing, HealInv
<1>7. Faithful => Faithful'
  BY <1>3, <1>4 DEF Faithful
<1>8. QED
  BY <1>2, <1>3, <1>4, <1>6, <1>7, LookingHeals

\* What every step does to where its process is: none moves another's, none
\* revives what has ended, and only a collector comes to delete.
LEMMA StepMoves ==
    ASSUME Shape, NEW w \in Worker, Step(w) \/ Die(w)
    PROVE  /\ pc[w] \notin Ended /\ pc'[w] # "delete"
           /\ pc'[w] = "rm" => pc[w] = "delete"
           /\ \A v \in Worker \ {w} : pc'[v] = pc[v]
<1>1. TypeOK
  BY DEF Shape
<1>2. CASE Has(w) \/ Delete(w) \/ Rm(w) \/ Create(w) \/ Write(w) \/ Die(w)
  BY <1>1, <1>2 DEF Has, Delete, Rm, Create, Write, Die, Goto, TypeOK
<1>3. CASE Read(w)
  BY <1>3 DEF Read
<1>4. CASE Lstat(w) \/ OpenToRead(w) \/ ReadEnd(w)
  <2>1. /\ pc[w] \in {"lstat", "open", "reading"}
        /\ \E p \in {"committed", "lstat", "create", "failed", "open", "reading", "done"} :
             Goto(w, p)
    BY <1>4 DEF Lstat, OpenToRead, ReadEnd, Decide
  <2>2. QED
    BY <1>1, <2>1 DEF Goto, TypeOK
<1>5. QED
  BY <1>2, <1>3, <1>4 DEF Step

LEMMA CalmStep == CalmInv /\ [Next]_vars => CalmInv'
<1> SUFFICES ASSUME CalmInv, [Next]_vars PROVE CalmInv'
  OBVIOUS
<1>1. Shape'
  BY ShapeStep DEF CalmInv
<1>2. ASSUME NEW w \in Worker, Step(w) \/ Die(w)
      PROVE  CalmInv'
  <2>1. /\ pc[w] \notin Ended /\ pc'[w] # "delete"
        /\ pc'[w] = "rm" => pc[w] = "delete"
        /\ \A v \in Worker \ {w} : pc'[v] = pc[v]
    BY <1>2, StepMoves DEF CalmInv
  <2>2. \A v \in Worker : pc'[v] \in {"delete", "rm"} => Kind[v] = "sweep"
    BY <2>1 DEF CalmInv
  <2>3. ASSUME Calm' PROVE HealInv'
    <3>1. Calm
      BY <2>1, <2>3 DEF Calm
    <3>2. HealInv /\ TypeOK
      BY <3>1 DEF CalmInv, Shape
    <3>3. ~Rm(w)
      BY <2>3, <3>2 DEF Rm, Goto, Calm, HealInv, TypeOK
    <3>4. ~Die(w)
      BY <2>3, <3>2 DEF Die, Goto, Calm, TypeOK
    <3>5. QED
      BY <1>2, <3>2, <3>3, <3>4, LookHeals, OpenHeals, ReadHeals, ReadEndHeals,
         CreateHeals, WriteHeals DEF Step
  <2>4. QED
    BY <1>1, <2>2, <2>3 DEF CalmInv
<1>3. CASE UNCHANGED vars
  BY <1>3 DEF CalmInv, Calm, HealInv, Shape, TypeOK, Healing, Faithful, vars
<1>4. QED
  BY <1>2, <1>3 DEF Next

\* While no process dies and nothing is swept, any number of publishers, importers
\* and replays leave a committed blob whole once none of them is writing.
THEOREM WritersRestore == Spec => []WholeWhenQuiet
<1>1. CalmInv => WholeWhenQuiet
  <2> SUFFICES ASSUME CalmInv, Calm, \E w \in Worker : pc[w] = "committed",
                      \A w \in Worker : pc[w] # "writing"
               PROVE  name # Absent /\ Whole(name)
    BY DEF WholeWhenQuiet
  <2>1. name # Absent /\ \A q \in Piece : q \in data[name]
    BY DEF CalmInv, HealInv, Healing
  <2>2. data[name] \in SUBSET Piece
    BY <2>1 DEF CalmInv, Shape, TypeOK
  <2>3. QED
    BY <2>1, <2>2 DEF Whole
<1>2. Init => CalmInv
  BY HealInit DEF CalmInv, HealInv
<1>3. QED
  BY <1>1, <1>2, CalmStep, PTL DEF Spec

-----------------------------------------------------------------------------
(* What a process that nobody disturbs sees.                               *)

\* From its first step on, the file is as it left it: a verification opens the
\* file it measured and what it read of it is still so, a put's file holds what it
\* has written, and a publisher past its first decision finds a whole blob.
Alone(w) ==
    /\ pc[w] \in {"open", "reading"} => name # Absent /\ size[w] = Length(name)
    /\ pc[w] = "reading" =>
         /\ fd[w] = name /\ at[w] <= Length(name) + 1
         /\ good[w] <=> \A q \in Piece : q < at[w] => q \in data[name]
    /\ pc[w] = "writing" =>
         /\ name # Absent /\ fd[w] = name
         /\ data[name] = {q \in Piece : q < at[w]}
    /\ Kind[w] = "publish" =>
         /\ pc[w] # "failed"
         /\ gate[w] /\ pc[w] \in {"lstat", "open", "reading"} =>
              name # Absent /\ Whole(name)

Undisturbed == \A w \in Worker : ~disturbed[w] /\ Kind[w] # "get" => Alone(w)

AloneInv == Shape /\ Undisturbed

LEMMA WholeLength == ASSUME NEW i, Whole(i) PROVE Length(i) = Chunks
<1>1. Cardinality(Piece) = Chunks
  BY ConstantsOK, FS_Interval DEF ConstantsOK
<1>2. {n \in Piece : \E m \in data[i] : n <= m} = Piece
  <2>1. \A n \in Piece : n <= n
    BY ConstantsOK DEF ConstantsOK
  <2>. QED
    BY <2>1 DEF Whole
<1>. QED
  BY <1>1, <1>2 DEF Length

\* A step is another process's only in what it does to the file.
LEMMA StepKeeps ==
    ASSUME Shape, NEW w \in Worker, Step(w) \/ Die(w), NEW v \in Worker \ {w}
    PROVE  /\ pc'[v] = pc[v] /\ gate'[v] = gate[v] /\ fd'[v] = fd[v]
           /\ at'[v] = at[v] /\ size'[v] = size[v] /\ good'[v] = good[v]
           /\ UNCHANGED <<name, data, disturbed>> \/ Disturb(w)
<1>1. TypeOK /\ pc'[v] = pc[v]
  BY StepMoves DEF Shape
<1>2. CASE Has(w) \/ Read(w) \/ Create(w) \/ Write(w) \/ Delete(w) \/ Rm(w) \/ Die(w)
  BY <1>1, <1>2 DEF Has, Read, Create, Write, Delete, Rm, Die, TypeOK
<1>3. \A o : Decide(w, o) => gate'[v] = gate[v]
  BY <1>1 DEF Decide, TypeOK
<1>4. CASE Lstat(w)
  BY <1>1, <1>3, <1>4 DEF Lstat, TypeOK
<1>5. CASE OpenToRead(w)
  BY <1>1, <1>3, <1>5 DEF OpenToRead, TypeOK
<1>6. CASE ReadEnd(w)
  BY <1>1, <1>3, <1>6 DEF ReadEnd, TypeOK
<1>. QED
  BY <1>2, <1>4, <1>5, <1>6 DEF Step

\* So a process it did not disturb is either not past its first step or sees the
\* file it saw before.
LEMMA OthersAlone ==
    ASSUME AloneInv, NEW w \in Worker, Step(w) \/ Die(w), NEW v \in Worker \ {w},
           ~disturbed'[v], Kind[v] # "get"
    PROVE  Alone(v)'
<1>1. /\ pc'[v] = pc[v] /\ gate'[v] = gate[v] /\ fd'[v] = fd[v]
      /\ at'[v] = at[v] /\ size'[v] = size[v] /\ good'[v] = good[v]
      /\ UNCHANGED <<name, data, disturbed>> \/ Disturb(w)
  BY StepKeeps DEF AloneInv
<1>2. CASE UNCHANGED <<name, data, disturbed>>
  BY <1>1, <1>2 DEF AloneInv, Undisturbed, Alone, Length, Whole
<1>3. CASE Disturb(w)
  <2>1. ~disturbed[v] /\ ~Running(v)
    BY <1>3 DEF Disturb
  <2>2. Kind[v] \in {"publish", "import", "replay", "sweep"}
    BY ConstantsOK DEF ConstantsOK
  <2>3. pc[v] \in Ended \cup {"has", "create", "delete"}
    BY <2>1, <2>2 DEF Running, Start
  <2>4. Kind[v] = "publish" => pc[v] # "failed"
    BY <2>1, <2>2 DEF AloneInv, Undisturbed, Alone
  <2>. QED
    BY <1>1, <2>3, <2>4 DEF Alone
<1>. QED
  BY <1>1, <1>2, <1>3

\* How a verification of an undisturbed process can end.
LEMMA DecideAlone ==
    ASSUME Shape, NEW w \in Worker, NEW o, Decide(w, o), UNCHANGED <<name, data>>,
           Kind[w] = "publish" =>
             /\ o # "unverified" /\ (o = "ok" => name # Absent /\ Whole(name))
             /\ gate[w] => o = "ok",
           o \in {"ok", "missing", "corrupt", "unverified"}
    PROVE  Alone(w)'
<1>1. TypeOK
  BY DEF Shape
<1>2. pc'[w] = IF o = "ok" THEN IF gate[w] THEN "committed" ELSE "lstat"
               ELSE IF ~gate[w] /\ o \in {"missing", "corrupt"} THEN "create"
               ELSE "failed"
  BY <1>1 DEF Decide, Goto, TypeOK
<1>3. gate'[w] => gate[w] \/ o = "ok"
  BY <1>1 DEF Decide, TypeOK
<1>4. pc'[w] \notin {"open", "reading", "writing"}
  BY <1>2
<1>5. ASSUME Kind[w] = "publish"
      PROVE  /\ pc'[w] # "failed"
             /\ gate'[w] => name' # Absent /\ Whole(name)'
  <2>1. pc'[w] # "failed"
    BY <1>2, <1>5
  <2>2. gate'[w] => name # Absent /\ Whole(name)
    BY <1>3, <1>5
  <2>. QED
    BY <2>1, <2>2 DEF Whole
<1>. QED
  BY <1>4, <1>5 DEF Alone

LEMMA LookAlone ==
    ASSUME AloneInv, NEW w \in Worker, ~disturbed[w], Kind[w] # "get",
           Has(w) \/ Lstat(w) \/ Delete(w) \/ Die(w)
    PROVE  Alone(w)'
<1>1. TypeOK /\ Shape /\ Alone(w)
  BY DEF AloneInv, Undisturbed, Shape
<1>2. CASE Has(w)
  <2>1. pc'[w] \in {"create", "lstat"}
        /\ (gate'[w] => Kind[w] = "import")
    BY <1>1, <1>2 DEF Has, Goto, TypeOK, TrustsPresent
  <2>. QED
    BY <2>1 DEF Alone
<1>3. CASE Lstat(w)
  <2>1. pc[w] = "lstat" /\ UNCHANGED <<name, data>>
    BY <1>3 DEF Lstat
  <2>2. CASE name = Absent
    <3>1. Decide(w, "missing")
      BY <1>3, <2>2 DEF Lstat
    <3>2. Kind[w] = "publish" => ~gate[w]
      BY <1>1, <2>1, <2>2 DEF Alone
    <3>. QED
      BY <1>1, <2>1, <3>1, <3>2, DecideAlone
  <2>3. CASE name # Absent
    <3>1. pc'[w] = "open" /\ size'[w] = Length(name) /\ gate' = gate
      BY <1>1, <1>3, <2>3 DEF Lstat, Goto, TypeOK
    <3>. QED
      BY <1>1, <2>1, <2>3, <3>1 DEF Alone, Length, Whole
  <2>. QED
    BY <2>2, <2>3
<1>4. CASE Delete(w) \/ Die(w)
  <2>1. pc'[w] \in {"done", "rm", "dead"}
    BY <1>1, <1>4 DEF Delete, Die, Goto, TypeOK
  <2>. QED
    BY <2>1 DEF Alone
<1>. QED
  BY <1>2, <1>3, <1>4

LEMMA OpenAlone ==
    ASSUME AloneInv, NEW w \in Worker, ~disturbed[w], Kind[w] # "get", OpenToRead(w)
    PROVE  Alone(w)'
<1>1. TypeOK /\ Alone(w)
  BY DEF AloneInv, Undisturbed, Shape
<1>2. /\ pc[w] = "open" /\ name # Absent /\ size[w] = Length(name)
      /\ UNCHANGED <<name, data, size, gate>>
  BY <1>1 DEF OpenToRead, Alone
<1>3. pc'[w] = "reading" /\ fd'[w] = name /\ at'[w] = 1 /\ good'[w] = TRUE
  BY <1>1, <1>2 DEF OpenToRead, Goto, TypeOK
<1>4. 1 <= Length(name) + 1 /\ \A q \in Piece : ~(q < 1)
  BY LengthBound, ConstantsOK DEF ConstantsOK
<1>. QED
  BY <1>1, <1>2, <1>3, <1>4 DEF Alone, Length, Whole

LEMMA ReadAlone ==
    ASSUME AloneInv, NEW w \in Worker, ~disturbed[w], Kind[w] # "get", Read(w)
    PROVE  Alone(w)'
<1>1. TypeOK /\ Alone(w) /\ Chunks \in Nat
  BY ConstantsOK DEF AloneInv, Undisturbed, Shape, ConstantsOK
<1>2. /\ pc[w] = "reading" /\ fd[w] = name /\ at[w] <= Length(name)
      /\ UNCHANGED <<name, data, size, gate, pc, fd>>
  BY <1>1 DEF Read, Alone
<1>3. at'[w] = at[w] + 1 /\ (good'[w] <=> good[w] /\ at[w] \in data[name])
  BY <1>1, <1>2 DEF Read, TypeOK
<1>4. at[w] \in Piece /\ at[w] + 1 <= Length(name) + 1
      /\ \A q \in Piece : q < at[w] + 1 <=> q < at[w] \/ q = at[w]
  BY <1>1, <1>2, LengthBound DEF TypeOK
<1>5. good'[w] <=> \A q \in Piece : q < at'[w] => q \in data[name]
  BY <1>1, <1>2, <1>3, <1>4 DEF Alone
<1>. QED
  BY <1>1, <1>2, <1>3, <1>4, <1>5 DEF Alone, Length, Whole

\* An undisturbed verification measures what it reads, so it ends with a verdict,
\* and the verdict is right.
LEMMA VerdictAlone ==
    ASSUME AloneInv, NEW w \in Worker, ~disturbed[w], Kind[w] # "get", ReadEnd(w)
    PROVE  /\ name # Absent /\ Verdict(w) \in {"ok", "corrupt"}
           /\ Verdict(w) = "ok" <=> Whole(name)
<1>1. TypeOK /\ Alone(w) /\ Chunks \in Nat
  BY ConstantsOK DEF AloneInv, Undisturbed, Shape, ConstantsOK
<1>2. /\ pc[w] = "reading" /\ fd[w] = name /\ at[w] > Length(name)
      /\ name # Absent /\ size[w] = Length(name) /\ at[w] <= Length(name) + 1
      /\ good[w] <=> \A q \in Piece : q < at[w] => q \in data[name]
  BY <1>1 DEF ReadEnd, Alone
<1>3. at[w] - 1 = size[w] /\ at[w] = Length(name) + 1
  BY <1>1, <1>2, LengthBound DEF TypeOK
<1>4. Verdict(w) \in {"ok", "corrupt"}
      /\ (Verdict(w) = "ok" <=> good[w] /\ at[w] - 1 = Chunks)
  BY <1>3 DEF Verdict
<1>5. data[name] \in SUBSET Piece
  BY <1>1, <1>2 DEF TypeOK
<1>6. good[w] /\ at[w] - 1 = Chunks => Whole(name)
  <2>1. at[w] - 1 = Chunks => \A q \in Piece : q < at[w]
    BY <1>1 DEF TypeOK
  <2>. QED
    BY <1>2, <1>5, <2>1 DEF Whole
<1>7. Whole(name) => good[w] /\ at[w] - 1 = Chunks
  <2>1. Whole(name) => at[w] - 1 = Chunks
    BY <1>1, <1>3, WholeLength
  <2>. QED
    BY <1>2, <2>1 DEF Whole
<1>. QED
  BY <1>2, <1>4, <1>6, <1>7

LEMMA ReadEndAlone ==
    ASSUME AloneInv, NEW w \in Worker, ~disturbed[w], Kind[w] # "get", ReadEnd(w)
    PROVE  Alone(w)'
<1>1. Shape /\ Alone(w) /\ pc[w] = "reading" /\ UNCHANGED <<name, data>>
      /\ Decide(w, Verdict(w))
  BY DEF AloneInv, Undisturbed, ReadEnd
<1>2. Kind[w] = "publish" /\ gate[w] => Whole(name)
  BY <1>1 DEF Alone
<1>. QED
  BY <1>1, <1>2, VerdictAlone, DecideAlone

LEMMA PutAlone ==
    ASSUME AloneInv, NEW w \in Worker, ~disturbed[w], Kind[w] # "get",
           Create(w) \/ Write(w) \/ Rm(w)
    PROVE  Alone(w)'
<1>1. TypeOK /\ Alone(w) /\ Chunks \in Nat \ {0}
  BY ConstantsOK DEF AloneInv, Undisturbed, Shape, ConstantsOK
<1>2. CASE Create(w)
  <2>1. PICK i \in Inode : /\ name' = i /\ data' = [data EXCEPT ![i] = {}]
                           /\ fd' = [fd EXCEPT ![w] = i]
    BY <1>1, <1>2 DEF Create, TypeOK
  <2>2. i # Absent /\ \A q \in Piece : ~(q < 1)
    BY ConstantsOK DEF ConstantsOK
  <2>3. pc'[w] = "writing" /\ fd'[w] = i /\ at'[w] = 1 /\ data'[i] = {}
    BY <1>1, <1>2, <2>1 DEF Create, Goto, TypeOK
  <2>4. data'[name'] = {q \in Piece : q < at'[w]}
    BY <2>1, <2>2, <2>3
  <2>. QED
    BY <2>1, <2>2, <2>3, <2>4 DEF Alone
<1>3. CASE Write(w)
  <2>1. /\ pc[w] = "writing" /\ name # Absent /\ fd[w] = name /\ name' = name
        /\ fd' = fd /\ data[name] = {q \in Piece : q < at[w]}
        /\ name \in Inode /\ at[w] \in Piece
    BY <1>1, <1>3 DEF Write, Alone, AloneInv, Shape, TypeOK
  <2>2. at'[w] = at[w] + 1 /\ data'[name] = data[name] \cup {at[w]}
        /\ gate'[w] = (at[w] = Chunks)
        /\ pc'[w] \in IF at[w] # Chunks THEN {"writing"} ELSE {"done", "lstat"}
    BY <1>1, <1>3, <2>1 DEF Write, LastPiece, Goto, TypeOK
  <2>3. \A q \in Piece : q < at[w] + 1 <=> q < at[w] \/ q = at[w]
    BY <1>1, <2>1
  <2>4. data'[name] = {q \in Piece : q < at'[w]}
    BY <2>1, <2>2, <2>3
  <2>5. at[w] = Chunks => data'[name] = Piece
    <3>1. at[w] = Chunks => \A q \in Piece : q < at[w] + 1
      BY <1>1
    <3>. QED
      BY <2>2, <2>4, <3>1
  <2>6. CASE at[w] # Chunks
    BY <2>1, <2>2, <2>4, <2>6 DEF Alone
  <2>7. CASE at[w] = Chunks
    BY <2>1, <2>2, <2>5, <2>7 DEF Alone, Whole
  <2>. QED
    BY <2>6, <2>7
<1>4. CASE Rm(w)
  <2>1. pc'[w] = "done"
    BY <1>1, <1>4 DEF Rm, Goto, TypeOK
  <2>. QED
    BY <2>1 DEF Alone
<1>. QED
  BY <1>2, <1>3, <1>4

LEMMA AloneInductive ==
    /\ Init => AloneInv
    /\ AloneInv /\ [Next]_vars => AloneInv'
<1>1. Init => AloneInv
  <2>. SUFFICES ASSUME Init PROVE Undisturbed
    BY ShapeInit DEF AloneInv
  <2>1. \A w \in Worker : Kind[w] \in Kinds /\ pc[w] = Start[Kind[w]] /\ ~gate[w]
    BY ConstantsOK DEF Init, ConstantsOK
  <2>2. \A w \in Worker : Kind[w] # "get" => pc[w] \in {"has", "create", "delete"}
    BY <2>1 DEF Start
  <2>. QED
    BY <2>1, <2>2 DEF Undisturbed, Alone
<1>2. AloneInv /\ [Next]_vars => AloneInv'
  <2>. SUFFICES ASSUME AloneInv, [Next]_vars PROVE AloneInv'
    OBVIOUS
  <2>1. Shape'
    BY ShapeStep DEF AloneInv
  <2>2. CASE UNCHANGED vars
    BY <2>1, <2>2 DEF vars, AloneInv, Undisturbed, Alone, Length, Whole
  <2>3. ASSUME NEW w \in Worker, Step(w) \/ Die(w),
               NEW v \in Worker, ~disturbed'[v], Kind[v] # "get"
        PROVE  Alone(v)'
    <3>1. CASE v # w
      BY <2>3, <3>1, OthersAlone
    <3>2. CASE v = w
      <4>1. ~disturbed[w]
        <5>1. disturbed' = disturbed \/ Disturb(w)
          BY <2>3 DEF Step, Has, Lstat, OpenToRead, Read, ReadEnd, Create, Write,
                      Delete, Rm, Die
        <5>. QED
          BY <2>3, <3>2, <5>1 DEF Disturb
      <4>. QED
        BY <2>3, <3>2, <4>1, LookAlone, OpenAlone, ReadAlone, ReadEndAlone, PutAlone
        DEF Step
    <3>. QED
      BY <3>1, <3>2
  <2>4. CASE \E w \in Worker : Step(w) \/ Die(w)
    BY <2>1, <2>3, <2>4 DEF AloneInv, Undisturbed
  <2>. QED
    BY <2>2, <2>4 DEF Next
<1>. QED
  BY <1>1, <1>2

LEMMA AloneHolds == Spec => []AloneInv
  BY AloneInductive, PTL DEF Spec

\* A publish fails only when another process changed the file under it: one that is
\* left alone repairs whatever a put that died had left, and its gate accepts it.
THEOREM PublishRepairs == Spec => []FailureIsDisturbance
<1>1. AloneInv => FailureIsDisturbance
  BY DEF AloneInv, Undisturbed, Alone, FailureIsDisturbance
<1>. QED
  BY <1>1, AloneHolds, PTL

\* The gate of a commit that nobody disturbed has accepted a whole blob.
THEOREM GateIsSound == Spec => CommitIsSound
<1>1. AloneInv /\ [Next]_vars =>
        [\A w \in Worker :
           pc[w] # "committed" /\ pc'[w] = "committed" /\ ~disturbed[w]
           => name # Absent /\ Whole(name)]_vars
  <2>. SUFFICES ASSUME AloneInv, Next, NEW w \in Worker, pc[w] # "committed",
                       pc'[w] = "committed", ~disturbed[w]
                PROVE  name # Absent /\ Whole(name)
    OBVIOUS
  <2>1. TypeOK /\ Shape
    BY DEF AloneInv, Shape
  <2>2. PICK v \in Worker : Step(v) \/ Die(v)
    BY DEF Next
  <2>3. v = w
    BY <2>1, <2>2, StepMoves
  <2>4. ReadEnd(w) /\ Kind[w] # "get" /\ Verdict(w) = "ok"
    <3>1. ~Has(w) /\ ~Read(w) /\ ~Create(w) /\ ~Write(w) /\ ~Delete(w) /\ ~Rm(w)
          /\ ~Die(w)
      BY <2>1 DEF Has, Read, Create, Write, Delete, Rm, Die, Goto, TypeOK
    <3>2. \A o : o # "ok" => ~Decide(w, o)
      BY <2>1 DEF Decide, Goto, TypeOK
    <3>3. ~Goto(w, "failed") /\ ~Goto(w, "open") /\ ~Goto(w, "reading")
          /\ ~Goto(w, "done")
      BY <2>1 DEF Goto, TypeOK
    <3>4. ~Lstat(w) /\ ~OpenToRead(w)
      BY <3>2, <3>3 DEF Lstat, OpenToRead
    <3>5. ReadEnd(w)
      BY <2>2, <2>3, <3>1, <3>4 DEF Step
    <3>. QED
      BY <3>2, <3>3, <3>5 DEF ReadEnd
  <2>. QED
    BY <2>4, VerdictAlone
<1>. QED
  BY <1>1, AloneHolds, PTL DEF Spec, CommitIsSound

=============================================================================
