-------------------------- MODULE OciLayoutProofs --------------------------
(***************************************************************************)
(* Proofs about OciLayout, for every set of manifests, OCI manifests and   *)
(* directories that already exist, and any number of exports and reads.    *)
(*                                                                         *)
(* The exporter's part of the invariant says how much of the directory is  *)
(* in place after k - 1 writes, the one that is open excepted; the         *)
(* reader's part what the layers it has used are, and, once an export has  *)
(* completed, that they are those of the exported manifest in order.       *)
(***************************************************************************)
EXTENDS OciLayout, FiniteSetTheorems, TLAPS

DescriptorsLead == \A k \in DOMAIN index : index[k].type = "manifest" => index[k].image \in Image

LayoutTypes ==
    /\ LayoutTypeOK
    /\ index \notin {Absent, Torn} => DescriptorsLead
    /\ exp.job \in Exports \cup {None}
    /\ exp = [pc |-> exp.pc, job |-> exp.job, k |-> exp.k, was |-> exp.was]
    /\ rd = [pc |-> rd.pc, ref |-> rd.ref, image |-> rd.image, k |-> rd.k, used |-> rd.used,
             got |-> rd.got, due |-> rd.due]

\* The file an export of e writes at t holds what it is to hold.
InPlace(e, t) ==
    /\ t = "layout" => layout = "1.0.0"
    /\ t = "index" => index = <<Descriptor(e)>>
    /\ t \in Blob => disk[t] = "whole"

SizeFits(m, f) == Files[m][f].size = SizeOf[Files[m][f].digest]

Complete(e) ==
    /\ \A j \in DOMAIN Writes(e.manifest) : InPlace(e, Writes(e.manifest)[j])
    /\ \A f \in DOMAIN Files[e.manifest] : SizeFits(e.manifest, f)

\* What the writes before the k-th have done; the k-th is open in "fill".
Progress ==
    LET m == exp.job.manifest IN
      /\ exp.job \in Exports /\ exported = None
      /\ exp.k \in DOMAIN Writes(m)
      /\ \A j \in 1 .. exp.k - 1 : InPlace(exp.job, Writes(m)[j])
                                     \/ (exp.pc = "fill" /\ Writes(m)[j] = Target)
      /\ \A f \in DOMAIN Files[m] :
           f + 2 < exp.k \/ (exp.pc = "fill" /\ f + 2 = exp.k) => SizeFits(m, f)

ExportInv ==
    /\ exp.pc \in {"open", "fill"} => Progress
    /\ exp.pc = "done" <=> exported # None
    /\ exported # None => exported \in Exports /\ exported = exp.job /\ Complete(exported)
    /\ exp.job # None => index \in {exp.was, Torn} \/ exp.pc = "done"

\* Layer l can be the k-th file's.
Provides(l, k) ==
    LET file == Files[Content[rd.image].config][k] IN
      /\ Content[rd.image].layers[l].digest = file.digest
      /\ Content[rd.image].layers[l].path \in {file.path, None}

Reading ==
    LET m == Content[rd.image].config IN
      /\ m \in Manifest /\ PathsDistinct(rd.image)
      /\ rd.k \in 1 .. Len(Files[m]) + 1
      /\ IsFiniteSet(rd.used) /\ Cardinality(rd.used) = rd.k - 1
      /\ \A k \in 1 .. rd.k - 1 : \E l \in rd.used : Provides(l, k)
      /\ rd.pc = "read" => rd.k = Len(Files[m]) + 1

\* The read began after an export completed and asks for its ref.
Sure == rd.due # None /\ rd.due.ref = rd.ref

ReadInv ==
    /\ rd.due # None => rd.due = exported
    /\ rd.pc \in {"layout", "index", "image", "config"} => rd.k = 1 /\ rd.used = {}
    /\ rd.pc \in {"image", "config", "files", "read"} => rd.image \in Image
    /\ rd.pc \in {"files", "read"} => Reading
    /\ Sure =>
         /\ rd.pc # "failed"
         /\ rd.pc \in {"image", "config", "files", "read"} => rd.image = ImageOf(rd.due.manifest)
         /\ rd.pc \in {"files", "read"} => rd.used = 1 .. rd.k - 1

LayoutInv == LayoutTypes /\ ExportInv /\ ReadInv
-----------------------------------------------------------------------------
(***************************************************************************)
(* What is written                                                         *)
(***************************************************************************)
\* The writes of an export in their order: the layout file, the manifest, a body
\* for each entry, the OCI manifest, the index.
LEMMA WritesAre ==
  ASSUME NEW m \in Manifest
  PROVE  /\ Len(Files[m]) \in Nat /\ DOMAIN Files[m] = 1 .. Len(Files[m])
         /\ DOMAIN Writes(m) = 1 .. Len(Files[m]) + 4 /\ Len(Writes(m)) = Len(Files[m]) + 4
         /\ Writes(m)[1] = "layout" /\ Writes(m)[2] = m
         /\ \A k \in DOMAIN Files[m] : Writes(m)[k + 2] = Files[m][k].digest
         /\ Writes(m)[Len(Files[m]) + 3] = ImageOf(m)
         /\ Writes(m)[Len(Files[m]) + 4] = "index"
<1>1. /\ Len(Files[m]) \in Nat /\ DOMAIN Files[m] = 1 .. Len(Files[m])
      /\ \A k \in DOMAIN Files[m] : Files[m][k].digest \in Body
  BY LayoutConstantsOK DEF LayoutConstantsOK
<1> DEFINE n == Len(Files[m])
           mid == [k \in DOMAIN Files[m] |-> Files[m][k].digest]
           U == {"layout", "index", m, ImageOf(m)} \cup Body
<1>2. mid \in Seq(U) /\ Len(mid) = n /\ \A k \in 1 .. n : mid[k] = Files[m][k].digest
  <2>1. mid \in [1 .. n -> U]
    BY <1>1
  <2> QED BY <1>1, <2>1
<1>3. <<"layout", m>> \in Seq(U) /\ <<ImageOf(m), "index">> \in Seq(U)
  OBVIOUS
<1> HIDE DEF mid, U
<1> DEFINE head == <<"layout", m>> \o mid
<1>4. /\ head \in Seq(U) /\ Len(head) = n + 2 /\ head[1] = "layout" /\ head[2] = m
      /\ \A k \in 1 .. n : head[k + 2] = mid[k]
  BY <1>1, <1>2, <1>3
<1> HIDE DEF head
<1>5. Writes(m) = head \o <<ImageOf(m), "index">>
  BY DEF Writes, head, mid
<1>6. /\ Len(Writes(m)) = n + 4 /\ DOMAIN Writes(m) = 1 .. n + 4
      /\ \A k \in 1 .. n + 2 : Writes(m)[k] = head[k]
      /\ Writes(m)[n + 3] = ImageOf(m) /\ Writes(m)[n + 4] = "index"
  BY <1>1, <1>3, <1>4, <1>5
<1> QED BY <1>1, <1>2, <1>4, <1>6

\* An OCI manifest of that content is there to be written.
LEMMA ImagesAreBuilt ==
  ASSUME NEW e \in Exports
  PROVE  /\ e.manifest \in Manifest /\ e # None
         /\ ImageOf(e.manifest) \in Image /\ Content[ImageOf(e.manifest)] = Built(e.manifest)
<1>1. \E i \in Image : Content[i] = Built(e.manifest)
  BY ExportsHaveImages
<1> QED BY <1>1, LayoutConstantsOK DEF ImageOf, LayoutConstantsOK

\* Only the first write is of the layout file and only the last of the index.
LEMMA WritesDiffer ==
  ASSUME NEW e \in Exports, NEW k \in DOMAIN Writes(e.manifest)
  PROVE  /\ Writes(e.manifest)[k] \in Blob \cup {"layout", "index"}
         /\ Writes(e.manifest)[k] = "index" <=> k = Len(Writes(e.manifest))
         /\ k \in Nat /\ Len(Writes(e.manifest)) \in Nat /\ k >= 1
         /\ k <= Len(Writes(e.manifest)) /\ DOMAIN Writes(e.manifest) = 1 .. Len(Writes(e.manifest))
         /\ {"layout", "index"} \cap Blob = {}
<1> DEFINE m == e.manifest
           n == Len(Files[m])
<1>1. m \in Manifest /\ ImageOf(m) \in Image
  BY ImagesAreBuilt
<1>2. /\ {"layout", "index"} \cap Blob = {} /\ Manifest \cup Image \cup Body = Blob
      /\ \A f \in DOMAIN Files[m] : Files[m][f].digest \in Body
  BY <1>1, LayoutConstantsOK DEF LayoutConstantsOK, Blob
<1>3. PICK N : N = n
  OBVIOUS
<1>4. /\ N \in Nat /\ DOMAIN Files[m] = 1 .. N /\ DOMAIN Writes(m) = 1 .. N + 4
      /\ Len(Writes(m)) = N + 4 /\ Writes(m)[1] = "layout" /\ Writes(m)[2] = m
      /\ \A f \in DOMAIN Files[m] : Writes(m)[f + 2] = Files[m][f].digest
      /\ Writes(m)[N + 3] = ImageOf(m) /\ Writes(m)[N + 4] = "index"
  BY <1>1, <1>3, WritesAre
<1>5. k \in 1 .. N + 4
  BY <1>4
<1>6. CASE k \in {1, 2, N + 3, N + 4}
  BY <1>1, <1>2, <1>4, <1>6
<1>7. CASE k - 2 \in 1 .. N
  <2>1. Writes(m)[k] = Files[m][k - 2].digest
    <3>1. (k - 2) + 2 = k
      BY <1>5
    <3> QED BY <1>4, <1>7, <3>1
  <2> QED BY <1>2, <1>4, <1>5, <1>7, <2>1
<1> QED BY <1>4, <1>5, <1>6, <1>7

LEMMA Distinct == /\ Absent # Torn /\ {Absent, Torn} \cap {"whole", "1.0.0"} = {}
                  /\ None \notin Exports /\ None \notin Manifest
                  /\ \A e \in Exports : <<Descriptor(e)>> \notin {Absent, Torn}
  BY LayoutConstantsOK DEF LayoutConstantsOK

\* What a write does to the directory.
LEMMA PutDoes ==
  ASSUME NEW t, NEW v, t \in Blob \cup {"layout", "index"}, Put(t, v)
  PROVE  /\ t = "layout" => layout' = v /\ index' = index /\ disk' = disk
         /\ t = "index" => layout' = layout /\ index' = v /\ disk' = disk
         /\ t \in Blob => layout' = layout /\ index' = index /\ disk' = [disk EXCEPT ![t] = v]
<1>1. {"layout", "index"} \cap Blob = {}
  BY LayoutConstantsOK DEF LayoutConstantsOK
<1>2. CASE t = "layout"
  BY <1>1, <1>2 DEF Put
<1>3. CASE t = "index"
  BY <1>1, <1>3 DEF Put
<1>4. CASE t \in Blob
  BY <1>1, <1>4 DEF Put
<1> QED BY <1>2, <1>3, <1>4

-----------------------------------------------------------------------------
(***************************************************************************)
(* Types                                                                   *)
(***************************************************************************)
\* What a completed write is of.
LEMMA FillingIs ==
  ASSUME exp.job \in Exports, exp.k \in DOMAIN Writes(exp.job.manifest)
  PROVE  /\ Target \in Blob \cup {"layout", "index"}
         /\ Target = "layout" => Filling = "1.0.0"
         /\ Target = "index" => Filling = <<Descriptor(exp.job)>>
         /\ Target \in Blob => Filling = "whole"
<1>1. Target \in Blob \cup {"layout", "index"} /\ {"layout", "index"} \cap Blob = {}
  BY WritesDiffer DEF Target
<1>2. CASE Target = "layout"
  BY <1>1, <1>2 DEF Filling
<1>3. CASE Target = "index"
  BY <1>1, <1>3 DEF Filling
<1>4. CASE Target \in Blob
  BY <1>1, <1>4 DEF Filling
<1> QED BY <1>1, <1>2, <1>3, <1>4

LEMMA DirectoryTypes ==
  ASSUME LayoutTypes, exp.job \in Exports, exp.k \in DOMAIN Writes(exp.job.manifest),
         NEW v, v \in {Torn, Filling}, Put(Target, v)
  PROVE  /\ layout' \in {"1.0.0", "other", Absent, Torn} /\ disk' \in [Blob -> FileStates]
         /\ (index \notin {Absent, Torn} => DescriptorsLead)'
<1>1. /\ layout \in {"1.0.0", "other", Absent, Torn} /\ disk \in [Blob -> FileStates]
      /\ index \notin {Absent, Torn} => DescriptorsLead
  BY DEF LayoutTypes, LayoutTypeOK
<1>2. CASE Target = "layout"
  <2>1. v \in {Torn, "1.0.0"} /\ layout' = v /\ index' = index /\ disk' = disk
    BY <1>2, FillingIs, PutDoes
  <2> QED BY <1>1, <2>1 DEF DescriptorsLead
<1>3. CASE Target = "index"
  <2>1. v \in {Torn, <<Descriptor(exp.job)>>} /\ layout' = layout /\ index' = v /\ disk' = disk
    BY <1>3, FillingIs, PutDoes
  <2>2. CASE v = Torn
    BY <1>1, <2>1, <2>2
  <2>3. CASE v = <<Descriptor(exp.job)>>
    <3>1. Descriptor(exp.job).image \in Image
      BY ImagesAreBuilt DEF Descriptor
    <3>2. DOMAIN index' = {1} /\ index'[1] = Descriptor(exp.job)
      BY <2>1, <2>3
    <3>3. \A k \in DOMAIN index' : index'[k].image \in Image
      BY <3>1, <3>2
    <3> QED BY <1>1, <2>1, <3>3 DEF DescriptorsLead
  <2> QED BY <2>1, <2>2, <2>3
<1>4. CASE Target \in Blob
  <2>1. /\ v \in {Torn, "whole"} /\ layout' = layout /\ index' = index
        /\ disk' = [disk EXCEPT ![Target] = v]
    BY <1>4, FillingIs, PutDoes
  <2>2. disk' \in [Blob -> FileStates]
    BY <1>1, <2>1 DEF FileStates
  <2> QED BY <1>1, <2>1, <2>2 DEF DescriptorsLead
<1> QED BY FillingIs, <1>2, <1>3, <1>4

LEMMA TypesStep == LayoutInv /\ [LayoutNext]_layoutVars => LayoutTypes'
<1> SUFFICES ASSUME LayoutInv, [LayoutNext]_layoutVars PROVE LayoutTypes'
  OBVIOUS
<1>1. LayoutTypes /\ ExportInv /\ ReadInv
  BY DEF LayoutInv
<1>0. exp.pc \in {"open", "fill"} => exp.job \in Exports /\ exp.k \in DOMAIN Writes(exp.job.manifest)
  BY <1>1 DEF ExportInv, Progress
<1>2. CASE BeginExport
  BY <1>1, <1>2 DEF BeginExport, LayoutTypes, LayoutTypeOK, DescriptorsLead
<1>3. CASE OpenTarget
  <2>1. /\ layout' \in {"1.0.0", "other", Absent, Torn} /\ disk' \in [Blob -> FileStates]
        /\ (index \notin {Absent, Torn} => DescriptorsLead)'
    BY <1>0, <1>1, <1>3, DirectoryTypes DEF OpenTarget
  <2> QED BY <1>1, <1>3, <2>1 DEF OpenTarget, LayoutTypes, LayoutTypeOK
<1>4. CASE SourceFails \/ ExportStops
  BY <1>1, <1>4 DEF SourceFails, ExportStops, LayoutTypes, LayoutTypeOK, DescriptorsLead
<1>5. CASE FillTarget
  <2>1. /\ layout' \in {"1.0.0", "other", Absent, Torn} /\ disk' \in [Blob -> FileStates]
        /\ (index \notin {Absent, Torn} => DescriptorsLead)'
    BY <1>0, <1>1, <1>5, DirectoryTypes DEF FillTarget
  <2>2. exp.job \in Exports
    BY <1>0, <1>5 DEF FillTarget
  <2>3. /\ exp' \in {[exp EXCEPT !.pc = "done"], [exp EXCEPT !.pc = "open", !.k = @ + 1]}
        /\ exported' \in {exported, exp.job} /\ rd' = rd
    BY <1>5 DEF FillTarget
  <2> QED BY <1>1, <2>1, <2>2, <2>3 DEF LayoutTypes, LayoutTypeOK
<1>6. CASE BeginRead
  BY <1>1, <1>6 DEF BeginRead, LayoutTypes, LayoutTypeOK, DescriptorsLead
<1>7. CASE ReadFile
  <2> DEFINE m == Content[rd.image].config
  <2>1. PICK u : rd' \in {[rd EXCEPT !.pc = "failed"],
                          [rd EXCEPT !.k = @ + 1, !.used = @ \cup u,
                                     !.got = @ \cup {Files[m][rd.k].digest}]}
    BY <1>7 DEF ReadFile, Go
  <2>2. Files[m][rd.k].digest \in Body
    <3>1. m \in Manifest /\ rd.k \in 1 .. Len(Files[m]) + 1 /\ rd.k <= Len(Files[m])
      BY <1>1, <1>7 DEF ReadFile, ReadInv, Reading
    <3>2. Len(Files[m]) \in Nat /\ DOMAIN Files[m] = 1 .. Len(Files[m])
      BY <3>1, WritesAre
    <3>3. rd.k \in DOMAIN Files[m]
      BY <3>1, <3>2
    <3> QED BY <3>1, <3>3, LayoutConstantsOK DEF LayoutConstantsOK
  <2>3. UNCHANGED <<layout, index, disk, exp, exported>>
    BY <1>7 DEF ReadFile, Read
  <2>4. PICK D \in Body : D = Files[m][rd.k].digest
    BY <2>2
  <2> HIDE DEF m
  <2>5. /\ rd = [pc |-> rd.pc, ref |-> rd.ref, image |-> rd.image, k |-> rd.k, used |-> rd.used,
                 got |-> rd.got, due |-> rd.due]
        /\ rd.pc \in {"idle", "layout", "index", "image", "config", "files", "read", "failed"}
        /\ rd.got \subseteq Body
    BY <1>1 DEF LayoutTypes, LayoutTypeOK
  <2>6. CASE rd' = [rd EXCEPT !.pc = "failed"]
    BY <1>1, <2>3, <2>5, <2>6 DEF LayoutTypes, LayoutTypeOK, DescriptorsLead
  <2>7. CASE rd' = [rd EXCEPT !.k = @ + 1, !.used = @ \cup u, !.got = @ \cup {D}]
    <3>1. /\ rd'.pc = rd.pc /\ rd'.got = rd.got \cup {D}
          /\ rd' = [pc |-> rd'.pc, ref |-> rd'.ref, image |-> rd'.image, k |-> rd'.k,
                    used |-> rd'.used, got |-> rd'.got, due |-> rd'.due]
      BY <2>5, <2>7
    <3> QED BY <1>1, <2>3, <2>5, <3>1 DEF LayoutTypes, LayoutTypeOK, DescriptorsLead
  <2> QED BY <2>1, <2>4, <2>6, <2>7
<1>8. CASE ReadLayoutFile \/ ReadImage \/ ReadConfig \/ ReadEnds
  <2>1. \E pc \in {"index", "config", "files", "read", "failed"} : rd' = [rd EXCEPT !.pc = pc]
    BY <1>8 DEF ReadLayoutFile, ReadImage, ReadConfig, ReadEnds, Check, Go
  <2>2. UNCHANGED <<layout, index, disk, exp, exported>>
    BY <1>8 DEF ReadLayoutFile, ReadImage, ReadConfig, ReadEnds, Read
  <2> QED BY <1>1, <2>1, <2>2 DEF LayoutTypes, LayoutTypeOK, DescriptorsLead
<1>9. CASE ReadIndex
  <2>1. \E i : rd' \in {[rd EXCEPT !.pc = "failed"], [rd EXCEPT !.pc = "image", !.image = i]}
    BY <1>9 DEF ReadIndex, Go
  <2>2. UNCHANGED <<layout, index, disk, exp, exported>>
    BY <1>9 DEF ReadIndex, Read
  <2> QED BY <1>1, <2>1, <2>2 DEF LayoutTypes, LayoutTypeOK, DescriptorsLead
<1>10. CASE UNCHANGED layoutVars
  BY <1>1, <1>10 DEF layoutVars, LayoutTypes, LayoutTypeOK, DescriptorsLead
<1> QED BY <1>2, <1>3, <1>4, <1>5, <1>6, <1>7, <1>8, <1>9, <1>10 DEF LayoutNext

-----------------------------------------------------------------------------
(***************************************************************************)
(* The exporter                                                            *)
(***************************************************************************)
\* A write of one file leaves the others as they are.
LEMMA PutKeeps ==
  ASSUME NEW t, NEW s, NEW v, NEW e, LayoutTypes, t # s, Put(t, v), InPlace(e, s),
         {t, s} \subseteq Blob \cup {"layout", "index"}
  PROVE  InPlace(e, s)'
<1>1. /\ {"layout", "index"} \cap Blob = {} /\ disk \in [Blob -> FileStates]
  BY LayoutConstantsOK DEF LayoutConstantsOK, LayoutTypes, LayoutTypeOK
<1>2. CASE t = "layout"
  BY <1>1, <1>2, PutDoes DEF InPlace
<1>3. CASE t = "index"
  BY <1>1, <1>3, PutDoes DEF InPlace
<1>4. CASE t \in Blob
  <2>1. layout' = layout /\ index' = index /\ disk' = [disk EXCEPT ![t] = v]
    BY <1>4, PutDoes
  <2> QED BY <1>1, <1>4, <2>1 DEF InPlace
<1> QED BY <1>2, <1>3, <1>4

\* A completed write puts its own file in place.
LEMMA FillPlaces ==
  ASSUME NEW e, e = exp.job, e \in Exports, exp.k \in DOMAIN Writes(e.manifest), LayoutTypes,
         Put(Target, Filling), NEW t, t = Target
  PROVE  InPlace(e, t)'
<1>1. /\ {"layout", "index"} \cap Blob = {} /\ disk \in [Blob -> FileStates]
  BY LayoutConstantsOK DEF LayoutConstantsOK, LayoutTypes, LayoutTypeOK
<1>2. CASE t = "layout"
  BY <1>1, <1>2, PutDoes, FillingIs DEF InPlace
<1>3. CASE t = "index"
  BY <1>1, <1>3, PutDoes, FillingIs DEF InPlace
<1>4. CASE t \in Blob
  <2>1. disk' = [disk EXCEPT ![t] = "whole"]
    BY <1>4, PutDoes, FillingIs
  <2> QED BY <1>1, <1>4, <2>1 DEF InPlace
<1> QED BY <1>2, <1>3, <1>4, FillingIs

LEMMA ExporterStays ==
  ASSUME ExportInv, UNCHANGED <<layout, index, disk, exp, exported>>
  PROVE  ExportInv'
  BY DEF ExportInv, Progress, Complete, InPlace, Target, DescriptorsLead

LEMMA BeginExports == LayoutInv /\ BeginExport => ExportInv'
<1> SUFFICES ASSUME LayoutInv, BeginExport PROVE ExportInv'
  OBVIOUS
<1>1. PICK e \in Exports : exp' = [pc |-> "open", job |-> e, k |-> 1, was |-> index]
  BY DEF BeginExport
<1>2. exported' = None /\ index' = index
  BY DEF BeginExport
<1>3. e.manifest \in Manifest /\ e # None
  BY ImagesAreBuilt
<1>4. 1 \in DOMAIN Writes(e.manifest) /\ DOMAIN Files[e.manifest] \subseteq Nat \ {0}
  BY <1>3, WritesAre
<1>5. Progress'
  <2>1. \A f \in DOMAIN Files[e.manifest] : ~ (f + 2 < 1)
    BY <1>4
  <2> QED BY <1>1, <1>2, <1>4, <2>1 DEF Progress
<1> QED BY <1>1, <1>2, <1>5 DEF ExportInv

LEMMA OpenExports == LayoutInv /\ OpenTarget => ExportInv'
<1> SUFFICES ASSUME LayoutInv, OpenTarget PROVE ExportInv'
  OBVIOUS
<1>1. /\ LayoutTypes /\ ExportInv /\ exp.pc = "open" /\ exp' = [exp EXCEPT !.pc = "fill"]
      /\ Put(Target, Torn) /\ exported' = exported
      /\ WritesBody => Files[exp.job.manifest][exp.k - 2].size = SizeOf[Target]
  BY DEF LayoutInv, OpenTarget
<1>2. PICK e : e = exp.job
  OBVIOUS
<1>3. PICK k : k = exp.k
  OBVIOUS
<1>4. exp'.pc = "fill" /\ exp'.job = e /\ exp'.k = k /\ exp'.was = exp.was
  BY <1>1, <1>2, <1>3 DEF LayoutTypes
<1> DEFINE W == Writes(e.manifest)
<1>5. /\ Progress /\ exported = None
  BY <1>1 DEF ExportInv, Progress
<1>6. /\ e \in Exports /\ k \in DOMAIN W /\ \A j \in 1 .. k - 1 : InPlace(e, W[j])
      /\ \A f \in DOMAIN Files[e.manifest] : f + 2 < k => SizeFits(e.manifest, f)
      /\ Target = W[k]
  BY <1>1, <1>2, <1>3, <1>5 DEF Progress, Target
<1>7. /\ k \in Nat /\ k >= 1 /\ DOMAIN W = 1 .. Len(W) /\ Len(W) \in Nat /\ k <= Len(W)
  BY <1>6, WritesDiffer
<1>8. \A j \in 1 .. k - 1 : InPlace(e, W[j])' \/ W[j] = W[k]
  <2> SUFFICES ASSUME NEW j \in 1 .. k - 1, W[j] # W[k] PROVE InPlace(e, W[j])'
    OBVIOUS
  <2>1. j \in DOMAIN W
    BY <1>7
  <2>2. {W[j], W[k]} \subseteq Blob \cup {"layout", "index"}
    BY <1>6, <2>1, WritesDiffer
  <2> QED BY <1>1, <1>6, <2>2, PutKeeps
<1>9. \A f \in DOMAIN Files[e.manifest] : f + 2 = k => SizeFits(e.manifest, f)
  <2> SUFFICES ASSUME NEW f \in DOMAIN Files[e.manifest], f + 2 = k
               PROVE  SizeFits(e.manifest, f)
    OBVIOUS
  <2>1. /\ e.manifest \in Manifest
    BY <1>6, ImagesAreBuilt
  <2>2. f \in Nat /\ W[k] = Files[e.manifest][f].digest
    BY <2>1, WritesAre
  <2>3. f = k - 2
    BY <1>7, <2>2
  <2>4. WritesBody /\ exp.k - 2 = f
    BY <1>2, <1>3, <2>3 DEF WritesBody
  <2> QED BY <1>1, <1>2, <1>6, <2>2, <2>4 DEF SizeFits
<1>10. Target' = W[k]
  BY <1>4 DEF Target
<1>11. Progress'
  BY <1>1, <1>4, <1>5, <1>6, <1>8, <1>9, <1>10 DEF Progress
<1>12. index' \in {exp.was, Torn}
  <2>1. index \in {exp.was, Torn}
    BY <1>1, <1>2, <1>6, ImagesAreBuilt DEF ExportInv
  <2>2. Target \in Blob \cup {"layout", "index"}
    BY <1>6, WritesDiffer
  <2>3. index' \in {index, Torn}
    BY <1>1, <2>2, PutDoes
  <2> QED BY <2>1, <2>3
<1> QED BY <1>1, <1>4, <1>5, <1>11, <1>12 DEF ExportInv

LEMMA FillExports == LayoutInv /\ FillTarget => ExportInv'
<1> SUFFICES ASSUME LayoutInv, FillTarget PROVE ExportInv'
  OBVIOUS
<1>1. /\ LayoutTypes /\ ExportInv /\ exp.pc = "fill" /\ Put(Target, Filling)
  BY DEF LayoutInv, FillTarget
<1>2. PICK e : e = exp.job
  OBVIOUS
<1>3. PICK k : k = exp.k
  OBVIOUS
<1> DEFINE W == Writes(e.manifest)
<1>4. IF k = Len(W) THEN exp' = [exp EXCEPT !.pc = "done"] /\ exported' = e
                    ELSE exp' = [exp EXCEPT !.pc = "open", !.k = k + 1] /\ exported' = exported
  BY <1>2, <1>3 DEF FillTarget
<1>5. /\ Progress /\ exported = None
  BY <1>1 DEF ExportInv, Progress
<1>6. /\ e \in Exports /\ k \in DOMAIN W
      /\ \A j \in 1 .. k - 1 : InPlace(e, W[j]) \/ W[j] = W[k]
      /\ \A f \in DOMAIN Files[e.manifest] : f + 2 < k \/ f + 2 = k => SizeFits(e.manifest, f)
      /\ Target = W[k]
  BY <1>1, <1>2, <1>3, <1>5 DEF Progress, Target
<1>7. /\ k \in Nat /\ k >= 1 /\ DOMAIN W = 1 .. Len(W) /\ Len(W) \in Nat /\ k <= Len(W)
      /\ W[k] = "index" <=> k = Len(W)
  BY <1>6, WritesDiffer
<1>8. \A j \in 1 .. k : InPlace(e, W[j])'
  <2> SUFFICES ASSUME NEW j \in 1 .. k PROVE InPlace(e, W[j])'
    OBVIOUS
  <2>1. j \in DOMAIN W
    BY <1>7
  <2>2. {W[j], W[k]} \subseteq Blob \cup {"layout", "index"}
    BY <1>6, <2>1, WritesDiffer
  <2>3. CASE W[j] = W[k]
    <3>1. InPlace(e, W[k])'
      BY <1>1, <1>2, <1>3, <1>6, FillPlaces
    <3> QED BY <2>3, <3>1
  <2>4. CASE W[j] # W[k]
    <3>1. j # k
      BY <2>4
    <3>2. InPlace(e, W[j])
      BY <1>6, <1>7, <2>4, <3>1
    <3> QED BY <1>1, <1>6, <2>2, <2>4, <3>2, PutKeeps
  <2> QED BY <2>3, <2>4
<1>9. e # None /\ e.manifest \in Manifest
  BY <1>6, ImagesAreBuilt
<1>10. CASE k = Len(W)
  <2>1. exp'.pc = "done" /\ exp'.job = e /\ exported' = e
    BY <1>1, <1>2, <1>4, <1>10 DEF LayoutTypes
  <2>2. \A f \in DOMAIN Files[e.manifest] : SizeFits(e.manifest, f)
    <3> SUFFICES ASSUME NEW f \in DOMAIN Files[e.manifest] PROVE SizeFits(e.manifest, f)
      OBVIOUS
    <3>1. f + 2 < k
      <4>1. PICK n \in Nat : n = Len(Files[e.manifest])
        BY <1>9, WritesAre
      <4>2. f \in 1 .. n /\ k = n + 4
        BY <1>9, <1>10, <4>1, WritesAre
      <4> QED BY <4>2
    <3> QED BY <1>6, <3>1
  <2>3. Complete(e)'
    BY <1>7, <1>8, <1>10, <2>2 DEF Complete
  <2> QED BY <1>6, <1>9, <2>1, <2>3 DEF ExportInv
<1>11. CASE k # Len(W)
  <2>1. /\ exp'.pc = "open" /\ exp'.job = e /\ exp'.k = k + 1 /\ exp'.was = exp.was
        /\ exported' = exported
    BY <1>1, <1>2, <1>4, <1>11 DEF LayoutTypes
  <2>2. k + 1 \in DOMAIN W /\ (k + 1) - 1 = k
    BY <1>7, <1>11
  <2>3. \A f \in DOMAIN Files[e.manifest] : f + 2 < k + 1 => SizeFits(e.manifest, f)
    <3>1. DOMAIN Files[e.manifest] \subseteq Nat
      BY <1>9, WritesAre
    <3> QED BY <1>6, <1>7, <3>1
  <2>4. Progress'
    BY <1>5, <1>6, <1>8, <2>1, <2>2, <2>3 DEF Progress
  <2>5. index' = index
    <3>1. W[k] \in Blob \cup {"layout"}
      BY <1>6, <1>7, <1>11, WritesDiffer
    <3> QED BY <1>1, <1>6, <3>1, PutDoes
  <2>6. index \in {exp.was, Torn}
    BY <1>1, <1>2, <1>9 DEF ExportInv
  <2> QED BY <1>5, <2>1, <2>4, <2>5, <2>6 DEF ExportInv
<1> QED BY <1>10, <1>11

LEMMA ExportStep == LayoutInv /\ [LayoutNext]_layoutVars => ExportInv'
<1> SUFFICES ASSUME LayoutInv, [LayoutNext]_layoutVars PROVE ExportInv'
  OBVIOUS
<1>1. LayoutTypes /\ ExportInv
  BY DEF LayoutInv
<1>2. CASE BeginExport
  BY <1>2, BeginExports
<1>3. CASE OpenTarget
  BY <1>3, OpenExports
<1>4. CASE FillTarget
  BY <1>4, FillExports
<1>5. CASE SourceFails \/ ExportStops
  <2>1. /\ exp' = [exp EXCEPT !.pc = "stopped"] /\ UNCHANGED <<layout, index, disk, exported>>
        /\ exp.pc \in {"open", "fill"}
    BY <1>5 DEF SourceFails, ExportStops
  <2>2. exp'.pc = "stopped" /\ exp'.job = exp.job /\ exp'.was = exp.was
    BY <1>1, <2>1 DEF LayoutTypes
  <2>3. exported = None
    BY <1>1, <2>1 DEF ExportInv, Progress
  <2> QED BY <1>1, <2>1, <2>2, <2>3 DEF ExportInv
<1>6. CASE UNCHANGED <<layout, index, disk, exp, exported>>
  BY <1>1, <1>6, ExporterStays
<1> QED BY <1>2, <1>3, <1>4, <1>5, <1>6
        DEF LayoutNext, layoutVars, BeginRead, ReadLayoutFile, ReadIndex, ReadImage, ReadConfig,
            ReadFile, ReadEnds, Read

-----------------------------------------------------------------------------
(***************************************************************************)
(* The reader                                                              *)
(***************************************************************************)
\* Once layers claim distinct paths, an entry has one candidate or none.
LEMMA OneCandidate ==
  ASSUME NEW i \in Image, PathsDistinct(i), NEW m \in Manifest, NEW f \in DOMAIN Files[m],
         NEW l \in Candidates(i, m, Files[m][f])
  PROVE  l \in DOMAIN Content[i].layers /\ Candidates(i, m, Files[m][f]) = {l}
<1>1. Files[m][f].path \notin {None, "odd"}
  BY LayoutConstantsOK DEF LayoutConstantsOK
<1>2. CASE LayersAt(i, Files[m][f].path) # {}
  <2>1. Candidates(i, m, Files[m][f]) = LayersAt(i, Files[m][f].path)
    BY <1>2 DEF Candidates
  <2>2. l \in DOMAIN Content[i].layers /\ Content[i].layers[l].path = Files[m][f].path
    BY <2>1 DEF LayersAt
  <2>3. LayersAt(i, Content[i].layers[l].path) = {l}
    BY <1>1, <2>2 DEF PathsDistinct
  <2> QED BY <2>1, <2>2, <2>3
<1>3. CASE LayersAt(i, Files[m][f].path) = {}
  <2>1. /\ l \in LayersOf(i, Files[m][f].digest) /\ LayersOf(i, Files[m][f].digest) = {l}
        /\ Candidates(i, m, Files[m][f]) \subseteq LayersOf(i, Files[m][f].digest)
    BY <1>3 DEF Candidates
  <2> QED BY <2>1 DEF LayersOf
<1> QED BY <1>2, <1>3

\* A layer that serves an entry has its digest.
LEMMA ServesDigest ==
  ASSUME NEW i \in Image, NEW l \in DOMAIN Content[i].layers, NEW file, Serves(i, file, l)
  PROVE  /\ Content[i].layers[l].digest = file.digest
         /\ Content[i].layers[l].path \in {file.path, None}
<1>1. PICK layer : layer = Content[i].layers[l]
  OBVIOUS
<1>2. layer = [path |-> layer.path, digest |-> layer.digest, size |-> layer.size,
               type |-> layer.type]
  BY <1>1, LayoutConstantsOK DEF LayoutConstantsOK
<1>3. layer.path \in {file.path, None} /\ [layer EXCEPT !.path = file.path] = Layer(file)
  BY <1>1 DEF Serves
<1>4. [layer EXCEPT !.path = file.path].digest = layer.digest
  BY <1>2
<1>5. Layer(file).digest = file.digest
  BY DEF Layer
<1> QED BY <1>1, <1>3, <1>4, <1>5

\* In a layout written for m, the k-th layer is the k-th entry's and no other's.
LEMMA BuiltServes ==
  ASSUME NEW m \in Manifest, NEW i \in Image, Content[i] = Built(m)
  PROVE  /\ PathsDistinct(i) /\ DOMAIN Content[i].layers = DOMAIN Files[m]
         /\ \A k \in DOMAIN Files[m] : /\ Content[i].layers[k] = Layer(Files[m][k])
                                       /\ Candidates(i, m, Files[m][k]) = {k}
<1>1. /\ DOMAIN Content[i].layers = DOMAIN Files[m]
      /\ \A k \in DOMAIN Files[m] : Content[i].layers[k] = Layer(Files[m][k])
  <2> DEFINE built == [k \in DOMAIN Files[m] |-> Layer(Files[m][k])]
  <2>1. Built(m) = [artifact |-> TRUE, config |-> m, note |-> m, layers |-> built]
    BY DEF Built
  <2>2. DOMAIN built = DOMAIN Files[m] /\ \A k \in DOMAIN Files[m] : built[k] = Layer(Files[m][k])
    OBVIOUS
  <2> HIDE DEF built
  <2>3. Content[i].layers = built
    BY <2>1
  <2> QED BY <2>2, <2>3
<1>2. \A k \in DOMAIN Files[m] : Content[i].layers[k].path = Files[m][k].path
  <2>1. \A file : Layer(file).path = file.path
    BY DEF Layer
  <2> QED BY <1>1, <2>1
<1>3. \A k \in DOMAIN Files[m] : LayersAt(i, Files[m][k].path) = {k}
  <2> SUFFICES ASSUME NEW k \in DOMAIN Files[m] PROVE LayersAt(i, Files[m][k].path) = {k}
    OBVIOUS
  <2>1. \A j \in DOMAIN Files[m] : Files[m][j].path = Files[m][k].path => j = k
    BY LayoutConstantsOK DEF LayoutConstantsOK
  <2> QED BY <1>1, <1>2, <2>1 DEF LayersAt
<1>4. PathsDistinct(i)
  BY <1>1, <1>2, <1>3 DEF PathsDistinct
<1>5. \A k \in DOMAIN Files[m] : Candidates(i, m, Files[m][k]) = {k}
  BY <1>3 DEF Candidates
<1> QED BY <1>1, <1>4, <1>5

\* What a sure reader finds in the directory.
LEMMA SureFinds ==
  ASSUME ExportInv, ReadInv, Sure
  PROVE  /\ rd.due \in Exports /\ rd.due.ref = rd.ref
         /\ rd.due.manifest \in Manifest /\ ImageOf(rd.due.manifest) \in Image
         /\ Content[ImageOf(rd.due.manifest)] = Built(rd.due.manifest)
         /\ layout = "1.0.0" /\ index = <<Descriptor(rd.due)>>
         /\ disk[rd.due.manifest] = "whole" /\ disk[ImageOf(rd.due.manifest)] = "whole"
         /\ \A f \in DOMAIN Files[rd.due.manifest] :
              disk[Files[rd.due.manifest][f].digest] = "whole" /\ SizeFits(rd.due.manifest, f)
<1>1. PICK e : e = rd.due
  OBVIOUS
<1>2. e \in Exports /\ Complete(e) /\ rd.due.ref = rd.ref
  BY <1>1 DEF Sure, ReadInv, ExportInv
<1>3. /\ e.manifest \in Manifest /\ ImageOf(e.manifest) \in Image
      /\ Content[ImageOf(e.manifest)] = Built(e.manifest)
  BY <1>2, ImagesAreBuilt
<1> DEFINE W == Writes(e.manifest)
<1>4. PICK n \in Nat : n = Len(Files[e.manifest])
  BY <1>3, WritesAre
<1>5. /\ DOMAIN W = 1 .. n + 4 /\ W[1] = "layout" /\ W[2] = e.manifest
      /\ W[n + 3] = ImageOf(e.manifest) /\ W[n + 4] = "index" /\ DOMAIN Files[e.manifest] = 1 .. n
      /\ \A f \in DOMAIN Files[e.manifest] : W[f + 2] = Files[e.manifest][f].digest
  BY <1>3, <1>4, WritesAre
<1> HIDE DEF W
<1>6. \A j \in 1 .. n + 4 : InPlace(e, W[j])
  BY <1>2, <1>5 DEF Complete, W
<1>7. InPlace(e, "layout") /\ InPlace(e, "index")
  BY <1>5, <1>6
<1>8. /\ InPlace(e, e.manifest) /\ InPlace(e, ImageOf(e.manifest))
  BY <1>5, <1>6
<1>9. \A f \in DOMAIN Files[e.manifest] : InPlace(e, Files[e.manifest][f].digest)
  <2> SUFFICES ASSUME NEW f \in 1 .. n PROVE InPlace(e, Files[e.manifest][f].digest)
    BY <1>5
  <2>1. f + 2 \in 1 .. n + 4
    OBVIOUS
  <2> QED BY <1>5, <1>6, <2>1
<1>10. /\ e.manifest \in Blob /\ ImageOf(e.manifest) \in Blob
       /\ \A f \in DOMAIN Files[e.manifest] : Files[e.manifest][f].digest \in Blob
  BY <1>3, LayoutConstantsOK DEF Blob, LayoutConstantsOK
<1>11. /\ layout = "1.0.0" /\ index = <<Descriptor(e)>>
       /\ disk[e.manifest] = "whole" /\ disk[ImageOf(e.manifest)] = "whole"
       /\ \A f \in DOMAIN Files[e.manifest] : disk[Files[e.manifest][f].digest] = "whole"
  BY <1>7, <1>8, <1>9, <1>10 DEF InPlace
<1>12. \A f \in DOMAIN Files[e.manifest] : SizeFits(e.manifest, f)
  BY <1>2 DEF Complete
<1> QED BY <1>1, <1>2, <1>3, <1>11, <1>12

\* What moves the exporter does not move a reader, and a read under way when the
\* next export begins is sure of nothing any more.
LEMMA ExportersReadNot ==
  ASSUME LayoutInv,
         BeginExport \/ OpenTarget \/ SourceFails \/ FillTarget \/ ExportStops \/ UNCHANGED layoutVars
  PROVE  ReadInv'
<1>1. LayoutTypes /\ ExportInv /\ ReadInv
  BY DEF LayoutInv
<1>2. CASE BeginExport
  <2>1. rd' = [rd EXCEPT !.due = None]
    BY <1>2 DEF BeginExport
  <2>2. rd'.due = None /\ rd'.pc = rd.pc /\ rd'.image = rd.image /\ rd'.k = rd.k /\ rd'.used = rd.used
    BY <1>1, <2>1 DEF LayoutTypes
  <2>3. rd.pc \in {"files", "read"} => Reading'
    BY <1>1, <2>2 DEF ReadInv, Reading, Provides, PathsDistinct, LayersAt
  <2> QED BY <1>1, <2>2, <2>3 DEF ReadInv, Sure
<1>3. CASE rd' = rd /\ (rd.due # None => exported' = exported)
  <2>1. rd.pc \in {"files", "read"} => Reading'
    BY <1>1, <1>3 DEF ReadInv, Reading, Provides, PathsDistinct, LayersAt
  <2> QED BY <1>1, <1>3, <2>1 DEF ReadInv, Sure
<1>4. FillTarget => exported = None
  BY <1>1 DEF FillTarget, ExportInv, Progress
<1>5. FillTarget => rd.due = None
  BY <1>1, <1>4 DEF ReadInv
<1> QED BY <1>2, <1>3, <1>5 DEF OpenTarget, SourceFails, FillTarget, ExportStops, layoutVars

\* A step that moves the reader on to pc, and to nothing else.
LEMMA GoesOn ==
  ASSUME LayoutInv, NEW pc \in {"index", "config"}, rd' = [rd EXCEPT !.pc = pc],
         exported' = exported, pc = "config" => rd.pc = "image", rd.pc \in {"layout", "image"}
  PROVE  ReadInv'
<1>1. LayoutTypes /\ ReadInv
  BY DEF LayoutInv
<1>2. /\ rd'.pc = pc /\ rd'.due = rd.due /\ rd'.image = rd.image /\ rd'.k = rd.k
      /\ rd'.used = rd.used /\ rd'.ref = rd.ref
  BY <1>1 DEF LayoutTypes
<1>3. Sure' <=> Sure
  BY <1>2 DEF Sure
<1> QED BY <1>1, <1>2, <1>3 DEF ReadInv

\* A reader gives up only when it may.
LEMMA GivesUp ==
  ASSUME LayoutInv, ~ Sure, rd' = [rd EXCEPT !.pc = "failed"], exported' = exported
  PROVE  ReadInv'
<1>1. LayoutTypes /\ ReadInv
  BY DEF LayoutInv
<1>2. rd'.pc = "failed" /\ rd'.due = rd.due /\ rd'.ref = rd.ref
  BY <1>1 DEF LayoutTypes
<1> QED BY <1>1, <1>2 DEF ReadInv, Sure

LEMMA LayoutReads == LayoutInv /\ (BeginRead \/ ReadLayoutFile \/ ReadImage) => ReadInv'
<1> SUFFICES ASSUME LayoutInv, BeginRead \/ ReadLayoutFile \/ ReadImage PROVE ReadInv'
  OBVIOUS
<1>1. LayoutTypes /\ ExportInv /\ ReadInv
  BY DEF LayoutInv
<1>2. CASE BeginRead
  <2>1. PICK ref \in Refs : rd' = [pc |-> "layout", ref |-> ref, image |-> None, k |-> 1,
                                   used |-> {}, got |-> {}, due |-> exported]
    BY <1>2 DEF BeginRead
  <2>2. exported' = exported
    BY <1>2 DEF BeginRead
  <2> QED BY <2>1, <2>2 DEF ReadInv
<1>3. CASE ReadLayoutFile
  <2>1. rd.pc = "layout" /\ exported' = exported
    BY <1>3 DEF ReadLayoutFile, Read
  <2>2. rd' = [rd EXCEPT !.pc = IF layout = "1.0.0" THEN "index" ELSE "failed"]
    BY <1>3 DEF ReadLayoutFile, Check, Go
  <2>3. Sure => layout = "1.0.0"
    BY <1>1, SureFinds
  <2>4. CASE layout = "1.0.0"
    BY <2>1, <2>2, <2>4, GoesOn
  <2>5. CASE layout # "1.0.0"
    BY <2>1, <2>2, <2>3, <2>5, GivesUp
  <2> QED BY <2>4, <2>5
<1>4. CASE ReadImage
  <2> DEFINE ok == disk[rd.image] = "whole" /\ Content[rd.image].artifact
  <2>1. rd.pc = "image" /\ exported' = exported
    BY <1>4 DEF ReadImage, Read
  <2>2. rd' = [rd EXCEPT !.pc = IF ok THEN "config" ELSE "failed"]
    BY <1>4 DEF ReadImage, Check, Go
  <2>3. Sure => ok
    <3> SUFFICES ASSUME Sure PROVE ok
      OBVIOUS
    <3>1. rd.image = ImageOf(rd.due.manifest)
      BY <1>1, <2>1 DEF ReadInv
    <3>2. Content[rd.image].artifact = TRUE
      BY <1>1, <3>1, SureFinds DEF Built
    <3> QED BY <1>1, <3>1, <3>2, SureFinds
  <2>4. CASE ok
    BY <2>1, <2>2, <2>4, GoesOn
  <2>5. CASE ~ ok
    BY <2>1, <2>2, <2>3, <2>5, GivesUp
  <2> QED BY <2>4, <2>5
<1> QED BY <1>2, <1>3, <1>4

\* Exactly one entry of the index matches: a sure reader's is the exported one.
LEMMA IndexReads == LayoutInv /\ ReadIndex => ReadInv'
<1> SUFFICES ASSUME LayoutInv, ReadIndex PROVE ReadInv'
  OBVIOUS
<1>1. LayoutTypes /\ ExportInv /\ ReadInv /\ rd.pc = "index" /\ exported' = exported
  BY DEF LayoutInv, ReadIndex, Read
<1> DEFINE bad == index \in {Absent, Torn} \/ Cardinality(Matching(index, rd.ref)) # 1
           d == index[CHOOSE k \in Matching(index, rd.ref) : TRUE]
<1>2. IF bad THEN rd' = [rd EXCEPT !.pc = "failed"]
      ELSE IF d.type = "manifest" THEN rd' = [rd EXCEPT !.pc = "image", !.image = d.image]
                                  ELSE rd' = [rd EXCEPT !.pc = "failed"]
  BY DEF ReadIndex, Go
<1>3. ~ bad => /\ (CHOOSE k \in Matching(index, rd.ref) : TRUE) \in Matching(index, rd.ref)
               /\ Matching(index, rd.ref) \subseteq DOMAIN index
  BY FS_EmptySet DEF Matching
<1>4. Sure => ~ bad /\ d = Descriptor(rd.due)
  <2> SUFFICES ASSUME Sure PROVE ~ bad /\ d = Descriptor(rd.due)
    OBVIOUS
  <2>1. index = <<Descriptor(rd.due)>> /\ rd.due.ref = rd.ref /\ rd.due \in Exports
    BY <1>1, SureFinds
  <2>2. DOMAIN index = {1} /\ index[1] = Descriptor(rd.due)
    BY <2>1
  <2>3. index[1].ref = rd.ref
    BY <2>1, <2>2 DEF Descriptor
  <2>4. Matching(index, rd.ref) = {1}
    BY <2>2, <2>3 DEF Matching
  <2>5. index \notin {Absent, Torn}
    BY <2>1, Distinct
  <2> QED BY <2>2, <2>4, <2>5, FS_Singleton
<1>5. CASE rd' = [rd EXCEPT !.pc = "failed"] /\ (bad \/ d.type # "manifest")
  <2>1. ~ Sure
    BY <1>4, <1>5 DEF Descriptor
  <2> QED BY <1>1, <1>5, <2>1, GivesUp
<1>6. CASE ~ bad /\ d.type = "manifest" /\ rd' = [rd EXCEPT !.pc = "image", !.image = d.image]
  <2>1. PICK D : D = d
    OBVIOUS
  <2>2. D.image \in Image
    BY <1>1, <1>3, <1>6, <2>1 DEF LayoutTypes, DescriptorsLead
  <2>3. Sure => D.image = ImageOf(rd.due.manifest)
    BY <1>4, <2>1 DEF Descriptor
  <2>4. rd' = [rd EXCEPT !.pc = "image", !.image = D.image]
    BY <1>6, <2>1
  <2>5. /\ rd'.pc = "image" /\ rd'.due = rd.due /\ rd'.image = D.image /\ rd'.k = rd.k
        /\ rd'.used = rd.used /\ rd'.ref = rd.ref
    BY <1>1, <2>4 DEF LayoutTypes
  <2>6. Sure' <=> Sure
    BY <2>5 DEF Sure
  <2> QED BY <1>1, <2>2, <2>3, <2>5, <2>6 DEF ReadInv
<1> QED BY <1>2, <1>5, <1>6

LEMMA ConfigReads == LayoutInv /\ ReadConfig => ReadInv'
<1> SUFFICES ASSUME LayoutInv, ReadConfig PROVE ReadInv'
  OBVIOUS
<1>1. LayoutTypes /\ ExportInv /\ ReadInv /\ rd.pc = "config" /\ exported' = exported
  BY DEF LayoutInv, ReadConfig, Read
<1>2. rd.image \in Image /\ rd.k = 1 /\ rd.used = {}
  BY <1>1 DEF ReadInv
<1> DEFINE c == Content[rd.image]
           ok == /\ c.config # None /\ disk[c.config] = "whole"
                 /\ c.note \in {None, c.config} /\ PathsDistinct(rd.image)
<1>3. rd' = [rd EXCEPT !.pc = IF ok THEN "files" ELSE "failed"]
  BY DEF ReadConfig, Check, Go
<1>4. Sure => ok
  <2> SUFFICES ASSUME Sure PROVE ok
    OBVIOUS
  <2>1. PICK m : m = rd.due.manifest
    OBVIOUS
  <2>2. /\ rd.image = ImageOf(m) /\ m \in Manifest /\ disk[m] = "whole"
        /\ Content[rd.image] = Built(m)
    BY <1>1, <2>1, SureFinds DEF ReadInv
  <2>3. c.config = m /\ c.note = m
    BY <2>2 DEF Built
  <2>4. m # None
    BY <2>2, Distinct
  <2>5. PathsDistinct(rd.image)
    BY <1>2, <2>2, BuiltServes
  <2> QED BY <2>2, <2>3, <2>4, <2>5
<1>5. CASE ~ ok
  BY <1>1, <1>3, <1>4, <1>5, GivesUp
<1>6. CASE ok
  <2>1. /\ rd'.pc = "files" /\ rd'.due = rd.due /\ rd'.image = rd.image /\ rd'.k = 1
        /\ rd'.used = {} /\ rd'.ref = rd.ref
    BY <1>1, <1>2, <1>3, <1>6 DEF LayoutTypes
  <2>2. c.config \in Manifest /\ PathsDistinct(rd.image)
    BY <1>2, <1>6, LayoutConstantsOK DEF LayoutConstantsOK
  <2>3. Len(Files[c.config]) \in Nat
    BY <2>2, WritesAre
  <2>4. Reading'
    <3>1. 1 \in 1 .. Len(Files[c.config]) + 1 /\ 1 .. 1 - 1 = {}
      BY <2>3
    <3>2. IsFiniteSet({}) /\ Cardinality({}) = 1 - 1
      BY FS_EmptySet
    <3>3. PathsDistinct(rd.image)'
      BY <2>1, <2>2 DEF PathsDistinct, LayersAt
    <3> QED BY <2>1, <2>2, <3>1, <3>2, <3>3 DEF Reading
  <2>5. Sure' <=> Sure
    BY <2>1 DEF Sure
  <2>6. 1 .. rd'.k - 1 = {}
    BY <2>1
  <2> QED BY <1>1, <2>1, <2>4, <2>5, <2>6 DEF ReadInv
<1> QED BY <1>5, <1>6

\* Each file takes one layer of its own: a new one that no entry before it used.
LEMMA FilesRead == LayoutInv /\ ReadFile => ReadInv'
<1> SUFFICES ASSUME LayoutInv, ReadFile PROVE ReadInv'
  OBVIOUS
<1>1. LayoutTypes /\ ExportInv /\ ReadInv /\ rd.pc = "files" /\ exported' = exported
  BY DEF LayoutInv, ReadFile, Read
<1>2. PICK i, m, k : i = rd.image /\ m = Content[rd.image].config /\ k = rd.k
  OBVIOUS
<1> DEFINE file == Files[m][k]
           fit == {l \in Candidates(i, m, file) \ rd.used : Serves(i, file, l)}
<1>3. /\ i \in Image /\ m \in Manifest /\ PathsDistinct(i)
      /\ IsFiniteSet(rd.used) /\ Cardinality(rd.used) = k - 1
      /\ \A j \in 1 .. k - 1 : \E l \in rd.used : Provides(l, j)
  BY <1>1, <1>2 DEF ReadInv, Reading
<1>4. k \in 1 .. Len(Files[m]) + 1 /\ k <= Len(Files[m])
  BY <1>1, <1>2 DEF ReadFile, ReadInv, Reading
<1>5. k \in DOMAIN Files[m] /\ k \in Nat \ {0} /\ DOMAIN Files[m] = 1 .. Len(Files[m])
      /\ Len(Files[m]) \in Nat
  BY <1>3, <1>4, WritesAre
<1>6. IF fit = {} THEN rd' = [rd EXCEPT !.pc = "failed"]
      ELSE rd' = [rd EXCEPT !.k = @ + 1, !.used = @ \cup fit, !.got = @ \cup {file.digest}]
  BY <1>2 DEF ReadFile, Go
<1>7. Sure => fit = {k} /\ rd.used = 1 .. k - 1
  <2> SUFFICES ASSUME Sure PROVE fit = {k} /\ rd.used = 1 .. k - 1
    OBVIOUS
  <2>1. PICK s : s = rd.due.manifest
    OBVIOUS
  <2>2. /\ i = ImageOf(s) /\ s \in Manifest /\ Content[i] = Built(s) /\ rd.used = 1 .. k - 1
        /\ \A f \in DOMAIN Files[s] : disk[Files[s][f].digest] = "whole" /\ SizeFits(s, f)
    BY <1>1, <1>2, <2>1, SureFinds DEF ReadInv
  <2>3. m = s
    BY <1>2, <2>2 DEF Built
  <2>4. Candidates(i, m, file) = {k} /\ Content[i].layers[k] = Layer(file)
    <3>1. \A j \in DOMAIN Files[m] : /\ Content[i].layers[j] = Layer(Files[m][j])
                                     /\ Candidates(i, m, Files[m][j]) = {j}
      BY <1>3, <2>2, <2>3, BuiltServes
    <3> QED BY <1>5, <3>1
  <2>5. k \notin rd.used
    BY <1>5, <2>2
  <2>6. Serves(i, file, k)
    <3>1. Layer(file).path = file.path /\ [Layer(file) EXCEPT !.path = file.path] = Layer(file)
      BY DEF Layer
    <3>2. disk[file.digest] = "whole" /\ file.size = SizeOf[file.digest]
      BY <1>5, <2>2, <2>3 DEF SizeFits
    <3> QED BY <2>4, <3>1, <3>2 DEF Serves
  <2> QED BY <2>2, <2>4, <2>5, <2>6
<1>8. CASE fit = {}
  <2>1. ~ Sure
    BY <1>7, <1>8
  <2> QED BY <1>1, <1>6, <1>8, <2>1, GivesUp
<1>9. CASE fit # {}
  <2>1. PICK l \in fit : TRUE
    BY <1>9
  <2>2. l \in Candidates(i, m, file) /\ l \notin rd.used /\ Serves(i, file, l)
    BY <2>1
  <2>3. l \in DOMAIN Content[i].layers /\ Candidates(i, m, file) = {l}
    BY <1>3, <1>5, <2>2, OneCandidate
  <2>4. fit = {l}
    BY <2>1, <2>3
  <2>5. Provides(l, k)
    BY <1>2, <1>3, <2>2, <2>3, ServesDigest DEF Provides
  <2>6. rd' = [rd EXCEPT !.k = @ + 1, !.used = @ \cup {l}, !.got = @ \cup {file.digest}]
    BY <1>6, <1>9, <2>4
  <2> HIDE DEF fit
  <2>7. /\ rd'.pc = "files" /\ rd'.due = rd.due /\ rd'.image = i /\ rd'.k = k + 1
        /\ rd'.used = rd.used \cup {l} /\ rd'.ref = rd.ref
    BY <1>1, <1>2, <2>6 DEF LayoutTypes
  <2>8. IsFiniteSet(rd.used \cup {l}) /\ Cardinality(rd.used \cup {l}) = (k + 1) - 1
    BY <1>3, <1>5, <2>2, FS_AddElement
  <2>9. \A j \in 1 .. (k + 1) - 1 : \E x \in rd.used \cup {l} : Provides(x, j)
    <3> SUFFICES ASSUME NEW j \in 1 .. k PROVE \E x \in rd.used \cup {l} : Provides(x, j)
      BY <1>5
    <3>1. j = k \/ j \in 1 .. k - 1
      BY <1>5
    <3> QED BY <1>3, <2>5, <3>1
  <2>10. k + 1 \in 1 .. Len(Files[m]) + 1
    BY <1>4, <1>5
  <2>11. \A x, j : Provides(x, j)' <=> Provides(x, j)
    BY <1>2, <2>7 DEF Provides
  <2>12. Reading'
    <3>1. PathsDistinct(rd.image)'
      BY <1>3, <2>7 DEF PathsDistinct, LayersAt
    <3>2. Content[rd'.image].config = m /\ rd'.pc # "read"
      BY <1>2, <2>7
    <3>3. \A j \in 1 .. rd'.k - 1 : \E x \in rd'.used : Provides(x, j)'
      BY <2>7, <2>9, <2>11
    <3> QED BY <1>3, <2>7, <2>8, <2>10, <3>1, <3>2, <3>3 DEF Reading
  <2>13. Sure' <=> Sure
    BY <2>7 DEF Sure
  <2>14. Sure => rd'.used = 1 .. rd'.k - 1
    <3> SUFFICES ASSUME Sure PROVE rd.used \cup {l} = 1 .. (k + 1) - 1
      BY <2>7
    <3>1. l = k /\ rd.used = 1 .. k - 1
      BY <1>7, <2>4
    <3> QED BY <1>5, <3>1
  <2> QED BY <1>1, <1>2, <2>7, <2>12, <2>13, <2>14 DEF ReadInv
<1> QED BY <1>8, <1>9

LEMMA EndsRead == LayoutInv /\ ReadEnds => ReadInv'
<1> SUFFICES ASSUME LayoutInv, ReadEnds PROVE ReadInv'
  OBVIOUS
<1>1. /\ LayoutTypes /\ ReadInv /\ rd.pc = "files" /\ exported' = exported
      /\ rd' = [rd EXCEPT !.pc = "read"] /\ rd.k > Len(Files[Content[rd.image].config])
  BY DEF LayoutInv, ReadEnds, Read, Go
<1>2. /\ rd'.pc = "read" /\ rd'.due = rd.due /\ rd'.image = rd.image /\ rd'.k = rd.k
      /\ rd'.used = rd.used /\ rd'.ref = rd.ref
  BY <1>1 DEF LayoutTypes
<1>3. Reading
  BY <1>1 DEF ReadInv
<1>4. rd.k = Len(Files[Content[rd.image].config]) + 1
  <2>1. Len(Files[Content[rd.image].config]) \in Nat
    BY <1>3, WritesAre DEF Reading
  <2> QED BY <1>1, <1>3, <2>1 DEF Reading
<1>5. Reading'
  BY <1>2, <1>3, <1>4 DEF Reading, Provides, PathsDistinct, LayersAt
<1>6. Sure' <=> Sure
  BY <1>2 DEF Sure
<1> QED BY <1>1, <1>2, <1>5, <1>6 DEF ReadInv

-----------------------------------------------------------------------------
(***************************************************************************)
(* The layout                                                              *)
(***************************************************************************)
LEMMA LayoutInvHolds == LayoutSpec => []LayoutInv
<1>1. LayoutInit => LayoutInv
  <2> SUFFICES ASSUME LayoutInit PROVE LayoutInv
    OBVIOUS
  <2>1. /\ exp = NoExport /\ exported = None
        /\ rd = [pc |-> "idle", ref |-> None, image |-> None, k |-> 0, used |-> {},
                 got |-> {}, due |-> None]
    BY DEF LayoutInit
  <2>2. /\ layout \in {"1.0.0", "other", Absent, Torn} /\ disk \in [Blob -> FileStates]
        /\ index \notin {Absent, Torn} => DescriptorsLead
    BY LayoutConstantsOK DEF LayoutInit, LayoutConstantsOK, DescriptorsLead
  <2>3. LayoutTypes
    BY <2>1, <2>2 DEF LayoutTypes, LayoutTypeOK, NoExport
  <2>4. ExportInv
    BY <2>1 DEF ExportInv, NoExport
  <2>5. ReadInv
    BY <2>1 DEF ReadInv, Sure
  <2> QED BY <2>3, <2>4, <2>5 DEF LayoutInv
<1>2. LayoutInv /\ [LayoutNext]_layoutVars => LayoutInv'
  <2> SUFFICES ASSUME LayoutInv, [LayoutNext]_layoutVars PROVE LayoutInv'
    OBVIOUS
  <2>1. ReadInv'
    BY ExportersReadNot, LayoutReads, IndexReads, ConfigReads, FilesRead, EndsRead DEF LayoutNext
  <2> QED BY <2>1, TypesStep, ExportStep DEF LayoutInv
<1> QED BY <1>1, <1>2, PTL DEF LayoutSpec

\* The layout file, the index, the blobs, an export and a read stay in their
\* types (transport-oci index.js:36-84, 122-159).
THEOREM LayoutTypeCorrect == LayoutSpec => []LayoutTypeOK
<1>1. LayoutInv => LayoutTypeOK
  BY DEF LayoutInv, LayoutTypes
<1> QED BY <1>1, LayoutInvHolds, PTL

\* What readOciLayout returns is one artifact, whole; a ref whose export has
\* completed reads as exactly that manifest until another export begins; a new
\* index is there only with everything it leads to (transport-oci
\* index.js:36-84, 122-159).
THEOREM ReadsAreExact == LayoutSpec => []LayoutReadsExactly
<1>1. LayoutInv => LayoutReadsExactly
  <2> SUFFICES ASSUME LayoutInv PROVE LayoutReadsExactly
    OBVIOUS
  <2>1. LayoutTypes /\ ExportInv /\ ReadInv
    BY DEF LayoutInv
  <2>2. ASSUME rd.pc = "read"
        PROVE  LET m == Content[rd.image].config IN
                 /\ \A k \in DOMAIN Files[m] : \E l \in rd.used :
                      /\ Content[rd.image].layers[l].digest = Files[m][k].digest
                      /\ Content[rd.image].layers[l].path \in {Files[m][k].path, None}
                 /\ Cardinality(rd.used) = Len(Files[m])
    <3>1. Reading /\ rd.k = Len(Files[Content[rd.image].config]) + 1
      BY <2>1, <2>2 DEF ReadInv, Reading
    <3>2. /\ Len(Files[Content[rd.image].config]) \in Nat
          /\ DOMAIN Files[Content[rd.image].config] = 1 .. Len(Files[Content[rd.image].config])
      BY <3>1, WritesAre DEF Reading
    <3>3. 1 .. rd.k - 1 = DOMAIN Files[Content[rd.image].config]
          /\ rd.k - 1 = Len(Files[Content[rd.image].config])
      BY <3>1, <3>2
    <3> QED BY <3>1, <3>3 DEF Reading, Provides
  <2>3. ASSUME rd.due # None, rd.due.ref = rd.ref
        PROVE  /\ rd.pc # "failed"
               /\ rd.pc = "read" => Content[rd.image].config = rd.due.manifest
    <3>1. Sure
      BY <2>3 DEF Sure
    <3>2. Content[ImageOf(rd.due.manifest)].config = rd.due.manifest
      BY <2>1, <3>1, SureFinds DEF Built
    <3> QED BY <2>1, <3>1, <3>2 DEF ReadInv
  <2>4. ASSUME exp.job # None, index # exp.was, index = <<Descriptor(exp.job)>>
        PROVE  \A d \in Blob \cap {Writes(exp.job.manifest)[k] :
                              k \in DOMAIN Writes(exp.job.manifest)} : disk[d] = "whole"
    <3>1. exp.job \in Exports
      BY <2>1, <2>4 DEF LayoutTypes
    <3>2. index # Torn
      BY <2>4, <3>1, Distinct
    <3>3. Complete(exp.job)
      BY <2>1, <2>4, <3>2 DEF ExportInv
    <3> QED BY <3>3 DEF Complete, InPlace
  <2> QED BY <2>2, <2>3, <2>4 DEF LayoutReadsExactly
<1> QED BY <1>1, LayoutInvHolds, PTL
=============================================================================
