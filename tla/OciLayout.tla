----------------------------- MODULE OciLayout -----------------------------
(***************************************************************************)
(* The OCI image layout of packages/transport-oci/src/index.js: an         *)
(* exporter (writeOciLayout) and a reader (readOciLayout) on one directory.*)
(*                                                                         *)
(* Every file is written in place, truncated and then filled, so a crash   *)
(* leaves a torn file and a reader may meet one; the order of the writes,  *)
(* the digests and the selection rules are all that protect the reader.    *)
(*                                                                         *)
(* Blobs are content addressed: a blob is named by what it should hold, and*)
(* the disk says whether it does.  What a manifest or an OCI manifest holds*)
(* is a constant function of its name.                                     *)
(***************************************************************************)
EXTENDS Naturals, Sequences, FiniteSets

CONSTANTS
    Manifest,       \* digests of OWA manifests
    Files,          \* Files[m]: its entries, [path, digest, size, type] in order
    Image,          \* digests of OCI manifests
    Content,        \* Content[i]: [artifact, config, layers, note]
    Body,           \* digests of file contents
    SizeOf,         \* SizeOf[d]: the length of those contents
    Bare,           \* media types an OCI descriptor can carry
    Exports,        \* [manifest, ref] an exporter may be asked for
    Refs,           \* refs a reader may ask for
    Found,          \* [layout, index, disk] of directories that already exist
    MaxExports, MaxReads,
    Absent, Torn,   \* a file that is not there; one cut short or altered
    None

VARIABLES
    layout,         \* oci-layout
    index,          \* index.json: its descriptors, Absent or Torn
    disk,           \* disk[d]: "whole", Absent or Torn
    exp,            \* the exporter: [pc, job, k], and the index as it was
    rd,             \* the reader
    exported,       \* what the directory holds since an export completed
    calls           \* [exports, reads] made, for the bounds

layoutVars == <<layout, index, disk, exp, rd, exported, calls>>

Blob == Manifest \cup Image \cup Body

(***************************************************************************)
(* What is written                                                         *)
(***************************************************************************)
\* A media type is [essence, params]; the descriptor carries the bare essence.
LayerMediaType(type) == IF type.essence \in Bare THEN type.essence
                                                 ELSE "application/octet-stream"

Layer(file) == [path |-> file.path, digest |-> file.digest, size |-> file.size,
                type |-> LayerMediaType(file.type)]

Built(m) == [artifact |-> TRUE, config |-> m, note |-> m,
             layers |-> [k \in DOMAIN Files[m] |-> Layer(Files[m][k])]]

\* The digest of the OCI manifest an export of m writes; ref is no part of it.
ImageOf(m) == CHOOSE i \in Image : Content[i] = Built(m)

ASSUME ExportsHaveImages == \A e \in Exports : \E i \in Image : Content[i] = Built(e.manifest)

Descriptor(e) == [ref |-> e.ref, image |-> ImageOf(e.manifest), type |-> "manifest"]

FileStates == {"whole", Absent, Torn}

\* validateManifest refuses two files of one path, and a path that does not
\* begin with "/".  A digest may be that of a manifest and of a file.
ASSUME LayoutConstantsOK ==
    /\ {"layout", "index"} \cap Blob = {}
    /\ Absent # Torn /\ {Absent, Torn} \cap {"whole", "1.0.0"} = {}
    /\ None \notin Manifest /\ None \notin Exports
    /\ \A e \in Exports : e.manifest \in Manifest /\ <<Descriptor(e)>> \notin {Absent, Torn}
    /\ \A m \in Manifest :
         /\ Len(Files[m]) \in Nat /\ DOMAIN Files[m] = 1 .. Len(Files[m])
         /\ \A k \in DOMAIN Files[m] :
              /\ Files[m][k].digest \in Body /\ Files[m][k].path \notin {None, "odd"}
              /\ \A j \in DOMAIN Files[m] : Files[m][j].path = Files[m][k].path => j = k
    /\ \A i \in Image :
         /\ Content[i].config \in Manifest \cup {None}
         /\ \A l \in DOMAIN Content[i].layers : LET layer == Content[i].layers[l] IN
              layer = [path |-> layer.path, digest |-> layer.digest, size |-> layer.size,
                       type |-> layer.type]
    /\ \A f \in Found :
         /\ f.layout \in {"1.0.0", "other", Absent, Torn} /\ f.disk \in [Blob -> FileStates]
         /\ f.index \notin {Absent, Torn} =>
              \A k \in DOMAIN f.index : f.index[k].type = "manifest" => f.index[k].image \in Image

\* (Mutant: index.json before the blobs it leads to.)
IndexFirst(m) == <<"layout", "index", m>> \o [k \in DOMAIN Files[m] |-> Files[m][k].digest]
                     \o <<ImageOf(m)>>

Writes(m) == <<"layout", m>> \o [k \in DOMAIN Files[m] |-> Files[m][k].digest]
                 \o <<ImageOf(m), "index">>

Target == Writes(exp.job.manifest)[exp.k]

\* The write is one of the loop over manifest.files.
WritesBody == exp.k - 2 \in DOMAIN Files[exp.job.manifest]

(***************************************************************************)
(* The exporter                                                            *)
(***************************************************************************)
NoExport == [pc |-> "idle", job |-> None, k |-> 0, was |-> Absent]

LayoutInit ==
    /\ \E f \in Found : layout = f.layout /\ index = f.index /\ disk = f.disk
    /\ exp = NoExport /\ exported = None
    /\ rd = [pc |-> "idle", ref |-> None, image |-> None, k |-> 0, used |-> {},
             got |-> {}, due |-> None]
    /\ calls = [exports |-> 0, reads |-> 0]

BeginExport ==
    /\ exp.pc \in {"idle", "done", "stopped"} /\ calls.exports < MaxExports
    /\ \E e \in Exports : exp' = [pc |-> "open", job |-> e, k |-> 1, was |-> index]
    /\ exported' = None /\ rd' = [rd EXCEPT !.due = None]
    /\ calls' = [calls EXCEPT !.exports = @ + 1]
    /\ UNCHANGED <<layout, index, disk>>

\* What one write makes of the directory, with v where the file was.
Put(target, v) ==
    CASE target = "layout" -> layout' = v /\ UNCHANGED <<index, disk>>
      [] target = "index"  -> index' = v /\ UNCHANGED <<layout, disk>>
      [] OTHER -> disk' = [disk EXCEPT ![target] = v] /\ UNCHANGED <<layout, index>>

Filling == CASE Target = "layout" -> "1.0.0"
             [] Target = "index"  -> <<Descriptor(exp.job)>>
             [] OTHER -> "whole"

\* writeFile truncates, after the checks of the source's answer for a body.
OpenTarget ==
    /\ exp.pc = "open"
    /\ WritesBody => Files[exp.job.manifest][exp.k - 2].size = SizeOf[Target]
    /\ Put(Target, Torn) /\ exp' = [exp EXCEPT !.pc = "fill"]
    /\ UNCHANGED <<rd, exported, calls>>

\* The source fails, or gives bytes of another size or digest.
SourceFails ==
    /\ exp.pc = "open" /\ WritesBody
    /\ exp' = [exp EXCEPT !.pc = "stopped"]
    /\ UNCHANGED <<layout, index, disk, rd, exported, calls>>

FillTarget ==
    /\ exp.pc = "fill"
    /\ Put(Target, Filling)
    /\ IF exp.k = Len(Writes(exp.job.manifest))
       THEN exp' = [exp EXCEPT !.pc = "done"] /\ exported' = exp.job
       ELSE exp' = [exp EXCEPT !.pc = "open", !.k = @ + 1] /\ UNCHANGED exported
    /\ UNCHANGED <<rd, calls>>

\* The process dies, or a write fails half way: nothing is undone.
ExportStops ==
    /\ exp.pc \in {"open", "fill"} /\ exp' = [exp EXCEPT !.pc = "stopped"]
    /\ UNCHANGED <<layout, index, disk, rd, exported, calls>>

(***************************************************************************)
(* The reader                                                              *)
(***************************************************************************)
\* selectIndexDescriptor: exactly one exact match.  An entry without a string
\* annotation has ref None.
Matching(entries, ref) == {k \in DOMAIN entries : entries[k].ref = ref}

LayersAt(image, path) == {l \in DOMAIN Content[image].layers : Content[image].layers[l].path = path}

\* A layer without the annotation key has path None, one whose value is no
\* string "odd".
LayersOf(image, digest) == {l \in DOMAIN Content[image].layers :
                              Content[image].layers[l].digest = digest}

\* indexLayers refuses two layers that claim one path.
PathsDistinct(image) ==
    \A l \in DOMAIN Content[image].layers :
      Content[image].layers[l].path \notin {None, "odd"} =>
        LayersAt(image, Content[image].layers[l].path) = {l}

\* selectLayer: the layer of that path, else the only one of that digest if it
\* has no path and no other file has the digest.
Candidates(image, m, file) ==
    IF LayersAt(image, file.path) # {} THEN LayersAt(image, file.path)
    ELSE {l \in LayersOf(image, file.digest) :
            /\ LayersOf(image, file.digest) = {l}
            /\ Content[image].layers[l].path = None
            /\ Cardinality({k \in DOMAIN Files[m] : Files[m][k].digest = file.digest}) = 1}

Go(pc) == rd' = [rd EXCEPT !.pc = pc]

Check(ok, pc) == Go(IF ok THEN pc ELSE "failed")

Read == UNCHANGED <<layout, index, disk, exp, exported, calls>>

BeginRead ==
    /\ rd.pc \in {"idle", "read", "failed"} /\ calls.reads < MaxReads
    /\ \E ref \in Refs :
         rd' = [pc |-> "layout", ref |-> ref, image |-> None, k |-> 1, used |-> {},
                got |-> {}, due |-> exported]
    /\ calls' = [calls EXCEPT !.reads = @ + 1]
    /\ UNCHANGED <<layout, index, disk, exp, exported>>

ReadLayoutFile == rd.pc = "layout" /\ Check(layout = "1.0.0", "index") /\ Read

ReadIndex ==
    /\ rd.pc = "index" /\ Read
    /\ IF index \in {Absent, Torn} \/ Cardinality(Matching(index, rd.ref)) # 1 THEN Go("failed")
       ELSE LET d == index[CHOOSE k \in Matching(index, rd.ref) : TRUE] IN
            IF d.type = "manifest" THEN rd' = [rd EXCEPT !.pc = "image", !.image = d.image]
                                   ELSE Go("failed")

ReadImage == /\ rd.pc = "image" /\ Read
             /\ Check(disk[rd.image] = "whole" /\ Content[rd.image].artifact, "config")

\* A config that is no canonical OWA manifest is None.
ReadConfig ==
    /\ rd.pc = "config" /\ Read
    /\ LET c == Content[rd.image] IN
         Check(/\ c.config # None /\ disk[c.config] = "whole"
               /\ c.note \in {None, c.config} /\ PathsDistinct(rd.image), "files")

\* Bytes already verified for another file of that digest are not read again.
Serves(image, file, l) ==
    LET layer == Content[image].layers[l] IN
      /\ layer.path \in {file.path, None}
      /\ [layer EXCEPT !.path = file.path] = Layer(file)
      /\ file.digest \in rd.got \/ disk[file.digest] = "whole"
      /\ file.size = SizeOf[file.digest]

ReadFile ==
    /\ rd.pc = "files" /\ rd.k <= Len(Files[Content[rd.image].config]) /\ Read
    /\ LET m == Content[rd.image].config
           file == Files[m][rd.k]
           fit == {l \in Candidates(rd.image, m, file) \ rd.used : Serves(rd.image, file, l)} IN
         IF fit = {} THEN Go("failed")
         ELSE rd' = [rd EXCEPT !.k = @ + 1, !.used = @ \cup fit, !.got = @ \cup {file.digest}]

ReadEnds == /\ rd.pc = "files" /\ rd.k > Len(Files[Content[rd.image].config])
            /\ Go("read") /\ Read

LayoutNext == \/ BeginExport \/ OpenTarget \/ SourceFails \/ FillTarget \/ ExportStops
              \/ BeginRead \/ ReadLayoutFile \/ ReadIndex \/ ReadImage \/ ReadConfig
              \/ ReadFile \/ ReadEnds

LayoutSpec == LayoutInit /\ [][LayoutNext]_layoutVars

(***************************************************************************)
(* Properties                                                              *)
(***************************************************************************)
LayoutTypeOK ==
    /\ layout \in {"1.0.0", "other", Absent, Torn} /\ disk \in [Blob -> FileStates]
    /\ exp.pc \in {"idle", "open", "fill", "done", "stopped"}
    /\ rd.pc \in {"idle", "layout", "index", "image", "config", "files", "read", "failed"}
    /\ rd.got \subseteq Body /\ exported \in Exports \cup {None}

\* What readOciLayout returns is one artifact, whole: every entry's bytes came
\* through a layer of their own that claims no other path.  Once an export has
\* completed, whatever it wrote over and however often it was cut short before,
\* the ref it was given reads as exactly that manifest until another export
\* begins; and an export shows a new index only when everything the index leads
\* to is there (transport-oci index.js:36-84, 122-159).
LayoutReadsExactly ==
    /\ rd.pc = "read" =>
         LET m == Content[rd.image].config IN
           /\ \A k \in DOMAIN Files[m] : \E l \in rd.used :
                /\ Content[rd.image].layers[l].digest = Files[m][k].digest
                /\ Content[rd.image].layers[l].path \in {Files[m][k].path, None}
           /\ Cardinality(rd.used) = Len(Files[m])
    /\ rd.due # None /\ rd.due.ref = rd.ref =>
         /\ rd.pc # "failed"
         /\ rd.pc = "read" => Content[rd.image].config = rd.due.manifest
    /\ exp.job # None /\ index # exp.was /\ index = <<Descriptor(exp.job)>> =>
         \A d \in Blob \cap {Writes(exp.job.manifest)[k] :
                              k \in DOMAIN Writes(exp.job.manifest)} : disk[d] = "whole"
=============================================================================
