----------------------------- MODULE FsBlobStore -----------------------------
(***************************************************************************)
(* One blob of FilesystemBlobStore while publishers, replayed uploads,     *)
(* readers and a collector use its file.                                   *)
(*                                                                         *)
(* put() is writeFile on the key itself: it empties the file and refills   *)
(* it piece by piece.  has(), verifyBlob() and get() look at the file      *)
(* between any two of those steps, a verification looks at it several      *)
(* times, a process may die at any of them, and rm leaves whoever has the  *)
(* file open with a file that has no name.                                 *)
(*                                                                         *)
(* The bytes put are always those the digest names: the upload route       *)
(* hashes them first, the packer and the importer have just hashed them.   *)
(***************************************************************************)
EXTENDS Integers, FiniteSets

CONSTANTS
    Worker,         \* requests and commands, each carried out once
    Kind,           \* Kind[w]: what w does
    Chunks,         \* pieces in which a blob is written and read
    Crashes,        \* processes may die between two steps
    Absent, Old     \* no file; the file there was to begin with

Kinds == {"publish", "import", "replay", "get", "sweep"}

ASSUME ConstantsOK ==
    /\ Kind \in [Worker -> Kinds]
    /\ Chunks \in Nat \ {0}
    /\ Crashes \in BOOLEAN
    /\ Absent # Old /\ {Absent, Old} \cap Worker = {}

Piece == 1..Chunks
Inode == Worker \cup {Old}     \* a file is named by the put that created it

VARIABLES
    name,       \* the file at the blob's key, or Absent
    data,       \* data[i]: the pieces of file i that hold the blob's bytes
    pc,         \* pc[w]: where w is
    gate,       \* gate[w]: w is committing, no longer deciding about reuse
    fd,         \* fd[w]: the file w has open
    at,         \* at[w]: the piece w reads or writes next
    size,       \* size[w]: the length lstat reported
    good,       \* good[w]: the pieces w has read were the blob's
    disturbed   \* history: another process changed the file while w ran

vars == <<name, data, pc, gate, fd, at, size, good, disturbed>>

Ended == {"committed", "done", "failed", "dead"}
Start == [publish |-> "has", import |-> "has", replay |-> "create",
          get |-> "open", sweep |-> "delete"]
Running(w) == pc[w] \notin Ended /\ pc[w] # Start[Kind[w]]

\* A file is as long as its last piece; one written past its end has a hole.
Length(i) == Cardinality({n \in Piece : \E m \in data[i] : n <= m})
Whole(i) == data[i] = Piece

Goto(w, phase) == pc' = [pc EXCEPT ![w] = phase]
Disturb(w) ==
    disturbed' = [v \in Worker |-> disturbed[v] \/ (v # w /\ Running(v))]

-----------------------------------------------------------------------------
(* Deciding whether to reuse: planManifest for a remote publisher,         *)
(* publishDirectory, the importer.                                         *)

\* What is there is verified before it is reused; the importer leaves that to
\* the commit.  (Mutant: what is there counts as reusable.)
PresentIsReusable(w) == TRUE
TrustsPresent(w) == Kind[w] = "import"

Has(w) ==
    /\ pc[w] = "has"
    /\ Goto(w, IF name = Absent THEN "create" ELSE "lstat")
    /\ gate' = [gate EXCEPT ![w] = name # Absent /\ TrustsPresent(w)]
    /\ UNCHANGED <<name, data, fd, at, size, good, disturbed>>

\* After a verification: a blob that is missing or corrupt is (re)written, one
\* that verifies is reused, one that cannot be verified fails the publish.  The
\* integrity gate of the commit accepts only one that verifies.
Decide(w, outcome) ==
    /\ Goto(w, IF outcome = "ok" THEN IF gate[w] THEN "committed" ELSE "lstat"
               ELSE IF ~gate[w] /\ outcome \in {"missing", "corrupt"} THEN "create"
               ELSE "failed")
    /\ gate' = [gate EXCEPT ![w] = gate[w] \/ outcome = "ok"]

-----------------------------------------------------------------------------
(* verifyBlob, and get.                                                    *)

Lstat(w) ==
    /\ pc[w] = "lstat"
    /\ IF name = Absent
         THEN Decide(w, "missing") /\ UNCHANGED size
         ELSE /\ size' = [size EXCEPT ![w] = Length(name)]
              /\ Goto(w, "open") /\ UNCHANGED gate
    /\ UNCHANGED <<name, data, fd, at, good, disturbed>>

\* A release must exist for content to be asked for.
OpenToRead(w) ==
    /\ pc[w] = "open"
    /\ Kind[w] = "get" => \E v \in Worker : pc[v] = "committed"
    /\ IF name = Absent
         THEN /\ IF Kind[w] = "get" THEN Goto(w, "failed") /\ UNCHANGED gate
                                    ELSE Decide(w, "unverified")
              /\ UNCHANGED <<fd, at, good>>
         ELSE /\ fd' = [fd EXCEPT ![w] = name]
              /\ at' = [at EXCEPT ![w] = 1]
              /\ good' = [good EXCEPT ![w] = TRUE]
              /\ Goto(w, "reading") /\ UNCHANGED gate
    /\ UNCHANGED <<name, data, size, disturbed>>

Read(w) ==
    /\ pc[w] = "reading" /\ at[w] <= Length(fd[w])
    /\ at' = [at EXCEPT ![w] = at[w] + 1]
    /\ good' = [good EXCEPT ![w] = good[w] /\ at[w] \in data[fd[w]]]
    /\ UNCHANGED <<name, data, pc, gate, fd, size, disturbed>>

\* The bytes counted against the length reported, then hashed.  (Mutant: a blob
\* of the right length passes.)
LengthOnly(w) == IF at[w] - 1 # size[w] THEN "unverified"
                 ELSE IF at[w] - 1 = Chunks THEN "ok" ELSE "corrupt"
Verdict(w) == IF at[w] - 1 # size[w] THEN "unverified"
              ELSE IF good[w] /\ at[w] - 1 = Chunks THEN "ok" ELSE "corrupt"

ReadEnd(w) ==
    /\ pc[w] = "reading" /\ at[w] > Length(fd[w])
    /\ IF Kind[w] = "get" THEN Goto(w, "done") /\ UNCHANGED gate
                          ELSE Decide(w, Verdict(w))
    /\ UNCHANGED <<name, data, fd, at, size, good, disturbed>>

-----------------------------------------------------------------------------
(* put: open with O_TRUNC, write, close.  A remote publisher's put is the  *)
(* upload route's; a replay uses a grant that is still valid again.        *)

Create(w) ==
    LET i == IF name = Absent THEN w ELSE name
    IN /\ pc[w] = "create"
       /\ name' = i
       /\ data' = [data EXCEPT ![i] = {}]
       /\ fd' = [fd EXCEPT ![w] = i]
       /\ at' = [at EXCEPT ![w] = 1]
       /\ Goto(w, "writing")
       /\ Disturb(w)
       /\ UNCHANGED <<gate, size, good>>

\* (Mutant: one write too many.)
OneMore(w) == at[w] > Chunks
LastPiece(w) == at[w] = Chunks

Write(w) ==
    /\ pc[w] = "writing"
    /\ data' = [data EXCEPT ![fd[w]] = @ \cup {at[w]}]
    /\ at' = [at EXCEPT ![w] = at[w] + 1]
    /\ Goto(w, IF ~LastPiece(w) THEN "writing"
               ELSE IF Kind[w] = "replay" THEN "done" ELSE "lstat")
    /\ gate' = [gate EXCEPT ![w] = LastPiece(w)]
    /\ Disturb(w)
    /\ UNCHANGED <<name, fd, size, good>>

-----------------------------------------------------------------------------
(* delete: lstat, then rm.  And the death of a process.                    *)

Delete(w) ==
    /\ pc[w] = "delete"
    /\ Goto(w, IF name = Absent THEN "done" ELSE "rm")
    /\ UNCHANGED <<name, data, gate, fd, at, size, good, disturbed>>

Rm(w) ==
    /\ pc[w] = "rm"
    /\ name' = Absent
    /\ Goto(w, "done")
    /\ Disturb(w)
    /\ UNCHANGED <<data, gate, fd, at, size, good>>

Die(w) ==
    /\ Crashes /\ pc[w] \notin Ended
    /\ Goto(w, "dead")
    /\ UNCHANGED <<name, data, gate, fd, at, size, good, disturbed>>

-----------------------------------------------------------------------------

\* A put that died earlier may have left any pieces behind.
Init ==
    /\ name \in {Absent, Old}
    /\ \E p \in SUBSET Piece :
         data = [i \in Inode |-> IF i = name THEN p ELSE {}]
    /\ pc = [w \in Worker |-> Start[Kind[w]]]
    /\ gate = [w \in Worker |-> FALSE]
    /\ fd = [w \in Worker |-> Old]
    /\ at = [w \in Worker |-> 1]
    /\ size = [w \in Worker |-> 0]
    /\ good = [w \in Worker |-> TRUE]
    /\ disturbed = [w \in Worker |-> FALSE]

Step(w) ==
    \/ Has(w) \/ Lstat(w) \/ OpenToRead(w) \/ Read(w) \/ ReadEnd(w)
    \/ Create(w) \/ Write(w) \/ Delete(w) \/ Rm(w)

Next == \E w \in Worker : Step(w) \/ Die(w)

Spec == Init /\ [][Next]_vars

-----------------------------------------------------------------------------
(* Properties.                                                             *)

\* Every variable keeps its shape.
TypeOK ==
    /\ name \in Inode \cup {Absent}
    /\ data \in [Inode -> SUBSET Piece]
    /\ pc \in [Worker -> Ended \cup {"has", "lstat", "open", "reading", "create",
                                     "writing", "delete", "rm"}]
    /\ gate \in [Worker -> BOOLEAN]
    /\ fd \in [Worker -> Inode]
    /\ at \in [Worker -> 1..(Chunks + 1)]
    /\ size \in [Worker -> 0..Chunks]
    /\ good \in [Worker -> BOOLEAN] /\ disturbed \in [Worker -> BOOLEAN]

\* No process has died and no collector has been at the blob.
Calm == \A w \in Worker : pc[w] # "dead" /\ (Kind[w] = "sweep" => pc[w] # "done")

\* Whatever publishers, replays and readers do to a blob at once, while no process
\* dies and nothing is swept, as soon as none of them is writing a blob some commit
\* accepted is at its key, whole: writers that empty each other's file all refill it.
WholeWhenQuiet ==
    /\ Calm
    /\ \E w \in Worker : pc[w] = "committed"
    /\ \A w \in Worker : pc[w] # "writing"
    => name # Absent /\ Whole(name)

\* The gate of a commit that nobody disturbed has accepted a whole blob, whatever
\* a put that died had left at the key.
CommitIsSound ==
    [][\A w \in Worker :
         pc[w] # "committed" /\ pc'[w] = "committed" /\ ~disturbed[w]
         => name # Absent /\ Whole(name)]_vars

\* docs/integrity.md: a corrupt object is repaired by the next publish.  A publish
\* fails only when another process changed the file under it.
FailureIsDisturbance ==
    \A w \in Worker : Kind[w] = "publish" /\ pc[w] = "failed" => disturbed[w]

\* docs/integrity.md: the replay of a grant can only restore identical content.
\* What is served after a commit, with no collector and no crash, is the blob.
ServedIsWhole ==
    \A w \in Worker : Kind[w] = "get" /\ pc[w] = "done" =>
        good[w] /\ at[w] - 1 = Chunks
=============================================================================
