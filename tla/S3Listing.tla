----------------------------- MODULE S3Listing -----------------------------
(***************************************************************************)
(* S3BlobStore.listBlobs of packages/storage-s3/src/index.js: the listing  *)
(* owa-gc takes its candidates from, page by page, while other writers and *)
(* collectors change the bucket and the provider may answer wrongly.       *)
(*                                                                         *)
(* Keys are numbered in the order the provider lists them.  A token stands *)
(* for the last key of the page before; it travels XML-escaped.  The body  *)
(* is searched for what it should hold and never checked to be a listing:  *)
(* an answer of status 200 may leave keys out, or the mark that more is to *)
(* come, and is taken at its word.  An answer that names keys which are not*)
(* there is left out.                                                      *)
(***************************************************************************)
EXTENDS Naturals, FiniteSets

CONSTANTS
    Keys,           \* 1 .. the number of keys under the prefix
    BlobKeys,       \* those with the name of a blob
    MaxKeys,        \* maxKeys, keys on a page
    MaxPages,       \* 10 000 in the code
    MaxChanges,     \* changes others make meanwhile
    NoToken

ASSUME ListingBounds ==
    /\ Cardinality(Keys) \in Nat /\ Keys = 1 .. Cardinality(Keys)
    /\ BlobKeys \subseteq Keys /\ NoToken \notin Keys
    /\ MaxKeys \in Nat \ {0} /\ MaxPages \in Nat

VARIABLES
    bucket,         \* the keys there are
    kept,           \* those there all along
    seen,           \* those there at some time
    list,           \* [pc, token, pages]
    out,            \* the blobs found
    page,           \* the answer being read
    withheld,       \* the keys that answers passed over (history)
    changes

listingVars == <<bucket, kept, seen, list, out, page, withheld, changes>>

\* No answer, one that cannot be read to its end, or a status that is no success.
NoPage == [ok |-> FALSE, keys |-> {}, entries |-> "sound", truncated |-> FALSE,
           token |-> NoToken, text |-> "absent"]

\* What follows a token: the key it stands for; NoToken is the beginning.
After(token) == IF token = NoToken THEN 0 ELSE token

Upcoming == {k \in bucket : k > After(list.token)}

PageKeys == {k \in Upcoming : Cardinality({j \in Upcoming : j <= k}) <= MaxKeys}

Last(keys) == CHOOSE k \in keys : \A j \in keys : j <= k

Honest == [ok |-> TRUE, keys |-> PageKeys, entries |-> "sound", truncated |-> PageKeys # Upcoming,
           token |-> IF PageKeys # Upcoming THEN Last(PageKeys) ELSE NoToken,
           text |-> "exact"]

\* Answers whose fault shows: an error, a key that is no XML text, a size or time
\* that is none, a token that is missing, empty or no XML text, the same token
\* once more.
Faulty == {NoPage}
            \cup {[Honest EXCEPT !.entries = e] : e \in {"garbled", "unsized"}}
            \cup {[Honest EXCEPT !.truncated = TRUE, !.text = t] : t \in {"absent", "empty", "garbled"}}
            \cup (IF list.token = NoToken THEN {}
                  ELSE {[Honest EXCEPT !.truncated = TRUE, !.token = list.token]})

\* Answers whose fault does not show: entries without a <Key>, no <IsTruncated>,
\* neither of them, as in a body that is no listing at all.
Silent == {[Honest EXCEPT !.keys = some] : some \in SUBSET PageKeys}
            \cup {[Honest EXCEPT !.keys = some, !.truncated = FALSE] : some \in SUBSET PageKeys}

\* What a successful answer p passes over without a word.
PassedOver(p) == {k \in Upcoming \ p.keys : p.ok /\ (p.truncated => k <= After(p.token))}

ListingInit ==
    /\ bucket \in SUBSET Keys /\ kept = bucket /\ seen = bucket
    /\ list = [pc |-> "ask", token |-> NoToken, pages |-> 0]
    /\ out = {} /\ page = NoPage /\ withheld = {} /\ changes = 0

AskPage ==
    /\ list.pc = "ask"
    /\ page' \in {Honest} \cup Faulty \cup Silent
    /\ withheld' = withheld \cup PassedOver(page')
    /\ list' = [list EXCEPT !.pc = "read"]
    /\ UNCHANGED <<bucket, kept, seen, out, changes>>

\* decodeXmlText gives back exactly what was escaped, or fails.
Decodes(text) == text \in {"exact", "empty"}

\* The token of a truncated answer.  (Mutant: no token, no more pages.)
NoTokenNoMore == page.truncated /\ page.text # "absent" =>
                   Decodes(page.text) /\ page.text # "empty"

TokenOK == page.truncated => page.text # "absent" /\ Decodes(page.text) /\ page.text # "empty"

\* The blobs of a page.  A key that does not decode fails the listing, whatever it
\* names; a size or time that is none does where the key is a blob's.
ReadPage ==
    /\ list.pc = "read" /\ page' = NoPage
    /\ LET found == page.keys \cap BlobKeys
           more == page.truncated /\ page.text # "absent"
           bad == \/ ~page.ok \/ ~TokenOK \/ page.entries = "garbled"
                  \/ (page.entries = "unsized" /\ found # {})
                  \/ list.pages + 1 > MaxPages IN
         IF bad THEN list' = [list EXCEPT !.pc = "failed"] /\ out' = {}
         ELSE /\ list' = [pc |-> IF more THEN "ask" ELSE "done", pages |-> list.pages + 1,
                          token |-> IF more THEN page.token ELSE NoToken]
              /\ out' = out \cup found
    /\ UNCHANGED <<bucket, kept, seen, withheld, changes>>

\* Uploads and deletions of others.
BucketChanges(k) ==
    /\ list.pc \in {"ask", "read"} /\ changes < MaxChanges /\ changes' = changes + 1
    /\ bucket' = IF k \in bucket THEN bucket \ {k} ELSE bucket \cup {k}
    /\ kept' = kept \cap bucket' /\ seen' = seen \cup bucket'
    /\ UNCHANGED <<list, out, page, withheld>>

ListingNext == AskPage \/ ReadPage \/ \E k \in Keys : BucketChanges(k)

ListingSpec == ListingInit /\ [][ListingNext]_listingVars

(***************************************************************************)
(* Properties                                                              *)
(***************************************************************************)
ListingTypeOK ==
    /\ bucket \subseteq Keys /\ kept \subseteq bucket /\ bucket \subseteq seen
    /\ list.pc \in {"ask", "read", "done", "failed"} /\ list.pages \in 0 .. MaxPages
    /\ out \subseteq BlobKeys /\ withheld \subseteq seen

\* A listing that returns misses a blob that was there throughout only if an
\* answer that looked whole passed over it, on its page or by not saying that more
\* was to come; it names no blob that never was and nothing that is no blob.  An
\* error, a broken key, token, size or time, or a page too many fails it
\* (storage-s3 index.js:272-315).
ListingIsComplete ==
    list.pc = "done" => /\ kept \cap BlobKeys \subseteq out \cup withheld
                        /\ out \subseteq seen \cap BlobKeys
=============================================================================
