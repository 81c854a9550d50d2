---------------------------- MODULE MCFsBlobStore ----------------------------
(* Small instances of FsBlobStore for TLC.                                 *)
EXTENDS FsBlobStore, TLC

CONSTANTS w1, w2, w3, w4

\* A publisher and an importer, a replayed upload and a collector.
Mixed   == w1 :> "publish" @@ w2 :> "import" @@ w3 :> "replay" @@ w4 :> "sweep"
\* A publisher, a replayed upload and a reader.
Readers == w1 :> "publish" @@ w2 :> "replay" @@ w3 :> "get"
=============================================================================
