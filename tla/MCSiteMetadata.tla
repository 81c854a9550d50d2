--------------------------- MODULE MCSiteMetadata ---------------------------
(* Small instances of SiteMetadata for TLC.                                *)
EXTENDS SiteMetadata, TLC

CONSTANTS s1, w0, w1, w2, w3, w4

OneSlug == [w \in Worker |-> s1]
\* A slug that may have an active release; a publish, a stage, an activation
\* and a request for content.
Mixed == w0 :> "seed" @@ w1 :> "publish" @@ w2 :> "stage" @@ w3 :> "activate"
         @@ w4 :> "serve"
Race  == w1 :> "publish" @@ w2 :> "stage"
=============================================================================
