---------------------------- MODULE MCPublishGC ----------------------------
(* Small instances of PublishGC for TLC.                                   *)
EXTENDS PublishGC, TLC

CONSTANTS d1, d2, s1, p1, p2, c1

\* Two publishers that share their only blob and their site.
SharedNeeds == p1 :> {d1} @@ p2 :> {d1}
SameSite    == p1 :> s1 @@ p2 :> s1
HttpAndLib  == p1 :> "http" @@ p2 :> "library"

\* One publisher whose manifest has two blobs.
OneNeeds == p1 :> {d1, d2}
SingleNeeds == p1 :> {d1}
OneSite  == p1 :> s1
OneHttp  == p1 :> "http"
OneCli   == p1 :> "cli"
=============================================================================
