-------------------------------- MODULE Auth --------------------------------
(***************************************************************************)
(* The bearer tokens of the control plane and what they permit: the pure   *)
(* part of packages/server/src/auth.js.  A check is an operator that gives *)
(* OK or the code of the AuthError it throws; the order of the checks is   *)
(* the code's, because the first failure is what the caller is told.       *)
(*                                                                         *)
(* Text is abstracted.  A token is a record: its form, whether the MAC is  *)
(* this server's, and its claims.  "garbled" stands for every string that  *)
(* is not three canonical base64url segments, "respelt" for a signed token *)
(* whose JSON is not the one spelling createToken would have given it.     *)
(***************************************************************************)
EXTENDS Naturals, Sequences

CONSTANT Site           \* the strings isSiteScope accepts

OK == "OK"
CAPABILITIES == {"plan", "upload", "commit", "activate", "read"}
ERRORS == {"OWA_AUTH_CONFIG", "OWA_AUTH_INVALID_TOKEN",
           "OWA_AUTH_INVALID_SIGNATURE", "OWA_AUTH_EXPIRED", "OWA_AUTH_MISSING",
           "OWA_AUTH_SITE", "OWA_AUTH_CAPABILITY", "OWA_AUTH_DEV_ONLY"}

In(x, s) == \E i \in DOMAIN s : s[i] = x

(***************************************************************************)
(* Claims, minting and verification                                        *)
(***************************************************************************)
SortedUnique(s, max, valid) ==
    /\ Len(s) \in 1 .. max
    /\ \A i \in DOMAIN s : s[i] \in valid
    /\ \A i, j \in DOMAIN s : s[i] = s[j] => i = j

ValidClaims(c) == /\ c.exp > 0
                  /\ SortedUnique(c.sites, 64, Site)
                  /\ SortedUnique(c.caps, 5, CAPABILITIES)

\* What createToken answers to an operator at time now; Minted is the token.
CreateToken(c, now) ==
    IF ~ValidClaims(c) THEN "OWA_AUTH_INVALID_TOKEN"
    ELSE IF c.exp <= now THEN "OWA_AUTH_EXPIRED" ELSE OK

Minted(c) == [form |-> "owa1", mac |-> TRUE,
              exp |-> c.exp, sites |-> c.sites, caps |-> c.caps]

\* The MAC is compared before a claim is read, the expiry last.  (Mutant: the
\* claims are read first.)
ClaimsFirst(t, now) ==
    IF t.form = "garbled" THEN "OWA_AUTH_INVALID_TOKEN"
    ELSE IF t.exp <= now THEN "OWA_AUTH_EXPIRED"
    ELSE IF ~t.mac THEN "OWA_AUTH_INVALID_SIGNATURE"
    ELSE IF ~ValidClaims(t) THEN "OWA_AUTH_INVALID_TOKEN" ELSE OK

VerifyWithKey(t, now) ==
    IF t.form = "garbled" THEN "OWA_AUTH_INVALID_TOKEN"
    ELSE IF ~t.mac THEN "OWA_AUTH_INVALID_SIGNATURE"
    ELSE IF ~ValidClaims(t) \/ t.form = "respelt" THEN "OWA_AUTH_INVALID_TOKEN"
    ELSE IF t.exp <= now THEN "OWA_AUTH_EXPIRED" ELSE OK

(***************************************************************************)
(* Requests.  req.bearer is the sequence of Authorization headers, req.peer*)
(* the address of the socket, req.forwarded whether a forwarding header is *)
(* there.                                                                  *)
(***************************************************************************)
IsLoopback(peer) == peer \in {"::1", "127.0.0.1", "::ffff:127.0.0.1"}

DirectLocal(req) == IsLoopback(req.peer) /\ ~req.forwarded

BearerToken(req) == IF Len(req.bearer) > 1 THEN "OWA_AUTH_INVALID_TOKEN"
                    ELSE IF req.bearer = << >> THEN "OWA_AUTH_MISSING" ELSE OK

\* authorizer.authorize(req, site, required) at time now.
Authorize(mode, req, site, required, now) ==
    IF mode = "dev"
    THEN IF ~DirectLocal(req) THEN "OWA_AUTH_DEV_ONLY"
         ELSE IF site \notin Site THEN "OWA_AUTH_SITE" ELSE OK
    ELSE IF BearerToken(req) # OK THEN BearerToken(req)
    ELSE LET token == req.bearer[1] IN
         IF VerifyWithKey(token, now) # OK THEN VerifyWithKey(token, now)
         ELSE IF site \notin Site \/ ~In(site, token.sites) THEN "OWA_AUTH_SITE"
         ELSE IF \E c \in required : ~In(c, token.caps) THEN "OWA_AUTH_CAPABILITY"
         ELSE OK
=============================================================================
