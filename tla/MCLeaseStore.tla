---------------------------- MODULE MCLeaseStore ----------------------------
(* Small instances of LeaseStore for TLC.                                  *)
EXTENDS LeaseStore, TLC

CONSTANTS d1, r1, r2, g1

\* Two refreshes of one digest.
Overlapping == r1 :> {d1} @@ r2 :> {d1}
=============================================================================
