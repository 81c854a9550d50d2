--------------------------- MODULE LeaseRegister ---------------------------
(***************************************************************************)
(* What a lease store promises: one expiry per digest that only ever moves *)
(* into the future, and that is forgotten only once it has passed.         *)
(* "Protection is NEVER shortened" in FilesystemLeaseStore, "Refresh never *)
(* shortens" and "removes expired records" in docs/gc.md.                  *)
(***************************************************************************)
EXTENDS Naturals

CONSTANT Digest
VARIABLES now, prot     \* prot[d]: the instant until which d is protected

Init == now = 0 /\ prot = [d \in Digest |-> 0]

Advance == now' = now + 1 /\ UNCHANGED prot

Changes(d) == \A e \in Digest \ {d} : prot'[e] = prot[e]

Extend(d) == prot'[d] > prot[d] /\ Changes(d) /\ UNCHANGED now
Forget(d) == prot[d] <= now /\ prot'[d] = 0 /\ Changes(d) /\ UNCHANGED now

Next == /\ prot' \in [Digest -> Nat]
        /\ Advance \/ \E d \in Digest : Extend(d) \/ Forget(d)

Spec == Init /\ [][Next]_<<now, prot>>
=============================================================================
