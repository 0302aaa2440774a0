----------------------------- MODULE MCDelivery -----------------------------
(***************************************************************************)
(* Small instances of Delivery for TLC.                                    *)
(***************************************************************************)
EXTENDS DeliveryPromise, TLC

Symmetry == Permutations(Server)

\* No retry limit, and a limit of one retry.
EndlessOrOne == {-1, 1}
=============================================================================
