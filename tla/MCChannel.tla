----------------------------- MODULE MCChannel -----------------------------
(* Instances of Channel for TLC. *)
EXTENDS Channel, TLC

Payload == {0, 7}      \* 0 is the payload a receiver cannot tell from "closed"
Capacities == {0, 2}   \* below one, and a ring that wraps

OnePayload == {7}
OneSlot == {1}

Symmetry == Permutations(Thread)
=============================================================================
