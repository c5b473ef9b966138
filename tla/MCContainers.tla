---------------------------- MODULE MCContainers ----------------------------
(***************************************************************************)
(* Containers with keys whose probes collide, wrap around and meet again     *)
(* after a growth; first sizes of one entry, two buckets and four characters *)
(* in place of 8, 8 and 16, so that each container grows twice or more;      *)
(* malloc, arenas and pools with and without room for that.                  *)
(***************************************************************************)
EXTENDS Containers, TLC

CONSTANTS k1, k2, k3, k4, v1, v2, dot, word

MCKeyHash == (k1 :> 7) @@ (k2 :> 7) @@ (k3 :> 8) @@ (k4 :> 3)
MCStrLen == [w \in {k1, k2, k3, k4} |-> 3] @@ [w \in {v1, v2} |-> 15]
            @@ (dot :> 1) @@ (word :> 8)
MCOpenings == {[kind |-> "general", b |-> 0, c |-> 0],
               [kind |-> "arena", b |-> 0, c |-> 900],
               [kind |-> "pool", b |-> 64, c |-> 6],
               [kind |-> "pool", b |-> 128, c |-> 9],
               [kind |-> "pool", b |-> 64, c |-> 11]}
MCPrograms == {{"map"}, {"ints", "raw"}, {"strs"}, {"buf"}}

\* Two keys of one hash, and the two values, stand for each other.
Symmetric == Permutations({k1, k2}) \cup Permutations({v1, v2})
=============================================================================
