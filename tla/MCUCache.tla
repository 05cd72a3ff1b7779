----------------------------- MODULE MCUCache ------------------------------
(* The instance of UCache for TLC: two names share a hash list. *)
EXTENDS UCache, TLC

CONSTANTS a, b, c

Hash == (a :> 1) @@ (b :> 1) @@ (c :> 2) @@ (NoName :> 0)
\* A cache with a free slot, a full one, and a file with a name twice.
Files == {<<a, NoName, c>>, <<b, c, a>>, <<NoName, a, a>>}
Renamings == Permutations(Clients)
=============================================================================
