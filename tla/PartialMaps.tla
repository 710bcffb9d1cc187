---------------------------- MODULE PartialMaps ----------------------------
(***************************************************************************)
(* Partial maps, for the code's HashMaps: the empty one, insert or         *)
(* overwrite one key, drop a set of keys.                                  *)
(***************************************************************************)
EmptyMap == [x \in {} |-> x]
Put(f, k, v) == [x \in DOMAIN f \cup {k} |-> IF x = k THEN v ELSE f[x]]
Drop(f, S) == [x \in DOMAIN f \ S |-> f[x]]
=============================================================================
