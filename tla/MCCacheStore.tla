----------------------------- MODULE MCCacheStore -----------------------------
(* Instances of CacheStore for TLC. *)
EXTENDS CacheStore, TLC

CONSTANTS c1, c2, s1, s2, h1, h2, k1, k2, m1, m2

Sym == Permutations(Client)
OneWarned == {<<s1, h1>>}
===============================================================================
