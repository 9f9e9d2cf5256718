-------------------------- MODULE MCCacheController --------------------------
(***************************************************************************)
(* Two worker agents, in one instance or in two, for TLC.                  *)
(***************************************************************************)
EXTENDS CacheController

CONSTANTS w1, w2, i1, i2

\* The other two assignments only exchange the names of the instances.
OneOrTwoInstances ==
    {[w \in Workers |-> i1], [w \in Workers |-> IF w = w1 THEN i1 ELSE i2]}

=============================================================================
