---------------------------- MODULE MC_StateStore ----------------------------
(* Instantiates StateStore for TLC: two writers, one account, one storage  *)
(* slot or one name (each cfg says which), one payload, storage words 0..1, *)
(* two transactions.                                                       *)
EXTENDS StateStore

CONSTANTS w1, w2, a1, k1, n1, v1, t1, t2

MCWriters == {w1, w2}
MCBlockTxLists == {<<>>, <<t1>>}
MCSymmetry == Permutations(MCWriters)
=============================================================================
