------------------------------ MODULE MCDaoModules ------------------------------
(* DaoModules for TLC: who is who among contracts of one kind does not matter. *)
EXTENDS DaoModules, TLC

CONSTANTS m1, m2, q1, q2, v1, v2

ContractSymmetry == Permutations({m1, m2}) \cup Permutations({q1, q2}) \cup Permutations({v1, v2})
===============================================================================
