------------------------------ MODULE MCArchiveApi ------------------------------
(* ArchiveApi for TLC: at height 1 the DAO's contract does not exist. *)
EXTENDS ArchiveApi

CONSTANT dao

DaoRefused == {<<dao, 1>>}
===============================================================================
