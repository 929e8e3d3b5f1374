----------------------------- MODULE MCClaimsIndex -----------------------------
(* ClaimsIndex for TLC. *)
EXTENDS ClaimsIndex

CONSTANT k

OneCollection == [c \in Claims |-> k]
===============================================================================
