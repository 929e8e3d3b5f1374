----------------------------- MODULE MCDaoStaking -----------------------------
(***************************************************************************)
(* Values for DaoStaking's constants.                                      *)
(***************************************************************************)
EXTENDS DaoStaking

CONSTANTS coin, art, early, late, pool, votes, group

\* Two modules may rest on one staking contract.
Bases == [m \in {early, late, votes} |-> IF m = votes THEN group ELSE pool]

\* Coins and NFTs are held back, tokens are not.
Durations == [c \in {coin, art, pool, group} |-> IF c \in {coin, art} THEN 1 ELSE 0]

\* Members are interchangeable, and so are NFTs.
Symmetry == Permutations(Members) \cup Permutations(Nfts)
===============================================================================
