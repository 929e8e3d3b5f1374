------------------------------ MODULE MCEpochIndex ------------------------------
(* EpochIndex for TLC: a day of two hours and a week of two days. *)
EXTENDS EpochIndex

Durations == [e \in Epochs |-> CASE e = "hour" -> 1 [] e = "day" -> 2 [] OTHER -> 4]
===============================================================================
