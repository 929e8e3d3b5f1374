---------------------------- MODULE ArchiveContract ----------------------------
(***************************************************************************)
(* What the rest of the indexer may rely on when it asks the archive node: *)
(* a request is answered with what the chain had under that path at that   *)
(* height, or it fails.  Two things weaken the promise, and callers have   *)
(* to live with both: handlers that a failed attempt left behind are       *)
(* promised nothing, and what they asked for, at the height they were left *)
(* at, may be the answer to a later request.                               *)
(***************************************************************************)
CONSTANTS
    Callers, Paths, Heights,
    Refused         \* pairs <<path, height>> the archive has no answer for

VARIABLES
    request,        \* of each caller
    abandoned       \* the heights of attempts that failed

Idle == [state |-> "idle"]

Request(state, path, height, stray, of) ==
    [state |-> state, path |-> path, height |-> height, stray |-> stray, of |-> of]

Promised(r, of) == r.stray \/ of = r.height \/ of \in abandoned

Init ==
    /\ request = [c \in Callers |-> Idle]
    /\ abandoned = {}

Ask(c) ==
    /\ request[c].state = "idle"
    /\ \E p \in Paths, h \in Heights, stray \in BOOLEAN :
        request' = [request EXCEPT ![c] = Request("asked", p, h, stray, 0)]
    /\ UNCHANGED abandoned

Answer(c) ==
    /\ request[c].state = "asked"
    /\ \E of \in Heights :
        /\ Promised(request[c], of)
        /\ <<request[c].path, of>> \notin Refused
        /\ request' = [request EXCEPT ![c].state = "answered", ![c].of = of]
    /\ UNCHANGED abandoned

Fail(c) ==
    /\ request[c].state = "asked"
    /\ request' = [request EXCEPT ![c].state = "failed"]
    /\ UNCHANGED abandoned

Forget(c) ==
    /\ request[c].state \in {"answered", "failed"}
    /\ request' = [request EXCEPT ![c] = Idle]
    /\ UNCHANGED abandoned

LeftBehind(r) == IF r.state = "idle" THEN r ELSE [r EXCEPT !.stray = TRUE]

Abandon ==
    /\ \E h \in Heights : abandoned' = abandoned \cup {h}
    /\ request' = [c \in Callers |-> LeftBehind(request[c])]

Restart ==
    /\ request' = [c \in Callers |-> Idle]
    /\ abandoned' = {}

Next ==
    \/ \E c \in Callers : Ask(c) \/ Answer(c) \/ Fail(c) \/ Forget(c)
    \/ Abandon
    \/ Restart

Spec == Init /\ [][Next]_<<request, abandoned>>
===============================================================================
