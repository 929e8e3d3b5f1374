------------------------------- MODULE EpochIndex -------------------------------
(***************************************************************************)
(* The epochs of the chain and their rows (postgres/epoch.ts).  The events *)
(* say that epoch number so-and-so ended or started, not of which kind, so *)
(* the handler asks the archive for all epochs and looks for the number.   *)
(* In the block that starts them all, every kind is at 1, and a module     *)
(* variable counts through the three instead; it is not part of the        *)
(* transaction.                                                            *)
(*                                                                         *)
(* Attempts fail and are repeated by the same process, which exits after   *)
(* too many; the answer to COMMIT may be lost; the process may crash       *)
(* anywhere.  What the archive answers is what ArchiveContract promises.   *)
(* A block here is one that the loop resumes after, not block 1.           *)
(***************************************************************************)
EXTENDS Naturals, Sequences, FiniteSets

CONSTANTS
    Duration,       \* of each kind of epoch, in units of chain time
    MaxErrors,      \* failed attempts in a row that do not end the process
    MaxHeight,      \* bound: blocks
    MaxFaults       \* bound: attempts that fail, answers lost, crashes

\* The order in which the chain keeps, lists and starts them.
Order == <<"day", "hour", "week">>
Epochs == {Order[i] : i \in 1 .. 3}

ASSUME EpochParameters ==
    /\ Duration \in [Epochs -> Nat \ {0}]
    /\ {MaxErrors, MaxHeight, MaxFaults} \subseteq Nat

VARIABLES
    time,       \* of the chain's newest block
    current,    \* the number of each kind's epoch, after each block
    store,      \* the database: epoch, epoch_event
    txn,        \* the open transaction's view of it
    indexed,    \* blocks committed
    pos,        \* events of the block handled in this attempt
    initiated,  \* initiatedEpochs
    answer,     \* the height the cached list of epochs is about, 0 for none
    abandoned,  \* the heights of attempts that failed in this process
    errors,     \* in a row
    faults,
    tainted     \* blocks whose rows are not to be relied upon, see Misleads

chainVars == <<time, current>>
vars == <<chainVars, store, txn, indexed, pos, initiated, answer, abandoned,
          errors, faults, tainted>>

block == Len(current)

\* height: of the chain row; named: the last of the first epochs named by
\* what is committed or this transaction; odd: this transaction was misled.
NoRows == [epoch |-> << >>, events |-> {}, height |-> 0, named |-> "none", odd |-> FALSE]

Init ==
    /\ time = 0
    /\ current = <<[e \in Epochs |-> 1]>>
    /\ store = NoRows
    /\ txn = NoRows
    /\ indexed = 0
    /\ pos = 0
    /\ initiated = "none"
    /\ answer = 0
    /\ abandoned = {}
    /\ errors = 0
    /\ faults = 0
    /\ tainted = {}

----------------------------------------------------------------------------
(* The chain. *)

Started(e, h) == h = 1 \/ current[h][e] # current[h - 1][e]

EventsOfEpoch(e, h) ==
    IF ~ Started(e, h) THEN << >>
    ELSE (IF h = 1 THEN << >> ELSE <<[type |-> "end", number |-> current[h - 1][e]]>>)
         \o <<[type |-> "start", number |-> current[h][e]]>>

events == EventsOfEpoch(Order[1], block) \o EventsOfEpoch(Order[2], block)
             \o EventsOfEpoch(Order[3], block)

\* Blocks are less than the shortest epoch apart.
ChainAdvances ==
    /\ indexed = block
    /\ block < MaxHeight
    /\ \E elapsed \in {0, 1} :
        /\ time' = time + elapsed
        /\ current' = Append(current,
              [e \in Epochs |-> IF elapsed = 1 /\ time' % Duration[e] = 0
                                THEN current[block][e] + 1 ELSE current[block][e]])
    /\ pos' = 0
    /\ answer' = 0
    /\ UNCHANGED <<store, txn, indexed, initiated, abandoned, errors, faults, tainted>>

----------------------------------------------------------------------------
(* The handler: epochStartedOrEnded. *)

Unknown == "unknown"

\* The first epoch that is at that number.
Find(epochs, n) ==
    LET at == SelectSeq(Order, LAMBDA e : epochs[e] = n)
    IN  IF at = << >> THEN Unknown ELSE Head(at)

Initiated ==
    CASE initiated = "none" -> "day"
      [] initiated = "day" -> "hour"
      [] initiated = "hour" -> "week"
      [] OTHER -> Unknown

\* Of the epochs that all start with 1, the next; when there were three
\* already, what Find says.
StartedEpoch(epochs, n) ==
    IF n = 1 /\ Initiated # Unknown THEN Initiated ELSE Find(epochs, n)

\* Bug: the number is looked for as it is in the event.
EndedEpochSame(epochs, n) == Find(epochs, n)

\* It has gone on to the next by the end of the block.
EndedEpoch(epochs, n) == Find(epochs, n + 1)

\* Bug: the table takes an event without one.
NamesOrNull == Epochs \cup {Unknown}

\* What the table of events takes for an identifier.
Names == Epochs

Misleads(ev, of) == of # block \/ (ev.type = "start" /\ ev.number = 1 /\ initiated # txn.named)

Named(ev, epochs) ==
    IF ev.type = "start" THEN StartedEpoch(epochs, ev.number) ELSE EndedEpoch(epochs, ev.number)

AfterStart(rows, ev, epochs, name) ==
    LET row == [no |-> Cardinality(rows.events) + 1, number |-> ev.number, name |-> name,
                start |-> block, end |-> 0]
    IN  [rows EXCEPT !.epoch = epochs, !.events = @ \cup {row},
                     !.named = IF ev.number = 1 THEN name ELSE @]

AfterEnd(rows, ev, name) ==
    [rows EXCEPT !.events =
        {IF r.number = ev.number /\ r.name = name THEN [r EXCEPT !.end = block] ELSE r : r \in @}]

----------------------------------------------------------------------------
(* The loop. *)

\* Bug: attempts are repeated for ever.
NeverGivesUp == FALSE

GivesUp == errors > MaxErrors

Running == indexed < block /\ ~ GivesUp

\* The archive's answer, cached for the rest of the block unless one to a
\* handler of a failed attempt arrives after it.
Answers == (IF answer = 0 THEN {block} ELSE {answer}) \cup abandoned

HandleEvent ==
    /\ Running
    /\ pos < Len(events)
    /\ \E of \in Answers, name \in Names, ev \in {events[pos + 1]} :
        LET rows == [txn EXCEPT !.odd = @ \/ Misleads(ev, of)]
        IN  /\ name = Named(ev, current[of])
            /\ answer' = of
            /\ initiated' = IF ev.type = "start" /\ ev.number = 1 /\ Initiated # Unknown
                            THEN Initiated ELSE initiated
            /\ txn' = IF ev.type = "start" THEN AfterStart(rows, ev, current[of], name)
                      ELSE AfterEnd(rows, ev, name)
    /\ pos' = pos + 1
    /\ UNCHANGED <<chainVars, store, indexed, abandoned, errors, faults, tainted>>

RollBack ==
    /\ pos' = 0
    /\ abandoned' = abandoned \cup {block}
    /\ errors' = IF errors > MaxErrors THEN errors ELSE errors + 1

\* The end of an epoch that is not found throws; a start without a name is
\* refused by the table.
EventFails ==
    /\ Running
    /\ pos < Len(events)
    /\ \E of \in Answers, ev \in {events[pos + 1]} :
        /\ Named(ev, current[of]) = Unknown
        /\ answer' = of
    /\ RollBack
    /\ txn' = store
    /\ UNCHANGED <<chainVars, store, indexed, initiated, faults, tainted>>

\* Something else in the attempt fails; the module variable is not undone.
AttemptFails ==
    /\ Running
    /\ faults < MaxFaults
    /\ RollBack
    /\ txn' = store
    /\ faults' = faults + 1
    /\ UNCHANGED <<chainVars, store, indexed, initiated, answer, tainted>>

Committed == [txn EXCEPT !.height = block, !.odd = FALSE]

Commit ==
    /\ Running
    /\ pos = Len(events)
    /\ store' = Committed
    /\ txn' = Committed
    /\ indexed' = block
    /\ errors' = 0
    /\ tainted' = IF txn.odd THEN tainted \cup {block} ELSE tainted
    /\ UNCHANGED <<chainVars, pos, initiated, answer, abandoned, faults>>

\* The rows are there, and the block is indexed once more.
CommitLost ==
    /\ Running
    /\ faults < MaxFaults
    /\ pos = Len(events)
    /\ store' = Committed
    /\ txn' = Committed
    /\ RollBack
    /\ faults' = faults + 1
    /\ tainted' = IF events # << >> THEN tainted \cup {block} ELSE tainted
    /\ UNCHANGED <<chainVars, indexed, initiated, answer>>

Restart ==
    /\ txn' = store
    /\ indexed' = store.height
    /\ pos' = 0
    /\ initiated' = "none"
    /\ answer' = 0
    /\ abandoned' = {}
    /\ errors' = 0
    /\ UNCHANGED <<chainVars, store, tainted>>

Exit ==
    /\ GivesUp
    /\ Restart
    /\ UNCHANGED faults

Crash ==
    /\ faults < MaxFaults
    /\ faults' = faults + 1
    /\ Restart

SyncStep == HandleEvent \/ EventFails \/ Commit \/ Exit

Next == ChainAdvances \/ SyncStep \/ AttemptFails \/ CommitLost \/ Crash

Spec == Init /\ [][Next]_vars

FairSpec == Spec /\ WF_vars(SyncStep)

----------------------------------------------------------------------------
(* Properties. *)

\* Each row is of an epoch there is and about blocks the chain has, and the
\* table of epochs is that of one of its blocks (epoch.ts), also after an
\* attempt that was misled.
TypeOK ==
    /\ time \in Nat
    /\ \A h \in DOMAIN current : current[h] \in [Epochs -> Nat \ {0}]
    /\ \A rows \in {store, txn} :
        /\ \A r \in rows.events : r.name \in Epochs /\ r.start \in 1 .. block /\ r.end \in 0 .. block
        /\ rows.epoch = << >> \/ \E h \in DOMAIN current : rows.epoch = current[h]
    /\ indexed \in 0 .. block
    /\ pos \in 0 .. Len(events)
    /\ initiated \in Epochs \cup {"none"}
    /\ answer \in 0 .. block
    /\ errors \in 0 .. MaxErrors + 1
    /\ abandoned \subseteq 1 .. block
    /\ tainted \subseteq 1 .. block

\* The committed block in which the epoch that started in h ended,
\* 0 for none.
EndOf(e, h) ==
    LET after == {k \in h + 1 .. store.height : current[k][e] # current[h][e]}
    IN  IF after = {} THEN 0 ELSE CHOOSE k \in after : \A l \in after : k <= l

\* Every epoch that started in a block has one row, that says which epoch it
\* was and when it ended, and the block has no others; the table of epochs is
\* the chain's.  The exceptions, all of them carried by tainted, are blocks
\* that were handled with the answer to a failed attempt, the first block of
\* epochs when it was attempted twice in one process, and blocks repeated
\* after their COMMIT, which have their rows twice.  epoch.ts looks for the
\* epoch by its number only, in the state at the end of the block.
EpochEventsMatch ==
    /\ \A h \in (1 .. store.height) \ tainted :
        LET rows == {r \in store.events : r.start = h}
            startedIn == {e \in Epochs : Started(e, h)}
        IN  /\ Cardinality(rows) = Cardinality(startedIn)
            /\ \A e \in startedIn : \E r \in rows :
                /\ r.name = e
                /\ r.number = current[h][e]
                /\ r.end = EndOf(e, h) \/ r.end \in tainted \/ EndOf(e, h) \in tainted
    /\ LET starts == {h \in 1 .. store.height : \E e \in Epochs : Started(e, h)}
       IN  \A h \in starts \ tainted :
            (\A k \in starts : k <= h) => store.epoch = current[h]

\* Whatever the archive's cache was left with, every block is indexed in the
\* end: an answer in which the epoch is not found is only got rid of by the
\* process exiting (sync_blocks.ts) and starting with an empty cache.
EpochsGetIndexed == \A h \in 1 .. MaxHeight : block >= h ~> indexed >= h
===============================================================================
