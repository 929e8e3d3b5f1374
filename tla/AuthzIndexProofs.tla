--------------------------- MODULE AuthzIndexProofs ---------------------------
(***************************************************************************)
(* What TLAPS proves of AuthzIndex for every set of keys, every lag and    *)
(* snapshot interval, and any number of messages and bad answers: types,   *)
(* and that between two blocks no grant is missing from authz_grant, that  *)
(* rows whose answers were exact are capabilities, and that they tell      *)
(* their expirations and what is left of them.                             *)
(*                                                                         *)
(* The index says nothing of the block it is at before that is worked      *)
(* through, and the archive may answer with a later one.  So the invariant *)
(* looks ahead: it relates the rows to the chain's grants at the end of    *)
(* EVERY block that is not indexed, as far as no event still to be         *)
(* processed is going to write the key (RowsInv).  It rests on what the    *)
(* blocks say of each other: a key has at the end of a block what its last *)
(* event told, or what it had before, unless that expired (History).       *)
(***************************************************************************)
EXTENDS AuthzIndex, TLAPS

----------------------------------------------------------------------------
(* The blocks from the newest one in the index to the one in the making. *)

\* The chain's grants at the end of a block, ...
Ended(h) ==
    IF h = indexed THEN grants
    ELSE IF h = height THEN live ELSE backlog[h - indexed].ended

\* ... and the events of one that is not indexed.
EventsOf(h) == IF h = height THEN events ELSE backlog[h - indexed].events

\* The events that decide what row a key has, and those that change its payload.
Writes(ev, k) ==
    /\ ev.key = k
    /\ \/ ev.type \in {"rich", "revoke"}
       \/ ev.type = "grant" /\ ev.via # "rich"

Changes(ev, k) == Writes(ev, k) \/ (ev.key = k /\ ev.type = "used")

\* There is one for k after event i of block h, up to the end of block j.
Written(k, h, i, j) ==
    \E g \in h..j : \E n \in DOMAIN EventsOf(g) :
        (g = h => n > i) /\ Writes(EventsOf(g)[n], k)

Changed(k, h, i, j) ==
    \E g \in h..j : \E n \in DOMAIN EventsOf(g) :
        (g = h => n > i) /\ Changes(EventsOf(g)[n], k)

\* At the end of block j the chain has g under k, if it has not expired.
Carries(g, k, j) ==
    /\ k \in DOMAIN Ended(j) <=> ~ Expired(g, j)
    /\ k \in DOMAIN Ended(j) => Ended(j)[k].expiration = g.expiration

SameLeft(g, k, j) == k \in ClaimKeys /\ k \in DOMAIN Ended(j) => Ended(j)[k].left = g.left

----------------------------------------------------------------------------
(* The inductive invariant. *)

Payload == [left : Nat, expiration : Nat]

Event_ == [type : {"grant"}, via : {"message", "rich", "wrapped"}, key : Keys, grant : Payload]
    \cup [type : {"grant"}, via : {"payout"}, key : PayoutKeys, grant : {Grant(1, Never)}]
    \cup [type : {"rich"}, key : Keys, grant : Payload]
    \cup [type : {"revoke", "used"}, key : Keys]

Index_ == UNION {[S -> Payload] : S \in SUBSET Keys}

Block_ == [events : Seq(Event_), ended : Index_]

Shape ==
    /\ TypeOK
    /\ live \in Index_ /\ grants \in Index_ /\ rows \in Index_
    /\ events \in Seq(Event_)
    /\ backlog \in Seq(Block_)
    /\ indexed \in Nat /\ pos \in Nat
    /\ pos # 0 => ~ ChainsTurn
    /\ \A k \in DOMAIN live : live[k].left # 0

----------------------------------------------------------------------------

\* An element of a sequence has its type, ...
LEMMA ElementType == ASSUME NEW S, NEW s \in Seq(S), NEW i \in 1..Len(s) PROVE s[i] \in S
  OBVIOUS

\* ... a row that is put into an index leaves it an index, ...
LEMMA PutType ==
    ASSUME NEW f \in Index_, NEW k \in Keys, NEW g \in Payload
    PROVE  Put(f, k, g) \in Index_
  <1>1. PICK S \in SUBSET Keys : f \in [S -> Payload]
    BY DEF Index_
  <1>2. Put(f, k, g) \in [S \cup {k} -> Payload]
    BY <1>1 DEF Put
  <1> QED
    BY <1>1, <1>2 DEF Index_

\* ... as does dropping some, ...
LEMMA RestrictType ==
    ASSUME NEW f \in Index_, NEW S \in SUBSET DOMAIN f
    PROVE  Restrict(f, S) \in Index_
  <1>1. PICK T \in SUBSET Keys : f \in [T -> Payload]
    BY DEF Index_
  <1>2. Restrict(f, S) \in [S -> Payload] /\ S \in SUBSET Keys
    BY <1>1 DEF Restrict
  <1> QED
    BY <1>2 DEF Index_

\* ... and an index is what TypeOK says of it.
LEMMA IndexIsGrants ==
    ASSUME NEW f \in Index_
    PROVE  IsGrants(f) /\ f = [k \in DOMAIN f |-> f[k]]
  <1>1. PICK T \in SUBSET Keys : f \in [T -> Payload]
    BY DEF Index_
  <1> QED
    BY <1>1 DEF IsGrants, Payload

\* Where a block is.
LEMMA Places ==
    ASSUME Shape
    PROVE  /\ height \in Nat /\ indexed \in Nat /\ Len(backlog) \in Nat
           /\ height = indexed + 1 + Len(backlog)
           /\ \A h \in indexed + 1 .. height - 1 : h - indexed \in 1..Len(backlog)
           /\ \A h \in indexed .. height : Ended(h) \in Index_
           /\ \A h \in indexed + 1 .. height : EventsOf(h) \in Seq(Event_)
  <1>1. /\ height \in Nat /\ Len(backlog) \in Nat /\ indexed \in Nat
        /\ height = indexed + 1 + Len(backlog)
    BY GrantParameters DEF Shape, TypeOK
  <1>2. \A h \in indexed + 1 .. height - 1 : h - indexed \in 1..Len(backlog)
    BY <1>1
  <1>3. \A i \in 1..Len(backlog) : backlog[i].ended \in Index_ /\ backlog[i].events \in Seq(Event_)
    <2> SUFFICES ASSUME NEW i \in 1..Len(backlog)
                 PROVE  backlog[i].ended \in Index_ /\ backlog[i].events \in Seq(Event_)
      OBVIOUS
    <2>1. backlog[i] \in Block_
      BY ElementType DEF Shape
    <2> QED
      BY <2>1 DEF Block_
  <1>4. \A h \in indexed .. height : Ended(h) \in Index_
    BY <1>1, <1>2, <1>3 DEF Shape, Ended
  <1>5. \A h \in indexed + 1 .. height : EventsOf(h) \in Seq(Event_)
    BY <1>1, <1>2, <1>3 DEF Shape, EventsOf
  <1> QED
    BY <1>1, <1>2, <1>4, <1>5

----------------------------------------------------------------------------
(* What each kind of step makes of the blocks. *)

\* A message adds its events to the block in the making and changes the grants there.
LEMMA MessageView ==
    ASSUME Shape, NEW new \in Seq(Event_), Emit(new)
    PROVE  /\ UNCHANGED <<height, backlog, indexVars>> /\ pos = 0
           /\ \A h \in indexed .. height - 1 : Ended(h)' = Ended(h)
           /\ Ended(height) = live /\ Ended(height)' = live'
           /\ \A h \in indexed + 1 .. height - 1 : EventsOf(h)' = EventsOf(h)
           /\ EventsOf(height) = events /\ EventsOf(height)' = events \o new
  <1>1. UNCHANGED <<height, backlog, indexVars>> /\ events' = events \o new /\ pos = 0
    BY DEF Emit, Shape
  <1>2. UNCHANGED <<height, backlog, indexed, grants>> /\ height # indexed
    BY <1>1, Places DEF indexVars
  <1>3. \A h \in indexed .. height - 1 : h # height
    BY Places
  <1>4. \A h \in indexed .. height - 1 : Ended(h)' = Ended(h)
    BY <1>2, <1>3 DEF Ended
  <1>5. \A h \in indexed + 1 .. height - 1 : EventsOf(h)' = EventsOf(h)
    BY <1>2, <1>3, Places DEF EventsOf
  <1> QED
    BY <1>1, <1>2, <1>4, <1>5 DEF Ended, EventsOf

\* A block that ends keeps its events and its grants; the next one has no event yet.
LEMMA EndView ==
    ASSUME Shape, ChainEndsBlock
    PROVE  /\ UNCHANGED indexVars /\ height' = height + 1 /\ pos = 0
           /\ \A h \in indexed .. height : Ended(h)' = Ended(h)
           /\ Ended(height) = live
           /\ \A h \in indexed + 1 .. height : EventsOf(h)' = EventsOf(h)
           /\ \A h : h = height + 1 =>
                /\ Ended(h)' = Unexpired(live, h)
                /\ EventsOf(h)' = << >>
  <1>1. /\ height' = height + 1 /\ live' = Unexpired(live, height + 1) /\ events' = << >>
        /\ UNCHANGED indexVars /\ pos = 0
        /\ backlog' = Append(backlog, [events |-> events, ended |-> live])
    BY DEF ChainEndsBlock, Shape
  <1>2. UNCHANGED <<indexed, grants>>
    BY <1>1 DEF indexVars
  <1>3. /\ \A i \in 1..Len(backlog) : backlog'[i] = backlog[i]
        /\ backlog'[Len(backlog) + 1] = [events |-> events, ended |-> live]
    BY <1>1 DEF Shape
  <1>4. ASSUME NEW h \in indexed .. height
        PROVE  Ended(h)' = Ended(h) /\ (h # indexed => EventsOf(h)' = EventsOf(h))
    <2>1. CASE h = indexed
      BY <1>2, <2>1 DEF Ended
    <2>2. CASE h = height /\ h # indexed
      <3>1. h - indexed = Len(backlog) + 1 /\ h # height' /\ h # indexed'
        BY <1>1, <1>2, <2>2, Places
      <3>2. /\ Ended(h)' = backlog'[h - indexed].ended
            /\ EventsOf(h)' = backlog'[h - indexed].events
        BY <1>2, <3>1 DEF Ended, EventsOf
      <3> QED
        BY <1>3, <2>2, <3>1, <3>2 DEF Ended, EventsOf
    <2>3. CASE h # height /\ h # indexed
      <3>1. h - indexed \in 1..Len(backlog) /\ h # height' /\ h # indexed'
        BY <1>1, <1>2, <2>3, Places
      <3>2. /\ Ended(h)' = backlog'[h - indexed].ended
            /\ EventsOf(h)' = backlog'[h - indexed].events
        BY <1>2, <3>1 DEF Ended, EventsOf
      <3> QED
        BY <1>3, <2>3, <3>1, <3>2 DEF Ended, EventsOf
    <2> QED
      BY <2>1, <2>2, <2>3
  <1>5. height + 1 # indexed' /\ height # indexed /\ \A h \in indexed + 1 .. height : h # indexed
    BY <1>2, Places
  <1>6. Ended(height) = live
    BY <1>5 DEF Ended
  <1>7. ASSUME NEW h, h = height + 1
        PROVE  Ended(h)' = live' /\ EventsOf(h)' = events'
    BY <1>1, <1>5, <1>7 DEF Ended, EventsOf
  <1> QED
    BY <1>1, <1>4, <1>5, <1>6, <1>7, Places

\* An event that is processed is the next one of the oldest block of the backlog.
LEMMA EventView ==
    ASSUME Shape, Processed, ~ ChainsTurn, pos < Len(backlog[1].events)
    PROVE  /\ UNCHANGED <<height, indexed>> /\ pos' = pos + 1 /\ height > indexed + 1
           /\ \A h \in indexed .. height : Ended(h)' = Ended(h) /\ EventsOf(h)' = EventsOf(h)
           /\ EventsOf(indexed + 1) = backlog[1].events
           /\ pos + 1 \in DOMAIN EventsOf(indexed + 1)
           /\ Event = EventsOf(indexed + 1)[pos + 1]
           /\ Event \in Event_
  <1>1. UNCHANGED <<height, live, events, backlog, indexed, grants>> /\ pos' = pos + 1
    BY DEF Processed, chainVars
  <1>2. Len(backlog) >= 1 /\ height > indexed + 1
    BY GrantParameters, Places DEF ChainsTurn
  <1>3. EventsOf(indexed + 1) = backlog[1].events
    <2>1. PICK h : h = indexed + 1
      OBVIOUS
    <2>2. h # height /\ h - indexed = 1
      BY <1>2, <2>1, Places
    <2>3. EventsOf(h) = backlog[1].events
      BY <2>2 DEF EventsOf
    <2> QED
      BY <2>1, <2>3
  <1>4. EventsOf(indexed + 1) \in Seq(Event_)
    BY <1>2, Places
  <1>5. pos + 1 \in 1..Len(backlog[1].events)
    BY <1>3, <1>4 DEF Shape
  <1>6. Event = EventsOf(indexed + 1)[pos + 1] /\ Event \in Event_
    BY <1>3, <1>4, <1>5, ElementType DEF Event
  <1> QED
    BY <1>1, <1>2, <1>3, <1>4, <1>5, <1>6 DEF Ended, EventsOf

\* A block that is indexed leaves the others where they are.
LEMMA IndexedView ==
    ASSUME Shape, IndexEndsBlock
    PROVE  /\ UNCHANGED <<height, tainted>> /\ indexed' = indexed + 1 /\ pos' = 0
           /\ height > indexed + 1
           /\ pos = Len(EventsOf(indexed + 1))
           /\ \A h \in indexed + 1 .. height : Ended(h)' = Ended(h)
           /\ \A h \in indexed + 2 .. height : EventsOf(h)' = EventsOf(h)
  <1>1. /\ UNCHANGED <<height, live, events, tainted>> /\ indexed' = indexed + 1 /\ pos' = 0
        /\ pos = Len(backlog[1].events) /\ grants' = backlog[1].ended
        /\ backlog' = Tail(backlog) /\ Len(backlog) >= 1
    BY GrantParameters, Places DEF IndexEndsBlock, FirstEvent, chainVars, ChainsTurn
  <1>2. \A i \in 2..Len(backlog) : backlog'[i - 1] = backlog[i]
    BY <1>1 DEF Shape
  <1>3. /\ height > indexed + 1 /\ height - indexed = Len(backlog) + 1
    BY <1>1, Places
  <1>4. ASSUME NEW h, h = indexed + 1
        PROVE  /\ Ended(h) = backlog[1].ended /\ Ended(h)' = grants'
               /\ EventsOf(h) = backlog[1].events
    <2>1. h - indexed = 1 /\ h # height /\ h # indexed /\ h = indexed'
      BY <1>1, <1>3, <1>4, Places
    <2> QED
      BY <2>1 DEF Ended, EventsOf
  <1>6. ASSUME NEW h \in indexed + 2 .. height
        PROVE  Ended(h)' = Ended(h) /\ EventsOf(h)' = EventsOf(h)
    <2>1. h # indexed' /\ h # indexed
      BY <1>1, Places
    <2>2. CASE h = height
      BY <1>1, <2>1, <2>2 DEF Ended, EventsOf
    <2>3. CASE h # height
      <3>1. h - indexed \in 2..Len(backlog) /\ h - indexed' = (h - indexed) - 1
        BY <1>1, <2>3, Places
      <3>2. backlog'[h - indexed'] = backlog[h - indexed]
        BY <1>2, <3>1
      <3> QED
        BY <1>1, <2>1, <2>3, <3>2 DEF Ended, EventsOf
    <2> QED
      BY <2>2, <2>3
  <1>7. ASSUME NEW h \in indexed + 1 .. height PROVE Ended(h)' = Ended(h)
    <2>1. h = indexed + 1 \/ h \in indexed + 2 .. height
      BY Places
    <2> QED
      BY <1>1, <1>4, <1>6, <2>1
  <1>8. EventsOf(indexed + 1) = backlog[1].events
    BY <1>4
  <1> QED
    BY <1>1, <1>3, <1>6, <1>7, <1>8

----------------------------------------------------------------------------
(* Type correctness. *)

\* What the archive answers with is the end of a block that is complete and
\* not indexed yet.
LEMMA AnswerPlace ==
    ASSUME Shape, ~ ChainsTurn, NEW a \in Answers
    PROVE  /\ a # Exact => faults < MaxFaults
           /\ a = Exact => a.kind = "exact" /\ a.at = indexed + 1
           /\ a.kind # "fails" => /\ a.at \in indexed + 1 .. height - 1
                                  /\ EndOf(a.at) = Ended(a.at)
                                  /\ EndOf(a.at) \in Index_
  <1>1. height > indexed + 1 /\ height \in Nat /\ indexed \in Nat
    BY GrantParameters, Places DEF ChainsTurn
  <1>2. a # Exact => faults < MaxFaults
    BY GrantParameters DEF Answers, Shape, TypeOK
  <1>3. a = Exact => a.kind = "exact" /\ a.at = indexed + 1
    BY DEF Exact
  <1>4. ASSUME a.kind # "fails" PROVE a.at \in indexed + 1 .. height - 1
    <2>1. Snapped(indexed + 1) \in Int
      BY <1>1, GrantParameters DEF Snapped
    <2>2. a = Exact \/ a \in {b \in [kind : Faults, at : {Snapped(indexed + 1)}] :
                                b.kind = "pruned" => b.at > indexed + 1 /\ b.at < height}
      BY DEF Answers
    <2>3. a = Exact \/ (a.kind = "pruned" /\ a.at = Snapped(indexed + 1)
                        /\ a.at > indexed + 1 /\ a.at < height)
      BY <1>4, <2>2, GrantParameters
    <2> QED
      BY <1>1, <1>3, <2>1, <2>3
  <1>5. ASSUME a.kind # "fails"
        PROVE  EndOf(a.at) = Ended(a.at) /\ Ended(a.at) \in Index_
    <2>1. a.at # indexed /\ a.at # height /\ a.at \in indexed .. height
      BY <1>1, <1>4, <1>5
    <2> QED
      BY <2>1, Places DEF EndOf, Ended
  <1> QED
    BY <1>2, <1>3, <1>4, <1>5

\* The archive knows grants at the end of every block of the backlog.
LEMMA BlockType ==
    ASSUME NEW b \in Seq(Block_)
    PROVE  \A i \in DOMAIN b : IsGrants(b[i].ended)
  <1> SUFFICES ASSUME NEW i \in 1..Len(b) PROVE IsGrants(b[i].ended)
    OBVIOUS
  <1>1. b[i] \in Block_
    BY ElementType
  <1> QED
    BY <1>1, IndexIsGrants DEF Block_

\* The steps of the chain keep the types.
LEMMA MessageShape ==
    ASSUME Shape, NEW new \in Seq(Event_), Emit(new), live' \in Index_,
           \A k \in DOMAIN live' : live'[k].left # 0
    PROVE  Shape'
  <1>1. /\ UNCHANGED <<height, backlog, indexVars>> /\ messages' = messages + 1
        /\ messages < MaxMessages /\ events' = events \o new
    BY DEF Emit
  <1>2. events' \in Seq(Event_)
    BY <1>1 DEF Shape
  <1>3. messages' \in 0..MaxMessages
    BY <1>1, GrantParameters DEF Shape, TypeOK
  <1>4. IsGrants(live)'
    BY IndexIsGrants DEF IsGrants
  <1>5. TypeOK'
    BY <1>1, <1>3, <1>4 DEF Shape, TypeOK, indexVars, IsGrants
  <1> QED
    BY <1>1, <1>2, <1>5 DEF Shape, indexVars, ChainsTurn

\* So does the end of a block.
LEMMA EndShape ==
    ASSUME Shape, ChainEndsBlock
    PROVE  Shape'
  <1>1. /\ height' = height + 1 /\ live' = Unexpired(live, height + 1) /\ events' = << >>
        /\ UNCHANGED indexVars /\ UNCHANGED messages /\ pos = 0 /\ height < MaxHeight
        /\ backlog' = Append(backlog, [events |-> events, ended |-> live])
        /\ Len(backlog) <= Lag
    BY DEF ChainEndsBlock, Shape, ChainsTurn
  <1>2. live' \in Index_ /\ \A k \in DOMAIN live' : live'[k].left # 0
    <2>1. live' \in Index_
      BY <1>1, RestrictType DEF Unexpired, Shape
    <2> QED
      BY <1>1, <2>1 DEF Unexpired, Restrict, Shape
  <1>3. [events |-> events, ended |-> live] \in Block_
    BY DEF Shape, Block_
  <1>4. backlog' \in Seq(Block_) /\ Len(backlog') = Len(backlog) + 1
    BY <1>1, <1>3 DEF Shape
  <1>5. \A i \in DOMAIN backlog' : IsGrants(backlog'[i].ended)
    BY <1>4, BlockType
  <1>6. IsGrants(live)'
    BY <1>2, IndexIsGrants DEF IsGrants
  <1>7. TypeOK'
    <2>1. /\ height \in Nat /\ indexed \in Nat /\ Len(backlog) \in Nat
          /\ height = indexed + 1 + Len(backlog)
      BY Places
    <2>2. /\ MaxHeight \in Nat /\ Lag \in Nat /\ height \in 1..MaxHeight
          /\ messages \in 0..MaxMessages /\ tainted \subseteq Keys /\ faults \in 0..MaxFaults
          /\ IsGrants(rows) /\ IsGrants(grants)
      BY GrantParameters DEF Shape, TypeOK
    <2>3. /\ height' \in 1..MaxHeight /\ indexed' = height' - 1 - Len(backlog')
          /\ Len(backlog') <= Lag + 1
      BY <1>1, <1>4, <2>1, <2>2 DEF indexVars
    <2>4. IsGrants(rows)' /\ IsGrants(grants)'
      BY <1>1, <2>2 DEF indexVars, IsGrants
    <2> QED
      BY <1>1, <1>5, <1>6, <2>2, <2>3, <2>4 DEF TypeOK, indexVars
  <1> QED
    BY <1>1, <1>2, <1>4, <1>7 DEF Shape, indexVars

\* So do those of the index that process an event, ...
LEMMA EventShape ==
    ASSUME Shape, Processed, ~ ChainsTurn, pos < Len(backlog[1].events),
           rows' \in Index_, tainted' \subseteq Keys, faults' \in 0..MaxFaults
    PROVE  Shape'
  <1>1. UNCHANGED <<height, live, events, messages, backlog, indexed, grants>> /\ pos' = pos + 1
    BY DEF Processed, chainVars
  <1>2. pos' \in 1..Len(backlog'[1].events)
    BY <1>1, EventView DEF Shape
  <1>3. IsGrants(rows)'
    BY IndexIsGrants DEF IsGrants
  <1>4. TypeOK'
    BY <1>1, <1>2, <1>3 DEF Shape, TypeOK, IsGrants
  <1> QED
    BY <1>1, <1>4 DEF Shape, ChainsTurn

\* ... and the one that ends a block.
LEMMA IndexedShape ==
    ASSUME Shape, IndexEndsBlock
    PROVE  Shape'
  <1>1. /\ UNCHANGED <<height, live, events, messages, tainted, faults>>
        /\ indexed' = indexed + 1 /\ pos' = 0 /\ rows' = Unexpired(rows, indexed + 1)
        /\ grants' = backlog[1].ended
        /\ backlog' = Tail(backlog) /\ Len(backlog) >= 1
    BY GrantParameters, Places DEF IndexEndsBlock, FirstEvent, Swept, chainVars, ChainsTurn
  <1>2. backlog' \in Seq(Block_) /\ Len(backlog') = Len(backlog) - 1
    BY <1>1 DEF Shape
  <1>3. backlog[1] \in Block_
    BY <1>1, ElementType DEF Shape
  <1>4. grants' \in Index_ /\ rows' \in Index_
    BY <1>1, <1>3, RestrictType DEF Unexpired, Block_, Shape
  <1>5. \A i \in DOMAIN backlog' : IsGrants(backlog'[i].ended)
    BY <1>2, BlockType
  <1>6. IsGrants(grants') /\ IsGrants(rows')
    BY <1>4, IndexIsGrants
  <1>7. /\ indexed' = height' - 1 - Len(backlog') /\ Len(backlog') <= Lag + 1
        /\ height' \in 1..MaxHeight /\ indexed' \in Nat
    <2>1. /\ height \in 1..MaxHeight /\ Len(backlog) <= Lag + 1 /\ Lag \in Nat
          /\ height = indexed + 1 + Len(backlog)
          /\ height \in Nat /\ indexed \in Nat /\ Len(backlog) \in Nat
      BY Places, GrantParameters DEF Shape, TypeOK
    <2>2. Len(backlog') = Len(backlog) - 1 /\ indexed' = indexed + 1 /\ height' = height
      BY <1>1, <1>2
    <2> QED
      BY <2>1, <2>2
  <1>8. TypeOK'
    <2>1. IsGrants(live)' /\ IsGrants(rows)' /\ IsGrants(grants)'
      BY <1>1, <1>6 DEF IsGrants, Shape, TypeOK
    <2>2. /\ messages' \in 0..MaxMessages /\ tainted' \subseteq Keys /\ faults' \in 0..MaxFaults
          /\ pos' = 0
      BY <1>1 DEF Shape, TypeOK
    <2> QED
      BY <1>5, <1>7, <2>1, <2>2 DEF TypeOK
  <1> QED
    BY <1>1, <1>2, <1>4, <1>7, <1>8 DEF Shape

----------------------------------------------------------------------------
(* The history of the keys. *)

\* What a key has at the end of block h it has at the end of block j, if no
\* event tells otherwise and it has not expired.
Persists(k, h, j) ==
    /\ ~ Written(k, h + 1, 0, j) =>
        IF k \in DOMAIN Ended(h) THEN Carries(Ended(h)[k], k, j) ELSE k \notin DOMAIN Ended(j)
    /\ ~ Changed(k, h + 1, 0, j) /\ k \in DOMAIN Ended(h) => SameLeft(Ended(h)[k], k, j)

\* So it is with what event i of block h tells.
Tells(k, h, i, j) ==
    LET ev == EventsOf(h)[i]
    IN  Writes(ev, k) =>
        /\ ~ Written(k, h, i, j) =>
            IF ev.type = "revoke" THEN k \notin DOMAIN Ended(j) ELSE Carries(ev.grant, k, j)
        /\ ev.type # "revoke" /\ ~ Changed(k, h, i, j) => SameLeft(ev.grant, k, j)

\* Nothing is in force, or announced, that has expired.
Fresh ==
    /\ \A h \in indexed .. height : \A k \in DOMAIN Ended(h) : ~ Expired(Ended(h)[k], h)
    /\ \A h \in indexed + 1 .. height : \A i \in DOMAIN EventsOf(h) :
        EventsOf(h)[i].type \in {"grant", "rich"} => ~ Expired(EventsOf(h)[i].grant, h)

History ==
    /\ \A k \in Keys : \A h \in indexed .. height : \A j \in h + 1 .. height : Persists(k, h, j)
    /\ \A k \in Keys : \A h \in indexed + 1 .. height : \A i \in DOMAIN EventsOf(h) :
        \A j \in h .. height : Tells(k, h, i, j)
    /\ Fresh

\* Whether a key has an event depends on the events only, ...
LEMMA WrittenFrame ==
    ASSUME NEW k, NEW h, NEW i, NEW j, \A g \in h .. j : EventsOf(g)' = EventsOf(g)
    PROVE  /\ Written(k, h, i, j)' <=> Written(k, h, i, j)
           /\ Changed(k, h, i, j)' <=> Changed(k, h, i, j)
  BY DEF Written, Changed, Writes, Changes

\* ... and what is said of two blocks on these two and the events between them.
LEMMA PersistsFrame ==
    ASSUME NEW k, NEW h, NEW j, Persists(k, h, j),
           Ended(h)' = Ended(h), Ended(j)' = Ended(j),
           \A g \in h + 1 .. j : EventsOf(g)' = EventsOf(g)
    PROVE  Persists(k, h, j)'
  <1>1. /\ Written(k, h + 1, 0, j)' <=> Written(k, h + 1, 0, j)
        /\ Changed(k, h + 1, 0, j)' <=> Changed(k, h + 1, 0, j)
    BY WrittenFrame
  <1> QED
    BY <1>1 DEF Persists, Carries, SameLeft

\* The same, of an event and a block.
LEMMA TellsFrame ==
    ASSUME NEW k, NEW h, NEW i, NEW j, Tells(k, h, i, j), Ended(j)' = Ended(j),
           EventsOf(h)' = EventsOf(h), \A g \in h .. j : EventsOf(g)' = EventsOf(g)
    PROVE  Tells(k, h, i, j)'
  <1>1. /\ Written(k, h, i, j)' <=> Written(k, h, i, j)
        /\ Changed(k, h, i, j)' <=> Changed(k, h, i, j)
    BY WrittenFrame
  <1> QED
    BY <1>1 DEF Tells, Carries, SameLeft, Writes

\* The index's steps leave the history alone.
LEMMA EventHistory ==
    ASSUME Shape, History, Processed, ~ ChainsTurn, pos < Len(backlog[1].events)
    PROVE  History'
  <1>1. /\ UNCHANGED <<height, indexed>> /\ height \in Nat /\ indexed \in Nat
        /\ \A h \in indexed .. height : Ended(h)' = Ended(h) /\ EventsOf(h)' = EventsOf(h)
    BY EventView, Places
  <1>2. ASSUME NEW k \in Keys, NEW h \in indexed .. height, NEW j \in h + 1 .. height
        PROVE  Persists(k, h, j)'
    <2>1. Persists(k, h, j) /\ j \in indexed .. height
      BY <1>1 DEF History
    <2>2. \A g \in h + 1 .. j : g \in indexed .. height
      BY <1>1
    <2> QED
      BY <1>1, <2>1, <2>2, PersistsFrame
  <1>3. ASSUME NEW k \in Keys, NEW h \in indexed + 1 .. height, NEW i \in DOMAIN EventsOf(h),
               NEW j \in h .. height
        PROVE  Tells(k, h, i, j)'
    <2>1. Tells(k, h, i, j) /\ j \in indexed .. height /\ h \in indexed .. height
      BY <1>1 DEF History
    <2>2. \A g \in h .. j : g \in indexed .. height
      BY <1>1
    <2> QED
      BY <1>1, <2>1, <2>2, TellsFrame
  <1>4. Fresh'
    BY <1>1 DEF History, Fresh
  <1>5. \A h \in indexed + 1 .. height : h \in indexed .. height
    BY <1>1
  <1> QED
    BY <1>1, <1>2, <1>3, <1>4, <1>5 DEF History

\* The block that is indexed last is where the history begins.
LEMMA IndexedHistory ==
    ASSUME Shape, History, IndexEndsBlock
    PROVE  History'
  <1>1. /\ height' = height /\ indexed' = indexed + 1 /\ height \in Nat /\ indexed \in Nat
        /\ \A h \in indexed + 1 .. height : Ended(h)' = Ended(h)
        /\ \A h \in indexed + 2 .. height : EventsOf(h)' = EventsOf(h)
    BY IndexedView, Places
  <1>2. ASSUME NEW k \in Keys, NEW h \in indexed + 1 .. height, NEW j \in h + 1 .. height
        PROVE  Persists(k, h, j)'
    <2>1. Persists(k, h, j) /\ j \in indexed + 1 .. height
      BY <1>1 DEF History
    <2>2. \A g \in h + 1 .. j : g \in indexed + 2 .. height
      BY <1>1
    <2> QED
      BY <1>1, <2>1, <2>2, PersistsFrame
  <1>3. ASSUME NEW k \in Keys, NEW h \in indexed + 2 .. height, NEW i \in DOMAIN EventsOf(h),
               NEW j \in h .. height
        PROVE  Tells(k, h, i, j)'
    <2>1. Tells(k, h, i, j) /\ j \in indexed + 1 .. height
      BY <1>1 DEF History
    <2>2. \A g \in h .. j : g \in indexed + 2 .. height
      BY <1>1
    <2> QED
      BY <1>1, <2>1, <2>2, TellsFrame
  <1>4. Fresh'
    <2>1. /\ \A h \in indexed + 1 .. height : h \in indexed .. height
          /\ \A h \in indexed + 2 .. height : h \in indexed + 1 .. height
          /\ indexed' + 1 = indexed + 2
      BY <1>1
    <2> QED
      BY <1>1, <2>1 DEF History, Fresh
  <1>5. indexed' + 1 = indexed + 2
    BY <1>1
  <1> QED
    BY <1>1, <1>2, <1>3, <1>4, <1>5 DEF History

\* What is carried to the end of a block is carried on, unless it expires.
LEMMA CarriedOn ==
    ASSUME Shape, ChainEndsBlock, NEW j, j = height + 1, NEW k, NEW g \in Payload
    PROVE  /\ Carries(g, k, height) => Carries(g, k, j)'
           /\ k \notin DOMAIN live => k \notin DOMAIN Ended(j)'
           /\ SameLeft(g, k, height) => SameLeft(g, k, j)'
  <1>1. /\ Ended(height) = live /\ Ended(j)' = Unexpired(live, j)
        /\ height \in Nat /\ live \in Index_
    BY EndView, Places DEF Shape
  <1>2. /\ DOMAIN Unexpired(live, j) = {x \in DOMAIN live : ~ Expired(live[x], j)}
        /\ \A x \in DOMAIN Unexpired(live, j) : Unexpired(live, j)[x] = live[x]
    BY DEF Unexpired, Restrict
  <1>3. g.expiration \in Nat
    BY DEF Payload
  <1>4. Expired(g, height) => Expired(g, j)
    BY <1>1, <1>3 DEF Expired
  <1>5. ASSUME Carries(g, k, height) PROVE Carries(g, k, j)'
    <2>1. k \in DOMAIN live => (Expired(live[k], j) <=> Expired(g, j))
      BY <1>1, <1>5 DEF Carries, Expired
    <2>2. k \in DOMAIN live <=> ~ Expired(g, height)
      BY <1>1, <1>5 DEF Carries
    <2>3. k \in DOMAIN live => live[k].expiration = g.expiration
      BY <1>1, <1>5 DEF Carries
    <2>4. k \in DOMAIN Ended(j)' <=> ~ Expired(g, j)
      BY <1>1, <1>2, <1>4, <2>1, <2>2
    <2>5. k \in DOMAIN Ended(j)' => Ended(j)'[k].expiration = g.expiration
      BY <1>1, <1>2, <2>3
    <2> QED
      BY <2>4, <2>5 DEF Carries
  <1> QED
    BY <1>1, <1>2, <1>5 DEF SameLeft

\* A block that begins adds no event.
LEMMA WrittenOn ==
    ASSUME Shape, ChainEndsBlock, NEW j, j = height + 1, NEW k, NEW i,
           NEW h \in indexed + 1 .. height + 1
    PROVE  /\ Written(k, h, i, j)' <=> h # j /\ Written(k, h, i, height)
           /\ Changed(k, h, i, j)' <=> h # j /\ Changed(k, h, i, height)
  <1>1. /\ height \in Nat /\ indexed \in Nat
        /\ \A g \in indexed + 1 .. height : EventsOf(g)' = EventsOf(g)
        /\ EventsOf(j)' = << >>
    BY EndView, Places
  <1>2. \A g \in h .. j : g # j => g \in h .. height /\ g \in indexed + 1 .. height
    BY <1>1
  <1>3. \A g \in h .. height : h # j /\ g # j /\ g \in h .. j
    BY <1>1
  <1> QED
    BY <1>1, <1>2, <1>3 DEF Written, Changed, Writes, Changes

\* The end of a block keeps the history: what expires with the next one was announced so.
LEMMA EndHistory ==
    ASSUME Shape, History, ChainEndsBlock
    PROVE  History'
  <1>1. /\ indexed' = indexed /\ height' = height + 1 /\ height \in Nat /\ indexed \in Nat
        /\ indexed < height
        /\ \A h \in indexed .. height : Ended(h)' = Ended(h) /\ Ended(h) \in Index_
        /\ \A h \in indexed + 1 .. height : EventsOf(h)' = EventsOf(h) /\ EventsOf(h) \in Seq(Event_)
        /\ Ended(height) = live
    <2>1. indexed' = indexed
      BY EndView DEF indexVars
    <2> QED
      BY <2>1, EndView, Places
  <1>2. PICK top : top = height + 1
    OBVIOUS
  <1>3. Ended(top)' = Unexpired(live, top) /\ EventsOf(top)' = << >>
    BY <1>2, EndView
  <1>4. \A h \in indexed .. height : \A k \in DOMAIN Ended(h) : Ended(h)[k] \in Payload
    <2> SUFFICES ASSUME NEW h \in indexed .. height, NEW k \in DOMAIN Ended(h)
                 PROVE  Ended(h)[k] \in Payload
      OBVIOUS
    <2>1. IsGrants(Ended(h))
      BY <1>1, IndexIsGrants
    <2> QED
      BY <2>1 DEF IsGrants, Payload
  <1>5. ASSUME NEW k \in Keys, NEW h \in indexed .. height, NEW j \in h + 1 .. height
        PROVE  Persists(k, h, j)'
    <2>1. Persists(k, h, j) /\ j \in indexed .. height
      BY <1>1 DEF History
    <2>2. \A g \in h + 1 .. j : g \in indexed + 1 .. height
      BY <1>1
    <2> QED
      BY <1>1, <2>1, <2>2, PersistsFrame
  <1>6. ASSUME NEW k \in Keys, NEW h \in indexed .. height
        PROVE  Persists(k, h, top)'
    <2>1. PICK f : f = Ended(h)
      OBVIOUS
    <2>2. Ended(h)' = f /\ (k \in DOMAIN f => f[k] \in Payload)
      BY <1>1, <1>4, <2>1
    <2>3. /\ Written(k, h + 1, 0, top)' <=> h # height /\ Written(k, h + 1, 0, height)
          /\ Changed(k, h + 1, 0, top)' <=> h # height /\ Changed(k, h + 1, 0, height)
      <3>1. h + 1 \in indexed + 1 .. height + 1 /\ (h + 1 = top <=> h = height)
        BY <1>1, <1>2
      <3> QED
        BY <1>2, <3>1, WrittenOn
    <2>4. ASSUME h = height
          PROVE  /\ k \in DOMAIN f => Carries(f[k], k, height) /\ SameLeft(f[k], k, height)
                 /\ k \notin DOMAIN f => k \notin DOMAIN live
      BY <1>1, <2>1, <2>4 DEF History, Fresh, Carries, SameLeft
    <2>5. ASSUME h # height
          PROVE  Persists(k, h, height)
      BY <1>1, <2>5 DEF History
    <2>6. ASSUME ~ Written(k, h + 1, 0, top)'
          PROVE  IF k \in DOMAIN f THEN Carries(f[k], k, top)' ELSE k \notin DOMAIN Ended(top)'
      <3>1. IF k \in DOMAIN f THEN Carries(f[k], k, height) ELSE k \notin DOMAIN live
        BY <1>1, <2>1, <2>3, <2>4, <2>5, <2>6 DEF Persists
      <3>2. CASE k \in DOMAIN f
        <4>1. PICK g : g = f[k]
          OBVIOUS
        <4>2. g \in Payload /\ Carries(g, k, height)
          BY <2>2, <3>1, <3>2, <4>1
        <4>3. Carries(g, k, top)'
          BY <1>2, <4>2, CarriedOn
        <4> QED
          BY <3>2, <4>1, <4>3 DEF Carries
      <3>3. CASE k \notin DOMAIN f
        <4>1. PICK g : g = [left |-> 0, expiration |-> 0]
          OBVIOUS
        <4>2. g \in Payload
          BY <4>1 DEF Payload
        <4> QED
          BY <1>2, <3>1, <3>3, <4>2, CarriedOn
      <3> QED
        BY <3>2, <3>3
    <2>7. ASSUME ~ Changed(k, h + 1, 0, top)', k \in DOMAIN f
          PROVE  SameLeft(f[k], k, top)'
      <3>1. SameLeft(f[k], k, height)
        BY <2>1, <2>3, <2>4, <2>5, <2>7 DEF Persists
      <3> QED
        BY <1>2, <2>2, <2>7, <3>1, CarriedOn
    <2> QED
      BY <2>2, <2>6, <2>7 DEF Persists, Carries, SameLeft
  <1>7. ASSUME NEW k \in Keys, NEW h \in indexed + 1 .. height, NEW i \in DOMAIN EventsOf(h),
               NEW j \in h .. height
        PROVE  Tells(k, h, i, j)'
    <2>1. Tells(k, h, i, j) /\ j \in indexed .. height
      BY <1>1 DEF History
    <2>2. \A g \in h .. j : g \in indexed + 1 .. height
      BY <1>1
    <2> QED
      BY <1>1, <2>1, <2>2, TellsFrame
  <1>8. ASSUME NEW k \in Keys, NEW h \in indexed + 1 .. height, NEW i \in DOMAIN EventsOf(h)
        PROVE  Tells(k, h, i, top)'
    <2>1. PICK ev : ev = EventsOf(h)[i]
      OBVIOUS
    <2>2. ev \in Event_ /\ EventsOf(h)'[i] = ev /\ Tells(k, h, i, height)
      <3>1. EventsOf(h) \in Seq(Event_) /\ EventsOf(h)' = EventsOf(h) /\ height \in h .. height
        BY <1>1
      <3> QED
        BY <2>1, <3>1 DEF History
    <2>3. /\ Written(k, h, i, top)' <=> Written(k, h, i, height)
          /\ Changed(k, h, i, top)' <=> Changed(k, h, i, height)
      BY <1>1, <1>2, WrittenOn
    <2>4. Writes(ev, k) /\ ev.type # "revoke" => ev.grant \in Payload
      BY <2>2 DEF Event_, Writes, Grant, Never, Payload
    <2>5. ASSUME Writes(ev, k), ~ Written(k, h, i, top)'
          PROVE  IF ev.type = "revoke" THEN k \notin DOMAIN Ended(top)'
                 ELSE Carries(ev.grant, k, top)'
      <3>1. IF ev.type = "revoke" THEN k \notin DOMAIN live ELSE Carries(ev.grant, k, height)
        BY <1>1, <2>1, <2>2, <2>3, <2>5 DEF Tells
      <3>2. CASE ev.type = "revoke"
        <4>1. PICK g : g = [left |-> 0, expiration |-> 0]
          OBVIOUS
        <4>2. g \in Payload
          BY <4>1 DEF Payload
        <4> QED
          BY <1>2, <3>1, <3>2, <4>2, CarriedOn
      <3>3. CASE ev.type # "revoke"
        <4>1. PICK g : g = ev.grant
          OBVIOUS
        <4>2. g \in Payload /\ Carries(g, k, height)
          BY <2>4, <2>5, <3>1, <3>3, <4>1
        <4>3. Carries(g, k, top)'
          BY <1>2, <4>2, CarriedOn
        <4> QED
          BY <3>3, <4>1, <4>3 DEF Carries
      <3> QED
        BY <3>2, <3>3
    <2>6. ASSUME Writes(ev, k), ev.type # "revoke", ~ Changed(k, h, i, top)'
          PROVE  SameLeft(ev.grant, k, top)'
      <3>1. SameLeft(ev.grant, k, height)
        BY <2>1, <2>2, <2>3, <2>6 DEF Tells
      <3> QED
        BY <1>2, <2>4, <2>6, <3>1, CarriedOn
    <2> QED
      BY <2>2, <2>5, <2>6 DEF Tells, Carries, SameLeft, Writes
  <1>9. Fresh'
    <2>1. \A h \in indexed .. height : \A k \in DOMAIN Ended(h)' : ~ Expired(Ended(h)'[k], h)
      BY <1>1 DEF History, Fresh
    <2>2. \A k \in DOMAIN Ended(top)' : ~ Expired(Ended(top)'[k], top)
      BY <1>3 DEF Unexpired, Restrict
    <2>3. \A h \in indexed + 1 .. height : \A i \in DOMAIN EventsOf(h)' :
            EventsOf(h)'[i].type \in {"grant", "rich"} => ~ Expired(EventsOf(h)'[i].grant, h)
      BY <1>1 DEF History, Fresh
    <2>4. DOMAIN EventsOf(top)' = {}
      BY <1>3
    <2>5. /\ \A h \in indexed' .. height' : h = top \/ h \in indexed .. height
          /\ \A h \in indexed' + 1 .. height' : h = top \/ h \in indexed + 1 .. height
      BY <1>1, <1>2
    <2> QED
      BY <2>1, <2>2, <2>3, <2>4, <2>5 DEF Fresh, Expired
  <1>10. /\ \A h \in indexed' .. height' : \A j \in h + 1 .. height' :
              h \in indexed .. height /\ (j = top \/ j \in h + 1 .. height)
         /\ \A h \in indexed' + 1 .. height' : h = top \/ h \in indexed + 1 .. height
         /\ \A h \in indexed + 1 .. height : \A j \in h .. height' : j = top \/ j \in h .. height
    BY <1>1, <1>2
  <1>11. DOMAIN EventsOf(top)' = {} /\ \A h \in indexed + 1 .. height : EventsOf(h)' = EventsOf(h)
    BY <1>1, <1>3
  <1>12. \A k \in Keys : \A h \in indexed' .. height' : \A j \in h + 1 .. height' : Persists(k, h, j)'
    BY <1>5, <1>6, <1>10
  <1>13. \A k \in Keys : \A h \in indexed' + 1 .. height' : \A i \in DOMAIN EventsOf(h)' :
            \A j \in h .. height' : Tells(k, h, i, j)'
    BY <1>7, <1>8, <1>10, <1>11
  <1> QED
    BY <1>9, <1>12, <1>13 DEF History

\* What a message does to its key, and what it tells of that.
Effect(x, new) ==
    /\ live' \in Index_
    /\ DOMAIN live' \ {x} = DOMAIN live \ {x}
    /\ \A k \in DOMAIN live' \ {x} : live'[k] = live[k]
    /\ \A k \in DOMAIN live' : live'[k].left # 0 /\ ~ Expired(live'[k], height)
    /\ \A n \in DOMAIN new :
        /\ new[n].key = x
        /\ new[n].type \in {"grant", "rich"} => ~ Expired(new[n].grant, height)
    /\ \A n \in DOMAIN new :
        Writes(new[n], x) /\ (\A m \in DOMAIN new : m > n => ~ Writes(new[m], x)) =>
            IF new[n].type = "revoke" THEN x \notin DOMAIN live'
            ELSE x \in DOMAIN live' /\ live'[x] = new[n].grant
    /\ \/ \E n \in DOMAIN new : Writes(new[n], x)
       \/ /\ x \in DOMAIN live /\ x \in DOMAIN live'
          /\ live'[x].expiration = live[x].expiration
          /\ x \in ClaimKeys => \E n \in DOMAIN new : Changes(new[n], x)

\* What has no event of the message keeps what it has, ...
LEMMA MessageCarried ==
    ASSUME Shape, History, NEW x \in Keys, NEW new \in Seq(Event_), Emit(new), Effect(x, new),
           NEW top, top = height, NEW k, NEW g
    PROVE  /\ (\A n \in DOMAIN new : ~ Writes(new[n], k)) =>
                /\ Carries(g, k, top) => Carries(g, k, top)'
                /\ k \notin DOMAIN Ended(top) => k \notin DOMAIN Ended(top)'
           /\ (\A n \in DOMAIN new : ~ Changes(new[n], k)) =>
                (SameLeft(g, k, top) => SameLeft(g, k, top)')
  <1>1. Ended(top) = live /\ Ended(top)' = live' /\ top \in indexed .. height
    BY MessageView, Places
  <1>2. CASE k # x
    <2>1. /\ k \in DOMAIN live' <=> k \in DOMAIN live
          /\ k \in DOMAIN live' => live'[k] = live[k]
      BY <1>2 DEF Effect
    <2> QED
      BY <1>1, <2>1 DEF Carries, SameLeft
  <1>3. CASE k = x
    <2>1. (\A n \in DOMAIN new : ~ Writes(new[n], k)) =>
            /\ k \in DOMAIN live /\ k \in DOMAIN live' /\ live'[k].expiration = live[k].expiration
      BY <1>3 DEF Effect
    <2>2. (\A n \in DOMAIN new : ~ Changes(new[n], k)) => k \notin ClaimKeys
      BY <1>3 DEF Effect, Changes
    <2>3. \A y \in DOMAIN live : ~ Expired(live[y], top)
      BY <1>1 DEF History, Fresh
    <2> QED
      BY <1>1, <2>1, <2>2, <2>3 DEF Carries, SameLeft
  <1> QED
    BY <1>2, <1>3

\* ... and has an event after the message if it had one before, or has one of it.
LEMMA MessageWritten ==
    ASSUME Shape, NEW new \in Seq(Event_), Emit(new), NEW top, top = height, NEW k,
           NEW h \in indexed + 1 .. height, NEW i \in Nat, h = height => i <= Len(events)
    PROVE  /\ Written(k, h, i, top)' <=>
                Written(k, h, i, top) \/ \E n \in DOMAIN new : Writes(new[n], k)
           /\ Changed(k, h, i, top)' <=>
                Changed(k, h, i, top) \/ \E n \in DOMAIN new : Changes(new[n], k)
  <1>1. /\ height \in Nat /\ indexed \in Nat
        /\ \A g \in indexed + 1 .. height - 1 : EventsOf(g)' = EventsOf(g)
        /\ EventsOf(height) = events /\ EventsOf(top)' = events \o new
    BY MessageView, Places
  <1>2. /\ \A g \in h .. top : g # top => g \in indexed + 1 .. height - 1
        /\ top \in h .. top
    BY <1>1
  <1>3. events \in Seq(Event_)
    BY DEF Shape
  <1>4. /\ \A n \in DOMAIN events : n \in DOMAIN (events \o new) /\ (events \o new)[n] = events[n]
        /\ \A n \in DOMAIN new : /\ Len(events) + n \in DOMAIN (events \o new)
                                 /\ (events \o new)[Len(events) + n] = new[n]
                                 /\ h = top => Len(events) + n > i
        /\ \A n \in DOMAIN (events \o new) :
                n \in DOMAIN events \/ (n - Len(events)) \in DOMAIN new
        /\ \A n \in DOMAIN (events \o new) :
                n \notin DOMAIN events => (events \o new)[n] = new[n - Len(events)]
    BY <1>3
  <1>5. ASSUME Written(k, h, i, top)'
        PROVE  Written(k, h, i, top) \/ \E n \in DOMAIN new : Writes(new[n], k)
    <2>1. PICK g \in h .. top : \E n \in DOMAIN EventsOf(g)' :
            (g = h => n > i) /\ Writes(EventsOf(g)'[n], k)
      BY <1>5 DEF Written, Writes
    <2>2. CASE g = top
      <3>1. PICK n \in DOMAIN (events \o new) : (top = h => n > i) /\ Writes((events \o new)[n], k)
        BY <1>1, <2>1, <2>2
      <3>2. CASE n \in DOMAIN events
        BY <1>1, <1>2, <1>4, <3>1, <3>2 DEF Written
      <3>3. CASE n \notin DOMAIN events
        <4>1. n - Len(events) \in DOMAIN new /\ Writes(new[n - Len(events)], k)
          BY <1>4, <3>1, <3>3
        <4> QED
          BY <4>1
      <3> QED
        BY <3>2, <3>3
    <2>3. CASE g # top
      BY <1>1, <1>2, <2>1, <2>3 DEF Written
    <2> QED
      BY <2>2, <2>3
  <1>6. ASSUME Changed(k, h, i, top)'
        PROVE  Changed(k, h, i, top) \/ \E n \in DOMAIN new : Changes(new[n], k)
    <2>1. PICK g \in h .. top : \E n \in DOMAIN EventsOf(g)' :
            (g = h => n > i) /\ Changes(EventsOf(g)'[n], k)
      BY <1>6 DEF Changed, Changes, Writes
    <2>2. CASE g = top
      <3>1. PICK n \in DOMAIN (events \o new) : (top = h => n > i) /\ Changes((events \o new)[n], k)
        BY <1>1, <2>1, <2>2
      <3>2. CASE n \in DOMAIN events
        BY <1>1, <1>2, <1>4, <3>1, <3>2 DEF Changed
      <3>3. CASE n \notin DOMAIN events
        <4>1. n - Len(events) \in DOMAIN new /\ Changes(new[n - Len(events)], k)
          BY <1>4, <3>1, <3>3
        <4> QED
          BY <4>1
      <3> QED
        BY <3>2, <3>3
    <2>3. CASE g # top
      BY <1>1, <1>2, <2>1, <2>3 DEF Changed
    <2> QED
      BY <2>2, <2>3
  <1>7. ASSUME Written(k, h, i, top) PROVE Written(k, h, i, top)'
    <2>1. PICK g \in h .. top : \E n \in DOMAIN EventsOf(g) :
            (g = h => n > i) /\ Writes(EventsOf(g)[n], k)
      BY <1>7 DEF Written
    <2>2. \E n \in DOMAIN EventsOf(g)' : (g = h => n > i) /\ Writes(EventsOf(g)'[n], k)
      <3>1. CASE g = top
        BY <1>1, <1>4, <2>1, <3>1
      <3>2. CASE g # top
        BY <1>1, <1>2, <2>1, <3>2
      <3> QED
        BY <3>1, <3>2
    <2> QED
      BY <2>2 DEF Written, Writes
  <1>8. ASSUME Changed(k, h, i, top) PROVE Changed(k, h, i, top)'
    <2>1. PICK g \in h .. top : \E n \in DOMAIN EventsOf(g) :
            (g = h => n > i) /\ Changes(EventsOf(g)[n], k)
      BY <1>8 DEF Changed
    <2>2. \E n \in DOMAIN EventsOf(g)' : (g = h => n > i) /\ Changes(EventsOf(g)'[n], k)
      <3>1. CASE g = top
        BY <1>1, <1>4, <2>1, <3>1
      <3>2. CASE g # top
        BY <1>1, <1>2, <2>1, <3>2
      <3> QED
        BY <3>1, <3>2
    <2> QED
      BY <2>2 DEF Changed, Changes, Writes
  <1>9. ASSUME NEW n \in DOMAIN new
        PROVE  /\ Writes(new[n], k) => Written(k, h, i, top)'
               /\ Changes(new[n], k) => Changed(k, h, i, top)'
    <2>1. PICK m : m = Len(events) + n
      OBVIOUS
    <2>2. m \in DOMAIN EventsOf(top)' /\ EventsOf(top)'[m] = new[n] /\ (top = h => m > i)
      BY <1>1, <1>4, <2>1
    <2> QED
      BY <1>2, <2>2 DEF Written, Changed, Writes, Changes
  <1> QED
    BY <1>5, <1>6, <1>7, <1>8, <1>9

\* A message keeps the history.
LEMMA MessageHistory ==
    ASSUME Shape, History, NEW x \in Keys, NEW new \in Seq(Event_), Emit(new), Effect(x, new)
    PROVE  History'
  <1>1. PICK top : top = height
    OBVIOUS
  <1>2. /\ indexed' = indexed /\ height' = height /\ top \in Nat /\ indexed \in Nat /\ indexed < top
        /\ \A h \in indexed .. top - 1 : Ended(h)' = Ended(h)
        /\ \A h \in indexed + 1 .. top - 1 : EventsOf(h)' = EventsOf(h)
        /\ Ended(top) = live /\ Ended(top)' = live'
        /\ EventsOf(top) = events /\ EventsOf(top)' = events \o new
    <2>1. indexed' = indexed
      BY MessageView DEF indexVars
    <2> QED
      BY <1>1, <2>1, MessageView, Places
  <1>3. /\ events \in Seq(Event_) /\ Len(events) \in Nat
        /\ \A n \in DOMAIN events : n \in DOMAIN (events \o new) /\ (events \o new)[n] = events[n]
        /\ \A n \in DOMAIN (events \o new) :
                n \in DOMAIN events \/ ((n - Len(events)) \in DOMAIN new /\ n > Len(events))
        /\ \A n \in DOMAIN (events \o new) :
                n \notin DOMAIN events => (events \o new)[n] = new[n - Len(events)]
    BY DEF Shape
  <1>4. ASSUME NEW k \in Keys, NEW h \in indexed .. top - 1, NEW j \in h + 1 .. top
        PROVE  Persists(k, h, j)'
    <2>1. Persists(k, h, j)
      BY <1>1, <1>2 DEF History
    <2>2. CASE j # top
      <3>1. /\ h \in indexed .. top - 1 /\ j \in indexed .. top - 1
            /\ \A g \in h + 1 .. j : g \in indexed + 1 .. top - 1
        BY <1>2, <2>2
      <3> QED
        BY <1>2, <2>1, <3>1, PersistsFrame
    <2>3. CASE j = top
      <3>1. PICK f : f = Ended(h)
        OBVIOUS
      <3>2. Ended(h)' = f
        BY <1>2, <3>1
      <3>3. /\ Written(k, h + 1, 0, top)' <=>
                Written(k, h + 1, 0, top) \/ \E n \in DOMAIN new : Writes(new[n], k)
            /\ Changed(k, h + 1, 0, top)' <=>
                Changed(k, h + 1, 0, top) \/ \E n \in DOMAIN new : Changes(new[n], k)
        <4>1. PICK a : a = h + 1
          OBVIOUS
        <4>2. a \in indexed + 1 .. height /\ 0 \in Nat /\ 0 <= Len(events)
          BY <1>1, <1>2, <1>3, <4>1
        <4>3. /\ Written(k, a, 0, top)' <=>
                    Written(k, a, 0, top) \/ \E n \in DOMAIN new : Writes(new[n], k)
              /\ Changed(k, a, 0, top)' <=>
                    Changed(k, a, 0, top) \/ \E n \in DOMAIN new : Changes(new[n], k)
          BY <1>1, <4>2, MessageWritten
        <4> QED
          BY <4>1, <4>3
      <3>4. ASSUME ~ Written(k, h + 1, 0, top)'
            PROVE  IF k \in DOMAIN f THEN Carries(f[k], k, top)' ELSE k \notin DOMAIN Ended(top)'
        <4>1. PICK g : g = f[k]
          OBVIOUS
        <4>2. /\ k \in DOMAIN f => Carries(g, k, top)
              /\ k \notin DOMAIN f => k \notin DOMAIN Ended(top)
          BY <2>1, <2>3, <3>1, <3>3, <3>4, <4>1 DEF Persists
        <4>3. /\ Carries(g, k, top) => Carries(g, k, top)'
              /\ k \notin DOMAIN Ended(top) => k \notin DOMAIN Ended(top)'
          BY <1>1, <3>3, <3>4, MessageCarried
        <4>4. k \in DOMAIN f => Carries(f[k], k, top)'
          BY <4>1, <4>2, <4>3 DEF Carries
        <4> QED
          BY <4>2, <4>3, <4>4
      <3>5. ASSUME ~ Changed(k, h + 1, 0, top)', k \in DOMAIN f
            PROVE  SameLeft(f[k], k, top)'
        <4>1. PICK g : g = f[k]
          OBVIOUS
        <4>2. SameLeft(g, k, top)
          BY <2>1, <2>3, <3>1, <3>3, <3>5, <4>1 DEF Persists
        <4>3. SameLeft(g, k, top) => SameLeft(g, k, top)'
          BY <1>1, <3>3, <3>5, MessageCarried
        <4> QED
          BY <4>1, <4>2, <4>3 DEF SameLeft
      <3> QED
        BY <2>3, <3>2, <3>4, <3>5 DEF Persists, Carries, SameLeft
    <2> QED
      BY <2>2, <2>3
  <1>5. ASSUME NEW k \in Keys, NEW h \in indexed + 1 .. top, NEW i \in DOMAIN EventsOf(h),
               NEW j \in h .. top
        PROVE  Tells(k, h, i, j)'
    <2>1. Tells(k, h, i, j)
      BY <1>1, <1>2 DEF History
    <2>2. CASE j # top
      <3>1. /\ h \in indexed + 1 .. top - 1 /\ j \in indexed .. top - 1
            /\ \A g \in h .. j : g \in indexed + 1 .. top - 1
        BY <1>2, <2>2
      <3> QED
        BY <1>2, <2>1, <3>1, TellsFrame
    <2>3. CASE j = top
      <3>1. PICK ev : ev = EventsOf(h)[i]
        OBVIOUS
      <3>2. EventsOf(h)'[i] = ev /\ i \in Nat /\ (h = height => i <= Len(events))
        <4>1. CASE h = top
          BY <1>1, <1>2, <1>3, <3>1, <4>1
        <4>2. CASE h # top
          <5>1. h \in indexed + 1 .. top - 1 /\ h \in indexed + 1 .. height
            BY <1>1, <1>2, <4>2
          <5>2. EventsOf(h) \in Seq(Event_)
            BY <5>1, Places
          <5> QED
            BY <1>1, <1>2, <3>1, <4>2, <5>1, <5>2
        <4> QED
          BY <4>1, <4>2
      <3>3. /\ Written(k, h, i, top)' <=>
                Written(k, h, i, top) \/ \E n \in DOMAIN new : Writes(new[n], k)
            /\ Changed(k, h, i, top)' <=>
                Changed(k, h, i, top) \/ \E n \in DOMAIN new : Changes(new[n], k)
        BY <1>1, <3>2, MessageWritten
      <3>4. ASSUME Writes(ev, k), ~ Written(k, h, i, top)'
            PROVE  /\ ev.type = "revoke" => k \notin DOMAIN Ended(top)'
                   /\ ev.type # "revoke" => Carries(ev.grant, k, top)'
        <4>1. PICK g : g = ev.grant
          OBVIOUS
        <4>2. /\ ev.type = "revoke" => k \notin DOMAIN Ended(top)
              /\ ev.type # "revoke" => Carries(g, k, top)
          BY <2>1, <2>3, <3>1, <3>3, <3>4, <4>1 DEF Tells
        <4>3. /\ Carries(g, k, top) => Carries(g, k, top)'
              /\ k \notin DOMAIN Ended(top) => k \notin DOMAIN Ended(top)'
          BY <1>1, <3>3, <3>4, MessageCarried
        <4> QED
          BY <4>1, <4>2, <4>3 DEF Carries
      <3>5. ASSUME Writes(ev, k), ev.type # "revoke", ~ Changed(k, h, i, top)'
            PROVE  SameLeft(ev.grant, k, top)'
        <4>1. PICK g : g = ev.grant
          OBVIOUS
        <4>2. SameLeft(g, k, top)
          BY <2>1, <2>3, <3>1, <3>3, <3>5, <4>1 DEF Tells
        <4>3. SameLeft(g, k, top) => SameLeft(g, k, top)'
          BY <1>1, <3>3, <3>5, MessageCarried
        <4> QED
          BY <4>1, <4>2, <4>3 DEF SameLeft
      <3> QED
        BY <2>3, <3>2, <3>4, <3>5 DEF Tells, Carries, SameLeft, Writes
    <2> QED
      BY <2>2, <2>3
  \* The events of the message itself.
  <1>6. ASSUME NEW k \in Keys, NEW n \in DOMAIN (events \o new), n \notin DOMAIN events
        PROVE  /\ Tells(k, top, n, top)'
               /\ (events \o new)[n].type \in {"grant", "rich"} =>
                    ~ Expired((events \o new)[n].grant, top)
    <2>1. PICK m : m = n - Len(events)
      OBVIOUS
    <2>2. m \in DOMAIN new /\ (events \o new)[n] = new[m] /\ n = Len(events) + m /\ m \in Nat
      BY <1>3, <1>6, <2>1
    <2>3. new[m].key = x
      BY <2>2 DEF Effect
    <2>4. new[m].type \in {"grant", "rich"} => ~ Expired(new[m].grant, top)
      BY <1>1, <2>2 DEF Effect
    <2>5. EventsOf(top)'[n] = new[m] /\ Ended(top)' = live'
      BY <1>2, <2>2
    <2>6. ASSUME Writes(new[m], k), ~ Written(k, top, n, top)'
          PROVE  /\ k = x
                 /\ new[m].type = "revoke" => k \notin DOMAIN live'
                 /\ new[m].type # "revoke" => k \in DOMAIN live' /\ live'[k] = new[m].grant
      <3>1. \A l \in DOMAIN new : l > m => ~ Writes(new[l], k)
        <4>1. SUFFICES ASSUME NEW l \in DOMAIN new, l > m, Writes(new[l], k)
                       PROVE  Written(k, top, n, top)'
          BY <2>6
        <4>2. PICK p : p = Len(events) + l
          OBVIOUS
        <4>3. p \in DOMAIN (events \o new) /\ p > n /\ (events \o new)[p] = new[l]
          BY <1>3, <2>2, <4>1, <4>2
        <4>4. top \in top .. top
          BY <1>2
        <4> QED
          BY <1>2, <4>1, <4>3, <4>4 DEF Written, Writes
      <3>2. k = x
        BY <2>3, <2>6 DEF Writes
      <3> QED
        BY <2>2, <2>6, <3>1, <3>2 DEF Effect
    <2>7. Changed(k, top, n, top)' \/ ~ Written(k, top, n, top)'
      BY DEF Changed, Written, Changes, Writes
    <2>8. Writes(new[m], k) /\ new[m].type # "revoke" => new[m].type \in {"grant", "rich"}
      BY DEF Writes
    <2>9. ASSUME Writes(new[m], k), ~ Written(k, top, n, top)'
          PROVE  /\ new[m].type = "revoke" => k \notin DOMAIN Ended(top)'
                 /\ new[m].type # "revoke" =>
                        Carries(new[m].grant, k, top)' /\ SameLeft(new[m].grant, k, top)'
      BY <2>4, <2>5, <2>6, <2>8, <2>9 DEF Carries, SameLeft, Expired
    <2> QED
      BY <2>2, <2>4, <2>5, <2>7, <2>9 DEF Tells, Writes, Carries, SameLeft
  <1>7. Fresh'
    <2>1. \A h \in indexed .. top : h \in indexed .. top - 1 \/ h = top
      BY <1>2
    <2>2. \A h \in indexed + 1 .. top : h \in indexed + 1 .. top - 1 \/ h = top
      BY <1>2
    <2>3. \A k \in DOMAIN live' : ~ Expired(live'[k], top)
      BY <1>1 DEF Effect
    <2>4. \A h \in indexed .. top : \A k \in DOMAIN Ended(h)' : ~ Expired(Ended(h)'[k], h)
      BY <1>1, <1>2, <2>1, <2>3 DEF History, Fresh
    <2>5. \A i \in DOMAIN (events \o new) : (events \o new)[i].type \in {"grant", "rich"} =>
            ~ Expired((events \o new)[i].grant, top)
      <3> SUFFICES ASSUME NEW i \in DOMAIN (events \o new),
                          (events \o new)[i].type \in {"grant", "rich"}
                   PROVE  ~ Expired((events \o new)[i].grant, top)
        OBVIOUS
      <3>1. CASE i \in DOMAIN events
        BY <1>1, <1>2, <1>3, <3>1 DEF History, Fresh
      <3>2. CASE i \notin DOMAIN events
        BY <1>6, <3>2
      <3> QED
        BY <3>1, <3>2
    <2>6. \A h \in indexed + 1 .. top : \A i \in DOMAIN EventsOf(h)' :
            EventsOf(h)'[i].type \in {"grant", "rich"} => ~ Expired(EventsOf(h)'[i].grant, h)
      BY <1>1, <1>2, <2>2, <2>5 DEF History, Fresh
    <2> QED
      BY <1>1, <1>2, <2>4, <2>6 DEF Fresh, Expired
  <1>8. /\ \A h \in indexed .. top : \A j \in h + 1 .. top : h \in indexed .. top - 1
        /\ \A h \in indexed + 1 .. top : h \in indexed + 1 .. top - 1 \/ h = top
        /\ \A j \in top .. top : j = top
    BY <1>2
  <1>9. \A k \in Keys : \A h \in indexed .. top : \A j \in h + 1 .. top : Persists(k, h, j)'
    BY <1>4, <1>8
  <1>10. \A k \in Keys : \A h \in indexed + 1 .. top : \A i \in DOMAIN EventsOf(h)' :
            \A j \in h .. top : Tells(k, h, i, j)'
    <2> SUFFICES ASSUME NEW k \in Keys, NEW h \in indexed + 1 .. top, NEW i \in DOMAIN EventsOf(h)',
                        NEW j \in h .. top
                 PROVE  Tells(k, h, i, j)'
      OBVIOUS
    <2>1. CASE h # top
      BY <1>2, <1>5, <1>8, <2>1
    <2>2. CASE h = top
      <3>1. i \in DOMAIN (events \o new) /\ j = top
        BY <1>2, <1>8, <2>2
      <3>2. CASE i \in DOMAIN events
        BY <1>2, <1>5, <2>2, <3>2
      <3>3. CASE i \notin DOMAIN events
        BY <1>6, <2>2, <3>1, <3>3
      <3> QED
        BY <3>2, <3>3
    <2> QED
      BY <2>1, <2>2
  <1> QED
    BY <1>1, <1>2, <1>7, <1>9, <1>10 DEF History

\* What is live has not expired, and is not used up.
LEMMA LiveIsFresh ==
    ASSUME Shape, History
    PROVE  \A k \in DOMAIN live : live[k].left # 0 /\ ~ Expired(live[k], height)
  <1>1. height \in indexed .. height /\ height # indexed
    BY Places
  <1>2. Ended(height) = live
    BY <1>1 DEF Ended
  <1>3. \A k \in DOMAIN live : ~ Expired(live[k], height)
    BY <1>1, <1>2 DEF History, Fresh
  <1> QED
    BY <1>3 DEF Shape

\* Each message of the chain has such an effect: a grant by a message, ...
LEMMA GrantsEffect ==
    ASSUME Shape, History, NEW x \in Keys, NEW via \in {"message", "rich", "wrapped"},
           NEW left \in Limits, NEW t \in Lifetimes, ChainGrants(x, via, left, t)
    PROVE  \E new \in Seq(Event_) : Emit(new) /\ Effect(x, new)
  <1>1. PICK g : g = Grant(left, IF t = 0 THEN Never ELSE height + t)
    OBVIOUS
  <1>2. g \in Payload /\ g.left # 0 /\ ~ Expired(g, height)
    <2>1. left \in Nat \ {0} /\ t \in Nat /\ height \in Nat
      BY GrantParameters, Places
    <2>2. CASE t = 0
      BY <1>1, <2>1, <2>2 DEF Grant, Payload, Expired, Never
    <2>3. CASE t # 0
      <3>1. g = [left |-> left, expiration |-> height + t]
        BY <1>1, <2>3 DEF Grant
      <3>2. height + t \in Nat /\ ~ (height + t <= height)
        BY <2>1, <2>3
      <3> QED
        BY <2>1, <3>1, <3>2 DEF Payload, Expired
    <2> QED
      BY <2>2, <2>3
  <1>3. PICK first : first = GrantEvent(x, via, g)
    OBVIOUS
  <1>4. PICK rich : rich = [type |-> "rich", key |-> x, grant |-> g]
    OBVIOUS
  <1>5. first \in Event_ /\ rich \in Event_
    BY <1>2, <1>3, <1>4 DEF Event_, GrantEvent
  <1>6. PICK new : new = IF via = "rich" THEN <<first, rich>> ELSE <<first>>
    OBVIOUS
  <1>7. new \in Seq(Event_)
    BY <1>5, <1>6
  <1>8. Emit(new) /\ live' = Put(live, x, g)
    BY <1>1, <1>3, <1>4, <1>6 DEF ChainGrants
  <1>9. /\ live' \in Index_ /\ DOMAIN live' = DOMAIN live \cup {x} /\ live'[x] = g
        /\ \A k \in DOMAIN live \ {x} : live'[k] = live[k]
    <2>1. live \in Index_
      BY DEF Shape
    <2> QED
      BY <1>2, <1>8, <2>1, PutType DEF Put
  <1>10. \A k \in DOMAIN live' : live'[k].left # 0 /\ ~ Expired(live'[k], height)
    <2>1. \A k \in DOMAIN live : live[k].left # 0 /\ ~ Expired(live[k], height)
      BY LiveIsFresh
    <2> QED
      BY <1>2, <1>9, <2>1
  <1>11. /\ first.key = x /\ first.grant = g /\ first.type = "grant" /\ first.via = via
         /\ rich.key = x /\ rich.grant = g /\ rich.type = "rich"
    BY <1>3, <1>4 DEF GrantEvent
  <1>12. CASE via = "rich"
    <2>1. new = <<first, rich>> /\ ~ Writes(first, x) /\ Writes(rich, x)
      BY <1>6, <1>11, <1>12 DEF Writes
    <2>2. DOMAIN new = {1, 2} /\ new[1] = first /\ new[2] = rich
      BY <2>1
    <2>3. Effect(x, new)
      BY <1>2, <1>9, <1>10, <1>11, <2>1, <2>2 DEF Effect
    <2> QED
      BY <1>7, <1>8, <2>3
  <1>13. CASE via # "rich"
    <2>1. new = <<first>> /\ Writes(first, x)
      BY <1>6, <1>11, <1>13 DEF Writes
    <2>2. DOMAIN new = {1} /\ new[1] = first
      BY <2>1
    <2>3. Effect(x, new)
      BY <1>2, <1>9, <1>10, <1>11, <2>1, <2>2 DEF Effect
    <2> QED
      BY <1>7, <1>8, <2>3
  <1> QED
    BY <1>12, <1>13

\* ... the claims module's grant of a payout, ...
LEMMA PayoutEffect ==
    ASSUME Shape, History, NEW x \in Keys, ChainGrantsPayout(x)
    PROVE  \E new \in Seq(Event_) : Emit(new) /\ Effect(x, new)
  <1>1. PICK g : g = Grant(1, Never)
    OBVIOUS
  <1>2. g \in Payload /\ g.left # 0 /\ ~ Expired(g, height)
    BY <1>1 DEF Grant, Payload, Expired, Never
  <1>3. PICK first : first = GrantEvent(x, "payout", g)
    OBVIOUS
  <1>4. first \in Event_
    BY <1>1, <1>3 DEF Event_, GrantEvent, ChainGrantsPayout
  <1>5. PICK new : new = <<first>>
    OBVIOUS
  <1>6. new \in Seq(Event_) /\ Emit(new) /\ live' = Put(live, x, g)
    BY <1>1, <1>3, <1>4, <1>5 DEF ChainGrantsPayout
  <1>7. /\ live' \in Index_ /\ DOMAIN live' = DOMAIN live \cup {x} /\ live'[x] = g
        /\ \A k \in DOMAIN live \ {x} : live'[k] = live[k]
    <2>1. live \in Index_
      BY DEF Shape
    <2> QED
      BY <1>2, <1>6, <2>1, PutType DEF Put
  <1>8. \A k \in DOMAIN live' : live'[k].left # 0 /\ ~ Expired(live'[k], height)
    <2>1. \A k \in DOMAIN live : live[k].left # 0 /\ ~ Expired(live[k], height)
      BY LiveIsFresh
    <2> QED
      BY <1>2, <1>7, <2>1
  <1>9. /\ first.key = x /\ first.grant = g /\ first.type = "grant" /\ first.via = "payout"
        /\ Writes(first, x)
    BY <1>3 DEF GrantEvent, Writes
  <1>10. DOMAIN new = {1} /\ new[1] = first
    BY <1>5
  <1>11. Effect(x, new)
    BY <1>2, <1>7, <1>8, <1>9, <1>10 DEF Effect
  <1> QED
    BY <1>6, <1>11

\* A grant that is taken from the chain's.
LEMMA RemoveType ==
    ASSUME NEW f \in Index_, NEW x
    PROVE  /\ Remove(f, x) \in Index_ /\ DOMAIN Remove(f, x) = DOMAIN f \ {x}
           /\ \A k \in DOMAIN f \ {x} : Remove(f, x)[k] = f[k]
  <1>1. DOMAIN f \ {x} \in SUBSET DOMAIN f
    OBVIOUS
  <1> QED
    BY <1>1, RestrictType DEF Remove, Restrict

\* ... a revocation ...
LEMMA RevokesEffect ==
    ASSUME Shape, History, NEW x \in Keys, ChainRevokes(x)
    PROVE  \E new \in Seq(Event_) : Emit(new) /\ Effect(x, new)
  <1>1. PICK first : first = [type |-> "revoke", key |-> x]
    OBVIOUS
  <1>2. PICK new : new = <<first>>
    OBVIOUS
  <1>3. first \in Event_ /\ new \in Seq(Event_) /\ Emit(new) /\ live' = Remove(live, x)
    BY <1>1, <1>2 DEF Event_, ChainRevokes
  <1>4. /\ live' \in Index_ /\ DOMAIN live' = DOMAIN live \ {x}
        /\ \A k \in DOMAIN live \ {x} : live'[k] = live[k]
    BY <1>3, RemoveType DEF Shape
  <1>5. \A k \in DOMAIN live' : live'[k].left # 0 /\ ~ Expired(live'[k], height)
    <2>1. \A k \in DOMAIN live : live[k].left # 0 /\ ~ Expired(live[k], height)
      BY LiveIsFresh
    <2> QED
      BY <1>4, <2>1
  <1>6. first.key = x /\ first.type = "revoke" /\ Writes(first, x)
    BY <1>1 DEF Writes
  <1>7. DOMAIN new = {1} /\ new[1] = first
    BY <1>2
  <1>8. Effect(x, new)
    BY <1>4, <1>5, <1>6, <1>7 DEF Effect
  <1> QED
    BY <1>3, <1>8

\* ... and a use, whether or not it is the last one.
LEMMA ConsumesEffect ==
    ASSUME Shape, History, NEW x \in Keys, ChainConsumes(x)
    PROVE  \E new \in Seq(Event_) : Emit(new) /\ Effect(x, new)
  <1>1. PICK gone : gone = [type |-> "revoke", key |-> x]
    OBVIOUS
  <1>2. PICK used : used = [type |-> "used", key |-> x]
    OBVIOUS
  <1>3. PICK after : after = IF x \in ClaimKeys THEN <<used>> ELSE << >>
    OBVIOUS
  <1>4. gone \in Event_ /\ used \in Event_
    BY <1>1, <1>2 DEF Event_
  <1>5. /\ gone.key = x /\ gone.type = "revoke" /\ Writes(gone, x)
        /\ used.key = x /\ used.type = "used" /\ ~ Writes(used, x) /\ Changes(used, x)
    BY <1>1, <1>2 DEF Writes, Changes
  <1>6. x \in DOMAIN live /\ live \in Index_
    BY DEF ChainConsumes, Shape
  <1>7. CASE live[x].left = 1
    <2>1. PICK new : new = <<gone>> \o after
      OBVIOUS
    <2>2. Emit(new) /\ live' = Remove(live, x)
      BY <1>1, <1>2, <1>3, <1>7, <2>1 DEF ChainConsumes
    <2>3. /\ new \in Seq(Event_)
          /\ DOMAIN new = {1} \/ (DOMAIN new = {1, 2} /\ new[2] = used)
          /\ new[1] = gone
      BY <1>3, <1>4, <2>1
    <2>4. /\ live' \in Index_ /\ DOMAIN live' = DOMAIN live \ {x}
          /\ \A k \in DOMAIN live \ {x} : live'[k] = live[k]
      BY <1>6, <2>2, RemoveType
    <2>5. \A k \in DOMAIN live : live[k].left # 0 /\ ~ Expired(live[k], height)
      BY LiveIsFresh
    <2>6. Effect(x, new)
      BY <1>5, <2>3, <2>4, <2>5 DEF Effect
    <2> QED
      BY <2>2, <2>3, <2>6
  <1>8. CASE live[x].left # 1
    <2>1. Emit(after) /\ live' = [live EXCEPT ![x].left = @ - 1]
      BY <1>2, <1>3, <1>8 DEF ChainConsumes
    <2>2. /\ after \in Seq(Event_)
          /\ \A n \in DOMAIN after : after[n] = used
          /\ x \in ClaimKeys => 1 \in DOMAIN after /\ after[1] = used
      BY <1>3, <1>4
    <2>3. \A k \in DOMAIN live : live[k].left # 0 /\ ~ Expired(live[k], height)
      BY LiveIsFresh
    <2>4. PICK T \in SUBSET Keys : live \in [T -> Payload]
      BY <1>6 DEF Index_
    <2>5. PICK g : g = [live[x] EXCEPT !.left = @ - 1]
      OBVIOUS
    <2>6. g \in Payload /\ g.left # 0 /\ g.expiration = live[x].expiration
      <3>1. live[x] \in Payload
        BY <1>6, <2>4
      <3>2. live[x].left \in Nat /\ live[x].expiration \in Nat
            /\ live[x].left # 0 /\ live[x].left # 1
        BY <1>6, <1>8, <2>3, <3>1 DEF Payload
      <3>3. g = [left |-> live[x].left - 1, expiration |-> live[x].expiration]
        BY <2>5, <3>1 DEF Payload
      <3> QED
        BY <3>2, <3>3 DEF Payload
    <2>7. /\ live' \in [T -> Payload] /\ DOMAIN live' = DOMAIN live /\ live'[x] = g
          /\ \A k \in DOMAIN live \ {x} : live'[k] = live[k]
      BY <1>6, <2>1, <2>4, <2>5, <2>6
    <2>8. \A k \in DOMAIN live' : live'[k].left # 0 /\ ~ Expired(live'[k], height)
      BY <1>6, <2>3, <2>6, <2>7 DEF Expired
    <2>9. live' \in Index_
      BY <2>4, <2>7 DEF Index_
    <2>10. \A n \in DOMAIN after : ~ Writes(after[n], x)
      BY <1>5, <2>2
    <2>11. x \in ClaimKeys => \E n \in DOMAIN after : Changes(after[n], x)
      BY <1>5, <2>2
    <2>12. Effect(x, after)
      BY <1>5, <1>6, <2>2, <2>6, <2>7, <2>8, <2>9, <2>10, <2>11 DEF Effect
    <2> QED
      BY <2>1, <2>2, <2>12
  <1> QED
    BY <1>7, <1>8

----------------------------------------------------------------------------
(* The rows. *)

\* The first block at whose end the rows stand for the chain's grants, when
\* what is left of the backlog up to there is done with.
First == IF pos = 0 THEN indexed ELSE indexed + 1

\* What k has at the end of block j has a row, which no sweep removes before.
Covers(k, j) ==
    ~ Written(k, indexed + 1, pos, j) /\ k \in DOMAIN Ended(j) =>
        /\ k \in DOMAIN rows /\ ~ Expired(rows[k], j)
        /\ j = height => rows[k].expiration \in {Never, Ended(j)[k].expiration}

\* A row that rests on exact answers is what k has at the end of block j.
Backed(k, j) ==
    k \in DOMAIN rows \ tainted =>
        /\ ~ Written(k, indexed + 1, pos, j) => Carries(rows[k], k, j)
        /\ ~ Changed(k, indexed + 1, pos, j) => SameLeft(rows[k], k, j)

RowsInv ==
    /\ \A k \in Keys : \A j \in First .. height : Covers(k, j) /\ Backed(k, j)
    /\ pos = 0 => \A k \in DOMAIN rows : ~ Expired(rows[k], indexed)

\* A message does not touch the rows; what it changes is still to be processed.
LEMMA MessageRows ==
    ASSUME Shape, History, RowsInv,
           NEW x \in Keys, NEW new \in Seq(Event_), Emit(new), Effect(x, new)
    PROVE  RowsInv'
  <1>1. PICK top : top = height
    OBVIOUS
  <1>2. /\ UNCHANGED <<indexed, rows, tainted, pos, height>>
        /\ top \in Nat /\ indexed \in Nat /\ indexed < top /\ pos = 0
        /\ \A h \in indexed .. top - 1 : Ended(h)' = Ended(h)
        /\ \A h \in indexed + 1 .. top - 1 : EventsOf(h)' = EventsOf(h)
    <2>1. UNCHANGED <<indexed, rows, tainted, pos>>
      BY MessageView DEF indexVars
    <2> QED
      BY <1>1, <2>1, MessageView, Places
  <1>3. PICK b : b = indexed + 1
    OBVIOUS
  <1>4. ASSUME NEW k \in Keys, NEW j \in indexed .. top
        PROVE  Covers(k, j)' /\ Backed(k, j)'
    <2>1. Covers(k, j) /\ Backed(k, j)
      BY <1>1, <1>2 DEF RowsInv, First
    <2>2. CASE j # top
      <3>1. /\ Ended(j)' = Ended(j)
            /\ \A g \in b .. j : EventsOf(g)' = EventsOf(g)
        BY <1>2, <1>3, <2>2
      <3>2. /\ Written(k, b, 0, j)' <=> Written(k, b, 0, j)
            /\ Changed(k, b, 0, j)' <=> Changed(k, b, 0, j)
        BY <3>1, WrittenFrame
      <3>3. /\ Written(k, indexed + 1, pos, j)' <=> Written(k, indexed + 1, pos, j)
            /\ Changed(k, indexed + 1, pos, j)' <=> Changed(k, indexed + 1, pos, j)
        BY <1>2, <1>3, <3>2
      <3> QED
        BY <1>2, <2>1, <3>1, <3>3 DEF Covers, Backed, Carries, SameLeft
    <2>3. CASE j = top
      <3>1. b \in indexed + 1 .. height /\ 0 \in Nat /\ 0 <= Len(events)
        BY <1>1, <1>2, <1>3 DEF Shape
      <3>2. /\ Written(k, b, 0, top)' <=>
                Written(k, b, 0, top) \/ \E n \in DOMAIN new : Writes(new[n], k)
            /\ Changed(k, b, 0, top)' <=>
                Changed(k, b, 0, top) \/ \E n \in DOMAIN new : Changes(new[n], k)
        BY <1>1, <3>1, MessageWritten
      <3>3. /\ Written(k, indexed + 1, pos, top)' <=>
                Written(k, indexed + 1, pos, top) \/ \E n \in DOMAIN new : Writes(new[n], k)
            /\ Changed(k, indexed + 1, pos, top)' <=>
                Changed(k, indexed + 1, pos, top) \/ \E n \in DOMAIN new : Changes(new[n], k)
        BY <1>2, <1>3, <3>2
      <3>4. Covers(k, top)'
        <4> SUFFICES ASSUME ~ Written(k, indexed + 1, pos, top)', k \in DOMAIN Ended(top)'
                     PROVE  /\ k \in DOMAIN rows /\ ~ Expired(rows[k], top)
                            /\ rows[k].expiration \in {Never, Ended(top)'[k].expiration}
          BY <1>2 DEF Covers
        <4>1. PICK g : g = Ended(top)[k]
          OBVIOUS
        <4>2. k \in DOMAIN Ended(top) /\ Carries(g, k, top) => Carries(g, k, top)'
          BY <1>1, <3>3, MessageCarried
        <4>3. k \in DOMAIN Ended(top)
          BY <1>1, <3>3, MessageCarried
        <4>4. Carries(g, k, top)
          BY <1>1, <1>2, <4>1, <4>3 DEF History, Fresh, Carries
        <4>5. Ended(top)'[k].expiration = Ended(top)[k].expiration
          BY <4>1, <4>2, <4>3, <4>4 DEF Carries
        <4> QED
          BY <1>1, <2>1, <2>3, <3>3, <4>3, <4>5 DEF Covers
      <3>5. Backed(k, top)'
        <4>1. PICK g : g = rows[k]
          OBVIOUS
        <4>2. (\A n \in DOMAIN new : ~ Writes(new[n], k)) =>
                (Carries(g, k, top) => Carries(g, k, top)')
          BY <1>1, MessageCarried
        <4>3. (\A n \in DOMAIN new : ~ Changes(new[n], k)) =>
                (SameLeft(g, k, top) => SameLeft(g, k, top)')
          BY <1>1, MessageCarried
        <4>4. k \in DOMAIN rows \ tainted =>
                /\ ~ Written(k, indexed + 1, pos, top)' => Carries(g, k, top)'
                /\ ~ Changed(k, indexed + 1, pos, top)' => SameLeft(g, k, top)'
          BY <2>1, <2>3, <3>3, <4>1, <4>2, <4>3 DEF Backed
        <4> QED
          BY <1>2, <4>1, <4>4 DEF Backed, Carries, SameLeft
      <3> QED
        BY <2>3, <3>4, <3>5
    <2> QED
      BY <2>2, <2>3
  <1> QED
    BY <1>1, <1>2, <1>4 DEF RowsInv, First, Expired

\* At a block's beginning grants expire that the rows cover until then.
LEMMA EndRows ==
    ASSUME Shape, History, RowsInv, ChainEndsBlock
    PROVE  RowsInv'
  <1>1. PICK top : top = height + 1
    OBVIOUS
  <1>2. /\ UNCHANGED <<indexed, rows, tainted, pos>>
        /\ height \in Nat /\ indexed \in Nat /\ indexed < height /\ pos = 0 /\ height' = top
        /\ \A h \in indexed .. height : Ended(h)' = Ended(h)
        /\ \A h \in indexed + 1 .. height : EventsOf(h)' = EventsOf(h)
        /\ Ended(height) = live /\ Ended(top)' = Unexpired(live, top)
    <2>1. UNCHANGED <<indexed, rows, tainted, pos>>
      BY EndView DEF indexVars
    <2> QED
      BY <1>1, <2>1, EndView, Places
  <1>3. PICK b : b = indexed + 1
    OBVIOUS
  <1>4. ASSUME NEW k \in Keys, NEW j \in indexed .. height
        PROVE  Covers(k, j)' /\ Backed(k, j)'
    <2>1. Covers(k, j) /\ Backed(k, j) /\ j # top
      BY <1>1, <1>2 DEF RowsInv, First
    <2>2. Ended(j)' = Ended(j) /\ \A g \in b .. j : EventsOf(g)' = EventsOf(g)
      BY <1>2, <1>3
    <2>3. /\ Written(k, b, 0, j)' <=> Written(k, b, 0, j)
          /\ Changed(k, b, 0, j)' <=> Changed(k, b, 0, j)
      BY <2>2, WrittenFrame
    <2>4. /\ Written(k, indexed + 1, pos, j)' <=> Written(k, indexed + 1, pos, j)
          /\ Changed(k, indexed + 1, pos, j)' <=> Changed(k, indexed + 1, pos, j)
      BY <1>2, <1>3, <2>3
    <2> QED
      BY <1>2, <2>1, <2>2, <2>4 DEF Covers, Backed, Carries, SameLeft
  <1>5. ASSUME NEW k \in Keys
        PROVE  Covers(k, top)' /\ Backed(k, top)'
    <2>1. Covers(k, height) /\ Backed(k, height)
      BY <1>2 DEF RowsInv, First
    <2>2. b \in indexed + 1 .. height + 1 /\ b # top
      BY <1>1, <1>2, <1>3
    <2>3. /\ Written(k, b, 0, top)' <=> Written(k, b, 0, height)
          /\ Changed(k, b, 0, top)' <=> Changed(k, b, 0, height)
      BY <1>1, <2>2, WrittenOn
    <2>4. /\ Written(k, indexed + 1, pos, top)' <=> Written(k, indexed + 1, pos, height)
          /\ Changed(k, indexed + 1, pos, top)' <=> Changed(k, indexed + 1, pos, height)
      BY <1>2, <1>3, <2>3
    <2>5. Covers(k, top)'
      <3> SUFFICES ASSUME ~ Written(k, indexed + 1, pos, top)', k \in DOMAIN Ended(top)'
                   PROVE  /\ k \in DOMAIN rows /\ ~ Expired(rows[k], top)
                          /\ rows[k].expiration \in {Never, Ended(top)'[k].expiration}
        BY <1>2 DEF Covers
      <3>1. /\ k \in DOMAIN live /\ ~ Expired(live[k], top) /\ Ended(top)'[k] = live[k]
        BY <1>2 DEF Unexpired, Restrict
      <3>2. k \in DOMAIN rows /\ rows[k].expiration \in {Never, live[k].expiration}
        BY <1>2, <2>1, <2>4, <3>1 DEF Covers
      <3> QED
        BY <3>1, <3>2 DEF Expired
    <2>6. Backed(k, top)'
      <3>1. SUFFICES ASSUME k \in DOMAIN rows \ tainted
                     PROVE  Backed(k, top)'
        BY <1>2 DEF Backed
      <3>2. PICK g : g = rows[k]
        OBVIOUS
      <3>3. g \in Payload
        BY <3>1, <3>2 DEF Shape, TypeOK, IsGrants, Payload
      <3>4. /\ Carries(g, k, height) => Carries(g, k, top)'
            /\ SameLeft(g, k, height) => SameLeft(g, k, top)'
        BY <1>1, <3>3, CarriedOn
      <3>5. /\ ~ Written(k, indexed + 1, pos, top)' => Carries(g, k, top)'
            /\ ~ Changed(k, indexed + 1, pos, top)' => SameLeft(g, k, top)'
        BY <2>1, <2>4, <3>1, <3>2, <3>4 DEF Backed
      <3> QED
        BY <1>2, <3>2, <3>5 DEF Backed, Carries, SameLeft
    <2> QED
      BY <2>5, <2>6
  <1>6. \A j \in indexed .. top : j = top \/ j \in indexed .. height
    BY <1>1, <1>2
  <1> QED
    BY <1>2, <1>4, <1>5, <1>6 DEF RowsInv, First, Expired

\* The events after one that is processed are the others.
LEMMA EventWritten ==
    ASSUME Shape, Processed, ~ ChainsTurn, pos < Len(backlog[1].events),
           NEW k, NEW b, b = indexed + 1, NEW n, n = pos + 1, NEW j \in b .. height
    PROVE  /\ Written(k, indexed + 1, pos, j) <=> Writes(Event, k) \/ Written(k, b, n, j)
           /\ Changed(k, indexed + 1, pos, j) <=> Changes(Event, k) \/ Changed(k, b, n, j)
           /\ Written(k, indexed + 1, pos, j)' <=> Written(k, b, n, j)
           /\ Changed(k, indexed + 1, pos, j)' <=> Changed(k, b, n, j)
  <1>1. /\ UNCHANGED <<height, indexed>> /\ pos' = n /\ pos \in Nat
        /\ n \in DOMAIN EventsOf(b) /\ Event = EventsOf(b)[n]
        /\ indexed \in Nat /\ height \in Nat /\ EventsOf(b) \in Seq(Event_)
        /\ \A g \in indexed .. height : EventsOf(g)' = EventsOf(g)
    <2>1. b \in indexed + 1 .. height
      BY Places
    <2> QED
      BY <2>1, EventView, Places DEF Shape
  <1>2. \A g \in b .. j : EventsOf(g)' = EventsOf(g)
    BY <1>1
  <1>3. /\ Written(k, b, n, j)' <=> Written(k, b, n, j)
        /\ Changed(k, b, n, j)' <=> Changed(k, b, n, j)
    BY <1>2, WrittenFrame
  <1>4. \A m \in DOMAIN EventsOf(b) : m > pos <=> m = n \/ m > n
    BY <1>1
  <1>5. b \in b .. j
    BY <1>1
  <1>6. Written(k, b, pos, j) <=> Writes(Event, k) \/ Written(k, b, n, j)
    BY <1>1, <1>4, <1>5 DEF Written
  <1>7. Changed(k, b, pos, j) <=> Changes(Event, k) \/ Changed(k, b, n, j)
    BY <1>1, <1>4, <1>5 DEF Changed
  <1> QED
    BY <1>1, <1>3, <1>6, <1>7

\* A step of the index that processes an event preserves RowsInv, when it puts
\* under the event's key what is in force until the key's next events.
LEMMA EventRows ==
    ASSUME Shape, History, RowsInv,
           Processed, ~ ChainsTurn, pos < Len(backlog[1].events),
           NEW b, b = indexed + 1, NEW n, n = pos + 1, NEW x, x = Event.key,
           \A k \in Keys \ {x} :
                /\ k \in DOMAIN rows' <=> k \in DOMAIN rows
                /\ k \in DOMAIN rows => rows'[k] = rows[k]
                /\ k \in tainted' <=> k \in tainted,
           \A j \in b .. height :
                ~ Written(x, b, n, j) /\ x \in DOMAIN Ended(j) =>
                    /\ x \in DOMAIN rows' /\ ~ Expired(rows'[x], j)
                    /\ j = height => rows'[x].expiration \in {Never, Ended(j)[x].expiration},
           \A j \in b .. height :
                x \in DOMAIN rows' \ tainted' =>
                    /\ ~ Written(x, b, n, j) => Carries(rows'[x], x, j)
                    /\ ~ Changed(x, b, n, j) => SameLeft(rows'[x], x, j)
    PROVE  RowsInv'
  <1>1. /\ UNCHANGED <<height, indexed>> /\ pos' = pos + 1 /\ pos \in Nat /\ pos' # 0
        /\ indexed \in Nat /\ height \in Nat
        /\ \A h \in indexed .. height : Ended(h)' = Ended(h)
    BY EventView, Places DEF Shape
  <1>2. ASSUME NEW k \in Keys, NEW j \in b .. height
        PROVE  Covers(k, j)' /\ Backed(k, j)'
    <2>1. /\ Written(k, indexed + 1, pos, j) <=> Writes(Event, k) \/ Written(k, b, n, j)
          /\ Changed(k, indexed + 1, pos, j) <=> Changes(Event, k) \/ Changed(k, b, n, j)
          /\ Written(k, indexed + 1, pos, j)' <=> Written(k, b, n, j)
          /\ Changed(k, indexed + 1, pos, j)' <=> Changed(k, b, n, j)
      BY EventWritten
    <2>2. Ended(j)' = Ended(j) /\ j \in First .. height
      BY <1>1 DEF First
    <2>3. CASE k = x
      BY <1>1, <2>1, <2>2, <2>3 DEF Covers, Backed, Carries, SameLeft
    <2>4. CASE k # x
      <3>1. ~ Writes(Event, k) /\ ~ Changes(Event, k)
        BY <2>4 DEF Writes, Changes
      <3>2. Covers(k, j) /\ Backed(k, j)
        BY <2>2 DEF RowsInv
      <3> QED
        BY <1>1, <2>1, <2>2, <2>4, <3>1, <3>2 DEF Covers, Backed, Carries, SameLeft
    <2> QED
      BY <2>3, <2>4
  <1>3. First' = b /\ height' = height
    BY <1>1 DEF First
  <1> QED
    BY <1>1, <1>2, <1>3 DEF RowsInv

\* What an event tells holds until the key's next one.
LEMMA EventTells ==
    ASSUME Shape, History, Processed, ~ ChainsTurn, pos < Len(backlog[1].events),
           NEW b, b = indexed + 1, NEW n, n = pos + 1, NEW x, x = Event.key,
           Writes(Event, x), NEW j \in b .. height
    PROVE  /\ ~ Written(x, b, n, j) =>
                IF Event.type = "revoke" THEN x \notin DOMAIN Ended(j)
                ELSE Carries(Event.grant, x, j)
           /\ Event.type # "revoke" /\ ~ Changed(x, b, n, j) => SameLeft(Event.grant, x, j)
  <1>1. /\ n \in DOMAIN EventsOf(b) /\ Event = EventsOf(b)[n] /\ x \in Keys
        /\ b \in indexed + 1 .. height
    <2>1. x \in Keys
      BY EventView, GrantParameters DEF Event_
    <2> QED
      BY <2>1, EventView, Places
  <1>2. Tells(x, b, n, j)
    BY <1>1 DEF History
  <1> QED
    BY <1>1, <1>2 DEF Tells

\* A row with the payload that the event shows.
LEMMA ShownRows ==
    ASSUME Shape, History, RowsInv,
           Processed, ~ ChainsTurn, pos < Len(backlog[1].events),
           NEW x, x = Event.key, Writes(Event, x), Event.type # "revoke",
           NEW g, rows' = Put(rows, x, g), tainted' = tainted \ {x},
           g.expiration = Event.grant.expiration,
           x \in ClaimKeys => g.left = Event.grant.left
    PROVE  RowsInv'
  <1>1. PICK b : b = indexed + 1
    OBVIOUS
  <1>2. PICK n : n = pos + 1
    OBVIOUS
  <1>3. PICK ev : ev = Event
    OBVIOUS
  <1>4. /\ x \in DOMAIN rows' /\ rows'[x] = g
        /\ \A k : k # x => /\ k \in DOMAIN rows' <=> k \in DOMAIN rows
                           /\ k \in DOMAIN rows => rows'[k] = rows[k]
    BY DEF Put
  <1>5. ASSUME NEW j \in b .. height
        PROVE  /\ ~ Written(x, b, n, j) => Carries(g, x, j)
               /\ ~ Changed(x, b, n, j) => SameLeft(g, x, j)
    <2>1. /\ ~ Written(x, b, n, j) => Carries(ev.grant, x, j)
          /\ ~ Changed(x, b, n, j) => SameLeft(ev.grant, x, j)
      BY <1>1, <1>2, <1>3, EventTells
    <2> QED
      BY <1>3, <2>1 DEF Carries, SameLeft, Expired
  <1>6. ASSUME NEW j \in b .. height, ~ Written(x, b, n, j), x \in DOMAIN Ended(j)
        PROVE  ~ Expired(g, j) /\ Ended(j)[x].expiration = g.expiration
    BY <1>5, <1>6 DEF Carries
  <1>7. \A k \in Keys \ {x} : k \in tainted' <=> k \in tainted
    OBVIOUS
  <1> QED
    BY <1>1, <1>2, <1>4, <1>5, <1>6, <1>7, EventRows

\* MsgGrant, and the grant of a payout.
LEMMA GrantRows ==
    ASSUME Shape, History, RowsInv, IndexGrant
    PROVE  RowsInv'
  <1>1. PICK x : x = Event.key
    OBVIOUS
  <1>2. PICK g : g = IF Event.via = "message" THEN Event.grant ELSE Bare
    OBVIOUS
  <1>3. /\ Processed /\ ~ ChainsTurn /\ pos < Len(backlog[1].events)
        /\ Event.type = "grant" /\ Event.via \in {"message", "payout"}
        /\ rows' = Put(rows, x, g) /\ tainted' = tainted \ {x}
    BY <1>1, <1>2 DEF IndexGrant, Processing
  <1>4. Event \in Event_
    BY <1>3, EventView
  <1>5. Event.via = "payout" => Event.key \in PayoutKeys /\ Event.grant = Grant(1, Never)
    BY <1>3, <1>4 DEF Event_
  <1>6. /\ g.expiration = Event.grant.expiration
        /\ x \in ClaimKeys => g.left = Event.grant.left
    BY <1>1, <1>2, <1>3, <1>5, GrantParameters DEF Bare, Grant
  <1>7. Writes(Event, x)
    BY <1>1, <1>3 DEF Writes
  <1> QED
    BY <1>1, <1>3, <1>6, <1>7, ShownRows

\* The richer event has the payload, ...
LEMMA RichRows ==
    ASSUME Shape, History, RowsInv, IndexRichGrant
    PROVE  RowsInv'
  <1>1. PICK x : x = Event.key
    OBVIOUS
  <1>2. /\ Processed /\ ~ ChainsTurn /\ pos < Len(backlog[1].events) /\ Event.type = "rich"
        /\ rows' = Put(rows, x, Event.grant) /\ tainted' = tainted \ {x}
    BY <1>1 DEF IndexRichGrant, Processing
  <1>3. Writes(Event, x)
    BY <1>1, <1>2 DEF Writes
  <1> QED
    BY <1>1, <1>2, <1>3, ShownRows

\* ... so the grant before it may be skipped.
LEMMA SkippedRows ==
    ASSUME Shape, History, RowsInv, IndexSkipsGrant
    PROVE  RowsInv'
  <1>1. PICK x : x = Event.key
    OBVIOUS
  <1>2. PICK b : b = indexed + 1
    OBVIOUS
  <1>3. PICK n : n = pos + 1
    OBVIOUS
  <1>4. /\ Processed /\ ~ ChainsTurn /\ pos < Len(backlog[1].events)
        /\ Event.type = "grant" /\ Event.via = "rich"
        /\ UNCHANGED <<rows, tainted>>
    BY DEF IndexSkipsGrant, Processing
  <1>5. ~ Writes(Event, x) /\ ~ Changes(Event, x) /\ x \in Keys
    BY <1>1, <1>4, EventView, GrantParameters DEF Writes, Changes, Event_
  <1>6. ASSUME NEW j \in b .. height
        PROVE  /\ Covers(x, j) /\ Backed(x, j)
               /\ Written(x, indexed + 1, pos, j) <=> Written(x, b, n, j)
               /\ Changed(x, indexed + 1, pos, j) <=> Changed(x, b, n, j)
    <2>1. j \in First .. height
      BY <1>2, Places DEF First
    <2> QED
      BY <1>2, <1>3, <1>4, <1>5, <2>1, EventWritten DEF RowsInv
  <1>7. \A j \in b .. height :
            ~ Written(x, b, n, j) /\ x \in DOMAIN Ended(j) =>
                /\ x \in DOMAIN rows' /\ ~ Expired(rows'[x], j)
                /\ j = height => rows'[x].expiration \in {Never, Ended(j)[x].expiration}
    BY <1>4, <1>6 DEF Covers
  <1>8. \A j \in b .. height :
            x \in DOMAIN rows' \ tainted' =>
                /\ ~ Written(x, b, n, j) => Carries(rows'[x], x, j)
                /\ ~ Changed(x, b, n, j) => SameLeft(rows'[x], x, j)
    BY <1>4, <1>6 DEF Backed
  <1> QED
    BY <1>1, <1>2, <1>3, <1>4, <1>7, <1>8, EventRows

\* A revocation, or the last use.
LEMMA RevokedRows ==
    ASSUME Shape, History, RowsInv, IndexRevocation
    PROVE  RowsInv'
  <1>1. PICK x : x = Event.key
    OBVIOUS
  <1>2. PICK b : b = indexed + 1
    OBVIOUS
  <1>3. PICK n : n = pos + 1
    OBVIOUS
  <1>4. /\ Processed /\ ~ ChainsTurn /\ pos < Len(backlog[1].events)
        /\ Event.type = "revoke"
        /\ rows' = Remove(rows, x) /\ tainted' = tainted \ {x}
    BY <1>1 DEF IndexRevocation, Processing
  <1>5. Writes(Event, x)
    BY <1>1, <1>4 DEF Writes
  <1>6. /\ DOMAIN rows' = DOMAIN rows \ {x}
        /\ \A k \in DOMAIN rows \ {x} : rows'[k] = rows[k]
    BY <1>4, RemoveType DEF Shape
  <1>7. \A j \in b .. height : ~ Written(x, b, n, j) => x \notin DOMAIN Ended(j)
    BY <1>1, <1>2, <1>3, <1>4, <1>5, EventTells
  <1>8. \A k \in Keys \ {x} :
            /\ k \in DOMAIN rows' <=> k \in DOMAIN rows
            /\ k \in DOMAIN rows => rows'[k] = rows[k]
            /\ k \in tainted' <=> k \in tainted
    BY <1>4, <1>6
  <1> QED
    BY <1>1, <1>2, <1>3, <1>4, <1>6, <1>7, <1>8, EventRows

\* Until the key's next events, what the archive has is in force, ...
LEMMA AnswerRow ==
    ASSUME Shape, History, ~ ChainsTurn,
           NEW b, b = indexed + 1, NEW n \in Nat, NEW x \in Keys,
           NEW a \in Answers, Found(a, x), NEW g, g = EndOf(a.at)[x],
           NEW j \in b .. height, ~ Written(x, b, n, j)
    PROVE  /\ x \in DOMAIN Ended(j) => /\ ~ Expired(g, j)
                                       /\ j = height => Ended(j)[x].expiration = g.expiration
           /\ a = Exact => /\ Carries(g, x, j)
                           /\ ~ Changed(x, b, n, j) => SameLeft(g, x, j)
  <1>1. PICK at : at = a.at
    OBVIOUS
  <1>2. /\ at \in b .. height - 1 /\ EndOf(at) = Ended(at) /\ Ended(at) \in Index_
        /\ x \in DOMAIN Ended(at) /\ g = Ended(at)[x]
        /\ a = Exact => at = b
        /\ indexed \in Nat /\ height \in Nat /\ at \in Nat /\ j \in Nat
    BY <1>1, AnswerPlace, Places DEF Found
  <1>3. ~ Expired(g, at) /\ g.expiration \in Nat
    <2>1. g \in Payload
      BY <1>2, IndexIsGrants DEF IsGrants, Payload
    <2>2. at \in indexed .. height
      BY <1>2
    <2> QED
      BY <1>2, <2>1, <2>2 DEF History, Fresh, Payload
  <1>4. CASE j < at
    BY <1>2, <1>3, <1>4 DEF Expired
  <1>5. CASE j = at
    BY <1>2, <1>3, <1>5 DEF Carries, SameLeft
  <1>6. CASE j > at
    <2>1. at \in indexed .. height /\ j \in at + 1 .. height
      BY <1>2, <1>6
    <2>2. Persists(x, at, j)
      BY <2>1 DEF History
    <2>3. \A h \in at + 1 .. j : h \in b .. j /\ h # b
      BY <1>2
    <2>4. /\ Written(x, at + 1, 0, j) => Written(x, b, n, j)
          /\ Changed(x, at + 1, 0, j) => Changed(x, b, n, j)
      BY <2>3 DEF Written, Changed
    <2>5. Carries(g, x, j) /\ (~ Changed(x, b, n, j) => SameLeft(g, x, j))
      BY <1>2, <2>2, <2>4 DEF Persists
    <2> QED
      BY <2>5 DEF Carries
  <1> QED
    BY <1>2, <1>4, <1>5, <1>6

\* ... and what it has not has not been granted before.
LEMMA NoAnswer ==
    ASSUME Shape, History, ~ ChainsTurn,
           NEW b, b = indexed + 1, NEW n \in Nat, NEW x \in Keys,
           ~ Found(Exact, x),
           NEW j \in b .. height, ~ Written(x, b, n, j)
    PROVE  x \notin DOMAIN Ended(b) /\ x \notin DOMAIN Ended(j) /\ ~ Written(x, b, n, b)
  <1>1. /\ height > b /\ indexed \in Nat /\ height \in Nat /\ j \in Nat
        /\ b \in indexed .. height
    BY GrantParameters, Places DEF ChainsTurn
  <1>2. Exact.kind # "fails" /\ Exact.at = b /\ Exact \in Answers
    BY DEF Exact, Answers
  <1>3. EndOf(b) = Ended(b)
    BY <1>2, AnswerPlace
  <1>4. x \notin DOMAIN Ended(b)
    BY <1>2, <1>3 DEF Found
  <1>5. ~ Written(x, b, n, b)
    <2>1. \A h \in b .. b : h \in b .. j
      BY <1>1
    <2> QED
      BY <2>1 DEF Written
  <1>6. CASE j = b
    BY <1>4, <1>5, <1>6
  <1>7. CASE j # b
    <2>1. j \in b + 1 .. height
      BY <1>1, <1>7
    <2>2. Persists(x, b, j)
      BY <1>1, <2>1 DEF History
    <2>3. \A h \in b + 1 .. j : h \in b .. j /\ h # b
      BY <1>1
    <2>4. ~ Written(x, b + 1, 0, j)
      BY <2>3 DEF Written
    <2> QED
      BY <1>4, <1>5, <2>2, <2>4 DEF Persists
  <1> QED
    BY <1>6, <1>7

\* A grant whose payload is read from the archive, or not found there.
LEMMA HydratedRows ==
    ASSUME Shape, History, RowsInv, IndexHydratesGrant
    PROVE  RowsInv'
  <1>1. PICK x : x = Event.key
    OBVIOUS
  <1>2. PICK b : b = indexed + 1
    OBVIOUS
  <1>3. PICK n : n = pos + 1
    OBVIOUS
  <1>4. PICK a \in Answers : rows' = Hydrated(a) /\ Note(a, x)
    BY <1>1 DEF IndexHydratesGrant
  <1>5. /\ Processed /\ ~ ChainsTurn /\ pos < Len(backlog[1].events)
        /\ Event.type = "grant" /\ Event.via = "wrapped"
    BY DEF IndexHydratesGrant, Processing
  <1>6. PICK g : g = IF Found(a, x) THEN EndOf(a.at)[x] ELSE Bare
    OBVIOUS
  <1>7. rows' = Put(rows, x, g)
    BY <1>1, <1>4, <1>6 DEF Hydrated
  <1>8. /\ x \in DOMAIN rows' /\ rows'[x] = g
        /\ \A k : k # x => /\ k \in DOMAIN rows' <=> k \in DOMAIN rows
                           /\ k \in DOMAIN rows => rows'[k] = rows[k]
    BY <1>7 DEF Put
  <1>9. Event \in Event_ /\ x \in Keys /\ n \in Nat /\ Writes(Event, x)
    <2>1. Event \in Event_ /\ n \in Nat
      BY <1>3, <1>5, EventView DEF Shape
    <2> QED
      BY <1>1, <1>5, <2>1, GrantParameters DEF Event_, Writes
  <1>10. \A k \in Keys \ {x} : k \in tainted' <=> k \in tainted
    BY <1>4 DEF Note
  <1>11. x \notin tainted' => a = Exact
    BY <1>4 DEF Note
  <1>12. ASSUME NEW j \in b .. height, ~ Written(x, b, n, j)
         PROVE  /\ x \in DOMAIN Ended(j) =>
                    /\ ~ Expired(g, j)
                    /\ j = height => g.expiration \in {Never, Ended(j)[x].expiration}
                /\ a = Exact => /\ Carries(g, x, j)
                                /\ ~ Changed(x, b, n, j) => SameLeft(g, x, j)
    <2>1. CASE Found(a, x)
      BY <1>2, <1>5, <1>6, <1>9, <1>12, <2>1, AnswerRow
    <2>2. CASE ~ Found(a, x)
      <3>1. g = Bare /\ g.expiration = Never /\ ~ Expired(g, j)
        BY <1>6, <2>2 DEF Bare, Grant, Expired
      <3>2. ASSUME a = Exact PROVE FALSE
        <4>1. x \notin DOMAIN Ended(b) /\ ~ Written(x, b, n, b)
          BY <1>2, <1>5, <1>9, <1>12, <2>2, <3>2, NoAnswer
        <4>2. b \in b .. height /\ b \in indexed + 1 .. height
          BY <1>2, Places
        <4>3. Carries(Event.grant, x, b)
          BY <1>1, <1>2, <1>3, <1>5, <1>9, <4>1, <4>2, EventTells
        <4>4. ~ Expired(Event.grant, b)
          BY <1>2, <1>5, <4>2, EventView DEF History, Fresh
        <4> QED
          BY <4>1, <4>3, <4>4 DEF Carries
      <3> QED
        BY <3>1, <3>2
    <2> QED
      BY <2>1, <2>2
  <1>13. \A j \in b .. height :
            x \in DOMAIN rows' \ tainted' =>
                /\ ~ Written(x, b, n, j) => Carries(rows'[x], x, j)
                /\ ~ Changed(x, b, n, j) => SameLeft(rows'[x], x, j)
    <2>1. \A j : Written(x, b, n, j) => Changed(x, b, n, j)
      BY DEF Written, Changed, Changes
    <2> QED
      BY <1>8, <1>11, <1>12, <2>1
  <1> QED
    BY <1>1, <1>2, <1>3, <1>5, <1>8, <1>10, <1>12, <1>13, EventRows

\* A use: the row is read again, or stays as it is where there is nothing to read.
LEMMA RefreshedRows ==
    ASSUME Shape, History, RowsInv, IndexRefreshesGrant
    PROVE  RowsInv'
  <1>1. PICK x : x = Event.key
    OBVIOUS
  <1>2. PICK b : b = indexed + 1
    OBVIOUS
  <1>3. PICK n : n = pos + 1
    OBVIOUS
  <1>4. PICK a \in Answers : rows' = Refreshed(a) /\ Note(a, x)
    BY <1>1 DEF IndexRefreshesGrant
  <1>5. /\ Processed /\ ~ ChainsTurn /\ pos < Len(backlog[1].events)
        /\ Event.type = "used"
    BY DEF IndexRefreshesGrant, Processing
  <1>6. Event \in Event_ /\ x \in Keys /\ n \in Nat /\ ~ Writes(Event, x) /\ Changes(Event, x)
    <2>1. Event \in Event_ /\ n \in Nat
      BY <1>3, <1>5, EventView DEF Shape
    <2> QED
      BY <1>1, <1>5, <2>1, GrantParameters DEF Event_, Writes, Changes
  <1>7. \A k \in Keys \ {x} : k \in tainted' <=> k \in tainted
    BY <1>4 DEF Note
  <1>8. x \notin tainted' => a = Exact /\ x \notin tainted
    BY <1>4 DEF Note
  <1>9. \A j : Written(x, b, n, j) => Changed(x, b, n, j)
    BY DEF Written, Changed, Changes
  <1>10. ASSUME NEW j \in b .. height
         PROVE  /\ Covers(x, j) /\ Backed(x, j)
                /\ Written(x, indexed + 1, pos, j) <=> Written(x, b, n, j)
    <2>1. j \in First .. height
      BY <1>2, Places DEF First
    <2> QED
      BY <1>2, <1>3, <1>5, <1>6, <2>1, EventWritten DEF RowsInv
  <1>11. CASE Found(a, x) /\ x \in DOMAIN rows
    <2>1. PICK g : g = EndOf(a.at)[x]
      OBVIOUS
    <2>2. rows' = Put(rows, x, g)
      BY <1>1, <1>4, <1>11, <2>1 DEF Refreshed
    <2>3. /\ x \in DOMAIN rows' /\ rows'[x] = g
          /\ \A k : k # x => /\ k \in DOMAIN rows' <=> k \in DOMAIN rows
                             /\ k \in DOMAIN rows => rows'[k] = rows[k]
      BY <2>2 DEF Put
    <2>4. ASSUME NEW j \in b .. height, ~ Written(x, b, n, j)
          PROVE  /\ x \in DOMAIN Ended(j) =>
                    /\ ~ Expired(g, j)
                    /\ j = height => g.expiration \in {Never, Ended(j)[x].expiration}
                 /\ a = Exact => /\ Carries(g, x, j)
                                 /\ ~ Changed(x, b, n, j) => SameLeft(g, x, j)
      BY <1>2, <1>5, <1>6, <1>11, <2>1, <2>4, AnswerRow
    <2>5. \A j \in b .. height :
            x \in DOMAIN rows' \ tainted' =>
                /\ ~ Written(x, b, n, j) => Carries(rows'[x], x, j)
                /\ ~ Changed(x, b, n, j) => SameLeft(rows'[x], x, j)
      BY <1>8, <1>9, <2>3, <2>4
    <2> QED
      BY <1>1, <1>2, <1>3, <1>5, <1>7, <2>3, <2>4, <2>5, EventRows
  <1>12. CASE ~ (Found(a, x) /\ x \in DOMAIN rows)
    <2>1. rows' = rows
      BY <1>1, <1>4, <1>12 DEF Refreshed
    <2>2. \A j \in b .. height :
            ~ Written(x, b, n, j) /\ x \in DOMAIN Ended(j) =>
                /\ x \in DOMAIN rows' /\ ~ Expired(rows'[x], j)
                /\ j = height => rows'[x].expiration \in {Never, Ended(j)[x].expiration}
      BY <1>10, <2>1 DEF Covers
    <2>3. ASSUME NEW j \in b .. height, x \in DOMAIN rows' \ tainted'
          PROVE  /\ ~ Written(x, b, n, j) => Carries(rows'[x], x, j)
                 /\ ~ Changed(x, b, n, j) => SameLeft(rows'[x], x, j)
      <3>1. a = Exact /\ x \in DOMAIN rows \ tainted /\ ~ Found(Exact, x)
        BY <1>8, <1>12, <2>1, <2>3
      <3>2. ~ Written(x, b, n, j) => x \notin DOMAIN Ended(j)
        BY <1>2, <1>5, <1>6, <3>1, NoAnswer
      <3>3. ~ Written(x, b, n, j) => Carries(rows[x], x, j)
        BY <1>10, <3>1 DEF Backed
      <3> QED
        BY <1>9, <2>1, <3>2, <3>3 DEF SameLeft
    <2>4. \A k \in Keys \ {x} :
            /\ k \in DOMAIN rows' <=> k \in DOMAIN rows
            /\ k \in DOMAIN rows => rows'[k] = rows[k]
      BY <2>1
    <2> QED
      BY <1>1, <1>2, <1>3, <1>5, <1>7, <2>2, <2>3, <2>4, EventRows
  <1> QED
    BY <1>11, <1>12

\* The sweep drops what expires by the block's time, so nothing that the chain has.
LEMMA IndexedRows ==
    ASSUME Shape, RowsInv, IndexEndsBlock
    PROVE  RowsInv'
  <1>1. PICK b : b = indexed + 1
    OBVIOUS
  <1>2. /\ height' = height /\ tainted' = tainted /\ indexed' = b /\ pos' = 0
        /\ pos = Len(EventsOf(b)) /\ EventsOf(b) \in Seq(Event_)
        /\ height > b /\ indexed \in Nat /\ height \in Nat
        /\ \A h \in b .. height : Ended(h)' = Ended(h)
        /\ \A h \in b + 1 .. height : EventsOf(h)' = EventsOf(h)
    <2>1. b \in indexed + 1 .. height
      BY <1>1, IndexedView, Places
    <2> QED
      BY <1>1, <2>1, IndexedView, Places
  <1>3. rows' = Unexpired(rows, b)
    BY <1>1 DEF IndexEndsBlock, Swept
  <1>4. /\ DOMAIN rows' = {k \in DOMAIN rows : ~ Expired(rows[k], b)}
        /\ \A k \in DOMAIN rows' : rows'[k] = rows[k]
    BY <1>3 DEF Unexpired, Restrict
  <1>5. ASSUME NEW k \in Keys, NEW j \in b .. height
        PROVE  Covers(k, j)' /\ Backed(k, j)'
    <2>1. Covers(k, j) /\ Backed(k, j)
      <3>1. j \in First .. height
        BY <1>1, <1>2 DEF First
      <3> QED
        BY <3>1 DEF RowsInv
    <2>2. PICK c : c = b + 1
      OBVIOUS
    <2>3. \A h \in c .. j : EventsOf(h)' = EventsOf(h)
      BY <1>2, <2>2
    <2>4. /\ Written(k, c, 0, j)' <=> Written(k, c, 0, j)
          /\ Changed(k, c, 0, j)' <=> Changed(k, c, 0, j)
      BY <2>3, WrittenFrame
    <2>5. /\ \A h \in b .. j : h = b \/ h \in c .. j
          /\ \A h \in c .. j : h \in b .. j /\ h # b
          /\ \A h \in c .. j : EventsOf(h) \in Seq(Event_)
          /\ \A i \in DOMAIN EventsOf(b) : ~ (i > pos)
      <3>1. \A h \in c .. j : h \in indexed + 1 .. height
        BY <1>1, <1>2, <2>2
      <3>2. \A h \in c .. j : EventsOf(h) \in Seq(Event_)
        BY <3>1, Places
      <3>3. /\ \A h \in b .. j : h = b \/ h \in c .. j
            /\ \A h \in c .. j : h \in b .. j /\ h # b
        BY <1>1, <1>2, <2>2
      <3>4. \A i \in DOMAIN EventsOf(b) : ~ (i > pos)
        BY <1>2
      <3> QED
        BY <3>2, <3>3, <3>4
    <2>6. \A h \in c .. j : \A i \in DOMAIN EventsOf(h) : i > 0
      BY <2>5
    <2>7. Written(k, c, 0, j) <=> Written(k, b, pos, j)
      BY <2>5, <2>6 DEF Written
    <2>8. Changed(k, c, 0, j) <=> Changed(k, b, pos, j)
      BY <2>5, <2>6 DEF Changed
    <2>9. /\ Written(k, indexed + 1, pos, j)' <=> Written(k, indexed + 1, pos, j)
          /\ Changed(k, indexed + 1, pos, j)' <=> Changed(k, indexed + 1, pos, j)
      BY <1>1, <1>2, <2>2, <2>4, <2>7, <2>8
    <2>10. k \in DOMAIN rows => (~ Expired(rows[k], j) => ~ Expired(rows[k], b))
      <3>1. ASSUME k \in DOMAIN rows PROVE rows[k].expiration \in Nat
        BY <3>1 DEF Shape, TypeOK, IsGrants
      <3> QED
        BY <1>1, <1>2, <3>1 DEF Expired
    <2> QED
      BY <1>2, <1>4, <2>1, <2>9, <2>10 DEF Covers, Backed, Carries, SameLeft
  <1>6. First' = b /\ height' = height
    BY <1>2 DEF First
  <1>7. \A k \in DOMAIN rows' : ~ Expired(rows'[k], b)
    BY <1>4
  <1> QED
    BY <1>2, <1>5, <1>6, <1>7 DEF RowsInv, Expired

----------------------------------------------------------------------------
(* The invariant. *)

IInv == Shape /\ History /\ RowsInv

\* At first there is nothing.
LEMMA InitIInv == Init => IInv
  <1> SUFFICES ASSUME Init PROVE IInv
    OBVIOUS
  <1>1. /\ height = 1 /\ indexed = 0 /\ pos = 0 /\ messages = 0 /\ faults = 0 /\ tainted = {}
        /\ live = << >> /\ events = << >> /\ backlog = << >> /\ grants = << >> /\ rows = << >>
    BY DEF Init
  <1>2. Shape
    <2>1. << >> \in Index_ /\ IsGrants(<< >>)
      <3>1. << >> \in [{} -> Payload] /\ DOMAIN << >> = {}
        OBVIOUS
      <3> QED
        BY <3>1 DEF Index_, IsGrants
    <2>2. /\ MaxMessages \in Nat /\ MaxFaults \in Nat /\ Lag \in Nat
          /\ MaxHeight \in Nat /\ MaxHeight # 0
      BY GrantParameters
    <2>3. height \in 1..MaxHeight /\ messages \in 0..MaxMessages /\ faults \in 0..MaxFaults
      BY <1>1, <2>2
    <2>4. IsGrants(live) /\ IsGrants(rows) /\ IsGrants(grants)
      BY <1>1, <2>1
    <2>5. indexed = height - 1 - Len(backlog) /\ Len(backlog) <= Lag + 1 /\ DOMAIN backlog = {}
      <3>1. Len(backlog) = 0
        BY <1>1
      <3>2. DOMAIN backlog = {}
        BY <1>1
      <3>3. height = 1 /\ indexed = 0
        BY <1>1
      <3>4. Len(backlog) <= Lag + 1
        BY <2>2, <3>1
      <3>5. indexed = height - 1 - Len(backlog)
        BY <3>1, <3>3
      <3> QED
        BY <3>2, <3>4, <3>5
    <2>6. TypeOK
      BY <1>1, <2>3, <2>4, <2>5 DEF TypeOK
    <2> QED
      BY <1>1, <2>1, <2>6 DEF Shape
  <1>3. \A h \in indexed .. height : h \in {0, 1} /\ Ended(h) = << >>
    BY <1>1 DEF Ended
  <1>4. \A h \in indexed + 1 .. height : h = 1 /\ EventsOf(h) = << >>
    BY <1>1 DEF EventsOf
  <1>5. History
    <2>1. \A k \in Keys : \A h \in indexed .. height : \A j \in h + 1 .. height : Persists(k, h, j)
      <3> SUFFICES ASSUME NEW k \in Keys, NEW h \in indexed .. height, NEW j \in h + 1 .. height
                   PROVE  Persists(k, h, j)
        OBVIOUS
      <3>1. j \in indexed .. height
        BY <1>1
      <3>2. Ended(h) = << >> /\ Ended(j) = << >>
        BY <1>3, <3>1
      <3> QED
        BY <3>2 DEF Persists
    <2> QED
      BY <1>3, <1>4, <2>1 DEF History, Fresh
  <1>6. RowsInv
    BY <1>1, <1>3 DEF RowsInv, First, Covers, Backed
  <1> QED
    BY <1>2, <1>5, <1>6 DEF IInv

\* A message preserves it, ...
LEMMA MessageIInv ==
    ASSUME IInv, NEW x \in Keys, NEW new \in Seq(Event_), Emit(new), Effect(x, new)
    PROVE  IInv'
  <1>1. live' \in Index_ /\ \A k \in DOMAIN live' : live'[k].left # 0
    BY DEF Effect
  <1> QED
    BY <1>1, MessageShape, MessageHistory, MessageRows DEF IInv

\* ... and so does a step of the index that processes an event.
LEMMA EventIInv ==
    ASSUME IInv, Processed, ~ ChainsTurn, pos < Len(backlog[1].events),
           rows' \in Index_, tainted' \subseteq Keys, faults' \in 0..MaxFaults, RowsInv'
    PROVE  IInv'
  BY EventShape, EventHistory DEF IInv

\* What an answer is noted as.
LEMMA NoteType ==
    ASSUME Shape, ~ ChainsTurn, NEW a \in Answers, NEW x \in Keys, Note(a, x)
    PROVE  tainted' \subseteq Keys /\ faults' \in 0..MaxFaults
  <1>1. a # Exact => faults < MaxFaults
    BY AnswerPlace
  <1>2. faults \in 0..MaxFaults /\ tainted \subseteq Keys /\ MaxFaults \in Nat
    BY GrantParameters DEF Shape, TypeOK
  <1> QED
    BY <1>1, <1>2 DEF Note

\* An answer has a payload.
LEMMA AnswerType ==
    ASSUME Shape, ~ ChainsTurn, NEW a \in Answers, NEW x, Found(a, x)
    PROVE  EndOf(a.at)[x] \in Payload
  <1>1. EndOf(a.at) \in Index_ /\ x \in DOMAIN EndOf(a.at)
    BY AnswerPlace DEF Found
  <1> QED
    BY <1>1, IndexIsGrants DEF IsGrants, Payload

\* Every step preserves the invariant.
LEMMA NextIInv == IInv /\ [Next]_vars => IInv'
  <1> SUFFICES ASSUME IInv, [Next]_vars PROVE IInv'
    OBVIOUS
  <1>1. Shape /\ History /\ RowsInv
    BY DEF IInv
  <1>2. rows \in Index_ /\ tainted \subseteq Keys /\ faults \in 0..MaxFaults
    BY <1>1 DEF Shape, TypeOK
  <1>3. ASSUME NEW k \in Keys, NEW via \in {"message", "rich", "wrapped"},
               NEW left \in Limits, NEW t \in Lifetimes, ChainGrants(k, via, left, t)
        PROVE  IInv'
    BY <1>1, <1>3, GrantsEffect, MessageIInv
  <1>4. ASSUME NEW k \in Keys, ChainGrantsPayout(k) PROVE IInv'
    BY <1>1, <1>4, PayoutEffect, MessageIInv
  <1>5. ASSUME NEW k \in Keys, ChainRevokes(k) PROVE IInv'
    BY <1>1, <1>5, RevokesEffect, MessageIInv
  <1>6. ASSUME NEW k \in Keys, ChainConsumes(k) PROVE IInv'
    BY <1>1, <1>6, ConsumesEffect, MessageIInv
  <1>7. CASE ChainEndsBlock
    BY <1>1, <1>7, EndShape, EndHistory, EndRows DEF IInv
  <1>8. CASE IndexGrant
    <2>1. /\ Processed /\ ~ ChainsTurn /\ pos < Len(backlog[1].events)
          /\ Event.type = "grant" /\ Event.via \in {"message", "payout"}
          /\ rows' = Put(rows, Event.key, IF Event.via = "message" THEN Event.grant ELSE Bare)
          /\ tainted' = tainted \ {Event.key} /\ faults' = faults
      BY <1>8 DEF IndexGrant, Processing
    <2>2. /\ Event.key \in Keys
          /\ (IF Event.via = "message" THEN Event.grant ELSE Bare) \in Payload
      BY <1>1, <2>1, EventView, GrantParameters
      DEF Event_, Bare, Grant, Unknown, Never, Payload
    <2>3. rows' \in Index_
      BY <1>2, <2>1, <2>2, PutType
    <2> QED
      BY <1>1, <1>2, <1>8, <2>1, <2>3, GrantRows, EventIInv
  <1>9. CASE IndexSkipsGrant
    <2>1. /\ Processed /\ ~ ChainsTurn /\ pos < Len(backlog[1].events)
          /\ UNCHANGED <<rows, tainted, faults>>
      BY <1>9 DEF IndexSkipsGrant, Processing
    <2> QED
      BY <1>1, <1>2, <1>9, <2>1, SkippedRows, EventIInv
  <1>10. CASE IndexRichGrant
    <2>1. /\ Processed /\ ~ ChainsTurn /\ pos < Len(backlog[1].events) /\ Event.type = "rich"
          /\ rows' = Put(rows, Event.key, Event.grant)
          /\ tainted' = tainted \ {Event.key} /\ faults' = faults
      BY <1>10 DEF IndexRichGrant, Processing
    <2>2. Event.key \in Keys /\ Event.grant \in Payload
      BY <1>1, <2>1, EventView DEF Event_
    <2>3. rows' \in Index_
      BY <1>2, <2>1, <2>2, PutType
    <2> QED
      BY <1>1, <1>2, <1>10, <2>1, <2>3, RichRows, EventIInv
  <1>11. CASE IndexHydratesGrant
    <2>1. /\ Processed /\ ~ ChainsTurn /\ pos < Len(backlog[1].events)
          /\ Event.key \in Keys
      BY <1>1, <1>11, EventView, GrantParameters DEF IndexHydratesGrant, Processing, Event_
    <2>2. PICK a \in Answers : rows' = Hydrated(a) /\ Note(a, Event.key)
      BY <1>11 DEF IndexHydratesGrant
    <2>3. (IF Found(a, Event.key) THEN EndOf(a.at)[Event.key] ELSE Bare) \in Payload
      BY <1>1, <2>1, AnswerType DEF Bare, Grant, Unknown, Never, Payload
    <2>4. rows' \in Index_
      BY <1>2, <2>1, <2>2, <2>3, PutType DEF Hydrated
    <2>5. tainted' \subseteq Keys /\ faults' \in 0..MaxFaults
      BY <1>1, <2>1, <2>2, NoteType
    <2> QED
      BY <1>1, <1>11, <2>1, <2>4, <2>5, HydratedRows, EventIInv DEF IndexHydratesGrant
  <1>12. CASE IndexRevocation
    <2>1. /\ Processed /\ ~ ChainsTurn /\ pos < Len(backlog[1].events)
          /\ rows' = Remove(rows, Event.key)
          /\ tainted' = tainted \ {Event.key} /\ faults' = faults
      BY <1>12 DEF IndexRevocation, Processing
    <2>2. rows' \in Index_
      BY <1>2, <2>1, RemoveType
    <2> QED
      BY <1>1, <1>2, <1>12, <2>1, <2>2, RevokedRows, EventIInv
  <1>13. CASE IndexRefreshesGrant
    <2>1. /\ Processed /\ ~ ChainsTurn /\ pos < Len(backlog[1].events)
          /\ Event.key \in Keys
      BY <1>1, <1>13, EventView, GrantParameters DEF IndexRefreshesGrant, Processing, Event_
    <2>2. PICK a \in Answers : rows' = Refreshed(a) /\ Note(a, Event.key)
      BY <1>13 DEF IndexRefreshesGrant
    <2>3. Found(a, Event.key) => EndOf(a.at)[Event.key] \in Payload
      BY <1>1, <2>1, AnswerType
    <2>4. rows' \in Index_
      BY <1>2, <2>1, <2>2, <2>3, PutType DEF Refreshed
    <2>5. tainted' \subseteq Keys /\ faults' \in 0..MaxFaults
      BY <1>1, <2>1, <2>2, NoteType
    <2> QED
      BY <1>1, <1>13, <2>1, <2>4, <2>5, RefreshedRows, EventIInv DEF IndexRefreshesGrant
  <1>14. CASE IndexEndsBlock
    BY <1>1, <1>14, IndexedShape, IndexedHistory, IndexedRows DEF IInv
  <1>15. CASE UNCHANGED vars
    <2>1. UNCHANGED <<height, live, events, messages, backlog, indexed, grants, pos, rows,
                      tainted, faults>>
      BY <1>15 DEF vars, chainVars, indexVars
    <2>2. \A h : Ended(h)' = Ended(h) /\ EventsOf(h)' = EventsOf(h)
      BY <2>1 DEF Ended, EventsOf
    <2>3. ChainsTurn' <=> ChainsTurn
      BY <2>1 DEF ChainsTurn
    <2>4. Shape'
      BY <1>1, <2>1, <2>3 DEF Shape, TypeOK, IsGrants
    <2>5. Fresh'
      BY <1>1, <2>1, <2>2 DEF History, Fresh
    <2>6. \A k \in Keys : \A h \in indexed .. height : \A j \in h + 1 .. height : Persists(k, h, j)'
      BY <1>1, <2>2, PersistsFrame DEF History
    <2>7. \A k \in Keys : \A h \in indexed + 1 .. height : \A i \in DOMAIN EventsOf(h) :
            \A j \in h .. height : Tells(k, h, i, j)'
      BY <1>1, <2>2, TellsFrame DEF History
    <2>8. History'
      BY <2>1, <2>2, <2>5, <2>6, <2>7 DEF History
    <2>9. ASSUME NEW k \in Keys, NEW j \in First .. height
          PROVE  Covers(k, j)' /\ Backed(k, j)'
      <3>1. Covers(k, j) /\ Backed(k, j)
        BY <1>1 DEF RowsInv
      <3>2. PICK b : b = indexed + 1
        OBVIOUS
      <3>3. PICK n : n = pos
        OBVIOUS
      <3>4. /\ Written(k, b, n, j)' <=> Written(k, b, n, j)
            /\ Changed(k, b, n, j)' <=> Changed(k, b, n, j)
        BY <2>2, WrittenFrame
      <3>5. /\ Written(k, indexed + 1, pos, j)' <=> Written(k, indexed + 1, pos, j)
            /\ Changed(k, indexed + 1, pos, j)' <=> Changed(k, indexed + 1, pos, j)
        BY <2>1, <3>2, <3>3, <3>4
      <3> QED
        BY <2>1, <2>2, <3>1, <3>5 DEF Covers, Backed, Carries, SameLeft
    <2>10. RowsInv'
      BY <1>1, <2>1, <2>9 DEF RowsInv, First
    <2> QED
      BY <2>4, <2>8, <2>10 DEF IInv
  <1> QED
    BY <1>3, <1>4, <1>5, <1>6, <1>7, <1>8, <1>9, <1>10, <1>11, <1>12, <1>13, <1>14, <1>15
    DEF Next, Chain, Index

\* So it is one.
LEMMA Invariant == Spec => []IInv
  BY InitIInv, NextIInv, PTL DEF Spec

----------------------------------------------------------------------------
(* What follows. *)

\* Type correctness: the index never gets ahead of the chain's complete blocks
\* nor more than one block further behind than it lags, and what it writes to
\* authz_grant is a payload, whatever the archive answers.
THEOREM AuthzTypeCorrect == Spec => []TypeOK
  <1>1. IInv => TypeOK
    BY DEF IInv, Shape
  <1> QED
    BY <1>1, Invariant, PTL

\* Between two blocks nothing is left to be done for the newest one.
LEMMA AtRest ==
    ASSUME IInv, pos = 0, NEW k \in Keys
    PROVE  /\ Ended(indexed) = grants /\ Covers(k, indexed) /\ Backed(k, indexed)
           /\ ~ Written(k, indexed + 1, pos, indexed)
           /\ ~ Changed(k, indexed + 1, pos, indexed)
           /\ k \in DOMAIN rows => ~ Expired(rows[k], indexed)
  <1>1. indexed \in Nat /\ height \in Nat /\ indexed < height
    BY Places DEF IInv
  <1>2. indexed \in First .. height
    BY <1>1 DEF First
  <1>3. \A g \in indexed + 1 .. indexed : FALSE
    BY <1>1
  <1> QED
    BY <1>2, <1>3 DEF IInv, RowsInv, Ended, Written, Changed

\* A row whose key's answers were exact since its grant stands for a
\* capability: the cases of syncEventData, the archive's reads and the sweep
\* leave none behind, in a backfill as well as at the chain's tip.
THEOREM ExactRowsHold == Spec => []ExactRowsAreCapabilities
  <1>1. ASSUME IInv, pos = 0, NEW k \in DOMAIN rows \ tainted
        PROVE  k \in DOMAIN grants
    <2>1. k \in Keys
      BY <1>1 DEF IInv, Shape, TypeOK, IsGrants
    <2>2. Carries(rows[k], k, indexed) /\ ~ Expired(rows[k], indexed) /\ Ended(indexed) = grants
      BY <1>1, <2>1, AtRest DEF Backed
    <2> QED
      BY <2>2 DEF Carries
  <1>2. IInv => ExactRowsAreCapabilities
    BY <1>1 DEF ExactRowsAreCapabilities, BetweenBlocks
  <1> QED
    BY <1>2, Invariant, PTL

\* No grant of the newest block is missing from authz_grant, whatever the
\* archive answered: a row without a payload is put where none is read, and
\* what an answer of a later block carries expires no earlier.
THEOREM NoGrantLostHolds == Spec => []NoGrantLost
  <1>1. ASSUME IInv, pos = 0, NEW k \in DOMAIN grants
        PROVE  k \in DOMAIN rows
    <2>1. k \in Keys
      BY <1>1 DEF IInv, Shape, TypeOK, IsGrants
    <2> QED
      BY <1>1, <2>1, AtRest DEF Covers
  <1>2. IInv => NoGrantLost
    BY <1>1 DEF NoGrantLost, BetweenBlocks
  <1> QED
    BY <1>2, Invariant, PTL

\* Such a row has the expiration of its grant and, where the claims module
\* tells of the consumption, what is left of it.
THEOREM PayloadsHold == Spec => []PayloadsMatch
  <1>1. ASSUME IInv, pos = 0, NEW k \in DOMAIN rows \ (tainted \cup PayoutKeys)
        PROVE  /\ rows[k].expiration = grants[k].expiration
               /\ k \in ClaimKeys => rows[k].left = grants[k].left
    <2>1. k \in Keys
      BY <1>1 DEF IInv, Shape, TypeOK, IsGrants
    <2>2. /\ Carries(rows[k], k, indexed) /\ SameLeft(rows[k], k, indexed)
          /\ ~ Expired(rows[k], indexed) /\ Ended(indexed) = grants
      BY <1>1, <2>1, AtRest DEF Backed
    <2> QED
      BY <2>2 DEF Carries, SameLeft
  <1>2. IInv => PayloadsMatch
    BY <1>1 DEF PayloadsMatch, BetweenBlocks
  <1> QED
    BY <1>2, Invariant, PTL
===============================================================================
