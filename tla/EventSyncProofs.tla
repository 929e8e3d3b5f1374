---------------------------- MODULE EventSyncProofs ----------------------------
(***************************************************************************)
(* What TLAPS proves of EventSync for any entities, accounts, classes and  *)
(* tokens, blocks of any length and any number of messages and failures.   *)
(*                                                                         *)
(* Between two blocks the tables mirror the chain, but in the middle of a  *)
(* block they do not.  So the invariant says what WILL be: replaying the   *)
(* block's events from the committed tables is possible, no event is       *)
(* refused, nothing is left waiting and the tables at its end mirror the   *)
(* chain as it is now (History); what the transaction sees is one of the   *)
(* replay's states.  A message keeps that, because its own events, worked  *)
(* through at once after those before it, take tables that mirror the      *)
(* chain to tables that mirror what the message made of it (the *Plays     *)
(* lemmas); an event is one step of the replay; a failure starts it again; *)
(* and at the end of the block its last state is what is committed.  That  *)
(* the replay depends on nothing but the committed tables is where the     *)
(* class cache matters: it never knows more classes than they do (Bounds). *)
(*                                                                         *)
(* Of the chain it has to be known that a token has a class, that nobody   *)
(* holds unminted tokens, and that a class's lists tell what was burnt     *)
(* (ChainOK).                                                              *)
(***************************************************************************)
EXTENDS EventSync, SumLemmas

----------------------------------------------------------------------------
(* What the tables hold. *)

Maps(S, T) == UNION {[D -> T] : D \in SUBSET S}

Burn == [token : Tokens, amount : Amounts, owner : Accounts]
Lists == [retired : Seq(Burn), cancelled : Seq(Burn)]

Transfers ==
    [from : Accounts \cup {None}, to : Accounts \cup {None},
     amount : MintAmounts \cup Amounts, token : Tokens]

Ledgers == {bag \in Maps(Transfers, Nat) : IsFiniteSet(DOMAIN bag)}

Db ==
    [iids     : SUBSET Entities,
     owners   : Maps(Entities, Accounts \cup {None}),
     classes  : Maps(Classes, [names : Entities \cup {None}, lists : Lists]),
     tokens   : Maps(Tokens, Classes),
     ledger   : Ledgers,
     balances : Maps(Holdings, Holding)]

LedgerAgrees(db) ==
    /\ \A h \in Holdings : Balance(db, h) = LedgerHolding(db.ledger, h[1], h[2])
    /\ \A h \in DOMAIN db.balances : db.balances[h] # NoHolding

DbOK(db) == db \in Db /\ LedgerAgrees(db)

----------------------------------------------------------------------------
(* What the chain holds. *)

Chains ==
    [owners  : [Entities -> Accounts \cup {None}],
     classes : Maps(Classes, [class : Entities, names : Entities \cup {None}, lists : Lists]),
     classOf : [Tokens -> Classes \cup {None}],
     held    : [Holdings -> Int],
     minted  : [Holdings -> Nat],
     retired : [Holdings -> Nat]]

\* What a list of burns says of a holding.
BurntOf(list, h) ==
    SumFunction([i \in DOMAIN list |->
        IF <<list[i].owner, list[i].token>> = h THEN list[i].amount ELSE 0])

\* A class's two lists name tokens of the class ...
OwnLists(ch, c) ==
    /\ \A i \in DOMAIN ch.classes[c].lists.retired :
            ch.classOf[ch.classes[c].lists.retired[i].token] = c
    /\ \A i \in DOMAIN ch.classes[c].lists.cancelled :
            ch.classOf[ch.classes[c].lists.cancelled[i].token] = c

\* ... and together tell what was burnt of them.
BurnsTold(ch, c) ==
    \A h \in Holdings :
        BurntOf(ch.classes[c].lists.retired, h) + BurntOf(ch.classes[c].lists.cancelled, h) =
            IF ch.classOf[h[2]] = c THEN ch.retired[h] ELSE 0

\* Tokens nobody minted are held by nobody.
Unminted(ch) ==
    \A h \in Holdings : ch.classOf[h[2]] = None =>
        ch.held[h] = 0 /\ ch.minted[h] = 0 /\ ch.retired[h] = 0

\* A minted token has a class that exists, and is late if that is of this block.
ClassesOf(ch, lt, fr) ==
    \A t \in Tokens : /\ ch.classOf[t] \in DOMAIN ch.classes \cup {None}
                      /\ ch.classOf[t] \in fr => t \in lt

ChainOK(ch, lt, fr) ==
    /\ ch \in Chains
    /\ ClassesOf(ch, lt, fr)
    /\ Unminted(ch)
    /\ \A c \in DOMAIN ch.classes : OwnLists(ch, c) /\ BurnsTold(ch, c)

\* The tables show what is true on the chain.
Mirrors(db, ch, lt) ==
    /\ db.iids = {e \in Entities : ch.owners[e] # None}
    /\ DOMAIN db.owners = db.iids
    /\ \A e \in DOMAIN db.owners : db.owners[e] = ch.owners[e]
    /\ DOMAIN db.classes = DOMAIN ch.classes
    /\ \A c \in DOMAIN db.classes :
            /\ db.classes[c].names = ch.classes[c].names
            /\ db.classes[c].lists = ch.classes[c].lists
    /\ DOMAIN db.tokens = {t \in Tokens : ch.classOf[t] # None}
    /\ \A t \in DOMAIN db.tokens : db.tokens[t] = ch.classOf[t]
    /\ \A h \in Holdings : h[2] \notin lt =>
            Balance(db, h) = [amount  |-> ch.held[h],
                              minted  |-> ch.minted[h],
                              retired |-> ch.retired[h]]

----------------------------------------------------------------------------
(* The events of the block, worked through one after the other. *)

\* The delayed function's turn.
Ready(w) == w # None /\ w.skip = 1

\* From the tables d and the slot w, event ev leads to d2 and w2.
Steps(d, w, ev, d2, w2) ==
    /\ Accepts(d, ev)
    /\ Ready(w) /\ w.later.type = "mint" =>
            w.later.transfer.token \in DOMAIN Written(d, ev).tokens
    /\ d2 = IF Ready(w) THEN RunLater(Written(d, ev), w.later) ELSE Written(d, ev)
    /\ w2 = IF w # None /\ w.skip # 1 THEN [w EXCEPT !.skip = @ - 1] ELSE Result(ev)

\* So do a block's events one after the other, from what is committed.
Replay(dbs, waits, blk) ==
    /\ dbs[0] = committed /\ waits[0] = None
    /\ \A i \in 1..Len(blk) : Steps(dbs[i - 1], waits[i - 1], blk[i], dbs[i], waits[i])
    /\ \A i \in 0..Len(blk) : DbOK(dbs[i]) /\ waits[i] \in Waiting \cup {None}

\* The block can be worked through, and ends in the tables d and the slot w.
Ends(blk, d, w) ==
    \E dbs, waits : Replay(dbs, waits, blk) /\ dbs[Len(blk)] = d /\ waits[Len(blk)] = w

----------------------------------------------------------------------------
(* The inductive invariant. *)

\* Events of whatever kind.
IsSeq(s) == s \in Seq(ToSet(s))

\* The counters, and which classes the committed tables and the cache know.
Bounds ==
    /\ messages \in 0..MaxMessages
    /\ phase \in {"chain", "index"}
    /\ IsSeq(block)
    /\ pos \in 1..Len(block) + 1
    /\ late \subseteq Tokens
    /\ faults \in 0..MaxFaults
    /\ fresh = DOMAIN chain.classes \ DOMAIN committed.classes
    /\ DOMAIN committed.classes \subseteq DOMAIN chain.classes
    /\ cache \subseteq DOMAIN committed.classes
    /\ phase = "chain" => pos = 1

\* The replay of the block: the transaction is at one of its states, and at its
\* end the tables mirror the chain.
History ==
    \E dbs, waits :
        /\ Replay(dbs, waits, block)
        /\ work = dbs[pos - 1]
        /\ delayed = waits[pos - 1]
        /\ waits[Len(block)] = None
        /\ Mirrors(dbs[Len(block)], chain, late)

IInv == Bounds /\ ChainOK(chain, late, fresh) /\ History

\* Which classes are known is what is committed, whatever the cache holds.
LEMMA KnownIsCommitted ==
    ASSUME Bounds
    PROVE  \A c : KnownClass(c) <=> c \in DOMAIN committed.classes
  BY DEF Bounds, KnownClass

\* An event does the same to the tables as long as the known classes stay.
LEMMA StepsSame ==
    ASSUME \A c : KnownClass(c)' <=> KnownClass(c),
           NEW d, NEW w, NEW ev, NEW d2, NEW w2
    PROVE  Steps(d, w, ev, d2, w2)' <=> Steps(d, w, ev, d2, w2)
  <1>1. Written(d, ev)' = Written(d, ev)
    BY DEF Written
  <1>2. Result(ev)' = Result(ev)
    BY DEF Result
  <1>3. Accepts(d, ev)' <=> Accepts(d, ev)
    BY DEF Accepts
  <1> QED
    BY <1>1, <1>2, <1>3 DEF Steps

\* And so does a whole block, from the same committed tables.
LEMMA ReplaySame ==
    ASSUME \A c : KnownClass(c)' <=> KnownClass(c), committed' = committed,
           NEW dbs, NEW waits, NEW blk
    PROVE  Replay(dbs, waits, blk)' <=> Replay(dbs, waits, blk)
  <1>1. \A d, w, ev, d2, w2 : Steps(d, w, ev, d2, w2)' <=> Steps(d, w, ev, d2, w2)
    BY StepsSame
  <1> QED
    BY <1>1 DEF Replay

----------------------------------------------------------------------------
(* Sequences. *)

\* A sequence with one element more.
LEMMA AppendSeq ==
    ASSUME NEW s, IsSeq(s), NEW x
    PROVE  /\ IsSeq(Append(s, x))
           /\ Len(s) \in Nat
           /\ Len(Append(s, x)) = Len(s) + 1
           /\ \A i \in 1..Len(s) : Append(s, x)[i] = s[i]
           /\ Append(s, x)[Len(s) + 1] = x
  <1>1. s \in Seq(ToSet(s) \cup {x})
    BY DEF IsSeq
  <1>2. PICK t : t = Append(s, x)
    OBVIOUS
  <1>3. /\ t \in Seq(ToSet(s) \cup {x}) /\ Len(t) = Len(s) + 1 /\ Len(s) \in Nat
        /\ \A i \in 1..Len(s) : t[i] = s[i]
        /\ t[Len(s) + 1] = x
    BY <1>1, <1>2
  <1>4. \A i \in 1..Len(t) : t[i] \in ToSet(t)
    BY <1>3 DEF ToSet
  <1>5. t \in Seq(ToSet(t))
    BY <1>3, <1>4
  <1> QED
    BY <1>2, <1>3, <1>5 DEF IsSeq

\* The events of a message are appended one by one.
LEMMA ConcatOne ==
    ASSUME NEW s, IsSeq(s), NEW x
    PROVE  s \o <<x>> = Append(s, x)
  BY DEF IsSeq

\* Two of them.
LEMMA ConcatTwo ==
    ASSUME NEW s, IsSeq(s), NEW x, NEW y
    PROVE  s \o <<x, y>> = Append(Append(s, x), y)
  <1>1. s \in Seq(ToSet(s) \cup {x, y})
    BY DEF IsSeq
  <1> QED
    BY <1>1

\* Three of them.
LEMMA ConcatThree ==
    ASSUME NEW s, IsSeq(s), NEW x, NEW y, NEW z
    PROVE  s \o <<x, y, z>> = Append(Append(Append(s, x), y), z)
  <1>1. s \in Seq(ToSet(s) \cup {x, y, z})
    BY DEF IsSeq
  <1> QED
    BY <1>1

\* A block with one more event can be worked through if that event can.
LEMMA EndsAppend ==
    ASSUME NEW blk, IsSeq(blk), NEW d, NEW w, Ends(blk, d, w),
           NEW ev, NEW d2, NEW w2, Steps(d, w, ev, d2, w2),
           DbOK(d2), w2 \in Waiting \cup {None}
    PROVE  Ends(Append(blk, ev), d2, w2)
  <1>1. PICK n : n = Len(blk)
    OBVIOUS
  <1>2. PICK nb : nb = Append(blk, ev)
    OBVIOUS
  <1>3. n \in Nat /\ Len(nb) = n + 1 /\ (\A i \in 1..n : nb[i] = blk[i]) /\ nb[n + 1] = ev
    BY <1>1, <1>2, AppendSeq
  <1>4. PICK dbs, waits : Replay(dbs, waits, blk) /\ dbs[n] = d /\ waits[n] = w
    BY <1>1 DEF Ends
  <1> DEFINE ds == [i \in 0..n + 1 |-> IF i <= n THEN dbs[i] ELSE d2]
             ws == [i \in 0..n + 1 |-> IF i <= n THEN waits[i] ELSE w2]
  <1>5. /\ \A i \in 0..n : ds[i] = dbs[i] /\ ws[i] = waits[i]
        /\ ds[n + 1] = d2 /\ ws[n + 1] = w2
    BY <1>3
  <1> HIDE DEF ds, ws
  <1>6. ASSUME NEW i \in 1..n + 1 PROVE Steps(ds[i - 1], ws[i - 1], nb[i], ds[i], ws[i])
    <2>1. CASE i = n + 1
      BY <2>1, <1>3, <1>4, <1>5
    <2>2. CASE i # n + 1
      <3>1. i \in 1..n /\ i \in 0..n /\ i - 1 \in 0..n
        BY <2>2, <1>3
      <3>2. Steps(dbs[i - 1], waits[i - 1], blk[i], dbs[i], waits[i])
        BY <3>1, <1>1, <1>4 DEF Replay
      <3> QED
        BY <3>1, <3>2, <1>3, <1>5
    <2> QED
      BY <2>1, <2>2
  <1>7. ASSUME NEW i \in 0..n + 1 PROVE DbOK(ds[i]) /\ ws[i] \in Waiting \cup {None}
    <2>1. CASE i = n + 1
      BY <2>1, <1>5
    <2>2. CASE i # n + 1
      <3>1. i \in 0..n
        BY <2>2, <1>3
      <3> QED
        BY <3>1, <1>1, <1>4, <1>5 DEF Replay
    <2> QED
      BY <2>1, <2>2
  <1>8. ds[0] = committed /\ ws[0] = None
    <2>1. 0 \in 0..n
      BY <1>3
    <2> QED
      BY <2>1, <1>4, <1>5 DEF Replay
  <1>9. Replay(ds, ws, nb)
    BY <1>3, <1>6, <1>7, <1>8 DEF Replay
  <1> QED
    BY <1>2, <1>3, <1>5, <1>9 DEF Ends

----------------------------------------------------------------------------
(* The tables: what each statement does to them. *)

\* What a table of rows is as a function.
LEMMA MapsType ==
    ASSUME NEW S, NEW T, NEW f \in Maps(S, T)
    PROVE  /\ f \in [DOMAIN f -> T]
           /\ DOMAIN f \in SUBSET S
           /\ f = [x \in DOMAIN f |-> f[x]]
           /\ \A x \in DOMAIN f : f[x] \in T
  BY DEF Maps

\* Any function with keys in S and rows in T is a table of them.
LEMMA MapsMake ==
    ASSUME NEW S, NEW T, NEW D \in SUBSET S, NEW f \in [D -> T]
    PROVE  f \in Maps(S, T)
  BY DEF Maps

\* A table with one row put into it is a table.
LEMMA PutType ==
    ASSUME NEW S, NEW T, NEW f \in Maps(S, T), NEW k \in S, NEW v \in T
    PROVE  Put(f, k, v) \in Maps(S, T)
  <1>1. /\ f \in [DOMAIN f -> T] /\ DOMAIN f \in SUBSET S
    BY MapsType
  <1>2. /\ Put(f, k, v) \in [DOMAIN f \cup {k} -> T] /\ DOMAIN f \cup {k} \in SUBSET S
    BY <1>1 DEF Put
  <1> QED
    BY <1>2, MapsMake

\* So is one with a row changed, and only that row changes.
LEMMA MapsExcept ==
    ASSUME NEW S, NEW T, NEW f \in Maps(S, T), NEW k \in DOMAIN f, NEW v \in T
    PROVE  /\ [f EXCEPT ![k] = v] \in Maps(S, T)
           /\ DOMAIN [f EXCEPT ![k] = v] = DOMAIN f
           /\ [f EXCEPT ![k] = v][k] = v
           /\ \A x \in DOMAIN f : x # k => [f EXCEPT ![k] = v][x] = f[x]
  <1>1. /\ f \in [DOMAIN f -> T] /\ DOMAIN f \in SUBSET S
    BY MapsType
  <1>2. [f EXCEPT ![k] = v] \in [DOMAIN f -> T]
    BY <1>1
  <1> QED
    BY <1>1, <1>2, MapsMake

\* Only the balances and the ledger are related to each other.
LEMMA LedgerSame ==
    ASSUME NEW d, NEW e, LedgerAgrees(d), e.ledger = d.ledger, e.balances = d.balances
    PROVE  LedgerAgrees(e) /\ \A h : Balance(e, h) = Balance(d, h)
  <1>1. \A h : Balance(e, h) = Balance(d, h)
    BY DEF Balance
  <1> QED
    BY <1>1 DEF LedgerAgrees

\* createIid adds the document and touches nothing else.
LEMMA CreateIidEffect ==
    ASSUME NEW d, DbOK(d), NEW x \in Entities
    PROVE  LET e == CreateIid(d, x)
           IN  /\ DbOK(e)
               /\ e.iids = d.iids \cup {x} /\ e.owners = d.owners /\ e.classes = d.classes
               /\ e.tokens = d.tokens /\ \A h : Balance(e, h) = Balance(d, h)
  <1>1. PICK e : e = CreateIid(d, x)
    OBVIOUS
  <1>2. /\ e \in Db /\ e.iids = d.iids \cup {x} /\ e.owners = d.owners /\ e.classes = d.classes
        /\ e.tokens = d.tokens /\ e.ledger = d.ledger /\ e.balances = d.balances
    BY <1>1 DEF CreateIid, DbOK, Db
  <1> QED
    BY <1>1, <1>2, LedgerSame DEF DbOK

\* Other rows of Entity touch no other table.
LEMMA OwnersEffect ==
    ASSUME NEW d, DbOK(d), NEW m \in Maps(Entities, Accounts \cup {None})
    PROVE  LET e == [d EXCEPT !.owners = m]
           IN  /\ DbOK(e)
               /\ e.iids = d.iids /\ e.owners = m /\ e.classes = d.classes
               /\ e.tokens = d.tokens /\ \A h : Balance(e, h) = Balance(d, h)
  <1>1. PICK e : e = [d EXCEPT !.owners = m]
    OBVIOUS
  <1>2. /\ e \in Db /\ e.iids = d.iids /\ e.owners = m /\ e.classes = d.classes
        /\ e.tokens = d.tokens /\ e.ledger = d.ledger /\ e.balances = d.balances
    BY <1>1 DEF DbOK, Db
  <1> QED
    BY <1>1, <1>2, LedgerSame DEF DbOK

\* Other rows of TokenClass touch no other table.
LEMMA ClassesEffect ==
    ASSUME NEW d, DbOK(d), NEW m \in Maps(Classes, [names : Entities \cup {None}, lists : Lists])
    PROVE  LET e == [d EXCEPT !.classes = m]
           IN  /\ DbOK(e)
               /\ e.iids = d.iids /\ e.owners = d.owners /\ e.classes = m
               /\ e.tokens = d.tokens /\ \A h : Balance(e, h) = Balance(d, h)
  <1>1. PICK e : e = [d EXCEPT !.classes = m]
    OBVIOUS
  <1>2. /\ e \in Db /\ e.iids = d.iids /\ e.owners = d.owners /\ e.classes = m
        /\ e.tokens = d.tokens /\ e.ledger = d.ledger /\ e.balances = d.balances
    BY <1>1 DEF DbOK, Db
  <1> QED
    BY <1>1, <1>2, LedgerSame DEF DbOK

\* Other rows of Token touch no other table.
LEMMA TokensEffect ==
    ASSUME NEW d, DbOK(d), NEW m \in Maps(Tokens, Classes)
    PROVE  LET e == [d EXCEPT !.tokens = m]
           IN  /\ DbOK(e)
               /\ e.iids = d.iids /\ e.owners = d.owners /\ e.classes = d.classes
               /\ e.tokens = m /\ \A h : Balance(e, h) = Balance(d, h)
  <1>1. PICK e : e = [d EXCEPT !.tokens = m]
    OBVIOUS
  <1>2. /\ e \in Db /\ e.iids = d.iids /\ e.owners = d.owners /\ e.classes = d.classes
        /\ e.tokens = m /\ e.ledger = d.ledger /\ e.balances = d.balances
    BY <1>1 DEF DbOK, Db
  <1> QED
    BY <1>1, <1>2, LedgerSame DEF DbOK

\* The types of the tables, one by one.
LEMMA DbMaps ==
    ASSUME NEW d, DbOK(d)
    PROVE  /\ d.iids \in SUBSET Entities
           /\ d.owners \in Maps(Entities, Accounts \cup {None})
           /\ d.classes \in Maps(Classes, [names : Entities \cup {None}, lists : Lists])
           /\ d.tokens \in Maps(Tokens, Classes)
           /\ d.ledger \in Ledgers
           /\ d.balances \in Maps(Holdings, Holding)
  BY DEF DbOK, Db

\* updateEntityOwner sets the owner of an entity that has a row.
LEMMA EntityOwnerEffect ==
    ASSUME NEW d, DbOK(d), NEW x \in DOMAIN d.owners, NEW a \in Accounts
    PROVE  LET e == UpdateEntityOwner(d, x, a)
           IN  /\ DbOK(e)
               /\ e.iids = d.iids /\ e.classes = d.classes
               /\ e.tokens = d.tokens /\ \A h : Balance(e, h) = Balance(d, h)
               /\ DOMAIN e.owners = DOMAIN d.owners
               /\ e.owners[x] = a
               /\ \A y \in DOMAIN d.owners : y # x => e.owners[y] = d.owners[y]
  <1>1. PICK m : m = [d.owners EXCEPT ![x] = a]
    OBVIOUS
  <1>2. /\ m \in Maps(Entities, Accounts \cup {None}) /\ DOMAIN m = DOMAIN d.owners
        /\ m[x] = a /\ \A y \in DOMAIN d.owners : y # x => m[y] = d.owners[y]
    BY <1>1, DbMaps, MapsExcept
  <1>3. UpdateEntityOwner(d, x, a) = [d EXCEPT !.owners = m]
    BY <1>1 DEF UpdateEntityOwner
  <1> QED
    BY <1>2, <1>3, OwnersEffect

\* createEntity adds a row.
LEMMA CreateEntityEffect ==
    ASSUME NEW d, DbOK(d), NEW x \in Entities
    PROVE  LET e == CreateEntity(d, x)
           IN  /\ DbOK(e)
               /\ e.iids = d.iids /\ e.classes = d.classes
               /\ e.tokens = d.tokens /\ \A h : Balance(e, h) = Balance(d, h)
               /\ DOMAIN e.owners = DOMAIN d.owners \cup {x}
               /\ \A y \in DOMAIN d.owners : y # x => e.owners[y] = d.owners[y]
  <1>1. PICK m : m = Put(d.owners, x, None)
    OBVIOUS
  <1>2. /\ m \in Maps(Entities, Accounts \cup {None}) /\ DOMAIN m = DOMAIN d.owners \cup {x}
        /\ \A y \in DOMAIN d.owners : y # x => m[y] = d.owners[y]
    <2>1. d.owners \in Maps(Entities, Accounts \cup {None}) /\ None \in Accounts \cup {None}
      BY DbMaps
    <2>2. m \in Maps(Entities, Accounts \cup {None})
      BY <1>1, <2>1, PutType
    <2> QED
      BY <1>1, <2>2 DEF Put
  <1>3. CreateEntity(d, x) = [d EXCEPT !.owners = m]
    BY <1>1 DEF CreateEntity
  <1> QED
    BY <1>2, <1>3, OwnersEffect

ClassRows == [names : Entities \cup {None}, lists : Lists]

\* createTokenClass adds a class with empty lists.
LEMMA CreateTokenClassEffect ==
    ASSUME NEW d, DbOK(d), NEW c \in Classes, NEW x \in Entities
    PROVE  LET e == CreateTokenClass(d, c, x)
           IN  /\ DbOK(e)
               /\ e.iids = d.iids /\ e.owners = d.owners
               /\ e.tokens = d.tokens /\ \A h : Balance(e, h) = Balance(d, h)
               /\ DOMAIN e.classes = DOMAIN d.classes \cup {c}
               /\ e.classes[c] = [names |-> EntityIdOrNull(d, x), lists |-> NoLists]
               /\ \A y \in DOMAIN d.classes : y # c => e.classes[y] = d.classes[y]
  <1>1. PICK row : row = [names |-> EntityIdOrNull(d, x), lists |-> NoLists]
    OBVIOUS
  <1>2. row \in ClassRows
    <2>1. EntityIdOrNull(d, x) \in Entities \cup {None}
      BY DEF EntityIdOrNull
    <2>2. NoLists \in Lists
      BY DEF NoLists, Lists
    <2> QED
      BY <1>1, <2>1, <2>2 DEF ClassRows
  <1>3. PICK m : m = Put(d.classes, c, row)
    OBVIOUS
  <1>4. m \in Maps(Classes, ClassRows)
    <2>1. d.classes \in Maps(Classes, ClassRows)
      BY DbMaps DEF ClassRows
    <2> QED
      BY <1>2, <1>3, <2>1, PutType
  <1>5. /\ DOMAIN m = DOMAIN d.classes \cup {c} /\ m[c] = row
        /\ \A y \in DOMAIN d.classes : y # c => m[y] = d.classes[y]
    BY <1>3 DEF Put
  <1>6. CreateTokenClass(d, c, x) = [d EXCEPT !.classes = m]
    BY <1>1, <1>3 DEF CreateTokenClass
  <1>7. m \in Maps(Classes, [names : Entities \cup {None}, lists : Lists])
    BY <1>4 DEF ClassRows
  <1>8. PICK e : e = [d EXCEPT !.classes = m]
    OBVIOUS
  <1>9. /\ DbOK(e)
        /\ e.iids = d.iids /\ e.owners = d.owners /\ e.classes = m
        /\ e.tokens = d.tokens /\ \A h : Balance(e, h) = Balance(d, h)
    BY <1>7, <1>8, ClassesEffect
  <1> QED
    BY <1>1, <1>5, <1>6, <1>8, <1>9

\* Lists that only grow replace what was there.
LEMMA UpdateTokenClassEffect ==
    ASSUME NEW d, DbOK(d), NEW c \in DOMAIN d.classes, NEW x \in Entities,
           NEW lists \in Lists,
           lists.retired = << >> => d.classes[c].lists.retired = << >>,
           lists.cancelled = << >> => d.classes[c].lists.cancelled = << >>
    PROVE  LET e == UpdateTokenClass(d, c, x, lists)
           IN  /\ DbOK(e)
               /\ e.iids = d.iids /\ e.owners = d.owners
               /\ e.tokens = d.tokens /\ \A h : Balance(e, h) = Balance(d, h)
               /\ DOMAIN e.classes = DOMAIN d.classes
               /\ e.classes[c] = [names |-> EntityIdOrNull(d, x), lists |-> lists]
               /\ \A y \in DOMAIN d.classes : y # c => e.classes[y] = d.classes[y]
  <1>1. PICK row : row = [names |-> EntityIdOrNull(d, x), lists |-> lists]
    OBVIOUS
  <1>2. row \in ClassRows
    <2>1. EntityIdOrNull(d, x) \in Entities \cup {None}
      BY DEF EntityIdOrNull
    <2> QED
      BY <1>1, <2>1 DEF ClassRows
  <1>3. PICK m : m = [d.classes EXCEPT ![c] = row]
    OBVIOUS
  <1>4. d.classes \in Maps(Classes, ClassRows)
    BY DbMaps DEF ClassRows
  <1>5. /\ m \in Maps(Classes, ClassRows) /\ DOMAIN m = DOMAIN d.classes /\ m[c] = row
        /\ \A y \in DOMAIN d.classes : y # c => m[y] = d.classes[y]
    BY <1>2, <1>3, <1>4, MapsExcept
  <1>6. /\ Replaced(d.classes[c].lists.retired, lists.retired) = lists.retired
        /\ Replaced(d.classes[c].lists.cancelled, lists.cancelled) = lists.cancelled
    BY DEF Replaced
  <1>7. [retired |-> lists.retired, cancelled |-> lists.cancelled] = lists
    BY DEF Lists
  <1>8. UpdateTokenClass(d, c, x, lists) = [d EXCEPT !.classes = m]
    <2>1. UpdateTokenClass(d, c, x, lists) =
            [d EXCEPT !.classes = [@ EXCEPT ![c] =
                [names |-> EntityIdOrNull(d, x),
                 lists |-> [retired   |-> Replaced(d.classes[c].lists.retired, lists.retired),
                            cancelled |-> Replaced(d.classes[c].lists.cancelled, lists.cancelled)]]]]
      BY DEF UpdateTokenClass, DbOK, Db
    <2> QED
      BY <1>1, <1>3, <1>6, <1>7, <2>1
  <1>9. m \in Maps(Classes, [names : Entities \cup {None}, lists : Lists])
    BY <1>5 DEF ClassRows
  <1>10. PICK e : e = [d EXCEPT !.classes = m]
    OBVIOUS
  <1>11. /\ DbOK(e)
         /\ e.iids = d.iids /\ e.owners = d.owners /\ e.classes = m
         /\ e.tokens = d.tokens /\ \A h : Balance(e, h) = Balance(d, h)
    BY <1>9, <1>10, ClassesEffect
  <1> QED
    BY <1>1, <1>5, <1>8, <1>10, <1>11

\* createToken adds a token with its class.
LEMMA CreateTokenEffect ==
    ASSUME NEW d, DbOK(d), NEW t \in Tokens, NEW c \in Classes
    PROVE  LET e == CreateToken(d, t, c)
           IN  /\ DbOK(e)
               /\ e.iids = d.iids /\ e.owners = d.owners /\ e.classes = d.classes
               /\ \A h : Balance(e, h) = Balance(d, h)
               /\ DOMAIN e.tokens = DOMAIN d.tokens \cup {t}
               /\ e.tokens[t] = c
               /\ \A y \in DOMAIN d.tokens : y # t => e.tokens[y] = d.tokens[y]
  <1>1. PICK m : m = Put(d.tokens, t, c)
    OBVIOUS
  <1>2. m \in Maps(Tokens, Classes)
    BY <1>1, DbMaps, PutType
  <1>3. /\ DOMAIN m = DOMAIN d.tokens \cup {t} /\ m[t] = c
        /\ \A y \in DOMAIN d.tokens : y # t => m[y] = d.tokens[y]
    BY <1>1 DEF Put
  <1>4. CreateToken(d, t, c) = [d EXCEPT !.tokens = m]
    BY <1>1 DEF CreateToken
  <1> QED
    BY <1>2, <1>3, <1>4, TokensEffect

----------------------------------------------------------------------------
(* The ledger and the balances. *)

Total(bag, rows) == SumFunctionOnSet([tr \in DOMAIN bag |-> bag[tr] * tr.amount], rows)

\* A ledger is a finite bag of transfers.
LEMMA LedgerType ==
    ASSUME NEW bag \in Ledgers
    PROVE  /\ DOMAIN bag \in SUBSET Transfers /\ IsFiniteSet(DOMAIN bag)
           /\ \A tr \in DOMAIN bag : bag[tr] \in Nat
  BY MapsType DEF Ledgers

\* The types of a transfer's fields.
LEMMA TransferType ==
    ASSUME NEW tr \in Transfers
    PROVE  /\ tr.amount \in Nat /\ tr.token \in Tokens
           /\ tr.from \in Accounts \cup {None} /\ tr.to \in Accounts \cup {None}
  BY ParametersAssumption DEF Transfers

\* The ledger with one more row.
BagAdd(bag, tr) == bag (+) SetToBag({tr})

\* A ledger with one more row is a ledger, and counts that row once more.
LEMMA BagAddType ==
    ASSUME NEW bag \in Ledgers, NEW tr \in Transfers
    PROVE  /\ BagAdd(bag, tr) \in Ledgers
           /\ DOMAIN BagAdd(bag, tr) = DOMAIN bag \cup {tr}
           /\ BagAdd(bag, tr)[tr] = (IF tr \in DOMAIN bag THEN bag[tr] ELSE 0) + 1
           /\ \A r \in DOMAIN bag : r # tr => BagAdd(bag, tr)[r] = bag[r]
  <1>1. PICK b : b = BagAdd(bag, tr)
    OBVIOUS
  <1>2. b = [r \in DOMAIN bag \cup {tr} |->
                IF r = tr THEN (IF tr \in DOMAIN bag THEN bag[tr] ELSE 0) + 1 ELSE bag[r]]
    BY <1>1, LedgerType DEF BagAdd, (+), SetToBag
  <1>3. /\ DOMAIN bag \in SUBSET Transfers /\ IsFiniteSet(DOMAIN bag)
        /\ \A r \in DOMAIN bag : bag[r] \in Nat
    BY LedgerType
  <1>4. IsFiniteSet(DOMAIN bag \cup {tr})
    <2>1. PICK D : D = DOMAIN bag
      OBVIOUS
    <2>2. IsFiniteSet(D)
      BY <1>3, <2>1
    <2>3. IsFiniteSet(D \cup {tr})
      BY ONLY <2>2, FS_AddElement
    <2> QED
      BY <2>1, <2>3
  <1>5. b \in [DOMAIN bag \cup {tr} -> Nat] /\ DOMAIN bag \cup {tr} \in SUBSET Transfers
    BY <1>2, <1>3
  <1>6. b \in Maps(Transfers, Nat)
    BY <1>5, MapsMake
  <1>7. DOMAIN b = DOMAIN bag \cup {tr}
    BY <1>2
  <1>8. b \in Ledgers
    BY <1>4, <1>6, <1>7 DEF Ledgers
  <1> QED
    BY <1>1, <1>2, <1>8

\* Any part of a ledger is finite, ...
LEMMA LedgerPart ==
    ASSUME NEW bag \in Ledgers, NEW S
    PROVE  IsFiniteSet(S \cap DOMAIN bag)
  <1>1. PICK D : D = DOMAIN bag
    OBVIOUS
  <1>2. PICK R : R = S \cap DOMAIN bag
    OBVIOUS
  <1>3. IsFiniteSet(D) /\ R \in SUBSET D
    BY <1>1, <1>2, LedgerType
  <1>4. IsFiniteSet(R)
    BY ONLY <1>3, FS_Subset
  <1> QED
    BY <1>2, <1>4

\* ... so it adds up to a number.
LEMMA TotalInt ==
    ASSUME NEW bag \in Ledgers, NEW S
    PROVE  Total(bag, S \cap DOMAIN bag) \in Int
  <1> DEFINE f == [tr \in DOMAIN bag |-> bag[tr] * tr.amount]
  <1>1. \A tr \in DOMAIN bag : f[tr] \in Int
    <2>1. ASSUME NEW tr \in DOMAIN bag PROVE bag[tr] * tr.amount \in Int
      BY LedgerType, TransferType
    <2> QED
      BY <2>1
  <1>2. PICK R : R = S \cap DOMAIN bag
    OBVIOUS
  <1> HIDE DEF f
  <1>3. IsFiniteSet(R)
    BY <1>2, LedgerPart
  <1>4. IntValued(f, R)
    BY <1>1, <1>2 DEF IntValued
  <1>5. SumFunctionOnSet(f, R) \in Int
    BY <1>3, <1>4, SumInt
  <1> QED
    BY <1>2, <1>5 DEF Total, f

\* One more row of the ledger counts where it belongs.
LEMMA TotalAdd ==
    ASSUME NEW bag \in Ledgers, NEW tr \in Transfers, NEW S,
           NEW b, b = BagAdd(bag, tr)
    PROVE  Total(b, S \cap DOMAIN b) =
              Total(bag, S \cap DOMAIN bag) + (IF tr \in S THEN tr.amount ELSE 0)
  <1>1. /\ b \in Ledgers
        /\ DOMAIN b = DOMAIN bag \cup {tr}
        /\ b[tr] = (IF tr \in DOMAIN bag THEN bag[tr] ELSE 0) + 1
        /\ \A r \in DOMAIN bag : r # tr => b[r] = bag[r]
    BY BagAddType
  <1>2. PICK f : f = [r \in DOMAIN bag |-> bag[r] * r.amount]
    OBVIOUS
  <1>3. PICK g : g = [r \in DOMAIN b |-> b[r] * r.amount]
    OBVIOUS
  <1>4. PICK R : R = (S \cap DOMAIN bag) \ {tr}
    OBVIOUS
  <1>5. \A r \in DOMAIN bag : f[r] \in Int
    <2>1. ASSUME NEW r \in DOMAIN bag PROVE bag[r] * r.amount \in Int
      BY LedgerType, TransferType
    <2> QED
      BY <2>1, <1>2
  <1>6. \A r \in DOMAIN b : g[r] \in Int
    <2>1. ASSUME NEW r \in DOMAIN b PROVE b[r] * r.amount \in Int
      BY <1>1, LedgerType, TransferType
    <2> QED
      BY <2>1, <1>3
  <1>7. \A r \in R : f[r] = g[r]
    BY <1>1, <1>2, <1>3, <1>4
  <1>8. IsFiniteSet(R) /\ IntValued(f, R) /\ IntValued(g, R)
    <2>1. R \in SUBSET DOMAIN bag /\ R \in SUBSET DOMAIN b
      BY <1>1, <1>4
    <2>2. IsFiniteSet(R)
      <3>1. R = (S \ {tr}) \cap DOMAIN bag
        BY <1>4
      <3> QED
        BY <3>1, LedgerPart
    <2> QED
      BY <2>1, <2>2, <1>5, <1>6 DEF IntValued
  <1>9. SumFunctionOnSet(f, R) = SumFunctionOnSet(g, R) /\ SumFunctionOnSet(f, R) \in Int
    BY <1>7, <1>8, SumCongruence, SumInt
  <1>10. tr \notin R
    BY <1>4
  <1>11. CASE tr \notin S
    <2>1. S \cap DOMAIN bag = R /\ S \cap DOMAIN b = R
      BY <1>1, <1>4, <1>11
    <2>2. Total(b, S \cap DOMAIN b) = SumFunctionOnSet(g, R)
      BY <2>1, <1>3 DEF Total
    <2>3. Total(bag, S \cap DOMAIN bag) = SumFunctionOnSet(f, R)
      BY <2>1, <1>2 DEF Total
    <2> QED
      BY <2>2, <2>3, <1>9, <1>11
  <1>12. CASE tr \in S
    <2>1. S \cap DOMAIN b = R \cup {tr}
      BY <1>1, <1>4, <1>12
    <2>2. SumFunctionOnSet(g, R \cup {tr}) = g[tr] + SumFunctionOnSet(g, R)
      <3>1. g[tr] \in Int
        BY <1>1, <1>6
      <3> QED
        BY <3>1, <1>8, <1>10, SumAdd
    <2>3. g[tr] = b[tr] * tr.amount
      BY <1>1, <1>3
    <2>4. tr.amount \in Nat
      BY TransferType
    <2>5. CASE tr \in DOMAIN bag
      <3>1. S \cap DOMAIN bag = R \cup {tr}
        BY <1>4, <1>12, <2>5
      <3>2. SumFunctionOnSet(f, R \cup {tr}) = f[tr] + SumFunctionOnSet(f, R)
        BY <1>5, <2>5, <1>8, <1>10, SumAdd
      <3>3. f[tr] = bag[tr] * tr.amount /\ bag[tr] \in Nat
        BY <1>2, <2>5, LedgerType
      <3>4. g[tr] = f[tr] + tr.amount
        <4>1. b[tr] = bag[tr] + 1
          BY <1>1, <2>5
        <4>2. (bag[tr] + 1) * tr.amount = bag[tr] * tr.amount + tr.amount
          BY <3>3, <2>4
        <4> QED
          BY <2>3, <3>3, <4>1, <4>2
      <3>5. f[tr] \in Int
        BY <1>5, <2>5
      <3>6. Total(b, S \cap DOMAIN b) = g[tr] + SumFunctionOnSet(g, R)
        BY <1>3, <2>1, <2>2 DEF Total
      <3>7. Total(bag, S \cap DOMAIN bag) = f[tr] + SumFunctionOnSet(f, R)
        BY <1>2, <3>1, <3>2 DEF Total
      <3> QED
        BY <1>9, <1>12, <2>4, <3>4, <3>5, <3>6, <3>7
    <2>6. CASE tr \notin DOMAIN bag
      <3>1. S \cap DOMAIN bag = R
        BY <1>4, <2>6
      <3>2. g[tr] = tr.amount
        BY <1>1, <2>3, <2>4, <2>6
      <3>3. Total(b, S \cap DOMAIN b) = tr.amount + SumFunctionOnSet(g, R)
        BY <1>3, <2>1, <2>2, <3>2 DEF Total
      <3>4. Total(bag, S \cap DOMAIN bag) = SumFunctionOnSet(f, R)
        BY <1>2, <3>1 DEF Total
      <3> QED
        BY <1>9, <1>12, <2>4, <3>3, <3>4
    <2> QED
      BY <2>5, <2>6
  <1> QED
    BY <1>11, <1>12

Tidy(d) == \A h \in DOMAIN d.balances : d.balances[h] # NoHolding

\* A balance is one, also of a holding without a row.
LEMMA BalanceType ==
    ASSUME NEW d \in Db, NEW h
    PROVE  Balance(d, h) \in Holding
  <1>1. d.balances \in Maps(Holdings, Holding)
    BY DEF Db
  <1>2. NoHolding \in Holding
    BY DEF NoHolding, Holding
  <1>3. h \in DOMAIN d.balances => d.balances[h] \in Holding
    BY <1>1, MapsType
  <1> QED
    BY <1>2, <1>3 DEF Balance

\* e is d with another balance of h.
Changed(d, h, n, m, r, e) ==
    /\ e \in Db /\ Tidy(e)
    /\ e.iids = d.iids /\ e.owners = d.owners /\ e.classes = d.classes
    /\ e.tokens = d.tokens /\ e.ledger = d.ledger
    /\ Balance(e, h) = [amount  |-> Balance(d, h).amount + n,
                        minted  |-> Balance(d, h).minted + m,
                        retired |-> Balance(d, h).retired + r]
    /\ \A k : k # h => Balance(e, k) = Balance(d, k)

\* applyTokenBalanceDelta changes one balance by the three deltas, and leaves no
\* row that says nothing.
LEMMA ApplyDeltaEffect ==
    ASSUME NEW d \in Db, Tidy(d), NEW h \in Holdings,
           NEW n \in Int, NEW m \in Nat, NEW r \in Nat
    PROVE  Changed(d, h, n, m, r, ApplyDelta(d, h, n, m, r))
  <1>1. PICK new : new = [amount  |-> Balance(d, h).amount + n,
                          minted  |-> Balance(d, h).minted + m,
                          retired |-> Balance(d, h).retired + r]
    OBVIOUS
  <1>2. new \in Holding
    <2>1. Balance(d, h) \in Holding
      BY BalanceType
    <2> QED
      BY <1>1, <2>1 DEF Holding
  <1>3. PICK p : p = Put(d.balances, h, new)
    OBVIOUS
  <1>4. PICK q : q = RemoveEmpty(p, h)
    OBVIOUS
  <1>5. d.balances \in Maps(Holdings, Holding)
    BY DEF Db
  <1>6. p \in Maps(Holdings, Holding)
    BY <1>2, <1>3, <1>5, PutType
  <1>7. /\ DOMAIN p = DOMAIN d.balances \cup {h} /\ p[h] = new
        /\ \A k \in DOMAIN d.balances : k # h => p[k] = d.balances[k]
    BY <1>3 DEF Put
  <1>8. /\ q \in Maps(Holdings, Holding)
        /\ h \in DOMAIN q <=> new # NoHolding
        /\ h \in DOMAIN q => q[h] = new
        /\ \A k : k # h => (k \in DOMAIN q <=> k \in DOMAIN d.balances)
        /\ \A k \in DOMAIN q : k # h => q[k] = d.balances[k]
    <2>1. CASE new = NoHolding
      <3>1. q = [k \in DOMAIN p \ {h} |-> p[k]]
        BY <1>4, <1>7, <2>1 DEF RemoveEmpty
      <3>2. q \in [DOMAIN p \ {h} -> Holding] /\ DOMAIN p \ {h} \in SUBSET Holdings
        BY <1>6, <3>1, MapsType
      <3>3. q \in Maps(Holdings, Holding)
        BY <3>2, MapsMake
      <3> QED
        BY <1>7, <2>1, <3>1, <3>3
    <2>2. CASE new # NoHolding
      <3>1. q = p
        BY <1>4, <1>7, <2>2 DEF RemoveEmpty
      <3> QED
        BY <1>6, <1>7, <2>2, <3>1
    <2> QED
      BY <2>1, <2>2
  <1>9. PICK e : e = [d EXCEPT !.balances = q]
    OBVIOUS
  <1>10. ApplyDelta(d, h, n, m, r) = e
    BY <1>1, <1>3, <1>4, <1>9 DEF ApplyDelta, Db
  <1>11. /\ e \in Db /\ e.balances = q
         /\ e.iids = d.iids /\ e.owners = d.owners /\ e.classes = d.classes
         /\ e.tokens = d.tokens /\ e.ledger = d.ledger
    BY <1>8, <1>9 DEF Db
  <1>12. Tidy(e)
    BY <1>8, <1>11 DEF Tidy
  <1>13. Balance(e, h) = new
    BY <1>8, <1>11 DEF Balance
  <1>14. \A k : k # h => Balance(e, k) = Balance(d, k)
    BY <1>8, <1>11 DEF Balance
  <1> QED
    BY <1>1, <1>10, <1>11, <1>12, <1>13, <1>14 DEF Changed

\* What a holding becomes when n is moved from a to b.
Shifted(x, k, a, b, n) ==
    [amount  |-> x.amount + (IF b = k THEN n ELSE 0) - (IF a = k THEN n ELSE 0),
     minted  |-> x.minted + (IF b = k /\ a = None THEN n ELSE 0),
     retired |-> x.retired + (IF a = k /\ b = None THEN n ELSE 0)]

\* A holding is an account, never None, and a token.
LEMMA HoldingIsPair ==
    ASSUME NEW h \in Holdings
    PROVE  /\ h[1] \in Accounts /\ h[2] \in Tokens /\ h = <<h[1], h[2]>>
           /\ h[1] # None
  BY ParametersAssumption DEF Holdings

\* The recipient's half of createTokenTransaction.
LEMMA CreditEffect ==
    ASSUME NEW d \in Db, Tidy(d), NEW tr \in Transfers
    PROVE  LET e == Credit(d, tr)
           IN  /\ e \in Db /\ Tidy(e)
               /\ e.iids = d.iids /\ e.owners = d.owners /\ e.classes = d.classes
               /\ e.tokens = d.tokens /\ e.ledger = d.ledger
               /\ \A h \in Holdings : Balance(e, h) =
                    IF h = <<tr.to, tr.token>>
                    THEN [amount  |-> Balance(d, h).amount + tr.amount,
                          minted  |-> Balance(d, h).minted +
                                        (IF tr.from = None THEN tr.amount ELSE 0),
                          retired |-> Balance(d, h).retired]
                    ELSE Balance(d, h)
  <1>0. /\ tr.amount \in Nat /\ tr.token \in Tokens
        /\ tr.from \in Accounts \cup {None} /\ tr.to \in Accounts \cup {None}
    BY TransferType
  <1>1. CASE tr.to = None
    <2>1. Credit(d, tr) = d
      BY <1>1 DEF Credit
    <2>2. \A h \in Holdings : h # <<tr.to, tr.token>>
      BY <1>1, HoldingIsPair
    <2> QED
      BY <2>1, <2>2
  <1>2. CASE tr.to # None
    <2>1. PICK k : k = <<tr.to, tr.token>>
      OBVIOUS
    <2>2. PICK m : m = IF tr.from = None THEN tr.amount ELSE 0
      OBVIOUS
    <2>3. k \in Holdings /\ m \in Nat /\ tr.amount \in Int /\ 0 \in Nat
      BY <1>0, <1>2, <2>1, <2>2 DEF Holdings
    <2>4. PICK z, e : z = 0 /\ e = ApplyDelta(d, k, tr.amount, m, z)
      OBVIOUS
    <2>5. Credit(d, tr) = e
      BY <1>2, <2>1, <2>2, <2>4 DEF Credit
    <2>6. /\ e \in Db /\ Tidy(e)
          /\ e.iids = d.iids /\ e.owners = d.owners /\ e.classes = d.classes
          /\ e.tokens = d.tokens /\ e.ledger = d.ledger
          /\ Balance(e, k) = [amount  |-> Balance(d, k).amount + tr.amount,
                              minted  |-> Balance(d, k).minted + m,
                              retired |-> Balance(d, k).retired + z]
          /\ \A h : h # k => Balance(e, h) = Balance(d, h)
      <3>1. Changed(d, k, tr.amount, m, z, e)
        BY <2>3, <2>4, ApplyDeltaEffect
      <3> QED
        BY <3>1 DEF Changed
    <2>7. Balance(d, k).retired + z = Balance(d, k).retired
      BY <2>4, BalanceType DEF Holding
    <2> QED
      BY <2>1, <2>2, <2>5, <2>6, <2>7
  <1> QED
    BY <1>1, <1>2

\* The sender's half of it.
LEMMA DebitEffect ==
    ASSUME NEW d \in Db, Tidy(d), NEW tr \in Transfers
    PROVE  LET e == Debit(d, tr)
           IN  /\ e \in Db /\ Tidy(e)
               /\ e.iids = d.iids /\ e.owners = d.owners /\ e.classes = d.classes
               /\ e.tokens = d.tokens /\ e.ledger = d.ledger
               /\ \A h \in Holdings : Balance(e, h) =
                    IF h = <<tr.from, tr.token>>
                    THEN [amount  |-> Balance(d, h).amount - tr.amount,
                          minted  |-> Balance(d, h).minted,
                          retired |-> Balance(d, h).retired +
                                        (IF tr.to = None THEN tr.amount ELSE 0)]
                    ELSE Balance(d, h)
  <1>0. /\ tr.amount \in Nat /\ tr.token \in Tokens
        /\ tr.from \in Accounts \cup {None} /\ tr.to \in Accounts \cup {None}
    BY TransferType
  <1>1. CASE tr.from = None
    <2>1. Debit(d, tr) = d
      BY <1>1 DEF Debit
    <2>2. \A h \in Holdings : h # <<tr.from, tr.token>>
      BY <1>1, HoldingIsPair
    <2> QED
      BY <2>1, <2>2
  <1>2. CASE tr.from # None
    <2>1. PICK k : k = <<tr.from, tr.token>>
      OBVIOUS
    <2>2. PICK r : r = IF tr.to = None THEN tr.amount ELSE 0
      OBVIOUS
    <2>3. k \in Holdings /\ r \in Nat /\ - tr.amount \in Int /\ 0 \in Nat
      BY <1>0, <1>2, <2>1, <2>2 DEF Holdings
    <2>4. PICK z, n, e : z = 0 /\ n = - tr.amount /\ e = ApplyDelta(d, k, n, z, r)
      OBVIOUS
    <2>5. Debit(d, tr) = e
      BY <1>2, <2>1, <2>2, <2>4 DEF Debit
    <2>6. /\ e \in Db /\ Tidy(e)
          /\ e.iids = d.iids /\ e.owners = d.owners /\ e.classes = d.classes
          /\ e.tokens = d.tokens /\ e.ledger = d.ledger
          /\ Balance(e, k) = [amount  |-> Balance(d, k).amount + n,
                              minted  |-> Balance(d, k).minted + z,
                              retired |-> Balance(d, k).retired + r]
          /\ \A h : h # k => Balance(e, h) = Balance(d, h)
      <3>1. Changed(d, k, n, z, r, e)
        BY <2>3, <2>4, ApplyDeltaEffect
      <3> QED
        BY <3>1 DEF Changed
    <2>7. /\ Balance(d, k).minted + z = Balance(d, k).minted
          /\ Balance(d, k).amount + n = Balance(d, k).amount - tr.amount
      BY <1>0, <2>4, BalanceType DEF Holding
    <2> QED
      BY <2>1, <2>2, <2>5, <2>6, <2>7
  <1> QED
    BY <1>1, <1>2

\* A recorded transfer moves what it says, of the token it says.
LEMMA MoveEffect ==
    ASSUME NEW d \in Db, Tidy(d), NEW tr \in Transfers
    PROVE  LET e == CreateTokenTransaction(d, tr)
           IN  /\ e \in Db /\ Tidy(e)
               /\ e.iids = d.iids /\ e.owners = d.owners /\ e.classes = d.classes
               /\ e.tokens = d.tokens /\ e.ledger = BagAdd(d.ledger, tr)
               /\ \A h \in Holdings : Balance(e, h) =
                    IF h[2] = tr.token
                    THEN Shifted(Balance(d, h), h[1], tr.from, tr.to, tr.amount)
                    ELSE Balance(d, h)
  <1>1. PICK d1 : d1 = [d EXCEPT !.ledger = BagAdd(@, tr)]
    OBVIOUS
  <1>2. d.ledger \in Ledgers
    BY DEF Db
  <1>3. BagAdd(d.ledger, tr) \in Ledgers
    BY <1>2, BagAddType
  <1>4. /\ d1 \in Db /\ d1.balances = d.balances
        /\ d1.iids = d.iids /\ d1.owners = d.owners /\ d1.classes = d.classes
        /\ d1.tokens = d.tokens /\ d1.ledger = BagAdd(d.ledger, tr)
    BY <1>1, <1>3 DEF Db
  <1>5. Tidy(d1) /\ \A h : Balance(d1, h) = Balance(d, h)
    BY <1>4 DEF Tidy, Balance
  <1>6. PICK d2 : d2 = Credit(d1, tr)
    OBVIOUS
  <1>7. PICK d3 : d3 = Debit(d2, tr)
    OBVIOUS
  <1>8. CreateTokenTransaction(d, tr) = d3
    BY <1>1, <1>6, <1>7 DEF CreateTokenTransaction, BagAdd
  <1>9. /\ d2 \in Db /\ Tidy(d2)
        /\ d2.iids = d1.iids /\ d2.owners = d1.owners /\ d2.classes = d1.classes
        /\ d2.tokens = d1.tokens /\ d2.ledger = d1.ledger
        /\ \A h \in Holdings : Balance(d2, h) =
             IF h = <<tr.to, tr.token>>
             THEN [amount  |-> Balance(d1, h).amount + tr.amount,
                   minted  |-> Balance(d1, h).minted +
                                 (IF tr.from = None THEN tr.amount ELSE 0),
                   retired |-> Balance(d1, h).retired]
             ELSE Balance(d1, h)
    BY <1>4, <1>5, <1>6, CreditEffect
  <1>10. /\ d3 \in Db /\ Tidy(d3)
         /\ d3.iids = d2.iids /\ d3.owners = d2.owners /\ d3.classes = d2.classes
         /\ d3.tokens = d2.tokens /\ d3.ledger = d2.ledger
         /\ \A h \in Holdings : Balance(d3, h) =
              IF h = <<tr.from, tr.token>>
              THEN [amount  |-> Balance(d2, h).amount - tr.amount,
                    minted  |-> Balance(d2, h).minted,
                    retired |-> Balance(d2, h).retired +
                                  (IF tr.to = None THEN tr.amount ELSE 0)]
              ELSE Balance(d2, h)
    BY <1>9, <1>7, DebitEffect
  <1>11. ASSUME NEW h \in Holdings
         PROVE  Balance(d3, h) =
                    IF h[2] = tr.token
                    THEN Shifted(Balance(d, h), h[1], tr.from, tr.to, tr.amount)
                    ELSE Balance(d, h)
    <2>1. /\ h[1] \in Accounts /\ h[2] \in Tokens /\ h = <<h[1], h[2]>> /\ h[1] # None
      BY HoldingIsPair
    <2>2. /\ h = <<tr.to, tr.token>> <=> (h[1] = tr.to /\ h[2] = tr.token)
          /\ h = <<tr.from, tr.token>> <=> (h[1] = tr.from /\ h[2] = tr.token)
      BY <2>1
    <2>3. PICK x : x = Balance(d, h)
      OBVIOUS
    <2>4. /\ x.amount \in Int /\ x.minted \in Nat /\ x.retired \in Nat
          /\ x = [amount |-> x.amount, minted |-> x.minted, retired |-> x.retired]
      BY <2>3, BalanceType DEF Holding
    <2>5. PICK n : n = tr.amount
      OBVIOUS
    <2>6. n \in Nat
      BY <2>5, TransferType
    <2>7. Balance(d2, h) =
            IF h[1] = tr.to /\ h[2] = tr.token
            THEN [amount  |-> x.amount + n,
                  minted  |-> x.minted + (IF tr.from = None THEN n ELSE 0),
                  retired |-> x.retired]
            ELSE x
      BY <1>5, <1>9, <2>2, <2>3, <2>5
    <2>8. PICK y : y = Balance(d2, h)
      OBVIOUS
    <2>9. Balance(d3, h) =
            IF h[1] = tr.from /\ h[2] = tr.token
            THEN [amount  |-> y.amount - n,
                  minted  |-> y.minted,
                  retired |-> y.retired + (IF tr.to = None THEN n ELSE 0)]
            ELSE y
      BY <1>10, <2>2, <2>5, <2>8
    <2>10. CASE h[2] # tr.token
      BY <2>3, <2>7, <2>8, <2>9, <2>10
    <2>11. CASE h[2] = tr.token
      <3>1. Shifted(x, h[1], tr.from, tr.to, n) =
              [amount  |-> x.amount + (IF tr.to = h[1] THEN n ELSE 0)
                                    - (IF tr.from = h[1] THEN n ELSE 0),
               minted  |-> x.minted + (IF tr.to = h[1] /\ tr.from = None THEN n ELSE 0),
               retired |-> x.retired + (IF tr.from = h[1] /\ tr.to = None THEN n ELSE 0)]
        BY DEF Shifted
      <3>2. CASE tr.to = h[1] /\ tr.from = h[1]
        BY <2>1, <2>4, <2>6, <2>7, <2>8, <2>9, <2>11, <3>1, <3>2, <2>3, <2>5
      <3>3. CASE tr.to = h[1] /\ tr.from # h[1]
        BY <2>1, <2>4, <2>6, <2>7, <2>8, <2>9, <2>11, <3>1, <3>3, <2>3, <2>5
      <3>4. CASE tr.to # h[1] /\ tr.from = h[1]
        BY <2>1, <2>4, <2>6, <2>7, <2>8, <2>9, <2>11, <3>1, <3>4, <2>3, <2>5
      <3>5. CASE tr.to # h[1] /\ tr.from # h[1]
        BY <2>1, <2>4, <2>6, <2>7, <2>8, <2>9, <2>11, <3>1, <3>5, <2>3, <2>5
      <3> QED
        BY <3>2, <3>3, <3>4, <3>5
    <2> QED
      BY <2>10, <2>11
  <1> QED
    BY <1>4, <1>8, <1>9, <1>10, <1>11

In(a, t) == {tr \in Transfers : tr.token = t /\ tr.to = a}
Out(a, t) == {tr \in Transfers : tr.token = t /\ tr.from = a}
MintedTo(a, t) == {tr \in Transfers : tr.token = t /\ tr.to = a /\ tr.from = None}
RetiredBy(a, t) == {tr \in Transfers : tr.token = t /\ tr.from = a /\ tr.to = None}

\* What the ledger says of a holding, as four totals of transfers of the token.
LEMMA HoldingParts ==
    ASSUME NEW bag \in Ledgers, NEW a, NEW t
    PROVE  LedgerHolding(bag, a, t) =
              [amount  |-> Total(bag, In(a, t) \cap DOMAIN bag)
                           - Total(bag, Out(a, t) \cap DOMAIN bag),
               minted  |-> Total(bag, MintedTo(a, t) \cap DOMAIN bag),
               retired |-> Total(bag, RetiredBy(a, t) \cap DOMAIN bag)]
  <1>1. DOMAIN bag \in SUBSET Transfers
    BY LedgerType
  <1>2. {tr \in DOMAIN bag : tr.token = t /\ tr.to = a} = In(a, t) \cap DOMAIN bag
    BY <1>1 DEF In
  <1>3. {tr \in DOMAIN bag : tr.token = t /\ tr.from = a} = Out(a, t) \cap DOMAIN bag
    BY <1>1 DEF Out
  <1>4. {tr \in In(a, t) \cap DOMAIN bag : tr.from = None} = MintedTo(a, t) \cap DOMAIN bag
    BY DEF In, MintedTo
  <1>5. {tr \in Out(a, t) \cap DOMAIN bag : tr.to = None} = RetiredBy(a, t) \cap DOMAIN bag
    BY DEF Out, RetiredBy
  <1> QED
    BY <1>2, <1>3, <1>4, <1>5 DEF LedgerHolding, Total

\* A recorded transfer changes what the ledger says the way it moves balances.
LEMMA LedgerShift ==
    ASSUME NEW bag \in Ledgers, NEW tr \in Transfers, NEW a \in Accounts, NEW t \in Tokens
    PROVE  LedgerHolding(BagAdd(bag, tr), a, t) =
              IF t = tr.token
              THEN Shifted(LedgerHolding(bag, a, t), a, tr.from, tr.to, tr.amount)
              ELSE LedgerHolding(bag, a, t)
  <1>1. PICK b : b = BagAdd(bag, tr)
    OBVIOUS
  <1>2. b \in Ledgers
    BY <1>1, BagAddType
  <1>3. PICK n : n = tr.amount
    OBVIOUS
  <1>4. n \in Nat
    BY <1>3, TransferType
  <1>5. PICK i, o, m, r : /\ i = Total(bag, In(a, t) \cap DOMAIN bag)
                          /\ o = Total(bag, Out(a, t) \cap DOMAIN bag)
                          /\ m = Total(bag, MintedTo(a, t) \cap DOMAIN bag)
                          /\ r = Total(bag, RetiredBy(a, t) \cap DOMAIN bag)
    OBVIOUS
  <1>6. i \in Int /\ o \in Int /\ m \in Int /\ r \in Int
    BY <1>5, TotalInt
  <1>7. /\ Total(b, In(a, t) \cap DOMAIN b) = i + (IF tr \in In(a, t) THEN n ELSE 0)
        /\ Total(b, Out(a, t) \cap DOMAIN b) = o + (IF tr \in Out(a, t) THEN n ELSE 0)
        /\ Total(b, MintedTo(a, t) \cap DOMAIN b) = m + (IF tr \in MintedTo(a, t) THEN n ELSE 0)
        /\ Total(b, RetiredBy(a, t) \cap DOMAIN b) = r + (IF tr \in RetiredBy(a, t) THEN n ELSE 0)
    BY <1>1, <1>3, <1>5, TotalAdd
  <1>8. LedgerHolding(bag, a, t) = [amount |-> i - o, minted |-> m, retired |-> r]
    BY <1>5, HoldingParts
  <1>9. LedgerHolding(b, a, t) =
            [amount  |-> (i + (IF tr \in In(a, t) THEN n ELSE 0))
                         - (o + (IF tr \in Out(a, t) THEN n ELSE 0)),
             minted  |-> m + (IF tr \in MintedTo(a, t) THEN n ELSE 0),
             retired |-> r + (IF tr \in RetiredBy(a, t) THEN n ELSE 0)]
    BY <1>2, <1>7, HoldingParts
  <1>10. CASE t # tr.token
    <2>1. tr \notin In(a, t) /\ tr \notin Out(a, t) /\ tr \notin MintedTo(a, t) /\ tr \notin RetiredBy(a, t)
      BY <1>10 DEF In, Out, MintedTo, RetiredBy
    <2> QED
      BY <1>1, <1>6, <1>8, <1>9, <1>10, <2>1
  <1>11. CASE t = tr.token
    <2>1. /\ tr \in In(a, t) <=> tr.to = a
          /\ tr \in Out(a, t) <=> tr.from = a
          /\ tr \in MintedTo(a, t) <=> tr.to = a /\ tr.from = None
          /\ tr \in RetiredBy(a, t) <=> tr.from = a /\ tr.to = None
      BY <1>11 DEF In, Out, MintedTo, RetiredBy
    <2>2. Shifted(LedgerHolding(bag, a, t), a, tr.from, tr.to, n) =
            [amount  |-> (i - o) + (IF tr.to = a THEN n ELSE 0) - (IF tr.from = a THEN n ELSE 0),
             minted  |-> m + (IF tr.to = a /\ tr.from = None THEN n ELSE 0),
             retired |-> r + (IF tr.from = a /\ tr.to = None THEN n ELSE 0)]
      BY <1>8 DEF Shifted
    <2>3. (i - o) + (IF tr.to = a THEN n ELSE 0) - (IF tr.from = a THEN n ELSE 0)
          = (i + (IF tr.to = a THEN n ELSE 0)) - (o + (IF tr.from = a THEN n ELSE 0))
      BY <1>4, <1>6
    <2> QED
      BY <1>1, <1>3, <1>9, <1>11, <2>1, <2>2, <2>3
  <1> QED
    BY <1>10, <1>11

\* e is d with some balances moved.
SameRows(e, d) ==
    e.iids = d.iids /\ e.owners = d.owners /\ e.classes = d.classes /\ e.tokens = d.tokens

Moves(d, tr, e) ==
    /\ DbOK(e) /\ SameRows(e, d)
    /\ \A h \in Holdings : Balance(e, h) =
            IF h[2] = tr.token
            THEN Shifted(Balance(d, h), h[1], tr.from, tr.to, tr.amount)
            ELSE Balance(d, h)

\* createTokenTransaction moves the balances it should, and the totals stay the
\* sums of the ledger.
LEMMA TransactionMoves ==
    ASSUME NEW d, DbOK(d), NEW tr \in Transfers
    PROVE  Moves(d, tr, CreateTokenTransaction(d, tr))
  <1>1. PICK e : e = CreateTokenTransaction(d, tr)
    OBVIOUS
  <1>2. d \in Db /\ Tidy(d) /\ d.ledger \in Ledgers
    BY DEF DbOK, LedgerAgrees, Tidy, Db
  <1>3. /\ e \in Db /\ Tidy(e)
        /\ e.iids = d.iids /\ e.owners = d.owners /\ e.classes = d.classes
        /\ e.tokens = d.tokens /\ e.ledger = BagAdd(d.ledger, tr)
        /\ \A h \in Holdings : Balance(e, h) =
             IF h[2] = tr.token
             THEN Shifted(Balance(d, h), h[1], tr.from, tr.to, tr.amount)
             ELSE Balance(d, h)
    BY <1>1, <1>2, MoveEffect
  <1>4. ASSUME NEW h \in Holdings
        PROVE  Balance(e, h) = LedgerHolding(e.ledger, h[1], h[2])
    <2>1. h[1] \in Accounts /\ h[2] \in Tokens
      BY HoldingIsPair
    <2>2. Balance(d, h) = LedgerHolding(d.ledger, h[1], h[2])
      BY DEF DbOK, LedgerAgrees
    <2>3. LedgerHolding(BagAdd(d.ledger, tr), h[1], h[2]) =
              IF h[2] = tr.token
              THEN Shifted(LedgerHolding(d.ledger, h[1], h[2]), h[1], tr.from, tr.to, tr.amount)
              ELSE LedgerHolding(d.ledger, h[1], h[2])
      BY <1>2, <2>1, LedgerShift
    <2> QED
      BY <1>3, <2>2, <2>3
  <1>5. DbOK(e)
    BY <1>3, <1>4 DEF DbOK, LedgerAgrees, Tidy
  <1> QED
    BY <1>1, <1>3, <1>5 DEF Moves, SameRows

----------------------------------------------------------------------------
(* A token contract's event, transfer by transfer. *)

Unfolds(f, d, trs, m) ==
    f = [i \in 0..m |->
            IF i = 0 THEN d
            ELSE IF i \in Recorded(trs)
                 THEN CreateTokenTransaction(f[i - 1], trs[i])
                 ELSE f[i - 1]]

\* The function RecordAll is defined by exists, however many transfers there are.
LEMMA UnfoldsExists ==
    ASSUME NEW d, NEW trs, NEW m \in Nat
    PROVE  \E f : Unfolds(f, d, trs, m)
  <1> DEFINE G == {n \in Nat : \E f : Unfolds(f, d, trs, n)}
  <1>1. 0 \in G
    <2>1. PICK f : f = [i \in 0..0 |-> d]
      OBVIOUS
    <2>2. Unfolds(f, d, trs, 0)
      BY <2>1 DEF Unfolds
    <2> QED
      BY <2>2
  <1>2. ASSUME NEW n \in G PROVE n + 1 \in G
    <2>0. n \in Nat /\ n + 1 \in Nat
      OBVIOUS
    <2>1. PICK f : Unfolds(f, d, trs, n)
      OBVIOUS
    <2>2. PICK x : x = IF n + 1 \in Recorded(trs)
                       THEN CreateTokenTransaction(f[n], trs[n + 1]) ELSE f[n]
      OBVIOUS
    <2>3. PICK g : g = [i \in 0..n + 1 |-> IF i <= n THEN f[i] ELSE x]
      OBVIOUS
    <2>4. (\A i \in 0..n : g[i] = f[i]) /\ g[n + 1] = x /\ DOMAIN g = 0..n + 1
      BY <2>0, <2>3
    <2>5. ASSUME NEW i \in 0..n + 1
          PROVE  g[i] = IF i = 0 THEN d
                        ELSE IF i \in Recorded(trs)
                             THEN CreateTokenTransaction(g[i - 1], trs[i])
                             ELSE g[i - 1]
      <3>1. CASE i = n + 1
        <4>1. i # 0 /\ i - 1 = n /\ n \in 0..n
          BY <2>0, <3>1
        <4> QED
          BY <2>2, <2>4, <3>1, <4>1
      <3>2. CASE i # n + 1
        <4>1. i \in 0..n /\ (i # 0 => i - 1 \in 0..n)
          BY <2>0, <3>2
        <4>2. f[i] = IF i = 0 THEN d
                     ELSE IF i \in Recorded(trs)
                          THEN CreateTokenTransaction(f[i - 1], trs[i])
                          ELSE f[i - 1]
          BY <2>1, <4>1 DEF Unfolds
        <4> QED
          BY <2>4, <4>1, <4>2
      <3> QED
        BY <3>1, <3>2
    <2>6. Unfolds(g, d, trs, n + 1)
      <3>1. g = [i \in 0..n + 1 |-> g[i]]
        BY <2>3
      <3> QED
        BY <2>5, <3>1 DEF Unfolds
    <2> QED
      BY <2>0, <2>6
  <1>3. G = Nat
    <2> HIDE DEF G
    <2>1. G \in SUBSET Nat
      BY DEF G
    <2> QED
      BY <1>1, <1>2, <2>1, Induction
  <1> QED
    BY <1>3

\* RecordAll is its value after the last transfer reached.
LEMMA RecordAllUnfolds ==
    ASSUME NEW d, NEW trs, Reached(trs) \in Nat
    PROVE  \E f : Unfolds(f, d, trs, Reached(trs)) /\ RecordAll(d, trs) = f[Reached(trs)]
  <1> DEFINE C == CHOOSE f : Unfolds(f, d, trs, Reached(trs))
  <1>1. Unfolds(C, d, trs, Reached(trs))
    BY UnfoldsExists
  <1>2. RecordAll(d, trs) = C[Reached(trs)]
    BY DEF RecordAll, Unfolds
  <1> QED
    BY <1>1, <1>2

\* The transfers of one message: the same amount of several tokens.
Batch(trs, a, b, n) ==
    /\ trs \in Seq(Transfers)
    /\ \A i \in 1..Len(trs) : trs[i].from = a /\ trs[i].to = b /\ trs[i].amount = n
    /\ \A i, j \in 1..Len(trs) : trs[i].token = trs[j].token => i = j

TokensOf(trs) == {trs[i].token : i \in 1..Len(trs)}

Batched(d, trs, a, b, n, e) ==
    /\ DbOK(e) /\ SameRows(e, d)
    /\ \A h \in Holdings : Balance(e, h) =
            IF h[2] \in TokensOf(trs)
            THEN Shifted(Balance(d, h), h[1], a, b, n)
            ELSE Balance(d, h)

\* An event without a mint is worked through to its end.
LEMMA NoMintReached ==
    ASSUME NEW trs, Len(trs) \in Nat,
           \A i \in 1..Len(trs) : trs[i].from # None \/ trs[i].to = None
    PROVE  /\ FirstMint(trs) = 0
           /\ Reached(trs) = Len(trs)
           /\ Recorded(trs) = {i \in 1..Len(trs) : trs[i].from # trs[i].to}
  <1>1. {i \in 1..Len(trs) : trs[i].from = None /\ trs[i].to # None} = {}
    OBVIOUS
  <1>2. FirstMint(trs) = 0
    BY <1>1 DEF FirstMint, SelectInSeq
  <1> QED
    BY <1>2 DEF Reached, Recorded

\* What is moved to its owner stays what it is.
LEMMA ShiftToSelf ==
    ASSUME NEW x \in Holding, NEW k, k # None, NEW a, NEW n \in Nat
    PROVE  Shifted(x, k, a, a, n) = x
  <1>1. /\ x = [amount |-> x.amount, minted |-> x.minted, retired |-> x.retired]
        /\ x.amount \in Int /\ x.minted \in Nat /\ x.retired \in Nat
    BY DEF Holding
  <1>2. ~ (a = k /\ a = None)
    OBVIOUS
  <1>3. x.amount + (IF a = k THEN n ELSE 0) - (IF a = k THEN n ELSE 0) = x.amount
    BY <1>1
  <1>4. x.minted + (IF a = k /\ a = None THEN n ELSE 0) = x.minted
    BY <1>1, <1>2
  <1>5. x.retired + (IF a = k /\ a = None THEN n ELSE 0) = x.retired
    BY <1>1, <1>2
  <1> QED
    BY <1>1, <1>3, <1>4, <1>5 DEF Shifted

\* Each transfer of the batch adds its token to those that have moved.
LEMMA BatchEffect ==
    ASSUME NEW d, DbOK(d), NEW trs, NEW a, NEW b, NEW n \in Nat, a # None, Batch(trs, a, b, n)
    PROVE  Batched(d, trs, a, b, n, RecordAll(d, trs))
  <1>1. trs \in Seq(Transfers) /\ Len(trs) \in Nat /\ \A i \in 1..Len(trs) : trs[i] \in Transfers
    BY DEF Batch
  <1>2. \A i \in 1..Len(trs) : trs[i].from = a /\ trs[i].to = b /\ trs[i].amount = n
    BY DEF Batch
  <1>3. Reached(trs) = Len(trs) /\ Recorded(trs) = {i \in 1..Len(trs) : a # b}
    BY <1>1, <1>2, NoMintReached
  <1>4. PICK f : Unfolds(f, d, trs, Len(trs)) /\ RecordAll(d, trs) = f[Len(trs)]
    BY <1>1, <1>3, RecordAllUnfolds
  <1>5. \A i \in 0..Len(trs) :
            f[i] = IF i = 0 THEN d
                   ELSE IF a # b THEN CreateTokenTransaction(f[i - 1], trs[i]) ELSE f[i - 1]
    BY <1>3, <1>4 DEF Unfolds
  <1> DEFINE Upto(i) == {trs[j].token : j \in 1..i}
             Good(i, e) ==
                /\ DbOK(e) /\ SameRows(e, d)
                /\ \A h \in Holdings : Balance(e, h) =
                        IF h[2] \in Upto(i)
                        THEN Shifted(Balance(d, h), h[1], a, b, n)
                        ELSE Balance(d, h)
             G == {i \in Nat : i <= Len(trs) => Good(i, f[i])}
  <1>6. 0 \in G
    <2>1. f[0] = d
      BY <1>1, <1>5
    <2>2. Upto(0) = {}
      OBVIOUS
    <2>3. Good(0, d)
      BY <2>2 DEF SameRows
    <2> QED
      BY <2>1, <2>3
  <1>7. ASSUME NEW i \in G PROVE i + 1 \in G
    <2>0. i \in Nat /\ i + 1 \in Nat
      OBVIOUS
    <2>1. SUFFICES ASSUME i + 1 <= Len(trs) PROVE Good(i + 1, f[i + 1])
      BY <2>0
    <2>2. i + 1 \in 1..Len(trs) /\ i + 1 \in 0..Len(trs) /\ i + 1 # 0 /\ (i + 1) - 1 = i
      BY <1>1, <2>0, <2>1
    <2>3. Good(i, f[i])
      BY <1>1, <2>0, <2>1
    <2>4. PICK tr : tr = trs[i + 1]
      OBVIOUS
    <2>5. tr \in Transfers /\ tr.from = a /\ tr.to = b /\ tr.amount = n
      BY <1>1, <1>2, <2>2, <2>4
    <2>6. \A t : t \in Upto(i + 1) <=> t \in Upto(i) \/ t = tr.token
      BY <2>0, <2>4
    <2>7. tr.token \notin Upto(i)
      <3>1. ASSUME NEW j \in 1..i PROVE trs[j].token # tr.token
        <4>1. j \in 1..Len(trs) /\ j # i + 1
          BY <1>1, <2>0, <2>1
        <4> QED
          BY <4>1, <2>2, <2>4 DEF Batch
      <3> QED
        BY <3>1
    <2> HIDE DEF Upto
    <2>8. CASE a # b
      <3>1. PICK e : e = f[i + 1]
        OBVIOUS
      <3>2. PICK p : p = f[i]
        OBVIOUS
      <3>3. e = CreateTokenTransaction(p, tr)
        BY <1>5, <2>2, <2>4, <2>8, <3>1, <3>2
      <3>4. DbOK(p) /\ SameRows(p, d)
        BY <2>3, <3>2
      <3>5. Moves(p, tr, e)
        BY <2>5, <3>3, <3>4, TransactionMoves
      <3>6. DbOK(e) /\ SameRows(e, d)
        BY <3>4, <3>5 DEF Moves, SameRows
      <3>7. ASSUME NEW h \in Holdings
            PROVE  Balance(e, h) = IF h[2] \in Upto(i + 1)
                                   THEN Shifted(Balance(d, h), h[1], a, b, n)
                                   ELSE Balance(d, h)
        <4>1. Balance(p, h) = IF h[2] \in Upto(i)
                              THEN Shifted(Balance(d, h), h[1], a, b, n)
                              ELSE Balance(d, h)
          BY <2>3, <3>2
        <4>2. Balance(e, h) = IF h[2] = tr.token
                              THEN Shifted(Balance(p, h), h[1], a, b, n)
                              ELSE Balance(p, h)
          BY <2>5, <3>5 DEF Moves
        <4> QED
          BY <2>6, <2>7, <4>1, <4>2
      <3> QED
        BY <3>1, <3>6, <3>7
    <2>9. CASE a = b
      <3>1. f[i + 1] = f[i]
        BY <1>5, <2>2, <2>9
      <3>2. ASSUME NEW h \in Holdings PROVE Shifted(Balance(d, h), h[1], a, b, n) = Balance(d, h)
        <4>1. Balance(d, h) \in Holding /\ h[1] # None
          BY BalanceType, HoldingIsPair DEF DbOK
        <4> QED
          BY <2>9, <4>1, ShiftToSelf
      <3> QED
        BY <2>3, <3>1, <3>2
    <2> QED
      BY <2>8, <2>9
  <1>8. G = Nat
    <2> HIDE DEF G
    <2>1. G \in SUBSET Nat
      BY DEF G
    <2> QED
      BY <1>6, <1>7, <2>1, Induction
  <1>9. Good(Len(trs), f[Len(trs)])
    BY <1>1, <1>8
  <1> QED
    BY <1>4, <1>9 DEF Batched, TokensOf

----------------------------------------------------------------------------
(* What each kind of event writes, leaves for later and needs. *)

\* The mint of an entity's NFT writes nothing and leaves the owner for later.
LEMMA NftMintEvent ==
    ASSUME NEW d, NEW e, NEW a
    PROVE  /\ Accepts(d, NftMint(e, a)) /\ Written(d, NftMint(e, a)) = d
           /\ Result(NftMint(e, a)) = [skip |-> 2, later |-> NftMint(e, a)]
  BY DEF NftMint, Accepts, Written, Result, Skip

\* The transfer of the NFT sets the owner at once.
LEMMA NftTransferEvent ==
    ASSUME NEW d, NEW e, NEW a
    PROVE  /\ Accepts(d, NftTransfer(e, a))
           /\ Written(d, NftTransfer(e, a)) = UpdateEntityOwner(d, e, a)
           /\ Result(NftTransfer(e, a)) = None
  BY DEF NftTransfer, Accepts, Written, Result

\* A document needs a fresh key.
LEMMA IidEvent ==
    ASSUME NEW d, NEW e
    PROVE  /\ Accepts(d, IidCreated(e)) <=> e \notin d.iids
           /\ Written(d, IidCreated(e)) = CreateIid(d, e)
           /\ Result(IidCreated(e)) = None
  BY DEF IidCreated, Accepts, Written, Result

\* An entity needs its document and a fresh key.
LEMMA EntityEvent ==
    ASSUME NEW d, NEW e
    PROVE  /\ Accepts(d, EntityCreated(e)) <=> e \in d.iids \ DOMAIN d.owners
           /\ Written(d, EntityCreated(e)) = CreateEntity(d, e)
           /\ Result(EntityCreated(e)) = None
  BY DEF EntityCreated, Accepts, Written, Result

\* A class needs a fresh key.
LEMMA ClassEvent ==
    ASSUME NEW d, NEW c, NEW e
    PROVE  /\ Accepts(d, ClassCreated(c, e)) <=> c \notin DOMAIN d.classes
           /\ Written(d, ClassCreated(c, e)) = CreateTokenClass(d, c, e)
           /\ Result(ClassCreated(c, e)) = None
  BY DEF ClassCreated, Accepts, Written, Result

\* A class's lists need rows of the tokens they name.
LEMMA ClassUpdatedEvent ==
    ASSUME NEW d, NEW c, NEW e, NEW lists
    PROVE  /\ Accepts(d, ClassUpdated(c, e, lists)) <=>
                \A i \in DOMAIN lists.retired : lists.retired[i].token \in DOMAIN d.tokens
           /\ Written(d, ClassUpdated(c, e, lists)) = UpdateTokenClass(d, c, e, lists)
           /\ Result(ClassUpdated(c, e, lists)) = None
  BY DEF ClassUpdated, Accepts, Written, Result

\* A token needs its class and a fresh key.
LEMMA TokenEvent ==
    ASSUME NEW d, NEW t, NEW c
    PROVE  /\ Accepts(d, TokenMinted(t, c)) <=>
                t \notin DOMAIN d.tokens /\ c \in DOMAIN d.classes
           /\ Written(d, TokenMinted(t, c)) = CreateToken(d, t, c)
           /\ Result(TokenMinted(t, c)) = None
  BY DEF TokenMinted, Accepts, Written, Result

\* A token contract's event is ignored if its class is not known; else its
\* transfers are recorded, and a mint is left for later.
LEMMA MovedEvent ==
    ASSUME NEW d, NEW c, NEW trs
    PROVE  /\ ~ KnownClass(c) => /\ Accepts(d, Moved(c, trs)) /\ Written(d, Moved(c, trs)) = d
                                 /\ Result(Moved(c, trs)) = None
           /\ KnownClass(c) =>
                /\ Accepts(d, Moved(c, trs)) <=>
                        \A i \in Recorded(trs) : trs[i].token \in DOMAIN d.tokens
                /\ Written(d, Moved(c, trs)) = RecordAll(d, trs)
                /\ FirstMint(trs) = 0 => Result(Moved(c, trs)) = None
                /\ FirstMint(trs) # 0 =>
                        Result(Moved(c, trs)) =
                            [skip  |-> 1,
                             later |-> [type |-> "mint", transfer |-> trs[FirstMint(trs)]]]
  BY DEF Moved, Accepts, Written, Result, Skip

\* With an empty slot an event does just what it does by itself.
LEMMA StepPlain ==
    ASSUME NEW d, NEW ev, Accepts(d, ev)
    PROVE  Steps(d, None, ev, Written(d, ev), Result(ev))
  BY DEF Steps, Ready

----------------------------------------------------------------------------
(* Each message of the chain: its events, worked through at once, leave the *)
(* tables showing the chain as it is after the message.                     *)

\* The types of the chain's parts.
LEMMA ChainType ==
    ASSUME NEW ch \in Chains
    PROVE  /\ ch.owners \in [Entities -> Accounts \cup {None}]
           /\ ch.classes \in Maps(Classes, [class : Entities, names : Entities \cup {None},
                                            lists : Lists])
           /\ ch.classOf \in [Tokens -> Classes \cup {None}]
           /\ ch.held \in [Holdings -> Int]
           /\ ch.minted \in [Holdings -> Nat]
           /\ ch.retired \in [Holdings -> Nat]
  BY DEF Chains

\* The types of a class on the chain.
LEMMA ClassRow ==
    ASSUME NEW ch \in Chains, NEW c \in DOMAIN ch.classes
    PROVE  /\ c \in Classes /\ c # None
           /\ ch.classes[c] \in [class : Entities, names : Entities \cup {None}, lists : Lists]
           /\ ch.classes[c].class \in Entities
           /\ ch.classes[c].lists \in Lists
           /\ ch.classes[c].lists.retired \in Seq(Burn)
           /\ ch.classes[c].lists.cancelled \in Seq(Burn)
           /\ ch.classes = [y \in DOMAIN ch.classes |-> ch.classes[y]]
  <1>1. PICK T : T = [class : Entities, names : Entities \cup {None}, lists : Lists]
    OBVIOUS
  <1>2. PICK cs : cs = ch.classes
    OBVIOUS
  <1>3. cs \in Maps(Classes, T) /\ c \in DOMAIN cs
    BY <1>1, <1>2, ChainType
  <1>4. c \in Classes /\ cs[c] \in T /\ cs = [y \in DOMAIN cs |-> cs[y]]
    BY <1>3, MapsType
  <1>5. cs[c].class \in Entities /\ cs[c].lists \in Lists
    BY <1>1, <1>4
  <1>6. cs[c].lists.retired \in Seq(Burn) /\ cs[c].lists.cancelled \in Seq(Burn)
    BY <1>5 DEF Lists
  <1>7. c # None
    BY <1>4, ParametersAssumption
  <1> QED
    BY <1>1, <1>2, <1>4, <1>5, <1>6, <1>7

\* None is no name of anything.
LEMMA NoneIsNothing ==
    /\ None \notin Entities /\ None \notin Accounts /\ None \notin Classes
    /\ None \notin Waiting
  BY ParametersAssumption, NoneAssumption

\* The owner waits for the document and the entity, and finds the row.
LEMMA CreateEntityPlays ==
    ASSUME NEW blk, IsSeq(blk), NEW d, Ends(blk, d, None), DbOK(d),
           NEW ch \in Chains, NEW lt, Mirrors(d, ch, lt),
           NEW e \in Entities, NEW a \in Accounts, ch.owners[e] = None,
           NEW ch2, ch2 = [ch EXCEPT !.owners[e] = a]
    PROVE  \E d3 : /\ Ends(blk \o <<NftMint(e, a), IidCreated(e), EntityCreated(e)>>, d3, None)
                   /\ Mirrors(d3, ch2, lt)
  <1>1. PICK w1 : w1 = [skip |-> 2, later |-> NftMint(e, a)]
    OBVIOUS
  <1>2. PICK w2 : w2 = [w1 EXCEPT !.skip = @ - 1]
    OBVIOUS
  <1>3. /\ w1.skip = 2 /\ w2.skip = 1 /\ w1.later = NftMint(e, a) /\ w2.later = NftMint(e, a)
        /\ w1 \in Waiting /\ w2 \in Waiting /\ w1 # None /\ w2 # None
    <2>1. NftMint(e, a) \in [type : {"nftMint"}, entity : Entities, owner : Accounts]
      BY DEF NftMint
    <2>2. w2 = [skip |-> 1, later |-> NftMint(e, a)]
      BY <1>1, <1>2
    <2>3. w1 \in Waiting /\ w2 \in Waiting
      BY <1>1, <2>1, <2>2 DEF Waiting
    <2> QED
      BY <1>1, <2>2, <2>3, NoneIsNothing
  <1>4. ~ Ready(w1) /\ Ready(w2)
    BY <1>3 DEF Ready
  <1>5. e \notin d.iids /\ DOMAIN d.owners = d.iids
    BY DEF Mirrors
  <1>6. Steps(d, None, NftMint(e, a), d, w1)
    BY <1>1, NftMintEvent, StepPlain
  <1>7. PICK b1 : b1 = Append(blk, NftMint(e, a))
    OBVIOUS
  <1>8. IsSeq(b1) /\ Ends(b1, d, w1)
    BY <1>3, <1>6, <1>7, EndsAppend, AppendSeq
  <1>9. PICK d1 : d1 = CreateIid(d, e)
    OBVIOUS
  <1>10. /\ DbOK(d1)
         /\ d1.iids = d.iids \cup {e} /\ d1.owners = d.owners /\ d1.classes = d.classes
         /\ d1.tokens = d.tokens /\ \A h : Balance(d1, h) = Balance(d, h)
    BY <1>9, CreateIidEffect
  <1>11. Steps(d, w1, IidCreated(e), d1, w2)
    <2>1. Accepts(d, IidCreated(e)) /\ Written(d, IidCreated(e)) = d1
      BY <1>5, <1>9, IidEvent
    <2> QED
      BY <1>2, <1>3, <1>4, <2>1 DEF Steps
  <1>12. PICK b2 : b2 = Append(b1, IidCreated(e))
    OBVIOUS
  <1>13. IsSeq(b2) /\ Ends(b2, d1, w2)
    BY <1>3, <1>8, <1>10, <1>11, <1>12, EndsAppend, AppendSeq
  <1>14. PICK d2 : d2 = CreateEntity(d1, e)
    OBVIOUS
  <1>15. /\ DbOK(d2)
         /\ d2.iids = d1.iids /\ d2.classes = d1.classes
         /\ d2.tokens = d1.tokens /\ \A h : Balance(d2, h) = Balance(d1, h)
         /\ DOMAIN d2.owners = DOMAIN d1.owners \cup {e}
         /\ \A y \in DOMAIN d1.owners : y # e => d2.owners[y] = d1.owners[y]
    BY <1>10, <1>14, CreateEntityEffect
  <1>16. PICK d3 : d3 = UpdateEntityOwner(d2, e, a)
    OBVIOUS
  <1>17. /\ DbOK(d3)
         /\ d3.iids = d2.iids /\ d3.classes = d2.classes
         /\ d3.tokens = d2.tokens /\ \A h : Balance(d3, h) = Balance(d2, h)
         /\ DOMAIN d3.owners = DOMAIN d2.owners
         /\ d3.owners[e] = a
         /\ \A y \in DOMAIN d2.owners : y # e => d3.owners[y] = d2.owners[y]
    <2>1. e \in DOMAIN d2.owners
      BY <1>15
    <2>2. DbOK(d2)
      BY <1>15
    <2> QED
      BY <2>1, <2>2, <1>16, EntityOwnerEffect
  <1>18. Steps(d1, w2, EntityCreated(e), d3, None)
    <2>1. /\ Accepts(d1, EntityCreated(e)) /\ Written(d1, EntityCreated(e)) = d2
          /\ Result(EntityCreated(e)) = None
      BY <1>5, <1>10, <1>14, EntityEvent
    <2>2. w2.later.type = "nftMint" /\ RunLater(d2, w2.later) = d3
      BY <1>3, <1>16 DEF RunLater, NftMint
    <2> QED
      BY <1>3, <1>4, <2>1, <2>2 DEF Steps
  <1>19. PICK b3 : b3 = Append(b2, EntityCreated(e))
    OBVIOUS
  <1>20. Ends(b3, d3, None)
    BY <1>13, <1>17, <1>18, <1>19, EndsAppend
  <1>21. b3 = blk \o <<NftMint(e, a), IidCreated(e), EntityCreated(e)>>
    BY <1>7, <1>12, <1>19, ConcatThree
  <1>22. /\ ch2.owners \in [Entities -> Accounts \cup {None}] /\ ch2.owners[e] = a
         /\ \A y \in Entities : y # e => ch2.owners[y] = ch.owners[y]
         /\ ch2.classes = ch.classes /\ ch2.classOf = ch.classOf /\ ch2.held = ch.held
         /\ ch2.minted = ch.minted /\ ch2.retired = ch.retired
    BY DEF Chains
  <1>23. Mirrors(d3, ch2, lt)
    <2>1. d3.iids = d.iids \cup {e} /\ DOMAIN d3.owners = d.iids \cup {e}
      BY <1>5, <1>10, <1>15, <1>17
    <2>2. d3.iids = {y \in Entities : ch2.owners[y] # None}
      <3>1. d.iids = {y \in Entities : ch.owners[y] # None}
        BY DEF Mirrors
      <3> QED
        BY <1>22, <2>1, <3>1, NoneIsNothing
    <2>3. \A y \in DOMAIN d3.owners : d3.owners[y] = ch2.owners[y]
      <3>1. ASSUME NEW y \in d.iids, y # e PROVE d3.owners[y] = ch2.owners[y]
        <4>1. d3.owners[y] = d.owners[y]
          BY <1>5, <1>10, <1>15, <1>17, <3>1
        <4>2. d.owners[y] = ch.owners[y] /\ y \in Entities
          BY <1>5, <3>1 DEF Mirrors
        <4> QED
          BY <1>22, <3>1, <4>1, <4>2
      <3> QED
        BY <1>17, <1>22, <2>1, <3>1
    <2>4. d3.classes = d.classes /\ d3.tokens = d.tokens /\ \A h : Balance(d3, h) = Balance(d, h)
      BY <1>10, <1>15, <1>17
    <2> QED
      BY <1>22, <2>1, <2>2, <2>3, <2>4 DEF Mirrors
  <1> QED
    BY <1>20, <1>21, <1>23

\* The new owner is written at once, for the entity has a row.
LEMMA TransferEntityPlays ==
    ASSUME NEW blk, IsSeq(blk), NEW d, Ends(blk, d, None), DbOK(d),
           NEW ch \in Chains, NEW lt, Mirrors(d, ch, lt),
           NEW e \in Entities, NEW a \in Accounts, ch.owners[e] # None,
           NEW ch2, ch2 = [ch EXCEPT !.owners[e] = a]
    PROVE  \E d1 : Ends(blk \o <<NftTransfer(e, a)>>, d1, None) /\ Mirrors(d1, ch2, lt)
  <1>1. e \in DOMAIN d.owners
    BY DEF Mirrors
  <1>2. PICK d1 : d1 = UpdateEntityOwner(d, e, a)
    OBVIOUS
  <1>3. /\ DbOK(d1)
        /\ d1.iids = d.iids /\ d1.classes = d.classes
        /\ d1.tokens = d.tokens /\ \A h : Balance(d1, h) = Balance(d, h)
        /\ DOMAIN d1.owners = DOMAIN d.owners
        /\ d1.owners[e] = a
        /\ \A y \in DOMAIN d.owners : y # e => d1.owners[y] = d.owners[y]
    BY <1>1, <1>2, EntityOwnerEffect
  <1>4. Steps(d, None, NftTransfer(e, a), d1, None)
    BY <1>2, NftTransferEvent, StepPlain
  <1>5. Ends(blk \o <<NftTransfer(e, a)>>, d1, None)
    BY <1>3, <1>4, EndsAppend, ConcatOne
  <1>6. /\ ch2.owners \in [Entities -> Accounts \cup {None}] /\ ch2.owners[e] = a
        /\ \A y \in Entities : y # e => ch2.owners[y] = ch.owners[y]
        /\ ch2.classes = ch.classes /\ ch2.classOf = ch.classOf /\ ch2.held = ch.held
        /\ ch2.minted = ch.minted /\ ch2.retired = ch.retired
    BY DEF Chains
  <1>7. Mirrors(d1, ch2, lt)
    <2>1. d.iids = {y \in Entities : ch.owners[y] # None} /\ DOMAIN d.owners = d.iids
          /\ \A y \in DOMAIN d.owners : d.owners[y] = ch.owners[y]
      BY DEF Mirrors
    <2>2. d1.iids = {y \in Entities : ch2.owners[y] # None}
      BY <1>3, <1>6, <2>1, NoneIsNothing
    <2>3. \A y \in DOMAIN d1.owners : d1.owners[y] = ch2.owners[y]
      BY <1>3, <1>6, <2>1
    <2> QED
      BY <1>3, <1>6, <2>1, <2>2, <2>3 DEF Mirrors
  <1> QED
    BY <1>5, <1>7

\* The class is linked to the entity it names if the chain has that, as it has a
\* row then.
LEMMA CreateTokenPlays ==
    ASSUME NEW blk, IsSeq(blk), NEW d, Ends(blk, d, None), DbOK(d),
           NEW ch \in Chains, NEW lt, Mirrors(d, ch, lt),
           NEW c \in Classes, NEW e \in Entities, c \notin DOMAIN ch.classes,
           NEW x, ch.owners[e] # None => x = e, ch.owners[e] = None => x = None,
           NEW ch2, ch2 = [ch EXCEPT !.classes =
                              Put(@, c, [class |-> e, names |-> x, lists |-> NoLists])]
    PROVE  \E d1 : Ends(blk \o <<ClassCreated(c, e)>>, d1, None) /\ Mirrors(d1, ch2, lt)
  <1>1. /\ c \notin DOMAIN d.classes /\ DOMAIN d.classes = DOMAIN ch.classes
        /\ EntityIdOrNull(d, e) = x
    BY DEF Mirrors, EntityIdOrNull
  <1>2. PICK d1 : d1 = CreateTokenClass(d, c, e)
    OBVIOUS
  <1>3. /\ DbOK(d1)
        /\ d1.iids = d.iids /\ d1.owners = d.owners
        /\ d1.tokens = d.tokens /\ \A h : Balance(d1, h) = Balance(d, h)
        /\ DOMAIN d1.classes = DOMAIN d.classes \cup {c}
        /\ d1.classes[c] = [names |-> EntityIdOrNull(d, e), lists |-> NoLists]
        /\ \A y \in DOMAIN d.classes : y # c => d1.classes[y] = d.classes[y]
    BY <1>2, CreateTokenClassEffect
  <1>4. Steps(d, None, ClassCreated(c, e), d1, None)
    BY <1>1, <1>2, ClassEvent, StepPlain
  <1>5. Ends(blk \o <<ClassCreated(c, e)>>, d1, None)
    BY <1>3, <1>4, EndsAppend, ConcatOne
  <1>6. PICK row : row = [class |-> e, names |-> x, lists |-> NoLists]
    OBVIOUS
  <1>7. /\ ch2.owners = ch.owners /\ ch2.classes = Put(ch.classes, c, row)
        /\ ch2.classOf = ch.classOf /\ ch2.held = ch.held
        /\ ch2.minted = ch.minted /\ ch2.retired = ch.retired
    BY <1>6 DEF Chains
  <1>8. /\ DOMAIN ch2.classes = DOMAIN ch.classes \cup {c} /\ ch2.classes[c] = row
        /\ \A y \in DOMAIN ch.classes : y # c => ch2.classes[y] = ch.classes[y]
    BY <1>7 DEF Put
  <1>9. \A y \in DOMAIN d1.classes : /\ d1.classes[y].names = ch2.classes[y].names
                                     /\ d1.classes[y].lists = ch2.classes[y].lists
    <2>1. ASSUME NEW y \in DOMAIN d.classes, y # c
          PROVE  /\ d1.classes[y].names = ch2.classes[y].names
                 /\ d1.classes[y].lists = ch2.classes[y].lists
      <3>1. d1.classes[y] = d.classes[y] /\ ch2.classes[y] = ch.classes[y]
        BY <1>1, <1>3, <1>8, <2>1
      <3> QED
        BY <3>1 DEF Mirrors
    <2>2. /\ d1.classes[c].names = ch2.classes[c].names
          /\ d1.classes[c].lists = ch2.classes[c].lists
      BY <1>1, <1>3, <1>6, <1>8
    <2> QED
      BY <1>3, <2>1, <2>2
  <1>10. Mirrors(d1, ch2, lt)
    <2>1. DOMAIN d1.classes = DOMAIN ch2.classes
      BY <1>1, <1>3, <1>8
    <2>2. /\ d.iids = {y \in Entities : ch.owners[y] # None}
          /\ DOMAIN d.owners = d.iids
          /\ \A y \in DOMAIN d.owners : d.owners[y] = ch.owners[y]
          /\ DOMAIN d.tokens = {t \in Tokens : ch.classOf[t] # None}
          /\ \A t \in DOMAIN d.tokens : d.tokens[t] = ch.classOf[t]
      BY DEF Mirrors
    <2>3. \A h \in Holdings : h[2] \notin lt =>
            Balance(d1, h) = [amount  |-> ch2.held[h],
                              minted  |-> ch2.minted[h],
                              retired |-> ch2.retired[h]]
      BY <1>3, <1>7 DEF Mirrors
    <2>4. /\ d1.iids = {y \in Entities : ch2.owners[y] # None}
          /\ DOMAIN d1.owners = d1.iids
          /\ \A y \in DOMAIN d1.owners : d1.owners[y] = ch2.owners[y]
          /\ DOMAIN d1.tokens = {t \in Tokens : ch2.classOf[t] # None}
          /\ \A t \in DOMAIN d1.tokens : d1.tokens[t] = ch2.classOf[t]
      BY <1>3, <1>7, <2>2
    <2> QED
      BY <1>9, <2>1, <2>3, <2>4 DEF Mirrors
  <1> QED
    BY <1>5, <1>10

\* The chain after a token was minted ...
AfterMint(ch, c, t, a, n, ch2) ==
    ch2 = [ch EXCEPT !.classOf[t] = c, !.held[<<a, t>>] = n, !.minted[<<a, t>>] = n]

\* ... and after tokens were moved.
AfterTransfer(ch, a, b, S, n, ch2) ==
    ch2 = [ch EXCEPT !.held =
            [h \in Holdings |-> @[h]
                - (IF h[2] \in S /\ h[1] = a THEN n ELSE 0)
                + (IF h[2] \in S /\ h[1] = b THEN n ELSE 0)]]

\* The mint waits for the token; that of a class not known yet is lost, but its
\* token is late.
LEMMA MintPlays ==
    ASSUME NEW blk, IsSeq(blk), NEW d, Ends(blk, d, None), DbOK(d),
           NEW ch \in Chains, NEW lt, Mirrors(d, ch, lt),
           NEW c \in Classes, NEW t \in Tokens, NEW a \in Accounts, NEW n \in MintAmounts,
           c \in DOMAIN ch.classes, ch.classOf[t] = None, Unminted(ch),
           NEW lt2, lt \subseteq lt2, ~ KnownClass(c) => t \in lt2,
           NEW ch2, AfterMint(ch, c, t, a, n, ch2)
    PROVE  \E d2 : /\ Ends(blk \o <<Moved(c, <<Transfer(None, a, n, t)>>), TokenMinted(t, c)>>,
                           d2, None)
                   /\ Mirrors(d2, ch2, lt2)
  <1>1. PICK tr : tr = Transfer(None, a, n, t)
    OBVIOUS
  <1>2. /\ tr \in Transfers /\ tr.from = None /\ tr.to = a /\ tr.amount = n /\ tr.token = t
        /\ n \in Nat /\ a # None
    BY <1>1, ParametersAssumption DEF Transfer, Transfers
  <1>3. PICK trs : trs = <<tr>>
    OBVIOUS
  <1>4. /\ FirstMint(trs) = 1 /\ Reached(trs) = 0 /\ Recorded(trs) = {}
    <2>1. Len(trs) = 1 /\ trs[1] = tr
      BY <1>3
    <2>2. {i \in 1..Len(trs) : trs[i].from = None /\ trs[i].to # None} = {1}
      BY <1>2, <2>1
    <2>3. FirstMint(trs) = 1
      BY <2>2 DEF FirstMint, SelectInSeq, Min
    <2> QED
      BY <2>3 DEF Reached, Recorded
  <1>5. RecordAll(d, trs) = d
    <2>1. PICK f : Unfolds(f, d, trs, 0) /\ RecordAll(d, trs) = f[0]
      BY <1>4, RecordAllUnfolds
    <2> QED
      BY <2>1 DEF Unfolds
  <1>6. PICK w1 : w1 = IF KnownClass(c)
                       THEN [skip |-> 1, later |-> [type |-> "mint", transfer |-> tr]]
                       ELSE None
    OBVIOUS
  <1>7. w1 \in Waiting \cup {None}
    <2>1. tr \in [from : {None}, to : Accounts, amount : MintAmounts, token : Tokens]
      BY <1>1 DEF Transfer
    <2> QED
      BY <1>6, <2>1 DEF Waiting
  <1>8. Steps(d, None, Moved(c, trs), d, w1)
    <2>1. Accepts(d, Moved(c, trs)) /\ Written(d, Moved(c, trs)) = d
      BY <1>4, <1>5, MovedEvent
    <2>2. trs[1] = tr
      BY <1>3
    <2>3. Result(Moved(c, trs)) = w1
      <3>1. CASE KnownClass(c)
        <4>1. Result(Moved(c, trs)) =
                [skip  |-> 1,
                 later |-> [type |-> "mint", transfer |-> trs[FirstMint(trs)]]]
          <5>1. FirstMint(trs) # 0
            BY <1>4
          <5> QED
            BY <3>1, <5>1 DEF Moved, Result, Skip
        <4> QED
          BY <1>4, <1>6, <2>2, <3>1, <4>1
      <3>2. CASE ~ KnownClass(c)
        BY <1>6, <3>2, MovedEvent
      <3> QED
        BY <3>1, <3>2
    <2> QED
      BY <2>1, <2>3, StepPlain
  <1>9. PICK b1 : b1 = Append(blk, Moved(c, trs))
    OBVIOUS
  <1>10. IsSeq(b1) /\ Ends(b1, d, w1)
    BY <1>7, <1>8, <1>9, EndsAppend, AppendSeq
  <1>11. PICK d1 : d1 = CreateToken(d, t, c)
    OBVIOUS
  <1>12. /\ DbOK(d1)
         /\ d1.iids = d.iids /\ d1.owners = d.owners /\ d1.classes = d.classes
         /\ \A h : Balance(d1, h) = Balance(d, h)
         /\ DOMAIN d1.tokens = DOMAIN d.tokens \cup {t}
         /\ d1.tokens[t] = c
         /\ \A y \in DOMAIN d.tokens : y # t => d1.tokens[y] = d.tokens[y]
    BY <1>11, CreateTokenEffect
  <1>13. PICK d2 : d2 = IF KnownClass(c) THEN CreateTokenTransaction(d1, tr) ELSE d1
    OBVIOUS
  <1>14. /\ DbOK(d2) /\ SameRows(d2, d1)
         /\ \A h \in Holdings : Balance(d2, h) =
                IF KnownClass(c) /\ h[2] = t
                THEN Shifted(Balance(d, h), h[1], None, a, n)
                ELSE Balance(d, h)
    <2>1. CASE KnownClass(c)
      <3>1. Moves(d1, tr, d2)
        BY <1>2, <1>12, <1>13, <2>1, TransactionMoves
      <3> QED
        BY <1>2, <1>12, <2>1, <3>1 DEF Moves
    <2>2. CASE ~ KnownClass(c)
      BY <1>12, <1>13, <2>2 DEF SameRows
    <2> QED
      BY <2>1, <2>2
  <1>15. Steps(d, w1, TokenMinted(t, c), d2, None)
    <2>1. t \notin DOMAIN d.tokens /\ c \in DOMAIN d.classes
      BY DEF Mirrors
    <2>2. /\ Accepts(d, TokenMinted(t, c)) /\ Written(d, TokenMinted(t, c)) = d1
          /\ Result(TokenMinted(t, c)) = None
      BY <1>11, <2>1, TokenEvent
    <2>3. CASE KnownClass(c)
      <3>0. w1 = [skip |-> 1, later |-> [type |-> "mint", transfer |-> tr]]
        BY <1>6, <2>3
      <3>1. /\ w1.skip = 1 /\ w1.later.type = "mint" /\ w1.later.transfer = tr
            /\ w1 # None
        <4>1. w1 \in Waiting
          <5>1. tr \in [from : {None}, to : Accounts, amount : MintAmounts, token : Tokens]
            BY <1>1 DEF Transfer
          <5> QED
            BY <3>0, <5>1 DEF Waiting
        <4> QED
          BY <3>0, <4>1, NoneIsNothing
      <3>2. Ready(w1)
        BY <3>1 DEF Ready
      <3>3. RunLater(d1, w1.later) = d2
        BY <1>13, <2>3, <3>1 DEF RunLater
      <3>4. w1.later.transfer.token \in DOMAIN Written(d, TokenMinted(t, c)).tokens
        BY <1>2, <1>12, <2>2, <3>1
      <3> QED
        BY <2>2, <3>1, <3>2, <3>3, <3>4 DEF Steps
    <2>4. CASE ~ KnownClass(c)
      <3>1. w1 = None /\ d2 = d1
        BY <1>6, <1>13, <2>4
      <3> QED
        BY <2>2, <3>1 DEF Steps, Ready
    <2> QED
      BY <2>3, <2>4
  <1>16. Ends(blk \o <<Moved(c, trs), TokenMinted(t, c)>>, d2, None)
    <2>1. Ends(Append(b1, TokenMinted(t, c)), d2, None)
      BY <1>10, <1>14, <1>15, EndsAppend
    <2>2. PICK x, y : x = Moved(c, trs) /\ y = TokenMinted(t, c)
      OBVIOUS
    <2>3. blk \o <<x, y>> = Append(Append(blk, x), y)
      BY ConcatTwo
    <2> QED
      BY <1>9, <2>1, <2>2, <2>3
  <1>17. <<a, t>> \in Holdings
    BY DEF Holdings
  <1>18. /\ ch2.owners = ch.owners /\ ch2.classes = ch.classes /\ ch2.retired = ch.retired
         /\ ch2.classOf[t] = c /\ \A y \in Tokens : y # t => ch2.classOf[y] = ch.classOf[y]
         /\ \A h \in Holdings :
                /\ ch2.held[h] = IF h = <<a, t>> THEN n ELSE ch.held[h]
                /\ ch2.minted[h] = IF h = <<a, t>> THEN n ELSE ch.minted[h]
    BY <1>17 DEF Chains, AfterMint
  <1>19. Mirrors(d2, ch2, lt2)
    <2>1. /\ DOMAIN d.tokens = {y \in Tokens : ch.classOf[y] # None}
          /\ \A y \in DOMAIN d.tokens : d.tokens[y] = ch.classOf[y]
      BY DEF Mirrors
    <2>2. /\ DOMAIN d2.tokens = {y \in Tokens : ch2.classOf[y] # None}
          /\ \A y \in DOMAIN d2.tokens : d2.tokens[y] = ch2.classOf[y]
      <3>1. d2.tokens = d1.tokens
        BY <1>14 DEF SameRows
      <3>2. c # None
        BY NoneIsNothing
      <3> QED
        BY <1>12, <1>18, <2>1, <3>1, <3>2
    <2>3. ASSUME NEW h \in Holdings, h[2] \notin lt2
          PROVE  Balance(d2, h) = [amount  |-> ch2.held[h],
                                   minted  |-> ch2.minted[h],
                                   retired |-> ch2.retired[h]]
      <3>1. Balance(d, h) = [amount  |-> ch.held[h],
                             minted  |-> ch.minted[h],
                             retired |-> ch.retired[h]]
        BY <2>3 DEF Mirrors
      <3>2. h[1] \in Accounts /\ h = <<h[1], h[2]>> /\ h[1] # None
        BY HoldingIsPair
      <3>3. CASE h[2] # t
        <4>1. h # <<a, t>>
          BY <3>2, <3>3
        <4> QED
          BY <1>14, <1>18, <3>1, <3>3, <4>1
      <3>4. CASE h[2] = t
        <4>1. KnownClass(c)
          BY <2>3, <3>4
        <4>2. Balance(d, h) = [amount |-> 0, minted |-> 0, retired |-> 0]
          BY <3>1, <3>4 DEF Unminted
        <4>3. Balance(d2, h) = Shifted(Balance(d, h), h[1], None, a, n)
          BY <1>14, <3>4, <4>1
        <4>4. h = <<a, t>> <=> a = h[1]
          BY <3>2, <3>4
        <4>5. Shifted(Balance(d, h), h[1], None, a, n) =
                [amount  |-> 0 + (IF a = h[1] THEN n ELSE 0) - 0,
                 minted  |-> 0 + (IF a = h[1] THEN n ELSE 0),
                 retired |-> 0 + 0]
          BY <3>2, <4>2, <1>2 DEF Shifted
        <4>6. ch.held[h] = 0 /\ ch.minted[h] = 0 /\ ch.retired[h] = 0
          BY <3>4 DEF Unminted
        <4> QED
          BY <1>2, <1>18, <4>3, <4>4, <4>5, <4>6
      <3> QED
        BY <3>3, <3>4
    <2> QED
      BY <1>12, <1>14, <1>18, <2>2, <2>3 DEF Mirrors, SameRows
  <1> QED
    BY <1>1, <1>3, <1>16, <1>19

\* A batch of transfers changes the balances of the tokens it names.  A class
\* that is not known yet leaves them as they are, but all its tokens are late.
BatchStep(d, c, trs, a, b, n, lt, e) ==
    /\ Steps(d, None, Moved(c, trs), e, None)
    /\ DbOK(e) /\ SameRows(e, d)
    /\ \A h \in Holdings : h[2] \notin lt =>
            Balance(e, h) = IF h[2] \in TokensOf(trs)
                            THEN Shifted(Balance(d, h), h[1], a, b, n)
                            ELSE Balance(d, h)

\* Every batch can be worked through.
LEMMA BatchSteps ==
    ASSUME NEW d, DbOK(d), NEW c, NEW trs, NEW a, NEW b, NEW n \in Nat, a # None,
           Batch(trs, a, b, n), TokensOf(trs) \subseteq DOMAIN d.tokens,
           NEW lt, ~ KnownClass(c) => TokensOf(trs) \subseteq lt
    PROVE  \E e : BatchStep(d, c, trs, a, b, n, lt, e)
  <1>1. CASE KnownClass(c)
    <2>1. PICK e : e = RecordAll(d, trs)
      OBVIOUS
    <2>2. Batched(d, trs, a, b, n, e)
      BY <2>1, BatchEffect
    <2>3. /\ Len(trs) \in Nat
          /\ \A i \in 1..Len(trs) : trs[i].from # None
      BY DEF Batch
    <2>4. FirstMint(trs) = 0 /\ Recorded(trs) \subseteq 1..Len(trs)
      BY <2>3, NoMintReached
    <2>5. \A i \in Recorded(trs) : trs[i].token \in DOMAIN d.tokens
      BY <2>4 DEF TokensOf
    <2>6. /\ Accepts(d, Moved(c, trs)) /\ Written(d, Moved(c, trs)) = e
          /\ Result(Moved(c, trs)) = None
      BY <1>1, <2>1, <2>4, <2>5, MovedEvent
    <2>7. Steps(d, None, Moved(c, trs), e, None)
      BY <2>6, StepPlain
    <2> QED
      BY <2>2, <2>7 DEF Batched, BatchStep
  <1>2. CASE ~ KnownClass(c)
    <2>1. /\ Accepts(d, Moved(c, trs)) /\ Written(d, Moved(c, trs)) = d
          /\ Result(Moved(c, trs)) = None
      BY <1>2, MovedEvent
    <2>2. Steps(d, None, Moved(c, trs), d, None)
      BY <2>1, StepPlain
    <2> QED
      BY <1>2, <2>2 DEF SameRows, BatchStep
  <1> QED
    BY <1>1, <1>2

\* The transfers of one message are such a batch.
LEMMA BatchOfSet ==
    ASSUME NEW a \in Accounts, NEW b \in Accounts, NEW n \in Amounts, NEW S \in SUBSET Tokens,
           NEW trs, trs = SetToSeq({Transfer(a, b, n, t) : t \in S})
    PROVE  Batch(trs, a, b, n) /\ TokensOf(trs) = S
  <1>1. PICK T : T = {Transfer(a, b, n, t) : t \in S}
    OBVIOUS
  <1>2. IsFiniteSet(S)
    BY ParametersAssumption, FS_Subset
  <1>3. PICK g : g = [t \in S |-> Transfer(a, b, n, t)]
    OBVIOUS
  <1>4. g \in Surjection(S, T)
    BY <1>1, <1>3 DEF Surjection
  <1>5. IsFiniteSet(T)
    BY <1>2, <1>4, FS_Surjection
  <1>6. Cardinality(T) \in Nat /\ ExistsBijection(1..Cardinality(T), T)
    BY <1>5, FS_CardinalityType
  <1>7. PICK f : f \in Bijection(1..Cardinality(T), T)
    BY <1>6 DEF ExistsBijection
  <1>8. f \in [1..Cardinality(T) -> T] /\ IsInjective(f)
    BY <1>7 DEF Bijection, Injection
  <1>9. trs \in [1..Cardinality(T) -> T] /\ IsInjective(trs)
    BY <1>1, <1>8 DEF SetToSeq
  <1>10. trs \in Surjection(1..Cardinality(T), T)
    <2>1. trs \in Injection(1..Cardinality(T), T)
      BY <1>9 DEF Injection
    <2>2. IsFiniteSet(1..Cardinality(T)) /\ Cardinality(1..Cardinality(T)) = Cardinality(T)
      BY <1>6, FS_Interval
    <2> QED
      BY <1>5, <2>1, <2>2, FS_Injection
  <1>11. /\ Len(trs) = Cardinality(T) /\ Len(trs) \in Nat
         /\ \A i \in 1..Len(trs) : trs[i] \in T
         /\ trs \in Seq(T)
    <2>1. PICK m : m = Cardinality(T)
      OBVIOUS
    <2>2. m \in Nat /\ trs \in [1..m -> T]
      BY <1>6, <1>9, <2>1
    <2>3. trs \in Seq(T) /\ Len(trs) = m /\ \A i \in 1..m : trs[i] \in T
      BY ONLY <2>2
    <2> QED
      BY ONLY <2>1, <2>2, <2>3
  <1>12. ASSUME NEW t \in S
         PROVE  /\ Transfer(a, b, n, t) \in Transfers
                /\ Transfer(a, b, n, t).from = a /\ Transfer(a, b, n, t).to = b
                /\ Transfer(a, b, n, t).amount = n /\ Transfer(a, b, n, t).token = t
    BY DEF Transfer, Transfers
  <1>13. \A i \in 1..Len(trs) : \E t \in S : trs[i] = Transfer(a, b, n, t)
    BY <1>1, <1>11
  <1>14. \A i \in 1..Len(trs) : /\ trs[i] \in Transfers /\ trs[i].from = a /\ trs[i].to = b
                                /\ trs[i].amount = n /\ trs[i].token \in S
                                /\ trs[i] = Transfer(a, b, n, trs[i].token)
    BY <1>12, <1>13
  <1>15. trs \in Seq(Transfers)
    BY <1>11, <1>14
  <1>16. ASSUME NEW i \in 1..Len(trs), NEW j \in 1..Len(trs), trs[i].token = trs[j].token
         PROVE  i = j
    <2>1. trs[i] = trs[j]
      BY <1>14, <1>16
    <2>2. DOMAIN trs = 1..Len(trs)
      BY <1>11
    <2> QED
      BY <1>9, <2>1, <2>2 DEF IsInjective
  <1>17. Batch(trs, a, b, n)
    BY <1>14, <1>15, <1>16 DEF Batch
  <1>18. ASSUME NEW t \in S PROVE t \in TokensOf(trs)
    <2>1. Transfer(a, b, n, t) \in T
      BY <1>1
    <2>2. PICK i \in 1..Cardinality(T) : trs[i] = Transfer(a, b, n, t)
      BY <1>10, <2>1 DEF Surjection
    <2> QED
      BY <1>11, <1>12, <2>2 DEF TokensOf
  <1>19. TokensOf(trs) \subseteq S
    BY <1>14 DEF TokensOf
  <1> QED
    BY <1>17, <1>18, <1>19

\* The transfers of a message.
BatchOf(a, b, S, n) == SetToSeq({Transfer(a, b, n, t) : t \in S})

\* Every token of the batch moves, a transfer to oneself changes nothing.
LEMMA TransferTokenPlays ==
    ASSUME NEW blk, IsSeq(blk), NEW d, Ends(blk, d, None), DbOK(d),
           NEW ch \in Chains, NEW lt, Mirrors(d, ch, lt),
           NEW c \in Classes, NEW a \in Accounts, NEW b \in Accounts,
           NEW S \in SUBSET Tokens, NEW n \in Amounts,
           \A t \in S : ch.classOf[t] = c, ~ KnownClass(c) => S \subseteq lt,
           NEW ch2, AfterTransfer(ch, a, b, S, n, ch2)
    PROVE  \E e : /\ Ends(blk \o <<Moved(c, BatchOf(a, b, S, n))>>, e, None)
                  /\ Mirrors(e, ch2, lt)
  <1>1. PICK trs : trs = BatchOf(a, b, S, n)
    OBVIOUS
  <1>2. Batch(trs, a, b, n) /\ TokensOf(trs) = S
    BY <1>1, BatchOfSet DEF BatchOf
  <1>3. n \in Nat /\ a # None /\ b # None
    BY ParametersAssumption
  <1>4. S \subseteq DOMAIN d.tokens
    BY NoneIsNothing DEF Mirrors
  <1>5. PICK e : BatchStep(d, c, trs, a, b, n, lt, e)
    <2>1. /\ TokensOf(trs) \subseteq DOMAIN d.tokens
          /\ ~ KnownClass(c) => TokensOf(trs) \subseteq lt
      BY <1>2, <1>4
    <2> QED
      BY <1>2, <1>3, <2>1, BatchSteps
  <1>5a. /\ Steps(d, None, Moved(c, trs), e, None) /\ DbOK(e) /\ SameRows(e, d)
         /\ \A h \in Holdings : h[2] \notin lt =>
                Balance(e, h) = IF h[2] \in S THEN Shifted(Balance(d, h), h[1], a, b, n)
                                ELSE Balance(d, h)
    BY <1>2, <1>5 DEF BatchStep
  <1>6. Ends(blk \o <<Moved(c, trs)>>, e, None)
    BY <1>5a, EndsAppend, ConcatOne
  <1>7. /\ ch2.owners = ch.owners /\ ch2.classes = ch.classes /\ ch2.classOf = ch.classOf
        /\ ch2.minted = ch.minted /\ ch2.retired = ch.retired
        /\ \A h \in Holdings :
                ch2.held[h] = ch.held[h] - (IF h[2] \in S /\ h[1] = a THEN n ELSE 0)
                                         + (IF h[2] \in S /\ h[1] = b THEN n ELSE 0)
    BY DEF Chains, AfterTransfer
  <1>8. ASSUME NEW h \in Holdings, h[2] \notin lt
        PROVE  Balance(e, h) = [amount  |-> ch2.held[h],
                                minted  |-> ch2.minted[h],
                                retired |-> ch2.retired[h]]
    <2>1. PICK p, m, r : p = ch.held[h] /\ m = ch.minted[h] /\ r = ch.retired[h]
      OBVIOUS
    <2>2. p \in Int /\ m \in Nat /\ r \in Nat
      BY <2>1, ChainType
    <2>3. Balance(d, h) = [amount |-> p, minted |-> m, retired |-> r]
      BY <1>8, <2>1 DEF Mirrors
    <2>4. h[1] # None
      BY HoldingIsPair
    <2>5. CASE h[2] \in S
      <3>1. Balance(e, h) = Shifted(Balance(d, h), h[1], a, b, n)
        BY <1>5a, <1>8, <2>5
      <3>2. Shifted(Balance(d, h), h[1], a, b, n) =
              [amount  |-> p + (IF b = h[1] THEN n ELSE 0) - (IF a = h[1] THEN n ELSE 0),
               minted  |-> m + 0,
               retired |-> r + 0]
        BY <1>3, <2>3 DEF Shifted
      <3>3. ch2.held[h] = p + (IF b = h[1] THEN n ELSE 0) - (IF a = h[1] THEN n ELSE 0)
        BY <1>3, <1>7, <2>1, <2>2, <2>5
      <3> QED
        BY <1>7, <2>1, <2>2, <3>1, <3>2, <3>3
    <2>6. CASE h[2] \notin S
      <3>1. ch2.held[h] = p
        BY <1>7, <2>1, <2>2, <2>6
      <3> QED
        BY <1>5a, <1>7, <1>8, <2>1, <2>3, <2>6, <3>1
    <2> QED
      BY <2>5, <2>6
  <1>9. Mirrors(e, ch2, lt)
    <2>1. /\ e.iids = d.iids /\ e.owners = d.owners /\ e.classes = d.classes
          /\ e.tokens = d.tokens
      BY <1>5a DEF SameRows
    <2> QED
      BY <1>7, <1>8, <2>1 DEF Mirrors
  <1> QED
    BY <1>1, <1>6, <1>9

\* An action that moves nothing writes nothing.
LEMMA ApprovePlays ==
    ASSUME NEW blk, IsSeq(blk), NEW d, Ends(blk, d, None), DbOK(d), NEW c
    PROVE  Ends(blk \o <<Moved(c, << [from |-> None, to |-> None] >>)>>, d, None)
  <1>1. PICK trs : trs = << [from |-> None, to |-> None] >>
    OBVIOUS
  <1>2. Len(trs) = 1 /\ trs[1].from = None /\ trs[1].to = None
    BY <1>1
  <1>3. /\ FirstMint(trs) = 0 /\ Reached(trs) = 1 /\ Recorded(trs) = {}
    <2>1. \A i \in 1..Len(trs) : trs[i].from = None /\ trs[i].to = None
      BY <1>2
    <2>2. /\ FirstMint(trs) = 0 /\ Reached(trs) = Len(trs)
          /\ Recorded(trs) = {i \in 1..Len(trs) : trs[i].from # trs[i].to}
      BY <1>2, <2>1, NoMintReached
    <2> QED
      BY <1>2, <2>1, <2>2
  <1>4. RecordAll(d, trs) = d
    <2>1. PICK f : Unfolds(f, d, trs, 1) /\ RecordAll(d, trs) = f[1]
      BY <1>3, RecordAllUnfolds
    <2>2. \A i \in 0..1 : f[i] = IF i = 0 THEN d ELSE f[i - 1]
      BY <1>3, <2>1 DEF Unfolds
    <2> QED
      BY <2>1, <2>2
  <1>5. /\ Accepts(d, Moved(c, trs)) /\ Written(d, Moved(c, trs)) = d
        /\ Result(Moved(c, trs)) = None
    BY <1>3, <1>4, MovedEvent
  <1>6. Steps(d, None, Moved(c, trs), d, None)
    BY <1>5, StepPlain
  <1> QED
    BY <1>1, <1>6, EndsAppend, ConcatOne

\* A class's lists with one burn more.
OneMore(old, list, b, lists) == lists = [old EXCEPT ![list] = Append(@, b)]

\* Its two lists, of which one is what it was and none becomes empty.
LEMMA ListsAppend ==
    ASSUME NEW old \in Lists, NEW list \in {"retired", "cancelled"}, NEW b \in Burn,
           NEW lists, OneMore(old, list, b, lists)
    PROVE  /\ lists \in Lists
           /\ list = "retired" =>
                /\ lists.retired = Append(old.retired, b)
                /\ lists.cancelled = old.cancelled
           /\ list = "cancelled" =>
                /\ lists.cancelled = Append(old.cancelled, b)
                /\ lists.retired = old.retired
           /\ lists.retired = << >> => old.retired = << >>
           /\ lists.cancelled = << >> => old.cancelled = << >>
  <1>1. PICK r, c : r = old.retired /\ c = old.cancelled
    OBVIOUS
  <1>2. /\ r \in Seq(Burn) /\ c \in Seq(Burn)
        /\ old = [retired |-> r, cancelled |-> c]
    BY <1>1 DEF Lists
  <1>3. PICK r2, c2 : r2 = Append(r, b) /\ c2 = Append(c, b)
    OBVIOUS
  <1>4. r2 \in Seq(Burn) /\ c2 \in Seq(Burn) /\ r2 # << >> /\ c2 # << >>
    BY <1>2, <1>3
  <1>5. CASE list = "retired"
    <2>1. lists = [retired |-> r2, cancelled |-> c]
      BY <1>1, <1>2, <1>3, <1>5 DEF OneMore
    <2> QED
      BY <1>1, <1>2, <1>3, <1>4, <1>5, <2>1 DEF Lists
  <1>6. CASE list = "cancelled"
    <2>1. lists = [retired |-> r, cancelled |-> c2]
      BY <1>1, <1>2, <1>3, <1>6 DEF OneMore
    <2> QED
      BY <1>1, <1>2, <1>3, <1>4, <1>6, <2>1 DEF Lists
  <1> QED
    BY <1>5, <1>6

\* An empty list burns nothing.
LEMMA BurntNone ==
    ASSUME NEW h
    PROVE  BurntOf(<< >>, h) = 0
  <1>1. PICK e : e = << >>
    OBVIOUS
  <1>2. DOMAIN e = {}
    BY <1>1
  <1>3. PICK f : f = [i \in DOMAIN e |->
                        IF <<e[i].owner, e[i].token>> = h THEN e[i].amount ELSE 0]
    OBVIOUS
  <1>4. DOMAIN f = {}
    BY <1>2, <1>3
  <1>5. SumFunction(f) = 0
    BY <1>4, SumEmpty DEF SumFunction
  <1> QED
    BY <1>1, <1>3, <1>5 DEF BurntOf

\* A list burns one amount more when one is appended.
LEMMA BurntAppend ==
    ASSUME NEW s \in Seq(Burn), NEW b \in Burn, NEW h
    PROVE  /\ BurntOf(s, h) \in Int
           /\ BurntOf(Append(s, b), h) =
                BurntOf(s, h) + (IF <<b.owner, b.token>> = h THEN b.amount ELSE 0)
  <1>1. PICK s2 : s2 = Append(s, b)
    OBVIOUS
  <1>2. PICK n : n = Len(s)
    OBVIOUS
  <1>3. /\ n \in Nat /\ DOMAIN s = 1..n /\ \A i \in 1..n : s[i] \in Burn
        /\ DOMAIN s2 = 1..(n + 1) /\ \A i \in 1..n : s2[i] = s[i]
        /\ s2[n + 1] = b
    BY <1>1, <1>2
  <1>4. \A x \in Burn : x.amount \in Int
    BY ParametersAssumption DEF Burn
  <1>5. PICK f : f = [i \in DOMAIN s |->
                        IF <<s[i].owner, s[i].token>> = h THEN s[i].amount ELSE 0]
    OBVIOUS
  <1>6. PICK g : g = [i \in DOMAIN s2 |->
                        IF <<s2[i].owner, s2[i].token>> = h THEN s2[i].amount ELSE 0]
    OBVIOUS
  <1>7. IntValued(f, 1..n) /\ DOMAIN f = 1..n
    BY <1>3, <1>4, <1>5 DEF IntValued
  <1>8. \A i \in 1..n : f[i] = g[i]
    BY <1>3, <1>5, <1>6
  <1>9. IntValued(g, 1..n) /\ DOMAIN g = 1..(n + 1)
    BY <1>3, <1>6, <1>7, <1>8 DEF IntValued
  <1>10. PICK R : R = 1..n
    OBVIOUS
  <1>11. IsFiniteSet(R) /\ n + 1 \notin R /\ R \cup {n + 1} = 1..(n + 1)
    <2>1. IsFiniteSet(1..n)
      BY <1>3, FS_Interval
    <2> QED
      BY <1>3, <1>10, <2>1
  <1>12. g[n + 1] = IF <<b.owner, b.token>> = h THEN b.amount ELSE 0
    BY <1>3, <1>6
  <1>13. g[n + 1] \in Int
    BY <1>4, <1>12
  <1>14. SumFunctionOnSet(f, R) = SumFunctionOnSet(g, R)
    BY <1>7, <1>8, <1>9, <1>10, <1>11, SumCongruence
  <1>15. SumFunctionOnSet(f, R) \in Int
    BY <1>7, <1>10, <1>11, SumInt
  <1>16. SumFunctionOnSet(g, R \cup {n + 1}) = g[n + 1] + SumFunctionOnSet(g, R)
    BY <1>9, <1>10, <1>11, <1>13, SumAdd
  <1>17. BurntOf(s, h) = SumFunctionOnSet(f, R)
    BY <1>5, <1>7, <1>10 DEF BurntOf, SumFunction
  <1>18. BurntOf(s2, h) = SumFunctionOnSet(g, R \cup {n + 1})
    BY <1>6, <1>9, <1>11 DEF BurntOf, SumFunction
  <1> QED
    BY <1>1, <1>12, <1>13, <1>14, <1>15, <1>16, <1>17, <1>18

\* A burn is a batch of one transfer, to nobody.
LEMMA BatchOfOne ==
    ASSUME NEW a \in Accounts, NEW n \in Amounts, NEW t \in Tokens,
           NEW trs, trs = <<Transfer(a, None, n, t)>>
    PROVE  Batch(trs, a, None, n) /\ TokensOf(trs) = {t}
  <1>1. PICK r : r = Transfer(a, None, n, t)
    OBVIOUS
  <1>2. /\ r \in Transfers /\ r.from = a /\ r.to = None /\ r.amount = n /\ r.token = t
    BY <1>1 DEF Transfer, Transfers
  <1>3. Len(trs) = 1 /\ trs[1] = r /\ trs \in Seq(Transfers)
    BY <1>1, <1>2
  <1> QED
    BY <1>2, <1>3 DEF Batch, TokensOf

\* The chain after tokens were burnt, as the message puts it, ...
AfterBurn(ch, c, t, a, n, lists, x, ch2) ==
    ch2 = [ch EXCEPT !.held[<<a, t>>] = @ - n,
                     !.retired[<<a, t>>] = @ + n,
                     !.classes[c].lists = lists,
                     !.classes[c].names = x]

\* ... and part by part.
BurnParts(ch, c, t, a, n, lists, x, ch2) ==
    /\ ch2.owners = ch.owners /\ ch2.classOf = ch.classOf /\ ch2.minted = ch.minted
    /\ ch2.held = [ch.held EXCEPT ![<<a, t>>] = @ - n]
    /\ ch2.retired = [ch.retired EXCEPT ![<<a, t>>] = @ + n]
    /\ ch2.classes =
            [ch.classes EXCEPT ![c] = [class |-> @.class, names |-> x, lists |-> lists]]

\* They are what the message makes of it.
LEMMA AfterBurnIs ==
    ASSUME NEW ch \in Chains, NEW c \in DOMAIN ch.classes, NEW t, NEW a, NEW n, NEW lists, NEW x,
           NEW ch2, AfterBurn(ch, c, t, a, n, lists, x, ch2)
    PROVE  BurnParts(ch, c, t, a, n, lists, x, ch2)
  <1>1. PICK cl, cs : cl = ch.classes /\ cs = [cl EXCEPT ![c].lists = lists, ![c].names = x]
    OBVIOUS
  <1>2. /\ c \in DOMAIN cl /\ cl = [y \in DOMAIN cl |-> cl[y]]
        /\ cl[c] \in [class : Entities, names : Entities \cup {None}, lists : Lists]
    BY <1>1, ClassRow
  <1>3. cs = [cl EXCEPT ![c] = [class |-> @.class, names |-> x, lists |-> lists]]
    BY ONLY <1>1, <1>2
  <1>4. /\ ch2.owners = ch.owners /\ ch2.classOf = ch.classOf /\ ch2.minted = ch.minted
        /\ ch2.held = [ch.held EXCEPT ![<<a, t>>] = @ - n]
        /\ ch2.retired = [ch.retired EXCEPT ![<<a, t>>] = @ + n]
        /\ ch2.classes = cs
    BY <1>1 DEF AfterBurn, Chains
  <1> QED
    BY <1>1, <1>3, <1>4 DEF BurnParts

\* The holder's balance falls, and the class's lists replace what was there.
LEMMA BurnPlays ==
    ASSUME NEW blk, IsSeq(blk), NEW d, Ends(blk, d, None), DbOK(d),
           NEW ch \in Chains, NEW lt, Mirrors(d, ch, lt),
           NEW c \in DOMAIN ch.classes, NEW t \in Tokens, NEW a \in Accounts,
           NEW n \in Amounts, NEW list \in {"retired", "cancelled"},
           ch.classOf[t] = c, ~ KnownClass(c) => t \in lt,
           OwnLists(ch, c),
           NEW lists, OneMore(ch.classes[c].lists, list,
                              [token |-> t, amount |-> n, owner |-> a], lists),
           NEW e, e = ch.classes[c].class,
           NEW x, ch.owners[e] # None => x = e, ch.owners[e] = None => x = None,
           NEW ch2, AfterBurn(ch, c, t, a, n, lists, x, ch2)
    PROVE  \E d2 : /\ Ends(blk \o <<Moved(c, <<Transfer(a, None, n, t)>>),
                                    ClassUpdated(c, e, lists)>>, d2, None)
                   /\ Mirrors(d2, ch2, lt)
  <1>1. PICK trs : trs = <<Transfer(a, None, n, t)>>
    OBVIOUS
  <1>2. Batch(trs, a, None, n) /\ TokensOf(trs) = {t}
    BY <1>1, BatchOfOne
  <1>3. n \in Nat /\ a # None /\ c \in Classes /\ c # None /\ e \in Entities
        /\ ch.classes[c].lists \in Lists
    <2>1. n \in Nat /\ a # None
      BY ParametersAssumption
    <2>2. /\ c \in Classes /\ c # None /\ ch.classes[c].lists \in Lists
          /\ ch.classes[c].class \in Entities
      BY ClassRow
    <2> QED
      BY <2>1, <2>2
  <1>4. t \in DOMAIN d.tokens
    BY <1>3 DEF Mirrors
  <1>5. PICK d1 : BatchStep(d, c, trs, a, None, n, lt, d1)
    <2>1. /\ TokensOf(trs) \subseteq DOMAIN d.tokens
          /\ ~ KnownClass(c) => TokensOf(trs) \subseteq lt
      BY <1>2, <1>4
    <2> QED
      BY <1>2, <1>3, <2>1, BatchSteps
  <1>5a. /\ Steps(d, None, Moved(c, trs), d1, None) /\ DbOK(d1) /\ SameRows(d1, d)
         /\ \A h \in Holdings : h[2] \notin lt =>
                Balance(d1, h) = IF h[2] = t THEN Shifted(Balance(d, h), h[1], a, None, n)
                                 ELSE Balance(d, h)
    BY <1>2, <1>5 DEF BatchStep
  <1>6. Ends(Append(blk, Moved(c, trs)), d1, None) /\ IsSeq(Append(blk, Moved(c, trs)))
    BY <1>5a, EndsAppend, AppendSeq
  <1>7. /\ d1.iids = d.iids /\ d1.owners = d.owners /\ d1.classes = d.classes
        /\ d1.tokens = d.tokens
    BY <1>5a DEF SameRows
  <1>8. c \in DOMAIN d1.classes /\ d1.classes[c].lists = ch.classes[c].lists
    BY <1>7 DEF Mirrors
  <1>9. PICK b : b = [token |-> t, amount |-> n, owner |-> a]
    OBVIOUS
  <1>10. b \in Burn
    BY <1>9 DEF Burn
  <1>11. /\ lists \in Lists
         /\ list = "retired" => lists.retired = Append(ch.classes[c].lists.retired, b)
         /\ list = "cancelled" => lists.retired = ch.classes[c].lists.retired
         /\ lists.retired = << >> => d1.classes[c].lists.retired = << >>
         /\ lists.cancelled = << >> => d1.classes[c].lists.cancelled = << >>
    BY <1>3, <1>8, <1>9, <1>10, ListsAppend
  <1>12. PICK d2 : d2 = UpdateTokenClass(d1, c, e, lists)
    OBVIOUS
  <1>13. /\ DbOK(d2)
         /\ d2.iids = d1.iids /\ d2.owners = d1.owners
         /\ d2.tokens = d1.tokens /\ \A h : Balance(d2, h) = Balance(d1, h)
         /\ DOMAIN d2.classes = DOMAIN d1.classes
         /\ d2.classes[c] = [names |-> EntityIdOrNull(d1, e), lists |-> lists]
         /\ \A y \in DOMAIN d1.classes : y # c => d2.classes[y] = d1.classes[y]
    BY <1>3, <1>5a, <1>8, <1>11, <1>12, UpdateTokenClassEffect
  <1>14. \A i \in DOMAIN lists.retired : lists.retired[i].token \in DOMAIN d1.tokens
    <2>1. PICK old : old = ch.classes[c].lists.retired
      OBVIOUS
    <2>2. old \in Seq(Burn)
      BY <1>3, <2>1 DEF Lists
    <2>3. ASSUME NEW i \in DOMAIN old PROVE old[i].token \in DOMAIN d1.tokens
      <3>1. ch.classOf[old[i].token] = c
        BY <2>1, <2>3 DEF OwnLists
      <3>2. PICK o : o = old[i]
        OBVIOUS
      <3>3. o \in Burn
        BY <2>2, <2>3, <3>2
      <3>4. old[i].token \in Tokens
        BY <3>2, <3>3 DEF Burn
      <3> QED
        BY <1>3, <1>7, <3>1, <3>4 DEF Mirrors
    <2>4. b.token \in DOMAIN d1.tokens
      BY <1>4, <1>7, <1>9
    <2>5. CASE lists.retired = old
      BY <2>3, <2>5
    <2>6. CASE lists.retired = Append(old, b)
      <3>1. ASSUME NEW i \in DOMAIN lists.retired PROVE lists.retired[i].token \in DOMAIN d1.tokens
        <4>1. PICK s2 : s2 = Append(old, b)
          OBVIOUS
        <4>2. i \in DOMAIN s2 /\ s2 = lists.retired
          BY <2>6, <4>1
        <4>3. (i \in DOMAIN old /\ s2[i] = old[i]) \/ s2[i] = b
          <5>1. PICK k : k = Len(old)
            OBVIOUS
          <5>2. /\ k \in Nat /\ DOMAIN old = 1..k /\ DOMAIN s2 = 1..(k + 1)
                /\ s2[k + 1] = b /\ \A j \in 1..k : s2[j] = old[j]
            BY ONLY <2>2, <1>10, <4>1, <5>1
          <5> QED
            BY ONLY <5>2, <4>2
        <4> QED
          BY <2>3, <2>4, <4>2, <4>3
      <3> QED
        BY <3>1
    <2> QED
      BY <1>11, <2>1, <2>5, <2>6
  <1>15. Steps(d1, None, ClassUpdated(c, e, lists), d2, None)
    BY <1>12, <1>14, ClassUpdatedEvent, StepPlain
  <1>16. Ends(blk \o <<Moved(c, trs), ClassUpdated(c, e, lists)>>, d2, None)
    <2>1. PICK blk1 : blk1 = Append(blk, Moved(c, trs))
      OBVIOUS
    <2>2. Ends(blk1, d1, None) /\ IsSeq(blk1)
      BY <1>6, <2>1
    <2>3. Ends(Append(blk1, ClassUpdated(c, e, lists)), d2, None)
      BY <1>13, <1>15, <2>2, EndsAppend
    <2> QED
      <3>1. PICK x1, y1 : x1 = Moved(c, trs) /\ y1 = ClassUpdated(c, e, lists)
        OBVIOUS
      <3>2. blk \o <<x1, y1>> = Append(Append(blk, x1), y1)
        BY ConcatTwo
      <3> QED
        BY <2>1, <2>3, <3>1, <3>2
  <1>17. PICK row : row = [class |-> e, names |-> x, lists |-> lists]
    OBVIOUS
  <1>18. /\ ch2.owners = ch.owners /\ ch2.classOf = ch.classOf /\ ch2.minted = ch.minted
         /\ ch2.held = [ch.held EXCEPT ![<<a, t>>] = @ - n]
         /\ ch2.retired = [ch.retired EXCEPT ![<<a, t>>] = @ + n]
         /\ ch2.classes =
                [ch.classes EXCEPT ![c] = [class |-> @.class, names |-> x, lists |-> lists]]
    <2>1. BurnParts(ch, c, t, a, n, lists, x, ch2)
      BY AfterBurnIs
    <2> QED
      BY <2>1 DEF BurnParts
  <1>19. /\ DOMAIN ch2.classes = DOMAIN ch.classes
         /\ ch2.classes[c].names = x /\ ch2.classes[c].lists = lists
         /\ \A y \in DOMAIN ch.classes : y # c => ch2.classes[y] = ch.classes[y]
    <2>1. PICK cl, cs : cl = ch.classes /\ cs = ch2.classes
      OBVIOUS
    <2>2. c \in DOMAIN cl /\ cs = [cl EXCEPT ![c] = [class |-> @.class, names |-> x, lists |-> lists]]
      BY <1>18, <2>1
    <2>3. PICK r : r = [class |-> cl[c].class, names |-> x, lists |-> lists]
      OBVIOUS
    <2>4. cs = [cl EXCEPT ![c] = r] /\ r.names = x /\ r.lists = lists
      BY ONLY <2>2, <2>3
    <2>5. DOMAIN cs = DOMAIN cl /\ cs[c] = r /\ \A y \in DOMAIN cl : y # c => cs[y] = cl[y]
      BY ONLY <2>2, <2>4
    <2> QED
      BY <2>1, <2>4, <2>5
  <1>20. EntityIdOrNull(d1, e) = x
    BY <1>3, <1>7 DEF Mirrors, EntityIdOrNull
  <1>21. \A y \in DOMAIN d2.classes : /\ d2.classes[y].names = ch2.classes[y].names
                                      /\ d2.classes[y].lists = ch2.classes[y].lists
    <2>1. ASSUME NEW y \in DOMAIN d.classes, y # c
          PROVE  /\ d2.classes[y].names = ch2.classes[y].names
                 /\ d2.classes[y].lists = ch2.classes[y].lists
      <3>1. y \in DOMAIN ch.classes
        BY DEF Mirrors
      <3>2. d2.classes[y] = d.classes[y] /\ ch2.classes[y] = ch.classes[y]
        BY <1>7, <1>13, <1>19, <2>1, <3>1
      <3> QED
        BY <3>2 DEF Mirrors
    <2>2. /\ d2.classes[c].names = ch2.classes[c].names
          /\ d2.classes[c].lists = ch2.classes[c].lists
      BY <1>13, <1>19, <1>20
    <2> QED
      BY <1>7, <1>13, <2>1, <2>2
  <1>22. ASSUME NEW h \in Holdings, h[2] \notin lt
         PROVE  Balance(d2, h) = [amount  |-> ch2.held[h],
                                  minted  |-> ch2.minted[h],
                                  retired |-> ch2.retired[h]]
    <2>1. PICK p, m, r : p = ch.held[h] /\ m = ch.minted[h] /\ r = ch.retired[h]
      OBVIOUS
    <2>2. p \in Int /\ m \in Nat /\ r \in Nat
      BY <2>1, ChainType
    <2>3. Balance(d, h) = [amount |-> p, minted |-> m, retired |-> r]
      BY <1>22, <2>1 DEF Mirrors
    <2>4. h[1] # None /\ h = <<h[1], h[2]>>
      BY HoldingIsPair
    <2>5. Balance(d2, h) = Balance(d1, h)
      BY <1>13
    <2>6. CASE h = <<a, t>>
      <3>1. h[1] = a /\ h[2] = t
        BY <2>6
      <3>2. Balance(d1, h) = Shifted(Balance(d, h), a, a, None, n)
        BY <1>5a, <1>22, <3>1
      <3>3. Shifted(Balance(d, h), a, a, None, n) =
              [amount |-> p + 0 - n, minted |-> m + 0, retired |-> r + n]
        BY <1>3, <2>3 DEF Shifted
      <3>4. ch2.held[h] = p - n /\ ch2.retired[h] = r + n /\ ch2.minted[h] = m
        BY <1>18, <2>1, <2>6, ChainType
      <3>5. p + 0 - n = p - n /\ m + 0 = m
        BY <1>3, <2>2
      <3> QED
        BY <2>5, <3>2, <3>3, <3>4, <3>5
    <2>7. CASE h # <<a, t>>
      <3>1. ch2.held[h] = p /\ ch2.retired[h] = r /\ ch2.minted[h] = m
        BY <1>18, <2>1, <2>7, ChainType
      <3>2. CASE h[2] = t
        <4>1. h[1] # a
          BY <2>4, <2>7, <3>2
        <4>2. Balance(d1, h) = Shifted(Balance(d, h), h[1], a, None, n)
          BY <1>5a, <1>22, <3>2
        <4>3. Shifted(Balance(d, h), h[1], a, None, n) =
                [amount |-> p + 0 - 0, minted |-> m + 0, retired |-> r + 0]
          BY <2>3, <2>4, <4>1 DEF Shifted
        <4>4. p + 0 - 0 = p /\ m + 0 = m /\ r + 0 = r
          BY <2>2
        <4> QED
          BY <2>5, <3>1, <4>2, <4>3, <4>4
      <3>3. CASE h[2] # t
        BY <1>5a, <1>22, <2>3, <2>5, <3>1, <3>3
      <3> QED
        BY <3>2, <3>3
    <2> QED
      BY <2>6, <2>7
  <1>23. Mirrors(d2, ch2, lt)
    <2>1. DOMAIN d2.classes = DOMAIN ch2.classes
      BY <1>7, <1>13, <1>19 DEF Mirrors
    <2>2. /\ d.iids = {y \in Entities : ch.owners[y] # None}
          /\ DOMAIN d.owners = d.iids
          /\ \A y \in DOMAIN d.owners : d.owners[y] = ch.owners[y]
          /\ DOMAIN d.tokens = {u \in Tokens : ch.classOf[u] # None}
          /\ \A u \in DOMAIN d.tokens : d.tokens[u] = ch.classOf[u]
      BY DEF Mirrors
    <2>3. /\ d2.iids = {y \in Entities : ch2.owners[y] # None}
          /\ DOMAIN d2.owners = d2.iids
          /\ \A y \in DOMAIN d2.owners : d2.owners[y] = ch2.owners[y]
          /\ DOMAIN d2.tokens = {u \in Tokens : ch2.classOf[u] # None}
          /\ \A u \in DOMAIN d2.tokens : d2.tokens[u] = ch2.classOf[u]
      BY <1>7, <1>13, <1>18, <2>2
    <2> QED
      BY <1>21, <1>22, <2>1, <2>3 DEF Mirrors
  <1> QED
    BY <1>1, <1>16, <1>23

----------------------------------------------------------------------------
(* What every message leaves true of the chain. *)

\* The classes, the tokens and what was burnt of them stay as they are.
LEMMA ChainSame ==
    ASSUME NEW ch, NEW lt, NEW fr, ChainOK(ch, lt, fr), NEW ch2 \in Chains,
           ch2.classes = ch.classes, ch2.classOf = ch.classOf, ch2.retired = ch.retired,
           Unminted(ch2)
    PROVE  ChainOK(ch2, lt, fr)
  <1>1. ClassesOf(ch2, lt, fr)
    BY DEF ClassesOf, ChainOK
  <1>2. ASSUME NEW c \in DOMAIN ch2.classes PROVE OwnLists(ch2, c) /\ BurnsTold(ch2, c)
    <2>1. OwnLists(ch, c) /\ BurnsTold(ch, c)
      BY DEF ChainOK
    <2> QED
      BY <2>1 DEF OwnLists, BurnsTold
  <1> QED
    BY <1>1, <1>2 DEF ChainOK

\* An entity's owner changes nothing of that.
LEMMA OwnersKeepChain ==
    ASSUME NEW ch, NEW lt, NEW fr, ChainOK(ch, lt, fr), NEW e \in Entities, NEW a \in Accounts,
           NEW ch2, ch2 = [ch EXCEPT !.owners[e] = a]
    PROVE  ChainOK(ch2, lt, fr)
  <1>1. ch \in Chains
    BY DEF ChainOK
  <1>2. /\ ch2.classes = ch.classes /\ ch2.classOf = ch.classOf /\ ch2.held = ch.held
        /\ ch2.minted = ch.minted /\ ch2.retired = ch.retired
    BY <1>1 DEF Chains
  <1>3. ch2 \in Chains
    BY <1>1 DEF Chains
  <1>4. Unminted(ch2)
    BY <1>2 DEF ChainOK, Unminted
  <1> QED
    BY <1>2, <1>3, <1>4, ChainSame

\* Moved tokens have been minted.
LEMMA TransferKeepsChain ==
    ASSUME NEW ch, NEW lt, NEW fr, ChainOK(ch, lt, fr),
           NEW c \in Classes, NEW a \in Accounts, NEW b \in Accounts,
           NEW S \in SUBSET Tokens, NEW n \in Amounts, \A t \in S : ch.classOf[t] = c,
           NEW ch2, AfterTransfer(ch, a, b, S, n, ch2)
    PROVE  ChainOK(ch2, lt, fr)
  <1>1. ch \in Chains /\ n \in Nat
    BY ParametersAssumption DEF ChainOK
  <1>2. PICK held : held = [h \in Holdings |-> ch.held[h]
                                - (IF h[2] \in S /\ h[1] = a THEN n ELSE 0)
                                + (IF h[2] \in S /\ h[1] = b THEN n ELSE 0)]
    OBVIOUS
  <1>3. /\ ch2.classes = ch.classes /\ ch2.classOf = ch.classOf /\ ch2.owners = ch.owners
        /\ ch2.minted = ch.minted /\ ch2.retired = ch.retired
        /\ ch2 = [ch EXCEPT !.held = held] /\ ch2.held = held
    BY <1>1, <1>2 DEF Chains, AfterTransfer
  <1>4. \A h \in Holdings : held[h] \in Int
    <2>1. ASSUME NEW h \in Holdings PROVE held[h] \in Int
      <3>1. ch.held[h] \in Int
        BY <1>1, ChainType
      <3> QED
        BY <1>1, <1>2, <3>1
    <2> QED
      BY <2>1
  <1>5. ch2 \in Chains
    <2>1. held \in [Holdings -> Int]
      BY <1>2, <1>4
    <2> QED
      BY <1>1, <1>3, <2>1 DEF Chains
  <1>6. Unminted(ch2)
    <2>1. ASSUME NEW h \in Holdings, ch.classOf[h[2]] = None
          PROVE  ch2.held[h] = 0 /\ ch2.minted[h] = 0 /\ ch2.retired[h] = 0
      <3>1. h[2] \notin S
        BY <2>1, NoneIsNothing
      <3>2. ch.held[h] = 0 /\ ch.minted[h] = 0 /\ ch.retired[h] = 0
        BY <2>1 DEF ChainOK, Unminted
      <3>3. held[h] = 0 - 0 + 0
        BY <1>2, <3>1, <3>2
      <3> QED
        BY <1>3, <3>2, <3>3
    <2> QED
      BY <1>3, <2>1 DEF Unminted
  <1> QED
    BY <1>3, <1>5, <1>6, ChainSame

\* No token has a class that did not exist.
LEMMA CreateTokenKeepsChain ==
    ASSUME NEW ch, NEW lt, NEW fr, ChainOK(ch, lt, fr),
           NEW c \in Classes, NEW e \in Entities, c \notin DOMAIN ch.classes,
           NEW x \in Entities \cup {None},
           NEW ch2, ch2 = [ch EXCEPT !.classes =
                              Put(@, c, [class |-> e, names |-> x, lists |-> NoLists])]
    PROVE  ChainOK(ch2, lt, fr \cup {c})
  <1>1. ch \in Chains
    BY DEF ChainOK
  <1>2. PICK row : row = [class |-> e, names |-> x, lists |-> NoLists]
    OBVIOUS
  <1>3. /\ ch2.owners = ch.owners /\ ch2.classes = Put(ch.classes, c, row)
        /\ ch2.classOf = ch.classOf /\ ch2.held = ch.held
        /\ ch2.minted = ch.minted /\ ch2.retired = ch.retired
        /\ ch2 = [ch EXCEPT !.classes = Put(ch.classes, c, row)]
    BY <1>1, <1>2 DEF Chains
  <1>4. /\ DOMAIN ch2.classes = DOMAIN ch.classes \cup {c} /\ ch2.classes[c] = row
        /\ \A y \in DOMAIN ch.classes : y # c => ch2.classes[y] = ch.classes[y]
    BY <1>3 DEF Put
  <1>5. NoLists \in Lists /\ NoLists.retired = << >> /\ NoLists.cancelled = << >>
    BY DEF NoLists, Lists
  <1>6. ch2 \in Chains
    <2>1. row \in [class : Entities, names : Entities \cup {None}, lists : Lists]
      BY <1>2, <1>5
    <2>2. PICK cs : cs = Put(ch.classes, c, row)
      OBVIOUS
    <2>3. cs \in Maps(Classes, [class : Entities, names : Entities \cup {None}, lists : Lists])
      BY <1>1, <2>1, <2>2, ChainType, PutType
    <2>4. ch2 = [ch EXCEPT !.classes = cs]
      BY <1>3, <2>2
    <2> QED
      BY <1>1, <2>3, <2>4 DEF Chains
  <1>7. \A t \in Tokens : ch.classOf[t] \in DOMAIN ch.classes \cup {None} /\ ch.classOf[t] # c
    BY NoneIsNothing DEF ChainOK, ClassesOf
  <1>8. ClassesOf(ch2, lt, fr \cup {c})
    BY <1>3, <1>4, <1>7 DEF ChainOK, ClassesOf
  <1>9. Unminted(ch2)
    BY <1>3 DEF ChainOK, Unminted
  <1>10. OwnLists(ch2, c) /\ BurnsTold(ch2, c)
    <2>1. ch2.classes[c].lists.retired = << >> /\ ch2.classes[c].lists.cancelled = << >>
      BY <1>2, <1>4, <1>5
    <2>2. \A h \in Holdings : ch2.classOf[h[2]] # c
      BY <1>3, <1>7, HoldingIsPair
    <2>3. OwnLists(ch2, c)
      BY <2>1 DEF OwnLists
    <2>4. \A h : BurntOf(<< >>, h) + BurntOf(<< >>, h) = 0
      BY BurntNone
    <2> QED
      BY <2>1, <2>2, <2>3, <2>4 DEF BurnsTold
  <1>11. ASSUME NEW y \in DOMAIN ch.classes, y # c PROVE OwnLists(ch2, y) /\ BurnsTold(ch2, y)
    <2>1. OwnLists(ch, y) /\ BurnsTold(ch, y) /\ ch2.classes[y] = ch.classes[y]
      BY <1>4, <1>11 DEF ChainOK
    <2> QED
      BY <1>3, <2>1 DEF OwnLists, BurnsTold
  <1> QED
    BY <1>4, <1>6, <1>8, <1>9, <1>10, <1>11 DEF ChainOK

\* A minted token has a class, and none of it was burnt.
LEMMA MintKeepsChain ==
    ASSUME NEW ch, NEW lt, NEW fr, ChainOK(ch, lt, fr),
           NEW c \in DOMAIN ch.classes, NEW t \in Tokens, NEW a \in Accounts, NEW n \in MintAmounts,
           ch.classOf[t] = None, NEW lt2, lt \subseteq lt2, c \in fr => t \in lt2,
           NEW ch2, AfterMint(ch, c, t, a, n, ch2)
    PROVE  ChainOK(ch2, lt2, fr)
  <1>1. ch \in Chains /\ n \in Nat /\ c \in Classes /\ c # None
    <2>1. ch \in Chains
      BY DEF ChainOK
    <2>2. c \in Classes
      BY <2>1, ClassRow
    <2> QED
      BY <2>1, <2>2, ParametersAssumption
  <1>2. /\ ch2.owners = ch.owners /\ ch2.classes = ch.classes
        /\ ch2.retired = ch.retired
        /\ ch2.classOf = [ch.classOf EXCEPT ![t] = c]
        /\ ch2.held = [ch.held EXCEPT ![<<a, t>>] = n]
        /\ ch2.minted = [ch.minted EXCEPT ![<<a, t>>] = n]
    BY <1>1 DEF Chains, AfterMint
  <1>3. ch2 \in Chains
    <2>1. /\ ch2.classOf \in [Tokens -> Classes \cup {None}]
          /\ ch2.held \in [Holdings -> Int]
          /\ ch2.minted \in [Holdings -> Nat]
      <3>1. PICK co, hl, mt : co = ch.classOf /\ hl = ch.held /\ mt = ch.minted
        OBVIOUS
      <3>2. /\ co \in [Tokens -> Classes \cup {None}] /\ hl \in [Holdings -> Int]
            /\ mt \in [Holdings -> Nat]
        BY <1>1, <3>1, ChainType
      <3>3. n \in Int
        BY <1>1
      <3>4. /\ [co EXCEPT ![t] = c] \in [Tokens -> Classes \cup {None}]
            /\ [hl EXCEPT ![<<a, t>>] = n] \in [Holdings -> Int]
            /\ [mt EXCEPT ![<<a, t>>] = n] \in [Holdings -> Nat]
        BY <1>1, <3>2, <3>3
      <3> QED
        BY <1>2, <3>1, <3>4
    <2>2. ch2 = [owners |-> ch.owners, classes |-> ch.classes, classOf |-> ch2.classOf,
                 held |-> ch2.held, minted |-> ch2.minted, retired |-> ch.retired]
      BY <1>1, <1>2 DEF Chains, AfterMint
    <2>3. /\ ch.owners \in [Entities -> Accounts \cup {None}]
          /\ ch.classes \in Maps(Classes, [class : Entities, names : Entities \cup {None},
                                           lists : Lists])
          /\ ch.retired \in [Holdings -> Nat]
      BY <1>1, ChainType
    <2> QED
      BY ONLY <2>1, <2>2, <2>3 DEF Chains
  <1>4. ch2.classOf[t] = c /\ \A u \in Tokens : u # t => ch2.classOf[u] = ch.classOf[u]
    BY <1>1, <1>2, ChainType
  <1>5. ClassesOf(ch2, lt2, fr)
    BY <1>2, <1>4 DEF ChainOK, ClassesOf
  <1>6. Unminted(ch2)
    <2>1. ASSUME NEW h \in Holdings, ch2.classOf[h[2]] = None
          PROVE  ch2.held[h] = 0 /\ ch2.minted[h] = 0 /\ ch2.retired[h] = 0
      <3>1. h[2] \in Tokens /\ h[2] # t
        BY <1>1, <1>4, <2>1, HoldingIsPair
      <3>2. h # <<a, t>> /\ ch.classOf[h[2]] = None
        BY <1>4, <2>1, <3>1
      <3>3. ch.held[h] = 0 /\ ch.minted[h] = 0 /\ ch.retired[h] = 0
        BY <3>2 DEF ChainOK, Unminted
      <3> QED
        BY <1>1, <1>2, <3>2, <3>3, ChainType
    <2> QED
      BY <2>1 DEF Unminted
  <1>7. ASSUME NEW y \in DOMAIN ch.classes PROVE OwnLists(ch2, y) /\ BurnsTold(ch2, y)
    <2>1. OwnLists(ch, y) /\ BurnsTold(ch, y)
      BY DEF ChainOK
    <2>2. y # None
      BY <1>1, ClassRow
    <2>3. PICK r, k : r = ch.classes[y].lists.retired /\ k = ch.classes[y].lists.cancelled
      OBVIOUS
    <2>4. r \in Seq(Burn) /\ k \in Seq(Burn)
      <3>1. ch.classes[y].lists \in Lists
        BY <1>1, ClassRow
      <3> QED
        BY <2>3, <3>1 DEF Lists
    <2>5. /\ \A i \in DOMAIN r : ch2.classOf[r[i].token] = y
          /\ \A i \in DOMAIN k : ch2.classOf[k[i].token] = y
      <3>1. /\ \A i \in DOMAIN r : r[i].token \in Tokens /\ ch.classOf[r[i].token] = y
            /\ \A i \in DOMAIN k : k[i].token \in Tokens /\ ch.classOf[k[i].token] = y
        <4>1. /\ \A i \in DOMAIN r : ch.classOf[r[i].token] = y
              /\ \A i \in DOMAIN k : ch.classOf[k[i].token] = y
          BY <2>1, <2>3 DEF OwnLists
        <4>2. (\A i \in DOMAIN r : r[i] \in Burn) /\ (\A i \in DOMAIN k : k[i] \in Burn)
          BY ONLY <2>4
        <4>3. \A b \in Burn : b.token \in Tokens
          BY DEF Burn
        <4> QED
          BY ONLY <4>1, <4>2, <4>3
      <3> QED
        BY <1>4, <2>2, <3>1
    <2>6. OwnLists(ch2, y)
      BY <1>2, <2>3, <2>5 DEF OwnLists
    <2>7. ASSUME NEW h \in Holdings
          PROVE  BurntOf(r, h) + BurntOf(k, h) =
                    IF ch2.classOf[h[2]] = y THEN ch2.retired[h] ELSE 0
      <3>1. BurntOf(r, h) + BurntOf(k, h) = IF ch.classOf[h[2]] = y THEN ch.retired[h] ELSE 0
        BY <2>1, <2>3 DEF BurnsTold
      <3>2. CASE h[2] = t
        <4>1. ch.retired[h] = 0
          BY <3>2 DEF ChainOK, Unminted
        <4> QED
          BY <1>2, <2>2, <3>1, <3>2, <4>1
      <3>3. CASE h[2] # t
        BY <1>2, <1>4, <3>1, <3>3, HoldingIsPair
      <3> QED
        BY <3>2, <3>3
    <2> QED
      BY <1>2, <2>3, <2>6, <2>7 DEF BurnsTold
  <1> QED
    BY <1>2, <1>3, <1>5, <1>6, <1>7 DEF ChainOK

\* What is burnt is told by the class's lists.
LEMMA BurnKeepsChain ==
    ASSUME NEW ch, NEW lt, NEW fr, ChainOK(ch, lt, fr),
           NEW c \in DOMAIN ch.classes, NEW t \in Tokens, NEW a \in Accounts,
           NEW n \in Amounts, NEW list \in {"retired", "cancelled"}, ch.classOf[t] = c,
           NEW lists, OneMore(ch.classes[c].lists, list,
                              [token |-> t, amount |-> n, owner |-> a], lists),
           NEW x \in Entities \cup {None},
           NEW ch2, AfterBurn(ch, c, t, a, n, lists, x, ch2)
    PROVE  ChainOK(ch2, lt, fr)
  <1>1. ch \in Chains /\ n \in Nat
    BY ParametersAssumption DEF ChainOK
  <1>2. /\ ch2.owners = ch.owners /\ ch2.classOf = ch.classOf /\ ch2.minted = ch.minted
        /\ ch2.held = [ch.held EXCEPT ![<<a, t>>] = @ - n]
        /\ ch2.retired = [ch.retired EXCEPT ![<<a, t>>] = @ + n]
        /\ ch2.classes =
                [ch.classes EXCEPT ![c] = [class |-> @.class, names |-> x, lists |-> lists]]
    <2>1. BurnParts(ch, c, t, a, n, lists, x, ch2)
      BY <1>1, AfterBurnIs
    <2> QED
      BY <2>1 DEF BurnParts
  <1>3. PICK old : old = ch.classes[c]
    OBVIOUS
  <1>4. /\ old \in [class : Entities, names : Entities \cup {None}, lists : Lists]
        /\ old.lists \in Lists
    BY <1>1, <1>3, ClassRow
  <1>5. PICK b : b = [token |-> t, amount |-> n, owner |-> a]
    OBVIOUS
  <1>6. b \in Burn
    BY <1>5 DEF Burn
  <1>7. /\ lists \in Lists
        /\ list = "retired" =>
             /\ lists.retired = Append(old.lists.retired, b)
             /\ lists.cancelled = old.lists.cancelled
        /\ list = "cancelled" =>
             /\ lists.cancelled = Append(old.lists.cancelled, b)
             /\ lists.retired = old.lists.retired
    BY <1>3, <1>4, <1>5, <1>6, ListsAppend
  <1>8. PICK row : row = [class |-> old.class, names |-> x, lists |-> lists]
    OBVIOUS
  <1>9. row \in [class : Entities, names : Entities \cup {None}, lists : Lists]
    BY <1>4, <1>7, <1>8
  <1>10. ch2.classes = [ch.classes EXCEPT ![c] = row]
    BY <1>2, <1>3, <1>8
  <1>11. /\ DOMAIN ch2.classes = DOMAIN ch.classes
         /\ ch2.classes[c].lists = lists
         /\ \A y \in DOMAIN ch.classes : y # c => ch2.classes[y] = ch.classes[y]
         /\ ch2.classes \in Maps(Classes, [class : Entities, names : Entities \cup {None},
                                           lists : Lists])
    <2>1. PICK T : T = [class : Entities, names : Entities \cup {None}, lists : Lists]
      OBVIOUS
    <2>2. PICK cl, cs : cl = ch.classes /\ cs = ch2.classes
      OBVIOUS
    <2>3. cl \in Maps(Classes, T) /\ c \in DOMAIN cl /\ row \in T /\ row.lists = lists
      BY <1>1, <1>8, <1>9, <2>1, <2>2, ChainType
    <2>4. cs = [cl EXCEPT ![c] = row]
      BY <1>10, <2>2
    <2>5. /\ cs \in Maps(Classes, T) /\ DOMAIN cs = DOMAIN cl /\ cs[c] = row
          /\ \A y \in DOMAIN cl : y # c => cs[y] = cl[y]
      BY <2>3, <2>4, MapsExcept
    <2> QED
      BY <2>1, <2>2, <2>3, <2>5
  <1>12. /\ ch2.held \in [Holdings -> Int]
         /\ ch2.retired \in [Holdings -> Nat]
         /\ ch2.retired[<<a, t>>] = ch.retired[<<a, t>>] + n
         /\ \A h \in Holdings : h # <<a, t>> => ch2.retired[h] = ch.retired[h]
         /\ \A h \in Holdings : h # <<a, t>> => ch2.held[h] = ch.held[h]
    <2>1. <<a, t>> \in Holdings
      BY DEF Holdings
    <2>2. ch.held[<<a, t>>] \in Int /\ ch.retired[<<a, t>>] \in Nat
      BY <1>1, <2>1, ChainType
    <2>3. ch.held[<<a, t>>] - n \in Int /\ ch.retired[<<a, t>>] + n \in Nat
      BY <1>1, <2>2
    <2> QED
      BY <1>1, <1>2, <2>1, <2>3, ChainType
  <1>13. ch2 \in Chains
    <2>1. PICK cs, hl, rt : cs = ch2.classes /\ hl = ch2.held /\ rt = ch2.retired
      OBVIOUS
    <2>2. ch2 = [owners |-> ch.owners, classes |-> cs, classOf |-> ch.classOf,
                 held |-> hl, minted |-> ch.minted, retired |-> rt]
      BY <1>1, <2>1 DEF AfterBurn, Chains
    <2>3. /\ ch.owners \in [Entities -> Accounts \cup {None}]
          /\ ch.classOf \in [Tokens -> Classes \cup {None}]
          /\ ch.minted \in [Holdings -> Nat]
      BY <1>1, ChainType
    <2>4. /\ cs \in Maps(Classes, [class : Entities, names : Entities \cup {None}, lists : Lists])
          /\ hl \in [Holdings -> Int] /\ rt \in [Holdings -> Nat]
      BY <1>11, <1>12, <2>1
    <2> QED
      BY ONLY <2>2, <2>3, <2>4 DEF Chains
  <1>14. ClassesOf(ch2, lt, fr)
    BY <1>2, <1>11 DEF ChainOK, ClassesOf
  <1>15. c # None
    BY <1>1, ChainType, MapsType, NoneIsNothing
  <1>16. Unminted(ch2)
    <2>1. ASSUME NEW h \in Holdings, ch.classOf[h[2]] = None
          PROVE  ch2.held[h] = 0 /\ ch2.minted[h] = 0 /\ ch2.retired[h] = 0
      <3>1. h # <<a, t>>
        BY <1>15, <2>1
      <3>2. ch.held[h] = 0 /\ ch.minted[h] = 0 /\ ch.retired[h] = 0
        BY <2>1 DEF ChainOK, Unminted
      <3> QED
        BY <1>2, <1>12, <3>1, <3>2
    <2> QED
      BY <1>2, <2>1 DEF Unminted
  <1>17. ASSUME NEW y \in DOMAIN ch.classes, y # c PROVE OwnLists(ch2, y) /\ BurnsTold(ch2, y)
    <2>1. OwnLists(ch, y) /\ BurnsTold(ch, y) /\ ch2.classes[y] = ch.classes[y]
      BY <1>11, <1>17 DEF ChainOK
    <2>2. OwnLists(ch2, y)
      BY <1>2, <2>1 DEF OwnLists
    <2>3. ASSUME NEW h \in Holdings, ch.classOf[h[2]] = y PROVE ch2.retired[h] = ch.retired[h]
      <3>1. h # <<a, t>>
        BY <1>17, <2>3
      <3> QED
        BY <1>12, <3>1
    <2> QED
      BY <1>2, <2>1, <2>2, <2>3 DEF BurnsTold
  <1>18. PICK r, k, r2, k2 : /\ r = old.lists.retired /\ k = old.lists.cancelled
                             /\ r2 = lists.retired /\ k2 = lists.cancelled
    OBVIOUS
  <1>19. /\ r \in Seq(Burn) /\ k \in Seq(Burn)
         /\ \/ r2 = Append(r, b) /\ k2 = k
            \/ k2 = Append(k, b) /\ r2 = r
    BY <1>4, <1>7, <1>18 DEF Lists
  <1>20. OwnLists(ch2, c)
    <2>1. /\ \A i \in DOMAIN r : ch.classOf[r[i].token] = c
          /\ \A i \in DOMAIN k : ch.classOf[k[i].token] = c
      <3>1. OwnLists(ch, c)
        BY DEF ChainOK
      <3> QED
        BY <1>3, <1>18, <3>1 DEF OwnLists
    <2>2. ch.classOf[b.token] = c
      BY <1>5
    <2>3. ASSUME NEW s \in Seq(Burn), \A i \in DOMAIN s : ch.classOf[s[i].token] = c
          PROVE  \A i \in DOMAIN Append(s, b) : ch.classOf[Append(s, b)[i].token] = c
      <3>1. PICK s2 : s2 = Append(s, b)
        OBVIOUS
      <3>2. ASSUME NEW i \in DOMAIN s2 PROVE ch.classOf[s2[i].token] = c
        <4>1. (i \in DOMAIN s /\ s2[i] = s[i]) \/ s2[i] = b
          BY <1>6, <2>3, <3>1
        <4> QED
          BY <2>2, <2>3, <4>1
      <3> QED
        BY <3>1, <3>2
    <2>4. /\ \A i \in DOMAIN r2 : ch.classOf[r2[i].token] = c
          /\ \A i \in DOMAIN k2 : ch.classOf[k2[i].token] = c
      BY <1>19, <2>1, <2>3
    <2> QED
      BY <1>2, <1>11, <1>18, <2>4 DEF OwnLists
  <1>21. BurnsTold(ch2, c)
    <2>1. ASSUME NEW h \in Holdings
          PROVE  BurntOf(r2, h) + BurntOf(k2, h) =
                    IF ch.classOf[h[2]] = c THEN ch2.retired[h] ELSE 0
      <3>1. BurntOf(r, h) + BurntOf(k, h) = IF ch.classOf[h[2]] = c THEN ch.retired[h] ELSE 0
        <4>1. BurnsTold(ch, c)
          BY DEF ChainOK
        <4> QED
          BY <1>3, <1>18, <4>1 DEF BurnsTold
      <3>2. PICK p, q : p = BurntOf(r, h) /\ q = BurntOf(k, h)
        OBVIOUS
      <3>3. PICK m : m = IF <<a, t>> = h THEN n ELSE 0
        OBVIOUS
      <3>4. p \in Int /\ q \in Int /\ m \in Int
        BY <1>1, <1>6, <1>19, <3>2, <3>3, BurntAppend
      <3>5. BurntOf(r2, h) + BurntOf(k2, h) = p + q + m
        <4>1. BurntOf(Append(r, b), h) = p + m /\ BurntOf(Append(k, b), h) = q + m
          <5>1. <<b.owner, b.token>> = <<a, t>> /\ b.amount = n
            BY <1>5
          <5>2. /\ BurntOf(Append(r, b), h) =
                     BurntOf(r, h) + (IF <<b.owner, b.token>> = h THEN b.amount ELSE 0)
                /\ BurntOf(Append(k, b), h) =
                     BurntOf(k, h) + (IF <<b.owner, b.token>> = h THEN b.amount ELSE 0)
            BY <1>6, <1>19, BurntAppend
          <5> QED
            BY ONLY <3>2, <3>3, <5>1, <5>2
        <4>2. \/ BurntOf(r2, h) = p + m /\ BurntOf(k2, h) = q
              \/ BurntOf(r2, h) = p /\ BurntOf(k2, h) = q + m
          BY ONLY <1>19, <3>2, <4>1
        <4> QED
          BY ONLY <3>4, <4>2
      <3>6. CASE h = <<a, t>>
        <4>1. ch.classOf[h[2]] = c
          BY <3>6
        <4>2. ch2.retired[h] = ch.retired[h] + n /\ m = n
          BY <1>12, <3>3, <3>6
        <4> QED
          BY <3>1, <3>2, <3>4, <3>5, <4>1, <4>2
      <3>7. CASE h # <<a, t>>
        <4>1. ch2.retired[h] = ch.retired[h] /\ m = 0
          BY <1>12, <3>3, <3>7
        <4> QED
          BY <3>1, <3>2, <3>4, <3>5, <4>1
      <3> QED
        BY <3>6, <3>7
    <2> QED
      BY <1>2, <1>11, <1>18, <2>1 DEF BurnsTold
  <1> QED
    BY <1>11, <1>13, <1>14, <1>16, <1>17, <1>20, <1>21 DEF ChainOK

----------------------------------------------------------------------------
(* The invariant. *)

\* A block with a message's events is a sequence.
LEMMA IsSeqConcat ==
    ASSUME NEW s, IsSeq(s), NEW x, NEW y, NEW z
    PROVE  IsSeq(s \o <<x>>) /\ IsSeq(s \o <<x, y>>) /\ IsSeq(s \o <<x, y, z>>)
  <1>1. IsSeq(Append(s, x))
    BY AppendSeq
  <1>2. IsSeq(Append(Append(s, x), y))
    BY <1>1, AppendSeq
  <1>3. IsSeq(Append(Append(Append(s, x), y), z))
    BY <1>2, AppendSeq
  <1> QED
    <2>1. s \o <<x>> = Append(s, x)
      BY ConcatOne
    <2>2. s \o <<x, y>> = Append(Append(s, x), y)
      BY ConcatTwo
    <2>3. s \o <<x, y, z>> = Append(Append(Append(s, x), y), z)
      BY ConcatThree
    <2> QED
      BY <1>1, <1>2, <1>3, <2>1, <2>2, <2>3

\* What the chain's messages start from ...
LEMMA BlockPlays ==
    ASSUME IInv
    PROVE  /\ \E d : Ends(block, d, None) /\ DbOK(d) /\ Mirrors(d, chain, late)
           /\ chain \in Chains /\ IsSeq(block)
           /\ \A c \in DOMAIN chain.classes : KnownClass(c) <=> c \notin fresh
           /\ \A c \in DOMAIN chain.classes : OwnLists(chain, c)
           /\ \A t \in Tokens : /\ chain.classOf[t] \in DOMAIN chain.classes \cup {None}
                                /\ chain.classOf[t] \in fresh => t \in late
           /\ Unminted(chain)
  <1>1. PICK dbs, waits : /\ Replay(dbs, waits, block)
                          /\ waits[Len(block)] = None
                          /\ Mirrors(dbs[Len(block)], chain, late)
    BY DEF IInv, History
  <1>2. Len(block) \in 0..Len(block)
    BY DEF IInv, Bounds, IsSeq
  <1>3. DbOK(dbs[Len(block)]) /\ Ends(block, dbs[Len(block)], None)
    BY <1>1, <1>2 DEF Replay, Ends
  <1>4. Bounds /\ ChainOK(chain, late, fresh)
    BY DEF IInv
  <1>5. \A c \in DOMAIN chain.classes : KnownClass(c) <=> c \notin fresh
    BY <1>4, KnownIsCommitted DEF Bounds
  <1> QED
    BY <1>1, <1>3, <1>4, <1>5 DEF ChainOK, ClassesOf, Bounds

\* ... and what they must leave.
LEMMA MessageKeeps ==
    ASSUME IInv, NEW events, Message(events), IsSeq(block \o events),
           NEW d, Ends(block \o events, d, None), Mirrors(d, chain', late'),
           ChainOK(chain', late', fresh'), late' \subseteq Tokens,
           fresh' = DOMAIN chain'.classes \ DOMAIN committed.classes,
           DOMAIN chain.classes \subseteq DOMAIN chain'.classes
    PROVE  IInv'
  <1>1. PICK blk : blk = block \o events
    OBVIOUS
  <1>2. /\ phase = "chain" /\ messages' = messages + 1 /\ messages < MaxMessages
        /\ block' = blk /\ committed' = committed /\ work' = work /\ phase' = phase
        /\ pos' = pos /\ delayed' = delayed /\ cache' = cache /\ faults' = faults
    BY <1>1 DEF Message
  <1>3. Len(blk) \in Nat
    BY <1>1 DEF IsSeq
  <1>4. pos = 1 /\ messages \in 0..MaxMessages /\ faults \in 0..MaxFaults
        /\ cache \subseteq DOMAIN committed.classes
        /\ DOMAIN committed.classes \subseteq DOMAIN chain.classes
    BY <1>2 DEF IInv, Bounds
  <1>5. Bounds'
    <2>1. messages' \in 0..MaxMessages
      BY <1>2, <1>4, ParametersAssumption
    <2>2. pos' \in 1..Len(block') + 1
      BY <1>2, <1>3, <1>4
    <2>3. IsSeq(block')
      BY <1>1, <1>2
    <2> QED
      BY <1>2, <1>4, <2>1, <2>2, <2>3 DEF Bounds
  <1>6. work = committed /\ delayed = None
    <2>1. PICK dbs, waits : /\ Replay(dbs, waits, block)
                            /\ work = dbs[pos - 1] /\ delayed = waits[pos - 1]
      BY DEF IInv, History
    <2> QED
      BY <1>4, <2>1 DEF Replay
  <1>7. PICK dbs, waits : /\ Replay(dbs, waits, blk)
                          /\ dbs[Len(blk)] = d /\ waits[Len(blk)] = None
    BY <1>1 DEF Ends
  <1>8. Replay(dbs, waits, blk)'
    <2>1. \A c : KnownClass(c)' <=> KnownClass(c)
      BY <1>2 DEF KnownClass
    <2> QED
      BY <1>2, <1>7, <2>1, ReplaySame
  <1>9. History'
    <2>1. dbs[0] = committed /\ waits[0] = None
      BY <1>7 DEF Replay
    <2>2. work' = dbs[pos' - 1] /\ delayed' = waits[pos' - 1]
      BY <1>2, <1>4, <1>6, <2>1
    <2>3. Replay(dbs, waits, block)'
      BY <1>2, <1>8
    <2>4. waits[Len(block')] = None /\ Mirrors(dbs[Len(block')], chain', late')
      BY <1>2, <1>7
    <2> QED
      BY <2>2, <2>3, <2>4 DEF History
  <1> QED
    BY <1>5, <1>9 DEF IInv

\* MsgCreateEntity keeps the invariant: its events play as CreateEntityPlays says.
LEMMA CreateEntityKeeps ==
    ASSUME IInv, NEW e \in Entities, NEW a \in Accounts, MsgCreateEntity(e, a)
    PROVE  IInv'
  <1>1. PICK ch, ch2 : ch = chain /\ ch2 = [ch EXCEPT !.owners[e] = a]
    OBVIOUS
  <1>2. /\ ch.owners[e] = None /\ chain' = ch2
        /\ Message(<<NftMint(e, a), IidCreated(e), EntityCreated(e)>>)
        /\ fresh' = fresh /\ late' = late
    BY <1>1 DEF MsgCreateEntity
  <1>3. /\ ChainOK(ch, late, fresh) /\ late \subseteq Tokens
        /\ fresh = DOMAIN ch.classes \ DOMAIN committed.classes
    BY <1>1 DEF IInv, Bounds
  <1>4. PICK d : Ends(block, d, None) /\ DbOK(d) /\ Mirrors(d, ch, late)
    BY <1>1, BlockPlays
  <1>5. ch \in Chains /\ IsSeq(block)
    BY <1>1, BlockPlays
  <1>6. PICK d2 : /\ Ends(block \o <<NftMint(e, a), IidCreated(e), EntityCreated(e)>>, d2, None)
                  /\ Mirrors(d2, ch2, late)
    BY <1>1, <1>2, <1>4, <1>5, CreateEntityPlays
  <1>7. ChainOK(ch2, late, fresh)
    BY <1>1, <1>3, OwnersKeepChain
  <1>8. DOMAIN ch2.classes = DOMAIN ch.classes
    BY <1>1, <1>5 DEF Chains
  <1> QED
    BY <1>1, <1>2, <1>3, <1>5, <1>6, <1>7, <1>8, IsSeqConcat, MessageKeeps

\* So does MsgTransferEntity, ...
LEMMA TransferEntityKeeps ==
    ASSUME IInv, NEW e \in Entities, NEW a \in Accounts, MsgTransferEntity(e, a)
    PROVE  IInv'
  <1>1. PICK ch, ch2 : ch = chain /\ ch2 = [ch EXCEPT !.owners[e] = a]
    OBVIOUS
  <1>2. /\ ch.owners[e] # None /\ chain' = ch2
        /\ Message(<<NftTransfer(e, a)>>)
        /\ fresh' = fresh /\ late' = late
    BY <1>1 DEF MsgTransferEntity
  <1>3. /\ ChainOK(ch, late, fresh) /\ late \subseteq Tokens
        /\ fresh = DOMAIN ch.classes \ DOMAIN committed.classes
    BY <1>1 DEF IInv, Bounds
  <1>4. PICK d : Ends(block, d, None) /\ DbOK(d) /\ Mirrors(d, ch, late)
    BY <1>1, BlockPlays
  <1>5. ch \in Chains /\ IsSeq(block)
    BY <1>1, BlockPlays
  <1>6. PICK d2 : Ends(block \o <<NftTransfer(e, a)>>, d2, None) /\ Mirrors(d2, ch2, late)
    BY <1>1, <1>2, <1>4, <1>5, TransferEntityPlays
  <1>7. ChainOK(ch2, late, fresh)
    BY <1>1, <1>3, OwnersKeepChain
  <1>8. DOMAIN ch2.classes = DOMAIN ch.classes
    BY <1>1, <1>5 DEF Chains
  <1> QED
    BY <1>1, <1>2, <1>3, <1>5, <1>6, <1>7, <1>8, IsSeqConcat, MessageKeeps

\* ... MsgCreateToken, ...
LEMMA CreateTokenKeeps ==
    ASSUME IInv, NEW c \in Classes, NEW e \in Entities, MsgCreateToken(c, e)
    PROVE  IInv'
  <1>1. PICK ch, x : ch = chain /\ x = Linked(e)
    OBVIOUS
  <1>2. PICK ch2 : ch2 = [ch EXCEPT !.classes =
                            Put(@, c, [class |-> e, names |-> x, lists |-> NoLists])]
    OBVIOUS
  <1>3. /\ c \notin DOMAIN ch.classes /\ chain' = ch2
        /\ Message(<<ClassCreated(c, e)>>)
        /\ fresh' = fresh \cup {c} /\ late' = late
    BY <1>1, <1>2 DEF MsgCreateToken
  <1>4. /\ ChainOK(ch, late, fresh) /\ late \subseteq Tokens
        /\ fresh = DOMAIN ch.classes \ DOMAIN committed.classes
    BY <1>1 DEF IInv, Bounds
  <1>5. PICK d : Ends(block, d, None) /\ DbOK(d) /\ Mirrors(d, ch, late)
    BY <1>1, BlockPlays
  <1>6. ch \in Chains /\ IsSeq(block)
    BY <1>1, BlockPlays
  <1>7. /\ ch.owners[e] # None => x = e
        /\ ch.owners[e] = None => x = None
        /\ x \in Entities \cup {None}
    BY <1>1 DEF Linked
  <1>8. PICK d2 : Ends(block \o <<ClassCreated(c, e)>>, d2, None) /\ Mirrors(d2, ch2, late)
    BY <1>2, <1>3, <1>5, <1>6, <1>7, CreateTokenPlays
  <1>9. ChainOK(ch2, late, fresh \cup {c})
    BY <1>2, <1>3, <1>4, <1>7, CreateTokenKeepsChain
  <1>10. DOMAIN ch2.classes = DOMAIN ch.classes \cup {c}
    BY <1>2, <1>6 DEF Chains, Put
  <1>11. c \notin DOMAIN committed.classes
    BY <1>1, <1>3 DEF IInv, Bounds
  <1>12. fresh' = DOMAIN ch2.classes \ DOMAIN committed.classes
    BY <1>3, <1>4, <1>10, <1>11
  <1> QED
    BY <1>1, <1>3, <1>4, <1>6, <1>8, <1>9, <1>10, <1>12, IsSeqConcat, MessageKeeps

\* ... MsgMintToken, ...
LEMMA MintTokenKeeps ==
    ASSUME IInv, NEW c \in Classes, NEW t \in Tokens, NEW a \in Accounts, NEW n \in MintAmounts,
           MsgMintToken(c, t, a, n)
    PROVE  IInv'
  <1>1. PICK ch : ch = chain
    OBVIOUS
  <1>2. PICK ch2 : AfterMint(ch, c, t, a, n, ch2)
    BY DEF AfterMint
  <1>3. /\ c \in DOMAIN ch.classes /\ ch.classOf[t] = None /\ chain' = ch2
        /\ Message(<<Moved(c, <<Transfer(None, a, n, t)>>), TokenMinted(t, c)>>)
        /\ fresh' = fresh /\ late' = IF c \in fresh THEN late \cup {t} ELSE late
    BY <1>1, <1>2 DEF MsgMintToken, AfterMint
  <1>4. /\ ChainOK(ch, late, fresh) /\ late \subseteq Tokens
        /\ fresh = DOMAIN ch.classes \ DOMAIN committed.classes
    BY <1>1 DEF IInv, Bounds
  <1>5. PICK d : Ends(block, d, None) /\ DbOK(d) /\ Mirrors(d, ch, late)
    BY <1>1, BlockPlays
  <1>6. /\ ch \in Chains /\ IsSeq(block) /\ Unminted(ch)
        /\ KnownClass(c) <=> c \notin fresh
    BY <1>1, <1>3, BlockPlays
  <1>7. PICK lt2 : lt2 = late'
    OBVIOUS
  <1>8. /\ late \subseteq lt2 /\ lt2 \subseteq Tokens
        /\ c \in fresh => t \in lt2
    BY <1>3, <1>4, <1>7
  <1>9. PICK d2 : /\ Ends(block \o <<Moved(c, <<Transfer(None, a, n, t)>>), TokenMinted(t, c)>>,
                          d2, None)
                  /\ Mirrors(d2, ch2, lt2)
    <2>1. ~ KnownClass(c) => t \in lt2
      BY <1>6, <1>8
    <2> QED
      BY <1>2, <1>3, <1>5, <1>6, <1>8, <2>1, MintPlays
  <1>10. ChainOK(ch2, lt2, fresh)
    BY <1>2, <1>3, <1>4, <1>8, MintKeepsChain
  <1>11. DOMAIN ch2.classes = DOMAIN ch.classes
    BY <1>2, <1>6 DEF Chains, AfterMint
  <1> QED
    BY <1>1, <1>3, <1>4, <1>6, <1>7, <1>8, <1>9, <1>10, <1>11, IsSeqConcat, MessageKeeps

\* ... MsgTransferToken: tokens of a class that is not known are late, ...
LEMMA TransferTokenKeeps ==
    ASSUME IInv, NEW c \in Classes, NEW a \in Accounts, NEW b \in Accounts,
           NEW S \in SUBSET Tokens, S # {}, NEW n \in Amounts, MsgTransferToken(c, a, b, S, n)
    PROVE  IInv'
  <1>1. PICK ch : ch = chain
    OBVIOUS
  <1>2. PICK ch2 : AfterTransfer(ch, a, b, S, n, ch2)
    BY DEF AfterTransfer
  <1>3. PICK ev : ev = Moved(c, BatchOf(a, b, S, n))
    OBVIOUS
  <1>4. /\ \A t \in S : ch.classOf[t] = c
        /\ chain' = ch2 /\ Message(<<ev>>)
        /\ fresh' = fresh /\ late' = late
    BY <1>1, <1>2, <1>3 DEF MsgTransferToken, AfterTransfer, BatchOf
  <1>5. /\ ChainOK(ch, late, fresh) /\ late \subseteq Tokens
        /\ fresh = DOMAIN ch.classes \ DOMAIN committed.classes
    BY <1>1 DEF IInv, Bounds
  <1>6. PICK d : Ends(block, d, None) /\ DbOK(d) /\ Mirrors(d, ch, late)
    BY <1>1, BlockPlays
  <1>7. ch \in Chains /\ IsSeq(block)
    BY <1>1, BlockPlays
  <1>8. ~ KnownClass(c) => S \subseteq late
    <2>1. ASSUME NEW t \in S, ~ KnownClass(c) PROVE t \in late
      <3>1. ch.classOf[t] = c /\ c # None /\ ch.classOf[t] \in DOMAIN ch.classes \cup {None}
        BY <1>1, <1>4, BlockPlays, NoneIsNothing
      <3>2. c \in fresh
        BY <1>1, <2>1, <3>1, BlockPlays
      <3> QED
        BY <1>1, <3>1, <3>2, BlockPlays
    <2> QED
      BY <2>1
  <1>9. PICK d2 : Ends(block \o <<ev>>, d2, None) /\ Mirrors(d2, ch2, late)
    BY <1>2, <1>3, <1>4, <1>6, <1>7, <1>8, TransferTokenPlays
  <1>10. ChainOK(ch2, late, fresh)
    BY <1>2, <1>4, <1>5, TransferKeepsChain
  <1>11. DOMAIN ch2.classes = DOMAIN ch.classes
    BY <1>2, <1>7 DEF Chains, AfterTransfer
  <1> QED
    BY <1>1, <1>4, <1>5, <1>7, <1>9, <1>10, <1>11, IsSeqConcat, MessageKeeps

\* ... MsgApprove ...
LEMMA ApproveKeeps ==
    ASSUME IInv, NEW c \in Classes, MsgApprove(c)
    PROVE  IInv'
  <1>1. PICK ev : ev = Moved(c, << [from |-> None, to |-> None] >>)
    OBVIOUS
  <1>2. Message(<<ev>>) /\ chain' = chain /\ fresh' = fresh /\ late' = late
    BY <1>1 DEF MsgApprove
  <1>3. /\ ChainOK(chain, late, fresh) /\ late \subseteq Tokens
        /\ fresh = DOMAIN chain.classes \ DOMAIN committed.classes
    BY DEF IInv, Bounds
  <1>4. PICK d : Ends(block, d, None) /\ DbOK(d) /\ Mirrors(d, chain, late)
    BY BlockPlays
  <1>5. IsSeq(block)
    BY BlockPlays
  <1>6. Ends(block \o <<ev>>, d, None)
    BY <1>1, <1>4, <1>5, ApprovePlays
  <1> QED
    BY <1>2, <1>3, <1>4, <1>5, <1>6, IsSeqConcat, MessageKeeps

\* ... and MsgBurnToken.
LEMMA BurnTokenKeeps ==
    ASSUME IInv, NEW c \in Classes, NEW t \in Tokens, NEW a \in Accounts, NEW n \in Amounts,
           NEW list \in {"retired", "cancelled"}, MsgBurnToken(c, t, a, n, list)
    PROVE  IInv'
  <1>1. PICK ch : ch = chain
    OBVIOUS
  <1>2. PICK e, x : e = ch.classes[c].class /\ x = Linked(ch.classes[c].class)
    OBVIOUS
  <1>3. PICK lists : lists = [ch.classes[c].lists EXCEPT ![list] =
                                Append(@, [token |-> t, amount |-> n, owner |-> a])]
    OBVIOUS
  <1>4. PICK ch2 : AfterBurn(ch, c, t, a, n, lists, x, ch2)
    BY DEF AfterBurn
  <1>5. /\ ch.classOf[t] = c /\ chain' = ch2
        /\ Message(<<Moved(c, <<Transfer(a, None, n, t)>>), ClassUpdated(c, e, lists)>>)
        /\ fresh' = fresh /\ late' = late
    BY <1>1, <1>2, <1>3, <1>4 DEF MsgBurnToken, AfterBurn
  <1>6. OneMore(ch.classes[c].lists, list, [token |-> t, amount |-> n, owner |-> a], lists)
    BY <1>3 DEF OneMore
  <1>7. /\ ChainOK(ch, late, fresh) /\ late \subseteq Tokens
        /\ fresh = DOMAIN ch.classes \ DOMAIN committed.classes
    BY <1>1 DEF IInv, Bounds
  <1>8. PICK d : Ends(block, d, None) /\ DbOK(d) /\ Mirrors(d, ch, late)
    BY <1>1, BlockPlays
  <1>9. ch \in Chains /\ IsSeq(block)
    BY <1>1, BlockPlays
  <1>10. c \in DOMAIN ch.classes
    BY <1>1, <1>5, BlockPlays, NoneIsNothing
  <1>11. OwnLists(ch, c) /\ (~ KnownClass(c) => t \in late)
    BY <1>1, <1>5, <1>10, BlockPlays
  <1>12. /\ ch.owners[e] # None => x = e
         /\ ch.owners[e] = None => x = None
         /\ x \in Entities \cup {None}
    <2>1. e \in Entities
      BY <1>2, <1>9, <1>10, ClassRow
    <2> QED
      BY <1>1, <1>2, <2>1 DEF Linked
  <1>13. PICK d2 : /\ Ends(block \o <<Moved(c, <<Transfer(a, None, n, t)>>),
                                      ClassUpdated(c, e, lists)>>, d2, None)
                   /\ Mirrors(d2, ch2, late)
    BY <1>2, <1>4, <1>5, <1>6, <1>8, <1>9, <1>10, <1>11, <1>12, BurnPlays
  <1>14. ChainOK(ch2, late, fresh)
    BY <1>4, <1>5, <1>6, <1>7, <1>10, <1>12, BurnKeepsChain
  <1>15. DOMAIN ch2.classes = DOMAIN ch.classes
    <2>1. BurnParts(ch, c, t, a, n, lists, x, ch2)
      BY <1>4, <1>9, <1>10, AfterBurnIs
    <2>2. PICK cl, cs : cl = ch.classes /\ cs = ch2.classes
      OBVIOUS
    <2>3. cs = [cl EXCEPT ![c] = [class |-> @.class, names |-> x, lists |-> lists]]
      BY <2>1, <2>2 DEF BurnParts
    <2> QED
      BY ONLY <2>2, <2>3
  <1> QED
    BY <1>1, <1>5, <1>7, <1>9, <1>13, <1>14, <1>15, IsSeqConcat, MessageKeeps

\* The block is complete: nothing changes but whose turn it is.
LEMMA BlockProducedKeeps ==
    ASSUME IInv, BlockProduced
    PROVE  IInv'
  <1>1. /\ chain' = chain /\ messages' = messages /\ block' = block /\ fresh' = fresh
        /\ late' = late /\ committed' = committed /\ work' = work /\ phase' = "index"
        /\ pos' = pos /\ delayed' = delayed /\ cache' = cache /\ faults' = faults
    BY DEF BlockProduced, chainVars
  <1>2. Bounds' /\ ChainOK(chain, late, fresh)'
    BY <1>1 DEF IInv, Bounds
  <1>3. History'
    <2>1. PICK dbs, waits : /\ Replay(dbs, waits, block)
                            /\ work = dbs[pos - 1] /\ delayed = waits[pos - 1]
                            /\ waits[Len(block)] = None
                            /\ Mirrors(dbs[Len(block)], chain, late)
      BY DEF IInv, History
    <2>2. PICK blk : blk = block
      OBVIOUS
    <2>3. Replay(dbs, waits, blk)'
      <3>1. \A c : KnownClass(c)' <=> KnownClass(c)
        BY <1>1 DEF KnownClass
      <3> QED
        BY <1>1, <2>1, <2>2, <3>1, ReplaySame
    <2> QED
      BY <1>1, <2>1, <2>2, <2>3 DEF History
  <1> QED
    BY <1>2, <1>3 DEF IInv

\* One event worked through is one step of the replay.
LEMMA NextEventKeeps ==
    ASSUME IInv, NextEvent
    PROVE  IInv'
  <1>1. PICK dbs, waits : /\ Replay(dbs, waits, block)
                          /\ work = dbs[pos - 1] /\ delayed = waits[pos - 1]
                          /\ waits[Len(block)] = None
                          /\ Mirrors(dbs[Len(block)], chain, late)
    BY DEF IInv, History
  <1>2. PICK blk, ev, p : blk = block /\ ev = block[pos] /\ p = pos
    OBVIOUS
  <1>3. /\ chain' = chain /\ messages' = messages /\ block' = blk /\ fresh' = fresh
        /\ late' = late /\ committed' = committed /\ phase' = phase /\ phase = "index"
        /\ pos' = p + 1 /\ faults' = faults
        /\ cache' = IF ev.type = "moved" /\ KnownClass(ev.class)
                    THEN cache \cup {ev.class} ELSE cache
    BY <1>2 DEF NextEvent, chainVars
  <1>4. /\ work' = IF Due THEN RunLater(Written(work, ev), delayed.later) ELSE Written(work, ev)
        /\ delayed' = Slot(Result(ev))
    BY <1>2 DEF NextEvent
  <1>5. p \in 1..Len(blk) /\ Len(blk) \in Nat
    BY <1>2 DEF NextEvent, IInv, Bounds, IsSeq
  <1>6. Steps(work, delayed, ev, dbs[p], waits[p])
    BY <1>1, <1>2, <1>5 DEF Replay
  <1>7. work' = dbs[p] /\ delayed' = waits[p]
    BY <1>4, <1>6 DEF Steps, Ready, Due, Slot
  <1>8. cache' \subseteq DOMAIN committed.classes
    <2>1. cache \subseteq DOMAIN committed.classes
      BY DEF IInv, Bounds
    <2>2. KnownClass(ev.class) => ev.class \in DOMAIN committed.classes
      BY KnownIsCommitted DEF IInv
    <2> QED
      BY <1>3, <2>1, <2>2
  <1>9. \A c : KnownClass(c)' <=> KnownClass(c)
    <2>1. \A c : KnownClass(c)' <=> c \in DOMAIN committed.classes
      BY <1>3, <1>8 DEF KnownClass
    <2> QED
      BY <2>1, KnownIsCommitted DEF IInv
  <1>10. Replay(dbs, waits, blk)'
    BY <1>1, <1>2, <1>3, <1>9, ReplaySame
  <1>11. History'
    <2>1. (p + 1) - 1 = p
      BY <1>5
    <2>2. work' = dbs[pos' - 1] /\ delayed' = waits[pos' - 1]
      BY <1>3, <1>7, <2>1
    <2> QED
      BY <1>1, <1>2, <1>3, <1>10, <2>2 DEF History
  <1>12. Bounds'
    <2>1. pos' \in 1..Len(block') + 1
      BY <1>3, <1>5
    <2> QED
      BY <1>2, <1>3, <1>8, <2>1 DEF IInv, Bounds
  <1>13. ChainOK(chain, late, fresh)'
    BY <1>3 DEF IInv
  <1> QED
    BY <1>11, <1>12, <1>13 DEF IInv

\* With an empty block there is nothing to replay.
LEMMA EmptyReplay ==
    ASSUME NEW d, DbOK(d), committed = d
    PROVE  Replay([i \in {0} |-> d], [i \in {0} |-> None], << >>)
  BY DEF Replay

\* The block is through, so what is committed mirrors the chain.
LEMMA CommitBlockKeeps ==
    ASSUME IInv, CommitBlock
    PROVE  IInv'
  <1>1. PICK d : d = work
    OBVIOUS
  <1>2. /\ chain' = chain /\ messages' = messages /\ late' = late /\ cache' = cache
        /\ faults' = faults /\ committed' = d /\ work' = d
        /\ phase' = "chain" /\ block' = << >> /\ fresh' = {} /\ pos' = 1 /\ delayed' = None
        /\ pos > Len(block)
    BY <1>1 DEF CommitBlock
  <1>3. PICK dbs, waits : /\ Replay(dbs, waits, block)
                          /\ work = dbs[pos - 1]
                          /\ Mirrors(dbs[Len(block)], chain, late)
    BY DEF IInv, History
  <1>4. pos - 1 = Len(block) /\ Len(block) \in Nat
    BY <1>2 DEF IInv, Bounds, IsSeq
  <1>5. DbOK(d) /\ Mirrors(d, chain, late)
    BY <1>1, <1>3, <1>4 DEF Replay
  <1>6. History'
    <2>1. PICK ds, ws : ds = [i \in {0} |-> d] /\ ws = [i \in {0} |-> None]
      OBVIOUS
    <2>2. Replay(ds, ws, << >>)'
      BY <1>2, <1>5, <2>1 DEF Replay
    <2> QED
      BY <1>2, <1>5, <2>1, <2>2 DEF History
  <1>7. DOMAIN d.classes = DOMAIN chain.classes
    BY <1>5 DEF Mirrors
  <1>8. Bounds'
    <2>1. IsSeq(<< >>) /\ 1 \in 1..Len(<< >>) + 1
      BY DEF IsSeq
    <2> QED
      BY <1>2, <1>7, <2>1 DEF IInv, Bounds
  <1>9. ChainOK(chain, late, fresh)'
    BY <1>2 DEF IInv, ChainOK, ClassesOf
  <1> QED
    BY <1>6, <1>8, <1>9 DEF IInv

\* Back to the start of the block, the replay of which is still the same.
LEMMA RollBackKeeps ==
    ASSUME IInv, RollBack, faults' \in 0..MaxFaults, cache' \subseteq cache
    PROVE  IInv'
  <1>1. PICK blk : blk = block
    OBVIOUS
  <1>2. /\ chain' = chain /\ messages' = messages /\ block' = blk /\ fresh' = fresh
        /\ late' = late /\ committed' = committed /\ work' = committed /\ phase' = phase
        /\ pos' = 1 /\ delayed' = None
    BY <1>1 DEF RollBack, chainVars
  <1>3. PICK dbs, waits : /\ Replay(dbs, waits, blk)
                          /\ waits[Len(blk)] = None
                          /\ Mirrors(dbs[Len(blk)], chain, late)
    BY <1>1 DEF IInv, History
  <1>4. cache' \subseteq DOMAIN committed.classes
    BY DEF IInv, Bounds
  <1>5. \A c : KnownClass(c)' <=> KnownClass(c)
    <2>1. \A c : KnownClass(c)' <=> c \in DOMAIN committed.classes
      BY <1>2, <1>4 DEF KnownClass
    <2> QED
      BY <2>1, KnownIsCommitted DEF IInv
  <1>6. Replay(dbs, waits, blk)'
    BY <1>2, <1>3, <1>5, ReplaySame
  <1>7. History'
    <2>1. work' = dbs[pos' - 1] /\ delayed' = waits[pos' - 1]
      BY <1>2, <1>3 DEF Replay
    <2> QED
      BY <1>2, <1>3, <1>6, <2>1 DEF History
  <1>8. Bounds'
    <2>1. pos' \in 1..Len(block') + 1
      BY <1>1, <1>2 DEF IInv, Bounds, IsSeq
    <2> QED
      BY <1>1, <1>2, <1>4, <2>1 DEF IInv, Bounds
  <1>9. ChainOK(chain, late, fresh)'
    BY <1>2 DEF IInv
  <1> QED
    BY <1>7, <1>8, <1>9 DEF IInv

\* The empty tables agree with their empty ledger.
LEMMA EmptyDbOK ==
    DbOK(EmptyDb)
  <1>1. PICK e : e = << >>
    OBVIOUS
  <1>2. DOMAIN e = {} /\ \A T : e \in [{} -> T]
    BY <1>1
  <1>3. \A S, T : e \in Maps(S, T)
    BY <1>2 DEF Maps
  <1>4. e \in Ledgers
    BY <1>2, <1>3, FS_EmptySet DEF Ledgers
  <1>5. EmptyDb = [iids |-> {}, owners |-> e, classes |-> e, tokens |-> e,
                   ledger |-> e, balances |-> e]
    BY <1>1 DEF EmptyDb
  <1>6. EmptyDb \in Db
    BY <1>3, <1>4, <1>5 DEF Db
  <1>7. \A h : Balance(EmptyDb, h) = NoHolding
    BY <1>2, <1>5 DEF Balance
  <1>8. ASSUME NEW h \in Holdings PROVE LedgerHolding(e, h[1], h[2]) = NoHolding
    <2>1. \A S : S \cap DOMAIN e = {}
      BY <1>2
    <2>2. Total(e, {}) = 0
      BY SumEmpty DEF Total
    <2>3. LedgerHolding(e, h[1], h[2]) = [amount |-> 0 - 0, minted |-> 0, retired |-> 0]
      BY <1>4, <2>1, <2>2, HoldingParts
    <2> QED
      BY <2>3 DEF NoHolding
  <1>9. LedgerAgrees(EmptyDb)
    BY <1>2, <1>5, <1>7, <1>8 DEF LedgerAgrees
  <1> QED
    BY <1>6, <1>9 DEF DbOK

\* Initially the chain and the tables are empty.
LEMMA InitIInv ==
    ASSUME Init
    PROVE  IInv
  <1>1. PICK d : d = EmptyDb
    OBVIOUS
  <1>2. /\ DbOK(d) /\ d.iids = {} /\ DOMAIN d.owners = {} /\ DOMAIN d.classes = {}
        /\ DOMAIN d.tokens = {} /\ DOMAIN d.balances = {}
    BY <1>1, EmptyDbOK DEF EmptyDb
  <1>3. /\ messages = 0 /\ block = << >> /\ fresh = {} /\ late = {} /\ committed = d
        /\ work = d /\ phase = "chain" /\ pos = 1 /\ delayed = None /\ cache = {} /\ faults = 0
        /\ chain = [owners  |-> [e \in Entities |-> None],
                    classes |-> << >>,
                    classOf |-> [t \in Tokens |-> None],
                    held    |-> Nothing,
                    minted  |-> Nothing,
                    retired |-> Nothing]
    BY <1>1 DEF Init
  <1>4. PICK ch : ch = chain
    OBVIOUS
  <1>5. /\ \A e \in Entities : ch.owners[e] = None
        /\ DOMAIN ch.classes = {}
        /\ \A t \in Tokens : ch.classOf[t] = None
        /\ \A h \in Holdings : ch.held[h] = 0 /\ ch.minted[h] = 0 /\ ch.retired[h] = 0
    BY <1>3, <1>4 DEF Nothing
  <1>6. ch \in Chains
    <2>1. PICK e, ow, cl, no : /\ e = << >> /\ ow = [x \in Entities |-> None]
                               /\ cl = [t \in Tokens |-> None] /\ no = Nothing
      OBVIOUS
    <2>2. e \in Maps(Classes, [class : Entities, names : Entities \cup {None}, lists : Lists])
      <3>1. PICK T : T = [class : Entities, names : Entities \cup {None}, lists : Lists]
        OBVIOUS
      <3>2. PICK D : D = DOMAIN e
        OBVIOUS
      <3>3. D \in SUBSET Classes /\ e \in [D -> T]
        BY <2>1, <3>2
      <3> QED
        BY <3>1, <3>3, MapsMake
    <2>3. /\ ow \in [Entities -> Accounts \cup {None}] /\ cl \in [Tokens -> Classes \cup {None}]
          /\ no \in [Holdings -> Int] /\ no \in [Holdings -> Nat]
      BY <2>1 DEF Nothing
    <2>4. ch = [owners |-> ow, classes |-> e, classOf |-> cl, held |-> no, minted |-> no,
                retired |-> no]
      BY <1>3, <1>4, <2>1
    <2> QED
      BY ONLY <2>2, <2>3, <2>4 DEF Chains
  <1>7. ChainOK(ch, {}, {})
    BY <1>5, <1>6, HoldingIsPair DEF ChainOK, ClassesOf, Unminted
  <1>8. Bounds
    <2>1. IsSeq(<< >>) /\ 1 \in 1..Len(<< >>) + 1
      BY DEF IsSeq
    <2> QED
      BY <1>2, <1>3, <1>4, <1>5, <2>1, ParametersAssumption DEF Bounds
  <1>9. Mirrors(d, ch, {})
    <2>1. \A h \in Holdings : Balance(d, h) = [amount  |-> ch.held[h],
                                               minted  |-> ch.minted[h],
                                               retired |-> ch.retired[h]]
      BY <1>2, <1>5 DEF Balance, NoHolding
    <2> QED
      BY <1>2, <1>5, <2>1 DEF Mirrors
  <1>10. History
    <2>1. PICK ds, ws : ds = [i \in {0} |-> d] /\ ws = [i \in {0} |-> None]
      OBVIOUS
    <2>2. Replay(ds, ws, << >>)
      BY <1>2, <1>3, <2>1, EmptyReplay
    <2> QED
      BY <1>3, <1>4, <1>9, <2>1, <2>2 DEF History
  <1> QED
    BY <1>3, <1>4, <1>7, <1>8, <1>10 DEF IInv

\* Every step keeps the invariant.
LEMMA StepIInv ==
    ASSUME IInv, [Next]_vars
    PROVE  IInv'
  <1>1. CASE Messages
    <2>1. CASE \E e \in Entities, a \in Accounts : MsgCreateEntity(e, a) \/ MsgTransferEntity(e, a)
      BY <2>1, CreateEntityKeeps, TransferEntityKeeps
    <2>2. ASSUME NEW c \in Classes, NEW e \in Entities, MsgCreateToken(c, e) PROVE IInv'
      BY <2>2, CreateTokenKeeps
    <2>3. ASSUME NEW c \in Classes, MsgApprove(c) PROVE IInv'
      BY <2>3, ApproveKeeps
    <2>4. ASSUME NEW c \in Classes, NEW t \in Tokens, NEW a \in Accounts,
                 NEW n \in MintAmounts, MsgMintToken(c, t, a, n)
          PROVE  IInv'
      BY <2>4, MintTokenKeeps
    <2>5. ASSUME NEW c \in Classes, NEW t \in Tokens, NEW a \in Accounts, NEW n \in Amounts,
                 NEW list \in {"retired", "cancelled"}, MsgBurnToken(c, t, a, n, list)
          PROVE  IInv'
      BY <2>5, BurnTokenKeeps
    <2>6. ASSUME NEW c \in Classes, NEW a \in Accounts, NEW b \in Accounts,
                 NEW S \in (SUBSET Tokens) \ {{}}, NEW n \in Amounts,
                 MsgTransferToken(c, a, b, S, n)
          PROVE  IInv'
      <3>1. S \in SUBSET Tokens /\ S # {}
        OBVIOUS
      <3> QED
        BY <2>6, <3>1, TransferTokenKeeps
    <2> QED
      BY <1>1, <2>1, <2>2, <2>3, <2>4, <2>5, <2>6 DEF Messages
  <1>2. CASE BlockProduced
    BY <1>2, BlockProducedKeeps
  <1>3. CASE NextEvent
    BY <1>3, NextEventKeeps
  <1>4. CASE CommitBlock
    BY <1>4, CommitBlockKeeps
  <1>5. CASE EventFails
    <2>1. RollBack /\ cache' = cache /\ faults' \in 0..MaxFaults
      <3>1. faults \in 0..MaxFaults
        BY DEF IInv, Bounds
      <3> QED
        BY <1>5, <3>1, ParametersAssumption DEF EventFails
    <2> QED
      BY <2>1, RollBackKeeps
  <1>6. CASE Crash
    <2>1. RollBack /\ cache' = {} /\ faults' \in 0..MaxFaults
      <3>1. faults \in 0..MaxFaults
        BY DEF IInv, Bounds
      <3> QED
        BY <1>6, <3>1, ParametersAssumption DEF Crash
    <2> QED
      BY <2>1, RollBackKeeps
  <1>7. CASE UNCHANGED vars
    <2>1. /\ chain' = chain /\ messages' = messages /\ block' = block /\ fresh' = fresh
          /\ late' = late /\ committed' = committed /\ work' = work /\ phase' = phase
          /\ pos' = pos /\ delayed' = delayed /\ cache' = cache /\ faults' = faults
      BY <1>7 DEF vars, chainVars
    <2>2. PICK blk : blk = block
      OBVIOUS
    <2>3. PICK dbs, waits : /\ Replay(dbs, waits, blk)
                            /\ work = dbs[pos - 1] /\ delayed = waits[pos - 1]
                            /\ waits[Len(blk)] = None
                            /\ Mirrors(dbs[Len(blk)], chain, late)
      BY <2>2 DEF IInv, History
    <2>4. Replay(dbs, waits, blk)'
      <3>1. \A c : KnownClass(c)' <=> KnownClass(c)
        BY <2>1 DEF KnownClass
      <3> QED
        BY <2>1, <2>3, <3>1, ReplaySame
    <2>5. History'
      BY <2>1, <2>2, <2>3, <2>4 DEF History
    <2>6. Bounds' /\ ChainOK(chain, late, fresh)'
      BY <2>1 DEF IInv, Bounds
    <2> QED
      BY <2>5, <2>6 DEF IInv
  <1> QED
    BY <1>1, <1>2, <1>3, <1>4, <1>5, <1>6, <1>7 DEF Next, Index

\* So it always holds.
LEMMA Invariance ==
    Spec => []IInv
  BY InitIInv, StepIInv, PTL DEF Spec

----------------------------------------------------------------------------
(* What follows from it. *)

\* Both transactions see tables of the history.
LEMMA Tables ==
    ASSUME IInv
    PROVE  /\ DbOK(committed) /\ DbOK(work)
           /\ delayed \in Waiting \cup {None}
  <1>1. PICK dbs, waits : /\ Replay(dbs, waits, block)
                          /\ work = dbs[pos - 1] /\ delayed = waits[pos - 1]
    BY DEF IInv, History
  <1>2. 0 \in 0..Len(block) /\ pos - 1 \in 0..Len(block)
    BY DEF IInv, Bounds, IsSeq
  <1> QED
    BY <1>1, <1>2 DEF Replay

\* Between two blocks the committed tables mirror the chain.
LEMMA UpToDateMirrors ==
    ASSUME IInv, UpToDate
    PROVE  Mirrors(committed, chain, late)
  <1>1. PICK dbs, waits : Replay(dbs, waits, block) /\ Mirrors(dbs[Len(block)], chain, late)
    BY DEF IInv, History
  <1>2. Len(block) = 0
    BY DEF UpToDate
  <1> QED
    BY <1>1, <1>2 DEF Replay

\* The rows, the slot and the counters keep their types.
THEOREM TypeCorrect == Spec => []TypeOK
  <1>1. ASSUME IInv PROVE TypeOK
    <2>1. Bounds /\ chain \in Chains
      BY <1>1 DEF IInv, ChainOK
    <2>2. fresh \subseteq Classes /\ cache \subseteq Classes
      BY <2>1, ChainType, MapsType DEF Bounds
    <2>3. ASSUME NEW db, DbOK(db)
          PROVE  /\ db.iids \subseteq Entities
                 /\ DOMAIN db.owners \subseteq Entities
                 /\ \A e \in DOMAIN db.owners : db.owners[e] \in Accounts \cup {None}
                 /\ DOMAIN db.classes \subseteq Classes
                 /\ DOMAIN db.tokens \subseteq Tokens
                 /\ DOMAIN db.balances \subseteq Holdings
                 /\ \A h \in DOMAIN db.balances : db.balances[h] \in Holding
      BY <2>3, DbMaps, MapsType
    <2>4. DbOK(committed) /\ DbOK(work) /\ delayed \in Waiting \cup {None}
      BY <1>1, Tables
    <2> QED
      BY <2>1, <2>2, <2>3, <2>4 DEF TypeOK, Bounds
  <1> QED
    BY <1>1, Invariance, PTL

\* Whenever the database is up to date, every entity's owner is the chain's,
\* although the mint that gives it precedes the row (the delayed function).
THEOREM OwnersHold == Spec => []OwnersMatch
  <1>1. ASSUME IInv PROVE OwnersMatch
    <2>1. ASSUME UpToDate, NEW e \in Entities
          PROVE  chain.owners[e] =
                    IF e \in DOMAIN committed.owners THEN committed.owners[e] ELSE None
      BY <1>1, <2>1, UpToDateMirrors DEF Mirrors
    <2> QED
      BY <2>1 DEF OwnersMatch
  <1> QED
    BY <1>1, Invariance, PTL

\* Whenever the database is up to date, every balance is the chain's, of all
\* tokens but those minted in the block that created their class, which the
\* read outside the block's transaction cannot see.
THEOREM BalancesHold == Spec => []BalancesMatch
  <1>1. ASSUME IInv PROVE BalancesMatch
    BY <1>1, UpToDateMirrors DEF Mirrors, BalancesMatch
  <1> QED
    BY <1>1, Invariance, PTL

\* At any moment the running totals of TokenBalance are the sums of the ledger,
\* and no row says nothing.
THEOREM LedgerSumsHold == Spec => []BalanceIsLedgerSum
  <1>1. ASSUME IInv PROVE BalanceIsLedgerSum
    BY <1>1, Tables DEF DbOK, LedgerAgrees, BalanceIsLedgerSum
  <1> QED
    BY <1>1, Invariance, PTL

\* What a class's lists say was burnt, each of its holders retired.
THEOREM BurnsHold == Spec => []BurnsAgree
  <1>1. ASSUME IInv PROVE BurnsAgree
    <2>1. ASSUME UpToDate, NEW c \in DOMAIN committed.classes, NEW h \in Holdings,
                 h[2] \in DOMAIN committed.tokens, committed.tokens[h[2]] = c, h[2] \notin late
          PROVE  Balance(committed, h).retired =
                    BurntOf(committed.classes[c].lists.retired, h)
                    + BurntOf(committed.classes[c].lists.cancelled, h)
      <3>1. Mirrors(committed, chain, late)
        BY <1>1, <2>1, UpToDateMirrors
      <3>2. /\ c \in DOMAIN chain.classes /\ chain.classOf[h[2]] = c
            /\ committed.classes[c].lists = chain.classes[c].lists
            /\ Balance(committed, h) = [amount  |-> chain.held[h],
                                        minted  |-> chain.minted[h],
                                        retired |-> chain.retired[h]]
        BY <2>1, <3>1 DEF Mirrors
      <3>3. BurnsTold(chain, c)
        BY <1>1, <3>2 DEF IInv, ChainOK
      <3> QED
        BY <3>2, <3>3 DEF BurnsTold
    <2> QED
      BY <2>1 DEF BurnsAgree, BurntOf
  <1> QED
    BY <1>1, Invariance, PTL

\* Whenever the database is up to date, a class is linked to the entity it
\* names exactly if the chain has it.
THEOREM ClassLinksHold == Spec => []ClassLinksMatch
  <1>1. ASSUME IInv PROVE ClassLinksMatch
    BY <1>1, UpToDateMirrors DEF Mirrors, ClassLinksMatch
  <1> QED
    BY <1>1, Invariance, PTL

\* The delayed function has always run when the block's events are through.
THEOREM NothingLeft == Spec => []NothingLeftWaiting
  <1>1. ASSUME IInv PROVE NothingLeftWaiting
    <2>1. ASSUME pos > Len(block) PROVE delayed = None
      <3>1. PICK dbs, waits : delayed = waits[pos - 1] /\ waits[Len(block)] = None
        BY <1>1 DEF IInv, History
      <3>2. pos - 1 = Len(block)
        BY <1>1, <2>1 DEF IInv, Bounds, IsSeq
      <3> QED
        BY <3>1, <3>2
    <2> QED
      BY <2>1 DEF NothingLeftWaiting
  <1> QED
    BY <1>1, Invariance, PTL

\* No event the chain emits is refused by a key of the tables.
THEOREM NeverRefusedHolds == Spec => []NeverRefused
  <1>1. ASSUME IInv PROVE NeverRefused
    <2>1. ASSUME pos <= Len(block) PROVE Accepted
      <3>1. PICK dbs, waits : /\ Replay(dbs, waits, block)
                              /\ work = dbs[pos - 1] /\ delayed = waits[pos - 1]
        BY <1>1 DEF IInv, History
      <3>2. pos \in 1..Len(block)
        BY <1>1, <2>1 DEF IInv, Bounds, IsSeq
      <3>3. Steps(work, delayed, block[pos], dbs[pos], waits[pos])
        BY <3>1, <3>2 DEF Replay
      <3> QED
        BY <3>3 DEF Steps, Ready, Accepted, AcceptsLater, Due
    <2> QED
      BY <2>1 DEF NeverRefused, Refused
  <1> QED
    BY <1>1, Invariance, PTL
===============================================================================
