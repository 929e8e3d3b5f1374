--------------------------- MODULE DaoStakingProofs ---------------------------
(***************************************************************************)
(* Theorems of DaoStaking: types, the rows of stakers, members, NFTs and   *)
(* claims, and the weights of the voting modules.                          *)
(*                                                                         *)
(* The indexer is always at some event of the block, and an event says     *)
(* what the chain was then: `past` is the chain's history in the block,    *)
(* past[i] what it was after i events.  Stakes and claims are kept by      *)
(* adding what the events say, so they are past[pos - 1]'s; NFTs and group *)
(* members are read from the end of the block, so they are the chain's as  *)
(* far as no event still to be processed is about them.                    *)
(***************************************************************************)
EXTENDS DaoStaking, SumLemmas, SequenceTheorems

Resting == TokenModules \cup GroupModules
Holders == Fungible \X Members
Keepers == NftModules \X Members
GroupHolders == Groups \X Members
Entries == [what : Amounts \cup Nfts, release : Nat]

\* What a moment of a block is told apart by.
Moments ==
    [created : SUBSET (Modules \cup Contracts), linked : SUBSET Resting,
     staked : [Holders -> Nat], queue : [Holders -> Seq(Entries)]]

Moment(cr, st, qu) ==
    [created |-> cr, linked |-> Resting \cap cr, staked |-> st,
     queue |-> [h \in Holders |-> qu[h]]]

Now == Moment(created, staked, queue)

Creations ==
    [type : {"module"}, contract : Modules, member : {None}]
    \cup [type : {"contract"}, contract : Stakings \cup Groups, member : {None}]
Links == [type : {"link"}, contract : Resting, member : Stakings \cup Groups]
Moves == [type : {"stake", "unstake"}, contract : Fungible, member : Members, amount : Amounts]
NftMoves == [type : {"stakeNft", "unstakeNft"}, contract : NftModules, member : Members]
Payments == [type : {"claim"}, contract : Fungible \cup NftModules, member : Members]
GroupMoves == [type : {"members"}, contract : Groups, member : {None}]
Events == Creations \cup Links \cup Moves \cup NftMoves \cup Payments \cup GroupMoves

ModuleRows == [base : Stakings \cup Groups \cup {None}, weight : Int]

IsTable(f, S, T) == DOMAIN f \subseteq S /\ \A h \in DOMAIN f : f[h] \in T

ChainTypes ==
    /\ height \in 1..MaxHeight
    /\ sealed \in BOOLEAN /\ (sealed => height < MaxHeight)
    /\ events \in Seq(Events)
    /\ messages \in 0..MaxMessages
    /\ created \subseteq Modules \cup Contracts
    /\ staked \in [Holders -> Nat]
    /\ weights \in [GroupHolders -> Nat]
    /\ kept \in [Keepers -> SUBSET Nfts]
    /\ queue \in [(Fungible \cup NftModules) \X Members -> Seq(Entries)]

\* The claims table, of which those on stakes matter here.
IsClaims(bag) ==
    /\ IsABag(bag) /\ IsFiniteSet(DOMAIN bag)
    /\ \A q \in DOMAIN bag : q.contract \in Fungible => q.release \in Nat

RowTypes ==
    /\ IsTable(modules, Modules, ModuleRows)
    /\ IsTable(stakers, (Fungible \cap known) \X Members, Int)
    /\ IsTable(members, GroupHolders, Nat)
    /\ nftRows \subseteq (NftModules \cap known) \X Members \X Nfts
    /\ IsClaims(claims)

TableTypes ==
    /\ pos \in 1..Len(events) + 1 /\ (~ sealed => pos = 1)
    /\ snapDone \in BOOLEAN
    /\ known \subseteq created
    /\ RowTypes

----------------------------------------------------------------------------
(* The history of the block. *)

IsCreation(e) == e.type \in {"module", "contract"}
IsMove(e) == e.type \in {"stake", "unstake"}
Delayed(e) == e.type = "unstake" /\ Duration[e.contract] # 0

\* What an event at the height h tells of two moments.
Step(M, e, N, h) ==
    /\ IF IsCreation(e) THEN e.contract \notin M.created /\ N.created = M.created \cup {e.contract}
       ELSE /\ e.contract \in M.created \/ (e.type = "claim" /\ e.contract \in NftModules)
            /\ N.created = M.created
    /\ IF e.type = "link"
       THEN /\ e.member \in M.created /\ e.member = Base[e.contract]
            /\ N.linked = M.linked \cup {e.contract}
       ELSE N.linked = M.linked
    /\ N.staked = IF IsMove(e)
                  THEN [M.staked EXCEPT ![<<e.contract, e.member>>] =
                            IF e.type = "stake" THEN @ + e.amount ELSE @ - e.amount]
                  ELSE M.staked
    /\ N.queue = IF e.type = "claim" /\ e.contract \in Fungible
                 THEN [M.queue EXCEPT ![<<e.contract, e.member>>] = Unripe(@, h)]
                 ELSE IF Delayed(e)
                 THEN [M.queue EXCEPT ![<<e.contract, e.member>>] =
                          Append(@, [what |-> e.amount, release |-> h + Duration[e.contract]])]
                 ELSE M.queue

\* What is not created has no stakes, and a link is to what is.
Grounded(M) ==
    /\ \A h \in Holders : h[1] \notin M.created => M.staked[h] = 0 /\ M.queue[h] = << >>
    /\ \A m \in M.linked : m \in M.created /\ Base[m] \in M.created

\* Nothing waits longer than from now on, ...
Released(M, h) == \A x \in Holders : \A i \in DOMAIN M.queue[x] :
                      M.queue[x][i].release <= h + Duration[x[1]]

\* ... and what was unstaked before not that long.
Before(M, h) == \A x \in Holders : \A i \in DOMAIN M.queue[x] :
                    M.queue[x][i].release < h + Duration[x[1]]

\* Stakes no event is about are the same all along.
Quiet(past, evs) ==
    \A h \in Holders :
        \/ \E j \in 1..Len(evs) : IsMove(evs[j]) /\ evs[j].contract = h[1]
        \/ \A i \in 0..Len(evs) : past[i].staked[h] = past[Len(evs)].staked[h]

Announced(past, evs) ==
    /\ \A i \in 0..Len(evs) : past[i].created \subseteq past[Len(evs)].created
    /\ \A c \in past[Len(evs)].created :
         c \in past[0].created \/ \E j \in 1..Len(evs) : IsCreation(evs[j]) /\ evs[j].contract = c

\* The last entry of the queue was made in this block.
EndsIn(q, r) == q # << >> /\ q[Len(q)].release = r

Unstaked(past, evs, h) ==
    \A j \in 1..Len(evs) : Delayed(evs[j]) =>
        EndsIn(past[Len(evs)].queue[<<evs[j].contract, evs[j].member>>], h + Duration[evs[j].contract])

Tells(past, evs, h) ==
    /\ past \in [0..Len(evs) -> Moments]
    /\ \A i \in 1..Len(evs) : Step(past[i - 1], evs[i], past[i], h)
    /\ \A i \in 0..Len(evs) : Grounded(past[i]) /\ Released(past[i], h)
    /\ Before(past[0], h)
    /\ Resting \cap past[0].created \subseteq past[0].linked
    /\ Quiet(past, evs)
    /\ Announced(past, evs)
    /\ Unstaked(past, evs, h)

\* What is not created has no members and no NFTs.
ChainOK ==
    /\ \A h \in GroupHolders : h[1] \notin created => weights[h] = 0
    /\ \A h \in Keepers : h[1] \notin created => kept[h] = {}

----------------------------------------------------------------------------
(* What the tables hold. *)

\* The tables stand for the chain: there is no cutoff, or the snapshot is taken.
Live == Cutoff = 0 \/ snapDone

Asleep ==
    /\ modules = << >> /\ stakers = << >> /\ members = << >>
    /\ nftRows = {} /\ claims = EmptyBag /\ seen = {} /\ blurred = {}
    /\ height <= Cutoff
    /\ height = Cutoff => pos = 1

\* A group's members have still to be read.
MembersPending(evs, p, c) ==
    \E j \in p..Len(evs) : evs[j].type \in {"contract", "members"} /\ evs[j].contract = c

NftPending(evs, p, h, types) ==
    \E j \in p..Len(evs) : evs[j].type \in types /\ evs[j].contract = h[1] /\ evs[j].member = h[2]

ModulesSeen(mods, kn, M) ==
    /\ DOMAIN mods = kn \cap Modules
    /\ \A m \in DOMAIN mods : mods[m].base = IF m \in M.linked THEN Base[m] ELSE None

Amount(rows, h) == IF h \in DOMAIN rows THEN rows[h] ELSE 0

StakersSeen(rows, blur, M) ==
    \A h \in Holders : h[1] \notin blur =>
        /\ Amount(rows, h) = M.staked[h]
        /\ h \in DOMAIN rows => rows[h] # 0

Empty(wts, c) == \A a \in Members : wts[<<c, a>>] = 0

MembersSeen(rows, wts, evs, p) ==
    \A c \in Groups : \/ MembersPending(evs, p, c)
                      \/ Empty(wts, c)
                      \/ \A a \in Members : Amount(rows, <<c, a>>) = wts[<<c, a>>]

NftsSeen(rows, sn, kp, evs, p) ==
    \A h \in Keepers :
        /\ \/ NftPending(evs, p, h, {"unstakeNft"})
           \/ \A x \in Nfts : <<h[1], h[2], x>> \in rows => x \in kp[h]
        /\ \/ NftPending(evs, p, h, {"stakeNft", "unstakeNft"})
           \/ Cutoff # 0 /\ h \notin sn
           \/ \A x \in kp[h] : <<h[1], h[2], x>> \in rows

CountOf(rows, m) == Cardinality({r \in rows : r[1] = m})

WeightsSeen(mods, st, mem, rows, wts, evs, p, M) ==
    \A m \in DOMAIN mods :
        /\ m \in NftModules => mods[m].weight = CountOf(rows, m)
        /\ m \in CoinModules => mods[m].weight = SumOver(st, m)
        /\ m \in TokenModules \cap M.linked => mods[m].weight = SumOver(st, Base[m])
        /\ m \in GroupModules \cap M.linked =>
             \/ MembersPending(evs, p, Base[m])
             \/ Empty(wts, Base[m])
             \/ mods[m].weight = SumOver(mem, Base[m])

\* How many wait that were unstaked since the cutoff and are due at t or later.
Counts(q, i, c, t) == q[i].release - Duration[c] >= Cutoff /\ q[i].release >= t
Waiting(q, c, t) == Cardinality({i \in DOMAIN q : Counts(q, i, c, t)})

Due(bag, c, a, t) == {q \in DOMAIN bag : q.contract = c /\ q.member = a /\ q.release >= t}
Listed(bag, c, a, t) == SumFunctionOnSet(bag, Due(bag, c, a, t))

ClaimsSeen(bag, M) ==
    \A h \in Holders : \A t \in Nat : Listed(bag, h[1], h[2], t) = Waiting(M.queue[h], h[1], t)

Rows(M) ==
    /\ ModulesSeen(modules, known, M)
    /\ StakersSeen(stakers, blurred, M)
    /\ MembersSeen(members, weights, events, pos)
    /\ NftsSeen(nftRows, seen, kept, events, pos)
    /\ WeightsSeen(modules, stakers, members, nftRows, weights, events, pos, M)
    /\ ClaimsSeen(claims, M)

Indexer(M) ==
    /\ known = M.created
    /\ snapDone => height >= Cutoff
    /\ Live => Rows(M)
    /\ ~ Live => Asleep

History(past) == Tells(past, events, height) /\ past[Len(events)] = Now

IInv ==
    /\ ChainTypes
    /\ TableTypes
    /\ ChainOK
    /\ \E past : History(past) /\ Indexer(past[pos - 1])

----------------------------------------------------------------------------
(* Helpers. *)

\* A contract has one code: the kinds are disjoint.
LEMMA Kinds ==
    /\ \A c \in CoinModules : c \notin NftModules /\ c \notin TokenModules
                              /\ c \notin Stakings /\ c \notin GroupModules /\ c \notin Groups
    /\ \A c \in NftModules : c \notin TokenModules /\ c \notin Stakings
                             /\ c \notin GroupModules /\ c \notin Groups
    /\ \A c \in TokenModules : c \notin Stakings /\ c \notin GroupModules /\ c \notin Groups
    /\ \A c \in Stakings : c \notin GroupModules /\ c \notin Groups
    /\ \A c \in GroupModules : c \notin Groups
    /\ \A m \in TokenModules : Base[m] \in Stakings
    /\ \A m \in GroupModules : Base[m] \in Groups
    /\ None \notin Stakings /\ None \notin Groups
  BY DaoParameters DEF Contracts, Fungible

\* The constants that are numbers.
LEMMA Numbers ==
    /\ Cutoff \in Nat /\ MaxMessages \in Nat /\ MaxHeight \in Nat /\ MaxHeight # 0
    /\ \A n \in Amounts : n \in Nat /\ n # 0
    /\ \A c \in Fungible \cup NftModules : Duration[c] \in Nat
  BY DaoParameters DEF Contracts

\* What the fields of an event are, by its type.
LEMMA EventKinds ==
    ASSUME NEW e \in Events
    PROVE  /\ e.type = "module" => e.contract \in Modules
           /\ e.type = "contract" => e.contract \in Stakings \cup Groups
           /\ e.type = "link" => e.contract \in Resting /\ e.member \in Stakings \cup Groups
           /\ IsMove(e) => e.contract \in Fungible /\ e.member \in Members /\ e.amount \in Amounts
           /\ e.type \in {"stakeNft", "unstakeNft"} => e.contract \in NftModules /\ e.member \in Members
           /\ e.type = "claim" => e.contract \in Fungible \cup NftModules /\ e.member \in Members
           /\ e.type = "members" => e.contract \in Groups
           /\ e.type \in {"module", "contract", "link", "stake", "unstake", "stakeNft", "unstakeNft",
                          "claim", "members"}
  <1>1. CASE e \in Creations
    BY <1>1 DEF Creations, IsMove
  <1>2. CASE e \in Links
    BY <1>2 DEF Links, IsMove
  <1>3. CASE e \in Moves
    BY <1>3 DEF Moves, IsMove
  <1>4. CASE e \in NftMoves
    BY <1>4 DEF NftMoves, IsMove
  <1>5. CASE e \in Payments
    BY <1>5 DEF Payments, IsMove
  <1>6. CASE e \in GroupMoves
    BY <1>6 DEF GroupMoves, IsMove
  <1> QED
    BY <1>1, <1>2, <1>3, <1>4, <1>5, <1>6 DEF Events

\* Numbers 1 to n, of which some are selected, are finitely many.
LEMMA SomeOf ==
    ASSUME NEW n \in Nat, NEW S, S \subseteq 1..n
    PROVE  IsFiniteSet(S) /\ Cardinality(S) \in Nat
  <1>1. IsFiniteSet(1..n)
    BY FS_Interval
  <1> QED
    BY <1>1, FS_Subset, FS_CardinalityType

----------------------------------------------------------------------------
(* What is unstaked and waits. *)

\* How many wait is a number, ...
LEMMA WaitingNumber ==
    ASSUME NEW q \in Seq(Entries), NEW c, NEW t
    PROVE  Waiting(q, c, t) \in Nat
  <1>1. PICK S : S = {i \in DOMAIN q : Counts(q, i, c, t)}
    OBVIOUS
  <1>2. S \subseteq 1..Len(q) /\ Len(q) \in Nat
    BY <1>1
  <1> QED
    BY <1>1, <1>2, SomeOf DEF Waiting

\* An entry more counts if it counts.
LEMMA WaitingAppend ==
    ASSUME NEW q \in Seq(Entries), NEW e \in Entries, NEW c, NEW t
    PROVE  Waiting(Append(q, e), c, t) =
             Waiting(q, c, t) + (IF e.release - Duration[c] >= Cutoff /\ e.release >= t THEN 1 ELSE 0)
  <1>1. PICK S : S = {i \in DOMAIN q : Counts(q, i, c, t)}
    OBVIOUS
  <1>2. PICK r : r = Append(q, e)
    OBVIOUS
  <1>3. PICK T : T = {i \in DOMAIN r : Counts(r, i, c, t)}
    OBVIOUS
  <1>4. PICK n \in Nat : n = Len(q)
    OBVIOUS
  <1>5. DOMAIN q = 1..n /\ DOMAIN r = 1..n + 1 /\ r[n + 1] = e /\ \A i \in 1..n : r[i] = q[i]
    BY <1>2, <1>4
  <1>6. S \subseteq 1..n
    BY <1>1, <1>5
  <1>7. IsFiniteSet(S) /\ Cardinality(S) \in Nat
    BY <1>4, <1>6, SomeOf
  <1>8. \A i \in 1..n : i \in T <=> i \in S
    BY <1>1, <1>3, <1>4, <1>5 DEF Counts
  <1>9. \A i \in T : i \in 1..n \/ i = n + 1
    BY <1>3, <1>4, <1>5
  <1>10. n + 1 \in T <=> e.release - Duration[c] >= Cutoff /\ e.release >= t
    BY <1>3, <1>4, <1>5 DEF Counts
  <1>11. n + 1 \notin S
    BY <1>4, <1>6
  <1>12. Waiting(r, c, t) = Cardinality(T) /\ Waiting(q, c, t) = Cardinality(S)
    BY <1>1, <1>3 DEF Waiting
  <1>13. CASE n + 1 \in T
    <2>1. T = S \cup {n + 1}
      BY <1>6, <1>8, <1>9, <1>13
    <2>2. Cardinality(T) = Cardinality(S) + 1
      BY <1>7, <1>11, <2>1, FS_AddElement
    <2>3. e.release - Duration[c] >= Cutoff /\ e.release >= t
      BY <1>10, <1>13
    <2> QED
      BY <1>2, <1>12, <2>2, <2>3
  <1>14. CASE n + 1 \notin T
    <2>1. T = S
      BY <1>6, <1>8, <1>9, <1>14
    <2>2. ~ (e.release - Duration[c] >= Cutoff /\ e.release >= t)
      BY <1>10, <1>14
    <2> QED
      BY <1>2, <1>7, <1>12, <2>1, <2>2
  <1> QED
    BY <1>13, <1>14

\* ... and none where none counts.
LEMMA WaitingNone ==
    ASSUME NEW q \in Seq(Entries), NEW c, NEW t, \A i \in DOMAIN q : ~ Counts(q, i, c, t)
    PROVE  Waiting(q, c, t) = 0
  <1>1. {i \in DOMAIN q : Counts(q, i, c, t)} = {}
    OBVIOUS
  <1> QED
    BY <1>1, FS_EmptySet DEF Waiting

\* The entries are gone through one by one.
Sifting(f, q, now, m) ==
    f = [i \in 0..m |-> IF i = 0 THEN << >>
                        ELSE IF q[i].release <= now THEN f[i - 1] ELSE Append(f[i - 1], q[i])]

\* The recursive function exists, so that CHOOSE picks it, ...
LEMMA SiftingExists ==
    ASSUME NEW q, NEW now, NEW m \in Nat
    PROVE  \E f : Sifting(f, q, now, m)
  <1> DEFINE G == {n \in Nat : \E f : Sifting(f, q, now, n)}
  <1>1. 0 \in G
    <2>1. PICK f : f = [i \in 0..0 |-> << >>]
      OBVIOUS
    <2>2. Sifting(f, q, now, 0)
      BY <2>1 DEF Sifting
    <2> QED
      BY <2>2
  <1>2. ASSUME NEW n \in G PROVE n + 1 \in G
    <2>0. n \in Nat /\ n + 1 \in Nat
      OBVIOUS
    <2>1. PICK f : Sifting(f, q, now, n)
      OBVIOUS
    <2>2. PICK x : x = IF q[n + 1].release <= now THEN f[n] ELSE Append(f[n], q[n + 1])
      OBVIOUS
    <2>3. PICK g : g = [i \in 0..n + 1 |-> IF i <= n THEN f[i] ELSE x]
      OBVIOUS
    <2>4. (\A i \in 0..n : g[i] = f[i]) /\ g[n + 1] = x /\ DOMAIN g = 0..n + 1
      BY <2>0, <2>3
    <2>5. ASSUME NEW i \in 0..n + 1
          PROVE  g[i] = IF i = 0 THEN << >>
                        ELSE IF q[i].release <= now THEN g[i - 1] ELSE Append(g[i - 1], q[i])
      <3>1. CASE i = n + 1
        <4>1. i # 0 /\ i - 1 = n /\ n \in 0..n
          BY <2>0, <3>1
        <4> QED
          BY <2>2, <2>4, <3>1, <4>1
      <3>2. CASE i # n + 1
        <4>1. i \in 0..n /\ (i # 0 => i - 1 \in 0..n)
          BY <2>0, <3>2
        <4>2. f[i] = IF i = 0 THEN << >>
                     ELSE IF q[i].release <= now THEN f[i - 1] ELSE Append(f[i - 1], q[i])
          BY <2>1, <4>1 DEF Sifting
        <4> QED
          BY <2>4, <4>1, <4>2
      <3> QED
        BY <3>1, <3>2
    <2>6. Sifting(g, q, now, n + 1)
      <3>1. g = [i \in 0..n + 1 |-> g[i]]
        BY <2>3
      <3> QED
        BY <2>5, <3>1 DEF Sifting
    <2> QED
      BY <2>0, <2>6
  <1>3. G = Nat
    <2> HIDE DEF G
    <2>1. G \in SUBSET Nat
      BY DEF G
    <2> QED
      BY <1>1, <1>2, <2>1, Induction
  <1> QED
    BY <1>3

\* ... and Unripe is its last value.
LEMMA UnripeSifts ==
    ASSUME NEW q, NEW now, Len(q) \in Nat
    PROVE  \E f : /\ f[0] = << >>
                  /\ \A i \in 1..Len(q) :
                       f[i] = IF q[i].release <= now THEN f[i - 1] ELSE Append(f[i - 1], q[i])
                  /\ Unripe(q, now) = f[Len(q)]
  <1> DEFINE C == CHOOSE f : Sifting(f, q, now, Len(q))
  <1>1. Sifting(C, q, now, Len(q))
    BY SiftingExists
  <1>2. Unripe(q, now) = C[Len(q)]
    BY DEF Unripe, Sifting
  <1> HIDE DEF C
  <1>3. C[0] = << >> /\ \A i \in 1..Len(q) :
            C[i] = IF q[i].release <= now THEN C[i - 1] ELSE Append(C[i - 1], q[i])
    <2>1. \A i \in 0..Len(q) :
             C[i] = IF i = 0 THEN << >>
                    ELSE IF q[i].release <= now THEN C[i - 1] ELSE Append(C[i - 1], q[i])
      BY <1>1 DEF Sifting
    <2>2. 0 \in 0..Len(q) /\ \A i \in 1..Len(q) : i \in 0..Len(q) /\ i # 0
      OBVIOUS
    <2> QED
      BY <2>1, <2>2
  <1> QED
    BY <1>2, <1>3

\* What is left is in order, came from the queue, and counts as far as it is
\* not due.
LEMMA UnripeKeeps ==
    ASSUME NEW q \in Seq(Entries), NEW now \in Nat
    PROVE  /\ Unripe(q, now) \in Seq(Entries)
           /\ \A i \in DOMAIN Unripe(q, now) : \E j \in DOMAIN q : Unripe(q, now)[i] = q[j]
           /\ EndsIn(q, q[Len(q)].release) /\ q[Len(q)].release > now =>
                EndsIn(Unripe(q, now), q[Len(q)].release)
  <1>1. PICK m \in Nat : m = Len(q) /\ DOMAIN q = 1..m
    OBVIOUS
  <1>2. PICK f : /\ f[0] = << >>
                 /\ \A i \in 1..m : f[i] = IF q[i].release <= now THEN f[i - 1] ELSE Append(f[i - 1], q[i])
                 /\ Unripe(q, now) = f[m]
    BY <1>1, UnripeSifts
  <1> DEFINE Good(s) == s \in Seq(Entries) /\ \A i \in DOMAIN s : \E j \in DOMAIN q : s[i] = q[j]
             G == {n \in Nat : n <= m => Good(f[n])}
  <1>3. 0 \in G
    <2>1. << >> \in Seq(Entries) /\ \A i \in DOMAIN << >> : FALSE
      OBVIOUS
    <2>2. Good(<< >>)
      BY <2>1
    <2> QED
      BY <1>2, <2>2
  <1>4. ASSUME NEW n \in G, n + 1 <= m PROVE Good(f[n + 1])
    <2>1. n \in Nat /\ n <= m /\ n + 1 \in 1..m
      BY <1>1, <1>4
    <2>2. Good(f[n])
      BY <2>1
    <2>3. f[n + 1] = IF q[n + 1].release <= now THEN f[n] ELSE Append(f[n], q[n + 1])
      BY <1>2, <2>1
    <2>4. q[n + 1] \in Entries /\ n + 1 \in DOMAIN q
      BY <1>1, <2>1
    <2>5. Good(Append(f[n], q[n + 1]))
      <3>1. PICK s : s = Append(f[n], q[n + 1])
        OBVIOUS
      <3>2. s \in Seq(Entries) /\ DOMAIN s = 1..Len(f[n]) + 1
            /\ s[Len(f[n]) + 1] = q[n + 1] /\ \A i \in 1..Len(f[n]) : s[i] = f[n][i]
        BY <2>2, <2>4, <3>1
      <3>3. \A i \in DOMAIN s : \E j \in DOMAIN q : s[i] = q[j]
        BY <2>2, <2>4, <3>2
      <3> QED
        BY <3>1, <3>2, <3>3
    <2> QED
      BY <2>2, <2>3, <2>5
  <1>5. G = Nat
    <2>1. \A n \in G : n + 1 \in G
      BY <1>4
    <2> HIDE DEF G
    <2>2. G \in SUBSET Nat
      BY DEF G
    <2> QED
      BY <1>3, <2>1, <2>2, Induction
  <1>6. Good(f[m])
    BY <1>1, <1>5
  <1>7. ASSUME EndsIn(q, q[Len(q)].release), q[Len(q)].release > now
        PROVE  EndsIn(Unripe(q, now), q[Len(q)].release)
    <2>1. m # 0
      BY <1>1, <1>7 DEF EndsIn
    <2>2. q[m] \in Entries /\ q[m].release > now
      BY <1>1, <1>7, <2>1
    <2>2a. ~ (q[m].release <= now) /\ m \in 1..m
      BY <1>1, <2>1, <2>2 DEF Entries
    <2>3. f[m] = Append(f[m - 1], q[m])
      BY <1>2, <2>2a
    <2>4. f[m - 1] \in Seq(Entries)
      <3>1. m - 1 \in Nat /\ m - 1 <= m
        BY <2>1
      <3>2. m - 1 \in G
        BY <1>5, <3>1
      <3> QED
        BY <3>1, <3>2
    <2> QED
      BY <1>1, <1>2, <2>2, <2>3, <2>4 DEF EndsIn
  <1> QED
    BY <1>2, <1>6, <1>7

\* As many are left that count from t on as counted that are not due.
LEMMA UnripeWaits ==
    ASSUME NEW q \in Seq(Entries), NEW now \in Nat, NEW c \in Fungible, NEW t \in Nat, NEW u \in Nat,
           u = (IF t > now THEN t ELSE now + 1)
    PROVE  Waiting(Unripe(q, now), c, t) = Waiting(q, c, u)
  <1>1. PICK m \in Nat : m = Len(q) /\ DOMAIN q = 1..m
    OBVIOUS
  <1>2. PICK f : /\ f[0] = << >>
                 /\ \A i \in 1..m : f[i] = IF q[i].release <= now THEN f[i - 1] ELSE Append(f[i - 1], q[i])
                 /\ Unripe(q, now) = f[m]
    BY <1>1, UnripeSifts
  <1> DEFINE p(n) == SubSeq(q, 1, n)
  <1> DEFINE G == {n \in Nat : n <= m => /\ f[n] \in Seq(Entries)
                                         /\ Waiting(f[n], c, t) = Waiting(p(n), c, u)}
  <1>3. 0 \in G
    <2>1. p(0) = << >>
      OBVIOUS
    <2>2. << >> \in Seq(Entries) /\ \A i \in DOMAIN << >> : FALSE
      OBVIOUS
    <2>3. Waiting(<< >>, c, t) = 0 /\ Waiting(<< >>, c, u) = 0
      BY <2>2, WaitingNone
    <2> QED
      BY <1>2, <2>1, <2>2, <2>3
  <1>4. ASSUME NEW n \in G, n + 1 <= m
        PROVE  f[n + 1] \in Seq(Entries) /\ Waiting(f[n + 1], c, t) = Waiting(p(n + 1), c, u)
    <2>1. n \in Nat /\ n <= m /\ n + 1 \in 1..m
      BY <1>1, <1>4
    <2>2. f[n] \in Seq(Entries) /\ Waiting(f[n], c, t) = Waiting(p(n), c, u)
      BY <2>1
    <2>3. f[n + 1] = IF q[n + 1].release <= now THEN f[n] ELSE Append(f[n], q[n + 1])
      BY <1>2, <2>1
    <2>4. PICK e : e = q[n + 1]
      OBVIOUS
    <2>5. e \in Entries /\ e.release \in Nat
      <3>1. e \in Entries
        BY <1>1, <2>1, <2>4
      <3> QED
        BY <3>1 DEF Entries
    <2>6. p(n) \in Seq(Entries) /\ p(n + 1) = Append(p(n), e)
      <3>1. \A i \in 1..n + 1 : q[i] \in Entries
        BY <1>1, <2>1
      <3>2. SubSeq(q, 1, n + 1) = SubSeq(q, 1, n) \o <<e>> /\ SubSeq(q, 1, n) \in Seq(Entries)
        BY <1>1, <2>1, <2>4, <3>1, SubSeqRecursiveSecond, SubSeqProperties
      <3> QED
        BY <2>5, <3>2
    <2>7. PICK r \in Seq(Entries) : r = p(n)
      BY <2>6
    <2>8. Waiting(Append(f[n], e), c, t) =
             Waiting(f[n], c, t) + (IF e.release - Duration[c] >= Cutoff /\ e.release >= t THEN 1 ELSE 0)
      BY <2>2, <2>5, WaitingAppend
    <2>9. Waiting(Append(r, e), c, u) =
             Waiting(r, c, u) + (IF e.release - Duration[c] >= Cutoff /\ e.release >= u THEN 1 ELSE 0)
      BY <2>5, WaitingAppend
    <2>10. Waiting(r, c, u) \in Nat
      BY WaitingNumber
    <2>11. e.release >= u <=> (e.release >= t /\ ~ (e.release <= now))
      BY <2>5
    <2>12. CASE e.release <= now
      <3>1. ~ (e.release >= u)
        BY <2>11, <2>12
      <3>2. Waiting(Append(r, e), c, u) = Waiting(r, c, u)
        BY <2>9, <2>10, <3>1
      <3> QED
        BY <2>2, <2>3, <2>4, <2>6, <2>7, <2>12, <3>2
    <2>13. CASE ~ (e.release <= now)
      <3>1. e.release >= u <=> e.release >= t
        BY <2>11, <2>13
      <3>2. Waiting(Append(r, e), c, u) = Waiting(Append(f[n], e), c, t)
        BY <2>2, <2>7, <2>8, <2>9, <3>1
      <3>3. f[n + 1] = Append(f[n], e) /\ f[n + 1] \in Seq(Entries)
        BY <2>2, <2>3, <2>4, <2>5, <2>13
      <3> QED
        BY <2>6, <2>7, <3>2, <3>3
    <2> QED
      BY <2>12, <2>13
  <1>5. G = Nat
    <2>1. \A n \in G : n + 1 \in G
      BY <1>4
    <2> HIDE DEF G
    <2>2. G \in SUBSET Nat
      BY DEF G
    <2> QED
      BY <1>3, <2>1, <2>2, Induction
  <1>6. Waiting(f[m], c, t) = Waiting(p(m), c, u)
    BY <1>1, <1>5
  <1>7. p(m) = q
    BY <1>1
  <1> QED
    BY <1>2, <1>6, <1>7

----------------------------------------------------------------------------
(* Sums over tables of rows. *)

Places == (Fungible \cup Groups) \X Members
Table(f) == IsTable(f, Places, Int)

\* The rows of one contract.
Part(f, c) == {h \in DOMAIN f : h[1] = c}

\* A contract has finitely many rows, ...
LEMMA PartFinite ==
    ASSUME NEW f, DOMAIN f \subseteq Places, NEW c
    PROVE  IsFiniteSet(Part(f, c))
  <1>1. IsFiniteSet({c}) /\ IsFiniteSet(Members)
    BY FS_Singleton, DaoParameters
  <1>2. PICK T : T = {c} \X Members
    OBVIOUS
  <1>3. IsFiniteSet(T)
    BY <1>1, <1>2, FS_Product
  <1>4. Part(f, c) \subseteq T
    BY <1>2 DEF Part, Places
  <1> QED
    BY <1>3, <1>4, FS_Subset

\* ... which have a sum.
LEMMA SumNumber ==
    ASSUME NEW f, Table(f), NEW c
    PROVE  SumOver(f, c) \in Int
  <1>1. IsFiniteSet(Part(f, c)) /\ IntValued(f, Part(f, c))
    BY PartFinite DEF Table, IsTable, IntValued, Part
  <1> QED
    BY <1>1, SumInt DEF SumOver, Part

\* Only the rows of the contract matter.
LEMMA SumSame ==
    ASSUME NEW f, NEW g, Table(f), NEW c,
           \A h : (h \in DOMAIN f /\ h[1] = c) <=> (h \in DOMAIN g /\ h[1] = c),
           \A h \in DOMAIN f : h[1] = c => g[h] = f[h]
    PROVE  SumOver(f, c) = SumOver(g, c)
  <1>1. IsFiniteSet(Part(f, c)) /\ IntValued(f, Part(f, c))
    BY PartFinite DEF Table, IsTable, IntValued, Part
  <1>2. Part(f, c) = Part(g, c) /\ \A h \in Part(f, c) : f[h] = g[h]
    BY DEF Part
  <1>3. SumFunctionOnSet(f, Part(f, c)) = SumFunctionOnSet(g, Part(f, c))
    BY <1>1, <1>2, SumCongruence
  <1> QED
    BY <1>2, <1>3 DEF SumOver, Part

\* Rows of zero do not count: zeros can be left out.
LEMMA SumZeros ==
    ASSUME NEW D, IsFiniteSet(D), NEW f, IntValued(f, D), NEW C \in SUBSET D, \A x \in D \ C : f[x] = 0
    PROVE  SumFunctionOnSet(f, D) = SumFunctionOnSet(f, C)
  <1> DEFINE Good(E) == SumFunctionOnSet(f, C \cup E) = SumFunctionOnSet(f, C)
             G == {n \in Nat : \A E \in SUBSET (D \ C) : Cardinality(E) = n => Good(E)}
  <1>0. ASSUME NEW E \in SUBSET (D \ C) PROVE IsFiniteSet(E) /\ IsFiniteSet(C \cup E) /\ Cardinality(E) \in Nat
    <2>1. E \subseteq D /\ C \cup E \subseteq D
      OBVIOUS
    <2> QED
      BY <2>1, FS_Subset, FS_CardinalityType
  <1>1. 0 \in G
    <2>1. \A E \in SUBSET (D \ C) : Cardinality(E) = 0 => C \cup E = C
      BY <1>0, FS_EmptySet
    <2>2. \A E \in SUBSET (D \ C) : Cardinality(E) = 0 => Good(E)
      BY <2>1
    <2> QED
      BY <2>2
  <1>2. ASSUME NEW n \in G PROVE n + 1 \in G
    <2>0. n \in Nat
      OBVIOUS
    <2>1. ASSUME NEW E \in SUBSET (D \ C), Cardinality(E) = n + 1 PROVE Good(E)
      <3>1. E # {}
        BY <2>0, <2>1, FS_EmptySet
      <3>2. PICK x : x \in E
        BY <3>1
      <3>3. PICK F \in SUBSET (D \ C) : F = E \ {x}
        OBVIOUS
      <3>4. Cardinality(F) = n
        <4>1. IsFiniteSet(E)
          BY <1>0
        <4>2. Cardinality(F) = Cardinality(E) - 1
          BY <4>1, <3>2, <3>3, FS_RemoveElement
        <4> QED
          BY <2>0, <2>1, <4>2
      <3>5. Good(F)
        BY <3>4
      <3>6. PICK A : A = C \cup F
        OBVIOUS
      <3>7. C \cup E = A \cup {x} /\ x \notin A /\ f[x] = 0
        BY <3>2, <3>3, <3>6
      <3>8. IsFiniteSet(A) /\ IntValued(f, A) /\ f[x] \in Int
        BY <1>0, <3>3, <3>6, <3>7 DEF IntValued
      <3>9. SumFunctionOnSet(f, A \cup {x}) = f[x] + SumFunctionOnSet(f, A)
        BY <3>7, <3>8, SumAdd
      <3>10. SumFunctionOnSet(f, A) \in Int
        BY <3>8, SumInt
      <3>11. SumFunctionOnSet(f, A \cup {x}) = SumFunctionOnSet(f, A)
        BY <3>7, <3>9, <3>10
      <3> QED
        BY <3>5, <3>6, <3>7, <3>11
    <2> QED
      BY <2>0, <2>1
  <1>3. G = Nat
    <2> HIDE DEF G
    <2>1. G \in SUBSET Nat
      BY DEF G
    <2> QED
      BY <1>1, <1>2, <2>1, Induction
  <1>4. PICK E \in SUBSET (D \ C) : E = D \ C
    OBVIOUS
  <1>5. Good(E)
    BY <1>0, <1>3, <1>4
  <1>6. C \cup E = D
    BY <1>4
  <1> QED
    BY <1>5, <1>6

\* Two tables with the same amounts have the same sums.
LEMMA SumAmounts ==
    ASSUME NEW f, NEW g, Table(f), Table(g), NEW c,
           \A h \in Places : h[1] = c => Amount(f, h) = Amount(g, h)
    PROVE  SumOver(f, c) = SumOver(g, c)
  <1>1. PICK C : C = Part(f, c) \cap Part(g, c)
    OBVIOUS
  <1>2. IsFiniteSet(Part(f, c)) /\ IntValued(f, Part(f, c)) /\ IsFiniteSet(Part(g, c)) /\ IntValued(g, Part(g, c))
    BY PartFinite DEF Table, IsTable, IntValued, Part
  <1>3. C \in SUBSET Part(f, c) /\ C \in SUBSET Part(g, c)
    BY <1>1
  <1>4. \A h \in Part(f, c) : h \in Places /\ h[1] = c /\ h \in DOMAIN f
    BY DEF Table, IsTable, Part
  <1>5. \A h \in Part(g, c) : h \in Places /\ h[1] = c /\ h \in DOMAIN g
    BY DEF Table, IsTable, Part
  <1>6. \A h \in Part(f, c) \ C : f[h] = 0
    BY <1>1, <1>4 DEF Amount, Part
  <1>7. \A h \in Part(g, c) \ C : g[h] = 0
    BY <1>1, <1>5 DEF Amount, Part
  <1>8. \A h \in C : f[h] = g[h]
    BY <1>1, <1>4, <1>5 DEF Amount
  <1>9. SumFunctionOnSet(f, Part(f, c)) = SumFunctionOnSet(f, C)
    BY <1>2, <1>3, <1>6, SumZeros
  <1>10. SumFunctionOnSet(g, Part(g, c)) = SumFunctionOnSet(g, C)
    BY <1>2, <1>3, <1>7, SumZeros
  <1>11. IsFiniteSet(C) /\ IntValued(f, C)
    BY <1>2, <1>3, FS_Subset DEF IntValued
  <1>12. SumFunctionOnSet(f, C) = SumFunctionOnSet(g, C)
    BY <1>8, <1>11, SumCongruence
  <1> QED
    BY <1>9, <1>10, <1>12 DEF SumOver, Part

\* A row that is put in the table moves the sum by what it changes.
LEMMA SumPut ==
    ASSUME NEW f, Table(f), NEW h \in Places, NEW d \in Int,
           NEW g, g = Put(f, h, Amount(f, h) + d)
    PROVE  /\ Table(g)
           /\ SumOver(g, h[1]) = SumOver(f, h[1]) + d
           /\ \A c : c # h[1] => SumOver(g, c) = SumOver(f, c)
  <1>0. Amount(f, h) \in Int
    BY DEF Amount, Table, IsTable
  <1>1. DOMAIN g = DOMAIN f \cup {h} /\ g[h] = Amount(f, h) + d /\ \A x \in DOMAIN f : x # h => g[x] = f[x]
    BY DEF Put
  <1>2. Table(g)
    BY <1>0, <1>1 DEF Table, IsTable
  <1>3. ASSUME NEW c, c # h[1] PROVE SumOver(g, c) = SumOver(f, c)
    <2>1. \A x : (x \in DOMAIN f /\ x[1] = c) <=> (x \in DOMAIN g /\ x[1] = c)
      BY <1>1, <1>3
    <2>2. \A x \in DOMAIN f : x[1] = c => g[x] = f[x]
      BY <1>1, <1>3
    <2> QED
      BY <2>1, <2>2, SumSame
  <1>4. SumOver(g, h[1]) = SumOver(f, h[1]) + d
    <2>1. PICK A : A = Part(f, h[1]) \ {h}
      OBVIOUS
    <2>2. PICK c : c = h[1]
      OBVIOUS
    <2>3. IsFiniteSet(Part(f, c)) /\ IntValued(f, Part(f, c)) /\ IsFiniteSet(Part(g, c)) /\ IntValued(g, Part(g, c))
      BY <1>2, PartFinite DEF Table, IsTable, IntValued, Part
    <2>4. h \in Part(g, c) /\ Part(g, c) \ {h} = A
      BY <1>1, <2>1, <2>2 DEF Part
    <2>5. SumFunctionOnSet(g, Part(g, c)) = g[h] + SumFunctionOnSet(g, A)
      BY <2>3, <2>4, SumRemove
    <2>6. IsFiniteSet(A) /\ IntValued(f, A) /\ \A x \in A : f[x] = g[x]
      <3>1. A \subseteq Part(f, c)
        BY <2>1, <2>2
      <3>2. \A x \in A : f[x] = g[x]
        BY <1>1, <2>1 DEF Part
      <3> QED
        BY <2>3, <3>1, <3>2, FS_Subset DEF IntValued
    <2>7. SumFunctionOnSet(f, A) = SumFunctionOnSet(g, A)
      BY <2>6, SumCongruence
    <2>8. SumFunctionOnSet(f, A) \in Int
      BY <2>6, SumInt
    <2>9. SumFunctionOnSet(f, Part(f, c)) = Amount(f, h) + SumFunctionOnSet(f, A)
      <3>1. CASE h \in DOMAIN f
        <4>1. h \in Part(f, c) /\ Amount(f, h) = f[h]
          BY <2>2, <3>1 DEF Part, Amount
        <4>2. Part(f, c) \ {h} = A
          BY <2>1, <2>2
        <4> QED
          BY <2>3, <4>1, <4>2, SumRemove
      <3>2. CASE h \notin DOMAIN f
        <4>1. A = Part(f, c) /\ Amount(f, h) = 0
          BY <2>1, <2>2, <3>2 DEF Part, Amount
        <4> QED
          BY <2>8, <4>1
      <3> QED
        BY <3>1, <3>2
    <2>10. SumFunctionOnSet(g, Part(g, c)) = SumFunctionOnSet(f, Part(f, c)) + d
      BY <1>0, <1>1, <2>5, <2>7, <2>8, <2>9
    <2> QED
      BY <2>2, <2>10 DEF SumOver, Part
  <1> QED
    BY <1>2, <1>3, <1>4

\* So it does when a row that would be zero is left out.
LEMMA SumMoved ==
    ASSUME NEW f, Table(f), NEW h \in Places, NEW d \in Int,
           NEW g, g = IF Amount(f, h) + d = 0 THEN Without(f, {h}) ELSE Put(f, h, Amount(f, h) + d)
    PROVE  /\ Table(g)
           /\ SumOver(g, h[1]) = SumOver(f, h[1]) + d
           /\ \A c : c # h[1] => SumOver(g, c) = SumOver(f, c)
           /\ Amount(g, h) = Amount(f, h) + d
           /\ \A x : x # h => Amount(g, x) = Amount(f, x) /\ (x \in DOMAIN g => x \in DOMAIN f /\ g[x] = f[x])
           /\ h \in DOMAIN g => g[h] # 0
  <1>1. PICK p : p = Put(f, h, Amount(f, h) + d)
    OBVIOUS
  <1>2. /\ Table(p)
        /\ SumOver(p, h[1]) = SumOver(f, h[1]) + d
        /\ \A c : c # h[1] => SumOver(p, c) = SumOver(f, c)
    BY <1>1, SumPut
  <1>3. DOMAIN p = DOMAIN f \cup {h} /\ p[h] = Amount(f, h) + d /\ \A x \in DOMAIN f : x # h => p[x] = f[x]
    BY <1>1 DEF Put
  <1>4. CASE Amount(f, h) + d # 0
    <2>1. g = p
      BY <1>1, <1>4
    <2> QED
      BY <1>2, <1>3, <1>4, <2>1 DEF Amount
  <1>5. CASE Amount(f, h) + d = 0
    <2>1. DOMAIN g = DOMAIN f \ {h} /\ \A x \in DOMAIN g : g[x] = f[x]
      BY <1>5 DEF Without
    <2>2. Table(g)
      BY <2>1 DEF Table, IsTable
    <2>3. \A x : Amount(g, x) = Amount(p, x)
      BY <1>3, <1>5, <2>1 DEF Amount
    <2>4. \A c : SumOver(g, c) = SumOver(p, c)
      BY <1>2, <2>2, <2>3, SumAmounts
    <2> QED
      BY <1>2, <1>3, <1>5, <2>1, <2>2, <2>3, <2>4 DEF Amount
  <1> QED
    BY <1>4, <1>5

----------------------------------------------------------------------------
(* The history grows by an event. *)

\* What a moment is made of.
LEMMA MomentFields ==
    ASSUME NEW M \in Moments
    PROVE  /\ M.created \subseteq Modules \cup Contracts
           /\ M.linked \subseteq Resting
           /\ M.staked \in [Holders -> Nat]
           /\ M.queue \in [Holders -> Seq(Entries)]
  BY DEF Moments

\* What an event does to what a member staked.
LEMMA StepStaked ==
    ASSUME NEW M \in Moments, NEW e \in Events, NEW N, NEW h, Step(M, e, N, h), NEW x \in Holders
    PROVE  /\ ~ (IsMove(e) /\ x = <<e.contract, e.member>>) => N.staked[x] = M.staked[x]
           /\ e.type = "stake" /\ x = <<e.contract, e.member>> => N.staked[x] = M.staked[x] + e.amount
           /\ e.type = "unstake" /\ x = <<e.contract, e.member>> => N.staked[x] = M.staked[x] - e.amount
  <1>1. M.staked \in [Holders -> Nat]
    BY MomentFields
  <1> QED
    BY <1>1 DEF Step, IsMove

\* What an event does to a member's queue.
LEMMA StepQueue ==
    ASSUME NEW M \in Moments, NEW e \in Events, NEW N, NEW h \in Nat, Step(M, e, N, h), NEW x \in Holders
    PROVE  /\ x # <<e.contract, e.member>> \/ ~ (Delayed(e) \/ e.type = "claim") =>
                N.queue[x] = M.queue[x]
           /\ x = <<e.contract, e.member>> /\ e.type = "claim" => N.queue[x] = Unripe(M.queue[x], h)
           /\ x = <<e.contract, e.member>> /\ Delayed(e) =>
                /\ e.amount \in Amounts
                /\ N.queue[x] = Append(M.queue[x],
                                       [what |-> e.amount, release |-> h + Duration[e.contract]])
  <1>1. M.queue \in [Holders -> Seq(Entries)]
    BY MomentFields
  <1>2. x[1] \in Fungible
    BY DEF Holders
  <1>3. CASE e.type = "claim" /\ e.contract \in Fungible
    BY <1>1, <1>3 DEF Step, Delayed
  <1>4. CASE Delayed(e)
    <2>1. ~ (e.type = "claim" /\ e.contract \in Fungible) /\ e.type = "unstake"
      BY <1>4 DEF Delayed
    <2>2. IsMove(e) /\ e.amount \in Amounts
      BY <2>1, EventKinds DEF IsMove
    <2>3. N.queue = [M.queue EXCEPT ![<<e.contract, e.member>>] =
                      Append(@, [what |-> e.amount, release |-> h + Duration[e.contract]])]
      BY <1>4, <2>1 DEF Step
    <2> QED
      BY <1>1, <1>4, <2>1, <2>2, <2>3
  <1>5. CASE ~ (e.type = "claim" /\ e.contract \in Fungible) /\ ~ Delayed(e)
    <2>1. N.queue = M.queue
      BY <1>5 DEF Step
    <2> QED
      BY <1>2, <1>5, <2>1
  <1> QED
    BY <1>3, <1>4, <1>5

\* Other queues than the event's stay, ...
LEMMA StepQueueSame ==
    ASSUME NEW M \in Moments, NEW e \in Events, NEW N, NEW h \in Nat, Step(M, e, N, h), NEW x \in Holders,
           x # <<e.contract, e.member>> \/ ~ (Delayed(e) \/ e.type = "claim")
    PROVE  N.queue[x] = M.queue[x]
  <1>1. /\ x # <<e.contract, e.member>> \/ ~ (Delayed(e) \/ e.type = "claim") => N.queue[x] = M.queue[x]
        /\ x = <<e.contract, e.member>> /\ e.type = "claim" => N.queue[x] = Unripe(M.queue[x], h)
        /\ x = <<e.contract, e.member>> /\ Delayed(e) =>
             /\ e.amount \in Amounts
             /\ N.queue[x] = Append(M.queue[x],
                                    [what |-> e.amount, release |-> h + Duration[e.contract]])
    BY StepQueue
  <1> QED
    BY <1>1

\* ... an unstaking puts an entry at the end, ...
LEMMA StepQueueGrows ==
    ASSUME NEW M \in Moments, NEW e \in Events, NEW N, NEW h \in Nat, Step(M, e, N, h), NEW x \in Holders,
           x = <<e.contract, e.member>>, Delayed(e)
    PROVE  /\ e.amount \in Amounts
           /\ N.queue[x] = Append(M.queue[x], [what |-> e.amount, release |-> h + Duration[e.contract]])
  <1>1. M.queue \in [Holders -> Seq(Entries)]
    BY MomentFields
  <1>2. ~ (e.type = "claim" /\ e.contract \in Fungible) /\ e.type = "unstake"
    BY DEF Delayed
  <1>3. e.amount \in Amounts
    BY <1>2, EventKinds DEF IsMove
  <1>4. N.queue = [M.queue EXCEPT ![<<e.contract, e.member>>] =
                    Append(@, [what |-> e.amount, release |-> h + Duration[e.contract]])]
    BY <1>2 DEF Step
  <1> QED
    BY <1>1, <1>3, <1>4

\* ... and a payment takes out what is due.
LEMMA StepQueuePaid ==
    ASSUME NEW M \in Moments, NEW e \in Events, NEW N, NEW h \in Nat, Step(M, e, N, h), NEW x \in Holders,
           x = <<e.contract, e.member>>, e.type = "claim"
    PROVE  N.queue[x] = Unripe(M.queue[x], h)
  <1>1. M.queue \in [Holders -> Seq(Entries)]
    BY MomentFields
  <1>2. x[1] \in Fungible
    BY DEF Holders
  <1> QED
    BY <1>1, <1>2 DEF Step

\* An entry made now.
LEMMA NewEntry ==
    ASSUME NEW c \in Fungible \cup NftModules, NEW n \in Amounts \cup Nfts, NEW h \in Nat
    PROVE  [what |-> n, release |-> h + Duration[c]] \in Entries
  <1>1. h + Duration[c] \in Nat
    BY Numbers
  <1> QED
    BY <1>1 DEF Entries

\* Nothing has stakes before it is created.
LEMMA StepGrounded ==
    ASSUME NEW M \in Moments, NEW e \in Events, NEW N \in Moments, NEW h \in Nat, Step(M, e, N, h), Grounded(M)
    PROVE  Grounded(N)
  <1>1. M.created \subseteq N.created
    BY DEF Step
  <1>2. ASSUME NEW x \in Holders, x[1] \notin N.created
        PROVE  N.staked[x] = 0 /\ N.queue[x] = << >>
    <2>1. M.staked[x] = 0 /\ M.queue[x] = << >>
      BY <1>1, <1>2 DEF Grounded
    <2>1a. x[1] \notin NftModules
      BY Kinds DEF Holders, Fungible
    <2>2. IsMove(e) \/ e.type = "claim" => e.contract \in N.created \/ e.contract \in NftModules
      BY DEF Step, IsCreation, IsMove
    <2>3. ~ (IsMove(e) /\ x = <<e.contract, e.member>>)
      BY <1>2, <2>1a, <2>2
    <2>4. N.staked[x] = 0
      BY <2>1, <2>3, StepStaked
    <2>5. Delayed(e) => IsMove(e)
      BY DEF Delayed, IsMove
    <2>6. x # <<e.contract, e.member>> \/ ~ (Delayed(e) \/ e.type = "claim")
      BY <1>2, <2>1a, <2>2, <2>5
    <2>7. N.queue[x] = M.queue[x]
      BY <2>6, StepQueueSame
    <2> QED
      BY <2>1, <2>4, <2>7
  <1>3. ASSUME NEW m \in N.linked PROVE m \in N.created /\ Base[m] \in N.created
    <2>1. CASE m \in M.linked
      BY <1>1, <2>1 DEF Grounded
    <2>2. CASE m \notin M.linked
      <3>1. e.type = "link" /\ m = e.contract
        BY <1>3, <2>2 DEF Step
      <3>2. ~ IsCreation(e)
        BY <3>1 DEF IsCreation
      <3>3. e.type # "claim"
        BY <3>1
      <3> QED
        BY <1>1, <3>1, <3>2, <3>3 DEF Step
    <2> QED
      BY <2>1, <2>2
  <1> QED
    BY <1>2, <1>3 DEF Grounded

\* Nothing waits longer than from now on.
LEMMA StepReleased ==
    ASSUME NEW M \in Moments, NEW e \in Events, NEW N \in Moments, NEW h \in Nat, Step(M, e, N, h), Released(M, h)
    PROVE  Released(N, h)
  <1> SUFFICES ASSUME NEW x \in Holders, NEW i \in DOMAIN N.queue[x]
               PROVE  N.queue[x][i].release <= h + Duration[x[1]]
    BY DEF Released
  <1>1. PICK q \in Seq(Entries) : q = M.queue[x]
    BY MomentFields
  <1>2. PICK r \in Seq(Entries) : r = N.queue[x]
    BY MomentFields
  <1>3. \A j \in DOMAIN q : q[j].release <= h + Duration[x[1]]
    BY <1>1 DEF Released
  <1>4. CASE r = q
    BY <1>2, <1>3, <1>4
  <1>5. CASE r = Unripe(q, h)
    <2>1. \E j \in DOMAIN q : r[i] = q[j]
      BY <1>2, <1>5, UnripeKeeps
    <2> QED
      BY <1>2, <1>3, <2>1
  <1>6. CASE /\ e.amount \in Amounts /\ x = <<e.contract, e.member>>
             /\ r = Append(q, [what |-> e.amount, release |-> h + Duration[e.contract]])
    <2>1. PICK y : y = [what |-> e.amount, release |-> h + Duration[e.contract]]
      OBVIOUS
    <2>2. x[1] = e.contract /\ x[1] \in Fungible
      BY <1>6 DEF Holders
    <2>3. y \in Entries /\ y.release = h + Duration[x[1]] /\ Duration[x[1]] \in Nat
      BY <1>6, <2>1, <2>2, NewEntry, Numbers
    <2>4. r[i] = y \/ \E j \in DOMAIN q : r[i] = q[j]
      <3>1. r = Append(q, y) /\ i \in DOMAIN r
        BY <1>2, <1>6, <2>1
      <3>2. i \in 1..Len(q) + 1 /\ r[Len(q) + 1] = y /\ \A j \in 1..Len(q) : r[j] = q[j]
        BY <2>3, <3>1
      <3>3. i = Len(q) + 1 \/ i \in 1..Len(q)
        BY <3>2
      <3> QED
        BY <3>2, <3>3
    <2> QED
      BY <1>2, <1>3, <2>3, <2>4
  <1>7. r = q \/ r = Unripe(q, h) \/
        (/\ e.amount \in Amounts /\ x = <<e.contract, e.member>>
         /\ r = Append(q, [what |-> e.amount, release |-> h + Duration[e.contract]]))
    BY <1>1, <1>2, StepQueue
  <1> QED
    BY <1>4, <1>5, <1>6, <1>7

\* The last entry of a queue stays the last when the chain pays what is due.
LEMMA StepEnds ==
    ASSUME NEW M \in Moments, NEW e \in Events, NEW N \in Moments, NEW h \in Nat, Step(M, e, N, h),
           NEW x \in Holders, Duration[x[1]] # 0, NEW r, r = h + Duration[x[1]],
           EndsIn(M.queue[x], r) \/ (Delayed(e) /\ x = <<e.contract, e.member>>)
    PROVE  EndsIn(N.queue[x], r)
  <1>1. PICK q \in Seq(Entries) : q = M.queue[x]
    BY MomentFields
  <1>2. x[1] \in Fungible /\ Duration[x[1]] \in Nat
    BY Numbers DEF Holders
  <1>2a. /\ x # <<e.contract, e.member>> \/ ~ (Delayed(e) \/ e.type = "claim") => N.queue[x] = M.queue[x]
         /\ x = <<e.contract, e.member>> /\ e.type = "claim" => N.queue[x] = Unripe(M.queue[x], h)
         /\ x = <<e.contract, e.member>> /\ Delayed(e) =>
              /\ e.amount \in Amounts
              /\ N.queue[x] = Append(M.queue[x],
                                     [what |-> e.amount, release |-> h + Duration[e.contract]])
    BY StepQueue
  <1>3. CASE Delayed(e) /\ x = <<e.contract, e.member>>
    <2>1. /\ e.amount \in Amounts
          /\ N.queue[x] = Append(q, [what |-> e.amount, release |-> h + Duration[e.contract]])
      BY <1>1, <1>2a, <1>3
    <2>2. PICK y : y = [what |-> e.amount, release |-> h + Duration[e.contract]]
      OBVIOUS
    <2>3. x[1] = e.contract
      BY <1>3
    <2>4. y \in Entries /\ y.release = r
      BY <1>2, <2>1, <2>2, <2>3, NewEntry
    <2> QED
      BY <2>1, <2>2, <2>4 DEF EndsIn
  <1>4. CASE EndsIn(q, r) /\ ~ (Delayed(e) /\ x = <<e.contract, e.member>>)
    <2>1. q[Len(q)].release = r /\ r > h
      BY <1>2, <1>4 DEF EndsIn
    <2>2. EndsIn(Unripe(q, h), r)
      BY <1>4, <2>1, UnripeKeeps
    <2>3. N.queue[x] = q \/ N.queue[x] = Unripe(q, h)
      BY <1>1, <1>2a, <1>4
    <2> QED
      BY <1>4, <2>2, <2>3
  <1> QED
    BY <1>1, <1>3, <1>4

\* One event more, and the history tells of it too.
LEMMA Extends ==
    ASSUME NEW evs \in Seq(Events), NEW past, NEW h \in Nat, Tells(past, evs, h),
           NEW e \in Events, NEW N \in Moments, Step(past[Len(evs)], e, N, h)
    PROVE  \E p : /\ Tells(p, Append(evs, e), h)
                  /\ p[Len(evs) + 1] = N
                  /\ \A i \in 0..Len(evs) : p[i] = past[i]
  <1>1. PICK n \in Nat : n = Len(evs)
    OBVIOUS
  <1>2. PICK fs : fs = Append(evs, e)
    OBVIOUS
  <1>3. Len(fs) = n + 1 /\ fs[n + 1] = e /\ \A i \in 1..n : fs[i] = evs[i] /\ evs[i] \in Events
    BY <1>1, <1>2
  <1>4. PICK p : p = [i \in 0..n + 1 |-> IF i = n + 1 THEN N ELSE past[i]]
    OBVIOUS
  <1>5. p[n + 1] = N /\ \A i \in 0..n : p[i] = past[i]
    BY <1>4
  <1>6. /\ past \in [0..n -> Moments]
        /\ \A i \in 1..n : Step(past[i - 1], evs[i], past[i], h)
        /\ \A i \in 0..n : Grounded(past[i]) /\ Released(past[i], h)
        /\ Before(past[0], h)
        /\ Resting \cap past[0].created \subseteq past[0].linked
        /\ Quiet(past, evs)
        /\ Announced(past, evs)
        /\ Unstaked(past, evs, h)
    BY <1>1 DEF Tells
  <1>7. PICK M \in Moments : M = past[n]
    BY <1>6
  <1>8. n \in 0..n /\ 0 \in 0..n /\ p[n] = M /\ p[0] = past[0]
    BY <1>5, <1>7
  <1>9. Step(M, e, N, h) /\ Grounded(M) /\ Released(M, h)
    BY <1>1, <1>6, <1>7, <1>8
  <1>10. p \in [0..n + 1 -> Moments]
    BY <1>4, <1>6
  <1>11. ASSUME NEW i \in 1..n + 1 PROVE Step(p[i - 1], fs[i], p[i], h)
    <2>1. CASE i = n + 1
      <3>1. i - 1 = n
        BY <2>1
      <3> QED
        BY <1>3, <1>5, <1>8, <1>9, <2>1, <3>1
    <2>2. CASE i # n + 1
      <3>1. i \in 1..n /\ i \in 0..n /\ i - 1 \in 0..n
        BY <2>2
      <3> QED
        BY <1>3, <1>5, <1>6, <3>1
    <2> QED
      BY <2>1, <2>2
  <1>12. ASSUME NEW i \in 0..n + 1 PROVE Grounded(p[i]) /\ Released(p[i], h)
    <2>1. CASE i = n + 1
      BY <1>5, <1>9, <2>1, StepGrounded, StepReleased
    <2>2. CASE i # n + 1
      <3>1. i \in 0..n
        BY <2>2
      <3> QED
        BY <1>5, <1>6, <3>1
    <2> QED
      BY <2>1, <2>2
  <1>13. Quiet(p, fs)
    <2> SUFFICES ASSUME NEW x \in Holders,
                        ~ \E j \in 1..n + 1 : IsMove(fs[j]) /\ fs[j].contract = x[1],
                        NEW i \in 0..n + 1
                 PROVE  p[i].staked[x] = N.staked[x]
      BY <1>3, <1>5 DEF Quiet
    <2>1. ~ (IsMove(e) /\ e.contract = x[1])
      BY <1>3
    <2>2. N.staked[x] = M.staked[x]
      BY <1>9, <2>1, StepStaked
    <2>3. ~ \E j \in 1..n : IsMove(evs[j]) /\ evs[j].contract = x[1]
      BY <1>3
    <2>4. \A k \in 0..n : past[k].staked[x] = M.staked[x]
      BY <1>1, <1>6, <1>7, <2>3 DEF Quiet
    <2>5. CASE i = n + 1
      BY <1>5, <2>5
    <2>6. CASE i # n + 1
      <3>1. i \in 0..n
        BY <2>6
      <3> QED
        BY <1>5, <2>2, <2>4, <3>1
    <2> QED
      BY <2>5, <2>6
  <1>13a. ASSUME NEW i \in 0..n + 1 PROVE p[i].created \subseteq N.created
    <2>1. M.created \subseteq N.created
      BY <1>9 DEF Step
    <2>2. CASE i = n + 1
      BY <1>5, <2>2
    <2>3. CASE i # n + 1
      <3>1. i \in 0..n
        BY <2>3
      <3>2. past[i].created \subseteq M.created
        BY <1>1, <1>6, <1>7, <3>1 DEF Announced
      <3> QED
        BY <1>5, <2>1, <3>1, <3>2
    <2> QED
      BY <2>2, <2>3
  <1>14. Announced(p, fs)
    <2> SUFFICES ASSUME NEW c \in N.created, c \notin past[0].created
                 PROVE  \E j \in 1..n + 1 : IsCreation(fs[j]) /\ fs[j].contract = c
      BY <1>3, <1>5, <1>8, <1>13a DEF Announced
    <2>1. CASE c \in M.created
      <3>1. PICK j \in 1..n : IsCreation(evs[j]) /\ evs[j].contract = c
        BY <1>1, <1>6, <1>7, <2>1 DEF Announced
      <3>2. j \in 1..n + 1 /\ fs[j] = evs[j]
        BY <1>3
      <3> QED
        BY <3>1, <3>2
    <2>2. CASE c \notin M.created
      <3>1. IsCreation(e) /\ e.contract = c
        BY <1>9, <2>2 DEF Step
      <3>2. n + 1 \in 1..n + 1
        OBVIOUS
      <3> QED
        BY <1>3, <3>1, <3>2
    <2> QED
      BY <2>1, <2>2
  <1>15. Unstaked(p, fs, h)
    <2> SUFFICES ASSUME NEW j \in 1..n + 1, Delayed(fs[j])
                 PROVE  EndsIn(N.queue[<<fs[j].contract, fs[j].member>>], h + Duration[fs[j].contract])
      BY <1>3, <1>5 DEF Unstaked
    <2>1. PICK x : x = <<fs[j].contract, fs[j].member>>
      OBVIOUS
    <2>2. fs[j] \in Events /\ IsMove(fs[j])
      BY <1>3 DEF Delayed, IsMove
    <2>3. x \in Holders /\ x[1] = fs[j].contract /\ Duration[x[1]] # 0
      BY <2>1, <2>2, EventKinds DEF Holders, Delayed
    <2>4. EndsIn(M.queue[x], h + Duration[x[1]]) \/ (Delayed(e) /\ x = <<e.contract, e.member>>)
      <3>1. CASE j = n + 1
        BY <1>3, <2>1, <3>1
      <3>2. CASE j # n + 1
        <4>1. j \in 1..n /\ fs[j] = evs[j]
          BY <1>3, <3>2
        <4> QED
          BY <1>1, <1>6, <1>7, <2>1, <2>3, <4>1 DEF Unstaked
      <3> QED
        BY <3>1, <3>2
    <2>5. PICK r : r = h + Duration[x[1]]
      OBVIOUS
    <2>6. EndsIn(N.queue[x], r)
      BY <1>9, <2>3, <2>4, <2>5, StepEnds
    <2> QED
      BY <2>1, <2>3, <2>5, <2>6
  <1>16. Tells(p, fs, h)
    BY <1>3, <1>6, <1>8, <1>10, <1>11, <1>12, <1>13, <1>14, <1>15 DEF Tells
  <1> QED
    BY <1>1, <1>2, <1>5, <1>16

----------------------------------------------------------------------------
(* The chain's steps. *)

Queues == [(Fungible \cup NftModules) \X Members -> Seq(Entries)]

\* A moment made of typed parts is one.
LEMMA MomentType ==
    ASSUME NEW cr, cr \subseteq Modules \cup Contracts, NEW st \in [Holders -> Nat], NEW qu \in Queues
    PROVE  Moment(cr, st, qu) \in Moments
  <1>1. PICK q : q = [h \in Holders |-> qu[h]]
    OBVIOUS
  <1>2. \A h \in Holders : h \in (Fungible \cup NftModules) \X Members
    BY DEF Holders
  <1>3. q \in [Holders -> Seq(Entries)] /\ \A h \in Holders : q[h] = qu[h]
    BY <1>1, <1>2 DEF Queues
  <1>4. PICK M : M = [created |-> cr, linked |-> Resting \cap cr, staked |-> st, queue |-> q]
    OBVIOUS
  <1>5. M = Moment(cr, st, qu)
    BY <1>1, <1>4 DEF Moment
  <1>6. M \in Moments
    BY <1>3, <1>4 DEF Moments
  <1> QED
    BY <1>5, <1>6

\* What goes on in a block that is not sealed: one more event is told.
LEMMA Emits ==
    ASSUME ChainTypes, NEW past, History(past), NEW e \in Events, events' = Append(events, e),
           height' = height, Now' \in Moments, Step(Now, e, Now', height)
    PROVE  \E p : History(p)' /\ p[0] = past[0]
  <1>1. events \in Seq(Events) /\ height \in Nat
    BY Numbers DEF ChainTypes
  <1>2. PICK n \in Nat : n = Len(events)
    BY <1>1
  <1>3. PICK N : N = Now'
    OBVIOUS
  <1>4. Tells(past, events, height) /\ past[n] = Now
    BY <1>2 DEF History
  <1>5. Step(past[Len(events)], e, N, height) /\ N \in Moments
    BY <1>2, <1>3, <1>4
  <1>6. PICK p : /\ Tells(p, Append(events, e), height)
                 /\ p[Len(events) + 1] = N
                 /\ \A i \in 0..Len(events) : p[i] = past[i]
    BY <1>1, <1>4, <1>5, Extends
  <1>7. Len(events') = n + 1
    BY <1>1, <1>2
  <1>8. History(p)'
    BY <1>2, <1>3, <1>6, <1>7 DEF History
  <1>9. p[0] = past[0]
    BY <1>2, <1>6
  <1> QED
    BY <1>8, <1>9

Extended(evs, fs) ==
    /\ Len(evs) \in Nat /\ Len(fs) \in Nat /\ Len(evs) <= Len(fs)
    /\ \A j \in 1..Len(evs) : fs[j] = evs[j]

\* What is pending is so with more events, too.
LEMMA PendingStays ==
    ASSUME NEW evs, NEW fs, Extended(evs, fs), NEW p \in Nat \ {0}
    PROVE  /\ \A c : MembersPending(evs, p, c) => MembersPending(fs, p, c)
           /\ \A h, T : NftPending(evs, p, h, T) => NftPending(fs, p, h, T)
  <1>1. \A j \in p..Len(evs) : j \in p..Len(fs) /\ fs[j] = evs[j]
    BY DEF Extended
  <1> QED
    BY <1>1 DEF MembersPending, NftPending

\* The last event is pending.
LEMMA PendingLast ==
    ASSUME NEW evs \in Seq(Events), NEW e \in Events, NEW p \in 1..Len(evs) + 1
    PROVE  /\ Extended(evs, Append(evs, e))
           /\ e.type \in {"contract", "members"} => MembersPending(Append(evs, e), p, e.contract)
           /\ \A h, T : e.type \in T /\ h = <<e.contract, e.member>> => NftPending(Append(evs, e), p, h, T)
  <1>1. PICK fs : fs = Append(evs, e)
    OBVIOUS
  <1>2. PICK n \in Nat : n = Len(evs)
    OBVIOUS
  <1>3. Len(fs) = n + 1 /\ fs[n + 1] = e /\ \A j \in 1..n : fs[j] = evs[j]
    BY <1>1, <1>2
  <1>4. n + 1 \in p..Len(fs)
    BY <1>2, <1>3
  <1>5. Extended(evs, fs)
    BY <1>2, <1>3 DEF Extended
  <1>6. e.type \in {"contract", "members"} => MembersPending(fs, p, e.contract)
    BY <1>3, <1>4 DEF MembersPending
  <1>7. ASSUME NEW h, NEW T, e.type \in T /\ h = <<e.contract, e.member>>
        PROVE  NftPending(fs, p, h, T)
    BY <1>3, <1>4, <1>7 DEF NftPending
  <1> QED
    BY <1>1, <1>5, <1>6, <1>7

\* Members that changed are pending, ...
LEMMA MembersSeenLater ==
    ASSUME NEW rows, NEW wts, NEW evs, NEW p \in Nat \ {0}, MembersSeen(rows, wts, evs, p),
           NEW fs, Extended(evs, fs), NEW w,
           \A c \in Groups : MembersPending(fs, p, c) \/ \A a \in Members : w[<<c, a>>] = wts[<<c, a>>]
    PROVE  MembersSeen(rows, w, fs, p)
  <1> SUFFICES ASSUME NEW c \in Groups, ~ MembersPending(fs, p, c)
               PROVE  Empty(w, c) \/ \A a \in Members : Amount(rows, <<c, a>>) = w[<<c, a>>]
    BY DEF MembersSeen
  <1>1. ~ MembersPending(evs, p, c)
    BY PendingStays
  <1>2. Empty(wts, c) \/ \A a \in Members : Amount(rows, <<c, a>>) = wts[<<c, a>>]
    BY <1>1 DEF MembersSeen
  <1> QED
    BY <1>2 DEF Empty

\* ... so are NFTs, ...
LEMMA NftsSeenLater ==
    ASSUME NEW rows, NEW sn, NEW kp, NEW evs, NEW p \in Nat \ {0}, NftsSeen(rows, sn, kp, evs, p),
           NEW fs, Extended(evs, fs), NEW k,
           \A h \in Keepers : \/ k[h] = kp[h]
                              \/ kp[h] \subseteq k[h] /\ NftPending(fs, p, h, {"stakeNft", "unstakeNft"})
                              \/ NftPending(fs, p, h, {"unstakeNft"})
    PROVE  NftsSeen(rows, sn, k, fs, p)
  <1> SUFFICES ASSUME NEW h \in Keepers
               PROVE  /\ \/ NftPending(fs, p, h, {"unstakeNft"})
                         \/ \A x \in Nfts : <<h[1], h[2], x>> \in rows => x \in k[h]
                      /\ \/ NftPending(fs, p, h, {"stakeNft", "unstakeNft"})
                         \/ Cutoff # 0 /\ h \notin sn
                         \/ \A x \in k[h] : <<h[1], h[2], x>> \in rows
    BY DEF NftsSeen
  <1>1. \A T : NftPending(evs, p, h, T) => NftPending(fs, p, h, T)
    BY PendingStays
  <1>2. NftPending(fs, p, h, {"unstakeNft"}) => NftPending(fs, p, h, {"stakeNft", "unstakeNft"})
    BY DEF NftPending
  <1>3. /\ \/ NftPending(evs, p, h, {"unstakeNft"})
           \/ \A x \in Nfts : <<h[1], h[2], x>> \in rows => x \in kp[h]
        /\ \/ NftPending(evs, p, h, {"stakeNft", "unstakeNft"})
           \/ Cutoff # 0 /\ h \notin sn
           \/ \A x \in kp[h] : <<h[1], h[2], x>> \in rows
    BY DEF NftsSeen
  <1>4. CASE NftPending(fs, p, h, {"unstakeNft"})
    BY <1>2, <1>4
  <1>5. CASE k[h] = kp[h]
    BY <1>1, <1>3, <1>5
  <1>6. CASE kp[h] \subseteq k[h] /\ NftPending(fs, p, h, {"stakeNft", "unstakeNft"})
    BY <1>1, <1>3, <1>6
  <1> QED
    BY <1>4, <1>5, <1>6

\* ... and the weights that rest on the members.
LEMMA WeightsSeenLater ==
    ASSUME NEW mods, NEW st, NEW mem, NEW rows, NEW wts, NEW evs, NEW p \in Nat \ {0}, NEW M,
           WeightsSeen(mods, st, mem, rows, wts, evs, p, M),
           NEW fs, Extended(evs, fs), NEW w,
           \A c \in Groups : MembersPending(fs, p, c) \/ \A a \in Members : w[<<c, a>>] = wts[<<c, a>>]
    PROVE  WeightsSeen(mods, st, mem, rows, w, fs, p, M)
  <1> SUFFICES ASSUME NEW m \in DOMAIN mods, m \in GroupModules \cap M.linked
               PROVE  \/ MembersPending(fs, p, Base[m])
                      \/ Empty(w, Base[m])
                      \/ mods[m].weight = SumOver(mem, Base[m])
    BY DEF WeightsSeen
  <1>1. Base[m] \in Groups
    BY Kinds
  <1>2. \/ MembersPending(evs, p, Base[m])
        \/ Empty(wts, Base[m])
        \/ mods[m].weight = SumOver(mem, Base[m])
    BY DEF WeightsSeen
  <1>3. MembersPending(evs, p, Base[m]) => MembersPending(fs, p, Base[m])
    BY PendingStays
  <1> QED
    BY <1>1, <1>2, <1>3 DEF Empty

\* The indexer stays where it is while the block is made.
LEMMA IndexerStays ==
    ASSUME ChainTypes, TableTypes, NEW M, Indexer(M), Extended(events, events'),
           UNCHANGED <<height, pos, snapDone, tables, history>>,
           \A c \in Groups : \/ MembersPending(events', pos, c)
                             \/ \A a \in Members : weights'[<<c, a>>] = weights[<<c, a>>],
           \A h \in Keepers : \/ kept'[h] = kept[h]
                              \/ kept[h] \subseteq kept'[h] /\ NftPending(events', pos, h, {"stakeNft", "unstakeNft"})
                              \/ NftPending(events', pos, h, {"unstakeNft"})
    PROVE  Indexer(M)'
  <1>1. pos \in Nat \ {0}
    BY DEF ChainTypes, TableTypes
  <1>2. PICK fs : fs = events'
    OBVIOUS
  <1>3. PICK w : w = weights'
    OBVIOUS
  <1>4. PICK k : k = kept'
    OBVIOUS
  <1>5. Extended(events, fs)
    BY <1>2
  <1>6. CASE Live
    <2>1. Rows(M)
      BY <1>6 DEF Indexer
    <2>2. MembersSeen(members, w, fs, pos)
      BY <1>1, <1>2, <1>3, <1>5, <2>1, MembersSeenLater DEF Rows
    <2>3. NftsSeen(nftRows, seen, k, fs, pos)
      BY <1>1, <1>2, <1>4, <1>5, <2>1, NftsSeenLater DEF Rows
    <2>4. WeightsSeen(modules, stakers, members, nftRows, w, fs, pos, M)
      BY <1>1, <1>2, <1>3, <1>5, <2>1, WeightsSeenLater DEF Rows
    <2>5. Rows(M)'
      BY <1>2, <1>3, <1>4, <2>1, <2>2, <2>3, <2>4 DEF Rows, tables, history
    <2> QED
      BY <1>6, <2>5 DEF Indexer, Live, tables
  <1>7. CASE ~ Live
    BY <1>7 DEF Indexer, Live, Asleep, tables, history
  <1> QED
    BY <1>6, <1>7

\* What an action of the chain that emits one event leaves to be shown.
LEMMA OneEvent ==
    ASSUME IInv, NEW e \in Events, Emit(<<e>>), ChainTypes', ChainOK', created \subseteq created',
           Step(Now, e, Now', height),
           \A c \in Groups : \/ e.type \in {"contract", "members"} /\ e.contract = c
                             \/ \A a \in Members : weights'[<<c, a>>] = weights[<<c, a>>],
           \A h \in Keepers : \/ kept'[h] = kept[h]
                              \/ /\ kept[h] \subseteq kept'[h] \/ e.type = "unstakeNft"
                                 /\ e.type \in {"stakeNft", "unstakeNft"} /\ h = <<e.contract, e.member>>
    PROVE  IInv'
  <1>1. PICK past : History(past) /\ Indexer(past[pos - 1])
    BY DEF IInv
  <1>2. ChainTypes /\ TableTypes /\ events \in Seq(Events) /\ ~ sealed
        /\ UNCHANGED <<height, pos, snapDone, tables, history, sealed>>
    BY DEF IInv, ChainTypes, Emit
  <1>3. events' = Append(events, e)
    BY <1>2 DEF Emit
  <1>4. pos = 1 /\ Len(events) \in Nat
    BY <1>2 DEF TableTypes
  <1>5. Now' \in Moments
    BY MomentType DEF ChainTypes, Now, Queues
  <1>6. PICK p : History(p)' /\ p[0] = past[0]
    BY <1>1, <1>2, <1>3, <1>5, Emits
  <1>7. PICK M : M = past[0]
    OBVIOUS
  <1>8. Indexer(M)
    BY <1>1, <1>4, <1>7
  <1>9. /\ Extended(events, events')
        /\ e.type \in {"contract", "members"} => MembersPending(events', pos, e.contract)
        /\ \A h, T : e.type \in T /\ h = <<e.contract, e.member>> => NftPending(events', pos, h, T)
    BY <1>2, <1>3, PendingLast DEF TableTypes
  <1>10. \A c \in Groups : \/ MembersPending(events', pos, c)
                           \/ \A a \in Members : weights'[<<c, a>>] = weights[<<c, a>>]
    BY <1>9
  <1>11. \A h \in Keepers : \/ kept'[h] = kept[h]
                            \/ kept[h] \subseteq kept'[h] /\ NftPending(events', pos, h, {"stakeNft", "unstakeNft"})
                            \/ NftPending(events', pos, h, {"unstakeNft"})
    BY <1>9
  <1>12. Indexer(M)'
    BY <1>2, <1>8, <1>9, <1>10, <1>11, IndexerStays
  <1>13. Indexer(p[pos - 1])'
    BY <1>2, <1>4, <1>6, <1>7, <1>12
  <1>14. TableTypes'
    <2>1. Len(events') = Len(events) + 1
      BY <1>2, <1>3
    <2>2. (pos \in 1..Len(events) + 1 /\ (~ sealed => pos = 1))'
      BY <1>2, <1>4, <2>1
    <2>3. (known \subseteq created)'
      BY <1>2 DEF TableTypes, tables
    <2> QED
      BY <1>2, <2>2, <2>3 DEF TableTypes, RowTypes, tables
  <1> QED
    BY <1>6, <1>13, <1>14 DEF IInv

\* What Emit writes has its type.
LEMMA EmitTypes ==
    ASSUME ChainTypes, NEW evs \in Seq(Events), Emit(evs)
    PROVE  /\ height' \in 1..MaxHeight /\ sealed' \in BOOLEAN /\ (sealed' => height' < MaxHeight)
           /\ events' \in Seq(Events) /\ messages' \in 0..MaxMessages
  BY Numbers DEF ChainTypes, Emit

\* One event is a sequence of events.
LEMMA OneEventSeq ==
    ASSUME NEW e \in Events
    PROVE  <<e>> \in Seq(Events)
  OBVIOUS

\* ChainStakes: the amount is told by the event.
LEMMA ChainStakesKeeps ==
    ASSUME IInv, NEW a \in Members, NEW c \in Fungible, NEW n \in Amounts, ChainStakes(c, a, n)
    PROVE  IInv'
  <1>1. PICK e : e = AmountEvent("stake", c, a, n)
    OBVIOUS
  <1>2. e.type = "stake" /\ e.contract = c /\ e.member = a /\ e.amount = n /\ e \in Events
    BY <1>1 DEF AmountEvent, Events, Moves
  <1>3. ChainTypes /\ n \in Nat /\ <<c, a>> \in Holders
    BY Numbers DEF IInv, Holders
  <1>4. /\ c \in created
        /\ staked' = [staked EXCEPT ![<<c, a>>] = staked[<<c, a>>] + n]
        /\ Emit(<<e>>)
        /\ UNCHANGED <<created, weights, kept, queue>>
    BY <1>1 DEF ChainStakes
  <1>5. staked' \in [Holders -> Nat]
    BY <1>3, <1>4 DEF ChainTypes
  <1>6. ChainTypes'
    BY <1>2, <1>3, <1>4, <1>5, EmitTypes, OneEventSeq DEF ChainTypes
  <1>7. Step(Now, e, Now', height)
    <2>1. PICK M : M = Now
      OBVIOUS
    <2>2. PICK N : N = Now'
      OBVIOUS
    <2>3. /\ M.created = created /\ N.created = created /\ M.staked = staked /\ N.staked = staked'
          /\ M.linked = N.linked /\ M.queue = N.queue
      BY <1>4, <2>1, <2>2 DEF Now, Moment
    <2>4. Step(M, e, N, height)
      BY <1>2, <1>4, <2>3 DEF Step, IsCreation, IsMove, Delayed
    <2> QED
      BY <2>1, <2>2, <2>4
  <1>8. ChainOK'
    BY <1>4 DEF IInv, ChainOK
  <1> QED
    BY <1>2, <1>4, <1>6, <1>7, <1>8, OneEvent

\* What the moment at the end of the events says of the chain.
LEMMA NowMoment ==
    ASSUME IInv
    PROVE  /\ Now.created = created /\ Now.linked = Resting \cap created /\ Now.staked = staked
           /\ \A h \in Holders : Now.queue[h] = queue[h]
           /\ Grounded(Now)
  <1>1. PICK past : History(past)
    BY DEF IInv
  <1>2. PICK n \in Nat : n = Len(events)
    BY DEF IInv, ChainTypes
  <1>3. n \in 0..n
    BY <1>2
  <1>4. Grounded(Now)
    BY <1>1, <1>2, <1>3 DEF History, Tells
  <1>5. PICK M : M = Now
    OBVIOUS
  <1>6. /\ M.created = created /\ M.linked = Resting \cap created /\ M.staked = staked
        /\ M.queue = [h \in Holders |-> queue[h]]
    BY <1>5 DEF Now, Moment
  <1>7. \A h \in Holders : M.queue[h] = queue[h]
    BY <1>6
  <1> QED
    BY <1>4, <1>5, <1>6, <1>7

\* What changes in the queues of stakers, when one queue changes.
OneQueue(qu, q2, c, a, v) == q2 = [qu EXCEPT ![<<c, a>>] = v]
Held(qu, M) == M = [h \in Holders |-> qu[h]]

\* What Queued makes of the queues.
LEMMA QueuesOf ==
    ASSUME NEW qu \in Queues, NEW c \in Fungible \cup NftModules, NEW a \in Members, NEW v,
           NEW q2, OneQueue(qu, q2, c, a, v), NEW M, Held(qu, M), NEW N, Held(q2, N)
    PROVE  N = IF c \in Fungible THEN [M EXCEPT ![<<c, a>>] = v] ELSE M
  <1>1. \A h \in Holders : h \in (Fungible \cup NftModules) \X Members
    BY DEF Holders
  <1>2. \A h \in Holders : q2[h] = IF h = <<c, a>> THEN v ELSE qu[h]
    BY <1>1 DEF Queues, OneQueue
  <1>3. CASE c \in Fungible
    BY <1>2, <1>3 DEF Held
  <1>4. CASE c \notin Fungible
    <2>1. \A h \in Holders : h # <<c, a>>
      BY <1>4 DEF Holders
    <2> QED
      BY <1>2, <1>4, <2>1 DEF Held
  <1> QED
    BY <1>3, <1>4

\* ChainUnstakes: so is what waits from now on.
LEMMA ChainUnstakesKeeps ==
    ASSUME IInv, NEW a \in Members, NEW c \in Fungible, NEW n \in Amounts, ChainUnstakes(c, a, n)
    PROVE  IInv'
  <1>1. PICK e : e = AmountEvent("unstake", c, a, n)
    OBVIOUS
  <1>2. e.type = "unstake" /\ e.contract = c /\ e.member = a /\ e.amount = n /\ e \in Events
    BY <1>1 DEF AmountEvent, Events, Moves
  <1>3. ChainTypes /\ n \in Nat /\ n # 0 /\ <<c, a>> \in Holders /\ Duration[c] \in Nat
    BY Numbers DEF IInv, Holders
  <1>4. /\ staked[<<c, a>>] >= n
        /\ staked' = [staked EXCEPT ![<<c, a>>] = staked[<<c, a>>] - n]
        /\ Queued(c, a, <<n>>)
        /\ Emit(<<e>>)
        /\ UNCHANGED <<created, weights, kept>>
    BY <1>1 DEF ChainUnstakes
  <1>5. staked' \in [Holders -> Nat]
    BY <1>3, <1>4 DEF ChainTypes
  <1>6. PICK y : y = [what |-> n, release |-> height + Duration[c]]
    OBVIOUS
  <1>7. y \in Entries
    BY <1>3, <1>6, NewEntry DEF ChainTypes
  <1>8. queue \in Queues /\ queue[<<c, a>>] \in Seq(Entries)
    BY <1>3 DEF ChainTypes, Queues
  <1>9. Duration[c] # 0 => queue' = [queue EXCEPT ![<<c, a>>] = Append(queue[<<c, a>>], y)]
    <2>1. PICK s : s = [i \in DOMAIN <<n>> |-> [what |-> <<n>>[i], release |-> height + Duration[c]]]
      OBVIOUS
    <2>2. s = <<y>>
      BY <1>6, <2>1
    <2>3. queue[<<c, a>>] \o s = Append(queue[<<c, a>>], y)
      BY <1>7, <1>8, <2>2
    <2> QED
      BY <1>4, <2>1, <2>3 DEF Queued
  <1>10. Duration[c] = 0 => queue' = queue
    BY <1>4 DEF Queued
  <1>11. Append(queue[<<c, a>>], y) \in Seq(Entries)
    BY <1>7, <1>8
  <1>12. queue' \in Queues
    BY <1>8, <1>9, <1>10, <1>11 DEF Queues
  <1>13. ChainTypes'
    BY <1>2, <1>3, <1>4, <1>5, <1>12, EmitTypes, OneEventSeq DEF ChainTypes, Queues
  <1>14. c \in created
    BY <1>3, <1>4, NowMoment DEF Grounded
  <1>15. Step(Now, e, Now', height)
    <2>1. PICK M : M = Now
      OBVIOUS
    <2>2. PICK N : N = Now'
      OBVIOUS
    <2>3. /\ M.created = created /\ N.created = created /\ M.staked = staked /\ N.staked = staked'
          /\ M.linked = N.linked
          /\ M.queue = [h \in Holders |-> queue[h]] /\ N.queue = [h \in Holders |-> queue'[h]]
      BY <1>4, <2>1, <2>2 DEF Now, Moment
    <2>4. Duration[c] # 0 => N.queue = [M.queue EXCEPT ![<<c, a>>] = Append(M.queue[<<c, a>>], y)]
      <3>1. M.queue[<<c, a>>] = queue[<<c, a>>]
        BY <1>3, <2>3
      <3>2. PICK v : v = Append(queue[<<c, a>>], y)
        OBVIOUS
      <3>3. ASSUME Duration[c] # 0 PROVE N.queue = [M.queue EXCEPT ![<<c, a>>] = v]
        <4>1. PICK q2 : q2 = queue'
          OBVIOUS
        <4>2. OneQueue(queue, q2, c, a, v) /\ Held(queue, M.queue) /\ Held(q2, N.queue)
          BY <1>9, <2>3, <3>2, <3>3, <4>1 DEF OneQueue, Held
        <4>3. c \in Fungible \cup NftModules
          OBVIOUS
        <4>4. N.queue = IF c \in Fungible THEN [M.queue EXCEPT ![<<c, a>>] = v] ELSE M.queue
          BY <1>8, <4>2, <4>3, QueuesOf
        <4> QED
          BY <4>4
      <3> QED
        BY <3>1, <3>2, <3>3
    <2>5. Duration[c] = 0 => N.queue = M.queue
      BY <1>10, <2>3
    <2>6. Delayed(e) <=> Duration[c] # 0
      BY <1>2 DEF Delayed
    <2>7. Step(M, e, N, height)
      BY <1>2, <1>4, <1>6, <1>14, <2>3, <2>4, <2>5, <2>6 DEF Step, IsCreation, IsMove
    <2> QED
      BY <2>1, <2>2, <2>7
  <1>16. ChainOK'
    BY <1>4 DEF IInv, ChainOK
  <1> QED
    BY <1>2, <1>4, <1>13, <1>15, <1>16, OneEvent

\* ChainStakesNft: the member's NFTs are pending.
LEMMA ChainStakesNftKeeps ==
    ASSUME IInv, NEW a \in Members, NEW c \in NftModules, NEW x \in Nfts, ChainStakesNft(c, a, x)
    PROVE  IInv'
  <1>1. PICK e : e = Event("stakeNft", c, a)
    OBVIOUS
  <1>2. e.type = "stakeNft" /\ e.contract = c /\ e.member = a /\ e \in Events
    BY <1>1 DEF Event, Events, NftMoves
  <1>3. ChainTypes /\ <<c, a>> \in Keepers
    BY DEF IInv, Keepers
  <1>4. /\ c \in created
        /\ kept' = [kept EXCEPT ![<<c, a>>] = kept[<<c, a>>] \cup {x}]
        /\ Emit(<<e>>)
        /\ UNCHANGED <<created, staked, weights, queue>>
    BY <1>1 DEF ChainStakesNft
  <1>5. kept' \in [Keepers -> SUBSET Nfts]
    BY <1>3, <1>4 DEF ChainTypes
  <1>6. ChainTypes'
    BY <1>2, <1>3, <1>4, <1>5, EmitTypes, OneEventSeq DEF ChainTypes
  <1>7. Step(Now, e, Now', height)
    <2>1. PICK M : M = Now
      OBVIOUS
    <2>2. M = Now' /\ M.created = created
      BY <1>4, <2>1 DEF Now, Moment
    <2>3. Step(M, e, M, height)
      BY <1>2, <1>4, <2>2 DEF Step, IsCreation, IsMove, Delayed
    <2> QED
      BY <2>1, <2>2, <2>3
  <1>9. \A h \in Keepers : kept'[h] = kept[h] \/ (kept[h] \subseteq kept'[h] /\ h = <<c, a>>)
    BY <1>3, <1>4 DEF ChainTypes
  <1>8. ChainOK'
    BY <1>4, <1>9 DEF IInv, ChainOK
  <1> QED
    BY <1>2, <1>4, <1>6, <1>7, <1>8, <1>9, OneEvent

\* A set is listed as a sequence of its members.
LEMMA Sequenced ==
    ASSUME NEW S, IsFiniteSet(S)
    PROVE  SetToSeq(S) \in Seq(S)
  <1>1. PICK n \in Nat : ExistsBijection(1..n, S)
    BY FS_NatBijection
  <1>2. Cardinality(S) = n
    BY <1>1, FS_CountingElements
  <1>3. \E f \in [1..n -> S] : IsInjective(f)
    BY <1>1 DEF IsInjective, ExistsBijection, Bijection, Injection
  <1>4. SetToSeq(S) \in [1..n -> S]
    BY <1>2, <1>3 DEF SetToSeq
  <1> QED
    BY <1>4

\* ChainUnstakesNfts, in the same way.
LEMMA ChainUnstakesNftsKeeps ==
    ASSUME IInv, NEW a \in Members, NEW c \in NftModules, NEW S \in SUBSET Nfts, ChainUnstakesNfts(c, a, S)
    PROVE  IInv'
  <1>1. PICK e : e = Event("unstakeNft", c, a)
    OBVIOUS
  <1>2. e.type = "unstakeNft" /\ e.contract = c /\ e.member = a /\ e \in Events
    BY <1>1 DEF Event, Events, NftMoves
  <1>3. ChainTypes /\ <<c, a>> \in Keepers
    BY DEF IInv, Keepers
  <1>4. /\ kept' = [kept EXCEPT ![<<c, a>>] = kept[<<c, a>>] \ S]
        /\ Queued(c, a, SetToSeq(S))
        /\ Emit(<<e>>)
        /\ UNCHANGED <<created, staked, weights>>
    BY <1>1 DEF ChainUnstakesNfts
  <1>5. kept' \in [Keepers -> SUBSET Nfts]
    BY <1>3, <1>4 DEF ChainTypes
  <1>6. queue \in Queues /\ queue[<<c, a>>] \in Seq(Entries)
    BY <1>3 DEF ChainTypes, Queues
  <1>7. PICK s : s = SetToSeq(S)
    OBVIOUS
  <1>8. s \in Seq(S)
    <2>1. IsFiniteSet(S)
      BY DaoParameters, FS_Subset
    <2> QED
      BY <1>7, <2>1, Sequenced
  <1>9. PICK t : t = [i \in DOMAIN s |-> [what |-> s[i], release |-> height + Duration[c]]]
    OBVIOUS
  <1>10. t \in Seq(Entries)
    <2>1. PICK n \in Nat : DOMAIN s = 1..n
      BY <1>8
    <2>2. \A i \in 1..n : s[i] \in Amounts \cup Nfts
      BY <1>8, <2>1
    <2>3. height \in Nat
      BY <1>3, Numbers DEF ChainTypes
    <2>4. \A i \in 1..n : [what |-> s[i], release |-> height + Duration[c]] \in Entries
      BY <2>2, <2>3, NewEntry
    <2>5. t \in [1..n -> Entries]
      BY <1>9, <2>1, <2>4
    <2> QED
      BY <2>5
  <1>11. PICK v : v = queue[<<c, a>>] \o t
    OBVIOUS
  <1>12. v \in Seq(Entries)
    BY <1>6, <1>10, <1>11
  <1>13. queue' = queue \/ queue' = [queue EXCEPT ![<<c, a>>] = v]
    BY <1>4, <1>7, <1>9, <1>11 DEF Queued
  <1>14. queue' \in Queues
    BY <1>6, <1>12, <1>13 DEF Queues
  <1>15. ChainTypes'
    BY <1>2, <1>3, <1>4, <1>5, <1>14, EmitTypes, OneEventSeq DEF ChainTypes, Queues
  <1>16. Step(Now, e, Now', height)
    <2>1. PICK M : M = Now
      OBVIOUS
    <2>2. c \notin Fungible
      BY Kinds DEF Fungible
    <2>3. [h \in Holders |-> queue'[h]] = [h \in Holders |-> queue[h]]
      <3>1. PICK q2 : q2 = queue'
        OBVIOUS
      <3>2. PICK A : A = [h \in Holders |-> queue[h]]
        OBVIOUS
      <3>3. PICK B : B = [h \in Holders |-> q2[h]]
        OBVIOUS
      <3>4. CASE queue' = queue
        BY <3>4
      <3>5. CASE queue' = [queue EXCEPT ![<<c, a>>] = v]
        <4>1. OneQueue(queue, q2, c, a, v) /\ Held(queue, A) /\ Held(q2, B)
          BY <3>1, <3>2, <3>3, <3>5 DEF OneQueue, Held
        <4>2. A = B
          BY <1>6, <2>2, <4>1, QueuesOf
        <4> QED
          BY <3>1, <3>2, <3>3, <4>2
      <3> QED
        BY <1>13, <3>4, <3>5
    <2>4. M = Now' /\ M.created = created
      BY <1>4, <2>1, <2>3 DEF Now, Moment
    <2>5. c \in created
      BY <1>3 DEF IInv, ChainOK, ChainUnstakesNfts
    <2>6. Step(M, e, M, height)
      BY <1>2, <2>4, <2>5 DEF Step, IsCreation, IsMove, Delayed
    <2> QED
      BY <2>1, <2>4, <2>6
  <1>18. \A h \in Keepers : kept'[h] = kept[h] \/ (h = <<c, a>> /\ kept'[h] = kept[h] \ S)
    BY <1>3, <1>4 DEF ChainTypes
  <1>17. ChainOK'
    BY <1>4, <1>18 DEF IInv, ChainOK
  <1> QED
    BY <1>2, <1>4, <1>15, <1>16, <1>17, <1>18, OneEvent

\* ChainPaysClaims: what is due is taken out.
LEMMA ChainPaysClaimsKeeps ==
    ASSUME IInv, NEW a \in Members, NEW c \in Fungible \cup NftModules, ChainPaysClaims(c, a)
    PROVE  IInv'
  <1>1. PICK e : e = Event("claim", c, a)
    OBVIOUS
  <1>2. e.type = "claim" /\ e.contract = c /\ e.member = a /\ e \in Events
    BY <1>1 DEF Event, Events, Payments
  <1>3. ChainTypes /\ height \in Nat
    BY Numbers DEF IInv, ChainTypes
  <1>4. PICK v : v = Unripe(queue[<<c, a>>], height)
    OBVIOUS
  <1>5. /\ DOMAIN queue[<<c, a>>] # {}
        /\ queue' = [queue EXCEPT ![<<c, a>>] = v]
        /\ Emit(<<e>>)
        /\ UNCHANGED <<created, staked, weights, kept>>
    BY <1>1, <1>4 DEF ChainPaysClaims
  <1>6. queue \in Queues /\ queue[<<c, a>>] \in Seq(Entries)
    BY <1>3 DEF ChainTypes, Queues
  <1>7. v \in Seq(Entries)
    BY <1>3, <1>4, <1>6, UnripeKeeps
  <1>8. queue' \in Queues
    BY <1>5, <1>6, <1>7 DEF Queues
  <1>9. ChainTypes'
    BY <1>2, <1>3, <1>5, <1>8, EmitTypes, OneEventSeq DEF ChainTypes, Queues
  <1>10. c \in created \/ c \in NftModules
    <2> SUFFICES ASSUME c \in Fungible, c \notin created PROVE FALSE
      OBVIOUS
    <2>1. <<c, a>> \in Holders
      BY DEF Holders
    <2>2. queue[<<c, a>>] = << >>
      BY <2>1, NowMoment DEF Grounded
    <2> QED
      BY <1>5, <2>2
  <1>11. Step(Now, e, Now', height)
    <2>1. PICK M : M = Now
      OBVIOUS
    <2>2. PICK N : N = Now'
      OBVIOUS
    <2>3. /\ M.created = created /\ N.created = created /\ M.staked = staked /\ N.staked = staked
          /\ M.linked = N.linked
          /\ M.queue = [h \in Holders |-> queue[h]] /\ N.queue = [h \in Holders |-> queue'[h]]
      BY <1>5, <2>1, <2>2 DEF Now, Moment
    <2>4. N.queue = IF c \in Fungible THEN [M.queue EXCEPT ![<<c, a>>] = v] ELSE M.queue
      <3>1. PICK q2 : q2 = queue'
        OBVIOUS
      <3>2. OneQueue(queue, q2, c, a, v) /\ Held(queue, M.queue) /\ Held(q2, N.queue)
        BY <1>5, <2>3, <3>1 DEF OneQueue, Held
      <3> QED
        BY <1>6, <3>2, QueuesOf
    <2>5. c \in Fungible => M.queue[<<c, a>>] = queue[<<c, a>>]
      BY <2>3 DEF Holders
    <2>6. Step(M, e, N, height)
      BY <1>2, <1>4, <1>5, <1>10, <2>3, <2>4, <2>5 DEF Step, IsCreation, IsMove, Delayed
    <2> QED
      BY <2>1, <2>2, <2>6
  <1>12. ChainOK'
    BY <1>5 DEF IInv, ChainOK
  <1> QED
    BY <1>2, <1>5, <1>9, <1>11, <1>12, OneEvent

\* ChainUpdatesMember: the group's members are pending.
LEMMA ChainUpdatesMemberKeeps ==
    ASSUME IInv, NEW a \in Members, NEW c \in Groups, NEW n \in {0} \cup Amounts, ChainUpdatesMember(c, a, n)
    PROVE  IInv'
  <1>1. PICK e : e = Event("members", c, None)
    OBVIOUS
  <1>2. e.type = "members" /\ e.contract = c /\ e \in Events
    BY <1>1 DEF Event, Events, GroupMoves
  <1>3. ChainTypes /\ <<c, a>> \in GroupHolders /\ n \in Nat
    BY Numbers DEF IInv, GroupHolders
  <1>4. /\ c \in created
        /\ weights' = [weights EXCEPT ![<<c, a>>] = n]
        /\ Emit(<<e>>)
        /\ UNCHANGED <<created, staked, kept, queue>>
    BY <1>1 DEF ChainUpdatesMember
  <1>5. weights' \in [GroupHolders -> Nat]
    BY <1>3, <1>4 DEF ChainTypes
  <1>6. ChainTypes'
    BY <1>2, <1>3, <1>4, <1>5, EmitTypes, OneEventSeq DEF ChainTypes
  <1>7. Step(Now, e, Now', height)
    <2>1. PICK M : M = Now
      OBVIOUS
    <2>2. M = Now' /\ M.created = created
      BY <1>4, <2>1 DEF Now, Moment
    <2>3. Step(M, e, M, height)
      BY <1>2, <1>4, <2>2 DEF Step, IsCreation, IsMove, Delayed
    <2> QED
      BY <2>1, <2>2, <2>3
  <1>8. \A h \in GroupHolders : h[1] # c => weights'[h] = weights[h]
    BY <1>3, <1>4 DEF ChainTypes
  <1>9. ChainOK'
    BY <1>4, <1>8 DEF IInv, ChainOK
  <1>10. \A g \in Groups : g = c \/ \A b \in Members : weights'[<<g, b>>] = weights[<<g, b>>]
    BY <1>8 DEF GroupHolders
  <1> QED
    BY <1>2, <1>4, <1>6, <1>7, <1>9, <1>10, OneEvent

\* The same, of the first and the last moment only.
LEMMA Continues ==
    ASSUME NEW evs \in Seq(Events), NEW past, NEW h \in Nat, Tells(past, evs, h),
           NEW e \in Events, NEW N \in Moments, Step(past[Len(evs)], e, N, h)
    PROVE  \E p : /\ Tells(p, Append(evs, e), h)
                  /\ p[Len(Append(evs, e))] = N
                  /\ p[0] = past[0]
  <1>1. PICK p : /\ Tells(p, Append(evs, e), h)
                 /\ p[Len(evs) + 1] = N
                 /\ \A i \in 0..Len(evs) : p[i] = past[i]
    BY Extends
  <1>2. Len(Append(evs, e)) = Len(evs) + 1 /\ 0 \in 0..Len(evs)
    OBVIOUS
  <1> QED
    BY <1>1, <1>2

InstantiationEvents(evs, M, m, c, fs) ==
    fs = evs \o (<<Event("module", m, None)>>
                   \o (IF c # m /\ c \notin M.created THEN <<Event("contract", c, None)>> ELSE << >>)
                   \o (IF c # m THEN <<Event("link", m, c)>> ELSE << >>))

Instantiated(M, m, c, N) ==
    /\ m \notin M.created
    /\ M.linked = Resting \cap M.created
    /\ N.created = M.created \cup {m, c} /\ N.linked = Resting \cap N.created
    /\ N.staked = M.staked /\ N.queue = M.queue

\* The events of an instantiation are told one after the other.
LEMMA InstantiationTells ==
    ASSUME NEW evs \in Seq(Events), NEW past, NEW h \in Nat, Tells(past, evs, h),
           NEW M \in Moments, past[Len(evs)] = M,
           NEW m \in Modules, NEW c, c = Rests(m), NEW N \in Moments, Instantiated(M, m, c, N),
           NEW fs, InstantiationEvents(evs, M, m, c, fs)
    PROVE  /\ \E p : Tells(p, fs, h) /\ p[Len(fs)] = N /\ p[0] = past[0]
           /\ fs \in Seq(Events) /\ Extended(evs, fs)
           /\ c \in Groups /\ c \notin M.created => \A p \in 1..Len(evs) + 1 : MembersPending(fs, p, c)
  <1>0. /\ m \notin M.created
        /\ M.linked = Resting \cap M.created
        /\ N.created = M.created \cup {m, c} /\ N.linked = Resting \cap N.created
        /\ N.staked = M.staked /\ N.queue = M.queue
    BY DEF Instantiated
  <1>1. PICK e1 : e1 = Event("module", m, None)
    OBVIOUS
  <1>2. PICK e2 : e2 = Event("contract", c, None)
    OBVIOUS
  <1>3. PICK e3 : e3 = Event("link", m, c)
    OBVIOUS
  <1>4. e1 \in Events /\ e1.type = "module" /\ e1.contract = m
    BY <1>1 DEF Event, Events, Creations
  <1>5. /\ e2.type = "contract" /\ e2.contract = c
        /\ e3.type = "link" /\ e3.contract = m /\ e3.member = c
    BY <1>2, <1>3 DEF Event
  <1>6. c # m => m \in Resting /\ c = Base[m] /\ c \in Stakings \cup Groups
    BY Kinds DEF Rests, Resting
  <1>7. c = m => m \notin Resting
    BY Kinds DEF Rests, Resting, Modules
  <1>8. c # m => e2 \in Events /\ e3 \in Events
    BY <1>2, <1>3, <1>6 DEF Event, Events, Creations, Links
  <1>9. M.created \subseteq Modules \cup Contracts /\ M.linked \subseteq Resting
        /\ M.staked \in [Holders -> Nat] /\ M.queue \in [Holders -> Seq(Entries)]
        /\ N.created \subseteq Modules \cup Contracts /\ N.linked \subseteq Resting
    BY MomentFields
  <1>10. PICK M1 : M1 = [created |-> M.created \cup {m}, linked |-> M.linked,
                         staked |-> M.staked, queue |-> M.queue]
    OBVIOUS
  <1>11. M1 \in Moments
    BY <1>9, <1>10 DEF Moments
  <1>12. /\ M1.created = M.created \cup {m} /\ M1.linked = M.linked
         /\ M1.staked = M.staked /\ M1.queue = M.queue
    BY <1>10
  <1>13. Step(past[Len(evs)], e1, M1, h)
    BY <1>0, <1>4, <1>12 DEF Step, IsCreation, IsMove, Delayed
  <1>14. PICK f1 : f1 = Append(evs, e1)
    OBVIOUS
  <1>15. f1 \in Seq(Events) /\ Extended(evs, f1)
    BY <1>4, <1>14, PendingLast
  <1>16. PICK p1 : Tells(p1, f1, h) /\ p1[Len(f1)] = M1 /\ p1[0] = past[0]
    BY <1>4, <1>11, <1>13, <1>14, Continues
  <1>17. CASE c = m
    <2>1. fs = evs \o <<e1>>
      BY <1>1, <1>17 DEF InstantiationEvents
    <2>2. fs = f1
      BY <1>4, <1>14, <2>1
    <2>3. N.created = M.created \cup {m} /\ N.linked = M.linked
      BY <1>0, <1>7, <1>17
    <2>4. Step(past[Len(evs)], e1, N, h)
      BY <1>0, <1>4, <2>3 DEF Step, IsCreation, IsMove, Delayed
    <2>5. \E p : Tells(p, f1, h) /\ p[Len(f1)] = N /\ p[0] = past[0]
      BY <1>4, <1>14, <2>4, Continues
    <2>6. c \notin Groups
      BY <1>17, Kinds DEF Modules
    <2> QED
      BY <1>15, <2>2, <2>5, <2>6
  <1>18. CASE c # m /\ c \in M.created
    <2>1. fs = evs \o <<e1, e3>>
      BY <1>1, <1>3, <1>18 DEF InstantiationEvents
    <2>2. PICK f2 : f2 = Append(f1, e3)
      OBVIOUS
    <2>3. fs = f2
      BY <1>4, <1>8, <1>14, <1>18, <2>1, <2>2
    <2>4. N.created = M1.created /\ N.linked = M1.linked \cup {m}
      BY <1>0, <1>6, <1>12, <1>18, Kinds DEF Resting
    <2>5. m \notin NftModules /\ m \in M1.created /\ c \in M1.created /\ c = Base[m]
      BY <1>6, <1>12, <1>18, Kinds DEF Resting
    <2>6. Step(p1[Len(f1)], e3, N, h)
      BY <1>0, <1>16, <1>5, <1>12, <2>4, <2>5 DEF Step, IsCreation, IsMove, Delayed
    <2>7. \E p : Tells(p, f2, h) /\ p[Len(f2)] = N /\ p[0] = p1[0]
      BY <1>8, <1>15, <1>16, <1>18, <2>2, <2>6, Continues
    <2>8. f2 \in Seq(Events) /\ Extended(f1, f2)
      BY <1>8, <1>15, <1>18, <2>2, PendingLast
    <2>9. Extended(evs, f2)
      BY <1>15, <2>8 DEF Extended
    <2> QED
      BY <1>16, <1>18, <2>3, <2>7, <2>8, <2>9
  <1>19. CASE c # m /\ c \notin M.created
    <2>1. fs = evs \o <<e1, e2, e3>>
      BY <1>1, <1>2, <1>3, <1>19 DEF InstantiationEvents
    <2>2. PICK f2 : f2 = Append(f1, e2)
      OBVIOUS
    <2>3. PICK f3 : f3 = Append(f2, e3)
      OBVIOUS
    <2>4. fs = f3
      BY <1>4, <1>8, <1>14, <1>19, <2>1, <2>2, <2>3
    <2>5. PICK M2 : M2 = [created |-> N.created, linked |-> M.linked,
                          staked |-> M.staked, queue |-> M.queue]
      OBVIOUS
    <2>6. M2 \in Moments
      BY <1>9, <2>5 DEF Moments
    <2>7. /\ M2.created = M1.created \cup {c} /\ M2.linked = M1.linked
          /\ M2.staked = M1.staked /\ M2.queue = M1.queue
      BY <1>0, <1>12, <2>5
    <2>8. Step(p1[Len(f1)], e2, M2, h)
      BY <1>16, <1>5, <1>12, <1>19, <2>7 DEF Step, IsCreation, IsMove, Delayed
    <2>9. f2 \in Seq(Events) /\ Extended(f1, f2)
      BY <1>8, <1>15, <1>19, <2>2, PendingLast
    <2>10. PICK p2 : Tells(p2, f2, h) /\ p2[Len(f2)] = M2 /\ p2[0] = p1[0]
      BY <1>8, <1>15, <1>16, <1>19, <2>2, <2>6, <2>8, Continues
    <2>11. N.created = M2.created /\ N.linked = M2.linked \cup {m} /\ N.staked = M2.staked /\ N.queue = M2.queue
      <3>1. c \notin Resting /\ m \in Resting
        BY <1>6, <1>19, Kinds DEF Resting
      <3>2. Resting \cap N.created = (Resting \cap M.created) \cup {m}
        BY <1>0, <3>1
      <3> QED
        BY <1>0, <2>5, <3>2
    <2>12. m \notin NftModules /\ m \in M2.created /\ c \in M2.created /\ c = Base[m]
      BY <1>6, <1>12, <1>19, <2>7, Kinds DEF Resting
    <2>13. Step(p2[Len(f2)], e3, N, h)
      BY <1>5, <2>10, <2>11, <2>12 DEF Step, IsCreation, IsMove, Delayed
    <2>14. \E p : Tells(p, f3, h) /\ p[Len(f3)] = N /\ p[0] = p2[0]
      BY <1>8, <1>19, <2>3, <2>9, <2>10, <2>13, Continues
    <2>15. f3 \in Seq(Events) /\ Extended(f2, f3)
      BY <1>8, <1>19, <2>3, <2>9, PendingLast
    <2>16. Extended(evs, f3)
      BY <1>15, <2>9, <2>15 DEF Extended
    <2>17. ASSUME NEW p \in 1..Len(evs) + 1 PROVE MembersPending(f3, p, c)
      <3>1. p \in 1..Len(f1) + 1 /\ p \in Nat \ {0}
        BY <1>15 DEF Extended
      <3>2. MembersPending(f2, p, c)
        BY <1>5, <1>8, <1>15, <1>19, <2>2, <3>1, PendingLast
      <3> QED
        BY <2>15, <3>1, <3>2, PendingStays
    <2> QED
      BY <1>16, <2>4, <2>10, <2>14, <2>15, <2>16, <2>17
  <1> QED
    BY <1>17, <1>18, <1>19

\* ChainInstantiates, which emits up to three events.
LEMMA ChainInstantiatesKeeps ==
    ASSUME IInv, NEW m \in Modules, NEW w \in [Members -> {0} \cup Amounts], ChainInstantiates(m, w)
    PROVE  IInv'
  <1>1. PICK c : c = Rests(m)
    OBVIOUS
  <1>2. PICK past : History(past) /\ Indexer(past[pos - 1])
    BY DEF IInv
  <1>3. PICK evs : evs = (<<Event("module", m, None)>>
                        \o (IF c # m /\ c \notin created THEN <<Event("contract", c, None)>> ELSE << >>)
                        \o (IF c # m THEN <<Event("link", m, c)>> ELSE << >>))
    OBVIOUS
  <1>4. PICK fs : fs = events \o evs
    OBVIOUS
  <1>5. PICK w2 : w2 = IF c \in Groups \ created
                       THEN [h \in DOMAIN weights |-> IF h[1] = c THEN w[h[2]] ELSE weights[h]]
                       ELSE weights
    OBVIOUS
  <1>6. /\ m \notin created
        /\ created' = created \cup {m, c}
        /\ weights' = w2
        /\ Emit(evs)
        /\ UNCHANGED <<staked, kept, queue>>
    <2>1. c \in {m, c} \ created <=> c \notin created
      OBVIOUS
    <2>2. c \in Groups \cap ({m, c} \ created) <=> c \in Groups \ created
      OBVIOUS
    <2> QED
      BY <1>1, <1>3, <1>5, <2>1, <2>2 DEF ChainInstantiates
  <1>7. /\ ChainTypes /\ TableTypes /\ events \in Seq(Events) /\ ~ sealed /\ height \in Nat
        /\ events' = fs
        /\ UNCHANGED <<height, pos, snapDone, tables, history, sealed>>
    BY <1>4, <1>6, Numbers DEF IInv, ChainTypes, Emit
  <1>8. pos = 1 /\ Len(events) \in Nat
    BY <1>7 DEF TableTypes
  <1>9. c \in Modules \cup Contracts
    BY <1>1, Kinds DEF Rests, Contracts, Fungible
  <1>10. created' \subseteq Modules \cup Contracts /\ queue' \in Queues /\ staked' \in [Holders -> Nat]
    BY <1>6, <1>7, <1>9 DEF ChainTypes, Queues
  <1>11. w2 \in [GroupHolders -> Nat]
    <2>1. \A h \in GroupHolders : w[h[2]] \in Nat
      BY Numbers DEF GroupHolders
    <2> QED
      BY <1>5, <1>7, <2>1 DEF ChainTypes
  <1>12. PICK M : M = Now
    OBVIOUS
  <1>13. PICK N : N = Now'
    OBVIOUS
  <1>14. M \in Moments /\ N \in Moments
    BY <1>7, <1>10, <1>12, <1>13, MomentType DEF ChainTypes, Now, Queues
  <1>15. /\ M.created = created /\ N.created = created' /\ M.staked = staked /\ N.staked = staked
         /\ M.linked = Resting \cap created /\ N.linked = Resting \cap created' /\ M.queue = N.queue
    BY <1>6, <1>12, <1>13 DEF Now, Moment
  <1>16. Tells(past, events, height) /\ past[Len(events)] = M
    BY <1>2, <1>12 DEF History
  <1>17. InstantiationEvents(events, M, m, c, fs)
    BY <1>3, <1>4, <1>15 DEF InstantiationEvents
  <1>18. Instantiated(M, m, c, N)
    BY <1>6, <1>15 DEF Instantiated
  <1>19. /\ \E p : Tells(p, fs, height) /\ p[Len(fs)] = N /\ p[0] = past[0]
         /\ fs \in Seq(Events) /\ Extended(events, fs)
         /\ c \in Groups /\ c \notin M.created => \A p \in 1..Len(events) + 1 : MembersPending(fs, p, c)
    BY <1>1, <1>7, <1>14, <1>16, <1>17, <1>18, InstantiationTells
  <1>20. PICK p : Tells(p, fs, height) /\ p[Len(fs)] = N /\ p[0] = past[0]
    BY <1>19
  <1>21. History(p)'
    BY <1>7, <1>13, <1>20 DEF History
  <1>22. ChainTypes'
    <2>1. messages' \in 0..MaxMessages
      BY <1>6, <1>7, Numbers DEF ChainTypes, Emit
    <2> QED
      BY <1>6, <1>7, <1>10, <1>11, <1>19, <2>1 DEF ChainTypes, Queues
  <1>23. \A h \in GroupHolders : w2[h] = weights[h] \/ (h[1] = c /\ c \in Groups /\ c \notin created)
    BY <1>5, <1>7 DEF ChainTypes
  <1>24. ChainOK'
    BY <1>6, <1>23 DEF IInv, ChainOK
  <1>25. PICK P : P = past[0]
    OBVIOUS
  <1>26. Indexer(P)
    BY <1>2, <1>8, <1>25
  <1>27. \A g \in Groups : \/ MembersPending(events', pos, g)
                           \/ \A a \in Members : weights'[<<g, a>>] = weights[<<g, a>>]
    <2> SUFFICES ASSUME NEW g \in Groups, NEW a \in Members, w2[<<g, a>>] # weights[<<g, a>>]
                 PROVE  MembersPending(fs, pos, g)
      BY <1>6, <1>7
    <2>1. g = c /\ c \notin M.created
      BY <1>15, <1>23 DEF GroupHolders
    <2>2. pos \in 1..Len(events) + 1
      BY <1>8
    <2> QED
      BY <1>19, <2>1, <2>2
  <1>28. Extended(events, events') /\ \A h \in Keepers : kept'[h] = kept[h]
    BY <1>6, <1>7, <1>19
  <1>29. Indexer(P)'
    BY <1>7, <1>26, <1>27, <1>28, IndexerStays
  <1>30. Indexer(p[pos - 1])'
    BY <1>7, <1>8, <1>20, <1>25, <1>29
  <1>31. TableTypes'
    <2>1. Len(fs) \in Nat /\ Len(events) <= Len(fs)
      BY <1>19 DEF Extended
    <2>2. (pos \in 1..Len(events) + 1 /\ (~ sealed => pos = 1))'
      BY <1>7, <1>8, <2>1
    <2>3. (known \subseteq created)'
      BY <1>6, <1>7 DEF TableTypes, tables
    <2> QED
      BY <1>7, <2>2, <2>3 DEF TableTypes, RowTypes, tables
  <1> QED
    BY <1>21, <1>22, <1>24, <1>30, <1>31 DEF IInv

\* ChainEndsBlock writes only that the block is sealed.
LEMMA ChainEndsBlockKeeps ==
    ASSUME IInv, ChainEndsBlock
    PROVE  IInv'
  <1>1. PICK past : History(past) /\ Indexer(past[pos - 1])
    BY DEF IInv
  <1>2. /\ sealed' = TRUE /\ height < MaxHeight
        /\ UNCHANGED <<height, events, messages, chainVars, pos, snapDone, tables, history>>
    BY DEF ChainEndsBlock
  <1>3. ChainTypes' /\ TableTypes' /\ ChainOK'
    BY <1>2 DEF IInv, ChainTypes, TableTypes, RowTypes, ChainOK, chainVars, tables
  <1>4. History(past)'
    BY <1>1, <1>2 DEF History, Now, chainVars
  <1>5. PICK M : M = past[pos - 1]
    OBVIOUS
  <1>6. Indexer(M)'
    BY <1>1, <1>2, <1>5 DEF Indexer, Live, Rows, Asleep, tables, history, chainVars
  <1>7. Indexer(past[pos - 1])'
    BY <1>2, <1>5, <1>6
  <1> QED
    BY <1>3, <1>4, <1>7 DEF IInv

----------------------------------------------------------------------------
(* The indexer's steps. *)

\* The event being processed, and what the chain was before and after it.
Between(M, N) ==
    /\ M \in Moments /\ N \in Moments
    /\ Current \in Events
    /\ Step(M, Current, N, height)
    /\ Grounded(M) /\ Indexer(M)
    /\ N.created \subseteq created
    /\ Delayed(Current) =>
         EndsIn(queue[<<Current.contract, Current.member>>], height + Duration[Current.contract])
    /\ pos \in 1..Len(events) /\ Len(events) \in Nat /\ events \in Seq(Events) /\ height \in Nat

\* At an event there are the moments before and after it, and what is left to
\* show.
LEMMA Processing ==
    ASSUME IInv, sealed, pos <= Len(events)
    PROVE  \E M, N : /\ Between(M, N)
                     /\ Indexed /\ TableTypes' /\ Indexer(N)' => IInv'
  <1>1. PICK past : History(past) /\ Indexer(past[pos - 1])
    BY DEF IInv
  <1>2. events \in Seq(Events) /\ pos \in 1..Len(events) /\ height \in Nat /\ Len(events) \in Nat
    BY Numbers DEF IInv, ChainTypes, TableTypes
  <1>3. PICK n \in Nat : n = Len(events)
    BY <1>2
  <1>4. pos \in 1..n /\ pos - 1 \in 0..n /\ pos \in 0..n /\ n \in 0..n
    BY <1>2, <1>3
  <1>5. Tells(past, events, height) /\ past[n] = Now
    BY <1>1, <1>3 DEF History
  <1>6. PICK M : M = past[pos - 1]
    OBVIOUS
  <1>7. PICK N : N = past[pos]
    OBVIOUS
  <1>8. M \in Moments /\ N \in Moments /\ Step(M, events[pos], N, height) /\ Grounded(M)
    BY <1>3, <1>4, <1>5, <1>6, <1>7 DEF Tells
  <1>9. N.created \subseteq created
    <2>1. N.created \subseteq past[n].created
      BY <1>3, <1>4, <1>5, <1>7 DEF Tells, Announced
    <2> QED
      BY <1>5, <2>1, NowMoment
  <1>10. ASSUME Delayed(Current)
         PROVE  EndsIn(queue[<<Current.contract, Current.member>>], height + Duration[Current.contract])
    <2>1. EndsIn(Now.queue[<<Current.contract, Current.member>>], height + Duration[Current.contract])
      BY <1>3, <1>4, <1>5, <1>10 DEF Tells, Unstaked, Current
    <2>2. <<Current.contract, Current.member>> \in Holders
      <3>1. Current \in Events /\ IsMove(Current)
        BY <1>2, <1>10 DEF Current, Delayed, IsMove
      <3> QED
        BY <3>1, EventKinds DEF Holders
    <2> QED
      BY <2>1, <2>2, NowMoment
  <1>11. Current \in Events
    BY <1>2 DEF Current
  <1>12. Between(M, N)
    BY <1>1, <1>2, <1>6, <1>8, <1>9, <1>10, <1>11 DEF Between, Current
  <1>13. ASSUME Indexed, TableTypes', Indexer(N)' PROVE IInv'
    <2>1. ChainTypes' /\ ChainOK'
      BY <1>13 DEF IInv, ChainTypes, ChainOK, Indexed, chainVars
    <2>2. History(past)'
      BY <1>1, <1>13 DEF History, Now, Indexed, chainVars
    <2>3. pos' - 1 = pos
      BY <1>2, <1>13 DEF Indexed
    <2>4. Indexer(past[pos - 1])'
      BY <1>7, <1>13, <2>3
    <2> QED
      BY <1>13, <2>1, <2>2, <2>4 DEF IInv
  <1> QED
    BY <1>12, <1>13

\* What is pending but for the event being processed.
LEMMA PendingNext ==
    ASSUME NEW evs, NEW p \in 1..Len(evs), Len(evs) \in Nat
    PROVE  /\ \A c : MembersPending(evs, p, c) =>
                       \/ MembersPending(evs, p + 1, c)
                       \/ evs[p].type \in {"contract", "members"} /\ evs[p].contract = c
           /\ \A h, T : NftPending(evs, p, h, T) =>
                       \/ NftPending(evs, p + 1, h, T)
                       \/ evs[p].type \in T /\ evs[p].contract = h[1] /\ evs[p].member = h[2]
  <1>1. \A j \in p..Len(evs) : j = p \/ j \in (p + 1)..Len(evs)
    OBVIOUS
  <1> QED
    BY <1>1 DEF MembersPending, NftPending

\* Events that are not of a group's members leave them alone, ...
LEMMA MembersSeenNext ==
    ASSUME NEW evs, NEW p \in 1..Len(evs), Len(evs) \in Nat, NEW rows, NEW wts, MembersSeen(rows, wts, evs, p),
           evs[p].type \notin {"contract", "members"} \/ evs[p].contract \notin Groups
    PROVE  MembersSeen(rows, wts, evs, p + 1)
  <1>1. \A c \in Groups : MembersPending(evs, p, c) => MembersPending(evs, p + 1, c)
    BY PendingNext
  <1> QED
    BY <1>1 DEF MembersSeen

\* ... those not of NFTs leave these, ...
LEMMA NftsSeenNext ==
    ASSUME NEW evs, NEW p \in 1..Len(evs), Len(evs) \in Nat, NEW rows, NEW sn, NEW kp,
           NftsSeen(rows, sn, kp, evs, p), evs[p].type \notin {"stakeNft", "unstakeNft"}
    PROVE  NftsSeen(rows, sn, kp, evs, p + 1)
  <1>1. \A h, T : NftPending(evs, p, h, T) =>
                       \/ NftPending(evs, p + 1, h, T)
                       \/ evs[p].type \in T /\ evs[p].contract = h[1] /\ evs[p].member = h[2]
    BY PendingNext
  <1>2. \A h \in Keepers : /\ NftPending(evs, p, h, {"unstakeNft"}) => NftPending(evs, p + 1, h, {"unstakeNft"})
                           /\ NftPending(evs, p, h, {"stakeNft", "unstakeNft"}) =>
                                NftPending(evs, p + 1, h, {"stakeNft", "unstakeNft"})
    BY <1>1
  <1> QED
    BY <1>2 DEF NftsSeen

\* ... and the weights stay right.
LEMMA WeightsSeenNext ==
    ASSUME NEW evs, NEW p \in 1..Len(evs), Len(evs) \in Nat,
           NEW mods, NEW st, NEW mem, NEW rows, NEW wts, NEW M, NEW N, M.linked = N.linked,
           WeightsSeen(mods, st, mem, rows, wts, evs, p, M),
           evs[p].type \notin {"contract", "members"} \/ evs[p].contract \notin Groups
    PROVE  WeightsSeen(mods, st, mem, rows, wts, evs, p + 1, N)
  <1>1. \A c \in Groups : MembersPending(evs, p, c) => MembersPending(evs, p + 1, c)
    BY PendingNext
  <1>2. \A m \in GroupModules : Base[m] \in Groups
    BY Kinds
  <1> QED
    BY <1>1, <1>2 DEF WeightsSeen

\* What there is when an event is indexed, and what has to be shown then.
Starting(M, N, type) ==
    /\ Between(M, N)
    /\ Rows(M) /\ known = M.created
    /\ Current.type = type
    /\ height >= Cutoff
    /\ RowTypes
    /\ Indexed /\ known' = N.created /\ RowTypes' /\ Rows(N)' => IInv'

\* An event that is indexed starts like that: the tables are live.
LEMMA Starts ==
    ASSUME IInv, NEW type, Indexing(type)
    PROVE  \E M, N : Starting(M, N, type)
  <1>1. sealed /\ ~ SnapshotDue /\ pos <= Len(events) /\ Current.type = type /\ Indexable
    BY DEF Indexing
  <1>2. PICK M, N : /\ Between(M, N)
                    /\ Indexed /\ TableTypes' /\ Indexer(N)' => IInv'
    BY <1>1, Processing
  <1>3. height \in Nat /\ Cutoff \in Nat
    BY <1>2, Numbers DEF Between
  <1>4. height >= Cutoff
    BY <1>1, <1>3 DEF Indexable
  <1>5. Live
    BY <1>1, <1>4 DEF Live, SnapshotDue
  <1>6. Indexer(M)
    BY <1>2 DEF Between
  <1>7. Rows(M) /\ known = M.created
    BY <1>5, <1>6 DEF Indexer
  <1>8. TableTypes
    BY DEF IInv
  <1>9. ASSUME Indexed, known' = N.created, RowTypes', Rows(N)' PROVE IInv'
    <2>1. pos \in 1..Len(events) /\ Len(events) \in Nat /\ N.created \subseteq created
      BY <1>2 DEF Between
    <2>2. pos' \in 1..Len(events') + 1 /\ sealed'
      BY <1>1, <1>9, <2>1 DEF Indexed
    <2>3. TableTypes'
      BY <1>8, <1>9, <2>1, <2>2 DEF TableTypes, Indexed, chainVars
    <2>4. Live' /\ (snapDone => height >= Cutoff)'
      BY <1>4, <1>5, <1>9 DEF Live, Indexed
    <2>5. Indexer(N)'
      BY <1>9, <2>4 DEF Indexer
    <2> QED
      BY <1>2, <1>9, <2>3, <2>5
  <1>10. RowTypes
    BY <1>8 DEF TableTypes
  <1>11. Starting(M, N, type)
    BY <1>1, <1>2, <1>4, <1>7, <1>9, <1>10 DEF Starting
  <1> QED
    BY <1>11

\* The parts of an event that says nothing of them.
LEMMA SameModules ==
    ASSUME NEW mods, NEW kn, NEW M, NEW N, ModulesSeen(mods, kn, M), N.linked = M.linked,
           NEW mods2, NEW kn2, DOMAIN mods2 = DOMAIN mods, kn2 \cap Modules = kn \cap Modules,
           \A m \in DOMAIN mods : mods2[m].base = mods[m].base
    PROVE  ModulesSeen(mods2, kn2, N)
  BY DEF ModulesSeen

\* So for the stakers, ...
LEMMA SameStakers ==
    ASSUME NEW rows, NEW blur, NEW M, NEW N, StakersSeen(rows, blur, M), N.staked = M.staked
    PROVE  StakersSeen(rows, blur, N)
  BY DEF StakersSeen

\* ... and for the claims.
LEMMA SameClaims ==
    ASSUME NEW bag, NEW M, NEW N, ClaimsSeen(bag, M), N.queue = M.queue
    PROVE  ClaimsSeen(bag, N)
  BY DEF ClaimsSeen

\* IndexModule: there is no row of it yet, and no stake.
LEMMA IndexModuleKeeps ==
    ASSUME IInv, IndexModule
    PROVE  IInv'
  <1>1. PICK M, N : Starting(M, N, "module")
    BY Starts DEF IndexModule
  <1>2. PICK m : m = Current.contract
    OBVIOUS
  <1>3. /\ known' = known \cup {m} /\ modules' = Created(m)
        /\ Indexed /\ UNCHANGED <<stakers, members, nftRows, claims, seen>>
    BY <1>2 DEF IndexModule, Learned
  <1>4. /\ Between(M, N) /\ Rows(M) /\ known = M.created /\ Current.type = "module" /\ RowTypes
        /\ Step(M, Current, N, height) /\ Current \in Events /\ Grounded(M)
        /\ events[pos] = Current /\ pos \in 1..Len(events) /\ Len(events) \in Nat
    BY <1>1 DEF Starting, Between, Current
  <1>5. /\ m \in Modules /\ m \notin known /\ N.created = known'
        /\ N.linked = M.linked /\ N.staked = M.staked /\ N.queue = M.queue
    BY <1>2, <1>3, <1>4, EventKinds DEF Step, IsCreation, IsMove, Delayed
  <1>6. DOMAIN modules = known \cap Modules /\ m \notin DOMAIN modules
    BY <1>4, <1>5 DEF Rows, ModulesSeen
  <1>7. PICK mods : mods = Put(modules, m, [base |-> None, weight |-> 0])
    OBVIOUS
  <1>8. /\ modules' = mods /\ DOMAIN mods = DOMAIN modules \cup {m}
        /\ mods[m].base = None /\ mods[m].weight = 0 /\ mods[m] \in ModuleRows
        /\ \A k \in DOMAIN modules : mods[k] = modules[k]
    BY <1>3, <1>6, <1>7 DEF Created, Put, ModuleRows
  <1>9. m \notin M.linked
    BY <1>4, <1>5 DEF Grounded
  <1>10. ModulesSeen(mods, known', N)
    BY <1>3, <1>4, <1>5, <1>8, <1>9 DEF Rows, ModulesSeen
  <1>11. StakersSeen(stakers, blurred, N)
    BY <1>4, <1>5, SameStakers DEF Rows
  <1>12. MembersSeen(members, weights, events, pos + 1)
    BY <1>4, MembersSeenNext DEF Rows
  <1>13. NftsSeen(nftRows, seen, kept, events, pos + 1)
    BY <1>4, NftsSeenNext DEF Rows
  <1>14. WeightsSeen(modules, stakers, members, nftRows, weights, events, pos + 1, N)
    BY <1>4, <1>5, WeightsSeenNext DEF Rows
  <1>15. CountOf(nftRows, m) = 0
    <2>1. {r \in nftRows : r[1] = m} = {}
      BY <1>4, <1>5 DEF RowTypes
    <2> QED
      BY <2>1, FS_EmptySet DEF CountOf
  <1>16. SumOver(stakers, m) = 0
    <2>1. {h \in DOMAIN stakers : h[1] = m} = {}
      BY <1>4, <1>5 DEF RowTypes, IsTable
    <2> QED
      BY <2>1, SumEmpty DEF SumOver
  <1>17. WeightsSeen(mods, stakers, members, nftRows, weights, events, pos + 1, N)
    BY <1>5, <1>8, <1>9, <1>14, <1>15, <1>16 DEF WeightsSeen
  <1>18. ClaimsSeen(claims, N)
    BY <1>4, <1>5, SameClaims DEF Rows
  <1>19. Rows(N)'
    BY <1>3, <1>8, <1>10, <1>11, <1>12, <1>13, <1>17, <1>18 DEF Rows, Indexed, chainVars
  <1>20. RowTypes'
    BY <1>3, <1>4, <1>5, <1>8 DEF RowTypes, IsTable
  <1> QED
    BY <1>1, <1>3, <1>5, <1>19, <1>20 DEF Starting

\* A group's members read from the archive.
LEMMA ReadMembers ==
    ASSUME IsTable(members, GroupHolders, Nat), weights \in [GroupHolders -> Nat], NEW c \in Groups,
           NEW rows, rows = NewMembers(c)
    PROVE  /\ IsTable(rows, GroupHolders, Nat)
           /\ \/ Empty(weights, c)
              \/ /\ \A a \in Members : Amount(rows, <<c, a>>) = weights[<<c, a>>]
                 /\ SumOver(rows, c) = SumOver(weights, c)
           /\ \A g, a : g # c => Amount(rows, <<g, a>>) = Amount(members, <<g, a>>)
           /\ \A g : g # c => SumOver(rows, g) = SumOver(members, g)
  <1>1. \A h \in MembersOf(c) : h \in GroupHolders /\ h[1] = c /\ weights[h] > 0 /\ weights[h] \in Nat
    BY DEF MembersOf
  <1>2. \A h \in GroupHolders : h[1] = c /\ h \notin MembersOf(c) => weights[h] = 0
    BY DEF MembersOf
  <1>3. GroupHolders \subseteq Places
    BY DEF GroupHolders, Places
  <1>4. Table(members) /\ Table(weights)
    BY <1>3 DEF Table, IsTable
  <1>5. CASE MembersOf(c) = {}
    <2>1. rows = members
      BY <1>5 DEF NewMembers
    <2>2. Empty(weights, c)
      BY <1>2, <1>5 DEF Empty, GroupHolders
    <2> QED
      BY <2>1, <2>2
  <1>6. CASE MembersOf(c) # {}
    <2>1. rows = [h \in {g \in DOMAIN members : g[1] # c} \cup MembersOf(c) |->
                    IF h[1] = c THEN weights[h] ELSE members[h]]
      BY <1>6 DEF NewMembers
    <2>2. /\ \A h : h \in DOMAIN rows <=> (h \in DOMAIN members /\ h[1] # c) \/ h \in MembersOf(c)
          /\ \A h \in DOMAIN rows : rows[h] = IF h[1] = c THEN weights[h] ELSE members[h]
      BY <2>1
    <2>3. IsTable(rows, GroupHolders, Nat)
      BY <1>1, <2>2 DEF IsTable
    <2>4. Table(rows)
      BY <1>3, <2>3 DEF Table, IsTable
    <2>5. \A h \in GroupHolders : h[1] = c => Amount(rows, h) = weights[h]
      BY <1>1, <1>2, <2>2 DEF Amount
    <2>6. \A a \in Members : Amount(rows, <<c, a>>) = weights[<<c, a>>]
      BY <2>5 DEF GroupHolders
    <2>7. \A g, a : g # c => Amount(rows, <<g, a>>) = Amount(members, <<g, a>>)
      BY <1>1, <2>2 DEF Amount
    <2>8. SumOver(rows, c) = SumOver(weights, c)
      <3>1. \A h \in Places : h[1] = c => Amount(rows, h) = Amount(weights, h)
        BY <2>5 DEF Amount, Places, GroupHolders
      <3> QED
        BY <1>4, <2>4, <3>1, SumAmounts
    <2>9. ASSUME NEW g, g # c PROVE SumOver(rows, g) = SumOver(members, g)
      <3>1. \A h : (h \in DOMAIN rows /\ h[1] = g) <=> (h \in DOMAIN members /\ h[1] = g)
        BY <1>1, <2>2, <2>9
      <3>2. \A h \in DOMAIN rows : h[1] = g => rows[h] = members[h]
        BY <2>2, <2>9
      <3>3. \A h \in DOMAIN rows : h[1] = g => members[h] = rows[h]
        BY <3>2
      <3> QED
        BY <2>4, <3>1, <3>3, SumSame
    <2> QED
      BY <2>3, <2>6, <2>7, <2>8, <2>9
  <1> QED
    BY <1>5, <1>6

\* Once a group's members are read, it is as on the chain.
LEMMA ReadMembersSeen ==
    ASSUME NEW evs, NEW p \in 1..Len(evs), Len(evs) \in Nat, NEW old, NEW rows, NEW wts,
           MembersSeen(old, wts, evs, p), NEW c \in Groups, evs[p].contract = c,
           Empty(wts, c) \/ \A a \in Members : Amount(rows, <<c, a>>) = wts[<<c, a>>],
           \A g, a : g # c => Amount(rows, <<g, a>>) = Amount(old, <<g, a>>)
    PROVE  MembersSeen(rows, wts, evs, p + 1)
  <1> SUFFICES ASSUME NEW g \in Groups, ~ MembersPending(evs, p + 1, g)
               PROVE  Empty(wts, g) \/ \A a \in Members : Amount(rows, <<g, a>>) = wts[<<g, a>>]
    BY DEF MembersSeen
  <1>1. CASE g = c
    BY <1>1
  <1>2. CASE g # c
    <2>1. ~ MembersPending(evs, p, g)
      BY <1>2, PendingNext
    <2>2. Empty(wts, g) \/ \A a \in Members : Amount(old, <<g, a>>) = wts[<<g, a>>]
      BY <2>1 DEF MembersSeen
    <2> QED
      BY <1>2, <2>2
  <1> QED
    BY <1>1, <1>2

\* IndexContract: no module is linked to it yet.
LEMMA IndexContractKeeps ==
    ASSUME IInv, IndexContract
    PROVE  IInv'
  <1>1. PICK M, N : Starting(M, N, "contract")
    BY Starts DEF IndexContract
  <1>2. PICK c : c = Current.contract
    OBVIOUS
  <1>3. PICK rows : rows = IF c \in Groups THEN NewMembers(c) ELSE members
    OBVIOUS
  <1>4. /\ known' = known \cup {c} /\ members' = rows
        /\ Indexed /\ UNCHANGED <<modules, stakers, nftRows, claims, seen>>
    BY <1>2, <1>3 DEF IndexContract, Learned
  <1>5. /\ Between(M, N) /\ Rows(M) /\ known = M.created /\ Current.type = "contract" /\ RowTypes
        /\ Step(M, Current, N, height) /\ Current \in Events /\ Grounded(M)
        /\ events[pos] = Current /\ pos \in 1..Len(events) /\ Len(events) \in Nat
    BY <1>1 DEF Starting, Between, Current
  <1>6. /\ c \in Stakings \cup Groups /\ c \notin known /\ N.created = known'
        /\ N.linked = M.linked /\ N.staked = M.staked /\ N.queue = M.queue
    BY <1>2, <1>4, <1>5, EventKinds DEF Step, IsCreation, IsMove, Delayed
  <1>7. c \notin Modules
    BY <1>6, Kinds DEF Modules
  <1>8. ModulesSeen(modules, known', N)
    <2>1. known' \cap Modules = known \cap Modules
      BY <1>4, <1>7
    <2> QED
      BY <1>5, <1>6, <2>1, SameModules DEF Rows
  <1>9. StakersSeen(stakers, blurred, N)
    BY <1>5, <1>6, SameStakers DEF Rows
  <1>10. NftsSeen(nftRows, seen, kept, events, pos + 1)
    BY <1>5, NftsSeenNext DEF Rows
  <1>11. ClaimsSeen(claims, N)
    BY <1>5, <1>6, SameClaims DEF Rows
  <1>12. CASE c \notin Groups
    <2>1. rows = members
      BY <1>3, <1>12
    <2>2. MembersSeen(members, weights, events, pos + 1)
      BY <1>2, <1>5, <1>12, MembersSeenNext DEF Rows
    <2>3. WeightsSeen(modules, stakers, members, nftRows, weights, events, pos + 1, N)
      BY <1>2, <1>5, <1>6, <1>12, WeightsSeenNext DEF Rows
    <2>4. Rows(N)'
      BY <1>4, <1>8, <1>9, <1>10, <1>11, <2>1, <2>2, <2>3 DEF Rows, Indexed, chainVars
    <2>5. RowTypes'
      BY <1>4, <1>5, <2>1 DEF RowTypes, IsTable
    <2> QED
      BY <1>1, <1>4, <1>6, <2>4, <2>5 DEF Starting
  <1>13. CASE c \in Groups
    <2>1. weights \in [GroupHolders -> Nat]
      BY DEF IInv, ChainTypes
    <2>2. /\ IsTable(rows, GroupHolders, Nat)
          /\ \/ Empty(weights, c)
             \/ /\ \A a \in Members : Amount(rows, <<c, a>>) = weights[<<c, a>>]
                /\ SumOver(rows, c) = SumOver(weights, c)
          /\ \A g, a : g # c => Amount(rows, <<g, a>>) = Amount(members, <<g, a>>)
          /\ \A g : g # c => SumOver(rows, g) = SumOver(members, g)
      BY <1>3, <1>5, <1>13, <2>1, ReadMembers DEF RowTypes
    <2>3. MembersSeen(rows, weights, events, pos + 1)
      <3>1. Empty(weights, c) \/ \A a \in Members : Amount(rows, <<c, a>>) = weights[<<c, a>>]
        BY <2>2
      <3>2. MembersSeen(members, weights, events, pos) /\ events[pos].contract = c
        BY <1>2, <1>5 DEF Rows
      <3> QED
        BY <1>5, <1>13, <2>2, <3>1, <3>2, ReadMembersSeen
    <2>4. WeightsSeen(modules, stakers, rows, nftRows, weights, events, pos + 1, N)
      <3>1. WeightsSeen(modules, stakers, members, nftRows, weights, events, pos, M)
        BY <1>5 DEF Rows
      <3>2. \A m \in M.linked : Base[m] # c
        BY <1>5, <1>6 DEF Grounded
      <3>3. \A g : g # c /\ MembersPending(events, pos, g) => MembersPending(events, pos + 1, g)
        BY <1>2, <1>5, PendingNext
      <3> QED
        BY <1>6, <2>2, <3>1, <3>2, <3>3 DEF WeightsSeen
    <2>5. Rows(N)'
      BY <1>4, <1>8, <1>9, <1>10, <1>11, <2>3, <2>4 DEF Rows, Indexed, chainVars
    <2>6. RowTypes'
      BY <1>4, <1>5, <2>2 DEF RowTypes, IsTable
    <2> QED
      BY <1>1, <1>4, <1>6, <2>5, <2>6 DEF Starting
  <1> QED
    BY <1>12, <1>13

\* IndexMembers: the weights read are those of the members read.
LEMMA IndexMembersKeeps ==
    ASSUME IInv, IndexMembers
    PROVE  IInv'
  <1>1. PICK M, N : Starting(M, N, "members")
    BY Starts DEF IndexMembers
  <1>2. PICK c : c = Current.contract
    OBVIOUS
  <1>3. PICK rows : rows = NewMembers(c)
    OBVIOUS
  <1>4. PICK mods : mods = Weigh(LinkedTo(c), SumOver(weights, c))
    OBVIOUS
  <1>5. /\ modules' = mods /\ members' = rows
        /\ Indexed /\ UNCHANGED <<known, stakers, nftRows, claims, seen>>
    BY <1>2, <1>3, <1>4 DEF IndexMembers
  <1>6. /\ Between(M, N) /\ Rows(M) /\ known = M.created /\ Current.type = "members" /\ RowTypes
        /\ Step(M, Current, N, height) /\ Current \in Events /\ Grounded(M)
        /\ events[pos] = Current /\ pos \in 1..Len(events) /\ Len(events) \in Nat
    BY <1>1 DEF Starting, Between, Current
  <1>7. /\ c \in Groups /\ N.created = known
        /\ N.linked = M.linked /\ N.staked = M.staked /\ N.queue = M.queue
    BY <1>2, <1>6, EventKinds DEF Step, IsCreation, IsMove, Delayed
  <1>8. weights \in [GroupHolders -> Nat]
    BY DEF IInv, ChainTypes
  <1>9. /\ IsTable(rows, GroupHolders, Nat)
        /\ \/ Empty(weights, c)
           \/ /\ \A a \in Members : Amount(rows, <<c, a>>) = weights[<<c, a>>]
              /\ SumOver(rows, c) = SumOver(weights, c)
        /\ \A g, a : g # c => Amount(rows, <<g, a>>) = Amount(members, <<g, a>>)
        /\ \A g : g # c => SumOver(rows, g) = SumOver(members, g)
    BY <1>3, <1>6, <1>7, <1>8, ReadMembers DEF RowTypes
  <1>10. SumOver(weights, c) \in Int
    <2>1. Table(weights)
      BY <1>8 DEF Table, IsTable, Places, GroupHolders
    <2> QED
      BY <2>1, SumNumber
  <1>11. /\ DOMAIN mods = DOMAIN modules
         /\ \A m \in DOMAIN modules :
              /\ mods[m].base = modules[m].base /\ mods[m] \in ModuleRows
              /\ modules[m].base = c => mods[m].weight = SumOver(weights, c)
              /\ modules[m].base # c => mods[m].weight = modules[m].weight
    <2>1. \A m \in DOMAIN modules : modules[m] \in ModuleRows
      BY <1>6 DEF RowTypes, IsTable
    <2>2. DOMAIN mods = DOMAIN modules /\ \A m \in DOMAIN modules :
             mods[m] = IF modules[m].base = c THEN [modules[m] EXCEPT !.weight = SumOver(weights, c)] ELSE modules[m]
      BY <1>4 DEF Weigh, LinkedTo
    <2> QED
      BY <1>10, <2>1, <2>2 DEF ModuleRows
  <1>12. ModulesSeen(mods, known, N)
    BY <1>6, <1>7, <1>11, SameModules DEF Rows
  <1>13. StakersSeen(stakers, blurred, N)
    BY <1>6, <1>7, SameStakers DEF Rows
  <1>14. NftsSeen(nftRows, seen, kept, events, pos + 1)
    BY <1>6, NftsSeenNext DEF Rows
  <1>15. ClaimsSeen(claims, N)
    BY <1>6, <1>7, SameClaims DEF Rows
  <1>16. MembersSeen(rows, weights, events, pos + 1)
    <2>1. Empty(weights, c) \/ \A a \in Members : Amount(rows, <<c, a>>) = weights[<<c, a>>]
      BY <1>9
    <2>2. MembersSeen(members, weights, events, pos) /\ events[pos].contract = c
      BY <1>2, <1>6 DEF Rows
    <2> QED
      BY <1>6, <1>7, <1>9, <2>1, <2>2, ReadMembersSeen
  <1>17. WeightsSeen(mods, stakers, rows, nftRows, weights, events, pos + 1, N)
    <2>1. WeightsSeen(modules, stakers, members, nftRows, weights, events, pos, M)
      BY <1>6 DEF Rows
    <2>2. \A g : g # c /\ MembersPending(events, pos, g) => MembersPending(events, pos + 1, g)
      BY <1>2, <1>6, PendingNext
    <2>3. \A m \in DOMAIN modules : modules[m].base = IF m \in M.linked THEN Base[m] ELSE None
      BY <1>6 DEF Rows, ModulesSeen
    <2>4. ASSUME NEW m \in DOMAIN modules
          PROVE  /\ m \in NftModules \cup CoinModules \cup TokenModules => mods[m].weight = modules[m].weight
                 /\ m \in GroupModules \cap M.linked =>
                      \/ MembersPending(events, pos + 1, Base[m])
                      \/ Empty(weights, Base[m])
                      \/ mods[m].weight = SumOver(rows, Base[m])
      <3>1. modules[m].base = c => m \in GroupModules \/ m \notin Modules
        <4>1. M.linked \subseteq Resting /\ c # None
          BY <1>6, <1>7, MomentFields, Kinds DEF Between
        <4> QED
          BY <1>7, <2>3, <4>1, Kinds DEF Resting
      <3>2. m \in NftModules \cup CoinModules \cup TokenModules => m \notin GroupModules /\ m \in Modules
        BY Kinds DEF Modules
      <3>3. ASSUME m \in GroupModules \cap M.linked, Base[m] = c
            PROVE  Empty(weights, Base[m]) \/ mods[m].weight = SumOver(rows, Base[m])
        BY <1>9, <1>11, <2>3, <2>4, <3>3
      <3>4. ASSUME m \in GroupModules \cap M.linked, Base[m] # c
            PROVE  \/ MembersPending(events, pos + 1, Base[m])
                   \/ Empty(weights, Base[m])
                   \/ mods[m].weight = SumOver(rows, Base[m])
        <4>1. \/ MembersPending(events, pos, Base[m])
              \/ Empty(weights, Base[m])
              \/ modules[m].weight = SumOver(members, Base[m])
          BY <2>1, <2>4, <3>4 DEF WeightsSeen
        <4>2. mods[m].weight = modules[m].weight
          BY <1>11, <2>3, <2>4, <3>4
        <4> QED
          BY <1>9, <2>2, <3>4, <4>1, <4>2
      <3> QED
        BY <1>11, <2>4, <3>1, <3>2, <3>3, <3>4
    <2> QED
      BY <1>7, <1>11, <2>1, <2>4 DEF WeightsSeen
  <1>18. Rows(N)'
    BY <1>5, <1>12, <1>13, <1>14, <1>15, <1>16, <1>17 DEF Rows, Indexed, chainVars
  <1>19. RowTypes'
    BY <1>5, <1>6, <1>9, <1>11 DEF RowTypes, IsTable
  <1> QED
    BY <1>1, <1>5, <1>6, <1>7, <1>18, <1>19 DEF Starting

----------------------------------------------------------------------------
(* The claims table. *)

\* Finitely many are due.
LEMMA DueFinite ==
    ASSUME NEW bag, IsClaims(bag), NEW c, NEW a, NEW t
    PROVE  IsFiniteSet(Due(bag, c, a, t)) /\ IntValued(bag, Due(bag, c, a, t))
  <1>1. Due(bag, c, a, t) \subseteq DOMAIN bag
    BY DEF Due
  <1>2. \A q \in DOMAIN bag : bag[q] \in Int
    BY DEF IsClaims, IsABag
  <1> QED
    BY <1>1, <1>2, FS_Subset DEF IsClaims, IntValued

\* A claim more is one more of those due.
LEMMA ListedInsert ==
    ASSUME NEW bag, IsClaims(bag), NEW q, q.contract \in Fungible => q.release \in Nat,
           NEW c \in Fungible, NEW a, NEW t \in Nat
    PROVE  Listed(Insert(bag, q), c, a, t) =
             Listed(bag, c, a, t) + (IF q.contract = c /\ q.member = a /\ q.release >= t THEN 1 ELSE 0)
  <1>1. PICK b2 : b2 = Insert(bag, q)
    OBVIOUS
  <1>2. /\ DOMAIN b2 = DOMAIN bag \cup {q} /\ b2[q] = IF q \in DOMAIN bag THEN bag[q] + 1 ELSE 1
        /\ \A x \in DOMAIN bag : x # q => b2[x] = bag[x]
    BY <1>1 DEF Insert, Put
  <1>3. PICK D : D = Due(bag, c, a, t)
    OBVIOUS
  <1>4. PICK E : E = Due(b2, c, a, t)
    OBVIOUS
  <1>5. IsFiniteSet(D) /\ IntValued(bag, D)
    BY <1>3, DueFinite
  <1>6. PICK A : A = D \ {q}
    OBVIOUS
  <1>7. IsFiniteSet(A) /\ IntValued(bag, A) /\ \A x \in A : bag[x] = b2[x]
    <2>1. A \subseteq D /\ A \subseteq DOMAIN bag
      BY <1>3, <1>6 DEF Due
    <2> QED
      BY <1>2, <1>5, <1>6, <2>1, FS_Subset DEF IntValued
  <1>8. PICK s \in Int : s = SumFunctionOnSet(bag, A)
    BY <1>7, SumInt
  <1>9. SumFunctionOnSet(b2, A) = s /\ IntValued(b2, A)
    BY <1>7, <1>8, SumCongruence DEF IntValued
  <1>10. q \in DOMAIN bag => bag[q] \in Int
    BY DEF IsClaims, IsABag
  <1>11. b2[q] \in Int
    BY <1>2, <1>10
  <1>12. CASE q.contract = c /\ q.member = a /\ q.release >= t
    <2>1. E = A \cup {q} /\ q \notin A
      BY <1>2, <1>3, <1>4, <1>6, <1>12 DEF Due
    <2>2. SumFunctionOnSet(b2, E) = b2[q] + s
      BY <1>7, <1>9, <1>11, <2>1, SumAdd
    <2>3. SumFunctionOnSet(b2, E) = SumFunctionOnSet(bag, D) + 1
      <3>1. CASE q \in DOMAIN bag
        <4>1. q \in D
          BY <1>3, <1>12, <3>1 DEF Due
        <4>2. SumFunctionOnSet(bag, D) = bag[q] + s
          BY <1>5, <1>6, <1>8, <4>1, SumRemove
        <4> QED
          BY <1>2, <1>10, <2>2, <3>1, <4>2
      <3>2. CASE q \notin DOMAIN bag
        <4>1. A = D
          BY <1>3, <1>6, <3>2 DEF Due
        <4> QED
          BY <1>2, <1>8, <2>2, <3>2, <4>1
      <3> QED
        BY <3>1, <3>2
    <2> QED
      BY <1>1, <1>3, <1>4, <1>12, <2>3 DEF Listed
  <1>13. CASE ~ (q.contract = c /\ q.member = a /\ q.release >= t)
    <2>1. E = A /\ D = A
      BY <1>2, <1>3, <1>4, <1>6, <1>13 DEF Due
    <2> QED
      BY <1>1, <1>3, <1>4, <1>8, <1>9, <1>13, <2>1 DEF Listed
  <1> QED
    BY <1>12, <1>13

\* The table with a claim more is one.
LEMMA InsertClaims ==
    ASSUME NEW bag, IsClaims(bag), NEW q, q.contract \in Fungible => q.release \in Nat
    PROVE  IsClaims(Insert(bag, q))
  <1>1. PICK b2 : b2 = Insert(bag, q)
    OBVIOUS
  <1>2. PICK n : n = IF q \in DOMAIN bag THEN bag[q] + 1 ELSE 1
    OBVIOUS
  <1>3. b2 = [x \in DOMAIN bag \cup {q} |-> IF x = q THEN n ELSE bag[x]]
    BY <1>1, <1>2 DEF Insert, Put
  <1>4. \A x \in DOMAIN bag : bag[x] \in Nat /\ bag[x] > 0
    BY DEF IsClaims, IsABag
  <1>5. n \in Nat /\ n > 0
    BY <1>2, <1>4
  <1>6. IsABag(b2)
    BY <1>3, <1>4, <1>5 DEF IsABag
  <1>7. IsFiniteSet(DOMAIN bag \cup {q})
    BY FS_AddElement DEF IsClaims
  <1>8. DOMAIN b2 = DOMAIN bag \cup {q}
    BY <1>3
  <1>9. \A x \in DOMAIN b2 : x.contract \in Fungible => x.release \in Nat
    BY <1>8 DEF IsClaims
  <1>10. IsClaims(b2)
    BY <1>6, <1>7, <1>8, <1>9 DEF IsClaims
  <1> QED
    BY <1>1, <1>10

\* Claims taken out of the table.
LEMMA WithoutClaims ==
    ASSUME NEW bag, IsClaims(bag), NEW K
    PROVE  IsClaims(Without(bag, K))
  <1>1. PICK b2 : b2 = Without(bag, K)
    OBVIOUS
  <1>2. b2 = [x \in DOMAIN bag \ K |-> bag[x]]
    BY <1>1 DEF Without
  <1>3. \A x \in DOMAIN bag : bag[x] \in Nat /\ bag[x] > 0
    BY DEF IsClaims, IsABag
  <1>4. DOMAIN b2 = DOMAIN bag \ K
    BY <1>2
  <1>5. IsFiniteSet(DOMAIN b2)
    BY <1>4, FS_Subset DEF IsClaims
  <1>6. IsABag(b2)
    BY <1>2, <1>3 DEF IsABag
  <1>7. \A x \in DOMAIN b2 : x.contract \in Fungible => x.release \in Nat
    BY <1>4 DEF IsClaims
  <1>8. IsClaims(b2)
    BY <1>5, <1>6, <1>7 DEF IsClaims
  <1> QED
    BY <1>1, <1>8

\* The whole queue is inserted entry by entry.
Inserting(f, bag, c, a, q, m) ==
    f = [i \in 0..m |-> IF i = 0 THEN bag ELSE Insert(f[i - 1], Claim(c, a, q[i]))]

\* That recursive function exists, too.
LEMMA InsertingExists ==
    ASSUME NEW bag, NEW c, NEW a, NEW q, NEW m \in Nat
    PROVE  \E f : Inserting(f, bag, c, a, q, m)
  <1> DEFINE G == {n \in Nat : \E f : Inserting(f, bag, c, a, q, n)}
  <1>1. 0 \in G
    <2>1. PICK f : f = [i \in 0..0 |-> bag]
      OBVIOUS
    <2>2. Inserting(f, bag, c, a, q, 0)
      BY <2>1 DEF Inserting
    <2> QED
      BY <2>2
  <1>2. ASSUME NEW n \in G PROVE n + 1 \in G
    <2>0. n \in Nat /\ n + 1 \in Nat
      OBVIOUS
    <2>1. PICK f : Inserting(f, bag, c, a, q, n)
      OBVIOUS
    <2>2. PICK x : x = Insert(f[n], Claim(c, a, q[n + 1]))
      OBVIOUS
    <2>3. PICK g : g = [i \in 0..n + 1 |-> IF i <= n THEN f[i] ELSE x]
      OBVIOUS
    <2>4. (\A i \in 0..n : g[i] = f[i]) /\ g[n + 1] = x /\ DOMAIN g = 0..n + 1
      BY <2>0, <2>3
    <2>5. ASSUME NEW i \in 0..n + 1
          PROVE  g[i] = IF i = 0 THEN bag ELSE Insert(g[i - 1], Claim(c, a, q[i]))
      <3>1. CASE i = n + 1
        <4>1. i # 0 /\ i - 1 = n /\ n \in 0..n
          BY <2>0, <3>1
        <4> QED
          BY <2>2, <2>4, <3>1, <4>1
      <3>2. CASE i # n + 1
        <4>1. i \in 0..n /\ (i # 0 => i - 1 \in 0..n)
          BY <2>0, <3>2
        <4>2. f[i] = IF i = 0 THEN bag ELSE Insert(f[i - 1], Claim(c, a, q[i]))
          BY <2>1, <4>1 DEF Inserting
        <4> QED
          BY <2>4, <4>1, <4>2
      <3> QED
        BY <3>1, <3>2
    <2>6. Inserting(g, bag, c, a, q, n + 1)
      <3>1. g = [i \in 0..n + 1 |-> g[i]]
        BY <2>3
      <3> QED
        BY <2>5, <3>1 DEF Inserting
    <2> QED
      BY <2>0, <2>6
  <1>3. G = Nat
    <2> HIDE DEF G
    <2>1. G \in SUBSET Nat
      BY DEF G
    <2> QED
      BY <1>1, <1>2, <2>1, Induction
  <1> QED
    BY <1>3

\* Claims on NFTs leave those on stakes alone.
LEMMA QueueInserted ==
    ASSUME IsClaims(claims), NEW c \in NftModules, NEW a, NEW q \in Seq(Entries)
    PROVE  /\ IsClaims(WithQueue(c, a, q))
           /\ \A d \in Fungible, b \in Members, t \in Nat : Listed(WithQueue(c, a, q), d, b, t) = Listed(claims, d, b, t)
  <1>1. PICK m \in Nat : m = Len(q)
    OBVIOUS
  <1> DEFINE C == CHOOSE f : Inserting(f, claims, c, a, q, m)
  <1>2. Inserting(C, claims, c, a, q, m)
    BY InsertingExists
  <1>3. WithQueue(c, a, q) = C[m]
    BY <1>1 DEF WithQueue, Inserting
  <1> HIDE DEF C
  <1>4. \A i \in 0..m : C[i] = IF i = 0 THEN claims ELSE Insert(C[i - 1], Claim(c, a, q[i]))
    BY <1>2 DEF Inserting
  <1> DEFINE Good(bag) == /\ IsClaims(bag)
                          /\ \A d \in Fungible, b \in Members, t \in Nat : Listed(bag, d, b, t) = Listed(claims, d, b, t)
             G == {n \in Nat : n <= m => Good(C[n])}
  <1>5. 0 \in G
    <2>1. 0 \in 0..m
      OBVIOUS
    <2> QED
      BY <1>4, <2>1
  <1>6. ASSUME NEW n \in G, n + 1 <= m PROVE Good(C[n + 1])
    <2>1. n \in Nat /\ n <= m /\ n + 1 \in 0..m /\ n + 1 # 0
      BY <1>6
    <2>2. Good(C[n])
      BY <2>1
    <2>3. PICK r : r = Claim(c, a, q[n + 1])
      OBVIOUS
    <2>4. PICK bag : bag = C[n]
      OBVIOUS
    <2>5. C[n + 1] = Insert(bag, r)
      <3>1. n + 1 - 1 = n
        BY <2>1
      <3> QED
        BY <1>4, <2>1, <2>3, <2>4, <3>1
    <2>6. r.contract = c /\ c \notin Fungible
      BY <2>3, Kinds DEF Claim, Fungible
    <2>7. IsClaims(Insert(bag, r))
      BY <2>2, <2>4, <2>6, InsertClaims
    <2>8. ASSUME NEW d \in Fungible, NEW b \in Members, NEW t \in Nat
          PROVE  Listed(Insert(bag, r), d, b, t) = Listed(claims, d, b, t)
      <3>1. Listed(bag, d, b, t) = Listed(claims, d, b, t)
        BY <2>2, <2>4
      <3>2. Listed(Insert(bag, r), d, b, t) =
              Listed(bag, d, b, t) + (IF r.contract = d /\ r.member = b /\ r.release >= t THEN 1 ELSE 0)
        BY <2>2, <2>4, <2>6, ListedInsert
      <3>3. IsFiniteSet(Due(bag, d, b, t)) /\ IntValued(bag, Due(bag, d, b, t))
        BY <2>2, <2>4, DueFinite
      <3>4. Listed(bag, d, b, t) \in Int
        BY <3>3, SumInt DEF Listed
      <3>5. ~ (r.contract = d /\ r.member = b /\ r.release >= t)
        BY <2>6
      <3> QED
        BY <3>1, <3>2, <3>4, <3>5
    <2> QED
      BY <2>5, <2>7, <2>8
  <1>7. G = Nat
    <2>1. \A n \in G : n + 1 \in G
      BY <1>6
    <2> HIDE DEF G
    <2>2. G \in SUBSET Nat
      BY DEF G
    <2> QED
      BY <1>5, <2>1, <2>2, Induction
  <1>8. Good(C[m])
    BY <1>7
  <1> QED
    BY <1>3, <1>8

\* A module learns what it rests on.
LEMMA IndexLinkKeeps ==
    ASSUME IInv, IndexLink
    PROVE  IInv'
  <1>1. PICK M, N : Starting(M, N, "link")
    BY Starts DEF IndexLink
  <1>2. PICK m : m = Current.contract
    OBVIOUS
  <1>3. PICK c : c = Current.member
    OBVIOUS
  <1>4. PICK mods : mods = Linked(m, c)
    OBVIOUS
  <1>5. /\ modules' = mods
        /\ Indexed /\ UNCHANGED <<known, stakers, members, nftRows, claims, seen>>
    BY <1>2, <1>3, <1>4 DEF IndexLink
  <1>6. /\ Between(M, N) /\ Rows(M) /\ known = M.created /\ Current.type = "link" /\ RowTypes
        /\ Step(M, Current, N, height) /\ Current \in Events /\ M \in Moments
        /\ events[pos] = Current /\ pos \in 1..Len(events) /\ Len(events) \in Nat
    BY <1>1 DEF Starting, Between, Current
  <1>7. /\ m \in Resting /\ m \in known /\ c = Base[m] /\ c \in Stakings \cup Groups
        /\ N.created = known /\ N.linked = M.linked \cup {m}
        /\ N.staked = M.staked /\ N.queue = M.queue
    BY <1>2, <1>3, <1>6, EventKinds DEF Step, IsCreation, IsMove, Delayed
  <1>8. /\ c \in Groups => m \in GroupModules
        /\ c \notin Groups => m \in TokenModules
        /\ m \notin NftModules /\ m \notin CoinModules /\ m \in Modules
    BY <1>7, Kinds DEF Resting, Modules
  <1>9. /\ \A k \in DOMAIN modules : modules[k].base = IF k \in M.linked THEN Base[k] ELSE None
        /\ DOMAIN modules = known \cap Modules /\ M.linked \subseteq Resting /\ m \in DOMAIN modules
    BY <1>6, <1>7, <1>8, MomentFields DEF Rows, ModulesSeen
  <1>10. /\ DOMAIN mods = DOMAIN modules
         /\ c \in Groups => mods[m] = [base |-> c, weight |-> SumOver(members, c)]
         /\ c \notin Groups => mods[m] = [base |-> c, weight |-> SumOver(stakers, c)]
         /\ \A k \in DOMAIN modules : k # m =>
              \/ mods[k] = modules[k]
              \/ /\ c \notin Groups /\ modules[k].base = c
                 /\ mods[k] = [base |-> c, weight |-> SumOver(stakers, c)]
    BY <1>4, <1>9 DEF Linked
  <1>11. SumOver(members, c) \in Int /\ SumOver(stakers, c) \in Int
    <2>1. Table(members) /\ Table(stakers)
      BY <1>6 DEF RowTypes, Table, IsTable, Places, GroupHolders
    <2> QED
      BY <2>1, SumNumber
  <1>12. \A k \in DOMAIN modules : mods[k] \in ModuleRows
    <2>1. \A k \in DOMAIN modules : modules[k] \in ModuleRows
      BY <1>6 DEF RowTypes, IsTable
    <2> QED
      BY <1>7, <1>10, <1>11, <2>1 DEF ModuleRows
  <1>13. ModulesSeen(mods, known, N)
    <2>1. ASSUME NEW k \in DOMAIN modules
          PROVE  mods[k].base = IF k \in N.linked THEN Base[k] ELSE None
      <3>1. CASE k = m
        BY <1>7, <1>10, <3>1
      <3>2. CASE k # m
        <4>1. mods[k].base = modules[k].base
          BY <1>10, <2>1, <3>2
        <4> QED
          BY <1>7, <1>9, <2>1, <3>2, <4>1
      <3> QED
        BY <3>1, <3>2
    <2> QED
      BY <1>9, <1>10, <2>1 DEF ModulesSeen
  <1>14. StakersSeen(stakers, blurred, N)
    BY <1>6, <1>7, SameStakers DEF Rows
  <1>15. MembersSeen(members, weights, events, pos + 1)
    BY <1>6, MembersSeenNext DEF Rows
  <1>16. NftsSeen(nftRows, seen, kept, events, pos + 1)
    BY <1>6, NftsSeenNext DEF Rows
  <1>17. ClaimsSeen(claims, N)
    BY <1>6, <1>7, SameClaims DEF Rows
  <1>18. WeightsSeen(modules, stakers, members, nftRows, weights, events, pos + 1, M)
    BY <1>6, WeightsSeenNext DEF Rows
  <1>19. WeightsSeen(mods, stakers, members, nftRows, weights, events, pos + 1, N)
    <2>1. ASSUME NEW k \in DOMAIN modules
          PROVE  /\ k \in NftModules => mods[k].weight = CountOf(nftRows, k)
                 /\ k \in CoinModules => mods[k].weight = SumOver(stakers, k)
                 /\ k \in TokenModules \cap N.linked => mods[k].weight = SumOver(stakers, Base[k])
                 /\ k \in GroupModules \cap N.linked =>
                      \/ MembersPending(events, pos + 1, Base[k])
                      \/ Empty(weights, Base[k])
                      \/ mods[k].weight = SumOver(members, Base[k])
      <3>1. CASE k = m
        <4>1. c \in Groups => mods[k].weight = SumOver(members, Base[k])
          BY <1>7, <1>10, <3>1
        <4>2. c \notin Groups => mods[k].weight = SumOver(stakers, Base[k]) /\ k \notin GroupModules
          BY <1>7, <1>8, <1>10, <3>1, Kinds
        <4>3. c \in Groups => k \notin TokenModules
          BY <1>8, <3>1, Kinds
        <4> QED
          BY <1>8, <3>1, <4>1, <4>2, <4>3
      <3>2. CASE k # m /\ mods[k] = modules[k]
        <4>1. k \in N.linked => k \in M.linked
          BY <1>7, <3>2
        <4> QED
          BY <1>18, <2>1, <3>2, <4>1 DEF WeightsSeen
      <3>3. CASE /\ k # m /\ c \notin Groups /\ modules[k].base = c
                 /\ mods[k] = [base |-> c, weight |-> SumOver(stakers, c)]
        <4>1. k \in M.linked /\ Base[k] = c /\ c # None
          BY <1>7, <1>9, <2>1, <3>3, Kinds
        <4>2. k \in TokenModules
          BY <1>9, <3>3, <4>1, Kinds DEF Resting
        <4>3. k \notin NftModules /\ k \notin CoinModules /\ k \notin GroupModules
          BY <4>2, Kinds
        <4> QED
          BY <3>3, <4>1, <4>3
      <3> QED
        BY <1>10, <2>1, <3>1, <3>2, <3>3
    <2> QED
      BY <1>10, <2>1 DEF WeightsSeen
  <1>20. Rows(N)'
    BY <1>5, <1>13, <1>14, <1>15, <1>16, <1>17, <1>19 DEF Rows, Indexed, chainVars
  <1>21. RowTypes'
    BY <1>5, <1>6, <1>9, <1>10, <1>12 DEF RowTypes, IsTable
  <1> QED
    BY <1>1, <1>5, <1>6, <1>7, <1>20, <1>21 DEF Starting

----------------------------------------------------------------------------
(* Stakes. *)

\* The weights after a stake moved.
LEMMA ReweighedSeen ==
    ASSUME IsTable(modules, Modules, ModuleRows), Table(stakers), NEW c \in Fungible, NEW d \in Int,
           c \in CoinModules => c \in DOMAIN modules,
           NEW mods, mods = Reweighed(c, d),
           NEW st, SumOver(st, c) = SumOver(stakers, c) + d,
           \A g : g # c => SumOver(st, g) = SumOver(stakers, g),
           NEW kn, NEW N, ModulesSeen(modules, kn, N), N.linked \subseteq Resting,
           NEW mem, NEW rows, NEW wts, NEW evs, NEW p, WeightsSeen(modules, stakers, mem, rows, wts, evs, p, N)
    PROVE  /\ IsTable(mods, Modules, ModuleRows)
           /\ ModulesSeen(mods, kn, N)
           /\ WeightsSeen(mods, st, mem, rows, wts, evs, p, N)
  <1>1. SumOver(stakers, c) \in Int
    BY SumNumber
  <1>2. \A m \in DOMAIN modules : modules[m] \in ModuleRows /\ modules[m].weight \in Int
    BY DEF IsTable, ModuleRows
  <1>3. c \in CoinModules \/ (c \in Stakings /\ c \notin CoinModules)
    BY Kinds DEF Fungible
  <1>4. \A m \in DOMAIN modules : modules[m].base = IF m \in N.linked THEN Base[m] ELSE None
    BY DEF ModulesSeen
  <1>5. \A m \in DOMAIN modules : modules[m].base = c => m \in N.linked /\ Base[m] = c /\ m \in TokenModules
                                                         /\ c \notin CoinModules
    <2>1. c # None
      BY DaoParameters DEF Contracts
    <2>2. \A m \in DOMAIN modules : modules[m].base = c => m \in N.linked /\ Base[m] = c
      BY <1>4, <2>1
    <2>3. \A m \in N.linked : m \in TokenModules \/ m \in GroupModules
      BY DEF Resting
    <2> QED
      BY <1>3, <2>2, <2>3, Kinds
  <1>6. /\ DOMAIN mods = DOMAIN modules
        /\ \A m \in DOMAIN modules :
             mods[m] = IF c \in CoinModules
                       THEN IF m = c THEN [modules[m] EXCEPT !.weight = modules[c].weight + d] ELSE modules[m]
                       ELSE IF modules[m].base = c
                       THEN [modules[m] EXCEPT !.weight = SumOver(stakers, c) + d] ELSE modules[m]
    BY DEF Reweighed, Weigh, LinkedTo
  <1>7. \A m \in DOMAIN modules :
          /\ mods[m].base = modules[m].base /\ mods[m] \in ModuleRows
          /\ c \in CoinModules /\ m = c => mods[m].weight = modules[m].weight + d
          /\ c \notin CoinModules /\ modules[m].base = c => mods[m].weight = SumOver(stakers, c) + d
          /\ c \in CoinModules /\ m # c => mods[m].weight = modules[m].weight
          /\ c \notin CoinModules /\ modules[m].base # c => mods[m].weight = modules[m].weight
    <2>1. ASSUME NEW m \in DOMAIN modules, NEW w \in Int
          PROVE  /\ [modules[m] EXCEPT !.weight = w] \in ModuleRows
                 /\ [modules[m] EXCEPT !.weight = w].weight = w
                 /\ [modules[m] EXCEPT !.weight = w].base = modules[m].base
      BY <1>2 DEF ModuleRows
    <2>2. c \in CoinModules => modules[c].weight + d \in Int
      BY <1>2
    <2>3. SumOver(stakers, c) + d \in Int
      BY <1>1
    <2>4. ASSUME NEW m \in DOMAIN modules, c \in CoinModules, m = c
          PROVE  /\ mods[m].base = modules[m].base /\ mods[m] \in ModuleRows
                 /\ mods[m].weight = modules[m].weight + d
      <3>1. mods[m] = [modules[m] EXCEPT !.weight = modules[c].weight + d]
        BY <1>6, <2>4
      <3> QED
        BY <2>1, <2>2, <2>4, <3>1
    <2>5. ASSUME NEW m \in DOMAIN modules, c \notin CoinModules, modules[m].base = c
          PROVE  /\ mods[m].base = modules[m].base /\ mods[m] \in ModuleRows
                 /\ mods[m].weight = SumOver(stakers, c) + d
      <3>1. mods[m] = [modules[m] EXCEPT !.weight = SumOver(stakers, c) + d]
        BY <1>6, <2>5
      <3> QED
        BY <2>1, <2>3, <3>1
    <2>6. ASSUME NEW m \in DOMAIN modules,
                 IF c \in CoinModules THEN m # c ELSE modules[m].base # c
          PROVE  mods[m] = modules[m]
      BY <1>6, <2>6
    <2> QED
      BY <1>2, <2>4, <2>5, <2>6
  <1>8. IsTable(mods, Modules, ModuleRows)
    BY <1>6, <1>7 DEF IsTable
  <1>9. ModulesSeen(mods, kn, N)
    BY <1>6, <1>7 DEF ModulesSeen
  <1>10. ASSUME NEW m \in DOMAIN modules
         PROVE  /\ m \in NftModules => mods[m].weight = CountOf(rows, m)
                /\ m \in CoinModules => mods[m].weight = SumOver(st, m)
                /\ m \in TokenModules \cap N.linked => mods[m].weight = SumOver(st, Base[m])
                /\ m \in GroupModules \cap N.linked =>
                     \/ MembersPending(evs, p, Base[m])
                     \/ Empty(wts, Base[m])
                     \/ mods[m].weight = SumOver(mem, Base[m])
    <2>1. /\ m \in NftModules => modules[m].weight = CountOf(rows, m)
          /\ m \in CoinModules => modules[m].weight = SumOver(stakers, m)
          /\ m \in TokenModules \cap N.linked => modules[m].weight = SumOver(stakers, Base[m])
          /\ m \in GroupModules \cap N.linked =>
               \/ MembersPending(evs, p, Base[m])
               \/ Empty(wts, Base[m])
               \/ modules[m].weight = SumOver(mem, Base[m])
      BY <1>10 DEF WeightsSeen
    <2>2. CASE c \in CoinModules /\ m = c
      <3>1. m \notin NftModules /\ m \notin TokenModules /\ m \notin GroupModules
        BY <2>2, Kinds
      <3>2. mods[m].weight = SumOver(st, m)
        BY <1>7, <1>10, <2>1, <2>2
      <3> QED
        BY <3>1, <3>2
    <2>3. CASE c \notin CoinModules /\ modules[m].base = c
      <3>1. m \in TokenModules /\ Base[m] = c
        BY <1>5, <1>10, <2>3
      <3>2. m \notin NftModules /\ m \notin CoinModules /\ m \notin GroupModules
        BY <3>1, Kinds
      <3>3. mods[m].weight = SumOver(st, c)
        BY <1>7, <1>10, <2>3
      <3> QED
        BY <3>1, <3>2, <3>3
    <2>4. CASE mods[m].weight = modules[m].weight /\ m # c /\ modules[m].base # c
      <3>1. m \in CoinModules => SumOver(st, m) = SumOver(stakers, m)
        BY <2>4
      <3>2. m \in TokenModules \cap N.linked => Base[m] # c
        BY <1>4, <1>10, <2>4
      <3>3. m \in TokenModules \cap N.linked => SumOver(st, Base[m]) = SumOver(stakers, Base[m])
        BY <3>2
      <3> QED
        BY <2>1, <2>4, <3>1, <3>3
    <2>5. m \notin Stakings
      <3>1. m \in Modules
        BY <1>10 DEF IsTable
      <3> QED
        BY <3>1, Kinds DEF Modules
    <2>6. /\ c \in CoinModules /\ m # c => mods[m].weight = modules[m].weight /\ m # c /\ modules[m].base # c
          /\ c \notin CoinModules /\ modules[m].base # c =>
               mods[m].weight = modules[m].weight /\ m # c /\ modules[m].base # c
      BY <1>3, <1>5, <1>7, <1>10, <2>5
    <2> QED
      BY <2>2, <2>3, <2>4, <2>6
  <1>11. WeightsSeen(mods, st, mem, rows, wts, evs, p, N)
    BY <1>6, <1>10 DEF WeightsSeen
  <1> QED
    BY <1>8, <1>9, <1>11

\* The stakers after a stake moved.
LEMMA StakersMoved ==
    ASSUME NEW M \in Moments, NEW e \in Events, NEW N, NEW t, Step(M, e, N, t), IsMove(e),
           NEW rows, NEW blur, StakersSeen(rows, blur, M),
           NEW d, d = (IF e.type = "stake" THEN e.amount ELSE - e.amount),
           NEW h, h = <<e.contract, e.member>>, NEW new,
           Amount(new, h) = Amount(rows, h) + d,
           \A x : x # h =>
               /\ Amount(new, x) = Amount(rows, x)
               /\ (x \in DOMAIN new => x \in DOMAIN rows /\ new[x] = rows[x]),
           h[1] \notin blur => (h \in DOMAIN new => new[h] # 0)
    PROVE  StakersSeen(new, blur, N)
  <1> SUFFICES ASSUME NEW x \in Holders, x[1] \notin blur
               PROVE  Amount(new, x) = N.staked[x] /\ (x \in DOMAIN new => new[x] # 0)
    BY DEF StakersSeen
  <1>1. Amount(rows, x) = M.staked[x] /\ (x \in DOMAIN rows => rows[x] # 0)
    BY DEF StakersSeen
  <1>2. CASE x # h
    <2>1. N.staked[x] = M.staked[x]
      BY <1>2, StepStaked
    <2> QED
      BY <1>1, <1>2, <2>1
  <1>3. CASE x = h
    <2>1. /\ e.type = "stake" => N.staked[x] = M.staked[x] + e.amount
          /\ e.type = "unstake" => N.staked[x] = M.staked[x] - e.amount
      BY <1>3, StepStaked
    <2>2. M.staked[x] \in Nat /\ e.amount \in Nat
      BY MomentFields, EventKinds, Numbers
    <2>3. e.type = "stake" \/ (e.type = "unstake" /\ e.type # "stake")
      BY DEF IsMove
    <2>4. Amount(new, x) = N.staked[x]
      BY <1>1, <1>3, <2>1, <2>2, <2>3
    <2> QED
      BY <1>3, <2>4
  <1> QED
    BY <1>2, <1>3

\* What an event of a stake is.
Moving(M, N, c, a, n) ==
    /\ Between(M, N) /\ Rows(M) /\ known = M.created /\ RowTypes
    /\ Step(M, Current, N, height) /\ Current \in Events /\ M \in Moments /\ N \in Moments
    /\ events[pos] = Current /\ pos \in 1..Len(events) /\ Len(events) \in Nat /\ height \in Nat
    /\ IsMove(Current) /\ c = Current.contract /\ a = Current.member /\ n = Current.amount
    /\ c \in Fungible /\ a \in Members /\ n \in Nat /\ n # 0
    /\ c \in known /\ N.created = known /\ N.linked = M.linked /\ M.linked \subseteq Resting
    /\ Table(stakers) /\ <<c, a>> \in Places

\* So for an event of a stake.
LEMMA MovesStake ==
    ASSUME NEW M, NEW N, NEW type \in {"stake", "unstake"}, Starting(M, N, type)
    PROVE  Moving(M, N, Current.contract, Current.member, Current.amount)
  <1>1. /\ Between(M, N) /\ Rows(M) /\ known = M.created /\ RowTypes
        /\ Step(M, Current, N, height) /\ Current \in Events /\ M \in Moments /\ N \in Moments
        /\ events[pos] = Current /\ pos \in 1..Len(events) /\ Len(events) \in Nat /\ height \in Nat
    BY DEF Starting, Between, Current
  <1>2. Current.type = type /\ IsMove(Current) /\ ~ IsCreation(Current)
    BY DEF Starting, IsMove, IsCreation
  <1>3. /\ Current.contract \in Fungible /\ Current.member \in Members
        /\ Current.amount \in Nat /\ Current.amount # 0
    BY <1>1, <1>2, EventKinds, Numbers
  <1>4. Current.contract \in known /\ N.created = known /\ N.linked = M.linked
    BY <1>1, <1>2 DEF Step, IsMove
  <1>5. M.linked \subseteq Resting
    BY <1>1, MomentFields
  <1>6. Table(stakers) /\ <<Current.contract, Current.member>> \in Places
    BY <1>1, <1>3 DEF RowTypes, Table, IsTable, Places
  <1> QED
    BY <1>1, <1>2, <1>3, <1>4, <1>5, <1>6 DEF Moving

\* What the tables show once the stakers are replaced.
LEMMA MovedRows ==
    ASSUME NEW M, NEW N, NEW c, NEW a, NEW n, Moving(M, N, c, a, n),
           NEW d, d = (IF Current.type = "stake" THEN n ELSE - n), NEW h, h = <<c, a>>,
           NEW st, Table(st), Amount(st, h) = Amount(stakers, h) + d,
           \A x : x # h =>
               /\ Amount(st, x) = Amount(stakers, x)
               /\ (x \in DOMAIN st => x \in DOMAIN stakers /\ st[x] = stakers[x]),
           c \notin blurred => (h \in DOMAIN st => st[h] # 0),
           SumOver(st, c) = SumOver(stakers, c) + d,
           \A g : g # c => SumOver(st, g) = SumOver(stakers, g),
           NEW mods, mods = Reweighed(c, d),
           NEW bag, IsClaims(bag), ClaimsSeen(bag, N),
           modules' = mods, stakers' = st, claims' = bag, Indexed, UNCHANGED <<known, members, nftRows, seen>>
    PROVE  RowTypes' /\ Rows(N)'
  <1>1. d \in Int
    BY DEF Moving
  <1>2. c \in CoinModules => c \in DOMAIN modules
    BY DEF Moving, Rows, ModulesSeen, Modules
  <1>3. WeightsSeen(modules, stakers, members, nftRows, weights, events, pos + 1, N)
    <2>1. Current.type \notin {"contract", "members"}
      BY DEF Moving, IsMove
    <2> QED
      BY <2>1, WeightsSeenNext DEF Moving, Rows
  <1>4. ModulesSeen(modules, known, N)
    BY SameModules DEF Moving, Rows
  <1>5. /\ IsTable(mods, Modules, ModuleRows)
        /\ ModulesSeen(mods, known, N)
        /\ WeightsSeen(mods, st, members, nftRows, weights, events, pos + 1, N)
    <2>1. IsTable(modules, Modules, ModuleRows) /\ Table(stakers) /\ c \in Fungible /\ N.linked \subseteq Resting
      BY DEF Moving, RowTypes
    <2> QED
      BY <1>1, <1>2, <1>3, <1>4, <2>1, ReweighedSeen
  <1>6. StakersSeen(st, blurred, N)
    <2>1. StakersSeen(stakers, blurred, M)
      BY DEF Moving, Rows
    <2>2. h[1] = c
      OBVIOUS
    <2>3. /\ M \in Moments /\ Current \in Events /\ Step(M, Current, N, height) /\ IsMove(Current)
          /\ h = <<Current.contract, Current.member>>
          /\ d = (IF Current.type = "stake" THEN Current.amount ELSE - Current.amount)
      BY DEF Moving
    <2> QED
      BY <2>1, <2>2, <2>3, StakersMoved
  <1>7. MembersSeen(members, weights, events, pos + 1) /\ NftsSeen(nftRows, seen, kept, events, pos + 1)
    <2>1. Current.type \notin {"contract", "members", "stakeNft", "unstakeNft"}
      BY DEF Moving, IsMove
    <2>2. MembersSeen(members, weights, events, pos + 1)
      BY <2>1, MembersSeenNext DEF Moving, Rows
    <2>3. NftsSeen(nftRows, seen, kept, events, pos + 1)
      BY <2>1, NftsSeenNext DEF Moving, Rows
    <2> QED
      BY <2>2, <2>3
  <1>8. Rows(N)'
    BY <1>5, <1>6, <1>7 DEF Rows, Indexed, chainVars
  <1>9. IsTable(st, (Fungible \cap known) \X Members, Int)
    <2>1. \A x \in DOMAIN st : x = h \/ x \in DOMAIN stakers
      OBVIOUS
    <2>2. DOMAIN stakers \subseteq (Fungible \cap known) \X Members
      BY DEF Moving, RowTypes, IsTable
    <2>3. h \in (Fungible \cap known) \X Members
      BY DEF Moving
    <2> QED
      BY <2>1, <2>2, <2>3 DEF Table, IsTable
  <1>10. RowTypes'
    BY <1>5, <1>9 DEF Moving, RowTypes
  <1> QED
    BY <1>8, <1>10

\* IndexStake: weight and row grow by the same.
LEMMA IndexStakeKeeps ==
    ASSUME IInv, IndexStake
    PROVE  IInv'
  <1>1. PICK M, N : Starting(M, N, "stake")
    BY Starts DEF IndexStake
  <1>2. PICK c : c = Current.contract
    OBVIOUS
  <1>3. PICK a : a = Current.member
    OBVIOUS
  <1>4. PICK n : n = Current.amount
    OBVIOUS
  <1>5. Moving(M, N, c, a, n) /\ Current.type = "stake"
    BY <1>1, <1>2, <1>3, <1>4, MovesStake DEF Starting
  <1>6. PICK h \in Places : h = <<c, a>>
    BY <1>5 DEF Moving
  <1>7. PICK st : st = Put(stakers, h, Amount(stakers, h) + n)
    OBVIOUS
  <1>8. PICK mods : mods = Reweighed(c, n)
    OBVIOUS
  <1>9. /\ stakers' = st /\ modules' = mods
        /\ Indexed /\ UNCHANGED <<known, members, nftRows, claims, seen>>
    BY <1>2, <1>3, <1>4, <1>6, <1>7, <1>8 DEF IndexStake, StakedAmount, Amount
  <1>10. Table(stakers) /\ n \in Nat /\ n # 0 /\ h[1] = c
    BY <1>5, <1>6 DEF Moving
  <1>11. /\ Table(st) /\ SumOver(st, c) = SumOver(stakers, c) + n
         /\ \A g : g # c => SumOver(st, g) = SumOver(stakers, g)
    BY <1>7, <1>10, SumPut
  <1>12. /\ DOMAIN st = DOMAIN stakers \cup {h} /\ st[h] = Amount(stakers, h) + n
         /\ \A x \in DOMAIN stakers : x # h => st[x] = stakers[x]
    BY <1>7 DEF Put
  <1>13. /\ Amount(st, h) = Amount(stakers, h) + n
         /\ \A x : x # h =>
                /\ Amount(st, x) = Amount(stakers, x)
                /\ (x \in DOMAIN st => x \in DOMAIN stakers /\ st[x] = stakers[x])
    BY <1>12 DEF Amount
  <1>14. c \notin blurred => (h \in DOMAIN st => st[h] # 0)
    <2>1. c \notin blurred => Amount(stakers, h) = M.staked[h] /\ M.staked[h] \in Nat
      <3>1. h \in Holders /\ M.staked \in [Holders -> Nat]
        BY <1>5, <1>6, MomentFields DEF Moving, Holders
      <3> QED
        BY <1>5, <1>10, <3>1 DEF Moving, Rows, StakersSeen
    <2> QED
      BY <1>10, <1>12, <2>1
  <1>15. IsClaims(claims) /\ ClaimsSeen(claims, N)
    <2>1. ~ Delayed(Current) /\ Current.type # "claim"
      BY <1>5 DEF Delayed
    <2>2. N.queue = M.queue
      BY <1>5, <2>1 DEF Moving, Step
    <2> QED
      BY <1>5, <2>2, SameClaims DEF Moving, Rows, RowTypes
  <1>16. RowTypes' /\ Rows(N)'
    <2>1. n = (IF Current.type = "stake" THEN n ELSE - n) /\ claims' = claims
      BY <1>5, <1>9
    <2> QED
      BY <1>5, <1>6, <1>8, <1>9, <1>11, <1>13, <1>14, <1>15, <2>1, MovedRows
  <1>17. known' = N.created
    BY <1>5, <1>9 DEF Moving
  <1> QED
    BY <1>1, <1>9, <1>16, <1>17 DEF Starting

\* The claim an unstaking makes.
LEMMA NewestSeen ==
    ASSUME NEW M, NEW N, NEW c, NEW a, NEW n, Moving(M, N, c, a, n), Current.type = "unstake", height >= Cutoff,
           queue \in [(Fungible \cup NftModules) \X Members -> Seq(Entries)]
    PROVE  IsClaims(Newest(c, a)) /\ ClaimsSeen(Newest(c, a), N)
  <1>1. /\ c \in Fungible /\ a \in Members /\ <<c, a>> \in Holders /\ height \in Nat /\ Duration[c] \in Nat
        /\ c = Current.contract /\ a = Current.member /\ Cutoff \in Nat
    BY Numbers DEF Moving, Holders
  <1>2. IsClaims(claims) /\ ClaimsSeen(claims, M)
    BY DEF Moving, RowTypes, Rows
  <1>3. CASE Duration[c] = 0
    <2>1. ~ Delayed(Current) /\ Current.type # "claim"
      BY <1>1, <1>3 DEF Delayed
    <2>2. N.queue = M.queue
      BY <2>1 DEF Moving, Step
    <2>3. Newest(c, a) = claims
      BY <1>3 DEF Newest
    <2> QED
      BY <1>2, <2>2, <2>3, SameClaims
  <1>4. CASE Duration[c] # 0
    <2>1. Delayed(Current)
      BY <1>1, <1>4 DEF Delayed
    <2>2. PICK q : q = queue[<<c, a>>]
      OBVIOUS
    <2>3. q \in Seq(Entries) /\ q # << >> /\ q[Len(q)].release = height + Duration[c]
      <3>1. EndsIn(queue[<<c, a>>], height + Duration[c])
        BY <1>1, <2>1 DEF Moving, Between
      <3>2. <<c, a>> \in (Fungible \cup NftModules) \X Members
        BY <1>1
      <3> QED
        BY <2>2, <3>1, <3>2 DEF EndsIn
    <2>4. PICK r : r = Claim(c, a, q[Len(q)])
      OBVIOUS
    <2>5. r.contract = c /\ r.member = a /\ r.release = height + Duration[c] /\ r.release \in Nat
      BY <1>1, <2>3, <2>4 DEF Claim
    <2>6. Newest(c, a) = Insert(claims, r)
      BY <1>4, <2>2, <2>3, <2>4 DEF Newest, Last
    <2>7. IsClaims(Insert(claims, r))
      BY <1>2, <2>5, InsertClaims
    <2>8. ASSUME NEW h \in Holders, NEW t \in Nat
          PROVE  Listed(Insert(claims, r), h[1], h[2], t) = Waiting(N.queue[h], h[1], t)
      <3>1. h[1] \in Fungible /\ h = <<h[1], h[2]>>
        BY DEF Holders
      <3>2. Listed(claims, h[1], h[2], t) = Waiting(M.queue[h], h[1], t)
        BY <1>2, <2>8 DEF ClaimsSeen
      <3>3. Listed(Insert(claims, r), h[1], h[2], t) =
              Listed(claims, h[1], h[2], t)
                + (IF r.contract = h[1] /\ r.member = h[2] /\ r.release >= t THEN 1 ELSE 0)
        BY <1>2, <2>5, <2>8, <3>1, ListedInsert
      <3>4. M.queue[h] \in Seq(Entries)
        BY <2>8, MomentFields DEF Moving
      <3>5. Waiting(M.queue[h], h[1], t) \in Nat
        BY <3>4, WaitingNumber
      <3>6. CASE h = <<c, a>>
        <4>1. PICK e : e = [what |-> Current.amount, release |-> height + Duration[c]]
          OBVIOUS
        <4>2. Current.amount \in Amounts /\ N.queue[h] = Append(M.queue[h], e)
          <5>1. /\ M \in Moments /\ Current \in Events /\ height \in Nat /\ Step(M, Current, N, height)
                /\ h = <<Current.contract, Current.member>>
            BY <1>1, <3>6 DEF Moving
          <5>2. /\ Current.amount \in Amounts
                /\ N.queue[h] = Append(M.queue[h],
                                 [what |-> Current.amount, release |-> height + Duration[Current.contract]])
            BY <2>1, <2>8, <5>1, StepQueueGrows
          <5> QED
            BY <1>1, <4>1, <5>2
        <4>3. e \in Entries /\ e.release = height + Duration[c]
          BY <1>1, <4>1, <4>2, NewEntry
        <4>4. Waiting(N.queue[h], h[1], t) = Waiting(M.queue[h], h[1], t)
                + (IF e.release - Duration[h[1]] >= Cutoff /\ e.release >= t THEN 1 ELSE 0)
          BY <3>4, <4>2, <4>3, WaitingAppend
        <4>5. h[1] = c /\ h[2] = a
          BY <3>6
        <4>6. e.release - Duration[h[1]] = height
          BY <1>1, <4>3, <4>5
        <4> QED
          BY <2>5, <3>2, <3>3, <4>3, <4>4, <4>5, <4>6
      <3>7. CASE h # <<c, a>>
        <4>1. N.queue[h] = M.queue[h]
          BY <1>1, <2>8, <3>7, StepQueueSame DEF Moving
        <4>2. ~ (r.contract = h[1] /\ r.member = h[2])
          BY <2>5, <3>1, <3>7
        <4> QED
          BY <3>2, <3>3, <3>5, <4>1, <4>2
      <3> QED
        BY <3>6, <3>7
    <2>9. ClaimsSeen(Insert(claims, r), N)
      BY <2>8 DEF ClaimsSeen
    <2> QED
      BY <2>6, <2>7, <2>9
  <1> QED
    BY <1>3, <1>4

\* IndexUnstake: a row that would be zero goes.
LEMMA IndexUnstakeKeeps ==
    ASSUME IInv, IndexUnstake
    PROVE  IInv'
  <1>1. PICK M, N : Starting(M, N, "unstake")
    BY Starts DEF IndexUnstake
  <1>2. PICK c : c = Current.contract
    OBVIOUS
  <1>3. PICK a : a = Current.member
    OBVIOUS
  <1>4. PICK n : n = Current.amount
    OBVIOUS
  <1>5. Moving(M, N, c, a, n) /\ Current.type = "unstake" /\ height >= Cutoff
    BY <1>1, <1>2, <1>3, <1>4, MovesStake DEF Starting
  <1>6. PICK h \in Places : h = <<c, a>>
    BY <1>5 DEF Moving
  <1>7. PICK d \in Int : d = - n
    BY <1>5 DEF Moving
  <1>8. PICK st : st = IF Amount(stakers, h) + d = 0 THEN Without(stakers, {h})
                       ELSE Put(stakers, h, Amount(stakers, h) + d)
    OBVIOUS
  <1>9. PICK mods : mods = Reweighed(c, d)
    OBVIOUS
  <1>10. PICK bag : bag = Newest(c, a)
    OBVIOUS
  <1>11. /\ stakers' = st /\ modules' = mods /\ claims' = bag
         /\ Indexed /\ UNCHANGED <<known, members, nftRows, seen>>
    <2>1. stakers' = Moved(c, a, d) /\ Moved(c, a, d) = st
      BY <1>2, <1>3, <1>4, <1>6, <1>7, <1>8 DEF IndexUnstake, Moved, StakedAmount, Amount
    <2> QED
      BY <1>2, <1>3, <1>4, <1>7, <1>9, <1>10, <2>1 DEF IndexUnstake
  <1>12. Table(stakers) /\ h[1] = c
    BY <1>5, <1>6 DEF Moving
  <1>13. /\ Table(st)
         /\ SumOver(st, h[1]) = SumOver(stakers, h[1]) + d
         /\ \A g : g # h[1] => SumOver(st, g) = SumOver(stakers, g)
         /\ Amount(st, h) = Amount(stakers, h) + d
         /\ \A x : x # h =>
                /\ Amount(st, x) = Amount(stakers, x)
                /\ (x \in DOMAIN st => x \in DOMAIN stakers /\ st[x] = stakers[x])
         /\ h \in DOMAIN st => st[h] # 0
    BY <1>8, <1>12, SumMoved
  <1>14. queue \in [(Fungible \cup NftModules) \X Members -> Seq(Entries)]
    BY DEF IInv, ChainTypes
  <1>15. IsClaims(bag) /\ ClaimsSeen(bag, N)
    BY <1>5, <1>10, <1>14, NewestSeen
  <1>16. RowTypes' /\ Rows(N)'
    <2>1. d = (IF Current.type = "stake" THEN n ELSE - n)
      BY <1>5, <1>7
    <2>2. SumOver(st, c) = SumOver(stakers, c) + d /\ \A g : g # c => SumOver(st, g) = SumOver(stakers, g)
      BY <1>12, <1>13
    <2> QED
      BY <1>5, <1>6, <1>9, <1>11, <1>13, <1>15, <2>1, <2>2, MovedRows
  <1>17. known' = N.created
    BY <1>5, <1>11 DEF Moving
  <1> QED
    BY <1>1, <1>11, <1>16, <1>17 DEF Starting

----------------------------------------------------------------------------
(* NFTs. *)

NftRows == NftModules \X Members \X Nfts

\* There are so many rows of a module.
LEMMA CountNumber ==
    ASSUME NEW rows, rows \subseteq NftRows, NEW c
    PROVE  CountOf(rows, c) \in Nat
  <1>1. PICK S : S = {r \in rows : r[1] = c}
    OBVIOUS
  <1>2. PICK T : T = Members \X Nfts
    OBVIOUS
  <1>3. IsFiniteSet(T)
    BY <1>2, DaoParameters, FS_Product
  <1>4. PICK f : f = [r \in S |-> <<r[2], r[3]>>]
    OBVIOUS
  <1>4a. \A r \in S : f[r] = <<r[2], r[3]>>
    BY <1>4
  <1>5. \A r \in S : r = <<c, r[2], r[3]>> /\ r[2] \in Members /\ r[3] \in Nfts
    BY <1>1 DEF NftRows
  <1>6. f \in [S -> T]
    BY <1>2, <1>4, <1>5
  <1>7. ASSUME NEW r \in S, NEW s \in S, f[r] = f[s] PROVE r = s
    <2>1. <<r[2], r[3]>> = <<s[2], s[3]>>
      <3>1. f[r] = <<r[2], r[3]>> /\ f[s] = <<s[2], s[3]>>
        BY <1>4a, <1>7, Zenon
      <3> QED
        BY <1>7, <3>1
    <2>2. r[2] = s[2] /\ r[3] = s[3]
      BY <2>1
    <2> QED
      BY <1>5, <1>7, <2>2
  <1>8. f \in Injection(S, T)
    BY <1>6, <1>7 DEF Injection, IsInjective
  <1>9. IsFiniteSet(S)
    BY <1>3, <1>8, FS_Injection
  <1> QED
    BY <1>1, <1>9, FS_CardinalityType DEF CountOf

\* What an event of an NFT is.
NftMoving(M, N, c, a) ==
    /\ Between(M, N) /\ Rows(M) /\ known = M.created /\ RowTypes
    /\ Current \in Events /\ M \in Moments /\ N \in Moments
    /\ events[pos] = Current /\ pos \in 1..Len(events) /\ Len(events) \in Nat
    /\ Current.type \in {"stakeNft", "unstakeNft"} /\ c = Current.contract /\ a = Current.member
    /\ c \in NftModules /\ a \in Members /\ <<c, a>> \in Keepers
    /\ c \in known /\ N.created = known /\ N.linked = M.linked /\ N.staked = M.staked /\ N.queue = M.queue

\* So for an event of an NFT.
LEMMA MovesNft ==
    ASSUME NEW M, NEW N, NEW type \in {"stakeNft", "unstakeNft"}, Starting(M, N, type)
    PROVE  NftMoving(M, N, Current.contract, Current.member)
  <1>1. /\ Between(M, N) /\ Rows(M) /\ known = M.created /\ RowTypes
        /\ Step(M, Current, N, height) /\ Current \in Events /\ M \in Moments /\ N \in Moments
        /\ events[pos] = Current /\ pos \in 1..Len(events) /\ Len(events) \in Nat
    BY DEF Starting, Between, Current
  <1>2. Current.type = type /\ ~ IsMove(Current) /\ ~ IsCreation(Current) /\ ~ Delayed(Current)
    BY DEF Starting, IsMove, IsCreation, Delayed
  <1>3. Current.contract \in NftModules /\ Current.member \in Members
    BY <1>1, <1>2, EventKinds
  <1>4. /\ Current.contract \in known /\ N.created = known
        /\ N.linked = M.linked /\ N.staked = M.staked /\ N.queue = M.queue
    BY <1>1, <1>2 DEF Step
  <1>5. <<Current.contract, Current.member>> \in Keepers
    BY <1>3 DEF Keepers
  <1> QED
    BY <1>1, <1>2, <1>3, <1>4, <1>5 DEF NftMoving

\* What the tables show once a member's NFTs are read from the archive.
LEMMA ReadNfts ==
    ASSUME NEW M, NEW N, NEW c, NEW a, NftMoving(M, N, c, a), kept \in [Keepers -> SUBSET Nfts],
           NEW rows, rows \subseteq NftRows,
           \A r \in NftRows : ~ (r[1] = c /\ r[2] = a) => (r \in rows <=> r \in nftRows),
           \A x \in kept[<<c, a>>] : <<c, a, x>> \in rows,
           \A x \in Nfts : <<c, a, x>> \in rows =>
               x \in kept[<<c, a>>] \/ (Current.type = "stakeNft" /\ <<c, a, x>> \in nftRows),
           WithNfts(rows, c), Indexed,
           NEW bag, claims' = bag, IsClaims(bag), ClaimsSeen(bag, N),
           UNCHANGED <<known, stakers, members>>
    PROVE  RowTypes' /\ Rows(N)'
  <1>1. nftRows \subseteq NftRows /\ \A r \in nftRows : r[1] \in known
    BY DEF NftMoving, RowTypes, NftRows
  <1>2. PICK mods : mods = Weigh({c}, CountOf(rows, c))
    OBVIOUS
  <1>3. nftRows' = rows /\ modules' = mods /\ seen' = seen \cup {<<c, a>>}
    BY <1>2 DEF WithNfts, CountOf, NftMoving
  <1>4. IsTable(modules, Modules, ModuleRows) /\ CountOf(rows, c) \in Int
    BY CountNumber DEF NftMoving, RowTypes
  <1>5. /\ DOMAIN mods = DOMAIN modules
        /\ \A m \in DOMAIN modules :
             mods[m] = IF m = c THEN [modules[m] EXCEPT !.weight = CountOf(rows, c)] ELSE modules[m]
    BY <1>2 DEF Weigh
  <1>6. \A m \in DOMAIN modules :
          /\ mods[m].base = modules[m].base /\ mods[m] \in ModuleRows
          /\ m = c => mods[m].weight = CountOf(rows, c)
          /\ m # c => mods[m].weight = modules[m].weight
    <2>1. \A m \in DOMAIN modules : modules[m] \in ModuleRows
      BY <1>4 DEF IsTable
    <2> QED
      BY <1>4, <1>5, <2>1 DEF ModuleRows
  <1>7. ModulesSeen(mods, known, N)
    BY <1>5, <1>6, SameModules DEF NftMoving, Rows
  <1>8. StakersSeen(stakers, blurred, N)
    BY SameStakers DEF NftMoving, Rows
  <1>9. MembersSeen(members, weights, events, pos + 1)
    BY MembersSeenNext DEF NftMoving, Rows
  <1>10. WeightsSeen(modules, stakers, members, nftRows, weights, events, pos + 1, N)
    BY WeightsSeenNext DEF NftMoving, Rows
  <1>11. ASSUME NEW m, m # c PROVE CountOf(rows, m) = CountOf(nftRows, m)
    <2>1. \A r : r \in rows /\ r[1] = m <=> r \in nftRows /\ r[1] = m
      BY <1>1, <1>11
    <2>2. {r \in rows : r[1] = m} = {r \in nftRows : r[1] = m}
      BY <2>1
    <2> QED
      BY <2>2 DEF CountOf
  <1>12. c \notin CoinModules /\ c \notin TokenModules /\ c \notin GroupModules
    BY Kinds DEF NftMoving
  <1>13. WeightsSeen(mods, stakers, members, rows, weights, events, pos + 1, N)
    BY <1>5, <1>6, <1>10, <1>11, <1>12 DEF WeightsSeen
  <1>14. ASSUME NEW h \in Keepers
         PROVE  /\ \/ NftPending(events, pos + 1, h, {"unstakeNft"})
                   \/ \A x \in Nfts : <<h[1], h[2], x>> \in rows => x \in kept[h]
                /\ \/ NftPending(events, pos + 1, h, {"stakeNft", "unstakeNft"})
                   \/ Cutoff # 0 /\ h \notin seen'
                   \/ \A x \in kept[h] : <<h[1], h[2], x>> \in rows
    <2>0. h = <<h[1], h[2]>> /\ h[1] \in NftModules /\ h[2] \in Members
      BY DEF Keepers
    <2>1. /\ \/ NftPending(events, pos, h, {"unstakeNft"})
             \/ \A x \in Nfts : <<h[1], h[2], x>> \in nftRows => x \in kept[h]
          /\ \/ NftPending(events, pos, h, {"stakeNft", "unstakeNft"})
             \/ Cutoff # 0 /\ h \notin seen
             \/ \A x \in kept[h] : <<h[1], h[2], x>> \in nftRows
      BY <1>14 DEF NftMoving, Rows, NftsSeen
    <2>2. \A T : NftPending(events, pos, h, T) =>
                   \/ NftPending(events, pos + 1, h, T)
                   \/ Current.type \in T /\ Current.contract = h[1] /\ Current.member = h[2]
      BY PendingNext DEF NftMoving
    <2>3. CASE h = <<c, a>>
      <3>1. \A x \in kept[h] : <<h[1], h[2], x>> \in rows
        BY <2>3
      <3>2. \A x \in Nfts : <<h[1], h[2], x>> \in rows =>
               x \in kept[h] \/ (Current.type = "stakeNft" /\ <<h[1], h[2], x>> \in nftRows)
        BY <2>3
      <3>3. CASE Current.type # "stakeNft"
        BY <3>1, <3>2, <3>3
      <3>4. CASE Current.type = "stakeNft"
        <4>1. Current.type \notin {"unstakeNft"}
          BY <3>4
        <4>2. NftPending(events, pos, h, {"unstakeNft"}) => NftPending(events, pos + 1, h, {"unstakeNft"})
          BY <2>2, <4>1
        <4> QED
          BY <2>1, <3>1, <3>2, <4>2
      <3> QED
        BY <3>3, <3>4
    <2>4. CASE h # <<c, a>>
      <3>1. ~ (Current.contract = h[1] /\ Current.member = h[2])
        BY <2>0, <2>4 DEF NftMoving
      <3>2. \A x \in Nfts : <<h[1], h[2], x>> \in rows <=> <<h[1], h[2], x>> \in nftRows
        <4>1. ~ (c = h[1] /\ a = h[2])
          BY <2>0, <2>4
        <4>2. \A x \in Nfts : <<h[1], h[2], x>> \in NftRows
          BY <2>0 DEF NftRows
        <4> QED
          BY <4>1, <4>2
      <3>3. kept[h] \subseteq Nfts
        BY <1>14
      <3>4. h \notin seen => h \notin seen'
        BY <1>3, <2>4
      <3>5. /\ NftPending(events, pos, h, {"unstakeNft"}) => NftPending(events, pos + 1, h, {"unstakeNft"})
            /\ NftPending(events, pos, h, {"stakeNft", "unstakeNft"}) =>
                 NftPending(events, pos + 1, h, {"stakeNft", "unstakeNft"})
        BY <2>2, <3>1
      <3>6. \/ NftPending(events, pos + 1, h, {"unstakeNft"})
            \/ \A x \in Nfts : <<h[1], h[2], x>> \in rows => x \in kept[h]
        BY <2>1, <3>2, <3>5
      <3>7. \/ NftPending(events, pos + 1, h, {"stakeNft", "unstakeNft"})
            \/ Cutoff # 0 /\ h \notin seen'
            \/ \A x \in kept[h] : <<h[1], h[2], x>> \in rows
        BY <2>1, <3>2, <3>3, <3>4, <3>5
      <3> QED
        BY <3>6, <3>7
    <2> QED
      BY <2>3, <2>4
  <1>15. NftsSeen(rows, seen', kept, events, pos + 1)
    BY <1>14 DEF NftsSeen
  <1>16. Rows(N)'
    BY <1>3, <1>7, <1>8, <1>9, <1>13, <1>15 DEF Rows, Indexed, chainVars
  <1>17. rows \subseteq (NftModules \cap known) \X Members \X Nfts
    <2>1. ASSUME NEW r \in rows PROVE r[1] \in known
      <3>1. CASE r[1] = c
        BY <3>1 DEF NftMoving
      <3>2. CASE r[1] # c
        BY <1>1, <2>1, <3>2
      <3> QED
        BY <3>1, <3>2
    <2>2. ASSUME NEW r \in rows PROVE r \in (NftModules \cap known) \X Members \X Nfts
      BY <2>1, <2>2 DEF NftRows
    <2> QED
      BY <2>2
  <1>18. RowTypes'
    <2>1. IsTable(mods, Modules, ModuleRows)
      BY <1>4, <1>5, <1>6 DEF IsTable
    <2>2. IsTable(stakers, (Fungible \cap known) \X Members, Int) /\ IsTable(members, GroupHolders, Nat)
      BY DEF NftMoving, RowTypes
    <2> QED
      BY <1>3, <1>17, <2>1, <2>2 DEF RowTypes
  <1> QED
    BY <1>16, <1>18

\* IndexNftStake: the NFTs read are put beside the old rows.
LEMMA IndexNftStakeKeeps ==
    ASSUME IInv, IndexNftStake
    PROVE  IInv'
  <1>1. PICK M, N : Starting(M, N, "stakeNft")
    BY Starts DEF IndexNftStake
  <1>2. PICK c : c = Current.contract
    OBVIOUS
  <1>3. PICK a : a = Current.member
    OBVIOUS
  <1>4. PICK rows : rows = nftRows \cup ListedNfts(c, a)
    OBVIOUS
  <1>5. NftMoving(M, N, c, a) /\ Current.type = "stakeNft"
    BY <1>1, <1>2, <1>3, MovesNft DEF Starting
  <1>6. WithNfts(rows, c) /\ Indexed /\ UNCHANGED <<known, stakers, members, claims>>
    BY <1>2, <1>3, <1>4 DEF IndexNftStake
  <1>7. kept \in [Keepers -> SUBSET Nfts] /\ kept[<<c, a>>] \subseteq Nfts
    <2>1. kept \in [Keepers -> SUBSET Nfts]
      BY DEF IInv, ChainTypes
    <2> QED
      BY <1>5, <2>1 DEF NftMoving
  <1>8. \A r : r \in rows <=> r \in nftRows \/ \E x \in kept[<<c, a>>] : r = <<c, a, x>>
    BY <1>4 DEF ListedNfts
  <1>9. rows \subseteq NftRows
    <2>1. nftRows \subseteq NftRows /\ c \in NftModules /\ a \in Members
      BY <1>5 DEF NftMoving, RowTypes, NftRows
    <2> QED
      BY <1>7, <1>8, <2>1 DEF NftRows
  <1>10. /\ \A r \in NftRows : ~ (r[1] = c /\ r[2] = a) => (r \in rows <=> r \in nftRows)
         /\ \A x \in kept[<<c, a>>] : <<c, a, x>> \in rows
         /\ \A x \in Nfts : <<c, a, x>> \in rows =>
               x \in kept[<<c, a>>] \/ (Current.type = "stakeNft" /\ <<c, a, x>> \in nftRows)
    BY <1>5, <1>8
  <1>11. IsClaims(claims) /\ ClaimsSeen(claims, N)
    BY <1>5, SameClaims DEF NftMoving, Rows, RowTypes
  <1>12. RowTypes' /\ Rows(N)'
    <2>1. claims' = claims
      BY <1>6
    <2> QED
      BY <1>5, <1>6, <1>7, <1>9, <1>10, <1>11, <2>1, ReadNfts
  <1>13. known' = N.created
    BY <1>5, <1>6 DEF NftMoving
  <1> QED
    BY <1>1, <1>6, <1>12, <1>13 DEF Starting

\* IndexNftUnstake: they are put in place of the old rows.
LEMMA IndexNftUnstakeKeeps ==
    ASSUME IInv, IndexNftUnstake
    PROVE  IInv'
  <1>1. PICK M, N : Starting(M, N, "unstakeNft")
    BY Starts DEF IndexNftUnstake
  <1>2. PICK c : c = Current.contract
    OBVIOUS
  <1>3. PICK a : a = Current.member
    OBVIOUS
  <1>4. PICK rows : rows = NftsReplaced(c, a)
    OBVIOUS
  <1>5. PICK bag : bag = WithQueue(c, a, queue[<<c, a>>])
    OBVIOUS
  <1>6. NftMoving(M, N, c, a) /\ Current.type = "unstakeNft"
    BY <1>1, <1>2, <1>3, MovesNft DEF Starting
  <1>7. WithNfts(rows, c) /\ claims' = bag /\ Indexed /\ UNCHANGED <<known, stakers, members>>
    BY <1>2, <1>3, <1>4, <1>5 DEF IndexNftUnstake
  <1>8. kept \in [Keepers -> SUBSET Nfts] /\ kept[<<c, a>>] \subseteq Nfts
    <2>1. kept \in [Keepers -> SUBSET Nfts]
      BY DEF IInv, ChainTypes
    <2> QED
      BY <1>6, <2>1 DEF NftMoving
  <1>9. \A r : r \in rows <=> \/ r \in nftRows /\ ~ (r[1] = c /\ r[2] = a)
                              \/ \E x \in kept[<<c, a>>] : r = <<c, a, x>>
    BY <1>4 DEF NftsReplaced, RowsOf, ListedNfts
  <1>10. rows \subseteq NftRows
    <2>1. nftRows \subseteq NftRows /\ c \in NftModules /\ a \in Members
      BY <1>6 DEF NftMoving, RowTypes, NftRows
    <2> QED
      BY <1>8, <1>9, <2>1 DEF NftRows
  <1>11. /\ \A r \in NftRows : ~ (r[1] = c /\ r[2] = a) => (r \in rows <=> r \in nftRows)
         /\ \A x \in kept[<<c, a>>] : <<c, a, x>> \in rows
         /\ \A x \in Nfts : <<c, a, x>> \in rows =>
               x \in kept[<<c, a>>] \/ (Current.type = "stakeNft" /\ <<c, a, x>> \in nftRows)
    BY <1>9
  <1>12. IsClaims(bag) /\ ClaimsSeen(bag, N)
    <2>1. queue[<<c, a>>] \in Seq(Entries)
      <3>1. queue \in [(Fungible \cup NftModules) \X Members -> Seq(Entries)]
        BY DEF IInv, ChainTypes
      <3> QED
        BY <1>6, <3>1 DEF NftMoving
    <2>2. IsClaims(claims) /\ ClaimsSeen(claims, N)
      BY <1>6, SameClaims DEF NftMoving, Rows, RowTypes
    <2>3. c \in NftModules
      BY <1>6 DEF NftMoving
    <2>4. /\ IsClaims(bag)
          /\ \A d \in Fungible, b \in Members, t \in Nat : Listed(bag, d, b, t) = Listed(claims, d, b, t)
      BY <1>5, <2>1, <2>2, <2>3, QueueInserted
    <2>5. \A h \in Holders : h[1] \in Fungible /\ h[2] \in Members
      BY DEF Holders
    <2> QED
      BY <2>2, <2>4, <2>5 DEF ClaimsSeen
  <1>13. RowTypes' /\ Rows(N)'
    BY <1>6, <1>7, <1>8, <1>10, <1>11, <1>12, ReadNfts
  <1>14. known' = N.created
    BY <1>6, <1>7 DEF NftMoving
  <1> QED
    BY <1>1, <1>7, <1>13, <1>14 DEF Starting

----------------------------------------------------------------------------
(* Payments. *)

\* What is listed once what is due at the height is taken out.
LEMMA PaidListed ==
    ASSUME IsClaims(claims), height \in Nat, NEW c, NEW a, NEW bag, bag = Without(claims, Paid(c, a)),
           NEW d \in Fungible, NEW b, NEW t \in Nat
    PROVE  /\ ~ (d = c /\ b = a) => Listed(bag, d, b, t) = Listed(claims, d, b, t)
           /\ d = c /\ b = a => Listed(bag, d, b, t) = Listed(claims, d, b, IF t > height THEN t ELSE height + 1)
  <1>1. /\ \A q : q \in DOMAIN bag <=> q \in DOMAIN claims /\ q \notin Paid(c, a)
        /\ \A q \in DOMAIN bag : bag[q] = claims[q]
    BY DEF Without
  <1>2. \A q \in DOMAIN claims : q.contract \in Fungible => q.release \in Nat
    BY DEF IsClaims
  <1>3. ASSUME NEW u, Due(bag, d, b, t) = Due(claims, d, b, u)
        PROVE  Listed(bag, d, b, t) = Listed(claims, d, b, u)
    <2>1. PICK D : D = Due(bag, d, b, t)
      OBVIOUS
    <2>2. IsFiniteSet(D) /\ IntValued(claims, D)
      BY <1>3, <2>1, DueFinite
    <2>3. \A q \in D : claims[q] = bag[q]
      BY <1>1, <2>1 DEF Due
    <2>4. SumFunctionOnSet(claims, D) = SumFunctionOnSet(bag, D)
      BY <2>2, <2>3, SumCongruence
    <2> QED
      BY <1>3, <2>1, <2>4 DEF Listed
  <1>4. ASSUME ~ (d = c /\ b = a) PROVE Listed(bag, d, b, t) = Listed(claims, d, b, t)
    <2>1. \A q : q \in Due(bag, d, b, t) <=> q \in Due(claims, d, b, t)
      BY <1>1, <1>4 DEF Due, Paid
    <2>2. Due(bag, d, b, t) = Due(claims, d, b, t)
      BY <2>1
    <2> QED
      BY <1>3, <2>2
  <1>5. ASSUME d = c, b = a
        PROVE  Listed(bag, d, b, t) = Listed(claims, d, b, IF t > height THEN t ELSE height + 1)
    <2>1. PICK u \in Nat : u = IF t > height THEN t ELSE height + 1
      OBVIOUS
    <2>2. ASSUME NEW q PROVE q \in Due(bag, d, b, t) <=> q \in Due(claims, d, b, u)
      <3>1. q \in Due(bag, d, b, t) <=>
              /\ q \in DOMAIN claims /\ q.contract = d /\ q.member = b
              /\ ~ (q.release <= height) /\ q.release >= t
        BY <1>1, <1>5 DEF Due, Paid
      <3>2. q \in Due(claims, d, b, u) <=>
              q \in DOMAIN claims /\ q.contract = d /\ q.member = b /\ q.release >= u
        BY DEF Due
      <3>3. q \in DOMAIN claims /\ q.contract = d => q.release \in Nat
        BY <1>2
      <3>4. q.release \in Nat => (~ (q.release <= height) /\ q.release >= t <=> q.release >= u)
        BY <2>1
      <3> QED
        BY <3>1, <3>2, <3>3, <3>4
    <2>3. Due(bag, d, b, t) = Due(claims, d, b, u)
      BY <2>2
    <2> QED
      BY <1>3, <2>1, <2>3
  <1> QED
    BY <1>4, <1>5

\* IndexClaim: what is due here is what the chain paid.
LEMMA IndexClaimKeeps ==
    ASSUME IInv, IndexClaim
    PROVE  IInv'
  <1>1. PICK M, N : Starting(M, N, "claim")
    BY Starts DEF IndexClaim
  <1>2. PICK c : c = Current.contract
    OBVIOUS
  <1>3. PICK a : a = Current.member
    OBVIOUS
  <1>4. PICK bag : bag = Without(claims, Paid(c, a))
    OBVIOUS
  <1>5. /\ claims' = bag
        /\ Indexed /\ UNCHANGED <<known, modules, stakers, members, nftRows, seen>>
    BY <1>2, <1>3, <1>4 DEF IndexClaim
  <1>6. /\ Between(M, N) /\ Rows(M) /\ known = M.created /\ Current.type = "claim" /\ RowTypes
        /\ Step(M, Current, N, height) /\ Current \in Events /\ M \in Moments /\ N \in Moments
        /\ events[pos] = Current /\ pos \in 1..Len(events) /\ Len(events) \in Nat /\ height \in Nat
    BY <1>1 DEF Starting, Between, Current
  <1>7. N.created = known /\ N.linked = M.linked /\ N.staked = M.staked
    BY <1>6 DEF Step, IsCreation, IsMove
  <1>8. ModulesSeen(modules, known, N) /\ StakersSeen(stakers, blurred, N)
    BY <1>6, <1>7, SameModules, SameStakers DEF Rows
  <1>9. MembersSeen(members, weights, events, pos + 1)
    BY <1>6, MembersSeenNext DEF Rows
  <1>10. NftsSeen(nftRows, seen, kept, events, pos + 1)
    BY <1>6, NftsSeenNext DEF Rows
  <1>11. WeightsSeen(modules, stakers, members, nftRows, weights, events, pos + 1, N)
    BY <1>6, <1>7, WeightsSeenNext DEF Rows
  <1>12. IsClaims(claims) /\ ClaimsSeen(claims, M)
    BY <1>6 DEF RowTypes, Rows
  <1>13. IsClaims(bag)
    BY <1>4, <1>12, WithoutClaims
  <1>14. ASSUME NEW h \in Holders, NEW t \in Nat
         PROVE  Listed(bag, h[1], h[2], t) = Waiting(N.queue[h], h[1], t)
    <2>1. h[1] \in Fungible /\ h = <<h[1], h[2]>>
      BY DEF Holders
    <2>2. \A u \in Nat : Listed(claims, h[1], h[2], u) = Waiting(M.queue[h], h[1], u)
      BY <1>12, <1>14 DEF ClaimsSeen
    <2>3. /\ ~ (h[1] = c /\ h[2] = a) => Listed(bag, h[1], h[2], t) = Listed(claims, h[1], h[2], t)
          /\ h[1] = c /\ h[2] = a =>
               Listed(bag, h[1], h[2], t) = Listed(claims, h[1], h[2], IF t > height THEN t ELSE height + 1)
      BY <1>4, <1>6, <1>12, <1>14, <2>1, PaidListed
    <2>4. CASE h = <<c, a>>
      <3>1. PICK u \in Nat : u = IF t > height THEN t ELSE height + 1
        BY <1>6
      <3>2. N.queue[h] = Unripe(M.queue[h], height)
        BY <1>2, <1>3, <1>6, <1>14, <2>4, StepQueuePaid
      <3>3. M.queue[h] \in Seq(Entries)
        BY <1>6, <1>14, MomentFields
      <3>4. Waiting(Unripe(M.queue[h], height), h[1], t) = Waiting(M.queue[h], h[1], u)
        BY <1>6, <1>14, <2>1, <3>1, <3>3, UnripeWaits
      <3>5. Listed(bag, h[1], h[2], t) = Listed(claims, h[1], h[2], u)
        BY <2>3, <2>4, <3>1
      <3> QED
        BY <2>2, <3>1, <3>2, <3>4, <3>5
    <2>5. CASE h # <<c, a>>
      <3>1. N.queue[h] = M.queue[h]
        BY <1>2, <1>3, <1>6, <1>14, <2>5, StepQueueSame
      <3> QED
        BY <2>1, <2>2, <2>3, <2>5, <3>1
    <2> QED
      BY <2>4, <2>5
  <1>15. ClaimsSeen(bag, N)
    BY <1>14 DEF ClaimsSeen
  <1>16. Rows(N)'
    BY <1>5, <1>8, <1>9, <1>10, <1>11, <1>15 DEF Rows, Indexed, chainVars
  <1>17. RowTypes'
    BY <1>5, <1>6, <1>13 DEF RowTypes, IsTable
  <1> QED
    BY <1>1, <1>5, <1>6, <1>7, <1>16, <1>17 DEF Starting

----------------------------------------------------------------------------
(* The cutoff and the blocks. *)

\* SkipEvent: below the cutoff all tables but wasm_instantiate are empty.
LEMMA SkipEventKeeps ==
    ASSUME IInv, SkipEvent
    PROVE  IInv'
  <1>1. sealed /\ pos <= Len(events) /\ ~ Indexable /\ Indexed
    BY DEF SkipEvent
  <1>2. PICK M, N : /\ Between(M, N)
                    /\ Indexed /\ TableTypes' /\ Indexer(N)' => IInv'
    BY <1>1, Processing
  <1>3. height \in Nat /\ Cutoff \in Nat /\ pos \in 1..Len(events) /\ Len(events) \in Nat /\ N.created \subseteq created
    BY <1>2, Numbers DEF Between
  <1>4. Cutoff # 0 /\ height < Cutoff
    BY <1>1, <1>3 DEF Indexable
  <1>5. known = M.created /\ ~ snapDone /\ ~ Live /\ Asleep
    BY <1>2, <1>3, <1>4 DEF Between, Indexer, Live
  <1>6. known' = N.created /\ known \subseteq known'
    <2>1. Step(M, Current, N, height)
      BY <1>2 DEF Between
    <2>2. CASE IsCreation(Current)
      BY <1>5, <2>1, <2>2 DEF Step, IsCreation, SkipEvent, Learned
    <2>3. CASE ~ IsCreation(Current)
      BY <1>5, <2>1, <2>3 DEF Step, IsCreation, SkipEvent
    <2> QED
      BY <2>2, <2>3
  <1>7. TableTypes /\ UNCHANGED <<modules, stakers, members, nftRows, claims, seen>>
    BY DEF IInv, SkipEvent
  <1>8. UNCHANGED <<height, sealed, events, snapDone, blurred, created>> /\ pos' = pos + 1
    BY <1>1 DEF Indexed, chainVars
  <1>9. RowTypes'
    <2>1. IsTable(stakers, (Fungible \cap known') \X Members, Int)
      BY <1>6, <1>7 DEF TableTypes, RowTypes, IsTable
    <2>2. nftRows \subseteq (NftModules \cap known') \X Members \X Nfts
      BY <1>6, <1>7 DEF TableTypes, RowTypes
    <2> QED
      BY <1>7, <2>1, <2>2 DEF TableTypes, RowTypes
  <1>10. TableTypes'
    <2>1. pos' \in 1..Len(events') + 1 /\ sealed'
      BY <1>1, <1>3, <1>8
    <2>2. snapDone' \in BOOLEAN /\ known' \subseteq created'
      BY <1>3, <1>6, <1>7, <1>8 DEF TableTypes
    <2> QED
      BY <1>9, <2>1, <2>2 DEF TableTypes
  <1>11. Asleep'
    <2>1. height' <= Cutoff /\ height' # Cutoff
      BY <1>3, <1>4, <1>8
    <2> QED
      BY <1>5, <1>7, <1>8, <2>1 DEF Asleep
  <1>12. ~ Live' /\ ~ snapDone'
    BY <1>5, <1>8 DEF Live
  <1>13. Indexer(N)'
    BY <1>6, <1>11, <1>12 DEF Indexer
  <1> QED
    BY <1>1, <1>2, <1>10, <1>13

\* A block without events yet.
LEMMA FreshBlock ==
    ASSUME NEW M \in Moments, NEW h, Grounded(M), Released(M, h), Before(M, h), Resting \cap M.created \subseteq M.linked
    PROVE  \E p : Tells(p, << >>, h) /\ p[0] = M
  <1>1. PICK p : p = [i \in 0..0 |-> M]
    OBVIOUS
  <1>2. Len(<< >>) = 0 /\ 1..0 = {} /\ (\A i \in 0..0 : i = 0) /\ 0 \in 0..0
    OBVIOUS
  <1>3. p \in [0..0 -> Moments] /\ p[0] = M
    BY <1>1, <1>2
  <1>4. PICK evs : evs = << >>
    OBVIOUS
  <1>5. Len(evs) = 0
    BY <1>2, <1>4
  <1>6. Quiet(p, evs) /\ Announced(p, evs) /\ Unstaked(p, evs, h)
    BY <1>2, <1>3, <1>5 DEF Quiet, Announced, Unstaked
  <1>7. \A i \in 0..0 : Grounded(p[i]) /\ Released(p[i], h)
    BY <1>2, <1>3
  <1>8. Tells(p, evs, h)
    BY <1>2, <1>3, <1>5, <1>6, <1>7 DEF Tells
  <1> QED
    BY <1>3, <1>4, <1>8

\* Past the last event nothing is pending.
LEMMA NothingPending ==
    ASSUME NEW evs, Len(evs) \in Nat
    PROVE  /\ \A c : ~ MembersPending(evs, Len(evs) + 1, c)
           /\ \A h, T : ~ NftPending(evs, Len(evs) + 1, h, T)
  <1>1. (Len(evs) + 1)..Len(evs) = {}
    OBVIOUS
  <1> QED
    BY <1>1 DEF MembersPending, NftPending

\* IndexEndsBlock: the history starts anew.
LEMMA IndexEndsBlockKeeps ==
    ASSUME IInv, IndexEndsBlock
    PROVE  IInv'
  <1>1. PICK past : History(past) /\ Indexer(past[pos - 1])
    BY DEF IInv
  <1>2. /\ sealed /\ ~ SnapshotDue /\ pos > Len(events)
        /\ ~ sealed' /\ height' = height + 1 /\ events' = << >> /\ pos' = 1
        /\ UNCHANGED <<messages, chainVars, snapDone, tables, history>>
    BY DEF IndexEndsBlock, IInv, ChainTypes
  <1>3. PICK n \in Nat : n = Len(events)
    BY DEF IInv, ChainTypes
  <1>4. /\ height \in Nat /\ Cutoff \in Nat /\ height < MaxHeight /\ MaxHeight \in Nat /\ height # 0
        /\ pos = n + 1 /\ pos - 1 = n
    <2>1. height \in 1..MaxHeight /\ height < MaxHeight /\ pos \in 1..n + 1
      BY <1>2, <1>3 DEF IInv, ChainTypes, TableTypes
    <2> QED
      BY <1>2, <1>3, <2>1, Numbers
  <1>5. Tells(past, events, height) /\ past[n] = Now /\ n \in 0..n /\ Indexer(Now)
    BY <1>1, <1>3, <1>4 DEF History
  <1>6. PICK M : M = Now
    OBVIOUS
  <1>7. M \in Moments /\ Grounded(M) /\ Released(M, height)
    BY <1>3, <1>5, <1>6 DEF Tells
  <1>8. Released(M, height') /\ Before(M, height')
    <2>1. ASSUME NEW x \in Holders, NEW i \in DOMAIN M.queue[x]
          PROVE  /\ M.queue[x][i].release <= height' + Duration[x[1]]
                 /\ M.queue[x][i].release < height' + Duration[x[1]]
      <3>1. PICK q \in Seq(Entries) : q = M.queue[x]
        BY <1>7, <2>1, MomentFields
      <3>2. q[i] \in Entries
        BY <2>1, <3>1
      <3>3. q[i].release \in Nat
        BY <3>2 DEF Entries
      <3>4. Duration[x[1]] \in Nat
        BY <2>1, Numbers DEF Holders
      <3>5. q[i].release <= height + Duration[x[1]]
        BY <1>7, <2>1, <3>1 DEF Released
      <3> QED
        BY <1>2, <1>4, <3>1, <3>3, <3>4, <3>5
    <2> QED
      BY <2>1 DEF Released, Before
  <1>9. Resting \cap M.created \subseteq M.linked
    BY <1>6 DEF Now, Moment
  <1>10. PICK p : Tells(p, << >>, height') /\ p[0] = M
    BY <1>7, <1>8, <1>9, FreshBlock
  <1>11. History(p)'
    <2>1. Now' = Now /\ Len(<< >>) = 0
      BY <1>2 DEF Now, chainVars
    <2> QED
      BY <1>2, <1>6, <1>10, <2>1 DEF History
  <1>12. ChainTypes' /\ ChainOK'
    <2>1. height' \in 1..MaxHeight /\ << >> \in Seq(Events)
      BY <1>2, <1>4
    <2>2. sealed' \in BOOLEAN /\ (sealed' => height' < MaxHeight)
      BY <1>2 DEF IndexEndsBlock
    <2>3. events' \in Seq(Events)
      BY <1>2, <2>1
    <2>4. ChainTypes'
      BY <1>2, <2>1, <2>2, <2>3 DEF IInv, ChainTypes, chainVars
    <2>5. ChainOK'
      BY <1>2 DEF IInv, ChainOK, chainVars
    <2> QED
      BY <2>4, <2>5
  <1>13. TableTypes'
    <2>1. pos' \in 1..Len(events') + 1
      BY <1>2
    <2> QED
      BY <1>2, <2>1 DEF IInv, TableTypes, RowTypes, tables, chainVars
  <1>14. ASSUME Live PROVE Rows(M)'
    <2>1. Rows(M)
      BY <1>5, <1>6, <1>14 DEF Indexer
    <2>2. /\ \A c : ~ MembersPending(events, pos, c)
          /\ \A h, T : ~ NftPending(events, pos, h, T)
      BY <1>3, <1>4, NothingPending
    <2>3. MembersSeen(members, weights, << >>, 1)
      BY <2>1, <2>2 DEF Rows, MembersSeen
    <2>4. NftsSeen(nftRows, seen, kept, << >>, 1)
      BY <2>1, <2>2 DEF Rows, NftsSeen
    <2>5. WeightsSeen(modules, stakers, members, nftRows, weights, << >>, 1, M)
      BY <2>1, <2>2 DEF Rows, WeightsSeen
    <2> QED
      BY <1>2, <2>1, <2>3, <2>4, <2>5 DEF Rows, tables, history, chainVars
  <1>15. ASSUME ~ Live PROVE Asleep'
    <2>1. Asleep /\ height < Cutoff
      BY <1>2, <1>4, <1>5, <1>15 DEF Indexer, Live, SnapshotDue
    <2>2. height' <= Cutoff /\ (height' = Cutoff => pos' = 1)
      BY <1>2, <1>4, <2>1
    <2> QED
      BY <1>2, <2>1, <2>2 DEF Asleep, tables, history
  <1>16. (Live' <=> Live) /\ known' = M.created /\ (snapDone' => height' >= Cutoff)
    BY <1>2, <1>4, <1>5, <1>6 DEF Live, Indexer, tables
  <1>17. Indexer(M)'
    BY <1>14, <1>15, <1>16 DEF Indexer
  <1>18. pos' - 1 = 0
    BY <1>2
  <1>19. \E q : History(q)' /\ (Indexer(q[pos - 1]))'
    BY <1>10, <1>11, <1>17, <1>18
  <1> QED
    BY <1>12, <1>13, <1>19 DEF IInv

----------------------------------------------------------------------------
(* The snapshot. *)

\* TakeSnapshot: what it reads of the end of the block is right for the block's
\* start, where no stake moved.
LEMMA TakeSnapshotKeeps ==
    ASSUME IInv, TakeSnapshot
    PROVE  IInv'
  <1>1. PICK past : History(past) /\ Indexer(past[pos - 1])
    BY DEF IInv
  <1>2. /\ sealed /\ Cutoff # 0 /\ height >= Cutoff /\ ~ snapDone /\ snapDone' = TRUE
        /\ UNCHANGED <<height, sealed, events, messages, chainVars, pos, known, nftRows, claims, seen>>
    BY DEF TakeSnapshot, SnapshotDue
  <1>3. height \in Nat /\ Cutoff \in Nat
    BY Numbers DEF IInv, ChainTypes
  <1>4. ~ Live /\ Asleep
    BY <1>1, <1>2 DEF Live, Indexer
  <1>5. height = Cutoff /\ pos = 1 /\ pos - 1 = 0
    BY <1>2, <1>3, <1>4 DEF Asleep
  <1>6. PICK M : M = past[0]
    OBVIOUS
  <1>7. PICK n \in Nat : n = Len(events) /\ n \in 0..n /\ 0 \in 0..n
    BY DEF IInv, ChainTypes
  <1>8. /\ M \in Moments /\ Grounded(M) /\ Before(M, height) /\ known = M.created
        /\ Resting \cap known \subseteq M.linked /\ past[n] = Now
    BY <1>1, <1>5, <1>6, <1>7 DEF History, Tells, Indexer
  <1>9. PICK mods : mods = [m \in Modules \cap known |->
                              [base |-> IF Rests(m) = m THEN None ELSE Rests(m), weight |-> SnapshotWeight(m)]]
    OBVIOUS
  <1>10. PICK st : st = [h \in ListedStakers |-> staked[h]]
    OBVIOUS
  <1>11. PICK mem : mem = [h \in ListedMembers |-> weights[h]]
    OBVIOUS
  <1>12. PICK blur : blur = {e.contract : e \in {x \in ToSet(events) : x.type \in {"stake", "unstake"}}} \cap known
    OBVIOUS
  <1>13. modules' = mods /\ stakers' = st /\ members' = mem /\ blurred' = blur
    BY <1>9, <1>10, <1>11, <1>12 DEF TakeSnapshot
  <1>14. staked \in [Holders -> Nat] /\ weights \in [GroupHolders -> Nat] /\ TableTypes /\ ChainOK
    BY DEF IInv, ChainTypes
  <1>15. /\ \A h : h \in DOMAIN st <=> h \in Holders /\ h[1] \in known /\ staked[h] > 0
         /\ \A h \in DOMAIN st : st[h] = staked[h]
    BY <1>10 DEF ListedStakers, Holders
  <1>16. /\ \A h : h \in DOMAIN mem <=> h \in GroupHolders /\ h[1] \in known /\ weights[h] > 0
         /\ \A h \in DOMAIN mem : mem[h] = weights[h]
    BY <1>11 DEF ListedMembers, GroupHolders
  <1>17. IsTable(st, (Fungible \cap known) \X Members, Int) /\ IsTable(mem, GroupHolders, Nat)
    <2>1. \A h \in DOMAIN st : h \in (Fungible \cap known) \X Members /\ st[h] \in Int
      BY <1>14, <1>15 DEF Holders
    <2>2. \A h \in DOMAIN mem : h \in GroupHolders /\ mem[h] \in Nat
      BY <1>14, <1>16
    <2> QED
      BY <2>1, <2>2 DEF IsTable
  <1>18. Table(st) /\ Table(mem) /\ Table(staked) /\ Table(weights)
    <2>1. Holders \subseteq Places /\ GroupHolders \subseteq Places
      BY DEF Holders, GroupHolders, Places
    <2>2. \A h \in DOMAIN st : h \in Holders
      BY <1>15
    <2> QED
      BY <1>14, <1>17, <2>1, <2>2 DEF Table, IsTable
  <1>19. ASSUME NEW h \in Holders, h[1] \in known PROVE Amount(st, h) = staked[h]
    <2>1. staked[h] \in Nat
      BY <1>14, <1>19
    <2> QED
      BY <1>15, <1>19, <2>1 DEF Amount
  <1>20. ASSUME NEW h \in GroupHolders, h[1] \in known PROVE Amount(mem, h) = weights[h]
    <2>1. weights[h] \in Nat
      BY <1>14, <1>20
    <2> QED
      BY <1>16, <1>20, <2>1 DEF Amount
  <1>21. ASSUME NEW c \in Fungible, c \in known PROVE SumOver(st, c) = SumOver(staked, c)
    <2>1. ASSUME NEW h \in Places, h[1] = c PROVE Amount(st, h) = Amount(staked, h)
      <3>1. h \in Holders
        BY <1>21, <2>1 DEF Places, Holders
      <3> QED
        BY <1>14, <1>19, <1>21, <2>1, <3>1 DEF Amount
    <2> QED
      BY <1>18, <2>1, SumAmounts
  <1>22. ASSUME NEW c \in Groups, c \in known PROVE SumOver(mem, c) = SumOver(weights, c)
    <2>1. ASSUME NEW h \in Places, h[1] = c PROVE Amount(mem, h) = Amount(weights, h)
      <3>1. h \in GroupHolders
        BY <1>22, <2>1 DEF Places, GroupHolders
      <3> QED
        BY <1>14, <1>20, <1>22, <2>1, <3>1 DEF Amount
    <2> QED
      BY <1>18, <2>1, SumAmounts
  <1>23. /\ DOMAIN mods = Modules \cap known
         /\ \A m \in DOMAIN mods : /\ mods[m].base = IF Rests(m) = m THEN None ELSE Rests(m)
                                   /\ mods[m].weight = SnapshotWeight(m)
                                   /\ mods[m] = [base |-> mods[m].base, weight |-> mods[m].weight]
    BY <1>9
  <1>24. ASSUME NEW m \in DOMAIN mods
         PROVE  mods[m].base = IF m \in M.linked THEN Base[m] ELSE None
    <2>1. CASE m \in Resting
      <3>1. m \in M.linked
        BY <1>8, <1>23, <1>24, <2>1
      <3>2. Rests(m) = Base[m] /\ Base[m] # m
        BY <2>1, Kinds DEF Rests, Resting
      <3> QED
        BY <1>23, <1>24, <3>1, <3>2
    <2>2. CASE m \notin Resting
      <3>1. m \notin M.linked
        BY <1>8, <2>2, MomentFields
      <3>2. Rests(m) = m
        BY <2>2 DEF Rests, Resting
      <3> QED
        BY <1>23, <1>24, <3>1, <3>2
    <2> QED
      BY <2>1, <2>2
  <1>25. ModulesSeen(mods, known, M)
    BY <1>23, <1>24 DEF ModulesSeen
  <1>26. IsTable(mods, Modules, ModuleRows)
    <2>1. ASSUME NEW m \in DOMAIN mods PROVE mods[m] \in ModuleRows
      <3>1. SnapshotWeight(m) \in Int
        BY <1>18, SumNumber DEF SnapshotWeight
      <3>2. mods[m].base \in Stakings \cup Groups \cup {None}
        <4>1. m \in M.linked => m \in TokenModules \/ m \in GroupModules
          BY <1>8, MomentFields DEF Resting
        <4> QED
          BY <1>24, <2>1, <4>1, Kinds
      <3> QED
        BY <1>23, <2>1, <3>1, <3>2 DEF ModuleRows
    <2> QED
      BY <1>23, <2>1 DEF IsTable
  <1>27. StakersSeen(st, blur, M)
    <2> SUFFICES ASSUME NEW h \in Holders, h[1] \notin blur
                 PROVE  Amount(st, h) = M.staked[h] /\ (h \in DOMAIN st => st[h] # 0)
      BY DEF StakersSeen
    <2>1. h \in DOMAIN st => st[h] # 0
      BY <1>14, <1>15
    <2>2. CASE h[1] \notin known
      <3>1. M.staked[h] = 0
        BY <1>8, <2>2 DEF Grounded
      <3>2. h \notin DOMAIN st
        BY <1>15, <2>2
      <3> QED
        BY <2>1, <3>1, <3>2 DEF Amount
    <2>3. CASE h[1] \in known
      <3>1. \A j \in 1..n : ~ (IsMove(events[j]) /\ events[j].contract = h[1])
        <4>1. ASSUME NEW j \in 1..n, IsMove(events[j]), events[j].contract = h[1] PROVE FALSE
          <5>1. events[j] \in ToSet(events)
            BY <1>7 DEF ToSet, IInv, ChainTypes
          <5>2. events[j].type \in {"stake", "unstake"}
            BY <4>1 DEF IsMove
          <5> QED
            BY <1>12, <2>3, <4>1, <5>1, <5>2
        <4> QED
          BY <4>1
      <3>2. past[0].staked[h] = past[n].staked[h]
        BY <1>1, <1>7, <3>1 DEF History, Tells, Quiet
      <3>3. M.staked[h] = staked[h]
        BY <1>6, <1>8, <3>2 DEF Now, Moment
      <3> QED
        BY <1>19, <2>1, <2>3, <3>3
    <2> QED
      BY <2>2, <2>3
  <1>28. MembersSeen(mem, weights, events, pos)
    <2> SUFFICES ASSUME NEW c \in Groups
                 PROVE  \/ MembersPending(events, pos, c)
                        \/ Empty(weights, c)
                        \/ \A a \in Members : Amount(mem, <<c, a>>) = weights[<<c, a>>]
      BY DEF MembersSeen
    <2>1. CASE c \in known
      BY <1>20, <2>1 DEF GroupHolders
    <2>2. CASE c \notin created
      BY <1>14, <2>2 DEF ChainOK, Empty, GroupHolders
    <2>3. CASE c \notin known /\ c \in created
      <3>1. c \in past[n].created /\ c \notin past[0].created
        BY <1>6, <1>8, <2>3 DEF Now, Moment
      <3>2. PICK j \in 1..n : IsCreation(events[j]) /\ events[j].contract = c
        BY <1>1, <1>7, <3>1 DEF History, Tells, Announced
      <3>3. events[j] \in Events
        BY <1>7 DEF IInv, ChainTypes
      <3>4. events[j].type # "module"
        BY <3>2, <3>3, EventKinds, Kinds DEF Modules
      <3>5. events[j].type = "contract"
        BY <3>2, <3>4 DEF IsCreation
      <3> QED
        BY <1>5, <1>7, <3>2, <3>5 DEF MembersPending
    <2> QED
      BY <2>1, <2>2, <2>3
  <1>29. nftRows = {} /\ seen = {} /\ claims = EmptyBag
    BY <1>4 DEF Asleep
  <1>30. NftsSeen(nftRows, seen, kept, events, pos)
    BY <1>2, <1>29 DEF NftsSeen
  <1>31. WeightsSeen(mods, st, mem, nftRows, weights, events, pos, M)
    <2>1. ASSUME NEW m \in DOMAIN mods
          PROVE  /\ m \in NftModules => mods[m].weight = CountOf(nftRows, m)
                 /\ m \in CoinModules => mods[m].weight = SumOver(st, m)
                 /\ m \in TokenModules \cap M.linked => mods[m].weight = SumOver(st, Base[m])
                 /\ m \in GroupModules \cap M.linked => mods[m].weight = SumOver(mem, Base[m])
      <3>1. mods[m].weight = SnapshotWeight(m) /\ m \in known
        BY <1>23, <2>1
      <3>2. m \in M.linked => Base[m] \in known
        BY <1>8 DEF Grounded
      <3>3. CASE m \in NftModules
        <4>1. CountOf(nftRows, m) = 0
          <5>1. {r \in nftRows : r[1] = m} = {}
            BY <1>29
          <5> QED
            BY <5>1, FS_EmptySet DEF CountOf
        <4>2. m \notin CoinModules /\ m \notin TokenModules /\ m \notin GroupModules
          BY <3>3, Kinds
        <4> QED
          BY <3>1, <3>3, <4>1, <4>2 DEF SnapshotWeight
      <3>4. CASE m \in CoinModules
        <4>1. m \notin NftModules /\ m \notin TokenModules /\ m \notin GroupModules /\ m \in Fungible
          BY <3>4, Kinds DEF Fungible
        <4>2. SnapshotWeight(m) = SumOver(staked, m)
          BY <4>1 DEF SnapshotWeight, Rests
        <4> QED
          BY <1>21, <3>1, <4>1, <4>2
      <3>5. CASE m \in TokenModules /\ m \in M.linked
        <4>1. m \notin NftModules /\ m \notin CoinModules /\ m \notin GroupModules /\ Base[m] \in Fungible
          BY <3>5, Kinds DEF Fungible
        <4>2. SnapshotWeight(m) = SumOver(staked, Base[m])
          BY <3>5, <4>1 DEF SnapshotWeight, Rests
        <4> QED
          BY <1>21, <3>1, <3>2, <3>5, <4>1, <4>2
      <3>6. CASE m \in GroupModules /\ m \in M.linked
        <4>1. m \notin NftModules /\ m \notin CoinModules /\ m \notin TokenModules /\ Base[m] \in Groups
          BY <3>6, Kinds
        <4>2. SnapshotWeight(m) = SumOver(weights, Base[m])
          BY <3>6, <4>1 DEF SnapshotWeight, Rests
        <4> QED
          BY <1>22, <3>1, <3>2, <3>6, <4>1, <4>2
      <3> QED
        BY <3>3, <3>4, <3>5, <3>6
    <2> QED
      BY <2>1 DEF WeightsSeen
  <1>32. ClaimsSeen(claims, M)
    <2> SUFFICES ASSUME NEW h \in Holders, NEW t \in Nat
                 PROVE  Listed(claims, h[1], h[2], t) = Waiting(M.queue[h], h[1], t)
      BY DEF ClaimsSeen
    <2>1. DOMAIN claims = {}
      BY <1>29 DEF EmptyBag, SetToBag
    <2>2. Due(claims, h[1], h[2], t) = {}
      BY <2>1 DEF Due
    <2>3. Listed(claims, h[1], h[2], t) = 0
      BY <2>2, SumEmpty DEF Listed
    <2>4. PICK q \in Seq(Entries) : q = M.queue[h]
      BY <1>8, MomentFields
    <2>5. ASSUME NEW i \in DOMAIN q PROVE ~ Counts(q, i, h[1], t)
      <3>1. q[i] \in Entries
        BY <2>5
      <3>2. q[i].release \in Nat /\ Duration[h[1]] \in Nat
        BY <3>1, Numbers DEF Entries, Holders
      <3>3. q[i].release < height + Duration[h[1]]
        BY <1>8, <2>4, <2>5 DEF Before
      <3> QED
        BY <1>3, <1>5, <3>2, <3>3 DEF Counts
    <2>6. Waiting(q, h[1], t) = 0
      BY <2>5, WaitingNone
    <2> QED
      BY <2>3, <2>4, <2>6
  <1>33. Rows(M)'
    BY <1>2, <1>13, <1>25, <1>27, <1>28, <1>30, <1>31, <1>32 DEF Rows, chainVars
  <1>34. RowTypes'
    BY <1>2, <1>13, <1>14, <1>17, <1>26 DEF TableTypes, RowTypes
  <1>35. TableTypes'
    BY <1>2, <1>14, <1>34 DEF TableTypes, chainVars
  <1>36. ChainTypes' /\ ChainOK'
    BY <1>2 DEF IInv, ChainTypes, ChainOK, chainVars
  <1>37. History(past)'
    BY <1>1, <1>2 DEF History, Now, chainVars
  <1>38. Indexer(M)'
    BY <1>2, <1>8, <1>33 DEF Indexer, Live
  <1>39. Indexer(past[pos - 1])'
    BY <1>2, <1>5, <1>6, <1>38
  <1> QED
    BY <1>35, <1>36, <1>37, <1>39 DEF IInv

----------------------------------------------------------------------------
(* The invariant. *)

\* The initial state.
LEMMA InitKeeps ==
    ASSUME Init
    PROVE  IInv
  <1>1. /\ height = 1 /\ ~ sealed /\ events = << >> /\ messages = 0 /\ created = {}
        /\ pos = 1 /\ ~ snapDone /\ known = {} /\ modules = << >> /\ stakers = << >> /\ members = << >>
        /\ nftRows = {} /\ claims = EmptyBag /\ blurred = {} /\ seen = {}
    BY DEF Init
  <1>2. /\ staked \in [Holders -> Nat] /\ \A h \in Holders : staked[h] = 0
        /\ weights \in [GroupHolders -> Nat] /\ \A h \in GroupHolders : weights[h] = 0
        /\ kept \in [Keepers -> SUBSET Nfts] /\ \A h \in Keepers : kept[h] = {}
    BY DEF Init, Holders, GroupHolders, Keepers
  <1>3. queue \in Queues /\ \A h \in Holders : queue[h] = << >>
    <2>1. << >> \in Seq(Entries)
      OBVIOUS
    <2>2. Holders \subseteq (Fungible \cup NftModules) \X Members
      BY DEF Holders
    <2> QED
      BY <2>1, <2>2 DEF Init, Queues
  <1>4. ChainTypes
    <2>1. height \in 1..MaxHeight /\ messages \in 0..MaxMessages /\ events \in Seq(Events)
      BY <1>1, Numbers
    <2>2. sealed \in BOOLEAN /\ (sealed => height < MaxHeight)
      BY DEF Init
    <2>3. created \subseteq Modules \cup Contracts
      BY <1>1
    <2> QED
      BY <1>2, <1>3, <2>1, <2>2, <2>3 DEF ChainTypes, Queues
  <1>5. ChainOK
    BY <1>2 DEF ChainOK
  <1>6. DOMAIN claims = {} /\ IsABag(claims)
    BY <1>1 DEF EmptyBag, SetToBag, IsABag
  <1>7. IsClaims(claims)
    BY <1>6, FS_EmptySet DEF IsClaims
  <1>8. RowTypes
    <2>1. DOMAIN modules = {} /\ DOMAIN stakers = {} /\ DOMAIN members = {}
      BY <1>1
    <2> QED
      BY <1>1, <1>7, <2>1 DEF RowTypes, IsTable
  <1>9. TableTypes
    <2>1. pos \in 1..Len(events) + 1
      BY <1>1
    <2>2. snapDone \in BOOLEAN
      BY DEF Init
    <2> QED
      BY <1>1, <1>8, <2>1, <2>2 DEF TableTypes
  <1>10. PICK M : M = Now
    OBVIOUS
  <1>11. M \in Moments
    <2>1. created \subseteq Modules \cup Contracts
      BY <1>1
    <2> QED
      BY <1>2, <1>3, <1>10, <2>1, MomentType DEF Now
  <1>12. /\ M.created = {} /\ M.linked = {}
         /\ \A h \in Holders : M.staked[h] = 0 /\ M.queue[h] = << >>
    BY <1>1, <1>2, <1>3, <1>10 DEF Now, Moment
  <1>13. Grounded(M) /\ Resting \cap M.created \subseteq M.linked
    BY <1>12 DEF Grounded
  <1>14. Released(M, height) /\ Before(M, height)
    <2>1. \A h \in Holders : DOMAIN M.queue[h] = {}
      BY <1>12
    <2> QED
      BY <2>1 DEF Released, Before
  <1>15. PICK p : Tells(p, << >>, height) /\ p[0] = M
    BY <1>11, <1>13, <1>14, FreshBlock
  <1>16. History(p)
    <2>1. Len(<< >>) = 0
      OBVIOUS
    <2> QED
      BY <1>1, <1>10, <1>15, <2>1 DEF History
  <1>17. Indexer(M)
    <2>1. ASSUME Live PROVE Rows(M)
      <3>1. Cutoff = 0
        BY <1>1, <2>1 DEF Live
      <3>2. DOMAIN modules = {} /\ DOMAIN stakers = {} /\ DOMAIN members = {}
        BY <1>1
      <3>3. ModulesSeen(modules, known, M)
        BY <1>1, <3>2 DEF ModulesSeen
      <3>4. StakersSeen(stakers, blurred, M)
        BY <1>12, <3>2 DEF StakersSeen, Amount
      <3>5. MembersSeen(members, weights, events, pos)
        BY <1>2 DEF MembersSeen, Empty, GroupHolders
      <3>6. NftsSeen(nftRows, seen, kept, events, pos)
        BY <1>1, <1>2 DEF NftsSeen
      <3>7. WeightsSeen(modules, stakers, members, nftRows, weights, events, pos, M)
        BY <3>2 DEF WeightsSeen
      <3>8. ClaimsSeen(claims, M)
        <4> SUFFICES ASSUME NEW h \in Holders, NEW t \in Nat
                     PROVE  Listed(claims, h[1], h[2], t) = Waiting(M.queue[h], h[1], t)
          BY DEF ClaimsSeen
        <4>1. Due(claims, h[1], h[2], t) = {}
          BY <1>6 DEF Due
        <4>2. Listed(claims, h[1], h[2], t) = 0
          BY <4>1, SumEmpty DEF Listed
        <4>3. PICK q \in Seq(Entries) : q = M.queue[h]
          BY <1>11, MomentFields
        <4>4. DOMAIN q = {}
          BY <1>12, <4>3
        <4>5. Waiting(q, h[1], t) = 0
          BY <4>4, WaitingNone
        <4> QED
          BY <4>2, <4>3, <4>5
      <3> QED
        BY <3>3, <3>4, <3>5, <3>6, <3>7, <3>8 DEF Rows
    <2>2. ASSUME ~ Live PROVE Asleep
      <3>1. Cutoff # 0
        BY <2>2 DEF Live
      <3>2. height <= Cutoff
        BY <1>1, <3>1, Numbers
      <3> QED
        BY <1>1, <3>2 DEF Asleep
    <2> QED
      BY <1>1, <1>12, <2>1, <2>2 DEF Indexer
  <1>18. pos - 1 = 0
    BY <1>1
  <1>19. \E q : History(q) /\ Indexer(q[pos - 1])
    BY <1>15, <1>16, <1>17, <1>18
  <1> QED
    BY <1>4, <1>5, <1>9, <1>19 DEF IInv

\* Nothing happens.
LEMMA StutterKeeps ==
    ASSUME IInv, UNCHANGED vars
    PROVE  IInv'
  <1>1. /\ UNCHANGED <<height, sealed, events, messages, created, staked, weights, kept, queue>>
        /\ UNCHANGED <<pos, snapDone, known, modules, stakers, members, nftRows, claims, blurred, seen>>
    BY DEF vars, chainVars, tables, history
  <1>2. PICK past : History(past) /\ Indexer(past[pos - 1])
    BY DEF IInv
  <1>3. History(past)' /\ Now' = Now
    BY <1>1, <1>2 DEF History, Now
  <1>4. Indexer(past[pos - 1])'
    BY <1>1, <1>2 DEF Indexer, Live, Rows, Asleep
  <1>5. ChainTypes' /\ ChainOK' /\ TableTypes'
    BY <1>1 DEF IInv, ChainTypes, ChainOK, TableTypes, RowTypes
  <1> QED
    BY <1>3, <1>4, <1>5 DEF IInv

\* A step of the chain.
LEMMA ChainKeeps ==
    ASSUME IInv, Chain
    PROVE  IInv'
  <1>1. ASSUME NEW m \in Modules, NEW w \in [Members -> {0} \cup Amounts], ChainInstantiates(m, w) PROVE IInv'
    BY <1>1, ChainInstantiatesKeeps
  <1>2. ASSUME NEW a \in Members, NEW c \in Fungible, NEW n \in Amounts, ChainStakes(c, a, n) PROVE IInv'
    BY <1>2, ChainStakesKeeps
  <1>3. ASSUME NEW a \in Members, NEW c \in Fungible, NEW n \in Amounts, ChainUnstakes(c, a, n) PROVE IInv'
    BY <1>3, ChainUnstakesKeeps
  <1>4. ASSUME NEW a \in Members, NEW c \in NftModules, NEW x \in Nfts, ChainStakesNft(c, a, x) PROVE IInv'
    BY <1>4, ChainStakesNftKeeps
  <1>5. ASSUME NEW a \in Members, NEW c \in NftModules, NEW S \in SUBSET Nfts, ChainUnstakesNfts(c, a, S) PROVE IInv'
    BY <1>5, ChainUnstakesNftsKeeps
  <1>6. ASSUME NEW a \in Members, NEW c \in Fungible \cup NftModules, ChainPaysClaims(c, a) PROVE IInv'
    BY <1>6, ChainPaysClaimsKeeps
  <1>7. ASSUME NEW a \in Members, NEW c \in Groups, NEW n \in {0} \cup Amounts, ChainUpdatesMember(c, a, n) PROVE IInv'
    BY <1>7, ChainUpdatesMemberKeeps
  <1>8. ASSUME ChainEndsBlock PROVE IInv'
    BY <1>8, ChainEndsBlockKeeps
  <1> QED
    BY <1>1, <1>2, <1>3, <1>4, <1>5, <1>6, <1>7, <1>8 DEF Chain

\* A step of the indexer.
LEMMA IndexKeeps ==
    ASSUME IInv, Index
    PROVE  IInv'
  BY TakeSnapshotKeeps, SkipEventKeeps, IndexModuleKeeps, IndexContractKeeps, IndexLinkKeeps, IndexMembersKeeps,
     IndexStakeKeeps, IndexUnstakeKeeps, IndexNftStakeKeeps, IndexNftUnstakeKeeps, IndexClaimKeeps,
     IndexEndsBlockKeeps DEF Index

\* The tables follow the chain event by event: at every step there is a
\* history of the block, and the rows are what it was at the event reached.
THEOREM Invariant == Spec => []IInv
  <1>1. Init => IInv
    BY InitKeeps
  <1>2. IInv /\ [Next]_vars => IInv'
    BY ChainKeeps, IndexKeeps, StutterKeeps DEF Next
  <1> QED
    BY <1>1, <1>2, PTL DEF Spec

----------------------------------------------------------------------------
(* What it means for the tables. *)

\* Every row is of a contract and a member there are, and no stake is listed
\* that is not positive, but for a contract where stakes moved in the
\* snapshot's block.
THEOREM TypeCorrect == Spec => []TypeOK
  <1>1. IInv => TypeOK
    <2> SUFFICES ASSUME IInv PROVE TypeOK
      OBVIOUS
    <2>1. ChainTypes /\ TableTypes /\ RowTypes
      BY DEF IInv, TableTypes
    <2>2. PICK past : History(past) /\ Indexer(past[pos - 1])
      BY DEF IInv
    <2>3. PICK n \in Nat : n = Len(events) /\ pos - 1 \in 0..n
      BY <2>1 DEF ChainTypes, TableTypes
    <2>4. PICK M : M = past[pos - 1]
      OBVIOUS
    <2>5. M \in Moments /\ Indexer(M)
      BY <2>2, <2>3, <2>4 DEF History, Tells
    <2>6. DOMAIN stakers \subseteq Holders /\ \A h \in DOMAIN stakers : stakers[h] \in Int
      BY <2>1 DEF RowTypes, IsTable, Holders
    <2>7. ASSUME NEW h \in DOMAIN stakers PROVE stakers[h] > 0 \/ h[1] \in blurred
      <3>1. CASE ~ Live
        <4>1. DOMAIN stakers = {}
          BY <2>5, <3>1 DEF Indexer, Asleep
        <4> QED
          BY <2>7, <4>1
      <3>2. CASE Live
        <4>1. StakersSeen(stakers, blurred, M)
          BY <2>5, <3>2 DEF Indexer, Rows
        <4>2. M.staked[h] \in Nat
          BY <2>5, <2>6, <2>7, MomentFields
        <4>3. h[1] \notin blurred => stakers[h] = M.staked[h] /\ stakers[h] # 0
          BY <2>6, <2>7, <4>1 DEF StakersSeen, Amount
        <4> QED
          BY <4>2, <4>3
      <3> QED
        BY <3>1, <3>2
    <2>8. /\ DOMAIN modules \subseteq Modules
          /\ \A m \in DOMAIN modules : modules[m] \in [base : Stakings \cup Groups \cup {None}, weight : Int]
          /\ DOMAIN members \subseteq Groups \X Members
          /\ nftRows \subseteq NftModules \X Members \X Nfts
          /\ IsABag(claims)
      BY <2>1 DEF RowTypes, IsTable, ModuleRows, GroupHolders, IsClaims
    <2>9. /\ height \in 1..MaxHeight /\ messages \in 0..MaxMessages
          /\ created \subseteq Modules \cup Contracts /\ known \subseteq created
          /\ pos \in 1..Len(events) + 1
      BY <2>1 DEF ChainTypes, TableTypes
    <2>10. /\ staked \in [Fungible \X Members -> Nat]
           /\ weights \in [Groups \X Members -> Nat]
           /\ kept \in [NftModules \X Members -> SUBSET Nfts]
      BY <2>1 DEF ChainTypes, Holders, GroupHolders, Keepers
    <2> QED
      BY <2>6, <2>7, <2>8, <2>9, <2>10 DEF TypeOK, Holders
  <1> QED
    BY <1>1, Invariant, PTL

\* Between two blocks the rows are the chain's.
LEMMA Settled ==
    ASSUME IInv, UpToDate
    PROVE  /\ Rows(Now) /\ Now \in Moments /\ known = created /\ RowTypes /\ ChainTypes
           /\ \A c : ~ MembersPending(events, pos, c)
           /\ \A h, T : ~ NftPending(events, pos, h, T)
  <1>1. PICK past : History(past) /\ Indexer(past[pos - 1])
    BY DEF IInv
  <1>2. Len(events) = 0 /\ pos = 1 /\ pos - 1 = 0 /\ Live
    <2>1. pos = 1 /\ events = << >>
      BY DEF IInv, UpToDate, TableTypes
    <2> QED
      BY <2>1 DEF UpToDate, Live
  <1>3. past[0] = Now /\ past[0] \in Moments
    <2>1. 0 \in 0..0
      OBVIOUS
    <2> QED
      BY <1>1, <1>2, <2>1 DEF History, Tells
  <1>4. Rows(Now) /\ known = Now.created
    BY <1>1, <1>2, <1>3 DEF Indexer
  <1>5. Now.created = created
    BY DEF Now, Moment
  <1>6. /\ \A c : ~ MembersPending(events, pos, c)
        /\ \A h, T : ~ NftPending(events, pos, h, T)
    <2>1. Len(events) \in Nat /\ pos = Len(events) + 1
      BY <1>2
    <2> QED
      BY <2>1, NothingPending
  <1> QED
    BY <1>3, <1>4, <1>5, <1>6 DEF IInv, TableTypes

\* A group that has members is not empty.
LEMMA Inhabited ==
    ASSUME NEW c \in Groups, ~ Deserted(c), weights \in [GroupHolders -> Nat]
    PROVE  ~ Empty(weights, c)
  <1>1. MembersOf(c) # {}
    BY DEF Deserted
  <1>2. PICK h \in DOMAIN weights : h[1] = c /\ weights[h] > 0
    BY <1>1 DEF MembersOf
  <1>3. h = <<c, h[2]>> /\ h[2] \in Members
    BY <1>2 DEF GroupHolders
  <1> QED
    BY <1>2, <1>3 DEF Empty

\* Whether counted up, summed up or taken from the snapshot, and in whatever
\* order a block's modules are linked and its stakes made, a module's weight is
\* the sum of the rows it stands for.
THEOREM WeightsHold == Spec => []WeightsAreSums
  <1>1. IInv => WeightsAreSums
    <2> SUFFICES ASSUME IInv, UpToDate, NEW m \in DOMAIN modules, ~ Deserted(Rests(m))
                 PROVE  modules[m].weight =
                          CASE m \in NftModules   -> Cardinality({r \in nftRows : r[1] = m})
                            [] m \in GroupModules -> SumOver(members, Rests(m))
                            [] OTHER              -> SumOver(stakers, Rests(m))
      BY DEF WeightsAreSums
    <2>1. /\ Rows(Now) /\ known = created /\ RowTypes /\ ChainTypes
          /\ \A c : ~ MembersPending(events, pos, c)
      BY Settled
    <2>2. m \in Modules /\ m \in created
      BY <2>1 DEF Rows, ModulesSeen
    <2>3. m \in Resting => m \in Now.linked
      BY <2>2 DEF Now, Moment
    <2>4. /\ m \in NftModules => modules[m].weight = CountOf(nftRows, m)
          /\ m \in CoinModules => modules[m].weight = SumOver(stakers, m)
          /\ m \in TokenModules \cap Now.linked => modules[m].weight = SumOver(stakers, Base[m])
          /\ m \in GroupModules \cap Now.linked =>
               \/ MembersPending(events, pos, Base[m])
               \/ Empty(weights, Base[m])
               \/ modules[m].weight = SumOver(members, Base[m])
      BY <2>1 DEF Rows, WeightsSeen
    <2>5. CASE m \in NftModules
      <3>1. m \notin GroupModules
        BY <2>5, Kinds
      <3>2. modules[m].weight = Cardinality({r \in nftRows : r[1] = m})
        BY <2>4, <2>5 DEF CountOf
      <3> QED
        BY <2>5, <3>1, <3>2
    <2>6. CASE m \in GroupModules
      <3>1. m \notin NftModules /\ m \in Resting /\ Rests(m) = Base[m] /\ Base[m] \in Groups
        BY <2>6, Kinds DEF Resting, Rests
      <3>2. ~ Empty(weights, Base[m])
        BY <2>1, <3>1, Inhabited DEF ChainTypes
      <3>3. modules[m].weight = SumOver(members, Rests(m))
        BY <2>1, <2>3, <2>4, <2>6, <3>1, <3>2
      <3> QED
        BY <2>6, <3>1, <3>3
    <2>7. CASE m \in CoinModules
      <3>1. m \notin NftModules /\ m \notin GroupModules /\ m \notin TokenModules
        BY <2>7, Kinds
      <3>2. Rests(m) = m
        BY <3>1 DEF Rests
      <3> QED
        BY <2>4, <2>7, <3>1, <3>2
    <2>8. CASE m \in TokenModules
      <3>1. m \notin NftModules /\ m \notin GroupModules /\ m \in Resting /\ Rests(m) = Base[m]
        BY <2>8, Kinds DEF Resting, Rests
      <3> QED
        BY <2>3, <2>4, <2>8, <3>1
    <2> QED
      BY <2>2, <2>5, <2>6, <2>7, <2>8 DEF Modules
  <1> QED
    BY <1>1, Invariant, PTL

\* The stakers are the chain's, and so are the members of a group that has any.
THEOREM StakesHold == Spec => []SettledStakesMatch
  <1>1. IInv => SettledStakesMatch
    <2> SUFFICES ASSUME IInv, UpToDate
                 PROVE  /\ \A c \in Fungible \ blurred : StakesExact(c)
                        /\ \A c \in Groups : ~ Deserted(c) =>
                            \A a \in Members :
                              (IF <<c, a>> \in DOMAIN members THEN members[<<c, a>>] ELSE 0) = weights[<<c, a>>]
      BY DEF SettledStakesMatch
    <2>1. /\ Rows(Now) /\ ChainTypes
          /\ \A c : ~ MembersPending(events, pos, c)
      BY Settled
    <2>2. ASSUME NEW c \in Fungible \ blurred PROVE StakesExact(c)
      <3>1. ASSUME NEW a \in Members PROVE StakedAmount(c, a) = staked[<<c, a>>]
        <4>1. <<c, a>> \in Holders
          BY DEF Holders
        <4>2. Amount(stakers, <<c, a>>) = Now.staked[<<c, a>>]
          BY <2>1, <4>1 DEF Rows, StakersSeen
        <4>3. Now.staked = staked
          BY DEF Now, Moment
        <4> QED
          BY <4>2, <4>3 DEF StakedAmount, Amount
      <3> QED
        BY <3>1 DEF StakesExact
    <2>3. ASSUME NEW c \in Groups, ~ Deserted(c), NEW a \in Members
          PROVE  (IF <<c, a>> \in DOMAIN members THEN members[<<c, a>>] ELSE 0) = weights[<<c, a>>]
      <3>1. ~ Empty(weights, c)
        BY <2>1, <2>3, Inhabited DEF ChainTypes
      <3>2. Amount(members, <<c, a>>) = weights[<<c, a>>]
        BY <2>1, <2>3, <3>1 DEF Rows, MembersSeen
      <3> QED
        BY <3>2 DEF Amount
    <2> QED
      BY <2>2, <2>3
  <1> QED
    BY <1>1, Invariant, PTL

\* The NFTs listed are staked, and once an event of a member was indexed, or if
\* there was no snapshot, all that member has staked are listed.
THEOREM NftsHold == Spec => []NftsMatch
  <1>1. IInv => NftsMatch
    <2> SUFFICES ASSUME IInv, UpToDate
                 PROVE  /\ \A r \in nftRows : r[3] \in kept[<<r[1], r[2]>>]
                        /\ \A h \in NftModules \X Members :
                            Cutoff = 0 \/ h \in seen => kept[h] = {r[3] : r \in RowsOf(h[1], h[2])}
      BY DEF NftsMatch
    <2>1. /\ Rows(Now) /\ ChainTypes /\ RowTypes
          /\ \A h, T : ~ NftPending(events, pos, h, T)
      BY Settled
    <2>2. \A h \in Keepers :
            /\ \A x \in Nfts : <<h[1], h[2], x>> \in nftRows => x \in kept[h]
            /\ (Cutoff # 0 /\ h \notin seen) \/ \A x \in kept[h] : <<h[1], h[2], x>> \in nftRows
      BY <2>1 DEF Rows, NftsSeen
    <2>3. \A r \in nftRows : /\ r = <<r[1], r[2], r[3]>> /\ r[3] \in Nfts
                             /\ <<r[1], r[2]>> \in Keepers
      BY <2>1 DEF RowTypes, Keepers
    <2>4. ASSUME NEW r \in nftRows PROVE r[3] \in kept[<<r[1], r[2]>>]
      <3>1. PICK h \in Keepers : h = <<r[1], r[2]>>
        BY <2>3, <2>4
      <3>2. <<h[1], h[2], r[3]>> \in nftRows
        BY <2>3, <2>4, <3>1
      <3> QED
        BY <2>2, <2>3, <2>4, <3>1, <3>2
    <2>5. ASSUME NEW h \in NftModules \X Members, Cutoff = 0 \/ h \in seen
          PROVE  kept[h] = {r[3] : r \in RowsOf(h[1], h[2])}
      <3>1. h \in Keepers /\ h = <<h[1], h[2]>>
        BY <2>5 DEF Keepers
      <3>2. \A x \in kept[h] : <<h[1], h[2], x>> \in nftRows
        BY <2>2, <2>5, <3>1
      <3>3. ASSUME NEW x \in kept[h] PROVE x \in {r[3] : r \in RowsOf(h[1], h[2])}
        <4>1. PICK r : r = <<h[1], h[2], x>>
          OBVIOUS
        <4>2. r \in RowsOf(h[1], h[2]) /\ r[3] = x
          BY <3>2, <3>3, <4>1 DEF RowsOf
        <4> QED
          BY <4>2
      <3>4. ASSUME NEW r \in RowsOf(h[1], h[2]) PROVE r[3] \in kept[h]
        <4>1. r \in nftRows /\ h = <<r[1], r[2]>>
          BY <3>1, <3>4 DEF RowsOf
        <4> QED
          BY <2>4, <4>1
      <3> QED
        BY <3>3, <3>4
    <2> QED
      BY <2>4, <2>5
  <1> QED
    BY <1>1, Invariant, PTL

\* As many claims on stakes are listed for a member as wait on the chain of
\* those unstaked since the cutoff.
THEOREM ClaimsHold == Spec => []ClaimsCounted
  <1>1. IInv => ClaimsCounted
    <2> SUFFICES ASSUME IInv, UpToDate, NEW c \in Fungible, NEW a \in Members
                 PROVE  Cardinality({i \in DOMAIN queue[<<c, a>>] :
                                       queue[<<c, a>>][i].release - Duration[c] >= Cutoff})
                        = SumFunctionOnSet(claims, {q \in DOMAIN claims : q.contract = c /\ q.member = a})
      BY DEF ClaimsCounted
    <2>1. Rows(Now) /\ ChainTypes /\ RowTypes
      BY Settled
    <2>2. <<c, a>> \in Holders
      BY DEF Holders
    <2>3. PICK h \in Holders : h = <<c, a>>
      BY <2>2
    <2>4. h[1] = c /\ h[2] = a /\ 0 \in Nat
      BY <2>3
    <2>5. Listed(claims, c, a, 0) = Waiting(Now.queue[h], c, 0)
      BY <2>1, <2>4 DEF Rows, ClaimsSeen
    <2>6. PICK q \in Seq(Entries) : q = queue[<<c, a>>]
      BY <2>1 DEF ChainTypes
    <2>7. Now.queue[h] = q
      BY <2>3, <2>6 DEF Now, Moment
    <2>8. {i \in DOMAIN q : q[i].release - Duration[c] >= Cutoff} = {i \in DOMAIN q : Counts(q, i, c, 0)}
      <3>1. \A i \in DOMAIN q : q[i] \in Entries
        OBVIOUS
      <3>2. \A i \in DOMAIN q : q[i].release \in Nat
        BY <3>1 DEF Entries
      <3>3. \A i \in DOMAIN q : q[i].release >= 0
        BY <3>2
      <3> QED
        BY <3>3 DEF Counts
    <2>9. {x \in DOMAIN claims : x.contract = c /\ x.member = a} = Due(claims, c, a, 0)
      <3>1. \A x \in DOMAIN claims : x.contract = c => x.release \in Nat
        BY <2>1 DEF RowTypes, IsClaims
      <3>2. \A x \in DOMAIN claims : x.contract = c => x.release >= 0
        BY <3>1
      <3> QED
        BY <3>2 DEF Due
    <2> QED
      BY <2>5, <2>6, <2>7, <2>8, <2>9 DEF Listed, Waiting
  <1> QED
    BY <1>1, Invariant, PTL
================================================================================
