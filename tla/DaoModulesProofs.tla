---------------------------- MODULE DaoModulesProofs ----------------------------
(***************************************************************************)
(* Proofs about DaoModules: the rows of a DAO's core and its modules, of   *)
(* their proposals, votes and approvals are the chain's after each block,  *)
(* and no block but those named is refused.                                *)
(*                                                                         *)
(* The chain makes a block, then the handlers work through its events with *)
(* what the chain is at the end of it.  IInv says that whatever no event   *)
(* still to come is about is as on the chain (RowsSeen); it is kept when   *)
(* the chain emits an event and when one is handled.  Before the snapshot  *)
(* there are only the contracts.                                           *)
(***************************************************************************)
EXTENDS DaoModules, SumLemmas

Maps(S, T) == UNION {[D -> T] : D \in SUBSET S}

Contracts == Modules \cup PreProposes \cup Votings
Statuses == {"enabled", "disabled"}
ProposalStatuses == {"open", "passed", "executed", "closed"}
YesNo == {"yes", "no"}
Ballots == Modules \X Voters

ChainStates ==
    [voting : Votings \cup {None}, status : Maps(Modules, Statuses),
     policy : Maps(Modules, PreProposes \cup {Anyone}), contracts : SUBSET Contracts,
     proposals : Maps(Modules, ProposalStatuses),
     ballots : Maps(Ballots, [choice : YesNo, height : Nat]),
     approvals : Maps(PreProposes, [state : {"pending", "approved", "rejected"}, height : Nat]),
     subs : SUBSET SubDaos, bricked : SUBSET Modules]

Types ==
    {"create_dao", "instantiate", "voting_module", "update_proposal_modules",
     "update_pre_propose_module", "update_policy", "propose", "vote", "conclude", "submit",
     "resolve", "update_sub_daos"}
Events ==
    [type : Types, of : Contracts \cup {None},
     about : Contracts \cup Voters \cup {None, "approved", "rejected"}]

ModuleRows ==
    [status : Statuses \cup {None}, policy : PreProposes \cup {Anyone, None},
     prePropose : PreProposes \cup {None}, whole : BOOLEAN]
Tables ==
    [wasm : SUBSET Contracts, core : SUBSET (Votings \cup {None}), votings : SUBSET Votings,
     modules : Maps(Modules, ModuleRows), prePropose : SUBSET PreProposes,
     proposals : Maps(Modules, ProposalStatuses), ballots : Maps(Ballots, YesNo),
     approvals : Maps(PreProposes, {"pending", "approved", "rejected"}),
     subs : SUBSET SubDaos, refused : BOOLEAN]

----------------------------------------------------------------------------
(* The chain ch, and what its events es have still to tell after i of them. *)

ChainOK(ch) ==
    /\ ch \in ChainStates
    /\ IsFiniteSet(ch.contracts)
    /\ DOMAIN ch.status = ch.contracts \cap Modules
    /\ DOMAIN ch.policy = ch.contracts \cap Modules
    /\ ch.voting \in ch.contracts \cup {None}
    /\ ch.voting = None => ch.contracts = {} /\ ch.subs = {}
    /\ \A m \in DOMAIN ch.policy : ch.policy[m] \in ch.contracts \cup {Anyone}
    /\ DOMAIN ch.proposals \subseteq ch.contracts
    /\ \A b \in DOMAIN ch.ballots : b[1] \in DOMAIN ch.proposals
    /\ DOMAIN ch.approvals \subseteq ch.contracts
    /\ ch.bricked \subseteq ch.contracts

To(es, i, type, of) == \E j \in 1..Len(es) : j > i /\ es[j].type = type /\ es[j].of = of

ToCreate(es, i) == To(es, i, "create_dao", None)
ToInstantiate(es, i, c) == To(es, i, "instantiate", c)
ToSetVoting(es, i) == To(es, i, "voting_module", None)
ToRefresh(es, i) == To(es, i, "update_proposal_modules", None)
ToSetPolicy(es, i, m) ==
    To(es, i, "update_policy", m) \/ To(es, i, "update_pre_propose_module", m)
ToConclude(es, i, m) == To(es, i, "vote", m) \/ To(es, i, "conclude", m)
ToVote(es, i, b) ==
    \E j \in 1..Len(es) : j > i /\ es[j].type = "vote" /\ <<es[j].of, es[j].about>> = b

\* Each event is about something the chain has by now, and that was not made
\* after it; the last about a thing says what became of it.
CreateTold(es, j, ch) == j = 1 /\ es[j].of = None /\ ch.voting # None /\ ToSetVoting(es, j)

InstantiateTold(es, j, ch) ==
    /\ es[j].of \in ch.contracts
    /\ es[j].of \in Modules => ch.policy[es[j].of] = Anyone \/ ToSetPolicy(es, j, es[j].of)

VotingTold(es, j, ch) ==
    /\ es[j].of = None
    /\ es[j].about \in Votings \cap ch.contracts /\ ~ ToInstantiate(es, j, es[j].about)
    /\ es[j].about = ch.voting \/ ToSetVoting(es, j)

PreProposeTold(es, j, ch) ==
    /\ es[j].of \in DOMAIN ch.policy /\ ~ ToInstantiate(es, j, es[j].of)
    /\ es[j].about \in PreProposes \cap ch.contracts /\ ~ ToInstantiate(es, j, es[j].about)
    /\ es[j].about = ch.policy[es[j].of] \/ ToSetPolicy(es, j, es[j].of)

PolicyTold(es, j, ch) ==
    /\ es[j].of \in DOMAIN ch.policy /\ ~ ToInstantiate(es, j, es[j].of)
    /\ ch.policy[es[j].of] = Anyone \/ ToSetPolicy(es, j, es[j].of)

ProposeTold(es, j, ch) ==
    es[j].of \in DOMAIN ch.proposals /\ ~ ToInstantiate(es, j, es[j].of)

VoteTold(es, j, ch) ==
    /\ <<es[j].of, es[j].about>> \in DOMAIN ch.ballots
    /\ ~ To(es, j, "propose", es[j].of)

SubmitTold(es, j, ch) ==
    /\ es[j].of \in DOMAIN ch.approvals /\ ~ ToInstantiate(es, j, es[j].of)
    /\ ch.approvals[es[j].of].state = "pending" \/ To(es, 0, "resolve", es[j].of)

ResolveTold(es, j, ch) ==
    /\ es[j].of \in DOMAIN ch.approvals /\ ~ To(es, j, "submit", es[j].of)
    /\ es[j].about = ch.approvals[es[j].of].state /\ es[j].about # "pending"

EventTold(es, j, ch) ==
    /\ es[j].type = "create_dao" => CreateTold(es, j, ch)
    /\ es[j].type = "instantiate" => InstantiateTold(es, j, ch)
    /\ es[j].type = "voting_module" => VotingTold(es, j, ch)
    /\ es[j].type = "update_proposal_modules" => es[j].of = None /\ ch.voting # None
    /\ es[j].type = "update_pre_propose_module" => PreProposeTold(es, j, ch)
    /\ es[j].type = "update_policy" => PolicyTold(es, j, ch)
    /\ es[j].type = "propose" => ProposeTold(es, j, ch)
    /\ es[j].type = "vote" => VoteTold(es, j, ch)
    /\ es[j].type = "conclude" => es[j].of \in DOMAIN ch.proposals
    /\ es[j].type = "submit" => SubmitTold(es, j, ch)
    /\ es[j].type = "resolve" => ResolveTold(es, j, ch)
    /\ es[j].type = "update_sub_daos" => es[j].of = None /\ ch.voting # None

Told(es, ch) == \A j \in 1..Len(es) : EventTold(es, j, ch)

\* What was made in this block, at the height h, when only wasm was there before.
BlockTold(es, ch, h, wasm) ==
    /\ wasm \subseteq ch.contracts
    /\ \A c \in ch.contracts : c \in wasm \/ ToInstantiate(es, 0, c)
    /\ wasm = {} =>
         /\ ch.voting = None \/ (ToCreate(es, 0) /\ ToSetVoting(es, 0))
         /\ ch.subs = {} \/ To(es, 0, "update_sub_daos", None)
    /\ \A m \in DOMAIN ch.proposals : m \in wasm \/ To(es, 0, "propose", m)
    /\ \A b \in DOMAIN ch.ballots :
         ch.ballots[b].height <= h /\ (ch.ballots[b].height = h => ToVote(es, 0, b))
    /\ \A q \in DOMAIN ch.approvals :
         ch.approvals[q].height <= h /\ (ch.approvals[q].height = h => To(es, 0, "submit", q))

----------------------------------------------------------------------------
(* What the rows r hold after i of the events es when the chain has ch at   *)
(* the end of them, but for the modules x and what the queries w missed.    *)

CoreOf(v) == IF v = None THEN {} ELSE {v}

CoreSeen(r, es, i, ch) ==
    /\ r.core = CoreOf(ch.voting) \/ ToSetVoting(es, i)
    /\ ch.voting = None \/ r.core # {} \/ ToCreate(es, i)

ContractsSeen(r, es, i, ch) ==
    \A c \in ch.contracts :
        \/ ToInstantiate(es, i, c)
        \/ (c \in Votings => c \in r.votings) /\ (c \in PreProposes => c \in r.prePropose)

SubsSeen(r, es, i, ch, w) ==
    r.subs = ch.subs \/ <<None, "subs">> \in w \/ To(es, i, "update_sub_daos", None)

Target(p) == IF p = Anyone THEN None ELSE p

ModuleSeen(row, es, i, ch, m, w) ==
    /\ row.whole \/ ToInstantiate(es, i, m)
    /\ \/ row.status = ch.status[m] \/ <<m, "status">> \in w
       \/ ToInstantiate(es, i, m) \/ ToRefresh(es, i)
    /\ row.policy = ch.policy[m] \/ ToInstantiate(es, i, m) \/ ToSetPolicy(es, i, m)
    /\ \/ row.prePropose = Target(ch.policy[m]) \/ ToSetPolicy(es, i, m)
       \/ row.prePropose = None /\ ToInstantiate(es, i, m)

ModulesSeen(r, es, i, ch, x, w) ==
    /\ DOMAIN r.modules \subseteq DOMAIN ch.status
    /\ \A m \in DOMAIN ch.status \ x :
        IF m \in DOMAIN r.modules THEN ModuleSeen(r.modules[m], es, i, ch, m, w)
        ELSE ToInstantiate(es, i, m)

ProposalsSeen(r, es, i, ch, x) ==
    \A m \in Modules \ x :
        /\ m \in DOMAIN r.proposals =>
            /\ m \in DOMAIN ch.proposals
            /\ r.proposals[m] = ch.proposals[m] \/ ToConclude(es, i, m)
        /\ m \in DOMAIN ch.proposals => m \in DOMAIN r.proposals \/ To(es, i, "propose", m)

BallotsSeen(r, es, i, ch, x) ==
    \A b \in DOMAIN ch.ballots :
        b[1] \notin x /\ ch.ballots[b].height >= Cutoff =>
            \/ ToVote(es, i, b)
            \/ b \in DOMAIN r.ballots /\ r.ballots[b] = ch.ballots[b].choice

ApprovalsSeen(r, es, i, ch) ==
    \A q \in DOMAIN ch.approvals :
        ch.approvals[q].height >= Cutoff =>
            \/ To(es, i, "submit", q)
            \/ /\ q \in DOMAIN r.approvals
               /\ r.approvals[q] = ch.approvals[q].state \/ To(es, i, "resolve", q)

RowsSeen(r, es, i, ch, x, w) ==
    /\ CoreSeen(r, es, i, ch)
    /\ ContractsSeen(r, es, i, ch)
    /\ SubsSeen(r, es, i, ch, w)
    /\ ModulesSeen(r, es, i, ch, x, w)
    /\ ProposalsSeen(r, es, i, ch, x)
    /\ BallotsSeen(r, es, i, ch, x)
    /\ ApprovalsSeen(r, es, i, ch)

\* Before the snapshot.
Bare(wasm) ==
    [wasm |-> wasm, core |-> {}, votings |-> {}, modules |-> << >>, prePropose |-> {},
     proposals |-> << >>, ballots |-> << >>, approvals |-> << >>, subs |-> {}, refused |-> FALSE]

Phase ==
    /\ height \in Nat \ {0}
    /\ closed \in BOOLEAN /\ snapped \in BOOLEAN
    /\ height > Cutoff => snapped
    /\ snapped => height >= Cutoff /\ (height = Cutoff => closed)

IInv ==
    /\ Phase
    /\ log \in Seq(Events)
    /\ rows \in Tables /\ ~ rows.refused
    /\ gone \subseteq Modules
    /\ ChainOK(chain)
    /\ Told(log, chain)
    /\ BlockTold(log, chain, height, rows.wasm)
    /\ IF snapped THEN RowsSeen(rows, log, 0, chain, gone, troubles) ELSE rows = Bare(rows.wasm)

\* The modules of which an event of this block is skipped.
Skips(es, ch) == {es[j].of : j \in {k \in 1..Len(es) : es[k].of \in ch.bricked}}

----------------------------------------------------------------------------
(* Maps and sequences. *)

\* What a map has of its keys and values, ...
LEMMA MapFacts ==
    ASSUME NEW S, NEW T, NEW f \in Maps(S, T)
    PROVE  /\ DOMAIN f \subseteq S
           /\ f = [x \in DOMAIN f |-> f[x]]
           /\ \A x \in DOMAIN f : f[x] \in T
  BY DEF Maps

\* ... and when something is one.
LEMMA IsMap ==
    ASSUME NEW S, NEW T, NEW f, DOMAIN f \subseteq S, f = [x \in DOMAIN f |-> f[x]],
           \A x \in DOMAIN f : f[x] \in T
    PROVE  f \in Maps(S, T)
  <1>1. f \in [DOMAIN f -> T]
    OBVIOUS
  <1> QED
    BY <1>1 DEF Maps

\* A map with one more key or another value.
LEMMA WithFacts ==
    ASSUME NEW S, NEW T, NEW f \in Maps(S, T), NEW k \in S, NEW v \in T, NEW g, g = With(f, k, v)
    PROVE  /\ g \in Maps(S, T)
           /\ DOMAIN g = DOMAIN f \cup {k} /\ g[k] = v
           /\ \A x \in DOMAIN f : x # k => g[x] = f[x]
  <1>1. DOMAIN f \subseteq S /\ \A x \in DOMAIN f : f[x] \in T
    BY MapFacts
  <1>2. /\ DOMAIN g = DOMAIN f \cup {k} /\ g[k] = v /\ \A x \in DOMAIN f : x # k => g[x] = f[x]
        /\ g = [x \in DOMAIN g |-> g[x]]
    BY DEF With
  <1>3. DOMAIN g \subseteq S /\ \A x \in DOMAIN g : g[x] \in T
    BY <1>1, <1>2
  <1> QED
    BY <1>2, <1>3, IsMap

\* It is still a map.
LEMMA WithMap ==
    ASSUME NEW S, NEW T, NEW f \in Maps(S, T), NEW k \in S, NEW v \in T
    PROVE  With(f, k, v) \in Maps(S, T)
  BY WithFacts

\* A map with another value.
LEMMA ExceptFacts ==
    ASSUME NEW S, NEW T, NEW f \in Maps(S, T), NEW k \in DOMAIN f, NEW v \in T, NEW g,
           g = [f EXCEPT ![k] = v]
    PROVE  /\ g \in Maps(S, T)
           /\ DOMAIN g = DOMAIN f /\ g[k] = v
           /\ \A x \in DOMAIN f : x # k => g[x] = f[x]
  <1>1. DOMAIN f \subseteq S /\ f = [x \in DOMAIN f |-> f[x]] /\ \A x \in DOMAIN f : f[x] \in T
    BY MapFacts
  <1>2. /\ DOMAIN g = DOMAIN f /\ g[k] = v /\ \A x \in DOMAIN f : x # k => g[x] = f[x]
        /\ g = [x \in DOMAIN g |-> g[x]]
    BY <1>1
  <1>3. DOMAIN g \subseteq S /\ \A x \in DOMAIN g : g[x] \in T
    BY <1>1, <1>2
  <1> QED
    BY <1>2, <1>3, IsMap

\* More events.
LEMMA ConcatFacts ==
    ASSUME NEW es \in Seq(Events), NEW new \in Seq(Events)
    PROVE  /\ es \o new \in Seq(Events)
           /\ Len(es) \in Nat /\ Len(new) \in Nat
           /\ Len(es \o new) = Len(es) + Len(new)
           /\ \A j \in 1..Len(es) : (es \o new)[j] = es[j]
           /\ \A j \in 1..Len(new) : (es \o new)[Len(es) + j] = new[j]
  OBVIOUS

\* What is to come after more events.
LEMMA ToAppended ==
    ASSUME NEW es \in Seq(Events), NEW new \in Seq(Events), NEW i \in 0..Len(es), NEW t, NEW c
    PROVE  To(es \o new, i, t, c) <=> To(es, i, t, c) \/ To(new, 0, t, c)
  <1>1. PICK all : all = es \o new
    OBVIOUS
  <1>2. /\ Len(es) \in Nat /\ Len(new) \in Nat /\ Len(all) = Len(es) + Len(new)
        /\ \A j \in 1..Len(es) : all[j] = es[j]
        /\ \A j \in 1..Len(new) : all[Len(es) + j] = new[j]
    BY <1>1, ConcatFacts
  <1>3. ASSUME To(all, i, t, c) PROVE To(es, i, t, c) \/ To(new, 0, t, c)
    <2>1. PICK j \in 1..Len(all) : j > i /\ all[j].type = t /\ all[j].of = c
      BY <1>3 DEF To
    <2>2. CASE j <= Len(es)
      <3>1. j \in 1..Len(es)
        BY <1>2, <2>2
      <3> QED
        BY <1>2, <2>1, <3>1 DEF To
    <2>3. CASE j > Len(es)
      <3>1. PICK k \in 1..Len(new) : j = Len(es) + k
        <4>1. j - Len(es) \in 1..Len(new) /\ j = Len(es) + (j - Len(es))
          BY <1>2, <2>3
        <4> QED
          BY <4>1
      <3>2. new[k] = all[j] /\ k > 0
        BY <1>2, <3>1
      <3> QED
        BY <2>1, <3>2 DEF To
    <2> QED
      BY <1>2, <2>2, <2>3
  <1>4. ASSUME To(es, i, t, c) PROVE To(all, i, t, c)
    <2>1. PICK j \in 1..Len(es) : j > i /\ es[j].type = t /\ es[j].of = c
      BY <1>4 DEF To
    <2>2. j \in 1..Len(all) /\ all[j] = es[j]
      BY <1>2
    <2> QED
      BY <2>1, <2>2 DEF To
  <1>5. ASSUME To(new, 0, t, c) PROVE To(all, i, t, c)
    <2>1. PICK j \in 1..Len(new) : new[j].type = t /\ new[j].of = c
      BY <1>5 DEF To
    <2>2. Len(es) + j \in 1..Len(all) /\ all[Len(es) + j] = new[j] /\ Len(es) + j > i
      BY <1>2
    <2> QED
      BY <2>1, <2>2 DEF To
  <1> QED
    BY <1>1, <1>3, <1>4, <1>5

\* The same of votes.
LEMMA ToVoteAppended ==
    ASSUME NEW es \in Seq(Events), NEW new \in Seq(Events), NEW b,
           ToVote(es, 0, b) \/ ToVote(new, 0, b)
    PROVE  ToVote(es \o new, 0, b)
  <1>1. PICK all : all = es \o new
    OBVIOUS
  <1>2. /\ Len(es) \in Nat /\ Len(new) \in Nat /\ Len(all) = Len(es) + Len(new)
        /\ \A j \in 1..Len(es) : all[j] = es[j]
        /\ \A j \in 1..Len(new) : all[Len(es) + j] = new[j]
    BY <1>1, ConcatFacts
  <1>3. CASE ToVote(es, 0, b)
    <2>1. PICK j \in 1..Len(es) : es[j].type = "vote" /\ <<es[j].of, es[j].about>> = b
      BY <1>3 DEF ToVote
    <2>2. j \in 1..Len(all) /\ all[j] = es[j] /\ j > 0
      BY <1>2
    <2> QED
      BY <1>1, <2>1, <2>2 DEF ToVote
  <1>4. CASE ToVote(new, 0, b)
    <2>1. PICK j \in 1..Len(new) : new[j].type = "vote" /\ <<new[j].of, new[j].about>> = b
      BY <1>4 DEF ToVote
    <2>2. Len(es) + j \in 1..Len(all) /\ all[Len(es) + j] = new[j] /\ Len(es) + j > 0
      BY <1>2
    <2> QED
      BY <1>1, <2>1, <2>2 DEF ToVote
  <1> QED
    BY <1>3, <1>4

\* After one of the new events only new ones are to come.
LEMMA ToBeyond ==
    ASSUME NEW es \in Seq(Events), NEW new \in Seq(Events), NEW i \in 0..Len(new), NEW t, NEW c
    PROVE  To(es \o new, Len(es) + i, t, c) <=> To(new, i, t, c)
  <1>1. PICK all : all = es \o new
    OBVIOUS
  <1>2. /\ Len(es) \in Nat /\ Len(new) \in Nat /\ Len(all) = Len(es) + Len(new)
        /\ \A j \in 1..Len(new) : all[Len(es) + j] = new[j]
    BY <1>1, ConcatFacts
  <1>3. ASSUME To(all, Len(es) + i, t, c) PROVE To(new, i, t, c)
    <2>1. PICK j \in 1..Len(all) : j > Len(es) + i /\ all[j].type = t /\ all[j].of = c
      BY <1>3 DEF To
    <2>2. PICK k \in 1..Len(new) : j = Len(es) + k
      <3>1. j - Len(es) \in 1..Len(new) /\ j = Len(es) + (j - Len(es))
        BY <1>2, <2>1
      <3> QED
        BY <3>1
    <2>3. new[k] = all[j] /\ k > i
      BY <1>2, <2>1, <2>2
    <2> QED
      BY <2>1, <2>3 DEF To
  <1>4. ASSUME To(new, i, t, c) PROVE To(all, Len(es) + i, t, c)
    <2>1. PICK j \in 1..Len(new) : j > i /\ new[j].type = t /\ new[j].of = c
      BY <1>4 DEF To
    <2>2. Len(es) + j \in 1..Len(all) /\ all[Len(es) + j] = new[j] /\ Len(es) + j > Len(es) + i
      BY <1>2, <2>1
    <2> QED
      BY <2>1, <2>2 DEF To
  <1> QED
    BY <1>1, <1>3, <1>4

\* What is to come before an event and after it.
LEMMA ToStep ==
    ASSUME NEW es \in Seq(Events), NEW i \in Nat, i < Len(es), NEW t, NEW c
    PROVE  To(es, i, t, c) <=> (es[i + 1].type = t /\ es[i + 1].of = c) \/ To(es, i + 1, t, c)
  <1>1. Len(es) \in Nat /\ i + 1 \in 1..Len(es) /\ i + 1 > i
    OBVIOUS
  <1>2. ASSUME NEW j \in 1..Len(es), j > i PROVE j = i + 1 \/ j > i + 1
    BY <1>1, <1>2
  <1>3. ASSUME NEW j \in 1..Len(es), j > i + 1 PROVE j > i
    BY <1>1, <1>3
  <1> QED
    BY <1>1, <1>2, <1>3 DEF To

\* The same of votes.
LEMMA ToVoteStep ==
    ASSUME NEW es \in Seq(Events), NEW i \in Nat, i < Len(es), NEW b, ToVote(es, i, b)
    PROVE  \/ es[i + 1].type = "vote" /\ <<es[i + 1].of, es[i + 1].about>> = b
           \/ ToVote(es, i + 1, b)
  <1>1. ASSUME NEW j \in 1..Len(es), j > i PROVE j = i + 1 \/ j > i + 1
    BY <1>1
  <1> QED
    BY <1>1 DEF ToVote

----------------------------------------------------------------------------
(* The chain emits the events new and goes from ch to dh: whatever became   *)
(* different is told by one of them.                                        *)

Made(ch, dh, new) ==
    /\ ch.contracts \subseteq dh.contracts
    /\ \A c \in dh.contracts \ ch.contracts : ToInstantiate(new, 0, c)
    /\ \A c \in ch.contracts : ~ ToInstantiate(new, 0, c)

CoreTold(ch, dh, new) ==
    /\ dh.voting = ch.voting \/ ToSetVoting(new, 0)
    /\ ch.voting = None => dh.voting = None \/ ToCreate(new, 0)
    /\ ch.voting # None => dh.voting # None
    /\ dh.subs = ch.subs \/ To(new, 0, "update_sub_daos", None)

ModulesTold(ch, dh, new) ==
    \A m \in DOMAIN ch.policy :
        /\ dh.status[m] = ch.status[m] \/ ToRefresh(new, 0)
        /\ dh.policy[m] = ch.policy[m] \/ ToSetPolicy(new, 0, m)

ProposalsTold(ch, dh, new) ==
    /\ DOMAIN ch.proposals \subseteq DOMAIN dh.proposals
    /\ \A m \in DOMAIN dh.proposals \ DOMAIN ch.proposals : To(new, 0, "propose", m)
    /\ \A m \in DOMAIN ch.proposals :
         /\ ~ To(new, 0, "propose", m)
         /\ dh.proposals[m] = ch.proposals[m] \/ ToConclude(new, 0, m)

BallotsTold(ch, dh, new, h) ==
    /\ DOMAIN ch.ballots \subseteq DOMAIN dh.ballots
    /\ \A b \in DOMAIN dh.ballots :
         \/ b \in DOMAIN ch.ballots /\ dh.ballots[b] = ch.ballots[b]
         \/ ToVote(new, 0, b) /\ dh.ballots[b].height = h

ApprovalsTold(ch, dh, new, h) ==
    /\ DOMAIN ch.approvals \subseteq DOMAIN dh.approvals
    /\ \A q \in DOMAIN dh.approvals \ DOMAIN ch.approvals :
         To(new, 0, "submit", q) /\ dh.approvals[q].height = h
    /\ \A q \in DOMAIN ch.approvals :
         /\ ~ To(new, 0, "submit", q)
         /\ dh.approvals[q].height = ch.approvals[q].height
         /\ \/ dh.approvals[q].state = ch.approvals[q].state
            \/ ch.approvals[q].state = "pending" /\ To(new, 0, "resolve", q)

Grows(ch, dh, new, h) ==
    /\ Made(ch, dh, new)
    /\ CoreTold(ch, dh, new)
    /\ ModulesTold(ch, dh, new)
    /\ ProposalsTold(ch, dh, new)
    /\ BallotsTold(ch, dh, new, h)
    /\ ApprovalsTold(ch, dh, new, h)

\* What an earlier event told it still tells.
LEMMA StillTold ==
    ASSUME NEW es \in Seq(Events), NEW new \in Seq(Events), NEW ch, NEW dh, NEW h,
           ChainOK(ch), ChainOK(dh), Grows(ch, dh, new, h),
           NEW j \in 1..Len(es), EventTold(es, j, ch)
    PROVE  EventTold(es \o new, j, dh)
  <1>1. PICK all : all = es \o new
    OBVIOUS
  <1>2. all[j] = es[j] /\ j \in 0..Len(es) /\ 0 \in 0..Len(es)
    BY <1>1, ConcatFacts
  <1>3. \A t, c : To(all, j, t, c) <=> To(es, j, t, c) \/ To(new, 0, t, c)
    BY <1>1, <1>2, ToAppended
  <1>4. \A t, c : To(all, 0, t, c) <=> To(es, 0, t, c) \/ To(new, 0, t, c)
    BY <1>1, <1>2, ToAppended
  <1>5. PICK e : e = es[j]
    OBVIOUS
  <1>6. ch.contracts \subseteq dh.contracts /\ \A c \in ch.contracts : ~ ToInstantiate(new, 0, c)
    BY DEF Grows, Made
  <1>7. /\ dh.voting = ch.voting \/ ToSetVoting(new, 0)
        /\ ch.voting # None => dh.voting # None
    BY DEF Grows, CoreTold
  <1>8. DOMAIN ch.policy = ch.contracts \cap Modules /\ DOMAIN dh.policy = dh.contracts \cap Modules
    BY DEF ChainOK
  <1>9. \A m \in DOMAIN ch.policy : dh.policy[m] = ch.policy[m] \/ ToSetPolicy(new, 0, m)
    BY DEF Grows, ModulesTold
  <1>10. DOMAIN ch.proposals \subseteq ch.contracts /\ DOMAIN ch.approvals \subseteq ch.contracts
    BY DEF ChainOK
  <1>11. ASSUME e.type = "create_dao" PROVE CreateTold(all, j, dh)
    BY <1>2, <1>3, <1>5, <1>7, <1>11 DEF EventTold, CreateTold, ToSetVoting
  <1>12. ASSUME e.type = "instantiate" PROVE InstantiateTold(all, j, dh)
    <2>1. InstantiateTold(es, j, ch)
      BY <1>5, <1>12 DEF EventTold
    <2> QED
      BY <2>1, <1>2, <1>3, <1>6, <1>8, <1>9 DEF InstantiateTold, ToSetPolicy
  <1>13. ASSUME e.type = "voting_module" PROVE VotingTold(all, j, dh)
    <2>1. VotingTold(es, j, ch)
      BY <1>5, <1>13 DEF EventTold
    <2> QED
      BY <2>1, <1>2, <1>3, <1>6, <1>7 DEF VotingTold, ToSetVoting, ToInstantiate
  <1>14. ASSUME e.type = "update_pre_propose_module" PROVE PreProposeTold(all, j, dh)
    <2>1. PreProposeTold(es, j, ch)
      BY <1>5, <1>14 DEF EventTold
    <2> QED
      BY <2>1, <1>2, <1>3, <1>6, <1>8, <1>9 DEF PreProposeTold, ToSetPolicy, ToInstantiate
  <1>15. ASSUME e.type = "update_policy" PROVE PolicyTold(all, j, dh)
    <2>1. PolicyTold(es, j, ch)
      BY <1>5, <1>15 DEF EventTold
    <2> QED
      BY <2>1, <1>2, <1>3, <1>6, <1>8, <1>9 DEF PolicyTold, ToSetPolicy, ToInstantiate
  <1>16. DOMAIN ch.proposals \subseteq DOMAIN dh.proposals
         /\ \A m \in DOMAIN ch.proposals : ~ To(new, 0, "propose", m)
    BY DEF Grows, ProposalsTold
  <1>17. ASSUME e.type = "propose" PROVE ProposeTold(all, j, dh)
    <2>1. ProposeTold(es, j, ch)
      BY <1>5, <1>17 DEF EventTold
    <2> QED
      BY <2>1, <1>2, <1>3, <1>6, <1>10, <1>16 DEF ProposeTold, ToInstantiate
  <1>18. ASSUME e.type = "vote" PROVE VoteTold(all, j, dh)
    <2>1. VoteTold(es, j, ch)
      BY <1>5, <1>18 DEF EventTold
    <2>2. DOMAIN ch.ballots \subseteq DOMAIN dh.ballots
      BY DEF Grows, BallotsTold
    <2>3. <<e.of, e.about>>[1] \in DOMAIN ch.proposals
      BY <1>5, <2>1 DEF ChainOK, VoteTold
    <2>4. e.of \in DOMAIN ch.proposals
      BY <2>3
    <2> QED
      BY <2>1, <2>2, <2>4, <1>2, <1>3, <1>5, <1>16 DEF VoteTold
  <1>19. ASSUME e.type = "conclude" PROVE e.of \in DOMAIN dh.proposals
    BY <1>5, <1>16, <1>19 DEF EventTold
  <1>20. /\ DOMAIN ch.approvals \subseteq DOMAIN dh.approvals
         /\ \A q \in DOMAIN ch.approvals :
              /\ ~ To(new, 0, "submit", q)
              /\ \/ dh.approvals[q].state = ch.approvals[q].state
                 \/ ch.approvals[q].state = "pending" /\ To(new, 0, "resolve", q)
    BY DEF Grows, ApprovalsTold
  <1>21. ASSUME e.type = "submit" PROVE SubmitTold(all, j, dh)
    <2>1. SubmitTold(es, j, ch)
      BY <1>5, <1>21 DEF EventTold
    <2> QED
      BY <2>1, <1>2, <1>3, <1>4, <1>6, <1>10, <1>20 DEF SubmitTold, ToInstantiate
  <1>22. ASSUME e.type = "resolve" PROVE ResolveTold(all, j, dh)
    <2>1. ResolveTold(es, j, ch)
      BY <1>5, <1>22 DEF EventTold
    <2> QED
      BY <2>1, <1>2, <1>3, <1>20 DEF ResolveTold
  <1>23. e.type = "update_proposal_modules" => e.of = None /\ dh.voting # None
    BY <1>5, <1>7 DEF EventTold
  <1>24. e.type = "update_sub_daos" => e.of = None /\ dh.voting # None
    BY <1>5, <1>7 DEF EventTold
  <1> QED
    BY <1>1, <1>2, <1>5, <1>11, <1>12, <1>13, <1>14, <1>15, <1>17, <1>18, <1>19, <1>21, <1>22,
       <1>23, <1>24 DEF EventTold

\* A new event tells what it would if there were none before it.
LEMMA NewTold ==
    ASSUME NEW es \in Seq(Events), NEW new \in Seq(Events), NEW dh,
           NEW j \in 1..Len(new), EventTold(new, j, dh),
           es = << >> \/ new[j].type # "create_dao"
    PROVE  EventTold(es \o new, Len(es) + j, dh)
  <1>1. PICK all, k : all = es \o new /\ k = Len(es) + j
    OBVIOUS
  <1>2. all[k] = new[j] /\ j \in 0..Len(new) /\ (es = << >> => k = j)
    BY <1>1, ConcatFacts
  <1>3. \A t, c : To(all, k, t, c) <=> To(new, j, t, c)
    BY <1>1, <1>2, ToBeyond
  <1>4. \A t, c : To(new, 0, t, c) => To(all, 0, t, c)
    <2>1. 0 \in 0..Len(es)
      BY ConcatFacts
    <2> QED
      BY <1>1, <2>1, ToAppended
  <1>5. PICK e : e = new[j]
    OBVIOUS
  <1>6. ASSUME e.type = "create_dao" PROVE CreateTold(all, k, dh)
    BY <1>2, <1>3, <1>5, <1>6 DEF EventTold, CreateTold, ToSetVoting
  <1>7. ASSUME e.type = "instantiate" PROVE InstantiateTold(all, k, dh)
    BY <1>2, <1>3, <1>5, <1>7 DEF EventTold, InstantiateTold, ToSetPolicy
  <1>8. ASSUME e.type = "voting_module" PROVE VotingTold(all, k, dh)
    BY <1>2, <1>3, <1>5, <1>8 DEF EventTold, VotingTold, ToSetVoting, ToInstantiate
  <1>9. ASSUME e.type = "update_pre_propose_module" PROVE PreProposeTold(all, k, dh)
    BY <1>2, <1>3, <1>5, <1>9 DEF EventTold, PreProposeTold, ToSetPolicy, ToInstantiate
  <1>10. ASSUME e.type = "update_policy" PROVE PolicyTold(all, k, dh)
    BY <1>2, <1>3, <1>5, <1>10 DEF EventTold, PolicyTold, ToSetPolicy, ToInstantiate
  <1>11. ASSUME e.type = "propose" PROVE ProposeTold(all, k, dh)
    BY <1>2, <1>3, <1>5, <1>11 DEF EventTold, ProposeTold, ToInstantiate
  <1>12. ASSUME e.type = "vote" PROVE VoteTold(all, k, dh)
    BY <1>2, <1>3, <1>5, <1>12 DEF EventTold, VoteTold
  <1>13. ASSUME e.type = "submit" PROVE SubmitTold(all, k, dh)
    BY <1>2, <1>3, <1>4, <1>5, <1>13 DEF EventTold, SubmitTold, ToInstantiate
  <1>14. ASSUME e.type = "resolve" PROVE ResolveTold(all, k, dh)
    BY <1>2, <1>3, <1>5, <1>14 DEF EventTold, ResolveTold
  <1>15. /\ e.type = "update_proposal_modules" => e.of = None /\ dh.voting # None
         /\ e.type = "conclude" => e.of \in DOMAIN dh.proposals
         /\ e.type = "update_sub_daos" => e.of = None /\ dh.voting # None
    BY <1>5 DEF EventTold
  <1> QED
    BY <1>1, <1>2, <1>5, <1>6, <1>7, <1>8, <1>9, <1>10, <1>11, <1>12, <1>13, <1>14, <1>15
       DEF EventTold

\* All the events.
LEMMA AllTold ==
    ASSUME NEW es \in Seq(Events), NEW new \in Seq(Events), NEW ch, NEW dh, NEW h,
           ChainOK(ch), ChainOK(dh), Grows(ch, dh, new, h), Told(es, ch), Told(new, dh),
           es = << >> \/ \A j \in 1..Len(new) : new[j].type # "create_dao"
    PROVE  Told(es \o new, dh)
  <1> SUFFICES ASSUME NEW j \in 1..Len(es \o new) PROVE EventTold(es \o new, j, dh)
    BY DEF Told
  <1>1. Len(es) \in Nat /\ Len(new) \in Nat /\ Len(es \o new) = Len(es) + Len(new)
    BY ConcatFacts
  <1>2. CASE j <= Len(es)
    <2>1. j \in 1..Len(es)
      BY <1>1, <1>2
    <2> QED
      BY <2>1, StillTold DEF Told
  <1>3. CASE j > Len(es)
    <2>1. PICK k \in 1..Len(new) : j = Len(es) + k
      <3>1. j - Len(es) \in 1..Len(new) /\ j = Len(es) + (j - Len(es))
        BY <1>1, <1>3
      <3> QED
        BY <3>1
    <2>2. EventTold(es \o new, Len(es) + k, dh)
      BY NewTold DEF Told
    <2> QED
      BY <2>1, <2>2
  <1> QED
    BY <1>1, <1>2, <1>3

\* What is seen of the chain's state is seen of the next one.
LEMMA StillSeen ==
    ASSUME NEW es \in Seq(Events), NEW new \in Seq(Events), NEW ch, NEW dh, NEW h, NEW r, NEW x,
           NEW w, ChainOK(ch), ChainOK(dh), Grows(ch, dh, new, h), RowsSeen(r, es, 0, ch, x, w)
    PROVE  RowsSeen(r, es \o new, 0, dh, x, w)
  <1>1. PICK all : all = es \o new
    OBVIOUS
  <1>2. \A t, c : To(all, 0, t, c) <=> To(es, 0, t, c) \/ To(new, 0, t, c)
    <2>1. 0 \in 0..Len(es)
      BY ConcatFacts
    <2> QED
      BY <1>1, <2>1, ToAppended
  <1>3. CoreSeen(r, all, 0, dh)
    BY <1>2 DEF RowsSeen, CoreSeen, Grows, CoreTold, ToSetVoting, ToCreate
  <1>4. ContractsSeen(r, all, 0, dh)
    BY <1>2 DEF RowsSeen, ContractsSeen, Grows, Made, ToInstantiate
  <1>5. SubsSeen(r, all, 0, dh, w)
    BY <1>2 DEF RowsSeen, SubsSeen, Grows, CoreTold
  <1>6. ModulesSeen(r, all, 0, dh, x, w)
    <2>1. /\ DOMAIN ch.status = DOMAIN ch.policy /\ DOMAIN ch.policy = ch.contracts \cap Modules
          /\ DOMAIN dh.status = dh.contracts \cap Modules
      BY DEF ChainOK
    <2>2. /\ ch.contracts \subseteq dh.contracts
          /\ \A c \in dh.contracts \ ch.contracts : ToInstantiate(new, 0, c)
      BY DEF Grows, Made
    <2>3. DOMAIN r.modules \subseteq DOMAIN dh.status
      BY <2>1, <2>2 DEF RowsSeen, ModulesSeen
    <2>4. ASSUME NEW m \in DOMAIN dh.status \ x, m \in DOMAIN r.modules
          PROVE  ModuleSeen(r.modules[m], all, 0, dh, m, w)
      <3>1. m \in DOMAIN ch.status \ x /\ m \in DOMAIN ch.policy
        BY <2>1, <2>4 DEF RowsSeen, ModulesSeen
      <3>2. ModuleSeen(r.modules[m], es, 0, ch, m, w)
        BY <2>4, <3>1 DEF RowsSeen, ModulesSeen
      <3>3. /\ dh.status[m] = ch.status[m] \/ ToRefresh(new, 0)
            /\ dh.policy[m] = ch.policy[m] \/ ToSetPolicy(new, 0, m)
        BY <3>1 DEF Grows, ModulesTold
      <3> QED
        BY <1>2, <3>2, <3>3 DEF ModuleSeen, ToInstantiate, ToSetPolicy, ToRefresh
    <2>5. ASSUME NEW m \in DOMAIN dh.status \ x, m \notin DOMAIN r.modules
          PROVE  ToInstantiate(all, 0, m)
      <3>1. CASE m \in ch.contracts
        <4>1. m \in DOMAIN ch.status \ x
          BY <2>1, <3>1
        <4> QED
          BY <1>2, <2>5, <4>1 DEF RowsSeen, ModulesSeen, ToInstantiate
      <3>2. CASE m \notin ch.contracts
        BY <1>2, <2>1, <2>2, <3>2 DEF ToInstantiate
      <3> QED
        BY <3>1, <3>2
    <2> QED
      BY <2>3, <2>4, <2>5 DEF ModulesSeen
  <1>7. ProposalsSeen(r, all, 0, dh, x)
    BY <1>2 DEF RowsSeen, ProposalsSeen, Grows, ProposalsTold, ToConclude
  <1>8. BallotsSeen(r, all, 0, dh, x)
    <2>1. \A b : ToVote(es, 0, b) \/ ToVote(new, 0, b) => ToVote(all, 0, b)
      BY <1>1, ToVoteAppended
    <2> QED
      BY <2>1 DEF RowsSeen, BallotsSeen, Grows, BallotsTold
  <1>9. ApprovalsSeen(r, all, 0, dh)
    BY <1>2 DEF RowsSeen, ApprovalsSeen, Grows, ApprovalsTold
  <1> QED
    BY <1>1, <1>3, <1>4, <1>5, <1>6, <1>7, <1>8, <1>9 DEF RowsSeen

\* What the block made is told, too.
LEMMA StillInBlock ==
    ASSUME NEW es \in Seq(Events), NEW new \in Seq(Events), NEW ch, NEW dh, NEW h \in Nat, NEW k,
           ChainOK(ch), ChainOK(dh), Grows(ch, dh, new, h), BlockTold(es, ch, h, k)
    PROVE  BlockTold(es \o new, dh, h, k)
  <1>1. PICK all : all = es \o new
    OBVIOUS
  <1>2. \A t, c : To(all, 0, t, c) <=> To(es, 0, t, c) \/ To(new, 0, t, c)
    <2>1. 0 \in 0..Len(es)
      BY ConcatFacts
    <2> QED
      BY <1>1, <2>1, ToAppended
  <1>3. k \subseteq dh.contracts /\ \A c \in dh.contracts : c \in k \/ ToInstantiate(all, 0, c)
    BY <1>2 DEF BlockTold, Grows, Made, ToInstantiate
  <1>4. ASSUME k = {}
        PROVE  /\ dh.voting = None \/ (ToCreate(all, 0) /\ ToSetVoting(all, 0))
               /\ dh.subs = {} \/ To(all, 0, "update_sub_daos", None)
    <2>1. /\ ch.voting = None \/ (ToCreate(es, 0) /\ ToSetVoting(es, 0))
          /\ ch.subs = {} \/ To(es, 0, "update_sub_daos", None)
      BY <1>4 DEF BlockTold
    <2>2. /\ dh.voting = ch.voting \/ ToSetVoting(new, 0)
          /\ ch.voting = None => dh.voting = None \/ ToCreate(new, 0)
          /\ dh.subs = ch.subs \/ To(new, 0, "update_sub_daos", None)
      BY DEF Grows, CoreTold
    <2> QED
      BY <1>2, <2>1, <2>2 DEF ToCreate, ToSetVoting
  <1>5. \A m \in DOMAIN dh.proposals : m \in k \/ To(all, 0, "propose", m)
    BY <1>2 DEF BlockTold, Grows, ProposalsTold
  <1>6. ASSUME NEW b \in DOMAIN dh.ballots
        PROVE  dh.ballots[b].height <= h /\ (dh.ballots[b].height = h => ToVote(all, 0, b))
    <2>1. ToVote(es, 0, b) \/ ToVote(new, 0, b) => ToVote(all, 0, b)
      BY <1>1, ToVoteAppended
    <2> QED
      BY <2>1 DEF BlockTold, Grows, BallotsTold
  <1>7. ASSUME NEW q \in DOMAIN dh.approvals
        PROVE  dh.approvals[q].height <= h
               /\ (dh.approvals[q].height = h => To(all, 0, "submit", q))
    BY <1>2 DEF BlockTold, Grows, ApprovalsTold
  <1> QED
    BY <1>1, <1>3, <1>4, <1>5, <1>6, <1>7 DEF BlockTold

----------------------------------------------------------------------------
(* The chain's messages, split up into what they do one after the other.    *)

\* What is known of the chain ch, the events es and the rows.
Known(ch, es, h, k, r, x, w, s) ==
    /\ h \in Nat
    /\ es \in Seq(Events)
    /\ ChainOK(ch)
    /\ Told(es, ch)
    /\ BlockTold(es, ch, h, k)
    /\ s => RowsSeen(r, es, 0, ch, x, w)

Emits(ch, dh, es, new, h) ==
    /\ new \in Seq(Events)
    /\ ChainOK(dh)
    /\ Grows(ch, dh, new, h)
    /\ Told(new, dh)
    /\ es = << >> \/ \A j \in 1..Len(new) : new[j].type # "create_dao"

\* Events that tell what changed keep it.
LEMMA Emitting ==
    ASSUME NEW ch, NEW es, NEW h, NEW k, NEW r, NEW x, NEW w, NEW s, Known(ch, es, h, k, r, x, w, s),
           NEW dh, NEW new, Emits(ch, dh, es, new, h)
    PROVE  Known(dh, es \o new, h, k, r, x, w, s)
  <1>1. /\ h \in Nat /\ es \in Seq(Events) /\ ChainOK(ch) /\ Told(es, ch) /\ BlockTold(es, ch, h, k)
        /\ new \in Seq(Events) /\ ChainOK(dh) /\ Grows(ch, dh, new, h) /\ Told(new, dh)
    BY DEF Known, Emits
  <1>2. es \o new \in Seq(Events)
    BY <1>1, ConcatFacts
  <1>3. Told(es \o new, dh)
    BY <1>1, AllTold DEF Emits
  <1>4. BlockTold(es \o new, dh, h, k)
    BY <1>1, StillInBlock
  <1>5. s => RowsSeen(r, es \o new, 0, dh, x, w)
    BY <1>1, StillSeen DEF Known
  <1> QED
    BY <1>1, <1>2, <1>3, <1>4, <1>5 DEF Known

\* The chain without what is named.
Alike(dh, ch, names) ==
    /\ "voting" \notin names => dh.voting = ch.voting
    /\ "status" \notin names => dh.status = ch.status
    /\ "policy" \notin names => dh.policy = ch.policy
    /\ "contracts" \notin names => dh.contracts = ch.contracts
    /\ "proposals" \notin names => dh.proposals = ch.proposals
    /\ "ballots" \notin names => dh.ballots = ch.ballots
    /\ "approvals" \notin names => dh.approvals = ch.approvals
    /\ "subs" \notin names => dh.subs = ch.subs
    /\ "bricked" \notin names => dh.bricked = ch.bricked

\* Events of a message, and what is to come of one, two or three of them.
LEMMA EventIs ==
    ASSUME NEW t \in Types, NEW c \in Contracts \cup {None},
           NEW a \in Contracts \cup Voters \cup {None, "approved", "rejected"}
    PROVE  /\ Event(t, c, a) \in Events
           /\ Event(t, c, a).type = t /\ Event(t, c, a).of = c /\ Event(t, c, a).about = a
  BY DEF Event, Events

\* What is to come of one event, ...
LEMMA ToOne ==
    ASSUME NEW e, NEW i \in Nat, NEW t, NEW c
    PROVE  To(<<e>>, i, t, c) <=> i = 0 /\ e.type = t /\ e.of = c
  <1>1. PICK s : s = <<e>>
    OBVIOUS
  <1>2. Len(s) = 1 /\ s[1] = e
    BY <1>1
  <1>3. 1 \in 1..Len(s) /\ \A j \in 1..Len(s) : j = 1
    BY <1>2
  <1> QED
    BY <1>1, <1>2, <1>3 DEF To

\* ... of two ...
LEMMA ToTwo ==
    ASSUME NEW e, NEW f, NEW i \in Nat, NEW t, NEW c
    PROVE  To(<<e, f>>, i, t, c) <=> \/ i = 0 /\ e.type = t /\ e.of = c
                                     \/ i < 2 /\ f.type = t /\ f.of = c
  <1>1. PICK s : s = <<e, f>>
    OBVIOUS
  <1>2. Len(s) = 2 /\ s[1] = e /\ s[2] = f
    BY <1>1
  <1>3. 1 \in 1..Len(s) /\ 2 \in 1..Len(s) /\ \A j \in 1..Len(s) : j = 1 \/ j = 2
    BY <1>2
  <1> QED
    BY <1>1, <1>2, <1>3 DEF To

\* ... and of three.
LEMMA ToThree ==
    ASSUME NEW e, NEW f, NEW g, NEW i \in Nat, NEW t, NEW c
    PROVE  To(<<e, f, g>>, i, t, c) <=> \/ i = 0 /\ e.type = t /\ e.of = c
                                        \/ i < 2 /\ f.type = t /\ f.of = c
                                        \/ i < 3 /\ g.type = t /\ g.of = c
  <1>1. PICK s : s = <<e, f, g>>
    OBVIOUS
  <1>2. Len(s) = 3 /\ s[1] = e /\ s[2] = f /\ s[3] = g
    BY <1>1
  <1>3. 1 \in 1..Len(s) /\ 2 \in 1..Len(s) /\ 3 \in 1..Len(s)
        /\ \A j \in 1..Len(s) : j = 1 \/ j = 2 \/ j = 3
    BY <1>2
  <1> QED
    BY <1>1, <1>2, <1>3 DEF To

\* Only one of the kinds of contracts has a contract, and no other name is one.
LEMMA Kinds ==
    /\ \A c \in Contracts : c # None /\ c # Anyone
    /\ \A c \in Modules : c \notin PreProposes /\ c \notin Votings
    /\ \A c \in PreProposes : c \notin Modules /\ c \notin Votings
    /\ \A c \in Votings : c \notin Modules /\ c \notin PreProposes
  BY DaoParameters DEF Contracts, None, Anyone

\* An event is about something there is.
LEMMA NothingToTell ==
    ASSUME NEW es \in Seq(Events), NEW ch, ChainOK(ch), Told(es, ch), ch.voting = None
    PROVE  es = << >>
  <1> SUFFICES ASSUME es # << >> PROVE FALSE
    OBVIOUS
  <1>1. 1 \in 1..Len(es) /\ es[1] \in Events
    OBVIOUS
  <1>2. EventTold(es, 1, ch)
    BY <1>1 DEF Told
  <1>3. PICK e : e = es[1]
    OBVIOUS
  <1>4. ch.contracts = {} /\ DOMAIN ch.policy = {} /\ DOMAIN ch.proposals = {}
        /\ DOMAIN ch.ballots = {} /\ DOMAIN ch.approvals = {}
    BY DEF ChainOK
  <1>5. e.type \in Types
    BY <1>1, <1>3 DEF Events
  <1>6. e.type \notin {"create_dao", "update_proposal_modules", "update_sub_daos"}
    BY <1>2, <1>3 DEF EventTold, CreateTold
  <1>7. e.type \notin {"instantiate", "voting_module", "update_pre_propose_module", "update_policy"}
    BY <1>2, <1>3, <1>4 DEF EventTold, InstantiateTold, VotingTold, PreProposeTold, PolicyTold
  <1>8. e.type \notin {"propose", "vote", "conclude", "submit", "resolve"}
    BY <1>2, <1>3, <1>4 DEF EventTold, ProposeTold, VoteTold, SubmitTold, ResolveTold
  <1> QED
    BY <1>5, <1>6, <1>7, <1>8 DEF Types

\* The DAO is created, with its voting module.
LEMMA EmitCreate ==
    ASSUME NEW ch, NEW es, NEW h, NEW k, NEW r, NEW x, NEW w, NEW s, Known(ch, es, h, k, r, x, w, s),
           ch.voting = None, NEW v \in Votings,
           NEW dh \in ChainStates, Alike(dh, ch, {"voting", "contracts"}), dh.voting = v,
           dh.contracts = {v}
    PROVE  Known(dh, es \o <<Event("create_dao", None, None), Event("instantiate", v, None),
                             Event("voting_module", None, v)>>, h, k, r, x, w, s)
  <1>1. PICK e, f, g : /\ e = Event("create_dao", None, None) /\ f = Event("instantiate", v, None)
                       /\ g = Event("voting_module", None, v)
    OBVIOUS
  <1>2. /\ e \in Events /\ e.type = "create_dao" /\ e.of = None
        /\ f \in Events /\ f.type = "instantiate" /\ f.of = v
        /\ g \in Events /\ g.type = "voting_module" /\ g.of = None /\ g.about = v
    <2>1. v \in Contracts /\ {"create_dao", "instantiate", "voting_module"} \subseteq Types
      BY DEF Contracts, Types
    <2> QED
      BY <1>1, <2>1, EventIs
  <1>3. PICK new : new = <<e, f, g>>
    OBVIOUS
  <1>4. new \in Seq(Events) /\ Len(new) = 3 /\ new[1] = e /\ new[2] = f /\ new[3] = g
    BY <1>2, <1>3
  <1>5. \A i \in Nat : \A t, c : To(new, i, t, c) <=>
            \/ i = 0 /\ t = "create_dao" /\ c = None
            \/ i < 2 /\ t = "instantiate" /\ c = v
            \/ i < 3 /\ t = "voting_module" /\ c = None
    BY <1>2, <1>3, ToThree
  <1>6. ChainOK(ch) /\ es = << >>
    BY NothingToTell DEF Known
  <1>7. ch.contracts = {} /\ DOMAIN ch.policy = {} /\ DOMAIN ch.proposals = {}
        /\ DOMAIN ch.ballots = {} /\ DOMAIN ch.approvals = {}
    BY <1>6 DEF ChainOK
  <1>8. v # None /\ v \notin Modules
    BY Kinds DEF Contracts
  <1>9. ChainOK(dh)
    <2>1. IsFiniteSet(dh.contracts)
      BY FS_Singleton
    <2> QED
      BY <1>6, <1>7, <1>8, <2>1 DEF ChainOK, Alike
  <1>10. Grows(ch, dh, new, h)
    <2>1. Made(ch, dh, new)
      BY <1>5, <1>7 DEF Made, ToInstantiate
    <2>2. CoreTold(ch, dh, new)
      BY <1>5 DEF CoreTold, ToSetVoting, ToCreate, Alike
    <2>3. ModulesTold(ch, dh, new) /\ ProposalsTold(ch, dh, new) /\ BallotsTold(ch, dh, new, h)
          /\ ApprovalsTold(ch, dh, new, h)
      BY <1>7 DEF ModulesTold, ProposalsTold, BallotsTold, ApprovalsTold, Alike
    <2> QED
      BY <2>1, <2>2, <2>3 DEF Grows
  <1>11. Told(new, dh)
    <2>1. EventTold(new, 1, dh)
      BY <1>2, <1>4, <1>5, <1>8 DEF EventTold, CreateTold, ToSetVoting
    <2>2. EventTold(new, 2, dh)
      BY <1>2, <1>4, <1>8 DEF EventTold, InstantiateTold
    <2>3. EventTold(new, 3, dh)
      BY <1>2, <1>4, <1>5, <1>8 DEF EventTold, VotingTold, ToInstantiate
    <2>4. \A j \in 1..Len(new) : j = 1 \/ j = 2 \/ j = 3
      BY <1>4
    <2> QED
      BY <2>1, <2>2, <2>3, <2>4 DEF Told
  <1>12. Emits(ch, dh, es, new, h)
    BY <1>4, <1>6, <1>9, <1>10, <1>11 DEF Emits
  <1> QED
    BY <1>1, <1>3, <1>12, Emitting

\* Another voting module.
LEMMA EmitVoting ==
    ASSUME NEW ch, NEW es, NEW h, NEW k, NEW r, NEW x, NEW w, NEW s, Known(ch, es, h, k, r, x, w, s),
           ch.voting # None, NEW v \in Votings, v \notin ch.contracts,
           NEW dh \in ChainStates, Alike(dh, ch, {"voting", "contracts"}), dh.voting = v,
           dh.contracts = ch.contracts \cup {v}
    PROVE  Known(dh, es \o <<Event("instantiate", v, None), Event("voting_module", None, v)>>,
                 h, k, r, x, w, s)
  <1>1. PICK e, f : e = Event("instantiate", v, None) /\ f = Event("voting_module", None, v)
    OBVIOUS
  <1>2. /\ e \in Events /\ e.type = "instantiate" /\ e.of = v
        /\ f \in Events /\ f.type = "voting_module" /\ f.of = None /\ f.about = v
    <2>1. v \in Contracts /\ {"instantiate", "voting_module"} \subseteq Types
      BY DEF Contracts, Types
    <2> QED
      BY <1>1, <2>1, EventIs
  <1>3. PICK new : new = <<e, f>>
    OBVIOUS
  <1>4. new \in Seq(Events) /\ Len(new) = 2 /\ new[1] = e /\ new[2] = f
    BY <1>2, <1>3
  <1>5. \A i \in Nat : \A t, c : To(new, i, t, c) <=>
            \/ i = 0 /\ t = "instantiate" /\ c = v
            \/ i < 2 /\ t = "voting_module" /\ c = None
    BY <1>2, <1>3, ToTwo
  <1>6. ChainOK(ch)
    BY DEF Known
  <1>7. v # None /\ v \notin Modules
    BY Kinds DEF Contracts
  <1>8. dh.contracts \cap Modules = ch.contracts \cap Modules
    BY <1>7
  <1>9. ChainOK(dh)
    <2>1. IsFiniteSet(dh.contracts)
      BY <1>6, FS_AddElement DEF ChainOK
    <2> QED
      BY <1>6, <1>7, <1>8, <2>1 DEF ChainOK, Alike
  <1>10. Grows(ch, dh, new, h)
    <2>1. Made(ch, dh, new)
      BY <1>5 DEF Made, ToInstantiate
    <2>2. CoreTold(ch, dh, new)
      BY <1>5, <1>7 DEF CoreTold, ToSetVoting, Alike
    <2>3. ModulesTold(ch, dh, new) /\ ProposalsTold(ch, dh, new) /\ BallotsTold(ch, dh, new, h)
          /\ ApprovalsTold(ch, dh, new, h)
      BY <1>5 DEF ModulesTold, ProposalsTold, BallotsTold, ApprovalsTold, Alike
    <2> QED
      BY <2>1, <2>2, <2>3 DEF Grows
  <1>11. Told(new, dh)
    <2>1. EventTold(new, 1, dh)
      BY <1>2, <1>4, <1>7 DEF EventTold, InstantiateTold
    <2>2. EventTold(new, 2, dh)
      BY <1>2, <1>4, <1>5 DEF EventTold, VotingTold, ToInstantiate
    <2>3. \A j \in 1..Len(new) : j = 1 \/ j = 2
      BY <1>4
    <2> QED
      BY <2>1, <2>2, <2>3 DEF Told
  <1>12. Emits(ch, dh, es, new, h)
    <2>1. \A j \in 1..Len(new) : new[j].type # "create_dao"
      <3>1. \A j \in 1..Len(new) : j = 1 \/ j = 2
        BY <1>4
      <3> QED
        BY <1>2, <1>4, <3>1
    <2> QED
      BY <1>4, <1>9, <1>10, <1>11, <2>1 DEF Emits
  <1> QED
    BY <1>1, <1>3, <1>12, Emitting

\* Modules are disabled.
LEMMA EmitRefresh ==
    ASSUME NEW ch, NEW es, NEW h, NEW k, NEW r, NEW x, NEW w, NEW s, Known(ch, es, h, k, r, x, w, s),
           ch.voting # None, NEW dh \in ChainStates, Alike(dh, ch, {"status"}),
           DOMAIN dh.status = DOMAIN ch.status
    PROVE  Known(dh, es \o <<Event("update_proposal_modules", None, None)>>, h, k, r, x, w, s)
  <1>1. PICK e : e = Event("update_proposal_modules", None, None)
    OBVIOUS
  <1>2. e \in Events /\ e.type = "update_proposal_modules" /\ e.of = None /\ e.about = None
    <2>1. "update_proposal_modules" \in Types
      BY DEF Contracts, Types
    <2> QED
      BY <1>1, <2>1, EventIs
  <1>3. PICK new : new = <<e>>
    OBVIOUS
  <1>4. new \in Seq(Events) /\ Len(new) = 1 /\ new[1] = e
    BY <1>2, <1>3
  <1>5. \A i \in Nat : \A t, c : To(new, i, t, c) <=> i = 0 /\ t = "update_proposal_modules" /\ c = None
    BY <1>2, <1>3, ToOne
  <1>6. ChainOK(ch) /\ h \in Nat
    BY DEF Known
  <1>9. ChainOK(dh)
    BY <1>6 DEF ChainOK, Alike
  <1>10. Grows(ch, dh, new, h)
    <2>1. Made(ch, dh, new) /\ CoreTold(ch, dh, new) /\ ProposalsTold(ch, dh, new)
          /\ BallotsTold(ch, dh, new, h) /\ ApprovalsTold(ch, dh, new, h)
      BY <1>5
         DEF Alike, Made, ToInstantiate, CoreTold, ToSetVoting, ToCreate, ProposalsTold,
             ToConclude, BallotsTold, ApprovalsTold
    <2>2. ModulesTold(ch, dh, new)
      BY <1>5 DEF ModulesTold, ToRefresh, ToSetPolicy, Alike
    <2> QED
      BY <2>1, <2>2 DEF Grows
  <1>11. Told(new, dh)
    <2>1. EventTold(new, 1, dh)
      BY <1>2, <1>4 DEF EventTold, Alike
    <2>2. \A j \in 1..Len(new) : j = 1
      BY <1>4
    <2> QED
      BY <2>1, <2>2 DEF Told
  <1>12. Emits(ch, dh, es, new, h)
    <2>1. \A j \in 1..Len(new) : j = 1
      BY <1>4
    <2>2. \A j \in 1..Len(new) : new[j].type # "create_dao"
      BY <1>2, <1>4, <2>1
    <2> QED
      BY <1>4, <1>9, <1>10, <1>11, <2>2 DEF Emits
  <1> QED
    BY <1>1, <1>3, <1>12, Emitting

\* A module that anyone may propose in.
LEMMA EmitModule ==
    ASSUME NEW ch, NEW es, NEW h, NEW k, NEW r, NEW x, NEW w, NEW s, Known(ch, es, h, k, r, x, w, s),
           ch.voting # None, NEW m \in Modules, m \notin ch.contracts,
           NEW dh \in ChainStates, Alike(dh, ch, {"status", "policy", "contracts"}),
           dh.status = With(ch.status, m, "enabled"), dh.policy = With(ch.policy, m, Anyone),
           dh.contracts = ch.contracts \cup {m}
    PROVE  Known(dh, es \o <<Event("instantiate", m, None)>>, h, k, r, x, w, s)
  <1>1. PICK e : e = Event("instantiate", m, None)
    OBVIOUS
  <1>2. e \in Events /\ e.type = "instantiate" /\ e.of = m /\ e.about = None
    <2>1. m \in Contracts /\ "instantiate" \in Types
      BY DEF Contracts, Types
    <2> QED
      BY <1>1, <2>1, EventIs
  <1>3. PICK new : new = <<e>>
    OBVIOUS
  <1>4. new \in Seq(Events) /\ Len(new) = 1 /\ new[1] = e
    BY <1>2, <1>3
  <1>5. \A i \in Nat : \A t, c : To(new, i, t, c) <=> i = 0 /\ t = "instantiate" /\ c = m
    BY <1>2, <1>3, ToOne
  <1>6. ChainOK(ch) /\ h \in Nat
    BY DEF Known
  <1>7. /\ DOMAIN dh.status = DOMAIN ch.status \cup {m} /\ DOMAIN dh.policy = DOMAIN ch.policy \cup {m}
        /\ dh.policy[m] = Anyone
        /\ \A n \in DOMAIN ch.status : n # m => dh.status[n] = ch.status[n]
        /\ \A n \in DOMAIN ch.policy : n # m => dh.policy[n] = ch.policy[n]
    BY DEF With
  <1>8. DOMAIN ch.policy = ch.contracts \cap Modules /\ DOMAIN ch.status = ch.contracts \cap Modules
    BY <1>6 DEF ChainOK
  <1>9. ChainOK(dh)
    <2>1. IsFiniteSet(dh.contracts)
      BY <1>6, FS_AddElement DEF ChainOK
    <2>2. \A n \in DOMAIN dh.policy : dh.policy[n] \in dh.contracts \cup {Anyone}
      BY <1>6, <1>7, <1>8 DEF ChainOK
    <2> QED
      BY <1>6, <1>7, <1>8, <2>1, <2>2 DEF ChainOK, Alike
  <1>10. Grows(ch, dh, new, h)
    <2>1. Made(ch, dh, new) /\ CoreTold(ch, dh, new) /\ ProposalsTold(ch, dh, new)
          /\ BallotsTold(ch, dh, new, h) /\ ApprovalsTold(ch, dh, new, h)
      BY <1>5
         DEF Alike, Made, ToInstantiate, CoreTold, ToSetVoting, ToCreate, ProposalsTold,
             ToConclude, BallotsTold, ApprovalsTold
    <2>2. ModulesTold(ch, dh, new)
      BY <1>5, <1>7, <1>8 DEF ModulesTold, ToRefresh, ToSetPolicy, Alike
    <2> QED
      BY <2>1, <2>2 DEF Grows
  <1>11. Told(new, dh)
    <2>1. EventTold(new, 1, dh)
      BY <1>2, <1>4, <1>7 DEF EventTold, InstantiateTold
    <2>2. \A j \in 1..Len(new) : j = 1
      BY <1>4
    <2> QED
      BY <2>1, <2>2 DEF Told
  <1>12. Emits(ch, dh, es, new, h)
    <2>1. \A j \in 1..Len(new) : j = 1
      BY <1>4
    <2>2. \A j \in 1..Len(new) : new[j].type # "create_dao"
      BY <1>2, <1>4, <2>1
    <2> QED
      BY <1>4, <1>9, <1>10, <1>11, <2>2 DEF Emits
  <1> QED
    BY <1>1, <1>3, <1>12, Emitting

\* The policy lets anyone propose.
LEMMA EmitAnyone ==
    ASSUME NEW ch, NEW es, NEW h, NEW k, NEW r, NEW x, NEW w, NEW s, Known(ch, es, h, k, r, x, w, s),
           NEW m \in DOMAIN ch.policy, NEW dh \in ChainStates, Alike(dh, ch, {"policy"}),
           dh.policy = [ch.policy EXCEPT ![m] = Anyone]
    PROVE  Known(dh, es \o <<Event("update_policy", m, None)>>, h, k, r, x, w, s)
  <1>1. PICK e : e = Event("update_policy", m, None)
    OBVIOUS
  <1>2. e \in Events /\ e.type = "update_policy" /\ e.of = m /\ e.about = None
    <2>1. m \in Contracts /\ "update_policy" \in Types
      BY DEF Known, ChainOK, Contracts, Types
    <2> QED
      BY <1>1, <2>1, EventIs
  <1>3. PICK new : new = <<e>>
    OBVIOUS
  <1>4. new \in Seq(Events) /\ Len(new) = 1 /\ new[1] = e
    BY <1>2, <1>3
  <1>5. \A i \in Nat : \A t, c : To(new, i, t, c) <=> i = 0 /\ t = "update_policy" /\ c = m
    BY <1>2, <1>3, ToOne
  <1>6. ChainOK(ch) /\ h \in Nat
    BY DEF Known
  <1>7. /\ DOMAIN dh.policy = DOMAIN ch.policy /\ dh.policy[m] = Anyone
        /\ \A n \in DOMAIN ch.policy : n # m => dh.policy[n] = ch.policy[n]
    OBVIOUS
  <1>9. ChainOK(dh)
    <2>1. \A n \in DOMAIN dh.policy : dh.policy[n] \in dh.contracts \cup {Anyone}
      BY <1>6, <1>7 DEF ChainOK, Alike
    <2> QED
      BY <1>6, <1>7, <2>1 DEF ChainOK, Alike
  <1>10. Grows(ch, dh, new, h)
    <2>1. Made(ch, dh, new) /\ CoreTold(ch, dh, new) /\ ProposalsTold(ch, dh, new)
          /\ BallotsTold(ch, dh, new, h) /\ ApprovalsTold(ch, dh, new, h)
      BY <1>5
         DEF Alike, Made, ToInstantiate, CoreTold, ToSetVoting, ToCreate, ProposalsTold,
             ToConclude, BallotsTold, ApprovalsTold
    <2>2. ModulesTold(ch, dh, new)
      BY <1>5, <1>7 DEF ModulesTold, ToRefresh, ToSetPolicy, Alike
    <2> QED
      BY <2>1, <2>2 DEF Grows
  <1>11. Told(new, dh)
    <2>1. EventTold(new, 1, dh)
      BY <1>2, <1>4, <1>5, <1>7 DEF EventTold, PolicyTold, ToInstantiate
    <2>2. \A j \in 1..Len(new) : j = 1
      BY <1>4
    <2> QED
      BY <2>1, <2>2 DEF Told
  <1>12. Emits(ch, dh, es, new, h)
    <2>1. \A j \in 1..Len(new) : j = 1
      BY <1>4
    <2>2. \A j \in 1..Len(new) : new[j].type # "create_dao"
      BY <1>2, <1>4, <2>1
    <2> QED
      BY <1>4, <1>9, <1>10, <1>11, <2>2 DEF Emits
  <1> QED
    BY <1>1, <1>3, <1>12, Emitting

\* A proposal.
LEMMA EmitPropose ==
    ASSUME NEW ch, NEW es, NEW h, NEW k, NEW r, NEW x, NEW w, NEW s, Known(ch, es, h, k, r, x, w, s),
           NEW m \in DOMAIN ch.policy, m \notin DOMAIN ch.proposals,
           NEW dh \in ChainStates, Alike(dh, ch, {"proposals"}),
           dh.proposals = With(ch.proposals, m, "open")
    PROVE  Known(dh, es \o <<Event("propose", m, None)>>, h, k, r, x, w, s)
  <1>1. PICK e : e = Event("propose", m, None)
    OBVIOUS
  <1>2. e \in Events /\ e.type = "propose" /\ e.of = m /\ e.about = None
    <2>1. m \in Contracts /\ "propose" \in Types
      BY DEF Known, ChainOK, Contracts, Types
    <2> QED
      BY <1>1, <2>1, EventIs
  <1>3. PICK new : new = <<e>>
    OBVIOUS
  <1>4. new \in Seq(Events) /\ Len(new) = 1 /\ new[1] = e
    BY <1>2, <1>3
  <1>5. \A i \in Nat : \A t, c : To(new, i, t, c) <=> i = 0 /\ t = "propose" /\ c = m
    BY <1>2, <1>3, ToOne
  <1>6. ChainOK(ch) /\ h \in Nat
    BY DEF Known
  <1>7. /\ DOMAIN dh.proposals = DOMAIN ch.proposals \cup {m}
        /\ \A n \in DOMAIN ch.proposals : n # m => dh.proposals[n] = ch.proposals[n]
    BY DEF With
  <1>9. ChainOK(dh)
    BY <1>6, <1>7 DEF ChainOK, Alike
  <1>10. Grows(ch, dh, new, h)
    <2>1. Made(ch, dh, new) /\ CoreTold(ch, dh, new) /\ ModulesTold(ch, dh, new)
          /\ BallotsTold(ch, dh, new, h) /\ ApprovalsTold(ch, dh, new, h)
      BY <1>5
         DEF Alike, Made, ToInstantiate, CoreTold, ToSetVoting, ToCreate, ModulesTold,
             ToRefresh, ToSetPolicy, BallotsTold, ApprovalsTold
    <2>2. ProposalsTold(ch, dh, new)
      BY <1>5, <1>7 DEF ProposalsTold, ToConclude, Alike
    <2> QED
      BY <2>1, <2>2 DEF Grows
  <1>11. Told(new, dh)
    <2>1. EventTold(new, 1, dh)
      BY <1>2, <1>4, <1>5, <1>7 DEF EventTold, ProposeTold, ToInstantiate
    <2>2. \A j \in 1..Len(new) : j = 1
      BY <1>4
    <2> QED
      BY <2>1, <2>2 DEF Told
  <1>12. Emits(ch, dh, es, new, h)
    <2>1. \A j \in 1..Len(new) : j = 1
      BY <1>4
    <2>2. \A j \in 1..Len(new) : new[j].type # "create_dao"
      BY <1>2, <1>4, <2>1
    <2> QED
      BY <1>4, <1>9, <1>10, <1>11, <2>2 DEF Emits
  <1> QED
    BY <1>1, <1>3, <1>12, Emitting

\* A vote.
LEMMA EmitVote ==
    ASSUME NEW ch, NEW es, NEW h, NEW k, NEW r, NEW x, NEW w, NEW s, Known(ch, es, h, k, r, x, w, s),
           NEW m \in DOMAIN ch.proposals, NEW voter \in Voters, NEW v, v.height = h,
           NEW p, NEW dh \in ChainStates, Alike(dh, ch, {"proposals", "ballots"}),
           dh.ballots = With(ch.ballots, <<m, voter>>, v), dh.proposals = [ch.proposals EXCEPT ![m] = p]
    PROVE  Known(dh, es \o <<Event("vote", m, voter)>>, h, k, r, x, w, s)
  <1>1. PICK e : e = Event("vote", m, voter)
    OBVIOUS
  <1>2. e \in Events /\ e.type = "vote" /\ e.of = m /\ e.about = voter
    <2>1. m \in Contracts /\ "vote" \in Types
      BY DEF Known, ChainOK, ChainStates, Contracts, Types
    <2> QED
      BY <1>1, <2>1, EventIs
  <1>3. PICK new : new = <<e>>
    OBVIOUS
  <1>4. new \in Seq(Events) /\ Len(new) = 1 /\ new[1] = e
    BY <1>2, <1>3
  <1>5. \A i \in Nat : \A t, c : To(new, i, t, c) <=> i = 0 /\ t = "vote" /\ c = m
    BY <1>2, <1>3, ToOne
  <1>6. ChainOK(ch) /\ h \in Nat
    BY DEF Known
  <1>7. /\ DOMAIN dh.proposals = DOMAIN ch.proposals
        /\ \A n \in DOMAIN ch.proposals : n # m => dh.proposals[n] = ch.proposals[n]
    OBVIOUS
  <1>8. /\ DOMAIN dh.ballots = DOMAIN ch.ballots \cup {<<m, voter>>} /\ dh.ballots[<<m, voter>>] = v
        /\ \A b \in DOMAIN ch.ballots : b # <<m, voter>> => dh.ballots[b] = ch.ballots[b]
    BY DEF With
  <1>9. ChainOK(dh)
    <2>1. \A b \in DOMAIN dh.ballots : b[1] \in DOMAIN dh.proposals
      BY <1>6, <1>7, <1>8 DEF ChainOK
    <2> QED
      BY <1>6, <1>7, <2>1 DEF ChainOK, Alike
  <1>10. Grows(ch, dh, new, h)
    <2>1. Made(ch, dh, new) /\ CoreTold(ch, dh, new) /\ ModulesTold(ch, dh, new)
          /\ ApprovalsTold(ch, dh, new, h)
      BY <1>5
         DEF Alike, Made, ToInstantiate, CoreTold, ToSetVoting, ToCreate, ModulesTold,
             ToRefresh, ToSetPolicy, ApprovalsTold
    <2>2. ProposalsTold(ch, dh, new)
      BY <1>5, <1>7 DEF ProposalsTold, ToConclude, Alike
    <2>3. BallotsTold(ch, dh, new, h)
      <3>1. ToVote(new, 0, <<m, voter>>)
        <4>1. 1 \in 1..Len(new) /\ 1 > 0
          BY <1>4
        <4> QED
          BY <1>2, <1>4, <4>1 DEF ToVote
      <3> QED
        BY <1>8, <3>1 DEF BallotsTold
    <2> QED
      BY <2>1, <2>2, <2>3 DEF Grows
  <1>11. Told(new, dh)
    <2>1. EventTold(new, 1, dh)
      <3>1. <<e.of, e.about>> = <<m, voter>>
        BY <1>2
      <3> QED
        BY <1>2, <1>4, <1>5, <1>8, <3>1 DEF EventTold, VoteTold
    <2>2. \A j \in 1..Len(new) : j = 1
      BY <1>4
    <2> QED
      BY <2>1, <2>2 DEF Told
  <1>12. Emits(ch, dh, es, new, h)
    <2>1. \A j \in 1..Len(new) : j = 1
      BY <1>4
    <2>2. \A j \in 1..Len(new) : new[j].type # "create_dao"
      BY <1>2, <1>4, <2>1
    <2> QED
      BY <1>4, <1>9, <1>10, <1>11, <2>2 DEF Emits
  <1> QED
    BY <1>1, <1>3, <1>12, Emitting

\* A proposal is executed or closed.
LEMMA EmitConclude ==
    ASSUME NEW ch, NEW es, NEW h, NEW k, NEW r, NEW x, NEW w, NEW s, Known(ch, es, h, k, r, x, w, s),
           NEW m \in DOMAIN ch.proposals, NEW p, NEW dh \in ChainStates, Alike(dh, ch, {"proposals"}),
           dh.proposals = [ch.proposals EXCEPT ![m] = p]
    PROVE  Known(dh, es \o <<Event("conclude", m, None)>>, h, k, r, x, w, s)
  <1>1. PICK e : e = Event("conclude", m, None)
    OBVIOUS
  <1>2. e \in Events /\ e.type = "conclude" /\ e.of = m /\ e.about = None
    <2>1. m \in Contracts /\ "conclude" \in Types
      BY DEF Known, ChainOK, ChainStates, Contracts, Types
    <2> QED
      BY <1>1, <2>1, EventIs
  <1>3. PICK new : new = <<e>>
    OBVIOUS
  <1>4. new \in Seq(Events) /\ Len(new) = 1 /\ new[1] = e
    BY <1>2, <1>3
  <1>5. \A i \in Nat : \A t, c : To(new, i, t, c) <=> i = 0 /\ t = "conclude" /\ c = m
    BY <1>2, <1>3, ToOne
  <1>6. ChainOK(ch) /\ h \in Nat
    BY DEF Known
  <1>7. /\ DOMAIN dh.proposals = DOMAIN ch.proposals
        /\ \A n \in DOMAIN ch.proposals : n # m => dh.proposals[n] = ch.proposals[n]
    OBVIOUS
  <1>9. ChainOK(dh)
    BY <1>6, <1>7 DEF ChainOK, Alike
  <1>10. Grows(ch, dh, new, h)
    <2>1. Made(ch, dh, new) /\ CoreTold(ch, dh, new) /\ ModulesTold(ch, dh, new)
          /\ BallotsTold(ch, dh, new, h) /\ ApprovalsTold(ch, dh, new, h)
      BY <1>5
         DEF Alike, Made, ToInstantiate, CoreTold, ToSetVoting, ToCreate, ModulesTold,
             ToRefresh, ToSetPolicy, BallotsTold, ApprovalsTold
    <2>2. ProposalsTold(ch, dh, new)
      BY <1>5, <1>7 DEF ProposalsTold, ToConclude, Alike
    <2> QED
      BY <2>1, <2>2 DEF Grows
  <1>11. Told(new, dh)
    <2>1. EventTold(new, 1, dh)
      BY <1>2, <1>4, <1>7 DEF EventTold
    <2>2. \A j \in 1..Len(new) : j = 1
      BY <1>4
    <2> QED
      BY <2>1, <2>2 DEF Told
  <1>12. Emits(ch, dh, es, new, h)
    <2>1. \A j \in 1..Len(new) : j = 1
      BY <1>4
    <2>2. \A j \in 1..Len(new) : new[j].type # "create_dao"
      BY <1>2, <1>4, <2>1
    <2> QED
      BY <1>4, <1>9, <1>10, <1>11, <2>2 DEF Emits
  <1> QED
    BY <1>1, <1>3, <1>12, Emitting

\* A proposal awaits approval.
LEMMA EmitSubmit ==
    ASSUME NEW ch, NEW es, NEW h, NEW k, NEW r, NEW x, NEW w, NEW s, Known(ch, es, h, k, r, x, w, s),
           NEW q \in PreProposes \cap ch.contracts, q \notin DOMAIN ch.approvals,
           NEW a, a.state = "pending", a.height = h,
           NEW dh \in ChainStates, Alike(dh, ch, {"approvals"}), dh.approvals = With(ch.approvals, q, a)
    PROVE  Known(dh, es \o <<Event("submit", q, None)>>, h, k, r, x, w, s)
  <1>1. PICK e : e = Event("submit", q, None)
    OBVIOUS
  <1>2. e \in Events /\ e.type = "submit" /\ e.of = q /\ e.about = None
    <2>1. q \in Contracts /\ "submit" \in Types
      BY DEF Contracts, Types
    <2> QED
      BY <1>1, <2>1, EventIs
  <1>3. PICK new : new = <<e>>
    OBVIOUS
  <1>4. new \in Seq(Events) /\ Len(new) = 1 /\ new[1] = e
    BY <1>2, <1>3
  <1>5. \A i \in Nat : \A t, c : To(new, i, t, c) <=> i = 0 /\ t = "submit" /\ c = q
    BY <1>2, <1>3, ToOne
  <1>6. ChainOK(ch) /\ h \in Nat
    BY DEF Known
  <1>7. /\ DOMAIN dh.approvals = DOMAIN ch.approvals \cup {q} /\ dh.approvals[q] = a
        /\ \A n \in DOMAIN ch.approvals : n # q => dh.approvals[n] = ch.approvals[n]
    BY DEF With
  <1>9. ChainOK(dh)
    BY <1>6, <1>7 DEF ChainOK, Alike
  <1>10. Grows(ch, dh, new, h)
    <2>1. Made(ch, dh, new) /\ CoreTold(ch, dh, new) /\ ModulesTold(ch, dh, new)
          /\ ProposalsTold(ch, dh, new) /\ BallotsTold(ch, dh, new, h)
      BY <1>5
         DEF Alike, Made, ToInstantiate, CoreTold, ToSetVoting, ToCreate, ModulesTold,
             ToRefresh, ToSetPolicy, ProposalsTold, ToConclude, BallotsTold
    <2>2. ApprovalsTold(ch, dh, new, h)
      BY <1>5, <1>7 DEF ApprovalsTold, Alike
    <2> QED
      BY <2>1, <2>2 DEF Grows
  <1>11. Told(new, dh)
    <2>1. EventTold(new, 1, dh)
      BY <1>2, <1>4, <1>5, <1>7 DEF EventTold, SubmitTold, ToInstantiate
    <2>2. \A j \in 1..Len(new) : j = 1
      BY <1>4
    <2> QED
      BY <2>1, <2>2 DEF Told
  <1>12. Emits(ch, dh, es, new, h)
    <2>1. \A j \in 1..Len(new) : j = 1
      BY <1>4
    <2>2. \A j \in 1..Len(new) : new[j].type # "create_dao"
      BY <1>2, <1>4, <2>1
    <2> QED
      BY <1>4, <1>9, <1>10, <1>11, <2>2 DEF Emits
  <1> QED
    BY <1>1, <1>3, <1>12, Emitting

\* It is approved or rejected.
LEMMA EmitResolve ==
    ASSUME NEW ch, NEW es, NEW h, NEW k, NEW r, NEW x, NEW w, NEW s, Known(ch, es, h, k, r, x, w, s),
           NEW q \in DOMAIN ch.approvals, ch.approvals[q].state = "pending",
           NEW outcome \in {"approved", "rejected"},
           NEW dh \in ChainStates, Alike(dh, ch, {"approvals"}),
           dh.approvals = [ch.approvals EXCEPT ![q].state = outcome]
    PROVE  Known(dh, es \o <<Event("resolve", q, outcome)>>, h, k, r, x, w, s)
  <1>1. PICK e : e = Event("resolve", q, outcome)
    OBVIOUS
  <1>2. e \in Events /\ e.type = "resolve" /\ e.of = q /\ e.about = outcome
    <2>1. q \in Contracts /\ "resolve" \in Types
      BY DEF Known, ChainOK, ChainStates, Contracts, Types
    <2> QED
      BY <1>1, <2>1, EventIs
  <1>3. PICK new : new = <<e>>
    OBVIOUS
  <1>4. new \in Seq(Events) /\ Len(new) = 1 /\ new[1] = e
    BY <1>2, <1>3
  <1>5. \A i \in Nat : \A t, c : To(new, i, t, c) <=> i = 0 /\ t = "resolve" /\ c = q
    BY <1>2, <1>3, ToOne
  <1>6. ChainOK(ch) /\ h \in Nat
    BY DEF Known
  <1>7. /\ DOMAIN dh.approvals = DOMAIN ch.approvals
        /\ dh.approvals[q].state = outcome /\ dh.approvals[q].height = ch.approvals[q].height
        /\ \A n \in DOMAIN ch.approvals : n # q => dh.approvals[n] = ch.approvals[n]
    <2>0. PICK S : S = [state : {"pending", "approved", "rejected"}, height : Nat]
      OBVIOUS
    <2>1. PICK f, a : f = ch.approvals /\ a = f[q]
      OBVIOUS
    <2>2. f \in Maps(PreProposes, S) /\ q \in DOMAIN f
      BY <1>6, <2>0, <2>1 DEF ChainOK, ChainStates
    <2>3. f = [n \in DOMAIN f |-> f[n]] /\ \A n \in DOMAIN f : f[n] \in S
      BY <2>2, MapFacts
    <2>7. a \in S
      BY <2>1, <2>2, <2>3
    <2>4. dh.approvals = [f EXCEPT ![q] = [a EXCEPT !.state = outcome]]
      BY <2>1
    <2>5. PICK z : z = [a EXCEPT !.state = outcome]
      OBVIOUS
    <2>6. z.state = outcome /\ z.height = a.height
      BY <2>0, <2>5, <2>7
    <2> QED
      BY <2>1, <2>3, <2>4, <2>5, <2>6
  <1>9. ChainOK(dh)
    BY <1>6, <1>7 DEF ChainOK, Alike
  <1>10. Grows(ch, dh, new, h)
    <2>1. Made(ch, dh, new) /\ CoreTold(ch, dh, new) /\ ModulesTold(ch, dh, new)
          /\ ProposalsTold(ch, dh, new) /\ BallotsTold(ch, dh, new, h)
      BY <1>5
         DEF Alike, Made, ToInstantiate, CoreTold, ToSetVoting, ToCreate, ModulesTold,
             ToRefresh, ToSetPolicy, ProposalsTold, ToConclude, BallotsTold
    <2>2. ApprovalsTold(ch, dh, new, h)
      BY <1>5, <1>7 DEF ApprovalsTold, Alike
    <2> QED
      BY <2>1, <2>2 DEF Grows
  <1>11. Told(new, dh)
    <2>1. EventTold(new, 1, dh)
      BY <1>2, <1>4, <1>5, <1>7 DEF EventTold, ResolveTold
    <2>2. \A j \in 1..Len(new) : j = 1
      BY <1>4
    <2> QED
      BY <2>1, <2>2 DEF Told
  <1>12. Emits(ch, dh, es, new, h)
    <2>1. \A j \in 1..Len(new) : j = 1
      BY <1>4
    <2>2. \A j \in 1..Len(new) : new[j].type # "create_dao"
      BY <1>2, <1>4, <2>1
    <2> QED
      BY <1>4, <1>9, <1>10, <1>11, <2>2 DEF Emits
  <1> QED
    BY <1>1, <1>3, <1>12, Emitting

\* Other sub-DAOs.
LEMMA EmitSubDaos ==
    ASSUME NEW ch, NEW es, NEW h, NEW k, NEW r, NEW x, NEW w, NEW s, Known(ch, es, h, k, r, x, w, s),
           ch.voting # None, NEW dh \in ChainStates, Alike(dh, ch, {"subs"})
    PROVE  Known(dh, es \o <<Event("update_sub_daos", None, None)>>, h, k, r, x, w, s)
  <1>1. PICK e : e = Event("update_sub_daos", None, None)
    OBVIOUS
  <1>2. e \in Events /\ e.type = "update_sub_daos" /\ e.of = None /\ e.about = None
    <2>1. "update_sub_daos" \in Types
      BY DEF Contracts, Types
    <2> QED
      BY <1>1, <2>1, EventIs
  <1>3. PICK new : new = <<e>>
    OBVIOUS
  <1>4. new \in Seq(Events) /\ Len(new) = 1 /\ new[1] = e
    BY <1>2, <1>3
  <1>5. \A i \in Nat : \A t, c : To(new, i, t, c) <=> i = 0 /\ t = "update_sub_daos" /\ c = None
    BY <1>2, <1>3, ToOne
  <1>6. ChainOK(ch) /\ h \in Nat
    BY DEF Known
  <1>9. ChainOK(dh)
    BY <1>6 DEF ChainOK, Alike
  <1>10. Grows(ch, dh, new, h)
    <2>1. Made(ch, dh, new) /\ ModulesTold(ch, dh, new) /\ ProposalsTold(ch, dh, new)
          /\ BallotsTold(ch, dh, new, h) /\ ApprovalsTold(ch, dh, new, h)
      BY <1>5
         DEF Alike, Made, ToInstantiate, ModulesTold, ToRefresh, ToSetPolicy,
             ProposalsTold, ToConclude, BallotsTold, ApprovalsTold
    <2>2. CoreTold(ch, dh, new)
      BY <1>5 DEF CoreTold, ToSetVoting, ToCreate, Alike
    <2> QED
      BY <2>1, <2>2 DEF Grows
  <1>11. Told(new, dh)
    <2>1. EventTold(new, 1, dh)
      BY <1>2, <1>4 DEF EventTold, Alike
    <2>2. \A j \in 1..Len(new) : j = 1
      BY <1>4
    <2> QED
      BY <2>1, <2>2 DEF Told
  <1>12. Emits(ch, dh, es, new, h)
    <2>1. \A j \in 1..Len(new) : j = 1
      BY <1>4
    <2>2. \A j \in 1..Len(new) : new[j].type # "create_dao"
      BY <1>2, <1>4, <2>1
    <2> QED
      BY <1>4, <1>9, <1>10, <1>11, <2>2 DEF Emits
  <1> QED
    BY <1>1, <1>3, <1>12, Emitting

\* A pre-propose module that comes with the policy.
LEMMA EmitPolicy ==
    ASSUME NEW ch, NEW es, NEW h, NEW k, NEW r, NEW x, NEW w, NEW s, Known(ch, es, h, k, r, x, w, s),
           NEW m \in DOMAIN ch.policy, NEW q \in PreProposes, q \notin ch.contracts,
           NEW dh \in ChainStates, Alike(dh, ch, {"policy", "contracts"}),
           dh.policy = [ch.policy EXCEPT ![m] = q], dh.contracts = ch.contracts \cup {q}
    PROVE  Known(dh, es \o <<Event("instantiate", q, m), Event("update_pre_propose_module", m, q)>>,
                 h, k, r, x, w, s)
  <1>1. PICK e, f : e = Event("instantiate", q, m) /\ f = Event("update_pre_propose_module", m, q)
    OBVIOUS
  <1>2. /\ e \in Events /\ e.type = "instantiate" /\ e.of = q
        /\ f \in Events /\ f.type = "update_pre_propose_module" /\ f.of = m /\ f.about = q
    <2>1. q \in Contracts /\ m \in Contracts
          /\ {"instantiate", "update_pre_propose_module"} \subseteq Types
      BY DEF Known, ChainOK, Contracts, Types
    <2> QED
      BY <1>1, <2>1, EventIs
  <1>3. PICK new : new = <<e, f>>
    OBVIOUS
  <1>4. new \in Seq(Events) /\ Len(new) = 2 /\ new[1] = e /\ new[2] = f
    BY <1>2, <1>3
  <1>5. \A i \in Nat : \A t, c : To(new, i, t, c) <=>
            \/ i = 0 /\ t = "instantiate" /\ c = q
            \/ i < 2 /\ t = "update_pre_propose_module" /\ c = m
    BY <1>2, <1>3, ToTwo
  <1>6. ChainOK(ch)
    BY DEF Known
  <1>7. /\ DOMAIN dh.policy = DOMAIN ch.policy /\ dh.policy[m] = q
        /\ \A n \in DOMAIN ch.policy : n # m => dh.policy[n] = ch.policy[n]
    OBVIOUS
  <1>8. q \notin Modules /\ dh.contracts \cap Modules = ch.contracts \cap Modules
    BY Kinds
  <1>9. ChainOK(dh)
    <2>1. IsFiniteSet(dh.contracts)
      BY <1>6, FS_AddElement DEF ChainOK
    <2>2. \A n \in DOMAIN dh.policy : dh.policy[n] \in dh.contracts \cup {Anyone}
      BY <1>6, <1>7 DEF ChainOK
    <2>3. ch.voting # None
      BY <1>6 DEF ChainOK
    <2> QED
      BY <1>6, <1>7, <1>8, <2>1, <2>2, <2>3 DEF ChainOK, Alike
  <1>10. Grows(ch, dh, new, h)
    <2>1. Made(ch, dh, new)
      BY <1>5 DEF Made, ToInstantiate
    <2>2. ModulesTold(ch, dh, new)
      BY <1>5, <1>7 DEF ModulesTold, ToSetPolicy, Alike
    <2>3. CoreTold(ch, dh, new) /\ ProposalsTold(ch, dh, new) /\ BallotsTold(ch, dh, new, h)
          /\ ApprovalsTold(ch, dh, new, h)
      BY <1>5 DEF CoreTold, ProposalsTold, BallotsTold, ApprovalsTold, Alike
    <2> QED
      BY <2>1, <2>2, <2>3 DEF Grows
  <1>11. Told(new, dh)
    <2>1. EventTold(new, 1, dh)
      BY <1>2, <1>4, <1>8 DEF EventTold, InstantiateTold
    <2>2. EventTold(new, 2, dh)
      BY <1>2, <1>4, <1>5, <1>7 DEF EventTold, PreProposeTold, ToInstantiate
    <2>3. \A j \in 1..Len(new) : j = 1 \/ j = 2
      BY <1>4
    <2> QED
      BY <2>1, <2>2, <2>3 DEF Told
  <1>12. Emits(ch, dh, es, new, h)
    <2>1. \A j \in 1..Len(new) : j = 1 \/ j = 2
      BY <1>4
    <2>2. \A j \in 1..Len(new) : new[j].type # "create_dao"
      BY <1>2, <1>4, <2>1
    <2> QED
      BY <1>4, <1>9, <1>10, <1>11, <2>2 DEF Emits
  <1> QED
    BY <1>1, <1>3, <1>12, Emitting

\* A migration emits nothing.
LEMMA EmitNothing ==
    ASSUME NEW ch, NEW es, NEW h, NEW k, NEW r, NEW x, NEW w, NEW s, Known(ch, es, h, k, r, x, w, s),
           NEW dh \in ChainStates, Alike(dh, ch, {"bricked"}), dh.bricked \subseteq ch.contracts
    PROVE  Known(dh, es \o << >>, h, k, r, x, w, s)
  <1>1. PICK new : new = << >>
    OBVIOUS
  <1>2. new \in Seq(Events) /\ Len(new) = 0
    BY <1>1
  <1>3. \A i, t, c : ~ To(new, i, t, c)
    BY <1>2 DEF To
  <1>4. ChainOK(ch) /\ ChainOK(dh)
    BY DEF Known, ChainOK, Alike
  <1>5. Grows(ch, dh, new, h)
    BY <1>3 DEF Grows, Made, CoreTold, ModulesTold, ProposalsTold, BallotsTold, ApprovalsTold,
                Alike, ToInstantiate
  <1>6. Told(new, dh) /\ \A j \in 1..Len(new) : new[j].type # "create_dao"
    BY <1>2 DEF Told
  <1>7. Emits(ch, dh, es, new, h)
    BY <1>2, <1>4, <1>5, <1>6 DEF Emits
  <1> QED
    BY <1>1, <1>7, Emitting

\* Who may propose, at last.
LEMMA EmitNewPolicy ==
    ASSUME NEW ch, NEW es, NEW h, NEW k, NEW r, NEW x, NEW w, NEW s, Known(ch, es, h, k, r, x, w, s),
           NEW m \in DOMAIN ch.policy, ch.policy[m] = Anyone,
           NEW q \in PreProposes \cup {Anyone}, q \notin ch.contracts,
           NEW dh \in ChainStates, Alike(dh, ch, {"policy", "contracts"}),
           dh.policy = [ch.policy EXCEPT ![m] = q], dh.contracts = (ch.contracts \cup {q}) \ {Anyone}
    PROVE  Known(dh, es \o NewPolicy(m, q), h, k, r, x, w, s)
  <1>1. ChainOK(ch) /\ ch.policy \in Maps(Modules, PreProposes \cup {Anyone})
        /\ ch.contracts \subseteq Contracts
    BY DEF Known, ChainOK, ChainStates
  <1>2. Anyone \notin ch.contracts /\ Anyone \notin PreProposes
    BY <1>1, Kinds DEF Contracts
  <1>3. CASE q = Anyone
    <2>1. dh.policy = ch.policy
      BY <1>1, <1>3, MapFacts
    <2>2. dh.contracts = ch.contracts
      BY <1>2, <1>3
    <2>3. Alike(dh, ch, {"bricked"}) /\ dh.bricked \subseteq ch.contracts
      BY <1>1, <2>1, <2>2 DEF Alike, ChainOK
    <2>4. Known(dh, es \o << >>, h, k, r, x, w, s)
      BY <2>3, EmitNothing
    <2>5. NewPolicy(m, q) = << >>
      BY <1>3 DEF NewPolicy
    <2> QED
      BY <2>4, <2>5
  <1>4. CASE q # Anyone
    <2>1. q \in PreProposes /\ dh.contracts = ch.contracts \cup {q}
      BY <1>2, <1>4
    <2>2. NewPolicy(m, q) = <<Event("instantiate", q, m), Event("update_pre_propose_module", m, q)>>
      BY <1>4 DEF NewPolicy
    <2>3. Known(dh, es \o <<Event("instantiate", q, m), Event("update_pre_propose_module", m, q)>>,
                h, k, r, x, w, s)
      BY <2>1, EmitPolicy
    <2> QED
      BY <2>2, <2>3
  <1> QED
    BY <1>3, <1>4

\* A module with its policy.
LEMMA EmitNewModule ==
    ASSUME NEW ch, NEW es, NEW h, NEW k, NEW r, NEW x, NEW w, NEW s, Known(ch, es, h, k, r, x, w, s),
           ch.voting # None, NEW m \in Modules, m \notin ch.contracts,
           NEW q \in PreProposes \cup {Anyone}, q \notin ch.contracts,
           NEW dh \in ChainStates, Alike(dh, ch, {"status", "policy", "contracts"}),
           dh.status = With(ch.status, m, "enabled"), dh.policy = With(ch.policy, m, q),
           dh.contracts = (ch.contracts \cup {m, q}) \ {Anyone}
    PROVE  Known(dh, (es \o <<Event("instantiate", m, None)>>) \o NewPolicy(m, q), h, k, r, x, w, s)
  <1>1. PICK st, po, co : /\ st = With(ch.status, m, "enabled") /\ po = With(ch.policy, m, Anyone)
                          /\ co = ch.contracts \cup {m}
    OBVIOUS
  <1>2. /\ ch \in ChainStates /\ ch.contracts \subseteq Contracts /\ ch.status \in Maps(Modules, Statuses)
        /\ ch.policy \in Maps(Modules, PreProposes \cup {Anyone})
    BY DEF Known, ChainOK, ChainStates
  <1>3. "enabled" \in Statuses /\ m \in Contracts /\ Anyone \notin Contracts
    BY Kinds DEF Statuses, Contracts
  <1>4. st \in Maps(Modules, Statuses)
    BY <1>1, <1>2, <1>3, WithFacts
  <1>5. /\ po \in Maps(Modules, PreProposes \cup {Anyone})
        /\ DOMAIN po = DOMAIN ch.policy \cup {m} /\ po[m] = Anyone
        /\ \A n \in DOMAIN ch.policy : n # m => po[n] = ch.policy[n]
    <2>1. PICK T : T = PreProposes \cup {Anyone}
      OBVIOUS
    <2>2. Anyone \in T /\ ch.policy \in Maps(Modules, T)
      BY <1>2, <2>1
    <2>3. /\ po \in Maps(Modules, T) /\ DOMAIN po = DOMAIN ch.policy \cup {m} /\ po[m] = Anyone
          /\ \A n \in DOMAIN ch.policy : n # m => po[n] = ch.policy[n]
      <3>1. po = With(ch.policy, m, Anyone)
        BY <1>1
      <3>2. PICK f, a : f = ch.policy /\ a = Anyone
        OBVIOUS
      <3>3. f \in Maps(Modules, T) /\ a \in T /\ po = With(f, m, a)
        BY <2>2, <3>1, <3>2
      <3>4. /\ po \in Maps(Modules, T) /\ DOMAIN po = DOMAIN f \cup {m} /\ po[m] = a
            /\ \A n \in DOMAIN f : n # m => po[n] = f[n]
        BY <3>3, WithFacts
      <3> QED
        BY <3>2, <3>4
    <2> QED
      BY <2>1, <2>3
  <1>6. PICK ci : ci = [ch EXCEPT !.status = st, !.policy = po, !.contracts = co]
    OBVIOUS
  <1>7. /\ ci \in ChainStates /\ ci.status = st /\ ci.policy = po /\ ci.contracts = co
        /\ Alike(ci, ch, {"status", "policy", "contracts"})
    BY <1>1, <1>2, <1>3, <1>4, <1>5, <1>6 DEF ChainStates, Alike
  <1>8. Known(ci, es \o <<Event("instantiate", m, None)>>, h, k, r, x, w, s)
    BY <1>1, <1>7, EmitModule
  <1>9. Alike(dh, ci, {"policy", "contracts"})
    BY <1>1, <1>7 DEF Alike
  <1>10. dh.policy = [ci.policy EXCEPT ![m] = q]
    <2>1. po = [n \in DOMAIN po |-> po[n]]
      BY <1>5, MapFacts
    <2>2. dh.policy = [n \in DOMAIN ch.policy \cup {m} |-> IF n = m THEN q ELSE ch.policy[n]]
      BY DEF With
    <2>3. [po EXCEPT ![m] = q] = [n \in DOMAIN po |-> IF n = m THEN q ELSE po[n]]
      BY <2>1
    <2> QED
      BY <1>5, <1>7, <2>2, <2>3
  <1>11. dh.contracts = (ci.contracts \cup {q}) \ {Anyone}
    BY <1>1, <1>7
  <1>12. q \notin ci.contracts /\ m \in DOMAIN ci.policy /\ ci.policy[m] = Anyone
    BY <1>1, <1>5, <1>7, Kinds DEF Contracts
  <1> QED
    BY <1>8, <1>9, <1>10, <1>11, <1>12, EmitNewPolicy

\* Events one after the other.
LEMMA Joined ==
    ASSUME NEW es \in Seq(Events), NEW a \in Seq(Events), NEW b \in Seq(Events)
    PROVE  (es \o a) \o b = es \o (a \o b)
  OBVIOUS

\* Sequences of the same elements.
LEMMA SameSeq ==
    ASSUME NEW s \in Seq(Events), NEW t \in Seq(Events), Len(s) = Len(t),
           \A j \in 1..Len(s) : s[j] = t[j]
    PROVE  s = t
  OBVIOUS

\* Short ones.
LEMMA OneAndOne ==
    ASSUME NEW a \in Events, NEW b \in Events
    PROVE  <<a>> \o <<b>> = <<a, b>>
  <1>1. PICK s, t, v : s = <<a>> /\ t = <<b>> /\ v = <<a, b>>
    OBVIOUS
  <1>2. s \in Seq(Events) /\ t \in Seq(Events) /\ Len(s) = 1 /\ Len(t) = 1 /\ s[1] = a /\ t[1] = b
    BY <1>1
  <1>3. PICK u : u = s \o t
    OBVIOUS
  <1>4. /\ u \in Seq(Events) /\ Len(u) = Len(s) + Len(t)
        /\ \A j \in 1..Len(s) : u[j] = s[j]
        /\ \A j \in 1..Len(t) : u[Len(s) + j] = t[j]
    BY <1>2, <1>3, ConcatFacts
  <1>5. Len(u) = 2 /\ u[1] = a /\ u[2] = b
    <2>1. 1 \in 1..Len(s) /\ 1 \in 1..Len(t) /\ Len(s) + 1 = 2
      BY <1>2
    <2> QED
      BY <1>2, <1>4, <2>1
  <1>6. v \in Seq(Events) /\ Len(v) = 2 /\ v[1] = a /\ v[2] = b
    BY <1>1
  <1>7. \A j \in 1..Len(u) : u[j] = v[j]
    <2>1. \A j \in 1..Len(u) : j = 1 \/ j = 2
      BY <1>5
    <2> QED
      BY <1>5, <1>6, <2>1
  <1>8. u = v
    BY <1>4, <1>5, <1>6, <1>7, SameSeq
  <1> QED
    BY <1>1, <1>3, <1>8

\* Three events and one more.
LEMMA ThreeAndOne ==
    ASSUME NEW a \in Events, NEW b \in Events, NEW c \in Events, NEW d \in Events
    PROVE  <<a, b, c>> \o <<d>> = <<a, b, c, d>>
  <1>1. PICK s, t, v : s = <<a, b, c>> /\ t = <<d>> /\ v = <<a, b, c, d>>
    OBVIOUS
  <1>2. /\ s \in Seq(Events) /\ Len(s) = 3 /\ s[1] = a /\ s[2] = b /\ s[3] = c
        /\ t \in Seq(Events) /\ Len(t) = 1 /\ t[1] = d
    BY <1>1
  <1>3. PICK u : u = s \o t
    OBVIOUS
  <1>4. /\ u \in Seq(Events) /\ Len(u) = Len(s) + Len(t)
        /\ \A j \in 1..Len(s) : u[j] = s[j]
        /\ \A j \in 1..Len(t) : u[Len(s) + j] = t[j]
    BY <1>2, <1>3, ConcatFacts
  <1>5. Len(u) = 4 /\ u[1] = a /\ u[2] = b /\ u[3] = c /\ u[4] = d
    <2>1. {1, 2, 3} \subseteq 1..Len(s) /\ 1 \in 1..Len(t) /\ Len(s) + 1 = 4
      BY <1>2
    <2> QED
      BY <1>2, <1>4, <2>1
  <1>6. v \in Seq(Events) /\ Len(v) = 4 /\ v[1] = a /\ v[2] = b /\ v[3] = c /\ v[4] = d
    BY <1>1
  <1>7. \A j \in 1..Len(u) : u[j] = v[j]
    <2>1. \A j \in 1..Len(u) : j = 1 \/ j = 2 \/ j = 3 \/ j = 4
      BY <1>5
    <2> QED
      BY <1>5, <1>6, <2>1
  <1>8. u = v
    BY <1>4, <1>5, <1>6, <1>7, SameSeq
  <1> QED
    BY <1>1, <1>3, <1>8

\* What is known now, and what has to be known next.
LEMMA KnownNow ==
    ASSUME IInv
    PROVE  /\ Known(chain, log, height, rows.wasm, rows, gone, troubles, snapped)
           /\ chain \in ChainStates /\ ChainOK(chain) /\ log \in Seq(Events)
  BY DEF IInv, Phase, Known, ChainOK

\* What is known after a step of the chain is the invariant.
LEMMA KnownNext ==
    ASSUME IInv, UNCHANGED <<height, closed, rows, snapped, gone, troubles>>,
           Known(chain', log', height, rows.wasm, rows, gone, troubles, snapped)
    PROVE  IInv'
  BY DEF IInv, Phase, Known

\* Policies of the events are there or not.
LEMMA PolicyEvents ==
    ASSUME NEW m \in Modules, NEW q \in PreProposes \cup {Anyone}
    PROVE  NewPolicy(m, q) \in Seq(Events)
  <1>1. CASE q = Anyone
    BY <1>1 DEF NewPolicy
  <1>2. CASE q # Anyone
    <2>1. q \in Contracts /\ m \in Contracts
          /\ {"instantiate", "update_pre_propose_module"} \subseteq Types
      BY <1>2 DEF Contracts, Types
    <2>2. /\ Event("instantiate", q, m) \in Events
          /\ Event("update_pre_propose_module", m, q) \in Events
      BY <2>1, EventIs
    <2> QED
      BY <1>2, <2>2 DEF NewPolicy
  <1> QED
    BY <1>1, <1>2

\* CreateDao: the voting module, then the proposal module, then its policy.
LEMMA CreateDaoKeeps ==
    ASSUME IInv, CreateDao
    PROVE  IInv'
  <1>1. PICK v \in Votings, m \in Modules, q \in Policies :
            Executed([chain EXCEPT !.voting = v, !.status = With(@, m, "enabled"),
                                   !.policy = With(@, m, q), !.contracts = {v, m, q} \ {Anyone}],
                     <<Event("create_dao", None, None), Event("instantiate", v, None),
                       Event("voting_module", None, v), Event("instantiate", m, None)>>
                         \o NewPolicy(m, q))
    BY DEF CreateDao
  <1>2. PICK ch, es, dh : ch = chain /\ es = log /\ dh = chain'
    OBVIOUS
  <1>3. PICK a, b, c, d : /\ a = Event("create_dao", None, None) /\ b = Event("instantiate", v, None)
                          /\ c = Event("voting_module", None, v) /\ d = Event("instantiate", m, None)
    OBVIOUS
  <1>4. /\ log' = es \o (<<a, b, c, d>> \o NewPolicy(m, q))
        /\ dh = [ch EXCEPT !.voting = v, !.status = With(ch.status, m, "enabled"),
                           !.policy = With(ch.policy, m, q), !.contracts = {v, m, q} \ {Anyone}]
        /\ UNCHANGED <<height, closed, rows, snapped, gone, troubles>>
    BY <1>1, <1>2, <1>3 DEF Executed
  <1>5. /\ Known(ch, es, height, rows.wasm, rows, gone, troubles, snapped)
        /\ ch \in ChainStates /\ ChainOK(ch) /\ es \in Seq(Events)
    BY <1>2, KnownNow
  <1>6. ch.voting = None /\ ch.contracts = {}
    BY <1>2, <1>5 DEF CreateDao, ChainOK
  <1>7. q \in PreProposes \cup {Anyone}
    BY DEF Policies
  <1>8. v \in Contracts /\ m \in Contracts /\ m # v /\ q # v /\ m # Anyone /\ v # Anyone
        /\ (q # Anyone => q \in Contracts)
    BY <1>7, Kinds DEF Contracts
  <1>9. PICK ci : ci = [ch EXCEPT !.voting = v, !.contracts = {v}]
    OBVIOUS
  <1>10. ci \in ChainStates /\ Alike(ci, ch, {"voting", "contracts"}) /\ ci.voting = v
         /\ ci.contracts = {v}
    BY <1>5, <1>8, <1>9 DEF ChainStates, Alike
  <1>11. Known(ci, es \o <<a, b, c>>, height, rows.wasm, rows, gone, troubles, snapped)
    BY <1>3, <1>5, <1>6, <1>10, EmitCreate
  <1>12. PICK st, po : st = With(ci.status, m, "enabled") /\ po = With(ci.policy, m, q)
    OBVIOUS
  <1>13. st = With(ch.status, m, "enabled") /\ po = With(ch.policy, m, q)
    BY <1>10, <1>12 DEF Alike
  <1>14. /\ st \in Maps(Modules, Statuses) /\ po \in Maps(Modules, PreProposes \cup {Anyone})
    <2>1. ci.status \in Maps(Modules, Statuses) /\ ci.policy \in Maps(Modules, PreProposes \cup {Anyone})
          /\ "enabled" \in Statuses
      BY <1>10 DEF ChainStates, Statuses
    <2> QED
      BY <1>7, <1>12, <2>1, WithFacts
  <1>15. /\ dh \in ChainStates /\ dh.status = st /\ dh.policy = po
         /\ dh.contracts = (ci.contracts \cup {m, q}) \ {Anyone}
         /\ Alike(dh, ci, {"status", "policy", "contracts"})
    <2>1. dh = [ch EXCEPT !.voting = v, !.status = st, !.policy = po,
                          !.contracts = (ci.contracts \cup {m, q}) \ {Anyone}]
      <3>1. {v, m, q} \ {Anyone} = (ci.contracts \cup {m, q}) \ {Anyone}
        BY <1>10
      <3> QED
        BY <1>4, <1>13, <3>1
    <2>2. (ci.contracts \cup {m, q}) \ {Anyone} \subseteq Contracts
      BY <1>8, <1>10
    <2> QED
      BY <1>5, <1>9, <1>14, <2>1, <2>2 DEF ChainStates, Alike
  <1>16. Known(dh, ((es \o <<a, b, c>>) \o <<d>>) \o NewPolicy(m, q), height, rows.wasm, rows, gone,
               troubles, snapped)
    <2>1. ci.voting # None /\ m \notin ci.contracts /\ q \notin ci.contracts
      BY <1>8, <1>10, Kinds
    <2> QED
      BY <1>3, <1>7, <1>11, <1>12, <1>15, <2>1, EmitNewModule
  <1>17. ((es \o <<a, b, c>>) \o <<d>>) \o NewPolicy(m, q) = es \o (<<a, b, c, d>> \o NewPolicy(m, q))
    <2>1. a \in Events /\ b \in Events /\ c \in Events /\ d \in Events
      <3>1. {"create_dao", "instantiate", "voting_module"} \subseteq Types
        BY DEF Types
      <3> QED
        BY <1>3, <1>8, <3>1, EventIs
    <2>2. <<a, b, c>> \in Seq(Events) /\ <<d>> \in Seq(Events) /\ <<a, b, c, d>> \in Seq(Events)
          /\ <<a, b, c>> \o <<d>> = <<a, b, c, d>>
      BY <2>1, ThreeAndOne
    <2>3. NewPolicy(m, q) \in Seq(Events)
      BY <1>7, PolicyEvents
    <2>4. (es \o <<a, b, c>>) \o <<d>> = es \o <<a, b, c, d>>
      BY <1>5, <2>2, Joined
    <2>5. (es \o <<a, b, c, d>>) \o NewPolicy(m, q) = es \o (<<a, b, c, d>> \o NewPolicy(m, q))
      BY <1>5, <2>2, <2>3, Joined
    <2> QED
      BY <2>4, <2>5
  <1> QED
    BY <1>2, <1>4, <1>16, <1>17, KnownNext

\* SwapVotingModule.
LEMMA SwapVotingKeeps ==
    ASSUME IInv, SwapVotingModule
    PROVE  IInv'
  <1>1. PICK v \in Votings :
            /\ v \notin chain.contracts
            /\ Executed([chain EXCEPT !.voting = v, !.contracts = @ \cup {v}],
                        <<Event("instantiate", v, None), Event("voting_module", None, v)>>)
    BY DEF SwapVotingModule, Fresh
  <1>2. PICK ch, dh : ch = chain /\ dh = chain'
    OBVIOUS
  <1>3. /\ log' = log \o <<Event("instantiate", v, None), Event("voting_module", None, v)>>
        /\ dh = [ch EXCEPT !.voting = v, !.contracts = ch.contracts \cup {v}]
        /\ UNCHANGED <<height, closed, rows, snapped, gone, troubles>>
    BY <1>1, <1>2 DEF Executed
  <1>4. Known(ch, log, height, rows.wasm, rows, gone, troubles, snapped) /\ ch \in ChainStates
    BY <1>2, KnownNow
  <1>5. dh \in ChainStates /\ Alike(dh, ch, {"voting", "contracts"}) /\ dh.voting = v
        /\ dh.contracts = ch.contracts \cup {v}
    BY <1>3, <1>4 DEF ChainStates, Alike, Contracts
  <1>6. ch.voting # None /\ v \notin ch.contracts
    BY <1>1, <1>2 DEF SwapVotingModule
  <1>7. Known(dh, log \o <<Event("instantiate", v, None), Event("voting_module", None, v)>>, height,
              rows.wasm, rows, gone, troubles, snapped)
    BY <1>4, <1>5, <1>6, EmitVoting
  <1> QED
    BY <1>2, <1>3, <1>7, KnownNext

\* UpdateProposalModules: some are disabled, then the new one.
LEMMA UpdateModulesKeeps ==
    ASSUME IInv, UpdateProposalModules
    PROVE  IInv'
  <1>1. PICK m \in Modules, q \in Policies, disabled \in SUBSET DOMAIN chain.status :
            /\ m \notin chain.contracts
            /\ Executed([chain EXCEPT
                            !.status = [n \in DOMAIN @ \cup {m} |->
                                           IF n \in disabled THEN "disabled"
                                           ELSE IF n = m THEN "enabled" ELSE @[n]],
                            !.policy = With(@, m, q), !.contracts = (@ \cup {m, q}) \ {Anyone}],
                        <<Event("update_proposal_modules", None, None),
                          Event("instantiate", m, None)>> \o NewPolicy(m, q))
    BY DEF UpdateProposalModules, Fresh
  <1>2. PICK ch, es, dh, a, b : /\ ch = chain /\ es = log /\ dh = chain'
                                /\ a = Event("update_proposal_modules", None, None)
                                /\ b = Event("instantiate", m, None)
    OBVIOUS
  <1>3. /\ log' = es \o (<<a, b>> \o NewPolicy(m, q))
        /\ dh = [ch EXCEPT !.status = [n \in DOMAIN ch.status \cup {m} |->
                                          IF n \in disabled THEN "disabled"
                                          ELSE IF n = m THEN "enabled" ELSE ch.status[n]],
                           !.policy = With(ch.policy, m, q),
                           !.contracts = (ch.contracts \cup {m, q}) \ {Anyone}]
        /\ UNCHANGED <<height, closed, rows, snapped, gone, troubles>>
    BY <1>1, <1>2 DEF Executed
  <1>4. /\ Known(ch, es, height, rows.wasm, rows, gone, troubles, snapped)
        /\ ch \in ChainStates /\ ChainOK(ch) /\ es \in Seq(Events)
    BY <1>2, KnownNow
  <1>5. /\ ch.voting # None /\ m \notin ch.contracts /\ disabled \subseteq DOMAIN ch.status
        /\ q \in PreProposes \cup {Anyone} /\ q \notin ch.contracts
    <2>1. Anyone \notin ch.contracts
      BY <1>4, Kinds DEF ChainStates
    <2> QED
      BY <1>1, <1>2, <2>1 DEF UpdateProposalModules, Policies, Fresh
  <1>6. PICK st : st = [n \in DOMAIN ch.status |-> IF n \in disabled THEN "disabled" ELSE ch.status[n]]
    OBVIOUS
  <1>7. /\ ch.status \in Maps(Modules, Statuses) /\ ch.policy \in Maps(Modules, PreProposes \cup {Anyone})
        /\ ch.contracts \subseteq Contracts /\ DOMAIN ch.status = ch.contracts \cap Modules
    BY <1>4 DEF ChainOK, ChainStates
  <1>8. st \in Maps(Modules, Statuses) /\ DOMAIN st = DOMAIN ch.status
    <2>1. DOMAIN ch.status \subseteq Modules /\ \A n \in DOMAIN ch.status : ch.status[n] \in Statuses
      BY <1>7, MapFacts
    <2>2. /\ DOMAIN st = DOMAIN ch.status /\ st = [n \in DOMAIN st |-> st[n]]
          /\ \A n \in DOMAIN st : st[n] = ch.status[n] \/ st[n] = "disabled"
      BY <1>6
    <2>3. DOMAIN st \subseteq Modules /\ \A n \in DOMAIN st : st[n] \in Statuses
      BY <2>1, <2>2 DEF Statuses
    <2> QED
      BY <2>2, <2>3, IsMap
  <1>9. PICK ci : ci = [ch EXCEPT !.status = st]
    OBVIOUS
  <1>10. ci \in ChainStates /\ Alike(ci, ch, {"status"}) /\ ci.status = st
    BY <1>4, <1>8, <1>9 DEF ChainStates, Alike
  <1>11. Known(ci, es \o <<a>>, height, rows.wasm, rows, gone, troubles, snapped)
    BY <1>2, <1>4, <1>5, <1>8, <1>10, EmitRefresh
  <1>12. PICK su, po : su = With(st, m, "enabled") /\ po = With(ch.policy, m, q)
    OBVIOUS
  <1>13. su \in Maps(Modules, Statuses) /\ po \in Maps(Modules, PreProposes \cup {Anyone})
    <2>1. "enabled" \in Statuses
      BY DEF Statuses
    <2> QED
      BY <1>5, <1>7, <1>8, <1>12, <2>1, WithFacts
  <1>14. su = [n \in DOMAIN ch.status \cup {m} |-> IF n \in disabled THEN "disabled"
                                                 ELSE IF n = m THEN "enabled" ELSE ch.status[n]]
    <2>1. m \notin disabled
      BY <1>5, <1>7
    <2> QED
      BY <1>6, <1>12, <2>1 DEF With
  <1>15. /\ dh \in ChainStates /\ dh.status = su /\ dh.policy = po
         /\ dh.contracts = (ci.contracts \cup {m, q}) \ {Anyone}
         /\ Alike(dh, ci, {"status", "policy", "contracts"})
    <2>1. dh = [ch EXCEPT !.status = su, !.policy = po,
                          !.contracts = (ci.contracts \cup {m, q}) \ {Anyone}]
      BY <1>3, <1>10, <1>12, <1>14 DEF Alike
    <2>2. (ci.contracts \cup {m, q}) \ {Anyone} \subseteq Contracts
      BY <1>5, <1>7, <1>10 DEF Alike, Contracts
    <2> QED
      BY <1>4, <1>9, <1>13, <2>1, <2>2 DEF ChainStates, Alike
  <1>16. Known(dh, ((es \o <<a>>) \o <<b>>) \o NewPolicy(m, q), height, rows.wasm, rows, gone,
               troubles, snapped)
    <2>1. /\ ci.voting # None /\ m \notin ci.contracts /\ q \notin ci.contracts
          /\ dh.status = With(ci.status, m, "enabled") /\ dh.policy = With(ci.policy, m, q)
      BY <1>5, <1>10, <1>12, <1>15 DEF Alike
    <2> QED
      BY <1>2, <1>5, <1>11, <1>15, <2>1, EmitNewModule
  <1>17. ((es \o <<a>>) \o <<b>>) \o NewPolicy(m, q) = es \o (<<a, b>> \o NewPolicy(m, q))
    <2>1. a \in Events /\ b \in Events
      <3>1. {"update_proposal_modules", "instantiate"} \subseteq Types /\ m \in Contracts
        BY DEF Types, Contracts
      <3> QED
        BY <1>2, <3>1, EventIs
    <2>2. <<a>> \in Seq(Events) /\ <<b>> \in Seq(Events) /\ <<a, b>> \in Seq(Events)
          /\ <<a>> \o <<b>> = <<a, b>>
      BY <2>1, OneAndOne
    <2>3. NewPolicy(m, q) \in Seq(Events)
      BY <1>5, PolicyEvents
    <2>4. (es \o <<a>>) \o <<b>> = es \o <<a, b>>
      <3>1. PICK s, t : s = <<a>> /\ t = <<b>>
        OBVIOUS
      <3>2. s \in Seq(Events) /\ t \in Seq(Events) /\ es \in Seq(Events) /\ s \o t = <<a, b>>
        BY <1>4, <2>2, <3>1
      <3>3. (es \o s) \o t = es \o (s \o t)
        BY <3>2, Joined
      <3> QED
        BY <3>1, <3>2, <3>3
    <2>5. (es \o <<a, b>>) \o NewPolicy(m, q) = es \o (<<a, b>> \o NewPolicy(m, q))
      BY <1>4, <2>2, <2>3, Joined
    <2> QED
      BY <2>4, <2>5
  <1> QED
    BY <1>2, <1>3, <1>16, <1>17, KnownNext


\* UpdatePolicy: anyone may propose, until a new pre-propose module is there.
LEMMA UpdatePolicyKeeps ==
    ASSUME IInv, UpdatePolicy
    PROVE  IInv'
  <1>1. PICK m \in Modules, q \in Policies :
            /\ Works(m)
            /\ Executed([chain EXCEPT !.policy[m] = q, !.contracts = (@ \cup {q}) \ {Anyone}],
                        <<Event("update_policy", m, None)>> \o NewPolicy(m, q))
    BY DEF UpdatePolicy
  <1>2. PICK ch, es, dh, a, h, r, x, w, s :
            /\ ch = chain /\ es = log /\ dh = chain' /\ a = Event("update_policy", m, None)
            /\ h = height /\ r = rows /\ x = gone /\ w = troubles /\ s = snapped
    OBVIOUS
  <1>3. /\ log' = es \o (<<a>> \o NewPolicy(m, q))
        /\ dh = [ch EXCEPT !.policy = [ch.policy EXCEPT ![m] = q],
                           !.contracts = (ch.contracts \cup {q}) \ {Anyone}]
        /\ UNCHANGED <<height, closed, rows, snapped, gone, troubles>>
    BY <1>1, <1>2 DEF Executed
  <1>4. /\ Known(ch, es, h, r.wasm, r, x, w, s)
        /\ ch \in ChainStates /\ ChainOK(ch) /\ es \in Seq(Events)
    BY <1>2, KnownNow
  <1>5. /\ m \in DOMAIN ch.policy /\ q \in PreProposes \cup {Anyone} /\ q \notin ch.contracts
    <2>1. Anyone \notin ch.contracts
      BY <1>4, Kinds DEF ChainStates
    <2> QED
      BY <1>1, <1>2, <2>1 DEF Works, Policies, Fresh
  <1>6. /\ ch.policy \in Maps(Modules, PreProposes \cup {Anyone}) /\ ch.contracts \subseteq Contracts
    BY <1>4 DEF ChainStates
  <1>7. PICK po, pq, ci : /\ po = [ch.policy EXCEPT ![m] = Anyone] /\ pq = [ch.policy EXCEPT ![m] = q]
                          /\ ci = [ch EXCEPT !.policy = po]
    OBVIOUS
  <1>8. /\ po \in Maps(Modules, PreProposes \cup {Anyone}) /\ DOMAIN po = DOMAIN ch.policy
        /\ po[m] = Anyone /\ pq \in Maps(Modules, PreProposes \cup {Anyone})
    BY <1>5, <1>6, <1>7, ExceptFacts
  <1>9. ci \in ChainStates /\ ci.policy = po /\ Alike(ci, ch, {"policy"})
    BY <1>4, <1>7, <1>8 DEF ChainStates, Alike
  <1>10. Known(ci, es \o <<a>>, h, r.wasm, r, x, w, s)
    BY <1>2, <1>4, <1>5, <1>7, <1>9, EmitAnyone
  <1>11. [po EXCEPT ![m] = q] = pq
    <2>1. po = [n \in DOMAIN po |-> po[n]] /\ ch.policy = [n \in DOMAIN ch.policy |-> ch.policy[n]]
      BY <1>6, <1>8, MapFacts
    <2>2. [po EXCEPT ![m] = q] = [n \in DOMAIN po |-> IF n = m THEN q ELSE po[n]]
      BY <2>1
    <2>3. pq = [n \in DOMAIN ch.policy |-> IF n = m THEN q ELSE ch.policy[n]]
      BY <1>7, <2>1
    <2>4. \A n \in DOMAIN ch.policy : n # m => po[n] = ch.policy[n]
      BY <1>7
    <2> QED
      BY <1>8, <2>2, <2>3, <2>4
  <1>12. /\ dh \in ChainStates /\ dh.policy = pq
         /\ dh.contracts = (ci.contracts \cup {q}) \ {Anyone}
         /\ Alike(dh, ci, {"policy", "contracts"})
    <2>1. (ch.contracts \cup {q}) \ {Anyone} \subseteq Contracts
      BY <1>5, <1>6 DEF Contracts
    <2>2. dh = [ch EXCEPT !.policy = pq, !.contracts = (ch.contracts \cup {q}) \ {Anyone}]
      BY <1>3, <1>7
    <2> QED
      BY <1>4, <1>7, <1>8, <2>1, <2>2 DEF ChainStates, Alike
  <1>13. Known(dh, (es \o <<a>>) \o NewPolicy(m, q), h, r.wasm, r, x, w, s)
    <2>1. m \in DOMAIN ci.policy /\ ci.policy[m] = Anyone /\ q \notin ci.contracts
          /\ dh.policy = [ci.policy EXCEPT ![m] = q]
      BY <1>5, <1>8, <1>9, <1>11, <1>12 DEF Alike
    <2> QED
      BY <1>5, <1>10, <1>12, <2>1, EmitNewPolicy
  <1>14. (es \o <<a>>) \o NewPolicy(m, q) = es \o (<<a>> \o NewPolicy(m, q))
    <2>1. "update_policy" \in Types /\ m \in Contracts
      BY DEF Types, Contracts
    <2>2. a \in Events
      BY <1>2, <2>1, EventIs
    <2>3. NewPolicy(m, q) \in Seq(Events)
      BY <1>5, PolicyEvents
    <2> QED
      BY <1>4, <2>2, <2>3, Joined
  <1> QED
    BY <1>2, <1>3, <1>13, <1>14, KnownNext

\* Propose.
LEMMA ProposeKeeps ==
    ASSUME IInv, Propose
    PROVE  IInv'
  <1>1. PICK m \in Modules :
            /\ Works(m)
            /\ m \notin DOMAIN chain.proposals
            /\ Executed([chain EXCEPT !.proposals = With(@, m, "open")],
                        <<Event("propose", m, None)>>)
    BY DEF Propose
  <1>2. PICK ch, dh, f : ch = chain /\ dh = chain' /\ f = With(ch.proposals, m, "open")
    OBVIOUS
  <1>3. /\ log' = log \o <<Event("propose", m, None)>> /\ dh = [ch EXCEPT !.proposals = f]
        /\ UNCHANGED <<height, closed, rows, snapped, gone, troubles>>
    BY <1>1, <1>2 DEF Executed
  <1>4. Known(ch, log, height, rows.wasm, rows, gone, troubles, snapped) /\ ch \in ChainStates
    BY <1>2, KnownNow
  <1>5. m \in DOMAIN ch.policy /\ m \notin DOMAIN ch.proposals
    BY <1>1, <1>2 DEF Works
  <1>6. f \in Maps(Modules, ProposalStatuses)
    <2>1. ch.proposals \in Maps(Modules, ProposalStatuses) /\ "open" \in ProposalStatuses
      BY <1>4 DEF ChainStates, ProposalStatuses
    <2> QED
      BY <1>2, <2>1, WithFacts
  <1>7. dh \in ChainStates /\ Alike(dh, ch, {"proposals"}) /\ dh.proposals = With(ch.proposals, m, "open")
    BY <1>2, <1>3, <1>4, <1>6 DEF ChainStates, Alike
  <1>8. Known(dh, log \o <<Event("propose", m, None)>>, height, rows.wasm, rows, gone, troubles, snapped)
    BY <1>4, <1>5, <1>7, EmitPropose
  <1> QED
    BY <1>2, <1>3, <1>8, KnownNext

\* Vote.
LEMMA VoteKeeps ==
    ASSUME IInv, Vote
    PROVE  IInv'
  <1>1. PICK m \in DOMAIN chain.proposals, voter \in Voters, choice \in {"yes", "no"} :
            Executed([chain EXCEPT
                        !.ballots = With(@, <<m, voter>>, [choice |-> choice, height |-> height]),
                        !.proposals[m] = IF choice = "yes" THEN "passed" ELSE @],
                     <<Event("vote", m, voter)>>)
    BY DEF Vote
  <1>2. PICK ch, dh, v, b, p : /\ ch = chain /\ dh = chain' /\ v = [choice |-> choice, height |-> height]
                               /\ b = <<m, voter>>
                               /\ p = IF choice = "yes" THEN "passed" ELSE ch.proposals[m]
    OBVIOUS
  <1>3. PICK f, g : f = With(ch.ballots, b, v) /\ g = [ch.proposals EXCEPT ![m] = p]
    OBVIOUS
  <1>4. /\ log' = log \o <<Event("vote", m, voter)>> /\ dh = [ch EXCEPT !.ballots = f, !.proposals = g]
        /\ UNCHANGED <<height, closed, rows, snapped, gone, troubles>>
    BY <1>1, <1>2, <1>3 DEF Executed
  <1>5. Known(ch, log, height, rows.wasm, rows, gone, troubles, snapped) /\ ch \in ChainStates
    BY <1>2, KnownNow
  <1>6. ch.proposals \in Maps(Modules, ProposalStatuses) /\ m \in DOMAIN ch.proposals
    BY <1>2, <1>5 DEF ChainStates
  <1>7. m \in Modules /\ ch.proposals[m] \in ProposalStatuses
    BY <1>6, MapFacts
  <1>8. g \in Maps(Modules, ProposalStatuses)
    <2>1. p \in ProposalStatuses
      BY <1>2, <1>7 DEF ProposalStatuses
    <2> QED
      BY <1>3, <1>6, <2>1, ExceptFacts
  <1>9. f \in Maps(Ballots, [choice : YesNo, height : Nat])
    <2>1. PICK T : T = [choice : YesNo, height : Nat]
      OBVIOUS
    <2>2. ch.ballots \in Maps(Ballots, T)
      BY <1>5, <2>1 DEF ChainStates
    <2>3. height \in Nat
      BY <1>5 DEF Known
    <2>4. v \in T
      BY <1>2, <2>1, <2>3 DEF YesNo
    <2>5. b \in Ballots
      BY <1>2, <1>7 DEF Ballots
    <2>6. f \in Maps(Ballots, T)
      BY <1>3, <2>2, <2>4, <2>5, WithFacts
    <2> QED
      BY <2>1, <2>6
  <1>10. dh \in ChainStates /\ Alike(dh, ch, {"proposals", "ballots"}) /\ dh.ballots = f /\ dh.proposals = g
    BY <1>4, <1>5, <1>8, <1>9 DEF ChainStates, Alike
  <1>11. Known(dh, log \o <<Event("vote", m, voter)>>, height, rows.wasm, rows, gone, troubles, snapped)
    <2>1. v.height = height
      BY <1>2
    <2> QED
      BY <1>2, <1>3, <1>5, <1>6, <1>10, <2>1, EmitVote
  <1> QED
    BY <1>2, <1>4, <1>11, KnownNext

\* Conclude.
LEMMA ConcludeKeeps ==
    ASSUME IInv, Conclude
    PROVE  IInv'
  <1>1. PICK m \in DOMAIN chain.proposals :
            Executed([chain EXCEPT !.proposals[m] = IF @ = "passed" THEN "executed" ELSE "closed"],
                     <<Event("conclude", m, None)>>)
    BY DEF Conclude
  <1>2. PICK ch, dh, p : /\ ch = chain /\ dh = chain'
                         /\ p = IF ch.proposals[m] = "passed" THEN "executed" ELSE "closed"
    OBVIOUS
  <1>3. PICK g : g = [ch.proposals EXCEPT ![m] = p]
    OBVIOUS
  <1>4. /\ log' = log \o <<Event("conclude", m, None)>> /\ dh = [ch EXCEPT !.proposals = g]
        /\ UNCHANGED <<height, closed, rows, snapped, gone, troubles>>
    BY <1>1, <1>2, <1>3 DEF Executed
  <1>5. Known(ch, log, height, rows.wasm, rows, gone, troubles, snapped) /\ ch \in ChainStates
    BY <1>2, KnownNow
  <1>6. ch.proposals \in Maps(Modules, ProposalStatuses) /\ m \in DOMAIN ch.proposals
        /\ p \in ProposalStatuses
    BY <1>2, <1>5 DEF ChainStates, ProposalStatuses
  <1>7. g \in Maps(Modules, ProposalStatuses)
    BY <1>3, <1>6, ExceptFacts
  <1>8. dh \in ChainStates /\ Alike(dh, ch, {"proposals"}) /\ dh.proposals = g
    BY <1>4, <1>5, <1>7 DEF ChainStates, Alike
  <1>9. Known(dh, log \o <<Event("conclude", m, None)>>, height, rows.wasm, rows, gone, troubles, snapped)
    BY <1>3, <1>5, <1>6, <1>8, EmitConclude
  <1> QED
    BY <1>2, <1>4, <1>9, KnownNext

\* Submit.
LEMMA SubmitKeeps ==
    ASSUME IInv, Submit
    PROVE  IInv'
  <1>1. PICK q \in PreProposes \cap chain.contracts :
            /\ q \notin DOMAIN chain.approvals
            /\ Executed([chain EXCEPT !.approvals =
                            With(@, q, [state |-> "pending", height |-> height])],
                        <<Event("submit", q, None)>>)
    BY DEF Submit
  <1>2. PICK ch, dh, a : ch = chain /\ dh = chain' /\ a = [state |-> "pending", height |-> height]
    OBVIOUS
  <1>3. PICK f : f = With(ch.approvals, q, a)
    OBVIOUS
  <1>4. /\ log' = log \o <<Event("submit", q, None)>> /\ dh = [ch EXCEPT !.approvals = f]
        /\ UNCHANGED <<height, closed, rows, snapped, gone, troubles>>
    BY <1>1, <1>2, <1>3 DEF Executed
  <1>5. Known(ch, log, height, rows.wasm, rows, gone, troubles, snapped) /\ ch \in ChainStates
    BY <1>2, KnownNow
  <1>6. q \in PreProposes \cap ch.contracts /\ q \notin DOMAIN ch.approvals
    BY <1>1, <1>2
  <1>7. PICK T : T = [state : {"pending", "approved", "rejected"}, height : Nat]
    OBVIOUS
  <1>8. f \in Maps(PreProposes, T)
    <2>1. ch.approvals \in Maps(PreProposes, T)
      BY <1>5, <1>7 DEF ChainStates
    <2>2. height \in Nat
      BY <1>5 DEF Known
    <2>3. a \in T
      BY <1>2, <1>7, <2>2
    <2> QED
      BY <1>3, <1>6, <2>1, <2>3, WithFacts
  <1>9. dh \in ChainStates /\ Alike(dh, ch, {"approvals"}) /\ dh.approvals = f
    BY <1>4, <1>5, <1>7, <1>8 DEF ChainStates, Alike
  <1>10. Known(dh, log \o <<Event("submit", q, None)>>, height, rows.wasm, rows, gone, troubles, snapped)
    <2>1. a.state = "pending" /\ a.height = height
      BY <1>2
    <2> QED
      BY <1>3, <1>5, <1>6, <1>9, <2>1, EmitSubmit
  <1> QED
    BY <1>2, <1>4, <1>10, KnownNext

\* Resolve.
LEMMA ResolveKeeps ==
    ASSUME IInv, Resolve
    PROVE  IInv'
  <1>1. PICK q \in DOMAIN chain.approvals, outcome \in {"approved", "rejected"} :
            /\ chain.approvals[q].state = "pending"
            /\ Executed([chain EXCEPT !.approvals[q].state = outcome],
                        <<Event("resolve", q, outcome)>>)
    BY DEF Resolve
  <1>2. PICK ch, dh, a : ch = chain /\ dh = chain' /\ a = [ch.approvals[q] EXCEPT !.state = outcome]
    OBVIOUS
  <1>3. PICK f : f = [ch.approvals EXCEPT ![q].state = outcome]
    OBVIOUS
  <1>4. /\ log' = log \o <<Event("resolve", q, outcome)>> /\ dh = [ch EXCEPT !.approvals = f]
        /\ UNCHANGED <<height, closed, rows, snapped, gone, troubles>>
    BY <1>1, <1>2, <1>3 DEF Executed
  <1>5. Known(ch, log, height, rows.wasm, rows, gone, troubles, snapped) /\ ch \in ChainStates
    BY <1>2, KnownNow
  <1>6. q \in DOMAIN ch.approvals /\ ch.approvals[q].state = "pending"
    BY <1>1, <1>2
  <1>7. PICK T : T = [state : {"pending", "approved", "rejected"}, height : Nat]
    OBVIOUS
  <1>8. ch.approvals \in Maps(PreProposes, T)
    BY <1>5, <1>7 DEF ChainStates
  <1>9. f \in Maps(PreProposes, T)
    <2>1. ch.approvals[q] \in T
      BY <1>6, <1>8, MapFacts
    <2>2. a \in T
      BY <1>2, <1>7, <2>1
    <2>3. f = [ch.approvals EXCEPT ![q] = a]
      BY <1>2, <1>3
    <2> QED
      BY <1>6, <1>8, <2>2, <2>3, ExceptFacts
  <1>10. dh \in ChainStates /\ Alike(dh, ch, {"approvals"}) /\ dh.approvals = f
    BY <1>4, <1>5, <1>7, <1>9 DEF ChainStates, Alike
  <1>11. Known(dh, log \o <<Event("resolve", q, outcome)>>, height, rows.wasm, rows, gone, troubles,
               snapped)
    BY <1>3, <1>5, <1>6, <1>10, EmitResolve
  <1> QED
    BY <1>2, <1>4, <1>11, KnownNext

\* UpdateSubDaos.
LEMMA UpdateSubDaosKeeps ==
    ASSUME IInv, UpdateSubDaos
    PROVE  IInv'
  <1>1. PICK subs \in SUBSET SubDaos :
            Executed([chain EXCEPT !.subs = subs], <<Event("update_sub_daos", None, None)>>)
    BY DEF UpdateSubDaos
  <1>2. PICK ch, dh : ch = chain /\ dh = chain'
    OBVIOUS
  <1>3. /\ log' = log \o <<Event("update_sub_daos", None, None)>> /\ dh = [ch EXCEPT !.subs = subs]
        /\ UNCHANGED <<height, closed, rows, snapped, gone, troubles>>
    BY <1>1, <1>2 DEF Executed
  <1>4. Known(ch, log, height, rows.wasm, rows, gone, troubles, snapped) /\ ch \in ChainStates
    BY <1>2, KnownNow
  <1>5. dh \in ChainStates /\ Alike(dh, ch, {"subs"}) /\ ch.voting # None
    BY <1>2, <1>3, <1>4 DEF ChainStates, Alike, UpdateSubDaos
  <1>6. Known(dh, log \o <<Event("update_sub_daos", None, None)>>, height, rows.wasm, rows, gone,
              troubles, snapped)
    BY <1>4, <1>5, EmitSubDaos
  <1> QED
    BY <1>2, <1>3, <1>6, KnownNext

\* Migrate.
LEMMA MigrateKeeps ==
    ASSUME IInv, Migrate
    PROVE  IInv'
  <1>1. PICK m \in DOMAIN chain.policy :
            Executed([chain EXCEPT !.bricked = IF m \in @ THEN @ \ {m} ELSE @ \cup {m}], << >>)
    BY DEF Migrate
  <1>2. PICK ch, dh, b : /\ ch = chain /\ dh = chain'
                         /\ b = IF m \in ch.bricked THEN ch.bricked \ {m} ELSE ch.bricked \cup {m}
    OBVIOUS
  <1>3. /\ log' = log \o << >> /\ dh = [ch EXCEPT !.bricked = b]
        /\ UNCHANGED <<height, closed, rows, snapped, gone, troubles>>
    BY <1>1, <1>2 DEF Executed
  <1>4. /\ Known(ch, log, height, rows.wasm, rows, gone, troubles, snapped)
        /\ ch \in ChainStates /\ ChainOK(ch)
    BY <1>2, KnownNow
  <1>5. b \subseteq ch.contracts /\ b \subseteq Modules
    BY <1>1, <1>2, <1>4 DEF ChainOK, ChainStates
  <1>6. dh \in ChainStates /\ Alike(dh, ch, {"bricked"}) /\ dh.bricked \subseteq ch.contracts
    BY <1>3, <1>4, <1>5 DEF ChainStates, Alike
  <1>7. Known(dh, log \o << >>, height, rows.wasm, rows, gone, troubles, snapped)
    BY <1>4, <1>6, EmitNothing
  <1> QED
    BY <1>2, <1>3, <1>7, KnownNext

\* CloseBlock.
LEMMA CloseBlockKeeps ==
    ASSUME IInv, CloseBlock
    PROVE  IInv'
  <1>1. /\ closed' = TRUE /\ UNCHANGED <<height, chain, log, rows, snapped, gone, troubles>>
    BY DEF CloseBlock
  <1>2. Phase'
    BY <1>1 DEF IInv, Phase
  <1> QED
    BY <1>1, <1>2 DEF IInv

----------------------------------------------------------------------------
(* The handlers' results, one event after the other, and the snapshot's,    *)
(* one module after the other.                                              *)

Step(pass, r, x, trouble) ==
    IF pass = "index" THEN Handle(r, log[x], trouble)
    ELSE IF r.refused THEN r ELSE SnapshotModule(r, x, trouble)

Pick(pass, s) == IF pass = "index" THEN Max(s) ELSE CHOOSE x \in s : TRUE

\* T[s] is what comes of the members of s, for all s of no more than n.
PassUpTo(T, pass, base, S, trouble, n) ==
    \A s \in SUBSET S : Cardinality(s) <= n =>
        T[s] = IF s = {} THEN base ELSE Step(pass, T[s \ {Pick(pass, s)}], Pick(pass, s), trouble)

PassAll(T, pass, base, S, trouble) ==
    T = [s \in SUBSET S |-> IF s = {} THEN base
                            ELSE Step(pass, T[s \ {Pick(pass, s)}], Pick(pass, s), trouble)]

Picks(pass, S) == \A s \in SUBSET S : s # {} => Pick(pass, s) \in s

\* There is such a function, however many members there are.
LEMMA PassExists ==
    ASSUME NEW pass, NEW base, NEW S, NEW trouble, IsFiniteSet(S), Picks(pass, S)
    PROVE  \E T : PassAll(T, pass, base, S, trouble)
  <1> DEFINE G == {n \in Nat : \E T : PassUpTo(T, pass, base, S, trouble, n)}
  <1>1. 0 \in G
    <2> DEFINE T == [s \in SUBSET S |-> base]
    <2>1. \A s \in SUBSET S : Cardinality(s) <= 0 => s = {}
      BY FS_Subset, FS_EmptySet, FS_CardinalityType
    <2>2. PassUpTo(T, pass, base, S, trouble, 0)
      BY <2>1 DEF PassUpTo
    <2> QED
      BY <2>2
  <1>2. ASSUME NEW n \in G PROVE n + 1 \in G
    <2>0. n \in Nat
      OBVIOUS
    <2>1. PICK T : PassUpTo(T, pass, base, S, trouble, n)
      OBVIOUS
    <2> DEFINE U == [s \in SUBSET S |->
                        IF Cardinality(s) <= n THEN T[s]
                        ELSE Step(pass, T[s \ {Pick(pass, s)}], Pick(pass, s), trouble)]
    <2>2. ASSUME NEW s \in SUBSET S, Cardinality(s) <= n + 1
          PROVE  U[s] = IF s = {} THEN base
                        ELSE Step(pass, U[s \ {Pick(pass, s)}], Pick(pass, s), trouble)
      <3>1. CASE s = {}
        <4>1. Cardinality(s) <= n
          BY <3>1, <2>0, FS_EmptySet
        <4>2. U[s] = T[s] /\ T[s] = base
          BY <3>1, <4>1, <2>1 DEF PassUpTo
        <4> QED
          BY <3>1, <4>2
      <3>2. CASE s # {}
        <4>1. PICK x, u : x = Pick(pass, s) /\ u = s \ {x}
          OBVIOUS
        <4>2. x \in s
          BY <3>2, <4>1 DEF Picks
        <4>3. u \in SUBSET S /\ Cardinality(s) \in Nat /\ Cardinality(u) = Cardinality(s) - 1
          BY <4>1, <4>2, Smaller
        <4>4. Cardinality(u) <= n
          BY <2>2, <4>3, <2>0
        <4>5. U[u] = T[u]
          BY <4>3, <4>4
        <4>6. U[s] = Step(pass, T[u], x, trouble)
          <5>1. CASE Cardinality(s) <= n
            <6>1. U[s] = T[s]
              BY <5>1
            <6>2. T[s] = Step(pass, T[u], x, trouble)
              BY <5>1, <3>2, <4>1, <2>1 DEF PassUpTo
            <6> QED
              BY <6>1, <6>2
          <5>2. CASE ~ (Cardinality(s) <= n)
            BY <5>2, <4>1
          <5> QED
            BY <5>1, <5>2
        <4> HIDE DEF U
        <4> QED
          BY <3>2, <4>1, <4>5, <4>6
      <3> QED
        BY <3>1, <3>2
    <2>3. PassUpTo(U, pass, base, S, trouble, n + 1)
      <3> HIDE DEF U
      <3> QED
        BY <2>2 DEF PassUpTo
    <2> HIDE DEF U
    <2> QED
      BY <2>0, <2>3
  <1>3. G = Nat
    <2> HIDE DEF G
    <2>1. G \in SUBSET Nat
      BY DEF G
    <2> QED
      BY <1>1, <1>2, <2>1, Induction
  <1>4. Cardinality(S) \in Nat
    BY FS_CardinalityType
  <1>5. PICK T : PassUpTo(T, pass, base, S, trouble, Cardinality(S))
    BY <1>3, <1>4
  <1>6. \A s \in SUBSET S : Cardinality(s) <= Cardinality(S)
    BY FS_Subset
  <1>7. PICK U : U = [s \in SUBSET S |-> T[s]]
    OBVIOUS
  <1>8. ASSUME NEW s \in SUBSET S
        PROVE  U[s] = IF s = {} THEN base ELSE Step(pass, U[s \ {Pick(pass, s)}], Pick(pass, s), trouble)
    <2>1. T[s] = IF s = {} THEN base ELSE Step(pass, T[s \ {Pick(pass, s)}], Pick(pass, s), trouble)
      BY <1>5, <1>6 DEF PassUpTo
    <2>2. U[s] = T[s] /\ U[s \ {Pick(pass, s)}] = T[s \ {Pick(pass, s)}]
      BY <1>7
    <2> QED
      BY <2>1, <2>2
  <1>9. PassAll(U, pass, base, S, trouble)
    <2>1. U = [s \in SUBSET S |-> U[s]]
      BY <1>7
    <2> QED
      BY <1>8, <2>1 DEF PassAll
  <1> QED
    BY <1>9

\* The last of the first events.
LEMMA LastOfFirst ==
    ASSUME NEW n \in Nat, NEW s \in SUBSET (1..n), s # {}
    PROVE  Max(s) \in s /\ \A i \in s : i <= Max(s)
  <1>1. \E m \in s : \A i \in s : m >= i
    <2> DEFINE M == {k \in Nat : \A i \in s : i <= k}
    <2>1. n \in M
      OBVIOUS
    <2>2. PICK k \in M : \A m \in M : k <= m
      <3>1. M \in SUBSET Nat /\ M # {}
        BY <2>1
      <3> HIDE DEF M
      <3> QED
        BY <3>1, LeastNatural
    <2>3. k \in Nat /\ \A i \in s : i <= k
      BY <2>2
    <2>4. k \in s
      <3> SUFFICES ASSUME k \notin s PROVE FALSE
        OBVIOUS
      <3>1. \A i \in s : i \in Nat /\ 1 <= i /\ i <= k /\ i # k
        BY <2>3
      <3>2. PICK i \in s : TRUE
        OBVIOUS
      <3>3. k - 1 \in Nat
        BY <2>3, <3>1, <3>2
      <3>4. \A j \in s : j <= k - 1
        BY <2>3, <3>1
      <3>5. k - 1 \in M
        BY <3>3, <3>4
      <3>6. k <= k - 1
        BY <2>2, <3>5
      <3> QED
        BY <2>3, <3>6
    <2> QED
      BY <2>3, <2>4
  <1> QED
    BY <1>1 DEF Max

EventsPass(T, trouble) ==
    T = [s \in SUBSET (DOMAIN log) |-> IF s = {} THEN rows
                                       ELSE Handle(T[s \ {Max(s)}], log[Max(s)], trouble)]

\* f has the rows after each event.
Indexes(f, trouble) ==
    /\ f[0] = rows
    /\ \A i \in 0..(Len(log) - 1) : f[i + 1] = Handle(f[i], log[i + 1], trouble)
    /\ After(trouble) = f[Len(log)]

\* What Index makes of the rows is what comes of the events one after the other.
LEMMA IndexSteps ==
    ASSUME NEW trouble, log \in Seq(Events)
    PROVE  \E f : Indexes(f, trouble)
  <1>1. PICK n : n = Len(log)
    OBVIOUS
  <1>2. n \in Nat /\ DOMAIN log = 1..n
    BY <1>1
  <1>3. IsFiniteSet(1..n)
    BY <1>2, FS_Interval
  <1>4. Picks("index", 1..n)
    BY <1>2, LastOfFirst DEF Picks, Pick
  <1>5. PICK T : PassAll(T, "index", rows, 1..n, trouble)
    BY <1>3, <1>4, PassExists
  <1>6. EventsPass(T, trouble)
    BY <1>2, <1>5 DEF PassAll, EventsPass, Step, Pick
  <1> DEFINE C == CHOOSE U : EventsPass(U, trouble)
  <1>7. EventsPass(C, trouble)
    BY <1>6
  <1>8. After(trouble) = C[DOMAIN log]
    BY DEF After, FoldLeft, MapThenFoldSet, EventsPass
  <1>9. PICK U : U = C
    OBVIOUS
  <1>10. PICK f : f = [i \in 0..n |-> U[1..i]]
    OBVIOUS
  <1> HIDE DEF C
  <1>11. ASSUME NEW s \in SUBSET (1..n)
         PROVE  U[s] = IF s = {} THEN rows ELSE Handle(U[s \ {Max(s)}], log[Max(s)], trouble)
    BY <1>2, <1>7, <1>9 DEF EventsPass
  <1>12. f[0] = rows
    <2>1. 1..0 = {} /\ {} \in SUBSET (1..n)
      OBVIOUS
    <2> QED
      BY <1>2, <1>10, <1>11, <2>1
  <1>13. ASSUME NEW i \in 0..(n - 1)
         PROVE  f[i + 1] = Handle(f[i], log[i + 1], trouble)
    <2>1. PICK s, m : s = 1..(i + 1) /\ m = Max(s)
      OBVIOUS
    <2>2. s \in SUBSET (1..n) /\ s # {} /\ i \in Nat /\ i + 1 \in s /\ \A k \in s : k <= i + 1
      BY <1>2, <2>1
    <2>3. m \in s /\ \A k \in s : k <= m
      BY <1>2, <2>1, <2>2, LastOfFirst
    <2>4. m = i + 1
      BY <2>1, <2>2, <2>3
    <2>5. s \ {m} = 1..i
      BY <2>1, <2>2, <2>4
    <2>6. U[s] = Handle(U[s \ {m}], log[m], trouble)
      BY <1>11, <2>1, <2>2
    <2>7. f[i + 1] = U[s] /\ f[i] = U[1..i]
      BY <1>2, <1>10, <2>1
    <2> QED
      BY <2>4, <2>5, <2>6, <2>7
  <1>14. After(trouble) = f[n]
    BY <1>2, <1>8, <1>9, <1>10
  <1> QED
    BY <1>1, <1>12, <1>13, <1>14 DEF Indexes

----------------------------------------------------------------------------
(* One event is handled.                                                    *)

Seen(r, es, i, x, w) == r \in Tables /\ ~ r.refused /\ RowsSeen(r, es, i, chain, x, w)

\* The next of the events is of type t.
Handling(r, es, i, x, w, t) ==
    /\ es \in Seq(Events) /\ i \in Nat /\ i < Len(es)
    /\ ChainOK(chain) /\ Told(es, chain)
    /\ Seen(r, es, i, x, w)
    /\ es[i + 1].type = t

\* The rows without what is named.
Kept(q, r, names) ==
    /\ q.wasm = r.wasm
    /\ "core" \notin names => q.core = r.core
    /\ "contracts" \notin names => q.votings = r.votings /\ q.prePropose = r.prePropose
    /\ "subs" \notin names => q.subs = r.subs
    /\ "modules" \notin names => q.modules = r.modules
    /\ "proposals" \notin names => q.proposals = r.proposals
    /\ "ballots" \notin names => q.ballots = r.ballots
    /\ "approvals" \notin names => q.approvals = r.approvals

\* The event e has nothing to do with what is not named.
Silent(e, x, names) ==
    /\ "core" \notin names => ~ (e.type \in {"create_dao", "voting_module"} /\ e.of = None)
    /\ "contracts" \notin names => ~ (e.type = "instantiate" /\ e.of \in Votings \cup PreProposes)
    /\ "subs" \notin names => ~ (e.type = "update_sub_daos" /\ e.of = None)
    /\ "modules" \notin names =>
         /\ ~ (/\ e.type \in {"instantiate", "update_policy", "update_pre_propose_module"}
               /\ e.of \in Modules \ x)
         /\ ~ (e.type = "update_proposal_modules" /\ e.of = None)
    /\ "proposals" \notin names => ~ (e.type \in {"propose", "vote", "conclude"} /\ e.of \in Modules \ x)
    /\ "ballots" \notin names => ~ (e.type = "vote" /\ e.of \notin x)
    /\ "approvals" \notin names => ~ (e.type \in {"submit", "resolve"} /\ e.of \in PreProposes)

\* What is named is seen after i events.
Renewed(q, es, i, x, w, names) ==
    /\ "core" \in names => CoreSeen(q, es, i, chain)
    /\ "contracts" \in names => ContractsSeen(q, es, i, chain)
    /\ "subs" \in names => SubsSeen(q, es, i, chain, w)
    /\ "modules" \in names => ModulesSeen(q, es, i, chain, x, w)
    /\ "proposals" \in names => ProposalsSeen(q, es, i, chain, x)
    /\ "ballots" \in names => BallotsSeen(q, es, i, chain, x)
    /\ "approvals" \in names => ApprovalsSeen(q, es, i, chain)

\* Nothing else is disturbed.
LEMMA OthersSeen ==
    ASSUME NEW r, NEW es, NEW i, NEW x, NEW w, NEW t, Handling(r, es, i, x, w, t),
           NEW q, NEW names, Kept(q, r, names), Silent(es[i + 1], x, names),
           Renewed(q, es, i + 1, x, w, names)
    PROVE  RowsSeen(q, es, i + 1, chain, x, w)
  <1>1. PICK ch, e, j : ch = chain /\ e = es[i + 1] /\ j = i + 1
    OBVIOUS
  <1>2. /\ es \in Seq(Events) /\ i \in Nat /\ i < Len(es) /\ ChainOK(ch)
        /\ RowsSeen(r, es, i, ch, x, w)
    BY <1>1 DEF Handling, Seen
  <1>3. \A k, c : To(es, i, k, c) <=> (e.type = k /\ e.of = c) \/ To(es, j, k, c)
    BY <1>1, <1>2, ToStep
  <1>4. CoreSeen(q, es, j, ch)
    <2>1. CASE "core" \in names
      BY <2>1, <1>1 DEF Renewed
    <2>2. CASE "core" \notin names
      BY <2>2, <1>1, <1>2, <1>3 DEF RowsSeen, CoreSeen, Kept, Silent, ToSetVoting, ToCreate
    <2> QED
      BY <2>1, <2>2
  <1>5. ContractsSeen(q, es, j, ch)
    <2>1. CASE "contracts" \in names
      BY <2>1, <1>1 DEF Renewed
    <2>2. CASE "contracts" \notin names
      BY <2>2, <1>1, <1>2, <1>3 DEF RowsSeen, ContractsSeen, Kept, Silent, ToInstantiate
    <2> QED
      BY <2>1, <2>2
  <1>6. SubsSeen(q, es, j, ch, w)
    <2>1. CASE "subs" \in names
      BY <2>1, <1>1 DEF Renewed
    <2>2. CASE "subs" \notin names
      BY <2>2, <1>1, <1>2, <1>3 DEF RowsSeen, SubsSeen, Kept, Silent
    <2> QED
      BY <2>1, <2>2
  <1>7. ModulesSeen(q, es, j, ch, x, w)
    <2>1. CASE "modules" \in names
      BY <2>1, <1>1 DEF Renewed
    <2>2. CASE "modules" \notin names
      <3>1. q.modules = r.modules /\ ModulesSeen(r, es, i, ch, x, w)
        BY <2>2, <1>2 DEF Kept, RowsSeen
      <3>2. /\ ~ (/\ e.type \in {"instantiate", "update_policy", "update_pre_propose_module"}
                  /\ e.of \in Modules \ x)
            /\ ~ (e.type = "update_proposal_modules" /\ e.of = None)
        BY <2>2, <1>1 DEF Silent
      <3>3. DOMAIN ch.status \subseteq Modules
        BY <1>2 DEF ChainOK
      <3>4. ASSUME NEW m \in DOMAIN ch.status \ x
            PROVE  IF m \in DOMAIN q.modules THEN ModuleSeen(q.modules[m], es, j, ch, m, w)
                   ELSE ToInstantiate(es, j, m)
        <4>1. /\ ToInstantiate(es, i, m) <=> ToInstantiate(es, j, m)
              /\ ToSetPolicy(es, i, m) <=> ToSetPolicy(es, j, m)
              /\ ToRefresh(es, i) <=> ToRefresh(es, j)
          BY <1>3, <3>2, <3>3 DEF ToInstantiate, ToSetPolicy, ToRefresh
        <4> QED
          BY <3>1, <4>1 DEF ModulesSeen, ModuleSeen
      <3> QED
        BY <3>1, <3>4 DEF ModulesSeen
    <2> QED
      BY <2>1, <2>2
  <1>8. ProposalsSeen(q, es, j, ch, x)
    <2>1. CASE "proposals" \in names
      BY <2>1, <1>1 DEF Renewed
    <2>2. CASE "proposals" \notin names
      BY <2>2, <1>1, <1>2, <1>3 DEF RowsSeen, ProposalsSeen, Kept, Silent, ToConclude
    <2> QED
      BY <2>1, <2>2
  <1>9. BallotsSeen(q, es, j, ch, x)
    <2>1. CASE "ballots" \in names
      BY <2>1, <1>1 DEF Renewed
    <2>2. CASE "ballots" \notin names
      <3>1. q.ballots = r.ballots /\ BallotsSeen(r, es, i, ch, x) /\ ~ (e.type = "vote" /\ e.of \notin x)
        BY <2>2, <1>1, <1>2 DEF Kept, RowsSeen, Silent
      <3>2. ASSUME NEW b \in DOMAIN ch.ballots, b[1] \notin x, ToVote(es, i, b)
            PROVE  ToVote(es, j, b)
        <4>1. \/ e.type = "vote" /\ <<e.of, e.about>> = b
              \/ ToVote(es, j, b)
          BY <1>1, <1>2, <3>2, ToVoteStep
        <4>2. CASE e.type = "vote" /\ <<e.of, e.about>> = b
          <5>1. e.of = b[1]
            BY <4>2
          <5> QED
            BY <5>1, <4>2, <3>1, <3>2
        <4> QED
          BY <4>1, <4>2
      <3> QED
        BY <3>1, <3>2 DEF BallotsSeen
    <2> QED
      BY <2>1, <2>2
  <1>10. ApprovalsSeen(q, es, j, ch)
    <2>1. CASE "approvals" \in names
      BY <2>1, <1>1 DEF Renewed
    <2>2. CASE "approvals" \notin names
      <3>1. DOMAIN ch.approvals \subseteq PreProposes
        BY <1>2, MapFacts DEF ChainOK, ChainStates
      <3> QED
        BY <2>2, <3>1, <1>1, <1>2, <1>3 DEF RowsSeen, ApprovalsSeen, Kept, Silent
    <2> QED
      BY <2>1, <2>2
  <1> QED
    BY <1>1, <1>4, <1>5, <1>6, <1>7, <1>8, <1>9, <1>10 DEF RowsSeen

\* What the next event tells.
LEMMA NextTold ==
    ASSUME NEW r, NEW es, NEW i, NEW x, NEW w, NEW t, Handling(r, es, i, x, w, t)
    PROVE  /\ EventTold(es, i + 1, chain)
           /\ es[i + 1] \in Events /\ es[i + 1].type = t
           /\ \A k, c : To(es, i, k, c) <=> (t = k /\ es[i + 1].of = c) \/ To(es, i + 1, k, c)
  <1>1. es \in Seq(Events) /\ i \in Nat /\ i < Len(es) /\ Told(es, chain) /\ es[i + 1].type = t
    BY DEF Handling
  <1>2. i + 1 \in 1..Len(es)
    BY <1>1
  <1>3. es[i + 1] \in Events
    BY <1>1, <1>2
  <1>4. EventTold(es, i + 1, chain)
    BY <1>1, <1>2 DEF Told
  <1> QED
    BY <1>1, <1>3, <1>4, ToStep

\* create_dao.
LEMMA CreateCoreSeen ==
    ASSUME NEW r, NEW es, NEW i, NEW x, NEW w, Handling(r, es, i, x, w, "create_dao"),
           NEW q, q = CreateCore(r)
    PROVE  Seen(q, es, i + 1, x, w) /\ q.wasm = r.wasm
  <1>1. r \in Tables /\ ~ r.refused
    BY DEF Handling, Seen
  <1>2. q \in Tables /\ ~ q.refused /\ q.core = {None} /\ Kept(q, r, {"core"})
    BY <1>1 DEF CreateCore, Tables, Kept
  <1>3. ToSetVoting(es, i + 1)
    BY NextTold DEF EventTold, CreateTold
  <1>4. CoreSeen(q, es, i + 1, chain)
    BY <1>2, <1>3 DEF CoreSeen
  <1>5. Silent(es[i + 1], x, {"core"})
    BY DEF Silent, Handling
  <1>6. Renewed(q, es, i + 1, x, w, {"core"})
    BY <1>4 DEF Renewed
  <1> QED
    BY <1>2, <1>5, <1>6, OthersSeen DEF Seen, Kept

\* A voting module becomes the DAO's.
LEMMA SetVotingSeen ==
    ASSUME NEW r, NEW es, NEW i, NEW x, NEW w, Handling(r, es, i, x, w, "voting_module"),
           NEW q, q = SetVoting(r, es[i + 1].about), ~ q.refused
    PROVE  Seen(q, es, i + 1, x, w) /\ q.wasm = r.wasm
  <1>1. r \in Tables /\ ~ r.refused
    BY DEF Handling, Seen
  <1>2. PICK v : v = es[i + 1].about
    OBVIOUS
  <1>3. /\ v \in Votings /\ v \in chain.contracts
        /\ v = chain.voting \/ ToSetVoting(es, i + 1)
    BY <1>2, NextTold DEF EventTold, VotingTold
  <1>4. v \in r.votings
    BY <1>1, <1>2 DEF SetVoting, Refuse, Tables
  <1>5. q \in Tables /\ q.core = {v} /\ Kept(q, r, {"core"})
    BY <1>1, <1>2, <1>3, <1>4 DEF SetVoting, Tables, Kept
  <1>6. v # None
    BY <1>3, Kinds DEF Contracts
  <1>7. CoreSeen(q, es, i + 1, chain)
    BY <1>3, <1>5, <1>6 DEF CoreSeen, CoreOf
  <1>8. Silent(es[i + 1], x, {"core"})
    BY DEF Silent, Handling
  <1>9. Renewed(q, es, i + 1, x, w, {"core"})
    BY <1>7 DEF Renewed
  <1> QED
    BY <1>5, <1>8, <1>9, OthersSeen DEF Seen, Kept

\* update_sub_daos.
LEMMA SubDaosSeen ==
    ASSUME NEW r, NEW es, NEW i, NEW x, NEW w, Handling(r, es, i, x, w, "update_sub_daos"),
           NEW q, q = ReplaceSubDaos(r)
    PROVE  Seen(q, es, i + 1, x, w) /\ q.wasm = r.wasm
  <1>1. r \in Tables /\ ~ r.refused /\ ChainOK(chain)
    BY DEF Handling, Seen
  <1>2. q \in Tables /\ ~ q.refused /\ q.subs = chain.subs /\ Kept(q, r, {"subs"})
    BY <1>1 DEF ReplaceSubDaos, Tables, Kept, ChainOK, ChainStates
  <1>3. Silent(es[i + 1], x, {"subs"})
    BY DEF Silent, Handling
  <1>4. Renewed(q, es, i + 1, x, w, {"subs"})
    BY <1>2 DEF Renewed, SubsSeen
  <1> QED
    BY <1>2, <1>3, <1>4, OthersSeen DEF Seen, Kept

\* A voting module or a pre-propose module is instantiated.
LEMMA ContractSeen ==
    ASSUME NEW r, NEW es, NEW i, NEW x, NEW w, Handling(r, es, i, x, w, "instantiate"),
           es[i + 1].of \in Votings \cup PreProposes, NEW trouble,
           NEW q, q = Instantiated(r, es[i + 1].of, trouble)
    PROVE  Seen(q, es, i + 1, x, w) /\ q.wasm = r.wasm
  <1>1. r \in Tables /\ ~ r.refused /\ RowsSeen(r, es, i, chain, x, w)
    BY DEF Handling, Seen
  <1>2. PICK c, j : c = es[i + 1].of /\ j = i + 1
    OBVIOUS
  <1>3. \A n : ToInstantiate(es, i, n) <=> n = c \/ ToInstantiate(es, j, n)
    BY <1>2, NextTold DEF ToInstantiate
  <1>4. /\ q \in Tables /\ ~ q.refused /\ Kept(q, r, {"contracts"})
        /\ r.votings \subseteq q.votings /\ r.prePropose \subseteq q.prePropose
        /\ c \in Votings => c \in q.votings
        /\ c \in PreProposes => c \in q.prePropose
    <2>1. CASE c \in Votings
      <3>1. q = [r EXCEPT !.votings = r.votings \cup {c}]
        BY <1>2, <2>1 DEF Instantiated
      <3>2. r.votings \cup {c} \subseteq Votings /\ c \notin PreProposes
        BY <1>1, <2>1, Kinds DEF Tables
      <3> QED
        BY <1>1, <3>1, <3>2 DEF Tables, Kept
    <2>2. CASE c \notin Votings
      <3>1. q = [r EXCEPT !.prePropose = r.prePropose \cup {c}]
        BY <1>2, <2>2 DEF Instantiated
      <3>2. r.prePropose \cup {c} \subseteq PreProposes
        BY <1>1, <1>2, <2>2 DEF Tables
      <3> QED
        BY <1>1, <2>2, <3>1, <3>2 DEF Tables, Kept
    <2> QED
      BY <2>1, <2>2
  <1>5. ContractsSeen(q, es, j, chain)
    BY <1>1, <1>3, <1>4 DEF RowsSeen, ContractsSeen
  <1>6. Silent(es[i + 1], x, {"contracts"})
    BY Kinds DEF Silent, Handling
  <1>7. Renewed(q, es, i + 1, x, w, {"contracts"})
    BY <1>2, <1>5 DEF Renewed
  <1> QED
    BY <1>4, <1>6, <1>7, OthersSeen DEF Seen, Kept

\* Other rows of modules.
LEMMA ModulesSet ==
    ASSUME NEW r \in Tables, NEW f \in Maps(Modules, ModuleRows), NEW q, q = [r EXCEPT !.modules = f]
    PROVE  q \in Tables /\ q.modules = f /\ q.refused = r.refused /\ Kept(q, r, {"modules"})
  BY DEF Tables, Kept

\* One module's row is another.
LEMMA OneModuleSeen ==
    ASSUME NEW r, NEW es, NEW i, NEW x, NEW w, NEW t, Handling(r, es, i, x, w, t),
           t \in {"instantiate", "update_policy", "update_pre_propose_module"},
           NEW m \in Modules, es[i + 1].of = m, m \in DOMAIN chain.status,
           NEW q \in Tables, ~ q.refused, Kept(q, r, {"modules"}),
           DOMAIN q.modules = DOMAIN r.modules \cup {m},
           \A n \in DOMAIN r.modules : n # m => q.modules[n] = r.modules[n],
           m \notin x => ModuleSeen(q.modules[m], es, i + 1, chain, m, w)
    PROVE  Seen(q, es, i + 1, x, w)
  <1>1. PICK ch, j : ch = chain /\ j = i + 1
    OBVIOUS
  <1>2. ModulesSeen(r, es, i, ch, x, w)
    BY <1>1 DEF Handling, Seen, RowsSeen
  <1>3. \A k, c : To(es, i, k, c) <=> (t = k /\ c = m) \/ To(es, j, k, c)
    BY <1>1, NextTold
  <1>4. ASSUME NEW n \in DOMAIN ch.status \ x, n # m
        PROVE  IF n \in DOMAIN q.modules THEN ModuleSeen(q.modules[n], es, j, ch, n, w)
               ELSE ToInstantiate(es, j, n)
    <2>1. /\ ToInstantiate(es, i, n) <=> ToInstantiate(es, j, n)
          /\ ToSetPolicy(es, i, n) <=> ToSetPolicy(es, j, n)
          /\ ToRefresh(es, i) <=> ToRefresh(es, j)
      BY <1>3, <1>4 DEF ToInstantiate, ToSetPolicy, ToRefresh
    <2>2. IF n \in DOMAIN r.modules THEN ModuleSeen(r.modules[n], es, i, ch, n, w)
          ELSE ToInstantiate(es, i, n)
      BY <1>2, <1>4 DEF ModulesSeen
    <2>3. CASE n \in DOMAIN r.modules
      <3>1. n \in DOMAIN q.modules /\ q.modules[n] = r.modules[n]
        BY <2>3, <1>4
      <3> QED
        BY <2>1, <2>2, <2>3, <3>1 DEF ModuleSeen
    <2>4. CASE n \notin DOMAIN r.modules
      BY <2>1, <2>2, <2>4, <1>4
    <2> QED
      BY <2>3, <2>4
  <1>5. DOMAIN q.modules \subseteq DOMAIN ch.status
    BY <1>1, <1>2 DEF ModulesSeen
  <1>6. ModulesSeen(q, es, j, ch, x, w)
    BY <1>1, <1>4, <1>5 DEF ModulesSeen
  <1>7. Silent(es[i + 1], x, {"modules"})
    BY Kinds DEF Silent, Handling
  <1>8. Renewed(q, es, i + 1, x, w, {"modules"})
    BY <1>1, <1>6 DEF Renewed
  <1> QED
    BY <1>7, <1>8, OthersSeen DEF Seen

\* A proposal module is instantiated.
LEMMA ModuleCreated ==
    ASSUME NEW r, NEW es, NEW i, NEW x, NEW w, Handling(r, es, i, x, w, "instantiate"),
           es[i + 1].of \in Modules, NEW trouble, trouble \subseteq w,
           NEW q, q = Instantiated(r, es[i + 1].of, trouble), ~ q.refused
    PROVE  Seen(q, es, i + 1, x, w) /\ q.wasm = r.wasm
  <1>1. r \in Tables /\ ~ r.refused /\ RowsSeen(r, es, i, chain, x, w) /\ ChainOK(chain)
    BY DEF Handling, Seen
  <1>2. PICK m, ch, j, st : m = es[i + 1].of /\ ch = chain /\ j = i + 1 /\ st = StatusOf(m, trouble)
    OBVIOUS
  <1>3. m \in Modules /\ m \notin Votings /\ m \notin PreProposes
    BY <1>2, Kinds
  <1>4. /\ m \in ch.contracts
        /\ ch.policy[m] = Anyone \/ ToSetPolicy(es, j, m)
    BY <1>2, <1>3, NextTold DEF EventTold, InstantiateTold
  <1>5. /\ m \in DOMAIN ch.status /\ m \in DOMAIN ch.policy
        /\ ch.status \in Maps(Modules, Statuses) /\ ch.policy \in Maps(Modules, PreProposes \cup {Anyone})
        /\ r.modules \in Maps(Modules, ModuleRows)
    BY <1>1, <1>2, <1>3, <1>4 DEF ChainOK, ChainStates, Tables
  <1>6. ch.status[m] \in Statuses /\ ch.policy[m] \in PreProposes \cup {Anyone}
        /\ (m \in DOMAIN r.modules => r.modules[m] \in ModuleRows)
    BY <1>5, MapFacts
  <1>7. PICK known, row :
            /\ known = (m \in DOMAIN r.modules)
            /\ row = [status |-> IF known /\ st = None THEN r.modules[m].status ELSE st,
                      policy |-> ch.policy[m],
                      prePropose |-> IF known THEN r.modules[m].prePropose ELSE None,
                      whole |-> TRUE]
    OBVIOUS
  <1>8. q = IF r.core = {} THEN Refuse(r) ELSE [r EXCEPT !.modules = With(r.modules, m, row)]
    <2>1. q = CreateModule(r, m, st)
      BY <1>2, <1>3 DEF Instantiated
    <2>2. CreateModule(r, m, st) =
              IF r.core = {} THEN Refuse(r) ELSE [r EXCEPT !.modules = With(r.modules, m, row)]
      BY <1>2, <1>7 DEF CreateModule
    <2> QED
      BY <2>1, <2>2
  <1>9. PICK f, g : g = r.modules /\ f = With(g, m, row)
    OBVIOUS
  <1>10. q = [r EXCEPT !.modules = f]
    BY <1>1, <1>8, <1>9 DEF Refuse, Tables
  <1>11. st \in Statuses \cup {None} /\ (st = ch.status[m] \/ <<m, "status">> \in w)
    BY <1>2, <1>6 DEF StatusOf
  <1>12. row \in ModuleRows
    <2>1. CASE known
      BY <2>1, <1>6, <1>7, <1>11 DEF ModuleRows
    <2>2. CASE ~ known
      BY <2>2, <1>6, <1>7, <1>11 DEF ModuleRows
    <2> QED
      BY <2>1, <2>2
  <1>13. /\ f \in Maps(Modules, ModuleRows)
         /\ DOMAIN f = DOMAIN r.modules \cup {m} /\ f[m] = row
         /\ \A n \in DOMAIN r.modules : n # m => f[n] = r.modules[n]
    <2>1. g \in Maps(Modules, ModuleRows) /\ f = With(g, m, row) /\ m \in Modules
      BY <1>3, <1>5, <1>9
    <2>2. /\ f \in Maps(Modules, ModuleRows)
          /\ DOMAIN f = DOMAIN g \cup {m} /\ f[m] = row
          /\ \A n \in DOMAIN g : n # m => f[n] = g[n]
      BY <1>12, <2>1, WithFacts
    <2> QED
      BY <1>9, <2>2
  <1>14. q \in Tables /\ q.modules = f /\ ~ q.refused /\ Kept(q, r, {"modules"})
    BY <1>1, <1>10, <1>13, ModulesSet
  <1>15. \A k, c : To(es, i, k, c) <=> ("instantiate" = k /\ m = c) \/ To(es, j, k, c)
    BY <1>2, NextTold
  <1>16. ASSUME m \notin x
         PROVE  ModuleSeen(row, es, j, ch, m, w)
    <2>1. row.whole /\ row.policy = ch.policy[m]
      BY <1>7
    <2>2. row.status = ch.status[m] \/ <<m, "status">> \in w
      BY <1>6, <1>7, <1>11, Kinds DEF Statuses, None
    <2>3. \/ row.prePropose = Target(ch.policy[m]) \/ ToSetPolicy(es, j, m)
      <3>1. CASE known
        <4>1. ModuleSeen(r.modules[m], es, i, ch, m, w)
          BY <1>1, <1>2, <1>5, <1>7, <1>16, <3>1 DEF RowsSeen, ModulesSeen
        <4>2. \/ r.modules[m].prePropose = Target(ch.policy[m]) \/ ToSetPolicy(es, j, m)
              \/ r.modules[m].prePropose = None
          BY <4>1, <1>15 DEF ModuleSeen, ToSetPolicy
        <4>3. row.prePropose = r.modules[m].prePropose
          BY <1>7, <3>1
        <4> QED
          BY <4>2, <4>3, <1>4 DEF Target
      <3>2. CASE ~ known
        BY <3>2, <1>4, <1>7 DEF Target
      <3> QED
        BY <3>1, <3>2
    <2> QED
      BY <2>1, <2>2, <2>3 DEF ModuleSeen
  <1> QED
    BY <1>2, <1>3, <1>5, <1>13, <1>14, <1>16, OneModuleSeen DEF Kept

\* update_proposal_modules.
LEMMA RefreshSeen ==
    ASSUME NEW r, NEW es, NEW i, NEW x, NEW w, Handling(r, es, i, x, w, "update_proposal_modules"),
           NEW q, q = RefreshModules(r), ~ q.refused
    PROVE  Seen(q, es, i + 1, x, w) /\ q.wasm = r.wasm
  <1>1. r \in Tables /\ ~ r.refused /\ RowsSeen(r, es, i, chain, x, w) /\ ChainOK(chain)
    BY DEF Handling, Seen
  <1>2. PICK ch, j : ch = chain /\ j = i + 1
    OBVIOUS
  <1>3. PICK f : f = [m \in DOMAIN r.modules \cup DOMAIN ch.status |->
            IF m \notin DOMAIN ch.status THEN r.modules[m]
            ELSE IF m \in DOMAIN r.modules THEN [r.modules[m] EXCEPT !.status = ch.status[m]]
            ELSE [status |-> ch.status[m], policy |-> None, prePropose |-> None, whole |-> FALSE]]
    OBVIOUS
  <1>4. q = [r EXCEPT !.modules = f]
    <2>1. q = IF r.core = {} THEN Refuse(r) ELSE [r EXCEPT !.modules = f]
      BY <1>2, <1>3 DEF RefreshModules
    <2> QED
      BY <1>1, <2>1 DEF Refuse, Tables
  <1>5. /\ ch.status \in Maps(Modules, Statuses) /\ r.modules \in Maps(Modules, ModuleRows)
    BY <1>1, <1>2 DEF ChainOK, ChainStates, Tables
  <1>6. /\ DOMAIN ch.status \subseteq Modules /\ DOMAIN r.modules \subseteq Modules
        /\ \A m \in DOMAIN ch.status : ch.status[m] \in Statuses
        /\ \A m \in DOMAIN r.modules : r.modules[m] \in ModuleRows
    BY <1>5, MapFacts
  <1>7. ASSUME NEW m \in DOMAIN f PROVE f[m] \in ModuleRows
    <2>1. CASE m \notin DOMAIN ch.status
      <3>1. f[m] = r.modules[m] /\ m \in DOMAIN r.modules
        BY <1>3, <2>1
      <3> QED
        BY <3>1, <1>6
    <2>2. CASE m \in DOMAIN ch.status /\ m \in DOMAIN r.modules
      <3>1. f[m] = [r.modules[m] EXCEPT !.status = ch.status[m]]
        BY <1>3, <2>2
      <3>2. PICK row, s : row = r.modules[m] /\ s = ch.status[m]
        OBVIOUS
      <3>3. row \in ModuleRows /\ s \in Statuses
        BY <1>6, <2>2, <3>2
      <3>4. [row EXCEPT !.status = s] \in ModuleRows
        BY <3>3 DEF ModuleRows
      <3> QED
        BY <3>1, <3>2, <3>4
    <2>3. CASE m \in DOMAIN ch.status /\ m \notin DOMAIN r.modules
      <3>1. f[m] = [status |-> ch.status[m], policy |-> None, prePropose |-> None, whole |-> FALSE]
        BY <1>3, <2>3
      <3>2. ch.status[m] \in Statuses
        BY <1>6, <2>3
      <3> QED
        BY <3>1, <3>2 DEF ModuleRows
    <2> QED
      BY <2>1, <2>2, <2>3
  <1>8. f \in Maps(Modules, ModuleRows) /\ DOMAIN f = DOMAIN r.modules \cup DOMAIN ch.status
    <2>1. DOMAIN f = DOMAIN r.modules \cup DOMAIN ch.status /\ f = [m \in DOMAIN f |-> f[m]]
      BY <1>3
    <2>2. DOMAIN f \subseteq Modules
      BY <2>1, <1>6
    <2> QED
      BY <2>1, <2>2, <1>7, IsMap
  <1>9. q \in Tables /\ q.modules = f /\ ~ q.refused /\ Kept(q, r, {"modules"})
    BY <1>1, <1>4, <1>8, ModulesSet
  <1>10. \A k, c : k # "update_proposal_modules" => (To(es, i, k, c) <=> To(es, j, k, c))
    BY <1>2, NextTold
  <1>11. ModulesSeen(r, es, i, ch, x, w)
    BY <1>1, <1>2 DEF RowsSeen
  <1>12. ASSUME NEW m \in DOMAIN ch.status \ x
         PROVE  m \in DOMAIN f /\ ModuleSeen(f[m], es, j, ch, m, w)
    <2>0. m \in DOMAIN f
      BY <1>8
    <2>1. /\ ToInstantiate(es, i, m) <=> ToInstantiate(es, j, m)
          /\ ToSetPolicy(es, i, m) <=> ToSetPolicy(es, j, m)
      BY <1>10 DEF ToInstantiate, ToSetPolicy
    <2>2. CASE m \in DOMAIN r.modules
      <3>1. PICK row, s : row = r.modules[m] /\ s = ch.status[m]
        OBVIOUS
      <3>2. row \in ModuleRows /\ ModuleSeen(row, es, i, ch, m, w)
        BY <1>6, <1>11, <2>2, <3>1 DEF ModulesSeen
      <3>3. f[m] = [row EXCEPT !.status = s]
        BY <1>3, <2>2, <3>1
      <3>4. /\ f[m].status = s /\ f[m].whole = row.whole /\ f[m].policy = row.policy
            /\ f[m].prePropose = row.prePropose
        BY <3>2, <3>3 DEF ModuleRows
      <3> QED
        BY <2>0, <2>1, <3>1, <3>2, <3>4 DEF ModuleSeen
    <2>3. CASE m \notin DOMAIN r.modules
      <3>1. ToInstantiate(es, j, m)
        BY <1>11, <2>1, <2>3 DEF ModulesSeen
      <3>2. f[m] = [status |-> ch.status[m], policy |-> None, prePropose |-> None, whole |-> FALSE]
        BY <1>3, <2>3
      <3> QED
        BY <2>0, <3>1, <3>2 DEF ModuleSeen
    <2> QED
      BY <2>2, <2>3
  <1>13. DOMAIN f \subseteq DOMAIN ch.status
    BY <1>8, <1>11 DEF ModulesSeen
  <1>14. ModulesSeen(q, es, j, ch, x, w)
    BY <1>9, <1>12, <1>13 DEF ModulesSeen
  <1>15. Silent(es[i + 1], x, {"modules"})
    BY DEF Silent, Handling
  <1>16. Renewed(q, es, i + 1, x, w, {"modules"})
    BY <1>2, <1>14 DEF Renewed
  <1> QED
    BY <1>9, <1>15, <1>16, OthersSeen DEF Seen, Kept

\* The policy that is now the module's.
LEMMA SetPolicyIs ==
    ASSUME NEW r \in Tables, ChainOK(chain), NEW m \in DOMAIN chain.policy, m \in DOMAIN r.modules,
           NEW q, q = SetPolicy(r, m)
    PROVE  /\ q \in Tables /\ q.refused = r.refused /\ Kept(q, r, {"modules"})
           /\ DOMAIN q.modules = DOMAIN r.modules
           /\ \A n \in DOMAIN r.modules : n # m => q.modules[n] = r.modules[n]
           /\ q.modules[m] \in ModuleRows /\ q.modules[m] = [r.modules[m] EXCEPT !.policy = chain.policy[m]]
  <1>1. PICK p, row, f : /\ p = chain.policy[m] /\ row = [r.modules[m] EXCEPT !.policy = p]
                         /\ f = [r.modules EXCEPT ![m] = row]
    OBVIOUS
  <1>2. chain.policy \in Maps(Modules, PreProposes \cup {Anyone})
    BY DEF ChainOK, ChainStates
  <1>3. p \in PreProposes \cup {Anyone} /\ r.modules \in Maps(Modules, ModuleRows)
    BY <1>1, <1>2, MapFacts DEF Tables
  <1>4. r.modules[m] \in ModuleRows
    BY <1>3, MapFacts
  <1>5. row \in ModuleRows
    BY <1>1, <1>3, <1>4 DEF ModuleRows
  <1>6. f \in Maps(Modules, ModuleRows) /\ DOMAIN f = DOMAIN r.modules /\ f[m] = row
        /\ \A n \in DOMAIN r.modules : n # m => f[n] = r.modules[n]
    BY <1>1, <1>3, <1>5, ExceptFacts
  <1>7. q = [r EXCEPT !.modules = f]
    <2>1. q = [r EXCEPT !.modules[m].policy = chain.policy[m]]
      BY DEF SetPolicy
    <2> QED
      BY <1>1, <2>1
  <1>8. q \in Tables /\ q.modules = f /\ q.refused = r.refused /\ Kept(q, r, {"modules"})
    BY <1>6, <1>7, ModulesSet
  <1> QED
    BY <1>1, <1>5, <1>6, <1>8

\* The pre-propose module it is linked to.
LEMMA SetPreProposeIs ==
    ASSUME NEW r \in Tables, NEW m \in DOMAIN r.modules, NEW c \in PreProposes \cup {None},
           NEW q, q = SetPrePropose(r, m, c)
    PROVE  /\ c \notin r.prePropose \cup {None} => q.refused
           /\ c \in r.prePropose \cup {None} =>
                /\ q \in Tables /\ q.refused = r.refused /\ Kept(q, r, {"modules"})
                /\ DOMAIN q.modules = DOMAIN r.modules
                /\ \A n \in DOMAIN r.modules : n # m => q.modules[n] = r.modules[n]
                /\ q.modules[m] \in ModuleRows /\ q.modules[m] = [r.modules[m] EXCEPT !.prePropose = c]
  <1>1. CASE c \notin r.prePropose \cup {None}
    BY <1>1 DEF SetPrePropose, Refuse, Tables
  <1>2. CASE c \in r.prePropose \cup {None}
    <2>1. PICK row, f : /\ row = [r.modules[m] EXCEPT !.prePropose = c]
                        /\ f = [r.modules EXCEPT ![m] = row]
      OBVIOUS
    <2>2. r.modules \in Maps(Modules, ModuleRows)
      BY DEF Tables
    <2>3. r.modules[m] \in ModuleRows
      BY <2>2, MapFacts
    <2>4. row \in ModuleRows
      BY <2>1, <2>3 DEF ModuleRows
    <2>5. f \in Maps(Modules, ModuleRows) /\ DOMAIN f = DOMAIN r.modules /\ f[m] = row
          /\ \A n \in DOMAIN r.modules : n # m => f[n] = r.modules[n]
      BY <2>1, <2>2, <2>4, ExceptFacts
    <2>6. q = [r EXCEPT !.modules = f]
      <3>1. q = [r EXCEPT !.modules[m].prePropose = c]
        BY <1>2 DEF SetPrePropose
      <3> QED
        BY <2>1, <3>1
    <2>7. q \in Tables /\ q.modules = f /\ q.refused = r.refused /\ Kept(q, r, {"modules"})
      BY <2>5, <2>6, ModulesSet
    <2> QED
      BY <1>2, <2>1, <2>4, <2>5, <2>7
  <1> QED
    BY <1>1, <1>2

\* Both.
LEMMA UpdatedIs ==
    ASSUME NEW r \in Tables, ChainOK(chain), NEW m \in DOMAIN chain.policy, m \in DOMAIN r.modules,
           NEW c \in PreProposes \cup {None}, NEW q, q = UpdatedPrePropose(r, m, c)
    PROVE  /\ c \notin r.prePropose \cup {None} => q.refused
           /\ c \in r.prePropose \cup {None} =>
                /\ q \in Tables /\ q.refused = r.refused /\ Kept(q, r, {"modules"})
                /\ DOMAIN q.modules = DOMAIN r.modules
                /\ \A n \in DOMAIN r.modules : n # m => q.modules[n] = r.modules[n]
                /\ q.modules[m].status = r.modules[m].status
                /\ q.modules[m].whole = r.modules[m].whole
                /\ q.modules[m].policy = chain.policy[m]
                /\ q.modules[m].prePropose = c
  <1>1. PICK s : s = SetPolicy(r, m)
    OBVIOUS
  <1>2. /\ s \in Tables /\ s.refused = r.refused /\ Kept(s, r, {"modules"})
        /\ DOMAIN s.modules = DOMAIN r.modules
        /\ \A n \in DOMAIN r.modules : n # m => s.modules[n] = r.modules[n]
        /\ s.modules[m] = [r.modules[m] EXCEPT !.policy = chain.policy[m]]
        /\ s.modules[m] \in ModuleRows
    BY <1>1, SetPolicyIs
  <1>3. q = SetPrePropose(s, m, c) /\ m \in DOMAIN s.modules /\ s.prePropose = r.prePropose
    BY <1>1, <1>2 DEF UpdatedPrePropose, Kept
  <1>4. s \in Tables
    BY <1>2
  <1>5. /\ c \notin s.prePropose \cup {None} => q.refused
        /\ c \in s.prePropose \cup {None} =>
             /\ q \in Tables /\ q.refused = s.refused /\ Kept(q, s, {"modules"})
             /\ DOMAIN q.modules = DOMAIN s.modules
             /\ \A n \in DOMAIN s.modules : n # m => q.modules[n] = s.modules[n]
             /\ q.modules[m] = [s.modules[m] EXCEPT !.prePropose = c]
    BY <1>3, <1>4, SetPreProposeIs
  <1>6. CASE c \notin r.prePropose \cup {None}
    BY <1>3, <1>5, <1>6
  <1>7. CASE c \in r.prePropose \cup {None}
    <2>1. /\ q \in Tables /\ q.refused = s.refused /\ Kept(q, s, {"modules"})
          /\ DOMAIN q.modules = DOMAIN s.modules
          /\ \A n \in DOMAIN s.modules : n # m => q.modules[n] = s.modules[n]
          /\ q.modules[m] = [s.modules[m] EXCEPT !.prePropose = c]
      BY <1>3, <1>5, <1>7
    <2>2. Kept(q, r, {"modules"})
      BY <1>2, <2>1 DEF Kept
    <2>3. r.modules[m] \in ModuleRows
      BY MapFacts DEF Tables
    <2>4. PICK a, b, d : a = r.modules[m] /\ b = s.modules[m] /\ d = q.modules[m]
      OBVIOUS
    <2>5. /\ a \in ModuleRows /\ b \in ModuleRows
          /\ b = [a EXCEPT !.policy = chain.policy[m]] /\ d = [b EXCEPT !.prePropose = c]
      BY <1>2, <2>1, <2>3, <2>4
    <2>6. d.status = a.status /\ d.whole = a.whole /\ d.policy = chain.policy[m] /\ d.prePropose = c
      BY <2>5 DEF ModuleRows
    <2> QED
      BY <1>2, <1>7, <2>1, <2>2, <2>4, <2>6
  <1> QED
    BY <1>6, <1>7

\* update_pre_propose_module.
LEMMA PreProposeSeen ==
    ASSUME NEW r, NEW es, NEW i, NEW x, NEW w,
           Handling(r, es, i, x, w, "update_pre_propose_module"),
           NEW q, q = UpdatedPrePropose(r, es[i + 1].of, es[i + 1].about), ~ q.refused
    PROVE  Seen(q, es, i + 1, x, w) /\ q.wasm = r.wasm
  <1>1. r \in Tables /\ ~ r.refused /\ RowsSeen(r, es, i, chain, x, w) /\ ChainOK(chain)
    BY DEF Handling, Seen
  <1>2. PICK m, c, ch, j : m = es[i + 1].of /\ c = es[i + 1].about /\ ch = chain /\ j = i + 1
    OBVIOUS
  <1>3. /\ m \in DOMAIN ch.policy /\ ~ ToInstantiate(es, j, m)
        /\ c \in PreProposes
        /\ c = ch.policy[m] \/ ToSetPolicy(es, j, m)
    BY <1>2, NextTold DEF EventTold, PreProposeTold
  <1>4. m \in Modules /\ m \in DOMAIN ch.status
    BY <1>1, <1>2, <1>3 DEF ChainOK
  <1>5. \A k, n : To(es, i, k, n) <=> ("update_pre_propose_module" = k /\ m = n) \/ To(es, j, k, n)
    BY <1>2, NextTold
  <1>6. CASE m \in DOMAIN r.modules
    <2>1. c \in r.prePropose \cup {None}
      BY <1>1, <1>2, <1>3, <1>6, UpdatedIs
    <2>2. /\ q \in Tables /\ q.refused = r.refused /\ Kept(q, r, {"modules"})
          /\ DOMAIN q.modules = DOMAIN r.modules
          /\ \A n \in DOMAIN r.modules : n # m => q.modules[n] = r.modules[n]
          /\ q.modules[m].status = r.modules[m].status /\ q.modules[m].whole = r.modules[m].whole
          /\ q.modules[m].policy = ch.policy[m] /\ q.modules[m].prePropose = c
      BY <1>1, <1>2, <1>3, <1>6, <2>1, UpdatedIs
    <2>3. ASSUME m \notin x PROVE ModuleSeen(q.modules[m], es, j, ch, m, w)
      <3>1. ModuleSeen(r.modules[m], es, i, ch, m, w)
        BY <1>1, <1>2, <1>4, <1>6, <2>3 DEF RowsSeen, ModulesSeen
      <3>2. /\ ToInstantiate(es, i, m) <=> ToInstantiate(es, j, m)
            /\ ToRefresh(es, i) <=> ToRefresh(es, j)
        BY <1>5 DEF ToInstantiate, ToRefresh
      <3>3. c # Anyone
        BY <1>3, Kinds DEF Contracts
      <3> QED
        BY <1>3, <2>2, <3>1, <3>2, <3>3 DEF ModuleSeen, Target
    <2>4. DOMAIN q.modules = DOMAIN r.modules \cup {m}
      BY <1>6, <2>2
    <2>5. ~ q.refused /\ q \in Tables /\ Kept(q, r, {"modules"}) /\ q.wasm = r.wasm
      BY <2>2 DEF Kept
    <2>6. Seen(q, es, i + 1, x, w)
      <3>1. /\ es[i + 1].of = m /\ m \in DOMAIN chain.status /\ m \in Modules
            /\ \A n \in DOMAIN r.modules : n # m => q.modules[n] = r.modules[n]
            /\ m \notin x => ModuleSeen(q.modules[m], es, i + 1, chain, m, w)
        BY <1>2, <1>4, <2>2, <2>3
      <3> QED
        BY <2>4, <2>5, <3>1, OneModuleSeen
    <2> QED
      BY <2>5, <2>6
  <1>7. CASE m \notin DOMAIN r.modules
    <2>1. q = r
      BY <1>2, <1>7 DEF UpdatedPrePropose, SetPolicy, SetPrePropose
    <2>2. m \in x
      <3>1. ~ ToInstantiate(es, i, m)
        BY <1>3, <1>5 DEF ToInstantiate
      <3> QED
        BY <1>1, <1>2, <1>4, <1>7, <3>1 DEF RowsSeen, ModulesSeen
    <2>3. Silent(es[i + 1], x, {}) /\ Kept(q, r, {}) /\ Renewed(q, es, i + 1, x, w, {})
      BY <1>2, <2>1, <2>2 DEF Silent, Kept, Renewed, Handling
    <2> QED
      BY <1>1, <2>1, <2>3, OthersSeen DEF Seen
  <1> QED
    BY <1>6, <1>7

\* update_policy.
LEMMA PolicySeen ==
    ASSUME NEW r, NEW es, NEW i, NEW x, NEW w, Handling(r, es, i, x, w, "update_policy"),
           NEW q, q = UpdatedPolicy(r, es[i + 1].of)
    PROVE  Seen(q, es, i + 1, x, w) /\ q.wasm = r.wasm
  <1>1. r \in Tables /\ ~ r.refused /\ RowsSeen(r, es, i, chain, x, w) /\ ChainOK(chain)
    BY DEF Handling, Seen
  <1>2. PICK m, ch, j : m = es[i + 1].of /\ ch = chain /\ j = i + 1
    OBVIOUS
  <1>3. PICK c : c = Target(ch.policy[m])
    OBVIOUS
  <1>4. /\ m \in DOMAIN ch.policy /\ ~ ToInstantiate(es, j, m)
        /\ ch.policy[m] = Anyone \/ ToSetPolicy(es, j, m)
    BY <1>2, NextTold DEF EventTold, PolicyTold
  <1>5. m \in Modules /\ m \in DOMAIN ch.status /\ ch.policy \in Maps(Modules, PreProposes \cup {Anyone})
    BY <1>1, <1>2, <1>4 DEF ChainOK, ChainStates
  <1>6. c \in PreProposes \cup {None}
    BY <1>3, <1>4, <1>5, MapFacts DEF Target
  <1>7. q = IF c \in r.prePropose \cup {None} THEN UpdatedPrePropose(r, m, c) ELSE SetPolicy(r, m)
    BY <1>2, <1>3 DEF UpdatedPolicy, Target
  <1>8. \A k, n : To(es, i, k, n) <=> ("update_policy" = k /\ m = n) \/ To(es, j, k, n)
    BY <1>2, NextTold
  <1>9. CASE m \in DOMAIN r.modules
    <2>1. /\ q \in Tables /\ ~ q.refused /\ Kept(q, r, {"modules"})
          /\ DOMAIN q.modules = DOMAIN r.modules
          /\ \A n \in DOMAIN r.modules : n # m => q.modules[n] = r.modules[n]
          /\ q.modules[m].status = r.modules[m].status /\ q.modules[m].whole = r.modules[m].whole
          /\ q.modules[m].policy = ch.policy[m]
          /\ q.modules[m].prePropose = c \/ c # None
      <3>1. CASE c \in r.prePropose \cup {None}
        <4>1. q = UpdatedPrePropose(r, m, c)
          BY <1>7, <3>1
        <4> QED
          BY <1>1, <1>2, <1>4, <1>6, <1>9, <3>1, <4>1, UpdatedIs
      <3>2. CASE c \notin r.prePropose \cup {None}
        <4>1. q = SetPolicy(r, m)
          BY <1>7, <3>2
        <4>2. /\ q \in Tables /\ q.refused = r.refused /\ Kept(q, r, {"modules"})
              /\ DOMAIN q.modules = DOMAIN r.modules
              /\ \A n \in DOMAIN r.modules : n # m => q.modules[n] = r.modules[n]
              /\ q.modules[m] = [r.modules[m] EXCEPT !.policy = ch.policy[m]]
          BY <1>1, <1>2, <1>4, <1>9, <4>1, SetPolicyIs
        <4>3. r.modules[m] \in ModuleRows
          BY <1>1, <1>9, MapFacts DEF Tables
        <4>4. PICK a, d, p : a = r.modules[m] /\ d = q.modules[m] /\ p = ch.policy[m]
          OBVIOUS
        <4>5. a \in ModuleRows /\ d = [a EXCEPT !.policy = p]
          BY <4>2, <4>3, <4>4
        <4>6. d.status = a.status /\ d.whole = a.whole /\ d.policy = p
          BY <4>5 DEF ModuleRows
        <4> QED
          BY <1>1, <3>2, <4>2, <4>4, <4>6
      <3> QED
        BY <3>1, <3>2
    <2>2. ASSUME m \notin x PROVE ModuleSeen(q.modules[m], es, j, ch, m, w)
      <3>1. ModuleSeen(r.modules[m], es, i, ch, m, w)
        BY <1>1, <1>2, <1>5, <1>9, <2>2 DEF RowsSeen, ModulesSeen
      <3>2. /\ ToInstantiate(es, i, m) <=> ToInstantiate(es, j, m)
            /\ ToRefresh(es, i) <=> ToRefresh(es, j)
        BY <1>8 DEF ToInstantiate, ToRefresh
      <3>3. c # None => ToSetPolicy(es, j, m)
        BY <1>3, <1>4 DEF Target
      <3> QED
        BY <1>3, <2>1, <3>1, <3>2, <3>3 DEF ModuleSeen
    <2>3. DOMAIN q.modules = DOMAIN r.modules \cup {m}
      BY <1>9, <2>1
    <2> QED
      BY <1>2, <1>5, <2>1, <2>2, <2>3, OneModuleSeen DEF Kept
  <1>10. CASE m \notin DOMAIN r.modules
    <2>1. q = r
      BY <1>7, <1>10 DEF UpdatedPrePropose, SetPolicy, SetPrePropose
    <2>2. m \in x
      <3>1. ~ ToInstantiate(es, i, m)
        BY <1>4, <1>8 DEF ToInstantiate
      <3> QED
        BY <1>1, <1>2, <1>5, <1>10, <3>1 DEF RowsSeen, ModulesSeen
    <2>3. Silent(es[i + 1], x, {}) /\ Kept(q, r, {}) /\ Renewed(q, es, i + 1, x, w, {})
      BY <1>2, <2>1, <2>2 DEF Silent, Kept, Renewed, Handling
    <2> QED
      BY <1>1, <2>1, <2>3, OthersSeen DEF Seen
  <1> QED
    BY <1>9, <1>10

\* One proposal's row is another.
LEMMA OneProposalSeen ==
    ASSUME NEW r, NEW es, NEW i, NEW x, NEW w, NEW t, Handling(r, es, i, x, w, t),
           NEW m \in DOMAIN chain.proposals, es[i + 1].of = m, NEW q,
           \A n \in Modules : n # m =>
               /\ n \in DOMAIN q.proposals <=> n \in DOMAIN r.proposals
               /\ n \in DOMAIN r.proposals => q.proposals[n] = r.proposals[n],
           m \notin x =>
               /\ m \in DOMAIN q.proposals \/ To(es, i + 1, "propose", m)
               /\ m \in DOMAIN q.proposals =>
                    q.proposals[m] = chain.proposals[m] \/ ToConclude(es, i + 1, m)
    PROVE  ProposalsSeen(q, es, i + 1, chain, x)
  <1>1. PICK ch, j : ch = chain /\ j = i + 1
    OBVIOUS
  <1>2. ProposalsSeen(r, es, i, ch, x)
    BY <1>1 DEF Handling, Seen, RowsSeen
  <1>3. \A k, c : To(es, i, k, c) <=> (t = k /\ c = m) \/ To(es, j, k, c)
    BY <1>1, NextTold
  <1>4. ASSUME NEW n \in Modules \ x
        PROVE  /\ n \in DOMAIN q.proposals =>
                    /\ n \in DOMAIN ch.proposals
                    /\ q.proposals[n] = ch.proposals[n] \/ ToConclude(es, j, n)
               /\ n \in DOMAIN ch.proposals => n \in DOMAIN q.proposals \/ To(es, j, "propose", n)
    <2>1. CASE n = m
      BY <1>1, <2>1
    <2>2. CASE n # m
      <3>1. /\ n \in DOMAIN q.proposals <=> n \in DOMAIN r.proposals
            /\ n \in DOMAIN r.proposals => q.proposals[n] = r.proposals[n]
        BY <2>2
      <3>2. /\ To(es, i, "propose", n) <=> To(es, j, "propose", n)
            /\ ToConclude(es, i, n) <=> ToConclude(es, j, n)
        BY <1>3, <2>2 DEF ToConclude
      <3> QED
        BY <1>2, <3>1, <3>2 DEF ProposalsSeen
    <2> QED
      BY <2>1, <2>2
  <1> QED
    BY <1>1, <1>4 DEF ProposalsSeen

\* The status that is now the proposal's.
LEMMA SetStatusIs ==
    ASSUME NEW r \in Tables, ChainOK(chain), NEW m \in DOMAIN chain.proposals,
           NEW q, q = SetStatus(r, m)
    PROVE  /\ q \in Tables /\ q.refused = r.refused /\ Kept(q, r, {"proposals"})
           /\ DOMAIN q.proposals = DOMAIN r.proposals
           /\ \A n \in DOMAIN r.proposals : n # m => q.proposals[n] = r.proposals[n]
           /\ m \in DOMAIN r.proposals => q.proposals[m] = chain.proposals[m]
  <1>1. CASE m \notin DOMAIN r.proposals
    <2>1. q = r
      BY <1>1 DEF SetStatus
    <2> QED
      BY <1>1, <2>1 DEF Kept
  <1>2. CASE m \in DOMAIN r.proposals
    <2>1. PICK p, g, f : p = chain.proposals[m] /\ g = r.proposals /\ f = [g EXCEPT ![m] = p]
      OBVIOUS
    <2>2. chain.proposals \in Maps(Modules, ProposalStatuses) /\ r.proposals \in Maps(Modules, ProposalStatuses)
      BY DEF ChainOK, ChainStates, Tables
    <2>3. p \in ProposalStatuses /\ g \in Maps(Modules, ProposalStatuses) /\ m \in DOMAIN g
      BY <1>2, <2>1, <2>2, MapFacts
    <2>4. f \in Maps(Modules, ProposalStatuses) /\ DOMAIN f = DOMAIN g /\ f[m] = p
          /\ \A n \in DOMAIN g : n # m => f[n] = g[n]
      BY <2>1, <2>3, ExceptFacts
    <2>5. q = [r EXCEPT !.proposals = f]
      <3>1. q = [r EXCEPT !.proposals[m] = chain.proposals[m]]
        BY <1>2 DEF SetStatus
      <3> QED
        BY <2>1, <3>1
    <2>6. q \in Tables /\ q.refused = r.refused /\ Kept(q, r, {"proposals"}) /\ q.proposals = f
      BY <2>4, <2>5 DEF Tables, Kept
    <2> QED
      BY <2>1, <2>4, <2>6
  <1> QED
    BY <1>1, <1>2

\* A proposal's row is made when there is none yet.
LEMMA CreateProposalIs ==
    ASSUME NEW r \in Tables, ~ r.refused, ChainOK(chain), NEW m \in DOMAIN chain.proposals,
           NEW q, q = CreateProposal(r, m)
    PROVE  /\ m \notin DOMAIN r.modules => q.refused
           /\ m \in DOMAIN r.modules =>
                /\ q \in Tables /\ ~ q.refused /\ Kept(q, r, {"proposals"})
                /\ DOMAIN q.proposals = DOMAIN r.proposals \cup {m}
                /\ \A n \in DOMAIN r.proposals : q.proposals[n] = r.proposals[n]
                /\ m \notin DOMAIN r.proposals => q.proposals[m] = chain.proposals[m]
  <1>1. CASE m \notin DOMAIN r.modules
    BY <1>1 DEF CreateProposal, Refuse, Tables
  <1>2. CASE m \in DOMAIN r.modules /\ m \in DOMAIN r.proposals
    <2>1. q = r
      BY <1>2 DEF CreateProposal
    <2> QED
      BY <1>2, <2>1 DEF Kept
  <1>3. CASE m \in DOMAIN r.modules /\ m \notin DOMAIN r.proposals
    <2>1. PICK p, g, f : p = chain.proposals[m] /\ g = r.proposals /\ f = With(g, m, p)
      OBVIOUS
    <2>2. chain.proposals \in Maps(Modules, ProposalStatuses) /\ r.proposals \in Maps(Modules, ProposalStatuses)
      BY DEF ChainOK, ChainStates, Tables
    <2>3. p \in ProposalStatuses /\ g \in Maps(Modules, ProposalStatuses) /\ m \in Modules
      BY <2>1, <2>2, MapFacts
    <2>4. f \in Maps(Modules, ProposalStatuses) /\ DOMAIN f = DOMAIN g \cup {m} /\ f[m] = p
          /\ \A n \in DOMAIN g : n # m => f[n] = g[n]
      <3>1. f \in Maps(Modules, ProposalStatuses)
        BY <2>1, <2>3, WithMap
      <3>2. f = With(g, m, p)
        BY <2>1
      <3> QED
        BY <3>1, <3>2 DEF With
    <2>5. q = [r EXCEPT !.proposals = f]
      BY <1>3, <2>1 DEF CreateProposal
    <2>6. q \in Tables /\ q.refused = r.refused /\ Kept(q, r, {"proposals"}) /\ q.proposals = f
      BY <2>4, <2>5 DEF Tables, Kept
    <2> QED
      BY <1>3, <2>1, <2>4, <2>6
  <1> QED
    BY <1>1, <1>2, <1>3

\* propose.
LEMMA ProposeSeen ==
    ASSUME NEW r, NEW es, NEW i, NEW x, NEW w, Handling(r, es, i, x, w, "propose"),
           NEW q, q = CreateProposal(r, es[i + 1].of), ~ q.refused
    PROVE  Seen(q, es, i + 1, x, w) /\ q.wasm = r.wasm
  <1>1. r \in Tables /\ ~ r.refused /\ RowsSeen(r, es, i, chain, x, w) /\ ChainOK(chain)
    BY DEF Handling, Seen
  <1>2. PICK m : m = es[i + 1].of
    OBVIOUS
  <1>3. m \in DOMAIN chain.proposals /\ m \in Modules
    <2>1. m \in DOMAIN chain.proposals
      BY <1>2, NextTold DEF EventTold, ProposeTold
    <2> QED
      BY <1>1, <2>1, MapFacts DEF ChainOK, ChainStates
  <1>4. /\ q \in Tables /\ ~ q.refused /\ Kept(q, r, {"proposals"})
        /\ DOMAIN q.proposals = DOMAIN r.proposals \cup {m}
        /\ \A n \in DOMAIN r.proposals : q.proposals[n] = r.proposals[n]
        /\ m \notin DOMAIN r.proposals => q.proposals[m] = chain.proposals[m]
    BY <1>1, <1>2, <1>3, CreateProposalIs
  <1>5. ASSUME m \notin x, m \in DOMAIN r.proposals
        PROVE  r.proposals[m] = chain.proposals[m] \/ ToConclude(es, i + 1, m)
    <2>1. r.proposals[m] = chain.proposals[m] \/ ToConclude(es, i, m)
      BY <1>1, <1>3, <1>5 DEF RowsSeen, ProposalsSeen
    <2>2. ToConclude(es, i, m) => ToConclude(es, i + 1, m)
      BY NextTold DEF ToConclude
    <2> QED
      BY <2>1, <2>2
  <1>6. ProposalsSeen(q, es, i + 1, chain, x)
    BY <1>2, <1>3, <1>4, <1>5, OneProposalSeen
  <1>7. Silent(es[i + 1], x, {"proposals"})
    BY DEF Silent, Handling
  <1>8. Renewed(q, es, i + 1, x, w, {"proposals"})
    BY <1>6 DEF Renewed
  <1> QED
    BY <1>4, <1>7, <1>8, OthersSeen DEF Seen, Kept

\* A proposal that is executed or closed.
LEMMA ConcludeSeen ==
    ASSUME NEW r, NEW es, NEW i, NEW x, NEW w, Handling(r, es, i, x, w, "conclude"),
           NEW q, q = SetStatus(r, es[i + 1].of)
    PROVE  Seen(q, es, i + 1, x, w) /\ q.wasm = r.wasm
  <1>1. r \in Tables /\ ~ r.refused /\ RowsSeen(r, es, i, chain, x, w) /\ ChainOK(chain)
    BY DEF Handling, Seen
  <1>2. PICK m : m = es[i + 1].of
    OBVIOUS
  <1>3. m \in DOMAIN chain.proposals /\ m \in Modules
    <2>1. m \in DOMAIN chain.proposals
      BY <1>2, NextTold DEF EventTold
    <2> QED
      BY <1>1, <2>1, MapFacts DEF ChainOK, ChainStates
  <1>4. /\ q \in Tables /\ q.refused = r.refused /\ Kept(q, r, {"proposals"})
        /\ DOMAIN q.proposals = DOMAIN r.proposals
        /\ \A n \in DOMAIN r.proposals : n # m => q.proposals[n] = r.proposals[n]
        /\ m \in DOMAIN r.proposals => q.proposals[m] = chain.proposals[m]
    BY <1>1, <1>2, <1>3, SetStatusIs
  <1>5. ASSUME m \notin x, m \notin DOMAIN r.proposals
        PROVE  To(es, i + 1, "propose", m)
    <2>1. To(es, i, "propose", m)
      BY <1>1, <1>3, <1>5 DEF RowsSeen, ProposalsSeen
    <2> QED
      BY <2>1, NextTold
  <1>6. ProposalsSeen(q, es, i + 1, chain, x)
    BY <1>2, <1>3, <1>4, <1>5, OneProposalSeen
  <1>7. Silent(es[i + 1], x, {"proposals"})
    BY DEF Silent, Handling
  <1>8. Renewed(q, es, i + 1, x, w, {"proposals"})
    BY <1>6 DEF Renewed
  <1> QED
    BY <1>1, <1>4, <1>7, <1>8, OthersSeen DEF Seen, Kept

\* A vote's row, when the proposal's is there.
LEMMA SetVoteIs ==
    ASSUME NEW r \in Tables, ChainOK(chain), NEW m, NEW voter, <<m, voter>> \in DOMAIN chain.ballots,
           NEW q, q = SetVote(r, m, voter)
    PROVE  /\ m \notin DOMAIN r.proposals => q.refused
           /\ m \in DOMAIN r.proposals =>
                /\ q \in Tables /\ q.refused = r.refused /\ Kept(q, r, {"ballots"})
                /\ DOMAIN q.ballots = DOMAIN r.ballots \cup {<<m, voter>>}
                /\ \A b \in DOMAIN r.ballots : b # <<m, voter>> => q.ballots[b] = r.ballots[b]
                /\ q.ballots[<<m, voter>>] = chain.ballots[<<m, voter>>].choice
  <1>1. CASE m \notin DOMAIN r.proposals
    BY <1>1 DEF SetVote, Refuse, Tables
  <1>2. CASE m \in DOMAIN r.proposals
    <2>1. PICK b, c, g, f, T : /\ b = <<m, voter>> /\ c = chain.ballots[b].choice /\ g = r.ballots
                               /\ f = With(g, b, c) /\ T = [choice : YesNo, height : Nat]
      OBVIOUS
    <2>2. chain.ballots \in Maps(Ballots, T) /\ r.ballots \in Maps(Ballots, YesNo)
          /\ b \in DOMAIN chain.ballots
      BY <2>1 DEF ChainOK, ChainStates, Tables
    <2>3. b \in Ballots /\ chain.ballots[b] \in T
      BY <2>2, MapFacts
    <2>4. c \in YesNo
      BY <2>1, <2>3
    <2>5. g \in Maps(Ballots, YesNo)
      BY <2>1, <2>2
    <2>6. f = With(g, b, c)
      BY <2>1
    <2>7. f \in Maps(Ballots, YesNo) /\ DOMAIN f = DOMAIN g \cup {b} /\ f[b] = c
          /\ \A d \in DOMAIN g : d # b => f[d] = g[d]
      <3>1. f \in Maps(Ballots, YesNo)
        BY <2>3, <2>4, <2>5, <2>6, WithMap
      <3> QED
        BY <2>6, <3>1 DEF With
    <2>8. q = [r EXCEPT !.ballots = f]
      BY <1>2, <2>1 DEF SetVote
    <2>9. q \in Tables /\ q.refused = r.refused /\ Kept(q, r, {"ballots"}) /\ q.ballots = f
      BY <2>7, <2>8 DEF Tables, Kept
    <2> QED
      BY <1>2, <2>1, <2>7, <2>9
  <1> QED
    BY <1>1, <1>2

\* vote.
LEMMA VoteSeen ==
    ASSUME NEW r, NEW es, NEW i, NEW x, NEW w, Handling(r, es, i, x, w, "vote"),
           NEW q, q = Voted(r, es[i + 1].of, es[i + 1].about), ~ q.refused
    PROVE  Seen(q, es, i + 1, x, w) /\ q.wasm = r.wasm
  <1>1. /\ r \in Tables /\ ~ r.refused /\ RowsSeen(r, es, i, chain, x, w) /\ ChainOK(chain)
        /\ es \in Seq(Events) /\ i \in Nat /\ i < Len(es)
    BY DEF Handling, Seen
  <1>2. PICK m, voter, ch, j : m = es[i + 1].of /\ voter = es[i + 1].about /\ ch = chain /\ j = i + 1
    OBVIOUS
  <1>3. PICK b : b = <<m, voter>>
    OBVIOUS
  <1>4. b \in DOMAIN ch.ballots
    BY <1>2, <1>3, NextTold DEF EventTold, VoteTold
  <1>5. m \in DOMAIN ch.proposals /\ m \in Modules
    <2>1. b[1] \in DOMAIN ch.proposals /\ ch.proposals \in Maps(Modules, ProposalStatuses)
      BY <1>1, <1>2, <1>4 DEF ChainOK, ChainStates
    <2>2. b[1] = m
      BY <1>3
    <2> QED
      BY <2>1, <2>2, MapFacts
  <1>6. PICK s : s = SetVote(r, m, voter)
    OBVIOUS
  <1>7. q = SetStatus(s, m)
    BY <1>2, <1>6 DEF Voted
  <1>8. m \in DOMAIN r.proposals
    <2> SUFFICES ASSUME m \notin DOMAIN r.proposals PROVE FALSE
      OBVIOUS
    <2>1. s = [r EXCEPT !.refused = TRUE]
      BY <1>6 DEF SetVote, Refuse
    <2>2. s \in Tables /\ s.refused /\ s.proposals = r.proposals
      BY <1>1, <2>1 DEF Tables
    <2>3. q = s
      BY <1>7, <2>2 DEF SetStatus
    <2> QED
      BY <2>2, <2>3
  <1>9. /\ s \in Tables /\ s.refused = r.refused /\ Kept(s, r, {"ballots"})
        /\ DOMAIN s.ballots = DOMAIN r.ballots \cup {b}
        /\ \A d \in DOMAIN r.ballots : d # b => s.ballots[d] = r.ballots[d]
        /\ s.ballots[b] = ch.ballots[b].choice
    BY <1>1, <1>2, <1>3, <1>4, <1>6, <1>8, SetVoteIs
  <1>10. s.proposals = r.proposals
    BY <1>9 DEF Kept
  <1>11. /\ q \in Tables /\ q.refused = s.refused /\ Kept(q, s, {"proposals"})
         /\ DOMAIN q.proposals = DOMAIN s.proposals
         /\ \A n \in DOMAIN s.proposals : n # m => q.proposals[n] = s.proposals[n]
         /\ m \in DOMAIN s.proposals => q.proposals[m] = ch.proposals[m]
    BY <1>1, <1>2, <1>5, <1>7, <1>9, SetStatusIs
  <1>12. Kept(q, r, {"proposals", "ballots"}) /\ q.ballots = s.ballots
    BY <1>9, <1>11 DEF Kept
  <1>13. ProposalsSeen(q, es, i + 1, chain, x)
    BY <1>2, <1>5, <1>8, <1>10, <1>11, OneProposalSeen
  <1>14. BallotsSeen(q, es, j, ch, x)
    <2>1. BallotsSeen(r, es, i, ch, x)
      BY <1>1, <1>2 DEF RowsSeen
    <2>2. ASSUME NEW d, ToVote(es, i, d), d # b PROVE ToVote(es, j, d)
      BY <1>1, <1>2, <1>3, <2>2, ToVoteStep
    <2> QED
      BY <1>9, <1>12, <2>1, <2>2 DEF BallotsSeen
  <1>15. Silent(es[i + 1], x, {"proposals", "ballots"})
    BY DEF Silent, Handling
  <1>16. Renewed(q, es, i + 1, x, w, {"proposals", "ballots"})
    BY <1>2, <1>13, <1>14 DEF Renewed
  <1> QED
    BY <1>1, <1>9, <1>11, <1>12, <1>15, <1>16, OthersSeen DEF Seen, Kept

\* A row for an approval.
LEMMA ApprovalIs ==
    ASSUME NEW r \in Tables, NEW c \in PreProposes, NEW s, s \in {"pending", "approved", "rejected"},
           NEW f, f = With(r.approvals, c, s), NEW q, q = [r EXCEPT !.approvals = f]
    PROVE  /\ q \in Tables /\ q.refused = r.refused /\ Kept(q, r, {"approvals"})
           /\ DOMAIN q.approvals = DOMAIN r.approvals \cup {c} /\ q.approvals[c] = s
           /\ \A d \in DOMAIN r.approvals : d # c => q.approvals[d] = r.approvals[d]
  <1>1. f \in Maps(PreProposes, {"pending", "approved", "rejected"})
    <2>1. PICK g, T : g = r.approvals /\ T = {"pending", "approved", "rejected"}
      OBVIOUS
    <2>2. g \in Maps(PreProposes, T) /\ s \in T /\ f = With(g, c, s)
      BY <2>1 DEF Tables
    <2>3. f \in Maps(PreProposes, T)
      BY <2>2, WithMap
    <2> QED
      BY <2>1, <2>3
  <1>2. /\ DOMAIN f = DOMAIN r.approvals \cup {c} /\ f[c] = s
        /\ \A d \in DOMAIN r.approvals : d # c => f[d] = r.approvals[d]
    BY DEF With
  <1>3. q \in Tables /\ q.refused = r.refused /\ Kept(q, r, {"approvals"}) /\ q.approvals = f
    BY <1>1 DEF Tables, Kept
  <1> QED
    BY <1>2, <1>3

\* One approval's row is another.
LEMMA OneApprovalSeen ==
    ASSUME NEW r, NEW es, NEW i, NEW x, NEW w, NEW t, Handling(r, es, i, x, w, t),
           t \in {"submit", "resolve"}, NEW c, es[i + 1].of = c,
           NEW q, q \in Tables, ~ q.refused, Kept(q, r, {"approvals"}),
           DOMAIN q.approvals = DOMAIN r.approvals \cup {c},
           q.approvals[c] = chain.approvals[c].state \/ To(es, i + 1, "resolve", c),
           \A d \in DOMAIN r.approvals : d # c => q.approvals[d] = r.approvals[d]
    PROVE  Seen(q, es, i + 1, x, w)
  <1>1. PICK ch, j : ch = chain /\ j = i + 1
    OBVIOUS
  <1>2. \A k, n : To(es, i, k, n) <=> (t = k /\ c = n) \/ To(es, j, k, n)
    BY <1>1, NextTold
  <1>3. ApprovalsSeen(r, es, i, ch)
    BY <1>1 DEF Handling, Seen, RowsSeen
  <1>4. ASSUME NEW d \in DOMAIN ch.approvals, ch.approvals[d].height >= Cutoff
        PROVE  \/ To(es, j, "submit", d)
               \/ /\ d \in DOMAIN q.approvals
                  /\ q.approvals[d] = ch.approvals[d].state \/ To(es, j, "resolve", d)
    <2>1. CASE d = c
      BY <1>1, <2>1
    <2>2. CASE d # c
      BY <1>2, <1>3, <1>4, <2>2 DEF ApprovalsSeen
    <2> QED
      BY <2>1, <2>2
  <1>5. ApprovalsSeen(q, es, j, ch)
    BY <1>4 DEF ApprovalsSeen
  <1>6. Silent(es[i + 1], x, {"approvals"})
    BY DEF Silent, Handling
  <1>7. Renewed(q, es, i + 1, x, w, {"approvals"})
    BY <1>1, <1>5 DEF Renewed
  <1> QED
    BY <1>6, <1>7, OthersSeen DEF Seen

\* submit.
LEMMA SubmitSeen ==
    ASSUME NEW r, NEW es, NEW i, NEW x, NEW w, Handling(r, es, i, x, w, "submit"),
           NEW q, q = Submitted(r, es[i + 1].of), ~ q.refused
    PROVE  Seen(q, es, i + 1, x, w) /\ q.wasm = r.wasm
  <1>1. r \in Tables /\ ~ r.refused /\ ChainOK(chain)
    BY DEF Handling, Seen
  <1>2. PICK c : c = es[i + 1].of
    OBVIOUS
  <1>3. c \in PreProposes
    <2>1. c \in DOMAIN chain.approvals
      BY <1>2, NextTold DEF EventTold, SubmitTold
    <2> QED
      BY <1>1, <2>1, MapFacts DEF ChainOK, ChainStates
  <1>4. /\ chain.approvals[c].state = "pending"
        /\ q = [r EXCEPT !.approvals = With(r.approvals, c, "pending")]
    BY <1>1, <1>2 DEF Submitted, Refuse, Tables
  <1>5. PICK f : f = With(r.approvals, c, "pending")
    OBVIOUS
  <1>6. q = [r EXCEPT !.approvals = f]
    BY <1>4, <1>5
  <1>7. /\ q \in Tables /\ q.refused = r.refused /\ Kept(q, r, {"approvals"})
        /\ DOMAIN q.approvals = DOMAIN r.approvals \cup {c} /\ q.approvals[c] = "pending"
        /\ \A d \in DOMAIN r.approvals : d # c => q.approvals[d] = r.approvals[d]
    BY <1>1, <1>3, <1>5, <1>6, ApprovalIs
  <1>8. Seen(q, es, i + 1, x, w)
    <2>1. /\ es[i + 1].of = c /\ q.approvals[c] = chain.approvals[c].state
          /\ q \in Tables /\ ~ q.refused /\ Kept(q, r, {"approvals"})
          /\ DOMAIN q.approvals = DOMAIN r.approvals \cup {c}
          /\ \A d \in DOMAIN r.approvals : d # c => q.approvals[d] = r.approvals[d]
      BY <1>2, <1>4, <1>7
    <2> QED
      BY <2>1, OneApprovalSeen
  <1> QED
    BY <1>7, <1>8 DEF Kept

\* resolve.
LEMMA ResolveSeen ==
    ASSUME NEW r, NEW es, NEW i, NEW x, NEW w, Handling(r, es, i, x, w, "resolve"),
           NEW q, q = Resolved(r, es[i + 1].of, es[i + 1].about)
    PROVE  Seen(q, es, i + 1, x, w) /\ q.wasm = r.wasm
  <1>1. r \in Tables /\ ~ r.refused /\ ChainOK(chain) /\ RowsSeen(r, es, i, chain, x, w)
    BY DEF Handling, Seen
  <1>2. PICK c, s, ch, j : c = es[i + 1].of /\ s = es[i + 1].about /\ ch = chain /\ j = i + 1
    OBVIOUS
  <1>3. c \in DOMAIN ch.approvals /\ s = ch.approvals[c].state
    BY <1>2, NextTold DEF EventTold, ResolveTold
  <1>4. c \in PreProposes /\ s \in {"pending", "approved", "rejected"}
    <2>1. PICK T : T = [state : {"pending", "approved", "rejected"}, height : Nat]
      OBVIOUS
    <2>2. ch.approvals \in Maps(PreProposes, T)
      BY <1>1, <1>2, <2>1 DEF ChainOK, ChainStates
    <2>3. c \in PreProposes /\ ch.approvals[c] \in T
      BY <1>3, <2>2, MapFacts
    <2> QED
      BY <1>3, <2>1, <2>3
  <1>5. CASE c \in DOMAIN r.approvals
    <2>0. PICK f : f = With(r.approvals, c, s)
      OBVIOUS
    <2>1. q = [r EXCEPT !.approvals = f]
      <3>1. q = [r EXCEPT !.approvals[c] = s]
        BY <1>2, <1>5 DEF Resolved
      <3>2. r.approvals = [d \in DOMAIN r.approvals |-> r.approvals[d]]
        BY <1>1, MapFacts DEF Tables
      <3>3. [r.approvals EXCEPT ![c] = s] = With(r.approvals, c, s)
        BY <1>5, <3>2 DEF With
      <3> QED
        BY <2>0, <3>1, <3>3
    <2>2. /\ q \in Tables /\ q.refused = r.refused /\ Kept(q, r, {"approvals"})
          /\ DOMAIN q.approvals = DOMAIN r.approvals \cup {c} /\ q.approvals[c] = s
          /\ \A d \in DOMAIN r.approvals : d # c => q.approvals[d] = r.approvals[d]
      BY <1>1, <1>4, <2>0, <2>1, ApprovalIs
    <2>3. Seen(q, es, i + 1, x, w)
      <3>1. /\ es[i + 1].of = c /\ q.approvals[c] = chain.approvals[c].state
            /\ q \in Tables /\ ~ q.refused /\ Kept(q, r, {"approvals"})
            /\ DOMAIN q.approvals = DOMAIN r.approvals \cup {c}
            /\ \A d \in DOMAIN r.approvals : d # c => q.approvals[d] = r.approvals[d]
        BY <1>1, <1>2, <1>3, <2>2
      <3> QED
        BY <3>1, OneApprovalSeen
    <2> QED
      BY <2>2, <2>3 DEF Kept
  <1>6. CASE c \notin DOMAIN r.approvals
    <2>1. q = r
      BY <1>2, <1>6 DEF Resolved
    <2>2. \A k, n : To(es, i, k, n) <=> ("resolve" = k /\ c = n) \/ To(es, j, k, n)
      BY <1>2, NextTold
    <2>3. ApprovalsSeen(r, es, i, ch)
      BY <1>1, <1>2 DEF RowsSeen
    <2>4. ApprovalsSeen(q, es, j, ch)
      BY <1>6, <2>1, <2>2, <2>3 DEF ApprovalsSeen
    <2>5. /\ Silent(es[i + 1], x, {"approvals"}) /\ Kept(q, r, {"approvals"})
          /\ Renewed(q, es, i + 1, x, w, {"approvals"})
      BY <1>2, <2>1, <2>4 DEF Silent, Kept, Renewed, Handling
    <2> QED
      BY <1>1, <2>1, <2>5, OthersSeen DEF Seen
  <1> QED
    BY <1>5, <1>6

\* A contract is remembered.
Remembered(r, ev) == IF ev.type = "instantiate" THEN [r EXCEPT !.wasm = @ \cup {ev.of}] ELSE r

\* It disturbs nothing that is seen.
LEMMA RememberedSeen ==
    ASSUME NEW r, NEW es, NEW i, NEW x, NEW w, NEW t, Handling(r, es, i, x, w, t),
           NEW k, k = Remembered(r, es[i + 1])
    PROVE  Handling(k, es, i, x, w, t)
  <1>1. r \in Tables /\ ~ r.refused /\ RowsSeen(r, es, i, chain, x, w) /\ ChainOK(chain)
    BY DEF Handling, Seen
  <1>2. CASE t # "instantiate"
    <2>1. k = r
      BY <1>2, NextTold DEF Remembered
    <2> QED
      BY <2>1
  <1>3. CASE t = "instantiate"
    <2>1. PICK c : c = es[i + 1].of
      OBVIOUS
    <2>2. c \in Contracts
      BY <1>1, <1>3, <2>1, NextTold DEF EventTold, InstantiateTold, ChainOK, ChainStates
    <2>3. k = [r EXCEPT !.wasm = r.wasm \cup {c}]
      BY <1>3, <2>1, NextTold DEF Remembered
    <2>4. PICK W : W = r.wasm \cup {c}
      OBVIOUS
    <2>5. W \subseteq Contracts /\ k = [r EXCEPT !.wasm = W]
      BY <1>1, <2>2, <2>3, <2>4 DEF Tables
    <2>6. k \in Tables /\ k.refused = r.refused /\ k.wasm = W
      BY <1>1, <2>5 DEF Tables
    <2>7. /\ k.core = r.core /\ k.votings = r.votings /\ k.prePropose = r.prePropose /\ k.subs = r.subs
          /\ k.modules = r.modules /\ k.proposals = r.proposals /\ k.ballots = r.ballots
          /\ k.approvals = r.approvals
      BY <1>1, <2>5 DEF Tables
    <2>8. RowsSeen(k, es, i, chain, x, w)
      BY <1>1, <2>7 DEF RowsSeen, CoreSeen, ContractsSeen, SubsSeen, ModulesSeen, ProposalsSeen,
                        BallotsSeen, ApprovalsSeen
    <2> QED
      BY <1>1, <2>6, <2>8 DEF Handling, Seen
  <1> QED
    BY <1>2, <1>3

\* An event that is skipped is about a module left out.
LEMMA SkippedSeen ==
    ASSUME NEW r, NEW es, NEW i, NEW x, NEW w, NEW t, Handling(r, es, i, x, w, t),
           Skipped(es[i + 1]), Skips(es, chain) \subseteq x
    PROVE  Seen(r, es, i + 1, x, w)
  <1>1. /\ r \in Tables /\ ~ r.refused /\ ChainOK(chain) /\ es \in Seq(Events) /\ i \in Nat /\ i < Len(es)
    BY DEF Handling, Seen
  <1>2. PICK e : e = es[i + 1]
    OBVIOUS
  <1>3. e.of \in chain.bricked
    BY <1>2 DEF Skipped
  <1>4. e.of \in Modules
    BY <1>1, <1>3 DEF ChainOK, ChainStates
  <1>5. e.of \in x
    <2>1. i + 1 \in {k \in 1..Len(es) : es[k].of \in chain.bricked}
      BY <1>1, <1>2, <1>3
    <2> QED
      BY <1>2, <2>1 DEF Skips
  <1>6. Silent(e, x, {})
    BY <1>4, <1>5, Kinds DEF Silent, Contracts
  <1>7. Kept(r, r, {}) /\ Renewed(r, es, i + 1, x, w, {})
    BY DEF Kept, Renewed
  <1> QED
    BY <1>1, <1>2, <1>6, <1>7, OthersSeen DEF Seen

\* Every event's handler.
LEMMA HandledSeen ==
    ASSUME NEW r, NEW es, NEW i, NEW x, NEW w, NEW t, Handling(r, es, i, x, w, t),
           NEW trouble, trouble \subseteq w, NEW q, q = Handled(r, es[i + 1], trouble), ~ q.refused
    PROVE  Seen(q, es, i + 1, x, w) /\ q.wasm = r.wasm
  <1>1. PICK e : e = es[i + 1]
    OBVIOUS
  <1>2. e.type = t /\ t \in Types
    BY <1>1, NextTold DEF Events
  <1>3. CASE t = "create_dao"
    <2>1. q = CreateCore(r)
      BY <1>1, <1>2, <1>3 DEF Handled
    <2> QED
      BY <1>3, <2>1, CreateCoreSeen
  <1>4. CASE t = "instantiate"
    <2>1. q = Instantiated(r, e.of, trouble)
      BY <1>1, <1>2, <1>4 DEF Handled
    <2>2. e.of \in Modules \cup Votings \cup PreProposes
      BY <1>1, <1>4, NextTold
         DEF EventTold, InstantiateTold, Handling, ChainOK, ChainStates, Contracts
    <2>3. CASE e.of \in Modules
      BY <1>1, <1>4, <2>1, <2>3, ModuleCreated
    <2>4. CASE e.of \in Votings \cup PreProposes
      BY <1>1, <1>4, <2>1, <2>4, ContractSeen
    <2> QED
      BY <2>2, <2>3, <2>4
  <1>5. CASE t = "voting_module"
    <2>1. q = SetVoting(r, e.about)
      BY <1>1, <1>2, <1>5 DEF Handled
    <2> QED
      BY <1>1, <1>5, <2>1, SetVotingSeen
  <1>6. CASE t = "update_proposal_modules"
    <2>1. q = RefreshModules(r)
      BY <1>1, <1>2, <1>6 DEF Handled
    <2> QED
      BY <1>6, <2>1, RefreshSeen
  <1>7. CASE t = "update_pre_propose_module"
    <2>1. q = UpdatedPrePropose(r, e.of, e.about)
      BY <1>1, <1>2, <1>7 DEF Handled
    <2> QED
      BY <1>1, <1>7, <2>1, PreProposeSeen
  <1>8. CASE t = "update_policy"
    <2>1. q = UpdatedPolicy(r, e.of)
      BY <1>1, <1>2, <1>8 DEF Handled
    <2> QED
      BY <1>1, <1>8, <2>1, PolicySeen
  <1>9. CASE t = "propose"
    <2>1. q = CreateProposal(r, e.of)
      BY <1>1, <1>2, <1>9 DEF Handled
    <2> QED
      BY <1>1, <1>9, <2>1, ProposeSeen
  <1>10. CASE t = "vote"
    <2>1. q = Voted(r, e.of, e.about)
      BY <1>1, <1>2, <1>10 DEF Handled
    <2> QED
      BY <1>1, <1>10, <2>1, VoteSeen
  <1>11. CASE t = "conclude"
    <2>1. q = SetStatus(r, e.of)
      BY <1>1, <1>2, <1>11 DEF Handled
    <2> QED
      BY <1>1, <1>11, <2>1, ConcludeSeen
  <1>12. CASE t = "submit"
    <2>1. q = Submitted(r, e.of)
      BY <1>1, <1>2, <1>12 DEF Handled
    <2> QED
      BY <1>1, <1>12, <2>1, SubmitSeen
  <1>13. CASE t = "resolve"
    <2>1. q = Resolved(r, e.of, e.about)
      BY <1>1, <1>2, <1>13 DEF Handled
    <2> QED
      BY <1>1, <1>13, <2>1, ResolveSeen
  <1>14. CASE t = "update_sub_daos"
    <2>1. q = ReplaceSubDaos(r)
      BY <1>1, <1>2, <1>14 DEF Handled
    <2> QED
      BY <1>14, <2>1, SubDaosSeen
  <1> QED
    BY <1>2, <1>3, <1>4, <1>5, <1>6, <1>7, <1>8, <1>9, <1>10, <1>11, <1>12, <1>13, <1>14 DEF Types

\* Every event, from the cutoff on.
LEMMA HandleSeen ==
    ASSUME NEW r, NEW es, NEW i, NEW x, NEW w, NEW t, Handling(r, es, i, x, w, t),
           height \in Nat, height >= Cutoff, Skips(es, chain) \subseteq x,
           NEW trouble, trouble \subseteq w, NEW q, q = Handle(r, es[i + 1], trouble), ~ q.refused
    PROVE  Seen(q, es, i + 1, x, w) /\ q.wasm = Remembered(r, es[i + 1]).wasm
  <1>1. PICK e, k : e = es[i + 1] /\ k = Remembered(r, e)
    OBVIOUS
  <1>2. Handling(k, es, i, x, w, t)
    BY <1>1, RememberedSeen
  <1>3. q = IF Skipped(e) THEN k ELSE Handled(k, e, trouble)
    <2>1. ~ r.refused
      BY DEF Handling, Seen
    <2>2. ~ (height < Cutoff)
      BY DaoParameters
    <2> QED
      BY <1>1, <2>1, <2>2 DEF Handle, Remembered
  <1>4. CASE Skipped(e)
    BY <1>1, <1>2, <1>3, <1>4, SkippedSeen
  <1>5. CASE ~ Skipped(e)
    <2>1. q = Handled(k, es[i + 1], trouble)
      BY <1>1, <1>3, <1>5
    <2>2. Seen(q, es, i + 1, x, w) /\ q.wasm = k.wasm
      BY <1>2, <2>1, HandledSeen
    <2> QED
      BY <1>1, <2>2
  <1> QED
    BY <1>4, <1>5

----------------------------------------------------------------------------
(* Nothing is refused.                                                      *)

\* No proposal or vote is in a module left out, but for those skipped, and
\* none is approved or rejected where it was submitted.
Sound(es, x) ==
    /\ \A j \in 1..Len(es) :
         es[j].type \in {"vote", "propose"} /\ es[j].of \notin chain.bricked => es[j].of \notin x
    /\ \A j \in 1..Len(es) : es[j].type = "submit" => ~ To(es, 0, "resolve", es[j].of)

\* The core is there once it was created.
LEMMA CoreThere ==
    ASSUME NEW r, NEW es, NEW i, NEW x, NEW w, NEW t, Handling(r, es, i, x, w, t),
           t # "create_dao", chain.voting # None
    PROVE  r.core # {}
  <1>1. /\ CoreSeen(r, es, i, chain) /\ Told(es, chain)
        /\ es \in Seq(Events) /\ i \in Nat /\ i < Len(es) /\ es[i + 1].type = t
    BY DEF Handling, Seen, RowsSeen
  <1>2. ASSUME ToCreate(es, i) PROVE FALSE
    <2>1. PICK j \in 1..Len(es) : j > i /\ es[j].type = "create_dao"
      BY <1>2 DEF ToCreate, To
    <2>2. j = 1
      BY <1>1, <2>1 DEF Told, EventTold, CreateTold
    <2>3. i + 1 = j
      BY <1>1, <2>1, <2>2
    <2> QED
      BY <1>1, <2>1, <2>3
  <1> QED
    BY <1>1, <1>2 DEF CoreSeen

\* A contract is there once it was instantiated.
LEMMA ContractThere ==
    ASSUME NEW r, NEW es, NEW i, NEW x, NEW w, NEW t, Handling(r, es, i, x, w, t),
           t # "instantiate", NEW c \in chain.contracts, ~ ToInstantiate(es, i + 1, c)
    PROVE  /\ c \in Votings => c \in r.votings
           /\ c \in PreProposes => c \in r.prePropose
           /\ c \in Modules \ x => c \in DOMAIN r.modules
  <1>1. /\ ContractsSeen(r, es, i, chain) /\ ModulesSeen(r, es, i, chain, x, w)
        /\ DOMAIN chain.status = chain.contracts \cap Modules
    BY DEF Handling, Seen, RowsSeen, ChainOK
  <1>2. ~ ToInstantiate(es, i, c)
    BY NextTold DEF ToInstantiate
  <1>3. c \in Modules \ x => c \in DOMAIN r.modules
    <2> SUFFICES ASSUME c \in Modules \ x, c \notin DOMAIN r.modules PROVE FALSE
      OBVIOUS
    <2>1. c \in DOMAIN chain.status \ x
      BY <1>1
    <2> QED
      BY <1>1, <1>2, <2>1 DEF ModulesSeen
  <1> QED
    BY <1>1, <1>2, <1>3 DEF ContractsSeen

\* The handler of an instantiate.
LEMMA InstantiatedStands ==
    ASSUME NEW r, NEW es, NEW i, NEW x, NEW w, Handling(r, es, i, x, w, "instantiate")
    PROVE  ~ Instantiated(r, es[i + 1].of, {}).refused
  <1>1. r \in Tables /\ ~ r.refused /\ ChainOK(chain)
    BY DEF Handling, Seen
  <1>2. PICK c : c = es[i + 1].of
    OBVIOUS
  <1>3. c \in chain.contracts /\ c # None
    BY <1>1, <1>2, Kinds, NextTold DEF EventTold, InstantiateTold, ChainOK, ChainStates
  <1>4. chain.voting # None
    BY <1>1, <1>3 DEF ChainOK
  <1>5. r.core # {}
    BY <1>4, CoreThere
  <1>6. CASE c \in Votings \/ c \in PreProposes
    BY <1>1, <1>2, <1>6 DEF Instantiated, Tables
  <1>7. CASE ~ (c \in Votings \/ c \in PreProposes)
    <2>1. Instantiated(r, c, {}) = CreateModule(r, c, StatusOf(c, {}))
      BY <1>7 DEF Instantiated
    <2>2. PICK f : CreateModule(r, c, StatusOf(c, {})) = [r EXCEPT !.modules = f]
      BY <1>5 DEF CreateModule
    <2> QED
      BY <1>1, <1>2, <2>1, <2>2 DEF Tables
  <1> QED
    BY <1>6, <1>7

\* Every event's handler.
LEMMA HandledStands ==
    ASSUME NEW r, NEW es, NEW i, NEW x, NEW w, NEW t, Handling(r, es, i, x, w, t),
           Sound(es, x), ~ Skipped(es[i + 1]), NEW q, q = Handled(r, es[i + 1], {})
    PROVE  ~ q.refused
  <1>1. PICK e, j : e = es[i + 1] /\ j = i + 1
    OBVIOUS
  <1>2. e.type = t /\ t \in Types /\ EventTold(es, j, chain)
    BY <1>1, NextTold DEF Events
  <1>3. /\ r \in Tables /\ ~ r.refused /\ ChainOK(chain) /\ RowsSeen(r, es, i, chain, x, w)
        /\ j \in 1..Len(es)
    BY <1>1 DEF Handling, Seen
  <1>4. CASE t = "create_dao"
    <2>1. q = CreateCore(r)
      BY <1>1, <1>2, <1>4 DEF Handled
    <2> QED
      BY <1>3, <2>1 DEF CreateCore, Tables
  <1>5. CASE t = "instantiate"
    <2>1. q = Instantiated(r, e.of, {})
      BY <1>1, <1>2, <1>5 DEF Handled
    <2> QED
      BY <1>1, <1>5, <2>1, InstantiatedStands
  <1>6. CASE t = "voting_module"
    <2>1. q = SetVoting(r, e.about)
      BY <1>1, <1>2, <1>6 DEF Handled
    <2>2. e.about \in Votings \cap chain.contracts /\ ~ ToInstantiate(es, j, e.about)
      BY <1>1, <1>2, <1>6 DEF EventTold, VotingTold
    <2>3. e.about \in r.votings
      BY <1>1, <1>6, <2>2, ContractThere
    <2> QED
      BY <1>3, <2>1, <2>3 DEF SetVoting, Tables
  <1>7. CASE t = "update_proposal_modules"
    <2>1. q = RefreshModules(r)
      BY <1>1, <1>2, <1>7 DEF Handled
    <2>2. chain.voting # None
      BY <1>1, <1>2, <1>7 DEF EventTold
    <2>3. r.core # {}
      BY <1>7, <2>2, CoreThere
    <2>4. PICK f : q = [r EXCEPT !.modules = f]
      BY <2>1, <2>3 DEF RefreshModules
    <2> QED
      BY <1>3, <2>4 DEF Tables
  <1>8. CASE t = "update_pre_propose_module"
    <2>1. q = UpdatedPrePropose(r, e.of, e.about)
      BY <1>1, <1>2, <1>8 DEF Handled
    <2>2. /\ e.of \in DOMAIN chain.policy
          /\ e.about \in PreProposes \cap chain.contracts /\ ~ ToInstantiate(es, j, e.about)
      BY <1>1, <1>2, <1>8 DEF EventTold, PreProposeTold
    <2>3. e.about \in r.prePropose
      BY <1>1, <1>8, <2>2, ContractThere
    <2>4. CASE e.of \in DOMAIN r.modules
      BY <1>3, <2>1, <2>2, <2>3, <2>4, UpdatedIs
    <2>5. CASE e.of \notin DOMAIN r.modules
      BY <1>3, <2>1, <2>5 DEF UpdatedPrePropose, SetPolicy, SetPrePropose
    <2> QED
      BY <2>4, <2>5
  <1>9. CASE t = "update_policy"
    <2>1. q = UpdatedPolicy(r, e.of)
      BY <1>1, <1>2, <1>9 DEF Handled
    <2> QED
      BY <1>1, <1>9, <2>1, PolicySeen DEF Seen
  <1>10. CASE t \in {"propose", "vote"}
    <2>1. e.of \notin x
      BY <1>1, <1>2, <1>3, <1>10 DEF Sound, Skipped
    <2>2. CASE t = "propose"
      <3>1. q = CreateProposal(r, e.of)
        BY <1>1, <1>2, <2>2 DEF Handled
      <3>2. e.of \in DOMAIN chain.proposals /\ ~ ToInstantiate(es, j, e.of)
        BY <1>1, <1>2, <2>2 DEF EventTold, ProposeTold
      <3>3. e.of \in chain.contracts /\ e.of \in Modules
        BY <1>3, <3>2, MapFacts DEF ChainOK, ChainStates
      <3>4. e.of \in DOMAIN r.modules
        BY <1>1, <2>1, <2>2, <3>2, <3>3, ContractThere
      <3> QED
        BY <1>3, <3>1, <3>2, <3>4, CreateProposalIs
    <2>3. CASE t = "vote"
      <3>1. q = Voted(r, e.of, e.about)
        BY <1>1, <1>2, <2>3 DEF Handled
      <3>2. <<e.of, e.about>> \in DOMAIN chain.ballots /\ ~ To(es, j, "propose", e.of)
        BY <1>1, <1>2, <2>3 DEF EventTold, VoteTold
      <3>3. e.of \in DOMAIN chain.proposals /\ e.of \in Modules
        <4>1. <<e.of, e.about>>[1] \in DOMAIN chain.proposals
          BY <1>3, <3>2 DEF ChainOK
        <4> QED
          BY <1>3, <4>1, MapFacts DEF ChainOK, ChainStates
      <3>4. ~ To(es, i, "propose", e.of)
        BY <1>1, <2>3, <3>2, NextTold
      <3>5. e.of \in DOMAIN r.proposals
        BY <1>3, <2>1, <3>3, <3>4 DEF RowsSeen, ProposalsSeen
      <3>6. PICK s : s = SetVote(r, e.of, e.about)
        OBVIOUS
      <3>7. s \in Tables /\ s.refused = r.refused
        BY <1>3, <3>2, <3>5, <3>6, SetVoteIs
      <3>8. q = SetStatus(s, e.of)
        BY <3>1, <3>6 DEF Voted
      <3> QED
        BY <1>3, <3>3, <3>7, <3>8, SetStatusIs
    <2> QED
      BY <1>10, <2>2, <2>3
  <1>11. CASE t = "conclude"
    <2>1. q = SetStatus(r, e.of)
      BY <1>1, <1>2, <1>11 DEF Handled
    <2> QED
      BY <1>1, <1>11, <2>1, ConcludeSeen DEF Seen
  <1>12. CASE t = "submit"
    <2>1. q = Submitted(r, e.of)
      BY <1>1, <1>2, <1>12 DEF Handled
    <2>2. SubmitTold(es, j, chain)
      BY <1>1, <1>2, <1>12 DEF EventTold
    <2>3. ~ To(es, 0, "resolve", e.of)
      BY <1>1, <1>2, <1>3, <1>12 DEF Sound
    <2>4. chain.approvals[e.of].state = "pending"
      BY <1>1, <2>2, <2>3 DEF SubmitTold
    <2>5. e.of \in DOMAIN chain.approvals /\ ~ ToInstantiate(es, j, e.of)
      BY <1>1, <2>2 DEF SubmitTold
    <2>6. e.of \in chain.contracts /\ e.of \in PreProposes
      BY <1>3, <2>5, MapFacts DEF ChainOK, ChainStates
    <2>7. e.of \in r.prePropose
      BY <1>1, <1>12, <2>5, <2>6, ContractThere
    <2>8. PICK f : q = [r EXCEPT !.approvals = f]
      BY <2>1, <2>4, <2>7 DEF Submitted
    <2> QED
      BY <1>3, <2>8 DEF Tables
  <1>13. CASE t = "resolve"
    <2>1. q = Resolved(r, e.of, e.about)
      BY <1>1, <1>2, <1>13 DEF Handled
    <2> QED
      BY <1>1, <1>13, <2>1, ResolveSeen DEF Seen
  <1>14. CASE t = "update_sub_daos"
    <2>1. q = ReplaceSubDaos(r)
      BY <1>1, <1>2, <1>14 DEF Handled
    <2> QED
      BY <1>3, <2>1 DEF ReplaceSubDaos, Tables
  <1> QED
    BY <1>2, <1>4, <1>5, <1>6, <1>7, <1>8, <1>9, <1>10, <1>11, <1>12, <1>13, <1>14 DEF Types

\* Every event, from the cutoff on, when every query is answered.
LEMMA HandleStands ==
    ASSUME NEW r, NEW es, NEW i, NEW x, NEW w, NEW t, Handling(r, es, i, x, w, t),
           height \in Nat, height >= Cutoff, Sound(es, x), NEW q, q = Handle(r, es[i + 1], {})
    PROVE  ~ q.refused
  <1>1. PICK e, k : e = es[i + 1] /\ k = Remembered(r, e)
    OBVIOUS
  <1>2. Handling(k, es, i, x, w, t)
    BY <1>1, RememberedSeen
  <1>3. q = IF Skipped(e) THEN k ELSE Handled(k, e, {})
    <2>1. ~ r.refused
      BY DEF Handling, Seen
    <2>2. ~ (height < Cutoff)
      BY DaoParameters
    <2> QED
      BY <1>1, <2>1, <2>2 DEF Handle, Remembered
  <1>4. CASE Skipped(e)
    BY <1>2, <1>3, <1>4 DEF Handling, Seen
  <1>5. CASE ~ Skipped(e)
    BY <1>1, <1>2, <1>3, <1>5, HandledStands
  <1> QED
    BY <1>4, <1>5

----------------------------------------------------------------------------
(* All events of a block are handled.                                       *)

\* The contracts that are remembered.
WasmSeen(r, es, i) ==
    /\ r.wasm \subseteq chain.contracts
    /\ \A c \in chain.contracts : c \in r.wasm \/ ToInstantiate(es, i, c)

\* More modules left out, more queries missed.
LEMMA MoreLeftOut ==
    ASSUME NEW r, NEW es, NEW i, NEW x, NEW w, NEW y, NEW z, x \subseteq y, w \subseteq z,
           RowsSeen(r, es, i, chain, x, w)
    PROVE  RowsSeen(r, es, i, chain, y, z)
  <1>1. CoreSeen(r, es, i, chain) /\ ContractsSeen(r, es, i, chain) /\ ApprovalsSeen(r, es, i, chain)
    BY DEF RowsSeen
  <1>2. SubsSeen(r, es, i, chain, z)
    BY DEF RowsSeen, SubsSeen
  <1>3. ModulesSeen(r, es, i, chain, y, z)
    <2>1. ModulesSeen(r, es, i, chain, x, w)
      BY DEF RowsSeen
    <2>2. ASSUME NEW m \in DOMAIN chain.status \ y
          PROVE  IF m \in DOMAIN r.modules THEN ModuleSeen(r.modules[m], es, i, chain, m, z)
                 ELSE ToInstantiate(es, i, m)
      <3>1. IF m \in DOMAIN r.modules THEN ModuleSeen(r.modules[m], es, i, chain, m, w)
            ELSE ToInstantiate(es, i, m)
        BY <2>1 DEF ModulesSeen
      <3> QED
        BY <3>1 DEF ModuleSeen
    <2> QED
      BY <2>1, <2>2 DEF ModulesSeen
  <1>4. ProposalsSeen(r, es, i, chain, y) /\ BallotsSeen(r, es, i, chain, y)
    BY DEF RowsSeen, ProposalsSeen, BallotsSeen
  <1> QED
    BY <1>1, <1>2, <1>3, <1>4 DEF RowsSeen

\* An instantiate is remembered.
LEMMA RememberedWasm ==
    ASSUME NEW es \in Seq(Events), NEW i \in Nat, i < Len(es), ChainOK(chain), Told(es, chain),
           NEW r, r \in Tables, WasmSeen(r, es, i), NEW q, q.wasm = Remembered(r, es[i + 1]).wasm
    PROVE  WasmSeen(q, es, i + 1)
  <1>1. PICK e : e = es[i + 1]
    OBVIOUS
  <1>2. i + 1 \in 1..Len(es)
    OBVIOUS
  <1>3. \A c : ToInstantiate(es, i, c) <=> (e.type = "instantiate" /\ e.of = c) \/ ToInstantiate(es, i + 1, c)
    BY <1>1, ToStep DEF ToInstantiate
  <1>4. CASE e.type = "instantiate"
    <2>1. e.of \in chain.contracts
      BY <1>1, <1>2, <1>4 DEF Told, EventTold, InstantiateTold
    <2>2. q.wasm = r.wasm \cup {e.of}
      BY <1>1, <1>4 DEF Remembered, Tables
    <2> QED
      BY <1>3, <1>4, <2>1, <2>2 DEF WasmSeen
  <1>5. CASE e.type # "instantiate"
    <2>1. q.wasm = r.wasm
      BY <1>1, <1>5 DEF Remembered
    <2> QED
      BY <1>3, <1>5, <2>1 DEF WasmSeen
  <1> QED
    BY <1>4, <1>5

\* What the events of this block leave out.
LeftOut == gone \cup Skips(log, chain)

\* From the cutoff on, after i of the events.
Handles(f, i, trouble) ==
    /\ ~ f[i].refused => Seen(f[i], log, i, LeftOut, troubles \cup trouble) /\ WasmSeen(f[i], log, i)
    /\ trouble = {} /\ Sound(log, LeftOut) => ~ f[i].refused

\* From the cutoff on, what all events leave is seen, and none is refused when they are sound.
LEMMA AllHandled ==
    ASSUME IInv, snapped, NEW trouble, NEW f, Indexes(f, trouble)
    PROVE  Handles(f, Len(log), trouble)
  <1>1. /\ log \in Seq(Events) /\ ChainOK(chain) /\ Told(log, chain)
        /\ height \in Nat /\ height >= Cutoff
        /\ rows \in Tables /\ ~ rows.refused /\ RowsSeen(rows, log, 0, chain, gone, troubles)
        /\ BlockTold(log, chain, height, rows.wasm)
    BY DEF IInv, Phase
  <1>2. PICK n, x, w : n = Len(log) /\ x = LeftOut /\ w = troubles \cup trouble
    OBVIOUS
  <1> DEFINE G == {i \in Nat : i <= n => Handles(f, i, trouble)}
  <1>3. n \in Nat /\ Skips(log, chain) \subseteq x /\ gone \subseteq x /\ trouble \subseteq w
    BY <1>1, <1>2 DEF LeftOut
  <1>4. 0 \in G
    <2>1. f[0] = rows
      BY DEF Indexes
    <2>2. Seen(rows, log, 0, x, w)
      BY <1>1, <1>2, <1>3, MoreLeftOut DEF Seen
    <2>3. WasmSeen(rows, log, 0)
      BY <1>1 DEF BlockTold, WasmSeen
    <2> QED
      BY <1>1, <1>2, <2>1, <2>2, <2>3 DEF Handles
  <1>5. ASSUME NEW i \in G PROVE i + 1 \in G
    <2>0. i \in Nat
      OBVIOUS
    <2> SUFFICES ASSUME i + 1 <= n PROVE Handles(f, i + 1, trouble)
      BY <2>0
    <2>1. Handles(f, i, trouble) /\ i < n /\ i \in 0..(n - 1)
      BY <1>3, <2>0
    <2>2. PICK r, q : r = f[i] /\ q = f[i + 1]
      OBVIOUS
    <2>3. q = Handle(r, log[i + 1], trouble)
      BY <1>2, <2>1, <2>2 DEF Indexes
    <2>4. CASE r.refused
      <3>1. q = r
        BY <2>3, <2>4 DEF Handle
      <3> QED
        BY <2>1, <2>2, <2>4, <3>1 DEF Handles
    <2>5. CASE ~ r.refused
      <3>1. Seen(r, log, i, x, w) /\ WasmSeen(r, log, i)
        BY <1>2, <2>1, <2>2, <2>5 DEF Handles
      <3>2. PICK t : t = log[i + 1].type
        OBVIOUS
      <3>3. Handling(r, log, i, x, w, t)
        BY <1>1, <1>2, <2>0, <2>1, <3>1, <3>2 DEF Handling
      <3>4. ~ q.refused => Seen(q, log, i + 1, x, w) /\ WasmSeen(q, log, i + 1)
        <4> SUFFICES ASSUME ~ q.refused PROVE Seen(q, log, i + 1, x, w) /\ WasmSeen(q, log, i + 1)
          OBVIOUS
        <4>1. Seen(q, log, i + 1, x, w) /\ q.wasm = Remembered(r, log[i + 1]).wasm
          BY <1>1, <1>3, <2>3, <3>3, HandleSeen
        <4>2. r \in Tables
          BY <3>1 DEF Seen
        <4> QED
          BY <1>1, <1>2, <2>0, <2>1, <3>1, <4>1, <4>2, RememberedWasm
      <3>5. trouble = {} /\ Sound(log, x) => ~ q.refused
        BY <1>1, <2>3, <3>3, HandleStands
      <3> QED
        BY <1>2, <2>2, <3>4, <3>5 DEF Handles
    <2> QED
      BY <2>4, <2>5
  <1>6. G = Nat
    <2> HIDE DEF G
    <2>1. G \in SUBSET Nat
      BY DEF G
    <2> QED
      BY <1>4, <1>5, <2>1, Induction
  <1> QED
    BY <1>2, <1>3, <1>6

\* Before the cutoff.
Remembers(f, i) == f[i] = Bare(f[i].wasm) /\ f[i] \in Tables /\ WasmSeen(f[i], log, i)

\* Only the contracts are remembered.
LEMMA BareIs ==
    ASSUME NEW W, W \subseteq Contracts
    PROVE  /\ Bare(W) \in Tables /\ ~ Bare(W).refused /\ Bare(W).wasm = W
           /\ \A V : [Bare(W) EXCEPT !.wasm = V] = Bare(V)
  <1>1. PICK e : e = << >>
    OBVIOUS
  <1>2. \A V : Bare(V) = [wasm |-> V, core |-> {}, votings |-> {}, modules |-> e, prePropose |-> {},
                         proposals |-> e, ballots |-> e, approvals |-> e, subs |-> {},
                         refused |-> FALSE]
    BY <1>1 DEF Bare
  <1>3. \A S, T : e \in Maps(S, T)
    <2> TAKE S, T
    <2>1. DOMAIN << >> = {} /\ << >> = [y \in {} |-> y]
      OBVIOUS
    <2>2. << >> \in [{} -> T]
      BY <2>1
    <2> QED
      BY <1>1, <2>2 DEF Maps
  <1>4. Bare(W) \in Tables
    BY <1>2, <1>3 DEF Tables
  <1>5. ASSUME NEW V PROVE [Bare(W) EXCEPT !.wasm = V] = Bare(V)
    <2>1. PICK b, c : b = Bare(W) /\ c = Bare(V)
      OBVIOUS
    <2>2. DOMAIN b = DOMAIN c /\ c = [x \in DOMAIN c |-> c[x]]
      BY <1>2, <2>1
    <2>3. DOMAIN c = {"wasm", "core", "votings", "modules", "prePropose", "proposals", "ballots",
                      "approvals", "subs", "refused"}
      BY <1>2, <2>1
    <2>4. /\ c.wasm = V /\ c.core = b.core /\ c.votings = b.votings /\ c.modules = b.modules
          /\ c.prePropose = b.prePropose /\ c.proposals = b.proposals /\ c.ballots = b.ballots
          /\ c.approvals = b.approvals /\ c.subs = b.subs /\ c.refused = b.refused
      BY <1>2, <2>1
    <2>5. [b EXCEPT !.wasm = V] = [x \in DOMAIN b |-> IF x = "wasm" THEN V ELSE b[x]]
      BY <2>2, <2>3
    <2>6. \A x \in DOMAIN c : c[x] = IF x = "wasm" THEN V ELSE b[x]
      BY <2>3, <2>4
    <2>7. [b EXCEPT !.wasm = V] = c
      BY <2>2, <2>5, <2>6
    <2> QED
      BY <2>1, <2>7
  <1> QED
    BY <1>2, <1>4, <1>5

\* Before the cutoff nothing but the contracts is stored.
LEMMA AllRemembered ==
    ASSUME IInv, ~ snapped, height < Cutoff, NEW trouble, NEW f, Indexes(f, trouble)
    PROVE  Remembers(f, Len(log))
  <1>1. /\ log \in Seq(Events) /\ ChainOK(chain) /\ Told(log, chain)
        /\ rows \in Tables /\ rows = Bare(rows.wasm) /\ BlockTold(log, chain, height, rows.wasm)
    BY DEF IInv
  <1>2. PICK n : n = Len(log)
    OBVIOUS
  <1> DEFINE G == {i \in Nat : i <= n => Remembers(f, i)}
  <1>3. n \in Nat
    BY <1>1, <1>2
  <1>4. 0 \in G
    <2>1. f[0] = rows
      BY DEF Indexes
    <2>2. WasmSeen(rows, log, 0)
      BY <1>1 DEF BlockTold, WasmSeen
    <2> QED
      BY <1>1, <2>1, <2>2 DEF Remembers
  <1>5. ASSUME NEW i \in G PROVE i + 1 \in G
    <2>0. i \in Nat
      OBVIOUS
    <2> SUFFICES ASSUME i + 1 <= n PROVE Remembers(f, i + 1)
      BY <2>0
    <2>1. Remembers(f, i) /\ i < n /\ i \in 0..(n - 1)
      BY <1>3, <2>0
    <2>2. PICK r, q : r = f[i] /\ q = f[i + 1]
      OBVIOUS
    <2>3. r = Bare(r.wasm) /\ r \in Tables /\ WasmSeen(r, log, i)
      BY <2>1, <2>2 DEF Remembers
    <2>4. r.wasm \subseteq Contracts
      BY <2>3 DEF Tables
    <2>5. ~ r.refused
      BY <2>3, <2>4, BareIs
    <2>6. q = Remembered(r, log[i + 1])
      <3>1. q = Handle(r, log[i + 1], trouble)
        BY <1>2, <2>1, <2>2 DEF Indexes
      <3> QED
        BY <2>5, <3>1 DEF Handle, Remembered
    <2>7. WasmSeen(q, log, i + 1)
      BY <1>1, <1>2, <2>0, <2>1, <2>3, <2>6, RememberedWasm
    <2>8. q.wasm \subseteq Contracts
      BY <1>1, <2>7 DEF WasmSeen, ChainOK, ChainStates
    <2>9. q = Bare(q.wasm)
      <3>1. CASE log[i + 1].type = "instantiate"
        <4>1. PICK V : V = r.wasm \cup {log[i + 1].of}
          OBVIOUS
        <4>2. q = [r EXCEPT !.wasm = V]
          BY <2>6, <3>1, <4>1 DEF Remembered
        <4>3. q = Bare(V)
          <5>1. PICK W : W = r.wasm
            OBVIOUS
          <5>2. r = Bare(W) /\ W \subseteq Contracts
            BY <2>3, <2>4, <5>1
          <5>3. [Bare(W) EXCEPT !.wasm = V] = Bare(V)
            BY <5>2, BareIs
          <5> QED
            BY <4>2, <5>2, <5>3
        <4>4. Bare(V).wasm = V
          BY DEF Bare
        <4> QED
          BY <4>3, <4>4
      <3>2. CASE log[i + 1].type # "instantiate"
        BY <2>3, <2>6, <3>2 DEF Remembered
      <3> QED
        BY <3>1, <3>2
    <2>10. q \in Tables
      BY <2>8, <2>9, BareIs
    <2> QED
      BY <2>2, <2>7, <2>9, <2>10 DEF Remembers
  <1>6. G = Nat
    <2> HIDE DEF G
    <2>1. G \in SUBSET Nat
      BY DEF G
    <2> QED
      BY <1>4, <1>5, <2>1, Induction
  <1> QED
    BY <1>2, <1>3, <1>6

----------------------------------------------------------------------------
(* The snapshot takes one module after the other.                           *)

\* What the snapshot has of a module.
Taking(m, trouble) ==
    [status |-> StatusOf(m, trouble), policy |-> chain.policy[m],
     prePropose |-> Target(chain.policy[m]), whole |-> TRUE]

\* What it has when it has taken the modules s.
Taken(r, s, trouble) ==
    /\ r \in Tables /\ ~ r.refused
    /\ r.wasm = rows.wasm /\ r.core = {chain.voting}
    /\ r.votings = rows.wasm \cap Votings /\ r.prePropose = rows.wasm \cap PreProposes
    /\ r.subs = chain.subs \/ <<None, "subs">> \in trouble
    /\ DOMAIN r.modules = s /\ \A m \in s : r.modules[m] = Taking(m, trouble)
    /\ DOMAIN r.proposals \subseteq s \cap DOMAIN chain.proposals
    /\ \A m \in DOMAIN r.proposals : r.proposals[m] = chain.proposals[m]
    /\ \A m \in s \cap DOMAIN chain.proposals :
         m \in DOMAIN r.proposals \/ <<m, "proposals">> \in trouble

\* A module's row is made.
LEMMA CreateModuleIs ==
    ASSUME NEW r \in Tables, r.core # {}, NEW m \in Modules, m \notin DOMAIN r.modules,
           chain.policy[m] \in PreProposes \cup {Anyone}, NEW st \in Statuses \cup {None},
           NEW q, q = CreateModule(r, m, st)
    PROVE  /\ q \in Tables /\ q.refused = r.refused /\ Kept(q, r, {"modules"})
           /\ DOMAIN q.modules = DOMAIN r.modules \cup {m}
           /\ \A n \in DOMAIN r.modules : q.modules[n] = r.modules[n]
           /\ q.modules[m] =
                [status |-> st, policy |-> chain.policy[m], prePropose |-> None, whole |-> TRUE]
  <1>1. PICK p, row, g, f :
            /\ p = chain.policy[m] /\ g = r.modules
            /\ row = [status |-> st, policy |-> p, prePropose |-> None, whole |-> TRUE]
            /\ f = With(g, m, row)
    OBVIOUS
  <1>2. row \in ModuleRows /\ g \in Maps(Modules, ModuleRows)
    BY <1>1 DEF ModuleRows, Tables
  <1>3. f \in Maps(Modules, ModuleRows)
    BY <1>1, <1>2, WithMap
  <1>4. DOMAIN f = DOMAIN g \cup {m} /\ f[m] = row /\ \A n \in DOMAIN g : n # m => f[n] = g[n]
    BY <1>1 DEF With
  <1>5. q = [r EXCEPT !.modules = f]
    BY <1>1 DEF CreateModule
  <1>6. q \in Tables /\ q.modules = f /\ q.refused = r.refused /\ Kept(q, r, {"modules"})
    BY <1>3, <1>5, ModulesSet
  <1> QED
    BY <1>1, <1>4, <1>6

\* With a row that is refused the snapshot is.
LEMMA StaysRefused ==
    ASSUME NEW r \in Tables, r.refused, NEW m
    PROVE  CreateProposal(r, m).refused
  BY DEF CreateProposal, Refuse, Tables

\* A module is linked to its pre-propose module.
LEMMA LinkedTaken ==
    ASSUME ChainOK(chain), rows.wasm \subseteq chain.contracts, NEW s, NEW trouble, NEW r,
           Taken(r, s, trouble), NEW m \in rows.wasm \cap Modules, m \notin s,
           NEW d, d = CreateModule(r, m, StatusOf(m, trouble)),
           NEW q, q = SetPrePropose(d, m, Target(chain.policy[m]))
    PROVE  /\ q \in Tables
           /\ q.refused <=> chain.policy[m] \notin rows.wasm \cup {Anyone}
           /\ ~ q.refused => /\ Kept(q, r, {"modules"}) /\ DOMAIN q.modules = s \cup {m}
                             /\ \A n \in s \cup {m} : q.modules[n] = Taking(n, trouble)
  <1>1. PICK p, st, c : p = chain.policy[m] /\ st = StatusOf(m, trouble) /\ c = Target(p)
    OBVIOUS
  <1>2. /\ m \in DOMAIN chain.policy /\ chain.policy \in Maps(Modules, PreProposes \cup {Anyone})
        /\ m \in DOMAIN chain.status /\ chain.status \in Maps(Modules, Statuses)
    BY DEF ChainOK, ChainStates
  <1>3. p \in PreProposes \cup {Anyone} /\ chain.status[m] \in Statuses
    BY <1>1, <1>2, MapFacts
  <1>4. st \in Statuses \cup {None}
    BY <1>1, <1>3 DEF StatusOf
  <1>5. r \in Tables /\ ~ r.refused /\ r.core # {} /\ m \notin DOMAIN r.modules /\ DOMAIN r.modules = s
        /\ r.prePropose = rows.wasm \cap PreProposes
        /\ \A n \in s : r.modules[n] = Taking(n, trouble)
    BY DEF Taken
  <1>6. /\ d \in Tables /\ ~ d.refused /\ Kept(d, r, {"modules"})
        /\ DOMAIN d.modules = s \cup {m}
        /\ \A n \in s : d.modules[n] = r.modules[n]
        /\ d.modules[m] = [status |-> st, policy |-> p, prePropose |-> None, whole |-> TRUE]
    BY <1>1, <1>3, <1>4, <1>5, CreateModuleIs
  <1>7. d.prePropose = rows.wasm \cap PreProposes
    BY <1>5, <1>6 DEF Kept
  <1>8. c \in PreProposes \cup {None} /\ (c \in d.prePropose \cup {None} <=> p \in rows.wasm \cup {Anyone})
    <2>1. None \notin PreProposes /\ Anyone \notin PreProposes
      BY Kinds DEF Contracts
    <2> QED
      BY <1>1, <1>3, <1>7, <2>1 DEF Target
  <1>9. /\ c \notin d.prePropose \cup {None} => q.refused
        /\ c \in d.prePropose \cup {None} =>
             /\ q \in Tables /\ q.refused = d.refused /\ Kept(q, d, {"modules"})
             /\ DOMAIN q.modules = DOMAIN d.modules
             /\ \A n \in DOMAIN d.modules : n # m => q.modules[n] = d.modules[n]
             /\ q.modules[m] = [d.modules[m] EXCEPT !.prePropose = c]
    <2>1. d \in Tables /\ m \in DOMAIN d.modules /\ q = SetPrePropose(d, m, c)
      BY <1>1, <1>2, <1>6
    <2>2. c \in PreProposes \cup {None}
      BY <1>8
    <2> QED
      BY <2>1, <2>2, SetPreProposeIs
  <1>10. CASE c \notin d.prePropose \cup {None}
    <2>1. q = [d EXCEPT !.refused = TRUE]
      <3>1. m \in DOMAIN d.modules /\ q = SetPrePropose(d, m, c)
        BY <1>1, <1>6
      <3> QED
        BY <1>10, <3>1 DEF SetPrePropose, Refuse
    <2>2. q \in Tables /\ q.refused
      BY <1>6, <2>1 DEF Tables
    <2> QED
      BY <1>1, <1>8, <1>10, <2>2
  <1>11. CASE c \in d.prePropose \cup {None}
    <2>1. q \in Tables /\ ~ q.refused /\ DOMAIN q.modules = s \cup {m} /\ p \in rows.wasm \cup {Anyone}
      BY <1>6, <1>8, <1>9, <1>11
    <2>2. Kept(q, r, {"modules"})
      BY <1>6, <1>9, <1>11 DEF Kept
    <2>3. q.modules[m] = Taking(m, trouble)
      <3>1. q.modules[m] = [d.modules[m] EXCEPT !.prePropose = c]
        BY <1>9, <1>11
      <3>2. PICK row : row = d.modules[m]
        OBVIOUS
      <3>3. row = [status |-> st, policy |-> p, prePropose |-> None, whole |-> TRUE]
        BY <1>6, <3>2
      <3>4. [row EXCEPT !.prePropose = c] = [status |-> st, policy |-> p, prePropose |-> c, whole |-> TRUE]
        <4>1. PICK y : y = TRUE
          OBVIOUS
        <4>2. row = [status |-> st, policy |-> p, prePropose |-> None, whole |-> y]
          BY <3>3, <4>1
        <4>3. [row EXCEPT !.prePropose = c] = [status |-> st, policy |-> p, prePropose |-> c, whole |-> y]
          BY <4>2
        <4> QED
          BY <4>1, <4>3
      <3> QED
        BY <1>1, <3>1, <3>2, <3>4 DEF Taking
    <2>4. \A n \in s : q.modules[n] = Taking(n, trouble)
      BY <1>5, <1>6, <1>9, <1>11
    <2> QED
      BY <1>1, <2>1, <2>2, <2>3, <2>4
  <1> QED
    BY <1>10, <1>11

\* One more module is taken.
LEMMA ModuleTaken ==
    ASSUME ChainOK(chain), rows.wasm \subseteq chain.contracts, NEW s, NEW trouble, NEW r,
           Taken(r, s, trouble), NEW m \in rows.wasm \cap Modules, m \notin s,
           NEW q, q = SnapshotModule(r, m, trouble)
    PROVE  /\ ~ q.refused => Taken(q, s \cup {m}, trouble)
           /\ m \notin chain.bricked /\ chain.policy[m] \in rows.wasm \cup {Anyone} => ~ q.refused
  <1>1. PICK d : d = CreateModule(r, m, StatusOf(m, trouble))
    OBVIOUS
  <1>2. PICK l : l = SetPrePropose(d, m, Target(chain.policy[m]))
    OBVIOUS
  <1>3. /\ l \in Tables
        /\ l.refused <=> chain.policy[m] \notin rows.wasm \cup {Anyone}
        /\ ~ l.refused => /\ Kept(l, r, {"modules"}) /\ DOMAIN l.modules = s \cup {m}
                          /\ \A n \in s \cup {m} : l.modules[n] = Taking(n, trouble)
    BY <1>1, <1>2, LinkedTaken
  <1>4. q = IF m \in chain.bricked THEN Refuse(r)
            ELSE IF m \in DOMAIN chain.proposals /\ <<m, "proposals">> \notin trouble
                 THEN CreateProposal(l, m)
            ELSE l
    BY <1>1, <1>2 DEF SnapshotModule, Target
  <1>5. r \in Tables /\ ~ r.refused
    BY DEF Taken
  <1>6. CASE m \in chain.bricked
    BY <1>4, <1>5, <1>6 DEF Refuse, Tables
  <1>7. CASE m \notin chain.bricked /\ l.refused
    <2>1. q.refused
      BY <1>3, <1>4, <1>7, StaysRefused
    <2> QED
      BY <1>3, <1>7, <2>1
  <1>8. CASE m \notin chain.bricked /\ ~ l.refused
    <2>1. /\ l.wasm = rows.wasm /\ l.core = {chain.voting} /\ l.votings = rows.wasm \cap Votings
          /\ l.prePropose = rows.wasm \cap PreProposes
          /\ l.subs = chain.subs \/ <<None, "subs">> \in trouble
          /\ l.proposals = r.proposals
      BY <1>3, <1>8 DEF Kept, Taken
    <2>2. /\ DOMAIN r.proposals \subseteq s \cap DOMAIN chain.proposals
          /\ \A n \in DOMAIN r.proposals : r.proposals[n] = chain.proposals[n]
          /\ \A n \in s \cap DOMAIN chain.proposals :
               n \in DOMAIN r.proposals \/ <<n, "proposals">> \in trouble
      BY DEF Taken
    <2>3. CASE m \in DOMAIN chain.proposals /\ <<m, "proposals">> \notin trouble
      <3>1. m \in DOMAIN l.modules /\ m \notin DOMAIN l.proposals
        BY <1>3, <1>8, <2>1, <2>2
      <3>2. q = CreateProposal(l, m)
        BY <1>4, <1>8, <2>3
      <3>3. /\ q \in Tables /\ ~ q.refused /\ Kept(q, l, {"proposals"})
            /\ DOMAIN q.proposals = DOMAIN l.proposals \cup {m}
            /\ \A n \in DOMAIN l.proposals : q.proposals[n] = l.proposals[n]
            /\ q.proposals[m] = chain.proposals[m]
        BY <1>3, <1>8, <2>3, <3>1, <3>2, CreateProposalIs
      <3>4. /\ q.wasm = l.wasm /\ q.core = l.core /\ q.votings = l.votings
            /\ q.prePropose = l.prePropose /\ q.subs = l.subs /\ q.modules = l.modules
        BY <3>3 DEF Kept
      <3> QED
        BY <1>3, <1>8, <2>1, <2>2, <2>3, <3>3, <3>4 DEF Taken
    <2>4. CASE ~ (m \in DOMAIN chain.proposals /\ <<m, "proposals">> \notin trouble)
      <3>1. q = l
        BY <1>4, <1>8, <2>4
      <3> QED
        BY <1>3, <1>8, <2>1, <2>2, <2>4, <3>1 DEF Taken
    <2> QED
      BY <2>3, <2>4
  <1> QED
    BY <1>6, <1>7, <1>8

\* The contracts and the core come first.
LEMMA CoreTaken ==
    ASSUME IInv, rows = Bare(rows.wasm), rows.wasm # {}, NEW trouble, NEW q,
           q = SetVoting([rows EXCEPT !.votings = @ \cup (rows.wasm \cap Votings),
                                      !.prePropose = @ \cup (rows.wasm \cap PreProposes),
                                      !.core = {None},
                                      !.subs = IF <<None, "subs">> \in trouble THEN @ ELSE chain.subs],
                         chain.voting)
    PROVE  /\ ~ q.refused => Taken(q, {}, trouble)
           /\ chain.voting \in rows.wasm => ~ q.refused
  <1>1. PICK e, W, V, P, S, v :
            /\ e = << >> /\ W = rows.wasm /\ V = W \cap Votings /\ P = W \cap PreProposes
            /\ S = (IF <<None, "subs">> \in trouble THEN {} ELSE chain.subs) /\ v = chain.voting
    OBVIOUS
  <1>2. rows = [wasm |-> W, core |-> {}, votings |-> {}, modules |-> e, prePropose |-> {},
                proposals |-> e, ballots |-> e, approvals |-> e, subs |-> {}, refused |-> FALSE]
    BY <1>1 DEF Bare
  <1>3. /\ rows \in Tables /\ v \in Votings \cup {None} /\ S \subseteq SubDaos /\ W \subseteq chain.contracts
        /\ ChainOK(chain)
    BY <1>1 DEF IInv, ChainOK, ChainStates, BlockTold
  <1>4. PICK c : c = [rows EXCEPT !.votings = V, !.prePropose = P, !.core = {None}, !.subs = S]
    OBVIOUS
  <1>5. q = SetVoting(c, v)
    <2>1. /\ rows.votings \cup (rows.wasm \cap Votings) = V
          /\ rows.prePropose \cup (rows.wasm \cap PreProposes) = P
          /\ (IF <<None, "subs">> \in trouble THEN rows.subs ELSE chain.subs) = S
      BY <1>1, <1>2
    <2> QED
      BY <1>1, <1>4, <2>1
  <1>6. /\ c \in Tables /\ ~ c.refused /\ c.wasm = W /\ c.votings = V /\ c.prePropose = P /\ c.subs = S
        /\ c.modules = e /\ c.proposals = e
    <2>1. V \in SUBSET Votings /\ P \in SUBSET PreProposes /\ {None} \in SUBSET (Votings \cup {None})
          /\ S \in SUBSET SubDaos
      BY <1>1, <1>3
    <2>2. /\ c \in Tables /\ c.refused = rows.refused /\ c.wasm = rows.wasm /\ c.votings = V
          /\ c.prePropose = P /\ c.subs = S /\ c.modules = rows.modules /\ c.proposals = rows.proposals
      BY <1>3, <1>4, <2>1 DEF Tables
    <2>3. rows.refused = FALSE /\ rows.wasm = W /\ rows.modules = e /\ rows.proposals = e
      BY <1>2
    <2> QED
      BY <2>2, <2>3
  <1>7. CASE v \notin V
    <2>1. q.refused
      BY <1>5, <1>6, <1>7 DEF SetVoting, Refuse, Tables
    <2>2. v \notin W
      <3>1. v # None
        <4>1. v = None => chain.contracts = {}
          BY <1>1, <1>3 DEF ChainOK
        <4> QED
          BY <1>1, <1>3, <4>1
      <3> QED
        BY <1>1, <1>3, <1>7, <3>1
    <2> QED
      BY <1>1, <2>1, <2>2
  <1>8. CASE v \in V
    <2>1. q = [c EXCEPT !.core = {v}]
      BY <1>5, <1>6, <1>8 DEF SetVoting
    <2>2. /\ q \in Tables /\ ~ q.refused /\ q.wasm = W /\ q.core = {v} /\ q.votings = V
          /\ q.prePropose = P /\ q.subs = S /\ q.modules = e /\ q.proposals = e
      BY <1>3, <1>6, <2>1 DEF Tables
    <2>3. DOMAIN e = {}
      BY <1>1
    <2>4. S = chain.subs \/ <<None, "subs">> \in trouble
      BY <1>1
    <2>5. Taken(q, {}, trouble)
      BY <1>1, <2>2, <2>3, <2>4 DEF Taken
    <2> QED
      BY <2>2, <2>5
  <1> QED
    BY <1>7, <1>8

\* T[s] has the modules s.
ModulesPass(T, S, base, trouble) ==
    T = [s \in SUBSET S |->
            IF s = {} THEN base
            ELSE IF T[s \ {CHOOSE x \in s : TRUE}].refused THEN T[s \ {CHOOSE x \in s : TRUE}]
            ELSE SnapshotModule(T[s \ {CHOOSE x \in s : TRUE}], CHOOSE x \in s : TRUE, trouble)]

\* What keeps the snapshot from being taken.
Untakeable ==
    \/ chain.voting \notin rows.wasm
    \/ \E m \in rows.wasm \cap Modules :
        m \in chain.bricked \/ chain.policy[m] \notin rows.wasm \cup {Anyone}

\* All modules are taken, unless one of those named keeps the snapshot from it.
LEMMA SnapshotTaken ==
    ASSUME IInv, rows = Bare(rows.wasm), rows.wasm # {}, NEW trouble, NEW q, q = Snapshot(rows, trouble)
    PROVE  /\ ~ q.refused => Taken(q, rows.wasm \cap Modules, trouble)
           /\ ~ Untakeable => ~ q.refused
  <1>1. PICK S : S = rows.wasm \cap Modules
    OBVIOUS
  <1> DEFINE core == SetVoting([rows EXCEPT !.votings = @ \cup (rows.wasm \cap Votings),
                                      !.prePropose = @ \cup (rows.wasm \cap PreProposes),
                                      !.core = {None},
                                      !.subs = IF <<None, "subs">> \in trouble THEN @ ELSE chain.subs],
                               chain.voting)
  <1>2. PICK base : base = core
    OBVIOUS
  <1>3. /\ ~ base.refused => Taken(base, {}, trouble)
        /\ chain.voting \in rows.wasm => ~ base.refused
    BY <1>2, CoreTaken
  <1>4. ChainOK(chain) /\ rows.wasm \subseteq chain.contracts /\ IsFiniteSet(S)
    <2>1. ChainOK(chain) /\ rows.wasm \subseteq chain.contracts
      BY DEF IInv, BlockTold
    <2>2. IsFiniteSet(chain.contracts) /\ S \subseteq chain.contracts
      BY <1>1, <2>1 DEF ChainOK
    <2> QED
      BY <2>1, <2>2, FS_Subset
  <1>5. Picks("snapshot", S)
    BY DEF Picks, Pick
  <1>6. PICK T : PassAll(T, "snapshot", base, S, trouble)
    BY <1>4, <1>5, PassExists
  <1>7. ModulesPass(T, S, base, trouble)
    BY <1>6 DEF PassAll, ModulesPass, Step, Pick
  <1> DEFINE C == CHOOSE U : ModulesPass(U, S, base, trouble)
  <1>8. ModulesPass(C, S, base, trouble)
    BY <1>7
  <1>9. q = C[S]
    BY <1>1, <1>2 DEF Snapshot, FoldSet, MapThenFoldSet, ModulesPass
  <1>10. PICK U : U = C
    OBVIOUS
  <1> HIDE DEF C
  <1>11. ASSUME NEW s \in SUBSET S, s # {}
         PROVE  \E m \in s : U[s] = IF U[s \ {m}].refused THEN U[s \ {m}]
                                    ELSE SnapshotModule(U[s \ {m}], m, trouble)
    <2>1. PICK m : m = CHOOSE x \in s : TRUE
      OBVIOUS
    <2>2. m \in s
      BY <1>11, <2>1
    <2>3. U[s] = IF U[s \ {m}].refused THEN U[s \ {m}] ELSE SnapshotModule(U[s \ {m}], m, trouble)
      BY <1>8, <1>10, <1>11, <2>1 DEF ModulesPass
    <2> QED
      BY <2>2, <2>3
  <1>12. U[{}] = base
    BY <1>8, <1>10 DEF ModulesPass
  <1> DEFINE Good(s) == /\ ~ U[s].refused => Taken(U[s], s, trouble)
                        /\ ~ Untakeable => ~ U[s].refused
             G == {n \in Nat : \A s \in SUBSET S : Cardinality(s) <= n => Good(s)}
  <1>13. Good({})
    BY <1>3, <1>12 DEF Untakeable
  <1>14. 0 \in G
    <2>1. \A s \in SUBSET S : Cardinality(s) <= 0 => s = {}
      BY <1>4, FS_Subset, FS_EmptySet, FS_CardinalityType
    <2> QED
      BY <1>13, <2>1
  <1>15. ASSUME NEW n \in G PROVE n + 1 \in G
    <2>0. n \in Nat
      OBVIOUS
    <2>1. ASSUME NEW s \in SUBSET S, Cardinality(s) <= n + 1 PROVE Good(s)
      <3>1. CASE s = {}
        BY <1>13, <3>1
      <3>2. CASE s # {}
        <4>1. PICK m \in s : U[s] = IF U[s \ {m}].refused THEN U[s \ {m}]
                                    ELSE SnapshotModule(U[s \ {m}], m, trouble)
          BY <1>11, <3>2
        <4>2. PICK t, r, p : t = s \ {m} /\ r = U[t] /\ p = U[s]
          OBVIOUS
        <4>3. t \in SUBSET S /\ Cardinality(s) \in Nat /\ Cardinality(t) = Cardinality(s) - 1
          BY <1>4, <4>2, Smaller
        <4>4. Cardinality(t) <= n
          BY <2>0, <2>1, <4>3
        <4>5. Good(t)
          BY <4>3, <4>4
        <4>6. (~ r.refused => Taken(r, t, trouble)) /\ (~ Untakeable => ~ r.refused)
          BY <4>2, <4>5
        <4>7. p = IF r.refused THEN r ELSE SnapshotModule(r, m, trouble)
          BY <4>1, <4>2
        <4>8. m \in rows.wasm \cap Modules /\ m \notin t /\ s = t \cup {m}
          BY <1>1, <4>2
        <4>9. (~ p.refused => Taken(p, s, trouble)) /\ (~ Untakeable => ~ p.refused)
          <5>1. CASE r.refused
            BY <4>6, <4>7, <5>1
          <5>2. CASE ~ r.refused
            <6>1. p = SnapshotModule(r, m, trouble) /\ Taken(r, t, trouble)
              BY <4>6, <4>7, <5>2
            <6>2. /\ ~ p.refused => Taken(p, t \cup {m}, trouble)
                  /\ m \notin chain.bricked /\ chain.policy[m] \in rows.wasm \cup {Anyone} => ~ p.refused
              BY <1>4, <4>8, <6>1, ModuleTaken
            <6> QED
              BY <4>8, <6>2 DEF Untakeable
          <5> QED
            BY <5>1, <5>2
        <4> QED
          BY <4>2, <4>9
      <3> QED
        BY <3>1, <3>2
    <2> HIDE DEF Good
    <2> QED
      BY <2>0, <2>1
  <1>16. G = Nat
    <2> HIDE DEF G
    <2>1. G \in SUBSET Nat
      BY DEF G
    <2> QED
      BY <1>14, <1>15, <2>1, Induction
  <1>17. Cardinality(S) \in Nat
    BY <1>4, FS_CardinalityType
  <1>18. Good(S)
    BY <1>16, <1>17
  <1> QED
    BY <1>1, <1>9, <1>10, <1>18

----------------------------------------------------------------------------
(* The snapshot and the end of a block keep what is seen.                   *)

\* Heights are numbers.
LEMMA Heights ==
    ASSUME NEW ch, ChainOK(ch)
    PROVE  /\ \A b \in DOMAIN ch.ballots : ch.ballots[b].height \in Nat
           /\ \A c \in DOMAIN ch.approvals : ch.approvals[c].height \in Nat
  <1>1. PICK B, A, f, g : /\ B = [choice : YesNo, height : Nat] /\ f = ch.ballots /\ g = ch.approvals
                          /\ A = [state : {"pending", "approved", "rejected"}, height : Nat]
    OBVIOUS
  <1>2. f \in Maps(Ballots, B) /\ g \in Maps(PreProposes, A)
    BY <1>1 DEF ChainOK, ChainStates
  <1>3. (\A b \in DOMAIN f : f[b] \in B) /\ (\A c \in DOMAIN g : g[c] \in A)
    BY <1>2, MapFacts
  <1>4. (\A y \in B : y.height \in Nat) /\ (\A y \in A : y.height \in Nat)
    BY <1>1
  <1> QED
    BY <1>1, <1>3, <1>4

\* The snapshot has what the chain was before the block.
LEMMA SnapshotSeen ==
    ASSUME IInv, height = Cutoff, rows = Bare(rows.wasm), rows.wasm # {},
           NEW trouble, NEW q, Taken(q, rows.wasm \cap Modules, trouble),
           NEW x, \A m : <<m, "proposals">> \in trouble => m \in x, NEW w, trouble \subseteq w
    PROVE  RowsSeen(q, log, 0, chain, x, w)
  <1>1. ChainOK(chain) /\ BlockTold(log, chain, height, rows.wasm) /\ height \in Nat
    BY DEF IInv, Phase
  <1>2. PICK ch, es, W, s : ch = chain /\ es = log /\ W = rows.wasm /\ s = W \cap Modules
    OBVIOUS
  <1>3. ChainOK(ch) /\ BlockTold(es, ch, Cutoff, W) /\ Taken(q, s, trouble) /\ Cutoff \in Nat
    BY <1>1, <1>2
  <1>4. /\ W \subseteq ch.contracts /\ W # {}
        /\ \A c \in ch.contracts : c \in W \/ ToInstantiate(es, 0, c)
    BY <1>2, <1>3 DEF BlockTold
  <1>5. CoreSeen(q, es, 0, ch)
    <2>1. ch.voting # None
      <3>1. ch.voting = None => ch.contracts = {}
        BY <1>3 DEF ChainOK
      <3> QED
        BY <1>4, <3>1
    <2>2. q.core = {ch.voting}
      BY <1>2, <1>3 DEF Taken
    <2> QED
      BY <2>1, <2>2 DEF CoreSeen, CoreOf
  <1>6. ContractsSeen(q, es, 0, ch)
    <2>1. q.votings = W \cap Votings /\ q.prePropose = W \cap PreProposes
      BY <1>2, <1>3 DEF Taken
    <2> QED
      BY <1>4, <2>1 DEF ContractsSeen
  <1>7. SubsSeen(q, es, 0, ch, w)
    BY <1>2, <1>3 DEF Taken, SubsSeen
  <1>8. ModulesSeen(q, es, 0, ch, x, w)
    <2>1. DOMAIN ch.status = ch.contracts \cap Modules
      BY <1>3 DEF ChainOK
    <2>2. DOMAIN q.modules = s /\ \A m \in s : q.modules[m] = Taking(m, trouble)
      BY <1>3 DEF Taken
    <2>3. ASSUME NEW m \in s PROVE ModuleSeen(q.modules[m], es, 0, ch, m, w)
      <3>1. PICK row : row = q.modules[m]
        OBVIOUS
      <3>2. row = [status |-> StatusOf(m, trouble), policy |-> ch.policy[m],
                   prePropose |-> Target(ch.policy[m]), whole |-> TRUE]
        BY <1>2, <2>2, <3>1 DEF Taking
      <3>3. StatusOf(m, trouble) = ch.status[m] \/ <<m, "status">> \in w
        BY <1>2 DEF StatusOf
      <3>4. row.whole /\ row.policy = ch.policy[m] /\ row.prePropose = Target(ch.policy[m])
            /\ row.status = StatusOf(m, trouble)
        BY <3>2
      <3>5. ModuleSeen(row, es, 0, ch, m, w)
        BY <3>3, <3>4 DEF ModuleSeen
      <3> QED
        BY <3>1, <3>5
    <2>4. s \subseteq DOMAIN ch.status
      BY <1>2, <1>4, <2>1
    <2>5. ASSUME NEW m \in DOMAIN ch.status, m \notin s PROVE ToInstantiate(es, 0, m)
      BY <1>2, <1>4, <2>1, <2>5
    <2> QED
      BY <2>2, <2>3, <2>4, <2>5 DEF ModulesSeen
  <1>9. ProposalsSeen(q, es, 0, ch, x)
    <2>1. /\ DOMAIN q.proposals \subseteq s \cap DOMAIN ch.proposals
          /\ \A m \in DOMAIN q.proposals : q.proposals[m] = ch.proposals[m]
          /\ \A m \in s \cap DOMAIN ch.proposals : m \in DOMAIN q.proposals \/ <<m, "proposals">> \in trouble
      BY <1>2, <1>3 DEF Taken
    <2>2. \A m \in DOMAIN ch.proposals : m \in W \/ To(es, 0, "propose", m)
      BY <1>3 DEF BlockTold
    <2> QED
      BY <1>2, <2>1, <2>2 DEF ProposalsSeen
  <1>10. BallotsSeen(q, es, 0, ch, x)
    <2>1. \A b \in DOMAIN ch.ballots :
            ch.ballots[b].height <= Cutoff /\ (ch.ballots[b].height = Cutoff => ToVote(es, 0, b))
      BY <1>3 DEF BlockTold
    <2>2. \A b \in DOMAIN ch.ballots : ch.ballots[b].height \in Nat
      BY <1>3, Heights
    <2> QED
      BY <1>3, <2>1, <2>2 DEF BallotsSeen
  <1>11. ApprovalsSeen(q, es, 0, ch)
    <2>1. \A c \in DOMAIN ch.approvals :
            /\ ch.approvals[c].height <= Cutoff
            /\ ch.approvals[c].height = Cutoff => To(es, 0, "submit", c)
      BY <1>3 DEF BlockTold
    <2>2. \A c \in DOMAIN ch.approvals : ch.approvals[c].height \in Nat
      BY <1>3, Heights
    <2> QED
      BY <1>3, <2>1, <2>2 DEF ApprovalsSeen
  <1> QED
    BY <1>2, <1>5, <1>6, <1>7, <1>8, <1>9, <1>10, <1>11 DEF RowsSeen

\* When nothing was there before the block, all is still to come.
LEMMA NothingSeen ==
    ASSUME IInv, height = Cutoff, rows = Bare({}), NEW x, NEW w
    PROVE  RowsSeen(rows, log, 0, chain, x, w)
  <1>1. ChainOK(chain) /\ BlockTold(log, chain, height, rows.wasm) /\ height \in Nat
    BY DEF IInv, Phase
  <1>2. PICK ch, es, r, e : ch = chain /\ es = log /\ r = rows /\ e = << >>
    OBVIOUS
  <1>3. r = [wasm |-> {}, core |-> {}, votings |-> {}, modules |-> e, prePropose |-> {},
             proposals |-> e, ballots |-> e, approvals |-> e, subs |-> {}, refused |-> FALSE]
    BY <1>2 DEF Bare
  <1>4. /\ r.wasm = {} /\ r.core = {} /\ r.subs = {} /\ r.modules = e /\ r.proposals = e
        /\ DOMAIN e = {}
    BY <1>2, <1>3
  <1>5. ChainOK(ch) /\ BlockTold(es, ch, Cutoff, {}) /\ Cutoff \in Nat
    BY <1>1, <1>2, <1>4
  <1>6. /\ \A c \in ch.contracts : ToInstantiate(es, 0, c)
        /\ ch.voting = None \/ (ToCreate(es, 0) /\ ToSetVoting(es, 0))
        /\ ch.subs = {} \/ To(es, 0, "update_sub_daos", None)
        /\ \A m \in DOMAIN ch.proposals : To(es, 0, "propose", m)
    BY <1>5 DEF BlockTold
  <1>7. CoreSeen(r, es, 0, ch)
    BY <1>4, <1>6 DEF CoreSeen, CoreOf
  <1>8. ContractsSeen(r, es, 0, ch) /\ SubsSeen(r, es, 0, ch, w)
    BY <1>4, <1>6 DEF ContractsSeen, SubsSeen
  <1>9. ModulesSeen(r, es, 0, ch, x, w)
    <2>1. DOMAIN ch.status \subseteq ch.contracts
      BY <1>5 DEF ChainOK
    <2> QED
      BY <1>4, <1>6, <2>1 DEF ModulesSeen
  <1>10. ProposalsSeen(r, es, 0, ch, x)
    BY <1>4, <1>6 DEF ProposalsSeen
  <1>11. BallotsSeen(r, es, 0, ch, x)
    <2>1. \A b \in DOMAIN ch.ballots :
            ch.ballots[b].height <= Cutoff /\ (ch.ballots[b].height = Cutoff => ToVote(es, 0, b))
      BY <1>5 DEF BlockTold
    <2>2. \A b \in DOMAIN ch.ballots : ch.ballots[b].height \in Nat
      BY <1>5, Heights
    <2> QED
      BY <1>5, <2>1, <2>2 DEF BallotsSeen
  <1>12. ApprovalsSeen(r, es, 0, ch)
    <2>1. \A c \in DOMAIN ch.approvals :
            /\ ch.approvals[c].height <= Cutoff
            /\ ch.approvals[c].height = Cutoff => To(es, 0, "submit", c)
      BY <1>5 DEF BlockTold
    <2>2. \A c \in DOMAIN ch.approvals : ch.approvals[c].height \in Nat
      BY <1>5, Heights
    <2> QED
      BY <1>5, <2>1, <2>2 DEF ApprovalsSeen
  <1> QED
    BY <1>2, <1>7, <1>8, <1>9, <1>10, <1>11, <1>12 DEF RowsSeen

\* TakeSnapshot.
LEMMA SnapshotKeeps ==
    ASSUME IInv, TakeSnapshot
    PROVE  IInv'
  <1>1. PICK trouble \in OneOf(((rows.wasm \cap Modules) \X {"status", "proposals"})
                                 \cup {<<None, "subs">>}) :
            /\ rows' = IF rows.wasm = {} THEN rows ELSE Snapshot(rows, trouble)
            /\ ~ rows'.refused
            /\ troubles' = troubles \cup trouble
            /\ gone' = gone \cup {t[1] : t \in {t \in trouble : t[2] = "proposals"}}
    BY DEF TakeSnapshot
  <1>2. /\ closed /\ height >= Cutoff /\ ~ snapped /\ snapped' = TRUE
        /\ UNCHANGED <<height, closed, chain, log>>
    BY DEF TakeSnapshot, SnapshotDue
  <1>3. height = Cutoff /\ height \in Nat /\ rows = Bare(rows.wasm) /\ gone \subseteq Modules
    BY <1>2, DaoParameters DEF IInv, Phase
  <1>4. Phase'
    BY <1>2, <1>3 DEF IInv, Phase
  <1>5. PICK q, x, w : q = rows' /\ x = gone' /\ w = troubles'
    OBVIOUS
  <1>6. trouble \subseteq ((rows.wasm \cap Modules) \X {"status", "proposals"}) \cup {<<None, "subs">>}
    BY DEF OneOf
  <1>7. x \subseteq Modules /\ (\A m : <<m, "proposals">> \in trouble => m \in x) /\ trouble \subseteq w
    <2>1. \A t \in trouble : t[2] = "proposals" => t[1] \in Modules
      BY <1>6
    <2>2. \A m : <<m, "proposals">> \in trouble => m \in {t[1] : t \in {t \in trouble : t[2] = "proposals"}}
      <3> TAKE m
      <3> SUFFICES ASSUME <<m, "proposals">> \in trouble
                   PROVE  \E t \in {t \in trouble : t[2] = "proposals"} : m = t[1]
        OBVIOUS
      <3>1. PICK t \in trouble : t = <<m, "proposals">>
        OBVIOUS
      <3> QED
        BY <3>1
    <2> QED
      BY <1>1, <1>3, <1>5, <2>1, <2>2
  <1>8. q \in Tables /\ ~ q.refused /\ q.wasm = rows.wasm /\ RowsSeen(q, log, 0, chain, x, w)
    <2>1. CASE rows.wasm = {}
      <3>1. q = rows /\ rows \in Tables /\ ~ rows.refused
        BY <1>1, <1>5, <2>1 DEF IInv
      <3>2. RowsSeen(rows, log, 0, chain, x, w)
        BY <1>3, <2>1, NothingSeen
      <3> QED
        BY <3>1, <3>2
    <2>2. CASE rows.wasm # {}
      <3>1. q = Snapshot(rows, trouble) /\ ~ q.refused
        BY <1>1, <1>5, <2>2
      <3>2. Taken(q, rows.wasm \cap Modules, trouble)
        BY <1>3, <2>2, <3>1, SnapshotTaken
      <3>3. RowsSeen(q, log, 0, chain, x, w)
        BY <1>3, <1>7, <2>2, <3>2, SnapshotSeen
      <3> QED
        BY <3>2, <3>3 DEF Taken
    <2> QED
      BY <2>1, <2>2
  <1>9. BlockTold(log, chain, height, q.wasm)
    BY <1>8 DEF IInv
  <1> QED
    BY <1>2, <1>4, <1>5, <1>7, <1>8, <1>9 DEF IInv

\* After the last event nothing is to come.
LEMMA NothingToCome ==
    ASSUME NEW es \in Seq(Events)
    PROVE  /\ \A t, c : ~ To(es, Len(es), t, c) /\ ~ To(<< >>, 0, t, c)
           /\ \A b : ~ ToVote(es, Len(es), b) /\ ~ ToVote(<< >>, 0, b)
  <1>1. Len(es) \in Nat /\ \A j \in 1..Len(es) : ~ (j > Len(es))
    OBVIOUS
  <1>2. 1..Len(<< >>) = {}
    OBVIOUS
  <1> QED
    BY <1>1, <1>2 DEF To, ToVote

\* What is seen when all events are handled is seen at the start of the next block.
LEMMA SeenOver ==
    ASSUME NEW es \in Seq(Events), NEW r, NEW ch, NEW x, NEW w, RowsSeen(r, es, Len(es), ch, x, w)
    PROVE  RowsSeen(r, << >>, 0, ch, x, w)
  <1>1. PICK n, fs : n = Len(es) /\ fs = << >>
    OBVIOUS
  <1>2. /\ \A t, c : ~ To(es, n, t, c) /\ ~ To(fs, 0, t, c)
        /\ \A b : ~ ToVote(es, n, b) /\ ~ ToVote(fs, 0, b)
    BY <1>1, NothingToCome
  <1>3. RowsSeen(r, es, n, ch, x, w)
    BY <1>1
  <1>4. CoreSeen(r, fs, 0, ch) /\ ContractsSeen(r, fs, 0, ch) /\ SubsSeen(r, fs, 0, ch, w)
    BY <1>2, <1>3
       DEF RowsSeen, CoreSeen, ContractsSeen, SubsSeen, ToCreate, ToSetVoting,
           ToInstantiate
  <1>5. ModulesSeen(r, fs, 0, ch, x, w)
    BY <1>2, <1>3 DEF RowsSeen, ModulesSeen, ModuleSeen, ToInstantiate, ToRefresh, ToSetPolicy
  <1>6. ProposalsSeen(r, fs, 0, ch, x) /\ BallotsSeen(r, fs, 0, ch, x) /\ ApprovalsSeen(r, fs, 0, ch)
    BY <1>2, <1>3 DEF RowsSeen, ProposalsSeen, BallotsSeen, ApprovalsSeen, ToConclude
  <1>7. RowsSeen(r, fs, 0, ch, x, w)
    BY <1>4, <1>5, <1>6 DEF RowsSeen
  <1> QED
    BY <1>1, <1>7

\* The contracts that are remembered are all there are.
LEMMA NextBlock ==
    ASSUME ChainOK(chain), height \in Nat, BlockTold(log, chain, height, rows.wasm), log \in Seq(Events),
           NEW q, WasmSeen(q, log, Len(log))
    PROVE  BlockTold(<< >>, chain, height + 1, q.wasm)
  <1>1. PICK ch, h, W : ch = chain /\ h = height /\ W = q.wasm
    OBVIOUS
  <1>2. ChainOK(ch) /\ h \in Nat /\ BlockTold(log, ch, h, rows.wasm)
    BY <1>1
  <1>3. W = ch.contracts
    BY <1>1, NothingToCome DEF WasmSeen, ToInstantiate
  <1>4. ch.contracts = {} => ch.voting = None /\ ch.subs = {}
    BY <1>2 DEF ChainOK
  <1>5. DOMAIN ch.proposals \subseteq W
    BY <1>2, <1>3 DEF ChainOK
  <1>6. \A b \in DOMAIN ch.ballots : ch.ballots[b].height <= h + 1 /\ ch.ballots[b].height # h + 1
    <2>1. \A b \in DOMAIN ch.ballots : ch.ballots[b].height \in Nat
      BY <1>2, Heights
    <2>2. \A b \in DOMAIN ch.ballots : ch.ballots[b].height <= h
      BY <1>2 DEF BlockTold
    <2> QED
      BY <1>2, <2>1, <2>2
  <1>7. \A c \in DOMAIN ch.approvals : ch.approvals[c].height <= h + 1 /\ ch.approvals[c].height # h + 1
    <2>1. \A c \in DOMAIN ch.approvals : ch.approvals[c].height \in Nat
      BY <1>2, Heights
    <2>2. \A c \in DOMAIN ch.approvals : ch.approvals[c].height <= h
      BY <1>2 DEF BlockTold
    <2> QED
      BY <1>2, <2>1, <2>2
  <1>8. BlockTold(<< >>, ch, h + 1, W)
    BY <1>3, <1>4, <1>5, <1>6, <1>7 DEF BlockTold
  <1> QED
    BY <1>1, <1>8

\* Index.
LEMMA IndexKeeps ==
    ASSUME IInv, Index
    PROVE  IInv'
  <1>1. PICK trouble : rows' = After(trouble) /\ ~ rows'.refused /\ troubles' = troubles \cup trouble
    BY DEF Index
  <1>2. /\ ~ (height >= Cutoff /\ ~ snapped)
        /\ gone' = gone \cup {log[i].of : i \in {i \in DOMAIN log : height >= Cutoff /\ Skipped(log[i])}}
        /\ height' = height + 1 /\ closed' = FALSE /\ log' = << >> /\ UNCHANGED <<chain, snapped>>
    BY DEF Index, SnapshotDue
  <1>3. /\ log \in Seq(Events) /\ ChainOK(chain) /\ height \in Nat /\ Phase /\ gone \subseteq Modules
        /\ BlockTold(log, chain, height, rows.wasm) /\ Cutoff \in Nat
    BY DaoParameters DEF IInv, Phase
  <1>4. PICK f : Indexes(f, trouble)
    BY <1>3, IndexSteps
  <1>5. PICK q, x, w : q = rows' /\ x = gone' /\ w = troubles'
    OBVIOUS
  <1>6. q = f[Len(log)]
    BY <1>1, <1>4, <1>5 DEF Indexes
  <1>7. Skips(log, chain) \subseteq Modules
    <2>1. chain.bricked \subseteq Modules
      BY <1>3 DEF ChainOK, ChainStates
    <2> QED
      BY <2>1 DEF Skips
  <1>8. x \subseteq gone \cup Skips(log, chain) /\ (height >= Cutoff => x = LeftOut)
    <2>1. DOMAIN log = 1..Len(log)
      BY <1>3
    <2>2. ASSUME NEW y PROVE y \in x <=> y \in gone \/ (height >= Cutoff /\ y \in Skips(log, chain))
      <3>1. y \in x <=> y \in gone \/ \E i \in {i \in DOMAIN log : height >= Cutoff /\ Skipped(log[i])} : y = log[i].of
        BY <1>2, <1>5
      <3>2. y \in Skips(log, chain) <=> \E i \in {k \in 1..Len(log) : log[k].of \in chain.bricked} : y = log[i].of
        BY DEF Skips
      <3> QED
        BY <2>1, <3>1, <3>2 DEF Skipped
    <2> QED
      BY <2>2 DEF LeftOut
  <1>9. x \subseteq Modules
    BY <1>3, <1>7, <1>8
  <1>10. Phase'
    <2>1. /\ height \in Nat /\ Cutoff \in Nat /\ snapped \in BOOLEAN
          /\ snapped => height >= Cutoff
          /\ ~ snapped => height < Cutoff
      BY <1>2, <1>3 DEF Phase
    <2>2. height + 1 \in Nat \ {0} /\ (height >= Cutoff => height + 1 > Cutoff)
          /\ (height < Cutoff => ~ (height + 1 > Cutoff)) /\ (height + 1 > Cutoff => height + 1 >= Cutoff)
          /\ (height + 1 > Cutoff => height + 1 # Cutoff)
      BY <2>1
    <2>3. snapped' = snapped /\ height' = height + 1 /\ closed' = FALSE
      BY <1>2
    <2> QED
      BY <2>1, <2>2, <2>3 DEF Phase
  <1>11. << >> \in Seq(Events) /\ Told(<< >>, chain)
    <2>1. << >> \in Seq(Events) /\ 1..Len(<< >>) = {}
      OBVIOUS
    <2> QED
      BY <2>1 DEF Told
  <1>12. /\ q \in Tables /\ WasmSeen(q, log, Len(log))
         /\ IF snapped THEN RowsSeen(q, << >>, 0, chain, x, w) ELSE q = Bare(q.wasm)
    <2>1. CASE snapped
      <3>1. height >= Cutoff
        BY <1>3, <2>1 DEF Phase
      <3>2. Handles(f, Len(log), trouble)
        BY <1>4, <2>1, AllHandled
      <3>3. Seen(q, log, Len(log), LeftOut, troubles \cup trouble) /\ WasmSeen(q, log, Len(log))
        BY <1>1, <1>5, <1>6, <3>2 DEF Handles
      <3>4. q \in Tables /\ RowsSeen(q, log, Len(log), chain, x, w)
        BY <1>1, <1>5, <1>8, <3>1, <3>3 DEF Seen
      <3>5. RowsSeen(q, << >>, 0, chain, x, w)
        BY <1>3, <3>4, SeenOver
      <3> QED
        BY <2>1, <3>3, <3>4, <3>5
    <2>2. CASE ~ snapped
      <3>1. height < Cutoff
        BY <1>2, <1>3, <2>2
      <3>2. Remembers(f, Len(log))
        BY <1>4, <2>2, <3>1, AllRemembered
      <3> QED
        BY <1>6, <2>2, <3>2 DEF Remembers
    <2> QED
      BY <2>1, <2>2
  <1>13. BlockTold(<< >>, chain, height + 1, q.wasm)
    BY <1>3, <1>12, NextBlock
  <1>14. ~ q.refused
    BY <1>1, <1>5
  <1> QED
    BY <1>2, <1>3, <1>5, <1>9, <1>10, <1>11, <1>12, <1>13, <1>14 DEF IInv

----------------------------------------------------------------------------

\* At first there is nothing.
LEMMA Initially ==
    ASSUME Init
    PROVE  IInv
  <1>1. PICK e : e = << >>
    OBVIOUS
  <1>2. e \in Seq(Events) /\ DOMAIN e = {} /\ 1..Len(e) = {} /\ (\A S, T : e \in Maps(S, T))
    <2>1. DOMAIN << >> = {} /\ << >> = [y \in {} |-> y] /\ << >> \in Seq(Events) /\ Len(<< >>) = 0
      OBVIOUS
    <2>2. \A T : << >> \in [{} -> T]
      BY <2>1
    <2> QED
      BY <1>1, <2>1, <2>2 DEF Maps
  <1>3. PICK ch : ch = chain
    OBVIOUS
  <1>4. ch = [voting |-> None, status |-> e, policy |-> e, contracts |-> {}, proposals |-> e,
              ballots |-> e, approvals |-> e, subs |-> {}, bricked |-> {}]
    BY <1>1, <1>3 DEF Init, Genesis
  <1>5. ch \in ChainStates
    BY <1>2, <1>4 DEF ChainStates
  <1>6. /\ ch.voting = None /\ ch.status = e /\ ch.policy = e /\ ch.contracts = {} /\ ch.proposals = e
        /\ ch.ballots = e /\ ch.approvals = e /\ ch.subs = {} /\ ch.bricked = {}
    BY <1>4
  <1>7. ChainOK(ch)
    BY <1>2, <1>5, <1>6, FS_EmptySet DEF ChainOK
  <1>8. Told(e, ch)
    BY <1>2 DEF Told
  <1>9. BlockTold(e, ch, 1, {})
    BY <1>2, <1>6 DEF BlockTold
  <1>10. rows = Bare({}) /\ rows.wasm = {} /\ rows \in Tables /\ ~ rows.refused
    <2>1. rows = Bare({})
      BY DEF Init, NoRows, Bare
    <2> QED
      BY <2>1, BareIs
  <1>11. Phase
    <2>1. Cutoff \in Nat /\ ~ (1 > Cutoff)
      BY DaoParameters
    <2>2. height = 1 /\ closed \in BOOLEAN /\ snapped \in BOOLEAN /\ ~ snapped
      BY DEF Init
    <2>3. height \in Nat \ {0} /\ ~ (height > Cutoff)
      BY <2>1, <2>2
    <2> QED
      BY <2>2, <2>3 DEF Phase
  <1>12. log = e /\ height = 1 /\ gone = {} /\ snapped = FALSE
    BY <1>1 DEF Init
  <1> QED
    BY <1>2, <1>3, <1>7, <1>8, <1>9, <1>10, <1>11, <1>12 DEF IInv

\* Each step keeps it.
LEMMA Stepwise ==
    ASSUME IInv, [Next]_vars
    PROVE  IInv'
  <1>1. CASE UNCHANGED vars
    <2>1. UNCHANGED <<height, closed, chain, log, rows, snapped, gone, troubles>>
      BY <1>1 DEF vars
    <2>2. Phase'
      BY <2>1 DEF IInv, Phase
    <2> QED
      BY <2>1, <2>2 DEF IInv
  <1>2. CASE ChainStep
    BY <1>2, CreateDaoKeeps, SwapVotingKeeps, UpdateModulesKeeps, UpdatePolicyKeeps, ProposeKeeps,
       VoteKeeps, ConcludeKeeps, SubmitKeeps, ResolveKeeps, UpdateSubDaosKeeps, MigrateKeeps,
       CloseBlockKeeps
       DEF ChainStep
  <1>3. CASE TakeSnapshot
    BY <1>3, SnapshotKeeps
  <1>4. CASE Index
    BY <1>4, IndexKeeps
  <1> QED
    BY <1>1, <1>2, <1>3, <1>4 DEF Next

\* The rows and the events that are left always make up what the chain is.
THEOREM Invariance == Spec => []IInv
  <1>1. Init => IInv
    BY Initially
  <1>2. IInv /\ [Next]_vars => IInv'
    BY Stepwise
  <1> QED
    BY <1>1, <1>2, PTL DEF Spec

\* After each block the rows of the core and its modules are the chain's.
THEOREM ModulesHold == Spec => []ModulesMatch
  <1>1. IInv => ModulesMatch
    <2> SUFFICES ASSUME IInv, Settled PROVE ModulesMatch
      BY DEF ModulesMatch
    <2>1. PICK ch, es, r : ch = chain /\ es = log /\ r = rows
      OBVIOUS
    <2>2. /\ es = << >> /\ RowsSeen(r, es, 0, ch, gone, troubles)
      <3>1. Phase /\ log = << >> /\ height > Cutoff
        BY DEF IInv, Settled
      <3>2. snapped
        BY <3>1 DEF Phase
      <3>3. RowsSeen(rows, log, 0, chain, gone, troubles)
        BY <3>2 DEF IInv
      <3> QED
        BY <2>1, <3>1, <3>3
    <2>3. \A t, c : ~ To(es, 0, t, c)
      <3>1. 1..Len(es) = {}
        BY <2>2
      <3> QED
        BY <3>1 DEF To
    <2>4. r.core = CoreOf(ch.voting)
      BY <2>2, <2>3 DEF RowsSeen, CoreSeen, ToSetVoting
    <2>5. r.subs = ch.subs \/ <<None, "subs">> \in troubles
      BY <2>2, <2>3 DEF RowsSeen, SubsSeen
    <2>6. /\ DOMAIN r.modules \subseteq DOMAIN ch.status
          /\ \A m \in DOMAIN ch.status \ gone :
                m \in DOMAIN r.modules /\ ModuleSeen(r.modules[m], es, 0, ch, m, troubles)
      BY <2>2, <2>3 DEF RowsSeen, ModulesSeen, ToInstantiate
    <2>7. ASSUME NEW m \in DOMAIN ch.status \ gone
          PROVE  /\ r.modules[m].whole
                 /\ r.modules[m].status = ch.status[m] \/ <<m, "status">> \in troubles
                 /\ r.modules[m].policy = ch.policy[m]
                 /\ r.modules[m].prePropose = Target(r.modules[m].policy)
      <3>1. ModuleSeen(r.modules[m], es, 0, ch, m, troubles)
        BY <2>6
      <3> QED
        BY <2>3, <3>1 DEF ModuleSeen, ToInstantiate, ToRefresh, ToSetPolicy
    <2> QED
      BY <2>1, <2>4, <2>5, <2>6, <2>7 DEF ModulesMatch, CoreOf, Target
  <1> QED
    BY <1>1, Invariance, PTL

\* And so are the proposals, the votes and the approvals.
THEOREM ProposalsHold == Spec => []ProposalsMatch
  <1>1. IInv => ProposalsMatch
    <2> SUFFICES ASSUME IInv, Settled PROVE ProposalsMatch
      BY DEF ProposalsMatch
    <2>1. PICK ch, es, r : ch = chain /\ es = log /\ r = rows
      OBVIOUS
    <2>2. /\ es = << >> /\ RowsSeen(r, es, 0, ch, gone, troubles)
      <3>1. Phase /\ log = << >> /\ height > Cutoff
        BY DEF IInv, Settled
      <3>2. snapped
        BY <3>1 DEF Phase
      <3>3. RowsSeen(rows, log, 0, chain, gone, troubles)
        BY <3>2 DEF IInv
      <3> QED
        BY <2>1, <3>1, <3>3
    <2>3. (\A t, c : ~ To(es, 0, t, c)) /\ (\A b : ~ ToVote(es, 0, b))
      <3>1. 1..Len(es) = {}
        BY <2>2
      <3> QED
        BY <3>1 DEF To, ToVote
    <2>4. \A m \in Modules \ gone :
            /\ m \in DOMAIN r.proposals <=> m \in DOMAIN ch.proposals
            /\ m \in DOMAIN r.proposals => r.proposals[m] = ch.proposals[m]
      BY <2>2, <2>3 DEF RowsSeen, ProposalsSeen, ToConclude
    <2>5. \A b \in DOMAIN ch.ballots :
            (b[1] \notin gone /\ ch.ballots[b].height >= Cutoff) =>
                b \in DOMAIN r.ballots /\ r.ballots[b] = ch.ballots[b].choice
      BY <2>2, <2>3 DEF RowsSeen, BallotsSeen
    <2>6. \A q \in DOMAIN ch.approvals :
            ch.approvals[q].height >= Cutoff =>
                q \in DOMAIN r.approvals /\ r.approvals[q] = ch.approvals[q].state
      BY <2>2, <2>3 DEF RowsSeen, ApprovalsSeen
    <2> QED
      BY <2>1, <2>4, <2>5, <2>6 DEF ProposalsMatch
  <1> QED
    BY <1>1, Invariance, PTL

\* No block is refused but those named, in whatever order its events come.
THEOREM IndexableHolds == Spec => []DaoBlocksIndexable
  <1>1. IInv => DaoBlocksIndexable
    <2> SUFFICES ASSUME IInv, ~ Dangles
                 PROVE  IF SnapshotDue THEN rows.wasm = {} \/ ~ Snapshot(rows, {}).refused
                        ELSE ~ After({}).refused
      BY DEF DaoBlocksIndexable
    <2>1. CASE SnapshotDue
      <3>1. rows = Bare(rows.wasm)
        BY <2>1 DEF IInv, SnapshotDue
      <3>2. rows.wasm # {} => ~ Untakeable
        BY <2>1 DEF Dangles, Untakeable
      <3>3. rows.wasm # {} => ~ Snapshot(rows, {}).refused
        BY <3>1, <3>2, SnapshotTaken
      <3> QED
        BY <2>1, <3>3
    <2>2. CASE ~ SnapshotDue
      <3>1. log \in Seq(Events) /\ height \in Nat /\ Cutoff \in Nat /\ Told(log, chain) /\ ChainOK(chain)
        BY DaoParameters DEF IInv, Phase
      <3>2. PICK f : Indexes(f, {})
        BY <3>1, IndexSteps
      <3>3. After({}) = f[Len(log)]
        BY <3>2 DEF Indexes
      <3>4. CASE snapped
        <4>1. Handles(f, Len(log), {})
          BY <3>2, <3>4, AllHandled
        <4>2. Sound(log, LeftOut)
          <5>1. ASSUME NEW j \in 1..Len(log), log[j].type \in {"vote", "propose"},
                       log[j].of \notin chain.bricked
                PROVE  log[j].of \notin LeftOut
            <6>1. j \in DOMAIN log
              BY <3>1
            <6>2. log[j].of \notin gone
              BY <5>1, <6>1 DEF Dangles, Has
            <6>3. log[j].of \notin Skips(log, chain)
              BY <5>1 DEF Skips
            <6> QED
              BY <6>2, <6>3 DEF LeftOut
          <5>2. ASSUME NEW j \in 1..Len(log), log[j].type = "submit"
                PROVE  ~ To(log, 0, "resolve", log[j].of)
            <6>1. DOMAIN log = 1..Len(log)
              BY <3>1
            <6>2. log[j].of \in PreProposes
              <7>1. log[j].of \in DOMAIN chain.approvals
                BY <3>1, <5>2 DEF Told, EventTold, SubmitTold
              <7>2. chain.approvals \in Maps(PreProposes, [state : {"pending", "approved", "rejected"}, height : Nat])
                BY <3>1 DEF ChainOK, ChainStates
              <7> QED
                BY <7>1, <7>2, MapFacts
            <6>3. Has("submit", log[j].of)
              BY <5>2, <6>1 DEF Has
            <6>4. ~ Has("resolve", log[j].of)
              BY <6>2, <6>3 DEF Dangles
            <6> QED
              BY <6>1, <6>4 DEF Has, To
          <5> QED
            BY <5>1, <5>2 DEF Sound
        <4> QED
          BY <2>2, <3>3, <4>1, <4>2 DEF Handles
      <3>5. CASE ~ snapped
        <4>1. height < Cutoff
          BY <2>2, <3>1, <3>5 DEF SnapshotDue
        <4>2. Remembers(f, Len(log))
          BY <3>2, <3>5, <4>1, AllRemembered
        <4>3. ~ f[Len(log)].refused
          <5>1. PICK r : r = f[Len(log)]
            OBVIOUS
          <5>2. r = Bare(r.wasm) /\ r.wasm \subseteq Contracts
            BY <4>2, <5>1 DEF Remembers, Tables
          <5> QED
            BY <5>1, <5>2, BareIs
        <4> QED
          BY <2>2, <3>3, <4>3
      <3> QED
        BY <3>4, <3>5
    <2> QED
      BY <2>1, <2>2
  <1> QED
    BY <1>1, Invariance, PTL
===============================================================================
