------------------------------- MODULE DaoModules -------------------------------
(***************************************************************************)
(* A DAO's core with its voting module, proposal modules and pre-propose   *)
(* modules, and the proposals, votes and approvals made there, before and  *)
(* after the DAODAO snapshot.  The rows refer to one another by foreign    *)
(* keys.  Events come in the order of execution, but what a handler stores *)
(* it mostly asks the archive for, which answers with the end of the       *)
(* block: a row may have to point to a contract whose own event is still   *)
(* to come.                                                                *)
(*                                                                         *)
(* A block is one transaction here (see SyncBlocks), the snapshot another  *)
(* before it.  What a foreign key or the archive refuses is refused again  *)
(* at every attempt: the action is not enabled.  Each module has at most   *)
(* one proposal, each pre-propose module one that awaits approval.         *)
(***************************************************************************)
EXTENDS Naturals, Sequences, FiniteSets, SequencesExt

CONSTANTS
    Modules, PreProposes, Votings,
    SubDaos, Voters,
    Cutoff,         \* DAODAO_CUTOFF_HEIGHT
    MaxHeight,      \* bound: blocks
    MaxMessages,    \* bound: messages in all
    MaxTroubles     \* bound: queries that fail where the code goes on

ASSUME DaoParameters ==
    /\ {Cutoff, MaxHeight, MaxMessages, MaxTroubles} \subseteq Nat
    /\ Cutoff \in 1 .. MaxHeight
    /\ Modules \cap PreProposes = {} /\ (Modules \cup PreProposes) \cap Votings = {}
    /\ {"none", "anyone"} \cap (Modules \cup PreProposes \cup Votings) = {}

VARIABLES
    height,         \* of the block that is being made or indexed
    closed,         \* it is complete
    chain,
    log,            \* its events
    messages,
    rows,           \* wasm_instantiate and the dao_ tables
    snapped,        \* the snapshot is taken
    gone,           \* modules of which an event was skipped or something not listed
    troubles        \* what queries failed, of those the code goes on without

vars == <<height, closed, chain, log, messages, rows, snapped, gone, troubles>>

None == "none"
Anyone == "anyone"

\* What the chain has of the DAO; a function's domain is what exists.
Genesis ==
    [voting |-> None, status |-> << >>, policy |-> << >>, contracts |-> {},
     proposals |-> << >>, ballots |-> << >>, approvals |-> << >>, subs |-> {}, bricked |-> {}]

NoRows ==
    [wasm |-> {}, core |-> {}, votings |-> {}, modules |-> << >>, prePropose |-> {},
     proposals |-> << >>, ballots |-> << >>, approvals |-> << >>, subs |-> {}, refused |-> FALSE]

Init ==
    /\ height = 1
    /\ closed = FALSE
    /\ chain = Genesis
    /\ log = << >>
    /\ messages = 0
    /\ rows = NoRows
    /\ snapped = FALSE
    /\ gone = {}
    /\ troubles = {}

With(f, key, value) == [k \in DOMAIN f \cup {key} |-> IF k = key THEN value ELSE f[k]]

----------------------------------------------------------------------------
(* The chain: messages and the events they emit, in order. *)

Event(type, of, about) == [type |-> type, of |-> of, about |-> about]

Executed(state, newEvents) ==
    /\ ~ closed
    /\ messages < MaxMessages
    /\ messages' = messages + 1
    /\ chain' = state
    /\ log' = log \o newEvents
    /\ UNCHANGED <<height, closed, rows, snapped, gone, troubles>>

\* A module with who may propose: the module is instantiated, then its
\* pre-propose module, whose address comes back to it.
NewPolicy(m, q) ==
    IF q = Anyone THEN << >>
    ELSE <<Event("instantiate", q, m), Event("update_pre_propose_module", m, q)>>

Fresh(c) == c \notin chain.contracts
Policies == {q \in PreProposes : Fresh(q)} \cup {Anyone}

CreateDao ==
    /\ chain.voting = None
    /\ \E v \in Votings, m \in Modules, q \in Policies :
        Executed([chain EXCEPT !.voting = v, !.status = With(@, m, "enabled"),
                               !.policy = With(@, m, q), !.contracts = {v, m, q} \ {Anyone}],
                 <<Event("create_dao", None, None), Event("instantiate", v, None),
                   Event("voting_module", None, v), Event("instantiate", m, None)>> \o NewPolicy(m, q))

SwapVotingModule ==
    /\ chain.voting # None
    /\ \E v \in Votings :
        /\ Fresh(v)
        /\ Executed([chain EXCEPT !.voting = v, !.contracts = @ \cup {v}],
                    <<Event("instantiate", v, None), Event("voting_module", None, v)>>)

\* A module added, perhaps for one that is disabled.
UpdateProposalModules ==
    /\ chain.voting # None
    /\ \E m \in Modules, q \in Policies, disabled \in SUBSET DOMAIN chain.status :
        /\ Fresh(m)
        /\ Executed([chain EXCEPT
                        !.status = [n \in DOMAIN @ \cup {m} |->
                                       IF n \in disabled THEN "disabled"
                                       ELSE IF n = m THEN "enabled" ELSE @[n]],
                        !.policy = With(@, m, q), !.contracts = (@ \cup {m, q}) \ {Anyone}],
                    <<Event("update_proposal_modules", None, None), Event("instantiate", m, None)>>
                        \o NewPolicy(m, q))

\* A contract whose stored state its code cannot read does nothing.
Works(m) == m \in DOMAIN chain.policy /\ m \notin chain.bricked

UpdatePolicy ==
    \E m \in Modules, q \in Policies :
        /\ Works(m)
        /\ Executed([chain EXCEPT !.policy[m] = q, !.contracts = (@ \cup {q}) \ {Anyone}],
                    <<Event("update_policy", m, None)>> \o NewPolicy(m, q))

Propose ==
    \E m \in Modules :
        /\ Works(m)
        /\ m \notin DOMAIN chain.proposals
        /\ Executed([chain EXCEPT !.proposals = With(@, m, "open")], <<Event("propose", m, None)>>)

\* Votes can be changed; a yes passes the proposal.
Vote ==
    \E m \in DOMAIN chain.proposals, voter \in Voters, choice \in {"yes", "no"} :
        /\ Works(m)
        /\ chain.proposals[m] = "open"
        /\ Executed([chain EXCEPT
                        !.ballots = With(@, <<m, voter>>, [choice |-> choice, height |-> height]),
                        !.proposals[m] = IF choice = "yes" THEN "passed" ELSE @],
                    <<Event("vote", m, voter)>>)

\* Executed when it passed; closed or vetoed before.
Conclude ==
    \E m \in DOMAIN chain.proposals :
        /\ Works(m)
        /\ chain.proposals[m] \in {"open", "passed"}
        /\ Executed([chain EXCEPT !.proposals[m] = IF @ = "passed" THEN "executed" ELSE "closed"],
                    <<Event("conclude", m, None)>>)

Submit ==
    \E q \in PreProposes \cap chain.contracts :
        /\ q \notin DOMAIN chain.approvals
        /\ Executed([chain EXCEPT !.approvals = With(@, q, [state |-> "pending", height |-> height])],
                    <<Event("submit", q, None)>>)

Resolve ==
    \E q \in DOMAIN chain.approvals, outcome \in {"approved", "rejected"} :
        /\ chain.approvals[q].state = "pending"
        /\ Executed([chain EXCEPT !.approvals[q].state = outcome], <<Event("resolve", q, outcome)>>)

UpdateSubDaos ==
    /\ chain.voting # None
    /\ \E subs \in SUBSET SubDaos :
        /\ subs # chain.subs
        /\ Executed([chain EXCEPT !.subs = subs], <<Event("update_sub_daos", None, None)>>)

\* To code with another schema, and to code that reads it again.
Migrate ==
    \E m \in DOMAIN chain.policy :
        Executed([chain EXCEPT !.bricked = IF m \in @ THEN @ \ {m} ELSE @ \cup {m}], << >>)

CloseBlock ==
    /\ ~ closed
    /\ height < MaxHeight
    /\ closed' = TRUE
    /\ UNCHANGED <<height, chain, log, messages, rows, snapped, gone, troubles>>

ChainStep ==
    \/ CreateDao \/ SwapVotingModule \/ UpdateProposalModules \/ UpdatePolicy
    \/ Propose \/ Vote \/ Conclude \/ Submit \/ Resolve \/ UpdateSubDaos \/ Migrate
    \/ CloseBlock

----------------------------------------------------------------------------
(* The tables.  A statement a foreign key refuses fails the transaction. *)

Refuse(r) == [r EXCEPT !.refused = TRUE]

\* Bug: a row that is there is left as it is.
CreateModuleOnce(r, m, status) ==
    IF r.core = {} THEN Refuse(r)
    ELSE IF m \in DOMAIN r.modules THEN r
    ELSE [r EXCEPT !.modules = With(@, m, [status |-> status, policy |-> chain.policy[m],
                                           prePropose |-> None, whole |-> TRUE])]

\* createDaoProposalModule: fills in what refreshModules may have left; a
\* status that is not known leaves the one there.
CreateModule(r, m, status) ==
    LET known == m \in DOMAIN r.modules
        row == [status |-> IF known /\ status = None THEN r.modules[m].status ELSE status,
                policy |-> chain.policy[m],
                prePropose |-> IF known THEN r.modules[m].prePropose ELSE None,
                whole |-> TRUE]
    IN  IF r.core = {} THEN Refuse(r) ELSE [r EXCEPT !.modules = With(@, m, row)]

CreateCore(r) == [r EXCEPT !.core = {None}]

SetVoting(r, v) == IF v \in r.votings THEN [r EXCEPT !.core = {v}] ELSE Refuse(r)

ReplaceSubDaos(r) == [r EXCEPT !.subs = chain.subs]

SetPolicy(r, m) ==
    IF m \notin DOMAIN r.modules THEN r ELSE [r EXCEPT !.modules[m].policy = chain.policy[m]]

SetPrePropose(r, m, q) ==
    IF m \notin DOMAIN r.modules THEN r
    ELSE IF q \notin r.prePropose \cup {None} THEN Refuse(r)
    ELSE [r EXCEPT !.modules[m].prePropose = q]

CreateProposal(r, m) ==
    IF m \notin DOMAIN r.modules THEN Refuse(r)
    ELSE IF m \in DOMAIN r.proposals THEN r
    ELSE [r EXCEPT !.proposals = With(@, m, chain.proposals[m])]

\* Only a row there is gets the new status.
SetStatus(r, m) ==
    IF m \notin DOMAIN r.proposals THEN r ELSE [r EXCEPT !.proposals[m] = chain.proposals[m]]

SetVote(r, m, voter) ==
    IF m \notin DOMAIN r.proposals THEN Refuse(r)
    ELSE [r EXCEPT !.ballots = With(@, <<m, voter>>, chain.ballots[<<m, voter>>].choice)]

----------------------------------------------------------------------------
(* The handlers. *)

\* dump_state has every module; in an instantiate, one that fails is done without.
StatusOf(m, trouble) == IF <<m, "status">> \in trouble THEN None ELSE chain.status[m]

Instantiated(r, c, trouble) ==
    IF c \in Votings THEN [r EXCEPT !.votings = @ \cup {c}]
    ELSE IF c \in PreProposes THEN [r EXCEPT !.prePropose = @ \cup {c}]
    ELSE CreateModule(r, c, StatusOf(c, trouble))

RefreshModules(r) ==
    IF r.core = {} THEN Refuse(r)
    ELSE [r EXCEPT !.modules = [m \in DOMAIN @ \cup DOMAIN chain.status |->
            IF m \notin DOMAIN chain.status THEN @[m]
            ELSE IF m \in DOMAIN @ THEN [@[m] EXCEPT !.status = chain.status[m]]
            ELSE [status |-> chain.status[m], policy |-> None, prePropose |-> None, whole |-> FALSE]]]

UpdatedPrePropose(r, m, q) == SetPrePropose(SetPolicy(r, m), m, q)

\* Bug: the pre-propose module is linked before its row is known to be there.
UpdatedPolicyAtOnce(r, m) ==
    UpdatedPrePropose(r, m, IF chain.policy[m] = Anyone THEN None ELSE chain.policy[m])

\* The pointer is left for the event that comes with the new module.
UpdatedPolicy(r, m) ==
    LET q == IF chain.policy[m] = Anyone THEN None ELSE chain.policy[m]
    IN  IF q \in r.prePropose \cup {None} THEN UpdatedPrePropose(r, m, q)
        ELSE SetPolicy(r, m)

\* Bug: the proposal is left as it was, as for a changed rationale.
VotedOnly(r, m, voter) == SetVote(r, m, voter)

Voted(r, m, voter) == SetStatus(SetVote(r, m, voter), m)

\* The proposal is awaiting approval at the end of the block, or the archive
\* has no answer and the block fails.
Submitted(r, q) ==
    IF chain.approvals[q].state # "pending" THEN Refuse(r)
    ELSE IF q \notin r.prePropose THEN Refuse(r)
    ELSE [r EXCEPT !.approvals = With(@, q, "pending")]

Resolved(r, q, outcome) ==
    IF q \notin DOMAIN r.approvals THEN r ELSE [r EXCEPT !.approvals[q] = outcome]

\* The queries of an event fail in a way that never changes: it is skipped.
Skipped(ev) == ev.of \in chain.bricked

Handled(r, ev, trouble) ==
    CASE ev.type = "create_dao" -> CreateCore(r)
      [] ev.type = "instantiate" -> Instantiated(r, ev.of, trouble)
      [] ev.type = "voting_module" -> SetVoting(r, ev.about)
      [] ev.type = "update_proposal_modules" -> RefreshModules(r)
      [] ev.type = "update_pre_propose_module" -> UpdatedPrePropose(r, ev.of, ev.about)
      [] ev.type = "update_policy" -> UpdatedPolicy(r, ev.of)
      [] ev.type = "propose" -> CreateProposal(r, ev.of)
      [] ev.type = "vote" -> Voted(r, ev.of, ev.about)
      [] ev.type = "conclude" -> SetStatus(r, ev.of)
      [] ev.type = "submit" -> Submitted(r, ev.of)
      [] ev.type = "resolve" -> Resolved(r, ev.of, ev.about)
      [] ev.type = "update_sub_daos" -> ReplaceSubDaos(r)

\* Every contract is remembered with its code, the DAO's rows from the cutoff on.
Handle(r, ev, trouble) ==
    LET known == IF ev.type = "instantiate" THEN [r EXCEPT !.wasm = @ \cup {ev.of}] ELSE r
    IN  IF r.refused THEN r
        ELSE IF height < Cutoff \/ Skipped(ev) THEN known
        ELSE Handled(known, ev, trouble)

----------------------------------------------------------------------------
(* The snapshot, of the contracts instantiated before its block and with   *)
(* what they are at the end of it: one pass after the other.               *)

SnapshotModule(r, m, trouble) ==
    LET q == chain.policy[m]
        linked == SetPrePropose(CreateModule(r, m, StatusOf(m, trouble)), m,
                                IF q = Anyone THEN None ELSE q)
    IN  IF m \in chain.bricked THEN Refuse(r)
        ELSE IF m \in DOMAIN chain.proposals /\ <<m, "proposals">> \notin trouble
             THEN CreateProposal(linked, m)
        ELSE linked

Snapshot(r, trouble) ==
    LET core == [r EXCEPT !.votings = @ \cup (r.wasm \cap Votings),
                          !.prePropose = @ \cup (r.wasm \cap PreProposes),
                          !.core = {None},
                          !.subs = IF <<None, "subs">> \in trouble THEN @ ELSE chain.subs]
    IN  FoldSet(LAMBDA m, done : IF done.refused THEN done ELSE SnapshotModule(done, m, trouble),
                SetVoting(core, chain.voting), r.wasm \cap Modules)

----------------------------------------------------------------------------

Has(type, of) == \E i \in DOMAIN log : log[i].type = type /\ log[i].of = of

\* At most one of the queries whose failure is passed over.
OneOf(queries) ==
    {{}} \cup IF Cardinality(troubles) < MaxTroubles THEN {{t} : t \in queries} ELSE {}

SnapshotDue == height >= Cutoff /\ ~ snapped

\* A transaction of its own, before that of the first block from the cutoff on.
TakeSnapshot ==
    /\ closed
    /\ SnapshotDue
    /\ \E trouble \in OneOf(((rows.wasm \cap Modules) \X {"status", "proposals"}) \cup {<<None, "subs">>}) :
        /\ rows' = IF rows.wasm = {} THEN rows ELSE Snapshot(rows, trouble)
        /\ ~ rows'.refused
        /\ troubles' = troubles \cup trouble
        /\ gone' = gone \cup {t[1] : t \in {t \in trouble : t[2] = "proposals"}}
    /\ snapped' = TRUE
    /\ UNCHANGED <<height, closed, chain, log, messages>>

After(trouble) == FoldLeft(LAMBDA r, ev : Handle(r, ev, trouble), rows, log)

Index ==
    /\ closed
    /\ ~ SnapshotDue
    /\ \E trouble \in OneOf({m \in Modules : Has("instantiate", m)} \X {"status"}) :
        /\ rows' = After(trouble)
        /\ ~ rows'.refused
        /\ troubles' = troubles \cup trouble
    /\ gone' = gone \cup {log[i].of : i \in {i \in DOMAIN log : height >= Cutoff /\ Skipped(log[i])}}
    /\ height' = height + 1
    /\ closed' = FALSE
    /\ log' = << >>
    /\ UNCHANGED <<chain, messages, snapped>>

Next == ChainStep \/ TakeSnapshot \/ Index

Spec == Init /\ [][Next]_vars

----------------------------------------------------------------------------
(* Properties. *)

Settled == ~ closed /\ log = << >> /\ height > Cutoff

\* After each block the rows of the core and its modules are the chain's: the
\* voting module, the sub-DAOs, every module with its status and policy and
\* with the pre-propose module that the policy names, for all that these come
\* in several events, of which the first already sees what the last one does.
\* Left out: a module with an event that was skipped, and what the snapshot or
\* an instantiate did without because a query failed.
ModulesMatch ==
    Settled =>
        /\ rows.core = IF chain.voting = None THEN {} ELSE {chain.voting}
        /\ rows.subs = chain.subs \/ <<None, "subs">> \in troubles
        /\ DOMAIN rows.modules \ gone = DOMAIN chain.status \ gone
        /\ \A m \in DOMAIN chain.status \ gone :
            LET row == rows.modules[m]
            IN  /\ row.whole
                /\ row.status = chain.status[m] \/ <<m, "status">> \in troubles
                /\ row.policy = chain.policy[m]
                /\ row.prePropose = IF row.policy = Anyone THEN None ELSE row.policy

\* And so are the proposals with their status, the votes cast since the cutoff
\* and the approvals asked for since then.
ProposalsMatch ==
    Settled =>
        /\ \A m \in Modules \ gone :
            /\ m \in DOMAIN rows.proposals <=> m \in DOMAIN chain.proposals
            /\ m \in DOMAIN rows.proposals => rows.proposals[m] = chain.proposals[m]
        /\ \A b \in DOMAIN chain.ballots :
            (b[1] \notin gone /\ chain.ballots[b].height >= Cutoff) =>
                b \in DOMAIN rows.ballots /\ rows.ballots[b] = chain.ballots[b].choice
        /\ \A q \in DOMAIN chain.approvals :
            chain.approvals[q].height >= Cutoff =>
                q \in DOMAIN rows.approvals /\ rows.approvals[q] = chain.approvals[q].state

\* What is refused for ever: a vote or a proposal under a row that was done
\* without before; the snapshot, when a module cannot be read, or points to a
\* contract of the very block it is taken for; a proposal approved or rejected
\* in the block it was submitted in.
Dangles ==
    \/ \E m \in gone : Has("vote", m) \/ Has("propose", m)
    \/ /\ SnapshotDue /\ rows.wasm # {}
       /\ \/ chain.voting \notin rows.wasm
          \/ \E m \in rows.wasm \cap Modules :
                m \in chain.bricked \/ chain.policy[m] \notin rows.wasm \cup {Anyone}
    \/ \E q \in PreProposes : Has("submit", q) /\ Has("resolve", q)

\* Nothing else is: when every query is answered, the foreign keys hold in
\* whatever order the events of a block, its messages and the passes of the
\* snapshot come.
DaoBlocksIndexable ==
    closed => \/ Dangles
              \/ IF SnapshotDue THEN rows.wasm = {} \/ ~ Snapshot(rows, {}).refused
                 ELSE ~ After({}).refused
===============================================================================
