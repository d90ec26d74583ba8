----------------------------- MODULE CaseAuthority -----------------------------
(***************************************************************************)
(* What the rulings and preparations of a case rest on: the mandate and    *)
(* policy in force (packages/gate-core/src/authorizationCore.ts), the      *)
(* system-use decision for them (systemUseDecision.ts) and the case        *)
(* session of the officer, which begins when a one-time handoff is         *)
(* redeemed (caseSessionHandoff.ts, packages/consoles/src/                 *)
(* caseSessionStore.ts).                                                   *)
(*                                                                         *)
(* Each action of the authorization service is one WAL transaction, a      *)
(* start and a maintenance pass those that run together.  The              *)
(* orchestrator's redeem and close requests may be answered, refused,      *)
(* lost, or handled after their caller gave up (`late`).  A binding is a   *)
(* ruling that gives authority, or a preparation; proposals, escalations   *)
(* and dialogues are in AuthorizationCore and NativeProposals.             *)
(***************************************************************************)
EXTENDS Naturals, Sequences, FiniteSets, SequencesExt

CONSTANTS
    Scopes,         \* what a mandate contributes to a configuration: cards and data classes
    Policies,       \* policy versions
    FixtureScope, FixturePolicy,    \* the configuration of the checked-in decision
    MaxVersions,    \* bound: versions of the decision
    MaxMandates,    \* bound: mandates, numbered as they are granted
    MaxHandoffs,    \* bound: handoffs, numbered as they are minted
    MaxSessions,    \* bound: session identifiers, numbered as they are generated
    MaxBindings,    \* bound: rulings and preparations, numbered as they are issued
    MaxChanges      \* bound: changes of decision, mandate or policy, lapses, crashes and lost requests

\* The material configuration a decision is for.
Configs == Scopes \X Policies
Fixture == <<FixtureScope, FixturePolicy>>

ASSUME CaseAuthorityAssumption ==
    /\ Fixture \in Configs
    /\ "none" \notin Policies
    /\ {MaxVersions, MaxMandates, MaxHandoffs, MaxSessions, MaxBindings, MaxChanges} \subseteq Nat
    /\ MaxVersions # 0

VARIABLES
    up, boot,           \* the authorization service: does it run, and its start
    decisions,          \* the versions of the system-use decision
    mandates,           \* the mandates at their current version
    policy,             \* the active policy, "none" before the first start
    handoffs,           \* the minted handoffs
    receipts,           \* the provenance receipt of each session
    bindings,           \* the rulings and preparations issued
    generated,          \* the orchestrator: session identifiers generated,
    console,            \* and the sessions it holds
    late,               \* requests the service may handle after their caller gave up
    changes             \* how much of MaxChanges is used

authority == <<decisions, mandates, policy>>
world == <<authority, handoffs, receipts, bindings>>
orchestrator == <<generated, console>>
vars == <<up, boot, world, orchestrator, late, changes>>

Versions == 1..Len(decisions)
Mandates == 1..Len(mandates)
Sessions == 1..MaxSessions
MandateStates == {"active", "suspended", "revoked", "expired"}
Rulings == {"precommit", "commit"}
Preparations == {"revision", "execution"}
Kinds == Rulings \cup Preparations
NoReceipt == [state |-> "none", handoff |-> 0, boot |-> 0, overdue |-> FALSE]

Change == changes < MaxChanges /\ changes' = changes + 1

-----------------------------------------------------------------------------
(***************************************************************************)
(* Decisions.  "approved" stands for both forms of approval, "suspended"   *)
(* for suspended, withdrawn and expired, the versions no transition leaves.*)
(***************************************************************************)
Allowed(from) ==
    CASE from = "proposed" -> {"approved", "rejected"}
      [] from = "approved" -> {"superseded", "suspended"}
      [] OTHER -> {}

Config(m) == <<mandates[m].scope, policy>>

\* A version that exactly matches the configuration, approved and in its window.
Usable(v, config) ==
    /\ decisions[v].config = config
    /\ decisions[v].status = "approved"
    /\ decisions[v].window = "open"

\* resolve: the decision for a mandate, which the caller names; 0 when it is refused.
Resolve(config) ==
    IF \E v \in Versions : /\ Usable(v, config) /\ decisions[v].met
                           /\ \A u \in Versions : Usable(u, config) => u = v
    THEN CHOOSE v \in Versions : Usable(v, config)
    ELSE 0

\* resolveActive: every boundary resolves anew, and only if one mandate alone is active.
Resolved ==
    IF \E m \in Mandates : \A n \in Mandates : mandates[n].status = "active" <=> n = m
    THEN Resolve(Config(CHOOSE m \in Mandates : mandates[m].status = "active"))
    ELSE 0

\* The bindings after the issued ones of B have ended.
Ending(B) ==
    [b \in DOMAIN bindings |-> IF b \in B /\ bindings[b].state = "issued"
                               THEN [bindings[b] EXCEPT !.state = "invalidated"] ELSE bindings[b]]

\* The invalidation operations of transition and replace.
WithoutDecision(v) == Ending({b \in DOMAIN bindings : bindings[b].decision = v})

Decision(status, config, window, met) == [status |-> status, config |-> config, window |-> window, met |-> met]

Transition(v, status) ==
    /\ up /\ Change
    /\ status \in Allowed(decisions[v].status)
    /\ decisions' = [decisions EXCEPT ![v].status = status]
    /\ bindings' = WithoutDecision(v)
    /\ UNCHANGED <<up, boot, mandates, policy, handoffs, receipts, orchestrator, late>>

\* Mutant of Superseded: the successor leaves its predecessor as it is.
SupersededNever == decisions

Superseded == [decisions EXCEPT ![Len(decisions)].status = "superseded"]

\* replace, with a successor that names the newest version: the predecessor makes its
\* transition and the successor is issued, in one transaction or, when the transition is
\* not allowed, not at all.
Replace(successor) ==
    /\ up /\ Change
    /\ decisions # <<>> /\ Len(decisions) < MaxVersions
    /\ LET v == Len(decisions)
       IN /\ "superseded" \in Allowed(decisions[v].status)
          /\ decisions' = Append(Superseded, successor)
          /\ bindings' = WithoutDecision(v)
    /\ UNCHANGED <<up, boot, mandates, policy, handoffs, receipts, orchestrator, late>>

\* The window of a version opens, and closes: nothing is written.
PassTime(v) ==
    /\ Change
    /\ decisions[v].window # "past"
    /\ decisions' = [decisions EXCEPT ![v].window = IF @ = "ahead" THEN "open" ELSE "past"]
    /\ UNCHANGED <<up, boot, mandates, policy, handoffs, receipts, bindings, orchestrator, late>>

-----------------------------------------------------------------------------
(***************************************************************************)
(* Mandates and policy.  `status` is the mandate's state, `record` what    *)
(* its current version says of itself: revocation and expiry change only   *)
(* the first.  "suspended" stands for every state but "active" in which a  *)
(* version is granted or amended.  Every handler ends its own part of what *)
(* is issued.                                                              *)
(***************************************************************************)
Mandate(version, state, scope) ==
    [version |-> version, status |-> state, record |-> state, scope |-> scope, overdue |-> FALSE]

\* Mutant of WithoutAny: what rests on the earlier policy is left to the checks of its use.
WithoutNone == bindings

\* policy.reload ends everything.
WithoutAny == Ending(DOMAIN bindings)

\* revokeMandate ends what the version that is revoked gave; as a mutant of WithoutMandate,
\* an amendment that spares what an earlier narrowing left.
WithoutVersion(m) ==
    Ending({b \in DOMAIN bindings : bindings[b].mandate = m /\ bindings[b].version = mandates[m].version})

\* amendMandate ends what any version of the mandate gave.
WithoutMandate(m) == Ending({b \in DOMAIN bindings : bindings[b].mandate = m})

\* Pattern narrowing ends the rulings of the mandate, and revisions when the ruling raised it.
WithoutKinds(m, kinds) ==
    Ending({b \in DOMAIN bindings : bindings[b].mandate = m /\ bindings[b].kind \in kinds})

\* grantMandate ends nothing: a second active mandate makes resolveActive refuse.
Grant(scope, state) ==
    /\ up /\ Len(mandates) < MaxMandates
    /\ Resolve(<<scope, policy>>) # 0
    /\ mandates' = Append(mandates, Mandate(1, state, scope))
    /\ IF mandates = <<>> THEN UNCHANGED changes ELSE Change
    /\ UNCHANGED <<up, boot, decisions, policy, handoffs, receipts, bindings, orchestrator, late>>

\* amendMandate, which also takes a mandate out of suspension or expiry.
Amend(m, scope, state) ==
    /\ up /\ Change
    /\ mandates[m].status # "revoked"
    /\ Resolve(<<scope, policy>>) # 0
    /\ mandates' = [mandates EXCEPT ![m] = Mandate(mandates[m].version + 1, state, scope)]
    /\ bindings' = WithoutMandate(m)
    /\ UNCHANGED <<up, boot, decisions, policy, handoffs, receipts, orchestrator, late>>

Revoke(m) ==
    /\ up /\ Change
    /\ mandates[m].status # "revoked"
    /\ mandates' = [mandates EXCEPT ![m].status = "revoked"]
    /\ bindings' = WithoutVersion(m)
    /\ UNCHANGED <<up, boot, decisions, policy, handoffs, receipts, orchestrator, late>>

ReloadPolicy(p) ==
    /\ up /\ Change
    /\ p # policy
    /\ policy' = p
    /\ bindings' = WithoutAny
    /\ UNCHANGED <<up, boot, decisions, mandates, handoffs, receipts, orchestrator, late>>

\* mandate.amend refuses a revoked mandate, and with it the transaction.
Narrowable(m) == mandates[m].record = "active" /\ mandates[m].status # "revoked"

Narrowed(m) ==
    [mandates[m] EXCEPT !.version = @ + 1, !.status = "suspended", !.record = "suspended"]

\* A ruling that escalates reaches the threshold of the pattern: the ruling needs the
\* mandate in force, and executions are left as they are.
InForce(m) == mandates[m].status = "active" /\ ~mandates[m].overdue

NarrowOnEscalation(m) ==
    /\ up /\ Change
    /\ Narrowable(m) /\ InForce(m) /\ Resolve(Config(m)) # 0
    /\ mandates' = [mandates EXCEPT ![m] = Narrowed(m)]
    /\ bindings' = WithoutKinds(m, Rulings \cup {"revision"})
    /\ UNCHANGED <<up, boot, decisions, policy, handoffs, receipts, orchestrator, late>>

\* An override, or an answer after the deadline, reaches it: revisions are left as well.
NarrowOnAnswer(m) ==
    /\ up /\ Change
    /\ Narrowable(m)
    /\ mandates' = [mandates EXCEPT ![m] = Narrowed(m)]
    /\ bindings' = WithoutKinds(m, Rulings)
    /\ UNCHANGED <<up, boot, decisions, policy, handoffs, receipts, orchestrator, late>>

\* A mandate reaches its expires_at: nothing is written before the sweep.
LapseMandate(m) ==
    /\ Change
    /\ mandates[m].status \in {"active", "suspended"} /\ ~mandates[m].overdue
    /\ mandates' = [mandates EXCEPT ![m].overdue = TRUE]
    /\ UNCHANGED <<up, boot, decisions, policy, handoffs, receipts, bindings, orchestrator, late>>

-----------------------------------------------------------------------------
(***************************************************************************)
(* Handoffs and sessions.                                                  *)
(***************************************************************************)
\* expiryOps and provenanceExpiryOps, of mint, redeem and maintenance
Gone(record) == record.boot # boot \/ record.overdue

ExpiredHandoffs ==
    [h \in DOMAIN handoffs |-> IF handoffs[h].state = "issued" /\ Gone(handoffs[h])
                              THEN [handoffs[h] EXCEPT !.state = "expired"] ELSE handoffs[h]]

ExpiredReceipts ==
    [s \in Sessions |-> IF receipts[s].state = "active" /\ Gone(receipts[s])
                        THEN [receipts[s] EXCEPT !.state = "expired"] ELSE receipts[s]]

Mint ==
    /\ up /\ Len(handoffs) < MaxHandoffs
    /\ handoffs' = Append(ExpiredHandoffs, [state |-> "issued", boot |-> boot, overdue |-> FALSE])
    /\ receipts' = ExpiredReceipts
    /\ IF handoffs = <<>> THEN UNCHANGED changes ELSE Change
    /\ UNCHANGED <<up, boot, authority, bindings, orchestrator, late>>

Consumed(h) == [ExpiredHandoffs EXCEPT ![h].state = "consumed"]

\* Mutant of Redeemable: the handoff is looked up as it was minted.
RedeemableWhileKnown(h, s) == ~Gone(handoffs[h])

Redeemable(h, s) ==
    /\ handoffs[h].state = "issued" /\ ~Gone(handoffs[h])
    /\ receipts[s].state = "active" => Gone(receipts[s])

\* redeem, in the service: a refusal still expires what is overdue.
HandleRedeem(h, s) ==
    IF Redeemable(h, s)
    THEN /\ handoffs' = Consumed(h)
         /\ receipts' = [ExpiredReceipts EXCEPT ![s] = [state |-> "active", handoff |-> h, boot |-> boot, overdue |-> FALSE]]
    ELSE handoffs' = ExpiredHandoffs /\ receipts' = ExpiredReceipts

\* sessions.create, once the claim has arrived
Created(h, s) == IF Redeemable(h, s) THEN console \cup {s} ELSE console

\* A browser presents a handoff; the orchestrator generates the identifier of the session.
Redeem(h) ==
    /\ generated < MaxSessions
    /\ generated' = generated + 1
    /\ LET s == generated + 1
       IN \/ /\ up
             /\ HandleRedeem(h, s)
             /\ console' = Created(h, s)
             /\ UNCHANGED <<late, changes>>
          \/ /\ up /\ Change
             /\ HandleRedeem(h, s)
             /\ UNCHANGED <<console, late>>
          \/ /\ Change
             /\ late' = late \cup {<<"redeem", h, s>>}
             /\ UNCHANGED <<handoffs, receipts, console>>
    /\ UNCHANGED <<up, boot, authority, bindings>>

WithoutSession(s) == Ending({b \in DOMAIN bindings : bindings[b].kind \in Preparations /\ bindings[b].session = s})

\* closeSession, in the service: refused without an active receipt of this start.
Closable(s) == receipts[s].state = "active" /\ receipts[s].boot = boot

HandleClose(s) ==
    IF Closable(s)
    THEN receipts' = [receipts EXCEPT ![s].state = "expired"] /\ bindings' = WithoutSession(s)
    ELSE UNCHANGED <<receipts, bindings>>

\* The orchestrator drops the session when the service has closed it.
CloseSession(s) ==
    /\ s \in console
    /\ \/ /\ up
          /\ HandleClose(s)
          /\ console' = IF Closable(s) THEN console \ {s} ELSE console
          /\ UNCHANGED <<late, changes>>
       \/ /\ up /\ Change
          /\ HandleClose(s)
          /\ UNCHANGED <<console, late>>
       \/ /\ Change
          /\ late' = late \cup {<<"close", 0, s>>}
          /\ UNCHANGED <<receipts, bindings, console>>
    /\ UNCHANGED <<up, boot, authority, handoffs, generated>>

HandleLate(r) ==
    /\ up
    /\ late' = late \ {r}
    /\ \/ r[1] = "redeem" /\ HandleRedeem(r[2], r[3]) /\ UNCHANGED bindings
       \/ r[1] = "close" /\ HandleClose(r[3]) /\ UNCHANGED handoffs
    /\ UNCHANGED <<up, boot, authority, orchestrator, changes>>

\* Thirty seconds for a handoff, fifteen minutes for a session, on each side for itself.
LapseHandoff(h) ==
    /\ Change
    /\ handoffs[h].state = "issued" /\ ~handoffs[h].overdue
    /\ handoffs' = [handoffs EXCEPT ![h].overdue = TRUE]
    /\ UNCHANGED <<up, boot, authority, receipts, bindings, orchestrator, late>>

LapseReceipt(s) ==
    /\ Change
    /\ receipts[s].state = "active" /\ ~receipts[s].overdue
    /\ receipts' = [receipts EXCEPT ![s].overdue = TRUE]
    /\ UNCHANGED <<up, boot, authority, handoffs, bindings, orchestrator, late>>

LapseConsole(s) ==
    /\ Change
    /\ s \in console
    /\ console' = console \ {s}
    /\ UNCHANGED <<up, boot, world, generated, late>>

-----------------------------------------------------------------------------
(***************************************************************************)
(* Rulings and preparations.  A precommit ruling stands for the three a    *)
(* native proposal needs before its execution is prepared.                 *)
(***************************************************************************)
Held(s) == receipts[s].state = "active" /\ ~Gone(receipts[s])

\* Mutant of Lapsed: a preparation is not bounded by the receipt of its session.
LapsedByRuling(b) ==
    \/ b.overdue
    \/ b.kind # "revision" /\ mandates[b.mandate].overdue
    \/ b.kind = "execution" /\ bindings[b.precommit].overdue

\* not_after and expires_at: a ruling does not outlast its mandate, a preparation not the
\* receipt of its session and an execution not the rulings it names.
Lapsed(b) == LapsedByRuling(b) \/ (b.kind \in Preparations /\ receipts[b.session].overdue)

\* Only the Commit ruling outlives the start that issued it.
Spent(b) == Lapsed(b) \/ (b.kind # "commit" /\ b.boot # boot)

\* The mandate at the version that was bound, and isReferenceCurrent.
Current(b) ==
    /\ InForce(b.mandate) /\ mandates[b.mandate].version = b.version
    /\ Resolved = b.decision

Binding(kind, m, s, precommit) ==
    [kind |-> kind, decision |-> Resolve(Config(m)), mandate |-> m, version |-> mandates[m].version,
     session |-> s, precommit |-> precommit, boot |-> boot, overdue |-> FALSE, state |-> "issued"]

\* A ruling, or the preparation of a revision.  The session is that of the native
\* proposal, whose currentness a precommit ruling asserts; a Commit ruling has none.
Issue(kind, m, s) ==
    /\ up /\ Len(bindings) < MaxBindings
    /\ InForce(m) /\ Resolve(Config(m)) # 0
    /\ IF kind = "commit" THEN s = 0 ELSE s \in Sessions /\ Held(s)
    /\ kind = "precommit" => Resolved = Resolve(Config(m))
    /\ bindings' = Append(bindings, Binding(kind, m, s, 0))
    /\ UNCHANGED <<up, boot, authority, handoffs, receipts, orchestrator, late, changes>>

\* The preparation of an execution, which names its precommit ruling; a live one is
\* returned as it is, one that lapsed expires.
Executions(p) == {b \in DOMAIN bindings : bindings[b].kind = "execution" /\ bindings[b].precommit = p}

Prepare(p) ==
    /\ up /\ Len(bindings) < MaxBindings
    /\ bindings[p].kind = "precommit" /\ bindings[p].state = "issued" /\ ~Spent(bindings[p])
    /\ Current(bindings[p]) /\ Held(bindings[p].session)
    /\ \A b \in Executions(p) : bindings[b].state = "issued" => Spent(bindings[b])
    /\ bindings' = Append(Ending(Executions(p)),
                          Binding("execution", bindings[p].mandate, bindings[p].session, p))
    /\ UNCHANGED <<up, boot, authority, handoffs, receipts, orchestrator, late, changes>>

\* The Commit ruling is claimed, the revision called for, the execution started: all is
\* checked anew, and a use that is refused leaves everything as it is.
Use(b) ==
    /\ up
    /\ bindings[b].kind # "precommit"
    /\ bindings[b].state = "issued" /\ ~Spent(bindings[b])
    /\ Current(bindings[b])
    /\ bindings[b].kind \in Preparations => Held(bindings[b].session)
    /\ bindings[b].kind = "execution" =>
          LET p == bindings[bindings[b].precommit] IN p.state = "issued" /\ ~Spent(p)
    /\ bindings' = [bindings EXCEPT ![b].state = "used"]
    /\ UNCHANGED <<up, boot, authority, handoffs, receipts, orchestrator, late, changes>>

\* A newer revision, an answer, a message or another selection ends what rests on the
\* earlier one; a newer revision ends rulings and leaves executions.
Withdraw(B) ==
    /\ up /\ Change
    /\ B # {} /\ \A b \in B : bindings[b].state = "issued"
    /\ bindings' = Ending(B)
    /\ UNCHANGED <<up, boot, authority, handoffs, receipts, orchestrator, late>>

LapseBinding(b) ==
    /\ Change
    /\ bindings[b].state = "issued" /\ ~bindings[b].overdue
    /\ bindings' = [bindings EXCEPT ![b].overdue = TRUE]
    /\ UNCHANGED <<up, boot, authority, handoffs, receipts, orchestrator, late>>

-----------------------------------------------------------------------------
(***************************************************************************)
(* Maintenance and starts.  N are the mandates an escalation that timed    *)
(* out narrows; a pass that meets a revoked one is rolled back.            *)
(***************************************************************************)
Expiring == {m \in Mandates : mandates[m].status \in {"active", "suspended"} /\ mandates[m].overdue}

SweptMandates(N) ==
    [m \in Mandates |-> IF m \in Expiring THEN [mandates[m] EXCEPT !.status = "expired"]
                        ELSE IF m \in N THEN Narrowed(m) ELSE mandates[m]]

\* endIssuedRuling: the rulings a sweep ends, each with the executions that name it.
SweptRulings(N) ==
    {b \in DOMAIN bindings :
        /\ bindings[b].kind \in Rulings /\ bindings[b].state = "issued"
        /\ Spent(bindings[b]) \/ bindings[b].mandate \in Expiring \cup N}

\* A revision ends with the receipt of its session, too.
SweptRevision(b, N) ==
    \/ b.mandate \in N
    \/ b.mandate \in Expiring /\ b.version = mandates[b.mandate].version
    \/ Gone(receipts[b.session])

Swept(N) ==
    Ending(SweptRulings(N) \cup
           {b \in DOMAIN bindings :
               \/ bindings[b].kind = "execution" /\ bindings[b].precommit \in SweptRulings(N)
               \/ bindings[b].kind = "revision" /\ SweptRevision(bindings[b], N)
               \/ bindings[b].kind \in Preparations /\ Spent(bindings[b])})

Upkeep(N) ==
    /\ \A m \in N : Narrowable(m) /\ m \notin Expiring
    /\ mandates' = SweptMandates(N)
    /\ handoffs' = ExpiredHandoffs /\ receipts' = ExpiredReceipts

\* maintain: sweep, expireIssued and the expiry of preparations
Maintain ==
    /\ up
    /\ UNCHANGED <<up, boot, decisions, policy, orchestrator, late>>
    /\ \E N \in SUBSET Mandates :
          /\ IF N = {} THEN UNCHANGED changes ELSE Change
          /\ Upkeep(N) /\ bindings' = Swept(N)

Crash ==
    /\ up /\ Change
    /\ up' = FALSE /\ boot' = boot + 1
    /\ UNCHANGED <<world, orchestrator, late>>

\* installFixture, which only at the first start adds a version; activatePolicy, for which
\* another policy than that of the world is a reload; and maintenance.
Start(p) ==
    /\ ~up
    /\ up' = TRUE
    /\ decisions' = IF decisions = <<>> THEN <<Decision("approved", Fixture, "open", TRUE)>> ELSE decisions
    /\ policy' = p
    /\ \E N \in SUBSET Mandates :
          /\ Upkeep(N)
          /\ bindings' = IF p = policy THEN Swept(N) ELSE WithoutAny
          /\ IF N = {} /\ (p = policy \/ (policy = "none" /\ p = FixturePolicy)) THEN UNCHANGED changes ELSE Change
    /\ UNCHANGED <<boot, orchestrator, late>>

RestartOrchestrator ==
    /\ Change
    /\ console # {}
    /\ console' = {}
    /\ UNCHANGED <<up, boot, world, generated, late>>

Init ==
    /\ up = FALSE /\ boot = 1
    /\ decisions = <<>> /\ mandates = <<>> /\ policy = "none"
    /\ handoffs = <<>> /\ receipts = [s \in Sessions |-> NoReceipt] /\ bindings = <<>>
    /\ generated = 0 /\ console = {}
    /\ late = {} /\ changes = 0

DecisionStep ==
    \/ \E v \in Versions : PassTime(v) \/ \E status \in {"approved", "rejected", "superseded", "suspended"} : Transition(v, status)
    \/ \E status \in {"proposed", "approved"}, c \in Configs, w \in {"ahead", "open"}, met \in BOOLEAN :
          Replace(Decision(status, c, w, met))

MandateStep ==
    \/ \E scope \in Scopes, state \in {"active", "suspended"} :
          Grant(scope, state) \/ \E m \in Mandates : Amend(m, scope, state)
    \/ \E m \in Mandates : Revoke(m) \/ NarrowOnEscalation(m) \/ NarrowOnAnswer(m) \/ LapseMandate(m)
    \/ \E p \in Policies : ReloadPolicy(p)

SessionStep ==
    \/ Mint \/ (\E h \in 1..Len(handoffs) : Redeem(h) \/ LapseHandoff(h))
    \/ \E s \in Sessions : CloseSession(s) \/ LapseReceipt(s) \/ LapseConsole(s)
    \/ \E r \in late : HandleLate(r)

BindingStep ==
    \/ \E kind \in Rulings \cup {"revision"}, m \in Mandates, s \in 0..MaxSessions : Issue(kind, m, s)
    \/ \E b \in DOMAIN bindings : Prepare(b) \/ Use(b) \/ LapseBinding(b)
    \/ \E B \in SUBSET DOMAIN bindings : Withdraw(B)

Next ==
    \/ DecisionStep \/ MandateStep \/ SessionStep \/ BindingStep
    \/ Maintain \/ Crash \/ (\E p \in Policies : Start(p)) \/ RestartOrchestrator

Spec == Init /\ [][Next]_vars

\* The maintenance timer fires as long as the service runs.
FairSpec == Spec /\ WF_vars(Maintain)

================================================================================
