-------------------------- MODULE AuthorizationCore --------------------------
(***************************************************************************)
(* The authorization core (packages/gate-core/src/authorizationCore.ts),   *)
(* the sweeper (sweeper.ts) and the model switch                           *)
(* (conversationProjectionService.ts).  Every action is one transaction of *)
(* the store: it runs alone under the world lock and either all of its     *)
(* operations are applied or none is.  A transaction that throws, that     *)
(* apply() refuses, or that only appends record entries leaves the world   *)
(* as it is; such transactions are the guards left out of an action.       *)
(*                                                                         *)
(* What the policy, the screening and the model-card evidence say of a     *)
(* proposal is an input: \E ev picks one of the answers the evaluator can  *)
(* give.  The path of native proposals (execution preparations) is not     *)
(* part of this module.                                                    *)
(***************************************************************************)
EXTENDS WorldState

CONSTANTS
    InitialPolicy,      \* activated before the service listens
    RuledGates,         \* gates at which the orchestrator asks for a ruling
    AmendedRecords,     \* states a principal may write into a new mandate version
    Outcomes,           \* outcomes the services host may report
    Evaluations,        \* answers of the evaluator: "allow", "deny" or an escalation contract
    MaxTime,            \* bound: last instant of the clock
    LastIssue,          \* bound: no deadline is opened after this instant
    MaxVersion,         \* bound: mandate versions written by the principal
    MaxSelections,      \* bound: model selections
    MaxReloads          \* bound: policy reloads, mutations of the conversation store

VARIABLES
    world,              \* the durable state
    now,                \* the clock of the authorization service
    reloads             \* transactions counted against MaxReloads

vars == <<world, now, reloads>>

ASSUME CoreAssumption ==
    /\ InitialPolicy \in Policies
    /\ RuledGates \subseteq Gates
    /\ AmendedRecords \subseteq {"active", "suspended"}
    /\ Evaluations \subseteq {"allow", "deny", "default", "ceiling", "dialogue"}
    /\ Outcomes \subseteq {"success", "failed"}
    /\ MaxTime \in Nat

Contracts == {"default", "ceiling", "dialogue"}

Permitted(contract) ==
    CASE contract = "default"  -> {"allow-within-scope", "narrow-or-modify", "stop"}
      [] contract = "ceiling"  -> {"narrow-or-modify", "stop"}
      [] contract = "dialogue" -> {"answer", "abstain"}
      [] contract = "recovery" -> {"stop"}

Init ==
    /\ world = EmptyWorld(InitialPolicy)
    /\ now = 0
    /\ reloads = 0

Tick ==
    /\ now < MaxTime
    /\ now' = now + 1
    /\ UNCHANGED <<world, reloads>>

\* One transaction: the world it computes replaces the current one.
Transact(w) == world' = w /\ UNCHANGED <<now, reloads>>

-----------------------------------------------------------------------------
(***************************************************************************)
(* Ruling a proposal (#buildRuling).                                       *)
(***************************************************************************)
\* The defects of the mandate a proposal is bound to; a proposal whose
\* selection is not current cannot be frozen or ruled at all.
AuthorityDefect(w, p) ==
    LET s == SelectionOf(w, p)
        m == w.mandates[s.mandate]
    IN  \/ m.status # "active"
        \/ m.version # s.version
        \/ now > m.expiresAt

\* Mutant of WouldExceed: the proposal's own delta is left out.
WouldExceedBeforeDelta(w, p) ==
    LET m == SelectionOf(w, p).mandate
    IN  \E c \in Counters : CounterValue(w, m, c, now) > w.mandates[m].limits[c]

WouldExceed(w, p) ==
    LET m == SelectionOf(w, p).mandate
    IN  \E c \in Counters :
            CounterValue(w, m, c, now) + Delta(p, c) > w.mandates[m].limits[c]

\* The verdict, or the contract of the escalation it opens.
Outcome(w, p, ev) ==
    IF AuthorityDefect(w, p) THEN "deny"
    ELSE IF ev = "allow" /\ WouldExceed(w, p) THEN "ceiling"
    ELSE ev

Verdict(outcome) == IF outcome \in {"allow", "deny"} THEN outcome ELSE "escalate"

Earliest(t, u) == IF t <= u THEN t ELSE u

NotAfter(w, p, outcome) ==
    IF outcome = "deny" THEN now + RulingTtl
    ELSE Earliest(now + RulingTtl, w.mandates[SelectionOf(w, p).mandate].expiresAt)

\* Only a Commit ruling that is not a denial reserves capacity, and only
\* capacity that is there.
Reserves(w, p, g, outcome) == g = "commit" /\ outcome # "deny" /\ ~WouldExceed(w, p)

\* Mutant of OtherRevisions: only the revisions a new one supersedes.
OlderRevisions(w, p) ==
    {r \in Issued(w) : /\ w.rulings[r].proposal.action = p.action
                       /\ w.rulings[r].proposal.revision < p.revision}

\* The issued rulings of every other revision of the action, older or newer.
OtherRevisions(w, p) ==
    {r \in Issued(w) : /\ w.rulings[r].proposal # p
                       /\ w.rulings[r].proposal.action = p.action}

\* proposal.freeze (when new), nonce.issue, reservation.reserve, ruling.issue.
IssueRuling(w, p, g, outcome) ==
    LET r == NextRuling(w)
        s == SelectionOf(w, p)
    IN  [w EXCEPT
            !.frozen[p] = s,
            !.nonces[r] = "issued",
            !.reservations[r] = IF Reserves(w, p, g, outcome) THEN "reserved" ELSE "none",
            !.rulings[r] =
                [status |-> "issued", gate |-> g, verdict |-> Verdict(outcome),
                 proposal |-> p, mandate |-> s.mandate, version |-> s.version,
                 selection |-> s.id, policy |-> w.policy,
                 issuedAt |-> now, notAfter |-> NotAfter(w, p, outcome), successor |-> 0]]

\* escalation.open for the ruling just issued.
OpenEscalation(w, r, p, contract) ==
    [w EXCEPT !.escalations[<<"ruling", r>>] =
        [state |-> "open", contract |-> contract, expiresAt |-> now + ResponseBound,
         disposition |-> "none", latest |-> p.revision, successor |-> 0]]

FreshRuling(w, p, g, ev) ==
    LET base == Invalidate(w, OtherRevisions(w, p))
        r == NextRuling(base)
        m == SelectionOf(base, p).mandate
        outcome == Outcome(base, p, ev)
        ruled == IssueRuling(base, p, g, outcome)
        raised == RecordPattern(OpenEscalation(ruled, r, p, outcome),
                                "escalation", <<"ruling", r>>, m, now)
    IN  IF outcome \in Contracts THEN PatternNarrowing(raised, m, now) ELSE ruled

PriorIssued(w, p, g) == Matching(w, p, g) \cap Issued(w)

BuildRuling(w, p, g, ev) == IF PriorIssued(w, p, g) # {} THEN w ELSE FreshRuling(w, p, g, ev)

\* The ruling BuildRuling returns.
BuiltRuling(w, p, g) ==
    IF PriorIssued(w, p, g) # {} THEN CHOOSE r \in PriorIssued(w, p, g) : TRUE ELSE NextRuling(w)

\* Revisions of an action are frozen in order, and only under the current selection.
Freezable(w, p) ==
    LET revisions == {q.revision : q \in {x \in Proposals : x.action = p.action /\ w.frozen[x] # NoSelection}}
    IN  /\ w.selection # NoSelection
        /\ w.frozen[p] # NoSelection => w.frozen[p] = w.selection
        /\ w.frozen[p] = NoSelection => /\ \A n \in revisions : n < p.revision
                                        /\ p.revision = 1 \/ p.revision - 1 \in revisions

\* Mutant of Rulable: a consumed ruling no longer refuses a new one.
RulableAfterCommit(w, p, g, ev) ==
    \/ PriorIssued(w, p, g) # {}
    \/ /\ Freezable(w, p)
       /\ Unused(w) # {}
       /\ ev = "dialogue" => g = "verify"

\* #buildRuling neither throws nor is refused by apply().
Rulable(w, p, g, ev) ==
    \/ PriorIssued(w, p, g) # {}
    \/ /\ \A r \in Matching(w, p, g) : w.rulings[r].status # "consumed"
       /\ Freezable(w, p)
       /\ Unused(w) # {}
       /\ ev = "dialogue" => g = "verify"

RuleProposal(p, g, ev) ==
    /\ now <= LastIssue
    /\ Rulable(world, p, g, ev)
    /\ Transact(BuildRuling(world, p, g, ev))

-----------------------------------------------------------------------------
(***************************************************************************)
(* Authority: mandates, policy, model selection, conversation store.       *)
(***************************************************************************)
MandateVersion(v, record, expiry, limits) ==
    [version |-> v, record |-> record, status |-> record, expiresAt |-> expiry, limits |-> limits]

GrantMandate(m, expiry, limits) ==
    /\ world.mandates[m].status = "none"
    /\ Transact([world EXCEPT !.mandates[m] = MandateVersion(1, "active", expiry, limits)])

\* The principal writes the next version; every issued ruling of the mandate goes.
AmendMandate(m, record, expiry, limits) ==
    LET v == world.mandates[m].version + 1
        w == Invalidate(world, IssuedUnder(world, m))
    IN  /\ world.mandates[m].status \notin {"none", "revoked"}
        /\ v <= MaxVersion
        /\ Transact([w EXCEPT !.mandates[m] = MandateVersion(v, record, expiry, limits)])

\* Mutant of Revoke: the issued rulings are left to lazy checks.
RevokeKeepingRulings(w, m) ==
    [w EXCEPT !.mandates[m].status = "revoked"]

\* Revocation sets the status of the current version and leaves its record alone.
Revoke(w, m) ==
    LET current == {r \in IssuedUnder(w, m) : w.rulings[r].version = w.mandates[m].version}
    IN  [Invalidate(w, current) EXCEPT !.mandates[m].status = "revoked"]

RevokeMandate(m) ==
    /\ world.mandates[m].status \notin {"none", "revoked"}
    /\ Transact(Revoke(world, m))

SwitchPolicy(w, policy) == [Invalidate(w, Issued(w)) EXCEPT !.policy = policy]

ReloadPolicy(policy) ==
    /\ reloads < MaxReloads
    /\ policy # world.policy
    /\ world' = SwitchPolicy(world, policy)
    /\ reloads' = reloads + 1
    /\ UNCHANGED now

\* A mutation of the case's conversation store invalidates its issued rulings.
PutConversationItems ==
    /\ reloads < MaxReloads
    /\ world' = Invalidate(world, Issued(world))
    /\ reloads' = reloads + 1
    /\ UNCHANGED now

AppendSelection(w, m) ==
    [w EXCEPT !.selection =
        [id |-> w.selection.id + 1, mandate |-> m, version |-> w.mandates[m].version]]

\* Mutant of SelectModel: what is bound is looked up after the switch.
SelectModelTooEarly(m) ==
    LET next == AppendSelection(world, m)
        bound == {r \in Issued(next) : next.rulings[r].selection = next.selection.id}
    IN  /\ {n \in Mandates : world.mandates[n].status = "active"} = {m}
        /\ now <= world.mandates[m].expiresAt
        /\ world.selection.id < MaxSelections
        /\ Transact(Invalidate(next, bound))

\* The switch needs exactly one mandate in force and binds its current version.
SelectModel(m) ==
    LET bound == {r \in Issued(world) : world.rulings[r].selection = world.selection.id}
    IN  /\ {n \in Mandates : world.mandates[n].status = "active"} = {m}
        /\ now <= world.mandates[m].expiresAt
        /\ world.selection.id < MaxSelections
        /\ Transact(AppendSelection(Invalidate(world, bound), m))

-----------------------------------------------------------------------------
(***************************************************************************)
(* Commit verification and the outcome of an effect.                       *)
(***************************************************************************)
\* Any element of the binding tuple that is no longer current; `evidence` says
\* whether the model card and the system-use decision still are.
CommitDefect(w, r, evidence) ==
    LET ruling == w.rulings[r]
        m == w.mandates[ruling.mandate]
    IN  \/ ruling.selection # w.selection.id
        \/ m.version # ruling.version
        \/ m.status # "active"
        \/ now > m.expiresAt
        \/ ~evidence
        \/ ruling.policy # w.policy
        \/ w.nonces[r] # "issued"
        \/ w.reservations[r] # "reserved"
        \/ \E c \in Counters : /\ Delta(ruling.proposal, c) # 0
                               /\ CounterValue(w, ruling.mandate, c, now) > m.limits[c]

CommitVerify(r, boot, evidence) ==
    /\ r \in Issued(world)
    /\ world.rulings[r].gate = "commit"
    /\ world.rulings[r].verdict = "allow"
    /\ \/ /\ now >= world.rulings[r].notAfter
          /\ Transact(Expire(world, {r}))
       \/ /\ now < world.rulings[r].notAfter
          /\ CommitDefect(world, r, evidence)
          /\ Transact(Invalidate(world, {r}))
       \/ /\ now < world.rulings[r].notAfter
          /\ ~CommitDefect(world, r, evidence)
          /\ Transact(BindCommitment(world, r, boot))

ReportEffectOutcome(r, outcome) ==
    /\ world.commitments[r].state \in {"bound", "unknown"}
    /\ Transact(RecordOutcome(world, r, outcome))

MarkCommitmentUnknown(r) ==
    /\ now <= LastIssue
    /\ world.commitments[r].state = "bound"
    /\ Transact(HoldForReconciliation(world, r, now))

\* Absence proves no effect only on the same ledger and after a restart of the host.
ReconcileAbsentAfterRestart(r, boot) ==
    /\ world.commitments[r].state \in {"bound", "unknown"}
    /\ boot # world.commitments[r].boot
    /\ Transact(RecordNoEffect(world, r))

-----------------------------------------------------------------------------
(***************************************************************************)
(* Escalations.                                                            *)
(***************************************************************************)
\* Mutant of Dispose: the source ruling is invalidated whatever its status.
DisposeAnySource(w, e, disposition) ==
    LET closed == Close(w, e, "disposed", disposition)
    IN  [closed EXCEPT !.rulings = SetStatus(closed, {e[2]}, "invalidated"),
                       !.reservations = ReleaseReserved(closed, {e[2]})]

\* What a disposition does to the source ruling, if it is still issued.
Dispose(w, e, disposition) == Invalidate(Close(w, e, "disposed", disposition), {e[2]})

MandateOf(w, e) == w.rulings[e[2]].mandate
Lapsed(w, r) == now >= w.rulings[r].notAfter

\* A disposition that arrives late times the escalation out before it is refused.
TimeOutOnDisposition(w, e) ==
    LET closed == Close(w, e, "timed_out", "none")
        ended == IF Lapsed(w, e[2]) THEN Expire(closed, {e[2]}) ELSE Invalidate(closed, {e[2]})
        m == MandateOf(w, e)
    IN  PatternNarrowing(RecordPattern(ended, "timeout", e, m, now), m, now)

NarrowingThrows(w, e, kind) ==
    NarrowingRefused(RecordPattern(w, kind, e, MandateOf(w, e), now), MandateOf(w, e), now)

\* Mutant of Override: the pattern is recorded but not acted upon.
OverrideWithoutNarrowing(w, e) ==
    RecordPattern(Dispose(w, e, "allow-within-scope"), "override", e, MandateOf(w, e), now)

\* The override disposes the escalation, counts the override, narrows the
\* mandate when the pattern asks for it, and rules the unchanged proposal again.
Override(w, e) ==
    PatternNarrowing(
        RecordPattern(Dispose(w, e, "allow-within-scope"), "override", e, MandateOf(w, e), now),
        MandateOf(w, e), now)

DisposeEscalation(e, disposition, ev) ==
    LET escalation == world.escalations[e]
        source == world.rulings[e[2]]
        overridden == Override(world, e)
    IN  /\ e \in Open(world)
        /\ \/ /\ now >= escalation.expiresAt
              /\ ~NarrowingThrows(world, e, "timeout")
              /\ Transact(TimeOutOnDisposition(world, e))
           \/ /\ now < escalation.expiresAt
              /\ escalation.contract # "dialogue"
              /\ disposition \in Permitted(escalation.contract) \ {"allow-within-scope"}
              /\ Transact(Dispose(world, e, disposition))
           \/ /\ now < escalation.expiresAt
              /\ now <= LastIssue
              /\ disposition = "allow-within-scope"
              /\ disposition \in Permitted(escalation.contract)
              /\ ~NarrowingThrows(world, e, "override")
              /\ Rulable(overridden, source.proposal, source.gate, ev)
              /\ Transact(LinkSuccessor(BuildRuling(overridden, source.proposal, source.gate, ev),
                                       e, BuiltRuling(overridden, source.proposal, source.gate)))

\* A late answer times any escalation out: the nonce of a lapsed ruling stays
\* issued and no timeout is counted.
TimeOutOnAnswer(w, e) ==
    LET closed == Close(w, e, "timed_out", "none")
    IN  IF Lapsed(w, e[2]) THEN ExpireRulings(closed, {e[2]}) ELSE Invalidate(closed, {e[2]})

\* "answer" stands for confirm, correct and narrow, which change the
\* conversation store and so end every issued ruling of the case; "abstain"
\* for abstain and route.
RespondDialogue(e, disposition) ==
    LET escalation == world.escalations[e]
        disposed == Dispose(world, e, disposition)
    IN  /\ e \in Open(world)
        /\ \/ /\ now >= escalation.expiresAt
              /\ Transact(TimeOutOnAnswer(world, e))
           \/ /\ now < escalation.expiresAt
              /\ disposition \in Permitted(escalation.contract) \cap {"answer", "abstain"}
              /\ Transact(IF disposition = "answer" THEN Invalidate(disposed, Issued(disposed))
                                                     ELSE disposed)

\* One gate of a revision continuation: the world and the ruling it produced,
\* or no ruling when the transaction throws.
Stage(w, p, g, ev) ==
    IF Rulable(w, p, g, ev) THEN [world |-> BuildRuling(w, p, g, ev), ruling |-> BuiltRuling(w, p, g)]
                            ELSE [world |-> w, ruling |-> 0]

Passed(stage) == stage.ruling # 0 /\ stage.world.rulings[stage.ruling].verdict = "allow"

\* Authorize, Submit and Verify in order, up to the first that does not allow.
RerunGates(w, p, ev) ==
    LET authorize == Stage(w, p, "authorize", ev["authorize"])
        submit == Stage(authorize.world, p, "submit", ev["submit"])
        verify == Stage(submit.world, p, "verify", ev["verify"])
    IN  IF ~Passed(authorize) THEN authorize
        ELSE IF ~Passed(submit) THEN submit
        ELSE verify

ContinueEscalationRevision(e, p, ev) ==
    LET escalation == world.escalations[e]
        source == world.rulings[e[2]]
        last == RerunGates(world, p, ev)
        \* an attempt counts once it has produced a ruling of its own
        tried == [last.world EXCEPT !.escalations[e].latest =
                    IF last.world = world THEN @ ELSE p.revision]
    IN  /\ now <= LastIssue
        /\ escalation.state = "disposed"
        /\ escalation.disposition = "narrow-or-modify"
        /\ escalation.successor = 0
        /\ p.action = source.proposal.action
        /\ p.revision = escalation.latest + 1
        /\ last.ruling # 0
        /\ Transact(IF last.world.rulings[last.ruling].verdict = "deny" THEN tried
                    ELSE LinkSuccessor(tried, e, last.ruling))

-----------------------------------------------------------------------------
(***************************************************************************)
(* The sweeper: one transaction that makes every lapse visible.            *)
(***************************************************************************)
\* Mutant of Due: escalations of a ruling that has lapsed are passed over.
DueWhileRulingLives(w) ==
    {e \in Open(w) : now >= w.escalations[e].expiresAt /\ now < w.rulings[e[2]].notAfter}

Due(w) == {e \in Open(w) : now >= w.escalations[e].expiresAt}

Expiring(w) == {m \in Mandates : /\ w.mandates[m].status \in {"active", "suspended"}
                                 /\ now >= w.mandates[m].expiresAt}

\* Escalations time out; a ruling that has not lapsed is invalidated.
TimeOutAll(w) ==
    LET due == Due(w)
    IN  [Invalidate(w, {e[2] : e \in due}) EXCEPT
            !.escalations = [e \in EscalationIds |->
                IF e \in due THEN [w.escalations[e] EXCEPT !.state = "timed_out"] ELSE w.escalations[e]],
            !.patterns = @ \cup {[kind |-> "timeout", escalation |-> e,
                                  mandate |-> MandateOf(w, e), at |-> now] : e \in due}]

ExpireMandates(w) ==
    [Expire(w, UNION {IssuedUnder(w, m) : m \in Expiring(w)}) EXCEPT
        !.mandates = [m \in Mandates |->
            IF m \in Expiring(w) THEN [w.mandates[m] EXCEPT !.status = "expired"] ELSE w.mandates[m]]]

\* Mandates with a new timeout, not expiring now, whose pattern asks for narrowing.
ToNarrow(w, w1) ==
    {m \in {MandateOf(w, e) : e \in Due(w)} \ Expiring(w) : NarrowingDue(w1, m, now)}

NarrowAll(w, S) ==
    [Invalidate(w, UNION {IssuedUnder(w, m) : m \in S}) EXCEPT
        !.mandates = [m \in Mandates |->
            IF m \in S THEN [w.mandates[m] EXCEPT !.version = @ + 1, !.record = "suspended",
                                                  !.status = "suspended"]
            ELSE w.mandates[m]]]

LapsedRulings(w) == {r \in Issued(w) : Lapsed(w, r)}

Swept(w) == ExpireMandates(TimeOutAll(Expire(w, LapsedRulings(w))))

SweepRefused(w) == \E m \in ToNarrow(w, Swept(w)) : w.mandates[m].status = "revoked"

RunSweeper ==
    /\ LapsedRulings(world) # {} \/ Due(world) # {} \/ Expiring(world) # {}
    /\ ~SweepRefused(world)
    /\ Transact(NarrowAll(Swept(world), ToNarrow(world, Swept(world))))

-----------------------------------------------------------------------------
ChangeAuthority ==
    \/ \E m \in Mandates, expiry \in Expiries, limits \in LimitChoices :
            \/ GrantMandate(m, expiry, limits)
            \/ \E record \in AmendedRecords : AmendMandate(m, record, expiry, limits)
    \/ \E m \in Mandates : RevokeMandate(m) \/ SelectModel(m)
    \/ \E policy \in Policies : ReloadPolicy(policy)
    \/ PutConversationItems

HandleEscalation ==
    \E e \in EscalationIds :
        \/ \E disposition \in {"allow-within-scope", "narrow-or-modify", "stop"}, ev \in Evaluations :
                DisposeEscalation(e, disposition, ev)
        \/ \E disposition \in {"answer", "abstain"} : RespondDialogue(e, disposition)
        \/ \E p \in Proposals, ev \in [{"authorize", "submit", "verify"} -> Evaluations] :
                ContinueEscalationRevision(e, p, ev)

Commit ==
    \E r \in RulingIds :
        \/ \E boot \in Boots, evidence \in BOOLEAN : CommitVerify(r, boot, evidence)
        \/ \E outcome \in Outcomes : ReportEffectOutcome(r, outcome)
        \/ MarkCommitmentUnknown(r)
        \/ \E boot \in Boots : ReconcileAbsentAfterRestart(r, boot)

Next ==
    \/ Tick
    \/ ChangeAuthority
    \/ \E p \in Proposals, g \in RuledGates, ev \in Evaluations : RuleProposal(p, g, ev)
    \/ Commit
    \/ HandleEscalation
    \/ RunSweeper

Spec == Init /\ [][Next]_vars

\* The clock goes on and maintenance runs at startup and every SWEEP_INTERVAL_MS
\* (authorizationProcess.ts); nobody has to answer, commit or submit anything.
FairSpec == Spec /\ WF_vars(Tick) /\ WF_vars(RunSweeper)
=============================================================================
