----------------------------- MODULE WorldState -----------------------------
(***************************************************************************)
(* The durable state of one world of the authorization service             *)
(* (packages/gate-core/src/state.ts) and the groups of WAL operations its  *)
(* transactions are made of.  Every operator below that yields a world     *)
(* stands for a list of WalOps applied in order, so a transaction is a     *)
(* composition of them; WorldState holds no variables of its own.          *)
(*                                                                         *)
(* One case, one connected service and one action class are modelled, and  *)
(* model cards, digests, MACs and record entries are left out.  A ruling   *)
(* owns exactly one nonce, at most one reservation per counter (all of     *)
(* them move together) and at most one commitment, so nonces, reservations *)
(* and commitments are indexed by the ruling.                              *)
(***************************************************************************)
EXTENDS Naturals, FiniteSetsExt

CONSTANTS
    Mandates,           \* mandate ids
    Actions,            \* action ids; the revisions of one action supersede each other
    Proposals,          \* frozen proposals the orchestrator may submit
    RulingTtl,          \* validity window of a ruling (RULING_VALIDITY_MS)
    ResponseBound,      \* time an escalation stays open
    Window,             \* length of the escalation-pattern window
    EscalationCount, TimeoutCount, OverrideCount,  \* pattern thresholds
    DayLength,          \* the "actions" counter is per calendar day
    MaxRulings,         \* bound: rulings issued in one behaviour
    Expiries,           \* expiry instants a principal may give a mandate
    LimitChoices,       \* ceilings a principal may give a mandate
    Policies,           \* policy activations (version, digest, evaluator build)
    Boots               \* boots of the services host

Counters == {"actions", "amount"}
Gates == {"authorize", "submit", "verify", "commit"}
RulingIds == 1..MaxRulings

ASSUME WorldAssumption ==
    /\ Proposals \subseteq [action : Actions, revision : Nat \ {0}, cost : Nat]
    /\ MaxRulings \in Nat
    /\ {RulingTtl, ResponseBound, Window, DayLength} \subseteq Nat \ {0}
    /\ {EscalationCount, TimeoutCount, OverrideCount} \subseteq Nat
    /\ Expiries \subseteq Nat
    /\ LimitChoices \subseteq [Counters -> Nat]

(***************************************************************************)
(* Records of the state.                                                   *)
(***************************************************************************)
NoMandate == [status |-> "none"]
NoRuling == [status |-> "none"]
NoEscalation == [state |-> "none"]
NoCommitment == [state |-> "none"]

\* `record` is the state written in the current mandate version, `status` the
\* entry of state.mandateStatus: revocation and expiry change only the latter.
Mandate ==
    [version : Nat, record : {"active", "suspended"},
     status : {"active", "suspended", "revoked", "expired"},
     expiresAt : Nat, limits : [Counters -> Nat]]

\* The model selections of the case are numbered; the current one binds a
\* mandate version, and a proposal stays bound to the one it was frozen under.
NoSelection == [id |-> 0]
Selection == [id : Nat \ {0}, mandate : Mandates, version : Nat]

Ruling ==
    [status : {"issued", "consumed", "invalidated", "expired"},
     gate : Gates, verdict : {"allow", "deny", "escalate"},
     proposal : Proposals, mandate : Mandates, version : Nat,
     selection : Nat, policy : Policies,
     issuedAt : Nat, notAfter : Nat, successor : RulingIds \cup {0}]

\* A ruling escalation stems from an escalate ruling, a recovery escalation
\* from the unknown commitment of a consumed one.
EscalationIds == {"ruling", "recovery"} \X RulingIds

Escalation ==
    [state : {"open", "disposed", "timed_out", "cancelled"},
     contract : {"default", "ceiling", "dialogue", "recovery"},
     expiresAt : Nat,
     disposition : {"none", "allow-within-scope", "narrow-or-modify", "stop", "answer", "abstain"},
     latest : Nat,                       \* newest revision tried under this escalation
     successor : RulingIds \cup {0}]

PatternEvent ==
    [kind : {"escalation", "timeout", "override"},
     escalation : EscalationIds, mandate : Mandates, at : Nat]

Commitment ==
    [state : {"bound", "discharged", "unknown", "reconciled"},
     outcome : {"none", "success", "failed", "no-effect"}, boot : Boots]

ReservationStates == {"none", "reserved", "settled", "held", "released"}

World ==
    [policy       : Policies,
     mandates     : [Mandates -> Mandate \cup {NoMandate}],
     selection    : Selection \cup {NoSelection},
     frozen       : [Proposals -> Selection \cup {NoSelection}],
     rulings      : [RulingIds -> Ruling \cup {NoRuling}],
     nonces       : [RulingIds -> {"none", "issued", "consumed", "expired"}],
     reservations : [RulingIds -> ReservationStates],
     escalations  : [EscalationIds -> Escalation \cup {NoEscalation}],
     patterns     : SUBSET PatternEvent,
     commitments  : [RulingIds -> Commitment \cup {NoCommitment}]]

\* The world after genesis and the first policy activation.
EmptyWorld(policy) ==
    [policy       |-> policy,
     mandates     |-> [m \in Mandates |-> NoMandate],
     selection    |-> NoSelection,
     frozen       |-> [p \in Proposals |-> NoSelection],
     rulings      |-> [r \in RulingIds |-> NoRuling],
     nonces       |-> [r \in RulingIds |-> "none"],
     reservations |-> [r \in RulingIds |-> "none"],
     escalations  |-> [e \in EscalationIds |-> NoEscalation],
     patterns     |-> {},
     commitments  |-> [r \in RulingIds |-> NoCommitment]]

-----------------------------------------------------------------------------
(***************************************************************************)
(* Queries.                                                                *)
(***************************************************************************)
Issued(w) == {r \in RulingIds : w.rulings[r].status = "issued"}
IssuedUnder(w, m) == {r \in Issued(w) : w.rulings[r].mandate = m}
Open(w) == {e \in EscalationIds : w.escalations[e].state = "open"}

\* Rulings of any status for one proposal at one gate (matchingRulings).
Matching(w, p, g) ==
    {r \in RulingIds : /\ w.rulings[r].status # "none"
                       /\ w.rulings[r].proposal = p
                       /\ w.rulings[r].gate = g}

\* Ruling ids not in use; an id is random, here it is any of these.
Unused(w) == {r \in RulingIds : w.rulings[r].status = "none"}
NextRuling(w) == CHOOSE r \in Unused(w) : TRUE

\* The selection a proposal is bound to: the one it was frozen under, else
\* the current one (proposal.freeze refuses any other).
SelectionOf(w, p) == IF w.frozen[p] = NoSelection THEN w.selection ELSE w.frozen[p]

Delta(p, c) == IF c = "actions" THEN 1 ELSE p.cost
Day(t) == t \div DayLength

\* Reservations that count: the released ones do not, and the actions counter
\* looks at those reserved on the same calendar day only.
Counting(w, m, c, now) ==
    {r \in RulingIds : /\ w.reservations[r] \in {"reserved", "settled", "held"}
                       /\ w.rulings[r].mandate = m
                       /\ c = "actions" => Day(w.rulings[r].issuedAt) = Day(now)}

CounterValue(w, m, c, now) ==
    MapThenSumSet(LAMBDA r : Delta(w.rulings[r].proposal, c), Counting(w, m, c, now))

RecentEvents(w, m, kind, now) ==
    {x \in w.patterns : x.mandate = m /\ x.kind = kind /\ x.at <= now /\ now <= x.at + Window}

EscalationPatternRequiresNarrowing(w, m, now) ==
    \/ Cardinality(RecentEvents(w, m, "escalation", now)) >= EscalationCount
    \/ Cardinality(RecentEvents(w, m, "timeout", now)) >= TimeoutCount
    \/ Cardinality(RecentEvents(w, m, "override", now)) >= OverrideCount

-----------------------------------------------------------------------------
(***************************************************************************)
(* Groups of WAL operations.                                               *)
(***************************************************************************)
SetStatus(w, S, status) ==
    [r \in RulingIds |-> IF r \in S THEN [w.rulings[r] EXCEPT !.status = status] ELSE w.rulings[r]]

ReleaseReserved(w, S) ==
    [r \in RulingIds |-> IF r \in S /\ w.reservations[r] = "reserved" THEN "released"
                                                                      ELSE w.reservations[r]]

\* Mutant of Invalidate: the reservations are left to the sweeper.
InvalidateKeepingReservations(w, S) ==
    [w EXCEPT !.rulings = SetStatus(w, S \cap Issued(w), "invalidated")]

\* ruling.invalidate and reservation.release for the issued rulings among S;
\* the nonces are left as they are.
Invalidate(w, S) ==
    [w EXCEPT !.rulings = SetStatus(w, S \cap Issued(w), "invalidated"),
              !.reservations = ReleaseReserved(w, S \cap Issued(w))]

\* ruling.expire and reservation.release.
ExpireRulings(w, S) ==
    [w EXCEPT !.rulings = SetStatus(w, S \cap Issued(w), "expired"),
              !.reservations = ReleaseReserved(w, S \cap Issued(w))]

\* nonce.expire for the issued nonces of S.
ExpireNonces(w, S) ==
    [w EXCEPT !.nonces = [r \in RulingIds |->
        IF r \in S /\ w.nonces[r] = "issued" THEN "expired" ELSE w.nonces[r]]]

\* Both, for the issued rulings among S.
Expire(w, S) == ExpireNonces(ExpireRulings(w, S), S \cap Issued(w))

RecordPattern(w, kind, e, m, now) ==
    [w EXCEPT !.patterns = @ \cup {[kind |-> kind, escalation |-> e, mandate |-> m, at |-> now]}]

\* mandate.amend to the next version in state suspended.
Suspend(w, m) ==
    [w EXCEPT !.mandates[m].version = @ + 1,
              !.mandates[m].record = "suspended",
              !.mandates[m].status = "suspended"]

\* The narrowing decision looks at the record of the current version ...
NarrowingDue(w, m, now) ==
    /\ w.mandates[m].status # "none"
    /\ w.mandates[m].record = "active"
    /\ EscalationPatternRequiresNarrowing(w, m, now)

\* ... while apply() refuses to amend a mandate whose status is revoked, which
\* refuses the whole transaction.
NarrowingRefused(w, m, now) == NarrowingDue(w, m, now) /\ w.mandates[m].status = "revoked"

\* Mutant of PatternNarrowing: the issued rulings stay.
SuspendWithoutInvalidation(w, m, now) == IF NarrowingDue(w, m, now) THEN Suspend(w, m) ELSE w

PatternNarrowing(w, m, now) ==
    IF NarrowingDue(w, m, now) THEN Suspend(Invalidate(w, IssuedUnder(w, m)), m) ELSE w

-----------------------------------------------------------------------------
(***************************************************************************)
(* Commitments and their recovery.                                         *)
(***************************************************************************)
\* Mutant of BindCommitment: the nonce is not consumed.
BindKeepingNonce(w, r, boot) ==
    [w EXCEPT !.reservations[r] = IF @ = "reserved" THEN "settled" ELSE @,
              !.rulings = SetStatus(w, {r}, "consumed"),
              !.commitments[r] = [state |-> "bound", outcome |-> "none", boot |-> boot]]

\* nonce.consume, reservation.settle, ruling.consume, commitment.bind.
BindCommitment(w, r, boot) ==
    [w EXCEPT !.nonces[r] = "consumed",
              !.reservations[r] = IF @ = "reserved" THEN "settled" ELSE @,
              !.rulings = SetStatus(w, {r}, "consumed"),
              !.commitments[r] = [state |-> "bound", outcome |-> "none", boot |-> boot]]

\* Mutant of HoldForReconciliation: the capacity is given back at once.
ReleaseForReconciliation(w, r, now) ==
    [w EXCEPT !.reservations[r] = "released",
              !.commitments[r].state = "unknown",
              !.escalations[<<"recovery", r>>] =
                  [state |-> "open", contract |-> "recovery", expiresAt |-> now + ResponseBound,
                   disposition |-> "none", latest |-> 0, successor |-> 0]]

\* reservation.hold_for_reconciliation, commitment.mark_unknown, escalation.open.
HoldForReconciliation(w, r, now) ==
    [w EXCEPT !.reservations[r] = IF @ = "settled" THEN "held" ELSE @,
              !.commitments[r].state = "unknown",
              !.escalations[<<"recovery", r>>] =
                  [state |-> "open", contract |-> "recovery", expiresAt |-> now + ResponseBound,
                   disposition |-> "none", latest |-> 0, successor |-> 0]]

\* Mutant of CancelRecovery: the escalation is not looked up first.
CancelRecoveryUnchecked(w, r) ==
    [w EXCEPT !.escalations[<<"recovery", r>>].state = "cancelled"]

\* escalation.cancel of the open recovery escalation, if there is one.
CancelRecovery(w, r) ==
    IF <<"recovery", r>> \in Open(w)
    THEN [w EXCEPT !.escalations[<<"recovery", r>>].state = "cancelled"]
    ELSE w

Resolve(w, r, state, outcome, reservation) ==
    [w EXCEPT !.commitments[r].state = state,
              !.commitments[r].outcome = outcome,
              !.reservations[r] = IF @ \in {"settled", "held"} THEN reservation ELSE @]

\* Mutant of RecordOutcome: held capacity is not reconciled.
RecordOutcomeKeepingHold(w, r, outcome) ==
    [w EXCEPT !.commitments[r].state = IF @ = "bound" THEN "discharged" ELSE "reconciled",
              !.commitments[r].outcome = outcome]

\* effect.record with commitment.discharge, or with reservation.reconcile and
\* commitment.reconcile when the outcome had already been declared unknown.
RecordOutcome(w, r, outcome) ==
    IF w.commitments[r].state = "bound"
    THEN Resolve(w, r, "discharged", outcome, "settled")
    ELSE CancelRecovery(Resolve(w, r, "reconciled", outcome, "settled"), r)

\* Mutant of RecordNoEffect: the recovery escalation is left open.
RecordNoEffectInEscalation(w, r) == Resolve(w, r, "reconciled", "no-effect", "released")

\* The proof of absence: commitment.reconcile and release of the hold.  A bound
\* commitment passes through unknown in the same transaction, without an escalation.
RecordNoEffect(w, r) == CancelRecovery(Resolve(w, r, "reconciled", "no-effect", "released"), r)

(***************************************************************************)
(* Ends of an escalation.                                                  *)
(***************************************************************************)
Close(w, e, state, disposition) ==
    [w EXCEPT !.escalations[e].state = state, !.escalations[e].disposition = disposition]

\* Mutant of LinkSuccessor: the source ruling is not linked.
LinkEscalationOnly(w, e, r) ==
    [w EXCEPT !.escalations[e].successor = r]

\* ruling.link_successor and escalation.link_successor.
LinkSuccessor(w, e, r) ==
    [w EXCEPT !.escalations[e].successor = r, !.rulings[e[2]].successor = r]
=============================================================================
