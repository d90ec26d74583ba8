-------------------------- MODULE AuthorityProperties --------------------------
(***************************************************************************)
(* The properties of mandates, system-use decisions and case sessions.     *)
(***************************************************************************)
EXTENDS CaseAuthority

DecisionRecords == [status : {"proposed", "approved", "rejected", "superseded", "suspended"},
                    config : Configs, window : {"ahead", "open", "past"}, met : BOOLEAN]
HandoffRecords == [state : {"issued", "consumed", "expired"}, boot : 1..boot, overdue : BOOLEAN]
ReceiptRecords == [state : {"none", "active", "expired"}, handoff : 0..Len(handoffs), boot : 0..boot,
                   overdue : BOOLEAN]
MandateRecords == [version : Nat, status : MandateStates, record : MandateStates, scope : Scopes, overdue : BOOLEAN]
BindingRecords == [kind : Kinds, decision : Versions, mandate : Mandates, version : Nat, session : 0..MaxSessions,
                   precommit : Nat, boot : 1..boot, overdue : BOOLEAN, state : {"issued", "used", "invalidated"}]

\* Types: records, receipts and bindings refer to what exists, and the orchestrator
\* holds no session it did not generate.
TypeOK ==
    /\ up \in BOOLEAN /\ boot \in 1..(MaxChanges + 1)
    /\ decisions \in Seq(DecisionRecords) /\ Len(decisions) <= MaxVersions
    /\ mandates \in Seq(MandateRecords)
    /\ policy \in Policies \cup {"none"}
    /\ handoffs \in Seq(HandoffRecords)
    /\ receipts \in [Sessions -> ReceiptRecords]
    /\ bindings \in Seq(BindingRecords)
    /\ console \subseteq 1..generated
    /\ changes \in 0..MaxChanges

\* At most one version of the decision is approved, whatever is proposed, replaced or
\* transitioned and however often the service starts: a boundary can find the system use
\* missing or inactive, never ambiguous (systemUseDecision.ts, resolveCurrent...).
NeverAmbiguous == Cardinality({v \in Versions : decisions[v].status = "approved"}) <= 1

\* A binding that is in force: its decision is approved for the mandate at the version that
\* was bound and for the active policy, and that mandate is active.
Authorised(b) ==
    LET d == decisions[b.decision]
        m == mandates[b.mandate]
    IN /\ d.status = "approved" /\ d.met /\ d.config = Config(b.mandate)
       /\ m.status = "active" /\ m.version = b.version

\* What the end of a mandate may leave: a preparation, and an execution only if the ruling
\* it names has ended before (narrowing in authorizationCore.ts, the sweep).
Stranded(b) ==
    /\ b.kind \in Preparations /\ mandates[b.mandate].status # "active"
    /\ b.kind = "execution" => bindings[b.precommit].state # "issued"

\* A ruling that is still issued rests on an approved decision for the mandate and policy in
\* force: each of the handlers ends all that its change takes out of force.  A preparation
\* does so too unless narrowing or the sweep stranded it, and its decision is approved still.
IssuedIsAuthorised ==
    \A b \in 1..Len(bindings) : bindings[b].state = "issued" =>
        /\ decisions[bindings[b].decision].status = "approved" /\ decisions[bindings[b].decision].met
        /\ Authorised(bindings[b]) \/ Stranded(bindings[b])

\* What is issued and no longer authorised is never used and never authorised again,
\* although the mandate can be amended back, another one granted and the policy reloaded:
\* a preparation that narrowing leaves does no harm.
NothingRegained ==
    [][\A b \in 1..Len(bindings) : bindings[b].state = "issued" /\ ~Authorised(bindings[b]) =>
          /\ bindings'[b].state # "used"
          /\ bindings'[b].state = "issued" => ~Authorised(bindings[b])']_vars

\* A handoff gives at most one session, although its code can be presented again, the
\* answer to a redemption can be lost and a redemption can be handled late.
OneSessionPerHandoff ==
    \A s, t \in Sessions : s # t /\ receipts[s].handoff = receipts[t].handoff => receipts[s].handoff = 0

\* A handoff that was consumed has a receipt, and one that has a receipt was consumed:
\* the two records are written by one transaction.
ConsumedIsRedeemed ==
    \A h \in 1..Len(handoffs) : handoffs[h].state = "consumed" <=> \E s \in Sessions : receipts[s].handoff = h

\* The orchestrator authenticates only sessions that were redeemed from a handoff: no
\* lost or refused redemption leaves a session behind.
ConsoleWasRedeemed == \A s \in console : receipts[s].state # "none"

\* A session that was closed leaves no preparation in force, though the request that
\* closes it can be handled after new preparations were issued.
ClosedHoldsNothing ==
    \A b \in 1..Len(bindings) : bindings[b].state = "issued" /\ bindings[b].kind \in Preparations =>
        LET r == receipts[bindings[b].session] IN r.state = "active" \/ Gone(r)

\* While the service runs, a preparation does not outlive the receipt of its session:
\* nothing but maintenance ends a preparation of a receipt that expired by itself.
Orphans ==
    {b \in 1..Len(bindings) : /\ bindings[b].state = "issued" /\ bindings[b].kind \in Preparations
                              /\ ~Held(bindings[b].session)}

PreparationsEnd == Orphans # {} ~> Orphans = {} \/ ~up

\* Decisions, handoffs and receipts agree: one version of the decision at most is in
\* force and a handoff is spent exactly when it gave a receipt.
RecordsAgree == TypeOK /\ NeverAmbiguous /\ ConsumedIsRedeemed

\* A session is worth its handoff, on both sides of a redemption that can be retried,
\* lost and handled late: one session per handoff, and none that was not redeemed.
SessionsAreRedeemed == OneSessionPerHandoff /\ ConsoleWasRedeemed

\* What is still issued has what it rests on, or is known to be without it: its decision,
\* mandate and policy, and its session.
IssuedIsHeld == IssuedIsAuthorised /\ ClosedHoldsNothing

================================================================================
