----------------------- MODULE AuthorizationProperties -----------------------
(***************************************************************************)
(* What the authorization core promises.  The invariants are those         *)
(* validateWorldState asserts after every transaction, and more: the model *)
(* never rejects a transaction for breaking them, so they say that the     *)
(* eager invalidations of every handler are complete by themselves.        *)
(***************************************************************************)
EXTENDS AuthorizationCore

\* The state has the shape of WorldState.World.
TypeOK ==
    /\ world \in World
    /\ now \in Nat
    /\ reloads \in Nat

\* An issued ruling never outlives what it was issued under: the selection and
\* the policy are the current ones and, unless it is a denial, its mandate is
\* active at the version the ruling binds (state.ts, 'stale-issued-ruling').
CurrentIn(w) ==
    \A r \in Issued(w) :
        LET ruling == w.rulings[r]
            m == w.mandates[ruling.mandate]
        IN  /\ ruling.selection = w.selection.id
            /\ ruling.policy = w.policy
            /\ ruling.verdict # "deny" => m.status = "active" /\ m.version = ruling.version

IssuedIsCurrent == CurrentIn(world)

\* Single use: a nonce is consumed exactly when its ruling is, exactly then
\* there is a commitment, and only an allow at the Commit gate gets there.
UsedOnceIn(w) ==
    \A r \in RulingIds :
        LET consumed == w.rulings[r].status = "consumed"
        IN  /\ consumed <=> w.nonces[r] = "consumed"
            /\ consumed <=> w.commitments[r].state # "none"
            /\ consumed => w.rulings[r].verdict = "allow" /\ w.rulings[r].gate = "commit"
            /\ w.rulings[r].status = "issued" => w.nonces[r] = "issued"

SingleUse == UsedOnceIn(world)

\* Reserved capacity is in flight only while its ruling is issued, is held only
\* while the outcome is unknown, and is given back unless there was or may be
\* an effect: "unbound attempts consume nothing" (ADR-001).
CapacityIn(w) ==
    \A r \in RulingIds :
        LET status == w.rulings[r].status
            commitment == w.commitments[r]
            noEffect == commitment.state = "reconciled" /\ commitment.outcome = "no-effect"
            capacity == w.reservations[r]
        IN  /\ capacity = "none" => commitment.state = "none"
            /\ capacity = "reserved" => status = "issued"
            /\ capacity = "settled" =>
                 commitment.state \in {"bound", "discharged", "reconciled"} /\ ~noEffect
            /\ capacity = "held" => commitment.state = "unknown"
            /\ capacity = "released" => status \in {"invalidated", "expired"} \/ noEffect

CapacityFollowsRuling == CapacityIn(world)

\* At any moment the issued rulings of an action are all of one of its
\* revisions, and no two of them are for the same gate.
OneRevisionIn(w) ==
    \A q, r \in Issued(w) :
        w.rulings[q].proposal.action = w.rulings[r].proposal.action =>
            /\ w.rulings[q].proposal = w.rulings[r].proposal
            /\ w.rulings[q].gate = w.rulings[r].gate => q = r

OneLiveRevision == OneRevisionIn(world)

\* A frozen proposal is bound by at most one commitment, however often it is
\* overridden, re-ruled or presented.
OneCommitmentIn(w) ==
    \A q, r \in RulingIds :
        /\ w.commitments[q].state # "none"
        /\ w.commitments[r].state # "none"
        /\ w.rulings[q].proposal = w.rulings[r].proposal
        => q = r

OneCommitmentPerProposal == OneCommitmentIn(world)

\* An unknown outcome has been routed to its recovery owner, and the recovery
\* escalation does not stay open once the outcome is known.
RoutedIn(w) ==
    \A r \in RulingIds :
        LET recovery == w.escalations[<<"recovery", r>>]
        IN  /\ w.commitments[r].state = "unknown" => recovery.state # "none"
            /\ recovery.state = "open" => w.commitments[r].state = "unknown"

\* ... and no handler leaves a record half made, such as a recovery escalation that
\* was closed and never opened.
UnknownIsRouted == TypeOK /\ RoutedIn(world)

\* Successor links: an overridden escalation is followed by another ruling of
\* the same proposal at the same gate, a narrowed one by a later revision of
\* the action, and source ruling and escalation name the same successor.
SuccessorsIn(w) ==
    \A e \in EscalationIds :
        LET escalation == w.escalations[e]
            source == w.rulings[e[2]]
        IN  escalation.state # "none" =>
              IF escalation.successor = 0 THEN e[1] = "ruling" => source.successor = 0
              ELSE LET next == w.rulings[escalation.successor]
                   IN  /\ source.successor = escalation.successor
                       /\ escalation.successor # e[2]
                       /\ escalation.state = "disposed"
                       /\ source.verdict = "escalate"
                       /\ escalation.disposition = "allow-within-scope" =>
                            next.proposal = source.proposal /\ next.gate = source.gate
                       /\ escalation.disposition = "narrow-or-modify" =>
                            /\ next.proposal.action = source.proposal.action
                            /\ next.proposal.revision > source.proposal.revision

SuccessorLinks == SuccessorsIn(world)

-----------------------------------------------------------------------------
(***************************************************************************)
(* The invariants above together with the two facts they rest on; this     *)
(* conjunction is inductive (AuthorizationCoreProofs).                     *)
(***************************************************************************)
\* Escalations and commitments belong to rulings that exist.
LinkedIn(w) ==
    /\ \A e \in EscalationIds : w.escalations[e] # NoEscalation => w.rulings[e[2]] \in Ruling
    /\ \A r \in RulingIds : w.commitments[r] # NoCommitment => w.rulings[r] \in Ruling

\* One proposal has at one gate at most one ruling that is issued or consumed.
OneUsableIn(w) ==
    \A q, r \in RulingIds :
        /\ w.rulings[q].status \in {"issued", "consumed"}
        /\ w.rulings[r].status \in {"issued", "consumed"}
        /\ w.rulings[q].proposal = w.rulings[r].proposal
        /\ w.rulings[q].gate = w.rulings[r].gate
        => q = r

Sound(w) ==
    /\ w \in World
    /\ LinkedIn(w)
    /\ CurrentIn(w)
    /\ UsedOnceIn(w)
    /\ CapacityIn(w)
    /\ RoutedIn(w)
    /\ OneRevisionIn(w)
    /\ OneUsableIn(w)

\* The inductive invariant.
Inv == Sound(world) /\ now \in Nat /\ reloads \in Nat

-----------------------------------------------------------------------------
\* A step that adds to a counter never carries it over the ceiling of the
\* mandate's current version.
CeilingKept ==
    [][\A m \in Mandates, c \in Counters :
        CounterValue(world', m, c, now') > CounterValue(world, m, c, now) =>
            CounterValue(world', m, c, now') <= world'.mandates[m].limits[c]]_vars

\* A step that records the pattern event which reaches a threshold leaves the
\* mandate out of force.
NarrowingTakesHold ==
    [][\A m \in Mandates :
        /\ \E x \in world'.patterns \ world.patterns : x.mandate = m
        /\ EscalationPatternRequiresNarrowing(world', m, now)
        => world'.mandates[m].status # "active"]_vars

\* Nothing leaves a terminal state, and no state is skipped on the way.
Before(order, from, to) == from = to \/ <<from, to>> \in order

LifecyclesIn(w, v) ==
    \A r \in RulingIds :
        /\ Before({"none"} \X {"issued"} \cup {"issued"} \X {"consumed", "invalidated", "expired"}
                    \cup {<<"none", "invalidated">>},
                  w.rulings[r].status, v.rulings[r].status)
        /\ Before({<<"none", "issued">>, <<"issued", "consumed">>, <<"issued", "expired">>},
                  w.nonces[r], v.nonces[r])
        /\ Before({<<"none", "reserved">>, <<"reserved", "settled">>, <<"reserved", "released">>,
                   <<"none", "released">>, <<"settled", "held">>, <<"held", "settled">>,
                   <<"held", "released">>, <<"settled", "released">>},
                  w.reservations[r], v.reservations[r])
        /\ Before({<<"none", "bound">>, <<"bound", "discharged">>, <<"bound", "unknown">>,
                   <<"unknown", "reconciled">>, <<"bound", "reconciled">>},
                  w.commitments[r].state, v.commitments[r].state)
        /\ \A kind \in {"ruling", "recovery"} :
             Before({<<"none", "open">>} \cup {"open"} \X {"disposed", "timed_out", "cancelled"},
                    w.escalations[<<kind, r>>].state, v.escalations[<<kind, r>>].state)

Lifecycles == [][LifecyclesIn(world, world')]_vars

\* The sweeper makes every lapse visible, so that no ruling stays issued and no
\* escalation stays open for good, whether or not anybody answers (ADR-001 section 8).
LapsesEnd ==
    /\ \A r \in RulingIds : r \in Issued(world) ~> r \notin Issued(world)
    /\ \A e \in EscalationIds : e \in Open(world) ~> e \notin Open(world)
=============================================================================
