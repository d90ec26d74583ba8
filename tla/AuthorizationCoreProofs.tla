----------------------- MODULE AuthorizationCoreProofs -----------------------
(***************************************************************************)
(* Proofs that the invariants of the authorization core hold for any       *)
(* number of mandates, proposals, rulings and policies, any ceilings and   *)
(* any deadlines.  Every group of operations keeps a world Sound (one      *)
(* lemma each); an action composes the groups; Inv is therefore inductive. *)
(* The sum CounterValue is never expanded: nothing proved here depends on  *)
(* how ceilings are counted.                                               *)
(***************************************************************************)
EXTENDS AuthorizationProperties, TLAPS

-----------------------------------------------------------------------------
(***************************************************************************)
(* Rulings that change their status.                                       *)
(***************************************************************************)
\* An issued ruling is a ruling record.
LEMMA IssuedIsRuling ==
    ASSUME NEW w \in World, NEW r \in Issued(w)
    PROVE  r \in RulingIds /\ w.rulings[r] \in Ruling /\ w.rulings[r].status = "issued"
BY DEF Issued, World, NoRuling

\* Setting the status of issued rulings changes nothing else.
LEMMA SetStatusFacts ==
    ASSUME NEW w \in World, NEW S \in SUBSET Issued(w),
           NEW status \in {"issued", "consumed", "invalidated", "expired"}
    PROVE  /\ SetStatus(w, S, status) \in [RulingIds -> Ruling \cup {NoRuling}]
           /\ \A r \in RulingIds \ S : SetStatus(w, S, status)[r] = w.rulings[r]
           /\ \A r \in S : SetStatus(w, S, status)[r].status = status
           /\ \A r \in RulingIds : w.rulings[r] \in Ruling =>
                LET old == w.rulings[r]
                    new == SetStatus(w, S, status)[r]
                IN  /\ new \in Ruling
                    /\ new.gate = old.gate /\ new.verdict = old.verdict
                    /\ new.proposal = old.proposal /\ new.mandate = old.mandate
                    /\ new.version = old.version /\ new.selection = old.selection
                    /\ new.policy = old.policy
<1>1. \A r \in S : r \in RulingIds /\ w.rulings[r] \in Ruling BY IssuedIsRuling
<1>2. ASSUME NEW r \in RulingIds, w.rulings[r] \in Ruling
      PROVE  LET old == w.rulings[r]
                 new == [w.rulings[r] EXCEPT !.status = status]
             IN  /\ new \in Ruling /\ new.status = status
                 /\ new.gate = old.gate /\ new.verdict = old.verdict
                 /\ new.proposal = old.proposal /\ new.mandate = old.mandate
                 /\ new.version = old.version /\ new.selection = old.selection
                 /\ new.policy = old.policy
  BY <1>2 DEF Ruling
<1> QED BY <1>1, <1>2 DEF SetStatus, World

\* Ending issued rulings, by invalidation or expiry, with the release of what
\* they reserved keeps a world sound.
LEMMA EndSound ==
    ASSUME NEW w, Sound(w), NEW v \in World,
           NEW S \in SUBSET Issued(w), NEW status \in {"invalidated", "expired"},
           v.rulings = SetStatus(w, S, status),
           v.reservations = ReleaseReserved(w, S),
           \A r \in RulingIds : v.nonces[r] = w.nonces[r] \/ (r \in S /\ v.nonces[r] = "expired"),
           v.policy = w.policy, v.mandates = w.mandates, v.selection = w.selection,
           v.escalations = w.escalations, v.commitments = w.commitments
    PROVE  Sound(v) /\ Issued(v) = Issued(w) \ S
<1>1. w \in World BY DEF Sound
<1> DEFINE f == SetStatus(w, S, status)
<1>2. /\ \A r \in RulingIds \ S : f[r] = w.rulings[r]
      /\ \A r \in S : f[r].status = status
      /\ \A r \in RulingIds : w.rulings[r] \in Ruling =>
            /\ f[r] \in Ruling
            /\ f[r].gate = w.rulings[r].gate /\ f[r].verdict = w.rulings[r].verdict
            /\ f[r].proposal = w.rulings[r].proposal /\ f[r].mandate = w.rulings[r].mandate
            /\ f[r].version = w.rulings[r].version /\ f[r].selection = w.rulings[r].selection
            /\ f[r].policy = w.rulings[r].policy
  BY <1>1, SetStatusFacts
<1>3. v.rulings = f OBVIOUS
<1> HIDE DEF f
<1>4. \A r \in S : r \in RulingIds /\ w.rulings[r] \in Ruling /\ w.rulings[r].status = "issued"
  BY <1>1, IssuedIsRuling
<1>5. Issued(v) = Issued(w) \ S BY <1>2, <1>3, <1>4 DEF Issued
<1>6. \A r \in Issued(v) : v.rulings[r] = w.rulings[r] /\ r \in Issued(w) /\ r \in RulingIds
  BY <1>2, <1>3, <1>5 DEF Issued
<1>7. LinkedIn(v) BY <1>2, <1>3 DEF Sound, LinkedIn, EscalationIds
<1>8. CurrentIn(v) BY <1>6 DEF Sound, CurrentIn
<1>9. UsedOnceIn(v) BY <1>2, <1>3, <1>4 DEF Sound, UsedOnceIn
<1>10. CapacityIn(v) BY <1>2, <1>3, <1>4 DEF Sound, CapacityIn, ReleaseReserved, UsedOnceIn
<1>11. RoutedIn(v) BY DEF Sound, RoutedIn
<1>12. OneRevisionIn(v) BY <1>6 DEF Sound, OneRevisionIn
<1>13. OneUsableIn(v)
  <2>1. \A r \in RulingIds : v.rulings[r].status \in {"issued", "consumed"} => r \notin S BY <1>2, <1>3
  <2> QED BY <1>2, <1>3, <2>1 DEF Sound, OneUsableIn
<1> QED BY <1>5, <1>7, <1>8, <1>9, <1>10, <1>11, <1>12, <1>13 DEF Sound

LEMMA InvalidateSound ==
    ASSUME NEW w, Sound(w), NEW S
    PROVE  Sound(Invalidate(w, S)) /\ Issued(Invalidate(w, S)) = Issued(w) \ S
<1> DEFINE T == S \cap Issued(w)
           v == Invalidate(w, S)
<1>1. w \in World /\ T \in SUBSET Issued(w) BY DEF Sound
<1>2. SetStatus(w, T, "invalidated") \in [RulingIds -> Ruling \cup {NoRuling}] BY <1>1, SetStatusFacts
<1>3. ReleaseReserved(w, T) \in [RulingIds -> ReservationStates]
  BY <1>1 DEF ReleaseReserved, World, ReservationStates
<1>4. v \in World BY <1>1, <1>2, <1>3 DEF Invalidate, World
<1>5. /\ v.rulings = SetStatus(w, T, "invalidated")
      /\ v.reservations = ReleaseReserved(w, T)
      /\ v.nonces = w.nonces /\ v.policy = w.policy /\ v.mandates = w.mandates
      /\ v.selection = w.selection /\ v.escalations = w.escalations /\ v.commitments = w.commitments
  BY <1>1 DEF Invalidate, World
<1>6. Sound(v) /\ Issued(v) = Issued(w) \ T
  <2> HIDE DEF v, T
  <2> QED BY <1>1, <1>4, <1>5, EndSound
<1> QED BY <1>6

\* Invalidation leaves everything but rulings and reservations alone.
LEMMA InvalidateFrame ==
    ASSUME NEW w \in World, NEW S
    PROVE  LET v == Invalidate(w, S)
           IN  /\ v.nonces = w.nonces /\ v.policy = w.policy /\ v.mandates = w.mandates
               /\ v.selection = w.selection /\ v.escalations = w.escalations
               /\ v.commitments = w.commitments /\ v.frozen = w.frozen /\ v.patterns = w.patterns
               /\ \A r \in RulingIds : /\ w.rulings[r] \in Ruling => v.rulings[r] \in Ruling
                                       /\ v.rulings[r].status = "none" <=> w.rulings[r].status = "none"
                                       /\ v.rulings[r].status = "consumed" <=> w.rulings[r].status = "consumed"
                                       /\ r \notin Issued(w) \cap S => v.rulings[r] = w.rulings[r]
                                       /\ w.rulings[r] \in Ruling => v.rulings[r].mandate = w.rulings[r].mandate
                                       /\ w.rulings[r] \in Ruling => v.rulings[r].proposal = w.rulings[r].proposal
                                       /\ w.rulings[r] \in Ruling => v.rulings[r].gate = w.rulings[r].gate
<1> DEFINE T == S \cap Issued(w)
           f == SetStatus(w, T, "invalidated")
<1>1. T \in SUBSET Issued(w) OBVIOUS
<1>2. /\ \A r \in RulingIds \ T : f[r] = w.rulings[r]
      /\ \A r \in T : f[r].status = "invalidated"
      /\ \A r \in RulingIds : w.rulings[r] \in Ruling =>
            /\ f[r] \in Ruling
            /\ f[r].gate = w.rulings[r].gate
            /\ f[r].proposal = w.rulings[r].proposal /\ f[r].mandate = w.rulings[r].mandate
  BY <1>1, SetStatusFacts
<1>3. \A r \in T : r \in RulingIds /\ w.rulings[r] \in Ruling /\ w.rulings[r].status = "issued"
  BY IssuedIsRuling
<1>4. Invalidate(w, S).rulings = f BY DEF Invalidate, World
<1>5. /\ Invalidate(w, S).nonces = w.nonces /\ Invalidate(w, S).policy = w.policy
      /\ Invalidate(w, S).mandates = w.mandates
      /\ Invalidate(w, S).selection = w.selection /\ Invalidate(w, S).escalations = w.escalations
      /\ Invalidate(w, S).commitments = w.commitments /\ Invalidate(w, S).frozen = w.frozen
      /\ Invalidate(w, S).patterns = w.patterns
  BY DEF Invalidate, World
<1> HIDE DEF f, T
<1>6. \A r \in RulingIds : r \notin Issued(w) \cap S => r \in RulingIds \ T BY DEF T
<1> QED BY <1>2, <1>3, <1>4, <1>5, <1>6

LEMMA ExpireRulingsSound ==
    ASSUME NEW w, Sound(w), NEW S
    PROVE  Sound(ExpireRulings(w, S)) /\ Issued(ExpireRulings(w, S)) = Issued(w) \ S
<1> DEFINE T == S \cap Issued(w)
           v == ExpireRulings(w, S)
<1>1. w \in World /\ T \in SUBSET Issued(w) BY DEF Sound
<1>2. SetStatus(w, T, "expired") \in [RulingIds -> Ruling \cup {NoRuling}] BY <1>1, SetStatusFacts
<1>3. ReleaseReserved(w, T) \in [RulingIds -> ReservationStates]
  BY <1>1 DEF ReleaseReserved, World, ReservationStates
<1>4. v \in World BY <1>1, <1>2, <1>3 DEF ExpireRulings, World
<1>5. /\ v.rulings = SetStatus(w, T, "expired")
      /\ v.reservations = ReleaseReserved(w, T)
      /\ v.nonces = w.nonces /\ v.policy = w.policy /\ v.mandates = w.mandates
      /\ v.selection = w.selection /\ v.escalations = w.escalations /\ v.commitments = w.commitments
  BY <1>1 DEF ExpireRulings, World
<1>6. Sound(v) /\ Issued(v) = Issued(w) \ T
  <2> HIDE DEF v, T
  <2> QED BY <1>1, <1>4, <1>5, EndSound
<1> QED BY <1>6

LEMMA ExpireSound ==
    ASSUME NEW w, Sound(w), NEW S
    PROVE  Sound(Expire(w, S)) /\ Issued(Expire(w, S)) = Issued(w) \ S
<1> DEFINE T == S \cap Issued(w)
           v == Expire(w, S)
           u == ExpireRulings(w, S)
<1>1. w \in World /\ T \in SUBSET Issued(w) BY DEF Sound
<1>2. u \in World BY ExpireRulingsSound DEF Sound
<1>3. v \in World BY <1>2 DEF Expire, ExpireNonces, World
<1>4. /\ v.rulings = SetStatus(w, T, "expired")
      /\ v.reservations = ReleaseReserved(w, T)
      /\ v.policy = w.policy /\ v.mandates = w.mandates
      /\ v.selection = w.selection /\ v.escalations = w.escalations /\ v.commitments = w.commitments
      /\ \A r \in RulingIds : v.nonces[r] = w.nonces[r] \/ (r \in T /\ v.nonces[r] = "expired")
  BY <1>1 DEF Expire, ExpireNonces, ExpireRulings, World
<1>5. Sound(v) /\ Issued(v) = Issued(w) \ T
  <2> HIDE DEF v, T
  <2> QED BY <1>1, <1>3, <1>4, EndSound
<1> QED BY <1>5

-----------------------------------------------------------------------------
(***************************************************************************)
(* Patterns, escalations and mandates.                                     *)
(***************************************************************************)
\* Each invariant looks at some parts of the world only.
LEMMA SameRulings ==
    ASSUME NEW w, NEW v, v.rulings = w.rulings
    PROVE  /\ Issued(v) = Issued(w)
           /\ OneRevisionIn(w) => OneRevisionIn(v)
           /\ OneUsableIn(w) => OneUsableIn(v)
           /\ v.nonces = w.nonces /\ v.commitments = w.commitments /\ UsedOnceIn(w) => UsedOnceIn(v)
           /\ v.reservations = w.reservations /\ v.commitments = w.commitments /\ CapacityIn(w) => CapacityIn(v)
           /\ v.escalations = w.escalations /\ v.commitments = w.commitments /\ LinkedIn(w) => LinkedIn(v)
           /\ v.escalations = w.escalations /\ v.commitments = w.commitments /\ RoutedIn(w) => RoutedIn(v)
           /\ v.mandates = w.mandates /\ v.policy = w.policy /\ v.selection = w.selection /\ CurrentIn(w)
                => CurrentIn(v)
<1>1. Issued(v) = Issued(w) BY DEF Issued
<1>2. OneRevisionIn(w) => OneRevisionIn(v) BY <1>1 DEF OneRevisionIn
<1>3. OneUsableIn(w) => OneUsableIn(v) BY DEF OneUsableIn
<1>4. v.nonces = w.nonces /\ v.commitments = w.commitments /\ UsedOnceIn(w) => UsedOnceIn(v)
  BY DEF UsedOnceIn
<1>5. v.reservations = w.reservations /\ v.commitments = w.commitments /\ CapacityIn(w) => CapacityIn(v)
  BY DEF CapacityIn
<1>6. v.escalations = w.escalations /\ v.commitments = w.commitments /\ LinkedIn(w) => LinkedIn(v)
  BY DEF LinkedIn
<1>7. v.escalations = w.escalations /\ v.commitments = w.commitments /\ RoutedIn(w) => RoutedIn(v)
  BY DEF RoutedIn
<1>8. v.mandates = w.mandates /\ v.policy = w.policy /\ v.selection = w.selection /\ CurrentIn(w)
        => CurrentIn(v)
  BY <1>1 DEF CurrentIn
<1> QED BY <1>1, <1>2, <1>3, <1>4, <1>5, <1>6, <1>7, <1>8

LEMMA RecordPatternSound ==
    ASSUME NEW w, Sound(w), NEW kind \in {"escalation", "timeout", "override"},
           NEW e \in EscalationIds, NEW m \in Mandates, NEW t \in Nat
    PROVE  Sound(RecordPattern(w, kind, e, m, t))
<1> DEFINE v == RecordPattern(w, kind, e, m, t)
<1>1. w \in World BY DEF Sound
<1>2. [kind |-> kind, escalation |-> e, mandate |-> m, at |-> t] \in PatternEvent BY DEF PatternEvent
<1>3. v \in World BY <1>1, <1>2 DEF RecordPattern, World
<1>4. /\ v.rulings = w.rulings /\ v.reservations = w.reservations /\ v.nonces = w.nonces
      /\ v.policy = w.policy /\ v.mandates = w.mandates /\ v.selection = w.selection
      /\ v.escalations = w.escalations /\ v.commitments = w.commitments
  BY <1>1 DEF RecordPattern, World
<1>5. Sound(v)
  <2> HIDE DEF v
  <2> QED BY <1>3, <1>4, SameRulings DEF Sound
<1> QED BY <1>5

\* Replacing the escalations.
LEMMA EscalationsSound ==
    ASSUME NEW w, Sound(w), NEW f \in [EscalationIds -> Escalation \cup {NoEscalation}],
           \A e \in EscalationIds : f[e] # NoEscalation => w.rulings[e[2]] \in Ruling,
           \A r \in RulingIds :
                /\ w.commitments[r].state = "unknown" => f[<<"recovery", r>>].state # "none"
                /\ f[<<"recovery", r>>].state = "open" => w.commitments[r].state = "unknown"
    PROVE  Sound([w EXCEPT !.escalations = f])
<1> DEFINE v == [w EXCEPT !.escalations = f]
<1>1. w \in World BY DEF Sound
<1>2. v \in World BY <1>1 DEF World
<1>3. /\ v.rulings = w.rulings /\ v.reservations = w.reservations /\ v.nonces = w.nonces
      /\ v.policy = w.policy /\ v.mandates = w.mandates /\ v.selection = w.selection
      /\ v.escalations = f /\ v.commitments = w.commitments
  BY <1>1 DEF World
<1>4. LinkedIn(v) /\ RoutedIn(v)
  <2> HIDE DEF v
  <2> QED BY <1>3 DEF Sound, LinkedIn, RoutedIn
<1>5. Sound(v)
  <2> HIDE DEF v
  <2> QED BY <1>2, <1>3, <1>4, SameRulings DEF Sound
<1> QED BY <1>5

\* Replacing the mandates, as long as no issued allow or escalation depends on
\* one that changes.
LEMMA MandatesSound ==
    ASSUME NEW w, Sound(w), NEW f \in [Mandates -> Mandate \cup {NoMandate}],
           \A r \in Issued(w) : w.rulings[r].verdict # "deny" =>
                f[w.rulings[r].mandate] = w.mandates[w.rulings[r].mandate]
    PROVE  Sound([w EXCEPT !.mandates = f])
<1> DEFINE v == [w EXCEPT !.mandates = f]
<1>1. w \in World BY DEF Sound
<1>2. v \in World BY <1>1 DEF World
<1>3. /\ v.rulings = w.rulings /\ v.reservations = w.reservations /\ v.nonces = w.nonces
      /\ v.policy = w.policy /\ v.mandates = f /\ v.selection = w.selection
      /\ v.escalations = w.escalations /\ v.commitments = w.commitments
  BY <1>1 DEF World
<1>4. CurrentIn(v)
  <2> HIDE DEF v
  <2> QED BY <1>3 DEF Sound, CurrentIn, Issued
<1>5. Sound(v)
  <2> HIDE DEF v
  <2> QED BY <1>2, <1>3, <1>4, SameRulings DEF Sound
<1> QED BY <1>5

LEMMA CloseSound ==
    ASSUME NEW w, Sound(w), NEW e \in Open(w),
           NEW state \in {"disposed", "timed_out", "cancelled"},
           NEW d \in {"none", "allow-within-scope", "narrow-or-modify", "stop", "answer", "abstain"}
    PROVE  /\ Sound(Close(w, e, state, d))
           /\ Close(w, e, state, d).rulings = w.rulings
           /\ Close(w, e, state, d).mandates = w.mandates
           /\ Close(w, e, state, d).selection = w.selection
<1>1. w \in World /\ e \in EscalationIds /\ w.escalations[e].state = "open" BY DEF Sound, Open
<1>2. w.escalations[e] \in Escalation BY <1>1 DEF World, NoEscalation
<1> DEFINE x == [w.escalations[e] EXCEPT !.state = state, !.disposition = d]
           f == [w.escalations EXCEPT ![e] = x]
<1>3. x \in Escalation /\ x.state = state BY <1>2 DEF Escalation
<1>4. f \in [EscalationIds -> Escalation \cup {NoEscalation}] BY <1>1, <1>3 DEF World
<1>5. w.escalations[e] # NoEscalation BY <1>1 DEF NoEscalation
<1>6. \A i \in EscalationIds : f[i] # NoEscalation => w.rulings[i[2]] \in Ruling
  BY <1>1, <1>5 DEF Sound, LinkedIn, World
<1>7. \A r \in RulingIds :
        /\ w.commitments[r].state = "unknown" => f[<<"recovery", r>>].state # "none"
        /\ f[<<"recovery", r>>].state = "open" => w.commitments[r].state = "unknown"
  <2>1. \A i \in EscalationIds : f[i].state = (IF i = e THEN state ELSE w.escalations[i].state)
    <3> HIDE DEF x
    <3> QED BY <1>1, <1>3 DEF World
  <2>2. \A r \in RulingIds : <<"recovery", r>> \in EscalationIds BY DEF EscalationIds
  <2> HIDE DEF f
  <2> QED BY <1>1, <2>1, <2>2 DEF Sound, RoutedIn
<1>8. Close(w, e, state, d) = [w EXCEPT !.escalations = f] BY DEF Close
<1>9. Sound([w EXCEPT !.escalations = f])
  <2> HIDE DEF f
  <2> QED BY <1>4, <1>6, <1>7, EscalationsSound
<1> QED BY <1>1, <1>8, <1>9 DEF World

\* Narrowing ends the issued rulings of the mandate before it suspends it.
LEMMA PatternNarrowingSound ==
    ASSUME NEW w, Sound(w), NEW m \in Mandates, NEW t
    PROVE  Sound(PatternNarrowing(w, m, t))
<1>1. CASE ~NarrowingDue(w, m, t) BY <1>1 DEF PatternNarrowing
<1>2. CASE NarrowingDue(w, m, t)
  <2> DEFINE v == Invalidate(w, IssuedUnder(w, m))
             x == [v.mandates[m] EXCEPT !.version = @ + 1, !.record = "suspended", !.status = "suspended"]
             f == [v.mandates EXCEPT ![m] = x]
  <2>1. w \in World BY DEF Sound
  <2>2. v.mandates = w.mandates BY <2>1, InvalidateFrame
  <2>3. v \in World /\ Sound(v) /\ Issued(v) = Issued(w) \ IssuedUnder(w, m)
    BY InvalidateSound DEF Sound
  <2>4. w.mandates[m] \in Mandate BY <1>2, <2>1 DEF NarrowingDue, World, NoMandate
  <2>5. x \in Mandate
    <3>1. v.mandates[m] \in Mandate BY <2>2, <2>4
    <3> HIDE DEF v
    <3>2. v.mandates[m].version + 1 \in Nat BY <3>1 DEF Mandate
    <3> QED BY <3>1, <3>2 DEF Mandate
  <2>6. f \in [Mandates -> Mandate \cup {NoMandate}] BY <2>3, <2>5 DEF World
  <2>7. \A r \in Issued(v) : v.rulings[r].mandate # m
    <3>1. \A r \in Issued(v) : r \in Issued(w) \ IssuedUnder(w, m) /\ r \in RulingIds
      BY <2>3 DEF Issued
    <3>2. \A r \in Issued(v) : v.rulings[r] = w.rulings[r] BY <2>1, <3>1, InvalidateFrame
    <3> QED BY <3>1, <3>2 DEF IssuedUnder
  <2>8. \A r \in Issued(v) : v.rulings[r].verdict # "deny" =>
            f[v.rulings[r].mandate] = v.mandates[v.rulings[r].mandate]
    <3>1. \A r \in Issued(v) : v.rulings[r].mandate \in Mandates
      BY <2>3, IssuedIsRuling DEF Ruling
    <3> QED BY <2>3, <2>7, <3>1 DEF World
  <2>9. Suspend(v, m) = [v EXCEPT !.mandates = f] BY <2>3 DEF Suspend
  <2>10. Sound([v EXCEPT !.mandates = f])
    <3> HIDE DEF f, v
    <3> QED BY <2>3, <2>6, <2>8, MandatesSound
  <2> QED BY <1>2, <2>9, <2>10 DEF PatternNarrowing
<1> QED BY <1>1, <1>2

-----------------------------------------------------------------------------
(***************************************************************************)
(* Rulings that are issued.                                                *)
(***************************************************************************)
LEMMA NextRulingFree ==
    ASSUME NEW w, Unused(w) # {}
    PROVE  NextRuling(w) \in RulingIds /\ w.rulings[NextRuling(w)].status = "none"
BY DEF NextRuling, Unused

\* A proposal that can be frozen is bound to the current selection.
LEMMA FreezableSelection ==
    ASSUME NEW w \in World, NEW p \in Proposals, Freezable(w, p)
    PROVE  SelectionOf(w, p) = w.selection /\ w.selection \in Selection
BY DEF Freezable, SelectionOf, World

LEMMA IssueRulingSound ==
    ASSUME NEW w, Sound(w), NEW p \in Proposals, NEW g \in Gates,
           NEW outcome \in {"allow", "deny", "default", "ceiling", "dialogue"},
           now \in Nat,
           Freezable(w, p),
           Unused(w) # {},
           outcome # "deny" => ~AuthorityDefect(w, p),
           \A r \in Matching(w, p, g) : w.rulings[r].status \notin {"issued", "consumed"},
           \A r \in Issued(w) : w.rulings[r].proposal.action = p.action => w.rulings[r].proposal = p
    PROVE  LET v == IssueRuling(w, p, g, outcome)
               r == NextRuling(w)
           IN  /\ Sound(v)
               /\ r \in RulingIds
               /\ v.rulings[r] \in Ruling
               /\ v.escalations = w.escalations
               /\ \A q \in RulingIds : w.rulings[q].status # "none" => v.rulings[q] = w.rulings[q]
<1> DEFINE r == NextRuling(w)
           s == w.selection
           v == IssueRuling(w, p, g, outcome)
           reserve == IF Reserves(w, p, g, outcome) THEN "reserved" ELSE "none"
           x == [status |-> "issued", gate |-> g, verdict |-> Verdict(outcome),
                 proposal |-> p, mandate |-> s.mandate, version |-> s.version,
                 selection |-> s.id, policy |-> w.policy,
                 issuedAt |-> now, notAfter |-> NotAfter(w, p, outcome), successor |-> 0]
<1>1. w \in World BY DEF Sound
<1>2. r \in RulingIds /\ w.rulings[r].status = "none" BY NextRulingFree
<1>3. SelectionOf(w, p) = s /\ s \in Selection BY <1>1, FreezableSelection
<1>4. s.id \in Nat /\ s.mandate \in Mandates /\ s.version \in Nat BY <1>3 DEF Selection
<1>5. outcome # "deny" =>
        /\ w.mandates[s.mandate] \in Mandate
        /\ w.mandates[s.mandate].status = "active"
        /\ w.mandates[s.mandate].version = s.version
  BY <1>1, <1>3, <1>4 DEF AuthorityDefect, World, NoMandate
<1>6. NotAfter(w, p, outcome) \in Nat
  BY <1>3, <1>5, WorldAssumption DEF NotAfter, Earliest, Mandate
<1>7. Verdict(outcome) \in {"allow", "deny", "escalate"} /\ (outcome = "deny" <=> Verdict(outcome) = "deny")
  BY DEF Verdict
<1>8. x \in Ruling
  <2>1. w.policy \in Policies BY <1>1 DEF World
  <2> QED BY <1>4, <1>6, <1>7, <2>1 DEF Ruling
<1>9. reserve \in {"reserved", "none"} /\ (reserve = "reserved" => g = "commit")
  BY DEF Reserves
<1>10. v = [w EXCEPT !.frozen[p] = s, !.nonces[r] = "issued", !.reservations[r] = reserve, !.rulings[r] = x]
  BY <1>3 DEF IssueRuling
<1> HIDE DEF r, x, reserve
<1>11. v \in World
  <2>1. [w.frozen EXCEPT ![p] = s] \in [Proposals -> Selection \cup {NoSelection}] BY <1>1, <1>3 DEF World
  <2>2. [w.nonces EXCEPT ![r] = "issued"] \in [RulingIds -> {"none", "issued", "consumed", "expired"}]
    BY <1>1 DEF World
  <2>3. [w.reservations EXCEPT ![r] = reserve] \in [RulingIds -> ReservationStates]
    BY <1>1, <1>9 DEF World, ReservationStates
  <2>4. [w.rulings EXCEPT ![r] = x] \in [RulingIds -> Ruling \cup {NoRuling}] BY <1>1, <1>8 DEF World
  <2>5. v = [w EXCEPT !.frozen = [w.frozen EXCEPT ![p] = s], !.nonces = [w.nonces EXCEPT ![r] = "issued"],
                      !.reservations = [w.reservations EXCEPT ![r] = reserve],
                      !.rulings = [w.rulings EXCEPT ![r] = x]]
    BY <1>10
  <2> HIDE DEF v
  <2> QED BY <1>1, <2>1, <2>2, <2>3, <2>4, <2>5 DEF World
<1>12. /\ v.rulings = [w.rulings EXCEPT ![r] = x]
       /\ v.nonces = [w.nonces EXCEPT ![r] = "issued"]
       /\ v.reservations = [w.reservations EXCEPT ![r] = reserve]
       /\ v.policy = w.policy /\ v.mandates = w.mandates /\ v.selection = w.selection
       /\ v.escalations = w.escalations /\ v.commitments = w.commitments
  BY <1>1, <1>10 DEF World
<1>13. /\ x.status = "issued" /\ x.gate = g /\ x.proposal = p /\ x.verdict = Verdict(outcome)
       /\ x.mandate = s.mandate /\ x.version = s.version /\ x.selection = s.id /\ x.policy = w.policy
  BY DEF x
<1>14. /\ v.rulings[r] = x /\ v.nonces[r] = "issued" /\ v.reservations[r] = reserve
       /\ \A q \in RulingIds \ {r} : /\ v.rulings[q] = w.rulings[q] /\ v.nonces[q] = w.nonces[q]
                                     /\ v.reservations[q] = w.reservations[q]
  BY <1>1, <1>2, <1>12 DEF World
<1> HIDE DEF v
<1>15. Issued(v) = Issued(w) \cup {r} BY <1>2, <1>13, <1>14 DEF Issued
<1>16. LinkedIn(v) BY <1>8, <1>12, <1>14 DEF Sound, LinkedIn, EscalationIds
<1>17. CurrentIn(v)
  <2>1. \A q \in Issued(w) : v.rulings[q] = w.rulings[q] BY <1>2, <1>14 DEF Issued
  <2> QED BY <1>5, <1>7, <1>12, <1>13, <1>14, <1>15, <2>1 DEF Sound, CurrentIn
<1>18. UsedOnceIn(v)
  BY <1>2, <1>12, <1>13, <1>14 DEF Sound, UsedOnceIn
<1>19. CapacityIn(v)
  BY <1>2, <1>9, <1>12, <1>13, <1>14 DEF Sound, CapacityIn, UsedOnceIn
<1>20. RoutedIn(v) BY <1>12 DEF Sound, RoutedIn
<1>21. \A q \in RulingIds : w.rulings[q].status \in {"issued", "consumed"} /\ w.rulings[q].gate = g
            => w.rulings[q].proposal # p
  BY DEF Matching
<1>22. OneRevisionIn(v)
  <2>1. \A q \in Issued(w) : v.rulings[q] = w.rulings[q] /\ w.rulings[q].status = "issued" /\ q \in RulingIds
    BY <1>2, <1>14 DEF Issued
  <2> QED BY <1>13, <1>14, <1>15, <1>21, <2>1 DEF Sound, OneRevisionIn
<1>23. OneUsableIn(v) BY <1>2, <1>13, <1>14, <1>21 DEF Sound, OneUsableIn
<1>24. Sound(v) BY <1>11, <1>16, <1>17, <1>18, <1>19, <1>20, <1>22, <1>23 DEF Sound
<1> QED BY <1>2, <1>8, <1>12, <1>14, <1>24 DEF v, r

LEMMA PatternNarrowingFrame ==
    ASSUME NEW w \in World, NEW m \in Mandates, NEW t
    PROVE  LET v == PatternNarrowing(w, m, t)
           IN  /\ v.escalations = w.escalations
               /\ \A r \in RulingIds : w.rulings[r] \in Ruling => v.rulings[r] \in Ruling
<1>1. CASE ~NarrowingDue(w, m, t) BY <1>1 DEF PatternNarrowing
<1>2. CASE NarrowingDue(w, m, t)
  <2> DEFINE u == Invalidate(w, IssuedUnder(w, m))
  <2>1. /\ u.escalations = w.escalations
        /\ \A r \in RulingIds : w.rulings[r] \in Ruling => u.rulings[r] \in Ruling
    BY InvalidateFrame
  <2>2. Suspend(u, m).escalations = u.escalations /\ Suspend(u, m).rulings = u.rulings
    BY DEF Suspend, Invalidate, World
  <2> QED BY <1>2, <2>1, <2>2 DEF PatternNarrowing
<1> QED BY <1>1, <1>2

\* What #buildRuling returns: a ruling of its own, everything else still there.
BuildKeeps(w, v, r) ==
    /\ Sound(v)
    /\ r \in RulingIds /\ v.rulings[r] \in Ruling
    /\ \A q \in RulingIds : w.rulings[q] \in Ruling => v.rulings[q] \in Ruling
    /\ \A e \in EscalationIds : w.escalations[e] # NoEscalation => v.escalations[e] = w.escalations[e]

LEMMA OpenEscalationSound ==
    ASSUME NEW w, Sound(w), NEW r \in RulingIds, NEW p \in Proposals, NEW contract \in Contracts,
           w.rulings[r] \in Ruling, now \in Nat
    PROVE  LET v == OpenEscalation(w, r, p, contract)
           IN  /\ Sound(v)
               /\ v.rulings = w.rulings
               /\ \A e \in EscalationIds \ {<<"ruling", r>>} : v.escalations[e] = w.escalations[e]
<1> DEFINE x == [state |-> "open", contract |-> contract, expiresAt |-> now + ResponseBound,
                 disposition |-> "none", latest |-> p.revision, successor |-> 0]
           f == [w.escalations EXCEPT ![<<"ruling", r>>] = x]
<1>1. w \in World BY DEF Sound
<1>2. now + ResponseBound \in Nat /\ p.revision \in Nat BY WorldAssumption
<1>3. x \in Escalation BY <1>2 DEF Escalation, Contracts
<1>4. <<"ruling", r>> \in EscalationIds /\ \A q \in RulingIds : <<"recovery", q>> \in EscalationIds
  BY DEF EscalationIds
<1>5. \A q \in RulingIds : <<"recovery", q>> # <<"ruling", r>> OBVIOUS
<1> HIDE DEF x
<1>6. f \in [EscalationIds -> Escalation \cup {NoEscalation}] BY <1>1, <1>3 DEF World
<1>7. \A e \in EscalationIds \ {<<"ruling", r>>} : f[e] = w.escalations[e] BY <1>1 DEF World
<1>8. OpenEscalation(w, r, p, contract) = [w EXCEPT !.escalations = f] BY DEF OpenEscalation, x
<1> HIDE DEF f
<1>9. \A e \in EscalationIds : f[e] # NoEscalation => w.rulings[e[2]] \in Ruling
  BY <1>7 DEF Sound, LinkedIn
<1>10. \A q \in RulingIds :
        /\ w.commitments[q].state = "unknown" => f[<<"recovery", q>>].state # "none"
        /\ f[<<"recovery", q>>].state = "open" => w.commitments[q].state = "unknown"
  BY <1>4, <1>5, <1>7 DEF Sound, RoutedIn
<1>11. Sound([w EXCEPT !.escalations = f]) BY <1>6, <1>9, <1>10, EscalationsSound
<1>12. [w EXCEPT !.escalations = f].rulings = w.rulings /\ [w EXCEPT !.escalations = f].escalations = f
  BY <1>1 DEF World
<1> QED BY <1>7, <1>8, <1>11, <1>12

LEMMA FreshRulingSound ==
    ASSUME NEW w, Sound(w), NEW p \in Proposals, NEW g \in Gates,
           NEW ev \in {"allow", "deny", "default", "ceiling", "dialogue"}, now \in Nat,
           Freezable(w, p), Unused(w) # {},
           \A r \in Matching(w, p, g) : w.rulings[r].status \notin {"issued", "consumed"}
    PROVE  BuildKeeps(w, FreshRuling(w, p, g, ev), NextRuling(w))
<1> DEFINE base == Invalidate(w, OtherRevisions(w, p))
           r == NextRuling(base)
           m == SelectionOf(base, p).mandate
           outcome == Outcome(base, p, ev)
           ruled == IssueRuling(base, p, g, outcome)
           opened == OpenEscalation(ruled, r, p, outcome)
           raised == RecordPattern(opened, "escalation", <<"ruling", r>>, m, now)
<1>1. w \in World BY DEF Sound
<1>2. Sound(base) /\ base \in World /\ Issued(base) = Issued(w) \ OtherRevisions(w, p)
  BY InvalidateSound DEF Sound
<1>3. /\ base.selection = w.selection /\ base.frozen = w.frozen /\ base.escalations = w.escalations
      /\ \A q \in RulingIds :
            /\ w.rulings[q] \in Ruling => /\ base.rulings[q] \in Ruling
                                          /\ base.rulings[q].proposal = w.rulings[q].proposal
                                          /\ base.rulings[q].gate = w.rulings[q].gate
            /\ base.rulings[q].status = "none" <=> w.rulings[q].status = "none"
            /\ base.rulings[q].status = "consumed" <=> w.rulings[q].status = "consumed"
            /\ q \notin Issued(w) \cap OtherRevisions(w, p) => base.rulings[q] = w.rulings[q]
  BY <1>1, InvalidateFrame
<1> HIDE DEF base
<1>4. Unused(base) = Unused(w) BY <1>3 DEF Unused
<1>5. r = NextRuling(w) /\ r \in RulingIds /\ w.rulings[r].status = "none"
  BY <1>4, NextRulingFree DEF NextRuling
<1>6. Freezable(base, p) BY <1>3 DEF Freezable
<1>7. m \in Mandates BY <1>2, <1>6, FreezableSelection DEF Selection
<1>8. outcome \in {"allow", "deny", "default", "ceiling", "dialogue"}
  BY DEF Outcome
<1>9. outcome # "deny" => ~AuthorityDefect(base, p) BY DEF Outcome
<1>10. \A q \in RulingIds : w.rulings[q].status # "none" => w.rulings[q] \in Ruling
  BY <1>1 DEF World, NoRuling
<1>11. \A q \in Matching(base, p, g) : base.rulings[q].status \notin {"issued", "consumed"}
  <2>1. \A q \in Matching(base, p, g) : q \in Matching(w, p, g) BY <1>3, <1>10 DEF Matching
  <2>2. \A q \in RulingIds : base.rulings[q].status = "issued" => q \in Issued(w) BY <1>2 DEF Issued
  <2> QED BY <1>3, <2>1, <2>2 DEF Matching, Issued
<1>12. \A q \in Issued(base) : base.rulings[q].proposal.action = p.action => base.rulings[q].proposal = p
  <2>1. \A q \in Issued(base) : q \in Issued(w) /\ q \notin OtherRevisions(w, p) /\ q \in RulingIds
    BY <1>2 DEF Issued
  <2> QED BY <1>3, <2>1 DEF OtherRevisions
<1> HIDE DEF r, m, outcome
<1>13. /\ Sound(ruled) /\ ruled.rulings[r] \in Ruling /\ ruled.escalations = base.escalations
       /\ \A q \in RulingIds : base.rulings[q].status # "none" => ruled.rulings[q] = base.rulings[q]
  BY <1>2, <1>4, <1>6, <1>8, <1>9, <1>11, <1>12, IssueRulingSound DEF r
<1> HIDE DEF ruled
<1>14. \A q \in RulingIds : w.rulings[q] \in Ruling => ruled.rulings[q] \in Ruling
  BY <1>3, <1>13 DEF Ruling
<1>15. \A e \in EscalationIds : w.escalations[e] # NoEscalation => e # <<"ruling", r>>
  <2>1. w.rulings[r] \notin Ruling BY <1>5 DEF Ruling
  <2> QED BY <2>1 DEF Sound, LinkedIn
<1>16. CASE outcome \notin Contracts
  <2>1. FreshRuling(w, p, g, ev) = ruled
    BY <1>16 DEF FreshRuling, base, outcome, ruled
  <2> QED BY <1>3, <1>5, <1>13, <1>14, <2>1 DEF BuildKeeps
<1>17. CASE outcome \in Contracts
  <2>1. /\ Sound(opened) /\ opened.rulings = ruled.rulings
        /\ \A e \in EscalationIds \ {<<"ruling", r>>} : opened.escalations[e] = ruled.escalations[e]
    BY <1>5, <1>13, <1>17, OpenEscalationSound
  <2> HIDE DEF opened
  <2>2. <<"ruling", r>> \in EscalationIds BY <1>5 DEF EscalationIds
  <2>3. Sound(raised) BY <1>7, <2>1, <2>2, RecordPatternSound
  <2>4. raised.rulings = opened.rulings /\ raised.escalations = opened.escalations
    BY <2>1 DEF RecordPattern, Sound, World
  <2> HIDE DEF raised
  <2>5. raised \in World BY <2>3 DEF Sound
  <2>6. Sound(PatternNarrowing(raised, m, now)) BY <1>7, <2>3, PatternNarrowingSound
  <2>7. /\ PatternNarrowing(raised, m, now).escalations = raised.escalations
        /\ \A q \in RulingIds : raised.rulings[q] \in Ruling => PatternNarrowing(raised, m, now).rulings[q] \in Ruling
    BY <1>7, <2>5, PatternNarrowingFrame
  <2>8. FreshRuling(w, p, g, ev) = PatternNarrowing(raised, m, now)
    BY <1>17 DEF FreshRuling, base, outcome, ruled, opened, raised, r, m
  <2> QED BY <1>3, <1>5, <1>13, <1>14, <1>15, <2>1, <2>4, <2>6, <2>7, <2>8 DEF BuildKeeps
<1> QED BY <1>16, <1>17

LEMMA BuildRulingSound ==
    ASSUME NEW w, Sound(w), NEW p \in Proposals, NEW g \in Gates,
           NEW ev \in {"allow", "deny", "default", "ceiling", "dialogue"}, now \in Nat,
           Rulable(w, p, g, ev)
    PROVE  BuildKeeps(w, BuildRuling(w, p, g, ev), BuiltRuling(w, p, g))
<1>1. CASE PriorIssued(w, p, g) # {}
  <2>1. BuiltRuling(w, p, g) \in Issued(w) BY <1>1 DEF BuiltRuling, PriorIssued
  <2>2. w \in World BY DEF Sound
  <2>3. BuiltRuling(w, p, g) \in RulingIds /\ w.rulings[BuiltRuling(w, p, g)] \in Ruling
    BY <2>1, <2>2, IssuedIsRuling
  <2> QED BY <1>1, <2>3 DEF BuildKeeps, BuildRuling
<1>2. CASE PriorIssued(w, p, g) = {}
  <2>1. /\ Freezable(w, p) /\ Unused(w) # {}
        /\ \A r \in Matching(w, p, g) : w.rulings[r].status \notin {"issued", "consumed"}
    BY <1>2 DEF Rulable, PriorIssued, Issued, Matching
  <2>2. BuildKeeps(w, FreshRuling(w, p, g, ev), NextRuling(w)) BY <2>1, FreshRulingSound
  <2> QED BY <1>2, <2>2 DEF BuildRuling, BuiltRuling
<1> QED BY <1>1, <1>2

-----------------------------------------------------------------------------
(***************************************************************************)
(* Commitments.                                                            *)
(***************************************************************************)
\* A ruling bound while it is issued, allows and is of the Commit gate.
LEMMA BindCommitmentSound ==
    ASSUME NEW w, Sound(w), NEW r \in Issued(w), NEW boot \in Boots,
           w.rulings[r].gate = "commit", w.rulings[r].verdict = "allow",
           w.reservations[r] = "reserved"
    PROVE  Sound(BindCommitment(w, r, boot))
<1> DEFINE v == BindCommitment(w, r, boot)
           f == SetStatus(w, {r}, "consumed")
           x == [state |-> "bound", outcome |-> "none", boot |-> boot]
<1>1. w \in World BY DEF Sound
<1>2. r \in RulingIds /\ w.rulings[r] \in Ruling /\ w.rulings[r].status = "issued" BY <1>1, IssuedIsRuling
<1>3. /\ f \in [RulingIds -> Ruling \cup {NoRuling}]
      /\ \A q \in RulingIds \ {r} : f[q] = w.rulings[q]
      /\ f[r].status = "consumed" /\ f[r] \in Ruling
      /\ f[r].gate = w.rulings[r].gate /\ f[r].verdict = w.rulings[r].verdict
      /\ f[r].proposal = w.rulings[r].proposal
  BY <1>1, <1>2, SetStatusFacts
<1> HIDE DEF f
<1>4. x \in Commitment /\ x.state = "bound" /\ x # NoCommitment BY DEF Commitment, NoCommitment
<1> HIDE DEF x
<1>5. v = [w EXCEPT !.nonces = [w.nonces EXCEPT ![r] = "consumed"],
                    !.reservations = [w.reservations EXCEPT ![r] = "settled"],
                    !.rulings = f,
                    !.commitments = [w.commitments EXCEPT ![r] = x]]
  BY DEF BindCommitment, f, x
<1>6. /\ [w.nonces EXCEPT ![r] = "consumed"] \in [RulingIds -> {"none", "issued", "consumed", "expired"}]
      /\ [w.reservations EXCEPT ![r] = "settled"] \in [RulingIds -> ReservationStates]
      /\ [w.commitments EXCEPT ![r] = x] \in [RulingIds -> Commitment \cup {NoCommitment}]
  BY <1>1, <1>4 DEF World, ReservationStates
<1> HIDE DEF v
<1>7. v \in World BY <1>1, <1>3, <1>5, <1>6 DEF World
<1>8. /\ v.rulings = f /\ v.policy = w.policy /\ v.mandates = w.mandates /\ v.selection = w.selection
      /\ v.escalations = w.escalations
      /\ v.nonces[r] = "consumed" /\ v.reservations[r] = "settled" /\ v.commitments[r] = x
      /\ \A q \in RulingIds \ {r} : /\ v.nonces[q] = w.nonces[q]
                                    /\ v.reservations[q] = w.reservations[q]
                                    /\ v.commitments[q] = w.commitments[q]
  BY <1>1, <1>2, <1>5 DEF World
<1>9. Issued(v) = Issued(w) \ {r} BY <1>3, <1>8 DEF Issued
<1>10. \A q \in Issued(v) : v.rulings[q] = w.rulings[q] /\ q \in Issued(w)
  BY <1>3, <1>8, <1>9 DEF Issued
<1>11. LinkedIn(v)
  <2>1. \A q \in RulingIds : w.rulings[q] \in Ruling => v.rulings[q] \in Ruling BY <1>3, <1>8
  <2> QED BY <1>2, <1>8, <2>1 DEF Sound, LinkedIn, EscalationIds
<1>12. CurrentIn(v) BY <1>8, <1>10 DEF Sound, CurrentIn
<1>13. UsedOnceIn(v) BY <1>3, <1>4, <1>8 DEF Sound, UsedOnceIn
<1>14. CapacityIn(v) BY <1>3, <1>4, <1>8 DEF Sound, CapacityIn
<1>15. RoutedIn(v)
  <2>1. w.commitments[r].state = "none" BY <1>2 DEF Sound, UsedOnceIn
  <2> QED BY <1>4, <1>8, <2>1 DEF Sound, RoutedIn
<1>16. OneRevisionIn(v) BY <1>10 DEF Sound, OneRevisionIn
<1>17. OneUsableIn(v) BY <1>2, <1>3, <1>8 DEF Sound, OneUsableIn
<1>18. Sound(v) BY <1>7, <1>11, <1>12, <1>13, <1>14, <1>15, <1>16, <1>17 DEF Sound
<1> QED BY <1>18 DEF v

\* Replacing one commitment, its reservation and the escalations.
LEMMA CommitmentSound ==
    ASSUME NEW w, Sound(w), NEW r \in RulingIds, w.commitments[r] \in Commitment,
           NEW c \in Commitment, NEW capacity \in ReservationStates,
           NEW f \in [EscalationIds -> Escalation \cup {NoEscalation}],
           \A e \in EscalationIds \ {<<"recovery", r>>} : f[e] = w.escalations[e],
           c.state = "unknown" => f[<<"recovery", r>>].state # "none",
           f[<<"recovery", r>>].state = "open" => c.state = "unknown",
           LET noEffect == c.state = "reconciled" /\ c.outcome = "no-effect"
           IN  /\ capacity # "none" /\ capacity # "reserved"
               /\ capacity = "settled" => c.state \in {"bound", "discharged", "reconciled"} /\ ~noEffect
               /\ capacity = "held" => c.state = "unknown"
               /\ capacity = "released" => noEffect
    PROVE  Sound([w EXCEPT !.commitments = [w.commitments EXCEPT ![r] = c],
                           !.reservations = [w.reservations EXCEPT ![r] = capacity],
                           !.escalations = f])
<1> DEFINE v == [w EXCEPT !.commitments = [w.commitments EXCEPT ![r] = c],
                          !.reservations = [w.reservations EXCEPT ![r] = capacity],
                          !.escalations = f]
<1>1. w \in World BY DEF Sound
<1>2. /\ [w.commitments EXCEPT ![r] = c] \in [RulingIds -> Commitment \cup {NoCommitment}]
      /\ [w.reservations EXCEPT ![r] = capacity] \in [RulingIds -> ReservationStates]
  BY <1>1 DEF World
<1>3. v \in World BY <1>1, <1>2 DEF World
<1>4. /\ v.rulings = w.rulings /\ v.nonces = w.nonces /\ v.policy = w.policy
      /\ v.mandates = w.mandates /\ v.selection = w.selection /\ v.escalations = f
      /\ v.commitments[r] = c /\ v.reservations[r] = capacity
      /\ \A q \in RulingIds \ {r} : /\ v.commitments[q] = w.commitments[q]
                                    /\ v.reservations[q] = w.reservations[q]
  BY <1>1 DEF World
<1> HIDE DEF v
<1>5. w.commitments[r].state # "none" /\ c.state # "none" /\ w.commitments[r] # NoCommitment
  BY DEF Commitment, NoCommitment
<1>6. w.rulings[r] \in Ruling BY <1>5 DEF Sound, LinkedIn
<1>7. \A e \in EscalationIds : e # <<"recovery", r>> => f[e] = w.escalations[e] OBVIOUS
<1>8. LinkedIn(v)
  <2>1. \A e \in EscalationIds : v.escalations[e] # NoEscalation => v.rulings[e[2]] \in Ruling
    BY <1>4, <1>6, <1>7 DEF Sound, LinkedIn
  <2>2. \A q \in RulingIds : v.commitments[q] # NoCommitment => v.rulings[q] \in Ruling
    BY <1>4, <1>6 DEF Sound, LinkedIn
  <2> QED BY <2>1, <2>2 DEF LinkedIn
<1>9. UsedOnceIn(v) BY <1>4, <1>5 DEF Sound, UsedOnceIn
<1>10. CapacityIn(v) BY <1>4 DEF Sound, CapacityIn
<1>11. RoutedIn(v)
  <2>1. \A q \in RulingIds \ {r} : <<"recovery", q>> \in EscalationIds \ {<<"recovery", r>>}
    BY DEF EscalationIds
  <2> QED BY <1>4, <2>1 DEF Sound, RoutedIn
<1>12. Sound(v) BY <1>3, <1>4, <1>8, <1>9, <1>10, <1>11, SameRulings DEF Sound
<1> QED BY <1>12 DEF v

\* A pending commitment holds settled or held capacity, never released capacity.
LEMMA PendingFacts ==
    ASSUME NEW w, Sound(w), NEW r \in RulingIds, w.commitments[r].state \in {"bound", "unknown"}
    PROVE  /\ w.commitments[r] \in Commitment /\ w.rulings[r] \in Ruling
           /\ w.commitments[r].state = "bound" => w.reservations[r] = "settled"
           /\ w.commitments[r].state = "unknown" => w.reservations[r] = "held"
           /\ <<"recovery", r>> \in EscalationIds
           /\ w.escalations[<<"recovery", r>>].state = "open" => w.commitments[r].state = "unknown"
           /\ w.commitments[r].state = "unknown" => w.escalations[<<"recovery", r>>].state # "none"
<1>1. w.commitments[r] \in Commitment BY DEF Sound, World, NoCommitment
<1>2. w.commitments[r] # NoCommitment BY DEF NoCommitment
<1>3. w.rulings[r] \in Ruling BY <1>2 DEF Sound, LinkedIn
<1>4. w.rulings[r].status = "consumed" BY DEF Sound, UsedOnceIn
<1>5. w.reservations[r] \in ReservationStates BY DEF Sound, World
<1>6. /\ w.commitments[r].state = "bound" => w.reservations[r] = "settled"
      /\ w.commitments[r].state = "unknown" => w.reservations[r] = "held"
  BY <1>4, <1>5 DEF Sound, CapacityIn, ReservationStates
<1>7. <<"recovery", r>> \in EscalationIds BY DEF EscalationIds
<1>8. /\ w.escalations[<<"recovery", r>>].state = "open" => w.commitments[r].state = "unknown"
      /\ w.commitments[r].state = "unknown" => w.escalations[<<"recovery", r>>].state # "none"
  BY DEF Sound, RoutedIn
<1> QED BY <1>1, <1>3, <1>6, <1>7, <1>8

LEMMA HoldSound ==
    ASSUME NEW w, Sound(w), NEW r \in RulingIds, w.commitments[r].state = "bound", now \in Nat
    PROVE  Sound(HoldForReconciliation(w, r, now))
<1> DEFINE c == [w.commitments[r] EXCEPT !.state = "unknown"]
           x == [state |-> "open", contract |-> "recovery", expiresAt |-> now + ResponseBound,
                 disposition |-> "none", latest |-> 0, successor |-> 0]
           f == [w.escalations EXCEPT ![<<"recovery", r>>] = x]
<1>1. w \in World BY DEF Sound
<1>2. w.commitments[r] \in Commitment /\ w.reservations[r] = "settled" /\ <<"recovery", r>> \in EscalationIds
  BY PendingFacts
<1>3. c \in Commitment /\ c.state = "unknown" BY <1>2 DEF Commitment
<1>4. now + ResponseBound \in Nat BY WorldAssumption
<1>5. x \in Escalation /\ x.state = "open" BY <1>4 DEF Escalation
<1> HIDE DEF x
<1>6. /\ f \in [EscalationIds -> Escalation \cup {NoEscalation}]
      /\ f[<<"recovery", r>>] = x
      /\ \A e \in EscalationIds \ {<<"recovery", r>>} : f[e] = w.escalations[e]
  BY <1>1, <1>2, <1>5 DEF World
<1>7. HoldForReconciliation(w, r, now)
        = [w EXCEPT !.commitments = [w.commitments EXCEPT ![r] = c],
                    !.reservations = [w.reservations EXCEPT ![r] = "held"],
                    !.escalations = f]
  BY <1>1, <1>2 DEF HoldForReconciliation, x, World
<1> HIDE DEF c, f
<1>8. "held" \in ReservationStates BY DEF ReservationStates
<1>9. Sound([w EXCEPT !.commitments = [w.commitments EXCEPT ![r] = c],
                      !.reservations = [w.reservations EXCEPT ![r] = "held"],
                      !.escalations = f])
  BY <1>2, <1>3, <1>5, <1>6, <1>8, CommitmentSound
<1> QED BY <1>7, <1>9

\* The commitment reaches a final state and its recovery escalation, if open,
\* is cancelled.
LEMMA ReconcileSound ==
    ASSUME NEW w, Sound(w), NEW r \in RulingIds, w.commitments[r].state \in {"bound", "unknown"},
           NEW outcome \in {"success", "failed", "no-effect"}, NEW capacity \in {"settled", "released"},
           outcome = "no-effect" <=> capacity = "released"
    PROVE  Sound(CancelRecovery(Resolve(w, r, "reconciled", outcome, capacity), r))
<1> DEFINE c == [w.commitments[r] EXCEPT !.state = "reconciled", !.outcome = outcome]
           u == Resolve(w, r, "reconciled", outcome, capacity)
           e == <<"recovery", r>>
           x == [w.escalations[e] EXCEPT !.state = "cancelled"]
           f == IF e \in Open(w) THEN [w.escalations EXCEPT ![e] = x] ELSE w.escalations
<1>1. w \in World BY DEF Sound
<1>2. w.commitments[r] \in Commitment /\ w.reservations[r] \in {"settled", "held"} /\ e \in EscalationIds
  BY PendingFacts
<1>3. c \in Commitment /\ c.state = "reconciled" /\ c.outcome = outcome BY <1>2 DEF Commitment
<1>4. u = [w EXCEPT !.commitments = [w.commitments EXCEPT ![r] = c],
                    !.reservations = [w.reservations EXCEPT ![r] = capacity]]
  BY <1>1, <1>2 DEF Resolve, World
<1>5. e \in Open(u) <=> e \in Open(w) BY <1>1, <1>4 DEF Open, World
<1>6. CancelRecovery(u, r)
        = [w EXCEPT !.commitments = [w.commitments EXCEPT ![r] = c],
                    !.reservations = [w.reservations EXCEPT ![r] = capacity],
                    !.escalations = f]
  <2>1. CASE e \in Open(w)
    <3>1. CancelRecovery(u, r) = [u EXCEPT !.escalations[e].state = "cancelled"]
      BY <1>5, <2>1 DEF CancelRecovery
    <3> HIDE DEF c
    <3> QED BY <1>1, <1>4, <2>1, <3>1 DEF World
  <2>2. CASE e \notin Open(w)
    <3>1. CancelRecovery(u, r) = u BY <1>5, <2>2 DEF CancelRecovery
    <3> HIDE DEF c
    <3> QED BY <1>1, <1>4, <2>2, <3>1 DEF World
  <2> QED BY <2>1, <2>2
<1>7. /\ f \in [EscalationIds -> Escalation \cup {NoEscalation}]
      /\ f[e].state # "open"
      /\ \A i \in EscalationIds \ {e} : f[i] = w.escalations[i]
  <2>1. CASE e \in Open(w)
    <3>1. w.escalations[e] \in Escalation BY <1>1, <2>1 DEF Open, World, NoEscalation
    <3>2. x \in Escalation /\ x.state = "cancelled" BY <3>1 DEF Escalation
    <3> HIDE DEF x
    <3> QED BY <1>1, <1>2, <2>1, <3>2 DEF World
  <2>2. CASE e \notin Open(w) BY <1>1, <1>2, <2>2 DEF World, Open
  <2> QED BY <2>1, <2>2
<1> HIDE DEF c, f, u
<1>8. capacity \in ReservationStates BY DEF ReservationStates
<1>9. Sound([w EXCEPT !.commitments = [w.commitments EXCEPT ![r] = c],
                      !.reservations = [w.reservations EXCEPT ![r] = capacity],
                      !.escalations = f])
  BY <1>2, <1>3, <1>7, <1>8, CommitmentSound
<1> QED BY <1>6, <1>9 DEF u

LEMMA RecordOutcomeSound ==
    ASSUME NEW w, Sound(w), NEW r \in RulingIds, w.commitments[r].state \in {"bound", "unknown"},
           NEW outcome \in {"success", "failed"}
    PROVE  Sound(RecordOutcome(w, r, outcome))
<1>1. CASE w.commitments[r].state = "bound"
  <2> DEFINE c == [w.commitments[r] EXCEPT !.state = "discharged", !.outcome = outcome]
  <2>1. w \in World BY DEF Sound
  <2>2. /\ w.commitments[r] \in Commitment /\ w.reservations[r] = "settled"
        /\ w.escalations[<<"recovery", r>>].state # "open"
    BY <1>1, PendingFacts
  <2>3. c \in Commitment /\ c.state = "discharged" BY <2>2 DEF Commitment
  <2>4. Resolve(w, r, "discharged", outcome, "settled")
          = [w EXCEPT !.commitments = [w.commitments EXCEPT ![r] = c],
                      !.reservations = [w.reservations EXCEPT ![r] = "settled"],
                      !.escalations = w.escalations]
    BY <2>1, <2>2 DEF Resolve, World
  <2> HIDE DEF c
  <2>5. "settled" \in ReservationStates BY DEF ReservationStates
  <2>6. w.escalations \in [EscalationIds -> Escalation \cup {NoEscalation}] BY <2>1 DEF World
  <2>7. Sound([w EXCEPT !.commitments = [w.commitments EXCEPT ![r] = c],
                        !.reservations = [w.reservations EXCEPT ![r] = "settled"],
                        !.escalations = w.escalations])
    BY <1>1, <2>2, <2>3, <2>5, <2>6, CommitmentSound
  <2> QED BY <1>1, <2>4, <2>7 DEF RecordOutcome
<1>2. CASE w.commitments[r].state = "unknown"
  BY <1>2, ReconcileSound DEF RecordOutcome
<1> QED BY <1>1, <1>2

LEMMA RecordNoEffectSound ==
    ASSUME NEW w, Sound(w), NEW r \in RulingIds, w.commitments[r].state \in {"bound", "unknown"}
    PROVE  Sound(RecordNoEffect(w, r))
BY ReconcileSound DEF RecordNoEffect

-----------------------------------------------------------------------------
(***************************************************************************)
(* Escalations.                                                            *)
(***************************************************************************)
\* An open escalation belongs to a ruling, and so to a mandate.
LEMMA OpenFacts ==
    ASSUME NEW w, Sound(w), NEW e \in EscalationIds, w.escalations[e] # NoEscalation
    PROVE  /\ e[2] \in RulingIds /\ w.rulings[e[2]] \in Ruling
           /\ w.escalations[e] \in Escalation
           /\ w.rulings[e[2]].mandate \in Mandates
           /\ w.rulings[e[2]].proposal \in Proposals /\ w.rulings[e[2]].gate \in Gates
<1>1. e[2] \in RulingIds BY DEF EscalationIds
<1>2. w.rulings[e[2]] \in Ruling BY DEF Sound, LinkedIn
<1>3. w.escalations[e] \in Escalation BY DEF Sound, World
<1> QED BY <1>1, <1>2, <1>3 DEF Ruling

LEMMA OpenIsEscalation ==
    ASSUME NEW w, NEW e \in Open(w)
    PROVE  e \in EscalationIds /\ w.escalations[e] # NoEscalation
BY DEF Open, NoEscalation

LEMMA DisposeSound ==
    ASSUME NEW w, Sound(w), NEW e \in Open(w),
           NEW d \in {"none", "allow-within-scope", "narrow-or-modify", "stop", "answer", "abstain"}
    PROVE  LET v == Dispose(w, e, d)
           IN  /\ Sound(v)
               /\ \A r \in RulingIds : w.rulings[r] \in Ruling =>
                    /\ v.rulings[r] \in Ruling /\ v.rulings[r].mandate = w.rulings[r].mandate
               /\ v.escalations[e] # NoEscalation
<1> DEFINE u == Close(w, e, "disposed", d)
<1>1. Sound(u) /\ u.rulings = w.rulings BY CloseSound
<1>2. u.escalations[e] # NoEscalation
  <2>1. w \in World /\ e \in EscalationIds /\ w.escalations[e].state = "open" BY DEF Sound, Open
  <2>2. w.escalations[e] \in Escalation BY <2>1 DEF World, NoEscalation
  <2>3. u.escalations[e] = [w.escalations[e] EXCEPT !.state = "disposed", !.disposition = d]
    BY <2>1, <2>2 DEF Close, World, Escalation
  <2> HIDE DEF u
  <2> QED BY <2>2, <2>3 DEF NoEscalation, Escalation
<1> HIDE DEF u
<1>3. Sound(Invalidate(u, {e[2]})) BY <1>1, InvalidateSound
<1>4. /\ Invalidate(u, {e[2]}).escalations = u.escalations
      /\ \A r \in RulingIds : u.rulings[r] \in Ruling =>
            /\ Invalidate(u, {e[2]}).rulings[r] \in Ruling
            /\ Invalidate(u, {e[2]}).rulings[r].mandate = u.rulings[r].mandate
  <2>1. u \in World BY <1>1 DEF Sound
  <2> QED BY <2>1, InvalidateFrame
<1>5. Dispose(w, e, d) = Invalidate(u, {e[2]}) BY DEF Dispose, u
<1> QED BY <1>1, <1>2, <1>3, <1>4, <1>5

LEMMA TimeOutOnDispositionSound ==
    ASSUME NEW w, Sound(w), NEW e \in Open(w), now \in Nat
    PROVE  Sound(TimeOutOnDisposition(w, e))
<1> DEFINE closed == Close(w, e, "timed_out", "none")
           ended == IF Lapsed(w, e[2]) THEN Expire(closed, {e[2]}) ELSE Invalidate(closed, {e[2]})
           m == MandateOf(w, e)
           recorded == RecordPattern(ended, "timeout", e, m, now)
<1>1. e \in EscalationIds /\ m \in Mandates BY OpenIsEscalation, OpenFacts DEF MandateOf
<1>2. Sound(closed) BY CloseSound
<1> HIDE DEF closed
<1>3. Sound(ended) BY <1>2, ExpireSound, InvalidateSound
<1> HIDE DEF ended
<1>4. Sound(recorded) BY <1>1, <1>3, RecordPatternSound
<1> HIDE DEF recorded
<1>5. Sound(PatternNarrowing(recorded, m, now)) BY <1>1, <1>4, PatternNarrowingSound
<1> QED BY <1>5 DEF TimeOutOnDisposition, recorded, ended, closed

LEMMA TimeOutOnAnswerSound ==
    ASSUME NEW w, Sound(w), NEW e \in Open(w)
    PROVE  Sound(TimeOutOnAnswer(w, e))
<1>1. Sound(Close(w, e, "timed_out", "none")) BY CloseSound
<1> QED BY <1>1, ExpireRulingsSound, InvalidateSound DEF TimeOutOnAnswer

LEMMA OverrideSound ==
    ASSUME NEW w, Sound(w), NEW e \in Open(w), now \in Nat
    PROVE  /\ Sound(Override(w, e))
           /\ Override(w, e).escalations[e] # NoEscalation
<1> DEFINE u == Dispose(w, e, "allow-within-scope")
           m == MandateOf(w, e)
           recorded == RecordPattern(u, "override", e, m, now)
<1>1. e \in EscalationIds /\ m \in Mandates BY OpenIsEscalation, OpenFacts DEF MandateOf
<1>2. Sound(u) /\ u.escalations[e] # NoEscalation BY DisposeSound
<1> HIDE DEF u
<1>3. Sound(recorded) BY <1>1, <1>2, RecordPatternSound
<1>4. recorded.escalations = u.escalations /\ recorded \in World
  <2>1. recorded.escalations = u.escalations BY <1>2 DEF RecordPattern, Sound, World
  <2> QED BY <1>3, <2>1 DEF Sound
<1> HIDE DEF recorded
<1>5. /\ Sound(PatternNarrowing(recorded, m, now))
      /\ PatternNarrowing(recorded, m, now).escalations = recorded.escalations
  BY <1>1, <1>3, <1>4, PatternNarrowingSound, PatternNarrowingFrame
<1>6. Override(w, e) = PatternNarrowing(recorded, m, now) BY DEF Override, recorded, u
<1> QED BY <1>2, <1>4, <1>5, <1>6

\* Linking a successor changes no field an invariant looks at.
LEMMA LinkSuccessorSound ==
    ASSUME NEW w, Sound(w), NEW e \in EscalationIds, w.escalations[e] # NoEscalation,
           NEW r \in RulingIds
    PROVE  Sound(LinkSuccessor(w, e, r))
<1> DEFINE q == e[2]
           x == [w.rulings[q] EXCEPT !.successor = r]
           y == [w.escalations[e] EXCEPT !.successor = r]
           f == [w.rulings EXCEPT ![q] = x]
           h == [w.escalations EXCEPT ![e] = y]
           u == [w EXCEPT !.rulings = f]
<1>1. w \in World BY DEF Sound
<1>2. q \in RulingIds /\ w.rulings[q] \in Ruling /\ w.escalations[e] \in Escalation BY OpenFacts
<1>3. /\ x \in Ruling /\ x.status = w.rulings[q].status /\ x.gate = w.rulings[q].gate
      /\ x.verdict = w.rulings[q].verdict /\ x.proposal = w.rulings[q].proposal
      /\ x.mandate = w.rulings[q].mandate /\ x.version = w.rulings[q].version
      /\ x.selection = w.rulings[q].selection /\ x.policy = w.rulings[q].policy
  BY <1>2 DEF Ruling
<1>4. y \in Escalation /\ y.state = w.escalations[e].state BY <1>2 DEF Escalation
<1> HIDE DEF x, y
<1>5. /\ f \in [RulingIds -> Ruling \cup {NoRuling}] /\ f[q] = x
      /\ \A i \in RulingIds \ {q} : f[i] = w.rulings[i]
  BY <1>1, <1>2, <1>3 DEF World
<1> HIDE DEF f
<1>6. \A i \in RulingIds :
        /\ w.rulings[i] \in Ruling => f[i] \in Ruling
        /\ f[i].status = w.rulings[i].status
        /\ i # q => f[i] = w.rulings[i]
        /\ f[i].gate = w.rulings[i].gate /\ f[i].verdict = w.rulings[i].verdict
        /\ f[i].proposal = w.rulings[i].proposal /\ f[i].mandate = w.rulings[i].mandate
        /\ f[i].version = w.rulings[i].version /\ f[i].selection = w.rulings[i].selection
        /\ f[i].policy = w.rulings[i].policy
  BY <1>2, <1>3, <1>5
<1>7. u \in World BY <1>1, <1>5 DEF World
<1>8. /\ u.rulings = f /\ u.nonces = w.nonces /\ u.reservations = w.reservations
      /\ u.policy = w.policy /\ u.mandates = w.mandates /\ u.selection = w.selection
      /\ u.escalations = w.escalations /\ u.commitments = w.commitments
  BY <1>1 DEF World
<1>9. Sound(u)
  <2> HIDE DEF u
  <2>1. Issued(u) = Issued(w) BY <1>6, <1>8 DEF Issued
  <2>2. LinkedIn(u) BY <1>6, <1>8 DEF Sound, LinkedIn, EscalationIds
  <2>3. CurrentIn(u) BY <1>6, <1>8, <2>1 DEF Sound, CurrentIn, Issued
  <2>4. UsedOnceIn(u) BY <1>6, <1>8 DEF Sound, UsedOnceIn
  <2>5. CapacityIn(u) BY <1>6, <1>8 DEF Sound, CapacityIn
  <2>6. RoutedIn(u) BY <1>8 DEF Sound, RoutedIn
  <2>7. OneRevisionIn(u) BY <1>6, <1>8, <2>1 DEF Sound, OneRevisionIn, Issued
  <2>8. OneUsableIn(u) BY <1>6, <1>8 DEF Sound, OneUsableIn
  <2> QED BY <1>7, <2>2, <2>3, <2>4, <2>5, <2>6, <2>7, <2>8 DEF Sound
<1>10. /\ h \in [EscalationIds -> Escalation \cup {NoEscalation}]
       /\ \A i \in EscalationIds : /\ h[i].state = w.escalations[i].state
                                   /\ h[i] # NoEscalation => w.escalations[i] # NoEscalation
  BY <1>1, <1>4 DEF World
<1> HIDE DEF h
<1>11. \A i \in EscalationIds : h[i] # NoEscalation => u.rulings[i[2]] \in Ruling
  BY <1>6, <1>8, <1>10 DEF Sound, LinkedIn, EscalationIds
<1>12. \A i \in RulingIds :
         /\ u.commitments[i].state = "unknown" => h[<<"recovery", i>>].state # "none"
         /\ h[<<"recovery", i>>].state = "open" => u.commitments[i].state = "unknown"
  <2>1. \A i \in RulingIds : <<"recovery", i>> \in EscalationIds BY DEF EscalationIds
  <2> QED BY <1>8, <1>10, <2>1 DEF Sound, RoutedIn
<1>13. LinkSuccessor(w, e, r) = [u EXCEPT !.escalations = h]
  BY <1>1, <1>2 DEF LinkSuccessor, World, f, h, x, y
<1> HIDE DEF u
<1>14. Sound([u EXCEPT !.escalations = h]) BY <1>9, <1>10, <1>11, <1>12, EscalationsSound
<1> QED BY <1>13, <1>14

\* A stage keeps what it found; its ruling, if any, exists.
StageKeeps(w, stage) ==
    /\ Sound(stage.world)
    /\ stage.ruling # 0 => stage.ruling \in RulingIds
    /\ \A e \in EscalationIds : w.escalations[e] # NoEscalation => stage.world.escalations[e] = w.escalations[e]

LEMMA StageSound ==
    ASSUME NEW w, Sound(w), NEW p \in Proposals, NEW g \in Gates,
           NEW ev \in {"allow", "deny", "default", "ceiling", "dialogue"}, now \in Nat
    PROVE  StageKeeps(w, Stage(w, p, g, ev))
<1>1. CASE Rulable(w, p, g, ev)
  <2>1. BuildKeeps(w, BuildRuling(w, p, g, ev), BuiltRuling(w, p, g)) BY <1>1, BuildRulingSound
  <2>2. /\ Stage(w, p, g, ev).world = BuildRuling(w, p, g, ev)
        /\ Stage(w, p, g, ev).ruling = BuiltRuling(w, p, g)
    BY <1>1 DEF Stage
  <2> QED BY <2>1, <2>2 DEF BuildKeeps, StageKeeps
<1>2. CASE ~Rulable(w, p, g, ev)
  <2>1. Stage(w, p, g, ev).world = w /\ Stage(w, p, g, ev).ruling = 0 BY <1>2 DEF Stage
  <2> QED BY <2>1 DEF StageKeeps
<1> QED BY <1>1, <1>2

LEMMA RerunGatesSound ==
    ASSUME NEW w, Sound(w), NEW p \in Proposals,
           NEW ev \in [{"authorize", "submit", "verify"} -> Evaluations], now \in Nat
    PROVE  StageKeeps(w, RerunGates(w, p, ev))
<1> DEFINE authorize == Stage(w, p, "authorize", ev["authorize"])
           submit == Stage(authorize.world, p, "submit", ev["submit"])
           verify == Stage(submit.world, p, "verify", ev["verify"])
<1>1. /\ "authorize" \in Gates /\ "submit" \in Gates /\ "verify" \in Gates
      /\ \A g \in {"authorize", "submit", "verify"} : ev[g] \in {"allow", "deny", "default", "ceiling", "dialogue"}
  BY CoreAssumption DEF Gates
<1>2. StageKeeps(w, authorize) BY <1>1, StageSound
<1> HIDE DEF authorize
<1>3. Sound(authorize.world) BY <1>2 DEF StageKeeps
<1>4. StageKeeps(authorize.world, submit) BY <1>1, <1>3, StageSound
<1> HIDE DEF submit
<1>5. Sound(submit.world) BY <1>4 DEF StageKeeps
<1>6. StageKeeps(submit.world, verify) BY <1>1, <1>5, StageSound
<1> HIDE DEF verify
<1>7. StageKeeps(w, submit) BY <1>2, <1>4 DEF StageKeeps
<1>8. StageKeeps(w, verify) BY <1>6, <1>7 DEF StageKeeps
<1>9. RerunGates(w, p, ev) \in {authorize, submit, verify}
  BY DEF RerunGates, authorize, submit, verify
<1> QED BY <1>2, <1>7, <1>8, <1>9

-----------------------------------------------------------------------------
(***************************************************************************)
(* The sweeper.                                                            *)
(***************************************************************************)
LEMMA PatternsSound ==
    ASSUME NEW w, Sound(w), NEW P \in SUBSET PatternEvent
    PROVE  Sound([w EXCEPT !.patterns = P])
<1> DEFINE v == [w EXCEPT !.patterns = P]
<1>1. w \in World BY DEF Sound
<1>2. v \in World BY <1>1 DEF World
<1>3. /\ v.rulings = w.rulings /\ v.reservations = w.reservations /\ v.nonces = w.nonces
      /\ v.policy = w.policy /\ v.mandates = w.mandates /\ v.selection = w.selection
      /\ v.escalations = w.escalations /\ v.commitments = w.commitments
  BY <1>1 DEF World
<1>4. Sound(v)
  <2> HIDE DEF v
  <2> QED BY <1>2, <1>3, SameRulings DEF Sound
<1> QED BY <1>4

LEMMA TimeOutAllSound ==
    ASSUME NEW w, Sound(w), now \in Nat
    PROVE  Sound(TimeOutAll(w))
<1> DEFINE due == Due(w)
           u == Invalidate(w, {e[2] : e \in due})
           f == [e \in EscalationIds |->
                    IF e \in due THEN [w.escalations[e] EXCEPT !.state = "timed_out"] ELSE w.escalations[e]]
           P == u.patterns \cup {[kind |-> "timeout", escalation |-> e,
                                  mandate |-> MandateOf(w, e), at |-> now] : e \in due}
<1>1. w \in World BY DEF Sound
<1>2. Sound(u) /\ u \in World BY InvalidateSound DEF Sound
<1>3. /\ u.escalations = w.escalations /\ u.commitments = w.commitments /\ u.patterns = w.patterns
  BY <1>1, InvalidateFrame
<1>4. \A e \in due : e \in EscalationIds /\ w.escalations[e].state = "open" BY DEF Due, Open
<1>5. \A e \in due : w.escalations[e] \in Escalation BY <1>1, <1>4 DEF World, NoEscalation
<1>6. \A e \in due : [w.escalations[e] EXCEPT !.state = "timed_out"] \in Escalation
  BY <1>5 DEF Escalation
<1>7. f \in [EscalationIds -> Escalation \cup {NoEscalation}] BY <1>1, <1>6 DEF World
<1>8. \A e \in EscalationIds :
        /\ f[e].state = (IF e \in due THEN "timed_out" ELSE w.escalations[e].state)
        /\ f[e] # NoEscalation => u.escalations[e] # NoEscalation
  <2>1. \A e \in due : [w.escalations[e] EXCEPT !.state = "timed_out"].state = "timed_out"
    BY <1>5 DEF Escalation
  <2>2. \A e \in due : w.escalations[e] # NoEscalation BY <1>4 DEF NoEscalation
  <2> QED BY <1>3, <2>1, <2>2
<1>9. P \in SUBSET PatternEvent
  <2>1. u.patterns \in SUBSET PatternEvent BY <1>2 DEF World
  <2>2. \A e \in due : MandateOf(w, e) \in Mandates
    BY <1>4, OpenFacts DEF MandateOf, NoEscalation
  <2>3. \A e \in due : [kind |-> "timeout", escalation |-> e, mandate |-> MandateOf(w, e), at |-> now] \in PatternEvent
    BY <1>4, <2>2 DEF PatternEvent
  <2> QED BY <2>1, <2>3
<1>10. TimeOutAll(w) = [[u EXCEPT !.escalations = f] EXCEPT !.patterns = P]
  <2>1. TimeOutAll(w) = [u EXCEPT !.escalations = f, !.patterns = P] BY DEF TimeOutAll
  <2>2. [u EXCEPT !.escalations = f, !.patterns = P] = [[u EXCEPT !.escalations = f] EXCEPT !.patterns = P]
    <3> HIDE DEF u, f, P
    <3> QED BY <1>2 DEF World
  <2> QED BY <2>1, <2>2
<1> HIDE DEF f, u, P, due
<1>11. \A e \in EscalationIds : f[e] # NoEscalation => u.rulings[e[2]] \in Ruling
  BY <1>2, <1>8 DEF Sound, LinkedIn
<1>12. \A r \in RulingIds :
         /\ u.commitments[r].state = "unknown" => f[<<"recovery", r>>].state # "none"
         /\ f[<<"recovery", r>>].state = "open" => u.commitments[r].state = "unknown"
  <2>1. \A r \in RulingIds : <<"recovery", r>> \in EscalationIds BY DEF EscalationIds
  <2> QED BY <1>3, <1>8, <2>1 DEF Sound, RoutedIn
<1>13. Sound([u EXCEPT !.escalations = f]) BY <1>2, <1>7, <1>11, <1>12, EscalationsSound
<1> QED BY <1>9, <1>10, <1>13, PatternsSound

\* Expiry leaves mandates and the rulings that stay issued alone.
LEMMA ExpireFrame ==
    ASSUME NEW w \in World, NEW S
    PROVE  LET v == Expire(w, S)
           IN  /\ v.mandates = w.mandates
               /\ \A r \in RulingIds : r \notin Issued(w) \cap S => v.rulings[r] = w.rulings[r]
BY DEF Expire, ExpireNonces, ExpireRulings, SetStatus, World

LEMMA ExpireMandatesSound ==
    ASSUME NEW w, Sound(w)
    PROVE  Sound(ExpireMandates(w))
<1> DEFINE S == UNION {IssuedUnder(w, m) : m \in Expiring(w)}
           u == Expire(w, S)
           f == [m \in Mandates |->
                    IF m \in Expiring(w) THEN [w.mandates[m] EXCEPT !.status = "expired"] ELSE w.mandates[m]]
<1>1. w \in World BY DEF Sound
<1>2. Sound(u) /\ u \in World /\ Issued(u) = Issued(w) \ S BY ExpireSound DEF Sound
<1>3. u.mandates = w.mandates /\ \A r \in RulingIds : r \notin Issued(w) \cap S => u.rulings[r] = w.rulings[r]
  BY <1>1, ExpireFrame
<1>4. \A m \in Expiring(w) : [w.mandates[m] EXCEPT !.status = "expired"] \in Mandate
  <2>1. \A m \in Expiring(w) : w.mandates[m] \in Mandate BY <1>1 DEF Expiring, World, NoMandate
  <2> QED BY <2>1 DEF Mandate
<1>5. f \in [Mandates -> Mandate \cup {NoMandate}] BY <1>1, <1>4 DEF World
<1>6. ExpireMandates(w) = [u EXCEPT !.mandates = f] BY DEF ExpireMandates
<1>7. \A r \in Issued(u) : u.rulings[r].mandate \in Mandates \ Expiring(w)
  <2>1. \A r \in Issued(u) : r \in Issued(w) /\ r \notin S /\ r \in RulingIds BY <1>2 DEF Issued
  <2>2. \A r \in Issued(u) : u.rulings[r] = w.rulings[r] BY <1>3, <2>1
  <2>3. \A r \in Issued(u) : w.rulings[r].mandate \in Mandates BY <1>1, <2>1, IssuedIsRuling DEF Ruling
  <2> QED BY <2>1, <2>2, <2>3 DEF IssuedUnder
<1>8. \A r \in Issued(u) : u.rulings[r].verdict # "deny" =>
          f[u.rulings[r].mandate] = u.mandates[u.rulings[r].mandate]
  BY <1>3, <1>7
<1> HIDE DEF u, f
<1>9. Sound([u EXCEPT !.mandates = f]) BY <1>2, <1>5, <1>8, MandatesSound
<1> QED BY <1>6, <1>9

LEMMA NarrowAllSound ==
    ASSUME NEW w, Sound(w), NEW M \in SUBSET Mandates, \A m \in M : w.mandates[m].status # "none"
    PROVE  Sound(NarrowAll(w, M))
<1> DEFINE S == UNION {IssuedUnder(w, m) : m \in M}
           u == Invalidate(w, S)
           x(m) == [w.mandates[m] EXCEPT !.version = @ + 1, !.record = "suspended", !.status = "suspended"]
           f == [m \in Mandates |-> IF m \in M THEN x(m) ELSE w.mandates[m]]
<1>1. w \in World BY DEF Sound
<1>2. Sound(u) /\ u \in World /\ Issued(u) = Issued(w) \ S BY InvalidateSound DEF Sound
<1>3. u.mandates = w.mandates /\ \A r \in RulingIds : r \notin Issued(w) \cap S => u.rulings[r] = w.rulings[r]
  BY <1>1, InvalidateFrame
<1>4. \A m \in M : x(m) \in Mandate
  <2>1. \A m \in M : w.mandates[m] \in Mandate BY <1>1 DEF World, NoMandate
  <2>2. \A m \in M : w.mandates[m].version + 1 \in Nat BY <2>1 DEF Mandate
  <2> QED BY <2>1, <2>2 DEF Mandate
<1>5. f \in [Mandates -> Mandate \cup {NoMandate}] BY <1>1, <1>4 DEF World
<1>6. NarrowAll(w, M) = [u EXCEPT !.mandates = f] BY DEF NarrowAll
<1>7. \A r \in Issued(u) : u.rulings[r].mandate \in Mandates \ M
  <2>1. \A r \in Issued(u) : r \in Issued(w) /\ r \notin S /\ r \in RulingIds BY <1>2 DEF Issued
  <2>2. \A r \in Issued(u) : u.rulings[r] = w.rulings[r] BY <1>3, <2>1
  <2>3. \A r \in Issued(u) : w.rulings[r].mandate \in Mandates BY <1>1, <2>1, IssuedIsRuling DEF Ruling
  <2> QED BY <2>1, <2>2, <2>3 DEF IssuedUnder
<1>8. \A r \in Issued(u) : u.rulings[r].verdict # "deny" =>
          f[u.rulings[r].mandate] = u.mandates[u.rulings[r].mandate]
  BY <1>3, <1>7
<1> HIDE DEF u, f
<1>9. Sound([u EXCEPT !.mandates = f]) BY <1>2, <1>5, <1>8, MandatesSound
<1> QED BY <1>6, <1>9

-----------------------------------------------------------------------------
(***************************************************************************)
(* Authority.                                                              *)
(***************************************************************************)
\* A mandate may change once the rulings of S are ended, if what stays issued
\* under it are denials.
LEMMA MandateChangeSound ==
    ASSUME NEW w, Sound(w), NEW m \in Mandates, NEW S, NEW x \in Mandate,
           \A r \in IssuedUnder(w, m) \ S : w.rulings[r].verdict = "deny"
    PROVE  Sound([Invalidate(w, S) EXCEPT !.mandates = [Invalidate(w, S).mandates EXCEPT ![m] = x]])
<1> DEFINE u == Invalidate(w, S)
           f == [u.mandates EXCEPT ![m] = x]
<1>1. w \in World BY DEF Sound
<1>2. Sound(u) /\ u \in World /\ Issued(u) = Issued(w) \ S BY InvalidateSound DEF Sound
<1>3. f \in [Mandates -> Mandate \cup {NoMandate}] BY <1>2 DEF World
<1>4. \A r \in Issued(u) : u.rulings[r] = w.rulings[r]
  <2>1. \A r \in Issued(u) : r \in RulingIds /\ r \notin S BY <1>2 DEF Issued
  <2> QED BY <1>1, <2>1, InvalidateFrame
<1>5. \A r \in Issued(u) : u.rulings[r].verdict # "deny" =>
          f[u.rulings[r].mandate] = u.mandates[u.rulings[r].mandate]
  <2>1. \A r \in Issued(u) : u.rulings[r].mandate \in Mandates BY <1>2, IssuedIsRuling DEF Ruling
  <2>2. \A r \in Issued(u) : u.rulings[r].verdict # "deny" => u.rulings[r].mandate # m
    BY <1>2, <1>4 DEF IssuedUnder
  <2> QED BY <1>2, <2>1, <2>2 DEF World
<1> HIDE DEF u, f
<1>6. Sound([u EXCEPT !.mandates = f]) BY <1>2, <1>3, <1>5, MandatesSound
<1> QED BY <1>6 DEF u, f

LEMMA RevokeSound ==
    ASSUME NEW w, Sound(w), NEW m \in Mandates, w.mandates[m].status # "none"
    PROVE  Sound(Revoke(w, m))
<1> DEFINE S == {r \in IssuedUnder(w, m) : w.rulings[r].version = w.mandates[m].version}
           u == Invalidate(w, S)
           x == [u.mandates[m] EXCEPT !.status = "revoked"]
<1>1. w \in World BY DEF Sound
<1>2. u.mandates = w.mandates BY <1>1, InvalidateFrame
<1>3. w.mandates[m] \in Mandate BY <1>1 DEF World, NoMandate
<1>4. x \in Mandate
  <2> HIDE DEF u
  <2> QED BY <1>2, <1>3 DEF Mandate
<1>5. \A r \in IssuedUnder(w, m) \ S : w.rulings[r].verdict = "deny"
  BY DEF Sound, CurrentIn, IssuedUnder
<1>6. Revoke(w, m) = [u EXCEPT !.mandates = [u.mandates EXCEPT ![m] = x]] BY DEF Revoke
<1> HIDE DEF x, S
<1>7. Sound([u EXCEPT !.mandates = [u.mandates EXCEPT ![m] = x]]) BY <1>4, <1>5, MandateChangeSound
<1> QED BY <1>6, <1>7

\* With no ruling issued, policy and selection may change.
LEMMA QuietSound ==
    ASSUME NEW w, Sound(w), Issued(w) = {}, NEW v \in World,
           v.rulings = w.rulings, v.reservations = w.reservations, v.nonces = w.nonces,
           v.escalations = w.escalations, v.commitments = w.commitments
    PROVE  Sound(v)
<1>1. CurrentIn(v) BY SameRulings DEF CurrentIn
<1> QED BY <1>1, SameRulings DEF Sound

LEMMA PolicySound ==
    ASSUME NEW w, Sound(w), Issued(w) = {}, NEW policy \in Policies
    PROVE  Sound([w EXCEPT !.policy = policy])
<1> DEFINE v == [w EXCEPT !.policy = policy]
<1>1. w \in World BY DEF Sound
<1>2. /\ v \in World
      /\ v.rulings = w.rulings /\ v.reservations = w.reservations /\ v.nonces = w.nonces
      /\ v.escalations = w.escalations /\ v.commitments = w.commitments
  BY <1>1 DEF World
<1>3. Sound(v)
  <2> HIDE DEF v
  <2> QED BY <1>2, QuietSound
<1> QED BY <1>3

LEMMA SelectionSound ==
    ASSUME NEW w, Sound(w), Issued(w) = {}, NEW s \in Selection
    PROVE  Sound([w EXCEPT !.selection = s])
<1> DEFINE v == [w EXCEPT !.selection = s]
<1>1. w \in World BY DEF Sound
<1>2. /\ v \in World
      /\ v.rulings = w.rulings /\ v.reservations = w.reservations /\ v.nonces = w.nonces
      /\ v.escalations = w.escalations /\ v.commitments = w.commitments
  BY <1>1 DEF World
<1>3. Sound(v)
  <2> HIDE DEF v
  <2> QED BY <1>2, QuietSound
<1> QED BY <1>3

-----------------------------------------------------------------------------
(***************************************************************************)
(* Every action keeps the invariant.                                       *)
(***************************************************************************)
\* The answers of the evaluator are those the lemmas above allow for.
LEMMA EvaluationAnswers == \A ev \in Evaluations : ev \in {"allow", "deny", "default", "ceiling", "dialogue"}
BY CoreAssumption

LEMMA EmptySound == Sound(EmptyWorld(InitialPolicy))
<1> DEFINE w == EmptyWorld(InitialPolicy)
<1>1. w \in World BY CoreAssumption DEF EmptyWorld, World, ReservationStates
<1>2. /\ \A r \in RulingIds : /\ w.rulings[r] = NoRuling /\ w.nonces[r] = "none"
                              /\ w.reservations[r] = "none" /\ w.commitments[r] = NoCommitment
      /\ \A e \in EscalationIds : w.escalations[e] = NoEscalation
  BY DEF EmptyWorld
<1> HIDE DEF w
<1>3. Issued(w) = {} BY <1>2 DEF Issued, NoRuling
<1>4. LinkedIn(w) /\ CurrentIn(w) /\ OneRevisionIn(w)
  BY <1>2, <1>3 DEF LinkedIn, CurrentIn, OneRevisionIn
<1>5. \A r \in RulingIds : w.rulings[r].status = "none" /\ w.commitments[r].state = "none"
  BY <1>2 DEF NoRuling, NoCommitment
<1>6. UsedOnceIn(w) BY <1>2, <1>5 DEF UsedOnceIn
<1>7. CapacityIn(w) BY <1>2, <1>5 DEF CapacityIn
<1>8. \A r \in RulingIds : <<"recovery", r>> \in EscalationIds BY DEF EscalationIds
<1>9. RoutedIn(w)
  <2>1. \A e \in EscalationIds : w.escalations[e].state = "none" BY <1>2 DEF NoEscalation
  <2>2. \A r \in RulingIds : w.escalations[<<"recovery", r>>].state = "none" BY <1>8, <2>1
  <2> QED BY <1>5, <2>2 DEF RoutedIn
<1>10. OneUsableIn(w) BY <1>5 DEF OneUsableIn
<1> QED BY <1>1, <1>4, <1>6, <1>7, <1>9, <1>10 DEF Sound, w

LEMMA GrantMandateKeeps ==
    ASSUME Inv, NEW m \in Mandates, NEW expiry \in Expiries, NEW limits \in LimitChoices,
           GrantMandate(m, expiry, limits)
    PROVE  Sound(world')
<1> DEFINE x == MandateVersion(1, "active", expiry, limits)
           f == [world.mandates EXCEPT ![m] = x]
<1>1. Sound(world) /\ world \in World BY DEF Inv, Sound
<1>2. x \in Mandate BY WorldAssumption DEF MandateVersion, Mandate
<1>3. f \in [Mandates -> Mandate \cup {NoMandate}] BY <1>1, <1>2 DEF World
<1>4. \A r \in Issued(world) : world.rulings[r].verdict # "deny" =>
          f[world.rulings[r].mandate] = world.mandates[world.rulings[r].mandate]
  <2>1. \A r \in Issued(world) : world.rulings[r].mandate \in Mandates
    BY <1>1, IssuedIsRuling DEF Ruling
  <2>2. \A r \in Issued(world) : world.rulings[r].verdict # "deny" => world.rulings[r].mandate # m
    BY DEF Inv, Sound, CurrentIn, GrantMandate
  <2> QED BY <1>1, <2>1, <2>2 DEF World
<1>5. world' = [world EXCEPT !.mandates = f] BY DEF GrantMandate, Transact
<1> HIDE DEF f
<1> QED BY <1>1, <1>3, <1>4, <1>5, MandatesSound

LEMMA AmendMandateKeeps ==
    ASSUME Inv, NEW m \in Mandates, NEW record \in AmendedRecords,
           NEW expiry \in Expiries, NEW limits \in LimitChoices,
           AmendMandate(m, record, expiry, limits)
    PROVE  Sound(world')
<1> DEFINE x == MandateVersion(world.mandates[m].version + 1, record, expiry, limits)
           S == IssuedUnder(world, m)
           u == Invalidate(world, S)
<1>1. Sound(world) /\ world \in World BY DEF Inv, Sound
<1>2. world.mandates[m] \in Mandate BY <1>1 DEF AmendMandate, World, NoMandate
<1>3. world.mandates[m].version + 1 \in Nat BY <1>2 DEF Mandate
<1>4. x \in Mandate BY <1>3, WorldAssumption, CoreAssumption DEF MandateVersion, Mandate
<1>5. world' = [u EXCEPT !.mandates = [u.mandates EXCEPT ![m] = x]]
  BY DEF AmendMandate, Transact
<1> HIDE DEF x
<1> QED BY <1>1, <1>4, <1>5, MandateChangeSound

LEMMA RevokeMandateKeeps ==
    ASSUME Inv, NEW m \in Mandates, RevokeMandate(m)
    PROVE  Sound(world')
BY RevokeSound DEF RevokeMandate, Transact, Inv

LEMMA ReloadPolicyKeeps ==
    ASSUME Inv, NEW policy \in Policies, ReloadPolicy(policy)
    PROVE  Sound(world')
<1> DEFINE u == Invalidate(world, Issued(world))
<1>1. Sound(u) /\ Issued(u) = {} BY InvalidateSound DEF Inv
<1>2. world' = [u EXCEPT !.policy = policy] BY DEF ReloadPolicy, SwitchPolicy
<1> HIDE DEF u
<1> QED BY <1>1, <1>2, PolicySound

LEMMA PutConversationItemsKeeps ==
    ASSUME Inv, PutConversationItems
    PROVE  Sound(world')
BY InvalidateSound DEF PutConversationItems, Inv

LEMMA SelectModelKeeps ==
    ASSUME Inv, NEW m \in Mandates, SelectModel(m)
    PROVE  Sound(world')
<1> DEFINE S == {r \in Issued(world) : world.rulings[r].selection = world.selection.id}
           u == Invalidate(world, S)
           s == [id |-> u.selection.id + 1, mandate |-> m, version |-> u.mandates[m].version]
<1>1. Sound(world) /\ world \in World BY DEF Inv, Sound
<1>2. S = Issued(world) BY <1>1 DEF Sound, CurrentIn
<1>3. Sound(u) /\ Issued(u) = {} BY <1>1, <1>2, InvalidateSound
<1>4. u.selection = world.selection /\ u.mandates = world.mandates BY <1>1, InvalidateFrame
<1>5. world.selection.id \in Nat BY <1>1 DEF World, Selection, NoSelection
<1>6. world.mandates[m].version \in Nat
  <2>1. world.mandates[m].status = "active" BY DEF SelectModel
  <2> QED BY <1>1, <2>1 DEF World, NoMandate, Mandate
<1>7. world' = [u EXCEPT !.selection = s] BY DEF SelectModel, Transact, AppendSelection
<1> HIDE DEF u
<1>8. s \in Selection BY <1>4, <1>5, <1>6 DEF Selection
<1> HIDE DEF s
<1> QED BY <1>3, <1>7, <1>8, SelectionSound

LEMMA RuleProposalKeeps ==
    ASSUME Inv, NEW p \in Proposals, NEW g \in RuledGates, NEW ev \in Evaluations,
           RuleProposal(p, g, ev)
    PROVE  Sound(world')
<1>1. g \in Gates BY CoreAssumption
<1>2. ev \in {"allow", "deny", "default", "ceiling", "dialogue"} BY EvaluationAnswers
<1>3. Sound(world) /\ now \in Nat /\ Rulable(world, p, g, ev) BY DEF Inv, RuleProposal
<1>4. BuildKeeps(world, BuildRuling(world, p, g, ev), BuiltRuling(world, p, g))
  BY <1>1, <1>2, <1>3, BuildRulingSound
<1> QED BY <1>4 DEF BuildKeeps, RuleProposal, Transact

LEMMA CommitVerifyKeeps ==
    ASSUME Inv, NEW r \in RulingIds, NEW boot \in Boots, NEW evidence \in BOOLEAN,
           CommitVerify(r, boot, evidence)
    PROVE  Sound(world')
<1>1. Sound(world) /\ r \in Issued(world) BY DEF Inv, CommitVerify
<1>2. CASE world' = Expire(world, {r}) BY <1>1, <1>2, ExpireSound
<1>3. CASE world' = Invalidate(world, {r}) BY <1>1, <1>3, InvalidateSound
<1>4. CASE ~CommitDefect(world, r, evidence) /\ world' = BindCommitment(world, r, boot)
  <2>1. /\ world.rulings[r].gate = "commit" /\ world.rulings[r].verdict = "allow"
        /\ world.reservations[r] = "reserved"
    BY <1>4 DEF CommitVerify, CommitDefect
  <2> QED BY <1>1, <1>4, <2>1, BindCommitmentSound
<1> QED BY <1>2, <1>3, <1>4 DEF CommitVerify, Transact

LEMMA ReportEffectOutcomeKeeps ==
    ASSUME Inv, NEW r \in RulingIds, NEW outcome \in Outcomes, ReportEffectOutcome(r, outcome)
    PROVE  Sound(world')
<1>1. outcome \in {"success", "failed"} BY CoreAssumption
<1> QED BY <1>1, RecordOutcomeSound DEF Inv, ReportEffectOutcome, Transact

LEMMA MarkCommitmentUnknownKeeps ==
    ASSUME Inv, NEW r \in RulingIds, MarkCommitmentUnknown(r)
    PROVE  Sound(world')
BY HoldSound DEF Inv, MarkCommitmentUnknown, Transact

LEMMA ReconcileAbsentAfterRestartKeeps ==
    ASSUME Inv, NEW r \in RulingIds, NEW boot \in Boots, ReconcileAbsentAfterRestart(r, boot)
    PROVE  Sound(world')
BY RecordNoEffectSound DEF Inv, ReconcileAbsentAfterRestart, Transact

LEMMA DisposeEscalationKeeps ==
    ASSUME Inv, NEW e \in EscalationIds,
           NEW d \in {"allow-within-scope", "narrow-or-modify", "stop"}, NEW ev \in Evaluations,
           DisposeEscalation(e, d, ev)
    PROVE  Sound(world')
<1> DEFINE source == world.rulings[e[2]]
           overridden == Override(world, e)
           built == BuildRuling(overridden, source.proposal, source.gate, ev)
           r == BuiltRuling(overridden, source.proposal, source.gate)
<1>1. Sound(world) /\ now \in Nat /\ e \in Open(world) BY DEF Inv, DisposeEscalation
<1>2. CASE world' = TimeOutOnDisposition(world, e) BY <1>1, <1>2, TimeOutOnDispositionSound
<1>3. CASE world' = Dispose(world, e, d) BY <1>1, <1>3, DisposeSound
<1>4. CASE /\ Rulable(overridden, source.proposal, source.gate, ev)
           /\ world' = LinkSuccessor(built, e, r)
  <2>1. Sound(overridden) /\ overridden.escalations[e] # NoEscalation BY <1>1, OverrideSound
  <2>2. source.proposal \in Proposals /\ source.gate \in Gates BY <1>1, OpenIsEscalation, OpenFacts
  <2>3. ev \in {"allow", "deny", "default", "ceiling", "dialogue"} BY EvaluationAnswers
  <2> HIDE DEF overridden, source
  <2>4. BuildKeeps(overridden, built, r) BY <1>1, <1>4, <2>1, <2>2, <2>3, BuildRulingSound
  <2> HIDE DEF built, r
  <2>5. Sound(built) /\ built.escalations[e] # NoEscalation /\ r \in RulingIds
    BY <2>1, <2>4 DEF BuildKeeps
  <2> QED BY <1>4, <2>5, LinkSuccessorSound
<1> QED BY <1>2, <1>3, <1>4 DEF DisposeEscalation, Transact

LEMMA RespondDialogueKeeps ==
    ASSUME Inv, NEW e \in EscalationIds, NEW d \in {"answer", "abstain"}, RespondDialogue(e, d)
    PROVE  Sound(world')
<1> DEFINE disposed == Dispose(world, e, d)
<1>1. Sound(world) /\ e \in Open(world) BY DEF Inv, RespondDialogue
<1>2. Sound(TimeOutOnAnswer(world, e)) BY <1>1, TimeOutOnAnswerSound
<1>3. Sound(disposed) BY <1>1, DisposeSound
<1>4. Sound(Invalidate(disposed, Issued(disposed))) BY <1>3, InvalidateSound
<1> QED BY <1>2, <1>3, <1>4 DEF RespondDialogue, Transact

LEMMA ContinueEscalationRevisionKeeps ==
    ASSUME Inv, NEW e \in EscalationIds, NEW p \in Proposals,
           NEW ev \in [{"authorize", "submit", "verify"} -> Evaluations],
           ContinueEscalationRevision(e, p, ev)
    PROVE  Sound(world')
<1> DEFINE last == RerunGates(world, p, ev)
           v == last.world
           latest == IF v = world THEN v.escalations[e].latest ELSE p.revision
           x == [v.escalations[e] EXCEPT !.latest = latest]
           f == [v.escalations EXCEPT ![e] = x]
           tried == [v EXCEPT !.escalations = f]
<1>1. Sound(world) /\ now \in Nat /\ world.escalations[e] # NoEscalation
  BY DEF Inv, ContinueEscalationRevision, NoEscalation
<1>2. StageKeeps(world, last) BY <1>1, RerunGatesSound
<1>3. last.ruling \in RulingIds BY <1>2 DEF StageKeeps, ContinueEscalationRevision
<1>4. Sound(v) /\ v \in World /\ v.escalations[e] = world.escalations[e]
  BY <1>1, <1>2 DEF StageKeeps, Sound
<1>5. world' = tried \/ world' = LinkSuccessor(tried, e, last.ruling)
  BY DEF ContinueEscalationRevision, Transact
<1> HIDE DEF last
<1>6. v.escalations[e] \in Escalation BY <1>1, <1>4, OpenFacts
<1>7. latest \in Nat BY <1>6, WorldAssumption DEF Escalation
<1> HIDE DEF latest, v
<1>8. x \in Escalation /\ x.state = v.escalations[e].state BY <1>6, <1>7 DEF Escalation
<1> HIDE DEF x
<1>9. /\ f \in [EscalationIds -> Escalation \cup {NoEscalation}] /\ f[e] = x
      /\ \A i \in EscalationIds : /\ f[i].state = v.escalations[i].state
                                  /\ f[i] # NoEscalation => v.escalations[i] # NoEscalation
  BY <1>1, <1>4, <1>8 DEF World
<1> HIDE DEF f
<1>10. \A i \in EscalationIds : f[i] # NoEscalation => v.rulings[i[2]] \in Ruling
  BY <1>4, <1>9 DEF Sound, LinkedIn
<1>11. \A q \in RulingIds :
         /\ v.commitments[q].state = "unknown" => f[<<"recovery", q>>].state # "none"
         /\ f[<<"recovery", q>>].state = "open" => v.commitments[q].state = "unknown"
  <2>1. \A q \in RulingIds : <<"recovery", q>> \in EscalationIds BY DEF EscalationIds
  <2> QED BY <1>4, <1>9, <2>1 DEF Sound, RoutedIn
<1>12. Sound(tried) BY <1>4, <1>9, <1>10, <1>11, EscalationsSound
<1>13. tried.escalations[e] # NoEscalation
  <2>1. tried.escalations = f BY <1>4 DEF World
  <2> QED BY <1>8, <1>9, <2>1 DEF Escalation, NoEscalation
<1> HIDE DEF tried
<1>14. Sound(LinkSuccessor(tried, e, last.ruling)) BY <1>3, <1>12, <1>13, LinkSuccessorSound
<1> QED BY <1>5, <1>12, <1>14

LEMMA RunSweeperKeeps ==
    ASSUME Inv, RunSweeper
    PROVE  Sound(world')
<1> DEFINE lapsed == Expire(world, LapsedRulings(world))
           swept == ExpireMandates(TimeOutAll(lapsed))
           M == ToNarrow(world, swept)
<1>1. Sound(world) /\ now \in Nat BY DEF Inv
<1>2. Sound(lapsed) BY <1>1, ExpireSound
<1> HIDE DEF lapsed
<1>3. Sound(TimeOutAll(lapsed)) BY <1>1, <1>2, TimeOutAllSound
<1>4. Sound(swept) BY <1>3, ExpireMandatesSound
<1> HIDE DEF swept
<1>5. M \in SUBSET Mandates
  <2>1. \A e \in Due(world) : MandateOf(world, e) \in Mandates
    <3>1. \A e \in Due(world) : e \in Open(world) BY DEF Due
    <3> QED BY <1>1, <3>1, OpenIsEscalation, OpenFacts DEF MandateOf
  <2> QED BY <2>1 DEF ToNarrow
<1>6. \A m \in M : swept.mandates[m].status # "none" BY DEF ToNarrow, NarrowingDue
<1> HIDE DEF M
<1>7. Sound(NarrowAll(swept, M)) BY <1>4, <1>5, <1>6, NarrowAllSound
<1> QED BY <1>7 DEF RunSweeper, Transact, Swept, swept, lapsed, M

-----------------------------------------------------------------------------
(***************************************************************************)
(* The theorems.                                                           *)
(***************************************************************************)
LEMMA InitInv == Init => Inv
BY EmptySound DEF Init, Inv

LEMMA NextKeepsWorld ==
    ASSUME Inv, Next
    PROVE  Sound(world')
<1>1. CASE Tick BY <1>1 DEF Tick, Inv
<1>2. CASE ChangeAuthority
  BY <1>2, GrantMandateKeeps, AmendMandateKeeps, RevokeMandateKeeps, SelectModelKeeps,
     ReloadPolicyKeeps, PutConversationItemsKeeps DEF ChangeAuthority
<1>3. CASE \E p \in Proposals, g \in RuledGates, ev \in Evaluations : RuleProposal(p, g, ev)
  BY <1>3, RuleProposalKeeps
<1>4. CASE Commit
  BY <1>4, CommitVerifyKeeps, ReportEffectOutcomeKeeps, MarkCommitmentUnknownKeeps,
     ReconcileAbsentAfterRestartKeeps DEF Commit
<1>5. CASE HandleEscalation
  BY <1>5, DisposeEscalationKeeps, RespondDialogueKeeps, ContinueEscalationRevisionKeeps
  DEF HandleEscalation
<1>6. CASE RunSweeper BY <1>6, RunSweeperKeeps
<1> QED BY <1>1, <1>2, <1>3, <1>4, <1>5, <1>6 DEF Next

\* The clock and the bounding counter stay natural numbers.
LEMMA NextKeepsCounters ==
    ASSUME Inv, Next
    PROVE  now' \in Nat /\ reloads' \in Nat
<1>1. now \in Nat /\ reloads \in Nat BY DEF Inv
<1>2. \A w : Transact(w) => now' \in Nat /\ reloads' \in Nat BY <1>1 DEF Transact
<1>3. CASE Tick BY <1>1, <1>3 DEF Tick
<1>4. CASE ChangeAuthority
  <2>1. ASSUME NEW policy \in Policies, ReloadPolicy(policy) PROVE now' \in Nat /\ reloads' \in Nat
    BY <1>1, <2>1 DEF ReloadPolicy
  <2>2. ASSUME PutConversationItems PROVE now' \in Nat /\ reloads' \in Nat
    BY <1>1, <2>2 DEF PutConversationItems
  <2>3. ASSUME NEW m \in Mandates, NEW expiry \in Expiries, NEW limits \in LimitChoices,
               GrantMandate(m, expiry, limits)
        PROVE  now' \in Nat /\ reloads' \in Nat
    BY <1>2, <2>3 DEF GrantMandate
  <2>4. ASSUME NEW m \in Mandates, NEW record \in AmendedRecords, NEW expiry \in Expiries,
               NEW limits \in LimitChoices, AmendMandate(m, record, expiry, limits)
        PROVE  now' \in Nat /\ reloads' \in Nat
    BY <1>2, <2>4 DEF AmendMandate
  <2>5. ASSUME NEW m \in Mandates, RevokeMandate(m) \/ SelectModel(m)
        PROVE  now' \in Nat /\ reloads' \in Nat
    BY <1>2, <2>5 DEF RevokeMandate, SelectModel
  <2> QED BY <1>4, <2>1, <2>2, <2>3, <2>4, <2>5 DEF ChangeAuthority
<1>5. CASE \E p \in Proposals, g \in RuledGates, ev \in Evaluations : RuleProposal(p, g, ev)
  BY <1>2, <1>5 DEF RuleProposal
<1>6. CASE Commit
  BY <1>2, <1>6 DEF Commit, CommitVerify, ReportEffectOutcome, MarkCommitmentUnknown,
                    ReconcileAbsentAfterRestart
<1>7. CASE HandleEscalation
  <2>1. ASSUME NEW e \in EscalationIds, NEW d, NEW ev \in Evaluations, DisposeEscalation(e, d, ev)
        PROVE  now' \in Nat /\ reloads' \in Nat
    BY <1>2, <2>1 DEF DisposeEscalation
  <2>2. ASSUME NEW e \in EscalationIds, NEW d, RespondDialogue(e, d)
        PROVE  now' \in Nat /\ reloads' \in Nat
    BY <1>2, <2>2 DEF RespondDialogue
  <2>3. ASSUME NEW e \in EscalationIds, NEW p \in Proposals, NEW ev, ContinueEscalationRevision(e, p, ev)
        PROVE  now' \in Nat /\ reloads' \in Nat
    BY <1>2, <2>3 DEF ContinueEscalationRevision
  <2> QED BY <1>7, <2>1, <2>2, <2>3 DEF HandleEscalation
<1>8. CASE RunSweeper BY <1>2, <1>8 DEF RunSweeper
<1> QED BY <1>3, <1>4, <1>5, <1>6, <1>7, <1>8 DEF Next

\* The invariant is inductive: whatever the interleaving of principals,
\* orchestrator, services host and sweeper, every transaction keeps it.
THEOREM Invariance == Spec => []Inv
<1>1. Inv /\ [Next]_vars => Inv'
  <2>1. CASE Next
    <3>1. Inv => Sound(world') /\ now' \in Nat /\ reloads' \in Nat
      BY <2>1, NextKeepsWorld, NextKeepsCounters
    <3> QED BY <3>1 DEF Inv
  <2>2. CASE UNCHANGED vars BY <2>2 DEF vars, Inv
  <2> QED BY <2>1, <2>2
<1> QED BY InitInv, <1>1, PTL DEF Spec

\* The state always has the shape of state.ts's WorldState.
THEOREM TypeCorrect == Spec => []TypeOK
<1>1. Inv => TypeOK BY DEF Inv, Sound, TypeOK
<1> QED BY <1>1, Invariance, PTL

\* Every handler's eager invalidation is complete: no issued ruling outlives
\* the selection, the policy or the mandate version it was issued under.
THEOREM IssuedRulingsAreCurrent == Spec => []IssuedIsCurrent
<1>1. Inv => IssuedIsCurrent BY DEF Inv, Sound, IssuedIsCurrent
<1> QED BY <1>1, Invariance, PTL

\* A ruling is used at most once, and only an allow of the Commit gate.
THEOREM RulingsAreSingleUse == Spec => []SingleUse
<1>1. Inv => SingleUse BY DEF Inv, Sound, SingleUse
<1> QED BY <1>1, Invariance, PTL

\* Reserved capacity is settled, held and released with the fate of its ruling.
THEOREM CapacityIsAccounted == Spec => []CapacityFollowsRuling
<1>1. Inv => CapacityFollowsRuling BY DEF Inv, Sound, CapacityFollowsRuling
<1> QED BY <1>1, Invariance, PTL

\* The rulings in force for an action are all of one revision, one per gate.
THEOREM OneRevisionIsLive == Spec => []OneLiveRevision
<1>1. Inv => OneLiveRevision BY DEF Inv, Sound, OneLiveRevision
<1> QED BY <1>1, Invariance, PTL

\* No sequence of overrides, revisions and renewed rulings binds a proposal twice.
THEOREM ProposalsBindOnce == Spec => []OneCommitmentPerProposal
<1>1. Inv => OneCommitmentPerProposal
  <2> SUFFICES ASSUME Inv PROVE OneCommitmentIn(world) BY DEF OneCommitmentPerProposal
  <2>1. \A r \in RulingIds : world.commitments[r].state # "none" =>
            world.rulings[r].status = "consumed" /\ world.rulings[r].gate = "commit"
    BY DEF Inv, Sound, UsedOnceIn
  <2>2. OneUsableIn(world) BY DEF Inv, Sound
  <2> QED BY <2>1, <2>2 DEF OneUsableIn, OneCommitmentIn
<1> QED BY <1>1, Invariance, PTL

\* An unknown outcome is never without its recovery escalation, and a recovery
\* escalation is never open once the outcome is known; the state keeps its shape.
THEOREM UnknownOutcomesAreRouted == Spec => []UnknownIsRouted
<1>1. Inv => UnknownIsRouted BY DEF Inv, Sound, TypeOK, UnknownIsRouted
<1> QED BY <1>1, Invariance, PTL
=============================================================================
