--------------------- MODULE AuthorizationHistoryProofs ---------------------
(***************************************************************************)
(* Proofs about the history of the authorization core: what a step may     *)
(* never do (lifecycles, narrowing, ceilings), what links a ruling to its  *)
(* successor, and that every step is one of the abstract BindingBook.      *)
(*                                                                         *)
(* The ceilings are sums over reservations.  A sum is turned into the      *)
(* cardinality of a set of units, so that it is compared by injections.    *)
(***************************************************************************)
EXTENDS AuthorizationCoreProofs, BindingBookRefinement, FiniteSetTheorems, WellFoundedInduction

-----------------------------------------------------------------------------
(***************************************************************************)
(* Sums.                                                                   *)
(***************************************************************************)
\* f[x] units for each x of S, and their number.
Units(f, S) == {u \in S \X Nat : u[2] < f[u[1]]}
Total(f, S) == Cardinality(Units(f, S))

\* The element the folds of the community modules take first.
Pick(s) == CHOOSE x \in s : TRUE

\* A set of subsets of a finite set has a smallest one.
LEMMA Smallest ==
    ASSUME NEW S, IsFiniteSet(S), NEW T \in SUBSET (SUBSET S), T # {}
    PROVE  \E s \in T : \A t \in T : t \subseteq s => t = s
<1>1. IsWellFoundedOn(StrictSubsetOrdering(S), SUBSET S)
  BY FS_StrictSubsetOrderingWellFounded, FS_FiniteSubsetsOfFinite
<1>2. PICK s \in T : \A t \in T : ~(<<t, s>> \in StrictSubsetOrdering(S)) BY <1>1, WFMin
<1> QED BY <1>2 DEF StrictSubsetOrdering

\* The units of one element.
LEMMA OneUnits ==
    ASSUME NEW x, NEW n \in Nat, NEW U, U = {x} \X (0 .. n - 1)
    PROVE  IsFiniteSet(U) /\ Cardinality(U) = n
<1>1. IsFiniteSet(0 .. n - 1) /\ Cardinality(0 .. n - 1) = n BY FS_Interval
<1> DEFINE b == [i \in 0 .. n - 1 |-> <<x, i>>]
<1>2. b \in [0 .. n - 1 -> U] OBVIOUS
<1>3. \A i, j \in 0 .. n - 1 : b[i] = b[j] => i = j OBVIOUS
<1>4. \A u \in U : \E i \in 0 .. n - 1 : b[i] = u OBVIOUS
<1>5. b \in Bijection(0 .. n - 1, U)
  <2> HIDE DEF b
  <2> QED BY <1>2, <1>3, <1>4 DEF Bijection, Injection, Surjection, IsInjective
<1>6. ExistsBijection(0 .. n - 1, U) BY <1>5 DEF ExistsBijection
<1> QED BY <1>1, <1>6, FS_Bijection

\* Nothing sums to nothing.
LEMMA TotalEmpty == ASSUME NEW f PROVE IsFiniteSet(Units(f, {})) /\ Total(f, {}) = 0
<1>1. Units(f, {}) = {} BY DEF Units
<1> QED BY <1>1, FS_EmptySet DEF Total

\* One element more.
LEMMA UnitsStep ==
    ASSUME NEW f, NEW S, NEW x \in S, f[x] \in Nat, IsFiniteSet(Units(f, S \ {x}))
    PROVE  IsFiniteSet(Units(f, S)) /\ Total(f, S) = f[x] + Total(f, S \ {x})
<1> DEFINE U == {x} \X (0 .. f[x] - 1)
           V == Units(f, S \ {x})
<1>1. IsFiniteSet(U) /\ Cardinality(U) = f[x] BY OneUnits
<1>2. Units(f, S) = U \cup V BY DEF Units
<1>3. U \cap V = {} BY DEF Units
<1>4. IsFiniteSet(V) OBVIOUS
<1> HIDE DEF U, V
<1>5. Cardinality(V) \in Nat BY <1>4, FS_CardinalityType
<1>6. IsFiniteSet(U \cup V) /\ Cardinality(U \cup V) = Cardinality(U) + Cardinality(V) - Cardinality(U \cap V)
  BY <1>1, <1>4, FS_Union
<1>7. Cardinality(U \cap V) = 0 BY <1>3, FS_EmptySet
<1> QED BY <1>1, <1>2, <1>5, <1>6, <1>7 DEF Total, V

\* Finitely many elements have finitely many units.
LEMMA UnitsFinite ==
    ASSUME NEW S, IsFiniteSet(S), NEW f, \A x \in S : f[x] \in Nat
    PROVE  \A s \in SUBSET S : IsFiniteSet(Units(f, s)) /\ Total(f, s) \in Nat
<1> DEFINE T == {s \in SUBSET S : ~IsFiniteSet(Units(f, s))}
<1>1. ASSUME T # {} PROVE FALSE
  <2>0. T \in SUBSET (SUBSET S) OBVIOUS
  <2>1. PICK s \in T : \A t \in T : t \subseteq s => t = s
    <3> HIDE DEF T
    <3> QED BY <1>1, <2>0, Smallest
  <2>2. s # {} BY <2>1, TotalEmpty
  <2>3. PICK x \in s : TRUE BY <2>2
  <2>4. s \ {x} \notin T /\ s \ {x} \in SUBSET S BY <2>1
  <2> QED BY <2>1, <2>3, <2>4, UnitsStep
<1> QED BY <1>1, FS_CardinalityType DEF Total

\* A function that obeys the recursion of the fold computes the total ...
LEMMA FoldIsTotal ==
    ASSUME NEW S, IsFiniteSet(S), NEW f, \A x \in S : f[x] \in Nat,
           NEW g, \A s \in SUBSET S : g[s] = IF s = {} THEN 0 ELSE f[Pick(s)] + g[s \ {Pick(s)}]
    PROVE  g[S] = Total(f, S)
<1> DEFINE T == {s \in SUBSET S : g[s] # Total(f, s)}
<1>1. ASSUME T # {} PROVE FALSE
  <2>0. T \in SUBSET (SUBSET S) OBVIOUS
  <2>1. PICK s \in T : \A t \in T : t \subseteq s => t = s
    <3> HIDE DEF T
    <3> QED BY <1>1, <2>0, Smallest
  <2>2. s # {} BY <2>1, TotalEmpty
  <2>3. Pick(s) \in s BY <2>2 DEF Pick
  <2>4. g[s] = f[Pick(s)] + g[s \ {Pick(s)}] BY <2>1, <2>2
  <2>5. s \ {Pick(s)} \notin T /\ s \ {Pick(s)} \in SUBSET S BY <2>1, <2>3
  <2>6. f[Pick(s)] \in Nat /\ IsFiniteSet(Units(f, s \ {Pick(s)})) BY <2>1, <2>3, <2>5, UnitsFinite
  <2>7. Total(f, s) = f[Pick(s)] + Total(f, s \ {Pick(s)}) BY <2>3, <2>6, UnitsStep
  <2> QED BY <2>1, <2>4, <2>5, <2>7
<1> QED BY <1>1

\* ... and the total obeys it.
LEMMA TotalIsFold ==
    ASSUME NEW S, IsFiniteSet(S), NEW f, \A x \in S : f[x] \in Nat
    PROVE  \A s \in SUBSET S :
              Total(f, s) = IF s = {} THEN 0 ELSE f[Pick(s)] + Total(f, s \ {Pick(s)})
<1> SUFFICES ASSUME NEW s \in SUBSET S, s # {}
             PROVE  Total(f, s) = f[Pick(s)] + Total(f, s \ {Pick(s)})
  BY TotalEmpty
<1>1. Pick(s) \in s BY DEF Pick
<1>2. s \ {Pick(s)} \in SUBSET S /\ f[Pick(s)] \in Nat BY <1>1
<1>3. IsFiniteSet(Units(f, s \ {Pick(s)})) BY <1>2, UnitsFinite
<1> QED BY <1>1, <1>2, <1>3, UnitsStep

\* Totals are compared by an injection that does not lower what is counted.
LEMMA TotalAtMost ==
    ASSUME NEW S, NEW T, IsFiniteSet(T), NEW f, NEW g,
           \A x \in S : f[x] \in Nat, \A y \in T : g[y] \in Nat,
           NEW i \in [S -> T], \A x, y \in S : i[x] = i[y] => x = y,
           \A x \in S : f[x] <= g[i[x]]
    PROVE  Total(f, S) <= Total(g, T)
<1> DEFINE U == Units(f, S)
           V == Units(g, T)
           j == [u \in U |-> <<i[u[1]], u[2]>>]
<1>1. \A u \in U : u = <<u[1], u[2]>> /\ u[1] \in S /\ u[2] \in Nat /\ u[2] < f[u[1]] BY DEF Units
<1>2. \A u \in U : <<i[u[1]], u[2]>> \in V
  <2> SUFFICES ASSUME NEW u \in U PROVE <<i[u[1]], u[2]>> \in V OBVIOUS
  <2>1. u[1] \in S /\ u[2] \in Nat /\ u[2] < f[u[1]] BY <1>1
  <2>2. i[u[1]] \in T /\ u[2] < g[i[u[1]]] BY <2>1
  <2> QED BY <2>1, <2>2 DEF Units
<1> HIDE DEF U, V
<1>3. j \in [U -> V] BY <1>2
<1>4. \A u, v \in U : j[u] = j[v] => u = v
  <2> SUFFICES ASSUME NEW u \in U, NEW v \in U, j[u] = j[v] PROVE u = v OBVIOUS
  <2>1. i[u[1]] = i[v[1]] /\ u[2] = v[2] OBVIOUS
  <2> QED BY <1>1, <2>1
<1> HIDE DEF j
<1>5. j \in Injection(U, V) BY <1>3, <1>4 DEF Injection, IsInjective
<1>6. IsFiniteSet(V)
  <2>1. \A s \in SUBSET T : IsFiniteSet(Units(g, s)) BY UnitsFinite
  <2> QED BY <2>1 DEF V
<1>7. Cardinality(U) <= Cardinality(V) BY <1>5, <1>6, FS_Injection
<1> QED BY <1>7 DEF Total, U, V

LEMMA CounterIsTotal ==
    ASSUME NEW w, NEW m, NEW c, NEW t, NEW S, S = Counting(w, m, c, t), IsFiniteSet(S),
           NEW f, f = [r \in S |-> Delta(w.rulings[r].proposal, c)],
           \A r \in S : f[r] \in Nat
    PROVE  CounterValue(w, m, c, t) = Total(f, S)
<1> DEFINE Step(g) == [s \in SUBSET S |-> IF s = {} THEN 0
                         ELSE Delta(w.rulings[Pick(s)].proposal, c) + g[s \ {Pick(s)}]]
           iter == CHOOSE g : g = Step(g)
           h == [s \in SUBSET S |-> Total(f, s)]
<1>1. CounterValue(w, m, c, t) = iter[S] BY DEF CounterValue, MapThenSumSet, MapThenFoldSet, Pick
<1>2. \A s \in SUBSET S : s # {} => /\ Pick(s) \in S
                                    /\ s \ {Pick(s)} \in SUBSET S
                                    /\ f[Pick(s)] = Delta(w.rulings[Pick(s)].proposal, c)
  BY DEF Pick
<1>3. \A s \in SUBSET S :
        Total(f, s) = IF s = {} THEN 0 ELSE f[Pick(s)] + Total(f, s \ {Pick(s)})
  BY TotalIsFold
<1>4. h = Step(h) BY <1>2, <1>3
<1>5. iter = Step(iter)
  <2> HIDE DEF Step, h
  <2> QED BY <1>4
<1> HIDE DEF iter
<1>6. \A s \in SUBSET S : iter[s] = IF s = {} THEN 0 ELSE f[Pick(s)] + iter[s \ {Pick(s)}]
  BY <1>2, <1>5
<1>7. iter[S] = Total(f, S)
  <2> HIDE DEF Step
  <2> QED BY <1>6, FoldIsTotal
<1> QED BY <1>1, <1>7
-----------------------------------------------------------------------------
(***************************************************************************)
(* What is counted against a ceiling.                                      *)
(***************************************************************************)
LEMMA DeltaIsNatural ==
    ASSUME NEW p \in Proposals, NEW c \in Counters
    PROVE  Delta(p, c) \in Nat
BY WorldAssumption DEF Delta, Counters

\* Only rulings that exist are counted, and finitely many.
LEMMA CountingFacts ==
    ASSUME NEW w, Sound(w), NEW m, NEW c, NEW t
    PROVE  /\ IsFiniteSet(Counting(w, m, c, t))
           /\ \A r \in Counting(w, m, c, t) : /\ r \in RulingIds /\ w.rulings[r] \in Ruling
                                              /\ w.rulings[r].proposal \in Proposals
<1>1. IsFiniteSet(RulingIds)
  <2>1. MaxRulings \in Int /\ 1 \in Int BY WorldAssumption
  <2> QED BY <2>1, FS_Interval DEF RulingIds
<1>2. Counting(w, m, c, t) \in SUBSET RulingIds BY DEF Counting
<1>3. IsFiniteSet(Counting(w, m, c, t)) BY <1>1, <1>2, FS_Subset
<1>4. \A r \in RulingIds : w.reservations[r] \in {"reserved", "settled", "held"} => w.rulings[r].status # "none"
  BY DEF Sound, CapacityIn, UsedOnceIn
<1>5. \A r \in Counting(w, m, c, t) : r \in RulingIds /\ w.rulings[r] \in Ruling
  BY <1>4 DEF Counting, Sound, World, NoRuling
<1> QED BY <1>3, <1>5 DEF Ruling

LEMMA CounterIsNatural ==
    ASSUME NEW w, Sound(w), NEW m, NEW c \in Counters, NEW t
    PROVE  CounterValue(w, m, c, t) \in Nat
<1> DEFINE S == Counting(w, m, c, t)
           f == [r \in S |-> Delta(w.rulings[r].proposal, c)]
<1>1. IsFiniteSet(S) /\ \A r \in S : w.rulings[r].proposal \in Proposals BY CountingFacts
<1>2. \A r \in S : f[r] \in Nat BY <1>1, DeltaIsNatural
<1>3. S = Counting(w, m, c, t) /\ f = [r \in S |-> Delta(w.rulings[r].proposal, c)] OBVIOUS
<1> HIDE DEF S, f
<1>4. CounterValue(w, m, c, t) = Total(f, S) BY <1>1, <1>2, <1>3, CounterIsTotal
<1>5. \A s \in SUBSET S : Total(f, s) \in Nat BY <1>1, <1>2, UnitsFinite
<1> QED BY <1>4, <1>5

\* What counts is a part of what counted.
LEMMA CounterAtMost ==
    ASSUME NEW w, Sound(w), NEW v, Sound(v), NEW m, NEW c \in Counters, NEW t, NEW u,
           \A r \in Counting(v, m, c, u) :
                r \in Counting(w, m, c, t) /\ v.rulings[r].proposal = w.rulings[r].proposal
    PROVE  CounterValue(v, m, c, u) <= CounterValue(w, m, c, t)
<1> DEFINE S == Counting(v, m, c, u)
           T == Counting(w, m, c, t)
           f == [r \in S |-> Delta(v.rulings[r].proposal, c)]
           g == [r \in T |-> Delta(w.rulings[r].proposal, c)]
           i == [r \in S |-> r]
<1>1. IsFiniteSet(S) /\ \A r \in S : v.rulings[r].proposal \in Proposals BY CountingFacts
<1>2. IsFiniteSet(T) /\ \A r \in T : w.rulings[r].proposal \in Proposals BY CountingFacts
<1>3. \A r \in S : f[r] \in Nat BY <1>1, DeltaIsNatural
<1>4. \A r \in T : g[r] \in Nat BY <1>2, DeltaIsNatural
<1>5. S = Counting(v, m, c, u) /\ f = [r \in S |-> Delta(v.rulings[r].proposal, c)] OBVIOUS
<1>6. T = Counting(w, m, c, t) /\ g = [r \in T |-> Delta(w.rulings[r].proposal, c)] OBVIOUS
<1>7. \A r \in S : r \in T /\ f[r] = g[r] OBVIOUS
<1> HIDE DEF S, T, f, g
<1>8. CounterValue(v, m, c, u) = Total(f, S) BY <1>1, <1>3, <1>5, CounterIsTotal
<1>9. CounterValue(w, m, c, t) = Total(g, T) BY <1>2, <1>4, <1>6, CounterIsTotal
<1>10. i \in [S -> T] /\ (\A x, y \in S : i[x] = i[y] => x = y) /\ \A x \in S : f[x] <= g[i[x]]
  BY <1>3, <1>7
<1> HIDE DEF i
<1>11. Total(f, S) <= Total(g, T) BY <1>2, <1>3, <1>4, <1>10, TotalAtMost
<1> QED BY <1>8, <1>9, <1>11

\* What counts is a part of what counted, and one ruling more.
LEMMA CounterAdds ==
    ASSUME NEW w, Sound(w), NEW v, Sound(v), NEW m, NEW c \in Counters, NEW t, NEW q \in RulingIds,
           NEW p \in Proposals, v.rulings[q].proposal = p,
           \A r \in Counting(v, m, c, t) \ {q} :
                r \in Counting(w, m, c, t) /\ v.rulings[r].proposal = w.rulings[r].proposal
    PROVE  CounterValue(v, m, c, t) <= CounterValue(w, m, c, t) + Delta(p, c)
<1> DEFINE S == Counting(v, m, c, t)
           T == Counting(w, m, c, t)
           f == [r \in S |-> Delta(v.rulings[r].proposal, c)]
           g == [r \in T |-> Delta(w.rulings[r].proposal, c)]
           R == S \ {q}
           i == [r \in R |-> r]
<1>1. IsFiniteSet(S) /\ \A r \in S : v.rulings[r].proposal \in Proposals BY CountingFacts
<1>2. IsFiniteSet(T) /\ \A r \in T : w.rulings[r].proposal \in Proposals BY CountingFacts
<1>3. \A r \in S : f[r] \in Nat BY <1>1, DeltaIsNatural
<1>4. \A r \in T : g[r] \in Nat BY <1>2, DeltaIsNatural
<1>5. S = Counting(v, m, c, t) /\ f = [r \in S |-> Delta(v.rulings[r].proposal, c)] OBVIOUS
<1>6. T = Counting(w, m, c, t) /\ g = [r \in T |-> Delta(w.rulings[r].proposal, c)] OBVIOUS
<1>7. \A r \in R : r \in S /\ r \in T /\ f[r] = g[r] OBVIOUS
<1>8. q \in S => f[q] = Delta(p, c) OBVIOUS
<1>9. R \in SUBSET S /\ (q \notin S => S = R) OBVIOUS
<1>10. R = S \ {q} OBVIOUS
<1> HIDE DEF S, T, f, g, R
<1>11. CounterValue(v, m, c, t) = Total(f, S) BY <1>1, <1>3, <1>5, CounterIsTotal
<1>12. CounterValue(w, m, c, t) = Total(g, T) BY <1>2, <1>4, <1>6, CounterIsTotal
<1>13. /\ i \in [R -> T] /\ (\A x, y \in R : i[x] = i[y] => x = y) /\ \A x \in R : f[x] <= g[i[x]]
       /\ \A x \in R : f[x] \in Nat
  BY <1>3, <1>7
<1> HIDE DEF i
<1>14. Total(f, R) <= Total(g, T) BY <1>2, <1>4, <1>13, TotalAtMost
<1>15. /\ IsFiniteSet(Units(f, R)) /\ Total(f, R) \in Nat /\ Total(f, S) \in Nat
       /\ Total(g, T) \in Nat /\ Delta(p, c) \in Nat
  <2>1. \A s \in SUBSET S : IsFiniteSet(Units(f, s)) /\ Total(f, s) \in Nat BY <1>1, <1>3, UnitsFinite
  <2>2. \A s \in SUBSET T : Total(g, s) \in Nat BY <1>2, <1>4, UnitsFinite
  <2> QED BY <1>9, <2>1, <2>2, DeltaIsNatural
<1>16. CASE q \in S
  <2>1. f[q] \in Nat /\ IsFiniteSet(Units(f, S \ {q})) BY <1>3, <1>10, <1>15, <1>16
  <2>2. Total(f, S) = f[q] + Total(f, S \ {q}) BY <1>16, <2>1, UnitsStep
  <2> QED BY <1>8, <1>10, <1>11, <1>12, <1>14, <1>15, <1>16, <2>2
<1>17. CASE q \notin S BY <1>9, <1>11, <1>12, <1>14, <1>15, <1>17
<1> QED BY <1>16, <1>17

-----------------------------------------------------------------------------
(***************************************************************************)
(* What is known of a world at time t besides its being Sound.             *)
(***************************************************************************)
\* Nothing is left over from before a ruling, no ruling is from the future, and
\* a denial reserves nothing.
RulingsOrderly(w, t) ==
    \A r \in RulingIds :
        /\ w.rulings[r].status = "none" => w.nonces[r] = "none"
        /\ w.rulings[r].status # "none" => w.rulings[r].issuedAt <= t
        /\ w.reservations[r] = "reserved" => w.rulings[r].verdict # "deny"

\* What an escalation may be asked for follows from what it stems from.
EscalationsOrderly(w) ==
    \A r \in RulingIds :
        LET raised == w.escalations[<<"ruling", r>>]
            recovery == w.escalations[<<"recovery", r>>]
        IN  /\ raised.state # "none" => /\ w.rulings[r].verdict = "escalate"
                                        /\ raised.contract # "recovery"
                                        /\ raised.latest >= w.rulings[r].proposal.revision
            /\ recovery.state # "none" => /\ w.commitments[r].state \in {"unknown", "reconciled"}
                                          /\ recovery.contract = "recovery"
                                          /\ recovery.disposition \in {"none", "stop"}

SuccessorsExist(w) ==
    \A e \in EscalationIds : w.escalations[e].state # "none" /\ w.escalations[e].successor # 0 =>
        w.rulings[w.escalations[e].successor].status # "none"

\* A mandate in force was written as one.
MandatesOrderly(w) ==
    \A m \in Mandates : w.mandates[m].status = "active" => w.mandates[m].record = "active"

\* While capacity is reserved under a mandate, everything counted together with
\* it is within the ceilings.
WithinCeilings(w) ==
    \A r \in RulingIds : w.reservations[r] = "reserved" =>
        LET ruling == w.rulings[r]
        IN  \A c \in Counters :
                CounterValue(w, ruling.mandate, c, ruling.issuedAt) <= w.mandates[ruling.mandate].limits[c]

Orderly(w, t) ==
    /\ Sound(w)
    /\ RulingsOrderly(w, t)
    /\ EscalationsOrderly(w)
    /\ MandatesOrderly(w)
    /\ WithinCeilings(w)
    /\ SuccessorsExist(w)
    /\ SuccessorsIn(w)

OrderlyInv == Inv /\ Orderly(world, now)

-----------------------------------------------------------------------------
(***************************************************************************)
(* What the operations do to what is there.                                *)
(***************************************************************************)
\* What a ruling says never changes.
SameRuling(x, y) ==
    /\ y.gate = x.gate /\ y.verdict = x.verdict /\ y.proposal = x.proposal
    /\ y.mandate = x.mandate /\ y.issuedAt = x.issuedAt

\* Only an open escalation changes, and then it ends.
EscalationEnds(x, y) ==
    \/ y = x
    \/ /\ x.state = "open" /\ y.state \in {"disposed", "timed_out", "cancelled"}
       /\ y.contract = x.contract /\ y.latest = x.latest /\ y.successor = x.successor
       /\ y.contract = "recovery" => y.disposition \in {x.disposition, "none", "stop"}

\* The ends and the beginnings of the lifecycles.
RulingEnds == {<<"issued", "invalidated">>, <<"issued", "expired">>}
NonceEnds == {<<"issued", "expired">>}
CapacityEnds == {<<"reserved", "released">>}
RulingBegins == {<<"none", "issued">>, <<"none", "invalidated">>, <<"issued", "invalidated">>}
NonceBegins == {<<"none", "issued">>}
CapacityBegins == {<<"none", "reserved">>, <<"none", "released">>, <<"reserved", "released">>}

\* Nothing begins: rulings, nonces, reservations and escalations end or stay.
Ends(w, v) ==
    /\ \A r \in RulingIds :
        /\ SameRuling(w.rulings[r], v.rulings[r])
        /\ v.rulings[r].successor = w.rulings[r].successor
        /\ Before(RulingEnds, w.rulings[r].status, v.rulings[r].status)
        /\ Before(NonceEnds, w.nonces[r], v.nonces[r])
        /\ Before(CapacityEnds, w.reservations[r], v.reservations[r])
    /\ v.commitments = w.commitments
    /\ \A e \in EscalationIds : EscalationEnds(w.escalations[e], v.escalations[e])

\* A proposal is ruled: rulings begin, others of its action end.
Begins(w, v) ==
    /\ \A r \in RulingIds :
        /\ w.rulings[r].status # "none" => /\ SameRuling(w.rulings[r], v.rulings[r])
                                           /\ v.rulings[r].successor = w.rulings[r].successor
        /\ Before(RulingBegins, w.rulings[r].status, v.rulings[r].status)
        /\ Before(NonceBegins, w.nonces[r], v.nonces[r])
        /\ Before(CapacityBegins, w.reservations[r], v.reservations[r])
    /\ v.commitments = w.commitments
    /\ \A e \in EscalationIds : \/ v.escalations[e] = w.escalations[e]
                                \/ w.escalations[e].state = "none" /\ v.escalations[e].state = "open"

\* A mandate that changes is out of force, with the ceilings it had.
Restricts(w, v) ==
    \A m \in Mandates :
        \/ v.mandates[m] = w.mandates[m]
        \/ v.mandates[m].status # "active" /\ v.mandates[m].limits = w.mandates[m].limits

\* An event that reaches a threshold takes its mandate out of force.
Narrows(w, v, t) ==
    /\ w.patterns \subseteq v.patterns
    /\ \A m \in Mandates :
         /\ \E x \in v.patterns \ w.patterns : x.mandate = m
         /\ EscalationPatternRequiresNarrowing(v, m, t)
         => v.mandates[m].status # "active"

\* A counter rises within the ceilings only.
Contained(w, v, t) ==
    \A m \in Mandates, c \in Counters :
        \/ CounterValue(v, m, c, t) <= CounterValue(w, m, c, t)
        \/ /\ v.mandates[m].limits[c] \in Nat
           /\ CounterValue(v, m, c, t) <= v.mandates[m].limits[c]

LEMMA EndsTransitive ==
    ASSUME NEW w, NEW u, NEW v, Ends(w, u), Ends(u, v)
    PROVE  Ends(w, v)
<1>1. ASSUME NEW r \in RulingIds
      PROVE  /\ SameRuling(w.rulings[r], v.rulings[r]) /\ v.rulings[r].successor = w.rulings[r].successor
             /\ Before(RulingEnds, w.rulings[r].status, v.rulings[r].status)
             /\ Before(NonceEnds, w.nonces[r], v.nonces[r])
             /\ Before(CapacityEnds, w.reservations[r], v.reservations[r])
  <2>1. SameRuling(w.rulings[r], v.rulings[r]) /\ v.rulings[r].successor = w.rulings[r].successor
    BY DEF Ends, SameRuling
  <2>2. Before(RulingEnds, w.rulings[r].status, v.rulings[r].status) BY DEF Ends, Before, RulingEnds
  <2>3. Before(NonceEnds, w.nonces[r], v.nonces[r]) BY DEF Ends, Before, NonceEnds
  <2>4. Before(CapacityEnds, w.reservations[r], v.reservations[r]) BY DEF Ends, Before, CapacityEnds
  <2> QED BY <2>1, <2>2, <2>3, <2>4
<1>2. \A e \in EscalationIds : EscalationEnds(w.escalations[e], v.escalations[e])
  BY DEF Ends, EscalationEnds
<1>3. v.commitments = w.commitments BY DEF Ends
<1> QED BY <1>1, <1>2, <1>3 DEF Ends

LEMMA BeginsTransitive ==
    ASSUME NEW w, NEW u, NEW v, Begins(w, u), Begins(u, v)
    PROVE  Begins(w, v)
<1>1. ASSUME NEW r \in RulingIds
      PROVE  /\ w.rulings[r].status # "none" => /\ SameRuling(w.rulings[r], v.rulings[r])
                                                /\ v.rulings[r].successor = w.rulings[r].successor
             /\ Before(RulingBegins, w.rulings[r].status, v.rulings[r].status)
             /\ Before(NonceBegins, w.nonces[r], v.nonces[r])
             /\ Before(CapacityBegins, w.reservations[r], v.reservations[r])
  <2>1. Before(RulingBegins, w.rulings[r].status, v.rulings[r].status) BY DEF Begins, Before, RulingBegins
  <2>2. Before(NonceBegins, w.nonces[r], v.nonces[r]) BY DEF Begins, Before, NonceBegins
  <2>3. Before(CapacityBegins, w.reservations[r], v.reservations[r]) BY DEF Begins, Before, CapacityBegins
  <2>4. w.rulings[r].status # "none" => u.rulings[r].status # "none" BY DEF Begins, Before, RulingBegins
  <2>5. w.rulings[r].status # "none" => /\ SameRuling(w.rulings[r], v.rulings[r])
                                        /\ v.rulings[r].successor = w.rulings[r].successor
    BY <2>4 DEF Begins, SameRuling
  <2> QED BY <2>1, <2>2, <2>3, <2>5
<1>2. \A e \in EscalationIds : \/ v.escalations[e] = w.escalations[e]
                               \/ w.escalations[e].state = "none" /\ v.escalations[e].state = "open"
  BY DEF Begins
<1>3. v.commitments = w.commitments BY DEF Begins
<1> QED BY <1>1, <1>2, <1>3 DEF Begins

LEMMA RestrictsTransitive ==
    ASSUME NEW w, NEW u, NEW v, Restricts(w, u), Restricts(u, v)
    PROVE  Restricts(w, v)
BY DEF Restricts

\* Narrowing survives what only restricts further.
LEMMA NarrowsTransitive ==
    ASSUME NEW w, NEW u, NEW v, NEW t, Narrows(w, u, t), Narrows(u, v, t), Restricts(u, v)
    PROVE  Narrows(w, v, t)
<1> SUFFICES ASSUME NEW m \in Mandates, \E x \in v.patterns \ w.patterns : x.mandate = m,
                    EscalationPatternRequiresNarrowing(v, m, t)
             PROVE  v.mandates[m].status # "active"
  BY DEF Narrows
<1>1. CASE \E x \in v.patterns \ u.patterns : x.mandate = m BY <1>1 DEF Narrows
<1>2. CASE \A x \in v.patterns \ u.patterns : x.mandate # m
  <2>1. u.patterns \subseteq v.patterns BY DEF Narrows
  <2>2. \A kind : RecentEvents(v, m, kind, t) = RecentEvents(u, m, kind, t)
    BY <1>2, <2>1 DEF RecentEvents
  <2>3. EscalationPatternRequiresNarrowing(u, m, t) BY <2>2 DEF EscalationPatternRequiresNarrowing
  <2>4. \E x \in u.patterns \ w.patterns : x.mandate = m BY <1>2
  <2>5. u.mandates[m].status # "active" BY <2>3, <2>4 DEF Narrows
  <2> QED BY <2>5 DEF Restricts
<1> QED BY <1>1, <1>2

\* Where no event is recorded, nothing has to be narrowed.
LEMMA QuietNarrows ==
    ASSUME NEW w, NEW v, NEW t, v.patterns = w.patterns
    PROVE  Narrows(w, v, t)
BY DEF Narrows

LEMMA ContainedTransitive ==
    ASSUME NEW w, NEW u, NEW v, NEW t, Sound(w), Sound(u), Sound(v),
           Contained(w, u, t), Contained(u, v, t), Restricts(u, v)
    PROVE  Contained(w, v, t)
<1> SUFFICES ASSUME NEW m \in Mandates, NEW c \in Counters
             PROVE  \/ CounterValue(v, m, c, t) <= CounterValue(w, m, c, t)
                    \/ /\ v.mandates[m].limits[c] \in Nat
                       /\ CounterValue(v, m, c, t) <= v.mandates[m].limits[c]
  BY DEF Contained
<1>1. /\ CounterValue(w, m, c, t) \in Nat /\ CounterValue(u, m, c, t) \in Nat
      /\ CounterValue(v, m, c, t) \in Nat
  BY CounterIsNatural
<1>2. u.mandates[m].limits = v.mandates[m].limits BY DEF Restricts
<1>3. /\ \/ CounterValue(u, m, c, t) <= CounterValue(w, m, c, t)
         \/ /\ u.mandates[m].limits[c] \in Nat
            /\ CounterValue(u, m, c, t) <= u.mandates[m].limits[c]
      /\ \/ CounterValue(v, m, c, t) <= CounterValue(u, m, c, t)
         \/ /\ v.mandates[m].limits[c] \in Nat
            /\ CounterValue(v, m, c, t) <= v.mandates[m].limits[c]
  BY DEF Contained
<1> QED BY <1>1, <1>2, <1>3

-----------------------------------------------------------------------------
(***************************************************************************)
(* What ends.                                                              *)
(***************************************************************************)
LEMMA StatusEnds ==
    ASSUME NEW w \in World, NEW T \in SUBSET Issued(w), NEW status \in {"invalidated", "expired"},
           NEW r \in RulingIds
    PROVE  LET x == w.rulings[r]
               y == SetStatus(w, T, status)[r]
           IN  /\ SameRuling(x, y) /\ y.successor = x.successor
               /\ Before(RulingEnds, x.status, y.status)
               /\ status = "invalidated" => Before(RulingBegins, x.status, y.status)
               /\ Before(CapacityEnds, w.reservations[r], ReleaseReserved(w, T)[r])
               /\ Before(CapacityBegins, w.reservations[r], ReleaseReserved(w, T)[r])
<1>1. CASE r \in T
  <2>1. w.rulings[r] \in Ruling /\ w.rulings[r].status = "issued" BY <1>1, IssuedIsRuling
  <2>2. SetStatus(w, T, status)[r] = [w.rulings[r] EXCEPT !.status = status] BY <1>1 DEF SetStatus
  <2>3. /\ SameRuling(w.rulings[r], SetStatus(w, T, status)[r])
        /\ SetStatus(w, T, status)[r].successor = w.rulings[r].successor
        /\ SetStatus(w, T, status)[r].status = status
    BY <2>1, <2>2 DEF SameRuling, Ruling
  <2> QED BY <2>1, <2>3 DEF Before, RulingEnds, RulingBegins, CapacityEnds, CapacityBegins, ReleaseReserved
<1>2. CASE r \notin T
  <2>1. SetStatus(w, T, status)[r] = w.rulings[r] BY <1>2 DEF SetStatus
  <2>2. ReleaseReserved(w, T)[r] = w.reservations[r] BY <1>2 DEF ReleaseReserved
  <2> QED BY <2>1, <2>2 DEF Before, SameRuling
<1> QED BY <1>1, <1>2

LEMMA InvalidateEnds ==
    ASSUME NEW w \in World, NEW S
    PROVE  LET v == Invalidate(w, S)
           IN  Ends(w, v) /\ Begins(w, v) /\ v.mandates = w.mandates /\ v.patterns = w.patterns
<1> DEFINE T == S \cap Issued(w)
           v == Invalidate(w, S)
<1>1. T \in SUBSET Issued(w) OBVIOUS
<1>2. /\ v.rulings = SetStatus(w, T, "invalidated") /\ v.reservations = ReleaseReserved(w, T)
      /\ v.nonces = w.nonces /\ v.commitments = w.commitments /\ v.escalations = w.escalations
      /\ v.mandates = w.mandates /\ v.patterns = w.patterns
  BY DEF Invalidate, World
<1> HIDE DEF T, v
<1>3. ASSUME NEW r \in RulingIds
      PROVE  /\ SameRuling(w.rulings[r], v.rulings[r]) /\ v.rulings[r].successor = w.rulings[r].successor
             /\ Before(RulingEnds, w.rulings[r].status, v.rulings[r].status)
             /\ Before(RulingBegins, w.rulings[r].status, v.rulings[r].status)
             /\ Before(CapacityEnds, w.reservations[r], v.reservations[r])
             /\ Before(CapacityBegins, w.reservations[r], v.reservations[r])
             /\ Before(NonceEnds, w.nonces[r], v.nonces[r])
             /\ Before(NonceBegins, w.nonces[r], v.nonces[r])
  <2>1. Before(NonceEnds, w.nonces[r], v.nonces[r]) /\ Before(NonceBegins, w.nonces[r], v.nonces[r])
    BY <1>2 DEF Before
  <2> QED BY <1>1, <1>2, <2>1, StatusEnds
<1>4. Ends(w, v) BY <1>2, <1>3 DEF Ends, EscalationEnds
<1>5. Begins(w, v) BY <1>2, <1>3 DEF Begins
<1> QED BY <1>2, <1>4, <1>5 DEF v

LEMMA ExpireRulingsEnds ==
    ASSUME NEW w \in World, NEW S
    PROVE  LET v == ExpireRulings(w, S)
           IN  Ends(w, v) /\ v.mandates = w.mandates /\ v.patterns = w.patterns
<1> DEFINE T == S \cap Issued(w)
           v == ExpireRulings(w, S)
<1>1. T \in SUBSET Issued(w) OBVIOUS
<1>2. /\ v.rulings = SetStatus(w, T, "expired") /\ v.reservations = ReleaseReserved(w, T)
      /\ v.nonces = w.nonces /\ v.commitments = w.commitments /\ v.escalations = w.escalations
      /\ v.mandates = w.mandates /\ v.patterns = w.patterns
  BY DEF ExpireRulings, World
<1> HIDE DEF T, v
<1>3. ASSUME NEW r \in RulingIds
      PROVE  /\ SameRuling(w.rulings[r], v.rulings[r]) /\ v.rulings[r].successor = w.rulings[r].successor
             /\ Before(RulingEnds, w.rulings[r].status, v.rulings[r].status)
             /\ Before(CapacityEnds, w.reservations[r], v.reservations[r])
             /\ Before(NonceEnds, w.nonces[r], v.nonces[r])
  <2>1. Before(NonceEnds, w.nonces[r], v.nonces[r]) BY <1>2 DEF Before
  <2> QED BY <1>1, <1>2, <2>1, StatusEnds
<1>4. Ends(w, v) BY <1>2, <1>3 DEF Ends, EscalationEnds
<1> QED BY <1>2, <1>4 DEF v

LEMMA ExpireEnds ==
    ASSUME NEW w \in World, NEW S
    PROVE  LET v == Expire(w, S)
           IN  Ends(w, v) /\ v.mandates = w.mandates /\ v.patterns = w.patterns
<1> DEFINE T == S \cap Issued(w)
           v == Expire(w, S)
<1>1. T \in SUBSET Issued(w) OBVIOUS
<1>2. /\ v.rulings = SetStatus(w, T, "expired") /\ v.reservations = ReleaseReserved(w, T)
      /\ v.commitments = w.commitments /\ v.escalations = w.escalations
      /\ v.mandates = w.mandates /\ v.patterns = w.patterns
      /\ \A r \in RulingIds : v.nonces[r] = IF r \in T /\ w.nonces[r] = "issued" THEN "expired" ELSE w.nonces[r]
  BY DEF Expire, ExpireNonces, ExpireRulings, World
<1> HIDE DEF T, v
<1>3. ASSUME NEW r \in RulingIds
      PROVE  /\ SameRuling(w.rulings[r], v.rulings[r]) /\ v.rulings[r].successor = w.rulings[r].successor
             /\ Before(RulingEnds, w.rulings[r].status, v.rulings[r].status)
             /\ Before(CapacityEnds, w.reservations[r], v.reservations[r])
             /\ Before(NonceEnds, w.nonces[r], v.nonces[r])
  <2>1. Before(NonceEnds, w.nonces[r], v.nonces[r]) BY <1>2 DEF Before, NonceEnds
  <2> QED BY <1>1, <1>2, <2>1, StatusEnds
<1>4. Ends(w, v) BY <1>2, <1>3 DEF Ends, EscalationEnds
<1> QED BY <1>2, <1>4 DEF v

LEMMA CloseEnds ==
    ASSUME NEW w \in World, NEW e \in Open(w), NEW state \in {"disposed", "timed_out", "cancelled"}, NEW d,
           w.escalations[e].contract = "recovery" => d \in {"none", "stop"}
    PROVE  LET v == Close(w, e, state, d)
           IN  Ends(w, v) /\ v.mandates = w.mandates /\ v.patterns = w.patterns
<1> DEFINE v == Close(w, e, state, d)
           x == [w.escalations[e] EXCEPT !.state = state, !.disposition = d]
<1>1. e \in EscalationIds /\ w.escalations[e].state = "open" BY DEF Open
<1>2. w.escalations[e] \in Escalation BY <1>1 DEF World, NoEscalation
<1>3. /\ x.state = state /\ x.disposition = d /\ x.contract = w.escalations[e].contract
      /\ x.latest = w.escalations[e].latest /\ x.successor = w.escalations[e].successor
  BY <1>2 DEF Escalation
<1>4. /\ v.rulings = w.rulings /\ v.nonces = w.nonces /\ v.reservations = w.reservations
      /\ v.commitments = w.commitments /\ v.mandates = w.mandates /\ v.patterns = w.patterns
      /\ v.escalations = [w.escalations EXCEPT ![e] = x]
  BY DEF Close, World
<1>5. \A i \in EscalationIds : v.escalations[i] = IF i = e THEN x ELSE w.escalations[i]
  BY <1>4 DEF World
<1> HIDE DEF v, x
<1>6. \A i \in EscalationIds : EscalationEnds(w.escalations[i], v.escalations[i])
  BY <1>1, <1>3, <1>5 DEF EscalationEnds
<1>7. Ends(w, v) BY <1>4, <1>6 DEF Ends, SameRuling, Before
<1> QED BY <1>4, <1>7 DEF v

LEMMA RecordPatternFrame ==
    ASSUME NEW w \in World, NEW kind, NEW e, NEW m, NEW t
    PROVE  LET v == RecordPattern(w, kind, e, m, t)
           IN  /\ v.rulings = w.rulings /\ v.nonces = w.nonces /\ v.reservations = w.reservations
               /\ v.commitments = w.commitments /\ v.escalations = w.escalations /\ v.mandates = w.mandates
               /\ v.patterns = w.patterns \cup {[kind |-> kind, escalation |-> e, mandate |-> m, at |-> t]}
BY DEF RecordPattern, World

\* Where rulings, nonces, reservations, escalations and commitments are the
\* same, nothing ends and nothing begins.
LEMMA SameMoves ==
    ASSUME NEW w, NEW v, v.rulings = w.rulings, v.nonces = w.nonces, v.reservations = w.reservations,
           v.commitments = w.commitments, v.escalations = w.escalations
    PROVE  Ends(w, v) /\ Begins(w, v)
<1>1. \A r \in RulingIds : SameRuling(w.rulings[r], v.rulings[r]) BY DEF SameRuling
<1>2. \A order, x : Before(order, x, x) BY DEF Before
<1>3. \A e \in EscalationIds : EscalationEnds(w.escalations[e], v.escalations[e]) BY DEF EscalationEnds
<1> QED BY <1>1, <1>2, <1>3 DEF Ends, Begins

LEMMA SameMandatesRestrict ==
    ASSUME NEW w, NEW v, v.mandates = w.mandates PROVE Restricts(w, v)
BY DEF Restricts

LEMMA PatternNarrowingMoves ==
    ASSUME NEW w, Sound(w), NEW m \in Mandates, NEW t
    PROVE  LET v == PatternNarrowing(w, m, t)
           IN  /\ Ends(w, v) /\ Begins(w, v) /\ Restricts(w, v) /\ v.patterns = w.patterns
               /\ NarrowingDue(w, m, t) => v.mandates[m].status = "suspended"
<1>1. CASE ~NarrowingDue(w, m, t)
  <2>1. PatternNarrowing(w, m, t) = w BY <1>1 DEF PatternNarrowing
  <2> QED BY <1>1, <2>1, SameMoves, SameMandatesRestrict
<1>2. CASE NarrowingDue(w, m, t)
  <2> DEFINE u == Invalidate(w, IssuedUnder(w, m))
             v == Suspend(u, m)
             x == [u.mandates[m] EXCEPT !.version = @ + 1, !.record = "suspended", !.status = "suspended"]
  <2>1. w \in World BY DEF Sound
  <2>2. Ends(w, u) /\ Begins(w, u) /\ u.mandates = w.mandates /\ u.patterns = w.patterns
    BY <2>1, InvalidateEnds
  <2>3. u \in World BY InvalidateSound DEF Sound
  <2> HIDE DEF u
  <2>4. w.mandates[m] \in Mandate BY <1>2, <2>1 DEF NarrowingDue, World, NoMandate
  <2>5. x.status = "suspended" /\ x.limits = w.mandates[m].limits BY <2>2, <2>4 DEF Mandate
  <2>6. /\ v.rulings = u.rulings /\ v.nonces = u.nonces /\ v.reservations = u.reservations
        /\ v.commitments = u.commitments /\ v.escalations = u.escalations /\ v.patterns = u.patterns
        /\ v.mandates = [u.mandates EXCEPT ![m] = x]
    BY <2>3 DEF Suspend, World
  <2>7. \A n \in Mandates : v.mandates[n] = IF n = m THEN x ELSE w.mandates[n]
    BY <2>2, <2>3, <2>6 DEF World
  <2> HIDE DEF v, x
  <2>8. Ends(u, v) /\ Begins(u, v) BY <2>6, SameMoves
  <2>9. Ends(w, v) /\ Begins(w, v) BY <2>2, <2>8, EndsTransitive, BeginsTransitive
  <2>10. Restricts(w, v) BY <2>5, <2>7 DEF Restricts
  <2>11. PatternNarrowing(w, m, t) = v BY <1>2 DEF PatternNarrowing, u, v
  <2> QED BY <1>2, <2>2, <2>5, <2>6, <2>7, <2>9, <2>10, <2>11
<1> QED BY <1>1, <1>2

\* The pattern narrowing after an event leaves nothing to narrow.
LEMMA PatternNarrows ==
    ASSUME NEW w, Sound(w), MandatesOrderly(w), NEW kind, NEW e, NEW m \in Mandates, NEW t,
           Sound(RecordPattern(w, kind, e, m, t))
    PROVE  Narrows(w, PatternNarrowing(RecordPattern(w, kind, e, m, t), m, t), t)
<1> DEFINE u == RecordPattern(w, kind, e, m, t)
           v == PatternNarrowing(u, m, t)
<1>1. /\ u.mandates = w.mandates
      /\ u.patterns = w.patterns \cup {[kind |-> kind, escalation |-> e, mandate |-> m, at |-> t]}
  BY RecordPatternFrame DEF Sound
<1> HIDE DEF u
<1>2. /\ Restricts(u, v) /\ v.patterns = u.patterns
      /\ NarrowingDue(u, m, t) => v.mandates[m].status = "suspended"
  BY PatternNarrowingMoves DEF u
<1> HIDE DEF v
<1>3. ASSUME NEW n \in Mandates, NEW x \in v.patterns \ w.patterns, x.mandate = n,
             EscalationPatternRequiresNarrowing(v, n, t)
      PROVE  v.mandates[n].status # "active"
  <2>1. n = m BY <1>1, <1>2, <1>3
  <2>2. EscalationPatternRequiresNarrowing(u, m, t)
    BY <1>2, <1>3, <2>1 DEF EscalationPatternRequiresNarrowing, RecentEvents
  <2>3. CASE NarrowingDue(u, m, t) BY <1>2, <2>1, <2>3
  <2>4. CASE ~NarrowingDue(u, m, t)
    <3>1. w.mandates[m].status = "none" \/ w.mandates[m].record # "active"
      BY <1>1, <2>2, <2>4 DEF NarrowingDue
    <3>2. w.mandates[m].status # "active" BY <3>1 DEF MandatesOrderly
    <3> QED BY <1>1, <1>2, <2>1, <3>2 DEF Restricts
  <2> QED BY <2>3, <2>4
<1>4. w.patterns \subseteq v.patterns BY <1>1, <1>2
<1>5. Narrows(w, v, t) BY <1>3, <1>4 DEF Narrows
<1> QED BY <1>5 DEF u, v

-----------------------------------------------------------------------------
(***************************************************************************)
(* What ends leaves the world in order.                                    *)
(***************************************************************************)
\* Capacity is reserved under a mandate in force.
LEMMA ReservedUnder ==
    ASSUME NEW w, NEW t, Sound(w), RulingsOrderly(w, t), NEW r \in RulingIds, w.reservations[r] = "reserved"
    PROVE  /\ r \in Issued(w) /\ w.rulings[r] \in Ruling /\ w.rulings[r].mandate \in Mandates
           /\ w.mandates[w.rulings[r].mandate] \in Mandate
           /\ w.mandates[w.rulings[r].mandate].status = "active"
           /\ w.mandates[w.rulings[r].mandate].limits \in [Counters -> Nat]
<1>1. r \in Issued(w) BY DEF Sound, CapacityIn, Issued
<1>2. w.rulings[r] \in Ruling BY <1>1, IssuedIsRuling DEF Sound
<1>3. w.rulings[r].mandate \in Mandates BY <1>2 DEF Ruling
<1>4. w.mandates[w.rulings[r].mandate].status = "active"
  BY <1>1 DEF Sound, CurrentIn, RulingsOrderly
<1>5. w.mandates[w.rulings[r].mandate] \in Mandate BY <1>3, <1>4 DEF Sound, World, NoMandate
<1> QED BY <1>1, <1>2, <1>3, <1>4, <1>5 DEF Mandate

LEMMA EndsContained ==
    ASSUME NEW w, NEW v, Sound(w), Sound(v), Ends(w, v)
    PROVE  \A m, t : \A c \in Counters : CounterValue(v, m, c, t) <= CounterValue(w, m, c, t)
<1> SUFFICES ASSUME NEW m, NEW t, NEW c \in Counters
             PROVE  CounterValue(v, m, c, t) <= CounterValue(w, m, c, t)
  OBVIOUS
<1>1. ASSUME NEW r \in Counting(v, m, c, t)
      PROVE  r \in Counting(w, m, c, t) /\ v.rulings[r].proposal = w.rulings[r].proposal
  <2>1. r \in RulingIds /\ v.reservations[r] \in {"reserved", "settled", "held"} BY DEF Counting
  <2>2. w.reservations[r] = v.reservations[r] BY <2>1 DEF Ends, Before, CapacityEnds
  <2>3. SameRuling(w.rulings[r], v.rulings[r]) BY <2>1 DEF Ends
  <2> QED BY <2>1, <2>2, <2>3 DEF Counting, SameRuling
<1> QED BY <1>1, CounterAtMost

\* Ceilings still hold when nothing more counts and what is reserved was.
LEMMA CeilingsHold ==
    ASSUME NEW w, NEW v, NEW t, Sound(w), Sound(v), RulingsOrderly(w, t), WithinCeilings(w),
           \A m, u : \A c \in Counters : CounterValue(v, m, c, u) <= CounterValue(w, m, c, u),
           \A r \in RulingIds : v.reservations[r] = "reserved" =>
                /\ w.reservations[r] = "reserved"
                /\ v.rulings[r].mandate = w.rulings[r].mandate
                /\ v.rulings[r].issuedAt = w.rulings[r].issuedAt
                /\ v.mandates[w.rulings[r].mandate].limits = w.mandates[w.rulings[r].mandate].limits
    PROVE  WithinCeilings(v)
<1> SUFFICES ASSUME NEW r \in RulingIds, v.reservations[r] = "reserved", NEW c \in Counters
             PROVE  CounterValue(v, v.rulings[r].mandate, c, v.rulings[r].issuedAt)
                      <= v.mandates[v.rulings[r].mandate].limits[c]
  BY DEF WithinCeilings
<1> DEFINE m == w.rulings[r].mandate
           a == w.rulings[r].issuedAt
<1>1. /\ v.rulings[r].mandate = m /\ v.rulings[r].issuedAt = a /\ w.reservations[r] = "reserved"
      /\ v.mandates[m].limits[c] = w.mandates[m].limits[c]
  OBVIOUS
<1>2. CounterValue(w, m, c, a) <= w.mandates[m].limits[c] BY <1>1 DEF WithinCeilings
<1>3. w.mandates[m].limits[c] \in Nat BY <1>1, ReservedUnder
<1> HIDE DEF m, a
<1>4. CounterValue(v, m, c, a) \in Nat /\ CounterValue(w, m, c, a) \in Nat BY CounterIsNatural
<1>5. CounterValue(v, m, c, a) <= CounterValue(w, m, c, a) OBVIOUS
<1> QED BY <1>1, <1>2, <1>3, <1>4, <1>5

LEMMA EndsRulingsOrderly ==
    ASSUME NEW w, NEW v, NEW t, RulingsOrderly(w, t), Ends(w, v)
    PROVE  RulingsOrderly(v, t)
<1> SUFFICES ASSUME NEW r \in RulingIds
             PROVE  /\ v.rulings[r].status = "none" => v.nonces[r] = "none"
                    /\ v.rulings[r].status # "none" => v.rulings[r].issuedAt <= t
                    /\ v.reservations[r] = "reserved" => v.rulings[r].verdict # "deny"
  BY DEF RulingsOrderly
<1>1. /\ w.rulings[r].status = "none" => w.nonces[r] = "none"
      /\ w.rulings[r].status # "none" => w.rulings[r].issuedAt <= t
      /\ w.reservations[r] = "reserved" => w.rulings[r].verdict # "deny"
  BY DEF RulingsOrderly
<1>2. v.rulings[r].status = "none" <=> w.rulings[r].status = "none" BY DEF Ends, Before, RulingEnds
<1>3. w.nonces[r] = "none" => v.nonces[r] = "none" BY DEF Ends, Before, NonceEnds
<1>4. v.reservations[r] = "reserved" => w.reservations[r] = "reserved" BY DEF Ends, Before, CapacityEnds
<1>5. v.rulings[r].issuedAt = w.rulings[r].issuedAt /\ v.rulings[r].verdict = w.rulings[r].verdict
  BY DEF Ends, SameRuling
<1> QED BY <1>1, <1>2, <1>3, <1>4, <1>5

LEMMA EndsEscalationsOrderly ==
    ASSUME NEW w, NEW v, Sound(w), EscalationsOrderly(w), SuccessorsExist(w), SuccessorsIn(w), Ends(w, v)
    PROVE  EscalationsOrderly(v) /\ SuccessorsExist(v) /\ SuccessorsIn(v)
<1>1. \A r \in RulingIds : /\ <<"ruling", r>> \in EscalationIds /\ <<"recovery", r>> \in EscalationIds
  BY DEF EscalationIds
<1>2. \A r \in RulingIds : /\ SameRuling(w.rulings[r], v.rulings[r])
                           /\ v.rulings[r].successor = w.rulings[r].successor
                           /\ v.rulings[r].status = "none" <=> w.rulings[r].status = "none"
  BY DEF Ends, Before, RulingEnds
<1>3. \A e \in EscalationIds : EscalationEnds(w.escalations[e], v.escalations[e]) BY DEF Ends
<1>4. v.commitments = w.commitments BY DEF Ends
<1>5. \A e \in EscalationIds : w.escalations[e].state # "none" =>
        w.escalations[e].successor \in RulingIds \cup {0}
  BY DEF Sound, World, NoEscalation, Escalation
<1>6. \A e \in EscalationIds :
        /\ v.escalations[e].state # "none" => w.escalations[e].state # "none"
        /\ v.escalations[e].contract = w.escalations[e].contract
        /\ v.escalations[e].latest = w.escalations[e].latest
        /\ v.escalations[e].successor = w.escalations[e].successor
  BY <1>3 DEF EscalationEnds
<1>7. ASSUME NEW r \in RulingIds
      PROVE  LET raised == v.escalations[<<"ruling", r>>]
             IN  /\ raised.state # "none" => /\ v.rulings[r].verdict = "escalate"
                                             /\ raised.contract # "recovery"
                                             /\ raised.latest >= v.rulings[r].proposal.revision
  <2> DEFINE x == w.escalations[<<"ruling", r>>]
             y == v.escalations[<<"ruling", r>>]
  <2>1. /\ y.state # "none" => x.state # "none"
        /\ y.contract = x.contract /\ y.latest = x.latest /\ y.successor = x.successor
    BY <1>1, <1>6
  <2>2. /\ x.state # "none" => /\ w.rulings[r].verdict = "escalate" /\ x.contract # "recovery"
                               /\ x.latest >= w.rulings[r].proposal.revision
    BY DEF EscalationsOrderly
  <2>3. v.rulings[r].verdict = w.rulings[r].verdict /\ v.rulings[r].proposal = w.rulings[r].proposal
    BY <1>2 DEF SameRuling
  <2> QED BY <2>1, <2>2, <2>3
<1>8. ASSUME NEW r \in RulingIds, v.escalations[<<"recovery", r>>].state # "none"
      PROVE  LET recovery == v.escalations[<<"recovery", r>>]
             IN  /\ v.commitments[r].state \in {"unknown", "reconciled"}
                 /\ recovery.contract = "recovery"
                 /\ recovery.disposition \in {"none", "stop"}
  <2>1. EscalationEnds(w.escalations[<<"recovery", r>>], v.escalations[<<"recovery", r>>]) BY <1>1, <1>3
  <2>2. /\ w.commitments[r].state \in {"unknown", "reconciled"}
        /\ w.escalations[<<"recovery", r>>].contract = "recovery"
        /\ w.escalations[<<"recovery", r>>].disposition \in {"none", "stop"}
    BY <1>1, <1>6, <1>8 DEF EscalationsOrderly
  <2> QED BY <1>4, <2>1, <2>2 DEF EscalationEnds
<1>9. EscalationsOrderly(v) BY <1>7, <1>8 DEF EscalationsOrderly
<1>10. ASSUME NEW e \in EscalationIds, v.escalations[e].state # "none"
       PROVE  LET escalation == v.escalations[e]
                  source == v.rulings[e[2]]
              IN  IF escalation.successor = 0 THEN e[1] = "ruling" => source.successor = 0
                  ELSE LET next == v.rulings[escalation.successor]
                       IN  /\ source.successor = escalation.successor
                           /\ escalation.successor # e[2]
                           /\ escalation.state = "disposed"
                           /\ source.verdict = "escalate"
                           /\ escalation.disposition = "allow-within-scope" =>
                                next.proposal = source.proposal /\ next.gate = source.gate
                           /\ escalation.disposition = "narrow-or-modify" =>
                                /\ next.proposal.action = source.proposal.action
                                /\ next.proposal.revision > source.proposal.revision
  <2>1. e[2] \in RulingIds BY DEF EscalationIds
  <2>2. w.escalations[e].state # "none" /\ v.escalations[e].successor = w.escalations[e].successor
    BY <1>6, <1>10
  <2>3. CASE w.escalations[e].successor = 0 BY <1>2, <2>1, <2>2, <2>3 DEF SuccessorsIn
  <2>4. CASE w.escalations[e].successor # 0
    <3>1. w.escalations[e].state = "disposed" BY <2>2, <2>4 DEF SuccessorsIn
    <3>2. v.escalations[e] = w.escalations[e] BY <1>3, <3>1 DEF EscalationEnds
    <3>3. w.escalations[e].successor \in RulingIds BY <1>5, <2>2, <2>4
    <3>4. LET escalation == w.escalations[e]
              source == w.rulings[e[2]]
              next == w.rulings[escalation.successor]
          IN  /\ source.successor = escalation.successor
              /\ escalation.successor # e[2]
              /\ source.verdict = "escalate"
              /\ escalation.disposition = "allow-within-scope" =>
                   next.proposal = source.proposal /\ next.gate = source.gate
              /\ escalation.disposition = "narrow-or-modify" =>
                   /\ next.proposal.action = source.proposal.action
                   /\ next.proposal.revision > source.proposal.revision
      BY <2>2, <2>4 DEF SuccessorsIn
    <3>5. /\ SameRuling(w.rulings[e[2]], v.rulings[e[2]])
          /\ v.rulings[e[2]].successor = w.rulings[e[2]].successor
          /\ SameRuling(w.rulings[w.escalations[e].successor], v.rulings[w.escalations[e].successor])
      BY <1>2, <2>1, <3>3
    <3> QED BY <2>4, <3>1, <3>2, <3>4, <3>5 DEF SameRuling
  <2> QED BY <2>3, <2>4
<1>11. SuccessorsIn(v) BY <1>10 DEF SuccessorsIn
<1>12. SuccessorsExist(v) BY <1>2, <1>5, <1>6 DEF SuccessorsExist
<1> QED BY <1>9, <1>11, <1>12

LEMMA EndsOrderly ==
    ASSUME NEW w, NEW v, NEW t, Orderly(w, t), Sound(v), Ends(w, v), Restricts(w, v)
    PROVE  Orderly(v, t) /\ Contained(w, v, t)
<1>1. RulingsOrderly(v, t) /\ EscalationsOrderly(v) /\ SuccessorsExist(v) /\ SuccessorsIn(v)
  BY EndsRulingsOrderly, EndsEscalationsOrderly DEF Orderly
<1>2. MandatesOrderly(v) BY DEF Orderly, MandatesOrderly, Restricts
<1>3. \A m, u : \A c \in Counters : CounterValue(v, m, c, u) <= CounterValue(w, m, c, u)
  BY EndsContained DEF Orderly
<1>4. ASSUME NEW r \in RulingIds, v.reservations[r] = "reserved"
      PROVE  /\ w.reservations[r] = "reserved"
             /\ v.rulings[r].mandate = w.rulings[r].mandate
             /\ v.rulings[r].issuedAt = w.rulings[r].issuedAt
             /\ v.mandates[w.rulings[r].mandate].limits = w.mandates[w.rulings[r].mandate].limits
  <2>1. w.reservations[r] = "reserved" BY <1>4 DEF Ends, Before, CapacityEnds
  <2>2. SameRuling(w.rulings[r], v.rulings[r]) BY DEF Ends
  <2>3. w.rulings[r].mandate \in Mandates BY <2>1, ReservedUnder DEF Orderly
  <2> QED BY <2>1, <2>2, <2>3 DEF SameRuling, Restricts
<1>5. WithinCeilings(v) BY <1>3, <1>4, CeilingsHold DEF Orderly
<1>6. Contained(w, v, t) BY <1>3 DEF Contained
<1> QED BY <1>1, <1>2, <1>5, <1>6 DEF Orderly

-----------------------------------------------------------------------------
(***************************************************************************)
(* What begins.                                                            *)
(***************************************************************************)
\* Where no ruling is, nothing else is.
LEMMA NothingLeftOver ==
    ASSUME NEW w, NEW t, Sound(w), RulingsOrderly(w, t), NEW r \in RulingIds, w.rulings[r].status = "none"
    PROVE  /\ w.nonces[r] = "none" /\ w.reservations[r] = "none" /\ w.commitments[r].state = "none"
           /\ w.escalations[<<"ruling", r>>].state = "none"
           /\ w.escalations[<<"recovery", r>>].state = "none"
<1>1. w.nonces[r] = "none" BY DEF RulingsOrderly
<1>2. w.commitments[r].state = "none" BY DEF Sound, UsedOnceIn
<1>3. w.reservations[r] \in ReservationStates BY DEF Sound, World
<1>4. w.reservations[r] = "none" BY <1>2, <1>3 DEF Sound, CapacityIn, ReservationStates
<1>5. w.rulings[r] \notin Ruling BY DEF Ruling
<1>6. <<"ruling", r>> \in EscalationIds /\ <<"recovery", r>> \in EscalationIds BY DEF EscalationIds
<1>7. w.escalations[<<"ruling", r>>] = NoEscalation /\ w.escalations[<<"recovery", r>>] = NoEscalation
  BY <1>5, <1>6 DEF Sound, LinkedIn
<1> QED BY <1>1, <1>2, <1>4, <1>7 DEF NoEscalation

LEMMA IssueRulingFrame ==
    ASSUME NEW w \in World, NEW p \in Proposals, NEW g, NEW outcome, Unused(w) # {}
    PROVE  LET v == IssueRuling(w, p, g, outcome)
               r == NextRuling(w)
           IN  /\ v.commitments = w.commitments /\ v.escalations = w.escalations
               /\ v.mandates = w.mandates /\ v.patterns = w.patterns
               /\ \A q \in RulingIds \ {r} : /\ v.rulings[q] = w.rulings[q] /\ v.nonces[q] = w.nonces[q]
                                             /\ v.reservations[q] = w.reservations[q]
               /\ v.rulings[r].status = "issued" /\ v.rulings[r].verdict = Verdict(outcome)
               /\ v.rulings[r].gate = g /\ v.rulings[r].proposal = p /\ v.rulings[r].issuedAt = now
               /\ v.rulings[r].mandate = SelectionOf(w, p).mandate /\ v.rulings[r].successor = 0
               /\ v.nonces[r] = "issued"
               /\ v.reservations[r] = IF Reserves(w, p, g, outcome) THEN "reserved" ELSE "none"
<1> DEFINE r == NextRuling(w)
           s == SelectionOf(w, p)
           capacity == IF Reserves(w, p, g, outcome) THEN "reserved" ELSE "none"
           x == [status |-> "issued", gate |-> g, verdict |-> Verdict(outcome),
                 proposal |-> p, mandate |-> s.mandate, version |-> s.version,
                 selection |-> s.id, policy |-> w.policy,
                 issuedAt |-> now, notAfter |-> NotAfter(w, p, outcome), successor |-> 0]
           v == IssueRuling(w, p, g, outcome)
<1>1. r \in RulingIds BY NextRulingFree
<1>2. v = [w EXCEPT !.frozen[p] = s, !.nonces[r] = "issued", !.reservations[r] = capacity, !.rulings[r] = x]
  BY DEF IssueRuling
<1>3. /\ x.status = "issued" /\ x.verdict = Verdict(outcome) /\ x.gate = g /\ x.proposal = p
      /\ x.issuedAt = now /\ x.mandate = s.mandate /\ x.successor = 0
  OBVIOUS
<1> HIDE DEF r, s, capacity, x, v
<1>4. /\ v.rulings = [w.rulings EXCEPT ![r] = x] /\ v.nonces = [w.nonces EXCEPT ![r] = "issued"]
      /\ v.reservations = [w.reservations EXCEPT ![r] = capacity]
      /\ v.commitments = w.commitments /\ v.escalations = w.escalations
      /\ v.mandates = w.mandates /\ v.patterns = w.patterns
  BY <1>2 DEF World
<1>5. /\ v.rulings[r] = x /\ v.nonces[r] = "issued" /\ v.reservations[r] = capacity
      /\ \A q \in RulingIds \ {r} : /\ v.rulings[q] = w.rulings[q] /\ v.nonces[q] = w.nonces[q]
                                    /\ v.reservations[q] = w.reservations[q]
  BY <1>1, <1>4 DEF World
<1> QED BY <1>3, <1>4, <1>5 DEF r, s, capacity, v

LEMMA IssueRulingBegins ==
    ASSUME NEW w, NEW t, Sound(w), RulingsOrderly(w, t), NEW p \in Proposals, NEW g, NEW outcome, Unused(w) # {}
    PROVE  Begins(w, IssueRuling(w, p, g, outcome))
<1> DEFINE r == NextRuling(w)
           v == IssueRuling(w, p, g, outcome)
<1>1. r \in RulingIds /\ w.rulings[r].status = "none" BY NextRulingFree
<1>2. /\ v.commitments = w.commitments /\ v.escalations = w.escalations
      /\ \A q \in RulingIds \ {r} : /\ v.rulings[q] = w.rulings[q] /\ v.nonces[q] = w.nonces[q]
                                    /\ v.reservations[q] = w.reservations[q]
      /\ v.rulings[r].status = "issued" /\ v.nonces[r] = "issued" /\ v.reservations[r] \in {"reserved", "none"}
  BY IssueRulingFrame DEF Sound
<1> HIDE DEF r, v
<1>3. w.nonces[r] = "none" /\ w.reservations[r] = "none" BY <1>1, NothingLeftOver
<1>4. ASSUME NEW q \in RulingIds
      PROVE  /\ w.rulings[q].status # "none" => /\ SameRuling(w.rulings[q], v.rulings[q])
                                                /\ v.rulings[q].successor = w.rulings[q].successor
             /\ Before(RulingBegins, w.rulings[q].status, v.rulings[q].status)
             /\ Before(NonceBegins, w.nonces[q], v.nonces[q])
             /\ Before(CapacityBegins, w.reservations[q], v.reservations[q])
  <2>1. CASE q = r BY <1>1, <1>2, <1>3, <2>1 DEF Before, RulingBegins, NonceBegins, CapacityBegins
  <2>2. CASE q # r BY <1>2, <2>2 DEF Before, SameRuling
  <2> QED BY <2>1, <2>2
<1>5. Begins(w, v) BY <1>2, <1>4 DEF Begins
<1> QED BY <1>5 DEF v

\* What SuccessorsIn says of one escalation, its source and its successor.
Succession(e, escalation, source, next) ==
    IF escalation.successor = 0 THEN e[1] = "ruling" => source.successor = 0
    ELSE /\ source.successor = escalation.successor
         /\ escalation.successor # e[2]
         /\ escalation.state = "disposed"
         /\ source.verdict = "escalate"
         /\ escalation.disposition = "allow-within-scope" =>
              next.proposal = source.proposal /\ next.gate = source.gate
         /\ escalation.disposition = "narrow-or-modify" =>
              /\ next.proposal.action = source.proposal.action
              /\ next.proposal.revision > source.proposal.revision

LEMMA SuccessionEach ==
    ASSUME NEW w
    PROVE  SuccessorsIn(w) <=>
             \A e \in EscalationIds : w.escalations[e].state # "none" =>
                Succession(e, w.escalations[e], w.rulings[e[2]], w.rulings[w.escalations[e].successor])
BY DEF SuccessorsIn, Succession

LEMMA IssueRulingOrderly ==
    ASSUME NEW w, Orderly(w, now), NEW p \in Proposals, NEW g \in Gates,
           NEW outcome \in {"allow", "deny", "default", "ceiling", "dialogue"}, now \in Nat,
           Freezable(w, p), Unused(w) # {}, outcome # "deny" => ~AuthorityDefect(w, p),
           Sound(IssueRuling(w, p, g, outcome))
    PROVE  LET v == IssueRuling(w, p, g, outcome) IN Orderly(v, now) /\ Contained(w, v, now)
<1> DEFINE r == NextRuling(w)
           v == IssueRuling(w, p, g, outcome)
           m0 == SelectionOf(w, p).mandate
           Res == Reserves(w, p, g, outcome)
<1>0. Sound(w) /\ w \in World /\ RulingsOrderly(w, now) /\ Sound(v) BY DEF Orderly, Sound
<1>1. r \in RulingIds /\ w.rulings[r].status = "none" BY NextRulingFree
<1>2. /\ v.commitments = w.commitments /\ v.escalations = w.escalations /\ v.mandates = w.mandates
      /\ \A q \in RulingIds \ {r} : /\ v.rulings[q] = w.rulings[q] /\ v.nonces[q] = w.nonces[q]
                                    /\ v.reservations[q] = w.reservations[q]
      /\ v.rulings[r].status = "issued" /\ v.rulings[r].verdict = Verdict(outcome)
      /\ v.rulings[r].proposal = p /\ v.rulings[r].issuedAt = now /\ v.rulings[r].mandate = m0
      /\ v.nonces[r] = "issued"
      /\ v.reservations[r] = IF Res THEN "reserved" ELSE "none"
  BY <1>0, IssueRulingFrame
<1>3. SelectionOf(w, p) \in Selection /\ m0 \in Mandates BY <1>0, FreezableSelection DEF Selection
<1>4. Res => outcome # "deny" /\ ~WouldExceed(w, p) BY DEF Reserves
<1>5. outcome # "deny" => w.mandates[m0] \in Mandate /\ w.mandates[m0].limits \in [Counters -> Nat]
  BY <1>0, <1>3 DEF AuthorityDefect, World, NoMandate, Mandate
<1>6. Verdict(outcome) = "deny" => outcome = "deny" BY DEF Verdict
<1>7. ASSUME Res, NEW c \in Counters
      PROVE  CounterValue(w, m0, c, now) + Delta(p, c) <= w.mandates[m0].limits[c]
  <2>1. CounterValue(w, m0, c, now) \in Nat /\ Delta(p, c) \in Nat BY <1>0, CounterIsNatural, DeltaIsNatural
  <2>2. w.mandates[m0].limits[c] \in Nat BY <1>4, <1>5, <1>7
  <2>3. ~(CounterValue(w, m0, c, now) + Delta(p, c) > w.mandates[m0].limits[c])
    BY <1>4, <1>7 DEF WouldExceed
  <2> QED BY <2>1, <2>2, <2>3
<1> HIDE DEF r, v, m0, Res
<1>8. RulingsOrderly(v, now)
  <2> SUFFICES ASSUME NEW q \in RulingIds
               PROVE  /\ v.rulings[q].status = "none" => v.nonces[q] = "none"
                      /\ v.rulings[q].status # "none" => v.rulings[q].issuedAt <= now
                      /\ v.reservations[q] = "reserved" => v.rulings[q].verdict # "deny"
    BY DEF RulingsOrderly
  <2>1. CASE q = r BY <1>2, <1>4, <1>6, <2>1
  <2>2. CASE q # r BY <1>0, <1>2, <2>2 DEF RulingsOrderly
  <2> QED BY <2>1, <2>2
<1>9. \A e \in EscalationIds : w.escalations[e].state # "none" => e[2] # r /\ e[2] \in RulingIds
  <2>1. \A e \in EscalationIds : w.escalations[e].state # "none" => w.rulings[e[2]] \in Ruling
    BY <1>0 DEF Sound, LinkedIn, NoEscalation
  <2>2. w.rulings[r] \notin Ruling BY <1>1 DEF Ruling
  <2> QED BY <2>1, <2>2 DEF EscalationIds
<1>10. \A e \in EscalationIds : w.escalations[e].state # "none" /\ w.escalations[e].successor # 0 =>
         w.escalations[e].successor # r /\ w.escalations[e].successor \in RulingIds
  <2>1. \A e \in EscalationIds : w.escalations[e].state # "none" =>
            w.escalations[e].successor \in RulingIds \cup {0}
    BY <1>0 DEF World, NoEscalation, Escalation
  <2> QED BY <1>1, <2>1 DEF Orderly, SuccessorsExist
<1>11. EscalationsOrderly(v)
  <2>1. \A q \in RulingIds : <<"ruling", q>> \in EscalationIds BY DEF EscalationIds
  <2>2. \A q \in RulingIds : w.escalations[<<"ruling", q>>].state # "none" => v.rulings[q] = w.rulings[q]
    BY <1>2, <1>9, <2>1
  <2>3. ASSUME NEW q \in RulingIds, w.escalations[<<"ruling", q>>].state # "none"
        PROVE  /\ v.rulings[q].verdict = "escalate"
               /\ w.escalations[<<"ruling", q>>].contract # "recovery"
               /\ w.escalations[<<"ruling", q>>].latest >= v.rulings[q].proposal.revision
    BY <2>2, <2>3 DEF Orderly, EscalationsOrderly
  <2>4. ASSUME NEW q \in RulingIds, w.escalations[<<"recovery", q>>].state # "none"
        PROVE  /\ w.commitments[q].state \in {"unknown", "reconciled"}
               /\ w.escalations[<<"recovery", q>>].contract = "recovery"
               /\ w.escalations[<<"recovery", q>>].disposition \in {"none", "stop"}
    BY <2>4 DEF Orderly, EscalationsOrderly
  <2> QED BY <1>2, <2>3, <2>4 DEF EscalationsOrderly
<1>12. SuccessorsExist(v) BY <1>2, <1>10 DEF Orderly, SuccessorsExist
<1>13. SuccessorsIn(v)
  <2>1. ASSUME NEW e \in EscalationIds, w.escalations[e].state # "none"
        PROVE  /\ v.rulings[e[2]] = w.rulings[e[2]]
               /\ w.escalations[e].successor # 0 =>
                    v.rulings[w.escalations[e].successor] = w.rulings[w.escalations[e].successor]
    BY <1>2, <1>9, <1>10, <2>1
  <2>2. ASSUME NEW e \in EscalationIds, w.escalations[e].state # "none"
        PROVE  Succession(e, w.escalations[e], v.rulings[e[2]], v.rulings[w.escalations[e].successor])
    <3>1. Succession(e, w.escalations[e], w.rulings[e[2]], w.rulings[w.escalations[e].successor])
      BY <2>2, SuccessionEach DEF Orderly
    <3>2. CASE w.escalations[e].successor = 0 BY <2>1, <2>2, <3>1, <3>2 DEF Succession
    <3>3. CASE w.escalations[e].successor # 0 BY <2>1, <2>2, <3>1, <3>3
    <3> QED BY <3>2, <3>3
  <2> QED BY <1>2, <2>2, SuccessionEach
<1>14. MandatesOrderly(v) BY <1>2 DEF Orderly, MandatesOrderly
<1>15. ASSUME NEW m, NEW c \in Counters, NEW u, r \notin Counting(v, m, c, u)
       PROVE  CounterValue(v, m, c, u) <= CounterValue(w, m, c, u)
  <2>1. \A q \in Counting(v, m, c, u) : q \in RulingIds \ {r} BY <1>15 DEF Counting
  <2>2. \A q \in Counting(v, m, c, u) :
            q \in Counting(w, m, c, u) /\ v.rulings[q].proposal = w.rulings[q].proposal
    BY <1>2, <2>1 DEF Counting
  <2> QED BY <1>0, <2>2, CounterAtMost
<1>16. ASSUME NEW m, NEW c \in Counters, NEW u, r \in Counting(v, m, c, u)
       PROVE  /\ m = m0 /\ w.mandates[m0].limits[c] \in Nat
              /\ CounterValue(v, m, c, u) <= w.mandates[m0].limits[c]
  <2>1. m = m0 /\ Res /\ (c = "actions" => Day(now) = Day(u)) BY <1>2, <1>16 DEF Counting
  <2>2. \A q \in Counting(v, m, c, u) : q \in Counting(v, m, c, now) BY <2>1 DEF Counting
  <2>3. CounterValue(v, m, c, u) <= CounterValue(v, m, c, now) BY <1>0, <2>2, CounterAtMost
  <2>4. \A q \in Counting(v, m, c, now) \ {r} :
            q \in Counting(w, m, c, now) /\ v.rulings[q].proposal = w.rulings[q].proposal
    BY <1>2 DEF Counting
  <2>5. CounterValue(v, m, c, now) <= CounterValue(w, m, c, now) + Delta(p, c)
    BY <1>0, <1>1, <1>2, <2>4, CounterAdds
  <2>6. CounterValue(w, m, c, now) + Delta(p, c) <= w.mandates[m0].limits[c] BY <1>7, <2>1
  <2>7. w.mandates[m0].limits[c] \in Nat BY <1>4, <1>5, <2>1
  <2>8. /\ CounterValue(w, m, c, now) \in Nat /\ CounterValue(v, m, c, now) \in Nat
        /\ CounterValue(v, m, c, u) \in Nat /\ Delta(p, c) \in Nat
    BY <1>0, CounterIsNatural, DeltaIsNatural
  <2> QED BY <2>1, <2>3, <2>5, <2>6, <2>7, <2>8
<1>17. Contained(w, v, now) BY <1>2, <1>15, <1>16 DEF Contained
<1>18. WithinCeilings(v)
  <2> SUFFICES ASSUME NEW q \in RulingIds, v.reservations[q] = "reserved", NEW c \in Counters
               PROVE  CounterValue(v, v.rulings[q].mandate, c, v.rulings[q].issuedAt)
                        <= v.mandates[v.rulings[q].mandate].limits[c]
    BY DEF WithinCeilings
  <2> DEFINE m == v.rulings[q].mandate
             a == v.rulings[q].issuedAt
  <2>1. CASE r \in Counting(v, m, c, a) BY <1>2, <1>16, <2>1
  <2>2. CASE r \notin Counting(v, m, c, a)
    <3>1. q # r BY <2>2 DEF Counting
    <3>2. /\ v.rulings[q] = w.rulings[q] /\ w.reservations[q] = "reserved"
      BY <1>2, <3>1
    <3>3. CounterValue(w, m, c, a) <= w.mandates[m].limits[c] BY <3>2 DEF Orderly, WithinCeilings
    <3>4. w.mandates[m].limits[c] \in Nat BY <1>0, <3>2, ReservedUnder
    <3> HIDE DEF m, a
    <3>5. CounterValue(v, m, c, a) <= CounterValue(w, m, c, a) BY <1>15, <2>2
    <3>6. CounterValue(v, m, c, a) \in Nat /\ CounterValue(w, m, c, a) \in Nat BY <1>0, CounterIsNatural
    <3>7. CounterValue(v, m, c, a) <= v.mandates[m].limits[c] BY <1>2, <3>3, <3>4, <3>5, <3>6
    <3> QED BY <3>7 DEF m, a
  <2> QED BY <2>1, <2>2
<1>19. Orderly(v, now) BY <1>0, <1>8, <1>11, <1>12, <1>13, <1>14, <1>18 DEF Orderly
<1> QED BY <1>17, <1>19 DEF v

LEMMA OpenEscalationOrderly ==
    ASSUME NEW w, NEW t, Orderly(w, t), NEW r \in RulingIds, NEW p, NEW contract \in Contracts,
           w.escalations[<<"ruling", r>>].state = "none",
           w.rulings[r].verdict = "escalate", w.rulings[r].proposal = p, w.rulings[r].successor = 0,
           p.revision \in Nat,
           Sound(OpenEscalation(w, r, p, contract))
    PROVE  LET v == OpenEscalation(w, r, p, contract)
           IN  /\ Orderly(v, t) /\ Begins(w, v) /\ Contained(w, v, t)
               /\ v.mandates = w.mandates /\ v.patterns = w.patterns
<1> DEFINE e == <<"ruling", r>>
           x == [state |-> "open", contract |-> contract, expiresAt |-> now + ResponseBound,
                 disposition |-> "none", latest |-> p.revision, successor |-> 0]
           v == OpenEscalation(w, r, p, contract)
<1>0. Sound(w) /\ w \in World /\ Sound(v) BY DEF Orderly, Sound
<1>1. e \in EscalationIds /\ \A q \in RulingIds : <<"recovery", q>> \in EscalationIds /\ <<"recovery", q>> # e
  BY DEF EscalationIds
<1>2. \A q \in RulingIds : <<"ruling", q>> \in EscalationIds /\ (<<"ruling", q>> = e => q = r)
  BY DEF EscalationIds
<1>3. e[1] = "ruling" /\ e[2] = r OBVIOUS
<1>4. /\ v.rulings = w.rulings /\ v.nonces = w.nonces /\ v.reservations = w.reservations
      /\ v.commitments = w.commitments /\ v.mandates = w.mandates /\ v.patterns = w.patterns
      /\ v.escalations = [w.escalations EXCEPT ![e] = x]
  BY <1>0 DEF OpenEscalation, World
<1>5. /\ x.state = "open" /\ x.contract = contract /\ x.contract # "recovery"
      /\ x.latest = p.revision /\ x.successor = 0
  BY DEF Contracts
<1> HIDE DEF e, x, v
<1>6. \A i \in EscalationIds : v.escalations[i] = IF i = e THEN x ELSE w.escalations[i]
  BY <1>0, <1>4 DEF World
<1>7. w.escalations[e].state = "none" BY DEF e
<1>8. Begins(w, v)
  <2>1. \A order, y : Before(order, y, y) BY DEF Before
  <2>2. \A q \in RulingIds : SameRuling(w.rulings[q], v.rulings[q]) BY <1>4 DEF SameRuling
  <2> QED BY <1>4, <1>5, <1>6, <1>7, <2>1, <2>2 DEF Begins
<1>9. \A m, u : \A c \in Counters : CounterValue(v, m, c, u) <= CounterValue(w, m, c, u)
  <2>1. \A m, c, u : \A q \in Counting(v, m, c, u) :
            q \in Counting(w, m, c, u) /\ v.rulings[q].proposal = w.rulings[q].proposal
    BY <1>4 DEF Counting
  <2> QED BY <1>0, <2>1, CounterAtMost
<1>10. Contained(w, v, t) BY <1>9 DEF Contained
<1>11. WithinCeilings(v) BY <1>0, <1>4, <1>9, CeilingsHold DEF Orderly
<1>12. RulingsOrderly(v, t) /\ MandatesOrderly(v)
  BY <1>4 DEF Orderly, RulingsOrderly, MandatesOrderly
<1>13. EscalationsOrderly(v)
  <2>1. p.revision >= p.revision OBVIOUS
  <2>2. ASSUME NEW q \in RulingIds, v.escalations[<<"ruling", q>>].state # "none"
        PROVE  /\ v.rulings[q].verdict = "escalate"
               /\ v.escalations[<<"ruling", q>>].contract # "recovery"
               /\ v.escalations[<<"ruling", q>>].latest >= v.rulings[q].proposal.revision
    <3>1. CASE q = r BY <1>2, <1>4, <1>5, <1>6, <2>1, <3>1 DEF e
    <3>2. CASE q # r
      <4>1. v.escalations[<<"ruling", q>>] = w.escalations[<<"ruling", q>>] BY <1>2, <1>6, <3>2
      <4>2. w.escalations[<<"ruling", q>>].state # "none" BY <2>2, <4>1
      <4>3. /\ w.rulings[q].verdict = "escalate"
            /\ w.escalations[<<"ruling", q>>].contract # "recovery"
            /\ w.escalations[<<"ruling", q>>].latest >= w.rulings[q].proposal.revision
        BY <4>2 DEF Orderly, EscalationsOrderly
      <4> QED BY <1>4, <4>1, <4>3
    <3> QED BY <3>1, <3>2
  <2>3. ASSUME NEW q \in RulingIds, v.escalations[<<"recovery", q>>].state # "none"
        PROVE  /\ v.commitments[q].state \in {"unknown", "reconciled"}
               /\ v.escalations[<<"recovery", q>>].contract = "recovery"
               /\ v.escalations[<<"recovery", q>>].disposition \in {"none", "stop"}
    <3>1. v.escalations[<<"recovery", q>>] = w.escalations[<<"recovery", q>>] BY <1>1, <1>6
    <3> QED BY <1>4, <2>3, <3>1 DEF Orderly, EscalationsOrderly
  <2> QED BY <2>2, <2>3 DEF EscalationsOrderly
<1>14. SuccessorsExist(v) BY <1>4, <1>5, <1>6 DEF Orderly, SuccessorsExist
<1>15. SuccessorsIn(v)
  <2>1. ASSUME NEW i \in EscalationIds, v.escalations[i].state # "none"
        PROVE  Succession(i, v.escalations[i], v.rulings[i[2]], v.rulings[v.escalations[i].successor])
    <3>1. CASE i = e BY <1>3, <1>4, <1>5, <1>6, <3>1 DEF Succession
    <3>2. CASE i # e
      <4>1. v.escalations[i] = w.escalations[i] BY <1>6, <3>2
      <4>2. Succession(i, w.escalations[i], w.rulings[i[2]], w.rulings[w.escalations[i].successor])
        BY <2>1, <4>1, SuccessionEach DEF Orderly
      <4> QED BY <1>4, <4>1, <4>2
    <3> QED BY <3>1, <3>2
  <2> QED BY <2>1, SuccessionEach
<1>16. Orderly(v, t) BY <1>0, <1>11, <1>12, <1>13, <1>14, <1>15 DEF Orderly
<1> QED BY <1>4, <1>8, <1>10, <1>16 DEF v

-----------------------------------------------------------------------------
(***************************************************************************)
(* What ends, and what begins, in order.                                   *)
(***************************************************************************)
Moves(w, v) == Orderly(v, now) /\ Restricts(w, v) /\ Narrows(w, v, now) /\ Contained(w, v, now)
Ended(w, v) == Ends(w, v) /\ Moves(w, v)
Begun(w, v) == Begins(w, v) /\ Moves(w, v)

LEMMA MovesTransitive ==
    ASSUME NEW w, NEW u, NEW v, Orderly(w, now), Moves(w, u), Moves(u, v)
    PROVE  Moves(w, v)
<1>1. Sound(w) /\ Sound(u) /\ Sound(v) BY DEF Moves, Orderly
<1>2. Restricts(w, u) /\ Restricts(u, v) /\ Contained(w, u, now) /\ Contained(u, v, now)
      /\ Narrows(w, u, now) /\ Narrows(u, v, now)
  BY DEF Moves
<1>3. Contained(w, v, now) BY <1>1, <1>2, ContainedTransitive
<1>4. Restricts(w, v) BY <1>2, RestrictsTransitive
<1>5. Narrows(w, v, now) BY <1>2, NarrowsTransitive
<1> QED BY <1>3, <1>4, <1>5 DEF Moves

LEMMA EndedTransitive ==
    ASSUME NEW w, NEW u, NEW v, Orderly(w, now), Ended(w, u), Ended(u, v)
    PROVE  Ended(w, v)
BY EndsTransitive, MovesTransitive DEF Ended

LEMMA BegunTransitive ==
    ASSUME NEW w, NEW u, NEW v, Orderly(w, now), Begun(w, u), Begun(u, v)
    PROVE  Begun(w, v)
BY BeginsTransitive, MovesTransitive DEF Begun

\* What ends without a pattern event.
LEMMA QuietEnds ==
    ASSUME NEW w, NEW v, Orderly(w, now), Sound(v), Ends(w, v), Restricts(w, v), v.patterns = w.patterns
    PROVE  Ended(w, v)
BY EndsOrderly, QuietNarrows DEF Ended, Moves

LEMMA StillMoves == ASSUME NEW w, Orderly(w, now) PROVE Ended(w, w) /\ Begun(w, w)
<1>1. Ends(w, w) /\ Begins(w, w) BY SameMoves
<1>2. Restricts(w, w) BY SameMandatesRestrict
<1>3. Ended(w, w) BY <1>1, <1>2, QuietEnds DEF Orderly
<1> QED BY <1>1, <1>3 DEF Ended, Begun

LEMMA InvalidateMoves ==
    ASSUME NEW w, Orderly(w, now), NEW S
    PROVE  Ended(w, Invalidate(w, S)) /\ Begun(w, Invalidate(w, S))
<1> DEFINE v == Invalidate(w, S)
<1>1. Ends(w, v) /\ Begins(w, v) /\ v.mandates = w.mandates /\ v.patterns = w.patterns
  BY InvalidateEnds DEF Orderly, Sound
<1>2. Sound(v) BY InvalidateSound DEF Orderly
<1> HIDE DEF v
<1>3. Ended(w, v) BY <1>1, <1>2, QuietEnds, SameMandatesRestrict
<1> QED BY <1>1, <1>3 DEF v, Ended, Begun

LEMMA ExpireMoves ==
    ASSUME NEW w, Orderly(w, now), NEW S
    PROVE  Ended(w, Expire(w, S)) /\ Ended(w, ExpireRulings(w, S))
<1>1. /\ Ends(w, Expire(w, S)) /\ Expire(w, S).mandates = w.mandates /\ Expire(w, S).patterns = w.patterns
      /\ Sound(Expire(w, S))
  BY ExpireEnds, ExpireSound DEF Orderly, Sound
<1>2. /\ Ends(w, ExpireRulings(w, S)) /\ ExpireRulings(w, S).mandates = w.mandates
      /\ ExpireRulings(w, S).patterns = w.patterns /\ Sound(ExpireRulings(w, S))
  BY ExpireRulingsEnds, ExpireRulingsSound DEF Orderly, Sound
<1>3. Restricts(w, Expire(w, S)) /\ Restricts(w, ExpireRulings(w, S)) BY <1>1, <1>2, SameMandatesRestrict
<1> QED BY <1>1, <1>2, <1>3, QuietEnds

LEMMA CloseMoves ==
    ASSUME NEW w, Orderly(w, now), NEW e \in Open(w), NEW state \in {"disposed", "timed_out", "cancelled"},
           NEW d \in {"none", "allow-within-scope", "narrow-or-modify", "stop", "answer", "abstain"},
           w.escalations[e].contract = "recovery" => d \in {"none", "stop"}
    PROVE  Ended(w, Close(w, e, state, d))
<1>1. /\ Ends(w, Close(w, e, state, d)) /\ Close(w, e, state, d).mandates = w.mandates
      /\ Close(w, e, state, d).patterns = w.patterns
  BY CloseEnds DEF Orderly, Sound
<1>2. Sound(Close(w, e, state, d)) BY CloseSound DEF Orderly
<1> QED BY <1>1, <1>2, QuietEnds, SameMandatesRestrict

\* A pattern event and the narrowing it may lead to.
LEMMA PatternMoves ==
    ASSUME NEW w, Orderly(w, now), now \in Nat, NEW kind \in {"escalation", "timeout", "override"},
           NEW e \in EscalationIds, NEW m \in Mandates
    PROVE  LET v == PatternNarrowing(RecordPattern(w, kind, e, m, now), m, now)
           IN  Ended(w, v) /\ Begun(w, v)
<1> DEFINE u == RecordPattern(w, kind, e, m, now)
           v == PatternNarrowing(u, m, now)
<1>1. Sound(w) /\ w \in World BY DEF Orderly, Sound
<1>2. Sound(u) BY <1>1, RecordPatternSound
<1>3. /\ u.rulings = w.rulings /\ u.nonces = w.nonces /\ u.reservations = w.reservations
      /\ u.commitments = w.commitments /\ u.escalations = w.escalations /\ u.mandates = w.mandates
  BY <1>1, RecordPatternFrame
<1>4. Narrows(w, v, now) BY <1>1, <1>2, PatternNarrows DEF Orderly
<1> HIDE DEF u
<1>5. Ends(w, u) /\ Begins(w, u) /\ Restricts(w, u) BY <1>3, SameMoves, SameMandatesRestrict
<1>6. Sound(v) /\ Ends(u, v) /\ Begins(u, v) /\ Restricts(u, v)
  BY <1>2, PatternNarrowingSound, PatternNarrowingMoves
<1> HIDE DEF v
<1>7. Ends(w, v) /\ Begins(w, v) /\ Restricts(w, v)
  BY <1>5, <1>6, EndsTransitive, BeginsTransitive, RestrictsTransitive
<1>8. Orderly(v, now) /\ Contained(w, v, now) BY <1>6, <1>7, EndsOrderly
<1>9. Ended(w, v) /\ Begun(w, v) BY <1>4, <1>7, <1>8 DEF Ended, Begun, Moves
<1> QED BY <1>9 DEF u, v

LEMMA OpenEscalationMoves ==
    ASSUME NEW w, Orderly(w, now), NEW r \in RulingIds, NEW p \in Proposals, NEW contract \in Contracts, now \in Nat,
           w.escalations[<<"ruling", r>>].state = "none", w.rulings[r] \in Ruling,
           w.rulings[r].verdict = "escalate", w.rulings[r].proposal = p, w.rulings[r].successor = 0
    PROVE  Begun(w, OpenEscalation(w, r, p, contract))
<1>1. Sound(OpenEscalation(w, r, p, contract)) BY OpenEscalationSound DEF Orderly
<1>2. p.revision \in Nat BY WorldAssumption
<1>3. LET v == OpenEscalation(w, r, p, contract)
      IN  /\ Orderly(v, now) /\ Begins(w, v) /\ Contained(w, v, now)
          /\ v.mandates = w.mandates /\ v.patterns = w.patterns
  BY <1>1, <1>2, OpenEscalationOrderly
<1> QED BY <1>3, SameMandatesRestrict, QuietNarrows DEF Begun, Moves

\* The new ruling is of the proposal at the gate, and everything else begins or stays.
LEMMA FreshRulingMoves ==
    ASSUME NEW w, Orderly(w, now), NEW p \in Proposals, NEW g \in Gates,
           NEW ev \in {"allow", "deny", "default", "ceiling", "dialogue"}, now \in Nat,
           Freezable(w, p), Unused(w) # {},
           \A r \in Matching(w, p, g) : w.rulings[r].status \notin {"issued", "consumed"}
    PROVE  LET v == FreshRuling(w, p, g, ev)
               r == NextRuling(w)
           IN  /\ Begun(w, v)
               /\ v.rulings[r].status # "none" /\ v.rulings[r].proposal = p /\ v.rulings[r].gate = g
<1> DEFINE base == Invalidate(w, OtherRevisions(w, p))
           r == NextRuling(base)
           m == SelectionOf(base, p).mandate
           outcome == Outcome(base, p, ev)
           ruled == IssueRuling(base, p, g, outcome)
           opened == OpenEscalation(ruled, r, p, outcome)
           raised == RecordPattern(opened, "escalation", <<"ruling", r>>, m, now)
           v == PatternNarrowing(raised, m, now)
<1>1. w \in World /\ Sound(w) BY DEF Orderly, Sound
<1>2. Sound(base) /\ base \in World /\ Issued(base) = Issued(w) \ OtherRevisions(w, p)
  BY <1>1, InvalidateSound DEF Sound
<1>3. /\ base.selection = w.selection /\ base.frozen = w.frozen
      /\ \A q \in RulingIds :
            /\ w.rulings[q] \in Ruling => /\ base.rulings[q] \in Ruling
                                          /\ base.rulings[q].proposal = w.rulings[q].proposal
                                          /\ base.rulings[q].gate = w.rulings[q].gate
            /\ base.rulings[q].status = "none" <=> w.rulings[q].status = "none"
            /\ base.rulings[q].status = "consumed" <=> w.rulings[q].status = "consumed"
            /\ q \notin Issued(w) \cap OtherRevisions(w, p) => base.rulings[q] = w.rulings[q]
  BY <1>1, InvalidateFrame
<1>4. Begun(w, base) /\ Orderly(base, now) BY InvalidateMoves DEF Begun, Moves
<1> HIDE DEF base
<1>5. Unused(base) = Unused(w) BY <1>3 DEF Unused
<1>6. r = NextRuling(w) /\ r \in RulingIds /\ base.rulings[r].status = "none"
  BY <1>5, NextRulingFree DEF NextRuling
<1>7. Freezable(base, p) BY <1>3 DEF Freezable
<1>8. m \in Mandates BY <1>2, <1>7, FreezableSelection DEF Selection
<1>9. outcome \in {"allow", "deny", "default", "ceiling", "dialogue"} BY DEF Outcome
<1>10. outcome # "deny" => ~AuthorityDefect(base, p) BY DEF Outcome
<1>11. \A q \in RulingIds : w.rulings[q].status # "none" => w.rulings[q] \in Ruling
  BY <1>1 DEF World, NoRuling
<1>12. \A q \in Matching(base, p, g) : base.rulings[q].status \notin {"issued", "consumed"}
  <2>1. \A q \in Matching(base, p, g) : q \in Matching(w, p, g) BY <1>3, <1>11 DEF Matching
  <2>2. \A q \in RulingIds : base.rulings[q].status = "issued" => q \in Issued(w) BY <1>2 DEF Issued
  <2> QED BY <1>3, <2>1, <2>2 DEF Matching, Issued
<1>13. \A q \in Issued(base) : base.rulings[q].proposal.action = p.action => base.rulings[q].proposal = p
  <2>1. \A q \in Issued(base) : q \in Issued(w) /\ q \notin OtherRevisions(w, p) /\ q \in RulingIds
    BY <1>2 DEF Issued
  <2> QED BY <1>3, <2>1 DEF OtherRevisions
<1> HIDE DEF r, m, outcome
<1>14. Sound(ruled) /\ ruled.rulings[r] \in Ruling
  BY <1>2, <1>5, <1>7, <1>9, <1>10, <1>12, <1>13, IssueRulingSound DEF r
<1>15. Orderly(ruled, now) /\ Contained(base, ruled, now)
  BY <1>4, <1>5, <1>7, <1>9, <1>10, <1>14, IssueRulingOrderly
<1>16. /\ ruled.escalations = base.escalations /\ ruled.mandates = base.mandates /\ ruled.patterns = base.patterns
       /\ ruled.rulings[r].status = "issued" /\ ruled.rulings[r].verdict = Verdict(outcome)
       /\ ruled.rulings[r].gate = g /\ ruled.rulings[r].proposal = p /\ ruled.rulings[r].successor = 0
  BY <1>2, <1>5, IssueRulingFrame DEF r
<1>17. Begins(base, ruled) BY <1>2, <1>4, <1>5, IssueRulingBegins DEF Orderly
<1> HIDE DEF ruled
<1>18. Begun(base, ruled)
  <2>1. Restricts(base, ruled) /\ Narrows(base, ruled, now) BY <1>16, SameMandatesRestrict, QuietNarrows
  <2> QED BY <1>15, <1>17, <2>1 DEF Begun, Moves
<1>19. Begun(w, ruled) BY <1>4, <1>18, BegunTransitive
<1>20. CASE outcome \notin Contracts
  <2>1. FreshRuling(w, p, g, ev) = ruled
    BY <1>20 DEF FreshRuling, base, outcome, ruled
  <2> QED BY <1>6, <1>16, <1>19, <2>1
<1>21. CASE outcome \in Contracts
  <2>1. base.escalations[<<"ruling", r>>].state = "none"
    BY <1>2, <1>4, <1>6, NothingLeftOver DEF Orderly
  <2>2. Verdict(outcome) = "escalate" BY <1>21 DEF Verdict, Contracts
  <2>3. Begun(ruled, opened)
    BY <1>6, <1>14, <1>15, <1>16, <1>21, <2>1, <2>2, OpenEscalationMoves
  <2>4. opened.rulings = ruled.rulings BY <1>14 DEF OpenEscalation, Sound, World
  <2> HIDE DEF opened
  <2>5. Orderly(opened, now) BY <2>3 DEF Begun, Moves
  <2>6. <<"ruling", r>> \in EscalationIds BY <1>6 DEF EscalationIds
  <2>7. Begun(opened, v) BY <1>8, <2>5, <2>6, PatternMoves
  <2> HIDE DEF v
  <2>8. Begun(w, v)
    <3>1. Begun(w, opened) BY <1>19, <2>3, BegunTransitive
    <3> QED BY <2>7, <3>1, BegunTransitive
  <2>9. v.rulings[r].status # "none" /\ SameRuling(opened.rulings[r], v.rulings[r])
    BY <1>6, <1>16, <2>4, <2>7 DEF Begun, Begins, Before, RulingBegins
  <2>10. FreshRuling(w, p, g, ev) = v
    BY <1>21 DEF FreshRuling, base, outcome, ruled, opened, raised, r, m, v
  <2> QED BY <1>6, <1>16, <2>4, <2>8, <2>9, <2>10 DEF SameRuling
<1> QED BY <1>20, <1>21

LEMMA BuildRulingMoves ==
    ASSUME NEW w, Orderly(w, now), NEW p \in Proposals, NEW g \in Gates,
           NEW ev \in {"allow", "deny", "default", "ceiling", "dialogue"}, now \in Nat,
           Rulable(w, p, g, ev)
    PROVE  LET v == BuildRuling(w, p, g, ev)
               r == BuiltRuling(w, p, g)
           IN  /\ Begun(w, v) /\ r \in RulingIds
               /\ v.rulings[r].status # "none" /\ v.rulings[r].proposal = p /\ v.rulings[r].gate = g
               /\ w.rulings[r].status \in {"none", "issued"}
<1>1. CASE PriorIssued(w, p, g) # {}
  <2>1. BuiltRuling(w, p, g) \in PriorIssued(w, p, g) BY <1>1 DEF BuiltRuling
  <2>2. Begun(w, w) BY StillMoves
  <2> QED BY <1>1, <2>1, <2>2 DEF BuildRuling, PriorIssued, Matching, Issued
<1>2. CASE PriorIssued(w, p, g) = {}
  <2>1. /\ Freezable(w, p) /\ Unused(w) # {}
        /\ \A r \in Matching(w, p, g) : w.rulings[r].status \notin {"issued", "consumed"}
    BY <1>2 DEF Rulable, PriorIssued, Issued, Matching
  <2>2. LET v == FreshRuling(w, p, g, ev)
            r == NextRuling(w)
        IN  /\ Begun(w, v)
            /\ v.rulings[r].status # "none" /\ v.rulings[r].proposal = p /\ v.rulings[r].gate = g
    BY <2>1, FreshRulingMoves
  <2>3. NextRuling(w) \in RulingIds /\ w.rulings[NextRuling(w)].status = "none" BY <2>1, NextRulingFree
  <2> QED BY <1>2, <2>2, <2>3 DEF BuildRuling, BuiltRuling
<1> QED BY <1>1, <1>2

-----------------------------------------------------------------------------
(***************************************************************************)
(* Ends of an escalation.                                                  *)
(***************************************************************************)
\* The disposed escalation keeps what it was raised for, and its source is no
\* longer issued.
LEMMA DisposeMoves ==
    ASSUME NEW w, Orderly(w, now), NEW e \in Open(w),
           NEW d \in {"none", "allow-within-scope", "narrow-or-modify", "stop", "answer", "abstain"},
           w.escalations[e].contract = "recovery" => d \in {"none", "stop"}
    PROVE  LET v == Dispose(w, e, d)
           IN  /\ Ended(w, v)
               /\ v.escalations[e].state = "disposed" /\ v.escalations[e].disposition = d
               /\ v.rulings[e[2]].status # "issued"
<1> DEFINE u == Close(w, e, "disposed", d)
           v == Dispose(w, e, d)
<1>1. Sound(w) /\ w \in World /\ e \in EscalationIds /\ w.escalations[e].state = "open"
  BY DEF Orderly, Sound, Open
<1>2. w.escalations[e] \in Escalation /\ e[2] \in RulingIds
  BY <1>1 DEF World, NoEscalation, EscalationIds
<1>3. u.escalations[e].state = "disposed" /\ u.escalations[e].disposition = d
  BY <1>1, <1>2 DEF Close, World, Escalation
<1>4. Ended(w, u) BY CloseMoves
<1>5. v = Invalidate(u, {e[2]}) BY DEF Dispose
<1> HIDE DEF u, v
<1>6. Orderly(u, now) /\ Sound(u) /\ u \in World BY <1>4 DEF Ended, Moves, Orderly, Sound
<1>7. Ended(u, v) BY <1>5, <1>6, InvalidateMoves
<1>8. Ended(w, v) BY <1>4, <1>7, EndedTransitive
<1>9. v.escalations = u.escalations /\ Issued(v) = Issued(u) \ {e[2]}
  BY <1>5, <1>6, InvalidateFrame, InvalidateSound
<1>10. v.rulings[e[2]].status # "issued" BY <1>2, <1>9 DEF Issued
<1> QED BY <1>3, <1>8, <1>9, <1>10 DEF v

LEMMA TimeOutOnDispositionMoves ==
    ASSUME NEW w, Orderly(w, now), NEW e \in Open(w), now \in Nat
    PROVE  Ended(w, TimeOutOnDisposition(w, e))
<1> DEFINE closed == Close(w, e, "timed_out", "none")
           ended == IF Lapsed(w, e[2]) THEN Expire(closed, {e[2]}) ELSE Invalidate(closed, {e[2]})
           m == MandateOf(w, e)
           v == PatternNarrowing(RecordPattern(ended, "timeout", e, m, now), m, now)
<1>1. e \in EscalationIds /\ m \in Mandates BY OpenIsEscalation, OpenFacts DEF MandateOf, Orderly
<1>2. Ended(w, closed) BY CloseMoves
<1> HIDE DEF closed
<1>3. Orderly(closed, now) BY <1>2 DEF Ended, Moves
<1>4. Ended(closed, ended) BY <1>3, ExpireMoves, InvalidateMoves
<1> HIDE DEF ended
<1>5. Orderly(ended, now) BY <1>4 DEF Ended, Moves
<1>6. Ended(ended, v) BY <1>1, <1>5, PatternMoves
<1> HIDE DEF v
<1>7. Ended(w, ended) BY <1>2, <1>4, EndedTransitive
<1>8. Ended(w, v) BY <1>6, <1>7, EndedTransitive
<1> QED BY <1>8 DEF TimeOutOnDisposition, closed, ended, m, v

LEMMA TimeOutOnAnswerMoves ==
    ASSUME NEW w, Orderly(w, now), NEW e \in Open(w)
    PROVE  Ended(w, TimeOutOnAnswer(w, e))
<1> DEFINE closed == Close(w, e, "timed_out", "none")
           v == TimeOutOnAnswer(w, e)
<1>1. Ended(w, closed) BY CloseMoves
<1>2. v = ExpireRulings(closed, {e[2]}) \/ v = Invalidate(closed, {e[2]}) BY DEF TimeOutOnAnswer
<1> HIDE DEF closed, v
<1>3. Orderly(closed, now) BY <1>1 DEF Ended, Moves
<1>4. Ended(closed, v) BY <1>2, <1>3, ExpireMoves, InvalidateMoves
<1>5. Ended(w, v) BY <1>1, <1>4, EndedTransitive
<1> QED BY <1>5 DEF v

LEMMA OverrideMoves ==
    ASSUME NEW w, Orderly(w, now), NEW e \in Open(w), w.escalations[e].contract # "recovery", now \in Nat
    PROVE  LET v == Override(w, e)
           IN  /\ Ended(w, v)
               /\ v.escalations[e].state = "disposed"
               /\ v.escalations[e].disposition = "allow-within-scope"
               /\ v.rulings[e[2]].status # "issued"
<1> DEFINE u == Dispose(w, e, "allow-within-scope")
           m == MandateOf(w, e)
           v == PatternNarrowing(RecordPattern(u, "override", e, m, now), m, now)
<1>1. e \in EscalationIds /\ m \in Mandates BY OpenIsEscalation, OpenFacts DEF MandateOf, Orderly
<1>2. /\ Ended(w, u)
      /\ u.escalations[e].state = "disposed" /\ u.escalations[e].disposition = "allow-within-scope"
      /\ u.rulings[e[2]].status # "issued"
  BY DisposeMoves
<1> HIDE DEF u
<1>3. Orderly(u, now) BY <1>2 DEF Ended, Moves
<1>4. Ended(u, v) BY <1>1, <1>3, PatternMoves
<1>5. v = Override(w, e) BY DEF Override, u
<1> HIDE DEF v, m
<1>6. Ended(w, v) BY <1>2, <1>4, EndedTransitive
<1>7. Ends(u, v) /\ e[2] \in RulingIds BY <1>1, <1>4 DEF Ended, EscalationIds
<1>8. v.escalations[e] = u.escalations[e] BY <1>1, <1>2, <1>7 DEF Ends, EscalationEnds
<1>9. Before(RulingEnds, u.rulings[e[2]].status, v.rulings[e[2]].status) BY <1>7 DEF Ends
<1>10. v.rulings[e[2]].status # "issued" BY <1>2, <1>9 DEF Before, RulingEnds
<1> QED BY <1>2, <1>5, <1>6, <1>8, <1>10

-----------------------------------------------------------------------------
(***************************************************************************)
(* Successors.                                                             *)
(***************************************************************************)
\* Only what rulings and escalations are followed by changes.
Touches(w, v) ==
    /\ v.nonces = w.nonces /\ v.reservations = w.reservations /\ v.commitments = w.commitments
    /\ v.mandates = w.mandates /\ v.patterns = w.patterns
    /\ \A r \in RulingIds : /\ SameRuling(w.rulings[r], v.rulings[r])
                            /\ v.rulings[r].status = w.rulings[r].status
    /\ \A e \in EscalationIds : /\ v.escalations[e].state = w.escalations[e].state
                                /\ v.escalations[e].contract = w.escalations[e].contract
                                /\ v.escalations[e].disposition = w.escalations[e].disposition

LEMMA TouchesMoves ==
    ASSUME NEW w, NEW v, Orderly(w, now), Sound(v), Touches(w, v),
           \A r \in RulingIds : v.escalations[<<"ruling", r>>].state # "none" =>
                v.escalations[<<"ruling", r>>].latest >= w.rulings[r].proposal.revision,
           SuccessorsExist(v), SuccessorsIn(v)
    PROVE  Moves(w, v)
<1>1. Sound(w) BY DEF Orderly
<1>2. \A r \in RulingIds : /\ SameRuling(w.rulings[r], v.rulings[r])
                           /\ v.rulings[r].status = w.rulings[r].status
  BY DEF Touches
<1>3. \A r \in RulingIds : <<"ruling", r>> \in EscalationIds /\ <<"recovery", r>> \in EscalationIds
  BY DEF EscalationIds
<1>4. RulingsOrderly(v, now) BY <1>2 DEF Orderly, RulingsOrderly, Touches, SameRuling
<1>5. MandatesOrderly(v) BY DEF Orderly, MandatesOrderly, Touches
<1>6. EscalationsOrderly(v)
  <2>1. ASSUME NEW r \in RulingIds, v.escalations[<<"ruling", r>>].state # "none"
        PROVE  /\ v.rulings[r].verdict = "escalate"
               /\ v.escalations[<<"ruling", r>>].contract # "recovery"
               /\ v.escalations[<<"ruling", r>>].latest >= v.rulings[r].proposal.revision
    <3>1. w.escalations[<<"ruling", r>>].state # "none"
          /\ v.escalations[<<"ruling", r>>].contract = w.escalations[<<"ruling", r>>].contract
      BY <1>3, <2>1 DEF Touches
    <3>2. w.rulings[r].verdict = "escalate" /\ w.escalations[<<"ruling", r>>].contract # "recovery"
      BY <3>1 DEF Orderly, EscalationsOrderly
    <3>3. SameRuling(w.rulings[r], v.rulings[r]) BY <1>2
    <3> QED BY <2>1, <3>1, <3>2, <3>3 DEF SameRuling
  <2>2. ASSUME NEW r \in RulingIds, v.escalations[<<"recovery", r>>].state # "none"
        PROVE  /\ v.commitments[r].state \in {"unknown", "reconciled"}
               /\ v.escalations[<<"recovery", r>>].contract = "recovery"
               /\ v.escalations[<<"recovery", r>>].disposition \in {"none", "stop"}
    <3>1. /\ w.escalations[<<"recovery", r>>].state # "none"
          /\ v.escalations[<<"recovery", r>>].contract = w.escalations[<<"recovery", r>>].contract
          /\ v.escalations[<<"recovery", r>>].disposition = w.escalations[<<"recovery", r>>].disposition
          /\ v.commitments = w.commitments
      BY <1>3, <2>2 DEF Touches
    <3> QED BY <3>1 DEF Orderly, EscalationsOrderly
  <2> QED BY <2>1, <2>2 DEF EscalationsOrderly
<1>7. \A m, u : \A c \in Counters : CounterValue(v, m, c, u) <= CounterValue(w, m, c, u)
  <2>1. \A m, c, u : \A q \in Counting(v, m, c, u) :
            q \in Counting(w, m, c, u) /\ v.rulings[q].proposal = w.rulings[q].proposal
    BY <1>2 DEF Counting, Touches, SameRuling
  <2> QED BY <1>1, <2>1, CounterAtMost
<1>8. WithinCeilings(v)
  <2>1. \A r \in RulingIds : v.reservations[r] = "reserved" =>
            /\ w.reservations[r] = "reserved"
            /\ v.rulings[r].mandate = w.rulings[r].mandate
            /\ v.rulings[r].issuedAt = w.rulings[r].issuedAt
            /\ v.mandates[w.rulings[r].mandate].limits = w.mandates[w.rulings[r].mandate].limits
    BY <1>2 DEF Touches, SameRuling
  <2> QED BY <1>1, <1>7, <2>1, CeilingsHold DEF Orderly
<1>9. Orderly(v, now) BY <1>4, <1>5, <1>6, <1>8 DEF Orderly
<1>10. Restricts(w, v) /\ Narrows(w, v, now) BY SameMandatesRestrict, QuietNarrows DEF Touches
<1>11. Contained(w, v, now) BY <1>7 DEF Contained
<1> QED BY <1>9, <1>10, <1>11 DEF Moves

\* A ruling may follow a disposed escalation that has no successor yet, if it is
\* of what the disposition asks for.
LEMMA LinkSuccessorMoves ==
    ASSUME NEW w, Orderly(w, now), NEW e \in EscalationIds, NEW r \in RulingIds,
           w.escalations[e].state = "disposed",
           w.escalations[e].disposition \in {"allow-within-scope", "narrow-or-modify"},
           w.rulings[r].status # "none", r # e[2],
           w.escalations[e].disposition = "allow-within-scope" =>
                w.rulings[r].proposal = w.rulings[e[2]].proposal /\ w.rulings[r].gate = w.rulings[e[2]].gate,
           w.escalations[e].disposition = "narrow-or-modify" =>
                /\ w.rulings[r].proposal.action = w.rulings[e[2]].proposal.action
                /\ w.rulings[r].proposal.revision > w.rulings[e[2]].proposal.revision
    PROVE  Moves(w, LinkSuccessor(w, e, r)) /\ Touches(w, LinkSuccessor(w, e, r))
<1> DEFINE q == e[2]
           x == [w.rulings[q] EXCEPT !.successor = r]
           y == [w.escalations[e] EXCEPT !.successor = r]
           v == LinkSuccessor(w, e, r)
<1>1. Sound(w) /\ w \in World BY DEF Orderly, Sound
<1>2. w.escalations[e] # NoEscalation BY DEF NoEscalation
<1>3. q \in RulingIds /\ w.rulings[q] \in Ruling /\ w.escalations[e] \in Escalation
  BY <1>1, <1>2, OpenFacts
<1>4. e = <<"ruling", q>> /\ w.rulings[q].verdict = "escalate"
  <2>1. e = <<"ruling", q>> \/ e = <<"recovery", q>> BY DEF EscalationIds
  <2>2. CASE e = <<"recovery", q>> BY <1>3, <2>2 DEF Orderly, EscalationsOrderly
  <2> QED BY <1>3, <2>1, <2>2 DEF Orderly, EscalationsOrderly
<1>5. w.escalations[<<"recovery", q>>].state = "none"
  <2>1. w.commitments[q].state # "none" => w.rulings[q].verdict = "allow"
    BY <1>1, <1>3 DEF Sound, UsedOnceIn
  <2> QED BY <1>3, <1>4, <2>1 DEF Orderly, EscalationsOrderly
<1>6. /\ SameRuling(w.rulings[q], x) /\ x.status = w.rulings[q].status /\ x.successor = r
      /\ y.state = w.escalations[e].state /\ y.contract = w.escalations[e].contract
      /\ y.disposition = w.escalations[e].disposition /\ y.latest = w.escalations[e].latest /\ y.successor = r
  BY <1>3 DEF SameRuling, Ruling, Escalation
<1>7. /\ v.nonces = w.nonces /\ v.reservations = w.reservations /\ v.commitments = w.commitments
      /\ v.mandates = w.mandates /\ v.patterns = w.patterns
      /\ v.rulings = [w.rulings EXCEPT ![q] = x] /\ v.escalations = [w.escalations EXCEPT ![e] = y]
  BY <1>1, <1>3 DEF LinkSuccessor, World
<1>8. Sound(v) BY <1>1, <1>2, LinkSuccessorSound
<1> HIDE DEF v, x, y
<1>9. /\ \A i \in RulingIds : v.rulings[i] = IF i = q THEN x ELSE w.rulings[i]
      /\ \A i \in EscalationIds : v.escalations[i] = IF i = e THEN y ELSE w.escalations[i]
  BY <1>1, <1>7 DEF World
<1>10. Touches(w, v) BY <1>6, <1>7, <1>9 DEF Touches, SameRuling
<1>11. \A i \in RulingIds : v.escalations[<<"ruling", i>>].state # "none" =>
          v.escalations[<<"ruling", i>>].latest >= w.rulings[i].proposal.revision
  <2>1. \A i \in EscalationIds : /\ v.escalations[i].latest = w.escalations[i].latest
                                 /\ v.escalations[i].state = w.escalations[i].state
    BY <1>6, <1>9
  <2>2. \A i \in RulingIds : <<"ruling", i>> \in EscalationIds BY DEF EscalationIds
  <2> QED BY <2>1, <2>2 DEF Orderly, EscalationsOrderly
<1>12. SuccessorsExist(v)
  <2> SUFFICES ASSUME NEW i \in EscalationIds, v.escalations[i].state # "none", v.escalations[i].successor # 0
               PROVE  v.rulings[v.escalations[i].successor].status # "none"
    BY DEF SuccessorsExist
  <2>1. \A j \in RulingIds : v.rulings[j].status = w.rulings[j].status BY <1>10 DEF Touches
  <2>2. CASE i = e BY <1>6, <1>9, <2>1, <2>2
  <2>3. CASE i # e
    <3>1. v.escalations[i] = w.escalations[i] BY <1>9, <2>3
    <3>2. w.escalations[i].successor \in RulingIds
      BY <1>1, <3>1 DEF World, NoEscalation, Escalation
    <3> QED BY <2>1, <3>1, <3>2 DEF Orderly, SuccessorsExist
  <2> QED BY <2>2, <2>3
<1>13. SuccessorsIn(v)
  <2>1. ASSUME NEW i \in EscalationIds, v.escalations[i].state # "none"
        PROVE  Succession(i, v.escalations[i], v.rulings[i[2]], v.rulings[v.escalations[i].successor])
    <3>1. CASE i = e
      <4>1. v.escalations[i] = y /\ v.rulings[i[2]] = x BY <1>3, <1>9, <3>1
      <4>2. v.rulings[r] = w.rulings[r] BY <1>9
      <4>3. r # 0 BY DEF RulingIds
      <4> QED BY <1>4, <1>6, <3>1, <4>1, <4>2, <4>3 DEF Succession, SameRuling
    <3>2. CASE i # e
      <4>1. v.escalations[i] = w.escalations[i] BY <1>9, <3>2
      <4>2. i[2] # q
        <5>1. i = <<i[1], i[2]>> /\ i[1] \in {"ruling", "recovery"} BY DEF EscalationIds
        <5> QED BY <1>4, <1>5, <2>1, <3>2, <4>1, <5>1
      <4>3. i[2] \in RulingIds BY DEF EscalationIds
      <4>4. v.rulings[i[2]] = w.rulings[i[2]] BY <1>9, <4>2, <4>3
      <4>5. Succession(i, w.escalations[i], w.rulings[i[2]], w.rulings[w.escalations[i].successor])
        BY <2>1, <4>1, SuccessionEach DEF Orderly
      <4>6. w.escalations[i].successor # 0 =>
               SameRuling(w.rulings[w.escalations[i].successor], v.rulings[w.escalations[i].successor])
        <5>1. w.escalations[i].successor \in RulingIds \cup {0}
          BY <1>1, <2>1, <4>1 DEF World, NoEscalation, Escalation
        <5> QED BY <1>10, <5>1 DEF Touches
      <4> QED BY <4>1, <4>4, <4>5, <4>6 DEF Succession, SameRuling
    <3> QED BY <3>1, <3>2
  <2> QED BY <2>1, SuccessionEach
<1>14. Moves(w, v) BY <1>8, <1>10, <1>11, <1>12, <1>13, TouchesMoves
<1> QED BY <1>10, <1>14 DEF v

\* An attempt to continue is remembered.
LEMMA LatestMoves ==
    ASSUME NEW w, Orderly(w, now), NEW e \in EscalationIds, w.escalations[e].state # "none",
           NEW n \in Nat, n >= w.escalations[e].latest, n >= w.rulings[e[2]].proposal.revision,
           Sound([w EXCEPT !.escalations[e].latest = n])
    PROVE  LET v == [w EXCEPT !.escalations[e].latest = n]
           IN  Moves(w, v) /\ Touches(w, v) /\ v.rulings = w.rulings
<1> DEFINE y == [w.escalations[e] EXCEPT !.latest = n]
           v == [w EXCEPT !.escalations[e].latest = n]
<1>1. Sound(w) /\ w \in World BY DEF Orderly, Sound
<1>2. w.escalations[e] \in Escalation BY <1>1 DEF World, NoEscalation
<1>3. /\ y.state = w.escalations[e].state /\ y.contract = w.escalations[e].contract
      /\ y.disposition = w.escalations[e].disposition /\ y.latest = n
      /\ y.successor = w.escalations[e].successor
  BY <1>2 DEF Escalation
<1>4. /\ v.nonces = w.nonces /\ v.reservations = w.reservations /\ v.commitments = w.commitments
      /\ v.mandates = w.mandates /\ v.patterns = w.patterns /\ v.rulings = w.rulings
      /\ v.escalations = [w.escalations EXCEPT ![e] = y]
  BY <1>1 DEF World
<1> HIDE DEF v, y
<1>5. \A i \in EscalationIds : v.escalations[i] = IF i = e THEN y ELSE w.escalations[i]
  BY <1>1, <1>4 DEF World
<1>6. Touches(w, v) BY <1>3, <1>4, <1>5 DEF Touches, SameRuling
<1>7. \A i \in RulingIds : v.escalations[<<"ruling", i>>].state # "none" =>
          v.escalations[<<"ruling", i>>].latest >= w.rulings[i].proposal.revision
  <2> SUFFICES ASSUME NEW i \in RulingIds, v.escalations[<<"ruling", i>>].state # "none"
               PROVE  v.escalations[<<"ruling", i>>].latest >= w.rulings[i].proposal.revision
    OBVIOUS
  <2>1. <<"ruling", i>> \in EscalationIds BY DEF EscalationIds
  <2>2. CASE <<"ruling", i>> = e
    <3>1. e[2] = i BY <2>2
    <3> QED BY <1>3, <1>5, <2>1, <2>2, <3>1
  <2>3. CASE <<"ruling", i>> # e BY <1>5, <2>1, <2>3 DEF Orderly, EscalationsOrderly
  <2> QED BY <2>2, <2>3
<1>8. \A i \in EscalationIds : /\ v.escalations[i].state = w.escalations[i].state
                               /\ v.escalations[i].disposition = w.escalations[i].disposition
                               /\ v.escalations[i].successor = w.escalations[i].successor
  BY <1>3, <1>5
<1>9. SuccessorsExist(v) BY <1>4, <1>8 DEF Orderly, SuccessorsExist
<1>10. SuccessorsIn(v)
  <2>1. ASSUME NEW i \in EscalationIds, v.escalations[i].state # "none"
        PROVE  Succession(i, v.escalations[i], v.rulings[i[2]], v.rulings[v.escalations[i].successor])
    <3>1. Succession(i, w.escalations[i], w.rulings[i[2]], w.rulings[w.escalations[i].successor])
      BY <1>8, <2>1, SuccessionEach DEF Orderly
    <3> QED BY <1>4, <1>8, <3>1 DEF Succession
  <2> QED BY <2>1, SuccessionEach
<1>11. Sound(v) BY DEF v
<1>12. Moves(w, v) BY <1>6, <1>7, <1>9, <1>10, <1>11, TouchesMoves
<1> QED BY <1>4, <1>6, <1>12 DEF v

-----------------------------------------------------------------------------
(***************************************************************************)
(* Rerunning the gates.                                                    *)
(***************************************************************************)
\* A stage begins; its ruling, if any, exists and is of the proposal.
StageBegins(w, p, stage) ==
    /\ Begun(w, stage.world)
    /\ stage.ruling # 0 => /\ stage.ruling \in RulingIds
                           /\ stage.world.rulings[stage.ruling].status # "none"
                           /\ stage.world.rulings[stage.ruling].proposal = p

LEMMA StageMoves ==
    ASSUME NEW w, Orderly(w, now), NEW p \in Proposals, NEW g \in Gates,
           NEW ev \in {"allow", "deny", "default", "ceiling", "dialogue"}, now \in Nat
    PROVE  StageBegins(w, p, Stage(w, p, g, ev))
<1>1. CASE Rulable(w, p, g, ev)
  <2>1. Stage(w, p, g, ev).world = BuildRuling(w, p, g, ev) /\ Stage(w, p, g, ev).ruling = BuiltRuling(w, p, g)
    BY <1>1 DEF Stage
  <2>2. LET v == BuildRuling(w, p, g, ev)
            r == BuiltRuling(w, p, g)
        IN  /\ Begun(w, v) /\ r \in RulingIds
            /\ v.rulings[r].status # "none" /\ v.rulings[r].proposal = p
    BY <1>1, BuildRulingMoves
  <2> QED BY <2>1, <2>2 DEF StageBegins
<1>2. CASE ~Rulable(w, p, g, ev)
  <2>1. Stage(w, p, g, ev).world = w /\ Stage(w, p, g, ev).ruling = 0 BY <1>2 DEF Stage
  <2> QED BY <2>1, StillMoves DEF StageBegins
<1> QED BY <1>1, <1>2

LEMMA StagesBegin ==
    ASSUME NEW w, NEW p, NEW stage, NEW next, Orderly(w, now),
           StageBegins(w, p, stage), StageBegins(stage.world, p, next)
    PROVE  StageBegins(w, p, next)
BY BegunTransitive DEF StageBegins

LEMMA RerunGatesMoves ==
    ASSUME NEW w, Orderly(w, now), NEW p \in Proposals,
           NEW ev \in [{"authorize", "submit", "verify"} -> Evaluations], now \in Nat
    PROVE  StageBegins(w, p, RerunGates(w, p, ev))
<1> DEFINE authorize == Stage(w, p, "authorize", ev["authorize"])
           submit == Stage(authorize.world, p, "submit", ev["submit"])
           verify == Stage(submit.world, p, "verify", ev["verify"])
<1>1. /\ "authorize" \in Gates /\ "submit" \in Gates /\ "verify" \in Gates
      /\ \A g \in {"authorize", "submit", "verify"} : ev[g] \in {"allow", "deny", "default", "ceiling", "dialogue"}
  BY CoreAssumption DEF Gates
<1>2. StageBegins(w, p, authorize) BY <1>1, StageMoves
<1> HIDE DEF authorize
<1>3. Orderly(authorize.world, now) BY <1>2 DEF StageBegins, Begun, Moves
<1>4. StageBegins(authorize.world, p, submit) BY <1>1, <1>3, StageMoves
<1> HIDE DEF submit
<1>5. Orderly(submit.world, now) BY <1>4 DEF StageBegins, Begun, Moves
<1>6. StageBegins(submit.world, p, verify) BY <1>1, <1>5, StageMoves
<1> HIDE DEF verify
<1>7. StageBegins(w, p, submit) BY <1>2, <1>4, StagesBegin
<1>8. StageBegins(w, p, verify) BY <1>6, <1>7, StagesBegin
<1>9. RerunGates(w, p, ev) \in {authorize, submit, verify}
  BY DEF RerunGates, authorize, submit, verify
<1> QED BY <1>2, <1>7, <1>8, <1>9

-----------------------------------------------------------------------------
(***************************************************************************)
(* The sweeper.                                                            *)
(***************************************************************************)
LEMMA TimeOutAllEnds ==
    ASSUME NEW w, Sound(w)
    PROVE  LET v == TimeOutAll(w)
           IN  /\ Ends(w, v) /\ v.mandates = w.mandates
               /\ v.patterns = w.patterns \cup {[kind |-> "timeout", escalation |-> e,
                                                 mandate |-> MandateOf(w, e), at |-> now] : e \in Due(w)}
<1> DEFINE u == Invalidate(w, {e[2] : e \in Due(w)})
           f == [e \in EscalationIds |->
                    IF e \in Due(w) THEN [w.escalations[e] EXCEPT !.state = "timed_out"] ELSE w.escalations[e]]
           P == {[kind |-> "timeout", escalation |-> e, mandate |-> MandateOf(w, e), at |-> now] : e \in Due(w)}
           v == [u EXCEPT !.escalations = f, !.patterns = @ \cup P]
<1>1. w \in World /\ Sound(u) /\ u \in World BY InvalidateSound DEF Sound
<1>2. Ends(w, u) /\ u.mandates = w.mandates /\ u.patterns = w.patterns BY <1>1, InvalidateEnds
<1>3. u.escalations = w.escalations BY <1>1, InvalidateFrame
<1>4. \A e \in EscalationIds : EscalationEnds(u.escalations[e], f[e])
  <2>1. ASSUME NEW e \in Due(w) PROVE EscalationEnds(w.escalations[e], f[e])
    <3>1. e \in EscalationIds /\ w.escalations[e].state = "open" BY DEF Due, Open
    <3>2. w.escalations[e] \in Escalation BY <1>1, <3>1 DEF World, NoEscalation
    <3> QED BY <3>1, <3>2 DEF EscalationEnds, Escalation
  <2>2. \A e \in EscalationIds \ Due(w) : f[e] = w.escalations[e] OBVIOUS
  <2> HIDE DEF u, f
  <2>3. \A e \in EscalationIds : EscalationEnds(w.escalations[e], f[e])
    BY <2>1, <2>2 DEF EscalationEnds
  <2> QED BY <1>3, <2>3
<1>5. TimeOutAll(w) = v BY DEF TimeOutAll
<1> HIDE DEF u, f, P
<1>6. /\ v.rulings = u.rulings /\ v.nonces = u.nonces /\ v.reservations = u.reservations
      /\ v.commitments = u.commitments /\ v.mandates = u.mandates
      /\ v.escalations = f /\ v.patterns = u.patterns \cup P
  BY <1>1 DEF World
<1> HIDE DEF v
<1>7. Ends(u, v) BY <1>4, <1>6 DEF Ends, SameRuling, Before
<1>8. Ends(w, v) BY <1>2, <1>7, EndsTransitive
<1> QED BY <1>2, <1>5, <1>6, <1>8 DEF P

LEMMA ExpireMandatesEnds ==
    ASSUME NEW w, Sound(w)
    PROVE  LET v == ExpireMandates(w)
           IN  /\ Ends(w, v) /\ Restricts(w, v) /\ v.patterns = w.patterns
               /\ \A m \in Mandates : IF m \in Expiring(w) THEN v.mandates[m].status = "expired"
                                      ELSE v.mandates[m] = w.mandates[m]
<1> DEFINE u == Expire(w, UNION {IssuedUnder(w, m) : m \in Expiring(w)})
           f == [m \in Mandates |->
                    IF m \in Expiring(w) THEN [w.mandates[m] EXCEPT !.status = "expired"] ELSE w.mandates[m]]
           v == [u EXCEPT !.mandates = f]
<1>1. w \in World /\ u \in World BY ExpireSound DEF Sound
<1>2. Ends(w, u) /\ u.mandates = w.mandates /\ u.patterns = w.patterns BY <1>1, ExpireEnds
<1>3. \A m \in Expiring(w) : f[m].status = "expired" /\ f[m].limits = w.mandates[m].limits
  <2>1. \A m \in Mandates : w.mandates[m] \in Mandate \cup {NoMandate} BY <1>1 DEF World
  <2>2. \A m \in Expiring(w) : m \in Mandates /\ w.mandates[m] # NoMandate BY DEF Expiring, NoMandate
  <2>3. \A m \in Expiring(w) : m \in Mandates /\ w.mandates[m] \in Mandate BY <2>1, <2>2
  <2> QED BY <2>3 DEF Mandate
<1>4. \A m \in Mandates \ Expiring(w) : f[m] = w.mandates[m] OBVIOUS
<1>5. ExpireMandates(w) = v BY DEF ExpireMandates
<1> HIDE DEF u, f
<1>6. /\ v.rulings = u.rulings /\ v.nonces = u.nonces /\ v.reservations = u.reservations
      /\ v.commitments = u.commitments /\ v.escalations = u.escalations
      /\ v.patterns = u.patterns /\ v.mandates = f
  BY <1>1 DEF World
<1> HIDE DEF v
<1>7. Ends(u, v) BY <1>6, SameMoves
<1>8. Ends(w, v) BY <1>2, <1>7, EndsTransitive
<1>9. Restricts(w, v) BY <1>3, <1>4, <1>6 DEF Restricts
<1> QED BY <1>2, <1>3, <1>4, <1>5, <1>6, <1>8, <1>9

LEMMA NarrowAllEnds ==
    ASSUME NEW w, Sound(w), NEW M \in SUBSET Mandates, \A m \in M : w.mandates[m].status # "none"
    PROVE  LET v == NarrowAll(w, M)
           IN  /\ Ends(w, v) /\ Restricts(w, v) /\ v.patterns = w.patterns
               /\ \A m \in Mandates : IF m \in M THEN v.mandates[m].status = "suspended"
                                      ELSE v.mandates[m] = w.mandates[m]
<1> DEFINE u == Invalidate(w, UNION {IssuedUnder(w, m) : m \in M})
           f == [m \in Mandates |->
                    IF m \in M THEN [w.mandates[m] EXCEPT !.version = @ + 1, !.record = "suspended",
                                                          !.status = "suspended"]
                    ELSE w.mandates[m]]
           v == [u EXCEPT !.mandates = f]
<1>1. w \in World /\ u \in World BY InvalidateSound DEF Sound
<1>2. Ends(w, u) /\ u.mandates = w.mandates /\ u.patterns = w.patterns BY <1>1, InvalidateEnds
<1>3. \A m \in M : f[m].status = "suspended" /\ f[m].limits = w.mandates[m].limits
  <2>1. \A m \in M : w.mandates[m] \in Mandate BY <1>1 DEF World, NoMandate
  <2> QED BY <2>1 DEF Mandate
<1>4. \A m \in Mandates \ M : f[m] = w.mandates[m] OBVIOUS
<1>5. NarrowAll(w, M) = v BY DEF NarrowAll
<1> HIDE DEF u, f
<1>6. /\ v.rulings = u.rulings /\ v.nonces = u.nonces /\ v.reservations = u.reservations
      /\ v.commitments = u.commitments /\ v.escalations = u.escalations
      /\ v.patterns = u.patterns /\ v.mandates = f
  BY <1>1 DEF World
<1> HIDE DEF v
<1>7. Ends(u, v) BY <1>6, SameMoves
<1>8. Ends(w, v) BY <1>2, <1>7, EndsTransitive
<1>9. Restricts(w, v) BY <1>3, <1>4, <1>6 DEF Restricts
<1> QED BY <1>2, <1>3, <1>4, <1>5, <1>6, <1>8, <1>9

\* A sweep ends only, and every mandate whose new timeouts reach the threshold
\* is out of force after it.
LEMMA SweepMoves ==
    ASSUME NEW w, Orderly(w, now), now \in Nat
    PROVE  Ended(w, NarrowAll(Swept(w), ToNarrow(w, Swept(w))))
<1> DEFINE lapsed == Expire(w, LapsedRulings(w))
           timed == TimeOutAll(lapsed)
           swept == ExpireMandates(timed)
           M == ToNarrow(w, swept)
           v == NarrowAll(swept, M)
<1>1. Sound(w) /\ w \in World BY DEF Orderly, Sound
<1>2. Sound(lapsed) /\ Ends(w, lapsed) /\ lapsed.mandates = w.mandates /\ lapsed.patterns = w.patterns
  BY <1>1, ExpireSound, ExpireEnds
<1>3. lapsed.escalations = w.escalations BY <1>1 DEF Expire, ExpireNonces, ExpireRulings, World
<1> HIDE DEF lapsed
<1>4. Due(lapsed) = Due(w) BY <1>3 DEF Due, Open
<1>5. \A e \in Due(w) : MandateOf(lapsed, e) = MandateOf(w, e) /\ MandateOf(w, e) \in Mandates
  <2>1. \A e \in Due(w) : e \in Open(w) /\ e[2] \in RulingIds BY DEF Due, Open, EscalationIds
  <2>2. \A r \in RulingIds : lapsed.rulings[r].mandate = w.rulings[r].mandate
    BY <1>2 DEF Ends, SameRuling
  <2> QED BY <1>1, <2>1, <2>2, OpenIsEscalation, OpenFacts DEF MandateOf
<1>6. /\ Sound(timed) /\ Ends(lapsed, timed) /\ timed.mandates = w.mandates
      /\ timed.patterns = w.patterns \cup {[kind |-> "timeout", escalation |-> e,
                                            mandate |-> MandateOf(lapsed, e), at |-> now] : e \in Due(lapsed)}
  BY <1>2, TimeOutAllSound, TimeOutAllEnds
<1> HIDE DEF timed
<1>7. /\ Sound(swept) /\ Ends(timed, swept) /\ Restricts(timed, swept) /\ swept.patterns = timed.patterns
      /\ \A m \in Mandates : IF m \in Expiring(timed) THEN swept.mandates[m].status = "expired"
                             ELSE swept.mandates[m] = timed.mandates[m]
  BY <1>6, ExpireMandatesSound, ExpireMandatesEnds
<1>8. Expiring(timed) = Expiring(w) BY <1>6 DEF Expiring
<1> HIDE DEF swept
<1>9. M \in SUBSET Mandates /\ \A m \in M : swept.mandates[m].status # "none"
  BY <1>5 DEF ToNarrow, NarrowingDue
<1>10. /\ Sound(v) /\ Ends(swept, v) /\ Restricts(swept, v) /\ v.patterns = swept.patterns
       /\ \A m \in Mandates : IF m \in M THEN v.mandates[m].status = "suspended"
                              ELSE v.mandates[m] = swept.mandates[m]
  <2> HIDE DEF M
  <2> QED BY <1>7, <1>9, NarrowAllSound, NarrowAllEnds
<1>11. Ends(w, v) /\ Restricts(w, v)
  <2> HIDE DEF M, v
  <2>1. Ends(w, timed) /\ Restricts(w, timed) BY <1>2, <1>6, EndsTransitive, SameMandatesRestrict
  <2>2. Ends(w, swept) /\ Restricts(w, swept) BY <1>7, <2>1, EndsTransitive, RestrictsTransitive
  <2> QED BY <1>10, <2>2, EndsTransitive, RestrictsTransitive
<1>12. ASSUME NEW m \in Mandates, NEW x \in v.patterns \ w.patterns, x.mandate = m,
              EscalationPatternRequiresNarrowing(v, m, now)
       PROVE  v.mandates[m].status # "active"
  <2>1. PICK e \in Due(lapsed) : x = [kind |-> "timeout", escalation |-> e,
                                      mandate |-> MandateOf(lapsed, e), at |-> now]
    BY <1>6, <1>7, <1>10, <1>12
  <2>2. e \in Due(w) /\ m = MandateOf(w, e) BY <1>4, <1>5, <1>12, <2>1
  <2>3. EscalationPatternRequiresNarrowing(swept, m, now)
    BY <1>10, <1>12 DEF EscalationPatternRequiresNarrowing, RecentEvents
  <2>4. CASE m \in M BY <1>10, <2>4
  <2>5. CASE m \notin M /\ m \in Expiring(w) BY <1>7, <1>8, <1>10, <2>5
  <2>6. CASE m \notin M /\ m \notin Expiring(w)
    <3>1. v.mandates[m] = w.mandates[m] /\ swept.mandates[m] = w.mandates[m]
      BY <1>6, <1>7, <1>8, <1>10, <2>6
    <3>2. ~NarrowingDue(swept, m, now) BY <2>2, <2>6 DEF ToNarrow
    <3>3. w.mandates[m].status = "none" \/ w.mandates[m].record # "active"
      BY <2>3, <3>1, <3>2 DEF NarrowingDue
    <3> QED BY <3>1, <3>3 DEF Orderly, MandatesOrderly
  <2> QED BY <2>4, <2>5, <2>6
<1>13. w.patterns \subseteq v.patterns BY <1>6, <1>7, <1>10
<1>14. Narrows(w, v, now) BY <1>12, <1>13 DEF Narrows
<1>15. Orderly(v, now) /\ Contained(w, v, now)
  <2> HIDE DEF v
  <2> QED BY <1>10, <1>11, EndsOrderly
<1>16. Ended(w, v) BY <1>11, <1>14, <1>15 DEF Ended, Moves
<1> QED BY <1>16 DEF v, M, swept, timed, lapsed, Swept

-----------------------------------------------------------------------------
(***************************************************************************)
(* What a transaction comes to.                                            *)
(***************************************************************************)
\* What is bound, and under what, stays as it is.
SameBook(w, v) ==
    /\ v.commitments = w.commitments
    /\ \A r \in RulingIds : w.commitments[r].state # "none" => SameRuling(w.rulings[r], v.rulings[r])

Goes(w, v) == Orderly(v, now) /\ Narrows(w, v, now) /\ Contained(w, v, now) /\ LifecyclesIn(w, v)
Keeps(w, v) == Goes(w, v) /\ SameBook(w, v)

\* Ending first, then ruling again, then linking: no lifecycle runs backwards.
LEMMA LifecyclesCompose ==
    ASSUME NEW w, NEW u, NEW b, NEW v, Ends(w, u), Begins(u, b), Touches(b, v)
    PROVE  LifecyclesIn(w, v)
<1>1. ASSUME NEW r \in RulingIds
      PROVE  Before({"none"} \X {"issued"} \cup {"issued"} \X {"consumed", "invalidated", "expired"}
                      \cup {<<"none", "invalidated">>},
                    w.rulings[r].status, v.rulings[r].status)
  <2>1. /\ Before(RulingEnds, w.rulings[r].status, u.rulings[r].status)
        /\ Before(RulingBegins, u.rulings[r].status, b.rulings[r].status)
        /\ v.rulings[r].status = b.rulings[r].status
    BY DEF Ends, Begins, Touches
  <2> QED BY <2>1 DEF Before, RulingEnds, RulingBegins
<1>2. ASSUME NEW r \in RulingIds
      PROVE  Before({<<"none", "issued">>, <<"issued", "consumed">>, <<"issued", "expired">>},
                    w.nonces[r], v.nonces[r])
  <2>1. /\ Before(NonceEnds, w.nonces[r], u.nonces[r]) /\ Before(NonceBegins, u.nonces[r], b.nonces[r])
        /\ v.nonces[r] = b.nonces[r]
    BY DEF Ends, Begins, Touches
  <2> QED BY <2>1 DEF Before, NonceEnds, NonceBegins
<1>3. ASSUME NEW r \in RulingIds
      PROVE  Before({<<"none", "reserved">>, <<"reserved", "settled">>, <<"reserved", "released">>,
                     <<"none", "released">>, <<"settled", "held">>, <<"held", "settled">>,
                     <<"held", "released">>, <<"settled", "released">>},
                    w.reservations[r], v.reservations[r])
  <2>1. /\ Before(CapacityEnds, w.reservations[r], u.reservations[r])
        /\ Before(CapacityBegins, u.reservations[r], b.reservations[r])
        /\ v.reservations[r] = b.reservations[r]
    BY DEF Ends, Begins, Touches
  <2> QED BY <2>1 DEF Before, CapacityEnds, CapacityBegins
<1>4. v.commitments = w.commitments BY DEF Ends, Begins, Touches
<1>5. ASSUME NEW r \in RulingIds, NEW kind \in {"ruling", "recovery"}
      PROVE  Before({<<"none", "open">>} \cup {"open"} \X {"disposed", "timed_out", "cancelled"},
                    w.escalations[<<kind, r>>].state, v.escalations[<<kind, r>>].state)
  <2>1. <<kind, r>> \in EscalationIds BY DEF EscalationIds
  <2>2. EscalationEnds(w.escalations[<<kind, r>>], u.escalations[<<kind, r>>]) BY <2>1 DEF Ends
  <2>3. \/ b.escalations[<<kind, r>>] = u.escalations[<<kind, r>>]
        \/ u.escalations[<<kind, r>>].state = "none" /\ b.escalations[<<kind, r>>].state = "open"
    BY <2>1 DEF Begins
  <2>4. v.escalations[<<kind, r>>].state = b.escalations[<<kind, r>>].state BY <2>1 DEF Touches
  <2> QED BY <2>2, <2>3, <2>4 DEF Before, EscalationEnds
<1> QED BY <1>1, <1>2, <1>3, <1>4, <1>5 DEF LifecyclesIn, Before

LEMMA MovesCompose ==
    ASSUME NEW w, NEW u, NEW b, NEW v, Orderly(w, now), Ended(w, u), Begun(u, b), Moves(b, v), Touches(b, v)
    PROVE  Keeps(w, v)
<1>1. Moves(w, v)
  <2>1. Moves(w, u) /\ Moves(u, b) BY DEF Ended, Begun
  <2>2. Moves(w, b) BY <2>1, MovesTransitive
  <2> QED BY <2>2, MovesTransitive
<1>2. Ends(w, u) /\ Begins(u, b) BY DEF Ended, Begun
<1>3. LifecyclesIn(w, v) BY <1>2, LifecyclesCompose
<1>4. \A r \in RulingIds : w.commitments[r].state # "none" => w.rulings[r].status # "none"
  BY DEF Orderly, Sound, UsedOnceIn
<1>5. ASSUME NEW r \in RulingIds, w.commitments[r].state # "none"
      PROVE  SameRuling(w.rulings[r], v.rulings[r])
  <2>1. SameRuling(w.rulings[r], u.rulings[r]) /\ u.rulings[r].status # "none"
    BY <1>2, <1>4, <1>5 DEF Ends, Before, RulingEnds
  <2>2. SameRuling(u.rulings[r], b.rulings[r]) BY <1>2, <2>1 DEF Begins
  <2>3. SameRuling(b.rulings[r], v.rulings[r]) BY DEF Touches
  <2> QED BY <2>1, <2>2, <2>3 DEF SameRuling
<1>6. v.commitments = w.commitments BY <1>2 DEF Ends, Begins, Touches
<1>7. SameBook(w, v) BY <1>5, <1>6 DEF SameBook
<1> QED BY <1>1, <1>3, <1>7 DEF Keeps, Goes, Moves

LEMMA StillTouches == ASSUME NEW w PROVE Touches(w, w)
BY DEF Touches, SameRuling

LEMMA EndedKeeps ==
    ASSUME NEW w, NEW v, Orderly(w, now), Ended(w, v)
    PROVE  Keeps(w, v)
<1>1. Orderly(v, now) BY DEF Ended, Moves
<1>2. Begun(v, v) /\ Moves(v, v) BY <1>1, StillMoves DEF Begun
<1>3. Touches(v, v) BY StillTouches
<1> QED BY <1>2, <1>3, MovesCompose

LEMMA BegunKeeps ==
    ASSUME NEW w, NEW v, Orderly(w, now), Begun(w, v)
    PROVE  Keeps(w, v)
<1>1. Orderly(v, now) BY DEF Begun, Moves
<1>2. Ended(w, w) /\ Moves(v, v) BY <1>1, StillMoves DEF Begun
<1>3. Touches(v, v) BY StillTouches
<1> QED BY <1>2, <1>3, MovesCompose

\* What ends may come with another version of a mandate, if nothing is reserved
\* under it.
LEMMA EndsKeeps ==
    ASSUME NEW w, NEW v, Orderly(w, now), Sound(v), Ends(w, v), v.patterns = w.patterns, MandatesOrderly(v),
           \A r \in RulingIds : v.reservations[r] = "reserved" =>
                v.mandates[w.rulings[r].mandate].limits = w.mandates[w.rulings[r].mandate].limits
    PROVE  Keeps(w, v)
<1>1. RulingsOrderly(v, now) /\ EscalationsOrderly(v) /\ SuccessorsExist(v) /\ SuccessorsIn(v)
  BY EndsRulingsOrderly, EndsEscalationsOrderly DEF Orderly
<1>2. \A m, u : \A c \in Counters : CounterValue(v, m, c, u) <= CounterValue(w, m, c, u)
  BY EndsContained DEF Orderly
<1>3. ASSUME NEW r \in RulingIds, v.reservations[r] = "reserved"
      PROVE  /\ w.reservations[r] = "reserved"
             /\ v.rulings[r].mandate = w.rulings[r].mandate
             /\ v.rulings[r].issuedAt = w.rulings[r].issuedAt
             /\ v.mandates[w.rulings[r].mandate].limits = w.mandates[w.rulings[r].mandate].limits
  <2>1. w.reservations[r] = "reserved" BY <1>3 DEF Ends, Before, CapacityEnds
  <2>2. SameRuling(w.rulings[r], v.rulings[r]) BY DEF Ends
  <2> QED BY <1>3, <2>1, <2>2 DEF SameRuling
<1>4. WithinCeilings(v) BY <1>2, <1>3, CeilingsHold DEF Orderly
<1>5. Orderly(v, now) BY <1>1, <1>4 DEF Orderly
<1>6. Contained(w, v, now) BY <1>2 DEF Contained
<1>7. Narrows(w, v, now) BY QuietNarrows
<1>8. LifecyclesIn(w, v)
  <2>1. Begins(v, v) BY SameMoves
  <2> QED BY <2>1, StillTouches, LifecyclesCompose
<1>9. SameBook(w, v) BY DEF SameBook, Ends
<1> QED BY <1>5, <1>6, <1>7, <1>8, <1>9 DEF Keeps, Goes

-----------------------------------------------------------------------------
(***************************************************************************)
(* Authority.                                                              *)
(***************************************************************************)
\* What is reserved after a mandate is written is reserved under another one.
LEMMA MandateWritten ==
    ASSUME NEW w, NEW u, NEW v, Orderly(w, now), Sound(u), Ends(w, u),
           u.mandates = w.mandates, u.patterns = w.patterns,
           NEW m \in Mandates, NEW x, x.status = x.record,
           v = [u EXCEPT !.mandates = [u.mandates EXCEPT ![m] = x]], Sound(v),
           \A r \in Issued(u) : u.rulings[r].verdict # "deny" => u.rulings[r].mandate # m
    PROVE  Keeps(w, v)
<1>1. u \in World BY DEF Sound
<1>2. /\ v.rulings = u.rulings /\ v.nonces = u.nonces /\ v.reservations = u.reservations
      /\ v.commitments = u.commitments /\ v.escalations = u.escalations /\ v.patterns = u.patterns
      /\ v.mandates = [u.mandates EXCEPT ![m] = x]
  BY <1>1 DEF World
<1>3. \A n \in Mandates : v.mandates[n] = IF n = m THEN x ELSE w.mandates[n]
  BY <1>1, <1>2 DEF World
<1>4. Ends(u, v) BY <1>2, SameMoves
<1>5. Ends(w, v) BY <1>4, EndsTransitive
<1>6. MandatesOrderly(v) BY <1>3 DEF MandatesOrderly, Orderly
<1>7. ASSUME NEW r \in RulingIds, v.reservations[r] = "reserved"
      PROVE  v.mandates[w.rulings[r].mandate].limits = w.mandates[w.rulings[r].mandate].limits
  <2>1. RulingsOrderly(u, now) /\ u.reservations[r] = "reserved"
    BY <1>2, <1>7, EndsRulingsOrderly DEF Orderly
  <2>2. r \in Issued(u) /\ u.rulings[r].mandate \in Mandates BY <2>1, ReservedUnder
  <2>3. u.rulings[r].verdict # "deny" BY <2>1 DEF RulingsOrderly
  <2>4. u.rulings[r].mandate = w.rulings[r].mandate BY DEF Ends, SameRuling
  <2> QED BY <1>3, <2>2, <2>3, <2>4
<1> QED BY <1>2, <1>5, <1>6, <1>7, EndsKeeps

LEMMA GrantMandateGoes ==
    ASSUME OrderlyInv, NEW m \in Mandates, NEW expiry \in Expiries, NEW limits \in LimitChoices,
           GrantMandate(m, expiry, limits)
    PROVE  Keeps(world, world')
<1> DEFINE x == MandateVersion(1, "active", expiry, limits)
           v == [world EXCEPT !.mandates = [world.mandates EXCEPT ![m] = x]]
<1>1. Orderly(world, now) /\ Sound(world) BY DEF OrderlyInv, Orderly
<1>2. world' = v BY DEF GrantMandate, Transact
<1>3. Sound(v) BY <1>2, GrantMandateKeeps DEF OrderlyInv
<1>4. x.status = x.record BY DEF MandateVersion
<1>5. \A r \in Issued(world) : world.rulings[r].verdict # "deny" => world.rulings[r].mandate # m
  BY <1>1 DEF Sound, CurrentIn, GrantMandate
<1>6. Ends(world, world) BY SameMoves
<1> HIDE DEF x, v
<1>7. v = [world EXCEPT !.mandates = [world.mandates EXCEPT ![m] = x]] BY DEF v
<1>8. Keeps(world, v) BY <1>1, <1>3, <1>4, <1>5, <1>6, <1>7, MandateWritten
<1> QED BY <1>2, <1>8

LEMMA AmendMandateGoes ==
    ASSUME OrderlyInv, NEW m \in Mandates, NEW record \in AmendedRecords,
           NEW expiry \in Expiries, NEW limits \in LimitChoices,
           AmendMandate(m, record, expiry, limits)
    PROVE  Keeps(world, world')
<1> DEFINE x == MandateVersion(world.mandates[m].version + 1, record, expiry, limits)
           u == Invalidate(world, IssuedUnder(world, m))
           v == [u EXCEPT !.mandates = [u.mandates EXCEPT ![m] = x]]
<1>1. Orderly(world, now) /\ Sound(world) /\ world \in World BY DEF OrderlyInv, Orderly, Sound
<1>2. world' = v BY DEF AmendMandate, Transact
<1>3. Sound(v) BY <1>2, AmendMandateKeeps DEF OrderlyInv
<1>4. x.status = x.record BY DEF MandateVersion
<1>5. /\ Ends(world, u) /\ u.mandates = world.mandates /\ u.patterns = world.patterns
      /\ Sound(u) /\ Issued(u) = Issued(world) \ IssuedUnder(world, m)
  BY <1>1, InvalidateEnds, InvalidateSound
<1> HIDE DEF x, u
<1>6. \A r \in Issued(u) : u.rulings[r].mandate # m
  <2>1. \A r \in RulingIds : u.rulings[r].mandate = world.rulings[r].mandate BY <1>5 DEF Ends, SameRuling
  <2> QED BY <1>5, <2>1 DEF IssuedUnder, Issued
<1> HIDE DEF v
<1>7. v = [u EXCEPT !.mandates = [u.mandates EXCEPT ![m] = x]] BY DEF v
<1>8. Keeps(world, v) BY <1>1, <1>3, <1>4, <1>5, <1>6, <1>7, MandateWritten
<1> QED BY <1>2, <1>8

LEMMA RevokeMandateGoes ==
    ASSUME OrderlyInv, NEW m \in Mandates, RevokeMandate(m)
    PROVE  Keeps(world, world')
<1> DEFINE S == {r \in IssuedUnder(world, m) : world.rulings[r].version = world.mandates[m].version}
           u == Invalidate(world, S)
           x == [u.mandates[m] EXCEPT !.status = "revoked"]
           v == [u EXCEPT !.mandates = [u.mandates EXCEPT ![m] = x]]
<1>1. Orderly(world, now) /\ Sound(world) /\ world \in World BY DEF OrderlyInv, Orderly, Sound
<1>2. world' = v BY DEF RevokeMandate, Revoke, Transact
<1>3. Sound(v) BY <1>2, RevokeMandateKeeps DEF OrderlyInv
<1>4. /\ Ends(world, u) /\ u.mandates = world.mandates /\ u.patterns = world.patterns /\ u \in World
  BY <1>1, InvalidateEnds, InvalidateSound DEF Sound
<1> HIDE DEF u
<1>5. world.mandates[m] \in Mandate BY <1>1 DEF RevokeMandate, World, NoMandate
<1>6. x.status = "revoked" /\ x.limits = world.mandates[m].limits BY <1>4, <1>5 DEF Mandate
<1>7. /\ v.rulings = u.rulings /\ v.nonces = u.nonces /\ v.reservations = u.reservations
      /\ v.commitments = u.commitments /\ v.escalations = u.escalations /\ v.patterns = u.patterns
      /\ v.mandates = [u.mandates EXCEPT ![m] = x]
  BY <1>4 DEF World
<1> HIDE DEF x, v
<1>8. \A n \in Mandates : v.mandates[n] = IF n = m THEN x ELSE world.mandates[n]
  BY <1>4, <1>7 DEF World
<1>9. Ends(u, v) BY <1>7, SameMoves
<1>10. Ends(world, v) BY <1>4, <1>9, EndsTransitive
<1>11. Restricts(world, v) BY <1>6, <1>8 DEF Restricts
<1>12. Ended(world, v) BY <1>1, <1>3, <1>4, <1>7, <1>10, <1>11, QuietEnds
<1> QED BY <1>1, <1>2, <1>12, EndedKeeps

\* Where rulings, mandates and events are the same, policy and selection may change.
LEMMA OtherFieldsEnd ==
    ASSUME NEW w, NEW u, NEW v, Orderly(w, now), Ended(w, u), Sound(v),
           v.rulings = u.rulings, v.nonces = u.nonces, v.reservations = u.reservations,
           v.commitments = u.commitments, v.escalations = u.escalations, v.mandates = u.mandates,
           v.patterns = u.patterns
    PROVE  Keeps(w, v)
<1>1. Ends(u, v) /\ Restricts(u, v) BY SameMoves, SameMandatesRestrict
<1>2. Orderly(u, now) BY DEF Ended, Moves
<1>3. Ended(u, v) BY <1>1, <1>2, QuietEnds
<1>4. Ended(w, v) BY <1>3, EndedTransitive
<1> QED BY <1>4, EndedKeeps

LEMMA ReloadPolicyGoes ==
    ASSUME OrderlyInv, NEW policy \in Policies, ReloadPolicy(policy)
    PROVE  Keeps(world, world')
<1> DEFINE u == Invalidate(world, Issued(world))
           v == [u EXCEPT !.policy = policy]
<1>1. Orderly(world, now) BY DEF OrderlyInv
<1>2. world' = v BY DEF ReloadPolicy, SwitchPolicy
<1>3. Sound(v) BY <1>2, ReloadPolicyKeeps DEF OrderlyInv
<1>4. Ended(world, u) /\ u \in World BY <1>1, InvalidateMoves DEF Ended, Moves, Orderly, Sound
<1> HIDE DEF u
<1>5. /\ v.rulings = u.rulings /\ v.nonces = u.nonces /\ v.reservations = u.reservations
      /\ v.commitments = u.commitments /\ v.escalations = u.escalations /\ v.mandates = u.mandates
      /\ v.patterns = u.patterns
  BY <1>4 DEF World
<1> HIDE DEF v
<1>6. Keeps(world, v) BY <1>1, <1>3, <1>4, <1>5, OtherFieldsEnd
<1> QED BY <1>2, <1>6

LEMMA PutConversationItemsGoes ==
    ASSUME OrderlyInv, PutConversationItems
    PROVE  Keeps(world, world')
<1>1. Ended(world, Invalidate(world, Issued(world))) BY InvalidateMoves DEF OrderlyInv
<1> QED BY <1>1, EndedKeeps DEF PutConversationItems, OrderlyInv

LEMMA SelectModelGoes ==
    ASSUME OrderlyInv, NEW m \in Mandates, SelectModel(m)
    PROVE  Keeps(world, world')
<1> DEFINE u == Invalidate(world, {r \in Issued(world) : world.rulings[r].selection = world.selection.id})
           v == AppendSelection(u, m)
<1>1. Orderly(world, now) BY DEF OrderlyInv
<1>2. world' = v BY DEF SelectModel, Transact
<1>3. Sound(v) BY <1>2, SelectModelKeeps DEF OrderlyInv
<1>4. Ended(world, u) /\ u \in World BY <1>1, InvalidateMoves DEF Ended, Moves, Orderly, Sound
<1> HIDE DEF u
<1>5. /\ v.rulings = u.rulings /\ v.nonces = u.nonces /\ v.reservations = u.reservations
      /\ v.commitments = u.commitments /\ v.escalations = u.escalations /\ v.mandates = u.mandates
      /\ v.patterns = u.patterns
  BY <1>4 DEF World, AppendSelection
<1> HIDE DEF v
<1>6. Keeps(world, v) BY <1>1, <1>3, <1>4, <1>5, OtherFieldsEnd
<1> QED BY <1>2, <1>6

LEMMA RuleProposalGoes ==
    ASSUME OrderlyInv, NEW p \in Proposals, NEW g \in RuledGates, NEW ev \in Evaluations,
           RuleProposal(p, g, ev)
    PROVE  Keeps(world, world')
<1>1. g \in Gates /\ ev \in {"allow", "deny", "default", "ceiling", "dialogue"}
  BY CoreAssumption, EvaluationAnswers
<1>2. Orderly(world, now) /\ now \in Nat /\ Rulable(world, p, g, ev) BY DEF OrderlyInv, Inv, RuleProposal
<1>3. Begun(world, BuildRuling(world, p, g, ev)) BY <1>1, <1>2, BuildRulingMoves
<1> QED BY <1>2, <1>3, BegunKeeps DEF RuleProposal, Transact

-----------------------------------------------------------------------------
(***************************************************************************)
(* Escalations and the sweeper.                                            *)
(***************************************************************************)
\* What is permitted for a recovery, and what an override is permitted for.
LEMMA PermittedFacts ==
    ASSUME NEW contract \in {"default", "ceiling", "dialogue", "recovery"}, NEW d \in Permitted(contract)
    PROVE  /\ contract = "recovery" => d = "stop"
           /\ d = "allow-within-scope" => contract = "default"
BY DEF Permitted

LEMMA DisposeEscalationGoes ==
    ASSUME OrderlyInv, NEW e \in EscalationIds,
           NEW d \in {"allow-within-scope", "narrow-or-modify", "stop"}, NEW ev \in Evaluations,
           DisposeEscalation(e, d, ev)
    PROVE  Keeps(world, world')
<1> DEFINE p == world.rulings[e[2]].proposal
           g == world.rulings[e[2]].gate
           u == Override(world, e)
           b == BuildRuling(u, p, g, ev)
           r == BuiltRuling(u, p, g)
<1>1. Orderly(world, now) /\ Sound(world) /\ now \in Nat /\ e \in Open(world)
  BY DEF OrderlyInv, Orderly, Inv, DisposeEscalation
<1>2. /\ e[2] \in RulingIds /\ world.rulings[e[2]] \in Ruling /\ p \in Proposals /\ g \in Gates
      /\ world.escalations[e].contract \in {"default", "ceiling", "dialogue", "recovery"}
  BY <1>1, OpenIsEscalation, OpenFacts DEF Escalation
<1>3. CASE world' = TimeOutOnDisposition(world, e)
  BY <1>1, <1>3, TimeOutOnDispositionMoves, EndedKeeps
<1>4. CASE d \in Permitted(world.escalations[e].contract) /\ world' = Dispose(world, e, d)
  <2>1. world.escalations[e].contract = "recovery" => d \in {"none", "stop"} BY <1>2, <1>4, PermittedFacts
  <2>2. Ended(world, Dispose(world, e, d)) BY <1>1, <2>1, DisposeMoves
  <2> QED BY <1>1, <1>4, <2>2, EndedKeeps
<1>5. CASE /\ d = "allow-within-scope" /\ d \in Permitted(world.escalations[e].contract)
           /\ Rulable(u, p, g, ev) /\ world' = LinkSuccessor(b, e, r)
  <2>1. world.escalations[e].contract # "recovery" BY <1>2, <1>5, PermittedFacts
  <2>2. /\ Ended(world, u)
        /\ u.escalations[e].state = "disposed" /\ u.escalations[e].disposition = "allow-within-scope"
        /\ u.rulings[e[2]].status # "issued"
    BY <1>1, <2>1, OverrideMoves
  <2>3. ev \in {"allow", "deny", "default", "ceiling", "dialogue"} BY EvaluationAnswers
  <2> HIDE DEF u, p, g
  <2>4. Orderly(u, now) /\ Ends(world, u) BY <2>2 DEF Ended, Moves
  <2>5. SameRuling(world.rulings[e[2]], u.rulings[e[2]]) /\ u.rulings[e[2]].status # "none"
    BY <1>2, <2>4 DEF Ends, Before, RulingEnds, Ruling
  <2>6. /\ Begun(u, b) /\ r \in RulingIds
        /\ b.rulings[r].status # "none" /\ b.rulings[r].proposal = p /\ b.rulings[r].gate = g
        /\ u.rulings[r].status \in {"none", "issued"}
    BY <1>1, <1>2, <1>5, <2>3, <2>4, BuildRulingMoves
  <2> HIDE DEF b, r
  <2>7. Orderly(b, now) /\ Begins(u, b) BY <2>6 DEF Begun, Moves
  <2>8. r # e[2] BY <2>2, <2>5, <2>6
  <2>9. SameRuling(u.rulings[e[2]], b.rulings[e[2]]) /\ b.escalations[e] = u.escalations[e]
    BY <1>2, <2>2, <2>5, <2>7 DEF Begins
  <2>10. b.rulings[e[2]].proposal = p /\ b.rulings[e[2]].gate = g
    BY <2>5, <2>9 DEF SameRuling, p, g
  <2>11. Moves(b, LinkSuccessor(b, e, r)) /\ Touches(b, LinkSuccessor(b, e, r))
    BY <2>2, <2>6, <2>7, <2>8, <2>9, <2>10, LinkSuccessorMoves
  <2> QED BY <1>1, <1>5, <2>2, <2>6, <2>11, MovesCompose
<1> QED BY <1>3, <1>4, <1>5 DEF DisposeEscalation, Transact

LEMMA RespondDialogueGoes ==
    ASSUME OrderlyInv, NEW e \in EscalationIds, NEW d \in {"answer", "abstain"}, RespondDialogue(e, d)
    PROVE  Keeps(world, world')
<1> DEFINE disposed == Dispose(world, e, d)
<1>1. Orderly(world, now) /\ Sound(world) /\ e \in Open(world)
  BY DEF OrderlyInv, Orderly, RespondDialogue
<1>2. CASE world' = TimeOutOnAnswer(world, e) BY <1>1, <1>2, TimeOutOnAnswerMoves, EndedKeeps
<1>3. CASE /\ d \in Permitted(world.escalations[e].contract)
           /\ world' = disposed \/ world' = Invalidate(disposed, Issued(disposed))
  <2>1. world.escalations[e].contract \in {"default", "ceiling", "dialogue", "recovery"}
    BY <1>1, OpenIsEscalation, OpenFacts DEF Escalation
  <2>2. world.escalations[e].contract = "recovery" => d \in {"none", "stop"} BY <1>3, <2>1, PermittedFacts
  <2>3. Ended(world, disposed) BY <1>1, <2>2, DisposeMoves
  <2> HIDE DEF disposed
  <2>4. Orderly(disposed, now) BY <2>3 DEF Ended, Moves
  <2>5. Ended(disposed, Invalidate(disposed, Issued(disposed))) BY <2>4, InvalidateMoves
  <2>6. Ended(world, Invalidate(disposed, Issued(disposed))) BY <1>1, <2>3, <2>5, EndedTransitive
  <2> QED BY <1>1, <1>3, <2>3, <2>6, EndedKeeps
<1> QED BY <1>2, <1>3 DEF RespondDialogue, Transact

LEMMA ContinueEscalationRevisionGoes ==
    ASSUME OrderlyInv, NEW e \in EscalationIds, NEW p \in Proposals,
           NEW ev \in [{"authorize", "submit", "verify"} -> Evaluations],
           ContinueEscalationRevision(e, p, ev)
    PROVE  Keeps(world, world')
<1> DEFINE last == RerunGates(world, p, ev)
           b == last.world
           r == last.ruling
           n == IF b = world THEN b.escalations[e].latest ELSE p.revision
           tried == [b EXCEPT !.escalations[e].latest = n]
<1>1. /\ Orderly(world, now) /\ Sound(world) /\ now \in Nat
      /\ world.escalations[e].state = "disposed" /\ world.escalations[e].disposition = "narrow-or-modify"
      /\ p.action = world.rulings[e[2]].proposal.action /\ p.revision = world.escalations[e].latest + 1
      /\ r # 0
  BY DEF OrderlyInv, Orderly, Inv, ContinueEscalationRevision
<1>2. world' = tried \/ world' = LinkSuccessor(tried, e, r)
  BY DEF ContinueEscalationRevision, Transact
<1>3. StageBegins(world, p, last) BY <1>1, RerunGatesMoves
<1> HIDE DEF last
<1>4. /\ Begun(world, b) /\ Orderly(b, now) /\ Begins(world, b) /\ Sound(b) /\ b \in World
      /\ r \in RulingIds /\ b.rulings[r].status # "none" /\ b.rulings[r].proposal = p
  BY <1>1, <1>3 DEF StageBegins, Begun, Moves, Orderly, Sound
<1> HIDE DEF b, r
<1>5. /\ e[2] \in RulingIds /\ world.rulings[e[2]] \in Ruling /\ world.escalations[e] \in Escalation
      /\ world.rulings[e[2]].proposal \in Proposals
  BY <1>1, OpenFacts DEF NoEscalation
<1>6. SameRuling(world.rulings[e[2]], b.rulings[e[2]]) /\ b.escalations[e] = world.escalations[e]
  BY <1>1, <1>4, <1>5 DEF Begins, Ruling
<1>7. /\ world.escalations[e].latest \in Nat /\ p.revision \in Nat
      /\ world.rulings[e[2]].proposal.revision \in Nat
  BY <1>5, WorldAssumption DEF Escalation
<1>8. e = <<"ruling", e[2]>> /\ world.escalations[e].latest >= world.rulings[e[2]].proposal.revision
  <2>1. e = <<"ruling", e[2]>> \/ e = <<"recovery", e[2]>> BY DEF EscalationIds
  <2>2. e # <<"recovery", e[2]>> BY <1>1, <1>5 DEF Orderly, EscalationsOrderly
  <2> QED BY <1>1, <1>5, <2>1, <2>2 DEF Orderly, EscalationsOrderly
<1>9. /\ n \in Nat /\ n >= b.escalations[e].latest /\ n >= b.rulings[e[2]].proposal.revision
  BY <1>1, <1>6, <1>7, <1>8 DEF SameRuling
<1>10. Sound(tried)
  <2> DEFINE x == [b.escalations[e] EXCEPT !.latest = n]
             f == [b.escalations EXCEPT ![e] = x]
  <2>1. x \in Escalation /\ x.state = b.escalations[e].state BY <1>5, <1>6, <1>9 DEF Escalation
  <2> HIDE DEF x, n
  <2>2. /\ f \in [EscalationIds -> Escalation \cup {NoEscalation}]
        /\ \A i \in EscalationIds : /\ f[i].state = b.escalations[i].state
                                    /\ f[i] # NoEscalation => b.escalations[i] # NoEscalation
    BY <1>1, <1>4, <1>6, <2>1 DEF World, NoEscalation
  <2>3. tried = [b EXCEPT !.escalations = f] BY DEF x
  <2> HIDE DEF f
  <2>4. \A i \in EscalationIds : f[i] # NoEscalation => b.rulings[i[2]] \in Ruling
    BY <1>4, <2>2 DEF Sound, LinkedIn
  <2>5. \A q \in RulingIds :
          /\ b.commitments[q].state = "unknown" => f[<<"recovery", q>>].state # "none"
          /\ f[<<"recovery", q>>].state = "open" => b.commitments[q].state = "unknown"
    <3>1. \A q \in RulingIds : <<"recovery", q>> \in EscalationIds BY DEF EscalationIds
    <3> QED BY <1>4, <2>2, <3>1 DEF Sound, RoutedIn
  <2> QED BY <1>4, <2>2, <2>3, <2>4, <2>5, EscalationsSound
<1>11. Moves(b, tried) /\ Touches(b, tried) /\ tried.rulings = b.rulings
  <2> HIDE DEF n
  <2>1. b.escalations[e].state # "none" BY <1>1, <1>6
  <2> QED BY <1>4, <1>9, <1>10, <2>1, LatestMoves
<1> HIDE DEF tried, n
<1>12. Orderly(tried, now) BY <1>11 DEF Moves
<1>13. Ended(world, world) BY <1>1, StillMoves
<1>14. CASE world' = tried BY <1>1, <1>4, <1>11, <1>13, <1>14, MovesCompose
<1>15. CASE world' = LinkSuccessor(tried, e, r)
  <2> DEFINE v == LinkSuccessor(tried, e, r)
  <2>1. /\ tried.escalations[e].state = "disposed" /\ tried.escalations[e].disposition = "narrow-or-modify"
    BY <1>1, <1>6, <1>11 DEF Touches
  <2>2. /\ tried.rulings[e[2]].proposal = world.rulings[e[2]].proposal
        /\ tried.rulings[r].status # "none" /\ tried.rulings[r].proposal = p
    BY <1>4, <1>6, <1>11 DEF SameRuling
  <2>3. p.revision > world.rulings[e[2]].proposal.revision BY <1>1, <1>7, <1>8
  <2>4. r # e[2] BY <1>7, <2>2, <2>3
  <2>5. Moves(tried, v) /\ Touches(tried, v)
    BY <1>1, <1>4, <1>12, <2>1, <2>2, <2>3, <2>4, LinkSuccessorMoves
  <2> HIDE DEF v
  <2>6. Moves(b, v) BY <1>4, <1>11, <2>5, MovesTransitive
  <2>7. Touches(b, v) BY <1>11, <2>5 DEF Touches, SameRuling
  <2>8. Keeps(world, v) BY <1>1, <1>4, <1>13, <2>6, <2>7, MovesCompose
  <2> QED BY <1>15, <2>8 DEF v
<1> QED BY <1>2, <1>14, <1>15

LEMMA RunSweeperGoes ==
    ASSUME OrderlyInv, RunSweeper
    PROVE  Keeps(world, world')
<1>1. Orderly(world, now) /\ now \in Nat BY DEF OrderlyInv, Inv
<1>2. Ended(world, NarrowAll(Swept(world), ToNarrow(world, Swept(world)))) BY <1>1, SweepMoves
<1> QED BY <1>1, <1>2, EndedKeeps DEF RunSweeper, Transact

-----------------------------------------------------------------------------
(***************************************************************************)
(* Commitments.                                                            *)
(***************************************************************************)
UseSteps == {<<"issued", "consumed">>}
CapacitySteps == {<<"reserved", "settled">>, <<"settled", "held">>, <<"held", "settled">>,
                  <<"held", "released">>, <<"settled", "released">>}
CommitmentSteps == {<<"none", "bound">>, <<"bound", "discharged">>, <<"bound", "unknown">>,
                    <<"unknown", "reconciled">>, <<"bound", "reconciled">>}

\* A recovery is opened when the outcome becomes unknown and cancelled once it is known.
RecoverySteps(x, y, state) ==
    \/ y = x
    \/ /\ x.state = "none" /\ y.state = "open" /\ y.contract = "recovery" /\ y.disposition = "none"
       /\ y.successor = 0 /\ state = "unknown"
    \/ /\ x.state = "open" /\ y.state = "cancelled"
       /\ y.contract = x.contract /\ y.disposition = x.disposition /\ y.successor = x.successor

\* The commitment of one ruling takes a step.
Commits(w, v, r) ==
    /\ v.mandates = w.mandates /\ v.patterns = w.patterns
    /\ \A q \in RulingIds : SameRuling(w.rulings[q], v.rulings[q]) /\ v.rulings[q].successor = w.rulings[q].successor
    /\ \A q \in RulingIds \ {r} :
         /\ v.rulings[q].status = w.rulings[q].status /\ v.nonces[q] = w.nonces[q]
         /\ v.reservations[q] = w.reservations[q] /\ v.commitments[q] = w.commitments[q]
    /\ Before(UseSteps, w.rulings[r].status, v.rulings[r].status)
    /\ Before(UseSteps, w.nonces[r], v.nonces[r])
    /\ Before(CapacitySteps, w.reservations[r], v.reservations[r])
    /\ <<w.commitments[r].state, v.commitments[r].state>> \in CommitmentSteps
    /\ \A e \in EscalationIds \ {<<"recovery", r>>} : v.escalations[e] = w.escalations[e]
    /\ RecoverySteps(w.escalations[<<"recovery", r>>], v.escalations[<<"recovery", r>>], v.commitments[r].state)

LEMMA CommitsGoes ==
    ASSUME NEW w, NEW v, Orderly(w, now), Sound(v), NEW r \in RulingIds, Commits(w, v, r)
    PROVE  Goes(w, v)
<1> DEFINE e == <<"recovery", r>>
<1>1. Sound(w) /\ e \in EscalationIds BY DEF Orderly, EscalationIds
<1>2. \A q \in RulingIds : /\ SameRuling(w.rulings[q], v.rulings[q])
                           /\ v.rulings[q].successor = w.rulings[q].successor
                           /\ v.rulings[q].status = "none" <=> w.rulings[q].status = "none"
  <2>1. v.rulings[r].status = "none" <=> w.rulings[r].status = "none" BY DEF Commits, Before, UseSteps
  <2>2. \A q \in RulingIds \ {r} : v.rulings[q].status = w.rulings[q].status BY DEF Commits
  <2>3. \A q \in RulingIds : v.rulings[q].status = "none" <=> w.rulings[q].status = "none" BY <2>1, <2>2
  <2> QED BY <2>3 DEF Commits
<1>3. \A q \in RulingIds : w.nonces[q] = "none" => v.nonces[q] = "none"
  <2>1. w.nonces[r] = "none" => v.nonces[r] = "none" BY DEF Commits, Before, UseSteps
  <2>2. \A q \in RulingIds \ {r} : v.nonces[q] = w.nonces[q] BY DEF Commits
  <2> QED BY <2>1, <2>2
<1>4. \A q \in RulingIds :
        /\ v.reservations[q] = "reserved" => w.reservations[q] = "reserved"
        /\ v.reservations[q] \in {"reserved", "settled", "held"} =>
             w.reservations[q] \in {"reserved", "settled", "held"}
  <2>1. /\ v.reservations[r] = "reserved" => w.reservations[r] = "reserved"
        /\ v.reservations[r] \in {"reserved", "settled", "held"} =>
             w.reservations[r] \in {"reserved", "settled", "held"}
    BY DEF Commits, Before, CapacitySteps
  <2>2. \A q \in RulingIds \ {r} : v.reservations[q] = w.reservations[q] BY DEF Commits
  <2> QED BY <2>1, <2>2
<1>5. \A q \in RulingIds : w.commitments[q].state \in {"unknown", "reconciled"} =>
                           v.commitments[q].state \in {"unknown", "reconciled"}
  <2>1. w.commitments[r].state \in {"unknown", "reconciled"} => v.commitments[r].state \in {"unknown", "reconciled"}
    BY DEF Commits, CommitmentSteps
  <2>2. \A q \in RulingIds \ {r} : v.commitments[q] = w.commitments[q] BY DEF Commits
  <2> QED BY <2>1, <2>2
<1>6. RecoverySteps(w.escalations[e], v.escalations[e], v.commitments[r].state) BY DEF Commits
<1>7. \A i \in EscalationIds \ {e} : v.escalations[i] = w.escalations[i] BY DEF Commits
<1>8. \A m, u : \A c \in Counters : CounterValue(v, m, c, u) <= CounterValue(w, m, c, u)
  <2>1. \A m, c, u : \A q \in Counting(v, m, c, u) :
            q \in Counting(w, m, c, u) /\ v.rulings[q].proposal = w.rulings[q].proposal
    BY <1>2, <1>4 DEF Counting, SameRuling
  <2> QED BY <1>1, <2>1, CounterAtMost
<1>9. WithinCeilings(v)
  <2>1. v.mandates = w.mandates BY DEF Commits
  <2>2. \A q \in RulingIds : v.reservations[q] = "reserved" =>
            /\ w.reservations[q] = "reserved"
            /\ v.rulings[q].mandate = w.rulings[q].mandate
            /\ v.rulings[q].issuedAt = w.rulings[q].issuedAt
            /\ v.mandates[w.rulings[q].mandate].limits = w.mandates[w.rulings[q].mandate].limits
    BY <1>2, <1>4, <2>1 DEF SameRuling
  <2> QED BY <1>1, <1>8, <2>2, CeilingsHold DEF Orderly
<1>10. RulingsOrderly(v, now)
  <2> SUFFICES ASSUME NEW q \in RulingIds
               PROVE  /\ v.rulings[q].status = "none" => v.nonces[q] = "none"
                      /\ v.rulings[q].status # "none" => v.rulings[q].issuedAt <= now
                      /\ v.reservations[q] = "reserved" => v.rulings[q].verdict # "deny"
    BY DEF RulingsOrderly
  <2>1. /\ w.rulings[q].status = "none" => w.nonces[q] = "none"
        /\ w.rulings[q].status # "none" => w.rulings[q].issuedAt <= now
        /\ w.reservations[q] = "reserved" => w.rulings[q].verdict # "deny"
    BY DEF Orderly, RulingsOrderly
  <2>2. SameRuling(w.rulings[q], v.rulings[q]) BY <1>2
  <2> QED BY <1>2, <1>3, <1>4, <2>1, <2>2 DEF SameRuling
<1>11. MandatesOrderly(v) BY DEF Orderly, MandatesOrderly, Commits
<1>12. \A q \in RulingIds : /\ <<"ruling", q>> \in EscalationIds \ {e} /\ <<"recovery", q>> \in EscalationIds
                            /\ <<"recovery", q>> = e => q = r
  BY DEF EscalationIds
<1>13. EscalationsOrderly(v)
  <2>1. ASSUME NEW q \in RulingIds, v.escalations[<<"ruling", q>>].state # "none"
        PROVE  /\ v.rulings[q].verdict = "escalate"
               /\ v.escalations[<<"ruling", q>>].contract # "recovery"
               /\ v.escalations[<<"ruling", q>>].latest >= v.rulings[q].proposal.revision
    <3>1. v.escalations[<<"ruling", q>>] = w.escalations[<<"ruling", q>>] BY <1>7, <1>12
    <3>2. SameRuling(w.rulings[q], v.rulings[q]) BY <1>2
    <3> QED BY <2>1, <3>1, <3>2 DEF Orderly, EscalationsOrderly, SameRuling
  <2>2. ASSUME NEW q \in RulingIds, v.escalations[<<"recovery", q>>].state # "none"
        PROVE  /\ v.commitments[q].state \in {"unknown", "reconciled"}
               /\ v.escalations[<<"recovery", q>>].contract = "recovery"
               /\ v.escalations[<<"recovery", q>>].disposition \in {"none", "stop"}
    <3>1. w.escalations[<<"recovery", q>>].state # "none" =>
            /\ w.commitments[q].state \in {"unknown", "reconciled"}
            /\ w.escalations[<<"recovery", q>>].contract = "recovery"
            /\ w.escalations[<<"recovery", q>>].disposition \in {"none", "stop"}
      BY DEF Orderly, EscalationsOrderly
    <3>2. CASE q = r BY <1>5, <1>6, <2>2, <3>1, <3>2 DEF RecoverySteps
    <3>3. CASE q # r BY <1>5, <1>7, <1>12, <2>2, <3>1, <3>3
    <3> QED BY <3>2, <3>3
  <2> QED BY <2>1, <2>2 DEF EscalationsOrderly
<1>14. w.escalations[e].state = "open" => w.escalations[e].successor = 0
  BY <1>1 DEF Orderly, SuccessorsIn
<1>15. \A i \in EscalationIds : v.escalations[i] = w.escalations[i] \/ (i = e /\ v.escalations[i].successor = 0)
  BY <1>6, <1>7, <1>14 DEF RecoverySteps
<1>16. \A i \in EscalationIds : w.escalations[i].state # "none" => w.escalations[i].successor \in RulingIds \cup {0}
  BY <1>1 DEF Sound, World, NoEscalation, Escalation
<1>17. SuccessorsExist(v) BY <1>2, <1>15, <1>16 DEF Orderly, SuccessorsExist
<1>18. SuccessorsIn(v)
  <2>1. ASSUME NEW i \in EscalationIds, v.escalations[i].state # "none"
        PROVE  Succession(i, v.escalations[i], v.rulings[i[2]], v.rulings[v.escalations[i].successor])
    <3>1. CASE i = e /\ v.escalations[i].successor = 0 BY <3>1 DEF Succession
    <3>2. CASE v.escalations[i] = w.escalations[i]
      <4>1. Succession(i, w.escalations[i], w.rulings[i[2]], w.rulings[w.escalations[i].successor])
        BY <2>1, <3>2, SuccessionEach DEF Orderly
      <4>2. i[2] \in RulingIds BY DEF EscalationIds
      <4>3. SameRuling(w.rulings[i[2]], v.rulings[i[2]]) /\ v.rulings[i[2]].successor = w.rulings[i[2]].successor
        BY <1>2, <4>2
      <4>4. w.escalations[i].successor # 0 =>
               SameRuling(w.rulings[w.escalations[i].successor], v.rulings[w.escalations[i].successor])
        BY <1>2, <1>16, <2>1, <3>2
      <4> QED BY <3>2, <4>1, <4>3, <4>4 DEF Succession, SameRuling
    <3> QED BY <1>15, <3>1, <3>2
  <2> QED BY <2>1, SuccessionEach
<1>19. Orderly(v, now) BY <1>9, <1>10, <1>11, <1>13, <1>17, <1>18 DEF Orderly
<1>20. Narrows(w, v, now) BY QuietNarrows DEF Commits
<1>21. Contained(w, v, now) BY <1>8 DEF Contained
<1>22. LifecyclesIn(w, v)
  <2> SUFFICES ASSUME NEW q \in RulingIds
               PROVE  /\ Before({"none"} \X {"issued"} \cup {"issued"} \X {"consumed", "invalidated", "expired"}
                                  \cup {<<"none", "invalidated">>},
                                w.rulings[q].status, v.rulings[q].status)
                      /\ Before({<<"none", "issued">>, <<"issued", "consumed">>, <<"issued", "expired">>},
                                w.nonces[q], v.nonces[q])
                      /\ Before({<<"none", "reserved">>, <<"reserved", "settled">>, <<"reserved", "released">>,
                                 <<"none", "released">>, <<"settled", "held">>, <<"held", "settled">>,
                                 <<"held", "released">>, <<"settled", "released">>},
                                w.reservations[q], v.reservations[q])
                      /\ Before(CommitmentSteps, w.commitments[q].state, v.commitments[q].state)
                      /\ \A kind \in {"ruling", "recovery"} :
                           Before({<<"none", "open">>} \cup {"open"} \X {"disposed", "timed_out", "cancelled"},
                                  w.escalations[<<kind, q>>].state, v.escalations[<<kind, q>>].state)
    BY DEF LifecyclesIn, CommitmentSteps
  <2>1. \A kind \in {"ruling", "recovery"} :
           Before({<<"none", "open">>} \cup {"open"} \X {"disposed", "timed_out", "cancelled"},
                  w.escalations[<<kind, q>>].state, v.escalations[<<kind, q>>].state)
    <3>1. \A i \in EscalationIds :
             Before({<<"none", "open">>} \cup {"open"} \X {"disposed", "timed_out", "cancelled"},
                    w.escalations[i].state, v.escalations[i].state)
      <4>1. Before({<<"none", "open">>} \cup {"open"} \X {"disposed", "timed_out", "cancelled"},
                   w.escalations[e].state, v.escalations[e].state)
        BY <1>6 DEF RecoverySteps, Before
      <4>2. \A i \in EscalationIds \ {e} :
              Before({<<"none", "open">>} \cup {"open"} \X {"disposed", "timed_out", "cancelled"},
                    w.escalations[i].state, v.escalations[i].state)
        BY <1>7 DEF Before
      <4> QED BY <4>1, <4>2
    <3>2. \A kind \in {"ruling", "recovery"} : <<kind, q>> \in EscalationIds BY DEF EscalationIds
    <3> QED BY <3>1, <3>2
  <2>2. CASE q # r BY <2>1, <2>2 DEF Commits, Before
  <2>3. CASE q = r
    <3>1. /\ Before(UseSteps, w.rulings[r].status, v.rulings[r].status)
          /\ Before(UseSteps, w.nonces[r], v.nonces[r])
          /\ Before(CapacitySteps, w.reservations[r], v.reservations[r])
          /\ <<w.commitments[r].state, v.commitments[r].state>> \in CommitmentSteps
      BY DEF Commits
    <3>2. Before({"none"} \X {"issued"} \cup {"issued"} \X {"consumed", "invalidated", "expired"}
                   \cup {<<"none", "invalidated">>}, w.rulings[r].status, v.rulings[r].status)
      BY <3>1 DEF Before, UseSteps
    <3>3. Before({<<"none", "issued">>, <<"issued", "consumed">>, <<"issued", "expired">>},
                 w.nonces[r], v.nonces[r])
      BY <3>1 DEF Before, UseSteps
    <3>4. Before({<<"none", "reserved">>, <<"reserved", "settled">>, <<"reserved", "released">>,
                  <<"none", "released">>, <<"settled", "held">>, <<"held", "settled">>,
                  <<"held", "released">>, <<"settled", "released">>},
                 w.reservations[r], v.reservations[r])
      BY <3>1 DEF Before, CapacitySteps
    <3>5. Before(CommitmentSteps, w.commitments[r].state, v.commitments[r].state) BY <3>1 DEF Before
    <3> QED BY <2>1, <2>3, <3>2, <3>3, <3>4, <3>5
  <2> QED BY <2>2, <2>3
<1> QED BY <1>19, <1>20, <1>21, <1>22 DEF Goes

LEMMA BindCommits ==
    ASSUME NEW w, Sound(w), NEW r \in Issued(w), NEW boot, w.reservations[r] = "reserved"
    PROVE  LET v == BindCommitment(w, r, boot)
           IN  Commits(w, v, r) /\ w.commitments[r].state = "none" /\ v.commitments[r].state = "bound"
<1> DEFINE f == SetStatus(w, {r}, "consumed")
           x == [state |-> "bound", outcome |-> "none", boot |-> boot]
           v == BindCommitment(w, r, boot)
<1>1. w \in World /\ r \in RulingIds /\ w.rulings[r] \in Ruling /\ w.rulings[r].status = "issued"
  BY IssuedIsRuling DEF Sound
<1>2. /\ w.nonces[r] = "issued" /\ w.commitments[r].state = "none" BY <1>1 DEF Sound, UsedOnceIn
<1>3. /\ \A q \in RulingIds \ {r} : f[q] = w.rulings[q]
      /\ f[r].status = "consumed" /\ SameRuling(w.rulings[r], f[r]) /\ f[r].successor = w.rulings[r].successor
  BY <1>1 DEF SetStatus, SameRuling, Ruling
<1>4. x.state = "bound" OBVIOUS
<1> HIDE DEF f, x
<1>5. v = [w EXCEPT !.nonces = [w.nonces EXCEPT ![r] = "consumed"],
                    !.reservations = [w.reservations EXCEPT ![r] = "settled"],
                    !.rulings = f,
                    !.commitments = [w.commitments EXCEPT ![r] = x]]
  BY DEF BindCommitment, f, x
<1> HIDE DEF v
<1>6. /\ v.rulings = f /\ v.mandates = w.mandates /\ v.patterns = w.patterns /\ v.escalations = w.escalations
      /\ v.nonces = [w.nonces EXCEPT ![r] = "consumed"]
      /\ v.reservations = [w.reservations EXCEPT ![r] = "settled"]
      /\ v.commitments = [w.commitments EXCEPT ![r] = x]
  BY <1>1, <1>5 DEF World
<1>7. /\ v.nonces[r] = "consumed" /\ v.reservations[r] = "settled" /\ v.commitments[r] = x
      /\ \A q \in RulingIds \ {r} : /\ v.nonces[q] = w.nonces[q] /\ v.reservations[q] = w.reservations[q]
                                    /\ v.commitments[q] = w.commitments[q]
  BY <1>1, <1>6 DEF World
<1>8. \A q \in RulingIds : SameRuling(w.rulings[q], v.rulings[q]) /\ v.rulings[q].successor = w.rulings[q].successor
  BY <1>3, <1>6 DEF SameRuling
<1>9. /\ Before(UseSteps, w.rulings[r].status, v.rulings[r].status)
      /\ Before(UseSteps, w.nonces[r], v.nonces[r])
      /\ Before(CapacitySteps, w.reservations[r], v.reservations[r])
      /\ <<w.commitments[r].state, v.commitments[r].state>> \in CommitmentSteps
  BY <1>1, <1>2, <1>3, <1>4, <1>6, <1>7 DEF Before, UseSteps, CapacitySteps, CommitmentSteps
<1>10. RecoverySteps(w.escalations[<<"recovery", r>>], v.escalations[<<"recovery", r>>], v.commitments[r].state)
  BY <1>6 DEF RecoverySteps
<1>11. Commits(w, v, r) BY <1>3, <1>6, <1>7, <1>8, <1>9, <1>10 DEF Commits
<1> QED BY <1>2, <1>4, <1>7, <1>11 DEF v

\* One commitment, its reservation and its recovery change.
Replaces(w, v, r, c, capacity, f) ==
    /\ v = [w EXCEPT !.commitments = [w.commitments EXCEPT ![r] = c],
                     !.reservations = [w.reservations EXCEPT ![r] = capacity],
                     !.escalations = f]
    /\ <<w.commitments[r].state, c.state>> \in CommitmentSteps
    /\ Before(CapacitySteps, w.reservations[r], capacity)
    /\ \A e \in EscalationIds \ {<<"recovery", r>>} : f[e] = w.escalations[e]
    /\ RecoverySteps(w.escalations[<<"recovery", r>>], f[<<"recovery", r>>], c.state)

LEMMA ReplacesCommits ==
    ASSUME NEW w, Sound(w), NEW v, NEW r \in RulingIds, NEW c, NEW capacity, NEW f,
           Replaces(w, v, r, c, capacity, f)
    PROVE  Commits(w, v, r) /\ v.commitments[r] = c
<1> USE DEF Replaces
<1>1. w \in World BY DEF Sound
<1>2. /\ v.rulings = w.rulings /\ v.nonces = w.nonces /\ v.mandates = w.mandates /\ v.patterns = w.patterns
      /\ v.escalations = f /\ v.commitments[r] = c /\ v.reservations[r] = capacity
      /\ \A q \in RulingIds \ {r} : /\ v.commitments[q] = w.commitments[q]
                                    /\ v.reservations[q] = w.reservations[q]
  BY <1>1 DEF World
<1>3. /\ Before(UseSteps, w.rulings[r].status, v.rulings[r].status) /\ Before(UseSteps, w.nonces[r], v.nonces[r])
  BY <1>2 DEF Before
<1> QED BY <1>2, <1>3 DEF Commits, SameRuling

LEMMA HoldCommits ==
    ASSUME NEW w, Orderly(w, now), NEW r \in RulingIds, w.commitments[r].state = "bound"
    PROVE  LET v == HoldForReconciliation(w, r, now)
           IN  Commits(w, v, r) /\ v.commitments[r].state = "unknown"
<1> DEFINE c == [w.commitments[r] EXCEPT !.state = "unknown"]
           x == [state |-> "open", contract |-> "recovery", expiresAt |-> now + ResponseBound,
                 disposition |-> "none", latest |-> 0, successor |-> 0]
           f == [w.escalations EXCEPT ![<<"recovery", r>>] = x]
           v == HoldForReconciliation(w, r, now)
<1>1. Sound(w) /\ w \in World BY DEF Orderly, Sound
<1>2. /\ w.commitments[r] \in Commitment /\ w.reservations[r] = "settled" /\ <<"recovery", r>> \in EscalationIds
  BY <1>1, PendingFacts
<1>3. w.escalations[<<"recovery", r>>].state = "none" BY DEF Orderly, EscalationsOrderly
<1>4. c.state = "unknown" BY <1>2 DEF Commitment
<1>5. f[<<"recovery", r>>] = x /\ \A e \in EscalationIds \ {<<"recovery", r>>} : f[e] = w.escalations[e]
  BY <1>1, <1>2 DEF World
<1>6. v = [w EXCEPT !.commitments = [w.commitments EXCEPT ![r] = c],
                    !.reservations = [w.reservations EXCEPT ![r] = "held"],
                    !.escalations = f]
  BY <1>1, <1>2 DEF HoldForReconciliation, World
<1>7. RecoverySteps(w.escalations[<<"recovery", r>>], x, "unknown") BY <1>3 DEF RecoverySteps
<1> HIDE DEF c, x, f, v
<1>8. <<w.commitments[r].state, c.state>> \in CommitmentSteps BY <1>4 DEF CommitmentSteps
<1>9. Before(CapacitySteps, w.reservations[r], "held") BY <1>2 DEF Before, CapacitySteps
<1>10. Replaces(w, v, r, c, "held", f) BY <1>4, <1>5, <1>6, <1>7, <1>8, <1>9 DEF Replaces
<1>11. Commits(w, v, r) /\ v.commitments[r] = c BY <1>1, <1>10, ReplacesCommits
<1> QED BY <1>4, <1>11 DEF v

LEMMA ReconcileCommits ==
    ASSUME NEW w, Sound(w), NEW r \in RulingIds, w.commitments[r].state \in {"bound", "unknown"},
           NEW outcome, NEW capacity \in {"settled", "released"}
    PROVE  LET v == CancelRecovery(Resolve(w, r, "reconciled", outcome, capacity), r)
           IN  Commits(w, v, r) /\ v.commitments[r].state = "reconciled" /\ v.commitments[r].outcome = outcome
<1> DEFINE c == [w.commitments[r] EXCEPT !.state = "reconciled", !.outcome = outcome]
           u == Resolve(w, r, "reconciled", outcome, capacity)
           e == <<"recovery", r>>
           x == [w.escalations[e] EXCEPT !.state = "cancelled"]
           f == IF e \in Open(w) THEN [w.escalations EXCEPT ![e] = x] ELSE w.escalations
           v == CancelRecovery(u, r)
<1>1. w \in World BY DEF Sound
<1>2. w.commitments[r] \in Commitment /\ w.reservations[r] \in {"settled", "held"} /\ e \in EscalationIds
  BY PendingFacts
<1>3. c.state = "reconciled" /\ c.outcome = outcome BY <1>2 DEF Commitment
<1>4. u = [w EXCEPT !.commitments = [w.commitments EXCEPT ![r] = c],
                    !.reservations = [w.reservations EXCEPT ![r] = capacity]]
  BY <1>1, <1>2 DEF Resolve, World
<1>5. e \in Open(u) <=> e \in Open(w) BY <1>1, <1>4 DEF Open, World
<1>6. v = [w EXCEPT !.commitments = [w.commitments EXCEPT ![r] = c],
                    !.reservations = [w.reservations EXCEPT ![r] = capacity],
                    !.escalations = f]
  <2>1. CASE e \in Open(w)
    <3>1. CancelRecovery(u, r) = [u EXCEPT !.escalations[e].state = "cancelled"]
      BY <1>5, <2>1 DEF CancelRecovery
    <3> HIDE DEF c
    <3> QED BY <1>1, <1>4, <2>1, <3>1 DEF World
  <2>2. CASE e \notin Open(w)
    <3>1. CancelRecovery(u, r) = u BY <1>5, <2>2 DEF CancelRecovery
    <3> HIDE DEF c
    <3> QED BY <1>1, <1>4, <2>2, <3>1 DEF World
  <2> QED BY <2>1, <2>2
<1>7. /\ RecoverySteps(w.escalations[e], f[e], "reconciled")
      /\ \A i \in EscalationIds \ {e} : f[i] = w.escalations[i]
  <2>1. CASE e \in Open(w)
    <3>1. w.escalations[e] \in Escalation /\ w.escalations[e].state = "open"
      BY <1>1, <2>1 DEF Open, World, NoEscalation
    <3>2. RecoverySteps(w.escalations[e], x, "reconciled") BY <3>1 DEF Escalation, RecoverySteps
    <3> HIDE DEF x
    <3> QED BY <1>1, <1>2, <2>1, <3>2 DEF World
  <2>2. CASE e \notin Open(w) BY <2>2 DEF RecoverySteps
  <2> QED BY <2>1, <2>2
<1> HIDE DEF c, f, u, v
<1>8. <<w.commitments[r].state, c.state>> \in CommitmentSteps BY <1>3 DEF CommitmentSteps
<1>9. Before(CapacitySteps, w.reservations[r], capacity) BY <1>2 DEF Before, CapacitySteps
<1>10. Replaces(w, v, r, c, capacity, f) BY <1>3, <1>6, <1>7, <1>8, <1>9 DEF Replaces
<1>11. Commits(w, v, r) /\ v.commitments[r] = c BY <1>10, ReplacesCommits
<1> QED BY <1>3, <1>11 DEF v, u

LEMMA RecordOutcomeCommits ==
    ASSUME NEW w, Sound(w), NEW r \in RulingIds, w.commitments[r].state \in {"bound", "unknown"}, NEW outcome
    PROVE  LET v == RecordOutcome(w, r, outcome)
           IN  /\ Commits(w, v, r) /\ v.commitments[r].state \in {"discharged", "reconciled"}
               /\ v.commitments[r].outcome = outcome
<1>1. CASE w.commitments[r].state = "bound"
  <2> DEFINE c == [w.commitments[r] EXCEPT !.state = "discharged", !.outcome = outcome]
             v == Resolve(w, r, "discharged", outcome, "settled")
  <2>1. w \in World BY DEF Sound
  <2>2. /\ w.commitments[r] \in Commitment /\ w.reservations[r] = "settled" BY <1>1, PendingFacts
  <2>3. c.state = "discharged" /\ c.outcome = outcome BY <2>2 DEF Commitment
  <2>4. v = [w EXCEPT !.commitments = [w.commitments EXCEPT ![r] = c],
                      !.reservations = [w.reservations EXCEPT ![r] = "settled"],
                      !.escalations = w.escalations]
    BY <2>1, <2>2 DEF Resolve, World
  <2> HIDE DEF c, v
  <2>5. /\ <<w.commitments[r].state, c.state>> \in CommitmentSteps
        /\ Before(CapacitySteps, w.reservations[r], "settled")
        /\ RecoverySteps(w.escalations[<<"recovery", r>>], w.escalations[<<"recovery", r>>], c.state)
    BY <1>1, <2>2, <2>3 DEF CommitmentSteps, Before, RecoverySteps
  <2>6. Replaces(w, v, r, c, "settled", w.escalations) BY <2>4, <2>5 DEF Replaces
  <2>7. Commits(w, v, r) /\ v.commitments[r] = c BY <2>6, ReplacesCommits
  <2> QED BY <1>1, <2>3, <2>7 DEF RecordOutcome, v
<1>2. CASE w.commitments[r].state = "unknown" BY <1>2, ReconcileCommits DEF RecordOutcome
<1> QED BY <1>1, <1>2

-----------------------------------------------------------------------------
(***************************************************************************)
(* The actions on commitments, the clock, and every step.                  *)
(***************************************************************************)
\* A ruling that nothing speaks against is bound.
Binds(r) ==
    /\ Goes(world, world') /\ Commits(world, world', r)
    /\ world.rulings[r].status = "issued" /\ \E evidence \in BOOLEAN : ~CommitDefect(world, r, evidence)
    /\ world.commitments[r].state = "none" /\ world'.commitments[r].state = "bound"

\* A verification ends the ruling or binds it.
LEMMA CommitVerifyGoes ==
    ASSUME OrderlyInv, NEW r \in RulingIds, NEW boot \in Boots, NEW evidence \in BOOLEAN,
           CommitVerify(r, boot, evidence)
    PROVE  Keeps(world, world') \/ Binds(r)
<1>1. Inv /\ Orderly(world, now) /\ Sound(world) /\ r \in Issued(world)
  BY DEF OrderlyInv, Orderly, CommitVerify
<1>2. Sound(world') BY <1>1, CommitVerifyKeeps
<1>3. CASE world' = Expire(world, {r})
  <2>1. Ended(world, Expire(world, {r})) BY <1>1, ExpireMoves
  <2> QED BY <1>1, <1>3, <2>1, EndedKeeps
<1>4. CASE world' = Invalidate(world, {r})
  <2>1. Ended(world, Invalidate(world, {r})) BY <1>1, InvalidateMoves
  <2> QED BY <1>1, <1>4, <2>1, EndedKeeps
<1>5. CASE ~CommitDefect(world, r, evidence) /\ world' = BindCommitment(world, r, boot)
  <2>1. world.reservations[r] = "reserved" BY <1>5 DEF CommitDefect
  <2>2. /\ Commits(world, world', r)
        /\ world.commitments[r].state = "none" /\ world'.commitments[r].state = "bound"
    BY <1>1, <1>5, <2>1, BindCommits
  <2>3. Goes(world, world') BY <1>1, <1>2, <2>2, CommitsGoes
  <2> QED BY <1>1, <1>5, <2>2, <2>3 DEF Issued, Binds
<1> QED BY <1>3, <1>4, <1>5 DEF CommitVerify, Transact

\* What becomes of a commitment that was bound.
Settles(r) ==
    /\ Goes(world, world') /\ Commits(world, world', r)
    /\ world.commitments[r].state \in {"bound", "unknown"}
    /\ \/ world'.commitments[r].state = "unknown"
       \/ /\ world'.commitments[r].state \in {"discharged", "reconciled"}
          /\ world'.commitments[r].outcome \in {"success", "failed", "no-effect"}

LEMMA ReportEffectOutcomeGoes ==
    ASSUME OrderlyInv, NEW r \in RulingIds, NEW outcome \in Outcomes, ReportEffectOutcome(r, outcome)
    PROVE  Settles(r)
<1>1. Inv /\ Orderly(world, now) /\ Sound(world) BY DEF OrderlyInv, Orderly
<1>2. Sound(world') BY <1>1, ReportEffectOutcomeKeeps
<1>3. world.commitments[r].state \in {"bound", "unknown"} /\ world' = RecordOutcome(world, r, outcome)
  BY DEF ReportEffectOutcome, Transact
<1>4. /\ Commits(world, world', r) /\ world'.commitments[r].state \in {"discharged", "reconciled"}
      /\ world'.commitments[r].outcome = outcome
  BY <1>1, <1>3, RecordOutcomeCommits
<1>5. Goes(world, world') BY <1>1, <1>2, <1>4, CommitsGoes
<1>6. outcome \in {"success", "failed"} BY CoreAssumption
<1> QED BY <1>3, <1>4, <1>5, <1>6 DEF Settles

LEMMA MarkCommitmentUnknownGoes ==
    ASSUME OrderlyInv, NEW r \in RulingIds, MarkCommitmentUnknown(r)
    PROVE  Settles(r)
<1>1. Inv /\ Orderly(world, now) BY DEF OrderlyInv
<1>2. Sound(world') BY <1>1, MarkCommitmentUnknownKeeps
<1>3. world.commitments[r].state = "bound" /\ world' = HoldForReconciliation(world, r, now)
  BY DEF MarkCommitmentUnknown, Transact
<1>4. Commits(world, world', r) /\ world'.commitments[r].state = "unknown" BY <1>1, <1>3, HoldCommits
<1>5. Goes(world, world') BY <1>1, <1>2, <1>4, CommitsGoes
<1> QED BY <1>3, <1>4, <1>5 DEF Settles

LEMMA ReconcileAbsentAfterRestartGoes ==
    ASSUME OrderlyInv, NEW r \in RulingIds, NEW boot \in Boots, ReconcileAbsentAfterRestart(r, boot)
    PROVE  Settles(r)
<1>1. Inv /\ Orderly(world, now) /\ Sound(world) BY DEF OrderlyInv, Orderly
<1>2. Sound(world') BY <1>1, ReconcileAbsentAfterRestartKeeps
<1>3. /\ world.commitments[r].state \in {"bound", "unknown"}
      /\ world' = CancelRecovery(Resolve(world, r, "reconciled", "no-effect", "released"), r)
  BY DEF ReconcileAbsentAfterRestart, RecordNoEffect, Transact
<1>4. /\ Commits(world, world', r) /\ world'.commitments[r].state = "reconciled"
      /\ world'.commitments[r].outcome = "no-effect"
  BY <1>1, <1>3, ReconcileCommits
<1>5. Goes(world, world') BY <1>1, <1>2, <1>4, CommitsGoes
<1> QED BY <1>3, <1>4, <1>5 DEF Settles
-----------------------------------------------------------------------------
(***************************************************************************)
(* The clock.                                                              *)
(***************************************************************************)
LEMMA DayIsMonotone ==
    ASSUME NEW s \in Nat, NEW t \in Nat, s <= t
    PROVE  Day(s) \in Nat /\ Day(t) \in Nat /\ Day(s) <= Day(t)
<1> DEFINE d == DayLength
<1>1. d \in Nat \ {0} BY WorldAssumption
<1>2. /\ s \div d \in Int /\ t \div d \in Int
      /\ s \div d >= 0 /\ t \div d >= 0 /\ s \div d <= t \div d
  <2> HIDE DEF d
  <2> QED BY <1>1
<1> QED BY <1>2 DEF Day

\* With time only days end: no counter rises.
LEMMA TickContained ==
    ASSUME NEW w, Sound(w), RulingsOrderly(w, now), now \in Nat, NEW m, NEW c \in Counters
    PROVE  CounterValue(w, m, c, now + 1) <= CounterValue(w, m, c, now)
<1>1. ASSUME NEW r \in Counting(w, m, c, now + 1) PROVE r \in Counting(w, m, c, now)
  <2>1. /\ r \in RulingIds /\ w.rulings[r] \in Ruling BY CountingFacts
  <2>2. /\ w.rulings[r].issuedAt \in Nat /\ w.rulings[r].issuedAt <= now
    BY <2>1 DEF RulingsOrderly, Ruling
  <2>3. CASE c = "actions"
    <3>1. Day(w.rulings[r].issuedAt) = Day(now + 1) BY <2>3 DEF Counting
    <3>2. /\ Day(w.rulings[r].issuedAt) <= Day(now) /\ Day(now) \in Nat BY <2>2, DayIsMonotone
    <3>3. /\ Day(now) <= Day(now + 1) /\ Day(now + 1) \in Nat BY DayIsMonotone
    <3>4. Day(w.rulings[r].issuedAt) = Day(now) BY <3>1, <3>2, <3>3
    <3> QED BY <3>4 DEF Counting
  <2>4. CASE c # "actions" BY <2>4 DEF Counting
  <2> QED BY <2>3, <2>4
<1> QED BY <1>1, CounterAtMost

LEMMA TickKeeps ==
    ASSUME OrderlyInv, Tick
    PROVE  OrderlyInv'
<1>1. /\ Inv /\ Orderly(world, now) /\ now \in Nat /\ now' = now + 1 /\ world' = world /\ reloads' = reloads
  BY DEF OrderlyInv, Inv, Tick
<1>2. Inv' BY <1>1 DEF Inv
<1>3. RulingsOrderly(world, now + 1)
  <2>1. \A r \in RulingIds : world.rulings[r].status # "none" => world.rulings[r].issuedAt \in Nat
    BY <1>1 DEF Orderly, Sound, World, NoRuling, Ruling
  <2>2. \A r \in RulingIds : world.rulings[r].status # "none" => world.rulings[r].issuedAt <= now + 1
    BY <1>1, <2>1 DEF Orderly, RulingsOrderly
  <2> QED BY <1>1, <2>2 DEF Orderly, RulingsOrderly
<1>4. Orderly(world, now + 1) BY <1>1, <1>3 DEF Orderly
<1> QED BY <1>1, <1>2, <1>4 DEF OrderlyInv

\* Besides the clock, every step keeps what is bound or is one of a commitment.
LEMMA NextGoes ==
    ASSUME OrderlyInv, Next
    PROVE  \/ Tick
           \/ /\ now' = now
              /\ Keeps(world, world') \/ \E r \in RulingIds : Binds(r) \/ Settles(r)
<1>1. \A w : Transact(w) => now' = now BY DEF Transact
<1>2. CASE Tick BY <1>2
<1>3. CASE ChangeAuthority
  <2>1. ASSUME NEW m \in Mandates, NEW expiry \in Expiries, NEW limits \in LimitChoices,
               GrantMandate(m, expiry, limits)
        PROVE  now' = now /\ Keeps(world, world')
    BY <1>1, <2>1, GrantMandateGoes DEF GrantMandate
  <2>2. ASSUME NEW m \in Mandates, NEW record \in AmendedRecords, NEW expiry \in Expiries,
               NEW limits \in LimitChoices, AmendMandate(m, record, expiry, limits)
        PROVE  now' = now /\ Keeps(world, world')
    BY <1>1, <2>2, AmendMandateGoes DEF AmendMandate
  <2>3. ASSUME NEW m \in Mandates, RevokeMandate(m) PROVE now' = now /\ Keeps(world, world')
    BY <1>1, <2>3, RevokeMandateGoes DEF RevokeMandate
  <2>4. ASSUME NEW m \in Mandates, SelectModel(m) PROVE now' = now /\ Keeps(world, world')
    BY <1>1, <2>4, SelectModelGoes DEF SelectModel
  <2>5. ASSUME NEW policy \in Policies, ReloadPolicy(policy) PROVE now' = now /\ Keeps(world, world')
    BY <2>5, ReloadPolicyGoes DEF ReloadPolicy
  <2>6. ASSUME PutConversationItems PROVE now' = now /\ Keeps(world, world')
    BY <2>6, PutConversationItemsGoes DEF PutConversationItems
  <2> QED BY <1>3, <2>1, <2>2, <2>3, <2>4, <2>5, <2>6 DEF ChangeAuthority
<1>4. CASE \E p \in Proposals, g \in RuledGates, ev \in Evaluations : RuleProposal(p, g, ev)
  BY <1>1, <1>4, RuleProposalGoes DEF RuleProposal
<1>5. CASE Commit
  <2>1. ASSUME NEW r \in RulingIds, NEW boot \in Boots, NEW evidence \in BOOLEAN,
               CommitVerify(r, boot, evidence)
        PROVE  now' = now /\ (Keeps(world, world') \/ Binds(r))
    BY <1>1, <2>1, CommitVerifyGoes DEF CommitVerify
  <2>2. ASSUME NEW r \in RulingIds, NEW outcome \in Outcomes, ReportEffectOutcome(r, outcome)
        PROVE  now' = now /\ Settles(r)
    BY <1>1, <2>2, ReportEffectOutcomeGoes DEF ReportEffectOutcome
  <2>3. ASSUME NEW r \in RulingIds, MarkCommitmentUnknown(r) PROVE now' = now /\ Settles(r)
    BY <1>1, <2>3, MarkCommitmentUnknownGoes DEF MarkCommitmentUnknown
  <2>4. ASSUME NEW r \in RulingIds, NEW boot \in Boots, ReconcileAbsentAfterRestart(r, boot)
        PROVE  now' = now /\ Settles(r)
    BY <1>1, <2>4, ReconcileAbsentAfterRestartGoes DEF ReconcileAbsentAfterRestart
  <2> QED BY <1>5, <2>1, <2>2, <2>3, <2>4 DEF Commit
<1>6. CASE HandleEscalation
  <2>1. ASSUME NEW e \in EscalationIds, NEW d \in {"allow-within-scope", "narrow-or-modify", "stop"},
               NEW ev \in Evaluations, DisposeEscalation(e, d, ev)
        PROVE  now' = now /\ Keeps(world, world')
    BY <1>1, <2>1, DisposeEscalationGoes DEF DisposeEscalation
  <2>2. ASSUME NEW e \in EscalationIds, NEW d \in {"answer", "abstain"}, RespondDialogue(e, d)
        PROVE  now' = now /\ Keeps(world, world')
    BY <1>1, <2>2, RespondDialogueGoes DEF RespondDialogue
  <2>3. ASSUME NEW e \in EscalationIds, NEW p \in Proposals,
               NEW ev \in [{"authorize", "submit", "verify"} -> Evaluations],
               ContinueEscalationRevision(e, p, ev)
        PROVE  now' = now /\ Keeps(world, world')
    BY <1>1, <2>3, ContinueEscalationRevisionGoes DEF ContinueEscalationRevision
  <2> QED BY <1>6, <2>1, <2>2, <2>3 DEF HandleEscalation
<1>7. CASE RunSweeper BY <1>1, <1>7, RunSweeperGoes DEF RunSweeper
<1> QED BY <1>2, <1>3, <1>4, <1>5, <1>6, <1>7 DEF Next

\* Nothing speaks against a world in which nothing has happened.
LEMMA InitOrderly == Init => OrderlyInv
<1> SUFFICES ASSUME Init PROVE OrderlyInv OBVIOUS
<1>1. Inv /\ Sound(world) BY InitInv DEF Inv
<1>2. /\ \A r \in RulingIds : /\ world.rulings[r] = NoRuling /\ world.nonces[r] = "none"
                               /\ world.reservations[r] = "none"
      /\ \A e \in EscalationIds : world.escalations[e] = NoEscalation
      /\ \A m \in Mandates : world.mandates[m] = NoMandate
  BY DEF Init, EmptyWorld
<1>3. \A e \in EscalationIds : world.escalations[e].state = "none" BY <1>2 DEF NoEscalation
<1>4. \A r \in RulingIds : <<"ruling", r>> \in EscalationIds /\ <<"recovery", r>> \in EscalationIds
  BY DEF EscalationIds
<1>5. RulingsOrderly(world, now) BY <1>2 DEF RulingsOrderly, NoRuling
<1>6. EscalationsOrderly(world) BY <1>3, <1>4 DEF EscalationsOrderly
<1>7. MandatesOrderly(world) BY <1>2 DEF MandatesOrderly, NoMandate
<1>8. WithinCeilings(world) BY <1>2 DEF WithinCeilings
<1>9. SuccessorsExist(world) /\ SuccessorsIn(world) BY <1>3 DEF SuccessorsExist, SuccessorsIn
<1> QED BY <1>1, <1>5, <1>6, <1>7, <1>8, <1>9 DEF OrderlyInv, Orderly

\* The invariant is inductive.
LEMMA NextOrderly ==
    ASSUME OrderlyInv, [Next]_vars
    PROVE  OrderlyInv'
<1>1. CASE Next
  <2>1. Inv BY DEF OrderlyInv
  <2>2. Sound(world') /\ now' \in Nat /\ reloads' \in Nat BY <1>1, <2>1, NextKeepsWorld, NextKeepsCounters
  <2>3. ASSUME now' = now, Goes(world, world') PROVE OrderlyInv'
    BY <2>2, <2>3 DEF Goes, OrderlyInv, Inv
  <2> QED BY <1>1, <2>3, NextGoes, TickKeeps DEF Keeps, Binds, Settles
<1>2. CASE UNCHANGED vars BY <1>2 DEF vars, OrderlyInv, Inv
<1> QED BY <1>1, <1>2

\* Besides the clock, no step rewinds, loosens or overspends anything.
LEMMA StepGoes ==
    ASSUME OrderlyInv, [Next]_vars
    PROVE  \/ Goes(world, world') /\ now' = now
           \/ Tick
           \/ UNCHANGED vars
BY NextGoes DEF Keeps, Binds, Settles

-----------------------------------------------------------------------------
(***************************************************************************)
(* The theorems about histories.                                           *)
(***************************************************************************)
THEOREM HistoryInvariance == Spec => []OrderlyInv
BY InitOrderly, NextOrderly, PTL DEF Spec

\* Whatever is overridden, narrowed, revised and ruled again, in whatever order, the
\* escalation and the ruling it stems from name the same successor: another ruling of the
\* proposal at the gate or one of a later revision (ruling.link_successor).
THEOREM SuccessorsAreLinked == Spec => []SuccessorLinks
<1>1. OrderlyInv => SuccessorLinks BY DEF OrderlyInv, Orderly, SuccessorLinks
<1> QED BY <1>1, HistoryInvariance, PTL

\* No handler moves a ruling, a nonce, a reservation, a commitment or an escalation out of
\* a terminal state or past one of the lifecycle (the transition tables of state.ts).
THEOREM LifecyclesRunForward == Spec => Lifecycles
<1>1. OrderlyInv /\ [Next]_vars => [LifecyclesIn(world, world')]_vars
  <2> SUFFICES ASSUME OrderlyInv, [Next]_vars PROVE [LifecyclesIn(world, world')]_vars OBVIOUS
  <2>1. CASE Goes(world, world') BY <2>1 DEF Goes
  <2>2. CASE Tick BY <2>2 DEF Tick, LifecyclesIn, Before
  <2>3. CASE UNCHANGED vars BY <2>3
  <2> QED BY <2>1, <2>2, <2>3, StepGoes
<1> QED BY <1>1, HistoryInvariance, PTL DEF Spec, Lifecycles

\* The step that records the event which reaches a threshold takes the mandate out of
\* force in the same transaction (patternNarrowingOps), for any thresholds and window.
THEOREM NarrowingHolds == Spec => NarrowingTakesHold
<1> DEFINE Narrowed(m) ==
        /\ \E x \in world'.patterns \ world.patterns : x.mandate = m
        /\ EscalationPatternRequiresNarrowing(world', m, now)
        => world'.mandates[m].status # "active"
<1>1. OrderlyInv /\ [Next]_vars => [\A m \in Mandates : Narrowed(m)]_vars
  <2> SUFFICES ASSUME OrderlyInv, [Next]_vars PROVE [\A m \in Mandates : Narrowed(m)]_vars OBVIOUS
  <2>1. CASE Goes(world, world') BY <2>1 DEF Goes, Narrows
  <2>2. CASE Tick BY <2>2 DEF Tick
  <2>3. CASE UNCHANGED vars BY <2>3
  <2> QED BY <2>1, <2>2, <2>3, StepGoes
<1>2. Spec => [][\A m \in Mandates : Narrowed(m)]_vars BY <1>1, HistoryInvariance, PTL DEF Spec
<1> QED BY <1>2 DEF NarrowingTakesHold

\* Whatever is reserved, settled, held, released, amended and counted anew on another day,
\* a step that raises a counter leaves it within the ceiling (validateCeilings), for any
\* proposals, costs and ceilings.
THEOREM CeilingsAreKept == Spec => CeilingKept
<1> DEFINE Contains(m, c) ==
        CounterValue(world', m, c, now') > CounterValue(world, m, c, now) =>
            CounterValue(world', m, c, now') <= world'.mandates[m].limits[c]
<1>1. OrderlyInv /\ OrderlyInv' /\ [Next]_vars => [\A m \in Mandates, c \in Counters : Contains(m, c)]_vars
  <2> SUFFICES ASSUME OrderlyInv, OrderlyInv', [Next]_vars, NEW m \in Mandates, NEW c \in Counters
               PROVE  Contains(m, c) \/ UNCHANGED vars
    OBVIOUS
  <2>1. Sound(world) /\ Sound(world') /\ RulingsOrderly(world, now) /\ now \in Nat
    BY DEF OrderlyInv, Orderly, Inv
  <2>2. CounterValue(world, m, c, now) \in Nat /\ CounterValue(world', m, c, now') \in Nat
    BY <2>1, CounterIsNatural
  <2>3. CASE Goes(world, world') /\ now' = now
    <3>1. \/ CounterValue(world', m, c, now) <= CounterValue(world, m, c, now)
          \/ CounterValue(world', m, c, now) <= world'.mandates[m].limits[c]
      BY <2>3 DEF Goes, Contained
    <3> QED BY <2>2, <2>3, <3>1
  <2>4. CASE Tick
    <3>1. CounterValue(world, m, c, now + 1) <= CounterValue(world, m, c, now) BY <2>1, TickContained
    <3>2. now' = now + 1 /\ world' = world BY <2>4 DEF Tick
    <3> QED BY <2>2, <3>1, <3>2
  <2> QED BY <2>3, <2>4, StepGoes
<1>2. Spec => [][\A m \in Mandates, c \in Counters : Contains(m, c)]_vars
  BY <1>1, HistoryInvariance, PTL DEF Spec
<1> QED BY <1>2 DEF CeilingKept

-----------------------------------------------------------------------------
(***************************************************************************)
(* The book.                                                               *)
(***************************************************************************)
\* The definitions of BindingBookRefinement in an arbitrary world.
BoundBy(w, p) == {r \in RulingIds : w.commitments[r].state # "none" /\ w.rulings[r].proposal = p}

EntryOf(w, r) == [state |-> BookState(w.commitments[r]), mandate |-> w.rulings[r].mandate,
                  day |-> Day(w.rulings[r].issuedAt)]

Entry(w, p) == IF BoundBy(w, p) = {} THEN [state |-> "unbound"] ELSE EntryOf(w, CHOOSE r \in BoundBy(w, p) : TRUE)

LEMMA BookEntries ==
    ASSUME NEW p
    PROVE  BookEntry(p) = Entry(world, p) /\ BookEntry(p)' = Entry(world', p)
BY DEF BookEntry, Entry, EntryOf, BoundBy, BindingRulings, BookState

\* A proposal is bound by one ruling at most.
LEMMA BoundOnce ==
    ASSUME NEW w, Sound(w), NEW r \in RulingIds, w.commitments[r].state # "none",
           NEW p, p = w.rulings[r].proposal
    PROVE  BoundBy(w, p) = {r} /\ Entry(w, p) = EntryOf(w, r)
<1>1. \A q \in RulingIds : w.commitments[q].state # "none" =>
          w.rulings[q].status = "consumed" /\ w.rulings[q].gate = "commit"
  BY DEF Sound, UsedOnceIn
<1>2. OneUsableIn(w) BY DEF Sound
<1>3. \A q \in BoundBy(w, p) : q = r BY <1>1, <1>2 DEF OneUsableIn, BoundBy
<1>4. r \in BoundBy(w, p) BY DEF BoundBy
<1>5. BoundBy(w, p) = {r} BY <1>3, <1>4
<1>6. (CHOOSE q \in {r} : TRUE) = r OBVIOUS
<1> QED BY <1>5, <1>6 DEF Entry

\* The entries that are not those of the proposal bound are left alone.
LEMMA OthersStay ==
    ASSUME NEW w, NEW v, NEW r \in RulingIds, Commits(w, v, r), NEW p, p # w.rulings[r].proposal
    PROVE  Entry(v, p) = Entry(w, p)
<1>1. \A q \in RulingIds : /\ v.rulings[q].proposal = w.rulings[q].proposal
                           /\ v.rulings[q].mandate = w.rulings[q].mandate
                           /\ v.rulings[q].issuedAt = w.rulings[q].issuedAt
  BY DEF Commits, SameRuling
<1>2. \A q \in RulingIds \ {r} : v.commitments[q] = w.commitments[q] BY DEF Commits
<1>3. BoundBy(v, p) = BoundBy(w, p) /\ \A q \in BoundBy(w, p) : q \in RulingIds \ {r}
  BY <1>1, <1>2 DEF BoundBy
<1>4. \A q \in BoundBy(w, p) : EntryOf(v, q) = EntryOf(w, q) BY <1>1, <1>2, <1>3 DEF EntryOf
<1>5. BoundBy(w, p) # {} => (CHOOSE q \in BoundBy(w, p) : TRUE) \in BoundBy(w, p) OBVIOUS
<1> QED BY <1>3, <1>4, <1>5 DEF Entry

\* What keeps the book keeps its entries.
LEMMA SameEntries ==
    ASSUME NEW w, NEW v, SameBook(w, v), NEW p
    PROVE  Entry(v, p) = Entry(w, p)
<1>1. BoundBy(v, p) = BoundBy(w, p)
  <2>1. \A r \in RulingIds : v.commitments[r] = w.commitments[r] BY DEF SameBook
  <2>2. \A r \in RulingIds : w.commitments[r].state # "none" => v.rulings[r].proposal = w.rulings[r].proposal
    BY DEF SameBook, SameRuling
  <2> QED BY <2>1, <2>2 DEF BoundBy
<1>2. \A q \in BoundBy(w, p) : EntryOf(v, q) = EntryOf(w, q) BY DEF SameBook, SameRuling, BoundBy, EntryOf
<1>3. BoundBy(w, p) # {} => (CHOOSE q \in BoundBy(w, p) : TRUE) \in BoundBy(w, p) OBVIOUS
<1> QED BY <1>1, <1>2, <1>3 DEF Entry

\* What the ceilings of the book count.
SpentIn(w, m, c, day) ==
    {p \in Proposals : /\ Entry(w, p).state \in {"pending", "effect"}
                       /\ Entry(w, p).mandate = m
                       /\ c = "actions" => Entry(w, p).day = day}

LEMMA SpentIsTotal ==
    ASSUME NEW m, NEW c, NEW day, NEW S, S = SpentIn(world, m, c, day), IsFiniteSet(S),
           NEW f, f = [p \in S |-> Delta(p, c)],
           \A p \in S : f[p] \in Nat
    PROVE  Book!Spent(m, c, day) = Total(f, S)
<1> DEFINE Step(g) == [s \in SUBSET S |-> IF s = {} THEN 0
                         ELSE Delta(Pick(s), c) + g[s \ {Pick(s)}]]
           iter == CHOOSE g : g = Step(g)
           h == [s \in SUBSET S |-> Total(f, s)]
<1>0. S = {p \in Proposals : /\ BookEntry(p).state \in {"pending", "effect"}
                             /\ BookEntry(p).mandate = m
                             /\ c = "actions" => BookEntry(p).day = day}
  BY BookEntries DEF SpentIn
<1>1. Book!Spent(m, c, day) = iter[S]
  BY <1>0 DEF Book!Spent, Book!MapThenSumSet, Book!MapThenFoldSet, MapThenSumSet, MapThenFoldSet, Pick
<1>2. \A s \in SUBSET S : s # {} => /\ Pick(s) \in S
                                    /\ s \ {Pick(s)} \in SUBSET S
                                    /\ f[Pick(s)] = Delta(Pick(s), c)
  BY DEF Pick
<1>3. \A s \in SUBSET S :
        Total(f, s) = IF s = {} THEN 0 ELSE f[Pick(s)] + Total(f, s \ {Pick(s)})
  BY TotalIsFold
<1>4. h = Step(h) BY <1>2, <1>3
<1>5. iter = Step(iter)
  <2> HIDE DEF Step, h
  <2> QED BY <1>4
<1> HIDE DEF iter
<1>6. \A s \in SUBSET S : iter[s] = IF s = {} THEN 0 ELSE f[Pick(s)] + iter[s \ {Pick(s)}]
  BY <1>2, <1>5
<1>7. iter[S] = Total(f, S)
  <2> HIDE DEF Step
  <2> QED BY <1>6, FoldIsTotal
<1> QED BY <1>1, <1>7

\* What counts in the book counts in the authorization core, under its own ruling.
LEMMA EntriesCount ==
    ASSUME NEW w, Sound(w), NEW m, NEW c, NEW t, NEW p \in SpentIn(w, m, c, Day(t))
    PROVE  \E r \in Counting(w, m, c, t) : /\ r \in RulingIds /\ w.commitments[r].state # "none"
                                          /\ w.rulings[r].proposal = p
<1>1. p \in Proposals /\ BoundBy(w, p) # {} BY DEF SpentIn, Entry
<1>2. PICK r \in RulingIds : w.commitments[r].state # "none" /\ w.rulings[r].proposal = p
  BY <1>1 DEF BoundBy
<1>3. Entry(w, p) = EntryOf(w, r) BY <1>2, BoundOnce
<1>4. /\ BookState(w.commitments[r]) \in {"pending", "effect"} /\ w.rulings[r].mandate = m
      /\ c = "actions" => Day(w.rulings[r].issuedAt) = Day(t)
  BY <1>3 DEF SpentIn, EntryOf
<1>5. w.reservations[r] \in {"settled", "held"}
  <2>1. w.rulings[r].status = "consumed" BY <1>2 DEF Sound, UsedOnceIn
  <2>2. w.reservations[r] \in ReservationStates /\ w.reservations[r] # "none" /\ w.reservations[r] # "reserved"
    BY <1>2, <2>1 DEF Sound, World, CapacityIn
  <2>3. w.reservations[r] # "released" BY <1>4, <2>1 DEF Sound, CapacityIn, BookState
  <2> QED BY <2>2, <2>3 DEF ReservationStates
<1> QED BY <1>2, <1>4, <1>5 DEF Counting

\* What the book has spent together with one more proposal, whose capacity is reserved, is
\* within what is counted.
LEMMA SpentWithin ==
    ASSUME Sound(world), NEW r \in RulingIds, world.reservations[r] = "reserved",
           NEW c \in Counters, NEW p \in Proposals, p = world.rulings[r].proposal,
           NEW m, m = world.rulings[r].mandate, NEW t, t = world.rulings[r].issuedAt,
           BoundBy(world, p) = {}
    PROVE  /\ Book!Spent(m, c, Day(t)) \in Nat
           /\ Book!Spent(m, c, Day(t)) + Delta(p, c) <= CounterValue(world, m, c, t)
<1> DEFINE S == SpentIn(world, m, c, Day(t))
           U == S \cup {p}
           T == Counting(world, m, c, t)
           e == [q \in S |-> Delta(q, c)]
           f == [q \in U |-> Delta(q, c)]
           g == [q \in T |-> Delta(world.rulings[q].proposal, c)]
           By(q) == CHOOSE x \in T : world.rulings[x].proposal = q
           i == [q \in U |-> By(q)]
<1>1. IsFiniteSet(T) /\ \A q \in T : world.rulings[q].proposal \in Proposals BY CountingFacts
<1>2. r \in T /\ p \notin S BY DEF Counting, SpentIn, Entry
<1>3. S \subseteq Proposals BY DEF SpentIn
<1>4. \A q \in U : \E x \in T : world.rulings[x].proposal = q
  <2>1. \A q \in S : \E x \in T : world.rulings[x].proposal = q BY EntriesCount
  <2> QED BY <1>2, <2>1
<1>5. \A q \in U : By(q) \in T /\ world.rulings[By(q)].proposal = q BY <1>4
<1>6. /\ \A q \in S : e[q] \in Nat
      /\ \A q \in U : f[q] \in Nat /\ f[q] = Delta(q, c)
  BY <1>3, DeltaIsNatural
<1>7. \A q \in T : g[q] \in Nat BY <1>1, DeltaIsNatural
<1>8. /\ S = SpentIn(world, m, c, Day(t)) /\ e = [q \in S |-> Delta(q, c)]
      /\ U \ {p} = S /\ p \in U /\ S \in SUBSET U
  BY <1>2
<1>9. T = Counting(world, m, c, t) /\ g = [q \in T |-> Delta(world.rulings[q].proposal, c)] OBVIOUS
<1>10. i \in [U -> T] /\ (\A x, y \in U : i[x] = i[y] => x = y)
  <2>1. \A q \in U : i[q] = By(q) OBVIOUS
  <2>2. i \in [U -> T] BY <1>5
  <2> HIDE DEF By, i
  <2> QED BY <1>5, <2>1, <2>2
<1>11. \A q \in U : f[q] <= g[i[q]]
  <2>1. \A q \in U : i[q] = By(q) OBVIOUS
  <2>2. \A q \in T : g[q] = Delta(world.rulings[q].proposal, c) OBVIOUS
  <2> HIDE DEF By, i, g, f
  <2>3. \A q \in U : g[i[q]] = f[q] BY <1>5, <1>6, <2>1, <2>2
  <2> QED BY <1>6, <2>3
<1>12. \A q \in S : e[q] = f[q] OBVIOUS
<1> HIDE DEF S, U, T, e, f, g, i, By
<1>13. IsFiniteSet(U)
  <2>1. i \in Injection(U, T) BY <1>10 DEF Injection, IsInjective
  <2> QED BY <1>1, <2>1, FS_Injection
<1>14. IsFiniteSet(S) BY <1>8, <1>13, FS_Subset
<1>15. Book!Spent(m, c, Day(t)) = Total(e, S) BY <1>6, <1>8, <1>14, SpentIsTotal
<1>16. CounterValue(world, m, c, t) = Total(g, T) BY <1>1, <1>7, <1>9, CounterIsTotal
<1>17. Total(f, U) <= Total(g, T) BY <1>1, <1>6, <1>7, <1>10, <1>11, TotalAtMost
<1>18. Total(f, U) = f[p] + Total(f, U \ {p})
  <2>1. \A s \in SUBSET U : IsFiniteSet(Units(f, s)) BY <1>6, <1>13, UnitsFinite
  <2> QED BY <1>6, <1>8, <2>1, UnitsStep
<1>19. Total(e, S) = Total(f, S)
  <2>1. Units(e, S) = Units(f, S) BY <1>12 DEF Units
  <2> QED BY <2>1 DEF Total
<1>20. Total(e, S) \in Nat /\ Delta(p, c) \in Nat
  <2>1. \A s \in SUBSET S : Total(e, s) \in Nat BY <1>6, <1>14, UnitsFinite
  <2> QED BY <2>1, DeltaIsNatural
<1>21. f[p] = Delta(p, c) BY <1>6, <1>8
<1>22. Total(f, U) = Total(e, S) + Delta(p, c)
  <2>1. Total(f, U \ {p}) = Total(e, S) BY <1>8, <1>19
  <2>2. Total(f, U) = Delta(p, c) + Total(e, S) BY <1>18, <1>21, <2>1
  <2> QED BY <1>20, <2>2
<1>23. Total(e, S) + Delta(p, c) <= CounterValue(world, m, c, t) BY <1>16, <1>17, <1>22
<1> QED BY <1>15, <1>20, <1>23

-----------------------------------------------------------------------------
(***************************************************************************)
(* Every step is a step of the book.                                       *)
(***************************************************************************)
LEMMA SameAuthority ==
    ASSUME world'.mandates = world.mandates
    PROVE  \A m \in Mandates : Authority(m)' = Authority(m)
BY DEF Authority

\* A mandate in force has the authority it was granted.
LEMMA AuthorityInForce ==
    ASSUME NEW m \in Mandates, world.mandates[m].status = "active"
    PROVE  Authority(m) = [inForce |-> TRUE, expiresAt |-> world.mandates[m].expiresAt,
                           limits |-> world.mandates[m].limits]
BY DEF Authority

\* The book is written in the first case and left alone in the second.
LEMMA KeepsRefines ==
    ASSUME Keeps(world, world'), now' = now
    PROVE  [Book!BookNext]_(Book!bookVars)
<1>1. \A p \in Proposals : BookEntry(p)' = BookEntry(p)
  <2>1. SameBook(world, world') BY DEF Keeps
  <2> QED BY <2>1, BookEntries, SameEntries
<1>2. [p \in Proposals |-> BookEntry(p)]' = [p \in Proposals |-> BookEntry(p)] BY <1>1
<1>3. CASE [m \in Mandates |-> Authority(m)]' = [m \in Mandates |-> Authority(m)]
  BY <1>2, <1>3 DEF Book!bookVars
<1>4. CASE [m \in Mandates |-> Authority(m)]' # [m \in Mandates |-> Authority(m)]
  <2>1. Book!ChangeAuthority BY <1>2, <1>4 DEF Book!ChangeAuthority
  <2> QED BY <2>1 DEF Book!BookNext
<1> QED BY <1>3, <1>4

LEMMA SettlesRefines ==
    ASSUME OrderlyInv, NEW r \in RulingIds, Settles(r), now' = now
    PROVE  [Book!BookNext]_(Book!bookVars)
<1>0. PICK p : p = world.rulings[r].proposal OBVIOUS
<1>1. Sound(world) /\ Sound(world') /\ Commits(world, world', r)
  BY DEF OrderlyInv, Inv, Settles, Goes, Orderly
<1>2. /\ world.commitments[r].state \in {"bound", "unknown"}
      /\ world'.commitments[r].state \in {"unknown", "discharged", "reconciled"}
  BY DEF Settles
<1>3. world'.rulings[r].proposal = p /\ world'.rulings[r].mandate = world.rulings[r].mandate
      /\ world'.rulings[r].issuedAt = world.rulings[r].issuedAt
  BY <1>0, <1>1 DEF Commits, SameRuling
<1>4. Entry(world, p) = EntryOf(world, r) /\ Entry(world', p) = EntryOf(world', r)
  BY <1>0, <1>1, <1>2, <1>3, BoundOnce
<1>5. p \in Proposals
  BY <1>0, <1>1, <1>2 DEF Sound, LinkedIn, NoCommitment, Ruling
<1>6. \A q \in Proposals \ {p} : BookEntry(q)' = BookEntry(q)
  BY <1>0, <1>1, BookEntries, OthersStay
<1>7. BookEntry(p) = EntryOf(world, r) /\ BookEntry(p)' = EntryOf(world', r) BY <1>4, BookEntries
<1>8. /\ EntryOf(world', r) = [EntryOf(world, r) EXCEPT !.state = BookState(world'.commitments[r])]
      /\ EntryOf(world, r).state = "pending"
  <2>1. BookState(world.commitments[r]) = "pending" BY <1>2 DEF BookState
  <2>2. /\ world'.rulings[r].mandate = world.rulings[r].mandate
        /\ Day(world'.rulings[r].issuedAt) = Day(world.rulings[r].issuedAt)
    BY <1>3
  <2>3. EntryOf(world', r) = [state |-> BookState(world'.commitments[r]), mandate |-> world.rulings[r].mandate,
                              day |-> Day(world.rulings[r].issuedAt)]
    BY <2>2 DEF EntryOf
  <2> QED BY <2>1, <2>3 DEF EntryOf
<1>9. [m \in Mandates |-> Authority(m)]' = [m \in Mandates |-> Authority(m)]
  BY <1>1, SameAuthority DEF Commits
<1>10. [q \in Proposals |-> BookEntry(q)]'
         = [[q \in Proposals |-> BookEntry(q)] EXCEPT ![p].state = BookState(world'.commitments[r])]
  BY <1>5, <1>6, <1>7, <1>8
<1>11. CASE world'.commitments[r].state = "unknown"
  <2>1. BookState(world'.commitments[r]) = "pending" BY <1>11 DEF BookState
  <2>2. EntryOf(world', r) = EntryOf(world, r) BY <1>8, <2>1 DEF EntryOf
  <2>3. [q \in Proposals |-> BookEntry(q)]' = [q \in Proposals |-> BookEntry(q)]
    BY <1>6, <1>7, <2>2
  <2> QED BY <1>9, <2>3 DEF Book!bookVars
<1>12. CASE world'.commitments[r].state \in {"discharged", "reconciled"}
  <2>1. PICK outcome \in {"effect", "no effect"} : BookState(world'.commitments[r]) = outcome
    BY <1>12 DEF BookState
  <2>2. Book!Learn(p, outcome) BY <1>5, <1>7, <1>8, <1>9, <1>10, <2>1 DEF Book!Learn
  <2> QED BY <1>5, <2>2 DEF Book!BookNext
<1> QED BY <1>2, <1>11, <1>12

LEMMA BindsRefines ==
    ASSUME OrderlyInv, NEW r \in RulingIds, Binds(r), now' = now
    PROVE  [Book!BookNext]_(Book!bookVars)
<1>0. PICK p, m, t : p = world.rulings[r].proposal /\ m = world.rulings[r].mandate /\ t = world.rulings[r].issuedAt
  OBVIOUS
<1> DEFINE entry == [state |-> "pending", mandate |-> m, day |-> Day(t)]
<1>1. /\ Orderly(world, now) /\ Sound(world) /\ Sound(world') /\ now \in Nat
      /\ Commits(world, world', r) /\ world.rulings[r].status = "issued"
      /\ world.commitments[r].state = "none" /\ world'.commitments[r].state = "bound"
  BY DEF OrderlyInv, Inv, Binds, Goes, Orderly
<1>2. PICK evidence \in BOOLEAN : ~CommitDefect(world, r, evidence) BY DEF Binds
<1>3. /\ world.mandates[m].status = "active" /\ ~(now > world.mandates[m].expiresAt)
      /\ world.reservations[r] = "reserved"
  BY <1>0, <1>2 DEF CommitDefect
<1>4. /\ world.rulings[r] \in Ruling /\ m \in Mandates /\ world.mandates[m] \in Mandate
      /\ world.mandates[m].limits \in [Counters -> Nat]
  BY <1>0, <1>1, <1>3, ReservedUnder DEF Orderly
<1>5. p \in Proposals /\ t \in Nat /\ t <= now
  BY <1>0, <1>1, <1>4 DEF Ruling, Orderly, RulingsOrderly
<1>6. Day(t) \in 0 .. Day(now) BY <1>1, <1>5, DayIsMonotone
<1>7. world.mandates[m].expiresAt \in Nat /\ now <= world.mandates[m].expiresAt
  BY <1>1, <1>3, <1>4 DEF Mandate
<1>8. /\ world'.rulings[r].proposal = p /\ world'.rulings[r].mandate = m /\ world'.rulings[r].issuedAt = t
  BY <1>0, <1>1 DEF Commits, SameRuling
<1>9. BoundBy(world', p) = {r} /\ Entry(world', p) = EntryOf(world', r) BY <1>0, <1>1, <1>8, BoundOnce
<1>10. EntryOf(world', r) = entry BY <1>1, <1>8 DEF EntryOf, BookState
<1>11. BoundBy(world, p) = {}
  <2>1. \A q \in BoundBy(world, p) : q # r BY <1>0, <1>1 DEF BoundBy
  <2>2. \A q \in BoundBy(world, p) : q # r => q \in BoundBy(world', p)
    <3>1. \A q \in RulingIds : world'.rulings[q].proposal = world.rulings[q].proposal
      BY <1>1 DEF Commits, SameRuling
    <3>2. \A q \in RulingIds \ {r} : world'.commitments[q] = world.commitments[q] BY <1>1 DEF Commits
    <3> QED BY <3>1, <3>2 DEF BoundBy
  <2> QED BY <1>9, <2>1, <2>2
<1>12. BookEntry(p) = [state |-> "unbound"] /\ BookEntry(p)' = entry
  BY <1>9, <1>10, <1>11, BookEntries DEF Entry
<1>13. \A q \in Proposals \ {p} : BookEntry(q)' = BookEntry(q)
  BY <1>0, <1>1, BookEntries, OthersStay
<1>14. [x \in Mandates |-> Authority(x)]' = [x \in Mandates |-> Authority(x)]
  BY <1>1, SameAuthority DEF Commits
<1>15. /\ Authority(m).inForce = TRUE /\ Authority(m).expiresAt = world.mandates[m].expiresAt
       /\ Authority(m).limits = world.mandates[m].limits
  BY <1>3, <1>4, AuthorityInForce
<1>16. ASSUME NEW c \in Counters
       PROVE  Book!Spent(m, c, Day(t)) + Delta(p, c) <= Authority(m).limits[c]
  <2>1. /\ Book!Spent(m, c, Day(t)) \in Nat
        /\ Book!Spent(m, c, Day(t)) + Delta(p, c) <= CounterValue(world, m, c, t)
    BY <1>0, <1>1, <1>3, <1>5, <1>11, SpentWithin
  <2>2. CounterValue(world, m, c, t) <= world.mandates[m].limits[c]
    BY <1>0, <1>1, <1>3 DEF Orderly, WithinCeilings
  <2>3. /\ CounterValue(world, m, c, t) \in Nat /\ Delta(p, c) \in Nat
        /\ world.mandates[m].limits[c] \in Nat
    BY <1>1, <1>4, <1>5, CounterIsNatural, DeltaIsNatural
  <2> QED BY <1>15, <2>1, <2>2, <2>3
<1> HIDE DEF entry
<1>17. [q \in Proposals |-> BookEntry(q)]' = [[q \in Proposals |-> BookEntry(q)] EXCEPT ![p] = entry]
  BY <1>5, <1>12, <1>13
<1>18. Book!Bind(p, m, Day(t))
  <2>1. [q \in Proposals |-> BookEntry(q)][p].state = "unbound" BY <1>5, <1>12
  <2>2. [x \in Mandates |-> Authority(x)][m] = Authority(m) BY <1>4
  <2>3. Day(t) <= Day(now) BY <1>6
  <2> QED BY <1>7, <1>14, <1>15, <1>16, <1>17, <2>1, <2>2, <2>3 DEF Book!Bind, entry
<1> QED BY <1>4, <1>5, <1>6, <1>18 DEF Book!BookNext

LEMMA TickRefines ==
    ASSUME Tick
    PROVE  [Book!BookNext]_(Book!bookVars)
<1>1. Book!AdvanceClock BY DEF Tick, Book!AdvanceClock, BookEntry, Authority, BindingRulings
<1> QED BY <1>1 DEF Book!BookNext

LEMMA InitRefines == Init => Book!BookInit
<1> SUFFICES ASSUME Init PROVE Book!BookInit OBVIOUS
<1>1. \A r \in RulingIds : world.commitments[r].state = "none" BY DEF Init, EmptyWorld, NoCommitment
<1>2. \A p \in Proposals : BookEntry(p) = [state |-> "unbound"]
  <2>1. \A p \in Proposals : BoundBy(world, p) = {} BY <1>1 DEF BoundBy
  <2> QED BY <2>1, BookEntries DEF Entry
<1>3. \A m \in Mandates : Authority(m) = [inForce |-> FALSE, expiresAt |-> 0, limits |-> [c \in Counters |-> 0]]
  BY DEF Init, EmptyWorld, NoMandate, Authority
<1> QED BY <1>2, <1>3 DEF Init, Book!BookInit, Book!NoAuthority, Book!Unbound

\* The authorization core implements the book of binding commitments: a proposal is bound
\* once, under a mandate in force and within its ceilings counted over everything bound
\* that may have had an effect, and a known outcome is final, for any number of
\* proposals, mandates, rulings and any ceilings.
THEOREM CoreImplementsBook == Spec => ImplementsBook
<1>1. OrderlyInv /\ [Next]_vars => [Book!BookNext]_(Book!bookVars)
  <2> SUFFICES ASSUME OrderlyInv, [Next]_vars PROVE [Book!BookNext]_(Book!bookVars) OBVIOUS
  <2>1. CASE Next BY <2>1, NextGoes, TickRefines, KeepsRefines, SettlesRefines, BindsRefines
  <2>2. CASE UNCHANGED vars
    BY <2>2 DEF vars, Book!bookVars, BookEntry, Authority, BindingRulings, BookState
  <2> QED BY <2>1, <2>2
<1> QED BY <1>1, InitRefines, HistoryInvariance, PTL DEF Spec, ImplementsBook, Book!BookSpec
=============================================================================
