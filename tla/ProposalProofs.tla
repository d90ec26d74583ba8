---------------------------- MODULE ProposalProofs ----------------------------
(***************************************************************************)
(* Proofs about the native proposals of a case, for any number of          *)
(* sessions, gate loops, runs, preparations, changes and repeated rulings. *)
(***************************************************************************)
EXTENDS ProposalProperties, SequenceTheorems, FiniteSetTheorems, TLAPS

-----------------------------------------------------------------------------
(***************************************************************************)
(* The inductive invariant.                                                *)
(***************************************************************************)
CountersShape == {boot, version, governance} \subseteq 1..(MaxChanges + 1)

ReceiptsShape == receipts \in [Sessions -> {"none", "active", "ended", "lost"}]

RunsShape ==
    /\ runs \in Seq(RunRecords) /\ Len(runs) <= MaxRuns
    /\ \A i \in DOMAIN runs : \A g \in Gates :
        /\ runs[i].gates[g].serial <= MaxIssues
        /\ runs[i].gates[g].serial = 0 => runs[i].gates[g] = NoRuling

PreparationsShape == preparations \in Seq(PreparationRecords) /\ Len(preparations) <= MaxPreparations

\* A caller in the loop asks about a gate of a run.
LoopsShape ==
    /\ loops \in [Callers -> [run : 0..MaxRuns, gate : {"none"} \cup Gates, stage : {"idle", "rule", "look"}]]
    /\ \A c \in Callers : loops[c].stage # "idle" => loops[c].gate \in Gates

\* A run is bound to what was in force when it began, and to a session there has been.
Bindings ==
    \A i \in DOMAIN runs :
        /\ runs[i].boot <= boot /\ runs[i].version <= version /\ runs[i].governance <= governance
        /\ receipts[runs[i].session] # "none"

\* A first proposal begins an action, a revision continues the one of a proposal that is frozen.
Lineage ==
    \A i \in DOMAIN runs :
        IF runs[i].source = 0 THEN runs[i].action = i /\ runs[i].prep = "none"
        ELSE /\ runs[i].source \in Frozen /\ runs[i].source < i
             /\ runs[i].action = runs[runs[i].source].action
             /\ runs[i].action \in Frozen

\* A revision passes preparation, call, intake and gates in this order.
Stages ==
    \A i \in DOMAIN runs :
        /\ runs[i].source # 0 => runs[i].prep # "none" /\ (runs[i].prep = "consumed" <=> runs[i].call # "none")
        /\ runs[i].intake # "none" => runs[i].call = "admitted"
        /\ runs[i].intake # "consumed" => \A g \in Gates : runs[i].gates[g].serial = 0
        /\ runs[i].successor \in {0} \cup (i + 1)..MaxRuns

\* No run goes further than the revision after the last one that is frozen.
NextRevision ==
    \A i \in DOMAIN runs : runs[i].revision <= Cardinality(SameAction(i)) + 1

\* A preparation is of a proposal; what it consumed is recorded; the last one of a run is the only
\* one that may be live or consumed.
Commits ==
    /\ \A x \in DOMAIN preparations :
        /\ preparations[x].run \in Frozen
        /\ preparations[x].state = "consumed" =>
             preparations[x].verdict \in Verdicts /\ runs[preparations[x].run].commit = preparations[x].verdict
    /\ \A x, y \in DOMAIN preparations :
        preparations[x].run = preparations[y].run /\ x < y => preparations[x].state \notin {"issued", "consumed"}

RunsInv == RunsShape /\ Bindings /\ Lineage /\ Stages /\ NextRevision /\ RevisionsInOrder /\ OneSuccessor /\ OneAttempt

Inv == CountersShape /\ ReceiptsShape /\ RunsInv /\ PreparationsShape /\ Commits /\ LoopsShape

-----------------------------------------------------------------------------
(***************************************************************************)
(* Sequences and sets.                                                     *)
(***************************************************************************)
LEMMA SeqFromFunction ==
    ASSUME NEW S, NEW n \in Nat, NEW f, f = [i \in 1..n |-> f[i]], \A i \in 1..n : f[i] \in S
    PROVE  f \in Seq(S) /\ Len(f) = n /\ DOMAIN f = 1..n
<1>1. f \in [1..n -> S] BY Zenon
<1>2. f \in Seq(S) BY <1>1, SeqDef
<1> QED BY <1>1, <1>2, LenProperties

LEMMA AppendFacts ==
    ASSUME NEW S, NEW q \in Seq(S), NEW e \in S
    PROVE  /\ Append(q, e) \in Seq(S) /\ Len(Append(q, e)) = Len(q) + 1 /\ DOMAIN Append(q, e) = 1..(Len(q) + 1)
           /\ \A i \in 1..Len(q) : Append(q, e)[i] = q[i]
           /\ Append(q, e)[Len(q) + 1] = e
BY AppendProperties, LenProperties

LEMMA MaxIs == ASSUME NEW n \in Nat, n > 0 PROVE Max(1..n) = n
<1>1. n \in 1..n /\ \A y \in 1..n : n >= y OBVIOUS
<1>2. \A x \in 1..n : (\A y \in 1..n : x >= y) => x = n BY <1>1
<1> QED BY <1>1, <1>2 DEF Max

\* The number of what may bound the changes is a number.
LEMMA PartsAreCounted == ASSUME NEW n \in Nat, NEW P, P \subseteq 1..n PROVE IsFiniteSet(P) /\ Cardinality(P) \in Nat
<1>1. IsFiniteSet(1..n) BY FS_Interval
<1>2. IsFiniteSet(P) BY <1>1, FS_Subset
<1> QED BY <1>2, FS_CardinalityType

LEMMA ChangesAreCounted ==
    ASSUME CountersShape, ReceiptsShape, RunsShape, PreparationsShape, LoopsShape, MayChange
    PROVE  {boot + 1, version + 1, governance + 1} \subseteq 1..(MaxChanges + 1)
<1>0. MaxChanges \in Nat /\ MaxSessions \in Nat /\ MaxLoops \in Nat BY ProposalsAssumption
<1>1. Cardinality({s \in Sessions : receipts[s] = "ended"}) \in Nat
  BY <1>0, PartsAreCounted DEF Sessions
<1>2. Cardinality({x \in DOMAIN preparations : preparations[x].lapsed}) \in Nat
  <2>1. DOMAIN preparations = 1..Len(preparations) /\ Len(preparations) \in Nat BY DEF PreparationsShape
  <2> QED BY <2>1, PartsAreCounted
<1>3. Cardinality(UNION {{i} \X runs[i].lapsed : i \in DOMAIN runs}) \in Nat
  <2> DEFINE W == {"prep", "call", "intake", "authorize", "submit", "verify"}
  <2>1. DOMAIN runs = 1..Len(runs) /\ Len(runs) \in Nat /\ \A i \in DOMAIN runs : runs[i].lapsed \subseteq W
    <3>1. runs \in Seq(RunRecords) BY DEF RunsShape
    <3>2. DOMAIN runs = 1..Len(runs) /\ Len(runs) \in Nat BY <3>1
    <3>3. ASSUME NEW i \in DOMAIN runs PROVE runs[i].lapsed \subseteq W
      <4>1. runs[i] \in RunRecords BY <3>1
      <4>2. runs[i].lapsed \in SUBSET ({"prep", "call", "intake"} \cup Gates) BY <4>1 DEF RunRecords
      <4> QED BY <4>2 DEF Gates
    <3> QED BY <3>2, <3>3
  <2>2. IsFiniteSet(W)
    <3>2. W = {"prep"} \cup ({"call"} \cup ({"intake"} \cup ({"authorize"} \cup ({"submit"} \cup {"verify"}))))
      OBVIOUS
    <3>3. IsFiniteSet({"submit"} \cup {"verify"}) BY FS_Singleton, FS_Union
    <3>4. IsFiniteSet({"authorize"} \cup ({"submit"} \cup {"verify"})) BY <3>3, FS_Singleton, FS_Union
    <3>5. IsFiniteSet({"intake"} \cup ({"authorize"} \cup ({"submit"} \cup {"verify"})))
      BY <3>4, FS_Singleton, FS_Union
    <3>6. IsFiniteSet({"call"} \cup ({"intake"} \cup ({"authorize"} \cup ({"submit"} \cup {"verify"}))))
      BY <3>5, FS_Singleton, FS_Union
    <3>7. IsFiniteSet({"prep"} \cup ({"call"} \cup ({"intake"} \cup ({"authorize"} \cup ({"submit"} \cup {"verify"})))))
      BY <3>6, FS_Singleton, FS_Union
    <3> QED BY <3>2, <3>7, Zenon
  <2>3. IsFiniteSet(DOMAIN runs) BY <2>1, FS_Interval
  <2>4. IsFiniteSet((DOMAIN runs) \X W) BY <2>2, <2>3, FS_Product
  <2> HIDE DEF W
  <2>5. UNION {{i} \X runs[i].lapsed : i \in DOMAIN runs} \subseteq (DOMAIN runs) \X W BY <2>1
  <2> QED BY <2>4, <2>5, FS_Subset, FS_CardinalityType
<1>4. Lapses \in Nat BY <1>2, <1>3 DEF Lapses
<1>5. Max({1, Cardinality(Busy)}) \in Nat /\ Max({1, Cardinality(Busy)}) >= 1
  <2>1. Cardinality(Busy) \in Nat BY <1>0, PartsAreCounted DEF Busy, Callers
  <2>2. \E x \in {1, Cardinality(Busy)} : \A y \in {1, Cardinality(Busy)} : x >= y BY <2>1
  <2>3. /\ Max({1, Cardinality(Busy)}) \in {1, Cardinality(Busy)}
        /\ \A y \in {1, Cardinality(Busy)} : Max({1, Cardinality(Busy)}) >= y
    BY <2>2 DEF Max
  <2> QED BY <2>1, <2>3
<1> HIDE DEF Max
<1>6. boot \in 1..(MaxChanges + 1) /\ version \in 1..(MaxChanges + 1) /\ governance \in 1..(MaxChanges + 1)
  BY DEF CountersShape
<1> QED BY <1>0, <1>1, <1>4, <1>5, <1>6 DEF MayChange

-----------------------------------------------------------------------------
(***************************************************************************)
(* What ends a record, and what a step may do to a run.                    *)
(***************************************************************************)
Over(old, new) == new = old \/ (old = "issued" /\ new \in {"invalidated", "expired"})

\* A run of which something ends, or becomes overdue, and nothing begins.
Ebbs(r, q) ==
    /\ q \in RunRecords
    /\ q.source = r.source /\ q.action = r.action /\ q.session = r.session
    /\ q.boot = r.boot /\ q.version = r.version /\ q.governance = r.governance
    /\ q.revision = r.revision /\ q.successor = r.successor
    /\ Over(r.prep, q.prep) /\ Over(r.intake, q.intake)
    /\ q.call = r.call \/ (r.call = "open" /\ q.call = "failed")
    /\ q.escalation = r.escalation \/ (r.escalation = "open" /\ q.escalation \in {"answered", "closed"})
    /\ r.lapsed \subseteq q.lapsed
    /\ q.commit = r.commit \/ r.commit = "none"
    /\ \A g \in Gates : /\ q.gates[g].serial = r.gates[g].serial /\ q.gates[g].verdict = r.gates[g].verdict
                        /\ Over(r.gates[g].status, q.gates[g].status)

LEMMA EbbsItself == ASSUME NEW r \in RunRecords PROVE Ebbs(r, r)
BY DEF Ebbs, Over

LEMMA EbbsOn ==
    ASSUME NEW r, NEW q, NEW p, Ebbs(r, q), Ebbs(q, p)
    PROVE  Ebbs(r, p)
<1>1. Over(r.prep, p.prep) /\ Over(r.intake, p.intake) BY DEF Ebbs, Over
<1>2. p.call = r.call \/ (r.call = "open" /\ p.call = "failed") BY DEF Ebbs
<1>3. p.escalation = r.escalation \/ (r.escalation = "open" /\ p.escalation \in {"answered", "closed"})
  BY DEF Ebbs
<1>4. \A g \in Gates : Over(r.gates[g].status, p.gates[g].status) BY DEF Ebbs, Over
<1> QED BY <1>1, <1>2, <1>3, <1>4 DEF Ebbs

LEMMA EndIsOver ==
    ASSUME NEW state, NEW to \in {"invalidated", "expired"}
    PROVE  Over(state, End(state, to))
BY DEF Over, End

LEMMA EndRulingsEbbs ==
    ASSUME NEW r \in RunRecords, NEW to \in {"invalidated", "expired"}, NEW G
    PROVE  Ebbs(r, EndRulings(r, to, G))
<1> DEFINE new == [g \in Gates |-> IF g \in G THEN [r.gates[g] EXCEPT !.status = End(@, to)] ELSE r.gates[g]]
<1>1. r.gates \in [Gates -> RulingRecords] BY DEF RunRecords
<1>2. ASSUME NEW g \in Gates
      PROVE  /\ new[g] \in RulingRecords
             /\ new[g].serial = r.gates[g].serial /\ new[g].verdict = r.gates[g].verdict
             /\ Over(r.gates[g].status, new[g].status)
  <2>1. r.gates[g] \in RulingRecords BY <1>1
  <2> QED BY <2>1 DEF RulingRecords, Over, End
<1>3. new \in [Gates -> RulingRecords] BY <1>2
<1> HIDE DEF new
<1>4. [r EXCEPT !.gates = new] \in RunRecords BY <1>3 DEF RunRecords
<1>5. [r EXCEPT !.gates = new].gates = new BY DEF RunRecords
<1>6. Ebbs(r, [r EXCEPT !.gates = new]) BY <1>2, <1>4, <1>5 DEF Ebbs, Over, RunRecords
<1> QED BY <1>6 DEF new, EndRulings

LEMMA PrepEbbs ==
    ASSUME NEW r \in RunRecords, NEW prep, Over(r.prep, prep)
    PROVE  Ebbs(r, [r EXCEPT !.prep = prep])
<1>1. [r EXCEPT !.prep = prep] \in RunRecords BY DEF RunRecords, Over
<1> QED BY <1>1 DEF Ebbs, Over, RunRecords

LEMMA AttemptEbbs ==
    ASSUME NEW r \in RunRecords, NEW prep, NEW intake, Over(r.prep, prep), Over(r.intake, intake)
    PROVE  Ebbs(r, [r EXCEPT !.intake = intake, !.prep = prep])
<1>1. [r EXCEPT !.intake = intake, !.prep = prep] \in RunRecords BY DEF RunRecords, Over
<1> QED BY <1>1 DEF Ebbs, Over, RunRecords

LEMMA CallEbbs ==
    ASSUME NEW r \in RunRecords, r.call = "open"
    PROVE  Ebbs(r, [r EXCEPT !.call = "failed"])
<1>1. [r EXCEPT !.call = "failed"] \in RunRecords BY DEF RunRecords
<1> QED BY <1>1 DEF Ebbs, Over, RunRecords

LEMMA LapsedEbbs ==
    ASSUME NEW r \in RunRecords, NEW what \in {"prep", "call", "intake"} \cup Gates
    PROVE  Ebbs(r, [r EXCEPT !.lapsed = @ \cup {what}])
<1>1. [r EXCEPT !.lapsed = @ \cup {what}] \in RunRecords BY DEF RunRecords
<1> QED BY <1>1 DEF Ebbs, Over, RunRecords

LEMMA EndAttemptEbbs == ASSUME NEW r \in RunRecords PROVE Ebbs(r, EndAttempt(r))
BY AttemptEbbs, EndIsOver DEF EndAttempt

LEMMA ExpireRunEbbs == ASSUME NEW r \in RunRecords, NEW b PROVE Ebbs(r, ExpireRun(r, b))
<1>1. CASE r.boot # b
  <2>1. Ebbs(r, EndAttempt(r)) BY EndAttemptEbbs
  <2>2. EndAttempt(r) \in RunRecords BY <2>1 DEF Ebbs
  <2>3. Ebbs(EndAttempt(r), EndRulings(EndAttempt(r), "invalidated", IF r.intake = "consumed" THEN Gates ELSE {}))
    BY <2>2, EndRulingsEbbs
  <2> QED BY <1>1, <2>1, <2>3, EbbsOn DEF ExpireRun
<1>2. CASE r.boot = b
  <2> DEFINE intake == IF "intake" \in r.lapsed THEN End(r.intake, "expired") ELSE r.intake
             prep == IF "prep" \in r.lapsed THEN End(r.prep, "expired") ELSE r.prep
  <2>1. Over(r.intake, intake) /\ Over(r.prep, prep) BY EndIsOver DEF Over
  <2>2. ExpireRun(r, b) = [r EXCEPT !.intake = intake, !.prep = prep] BY <1>2 DEF ExpireRun, RunRecords
  <2> HIDE DEF intake, prep
  <2>3. Ebbs(r, [r EXCEPT !.intake = intake, !.prep = prep]) BY <2>1, AttemptEbbs, Zenon
  <2> QED BY <2>2, <2>3
<1> QED BY <1>1, <1>2

LEMMA SweepRunEbbs == ASSUME NEW r \in RunRecords PROVE Ebbs(r, SweepRun(r))
BY EndRulingsEbbs DEF SweepRun

-----------------------------------------------------------------------------
(***************************************************************************)
(* Steps after which less is alive.                                        *)
(***************************************************************************)
AllEbb(rs, qs) ==
    qs \in Seq(RunRecords) /\ Len(qs) = Len(rs) /\ \A i \in DOMAIN rs : Ebbs(rs[i], qs[i])

LEMMA PointwiseEbb ==
    ASSUME NEW rs \in Seq(RunRecords), NEW qs, qs = [i \in DOMAIN rs |-> qs[i]],
           \A i \in DOMAIN rs : Ebbs(rs[i], qs[i])
    PROVE  AllEbb(rs, qs)
<1>1. DOMAIN rs = 1..Len(rs) /\ Len(rs) \in Nat OBVIOUS
<1>2. \A i \in 1..Len(rs) : qs[i] \in RunRecords BY <1>1 DEF Ebbs
<1>3. qs = [i \in 1..Len(rs) |-> qs[i]] BY <1>1
<1>4. qs \in Seq(RunRecords) /\ Len(qs) = Len(rs) BY <1>1, <1>2, <1>3, SeqFromFunction
<1> QED BY <1>4 DEF AllEbb

LEMMA OneEbbs ==
    ASSUME NEW rs \in Seq(RunRecords), NEW i \in DOMAIN rs, NEW q, Ebbs(rs[i], q)
    PROVE  AllEbb(rs, [rs EXCEPT ![i] = q])
<1> DEFINE qs == [rs EXCEPT ![i] = q]
<1>1. qs = [j \in DOMAIN rs |-> qs[j]] OBVIOUS
<1>2. \A j \in DOMAIN rs : Ebbs(rs[j], qs[j]) BY EbbsItself
<1> QED BY <1>1, <1>2, PointwiseEbb

LEMMA AllEbbOn ==
    ASSUME NEW rs \in Seq(RunRecords), NEW qs, NEW ps, AllEbb(rs, qs), AllEbb(qs, ps)
    PROVE  AllEbb(rs, ps)
<1>1. DOMAIN qs = DOMAIN rs BY DEF AllEbb
<1> QED BY <1>1, EbbsOn DEF AllEbb

LEMMA EndAllEbbs == ASSUME NEW rs \in Seq(RunRecords) PROVE AllEbb(rs, EndAll(rs))
<1>1. ASSUME NEW i \in DOMAIN rs PROVE Ebbs(rs[i], EndAll(rs)[i])
  <2>1. rs[i] \in RunRecords OBVIOUS
  <2>2. Ebbs(rs[i], EndAttempt(rs[i])) BY <2>1, EndAttemptEbbs
  <2>3. EndAttempt(rs[i]) \in RunRecords BY <2>2 DEF Ebbs
  <2>4. Ebbs(EndAttempt(rs[i]), EndRulings(EndAttempt(rs[i]), "invalidated", Gates)) BY <2>3, EndRulingsEbbs
  <2> QED BY <2>2, <2>4, EbbsOn DEF EndAll
<1>2. EndAll(rs) = [i \in DOMAIN rs |-> EndAll(rs)[i]] BY DEF EndAll
<1> QED BY <1>1, <1>2, PointwiseEbb

LEMMA EndCallsEbbs == ASSUME NEW rs \in Seq(RunRecords) PROVE AllEbb(rs, EndCalls(rs))
<1>1. ASSUME NEW i \in DOMAIN rs PROVE Ebbs(rs[i], EndCalls(rs)[i])
  <2>1. rs[i] \in RunRecords OBVIOUS
  <2> QED BY <2>1, CallEbbs, EbbsItself DEF EndCalls
<1>2. EndCalls(rs) = [i \in DOMAIN rs |-> EndCalls(rs)[i]] BY DEF EndCalls
<1> QED BY <1>1, <1>2, PointwiseEbb

LEMMA EndRevisionsEbbs == ASSUME NEW rs \in Seq(RunRecords), NEW S PROVE AllEbb(rs, EndRevisions(rs, S))
<1>1. ASSUME NEW i \in DOMAIN rs PROVE Ebbs(rs[i], EndRevisions(rs, S)[i])
  <2>1. rs[i] \in RunRecords OBVIOUS
  <2>2. Ebbs(rs[i], [rs[i] EXCEPT !.prep = End(rs[i].prep, "invalidated")]) BY <2>1, PrepEbbs, EndIsOver
  <2>3. [rs[i] EXCEPT !.prep = End(@, "invalidated")] = [rs[i] EXCEPT !.prep = End(rs[i].prep, "invalidated")]
    BY <2>1 DEF RunRecords
  <2> QED BY <2>1, <2>2, <2>3, EbbsItself DEF EndRevisions
<1>2. EndRevisions(rs, S) = [i \in DOMAIN rs |-> EndRevisions(rs, S)[i]] BY DEF EndRevisions
<1> QED BY <1>1, <1>2, PointwiseEbb

LEMMA ExpiredEbb ==
    ASSUME NEW rs \in Seq(RunRecords), NEW b
    PROVE  AllEbb(rs, [i \in DOMAIN rs |-> SweepRun(ExpireRun(rs[i], b))])
<1> DEFINE qs == [i \in DOMAIN rs |-> SweepRun(ExpireRun(rs[i], b))]
<1>1. ASSUME NEW i \in DOMAIN rs PROVE Ebbs(rs[i], qs[i])
  <2>1. rs[i] \in RunRecords OBVIOUS
  <2>2. Ebbs(rs[i], ExpireRun(rs[i], b)) BY <2>1, ExpireRunEbbs
  <2>3. ExpireRun(rs[i], b) \in RunRecords BY <2>2 DEF Ebbs
  <2>4. Ebbs(ExpireRun(rs[i], b), SweepRun(ExpireRun(rs[i], b))) BY <2>3, SweepRunEbbs
  <2> QED BY <2>2, <2>4, EbbsOn
<1>2. qs = [i \in DOMAIN rs |-> qs[i]] OBVIOUS
<1> QED BY <1>1, <1>2, PointwiseEbb

\* No counter goes back, and no session becomes active again.
Onward ==
    /\ CountersShape' /\ ReceiptsShape'
    /\ boot' >= boot /\ version' >= version /\ governance' >= governance
    /\ \A s \in Sessions : /\ receipts[s] # "none" => receipts'[s] # "none"
                           /\ receipts'[s] = "active" => receipts[s] \in {"none", "active"}

\* What a step may do to run j if it is to be no more alive than before.
Ages(j) ==
    LET r == runs[j]
        q == runs'[j]
    IN  /\ q.source = r.source /\ q.action = r.action /\ q.session = r.session
        /\ q.boot = r.boot /\ q.version = r.version /\ q.governance = r.governance
        /\ q.revision = r.revision
        /\ "prep" \in r.lapsed => "prep" \in q.lapsed
        /\ r.prep = "none" => q.prep = "none"
        /\ q.prep \in {"issued", "consumed"} => r.prep \in {"issued", "consumed"}
        /\ q.prep = "issued" => r.prep = "issued"
        /\ q.call = "open" => r.call = "open" \/ r.prep = "issued"
        /\ q.intake = "issued" => r.intake = "issued" \/ r.call = "open"
        /\ r.intake = "consumed" => q.intake = "consumed"
        /\ q.intake = "consumed" => r.intake = "consumed" \/ (r.intake = "issued" /\ RunCurrent(j))
        /\ r.successor # 0 => q.successor # 0
        /\ q.escalation = "answered" =>
             \/ version' # version
             \/ /\ r.escalation = "answered"
                /\ q.gates["verify"].verdict = "escalate" => r.gates["verify"].verdict = "escalate"
        /\ \A g \in Gates :
             /\ q.gates[g] = NoRuling => r.gates[g] = NoRuling
             /\ q.gates[g].serial >= r.gates[g].serial
             /\ q.gates[g].serial <= 1 /\ q.gates[g].status = "issued" /\ q.gates[g].verdict = "allow" =>
                  r.gates[g] \in {NoRuling, q.gates[g]}

LEMMA EbbsAge ==
    ASSUME RunsShape, RunsShape', NEW j \in DOMAIN runs, Ebbs(runs[j], runs'[j]),
           runs'[j].escalation = "answered" => runs[j].escalation = "answered" \/ version' # version
    PROVE  Ages(j)
<1>1. runs[j] \in RunRecords /\ runs'[j] \in RunRecords BY DEF RunsShape, Ebbs
<1>2. runs[j].gates \in [Gates -> RulingRecords] /\ runs'[j].gates \in [Gates -> RulingRecords]
  BY <1>1 DEF RunRecords
<1>3. ASSUME NEW g \in Gates
      PROVE  /\ runs'[j].gates[g] = NoRuling => runs[j].gates[g] = NoRuling
             /\ runs'[j].gates[g].serial >= runs[j].gates[g].serial
             /\ runs'[j].gates[g].status = "issued" => runs[j].gates[g] = runs'[j].gates[g]
  <2>1. runs[j].gates[g] \in RulingRecords /\ runs'[j].gates[g] \in RulingRecords BY <1>2
  <2>2. runs[j].gates[g].serial = 0 => runs[j].gates[g] = NoRuling BY DEF RunsShape
  <2> QED BY <2>1, <2>2 DEF Ebbs, Over, RulingRecords, NoRuling
<1>4. "verify" \in Gates BY DEF Gates
<1> QED BY <1>3, <1>4 DEF Ages, Ebbs, Over

-----------------------------------------------------------------------------
(***************************************************************************)
(* What is alive was alive.                                                *)
(***************************************************************************)
LEMMA SameActionIsCounted ==
    ASSUME RunsShape, NEW i
    PROVE  /\ SameAction(i) \subseteq 1..Len(runs) /\ IsFiniteSet(SameAction(i))
           /\ Cardinality(SameAction(i)) \in 0..Len(runs)
<1>1. DOMAIN runs = 1..Len(runs) /\ Len(runs) \in Nat BY DEF RunsShape
<1>2. SameAction(i) \subseteq 1..Len(runs) BY <1>1 DEF SameAction, Frozen
<1>3. IsFiniteSet(1..Len(runs)) /\ Cardinality(1..Len(runs)) = Len(runs)
  <2>1. ASSUME NEW n \in Nat PROVE IsFiniteSet(1..n) /\ Cardinality(1..n) = n BY FS_Interval
  <2> QED BY <1>1, <2>1
<1>4. IsFiniteSet(SameAction(i)) /\ Cardinality(SameAction(i)) <= Len(runs) BY <1>2, <1>3, FS_Subset
<1> QED BY <1>2, <1>4, FS_CardinalityType

LEMMA LatestOf ==
    ASSUME NEW n \in Nat, NEW A, A \subseteq 1..n, A # {}
    PROVE  Cardinality(A) \in Nat /\ Cardinality(A) > 0 /\ Max(1..Cardinality(A)) = Cardinality(A)
<1>1. IsFiniteSet(A) /\ Cardinality(A) \in Nat BY PartsAreCounted
<1>2. Cardinality(A) # 0 BY <1>1, FS_EmptySet
<1>3. Cardinality(A) > 0 BY <1>1, <1>2
<1> QED BY <1>1, <1>3, MaxIs

LEMMA LatestIs ==
    ASSUME RunsShape, RevisionsInOrder, NEW i \in Frozen
    PROVE  /\ LatestRevision(i) = Cardinality(SameAction(i))
           /\ Cardinality(SameAction(i)) \in 1..Len(runs)
<1>1. SameAction(i) \subseteq 1..Len(runs) /\ Cardinality(SameAction(i)) \in 0..Len(runs) /\ Len(runs) \in Nat
  BY SameActionIsCounted DEF RunsShape
<1>2. SameAction(i) # {} BY DEF SameAction
<1>3. {runs[j].revision : j \in SameAction(i)} = 1..Cardinality(SameAction(i)) BY DEF RevisionsInOrder
<1>4. Cardinality(SameAction(i)) > 0 /\ Max(1..Cardinality(SameAction(i))) = Cardinality(SameAction(i))
  BY <1>1, <1>2, LatestOf
<1>5. LatestRevision(i) = Max(1..Cardinality(SameAction(i))) BY <1>3, Zenon DEF LatestRevision
<1> HIDE DEF Max
<1> QED BY <1>1, <1>4, <1>5

\* Every ruling of the run is an issued allow, and one is missing.
LEMMA FrozenStatus ==
    ASSUME NEW i
    PROVE  Status(i) = "frozen" <=>
             /\ \A g \in Gates : \/ runs[i].gates[g] = NoRuling
                                 \/ runs[i].gates[g].status = "issued" /\ runs[i].gates[g].verdict = "allow"
             /\ \E g \in Gates : runs[i].gates[g] = NoRuling
BY DEF Status, NoRuling

LEMMA FrozenStatusNext ==
    ASSUME NEW i
    PROVE  Status(i)' = "frozen" <=>
             /\ \A g \in Gates : \/ runs'[i].gates[g] = NoRuling
                                 \/ runs'[i].gates[g].status = "issued" /\ runs'[i].gates[g].verdict = "allow"
             /\ \E g \in Gates : runs'[i].gates[g] = NoRuling
BY DEF Status, NoRuling

LEMMA LatestIsNext ==
    ASSUME RunsShape', RevisionsInOrder', NEW i, i \in Frozen'
    PROVE  LatestRevision(i)' = Cardinality(SameAction(i)') /\ Cardinality(SameAction(i)') \in Nat
<1>1. DOMAIN runs' = 1..Len(runs') /\ Len(runs') \in Nat BY DEF RunsShape
<1>2. SameAction(i)' \subseteq 1..Len(runs') BY <1>1 DEF SameAction, Frozen
<1>3. SameAction(i)' # {} BY DEF SameAction
<1>4. {runs'[j].revision : j \in SameAction(i)'} = 1..Cardinality(SameAction(i)') BY DEF RevisionsInOrder
<1>5. /\ Cardinality(SameAction(i)') \in Nat
      /\ Max(1..Cardinality(SameAction(i)')) = Cardinality(SameAction(i)')
  BY <1>1, <1>2, <1>3, LatestOf
<1>6. LatestRevision(i)' = Max(1..Cardinality(SameAction(i)')) BY <1>4, Zenon DEF LatestRevision
<1> HIDE DEF Max
<1> QED BY <1>5, <1>6

\* The proposals of an action stay, whatever joins them.
LEMMA ActionsStay ==
    ASSUME RunsShape, RunsShape', Len(runs') >= Len(runs), \A j \in DOMAIN runs : Ages(j), NEW i \in DOMAIN runs
    PROVE  /\ DOMAIN runs \subseteq DOMAIN runs' /\ Frozen \subseteq Frozen'
           /\ SameAction(i) \subseteq SameAction(i)'
           /\ Cardinality(SameAction(i)) \in Nat /\ Cardinality(SameAction(i)') \in Nat
           /\ Cardinality(SameAction(i)) <= Cardinality(SameAction(i)')
<1>1. /\ DOMAIN runs' = 1..Len(runs') /\ Len(runs') \in Nat
      /\ DOMAIN runs = 1..Len(runs) /\ Len(runs) \in Nat
  BY DEF RunsShape
<1>2. DOMAIN runs \subseteq DOMAIN runs' BY <1>1
<1>3. Frozen \subseteq Frozen' BY <1>2 DEF Frozen, Ages
<1>4. SameAction(i) \subseteq SameAction(i)'
  <2>1. ASSUME NEW k \in SameAction(i) PROVE k \in SameAction(i)'
    <3>1. k \in Frozen /\ runs[k].action = runs[i].action /\ k \in DOMAIN runs BY DEF SameAction, Frozen
    <3>2. runs'[k].action = runs[k].action /\ runs'[i].action = runs[i].action BY <3>1 DEF Ages
    <3> QED BY <1>3, <3>1, <3>2 DEF SameAction
  <2> QED BY <2>1
<1>5. SameAction(i)' \subseteq 1..Len(runs') BY <1>1 DEF SameAction, Frozen
<1>6. IsFiniteSet(SameAction(i)') /\ Cardinality(SameAction(i)') \in Nat BY <1>1, <1>5, PartsAreCounted
<1>7. Cardinality(SameAction(i)) <= Cardinality(SameAction(i)') BY <1>4, <1>6, FS_Subset
<1> QED BY <1>2, <1>3, <1>4, <1>6, <1>7, SameActionIsCounted, <1>1

LEMMA StillAlive ==
    ASSUME CountersShape, ReceiptsShape, RunsInv, Onward, RunsShape', RevisionsInOrder', Len(runs') >= Len(runs),
           \A i \in DOMAIN runs : Ages(i), NEW j \in DOMAIN runs, runs[j].source # 0, Alive(j)'
    PROVE  Alive(j)
<1>0. PICK src : src = runs[j].source BY Zenon
<1>1. src \in Frozen /\ src \in DOMAIN runs /\ runs[j].action = runs[src].action
  BY <1>0 DEF RunsInv, Lineage, Frozen
<1>2. Ages(j) /\ Ages(src) BY <1>1
<1>3. src \in Frozen' /\ Cardinality(SameAction(src)) \in Nat
      /\ Cardinality(SameAction(src)) <= Cardinality(SameAction(src)')
  BY <1>1, ActionsStay DEF RunsInv
<1>4. LatestRevision(src) = Cardinality(SameAction(src)) BY <1>1, LatestIs DEF RunsInv
<1>5. LatestRevision(src)' = Cardinality(SameAction(src)') /\ Cardinality(SameAction(src)') \in Nat
  BY <1>3, LatestIsNext
<1>6. runs[j].revision \in Nat /\ runs[j].revision <= Cardinality(SameAction(src)) + 1
  <2>1. runs[j] \in RunRecords BY DEF RunsInv, RunsShape
  <2>2. runs[j].revision \in Nat BY <2>1, ProposalsAssumption DEF RunRecords
  <2>3. SameAction(j) = SameAction(src) BY <1>1 DEF SameAction
  <2> QED BY <2>2, <2>3 DEF RunsInv, NextRevision
<1>7. runs'[j].source = src /\ runs'[j].revision = runs[j].revision BY <1>0, <1>2 DEF Ages
<1>8. runs'[j].revision = LatestRevision(src)' + 1 => runs[j].revision = LatestRevision(src) + 1
  BY <1>3, <1>4, <1>5, <1>6, <1>7
<1>9. FactsCurrent(j)' => FactsCurrent(j) /\ version' = version
  <2>1. runs[j].boot <= boot /\ runs[j].version <= version /\ runs[j].governance <= governance
        /\ receipts[runs[j].session] # "none"
    BY DEF RunsInv, Bindings
  <2>2. runs[j] \in RunRecords BY DEF RunsInv, RunsShape
  <2>3. runs[j].boot \in Nat /\ runs[j].version \in Nat /\ runs[j].governance \in Nat /\ runs[j].session \in Sessions
    BY <2>2 DEF RunRecords
  <2>4. {boot, version, governance} \subseteq Int /\ {boot', version', governance'} \subseteq Int
    BY DEF CountersShape, Onward
  <2>5. runs'[j].boot = runs[j].boot /\ runs'[j].version = runs[j].version
        /\ runs'[j].governance = runs[j].governance /\ runs'[j].session = runs[j].session
    BY <1>2 DEF Ages
  <2>6. boot' >= boot /\ version' >= version /\ governance' >= governance
        /\ (receipts'[runs[j].session] = "active" => receipts[runs[j].session] \in {"none", "active"})
    BY <2>3 DEF Onward
  <2> HAVE FactsCurrent(j)'
  <2>7. runs[j].boot = boot' /\ runs[j].version = version' /\ runs[j].governance = governance'
        /\ receipts'[runs[j].session] = "active"
    BY <2>5 DEF FactsCurrent, Receipt
  <2>8. boot = boot' /\ version = version' /\ governance = governance' BY <2>1, <2>3, <2>4, <2>6, <2>7
  <2> QED BY <2>1, <2>6, <2>7, <2>8 DEF FactsCurrent, Receipt
<1>10. version' = version /\ Continuable(src)' => Continuable(src)
  BY <1>1, <1>2 DEF Continuable, Ages
<1>11. RevisionCurrent(j)' => RevisionCurrent(j)
  <2> HAVE RevisionCurrent(j)'
  <2>1. FactsCurrent(j)' /\ Continuable(src)' /\ runs'[j].revision = LatestRevision(src)' + 1
    BY <1>7 DEF RevisionCurrent
  <2>2. runs[j].prep \in {"issued", "consumed"} /\ "prep" \notin runs[j].lapsed
    BY <1>2 DEF RevisionCurrent, Ages
  <2> QED BY <1>0, <1>8, <1>9, <1>10, <2>1, <2>2 DEF RevisionCurrent
<1>12. CASE RevisionCurrent(j)' /\ (runs'[j].prep = "issued" \/ runs'[j].call = "open" \/ runs'[j].intake = "issued")
  <2>1. runs[j].prep = "issued" \/ runs[j].call = "open" \/ runs[j].intake = "issued" BY <1>2, <1>12 DEF Ages
  <2> QED BY <1>11, <1>12, <2>1 DEF Alive
<1>13. CASE /\ ProposalCurrent(j)' /\ Status(j)' = "frozen"
            /\ \A g \in Gates : runs'[j].gates[g].serial <= 1
  <2>1. CASE j \in Frozen
    <3>1. version' = version /\ FactsCurrent(j) BY <1>9, <1>13 DEF ProposalCurrent
    <3>2. runs[j].prep = "consumed" BY <1>0, <2>1 DEF RunsInv, Stages, Frozen
    <3>3. runs[src].escalation = "answered" /\ runs[src].successor = 0
      <4>1. runs'[src].escalation = "answered" /\ runs'[src].successor = 0
        BY <1>0, <1>7, <1>13 DEF ProposalCurrent
      <4> QED BY <1>2, <3>1, <4>1 DEF Ages
    <3>4. ProposalCurrent(j) BY <1>0, <2>1, <3>1, <3>2, <3>3 DEF ProposalCurrent
    <3>5. /\ \A g \in Gates : \/ runs'[j].gates[g] = NoRuling
                              \/ runs'[j].gates[g].status = "issued" /\ runs'[j].gates[g].verdict = "allow"
          /\ \E g \in Gates : runs'[j].gates[g] = NoRuling
      BY <1>13, FrozenStatusNext
    <3>6. ASSUME NEW g \in Gates
          PROVE  /\ runs'[j].gates[g] = NoRuling => runs[j].gates[g] = NoRuling
                 /\ \/ runs[j].gates[g] = NoRuling
                    \/ runs[j].gates[g].status = "issued" /\ runs[j].gates[g].verdict = "allow"
      BY <1>2, <1>13, <3>5 DEF Ages
    <3>7. Status(j) = "frozen" BY <3>5, <3>6, FrozenStatus
    <3>8. \A g \in Gates : runs[j].gates[g].serial <= 1
      <4> TAKE g \in Gates
      <4>1. runs[j] \in RunRecords /\ runs'[j] \in RunRecords
        BY ActionsStay DEF RunsInv, RunsShape
      <4>2. runs[j].gates[g] \in RulingRecords /\ runs'[j].gates[g] \in RulingRecords BY <4>1 DEF RunRecords
      <4>3. runs[j].gates[g].serial \in Nat /\ runs'[j].gates[g].serial \in Nat BY <4>2 DEF RulingRecords
      <4> QED BY <1>2, <1>13, <4>3 DEF Ages
    <3> QED BY <3>4, <3>7, <3>8 DEF Alive
  <2>2. CASE j \notin Frozen
    <3>1. j \in Frozen' BY <1>13 DEF ProposalCurrent
    <3>2. runs'[j].intake = "consumed" /\ runs[j].intake # "consumed" BY <2>2, <3>1 DEF Frozen
    <3>3. runs[j].intake = "issued" /\ RunCurrent(j) BY <1>2, <3>2 DEF Ages
    <3> QED BY <3>3 DEF Alive, RunCurrent
  <2> QED BY <2>1, <2>2
<1> QED BY <1>12, <1>13 DEF Alive

-----------------------------------------------------------------------------
(***************************************************************************)
(* What a step that begins no run keeps.                                   *)
(***************************************************************************)
LEMMA RevisionsStay ==
    ASSUME RunsShape, RevisionsInOrder, \A j \in DOMAIN runs : Ages(j), Frozen' = Frozen
    PROVE  RevisionsInOrder'
<1>1. \A j \in Frozen : runs'[j].action = runs[j].action /\ runs'[j].revision = runs[j].revision
  BY DEF Frozen, Ages
<1>2. SUFFICES ASSUME NEW i \in Frozen
               PROVE  {runs'[j].revision : j \in SameAction(i)'} = 1..Cardinality(SameAction(i)')
  BY DEF RevisionsInOrder
<1>3. SameAction(i)' = SameAction(i) BY <1>1 DEF SameAction
<1>4. SameAction(i) \subseteq Frozen BY DEF SameAction
<1>5. {runs'[j].revision : j \in SameAction(i)} = {runs[j].revision : j \in SameAction(i)} BY <1>1, <1>4
<1> QED BY <1>3, <1>5 DEF RevisionsInOrder

LEMMA RestStays ==
    ASSUME CountersShape, ReceiptsShape, RunsInv, Onward, RunsShape', RevisionsInOrder', Len(runs') = Len(runs),
           \A i \in DOMAIN runs : Ages(i)
    PROVE  Bindings' /\ Lineage' /\ NextRevision' /\ OneAttempt'
<1>1. DOMAIN runs' = DOMAIN runs /\ \A i \in DOMAIN runs : runs[i] \in RunRecords BY DEF RunsInv, RunsShape
<1>2. Frozen \subseteq Frozen' BY <1>1 DEF Frozen, Ages
<1>3. Bindings'
  <2> SUFFICES ASSUME NEW i \in DOMAIN runs
               PROVE  /\ runs'[i].boot <= boot' /\ runs'[i].version <= version'
                      /\ runs'[i].governance <= governance' /\ receipts'[runs'[i].session] # "none"
    BY <1>1 DEF Bindings
  <2>1. runs[i].boot <= boot /\ runs[i].version <= version /\ runs[i].governance <= governance
        /\ receipts[runs[i].session] # "none"
    BY DEF RunsInv, Bindings
  <2>2. runs[i].boot \in Nat /\ runs[i].version \in Nat /\ runs[i].governance \in Nat
        /\ runs[i].session \in Sessions
    BY <1>1 DEF RunRecords
  <2>3. {boot, version, governance} \subseteq Int /\ {boot', version', governance'} \subseteq Int
    BY DEF CountersShape, Onward
  <2>4. runs'[i].boot = runs[i].boot /\ runs'[i].version = runs[i].version
        /\ runs'[i].governance = runs[i].governance /\ runs'[i].session = runs[i].session
    BY DEF Ages
  <2> QED BY <2>1, <2>2, <2>3, <2>4 DEF Onward
<1>4. Lineage'
  <2> SUFFICES ASSUME NEW i \in DOMAIN runs
               PROVE  IF runs'[i].source = 0 THEN runs'[i].action = i /\ runs'[i].prep = "none"
                      ELSE /\ runs'[i].source \in Frozen' /\ runs'[i].source < i
                           /\ runs'[i].action = runs'[runs'[i].source].action
                           /\ runs'[i].action \in Frozen'
    BY <1>1 DEF Lineage
  <2>1. Ages(i) OBVIOUS
  <2>2. CASE runs[i].source = 0 BY <2>1, <2>2 DEF RunsInv, Lineage, Ages
  <2>3. CASE runs[i].source # 0
    <3>1. runs[i].source \in Frozen /\ runs[i].source < i /\ runs[i].action = runs[runs[i].source].action
          /\ runs[i].action \in Frozen
      BY <2>3 DEF RunsInv, Lineage
    <3>2. runs'[runs[i].source].action = runs[runs[i].source].action BY <3>1 DEF Frozen, Ages
    <3> QED BY <1>2, <2>1, <2>3, <3>1, <3>2 DEF Ages
  <2> QED BY <2>2, <2>3
<1>5. NextRevision'
  <2> SUFFICES ASSUME NEW i \in DOMAIN runs PROVE runs'[i].revision <= Cardinality(SameAction(i)') + 1
    BY <1>1 DEF NextRevision
  <2>1. Cardinality(SameAction(i)) \in Nat /\ Cardinality(SameAction(i)') \in Nat
        /\ Cardinality(SameAction(i)) <= Cardinality(SameAction(i)')
    BY ActionsStay DEF RunsInv, RunsShape
  <2>2. runs[i].revision \in Nat BY <1>1, ProposalsAssumption DEF RunRecords
  <2>3. runs[i].revision <= Cardinality(SameAction(i)) + 1 BY DEF RunsInv, NextRevision
  <2>4. runs'[i].revision = runs[i].revision BY DEF Ages
  <2> QED BY <2>1, <2>2, <2>3, <2>4
<1>6. OneAttempt'
  <2> SUFFICES ASSUME NEW j \in DOMAIN runs, NEW k \in DOMAIN runs, runs'[j].source # 0,
                      runs'[j].source = runs'[k].source, Alive(j)', Alive(k)'
               PROVE  j = k
    BY <1>1 DEF OneAttempt
  <2>1. runs[j].source # 0 /\ runs[j].source = runs[k].source BY DEF Ages
  <2>2. Len(runs') >= Len(runs) BY DEF RunsInv, RunsShape
  <2>3. Alive(j) /\ Alive(k) BY <2>1, <2>2, StillAlive
  <2> QED BY <2>1, <2>3 DEF RunsInv, OneAttempt
<1> QED BY <1>3, <1>4, <1>5, <1>6

\* A step of which all runs ebb keeps what is known of them.
LEMMA EbbKeepsRuns ==
    ASSUME CountersShape, ReceiptsShape, RunsInv, Onward, AllEbb(runs, runs'),
           \A j \in DOMAIN runs :
               runs'[j].escalation = "answered" => runs[j].escalation = "answered" \/ version' # version
    PROVE  RunsInv'
<1>1. /\ DOMAIN runs' = DOMAIN runs /\ Len(runs') = Len(runs) /\ runs' \in Seq(RunRecords)
      /\ \A i \in DOMAIN runs : runs[i] \in RunRecords /\ runs'[i] \in RunRecords
  BY DEF RunsInv, RunsShape, AllEbb
<1>2. RunsShape'
  <2>1. Len(runs') <= MaxRuns BY <1>1 DEF RunsInv, RunsShape
  <2>2. ASSUME NEW i \in DOMAIN runs, NEW g \in Gates
        PROVE  /\ runs'[i].gates[g].serial <= MaxIssues
               /\ runs'[i].gates[g].serial = 0 => runs'[i].gates[g] = NoRuling
    <3>1. Ebbs(runs[i], runs'[i]) BY DEF AllEbb
    <3>2. runs'[i].gates[g] \in RulingRecords BY <1>1 DEF RunRecords
    <3>3. /\ runs[i].gates[g].serial <= MaxIssues
          /\ runs[i].gates[g].serial = 0 => runs[i].gates[g] = NoRuling
      BY DEF RunsInv, RunsShape
    <3> QED BY <3>1, <3>2, <3>3 DEF Ebbs, Over, RulingRecords, NoRuling
  <2> QED BY <1>1, <2>1, <2>2 DEF RunsShape
<1>3. \A i \in DOMAIN runs : Ages(i) BY <1>2, EbbsAge DEF RunsInv, AllEbb
<1>4. Frozen' = Frozen
  <2>1. \A i \in DOMAIN runs : runs'[i].intake = "consumed" <=> runs[i].intake = "consumed"
    BY DEF AllEbb, Ebbs, Over
  <2> QED BY <1>1, <2>1 DEF Frozen
<1>5. RevisionsInOrder' BY <1>3, <1>4, RevisionsStay DEF RunsInv
<1>6. Bindings' /\ Lineage' /\ NextRevision' /\ OneAttempt' BY <1>1, <1>2, <1>3, <1>5, RestStays
<1>7. Stages'
  <2> SUFFICES ASSUME NEW i \in DOMAIN runs
      PROVE  /\ runs'[i].source # 0 =>
                  runs'[i].prep # "none" /\ (runs'[i].prep = "consumed" <=> runs'[i].call # "none")
             /\ runs'[i].intake # "none" => runs'[i].call = "admitted"
             /\ runs'[i].intake # "consumed" => \A g \in Gates : runs'[i].gates[g].serial = 0
             /\ runs'[i].successor \in {0} \cup (i + 1)..MaxRuns
    BY <1>1 DEF Stages
  <2>1. Ebbs(runs[i], runs'[i]) BY DEF AllEbb
  <2>2. /\ runs[i].source # 0 => runs[i].prep # "none" /\ (runs[i].prep = "consumed" <=> runs[i].call # "none")
        /\ runs[i].intake # "none" => runs[i].call = "admitted"
        /\ runs[i].intake # "consumed" => \A g \in Gates : runs[i].gates[g].serial = 0
        /\ runs[i].successor \in {0} \cup (i + 1)..MaxRuns
    BY DEF RunsInv, Stages
  <2> QED BY <2>1, <2>2 DEF Ebbs, Over
<1>8. OneSuccessor'
  <2> SUFFICES ASSUME NEW j \in Frozen, runs[j].source # 0
      PROVE  /\ (\/ \E g \in Gates : runs'[j].gates[g].verdict = "escalate"
                 \/ runs'[j].gates["verify"].verdict = "allow") => runs'[runs[j].source].successor = j
             /\ runs'[runs[j].source].successor # 0 =>
                  \A k \in DOMAIN runs : runs'[k].source = runs[j].source => runs'[k].prep # "issued"
    BY <1>1, <1>4 DEF OneSuccessor, AllEbb, Ebbs, Frozen
  <2>1. j \in DOMAIN runs /\ runs[j].source \in DOMAIN runs BY DEF RunsInv, Lineage, Frozen
  <2>2. Ebbs(runs[j], runs'[j]) /\ Ebbs(runs[runs[j].source], runs'[runs[j].source]) BY <2>1 DEF AllEbb
  <2>3. \A g \in Gates : runs'[j].gates[g].verdict = runs[j].gates[g].verdict BY <2>2 DEF Ebbs
  <2>4. runs'[runs[j].source].successor = runs[runs[j].source].successor BY <2>2 DEF Ebbs
  <2>5. \A k \in DOMAIN runs : runs'[k].source = runs[k].source /\ (runs'[k].prep = "issued" => runs[k].prep = "issued")
    BY DEF AllEbb, Ebbs, Over
  <2>6. "verify" \in Gates BY DEF Gates
  <2> QED BY <2>3, <2>4, <2>5, <2>6 DEF RunsInv, OneSuccessor
<1> QED BY <1>2, <1>5, <1>6, <1>7, <1>8 DEF RunsInv

-----------------------------------------------------------------------------
(***************************************************************************)
(* The actions that end what is issued, or begin nothing.                  *)
(***************************************************************************)
PreparationsEbb(ps, qs) ==
    /\ qs \in Seq(PreparationRecords) /\ Len(qs) = Len(ps)
    /\ \A x \in DOMAIN ps : /\ qs[x].run = ps[x].run /\ qs[x].verdict = ps[x].verdict
                            /\ qs[x].state \in {"issued", "consumed"} => qs[x].state = ps[x].state

LEMMA PointwisePreparations ==
    ASSUME NEW ps \in Seq(PreparationRecords), NEW qs, qs = [x \in DOMAIN ps |-> qs[x]],
           \A x \in DOMAIN ps :
               /\ qs[x] \in PreparationRecords /\ qs[x].run = ps[x].run /\ qs[x].verdict = ps[x].verdict
               /\ qs[x].state \in {"issued", "consumed"} => qs[x].state = ps[x].state
    PROVE  PreparationsEbb(ps, qs)
<1>1. DOMAIN ps = 1..Len(ps) /\ Len(ps) \in Nat OBVIOUS
<1>2. \A x \in 1..Len(ps) : qs[x] \in PreparationRecords BY <1>1
<1>3. qs = [x \in 1..Len(ps) |-> qs[x]] BY <1>1
<1>4. qs \in Seq(PreparationRecords) /\ Len(qs) = Len(ps) BY <1>1, <1>2, <1>3, SeqFromFunction
<1> QED BY <1>4 DEF PreparationsEbb

LEMMA PreparationsEbbThemselves ==
    ASSUME PreparationsShape, UNCHANGED preparations
    PROVE  PreparationsEbb(preparations, preparations')
BY DEF PreparationsEbb, PreparationsShape

LEMMA EndPreparationsEbb ==
    ASSUME PreparationsShape, NEW S
    PROVE  PreparationsEbb(preparations, EndPreparations(S))
<1> DEFINE qs == EndPreparations(S)
<1>1. preparations \in Seq(PreparationRecords) BY DEF PreparationsShape
<1>2. qs = [x \in DOMAIN preparations |-> qs[x]] BY DEF EndPreparations
<1>3. ASSUME NEW x \in DOMAIN preparations
      PROVE  /\ qs[x] \in PreparationRecords
             /\ qs[x].run = preparations[x].run /\ qs[x].verdict = preparations[x].verdict
             /\ qs[x].state \in {"issued", "consumed"} => qs[x].state = preparations[x].state
  <2>1. preparations[x] \in PreparationRecords BY <1>1
  <2> QED BY <2>1 DEF EndPreparations, End, PreparationRecords
<1> QED BY <1>1, <1>2, <1>3, PointwisePreparations

LEMMA ExpirePreparationsEbb ==
    ASSUME PreparationsShape, NEW b
    PROVE  PreparationsEbb(preparations, [x \in DOMAIN preparations |-> ExpirePreparation(preparations[x], b)])
<1> DEFINE qs == [x \in DOMAIN preparations |-> ExpirePreparation(preparations[x], b)]
<1>1. preparations \in Seq(PreparationRecords) BY DEF PreparationsShape
<1>2. qs = [x \in DOMAIN preparations |-> qs[x]] OBVIOUS
<1>3. ASSUME NEW x \in DOMAIN preparations
      PROVE  /\ qs[x] \in PreparationRecords
             /\ qs[x].run = preparations[x].run /\ qs[x].verdict = preparations[x].verdict
             /\ qs[x].state \in {"issued", "consumed"} => qs[x].state = preparations[x].state
  <2>1. preparations[x] \in PreparationRecords BY <1>1
  <2> QED BY <2>1 DEF ExpirePreparation, End, PreparationRecords
<1> QED BY <1>1, <1>2, <1>3, PointwisePreparations

LEMMA LapsedPreparationEbbs ==
    ASSUME PreparationsShape, NEW x \in DOMAIN preparations
    PROVE  PreparationsEbb(preparations, [preparations EXCEPT ![x].lapsed = TRUE])
<1> DEFINE qs == [preparations EXCEPT ![x].lapsed = TRUE]
<1>1. preparations \in Seq(PreparationRecords) BY DEF PreparationsShape
<1>2. qs = [y \in DOMAIN preparations |-> qs[y]] OBVIOUS
<1>3. ASSUME NEW y \in DOMAIN preparations
      PROVE  /\ qs[y] \in PreparationRecords
             /\ qs[y].run = preparations[y].run /\ qs[y].verdict = preparations[y].verdict
             /\ qs[y].state \in {"issued", "consumed"} => qs[y].state = preparations[y].state
  <2>1. preparations[y] \in PreparationRecords BY <1>1
  <2> QED BY <2>1 DEF PreparationRecords
<1> QED BY <1>1, <1>2, <1>3, PointwisePreparations

LEMMA PreparationsKept ==
    ASSUME PreparationsShape, Commits, PreparationsEbb(preparations, preparations'), Frozen \subseteq Frozen',
           \A i \in Frozen : runs'[i].commit = runs[i].commit \/ runs[i].commit = "none"
    PROVE  PreparationsShape' /\ Commits'
<1>1. DOMAIN preparations' = DOMAIN preparations BY DEF PreparationsEbb, PreparationsShape
<1>2. PreparationsShape' BY DEF PreparationsEbb, PreparationsShape
<1>3. ASSUME NEW x \in DOMAIN preparations
      PROVE  /\ preparations'[x].run \in Frozen'
             /\ preparations'[x].state = "consumed" =>
                  /\ preparations'[x].verdict \in Verdicts
                  /\ runs'[preparations'[x].run].commit = preparations'[x].verdict
  BY DEF Commits, PreparationsEbb, Verdicts
<1>4. ASSUME NEW x \in DOMAIN preparations, NEW y \in DOMAIN preparations,
             preparations'[x].run = preparations'[y].run, x < y
      PROVE  preparations'[x].state \notin {"issued", "consumed"}
  BY <1>4 DEF Commits, PreparationsEbb
<1> QED BY <1>1, <1>2, <1>3, <1>4 DEF Commits

LEMMA EbbKeeps ==
    ASSUME Inv, Onward, AllEbb(runs, runs'), PreparationsEbb(preparations, preparations'), LoopsShape',
           \A j \in DOMAIN runs :
               runs'[j].escalation = "answered" => runs[j].escalation = "answered" \/ version' # version
    PROVE  Inv'
<1>1. RunsInv' BY EbbKeepsRuns DEF Inv
<1>2. DOMAIN runs' = DOMAIN runs BY DEF AllEbb, Inv, RunsInv, RunsShape
<1>3. Frozen \subseteq Frozen' BY <1>2 DEF Frozen, AllEbb, Ebbs, Over
<1>4. \A i \in Frozen : runs'[i].commit = runs[i].commit \/ runs[i].commit = "none" BY DEF Frozen, AllEbb, Ebbs
<1>5. PreparationsShape' /\ Commits' BY <1>3, <1>4, PreparationsKept DEF Inv
<1> QED BY <1>1, <1>5 DEF Inv, Onward

LEMMA OnwardStill ==
    ASSUME Inv, UNCHANGED <<boot, version, governance, receipts>>
    PROVE  Onward
BY DEF Inv, Onward, CountersShape, ReceiptsShape

LEMMA OnwardChanged ==
    ASSUME Inv, MayChange, UNCHANGED receipts,
           boot' \in {boot, boot + 1}, version' \in {version, version + 1}, governance' \in {governance, governance + 1}
    PROVE  Onward
<1>1. {boot + 1, version + 1, governance + 1} \subseteq 1..(MaxChanges + 1) BY ChangesAreCounted DEF Inv, RunsInv
<1>2. {boot, version, governance} \subseteq 1..(MaxChanges + 1) BY DEF Inv, CountersShape
<1>3. {boot', version', governance'} \subseteq 1..(MaxChanges + 1) BY <1>1, <1>2
<1>4. boot' >= boot /\ version' >= version /\ governance' >= governance BY <1>2
<1> QED BY <1>3, <1>4 DEF Inv, Onward, CountersShape, ReceiptsShape

LEMMA RunsOf == ASSUME Inv PROVE runs \in Seq(RunRecords) /\ \A i \in DOMAIN runs : runs[i] \in RunRecords
BY DEF Inv, RunsInv, RunsShape

\* Nothing but the loops moves, or somebody opens a session.
LEMMA StillKeeps ==
    ASSUME Inv, Onward, UNCHANGED <<runs, preparations>>, LoopsShape'
    PROVE  Inv'
<1>1. AllEbb(runs, runs') BY RunsOf, EbbsItself DEF AllEbb
<1>2. PreparationsEbb(preparations, preparations') BY PreparationsEbbThemselves DEF Inv
<1> QED BY <1>1, <1>2, EbbKeeps

LEMMA ConversationChangesInv == ASSUME Inv, ConversationChanges PROVE Inv'
<1>1. MayChange /\ version' = version + 1 /\ runs' = EndAll(runs) /\ preparations' = EndPreparations(Sessions)
      /\ UNCHANGED <<boot, governance, receipts, loops>>
  BY DEF ConversationChanges, Mutation
<1>2. Onward BY <1>1, OnwardChanged
<1>3. AllEbb(runs, runs') BY <1>1, RunsOf, EndAllEbbs
<1>4. PreparationsEbb(preparations, preparations') BY <1>1, EndPreparationsEbb DEF Inv
<1>5. LoopsShape' BY <1>1 DEF Inv, LoopsShape
<1>6. version' # version BY <1>1 DEF Inv, CountersShape
<1> QED BY <1>2, <1>3, <1>4, <1>5, <1>6, EbbKeeps

\* EndAll, EndCalls and EndRevisions answer no escalation.
LEMMA EndingAnswersNothing ==
    ASSUME NEW rs \in Seq(RunRecords)
    PROVE  /\ \A i \in DOMAIN rs : EndAll(rs)[i].escalation = rs[i].escalation
           /\ \A i \in DOMAIN rs : EndCalls(rs)[i].escalation = rs[i].escalation
           /\ \A S : \A i \in DOMAIN rs : EndRevisions(rs, S)[i].escalation = rs[i].escalation
<1>1. ASSUME NEW i \in DOMAIN rs PROVE EndAll(rs)[i].escalation = rs[i].escalation
  <2>1. rs[i] \in RunRecords OBVIOUS
  <2> QED BY <2>1 DEF EndAll, EndRulings, EndAttempt, RunRecords
<1>2. ASSUME NEW i \in DOMAIN rs PROVE EndCalls(rs)[i].escalation = rs[i].escalation
  <2>1. rs[i] \in RunRecords OBVIOUS
  <2> QED BY <2>1 DEF EndCalls, RunRecords
<1>3. ASSUME NEW S, NEW i \in DOMAIN rs PROVE EndRevisions(rs, S)[i].escalation = rs[i].escalation
  <2>1. rs[i] \in RunRecords OBVIOUS
  <2> QED BY <2>1 DEF EndRevisions, RunRecords
<1> QED BY <1>1, <1>2, <1>3

LEMMA GovernanceChangesInv == ASSUME Inv, NEW what, GovernanceChanges(what) PROVE Inv'
<1>1. MayChange /\ governance' = governance + 1 /\ UNCHANGED <<boot, version, receipts, loops>>
  BY DEF GovernanceChanges
<1>2. Onward BY <1>1, OnwardChanged
<1>3. LoopsShape' BY <1>1 DEF Inv, LoopsShape
<1>4. CASE what = "unseen" BY <1>2, <1>3, <1>4, StillKeeps DEF GovernanceChanges
<1>5. CASE what # "unseen"
  <2> DEFINE rs == IF what = "selection" THEN EndCalls(runs) ELSE runs
  <2>1. runs' = EndAll(rs) /\ preparations' = EndPreparations(Sessions) BY <1>5 DEF GovernanceChanges
  <2>2. AllEbb(runs, rs) /\ \A i \in DOMAIN runs : rs[i].escalation = runs[i].escalation
    <3>1. AllEbb(runs, runs) BY RunsOf, EbbsItself DEF AllEbb
    <3> QED BY <3>1, RunsOf, EndCallsEbbs, EndingAnswersNothing
  <2> HIDE DEF rs
  <2>3. rs \in Seq(RunRecords) /\ DOMAIN rs = DOMAIN runs BY <2>2, RunsOf DEF AllEbb
  <2>4. AllEbb(rs, EndAll(rs)) BY <2>3, EndAllEbbs
  <2>5. AllEbb(runs, runs') BY <2>1, <2>2, <2>4, AllEbbOn, RunsOf
  <2>6. \A i \in DOMAIN runs : runs'[i].escalation = runs[i].escalation
    BY <2>1, <2>2, <2>3, EndingAnswersNothing
  <2>7. PreparationsEbb(preparations, preparations') BY <2>1, EndPreparationsEbb DEF Inv
  <2> QED BY <1>2, <1>3, <2>5, <2>6, <2>7, EbbKeeps
<1> QED BY <1>4, <1>5

LEMMA SessionsOnward ==
    ASSUME Inv, UNCHANGED <<boot, version, governance>>, NEW s \in Sessions,
           \/ receipts[s] = "none" /\ receipts' = [receipts EXCEPT ![s] = "active"]
           \/ receipts[s] = "active" /\ receipts' = [receipts EXCEPT ![s] = "ended"]
    PROVE  Onward
<1>1. receipts \in [Sessions -> {"none", "active", "ended", "lost"}] BY DEF Inv, ReceiptsShape
<1> QED BY <1>1 DEF Inv, Onward, CountersShape, ReceiptsShape

LEMMA RedeemInv == ASSUME Inv, NEW s \in Sessions, Redeem(s) PROVE Inv'
<1>1. Onward BY SessionsOnward DEF Redeem
<1>2. LoopsShape' BY DEF Redeem, Inv, LoopsShape
<1> QED BY <1>1, <1>2, StillKeeps DEF Redeem

LEMMA CloseSessionInv == ASSUME Inv, NEW s \in Sessions, CloseSession(s) PROVE Inv'
<1>1. Onward BY SessionsOnward DEF CloseSession, Receipt
<1>2. LoopsShape' BY DEF CloseSession, Inv, LoopsShape
<1>3. AllEbb(runs, runs') /\ \A i \in DOMAIN runs : runs'[i].escalation = runs[i].escalation
  BY RunsOf, EndRevisionsEbbs, EndingAnswersNothing DEF CloseSession
<1>4. PreparationsEbb(preparations, preparations') BY EndPreparationsEbb DEF CloseSession, Inv
<1> QED BY <1>1, <1>2, <1>3, <1>4, EbbKeeps

LEMMA ReceiptLapsesInv == ASSUME Inv, NEW s \in Sessions, ReceiptLapses(s) PROVE Inv'
<1>1. Onward BY SessionsOnward DEF ReceiptLapses, Receipt
<1>2. LoopsShape' BY DEF ReceiptLapses, Inv, LoopsShape
<1>3. ASSUME NEW i \in DOMAIN runs
      PROVE  Ebbs(runs[i], runs'[i]) /\ runs'[i].escalation = runs[i].escalation
  <2>1. runs[i] \in RunRecords BY RunsOf
  <2>2. runs'[i] = IF runs[i].session = s THEN [runs[i] EXCEPT !.lapsed = @ \cup {"prep"}] ELSE runs[i]
    BY DEF ReceiptLapses
  <2>3. Ebbs(runs[i], [runs[i] EXCEPT !.lapsed = @ \cup {"prep"}]) BY <2>1, LapsedEbbs
  <2>4. [runs[i] EXCEPT !.lapsed = @ \cup {"prep"}].escalation = runs[i].escalation BY <2>1 DEF RunRecords
  <2> QED BY <2>1, <2>2, <2>3, <2>4, EbbsItself
<1>4. AllEbb(runs, runs')
  <2>1. runs' = [i \in DOMAIN runs |-> runs'[i]] BY DEF ReceiptLapses
  <2> QED BY <1>3, <2>1, RunsOf, PointwiseEbb
<1>5. PreparationsEbb(preparations, preparations')
  <2>1. preparations' = [x \in DOMAIN preparations |-> preparations'[x]] BY DEF ReceiptLapses
  <2>2. preparations \in Seq(PreparationRecords) BY DEF Inv, PreparationsShape
  <2>3. ASSUME NEW x \in DOMAIN preparations
        PROVE  /\ preparations'[x] \in PreparationRecords
               /\ preparations'[x].run = preparations[x].run /\ preparations'[x].verdict = preparations[x].verdict
               /\ preparations'[x].state = preparations[x].state
    <3>1. preparations[x] \in PreparationRecords BY <2>2
    <3>2. preparations'[x] = IF preparations[x].session = s THEN [preparations[x] EXCEPT !.lapsed = TRUE]
                             ELSE preparations[x]
      BY DEF ReceiptLapses
    <3> QED BY <3>1, <3>2 DEF PreparationRecords
  <2> QED BY <2>1, <2>2, <2>3, PointwisePreparations
<1> QED BY <1>1, <1>2, <1>3, <1>4, <1>5, EbbKeeps

LEMMA CallFailsInv == ASSUME Inv, NEW i \in DOMAIN runs, CallFails(i) PROVE Inv'
<1>1. Onward /\ LoopsShape' BY OnwardStill DEF CallFails, Inv, LoopsShape
<1>2. runs[i] \in RunRecords BY RunsOf
<1>3. AllEbb(runs, runs')
  <2>1. Ebbs(runs[i], [runs[i] EXCEPT !.call = "failed"]) BY <1>2, CallEbbs DEF CallFails
  <2>2. runs' = [runs EXCEPT ![i] = [runs[i] EXCEPT !.call = "failed"]] BY DEF CallFails
  <2> QED BY <2>1, <2>2, OneEbbs, RunsOf
<1>4. \A j \in DOMAIN runs : runs'[j].escalation = runs[j].escalation BY <1>2 DEF CallFails, RunRecords
<1>5. PreparationsEbb(preparations, preparations') BY PreparationsEbbThemselves DEF Inv, CallFails
<1> QED BY <1>1, <1>3, <1>4, <1>5, EbbKeeps

LEMMA RunLapsesInv ==
    ASSUME Inv, NEW i \in DOMAIN runs, NEW what \in {"prep", "call", "intake"} \cup Gates, RunLapses(i, what)
    PROVE  Inv'
<1>1. Onward /\ LoopsShape' BY OnwardStill DEF RunLapses, Inv, LoopsShape
<1>2. runs[i] \in RunRecords BY RunsOf
<1>3. AllEbb(runs, runs')
  <2>1. Ebbs(runs[i], [runs[i] EXCEPT !.lapsed = @ \cup {what}]) BY <1>2, LapsedEbbs
  <2>2. runs' = [runs EXCEPT ![i] = [runs[i] EXCEPT !.lapsed = @ \cup {what}]] BY DEF RunLapses
  <2> QED BY <2>1, <2>2, OneEbbs, RunsOf
<1>4. \A j \in DOMAIN runs : runs'[j].escalation = runs[j].escalation BY <1>2 DEF RunLapses, RunRecords
<1>5. PreparationsEbb(preparations, preparations') BY PreparationsEbbThemselves DEF Inv, RunLapses
<1> QED BY <1>1, <1>3, <1>4, <1>5, EbbKeeps

LEMMA PreparationLapsesInv == ASSUME Inv, NEW x \in DOMAIN preparations, PreparationLapses(x) PROVE Inv'
<1>1. Onward /\ LoopsShape' BY OnwardStill DEF PreparationLapses, Inv, LoopsShape
<1>2. AllEbb(runs, runs') BY RunsOf, EbbsItself DEF AllEbb, PreparationLapses
<1>3. PreparationsEbb(preparations, preparations') BY LapsedPreparationEbbs DEF Inv, PreparationLapses
<1> QED BY <1>1, <1>2, <1>3, EbbKeeps DEF PreparationLapses

LEMMA ClosedEbbs ==
    ASSUME NEW r \in RunRecords, r.escalation = "open", NEW to \in {"answered", "closed"}
    PROVE  Ebbs(r, [EndEscalated(r) EXCEPT !.escalation = to])
<1> DEFINE q == EndEscalated(r)
<1>1. Ebbs(r, q) BY EndRulingsEbbs DEF EndEscalated
<1>2. q \in RunRecords BY <1>1 DEF Ebbs
<1>3. q.escalation = "open" BY DEF EndEscalated, EndRulings, RunRecords
<1> HIDE DEF q
<1>4. [q EXCEPT !.escalation = to] \in RunRecords BY <1>2 DEF RunRecords
<1>5. Ebbs(q, [q EXCEPT !.escalation = to]) BY <1>2, <1>3, <1>4 DEF Ebbs, Over, RunRecords
<1>6. Ebbs(r, [q EXCEPT !.escalation = to]) BY <1>1, <1>5, EbbsOn
<1> QED BY <1>6 DEF q

LEMMA AnswerInv == ASSUME Inv, NEW i \in DOMAIN runs, Answer(i) PROVE Inv'
<1> DEFINE rs == [runs EXCEPT ![i] = [EndEscalated(runs[i]) EXCEPT !.escalation = "answered"]]
<1>1. /\ MayChange /\ version' = version + 1 /\ runs' = EndAll(rs) /\ preparations' = EndPreparations(Sessions)
      /\ UNCHANGED <<boot, governance, receipts, loops>>
  BY DEF Answer, Mutation
<1>2. Onward BY <1>1, OnwardChanged
<1>3. AllEbb(runs, rs)
  <2>1. runs[i] \in RunRecords /\ runs[i].escalation = "open" BY RunsOf DEF Answer
  <2> QED BY <2>1, ClosedEbbs, OneEbbs, RunsOf
<1> HIDE DEF rs
<1>4. rs \in Seq(RunRecords) BY <1>3 DEF AllEbb
<1>5. AllEbb(runs, runs') BY <1>1, <1>3, <1>4, EndAllEbbs, AllEbbOn, RunsOf
<1>6. PreparationsEbb(preparations, preparations') BY <1>1, EndPreparationsEbb DEF Inv
<1>7. LoopsShape' BY <1>1 DEF Inv, LoopsShape
<1>8. version' # version BY <1>1 DEF Inv, CountersShape
<1> QED BY <1>2, <1>5, <1>6, <1>7, <1>8, EbbKeeps

LEMMA CloseEscalationInv == ASSUME Inv, NEW i \in DOMAIN runs, CloseEscalation(i) PROVE Inv'
<1>1. Onward /\ LoopsShape' BY OnwardStill DEF CloseEscalation, Inv, LoopsShape
<1>2. runs[i] \in RunRecords /\ runs[i].escalation = "open" BY RunsOf DEF CloseEscalation
<1>3. runs' = [runs EXCEPT ![i] = [EndEscalated(runs[i]) EXCEPT !.escalation = "closed"]] BY DEF CloseEscalation
<1>4. AllEbb(runs, runs') BY <1>2, <1>3, ClosedEbbs, OneEbbs, RunsOf
<1>5. ASSUME NEW j \in DOMAIN runs, runs'[j].escalation = "answered" PROVE runs[j].escalation = "answered"
  <2>1. CASE j = i
    <3>1. EndEscalated(runs[i]) \in RunRecords BY <1>2, EndRulingsEbbs DEF EndEscalated, Ebbs
    <3>2. runs'[i].escalation = "closed" BY <1>3, <3>1 DEF RunRecords
    <3> QED BY <1>5, <2>1, <3>2
  <2>2. CASE j # i BY <1>3, <1>5, <2>2
  <2> QED BY <2>1, <2>2
<1>6. PreparationsEbb(preparations, preparations') BY PreparationsEbbThemselves DEF Inv, CloseEscalation
<1> QED BY <1>1, <1>4, <1>5, <1>6, EbbKeeps

LEMMA StartLoopInv == ASSUME Inv, NEW c \in Callers, NEW i \in DOMAIN runs, StartLoop(c, i) PROVE Inv'
<1>1. Onward BY OnwardStill DEF StartLoop
<1>2. i \in 0..MaxRuns BY ProposalsAssumption DEF Inv, RunsInv, RunsShape
<1>3. LoopsShape' BY <1>2 DEF StartLoop, Inv, LoopsShape, Gates
<1> QED BY <1>1, <1>3, StillKeeps DEF StartLoop

LEMMA LeaveLoopInv == ASSUME Inv, NEW c \in Callers, LeaveLoop(c) PROVE Inv'
<1>1. Onward BY OnwardStill DEF LeaveLoop
<1>2. LoopsShape' BY ProposalsAssumption DEF LeaveLoop, Inv, LoopsShape, Idle
<1> QED BY <1>1, <1>2, StillKeeps DEF LeaveLoop

LEMMA LookAgainInv == ASSUME Inv, NEW c \in Callers, LookAgain(c) PROVE Inv'
<1>1. Onward BY OnwardStill DEF LookAgain
<1>2. LoopsShape'
  <2> DEFINE new == IF /\ runs[loops[c].run].gates[loops[c].gate].status = "issued"
                       /\ runs[loops[c].run].gates[loops[c].gate].verdict = "allow"
                       /\ loops[c].gate # "verify" /\ Status(loops[c].run) = "frozen"
                    THEN [run |-> loops[c].run, gate |-> Following[loops[c].gate], stage |-> "rule"] ELSE Idle
  <2>1. loops' = [loops EXCEPT ![c] = new] BY DEF LookAgain
  <2>2. loops[c].run \in 0..MaxRuns /\ loops[c].gate \in Gates BY DEF Inv, LoopsShape, LookAgain
  <2>3. loops[c].gate # "verify" => Following[loops[c].gate] \in Gates BY <2>2 DEF Gates, Following
  <2>4. /\ new \in [run : 0..MaxRuns, gate : {"none"} \cup Gates, stage : {"idle", "rule", "look"}]
        /\ new.stage # "idle" => new.gate \in Gates
    BY <2>2, <2>3, ProposalsAssumption DEF Idle
  <2> HIDE DEF new
  <2> QED BY <2>1, <2>4 DEF Inv, LoopsShape
<1> QED BY <1>1, <1>2, StillKeeps DEF LookAgain

\* Expiry answers no escalation.
LEMMA ExpiryAnswersNothing ==
    ASSUME NEW r \in RunRecords, NEW b
    PROVE  SweepRun(ExpireRun(r, b)).escalation = r.escalation
<1>1. ExpireRun(r, b) \in RunRecords BY ExpireRunEbbs DEF Ebbs
<1>2. ExpireRun(r, b).escalation = r.escalation BY DEF ExpireRun, EndRulings, EndAttempt, RunRecords
<1>3. SweepRun(ExpireRun(r, b)).escalation = ExpireRun(r, b).escalation
  BY <1>1 DEF SweepRun, EndRulings, RunRecords
<1> QED BY <1>2, <1>3

LEMMA MaintainInv == ASSUME Inv, Maintain PROVE Inv'
<1> DEFINE rs == [i \in DOMAIN runs |-> SweepRun(ExpireRun(runs[i], boot))]
<1>1. Onward /\ LoopsShape' BY OnwardStill DEF Maintain, Inv, LoopsShape
<1>2. runs' = EndRevisions(rs, Ended) BY DEF Maintain
<1>3. AllEbb(runs, rs) BY RunsOf, ExpiredEbb
<1>4. \A i \in DOMAIN runs : rs[i].escalation = runs[i].escalation BY RunsOf, ExpiryAnswersNothing
<1> HIDE DEF rs
<1>5. rs \in Seq(RunRecords) /\ DOMAIN rs = DOMAIN runs BY <1>3, RunsOf DEF AllEbb
<1>6. AllEbb(rs, runs') /\ \A i \in DOMAIN runs : runs'[i].escalation = runs[i].escalation
  BY <1>2, <1>4, <1>5, EndRevisionsEbbs, EndingAnswersNothing
<1>7. AllEbb(runs, runs') BY <1>3, <1>6, AllEbbOn, RunsOf
<1>8. PreparationsEbb(preparations, preparations') BY ExpirePreparationsEbb DEF Inv, Maintain
<1> QED BY <1>1, <1>6, <1>7, <1>8, EbbKeeps

LEMMA RestartInv == ASSUME Inv, Restart PROVE Inv'
<1>1. Onward
  <2>1. {boot + 1, version + 1, governance + 1} \subseteq 1..(MaxChanges + 1)
    BY ChangesAreCounted DEF Inv, RunsInv, Restart
  <2>2. {boot, version, governance} \subseteq 1..(MaxChanges + 1) BY DEF Inv, CountersShape
  <2>3. CountersShape' BY <2>1, <2>2 DEF CountersShape, Restart
  <2>4. receipts \in [Sessions -> {"none", "active", "ended", "lost"}] BY DEF Inv, ReceiptsShape
  <2>5. ReceiptsShape' BY <2>4 DEF ReceiptsShape, Restart, Receipt
  <2>6. \A s \in Sessions : /\ receipts[s] # "none" => receipts'[s] # "none"
                            /\ receipts'[s] # "active"
    BY <2>4 DEF Restart, Receipt
  <2>7. boot' >= boot /\ version' >= version /\ governance' >= governance BY <2>2 DEF Restart
  <2> QED BY <2>3, <2>5, <2>6, <2>7 DEF Onward
<1>2. LoopsShape' BY ProposalsAssumption DEF Restart, LoopsShape, Idle
<1>3. AllEbb(runs, runs') BY RunsOf, ExpiredEbb DEF Restart
<1>4. \A i \in DOMAIN runs : runs'[i].escalation = runs[i].escalation BY RunsOf, ExpiryAnswersNothing DEF Restart
<1>5. PreparationsEbb(preparations, preparations') BY ExpirePreparationsEbb DEF Inv, Restart
<1> QED BY <1>1, <1>2, <1>3, <1>4, <1>5, EbbKeeps

-----------------------------------------------------------------------------
(***************************************************************************)
(* A run proceeds: its call is opened, its answer admitted, its draft      *)
(* frozen as a proposal.                                                   *)
(***************************************************************************)
LEMMA FreezingKeepsOrder ==
    ASSUME RunsShape, Lineage, RevisionsInOrder, NEW i \in DOMAIN runs, i \notin Frozen, Freezable(i),
           Frozen' = Frozen \cup {i},
           \A j \in DOMAIN runs : runs'[j].action = runs[j].action /\ runs'[j].revision = runs[j].revision
    PROVE  RevisionsInOrder'
<1> DEFINE A == SameAction(i)
           n == Cardinality(A)
<1>1. A \subseteq DOMAIN runs /\ IsFiniteSet(A) /\ n \in Nat /\ i \notin A
  BY SameActionIsCounted DEF SameAction, Frozen
<1>2. {runs[j].revision : j \in A} = 1..n /\ runs[i].revision = n + 1
  <2>1. CASE runs[i].source = 0
    <3>1. runs[i].action = i BY <2>1 DEF Lineage
    <3>2. ASSUME NEW j \in Frozen, runs[j].action = i PROVE FALSE
      <4>1. j \in DOMAIN runs BY DEF Frozen
      <4>2. CASE runs[j].source = 0 BY <3>2, <4>1, <4>2 DEF Lineage
      <4>3. CASE runs[j].source # 0
        <5>1. runs[j].action \in Frozen BY <4>1, <4>3 DEF Lineage
        <5> QED BY <3>2, <5>1
      <4> QED BY <4>2, <4>3
    <3>3. A = {} BY <3>1, <3>2 DEF SameAction
    <3>4. n = 0 BY <3>3, FS_EmptySet
    <3>5. runs[i].revision = 1 BY <2>1 DEF Freezable
    <3> QED BY <3>3, <3>4, <3>5
  <2>2. CASE runs[i].source # 0
    <3>1. runs[i].source \in Frozen /\ runs[i].action = runs[runs[i].source].action BY <2>2 DEF Lineage
    <3>2. SameAction(runs[i].source) = A BY <3>1 DEF SameAction
    <3>3. LatestRevision(runs[i].source) = n BY <3>1, <3>2, LatestIs
    <3>4. {runs[j].revision : j \in A} = 1..n BY <3>1, <3>2 DEF RevisionsInOrder
    <3>5. runs[i].revision = n + 1 BY <2>2, <3>3 DEF Freezable
    <3> QED BY <3>4, <3>5
  <2> QED BY <2>1, <2>2
<1>3. SUFFICES ASSUME NEW k \in Frozen \cup {i}
               PROVE  {runs'[j].revision : j \in SameAction(k)'} = 1..Cardinality(SameAction(k)')
  BY DEF RevisionsInOrder
<1>4. k \in DOMAIN runs BY DEF Frozen
<1>5. SameAction(k)' = {j \in Frozen \cup {i} : runs[j].action = runs[k].action}
  <2>1. Frozen \cup {i} \subseteq DOMAIN runs BY DEF Frozen
  <2> QED BY <1>4, <2>1 DEF SameAction
<1>6. CASE runs[k].action = runs[i].action
  <2>1. SameAction(k)' = A \cup {i} BY <1>5, <1>6 DEF SameAction
  <2>2. Cardinality(A \cup {i}) = n + 1 BY <1>1, FS_AddElement
  <2>3. {runs'[j].revision : j \in A \cup {i}} = {runs[j].revision : j \in A} \cup {runs[i].revision}
    BY <1>1
  <2> HIDE DEF A, n
  <2>4. {runs'[j].revision : j \in A \cup {i}} = 1..(n + 1) BY <1>1, <1>2, <2>3
  <2> QED BY <2>1, <2>2, <2>4
<1>7. CASE runs[k].action # runs[i].action
  <2>1. k \in Frozen BY <1>7
  <2>2. SameAction(k)' = SameAction(k) BY <1>5, <1>7 DEF SameAction
  <2>3. \A j \in SameAction(k) : runs'[j].revision = runs[j].revision BY DEF SameAction, Frozen
  <2>4. {runs'[j].revision : j \in SameAction(k)} = {runs[j].revision : j \in SameAction(k)} BY <2>3
  <2> QED BY <2>1, <2>2, <2>4 DEF RevisionsInOrder
<1> QED BY <1>6, <1>7

LEMMA ProceedKeeps ==
    ASSUME Inv, NEW i \in DOMAIN runs, NEW prep, NEW call, NEW intake,
           prep = runs[i].prep \/ (runs[i].prep = "issued" /\ prep = "consumed"),
           call \in {runs[i].call, "open", "admitted"},
           intake \in {runs[i].intake, "issued", "consumed", "refused", "invalidated"},
           call = "open" => runs[i].call = "open" \/ runs[i].prep = "issued",
           intake = "issued" => runs[i].intake = "issued" \/ runs[i].call = "open",
           runs[i].intake # "consumed",
           intake = "consumed" => runs[i].intake = "issued" /\ RunCurrent(i) /\ Freezable(i),
           runs[i].source # 0 => (prep = "consumed" <=> call # "none"),
           intake # "none" => call = "admitted",
           runs' = [runs EXCEPT ![i] = [runs[i] EXCEPT !.prep = prep, !.call = call, !.intake = intake]],
           UNCHANGED <<boot, version, governance, receipts, preparations, loops>>
    PROVE  Inv'
<1> DEFINE q == [runs[i] EXCEPT !.prep = prep, !.call = call, !.intake = intake]
<1>1. runs[i] \in RunRecords /\ runs \in Seq(RunRecords) BY RunsOf
<1>2. q \in RunRecords
  <2>1. /\ prep \in {"none", "issued", "consumed", "invalidated", "expired"}
        /\ call \in {"none", "open", "failed", "admitted"}
        /\ intake \in {"none", "issued", "consumed", "refused", "invalidated", "expired"}
    BY <1>1 DEF RunRecords
  <2>2. [runs[i] EXCEPT !.prep = prep] \in RunRecords BY <1>1, <2>1 DEF RunRecords
  <2> DEFINE x == [runs[i] EXCEPT !.prep = prep]
  <2> HIDE DEF x
  <2>3. x \in RunRecords BY <2>2 DEF x
  <2>4. [x EXCEPT !.call = call, !.intake = intake] \in RunRecords BY <2>1, <2>3 DEF RunRecords
  <2>5. q = [x EXCEPT !.call = call, !.intake = intake] BY DEF x
  <2> QED BY <2>4, <2>5
<1>3. /\ q.source = runs[i].source /\ q.action = runs[i].action /\ q.session = runs[i].session
      /\ q.boot = runs[i].boot /\ q.version = runs[i].version /\ q.governance = runs[i].governance
      /\ q.revision = runs[i].revision /\ q.lapsed = runs[i].lapsed /\ q.gates = runs[i].gates
      /\ q.successor = runs[i].successor /\ q.escalation = runs[i].escalation /\ q.commit = runs[i].commit
      /\ q.prep = prep /\ q.call = call /\ q.intake = intake
  BY <1>1 DEF RunRecords
<1>4. /\ runs' \in Seq(RunRecords) /\ Len(runs') = Len(runs) /\ DOMAIN runs' = DOMAIN runs
      /\ runs'[i] = q /\ \A j \in DOMAIN runs : j # i => runs'[j] = runs[j]
  BY <1>1, <1>2
<1> HIDE DEF q
<1>5. Onward BY OnwardStill
<1>6. RunsShape' BY <1>3, <1>4 DEF Inv, RunsInv, RunsShape
<1>7. ASSUME NEW j \in DOMAIN runs PROVE Ages(j)
  <2>1. runs[j] \in RunRecords BY <1>1
  <2>2. \A g \in Gates : runs[j].gates[g].serial \in Nat BY <2>1 DEF RunRecords, RulingRecords
  <2>3. CASE j = i BY <1>3, <1>4, <2>2, <2>3 DEF Ages
  <2>4. CASE j # i BY <1>4, <2>2, <2>4 DEF Ages
  <2> QED BY <2>3, <2>4
<1>8. Frozen' = IF intake = "consumed" THEN Frozen \cup {i} ELSE Frozen BY <1>3, <1>4 DEF Frozen
<1>9. i \notin Frozen BY DEF Frozen
<1>10. RevisionsInOrder'
  <2>1. CASE intake = "consumed"
    <3>1. \A j \in DOMAIN runs : runs'[j].action = runs[j].action /\ runs'[j].revision = runs[j].revision
      BY <1>3, <1>4
    <3> QED BY <1>8, <1>9, <2>1, <3>1, FreezingKeepsOrder DEF Inv, RunsInv
  <2>2. CASE intake # "consumed" BY <1>7, <1>8, <2>2, RevisionsStay DEF Inv, RunsInv
  <2> QED BY <2>1, <2>2
<1>11. Bindings' /\ Lineage' /\ NextRevision' /\ OneAttempt'
  BY <1>4, <1>5, <1>6, <1>7, <1>10, RestStays DEF Inv
<1>12. Stages'
  <2> SUFFICES ASSUME NEW j \in DOMAIN runs
      PROVE  /\ runs'[j].source # 0 =>
                  runs'[j].prep # "none" /\ (runs'[j].prep = "consumed" <=> runs'[j].call # "none")
             /\ runs'[j].intake # "none" => runs'[j].call = "admitted"
             /\ runs'[j].intake # "consumed" => \A g \in Gates : runs'[j].gates[g].serial = 0
             /\ runs'[j].successor \in {0} \cup (j + 1)..MaxRuns
    BY <1>4 DEF Stages
  <2>1. /\ runs[j].source # 0 => runs[j].prep # "none" /\ (runs[j].prep = "consumed" <=> runs[j].call # "none")
        /\ runs[j].intake # "none" => runs[j].call = "admitted"
        /\ runs[j].intake # "consumed" => \A g \in Gates : runs[j].gates[g].serial = 0
        /\ runs[j].successor \in {0} \cup (j + 1)..MaxRuns
    BY DEF Inv, RunsInv, Stages
  <2>2. CASE j = i BY <1>3, <1>4, <2>1, <2>2
  <2>3. CASE j # i BY <1>4, <2>1, <2>3
  <2> QED BY <2>2, <2>3
<1>13. OneSuccessor'
  <2> SUFFICES ASSUME NEW j \in Frozen', runs'[j].source # 0
      PROVE  /\ (\/ \E g \in Gates : runs'[j].gates[g].verdict = "escalate"
                 \/ runs'[j].gates["verify"].verdict = "allow") => runs'[runs'[j].source].successor = j
             /\ runs'[runs'[j].source].successor # 0 =>
                  \A k \in DOMAIN runs' : runs'[k].source = runs'[j].source => runs'[k].prep # "issued"
    BY DEF OneSuccessor
  <2>1. j \in DOMAIN runs /\ "verify" \in Gates BY <1>4 DEF Frozen, Gates
  <2>2. \A k \in DOMAIN runs : /\ runs'[k].source = runs[k].source /\ runs'[k].successor = runs[k].successor
                               /\ runs'[k].gates = runs[k].gates
                               /\ runs'[k].prep = "issued" => runs[k].prep = "issued"
    BY <1>3, <1>4
  <2>3. runs[j].source # 0 /\ runs[j].source \in Frozen /\ runs[j].source \in DOMAIN runs
    BY <2>1, <2>2 DEF Inv, RunsInv, Lineage, Frozen
  <2>4. CASE j \in Frozen BY <1>4, <2>1, <2>2, <2>3, <2>4 DEF Inv, RunsInv, OneSuccessor
  <2>5. CASE j \notin Frozen
    <3>1. j = i /\ intake = "consumed" BY <1>8, <2>5
    <3>2. runs[runs[i].source].successor = 0 BY <2>3, <3>1 DEF RunCurrent, RevisionCurrent, Continuable
    <3>3. \A g \in Gates : runs[i].gates[g] = NoRuling BY <1>9 DEF Inv, RunsInv, RunsShape, Stages, Frozen
    <3>4. runs'[j].gates = runs[i].gates BY <2>1, <2>2, <3>1
    <3>5. \A g \in Gates : runs'[j].gates[g].verdict = "none" BY <3>3, <3>4 DEF NoRuling
    <3>6. runs'[runs'[j].source].successor = 0 BY <2>1, <2>2, <2>3, <3>1, <3>2
    <3> QED BY <2>1, <3>5, <3>6
  <2> QED BY <2>4, <2>5
<1>14. PreparationsShape' /\ Commits'
  <2>1. PreparationsEbb(preparations, preparations') BY PreparationsEbbThemselves DEF Inv
  <2>2. Frozen \subseteq Frozen' BY <1>8
  <2>3. \A j \in Frozen : runs'[j].commit = runs[j].commit BY <1>3, <1>4 DEF Frozen
  <2> QED BY <2>1, <2>2, <2>3, PreparationsKept DEF Inv
<1>15. LoopsShape' BY DEF Inv, LoopsShape
<1> QED BY <1>5, <1>6, <1>10, <1>11, <1>12, <1>13, <1>14, <1>15 DEF Inv, RunsInv, Onward

LEMMA BeginRevisionCallInv == ASSUME Inv, NEW i \in DOMAIN runs, BeginRevisionCall(i) PROVE Inv'
<1>1. runs[i] \in RunRecords BY RunsOf
<1>2. runs[i].prep = "issued" /\ UNCHANGED <<boot, version, governance, receipts, preparations, loops>>
  BY DEF BeginRevisionCall
<1>3. runs[i].source # 0 /\ runs[i].call = "none" /\ runs[i].intake = "none"
  BY <1>1, <1>2 DEF Inv, RunsInv, Lineage, Stages
<1>4. runs' = [runs EXCEPT ![i] = [runs[i] EXCEPT !.prep = "consumed", !.call = "open", !.intake = "none"]]
  <2>1. [runs[i] EXCEPT !.prep = "consumed", !.call = "open", !.intake = "none"] =
        [runs[i] EXCEPT !.prep = "consumed", !.call = "open"]
    BY <1>1, <1>3 DEF RunRecords
  <2> QED BY <2>1 DEF BeginRevisionCall
<1>5. ASSUME NEW prep, NEW call, NEW intake, prep = "consumed", call = "open", intake = "none"
      PROVE  Inv'
  <2>1. runs' = [runs EXCEPT ![i] = [runs[i] EXCEPT !.prep = prep, !.call = call, !.intake = intake]]
    BY <1>4, <1>5
  <2>2. /\ prep = runs[i].prep \/ (runs[i].prep = "issued" /\ prep = "consumed")
        /\ call \in {runs[i].call, "open", "admitted"}
        /\ intake \in {runs[i].intake, "issued", "consumed", "refused", "invalidated"}
        /\ call = "open" => runs[i].call = "open" \/ runs[i].prep = "issued"
        /\ intake = "issued" => runs[i].intake = "issued" \/ runs[i].call = "open"
        /\ intake = "consumed" => runs[i].intake = "issued" /\ RunCurrent(i) /\ Freezable(i)
        /\ runs[i].source # 0 => (prep = "consumed" <=> call # "none")
        /\ intake # "none" => call = "admitted"
        /\ runs[i].intake # "consumed"
    BY <1>2, <1>3, <1>5
  <2> QED BY <1>2, <2>1, <2>2, ProceedKeeps
<1> QED BY <1>5

LEMMA AdmitAnswerInv == ASSUME Inv, NEW i \in DOMAIN runs, AdmitAnswer(i) PROVE Inv'
<1>1. runs[i] \in RunRecords BY RunsOf
<1>2. runs[i].call = "open" /\ UNCHANGED <<boot, version, governance, receipts, preparations, loops>>
  BY DEF AdmitAnswer
<1>3. runs[i].source # 0 => runs[i].prep = "consumed" BY <1>2 DEF Inv, RunsInv, Stages
<1>4. runs[i].intake = "none" BY <1>2 DEF Inv, RunsInv, Stages
<1>5. runs' = [runs EXCEPT ![i] = [runs[i] EXCEPT !.prep = runs[i].prep, !.call = "admitted", !.intake = "issued"]]
  <2>1. [runs[i] EXCEPT !.prep = runs[i].prep, !.call = "admitted", !.intake = "issued"] =
        [runs[i] EXCEPT !.call = "admitted", !.intake = "issued"]
    BY <1>1 DEF RunRecords
  <2> QED BY <2>1 DEF AdmitAnswer
<1> QED BY <1>2, <1>3, <1>4, <1>5, ProceedKeeps

LEMMA ConsumeIntakeInv ==
    ASSUME Inv, NEW i \in DOMAIN runs, NEW content \in Contents, ConsumeIntake(i, content)
    PROVE  Inv'
<1> DEFINE intake == CASE content = "other" -> "refused"
                       [] content # "other" /\ ~IntakeCurrent(i) -> "invalidated"
                       [] OTHER -> IF content = "draft" THEN "consumed" ELSE "refused"
<1>1. runs[i] \in RunRecords BY RunsOf
<1>2. runs[i].intake = "issued" /\ UNCHANGED <<boot, version, governance, receipts, preparations, loops>>
  BY DEF ConsumeIntake
<1>3. runs[i].call = "admitted" /\ (runs[i].source # 0 => runs[i].prep = "consumed")
  BY <1>2 DEF Inv, RunsInv, Stages
<1>4. /\ intake \in {"refused", "invalidated", "consumed"}
      /\ intake = "consumed" => content = "draft" /\ IntakeCurrent(i)
  OBVIOUS
<1>5. intake = "consumed" => RunCurrent(i) /\ Freezable(i) BY <1>4 DEF ConsumeIntake, IntakeCurrent
<1>6. runs' = [runs EXCEPT ![i] = [runs[i] EXCEPT !.prep = runs[i].prep, !.call = "admitted", !.intake = intake]]
  <2>1. runs' = [runs EXCEPT ![i].intake = intake] BY DEF ConsumeIntake
  <2> HIDE DEF intake
  <2>2. [runs[i] EXCEPT !.prep = runs[i].prep, !.call = "admitted", !.intake = intake] =
        [runs[i] EXCEPT !.intake = intake]
    BY <1>1, <1>3 DEF RunRecords
  <2> QED BY <2>1, <2>2
<1> HIDE DEF intake
<1> QED BY <1>2, <1>3, <1>4, <1>5, <1>6, ProceedKeeps

-----------------------------------------------------------------------------
(***************************************************************************)
(* A run begins.                                                           *)
(***************************************************************************)
\* Whatever is alive stands in the way of another attempt.
LEMMA AliveBlocks ==
    ASSUME Inv, NEW k \in DOMAIN runs, runs[k].source # 0, Alive(k)
    PROVE  runs[k].prep # "none" /\ runs[k].version = version /\ Blocks(k)
<1>1. /\ runs[k].prep # "none" /\ (runs[k].prep = "consumed" <=> runs[k].call # "none")
      /\ runs[k].intake # "none" => runs[k].call = "admitted"
  BY DEF Inv, RunsInv, Stages
<1>2. CASE RevisionCurrent(k) /\ (runs[k].prep = "issued" \/ runs[k].call = "open" \/ runs[k].intake = "issued")
  <2>1. runs[k].prep \in {"issued", "consumed"} /\ "prep" \notin runs[k].lapsed /\ runs[k].version = version
    BY <1>2 DEF RevisionCurrent, FactsCurrent
  <2> QED BY <1>1, <1>2, <2>1 DEF Blocks
<1>3. CASE ProposalCurrent(k) /\ Status(k) = "frozen"
  <2>1. /\ k \in Frozen /\ runs[k].prep = "consumed" /\ runs[k].version = version
        /\ runs[runs[k].source].successor = 0
    BY <1>3 DEF ProposalCurrent, FactsCurrent
  <2>2. runs[k].intake = "consumed" /\ runs[k].call = "admitted" BY <1>1, <2>1 DEF Frozen
  <2>3. \A g \in Gates : \/ runs[k].gates[g] = NoRuling
                         \/ runs[k].gates[g].status = "issued" /\ runs[k].gates[g].verdict = "allow"
    BY <1>3, FrozenStatus
  <2>4. runs[k].gates["verify"].verdict # "allow"
    <3>1. k # 0 BY DEF Inv, RunsInv, RunsShape
    <3> QED BY <2>1, <3>1 DEF Inv, RunsInv, OneSuccessor
  <2> QED BY <2>1, <2>2, <2>3, <2>4 DEF Blocks
<1> QED BY <1>2, <1>3 DEF Alive

LEMMA AppendKeeps ==
    ASSUME Inv, NEW e \in RunRecords, runs' = Append(runs, e), Len(runs) < MaxRuns,
           UNCHANGED <<boot, version, governance, receipts, preparations, loops>>,
           e.intake = "none", e.gates = [g \in Gates |-> NoRuling], e.successor = 0,
           e.boot = boot, e.version = version, e.governance = governance, Receipt(e.session),
           e.source = 0 => e.action = Len(runs) + 1 /\ e.prep = "none",
           e.source # 0 => /\ e.source \in Frozen /\ e.action = runs[e.source].action
                           /\ e.prep = "issued" /\ e.call = "none"
                           /\ runs[e.source].successor = 0
                           /\ \A k \in DOMAIN runs : runs[k].source = e.source => ~Alive(k),
           e.revision <= Cardinality({j \in Frozen : runs[j].action = e.action}) + 1
    PROVE  Inv'
<1> DEFINE n == Len(runs) + 1
<1>1. /\ runs \in Seq(RunRecords) /\ Len(runs) \in Nat /\ DOMAIN runs = 1..Len(runs)
      /\ runs' \in Seq(RunRecords) /\ Len(runs') = n /\ DOMAIN runs' = 1..n
      /\ \A j \in DOMAIN runs : runs'[j] = runs[j]
      /\ runs'[n] = e
  BY RunsOf, AppendFacts
<1>2. Onward BY OnwardStill
<1>3. RunsShape'
  <2>1. Len(runs') <= MaxRuns BY <1>1, ProposalsAssumption
  <2>2. ASSUME NEW i \in DOMAIN runs', NEW g \in Gates
        PROVE  /\ runs'[i].gates[g].serial <= MaxIssues
               /\ runs'[i].gates[g].serial = 0 => runs'[i].gates[g] = NoRuling
    <3>1. CASE i \in DOMAIN runs BY <1>1, <3>1 DEF Inv, RunsInv, RunsShape
    <3>2. CASE i = n
      <4>1. runs'[i].gates[g] = NoRuling BY <1>1, <3>2
      <4> QED BY <4>1, ProposalsAssumption DEF NoRuling
    <3> QED BY <1>1, <3>1, <3>2
  <2> QED BY <1>1, <2>1, <2>2 DEF RunsShape
<1>4. ASSUME NEW j \in DOMAIN runs PROVE Ages(j)
  <2>1. runs[j] \in RunRecords BY <1>1
  <2>2. \A g \in Gates : runs[j].gates[g].serial \in Nat BY <2>1 DEF RunRecords, RulingRecords
  <2> QED BY <1>1, <2>2 DEF Ages
<1>5. Frozen' = Frozen /\ n \notin Frozen BY <1>1 DEF Frozen
<1>6. RevisionsInOrder' BY <1>4, <1>5, RevisionsStay DEF Inv, RunsInv
<1>7. Bindings'
  <2> SUFFICES ASSUME NEW i \in DOMAIN runs'
               PROVE  /\ runs'[i].boot <= boot /\ runs'[i].version <= version
                      /\ runs'[i].governance <= governance /\ receipts[runs'[i].session] # "none"
    BY DEF Bindings
  <2>1. CASE i \in DOMAIN runs BY <1>1, <2>1 DEF Inv, RunsInv, Bindings
  <2>2. CASE i = n BY <1>1, <2>2 DEF Receipt, Inv, CountersShape
  <2> QED BY <1>1, <2>1, <2>2
<1>8. Lineage'
  <2> SUFFICES ASSUME NEW i \in DOMAIN runs'
               PROVE  IF runs'[i].source = 0 THEN runs'[i].action = i /\ runs'[i].prep = "none"
                      ELSE /\ runs'[i].source \in Frozen /\ runs'[i].source < i
                           /\ runs'[i].action = runs'[runs'[i].source].action
                           /\ runs'[i].action \in Frozen
    BY <1>5 DEF Lineage
  <2>1. CASE i \in DOMAIN runs
    <3>1. runs'[i] = runs[i] BY <1>1, <2>1
    <3>2. runs[i].source # 0 => runs[i].source \in DOMAIN runs BY <2>1 DEF Inv, RunsInv, Lineage, Frozen
    <3>3. runs[i].source # 0 => runs'[runs[i].source] = runs[runs[i].source] BY <1>1, <3>2
    <3> QED BY <2>1, <3>1, <3>3 DEF Inv, RunsInv, Lineage
  <2>2. CASE i = n
    <3>1. CASE e.source = 0 BY <1>1, <2>2, <3>1
    <3>2. CASE e.source # 0
      <4>1. e.source \in DOMAIN runs /\ runs'[e.source] = runs[e.source] BY <1>1, <3>2 DEF Frozen
      <4>2. runs[e.source].action \in Frozen
        BY <3>2, <4>1 DEF Inv, RunsInv, Lineage
      <4>3. e.source < n BY <1>1, <4>1
      <4> QED BY <1>1, <2>2, <3>2, <4>1, <4>2, <4>3
    <3> QED BY <3>1, <3>2
  <2>3. i \in DOMAIN runs \/ i = n BY <1>1
  <2> QED BY <2>1, <2>2, <2>3
<1>9. Stages'
  <2> SUFFICES ASSUME NEW j \in DOMAIN runs'
      PROVE  /\ runs'[j].source # 0 =>
                  runs'[j].prep # "none" /\ (runs'[j].prep = "consumed" <=> runs'[j].call # "none")
             /\ runs'[j].intake # "none" => runs'[j].call = "admitted"
             /\ runs'[j].intake # "consumed" => \A g \in Gates : runs'[j].gates[g].serial = 0
             /\ runs'[j].successor \in {0} \cup (j + 1)..MaxRuns
    BY DEF Stages
  <2>1. CASE j \in DOMAIN runs BY <1>1, <2>1 DEF Inv, RunsInv, Stages
  <2>2. CASE j = n BY <1>1, <2>2 DEF NoRuling
  <2>3. j \in DOMAIN runs \/ j = n BY <1>1
  <2> QED BY <2>1, <2>2, <2>3
<1>10. NextRevision'
  <2> SUFFICES ASSUME NEW i \in DOMAIN runs' PROVE runs'[i].revision <= Cardinality(SameAction(i)') + 1
    BY DEF NextRevision
  <2>1. CASE i \in DOMAIN runs
    <3>1. \A j \in Frozen : runs'[j] = runs[j] BY <1>1 DEF Frozen
    <3>2. SameAction(i)' = SameAction(i) BY <1>1, <1>5, <2>1, <3>1 DEF SameAction
    <3>3. runs[i].revision <= Cardinality(SameAction(i)) + 1 BY <2>1 DEF Inv, RunsInv, NextRevision
    <3> QED BY <1>1, <2>1, <3>2, <3>3
  <2>2. CASE i = n
    <3>1. \A j \in Frozen : runs'[j] = runs[j] BY <1>1 DEF Frozen
    <3>2. SameAction(i)' = {j \in Frozen : runs[j].action = e.action} BY <1>1, <1>5, <2>2, <3>1 DEF SameAction
    <3> QED BY <1>1, <2>2, <3>2
  <2> QED BY <1>1, <2>1, <2>2
<1>11. OneAttempt'
  <2> SUFFICES ASSUME NEW j \in DOMAIN runs', NEW k \in DOMAIN runs', runs'[j].source # 0,
                      runs'[j].source = runs'[k].source, Alive(j)', Alive(k)'
               PROVE  j = k
    BY DEF OneAttempt
  <2>1. Len(runs') >= Len(runs) BY <1>1
  <2>2. ASSUME NEW x \in DOMAIN runs, runs'[x].source # 0, Alive(x)' PROVE Alive(x)
    <3>1. runs[x].source # 0 BY <1>1, <2>2
    <3> QED BY <1>2, <1>3, <1>4, <1>6, <2>1, <2>2, <3>1, StillAlive DEF Inv
  <2>3. CASE j \in DOMAIN runs /\ k \in DOMAIN runs
    <3>1. Alive(j) /\ Alive(k) BY <2>2, <2>3
    <3>2. runs[j].source # 0 /\ runs[j].source = runs[k].source BY <1>1, <2>3
    <3> QED BY <2>3, <3>1, <3>2 DEF Inv, RunsInv, OneAttempt
  <2>4. CASE j = n /\ k \in DOMAIN runs
    <3>1. Alive(k) BY <2>2, <2>4
    <3>2. e.source # 0 /\ runs[k].source = e.source BY <1>1, <2>4
    <3> QED BY <2>4, <3>1, <3>2
  <2>5. CASE k = n /\ j \in DOMAIN runs
    <3>1. Alive(j) BY <2>2, <2>5
    <3>2. e.source # 0 /\ runs[j].source = e.source BY <1>1, <2>5
    <3> QED BY <2>5, <3>1, <3>2
  <2> QED BY <1>1, <2>3, <2>4, <2>5
<1>12. OneSuccessor'
  <2> SUFFICES ASSUME NEW j \in Frozen, runs'[j].source # 0
      PROVE  /\ (\/ \E g \in Gates : runs'[j].gates[g].verdict = "escalate"
                 \/ runs'[j].gates["verify"].verdict = "allow") => runs'[runs'[j].source].successor = j
             /\ runs'[runs'[j].source].successor # 0 =>
                  \A k \in DOMAIN runs' : runs'[k].source = runs'[j].source => runs'[k].prep # "issued"
    BY <1>5 DEF OneSuccessor
  <2>1. j \in DOMAIN runs /\ runs'[j] = runs[j] BY <1>1 DEF Frozen
  <2>2. runs[j].source \in DOMAIN runs BY <2>1 DEF Inv, RunsInv, Lineage, Frozen
  <2>3. runs'[runs[j].source] = runs[runs[j].source] BY <1>1, <2>2
  <2>4. /\ (\/ \E g \in Gates : runs[j].gates[g].verdict = "escalate"
            \/ runs[j].gates["verify"].verdict = "allow") => runs[runs[j].source].successor = j
        /\ runs[runs[j].source].successor # 0 =>
             \A k \in DOMAIN runs : runs[k].source = runs[j].source => runs[k].prep # "issued"
    BY <2>1 DEF Inv, RunsInv, OneSuccessor
  <2>5. runs[runs[j].source].successor # 0 => e.source # runs[j].source BY <2>1
  <2>6. \A k \in DOMAIN runs' : k \in DOMAIN runs \/ k = n BY <1>1
  <2> QED BY <1>1, <2>1, <2>3, <2>4, <2>5, <2>6
<1>13. PreparationsShape' /\ Commits'
  <2>1. PreparationsEbb(preparations, preparations') BY PreparationsEbbThemselves DEF Inv
  <2>2. \A j \in Frozen : runs'[j].commit = runs[j].commit BY <1>1 DEF Frozen
  <2> QED BY <1>5, <2>1, <2>2, PreparationsKept DEF Inv
<1>14. LoopsShape' BY DEF Inv, LoopsShape
<1> QED BY <1>2, <1>3, <1>6, <1>7, <1>8, <1>9, <1>10, <1>11, <1>12, <1>13, <1>14 DEF Inv, RunsInv, Onward

LEMMA NewRunIsRecord ==
    ASSUME Inv, NEW s \in Sessions, NEW source \in 0..MaxRuns, NEW action \in 1..MaxRuns,
           NEW prep \in {"none", "issued"}, NEW call \in {"none", "open"}, NEW revision \in 1..MaxRuns
    PROVE  NewRun(s, source, action, prep, call, revision) \in RunRecords
<1>1. boot \in Nat /\ version \in Nat /\ governance \in Nat BY DEF Inv, CountersShape
<1>2. [g \in Gates |-> NoRuling] \in [Gates -> RulingRecords] BY DEF NoRuling, RulingRecords
<1> DEFINE none == [g \in Gates |-> NoRuling]
<1>3. none \in [Gates -> RulingRecords] BY <1>2
<1>4. NewRun(s, source, action, prep, call, revision) =
        [source |-> source, action |-> action, prep |-> prep, call |-> call, intake |-> "none",
         session |-> s, boot |-> boot, version |-> version, governance |-> governance,
         lapsed |-> {}, revision |-> revision, gates |-> none,
         escalation |-> "none", successor |-> 0, commit |-> "none"]
  BY DEF NewRun
<1> HIDE DEF none
<1> QED BY <1>1, <1>3, <1>4, ProposalsAssumption DEF RunRecords

LEMMA PrepareRevisionInv ==
    ASSUME Inv, NEW i \in DOMAIN runs, NEW s \in Sessions, PrepareRevision(i, s)
    PROVE  Inv'
<1> DEFINE e == NewRun(s, i, runs[i].action, "issued", "none", LatestRevision(i) + 1)
<1>1. /\ Len(runs) < MaxRuns /\ Receipt(s) /\ Continuable(i) /\ Replaceable(i) /\ runs' = Append(runs, e)
      /\ UNCHANGED <<boot, version, governance, receipts, preparations, loops>>
  BY DEF PrepareRevision
<1>2. i \in Frozen /\ runs[i].successor = 0 BY <1>1 DEF Continuable
<1>3. LatestRevision(i) = Cardinality(SameAction(i)) /\ Cardinality(SameAction(i)) \in 1..Len(runs)
  BY <1>2, LatestIs DEF Inv, RunsInv
<1>4. MaxRuns \in Nat /\ Len(runs) \in Nat /\ i \in 1..MaxRuns /\ i # 0 BY ProposalsAssumption DEF Inv, RunsInv, RunsShape
<1>5. LatestRevision(i) + 1 \in 1..MaxRuns BY <1>1, <1>3, <1>4
<1>6. runs[i].action \in 1..MaxRuns
  <2>1. runs[i] \in RunRecords BY RunsOf
  <2> QED BY <2>1 DEF RunRecords
<1>7. e \in RunRecords BY <1>4, <1>5, <1>6, NewRunIsRecord
<1>8. \A k \in DOMAIN runs : runs[k].source = i => ~Alive(k)
  <2>1. ASSUME NEW k \in DOMAIN runs, runs[k].source = i, Alive(k) PROVE FALSE
    <3>1. runs[k].prep # "none" /\ runs[k].version = version /\ Blocks(k) BY <1>4, <2>1, AliveBlocks
    <3>2. k \in Attempts(i) BY <2>1, <3>1 DEF Attempts
    <3> QED BY <1>1, <3>1, <3>2 DEF Replaceable
  <2> QED BY <2>1
<1>9. e.revision <= Cardinality({j \in Frozen : runs[j].action = e.action}) + 1
  <2>1. e.revision = LatestRevision(i) + 1 /\ e.action = runs[i].action BY DEF NewRun
  <2>2. SameAction(i) = {j \in Frozen : runs[j].action = runs[i].action} BY DEF SameAction
  <2> HIDE DEF e
  <2> QED BY <1>3, <2>1, <2>2
<1>10. /\ e.intake = "none" /\ e.gates = [g \in Gates |-> NoRuling] /\ e.successor = 0
       /\ e.boot = boot /\ e.version = version /\ e.governance = governance /\ e.session = s
       /\ e.source = i /\ e.action = runs[i].action /\ e.prep = "issued" /\ e.call = "none"
  BY DEF NewRun
<1> HIDE DEF e
<1> QED BY <1>1, <1>2, <1>4, <1>7, <1>8, <1>9, <1>10, AppendKeeps

LEMMA BeginCallInv == ASSUME Inv, NEW s \in Sessions, BeginCall(s) PROVE Inv'
<1> DEFINE e == NewRun(s, 0, Len(runs) + 1, "none", "open", 1)
<1>1. /\ Len(runs) < MaxRuns /\ Receipt(s) /\ runs' = Append(runs, e)
      /\ UNCHANGED <<boot, version, governance, receipts, preparations, loops>>
  BY DEF BeginCall
<1>2. MaxRuns \in Nat /\ Len(runs) \in Nat BY ProposalsAssumption DEF Inv, RunsInv, RunsShape
<1>3. e \in RunRecords BY <1>1, <1>2, NewRunIsRecord
<1>4. /\ e.intake = "none" /\ e.gates = [g \in Gates |-> NoRuling] /\ e.successor = 0
      /\ e.boot = boot /\ e.version = version /\ e.governance = governance /\ e.session = s
      /\ e.source = 0 /\ e.action = Len(runs) + 1 /\ e.prep = "none" /\ e.revision = 1
  BY DEF NewRun
<1>5. e.revision <= Cardinality({j \in Frozen : runs[j].action = e.action}) + 1
  <2>1. {j \in Frozen : runs[j].action = e.action} \subseteq 1..Len(runs) BY DEF Frozen, Inv, RunsInv, RunsShape
  <2>2. Cardinality({j \in Frozen : runs[j].action = e.action}) \in Nat BY <1>2, <2>1, PartsAreCounted
  <2> HIDE DEF e
  <2> QED BY <1>4, <2>2
<1> HIDE DEF e
<1> QED BY <1>1, <1>3, <1>4, <1>5, AppendKeeps

-----------------------------------------------------------------------------
(***************************************************************************)
(* A gate rules.                                                           *)
(***************************************************************************)
\* What a ruling v of gate g on run i, a fresh one or an issued one returned, may make of run j.
Ruled(i, g, v, fresh, j, q) ==
    LET r == runs[j]
    IN  /\ q \in RunRecords
        /\ q.source = r.source /\ q.action = r.action /\ q.session = r.session
        /\ q.boot = r.boot /\ q.version = r.version /\ q.governance = r.governance
        /\ q.revision = r.revision
        /\ "prep" \in r.lapsed => "prep" \in q.lapsed
        /\ Over(r.prep, q.prep) /\ Over(r.intake, q.intake)
        /\ q.call = r.call \/ (r.call = "open" /\ q.call = "failed")
        /\ q.commit = r.commit \/ r.commit = "none"
        /\ q.escalation = IF j = i /\ fresh /\ v = "escalate" THEN "open" ELSE r.escalation
        /\ \A h \in Gates :
             IF j = i /\ h = g /\ fresh
             THEN q.gates[h].serial = r.gates[h].serial + 1 /\ q.gates[h].verdict = v
             ELSE /\ q.gates[h].serial = r.gates[h].serial /\ q.gates[h].verdict = r.gates[h].verdict
                  /\ Over(r.gates[h].status, q.gates[h].status)

AllRuled(i, g, v, fresh, rs) ==
    rs \in Seq(RunRecords) /\ Len(rs) = Len(runs) /\ \A j \in DOMAIN runs : Ruled(i, g, v, fresh, j, rs[j])

LEMMA RuledOn ==
    ASSUME NEW i, NEW g, NEW v, NEW fresh, NEW j, NEW q, NEW p,
           Ruled(i, g, v, fresh, j, q), Ebbs(q, p), p.escalation = q.escalation
    PROVE  Ruled(i, g, v, fresh, j, p)
<1>1. Over(runs[j].prep, p.prep) /\ Over(runs[j].intake, p.intake) BY DEF Ruled, Ebbs, Over
<1>2. p.call = runs[j].call \/ (runs[j].call = "open" /\ p.call = "failed") BY DEF Ruled, Ebbs
<1>3. "prep" \in runs[j].lapsed => "prep" \in p.lapsed BY DEF Ruled, Ebbs
<1>4. p.commit = runs[j].commit \/ runs[j].commit = "none" BY DEF Ruled, Ebbs
<1>5. \A h \in Gates :
        IF j = i /\ h = g /\ fresh
        THEN p.gates[h].serial = runs[j].gates[h].serial + 1 /\ p.gates[h].verdict = v
        ELSE /\ p.gates[h].serial = runs[j].gates[h].serial /\ p.gates[h].verdict = runs[j].gates[h].verdict
             /\ Over(runs[j].gates[h].status, p.gates[h].status)
  BY DEF Ruled, Ebbs, Over
<1> QED BY <1>1, <1>2, <1>3, <1>4, <1>5 DEF Ruled, Ebbs

LEMMA EbbsRuled ==
    ASSUME NEW i, NEW g, NEW v, NEW fresh, NEW j, NEW q, Ebbs(runs[j], q), q.escalation = runs[j].escalation,
           j # i \/ fresh = FALSE
    PROVE  Ruled(i, g, v, fresh, j, q)
BY DEF Ruled, Ebbs

LEMMA RuledKeepsRuns ==
    ASSUME Inv, Onward, NEW i \in Frozen, ProposalCurrent(i), NEW g \in Gates, NEW v \in Verdicts, NEW fresh \in BOOLEAN,
           IF fresh THEN runs[i].gates[g].serial < MaxIssues ELSE v = runs[i].gates[g].verdict,
           AllRuled(i, g, v, fresh, runs'),
           \A j \in DOMAIN runs :
               runs'[j].successor = IF Claims(i, g, v) /\ j = runs[i].source THEN i ELSE runs[j].successor,
           Claims(i, g, v) => \A k \in DOMAIN runs : runs[k].source = runs[i].source => runs'[k].prep # "issued"
    PROVE  RunsInv'
<1>0. runs' \in Seq(RunRecords) /\ Len(runs') = Len(runs) /\ \A j \in DOMAIN runs : Ruled(i, g, v, fresh, j, runs'[j])
  BY DEF AllRuled
<1>1. /\ DOMAIN runs' = DOMAIN runs /\ DOMAIN runs = 1..Len(runs) /\ Len(runs) \in Nat /\ Len(runs) <= MaxRuns
      /\ MaxRuns \in Nat /\ MaxIssues \in Nat
      /\ \A j \in DOMAIN runs : runs[j] \in RunRecords /\ runs'[j] \in RunRecords
  BY <1>0, ProposalsAssumption DEF Inv, RunsInv, RunsShape
<1>2. i \in DOMAIN runs /\ i # 0 /\ (runs[i].source # 0 => runs[i].source \in DOMAIN runs /\ runs[i].source < i)
  BY <1>1 DEF Frozen, Inv, RunsInv, Lineage
<1>3. ASSUME NEW j \in DOMAIN runs, NEW h \in Gates
      PROVE  /\ runs[j].gates[h] \in RulingRecords /\ runs'[j].gates[h] \in RulingRecords
             /\ runs[j].gates[h].serial = 0 => runs[j].gates[h] = NoRuling
             /\ runs[j].gates[h].serial <= MaxIssues
  <2>1. runs[j] \in RunRecords /\ runs'[j] \in RunRecords BY <1>1
  <2>2. runs[j].gates[h] \in RulingRecords /\ runs'[j].gates[h] \in RulingRecords BY <2>1 DEF RunRecords
  <2>3. /\ runs[j].gates[h].serial = 0 => runs[j].gates[h] = NoRuling
        /\ runs[j].gates[h].serial <= MaxIssues
    BY DEF Inv, RunsInv, RunsShape
  <2> QED BY <2>2, <2>3
<1>4. RunsShape'
  <2>1. ASSUME NEW j \in DOMAIN runs, NEW h \in Gates
        PROVE  /\ runs'[j].gates[h].serial <= MaxIssues
               /\ runs'[j].gates[h].serial = 0 => runs'[j].gates[h] = NoRuling
    <3>1. Ruled(i, g, v, fresh, j, runs'[j]) BY <1>0
    <3>2. CASE j = i /\ h = g /\ fresh BY <1>1, <1>3, <3>1, <3>2 DEF Ruled, RulingRecords
    <3>3. CASE ~(j = i /\ h = g /\ fresh) BY <1>3, <3>1, <3>3 DEF Ruled, RulingRecords, Over, NoRuling
    <3> QED BY <3>2, <3>3
  <2> QED BY <1>0, <1>1, <2>1 DEF RunsShape
<1>5. ASSUME NEW j \in DOMAIN runs PROVE Ages(j)
  <2>1. Ruled(i, g, v, fresh, j, runs'[j]) BY <1>0
  <2>2. ASSUME NEW h \in Gates
        PROVE  /\ runs'[j].gates[h] = NoRuling => runs[j].gates[h] = NoRuling
               /\ runs'[j].gates[h].serial >= runs[j].gates[h].serial
               /\ runs'[j].gates[h].serial <= 1 /\ runs'[j].gates[h].status = "issued" =>
                    runs[j].gates[h] \in {NoRuling, runs'[j].gates[h]}
    <3>1. CASE j = i /\ h = g /\ fresh
      <4>1. runs'[j].gates[h].serial = runs[j].gates[h].serial + 1 BY <2>1, <3>1 DEF Ruled
      <4>2. runs[j].gates[h].serial \in Nat BY <1>3 DEF RulingRecords
      <4> QED BY <1>3, <4>1, <4>2 DEF NoRuling
    <3>2. CASE ~(j = i /\ h = g /\ fresh)
      BY <1>3, <2>1, <3>2 DEF Ruled, RulingRecords, Over, NoRuling
    <3> QED BY <3>1, <3>2
  <2>3. runs'[j].escalation = "answered" =>
          /\ runs[j].escalation = "answered"
          /\ runs'[j].gates["verify"].verdict = "escalate" => runs[j].gates["verify"].verdict = "escalate"
    <3>1. "verify" \in Gates BY DEF Gates
    <3> QED BY <2>1, <3>1 DEF Ruled
  <2>4. runs[j].successor # 0 => runs'[j].successor # 0 BY <1>2
  <2> QED BY <2>1, <2>2, <2>3, <2>4 DEF Ages, Ruled, Over
<1>6. Frozen' = Frozen
  <2>1. \A j \in DOMAIN runs : runs'[j].intake = "consumed" <=> runs[j].intake = "consumed" BY <1>0 DEF Ruled, Over
  <2> QED BY <1>1, <2>1 DEF Frozen
<1>7. RevisionsInOrder' BY <1>5, <1>6, RevisionsStay DEF Inv, RunsInv
<1>8. Bindings' /\ Lineage' /\ NextRevision' /\ OneAttempt' BY <1>0, <1>4, <1>5, <1>7, RestStays DEF Inv
<1>9. Stages'
  <2> SUFFICES ASSUME NEW j \in DOMAIN runs
      PROVE  /\ runs'[j].source # 0 =>
                  runs'[j].prep # "none" /\ (runs'[j].prep = "consumed" <=> runs'[j].call # "none")
             /\ runs'[j].intake # "none" => runs'[j].call = "admitted"
             /\ runs'[j].intake # "consumed" => \A h \in Gates : runs'[j].gates[h].serial = 0
             /\ runs'[j].successor \in {0} \cup (j + 1)..MaxRuns
    BY <1>1 DEF Stages
  <2>1. Ruled(i, g, v, fresh, j, runs'[j]) BY <1>0
  <2>2. /\ runs[j].source # 0 => runs[j].prep # "none" /\ (runs[j].prep = "consumed" <=> runs[j].call # "none")
        /\ runs[j].intake # "none" => runs[j].call = "admitted"
        /\ runs[j].intake # "consumed" => \A h \in Gates : runs[j].gates[h].serial = 0
        /\ runs[j].successor \in {0} \cup (j + 1)..MaxRuns
    BY DEF Inv, RunsInv, Stages
  <2>3. runs'[j].intake # "consumed" => \A h \in Gates : runs'[j].gates[h].serial = 0
    <3>1. CASE j = i BY <1>6, <3>1 DEF Frozen
    <3>2. CASE j # i BY <2>1, <2>2, <3>2 DEF Ruled, Over
    <3> QED BY <3>1, <3>2
  <2>4. runs'[j].successor \in {0} \cup (j + 1)..MaxRuns
    <3>1. CASE Claims(i, g, v) /\ j = runs[i].source
      <4>1. runs'[j].successor = i /\ j < i /\ i <= MaxRuns /\ i \in Nat /\ j \in Nat BY <1>1, <1>2, <3>1 DEF Claims
      <4> QED BY <1>1, <4>1
    <3>2. CASE ~(Claims(i, g, v) /\ j = runs[i].source) BY <2>2, <3>2
    <3> QED BY <3>1, <3>2
  <2> QED BY <2>1, <2>2, <2>3, <2>4 DEF Ruled, Over
<1>10. OneSuccessor'
  <2> SUFFICES ASSUME NEW j \in Frozen, runs[j].source # 0
      PROVE  /\ (\/ \E h \in Gates : runs'[j].gates[h].verdict = "escalate"
                 \/ runs'[j].gates["verify"].verdict = "allow") => runs'[runs[j].source].successor = j
             /\ runs'[runs[j].source].successor # 0 =>
                  \A k \in DOMAIN runs : runs'[k].source = runs[j].source => runs'[k].prep # "issued"
    BY <1>0, <1>1, <1>6 DEF OneSuccessor, Ruled, Frozen
  <2>1. j \in DOMAIN runs /\ runs[j].source \in DOMAIN runs /\ "verify" \in Gates
    BY DEF Inv, RunsInv, Lineage, Frozen, Gates
  <2>2. Ruled(i, g, v, fresh, j, runs'[j]) BY <1>0, <2>1
  <2>3. \A k \in DOMAIN runs : runs'[k].source = runs[k].source /\ (runs'[k].prep = "issued" => runs[k].prep = "issued")
    BY <1>0 DEF Ruled, Over
  <2>4. /\ (\/ \E h \in Gates : runs[j].gates[h].verdict = "escalate"
            \/ runs[j].gates["verify"].verdict = "allow") => runs[runs[j].source].successor = j
        /\ runs[runs[j].source].successor # 0 =>
             \A k \in DOMAIN runs : runs[k].source = runs[j].source => runs[k].prep # "issued"
    BY DEF Inv, RunsInv, OneSuccessor
  <2>5. runs[i].source # 0 => runs[runs[i].source].successor = 0 BY DEF ProposalCurrent
  <2>6. j # 0 BY <1>1, <2>1
  <2>7. CASE Claims(i, g, v) /\ runs[j].source = runs[i].source
    <3>1. runs'[runs[j].source].successor = i BY <2>1, <2>7
    <3>2. runs[runs[j].source].successor = 0 BY <2>5, <2>7 DEF Claims
    <3>3. j # i => /\ \A h \in Gates : runs'[j].gates[h].verdict # "escalate"
                   /\ runs'[j].gates["verify"].verdict # "allow"
      BY <2>1, <2>2, <2>4, <2>6, <3>2 DEF Ruled
    <3>4. \A k \in DOMAIN runs : runs'[k].source = runs[j].source => runs'[k].prep # "issued" BY <2>3, <2>7
    <3> QED BY <3>1, <3>3, <3>4
  <2>8. CASE ~(Claims(i, g, v) /\ runs[j].source = runs[i].source)
    <3>1. runs'[runs[j].source].successor = runs[runs[j].source].successor BY <2>1, <2>8
    <3>2. (\/ \E h \in Gates : runs'[j].gates[h].verdict = "escalate"
           \/ runs'[j].gates["verify"].verdict = "allow") =>
          (\/ \E h \in Gates : runs[j].gates[h].verdict = "escalate"
           \/ runs[j].gates["verify"].verdict = "allow")
      <4>1. CASE j # i \/ ~fresh BY <2>1, <2>2, <4>1 DEF Ruled
      <4>2. CASE j = i /\ fresh
        <5>1. v # "escalate" /\ ~(g = "verify" /\ v = "allow") BY <2>8, <4>2 DEF Claims
        <5> QED BY <2>1, <2>2, <4>2, <5>1 DEF Ruled
      <4> QED BY <4>1, <4>2
    <3> QED BY <2>3, <2>4, <3>1, <3>2
  <2> QED BY <2>7, <2>8
<1> QED BY <1>4, <1>7, <1>8, <1>9, <1>10 DEF RunsInv

LEMMA IssueRulingRules ==
    ASSUME Inv, NEW i \in DOMAIN runs, NEW g \in Gates, NEW v \in Verdicts
    PROVE  /\ AllRuled(i, g, v, TRUE, IssueRuling(i, g, v))
           /\ \A j \in DOMAIN runs : IssueRuling(i, g, v)[j].successor = runs[j].successor
<1> DEFINE rs == IssueRuling(i, g, v)
           new == [serial |-> runs[i].gates[g].serial + 1, verdict |-> v, status |-> "issued"]
           q == [runs[i] EXCEPT !.gates[g] = [serial |-> @.serial + 1, verdict |-> v, status |-> "issued"],
                                !.escalation = IF v = "escalate" THEN "open" ELSE @,
                                !.lapsed = @ \ {g}]
<1>1. runs \in Seq(RunRecords) /\ \A j \in DOMAIN runs : runs[j] \in RunRecords BY RunsOf
<1>2. Ruled(i, g, v, TRUE, i, q) /\ q.successor = runs[i].successor
  <2>1. runs[i] \in RunRecords /\ runs[i].gates \in [Gates -> RulingRecords] BY <1>1 DEF RunRecords
  <2>2. runs[i].gates[g] \in RulingRecords /\ new \in RulingRecords BY <2>1 DEF RulingRecords
  <2> DEFINE G == [runs[i].gates EXCEPT ![g] = new]
             E == IF v = "escalate" THEN "open" ELSE runs[i].escalation
             L == runs[i].lapsed \ {g}
  <2>3. q = [runs[i] EXCEPT !.gates = G, !.escalation = E, !.lapsed = L] BY <2>1 DEF RunRecords
  <2>4. /\ G \in [Gates -> RulingRecords]
        /\ G[g].serial = runs[i].gates[g].serial + 1 /\ G[g].verdict = v
        /\ \A h \in Gates : h # g => G[h] = runs[i].gates[h]
    BY <2>1, <2>2
  <2>5. /\ E \in {"none", "open", "answered", "closed"} /\ L \in SUBSET ({"prep", "call", "intake"} \cup Gates)
        /\ "prep" \in runs[i].lapsed => "prep" \in L
    BY <2>1 DEF RunRecords, Gates
  <2>6. E = IF v = "escalate" THEN "open" ELSE runs[i].escalation OBVIOUS
  <2> HIDE DEF G, E, L, q
  <2>7. q \in RunRecords BY <2>1, <2>3, <2>4, <2>5 DEF RunRecords
  <2>8. /\ q.gates = G /\ q.escalation = E /\ q.lapsed = L /\ q.source = runs[i].source
        /\ q.action = runs[i].action /\ q.session = runs[i].session /\ q.boot = runs[i].boot
        /\ q.version = runs[i].version /\ q.governance = runs[i].governance /\ q.revision = runs[i].revision
        /\ q.prep = runs[i].prep /\ q.intake = runs[i].intake /\ q.call = runs[i].call
        /\ q.commit = runs[i].commit /\ q.successor = runs[i].successor
    BY <2>1, <2>3 DEF RunRecords
  <2> QED BY <2>4, <2>5, <2>6, <2>7, <2>8 DEF Ruled, Over
<1>3. rs = [j \in DOMAIN runs |-> rs[j]] BY DEF IssueRuling
<1>4. ASSUME NEW j \in DOMAIN runs PROVE Ruled(i, g, v, TRUE, j, rs[j]) /\ rs[j].successor = runs[j].successor
  <2>1. CASE j = i
    <3>1. rs[i] = q BY DEF IssueRuling
    <3> QED BY <1>2, <2>1, <3>1
  <2>2. CASE j # i /\ j \in SameAction(i)
    <3>1. rs[j] = EndRulings(runs[j], "invalidated", Gates) BY <2>2 DEF IssueRuling
    <3>2. Ebbs(runs[j], EndRulings(runs[j], "invalidated", Gates)) BY <1>1, EndRulingsEbbs
    <3>3. runs[j] \in RunRecords BY <1>1
    <3>4. EndRulings(runs[j], "invalidated", Gates).escalation = runs[j].escalation
      BY <3>3 DEF EndRulings, RunRecords
    <3>5. Ruled(i, g, v, TRUE, j, rs[j]) BY <2>2, <3>1, <3>2, <3>4, EbbsRuled
    <3> QED BY <3>1, <3>2, <3>5 DEF Ebbs
  <2>3. CASE j # i /\ j \notin SameAction(i)
    <3>1. rs[j] = runs[j] BY <2>3 DEF IssueRuling
    <3>2. Ebbs(runs[j], runs[j]) BY <1>1, EbbsItself
    <3>3. Ruled(i, g, v, TRUE, j, rs[j]) BY <2>3, <3>1, <3>2, EbbsRuled
    <3> QED BY <3>1, <3>3
  <2> QED BY <2>1, <2>2, <2>3
<1>5. DOMAIN runs = 1..Len(runs) /\ Len(runs) \in Nat BY <1>1
<1> HIDE DEF rs
<1>6. \A j \in 1..Len(runs) : rs[j] \in RunRecords BY <1>4, <1>5 DEF Ruled
<1>7. rs = [j \in 1..Len(runs) |-> rs[j]] BY <1>3, <1>5
<1>8. rs \in Seq(RunRecords) /\ Len(rs) = Len(runs) BY <1>5, <1>6, <1>7, SeqFromFunction
<1> QED BY <1>4, <1>8 DEF rs, AllRuled

\* Run i has become the successor, and no attempt beside it is issued.
Linked(i, rs) ==
    \A j \in DOMAIN runs : /\ rs[j].successor = IF j = runs[i].source THEN i ELSE runs[j].successor
                           /\ runs[j].source = runs[i].source => rs[j].prep # "issued"

LEMMA ClaimRules ==
    ASSUME Inv, NEW i \in DOMAIN runs, runs[i].source # 0, NEW g, NEW v, NEW fresh, NEW rs,
           AllRuled(i, g, v, fresh, rs), \A j \in DOMAIN runs : rs[j].successor = runs[j].successor
    PROVE  AllRuled(i, g, v, fresh, Claim(rs, i)) /\ Linked(i, Claim(rs, i))
<1> DEFINE ms == Claim(rs, i)
<1>1. /\ DOMAIN rs = DOMAIN runs /\ DOMAIN runs = 1..Len(runs) /\ Len(runs) \in Nat /\ Len(runs) <= MaxRuns
      /\ MaxRuns \in Nat /\ \A j \in DOMAIN runs : rs[j] \in RunRecords /\ rs[j].source = runs[j].source
  BY ProposalsAssumption DEF Inv, RunsInv, RunsShape, Ruled, AllRuled
<1>2. ms = [j \in DOMAIN runs |-> ms[j]] BY <1>1 DEF Claim
<1>3. ASSUME NEW j \in DOMAIN runs
      PROVE  /\ Ruled(i, g, v, fresh, j, ms[j])
             /\ ms[j].successor = IF j = runs[i].source THEN i ELSE runs[j].successor
             /\ runs[j].source = runs[i].source => ms[j].prep # "issued"
  <2>1. rs[j] \in RunRecords /\ Ruled(i, g, v, fresh, j, rs[j]) /\ rs[j].successor = runs[j].successor
    BY <1>1 DEF AllRuled
  <2>2. CASE j = runs[i].source
    <3>1. ms[j] = [rs[j] EXCEPT !.successor = i] BY <1>1, <2>2 DEF Claim
    <3>2. runs[j].source # j
      <4>1. runs[j].source = 0 \/ runs[j].source < j BY DEF Inv, RunsInv, Lineage
      <4> QED BY <1>1, <4>1
    <3>3. i \in 0..MaxRuns BY <1>1
    <3>4. [rs[j] EXCEPT !.successor = i] \in RunRecords BY <2>1, <3>3 DEF RunRecords
    <3>5. Ruled(i, g, v, fresh, j, [rs[j] EXCEPT !.successor = i])
      <4> DEFINE m == [rs[j] EXCEPT !.successor = i]
      <4>1. /\ m.source = rs[j].source /\ m.action = rs[j].action /\ m.session = rs[j].session /\ m.boot = rs[j].boot
            /\ m.version = rs[j].version /\ m.governance = rs[j].governance /\ m.revision = rs[j].revision
            /\ m.lapsed = rs[j].lapsed /\ m.prep = rs[j].prep /\ m.intake = rs[j].intake /\ m.call = rs[j].call
            /\ m.commit = rs[j].commit /\ m.escalation = rs[j].escalation /\ m.gates = rs[j].gates
        BY <2>1 DEF RunRecords
      <4>2. Ruled(i, g, v, fresh, j, rs[j]) BY <2>1
      <4> HIDE DEF m
      <4>3. m \in RunRecords BY <3>4 DEF m
      <4>4. Ruled(i, g, v, fresh, j, m) BY <4>1, <4>2, <4>3 DEF Ruled
      <4> QED BY <4>4 DEF m
    <3>6. [rs[j] EXCEPT !.successor = i].successor = i BY <2>1 DEF RunRecords
    <3> QED BY <2>2, <3>1, <3>2, <3>5, <3>6
  <2>3. CASE j # runs[i].source /\ rs[j].source = rs[i].source
    <3>1. ms[j] = [rs[j] EXCEPT !.prep = End(@, "invalidated")] BY <1>1, <2>3 DEF Claim
    <3>2. ms[j] = [rs[j] EXCEPT !.prep = End(rs[j].prep, "invalidated")] BY <2>1, <3>1 DEF RunRecords
    <3>3. Ebbs(rs[j], ms[j]) BY <2>1, <3>2, PrepEbbs, EndIsOver
    <3>4. ms[j].escalation = rs[j].escalation /\ ms[j].prep = End(rs[j].prep, "invalidated")
      BY <2>1, <3>2 DEF RunRecords
    <3>5. Ruled(i, g, v, fresh, j, ms[j]) BY <2>1, <3>3, <3>4, RuledOn
    <3> QED BY <2>1, <2>3, <3>3, <3>4, <3>5 DEF Ebbs, End
  <2>4. CASE j # runs[i].source /\ rs[j].source # rs[i].source
    <3>1. ms[j] = rs[j] BY <1>1, <2>4 DEF Claim
    <3> QED BY <1>1, <2>1, <2>4, <3>1
  <2> QED BY <2>2, <2>3, <2>4
<1> HIDE DEF ms
<1>4. \A j \in 1..Len(runs) : ms[j] \in RunRecords BY <1>1, <1>3 DEF Ruled
<1>5. ms = [j \in 1..Len(runs) |-> ms[j]] BY <1>1, <1>2
<1>6. ms \in Seq(RunRecords) /\ Len(ms) = Len(runs) BY <1>1, <1>4, <1>5, SeqFromFunction
<1> QED BY <1>3, <1>6 DEF ms, AllRuled, Linked

LEMMA RuleGateInv ==
    ASSUME Inv, NEW c \in Callers, NEW v \in Verdicts, NEW narrows \in BOOLEAN, RuleGate(c, v, narrows)
    PROVE  Inv'
<1>0. PICK i, g : i = loops[c].run /\ g = loops[c].gate BY Zenon
<1> DEFINE issued == runs[i].gates[g].status = "issued"
           ruled == IF issued THEN runs ELSE IssueRuling(i, g, v)
           claimed == IF Claims(i, g, v) THEN Claim(ruled, i) ELSE ruled
           fresh == ~issued
<1>1. /\ loops[c].stage = "rule" /\ ProposalCurrent(i)
      /\ issued => v = runs[i].gates[g].verdict
      /\ ~issued => runs[i].gates[g].serial < MaxIssues
      /\ narrows => MayChange
      /\ runs' = IF narrows THEN EndAll(claimed) ELSE claimed
      /\ governance' = IF narrows THEN governance + 1 ELSE governance
      /\ loops' = [loops EXCEPT ![c].stage = "look"]
      /\ UNCHANGED <<boot, version, receipts, preparations>>
  BY <1>0 DEF RuleGate
<1>2. i \in Frozen /\ i \in DOMAIN runs /\ g \in Gates
  BY <1>0, <1>1 DEF ProposalCurrent, Frozen, Inv, LoopsShape
<1>3. Onward
  <2>1. CASE narrows BY <1>1, <2>1, OnwardChanged
  <2>2. CASE ~narrows BY <1>1, <2>2, OnwardStill
  <2> QED BY <2>1, <2>2
<1>4. AllRuled(i, g, v, fresh, ruled) /\ \A j \in DOMAIN runs : ruled[j].successor = runs[j].successor
  <2>1. CASE issued
    <3>1. ruled = runs /\ fresh = FALSE BY <2>1
    <3> HIDE DEF ruled, fresh
    <3>2. \A j \in DOMAIN runs : Ruled(i, g, v, fresh, j, runs[j]) BY <3>1, RunsOf, EbbsItself, EbbsRuled
    <3> QED BY <3>1, <3>2, RunsOf DEF AllRuled
  <2>2. CASE ~issued
    <3>1. ruled = IssueRuling(i, g, v) /\ fresh = TRUE BY <2>2
    <3> HIDE DEF ruled, fresh, issued
    <3> QED BY <1>2, <3>1, IssueRulingRules
  <2> QED BY <2>1, <2>2
<1> HIDE DEF ruled
<1>5. /\ AllRuled(i, g, v, fresh, claimed)
      /\ \A j \in DOMAIN runs :
           /\ claimed[j].successor = IF Claims(i, g, v) /\ j = runs[i].source THEN i ELSE runs[j].successor
           /\ Claims(i, g, v) /\ runs[j].source = runs[i].source => claimed[j].prep # "issued"
  <2>1. CASE Claims(i, g, v)
    <3>1. claimed = Claim(ruled, i) /\ runs[i].source # 0 BY <2>1 DEF Claims
    <3> HIDE DEF claimed, fresh
    <3>2. AllRuled(i, g, v, fresh, ruled) BY <1>4
    <3>3. \A j \in DOMAIN runs : ruled[j].successor = runs[j].successor BY <1>4
    <3>4. AllRuled(i, g, v, fresh, Claim(ruled, i)) BY <1>2, <3>1, <3>2, <3>3, ClaimRules
    <3>5. Linked(i, Claim(ruled, i)) BY <1>2, <3>1, <3>2, <3>3, ClaimRules
    <3> QED BY <2>1, <3>1, <3>4, <3>5 DEF Linked
  <2>2. CASE ~Claims(i, g, v)
    <3>1. claimed = ruled BY <2>2
    <3> HIDE DEF claimed, fresh
    <3> QED BY <1>4, <2>2, <3>1
  <2> QED BY <2>1, <2>2
<1> HIDE DEF claimed
<1>6. claimed \in Seq(RunRecords) /\ Len(claimed) = Len(runs) /\ DOMAIN claimed = DOMAIN runs
  BY <1>5, RunsOf DEF AllRuled
<1>7. AllEbb(claimed, runs') /\ \A j \in DOMAIN runs : runs'[j].escalation = claimed[j].escalation
  <2>1. CASE narrows BY <1>1, <1>6, <2>1, EndAllEbbs, EndingAnswersNothing
  <2>2. CASE ~narrows
    <3>1. runs' = claimed BY <1>1, <2>2
    <3> QED BY <1>6, <3>1, EbbsItself DEF AllEbb
  <2> QED BY <2>1, <2>2
<1>8. /\ runs' \in Seq(RunRecords) /\ Len(runs') = Len(runs)
      /\ \A j \in DOMAIN runs : Ebbs(claimed[j], runs'[j])
  BY <1>6, <1>7 DEF AllEbb
<1>9. AllRuled(i, g, v, fresh, runs')
  <2>1. \A j \in DOMAIN runs : Ruled(i, g, v, fresh, j, claimed[j]) BY <1>5 DEF AllRuled
  <2>2. \A j \in DOMAIN runs : Ruled(i, g, v, fresh, j, runs'[j]) BY <1>7, <1>8, <2>1, RuledOn
  <2> QED BY <1>8, <2>2 DEF AllRuled
<1>10. /\ \A j \in DOMAIN runs :
            runs'[j].successor = IF Claims(i, g, v) /\ j = runs[i].source THEN i ELSE runs[j].successor
       /\ Claims(i, g, v) => \A k \in DOMAIN runs : runs[k].source = runs[i].source => runs'[k].prep # "issued"
  BY <1>5, <1>8 DEF Ebbs, Over
<1>11. /\ IF fresh THEN runs[i].gates[g].serial < MaxIssues ELSE v = runs[i].gates[g].verdict
       /\ fresh \in BOOLEAN
  BY <1>1
<1> HIDE DEF fresh
<1>12. RunsInv' BY <1>1, <1>2, <1>3, <1>9, <1>10, <1>11, RuledKeepsRuns
<1>13. PreparationsShape' /\ Commits'
  <2>1. PreparationsEbb(preparations, preparations') BY <1>1, PreparationsEbbThemselves DEF Inv
  <2>2. DOMAIN runs' = DOMAIN runs BY <1>8, RunsOf
  <2>3. Frozen \subseteq Frozen' BY <1>9, <2>2 DEF Frozen, AllRuled, Ruled, Over
  <2>4. \A j \in Frozen : runs'[j].commit = runs[j].commit \/ runs[j].commit = "none" BY <1>9 DEF Frozen, AllRuled, Ruled
  <2> QED BY <2>1, <2>3, <2>4, PreparationsKept DEF Inv
<1>14. LoopsShape' BY <1>1 DEF Inv, LoopsShape
<1> QED BY <1>3, <1>12, <1>13, <1>14 DEF Inv, Onward

-----------------------------------------------------------------------------
(***************************************************************************)
(* A proposal is prepared for execution, and committed.                    *)
(***************************************************************************)
LEMMA IssuePreparationInv ==
    ASSUME Inv, NEW i \in DOMAIN runs, NEW s \in Sessions, IssuePreparation(i, s)
    PROVE  Inv'
<1> DEFINE ended == [x \in DOMAIN preparations |-> IF preparations[x].run = i
                       THEN [preparations[x] EXCEPT !.state = End(@, "expired")] ELSE preparations[x]]
           e == [run |-> i, session |-> s, boot |-> boot, rulings |-> Serials(i), lapsed |-> FALSE,
                 state |-> "issued", verdict |-> "none"]
           n == Len(preparations) + 1
<1>1. /\ Len(preparations) < MaxPreparations /\ Executable(i) /\ preparations' = Append(ended, e)
      /\ UNCHANGED <<boot, version, governance, receipts, runs, loops>>
  BY DEF IssuePreparation
<1>2. preparations \in Seq(PreparationRecords) /\ DOMAIN preparations = 1..Len(preparations)
      /\ Len(preparations) \in Nat
  BY DEF Inv, PreparationsShape
<1>3. ASSUME NEW x \in DOMAIN preparations
      PROVE  /\ ended[x] \in PreparationRecords
             /\ ended[x].run = preparations[x].run /\ ended[x].verdict = preparations[x].verdict
             /\ ended[x].state \in {"issued", "consumed"} =>
                  /\ ended[x].state = preparations[x].state
                  /\ ended[x].state = "issued" => preparations[x].run # i
  <2>1. preparations[x] \in PreparationRecords BY <1>2
  <2>2. CASE preparations[x].run = i
    <3>1. ended[x] = [preparations[x] EXCEPT !.state = End(@, "expired")] BY <2>2
    <3> HIDE DEF ended
    <3> QED BY <2>1, <3>1 DEF End, PreparationRecords
  <2>3. CASE preparations[x].run # i BY <2>1, <2>3
  <2> QED BY <2>2, <2>3
<1>4. PreparationsEbb(preparations, ended)
  <2>1. ended = [x \in DOMAIN preparations |-> ended[x]] OBVIOUS
  <2> HIDE DEF ended
  <2>2. \A x \in DOMAIN preparations :
            /\ ended[x] \in PreparationRecords
            /\ ended[x].run = preparations[x].run /\ ended[x].verdict = preparations[x].verdict
            /\ ended[x].state \in {"issued", "consumed"} => ended[x].state = preparations[x].state
    BY <1>3
  <2> QED BY <1>2, <2>1, <2>2, PointwisePreparations
<1> HIDE DEF ended
<1>5. ended \in Seq(PreparationRecords) /\ Len(ended) = Len(preparations) BY <1>4 DEF PreparationsEbb
<1>6. i \in Frozen /\ runs[i].commit = "none" BY <1>1 DEF Executable, ProposalCurrent, Uncommitted
<1>7. e \in PreparationRecords
  <2>1. boot \in Nat /\ i \in 1..MaxRuns
    BY ProposalsAssumption DEF Inv, CountersShape, RunsInv, RunsShape
  <2>2. \A g \in Gates : runs[i].gates[g].serial \in Nat
    <3>1. runs[i] \in RunRecords BY RunsOf
    <3> QED BY <3>1 DEF RunRecords, RulingRecords
  <2>3. Serials(i) \in [Gates -> Nat] BY <2>2 DEF Serials
  <2> QED BY <2>1, <2>3 DEF PreparationRecords
<1>8. /\ preparations' \in Seq(PreparationRecords) /\ Len(preparations') = n /\ DOMAIN preparations' = 1..n
      /\ \A x \in DOMAIN preparations : preparations'[x] = ended[x]
      /\ preparations'[n] = e
  BY <1>1, <1>2, <1>5, <1>7, AppendFacts
<1>9. PreparationsShape' BY <1>1, <1>2, <1>8, ProposalsAssumption DEF PreparationsShape
<1>10. e.run = i /\ e.state = "issued" OBVIOUS
<1> HIDE DEF e
<1>11. Commits'
  <2>1. Frozen' = Frozen BY <1>1 DEF Frozen
  <2>2. \A x \in DOMAIN preparations' : x \in DOMAIN preparations \/ x = n BY <1>2, <1>8
  <2>3. ASSUME NEW x \in DOMAIN preparations'
        PROVE  /\ preparations'[x].run \in Frozen
               /\ preparations'[x].state = "consumed" =>
                    /\ preparations'[x].verdict \in Verdicts
                    /\ runs[preparations'[x].run].commit = preparations'[x].verdict
    <3>1. CASE x \in DOMAIN preparations BY <1>3, <1>8, <3>1 DEF Inv, Commits
    <3>2. CASE x = n BY <1>6, <1>8, <1>10, <3>2
    <3> QED BY <2>2, <3>1, <3>2
  <2>4. ASSUME NEW x \in DOMAIN preparations', NEW y \in DOMAIN preparations',
               preparations'[x].run = preparations'[y].run, x < y
        PROVE  preparations'[x].state \notin {"issued", "consumed"}
    <3>1. x \in DOMAIN preparations BY <1>2, <1>8, <2>4
    <3>2. CASE y \in DOMAIN preparations BY <1>3, <1>8, <2>4, <3>1, <3>2 DEF Inv, Commits
    <3>3. CASE y = n
      <4>1. preparations[x].run = i BY <1>3, <1>8, <1>10, <2>4, <3>1, <3>3
      <4>2. preparations[x].state # "consumed" BY <1>6, <3>1, <4>1 DEF Inv, Commits, Verdicts
      <4> QED BY <1>3, <1>8, <3>1, <4>1, <4>2
    <3> QED BY <2>2, <3>2, <3>3
  <2> QED BY <1>1, <2>1, <2>3, <2>4 DEF Commits
<1>12. RunsInv'
  <2>1. AllEbb(runs, runs') BY <1>1, RunsOf, EbbsItself DEF AllEbb
  <2> QED BY <1>1, <2>1, OnwardStill, EbbKeepsRuns DEF Inv
<1>13. CountersShape' /\ ReceiptsShape' /\ LoopsShape' BY <1>1 DEF Inv, CountersShape, ReceiptsShape, LoopsShape
<1> QED BY <1>9, <1>11, <1>12, <1>13 DEF Inv

LEMMA CommitVerifyInv ==
    ASSUME Inv, NEW x \in DOMAIN preparations, NEW v \in Verdicts, CommitVerify(x, v)
    PROVE  Inv'
<1>0. PICK i : i = preparations[x].run BY Zenon
<1>1. /\ preparations' = [preparations EXCEPT ![x].state = "consumed", ![x].verdict = v]
      /\ runs' = Committed(i, v)
      /\ preparations[x].state = "issued"
      /\ i \in Frozen /\ runs[i].commit = "none"
      /\ UNCHANGED <<boot, version, governance, receipts, loops>>
  BY <1>0 DEF CommitVerify, Consumable, Live, Executable, ProposalCurrent, Uncommitted
<1>2. i \in DOMAIN runs BY <1>1 DEF Frozen
<1>3. runs[i] \in RunRecords BY <1>2, RunsOf
<1>4. runs' = [j \in DOMAIN runs |-> runs'[j]] BY <1>1 DEF Committed
<1>5. ASSUME NEW j \in DOMAIN runs
      PROVE  /\ Ebbs(runs[j], runs'[j]) /\ runs'[j].escalation = runs[j].escalation
             /\ runs'[j].commit = IF j = i THEN v ELSE runs[j].commit
  <2>1. runs[j] \in RunRecords BY RunsOf
  <2>2. CASE j = i
    <3>1. runs'[i] = [runs[i] EXCEPT !.commit = v] BY <1>1, <1>2 DEF Committed
    <3>2. [runs[i] EXCEPT !.commit = v] \in RunRecords BY <1>3 DEF RunRecords
    <3>3. Ebbs(runs[i], [runs[i] EXCEPT !.commit = v]) BY <1>1, <1>3, <3>2 DEF Ebbs, Over, RunRecords
    <3>4. [runs[i] EXCEPT !.commit = v].commit = v /\ [runs[i] EXCEPT !.commit = v].escalation = runs[i].escalation
      BY <1>3 DEF RunRecords
    <3> QED BY <2>2, <3>1, <3>3, <3>4
  <2>3. CASE j # i /\ j \in SameAction(i)
    <3>1. runs'[j] = EndRulings(runs[j], "invalidated", Gates) BY <1>1, <2>3 DEF Committed
    <3>2. Ebbs(runs[j], EndRulings(runs[j], "invalidated", Gates)) BY <2>1, EndRulingsEbbs
    <3>3. /\ EndRulings(runs[j], "invalidated", Gates).escalation = runs[j].escalation
          /\ EndRulings(runs[j], "invalidated", Gates).commit = runs[j].commit
      BY <2>1 DEF EndRulings, RunRecords
    <3> QED BY <2>3, <3>1, <3>2, <3>3
  <2>4. CASE j # i /\ j \notin SameAction(i)
    <3>1. runs'[j] = runs[j] BY <1>1, <2>4 DEF Committed
    <3> QED BY <2>1, <2>4, <3>1, EbbsItself
  <2> QED BY <2>2, <2>3, <2>4
<1>6. AllEbb(runs, runs') BY <1>4, <1>5, RunsOf, PointwiseEbb
<1>7. RunsInv'
  <2>1. Onward BY <1>1, OnwardStill
  <2> QED BY <1>5, <1>6, <2>1, EbbKeepsRuns DEF Inv
<1>8. preparations \in Seq(PreparationRecords) /\ Len(preparations) <= MaxPreparations BY DEF Inv, PreparationsShape
<1>9. preparations[x] \in PreparationRecords BY <1>8
<1> DEFINE q == [preparations[x] EXCEPT !.state = "consumed", !.verdict = v]
<1>10. q \in PreparationRecords /\ q.state = "consumed" /\ q.verdict = v /\ q.run = i
  BY <1>0, <1>9 DEF PreparationRecords
<1>11. preparations' = [preparations EXCEPT ![x] = q] BY <1>1, <1>8, <1>9 DEF PreparationRecords
<1> HIDE DEF q
<1>12. PreparationsShape' BY <1>8, <1>10, <1>11 DEF PreparationsShape
<1>13. DOMAIN preparations' = DOMAIN preparations /\ preparations'[x] = q
       /\ \A y \in DOMAIN preparations : y # x => preparations'[y] = preparations[y]
  BY <1>8, <1>11
<1>14. Commits'
  <2>1. Frozen \subseteq Frozen'
    <3>1. DOMAIN runs' = DOMAIN runs BY <1>4
    <3> QED BY <1>5, <3>1 DEF Frozen, Ebbs, Over
  <2>2. \A y \in DOMAIN preparations : preparations'[y].run = preparations[y].run BY <1>0, <1>10, <1>13
  <2>3. DOMAIN preparations \subseteq Nat BY <1>8
  <2>4. \A y \in DOMAIN preparations : y # x /\ preparations[y].run = i => preparations[y].state # "consumed"
    BY <1>0, <1>1 DEF Inv, Commits, Verdicts
  <2>5. ASSUME NEW y \in DOMAIN preparations
        PROVE  /\ preparations'[y].run \in Frozen'
               /\ preparations'[y].state = "consumed" =>
                    /\ preparations'[y].verdict \in Verdicts
                    /\ runs'[preparations'[y].run].commit = preparations'[y].verdict
    <3>1. preparations[y].run \in Frozen /\ preparations[y].run \in DOMAIN runs BY DEF Inv, Commits, Frozen
    <3>2. CASE y = x BY <1>2, <1>5, <1>10, <1>13, <2>1, <2>2, <3>1, <3>2
    <3>3. CASE y # x
      <4>1. preparations'[y] = preparations[y] BY <1>13, <3>3
      <4>2. preparations[y].state = "consumed" =>
              /\ preparations[y].run # i /\ preparations[y].verdict \in Verdicts
              /\ runs[preparations[y].run].commit = preparations[y].verdict
        BY <2>4, <3>3 DEF Inv, Commits
      <4> QED BY <1>5, <2>1, <3>1, <4>1, <4>2
    <3> QED BY <3>2, <3>3
  <2>6. ASSUME NEW y \in DOMAIN preparations, NEW z \in DOMAIN preparations,
               preparations'[y].run = preparations'[z].run, y < z
        PROVE  preparations'[y].state \notin {"issued", "consumed"}
    <3>1. preparations[y].run = preparations[z].run BY <2>2, <2>6
    <3>2. preparations[y].state \notin {"issued", "consumed"} BY <2>6, <3>1 DEF Inv, Commits
    <3>3. y # x BY <1>1, <3>2
    <3> QED BY <1>13, <3>2, <3>3
  <2> QED BY <1>13, <2>5, <2>6 DEF Commits
<1>15. CountersShape' /\ ReceiptsShape' /\ LoopsShape' BY <1>1 DEF Inv, CountersShape, ReceiptsShape, LoopsShape
<1> QED BY <1>7, <1>12, <1>14, <1>15 DEF Inv

-----------------------------------------------------------------------------
(***************************************************************************)
(* The theorems.                                                           *)
(***************************************************************************)
LEMMA InitInv == Init => Inv
<1> SUFFICES ASSUME Init PROVE Inv OBVIOUS
<1>0. MaxChanges \in Nat /\ MaxRuns \in Nat /\ MaxPreparations \in Nat BY ProposalsAssumption
<1>1. runs = <<>> /\ preparations = <<>> /\ DOMAIN runs = {} /\ DOMAIN preparations = {} /\ Frozen = {}
  BY DEF Init, Frozen
<1>2. runs \in Seq(RunRecords) /\ Len(runs) = 0 /\ preparations \in Seq(PreparationRecords) /\ Len(preparations) = 0
  BY <1>1
<1>3. CountersShape BY <1>0 DEF Init, CountersShape
<1>4. ReceiptsShape BY DEF Init, ReceiptsShape
<1>5. LoopsShape BY <1>0 DEF Init, LoopsShape, Idle
<1>6. RunsShape /\ PreparationsShape BY <1>0, <1>1, <1>2 DEF RunsShape, PreparationsShape
<1>7. Bindings /\ Lineage /\ Stages /\ NextRevision BY <1>1 DEF Bindings, Lineage, Stages, NextRevision
<1>8. RevisionsInOrder /\ OneSuccessor /\ OneAttempt /\ Commits
  BY <1>1 DEF RevisionsInOrder, OneSuccessor, OneAttempt, Commits
<1> QED BY <1>3, <1>4, <1>5, <1>6, <1>7, <1>8 DEF Inv, RunsInv

LEMMA NextInv == Inv /\ [Next]_vars => Inv'
<1> SUFFICES ASSUME Inv, [Next]_vars PROVE Inv' OBVIOUS
<1>1. CASE UNCHANGED vars
  <2>1. UNCHANGED <<boot, version, governance, receipts, runs, preparations, loops>> BY <1>1 DEF vars
  <2>2. Onward /\ LoopsShape' BY <2>1, OnwardStill DEF Inv, LoopsShape
  <2> QED BY <2>1, <2>2, StillKeeps
<1>2. CASE ConversationChanges BY <1>2, ConversationChangesInv
<1>3. CASE \E what \in {"selection", "authority", "unseen"} : GovernanceChanges(what) BY <1>3, GovernanceChangesInv
<1>4. ASSUME NEW s \in Sessions,
             \/ Redeem(s) \/ CloseSession(s) \/ ReceiptLapses(s) \/ BeginCall(s)
             \/ \E i \in DOMAIN runs : PrepareRevision(i, s) \/ IssuePreparation(i, s)
      PROVE  Inv'
  BY <1>4, RedeemInv, CloseSessionInv, ReceiptLapsesInv, BeginCallInv, PrepareRevisionInv, IssuePreparationInv
<1>5. ASSUME NEW i \in DOMAIN runs, BeginRevisionCall(i) \/ AdmitAnswer(i) \/ CallFails(i)
      PROVE  Inv'
  BY <1>5, BeginRevisionCallInv, AdmitAnswerInv, CallFailsInv
<1>6. ASSUME NEW i \in DOMAIN runs, NEW content \in Contents, ConsumeIntake(i, content)
      PROVE  Inv'
  BY <1>6, ConsumeIntakeInv
<1>7. ASSUME NEW i \in DOMAIN runs, Answer(i) \/ CloseEscalation(i)
      PROVE  Inv'
  BY <1>7, AnswerInv, CloseEscalationInv
<1>8. ASSUME NEW i \in DOMAIN runs, NEW what \in {"prep", "call", "intake"} \cup Gates, RunLapses(i, what)
      PROVE  Inv'
  BY <1>8, RunLapsesInv
<1>9. ASSUME NEW i \in DOMAIN runs, NEW c \in Callers, StartLoop(c, i)
      PROVE  Inv'
  BY <1>9, StartLoopInv
<1>10. ASSUME NEW c \in Callers, LeaveLoop(c) \/ LookAgain(c)
       PROVE  Inv'
  BY <1>10, LeaveLoopInv, LookAgainInv
<1>11. ASSUME NEW c \in Callers, NEW v \in Verdicts, NEW narrows \in BOOLEAN, RuleGate(c, v, narrows)
       PROVE  Inv'
  BY <1>11, RuleGateInv
<1>12. ASSUME NEW x \in DOMAIN preparations, PreparationLapses(x)
       PROVE  Inv'
  BY <1>12, PreparationLapsesInv
<1>13. ASSUME NEW x \in DOMAIN preparations, NEW v \in Verdicts, CommitVerify(x, v)
       PROVE  Inv'
  BY <1>13, CommitVerifyInv
<1>14. CASE Maintain BY <1>14, MaintainInv
<1>15. CASE Restart BY <1>15, RestartInv
<1> QED BY <1>1, <1>2, <1>3, <1>4, <1>5, <1>6, <1>7, <1>8, <1>9, <1>10, <1>11, <1>12, <1>13, <1>14, <1>15 DEF Next

\* The invariant that the theorems rest on: what each run is bound to and descends from, the
\* order in which it passes its stages, and which preparation may still be committed.
THEOREM ProposalsInvariance == Spec => []Inv
<1> QED BY InitInv, NextInv, PTL DEF Spec

\* The records of a case stay in order, for any number of sessions, runs and preparations:
\* the revisions of an action are frozen without gaps (ruleProposal, proposal.freeze) and a
\* Commit ruling is the last word on its proposal (execution preparations).
THEOREM CaseRecordsInOrder == Spec => []RecordsInOrder
<1>1. Inv => RecordsInOrder
  <2> SUFFICES ASSUME Inv PROVE RecordsInOrder OBVIOUS
  <2>1. TypeOK
    <3>1. \A i \in DOMAIN runs : runs[i].source < i
      <4>1. DOMAIN runs = 1..Len(runs) /\ Len(runs) \in Nat BY DEF Inv, RunsInv, RunsShape
      <4> QED BY <4>1 DEF Inv, RunsInv, Lineage
    <3>2. \A i \in DOMAIN runs :
            /\ runs[i].successor \in {0} \cup (i + 1)..MaxRuns
            /\ runs[i].source # 0 => (runs[i].prep = "consumed" <=> runs[i].call # "none")
            /\ \A g \in Gates : runs[i].gates[g].serial <= MaxIssues
      BY DEF Inv, RunsInv, Stages, RunsShape
    <3> QED BY <3>1, <3>2 DEF Inv, RunsInv, CountersShape, ReceiptsShape, RunsShape, PreparationsShape, LoopsShape, TypeOK
  <2>2. CommitIsFinal BY DEF Inv, Commits, CommitIsFinal
  <2> QED BY <2>1, <2>2 DEF RecordsInOrder, Inv, RunsInv
<1> QED BY <1>1, ProposalsInvariance, PTL

\* A dialogue is continued once, whoever prepares, freezes and rules at the same time, and one
\* attempt at most to continue it is alive (prepareRevision, ruleProposalWithCurrentness).
THEOREM DialogueContinuedOnce == Spec => []OneContinuation
<1>1. Inv => OneContinuation BY DEF Inv, RunsInv, OneContinuation
<1> QED BY <1>1, ProposalsInvariance, PTL

\* Only a Commit consumes a preparation.
LEMMA OnlyCommitsConsume ==
    ASSUME Inv, [Next]_vars, NEW x \in DOMAIN preparations,
           preparations[x].state # "consumed", preparations'[x].state = "consumed"
    PROVE  Consumable(x)
<1> DEFINE Kept == preparations'[x].state \in {"issued", "consumed"} => preparations'[x].state = preparations[x].state
<1>0. ~Kept OBVIOUS
<1> HIDE DEF Kept
<1>1. ASSUME PreparationsEbb(preparations, preparations') PROVE FALSE
  BY <1>0, <1>1 DEF PreparationsEbb, Kept
<1>2. PreparationsShape BY DEF Inv
<1>3. CASE UNCHANGED preparations BY <1>1, <1>2, <1>3, PreparationsEbbThemselves
<1>4. CASE \E S : preparations' = EndPreparations(S) BY <1>1, <1>2, <1>4, EndPreparationsEbb
<1>5. ASSUME NEW s \in Sessions, ReceiptLapses(s) PROVE FALSE
  <2>1. preparations'[x] \in {preparations[x], [preparations[x] EXCEPT !.lapsed = TRUE]} BY <1>5 DEF ReceiptLapses
  <2>2. preparations[x] \in PreparationRecords BY <1>2 DEF PreparationsShape
  <2>3. [preparations[x] EXCEPT !.lapsed = TRUE].state = preparations[x].state BY <2>2 DEF PreparationRecords
  <2> QED BY <2>1, <2>3
<1>6. ASSUME NEW i \in DOMAIN runs, NEW s \in Sessions, IssuePreparation(i, s) PROVE FALSE
  <2> DEFINE ended == [y \in DOMAIN preparations |-> IF preparations[y].run = i
                         THEN [preparations[y] EXCEPT !.state = End(@, "expired")] ELSE preparations[y]]
             e == [run |-> i, session |-> s, boot |-> boot, rulings |-> Serials(i), lapsed |-> FALSE,
                   state |-> "issued", verdict |-> "none"]
  <2>1. preparations' = Append(ended, e) BY <1>6 DEF IssuePreparation
  <2>2. preparations[x] \in PreparationRecords /\ DOMAIN preparations = 1..Len(preparations)
        /\ Len(preparations) \in Nat
    BY <1>2 DEF PreparationsShape
  <2>3. Len(ended) = Len(preparations)
    <3>1. DOMAIN ended = 1..Len(preparations) BY <2>2
    <3> QED BY <2>2, <3>1
  <2>4. preparations'[x] = ended[x] BY <2>1, <2>2, <2>3
  <2>5. ended[x].state = preparations[x].state \/ ended[x].state = "expired" BY <2>2 DEF End, PreparationRecords
  <2> QED BY <2>4, <2>5
<1>7. ASSUME NEW y \in DOMAIN preparations, PreparationLapses(y) PROVE FALSE
  BY <1>1, <1>2, <1>7, LapsedPreparationEbbs DEF PreparationLapses
<1>8. ASSUME NEW y \in DOMAIN preparations, NEW v \in Verdicts, CommitVerify(y, v) PROVE Consumable(x)
  <2>1. preparations \in Seq(PreparationRecords) BY <1>2 DEF PreparationsShape
  <2>2. y # x => preparations'[x] = preparations[x] BY <1>8, <2>1 DEF CommitVerify
  <2>3. y = x BY <2>2
  <2> QED BY <1>8, <2>3 DEF CommitVerify
<1>9. CASE Maintain BY <1>1, <1>2, <1>9, ExpirePreparationsEbb DEF Maintain
<1>10. CASE Restart BY <1>1, <1>2, <1>10, ExpirePreparationsEbb DEF Restart
<1>11. CASE ConversationChanges BY <1>4, <1>11 DEF ConversationChanges, Mutation
<1>12. ASSUME NEW what, GovernanceChanges(what) PROVE Consumable(x) BY <1>3, <1>4, <1>12 DEF GovernanceChanges
<1>13. ASSUME NEW s \in Sessions,
              \/ Redeem(s) \/ CloseSession(s) \/ ReceiptLapses(s) \/ BeginCall(s)
              \/ \E i \in DOMAIN runs : PrepareRevision(i, s) \/ IssuePreparation(i, s)
       PROVE  Consumable(x)
  BY <1>3, <1>4, <1>5, <1>6, <1>13 DEF Redeem, CloseSession, BeginCall, PrepareRevision
<1>14. ASSUME NEW i \in DOMAIN runs,
              \/ BeginRevisionCall(i) \/ AdmitAnswer(i) \/ CallFails(i) \/ Answer(i) \/ CloseEscalation(i)
              \/ \E content \in Contents : ConsumeIntake(i, content)
              \/ \E what \in {"prep", "call", "intake"} \cup Gates : RunLapses(i, what)
              \/ \E c \in Callers : StartLoop(c, i)
       PROVE  Consumable(x)
  BY <1>3, <1>4, <1>14
     DEF BeginRevisionCall, AdmitAnswer, CallFails, Answer, Mutation, CloseEscalation, ConsumeIntake, RunLapses, StartLoop
<1>15. ASSUME NEW c \in Callers,
              \/ LeaveLoop(c) \/ LookAgain(c)
              \/ \E v \in Verdicts, narrows \in BOOLEAN : RuleGate(c, v, narrows)
       PROVE  Consumable(x)
  BY <1>3, <1>15 DEF LeaveLoop, LookAgain, RuleGate
<1>16. CASE UNCHANGED vars BY <1>3, <1>16 DEF vars
<1> QED BY <1>7, <1>8, <1>9, <1>10, <1>11, <1>12, <1>13, <1>14, <1>15, <1>16 DEF Next

\* What is committed is what was verified: between the issue of a preparation and its Commit
\* ruling neither the conversation nor the authority, the session or the boot has changed, and
\* the three allows are those the preparation named (#assertCurrent in executionPreparation.ts).
THEOREM CommittedAsPrepared == Spec => CommitsWhatWasPrepared
<1> DEFINE Committing(x) ==
      preparations[x].state # "consumed" /\ preparations'[x].state = "consumed" =>
          LET run == runs[preparations[x].run]
          IN  /\ run.version = version /\ run.governance = governance
              /\ preparations[x].boot = boot /\ Receipt(run.session)
              /\ \A g \in Gates : /\ run.gates[g].serial = preparations[x].rulings[g]
                                  /\ run.gates[g].verdict = "allow"
                                  /\ run.gates[g].status = "issued"
<1>1. Inv /\ [Next]_vars => \A x \in DOMAIN preparations : Committing(x)
  <2> SUFFICES ASSUME Inv, [Next]_vars, NEW x \in DOMAIN preparations,
                      preparations[x].state # "consumed", preparations'[x].state = "consumed"
               PROVE  Committing(x)
    BY Zenon
  <2>1. Consumable(x) BY OnlyCommitsConsume
  <2>2. /\ preparations[x].boot = boot /\ FactsCurrent(preparations[x].run) /\ Allowed(preparations[x].run)
        /\ preparations[x].rulings = Serials(preparations[x].run)
    BY <2>1 DEF Consumable, Live, Executable, ProposalCurrent
  <2> QED BY <2>2 DEF FactsCurrent, Allowed, Serials
<1>2. Inv /\ [Next]_vars => [\A x \in DOMAIN preparations : Committing(x)]_vars BY <1>1
<1> HIDE DEF Committing
<1>3. Spec => [][\A x \in DOMAIN preparations : Committing(x)]_vars BY <1>2, ProposalsInvariance, PTL DEF Spec
<1> QED BY <1>3 DEF CommitsWhatWasPrepared, Committing

=============================================================================
