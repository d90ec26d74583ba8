---------------------------- MODULE ScreeningProofs ----------------------------
(***************************************************************************)
(* Proofs about live screening, for every set of runs and of gates that    *)
(* require screening, and every bound.                                     *)
(*                                                                         *)
(* An allow is traced back to the provider: a ruling names the context of  *)
(* the call its run resolved; the call was admitted on a report; the       *)
(* report was made when the provider was asked about the call's context,   *)
(* which never changes once the call is open.                              *)
(***************************************************************************)
EXTENDS ScreeningProperties, TLAPS

-----------------------------------------------------------------------------
(***************************************************************************)
(* The inductive invariant.                                                *)
(***************************************************************************)
\* What TypeOK leaves open: the provider's side, and that no counter has run ahead of
\* the changes there were.
Shape ==
    /\ said \in [GateNames -> [asked : Nat, clean : SUBSET Nat]]
    /\ reports \subseteq [gate : Required, kind : {"output", "refused"}, flagged : BOOLEAN, asked : Nat]
    /\ boot <= changes + 1 /\ context <= changes + 1 /\ starts <= changes + 1

\* A call is handed out, and reported on, only once it is open, and a report is about
\* the context of its call.
ReportsAreTraced ==
    /\ \A g \in given : calls[g].state # "none"
    /\ \A p \in reports : /\ calls[p.gate].state # "none" /\ p.asked = calls[p.gate].context
                          /\ p.kind = "output" /\ p.flagged = FALSE => p.asked \in said[p.gate].clean

\* A call that was admitted without a signal was answered so by the provider.
AdmittedIsTraced ==
    \A g \in GateNames : calls[g].state = "admitted" /\ calls[g].flagged = FALSE => calls[g].context \in said[g].clean

\* The evidence a run carries to its ruling is about the context of its call.
EvidenceIsTraced ==
    \A r \in Runs : runs[r].stage = "rule" /\ runs[r].performed = TRUE =>
        /\ calls[runs[r].gate].state # "none"
        /\ runs[r].evidence = calls[runs[r].gate].context

\* A call this start of the orchestrator has not taken up is one it may still ask about.
AskedWithinStarts ==
    \A g \in GateNames : said[g].asked <= starts /\ (g \notin seen => said[g].asked + 1 <= starts)

Inv == TypeOK /\ Shape /\ ReportsAreTraced /\ AdmittedIsTraced /\ EvidenceIsTraced
              /\ AskedWithinStarts /\ AllowWasScreened

LEMMA InitInv == Init => Inv
<1> SUFFICES ASSUME Init PROVE Inv OBVIOUS
<1> USE ScreeningAssumption DEF Init, GateNames, NoCall, NoRuling, NoRun
<1>1. TypeOK BY DEF TypeOK, CallRecords, RulingRecords, RunRecords
<1>2. Shape BY DEF Shape
<1>3. ReportsAreTraced /\ AdmittedIsTraced /\ EvidenceIsTraced /\ AskedWithinStarts /\ AllowWasScreened
  BY DEF ReportsAreTraced, AdmittedIsTraced, EvidenceIsTraced, AskedWithinStarts, AllowWasScreened
<1> QED BY <1>1, <1>2, <1>3 DEF Inv

LEMMA Unissuing == ASSUME NEW x \in RulingRecords PROVE [x EXCEPT !.issued = FALSE] \in RulingRecords
BY Zenon DEF RulingRecords

LEMMA Lapsing == ASSUME NEW x \in CallRecords PROVE [x EXCEPT !.overdue = TRUE] \in CallRecords
BY Zenon DEF CallRecords

LEMMA SameRecords == ASSUME UNCHANGED <<boot, context>>
                     PROVE CallRecords' = CallRecords /\ RulingRecords' = RulingRecords /\ RunRecords' = RunRecords
BY DEF CallRecords, RulingRecords, RunRecords

LEMMA ReadStatusInv == ASSUME Inv, NEW r \in Runs, ReadStatus(r) PROVE Inv'
<1> USE ScreeningAssumption DEF Change, environment, service, orchestrator, GateNames
<1>1. TypeOK'
  <2> DEFINE open == {n \in 1..2 : ~Allowed(Gates[n])}
             next == CHOOSE n \in open : \A k \in open : n <= k
  <2>1. open # {} => next \in 1..2
    <3> SUFFICES ASSUME open # {} PROVE \E n \in open : \A k \in open : n <= k OBVIOUS
    <3>1. CASE 1 \in open BY <3>1
    <3>2. CASE 1 \notin open BY <3>2
    <3> QED BY <3>1, <3>2
  <2>2. open # {} => Gates[next] \in GateNames BY <2>1 DEF Gates
  <2> HIDE DEF open, next
  <2>3. [runs[r] EXCEPT !.stage = "done"] \in RunRecords BY DEF Inv, TypeOK, RunRecords
  <2>4. ASSUME open # {} PROVE [stage |-> "ensure", gate |-> Gates[next], performed |-> FALSE, evidence |-> 0] \in RunRecords
    BY <2>2, <2>4 DEF Inv, TypeOK, RunRecords
  <2>5. runs' \in [Runs -> RunRecords] BY <2>3, <2>4 DEF ReadStatus, Inv, TypeOK, open, next
  <2> QED BY <2>5, SameRecords DEF Inv, TypeOK, ReadStatus
<1>2. Shape' BY DEF Inv, Shape, ReadStatus
<1>3. ReportsAreTraced' BY DEF Inv, ReportsAreTraced, ReadStatus
<1>4. AdmittedIsTraced' BY DEF Inv, AdmittedIsTraced, ReadStatus
<1>5. EvidenceIsTraced' BY DEF Inv, EvidenceIsTraced, ReadStatus
<1>6. AskedWithinStarts' BY DEF Inv, AskedWithinStarts, ReadStatus
<1>7. AllowWasScreened' BY DEF Inv, AllowWasScreened, ReadStatus
<1> QED BY <1>1, <1>2, <1>3, <1>4, <1>5, <1>6, <1>7 DEF Inv

LEMMA EnsureInv == ASSUME Inv, NEW r \in Runs, Ensure(r) PROVE Inv'
<1> USE ScreeningAssumption DEF Change, environment, service, orchestrator, GateNames
<1> DEFINE g == runs[r].gate
           New(s) == [state |-> s, context |-> context, boot |-> boot, overdue |-> FALSE, flagged |-> FALSE]
<1>0. g \in GateNames BY DEF Inv, TypeOK, RunRecords
<1>a. \/ calls' = calls /\ given' = given
      \/ /\ g \in Required /\ calls[g].state = "open" /\ calls' = calls /\ given' = given \cup {g}
      \/ /\ g \in Required /\ calls[g].state = "open"
         /\ calls' = [calls EXCEPT ![g].state = "failed"] /\ given' = given
      \/ /\ g \in Required /\ calls[g].state = "none"
         /\ calls' = [calls EXCEPT ![g] = New("open")] /\ given' = given \cup {g}
      \/ /\ g \in Required /\ calls[g].state = "none"
         /\ calls' = [calls EXCEPT ![g] = New("failed")] /\ given' = given
  <2>1. calls[g].state \in {"none", "open", "admitted", "failed"} BY <1>0 DEF Inv, TypeOK, CallRecords
  <2> QED BY <2>1 DEF Ensure, NeedsScreening, Failed, Opened
<1>c. UNCHANGED <<boot, context, said, reports>> BY DEF Ensure
<1> HIDE DEF g
<1>1. TypeOK'
  <2>1. calls' \in [GateNames -> CallRecords]
    <3>1. New("open") \in CallRecords /\ New("failed") \in CallRecords BY DEF Inv, TypeOK, CallRecords
    <3>2. [calls[g] EXCEPT !.state = "failed"] \in CallRecords BY <1>0 DEF Inv, TypeOK, CallRecords
    <3> HIDE DEF New
    <3> QED BY <1>0, <1>a, <3>1, <3>2 DEF Inv, TypeOK
  <2>2. runs' \in [Runs -> RunRecords]
    <3>1. \A s \in {"resolve", "done"} : [runs[r] EXCEPT !.stage = s] \in RunRecords BY DEF Inv, TypeOK,
      RunRecords
    <3>2. \E s \in {"resolve", "done"} : runs' = [runs EXCEPT ![r].stage = s] BY DEF Ensure, Goes
    <3> QED BY <3>1, <3>2 DEF Inv, TypeOK
  <2>3. \A h \in GateNames \ Required : calls'[h] = NoCall BY <1>a DEF Inv, TypeOK
  <2> QED BY <1>a, <2>1, <2>2, <2>3, SameRecords DEF Inv, TypeOK, Ensure
<1>2. Shape' BY <1>c DEF Inv, Shape, Ensure
<1>3. ReportsAreTraced' BY <1>0, <1>a, <1>c DEF Inv, TypeOK, Shape, ReportsAreTraced, CallRecords
<1>4. AdmittedIsTraced' BY <1>0, <1>a, <1>c DEF Inv, TypeOK, AdmittedIsTraced, CallRecords
<1>5. EvidenceIsTraced'
  <2>1. \E s \in {"resolve", "done"} : runs' = [runs EXCEPT ![r].stage = s] BY DEF Ensure, Goes
  <2>2. \A h \in GateNames : calls[h].state # "none" => calls'[h].state # "none" /\ calls'[h].context = calls[h].context
    BY <1>0, <1>a DEF Inv, TypeOK, CallRecords
  <2> QED BY <2>1, <2>2 DEF Inv, TypeOK, RunRecords, EvidenceIsTraced
<1>6. AskedWithinStarts' BY DEF Inv, TypeOK, AskedWithinStarts, Ensure
<1>7. AllowWasScreened' BY DEF Inv, TypeOK, RunRecords, Shape, AllowWasScreened, EvidenceIsTraced, Ensure,
  NoCall, Failed, NeedsScreening, Opened
<1> QED BY <1>1, <1>2, <1>3, <1>4, <1>5, <1>6, <1>7 DEF Inv

LEMMA ResolveInv == ASSUME Inv, NEW r \in Runs, Resolve(r) PROVE Inv'
<1> USE ScreeningAssumption DEF Change, environment, service, orchestrator, GateNames
<1> DEFINE call == calls[runs[r].gate]
           resolved == [stage |-> "rule", gate |-> runs[r].gate, performed |-> call.state = "admitted",
                        evidence |-> IF call.state = "admitted" THEN call.context ELSE 0]
<1>0. runs' = [runs EXCEPT ![r] = resolved] BY DEF Resolve
<1>1. TypeOK'
  <2>1. resolved \in RunRecords BY DEF Inv, TypeOK, RunRecords, CallRecords
  <2> HIDE DEF resolved
  <2> QED BY <1>0, <2>1, SameRecords DEF Inv, TypeOK, Resolve
<1>2. Shape' BY DEF Inv, Shape, Resolve
<1>3. ReportsAreTraced' BY DEF Inv, ReportsAreTraced, Resolve
<1>4. AdmittedIsTraced' BY DEF Inv, AdmittedIsTraced, Resolve
<1>5. EvidenceIsTraced'
  <2>1. UNCHANGED calls BY DEF Resolve
  <2>2. ASSUME NEW q \in Runs, runs'[q].stage = "rule", runs'[q].performed = TRUE
        PROVE calls[runs'[q].gate].state # "none" /\ runs'[q].evidence = calls[runs'[q].gate].context
    <3>1. CASE q = r BY <1>0, <2>2, <3>1 DEF Inv, TypeOK
    <3>2. CASE q # r BY <1>0, <2>2, <3>2 DEF Inv, EvidenceIsTraced
    <3> QED BY <3>1, <3>2
  <2> QED BY <2>1, <2>2 DEF EvidenceIsTraced
<1>6. AskedWithinStarts' BY DEF Inv, AskedWithinStarts, Resolve
<1>7. AllowWasScreened' BY DEF Inv, AllowWasScreened, Resolve
<1> QED BY <1>1, <1>2, <1>3, <1>4, <1>5, <1>6, <1>7 DEF Inv

LEMMA RuleInv == ASSUME Inv, NEW r \in Runs, Rule(r) PROVE Inv'
<1> USE ScreeningAssumption DEF Change, environment, service, orchestrator, GateNames
<1> DEFINE g == runs[r].gate
<1>0. g \in GateNames BY DEF Inv, TypeOK, RunRecords
<1>a. calls' = calls \/ (g \in Required /\ calls' = [calls EXCEPT ![g].state = "failed"] /\ calls[g].state = "admitted")
  BY DEF Rule, Expended, Failed
<1>b. runs' = [runs EXCEPT ![r].stage = "done"] \/ runs' = [runs EXCEPT ![r].stage = "next"]
  BY DEF Rule, Goes, Ruled
<1>1. TypeOK'
  <2>1. calls' \in [GateNames -> CallRecords]
    <3>1. [calls[g] EXCEPT !.state = "failed"] \in CallRecords BY <1>0 DEF Inv, TypeOK, CallRecords
    <3> QED BY <1>0, <1>a, <3>1 DEF Inv, TypeOK
  <2>2. runs' \in [Runs -> RunRecords]
    <3>1. \A s \in {"next", "done"} : [runs[r] EXCEPT !.stage = s] \in RunRecords BY DEF Inv, TypeOK,
      RunRecords
    <3> QED BY <1>b, <3>1 DEF Inv, TypeOK
  <2>3. rulings' \in [GateNames -> RulingRecords]
    <3> DEFINE screened == g \in Required /\ Valid(r)
               ruling(v) == [verdict |-> v, issued |-> TRUE, context |-> context,
                             evidence |-> IF screened THEN runs[r].evidence ELSE 0]
    <3>1. \A v \in {"allow", "escalate", "deny"} : ruling(v) \in RulingRecords
      BY DEF Inv, TypeOK, RulingRecords, RunRecords
    <3>2. rulings' = rulings \/ \E v \in {"allow", "escalate", "deny"} : rulings' = [rulings EXCEPT ![g] = ruling(v)]
      BY DEF Rule, Verdict
    <3> QED BY <1>0, <3>1, <3>2 DEF Inv, TypeOK
  <2>4. \A h \in GateNames \ Required : calls'[h] = NoCall BY <1>a DEF Inv, TypeOK
  <2> QED BY <2>1, <2>2, <2>3, <2>4, SameRecords DEF Inv, TypeOK, Rule
<1>2. Shape' BY DEF Inv, Shape, Rule
<1>3. ReportsAreTraced' BY DEF Inv, TypeOK, CallRecords, Shape, ReportsAreTraced, Rule, Expended, Failed
<1>4. AdmittedIsTraced' BY DEF Inv, TypeOK, CallRecords, AdmittedIsTraced, Rule, Expended, Failed
<1>5. EvidenceIsTraced' BY <1>0, <1>a, <1>b DEF Inv, TypeOK, CallRecords, RunRecords, EvidenceIsTraced
<1>6. AskedWithinStarts' BY DEF Inv, AskedWithinStarts, Rule
<1>7. AllowWasScreened' BY DEF Inv, TypeOK, AllowWasScreened, AdmittedIsTraced, EvidenceIsTraced, Rule, At,
  Valid, CallIsCurrent, Verdict
<1> QED BY <1>1, <1>2, <1>3, <1>4, <1>5, <1>6, <1>7 DEF Inv

LEMMA TakeUpInv == ASSUME Inv, NEW g \in GateNames, TakeUp(g) PROVE Inv'
<1> USE ScreeningAssumption DEF Change, environment, service, orchestrator, GateNames
<1>0. g \in Required /\ calls[g].state # "none" /\ calls[g].context \in Nat
  BY DEF TakeUp, Takeable, Inv, TypeOK, ReportsAreTraced, CallRecords
<1> DEFINE Said(C) == [said EXCEPT ![g] = [asked |-> said[g].asked + 1, clean |-> said[g].clean \cup C]]
<1>a. \/ reports' = reports \cup {Report(g, "refused", FALSE)} /\ said' = said
      \/ reports' = reports \cup {Report(g, "refused", FALSE)} /\ said' = Said({})
      \/ reports' = reports \cup {Report(g, "output", TRUE)} /\ said' = Said({})
      \/ reports' = reports \cup {Report(g, "output", FALSE)} /\ said' = Said({calls[g].context})
  <2>1. Report(g, "output", FALSE) \notin {Report(g, "output", TRUE), Report(g, "refused", FALSE)}
    BY DEF Report
  <2> QED BY <2>1 DEF TakeUp
<1>b. \A C : said[g].clean \subseteq Said(C)[g].clean /\ C \subseteq Said(C)[g].clean
           /\ \A h \in GateNames : h # g => Said(C)[h] = said[h]
  BY DEF Inv, Shape
<1>1. TypeOK' BY DEF Inv, TypeOK, CallRecords, RulingRecords, RunRecords, TakeUp, Takeable
<1>2. Shape'
  <2>1. said' \in [GateNames -> [asked : Nat, clean : SUBSET Nat]]
    <3>1. \A C \in {{}, {calls[g].context}} :
            [asked |-> said[g].asked + 1, clean |-> said[g].clean \cup C] \in [asked : Nat, clean : SUBSET Nat]
      BY <1>0 DEF Inv, Shape
    <3> QED BY <1>a, <3>1 DEF Inv, Shape
  <2>2. \A k \in {"output", "refused"}, f \in BOOLEAN :
          Report(g, k, f) \in [gate : Required, kind : {"output", "refused"}, flagged : BOOLEAN, asked : Nat]
    BY <1>0 DEF Report
  <2>3. UNCHANGED <<boot, context, starts, changes>> BY DEF TakeUp
  <2>4. \E k \in {"output", "refused"}, f \in BOOLEAN : reports' = reports \cup {Report(g, k, f)}
    BY <1>a
  <2>5. reports' \subseteq [gate : Required, kind : {"output", "refused"}, flagged : BOOLEAN, asked : Nat]
    BY <2>2, <2>4 DEF Inv, Shape
  <2> QED BY <2>1, <2>3, <2>5 DEF Inv, Shape
<1>3. ReportsAreTraced'
  <2>1. UNCHANGED calls /\ given' \subseteq given BY DEF TakeUp
  <2>2. \A h \in GateNames : said[h].clean \subseteq said'[h].clean BY <1>a, <1>b
  <2>3. ASSUME NEW p \in reports' PROVE /\ calls[p.gate].state # "none" /\ p.asked = calls[p.gate].context
                                        /\ p.kind = "output" /\ p.flagged = FALSE => p.asked \in said'[p.gate].clean
    <3>1. CASE p \in reports BY <2>2, <3>1 DEF Inv, Shape, ReportsAreTraced
    <3>2. CASE p = Report(g, "output", FALSE) /\ calls[g].context \in said'[g].clean
      BY <1>0, <3>2 DEF Report
    <3>3. CASE p = Report(g, "output", TRUE) \/ p = Report(g, "refused", FALSE) BY <1>0, <3>3 DEF Report
    <3>4. calls[g].context \in Said({calls[g].context})[g].clean BY <1>b
    <3> HIDE DEF Said
    <3> QED BY <1>a, <3>1, <3>2, <3>3, <3>4
  <2> QED BY <2>1, <2>3 DEF Inv, ReportsAreTraced
<1>4. AdmittedIsTraced' BY DEF Inv, Shape, AdmittedIsTraced, TakeUp, Report
<1>5. EvidenceIsTraced' BY DEF Inv, EvidenceIsTraced, TakeUp
<1>6. AskedWithinStarts' BY DEF Inv, Shape, AskedWithinStarts, TakeUp, Takeable, Report
<1>7. AllowWasScreened' BY DEF Inv, Shape, AllowWasScreened, TakeUp, Report
<1> QED BY <1>1, <1>2, <1>3, <1>4, <1>5, <1>6, <1>7 DEF Inv

LEMMA HandleReportInv == ASSUME Inv, NEW p \in reports, HandleReport(p) PROVE Inv'
<1> USE ScreeningAssumption DEF Change, environment, service, orchestrator, GateNames
<1>1. TypeOK' BY DEF Inv, TypeOK, CallRecords, RulingRecords, RunRecords, Shape, HandleReport, Admitted,
  Failed
<1>2. Shape' BY DEF Inv, Shape, HandleReport
<1>3. ReportsAreTraced' BY DEF Inv, TypeOK, RulingRecords, RunRecords, Shape, ReportsAreTraced,
  HandleReport, Reportable, Admitted, Failed
<1>4. AdmittedIsTraced' BY DEF Inv, TypeOK, AdmittedIsTraced, ReportsAreTraced, HandleReport, Admissible,
  Admitted, Failed
<1>5. EvidenceIsTraced' BY DEF Inv, TypeOK, RunRecords, EvidenceIsTraced, HandleReport, Admitted, Failed
<1>6. AskedWithinStarts' BY DEF Inv, AskedWithinStarts, HandleReport
<1>7. AllowWasScreened' BY DEF Inv, AllowWasScreened, HandleReport
<1> QED BY <1>1, <1>2, <1>3, <1>4, <1>5, <1>6, <1>7 DEF Inv

LEMMA LoseReportInv == ASSUME Inv, NEW p \in reports, LoseReport(p) PROVE Inv'
<1> USE ScreeningAssumption DEF Change, environment, service, orchestrator, GateNames
<1>1. TypeOK' BY DEF Inv, TypeOK, CallRecords, RulingRecords, RunRecords, LoseReport
<1>2. Shape' BY DEF Inv, TypeOK, Shape, LoseReport
<1>3. ReportsAreTraced' BY DEF Inv, ReportsAreTraced, LoseReport
<1>4. AdmittedIsTraced' BY DEF Inv, AdmittedIsTraced, LoseReport
<1>5. EvidenceIsTraced' BY DEF Inv, EvidenceIsTraced, LoseReport
<1>6. AskedWithinStarts' BY DEF Inv, AskedWithinStarts, LoseReport
<1>7. AllowWasScreened' BY DEF Inv, AllowWasScreened, LoseReport
<1> QED BY <1>1, <1>2, <1>3, <1>4, <1>5, <1>6, <1>7 DEF Inv

LEMMA RestartOrchestratorInv == ASSUME Inv, RestartOrchestrator PROVE Inv'
<1> USE ScreeningAssumption DEF Change, environment, service, orchestrator, GateNames
<1>1. TypeOK' BY DEF Inv, TypeOK, CallRecords, RulingRecords, RunRecords, Shape, RestartOrchestrator
<1>2. Shape' BY DEF Inv, TypeOK, Shape, RestartOrchestrator
<1>3. ReportsAreTraced' BY DEF Inv, ReportsAreTraced, RestartOrchestrator
<1>4. AdmittedIsTraced' BY DEF Inv, AdmittedIsTraced, RestartOrchestrator
<1>5. EvidenceIsTraced' BY DEF Inv, EvidenceIsTraced, RestartOrchestrator
<1>6. AskedWithinStarts' BY DEF Inv, TypeOK, Shape, AskedWithinStarts, RestartOrchestrator
<1>7. AllowWasScreened' BY DEF Inv, AllowWasScreened, RestartOrchestrator
<1> QED BY <1>1, <1>2, <1>3, <1>4, <1>5, <1>6, <1>7 DEF Inv

LEMMA ChangeContextInv == ASSUME Inv, ChangeContext PROVE Inv'
<1> USE ScreeningAssumption DEF Change, environment, service, orchestrator, GateNames
<1>1. TypeOK' BY DEF Inv, TypeOK, CallRecords, RulingRecords, RunRecords, Shape, ChangeContext
<1>2. Shape' BY DEF Inv, TypeOK, Shape, ChangeContext
<1>3. ReportsAreTraced' BY DEF Inv, ReportsAreTraced, ChangeContext
<1>4. AdmittedIsTraced' BY DEF Inv, AdmittedIsTraced, ChangeContext
<1>5. EvidenceIsTraced' BY DEF Inv, EvidenceIsTraced, ChangeContext
<1>6. AskedWithinStarts' BY DEF Inv, AskedWithinStarts, ChangeContext
<1>7. AllowWasScreened' BY DEF Inv, AllowWasScreened, ChangeContext
<1> QED BY <1>1, <1>2, <1>3, <1>4, <1>5, <1>6, <1>7 DEF Inv

LEMMA LapseCallInv == ASSUME Inv, NEW g \in GateNames, LapseCall(g) PROVE Inv'
<1> USE ScreeningAssumption DEF Change, environment, service, orchestrator, GateNames
<1>1. TypeOK'
  <2>1. calls' \in [GateNames -> CallRecords] BY Lapsing DEF LapseCall, Inv, TypeOK
  <2> QED BY <2>1 DEF Inv, TypeOK, CallRecords, RulingRecords, RunRecords, LapseCall, NoCall
<1>2. Shape' BY DEF Inv, TypeOK, Shape, LapseCall
<1>3. ReportsAreTraced' BY DEF Inv, ReportsAreTraced, LapseCall
<1>4. AdmittedIsTraced' BY DEF Inv, AdmittedIsTraced, LapseCall
<1>5. EvidenceIsTraced' BY DEF Inv, EvidenceIsTraced, LapseCall
<1>6. AskedWithinStarts' BY DEF Inv, AskedWithinStarts, LapseCall
<1>7. AllowWasScreened' BY DEF Inv, AllowWasScreened, LapseCall
<1> QED BY <1>1, <1>2, <1>3, <1>4, <1>5, <1>6, <1>7 DEF Inv

LEMMA WithdrawInv == ASSUME Inv, Withdraw PROVE Inv'
<1> USE ScreeningAssumption DEF Change, environment, service, orchestrator, GateNames
<1>1. TypeOK'
  <2>1. rulings' \in [GateNames -> RulingRecords] BY Unissuing DEF Withdraw, Unissued, Inv, TypeOK
  <2>2. /\ UNCHANGED <<boot, context, calls, runs, given, seen, starts>>
        /\ current' = FALSE /\ changes < MaxChanges /\ changes' = changes + 1
    BY DEF Withdraw
  <2>3. current' \in BOOLEAN BY <2>2, Zenon
  <2> QED BY <2>1, <2>2, <2>3, SameRecords DEF Inv, TypeOK
<1>2. Shape' BY DEF Inv, TypeOK, Shape, Withdraw
<1>3. ReportsAreTraced' BY DEF Inv, ReportsAreTraced, Withdraw
<1>4. AdmittedIsTraced' BY DEF Inv, AdmittedIsTraced, Withdraw
<1>5. EvidenceIsTraced' BY DEF Inv, EvidenceIsTraced, Withdraw
<1>6. AskedWithinStarts' BY DEF Inv, AskedWithinStarts, Withdraw
<1>7. AllowWasScreened' BY DEF Inv, AllowWasScreened, Withdraw, Unissued
<1> QED BY <1>1, <1>2, <1>3, <1>4, <1>5, <1>6, <1>7 DEF Inv

LEMMA RestartServiceInv == ASSUME Inv, RestartService PROVE Inv'
<1> USE ScreeningAssumption DEF Change, environment, service, orchestrator, GateNames
<1>1. TypeOK'
  <2>1. rulings' \in [GateNames -> RulingRecords'] 
    BY Unissuing DEF RestartService, Unissued, Inv, TypeOK, RulingRecords
  <2>2. runs' \in [Runs -> RunRecords']
    BY DEF RestartService, NoRun, Inv, TypeOK, RunRecords
  <2>3. calls' \in [GateNames -> CallRecords']
    BY DEF RestartService, Inv, TypeOK, CallRecords
  <2>4. /\ UNCHANGED <<context, given, seen, starts, calls>>
        /\ current' = FALSE /\ changes < MaxChanges /\ changes' = changes + 1 /\ boot' = boot + 1
    BY DEF RestartService
  <2>5. current' \in BOOLEAN BY <2>4, Zenon
  <2> QED BY <2>1, <2>2, <2>3, <2>4, <2>5 DEF Inv, TypeOK, Shape
<1>2. Shape' BY DEF Inv, TypeOK, Shape, RestartService
<1>3. ReportsAreTraced' BY DEF Inv, ReportsAreTraced, RestartService
<1>4. AdmittedIsTraced' BY DEF Inv, AdmittedIsTraced, RestartService
<1>5. EvidenceIsTraced' BY DEF EvidenceIsTraced, RestartService, NoRun
<1>6. AskedWithinStarts' BY DEF Inv, AskedWithinStarts, RestartService
<1>7. AllowWasScreened' BY DEF Inv, AllowWasScreened, RestartService, Unissued
<1> QED BY <1>1, <1>2, <1>3, <1>4, <1>5, <1>6, <1>7 DEF Inv

-----------------------------------------------------------------------------
(***************************************************************************)
(* The theorems.                                                           *)
(***************************************************************************)
LEMMA NextInv == Inv /\ [Next]_vars => Inv'
<1> SUFFICES ASSUME Inv, [Next]_vars PROVE Inv' OBVIOUS
<1>1. CASE \E r \in Runs : Progress(r)
  BY <1>1, ReadStatusInv, EnsureInv, ResolveInv, RuleInv DEF Progress
<1>2. CASE \E g \in GateNames : TakeUp(g) \/ LapseCall(g) BY <1>2, TakeUpInv, LapseCallInv
<1>3. CASE \E p \in reports : HandleReport(p) \/ LoseReport(p) BY <1>3, HandleReportInv, LoseReportInv
<1>4. CASE ChangeContext \/ Withdraw \/ RestartOrchestrator \/ RestartService
  BY <1>4, ChangeContextInv, WithdrawInv, RestartOrchestratorInv, RestartServiceInv
<1>5. CASE UNCHANGED vars
  BY <1>5 DEF vars, service, environment, orchestrator, Inv, TypeOK, CallRecords, RulingRecords, RunRecords,
    Shape, ReportsAreTraced, AdmittedIsTraced, EvidenceIsTraced, AskedWithinStarts, AllowWasScreened
<1> QED BY <1>1, <1>2, <1>3, <1>4, <1>5 DEF Next

\* What relates calls, reports, runs and rulings holds at every step of the gate loop, of
\* the provider and of either process, a restart and a lost report included.
THEOREM ScreeningInvariance == Spec => []Inv
BY InitInv, NextInv, PTL DEF Spec

\* Calls exist where they are needed and are bound to what has been; a start of the
\* orchestrator puts each to the provider once, however many requests hand it out.
THEOREM CallsAreInOrder == Spec => []CallsInOrder
<1>1. Inv => CallsInOrder BY DEF Inv, AskedWithinStarts, CallsInOrder, AskedOnce
<1> QED BY <1>1, ScreeningInvariance, PTL

\* A gate that requires screening allows only on a clean answer about what was in force
\* when it ruled, whatever ran beside it, was lost, late or restarted.
THEOREM AllowsWereScreened == Spec => []AllowWasScreened
<1>1. Inv => AllowWasScreened BY DEF Inv
<1> QED BY <1>1, ScreeningInvariance, PTL

\* A terminal answer is never replaced by another: it stays, or is invalidated.
THEOREM EvidenceStaysFinal == Spec => EvidenceIsFinal
<1> DEFINE Final(g) == calls[g].state \in {"admitted", "failed"} /\ calls'[g] # calls[g] =>
                         calls'[g].flagged = calls[g].flagged /\ calls'[g].state \in {calls[g].state, "failed"}
<1>1. ASSUME Inv, [Next]_vars, NEW g \in GateNames PROVE Final(g)
  <2> USE <1>1
  <2>0. calls \in [GateNames -> CallRecords] /\ runs \in [Runs -> RunRecords] BY DEF Inv, TypeOK
  <2>1. ASSUME NEW r \in Runs, Ensure(r) PROVE Final(g)
    BY <2>0, <2>1 DEF Ensure, Failed, Opened
  <2>2. ASSUME NEW r \in Runs, Rule(r) PROVE Final(g) BY <2>0, <2>2 DEF Rule, Expended, Failed, CallRecords
  <2>3. ASSUME NEW p \in reports, HandleReport(p) PROVE Final(g)
    BY <2>0, <2>3 DEF HandleReport, Reportable, Admitted, Failed
  <2>4. ASSUME NEW h \in GateNames, LapseCall(h) PROVE Final(g) BY <2>0, <2>4 DEF LapseCall
  <2>5. CASE UNCHANGED calls BY <2>5
  <2> QED BY <2>1, <2>2, <2>3, <2>4, <2>5
     DEF Next, Progress, ReadStatus, Resolve, TakeUp, LoseReport, ChangeContext, Withdraw, RestartOrchestrator,
         RestartService, vars, service
<1>2. Inv /\ [Next]_vars => [\A g \in GateNames : Final(g)]_vars BY <1>1
<1> QED BY <1>2, ScreeningInvariance, PTL DEF Spec, EvidenceIsFinal

================================================================================
