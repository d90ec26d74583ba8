------------------------------- MODULE Screening -------------------------------
(***************************************************************************)
(* Live screening of one native proposal: the gate loop of the             *)
(* authorization service pauses before Submit and Verify for a screening   *)
(* call, which the orchestrator takes to its provider (packages/gate-core/ *)
(* src/screeningCall.ts, proposalPrecommit.ts, authorizationCore.ts,       *)
(* evaluator.ts; packages/consoles/src/modelTurnCoordinator.ts).           *)
(*                                                                         *)
(* The route that runs the gate loop takes any number of requests: `runs`. *)
(* A run is several transactions: it reads its progress, ensures the call, *)
(* reads the evidence and rules; other runs, reports of the orchestrator   *)
(* and changes of what the call is bound to come in between.  `context`    *)
(* counts the changes of that binding: card, mandate, items, system use.   *)
(***************************************************************************)
EXTENDS Naturals, FiniteSets

CONSTANTS
    Required,       \* the gates whose allowing rule requires screening
    Runs,           \* the requests to run the gate loop
    MaxChanges      \* bound: changes of the context, time-outs, lost reports, restarts

Gates == <<"submit", "verify">>
GateNames == {"submit", "verify"}

ASSUME ScreeningAssumption == Required \subseteq GateNames /\ MaxChanges \in Nat

VARIABLES
    boot,           \* the start of the authorization service
    context,        \* what a screening call is bound to, as it is now
    current,        \* is the proposal current (assertProposalCurrent)
    calls,          \* the screening call of each gate
    rulings,        \* the ruling of each gate, and the contexts it was made in and on
    runs,           \* the progress of each run
    given,          \* the orchestrator: calls a run has handed to it,
    seen,           \* and calls its process has taken up
    said,           \* what the provider was asked about, and said
    reports,        \* reports on their way to the service
    starts,         \* starts of the orchestrator
    changes         \* how much of MaxChanges is used

service == <<boot, calls, rulings, runs>>
orchestrator == <<given, seen, said, starts>>
environment == <<context, current>>
vars == <<service, environment, orchestrator, reports, changes>>

NoCall == [state |-> "none", context |-> 0, boot |-> 0, overdue |-> FALSE, flagged |-> FALSE]
NoRuling == [verdict |-> "none", issued |-> FALSE, context |-> 0, evidence |-> 0]
NoRun == [stage |-> "none", gate |-> "submit", performed |-> FALSE, evidence |-> 0]

Change == changes < MaxChanges /\ changes' = changes + 1

\* #isCurrent
CallIsCurrent(g) == calls[g].boot = boot /\ ~calls[g].overdue /\ calls[g].context = context

-----------------------------------------------------------------------------
(***************************************************************************)
(* The gate loop.                                                          *)
(***************************************************************************)
Allowed(g) == rulings[g].issued /\ rulings[g].verdict = "allow"

\* #status: a gate that did not allow, or lost its ruling, ends the loop.
Ended == \E g \in GateNames : rulings[g].verdict # "none" /\ ~Allowed(g)

At(r, stage) == runs[r].stage = stage

Goes(r, stage) == runs' = [runs EXCEPT ![r].stage = stage]

\* The loop reads its progress before each gate.
ReadStatus(r) ==
    /\ At(r, "none") \/ At(r, "next")
    /\ LET open == {n \in 1..2 : ~Allowed(Gates[n])}
       IN runs' = [runs EXCEPT ![r] =
              IF Ended \/ open = {} THEN [runs[r] EXCEPT !.stage = "done"]
              ELSE [stage |-> "ensure", gate |-> Gates[CHOOSE n \in open : \A k \in open : n <= k],
                    performed |-> FALSE, evidence |-> 0]]
    /\ UNCHANGED <<boot, calls, rulings, environment, orchestrator, reports, changes>>

Failed(g) == [calls EXCEPT ![g].state = "failed"]

\* Mutant of NeedsScreening: a call is opened for every gate of the loop.
NeedsScreeningAlways(g) == g \in GateNames

\* required: the allowing rule of the gate asks for it.
NeedsScreening(g) == g \in Required

Opened(g, state) ==
    [calls EXCEPT ![g] = [state |-> state, context |-> context, boot |-> boot, overdue |-> FALSE, flagged |-> FALSE]]

\* ensure: an open call that is current is handed out again, one that is not fails; a
\* call whose projection cannot be made is not opened, one without items fails at once.
Ensure(r) ==
    LET g == runs[r].gate
    IN /\ At(r, "ensure")
       /\ CASE ~current -> Goes(r, "done") /\ UNCHANGED <<calls, given>>
            [] current /\ ~NeedsScreening(g) -> Goes(r, "resolve") /\ UNCHANGED <<calls, given>>
            [] current /\ NeedsScreening(g) /\ calls[g].state \in {"admitted", "failed"} ->
                  Goes(r, "resolve") /\ UNCHANGED <<calls, given>>
            [] current /\ NeedsScreening(g) /\ calls[g].state = "open" /\ CallIsCurrent(g) ->
                  Goes(r, "done") /\ given' = given \cup {g} /\ UNCHANGED calls
            [] current /\ NeedsScreening(g) /\ calls[g].state = "open" /\ ~CallIsCurrent(g) ->
                  Goes(r, "resolve") /\ calls' = Failed(g) /\ UNCHANGED given
            [] OTHER ->
                  \/ Goes(r, "done") /\ calls' = Opened(g, "open") /\ given' = given \cup {g}
                  \/ Goes(r, "resolve") /\ calls' = Opened(g, "failed") /\ UNCHANGED given
                  \/ Goes(r, "resolve") /\ UNCHANGED <<calls, given>>
       /\ UNCHANGED <<boot, rulings, environment, seen, said, starts, reports, changes>>

\* resolve: evidence is read from a snapshot, before the ruling takes the lock.
Resolve(r) ==
    LET call == calls[runs[r].gate]
    IN /\ At(r, "resolve")
       /\ runs' = [runs EXCEPT ![r] = [stage |-> "rule", gate |-> runs[r].gate, performed |-> call.state = "admitted",
                                       evidence |-> IF call.state = "admitted" THEN call.context ELSE 0]]
       /\ UNCHANGED <<boot, calls, rulings, environment, orchestrator, reports, changes>>

\* Mutant of Valid: the snapshot is trusted once the lock is held.
ValidOnTrust(r) == runs[r].performed

\* validate: the evidence is that of the call, and the call is still current.
Valid(r) ==
    LET g == runs[r].gate
    IN runs[r].performed /\ calls[g].state = "admitted" /\ CallIsCurrent(g)

\* evaluatePolicy, for a proposal some rule allows: a signal escalates, and so does a
\* required screening that is missing.
Verdict(g, screened) ==
    CASE screened /\ calls[g].flagged -> "escalate"
      [] ~screened /\ g \in Required -> "escalate"
      [] OTHER -> "allow"

\* An admitted call that is no longer current is invalidated by the ruling that finds it.
Expended(r) ==
    LET g == runs[r].gate
    IN IF g \in Required /\ calls[g].state = "admitted" /\ ~CallIsCurrent(g) THEN Failed(g) ELSE calls

\* Mutant of Ruled: a ruling whose evidence was lost is tried again.
RuledWithEvidenceOnly(r) == IF runs[r].performed /\ ~Valid(r) THEN "rule" ELSE "next"

\* The gate loop goes on with the next gate, or ends at the next status.
Ruled(r) == "next"

\* ruleProposalWithCurrentness: an issued ruling of the gate is returned as it is; any
\* other rule of the policy may deny or escalate.
Rule(r) ==
    LET g == runs[r].gate
        screened == g \in Required /\ Valid(r)
        Ruling(verdict) == [verdict |-> verdict, issued |-> TRUE, context |-> context,
                            evidence |-> IF screened THEN runs[r].evidence ELSE 0]
    IN /\ At(r, "rule")
       /\ IF ~current THEN Goes(r, "done") /\ UNCHANGED <<calls, rulings>>
          ELSE IF rulings[g].issued THEN Goes(r, "next") /\ UNCHANGED <<calls, rulings>>
          ELSE /\ \E verdict \in {Verdict(g, screened), "deny"} :
                     rulings' = IF Ruled(r) = "next" THEN [rulings EXCEPT ![g] = Ruling(verdict)] ELSE rulings
               /\ calls' = Expended(r)
               /\ Goes(r, Ruled(r))
       /\ UNCHANGED <<boot, environment, orchestrator, reports, changes>>

-----------------------------------------------------------------------------
(***************************************************************************)
(* The orchestrator and its provider.                                      *)
(***************************************************************************)
\* Mutant of Takeable: a call is taken up as often as it is handed out.
TakeableAgain(g) == g \in given

Takeable(g) == g \in given \ seen

Report(g, kind, flagged) == [gate |-> g, kind |-> kind, flagged |-> flagged, asked |-> calls[g].context]

\* runScreening: one attempt; without a lane the call fails before anything is sent.
TakeUp(g) ==
    /\ Takeable(g)
    /\ given' = given \ {g} /\ seen' = seen \cup {g}
    /\ \/ \E report \in {Report(g, "output", TRUE), Report(g, "output", FALSE), Report(g, "refused", FALSE)} :
             /\ said' = [said EXCEPT ![g] = [asked |-> said[g].asked + 1,
                                            clean |-> said[g].clean \cup (IF report = Report(g, "output", FALSE)
                                                                    THEN {calls[g].context} ELSE {})]]
             /\ reports' = reports \cup {report}
       \/ reports' = reports \cup {Report(g, "refused", FALSE)} /\ UNCHANGED said
    /\ UNCHANGED <<service, environment, starts, changes>>

\* Mutant of Reportable: the last report of a call is the one that counts.
ReportableAgain(report) == calls[report.gate].state # "none"

Reportable(report) == calls[report.gate].state = "open"

\* admit: served by the model that was asked, in time, for what still is.
Admissible(report) == report.kind = "output" /\ CallIsCurrent(report.gate)

Admitted(g, flagged) == [calls EXCEPT ![g].state = "admitted", ![g].flagged = flagged]

\* admit and fail: terminal evidence stays; an output is admitted or fails the call.
HandleReport(report) ==
    /\ reports' = reports \ {report}
    /\ LET g == report.gate
       IN calls' = IF ~Reportable(report) THEN calls
                   ELSE IF Admissible(report) THEN Admitted(g, report.flagged)
                   ELSE Failed(g)
    /\ UNCHANGED <<boot, rulings, runs, environment, orchestrator, changes>>

LoseReport(report) ==
    /\ Change
    /\ reports' = reports \ {report}
    /\ UNCHANGED <<service, environment, orchestrator>>

RestartOrchestrator ==
    /\ Change
    /\ given' = {} /\ seen' = {} /\ starts' = starts + 1
    /\ UNCHANGED <<service, environment, said, reports>>

-----------------------------------------------------------------------------
(***************************************************************************)
(* The environment.                                                        *)
(***************************************************************************)
\* A card, a stored item or the system-use decision the call was bound to.
ChangeContext ==
    /\ Change
    /\ context' = context + 1
    /\ UNCHANGED <<current, service, orchestrator, reports>>

LapseCall(g) ==
    /\ Change
    /\ calls[g].state = "open" \/ calls[g].state = "admitted"
    /\ ~calls[g].overdue
    /\ calls' = [calls EXCEPT ![g].overdue = TRUE]
    /\ UNCHANGED <<boot, rulings, runs, environment, orchestrator, reports>>

Unissued == [g \in GateNames |-> [rulings[g] EXCEPT !.issued = FALSE]]

\* The proposal loses its currentness, and its rulings with it.
Withdraw ==
    /\ Change
    /\ current /\ current' = FALSE
    /\ rulings' = Unissued
    /\ UNCHANGED <<boot, context, calls, runs, orchestrator, reports>>

\* A restart of the authorization service ends the proposals of the starts before it.
RestartService ==
    /\ Change
    /\ boot' = boot + 1
    /\ current' = FALSE
    /\ rulings' = Unissued
    /\ runs' = [r \in Runs |-> IF At(r, "none") THEN NoRun ELSE [runs[r] EXCEPT !.stage = "done"]]
    /\ UNCHANGED <<context, calls, orchestrator, reports>>

Init ==
    /\ boot = 1 /\ context = 1 /\ current = TRUE
    /\ calls = [g \in GateNames |-> NoCall] /\ rulings = [g \in GateNames |-> NoRuling]
    /\ runs = [r \in Runs |-> NoRun]
    /\ given = {} /\ seen = {} /\ said = [g \in GateNames |-> [asked |-> 0, clean |-> {}]]
    /\ reports = {} /\ starts = 1 /\ changes = 0

Progress(r) == ReadStatus(r) \/ Ensure(r) \/ Resolve(r) \/ Rule(r)

Next ==
    \/ \E r \in Runs : Progress(r)
    \/ \E g \in GateNames : TakeUp(g) \/ LapseCall(g)
    \/ \E report \in reports : HandleReport(report) \/ LoseReport(report)
    \/ ChangeContext \/ Withdraw \/ RestartOrchestrator \/ RestartService

Spec == Init /\ [][Next]_vars

\* A run that has begun goes on: it awaits only transactions.
FairSpec == Spec /\ \A r \in Runs : WF_vars(Progress(r) /\ ~At(r, "none"))

================================================================================
