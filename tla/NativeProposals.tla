-------------------------- MODULE NativeProposals --------------------------
(***************************************************************************)
(* The native proposals of one case: a model call answers with a draft,    *)
(* its intake freezes the draft as a proposal, the gate loop asks for the  *)
(* three precommit rulings, a dialogue response lets a revision of it be   *)
(* prepared, and an execution preparation carries the verified proposal to *)
(* its Commit ruling (packages/gate-core/src/proposalIntake.ts,            *)
(* proposalPrecommit.ts, executionPreparation.ts, conversationInvalidation *)
(* .ts and their operations in state.ts).                                  *)
(*                                                                         *)
(* A proposal run is a record: the revision preparation it starts from, if *)
(* it revises a proposal, its model call, its intake and the proposal      *)
(* frozen from it.  Every authority fact a record is bound to (selection,  *)
(* mandate, policy, card, system-use decision) is one number, and so is    *)
(* the state of the conversation.  What becomes overdue is in `lapsed`.    *)
(* What the policy decides is nondeterministic: AuthorizationCore has the  *)
(* rulings in full.                                                        *)
(***************************************************************************)
EXTENDS Naturals, FiniteSets, Sequences, FiniteSetsExt

CONSTANTS
    MaxSessions,    \* bound: case sessions, numbered as they are redeemed
    MaxLoops,       \* bound: requests that drive the gate loop side by side
    MaxFirst,       \* bound: proposal runs that revise nothing
    MaxRuns,        \* bound: proposal runs
    MaxPreparations,\* bound: execution preparations
    MaxChanges,     \* bound: changes of the conversation and the authority, sessions that
                    \* end, records that become overdue, restarts and further gate loops
    MaxIssues       \* bound: rulings of one gate of one proposal

ASSUME ProposalsAssumption ==
    {MaxSessions, MaxLoops, MaxFirst, MaxRuns, MaxPreparations, MaxChanges, MaxIssues} \subseteq Nat

VARIABLES
    boot,           \* the current start of the service
    version,        \* version of the conversation
    governance,     \* the authority facts in force
    receipts,       \* session provenance
    runs,           \* proposal runs, in the order of their creation
    preparations,   \* execution preparations, likewise
    loops           \* where each caller is in the gate loop

vars == <<boot, version, governance, receipts, runs, preparations, loops>>

Sessions == 1..MaxSessions
Callers == 1..MaxLoops
Gates == {"authorize", "submit", "verify"}
Following == [authorize |-> "submit", submit |-> "verify"]
Verdicts == {"allow", "deny", "escalate"}
NoRuling == [serial |-> 0, verdict |-> "none", status |-> "none"]
Idle == [run |-> 0, gate |-> "none", stage |-> "idle"]

Frozen == {i \in DOMAIN runs : runs[i].intake = "consumed"}

\* The proposals of the action that run i's proposal belongs to.
SameAction(i) == {j \in Frozen : runs[j].action = runs[i].action}

\* Mutant of LatestRevision: the revision of the source counts, not the action's latest.
LatestRevisionOfSource(i) == runs[i].revision

LatestRevision(i) == Max({runs[j].revision : j \in SameAction(i)})

\* An issued record ends.
End(state, to) == IF state = "issued" THEN to ELSE state

Receipt(s) == receipts[s] = "active"

\* How many records and rulings have become overdue by themselves.
Lapses ==
    Cardinality(UNION {{i} \X runs[i].lapsed : i \in DOMAIN runs})
        + Cardinality({x \in DOMAIN preparations : preparations[x].lapsed})

\* One more change of the conversation, of the authority, of a session, of the
\* process or of what is overdue, or one more gate loop beside another.
Busy == {c \in Callers : loops[c] # Idle}
MayChange ==
    version + governance + boot + Cardinality({s \in Sessions : receipts[s] = "ended"}) + Lapses
        + Max({1, Cardinality(Busy)}) < MaxChanges + 4

-----------------------------------------------------------------------------
(***************************************************************************)
(* Eager invalidation, as operators on the runs and the preparations.      *)
(***************************************************************************)
EndRulings(run, to, G) == [run EXCEPT !.gates =
    [g \in Gates |-> IF g \in G THEN [run.gates[g] EXCEPT !.status = End(@, to)] ELSE run.gates[g]]]

\* proposalIntakeInvalidationOps and proposalRevisionPreparationInvalidationOps
EndAttempt(run) == [run EXCEPT !.intake = End(@, "invalidated"), !.prep = End(@, "invalidated")]

\* executionPreparationInvalidationOps, for the preparations of the sessions S
EndPreparations(S) ==
    [x \in DOMAIN preparations |->
        IF preparations[x].session \in S
        THEN [preparations[x] EXCEPT !.state = End(@, "invalidated")] ELSE preparations[x]]

EndAll(rs) == [i \in DOMAIN rs |-> EndRulings(EndAttempt(rs[i]), "invalidated", Gates)]

\* conversationMutationInvalidationOps: whatever changes the conversation ends
\* everything that was issued for what it said before.
Mutation(rs) ==
    /\ MayChange
    /\ version' = version + 1
    /\ runs' = EndAll(rs)
    /\ preparations' = EndPreparations(Sessions)

ConversationChanges ==
    /\ Mutation(runs)
    /\ UNCHANGED <<boot, governance, receipts, loops>>

\* selectModel ends the calls of the selection before it.
EndCalls(rs) == [i \in DOMAIN rs |-> IF rs[i].call = "open" THEN [rs[i] EXCEPT !.call = "failed"] ELSE rs[i]]

\* A new selection, and likewise a new policy, mandate version or system-use decision,
\* ends what was issued under the old one, eagerly; a withdrawn card or the end of a
\* mandate's window ends nothing, and is found by the next check.
GovernanceChanges(what) ==
    /\ MayChange
    /\ governance' = governance + 1
    /\ IF what = "unseen" THEN UNCHANGED <<runs, preparations>>
       ELSE /\ runs' = EndAll(IF what = "selection" THEN EndCalls(runs) ELSE runs)
            /\ preparations' = EndPreparations(Sessions)
    /\ UNCHANGED <<boot, version, receipts, loops>>

-----------------------------------------------------------------------------
(***************************************************************************)
(* Sessions.                                                               *)
(***************************************************************************)
\* The orchestrator redeems each handoff for a session id of its own making.
Redeem(s) ==
    /\ receipts[s] = "none" /\ \A t \in 1..(s - 1) : receipts[t] # "none"
    /\ receipts' = [receipts EXCEPT ![s] = "active"]
    /\ UNCHANGED <<boot, version, governance, runs, preparations, loops>>

EndRevisions(rs, S) ==
    [i \in DOMAIN rs |-> IF rs[i].session \in S THEN [rs[i] EXCEPT !.prep = End(@, "invalidated")] ELSE rs[i]]

CloseSession(s) ==
    /\ Receipt(s) /\ MayChange
    /\ receipts' = [receipts EXCEPT ![s] = "ended"]
    /\ runs' = EndRevisions(runs, {s})
    /\ preparations' = EndPreparations({s})
    /\ UNCHANGED <<boot, version, governance, loops>>

\* No preparation outlives the receipt it was issued to.
ReceiptLapses(s) ==
    /\ Receipt(s) /\ MayChange
    /\ receipts' = [receipts EXCEPT ![s] = "ended"]
    /\ runs' = [i \in DOMAIN runs |->
                  IF runs[i].session = s THEN [runs[i] EXCEPT !.lapsed = @ \cup {"prep"}] ELSE runs[i]]
    /\ preparations' = [x \in DOMAIN preparations |->
                          IF preparations[x].session = s THEN [preparations[x] EXCEPT !.lapsed = TRUE]
                          ELSE preparations[x]]
    /\ UNCHANGED <<boot, version, governance, loops>>

-----------------------------------------------------------------------------
(***************************************************************************)
(* Proposal runs: revision preparation, model call, intake.                *)
(***************************************************************************)
\* A revision belongs to the action of its source, a first proposal to one of its own.
NewRun(s, source, action, prep, call, revision) ==
    [source |-> source, action |-> action, prep |-> prep, call |-> call, intake |-> "none",
     session |-> s, boot |-> boot, version |-> version, governance |-> governance,
     lapsed |-> {}, revision |-> revision, gates |-> [g \in Gates |-> NoRuling],
     escalation |-> "none", successor |-> 0, commit |-> "none"]

\* The facts that every native currentness check compares.
FactsCurrent(i) ==
    /\ runs[i].boot = boot /\ runs[i].version = version /\ runs[i].governance = governance
    /\ Receipt(runs[i].session)

\* The source's Verify escalation was answered and has no successor.
Continuable(i) ==
    /\ i \in Frozen /\ runs[i].gates["verify"].verdict = "escalate"
    /\ runs[i].escalation = "answered" /\ runs[i].successor = 0

\* #assertRevisionPreparationCurrent
RevisionCurrent(i) ==
    /\ runs[i].prep \in {"issued", "consumed"} /\ "prep" \notin runs[i].lapsed
    /\ FactsCurrent(i)
    /\ Continuable(runs[i].source)
    /\ runs[i].revision = LatestRevision(runs[i].source) + 1

\* proposalRevisionPreparationBlocksReplacement
Blocks(i) ==
    LET live == "prep" \notin runs[i].lapsed
        rulings == {runs[i].gates[g] : g \in Gates} \ {NoRuling}
    IN  \/ runs[i].prep = "issued" /\ live
        \/ /\ runs[i].prep = "consumed"
           /\ \/ runs[i].call = "open" /\ live
              \/ /\ runs[i].call = "admitted"
                 /\ \/ runs[i].intake = "issued" /\ live
                    \/ runs[i].intake = "invalidated"
                    \/ /\ runs[i].intake = "consumed"
                       /\ \A r \in rulings : r.status \notin {"invalidated", "expired"}
                       /\ \A r \in rulings : r.verdict = "allow"
                       /\ runs[i].gates["verify"].verdict # "allow"

\* The attempts to revise i's proposal on the conversation as it is now.
Attempts(i) == {j \in DOMAIN runs : runs[j].source = i /\ runs[j].prep # "none" /\ runs[j].version = version}

\* Mutant of Replaceable: only an issued preparation stands in the way.
ReplaceableWhenConsumed(i) == \A j \in Attempts(i) : runs[j].prep # "issued" \/ "prep" \in runs[j].lapsed

Replaceable(i) == \A j \in Attempts(i) : ~Blocks(j)

\* A live preparation is returned to its own session and refused to another:
\* neither changes anything.
PrepareRevision(i, s) ==
    /\ Len(runs) < MaxRuns
    /\ Receipt(s) /\ Continuable(i)
    /\ Replaceable(i)
    /\ runs' = Append(runs, NewRun(s, i, runs[i].action, "issued", "none", LatestRevision(i) + 1))
    /\ UNCHANGED <<boot, version, governance, receipts, preparations, loops>>

\* A first proposal of the case is asked of the model.
BeginCall(s) ==
    /\ Len(runs) < MaxRuns
    /\ Cardinality({i \in DOMAIN runs : runs[i].source = 0}) < MaxFirst
    /\ Receipt(s)
    /\ runs' = Append(runs, NewRun(s, 0, Len(runs) + 1, "none", "open", 1))
    /\ UNCHANGED <<boot, version, governance, receipts, preparations, loops>>

\* Mutant of BeginRevisionCall: the preparation stays issued.
BeginRevisionCallUnconsumed(i) ==
    /\ runs[i].prep = "issued" /\ RevisionCurrent(i)
    /\ runs' = [runs EXCEPT ![i].call = "open"]
    /\ UNCHANGED <<boot, version, governance, receipts, preparations, loops>>

\* prepareRevisionCall: the preparation is consumed as the call is opened.
BeginRevisionCall(i) ==
    /\ runs[i].prep = "issued" /\ RevisionCurrent(i)
    /\ runs' = [runs EXCEPT ![i].prep = "consumed", ![i].call = "open"]
    /\ UNCHANGED <<boot, version, governance, receipts, preparations, loops>>

\* What both an admission and a consumption require of the run.
RunCurrent(i) == FactsCurrent(i) /\ (runs[i].source # 0 => RevisionCurrent(i))

\* prepareIntake: an answer is admitted with its intake, or not at all.
AdmitAnswer(i) ==
    /\ runs[i].call = "open" /\ "call" \notin runs[i].lapsed
    /\ RunCurrent(i)
    /\ runs' = [runs EXCEPT ![i].call = "admitted", ![i].intake = "issued"]
    /\ UNCHANGED <<boot, version, governance, receipts, preparations, loops>>

\* The provider fails, or the answer is withheld; nobody ends a call that is overdue
\* or of an earlier boot.
CallFails(i) ==
    /\ runs[i].call = "open" /\ "call" \notin runs[i].lapsed /\ runs[i].boot = boot
    /\ runs' = [runs EXCEPT ![i].call = "failed"]
    /\ UNCHANGED <<boot, version, governance, receipts, preparations, loops>>

\* #isCurrent
IntakeCurrent(i) == "intake" \notin runs[i].lapsed /\ RunCurrent(i)

\* proposal.freeze, proposal_origin.put and proposal_intake.consume apply
\* together or not at all: the frozen revision must be the next of its action.
Freezable(i) ==
    /\ runs[i].revision = IF runs[i].source = 0 THEN 1 ELSE LatestRevision(runs[i].source) + 1
    /\ runs[i].governance = governance /\ "intake" \notin runs[i].lapsed

\* Content other than the admitted output is refused before anything else is
\* looked at.  Then an intake whose binding is no longer current is invalidated,
\* one that is not a draft is refused, and a draft freezes a proposal.
Contents == {"draft", "malformed", "other"}

ConsumeIntake(i, content) ==
    /\ runs[i].intake = "issued"
    /\ IntakeCurrent(i) /\ content = "draft" => Freezable(i)
    /\ runs' = [runs EXCEPT ![i].intake =
                  CASE content = "other" -> "refused"
                    [] content # "other" /\ ~IntakeCurrent(i) -> "invalidated"
                    [] OTHER -> IF content = "draft" THEN "consumed" ELSE "refused"]
    /\ UNCHANGED <<boot, version, governance, receipts, preparations, loops>>

-----------------------------------------------------------------------------
(***************************************************************************)
(* The gate loop.                                                          *)
(***************************************************************************)
\* assertProposalCurrent: a continuation is current until its source has a
\* successor, whoever that is.
ProposalCurrent(i) ==
    /\ i \in Frozen /\ FactsCurrent(i)
    /\ runs[i].source # 0 => /\ runs[i].prep = "consumed"
                             /\ runs[runs[i].source].escalation = "answered"
                             /\ runs[runs[i].source].successor = 0

Status(i) ==
    LET latest == {g \in Gates : runs[i].gates[g] # NoRuling}
        active == {g \in latest : runs[i].gates[g].status = "issued"}
    IN  IF \E g \in active : runs[i].gates[g].verdict # "allow" THEN "refused"
        ELSE IF active = Gates THEN "verified"
        ELSE IF active # latest THEN "failed" ELSE "frozen"

StartLoop(c, i) ==
    /\ loops[c] = Idle /\ 1..(c - 1) \subseteq Busy
    /\ i \in Frozen /\ Status(i) = "frozen"
    /\ Busy = {} \/ MayChange
    /\ loops' = [loops EXCEPT ![c] = [run |-> i, gate |-> "authorize", stage |-> "rule"]]
    /\ UNCHANGED <<boot, version, governance, receipts, runs, preparations>>

\* The screening answers that a gate asks for are not there yet, or the
\* proposal is no longer current when its turn has come.
LeaveLoop(c) ==
    /\ loops[c].stage = "rule"
    /\ loops[c].gate # "authorize" \/ ~ProposalCurrent(loops[c].run)
    /\ loops' = [loops EXCEPT ![c] = Idle]
    /\ UNCHANGED <<boot, version, governance, receipts, runs, preparations>>

\* A new ruling, with a window of its own, invalidates the issued rulings of the action's
\* other revisions.
IssueRuling(i, g, v) ==
    [j \in DOMAIN runs |->
        IF j = i THEN [runs[i] EXCEPT !.gates[g] = [serial |-> @.serial + 1, verdict |-> v, status |-> "issued"],
                                      !.escalation = IF v = "escalate" THEN "open" ELSE @,
                                      !.lapsed = @ \ {g}]
        ELSE IF j \in SameAction(i) THEN EndRulings(runs[j], "invalidated", Gates) ELSE runs[j]]

\* Mutant of Claim: the source's ruling is linked, its sibling attempts live on.
ClaimSparingSiblings(rs, i) == [rs EXCEPT ![rs[i].source].successor = i]

\* The continuation becomes the successor, and its sibling attempts end.
Claim(rs, i) ==
    [j \in DOMAIN rs |->
        IF j = rs[i].source THEN [rs[j] EXCEPT !.successor = i]
        ELSE IF rs[j].source = rs[i].source THEN [rs[j] EXCEPT !.prep = End(@, "invalidated")] ELSE rs[j]]

Claims(i, g, v) == runs[i].source # 0 /\ (v = "escalate" \/ (g = "verify" /\ v = "allow"))

\* ruleProposalWithCurrentness: an issued ruling of the gate is returned as it
\* is.  An escalation may complete a pattern that suspends the mandate in the
\* same transaction.
RuleGate(c, v, narrows) ==
    LET i == loops[c].run
        g == loops[c].gate
        issued == runs[i].gates[g].status = "issued"
        verdict == IF issued THEN runs[i].gates[g].verdict ELSE v
        ruled == IF issued THEN runs ELSE IssueRuling(i, g, v)
        claimed == IF Claims(i, g, verdict) THEN Claim(ruled, i) ELSE ruled
    IN  /\ loops[c].stage = "rule"
        /\ ProposalCurrent(i)
        /\ issued => v = runs[i].gates[g].verdict
        /\ ~issued => runs[i].gates[g].serial < MaxIssues
        /\ narrows => v = "escalate" /\ ~issued /\ MayChange
        /\ runs' = IF narrows THEN EndAll(claimed) ELSE claimed
        /\ governance' = IF narrows THEN governance + 1 ELSE governance
        /\ loops' = [loops EXCEPT ![c].stage = "look"]
        /\ UNCHANGED <<boot, version, receipts, preparations>>

\* Back from the ruling, the loop reads the state again: it goes on to the next
\* gate after an issued allow, and only while nothing else has failed.
LookAgain(c) ==
    LET i == loops[c].run
        g == loops[c].gate
        ruling == runs[i].gates[g]
    IN  /\ loops[c].stage = "look"
        /\ loops' = [loops EXCEPT ![c] =
                IF /\ ruling.status = "issued" /\ ruling.verdict = "allow"
                   /\ g # "verify" /\ Status(i) = "frozen"
                THEN [run |-> i, gate |-> Following[g], stage |-> "rule"] ELSE Idle]
        /\ UNCHANGED <<boot, version, governance, receipts, runs, preparations>>

EndEscalated(run) ==
    EndRulings(run, "invalidated", {g \in Gates : run.gates[g].verdict = "escalate"})

\* A dialogue response that can be continued is written into the conversation.
Answer(i) ==
    /\ runs[i].escalation = "open" /\ runs[i].gates["verify"].verdict = "escalate"
    /\ Mutation([runs EXCEPT ![i] = [EndEscalated(runs[i]) EXCEPT !.escalation = "answered"]])
    /\ UNCHANGED <<boot, governance, receipts, loops>>

\* Any other disposition, or the time-out.
CloseEscalation(i) ==
    /\ runs[i].escalation = "open"
    /\ runs' = [runs EXCEPT ![i] = [EndEscalated(runs[i]) EXCEPT !.escalation = "closed"]]
    /\ UNCHANGED <<boot, version, governance, receipts, preparations, loops>>

-----------------------------------------------------------------------------
(***************************************************************************)
(* Execution preparations.                                                 *)
(***************************************************************************)
\* An issued allow at each gate, none of them past its window.
Allowed(i) == \A g \in Gates : /\ runs[i].gates[g].status = "issued" /\ runs[i].gates[g].verdict = "allow"
                               /\ g \notin runs[i].lapsed

Serials(i) == [g \in Gates |-> runs[i].gates[g].serial]

\* Mutant of Uncommitted: a Commit ruling that was refused is not in the way.
UncommittedUnlessAllowed(i) == runs[i].commit # "allow"

\* No Commit ruling of the proposal, whatever its verdict.
Uncommitted(i) == runs[i].commit = "none"

Executable(i) ==
    /\ ProposalCurrent(i) /\ Allowed(i) /\ Uncommitted(i)
    /\ runs[i].revision = LatestRevision(i)

Live(p) == p.state = "issued" /\ ~p.lapsed /\ p.boot = boot

\* A live preparation is returned to its own session and refused to another; an
\* issued one that is overdue or of an earlier boot expires as the next is issued.
IssuePreparation(i, s) ==
    /\ Len(preparations) < MaxPreparations
    /\ ~\E x \in DOMAIN preparations : preparations[x].run = i /\ Live(preparations[x])
    /\ Executable(i) /\ runs[i].session = s
    /\ preparations' = Append(
            [x \in DOMAIN preparations |-> IF preparations[x].run = i
                THEN [preparations[x] EXCEPT !.state = End(@, "expired")] ELSE preparations[x]],
            [run |-> i, session |-> s, boot |-> boot, rulings |-> Serials(i), lapsed |-> FALSE,
             state |-> "issued", verdict |-> "none"])
    /\ UNCHANGED <<boot, version, governance, receipts, runs, loops>>

\* Mutant of Consumable: the preparation is believed, its bindings not checked.
ConsumableOnTrust(x) == Live(preparations[x])

\* #assertCurrent
Consumable(x) ==
    LET p == preparations[x]
    IN  Live(p) /\ Executable(p.run) /\ p.rulings = Serials(p.run) /\ Receipt(p.session)

\* The Commit ruling, the commitment and the end of the preparation are one
\* transaction; a consumed preparation only repeats its recorded result.
\* nativeCommitVerify: the Commit ruling, and with it the end of the other revisions' rulings.
Committed(i, v) ==
    [j \in DOMAIN runs |->
        IF j = i THEN [runs[i] EXCEPT !.commit = v]
        ELSE IF j \in SameAction(i) THEN EndRulings(runs[j], "invalidated", Gates) ELSE runs[j]]

CommitVerify(x, v) ==
    /\ Consumable(x)
    /\ preparations' = [preparations EXCEPT ![x].state = "consumed", ![x].verdict = v]
    /\ runs' = Committed(preparations[x].run, v)
    /\ UNCHANGED <<boot, version, governance, receipts, loops>>

-----------------------------------------------------------------------------
(***************************************************************************)
(* Time, maintenance and restarts.                                         *)
(***************************************************************************)
Issued(run, what) ==
    CASE what = "prep" -> run.prep \in {"issued", "consumed"} /\ run.intake \notin {"consumed", "refused"}
      [] what = "call" -> run.call = "open"
      [] what = "intake" -> run.intake = "issued"
      [] OTHER -> run.gates[what].status = "issued"

RunLapses(i, what) ==
    /\ MayChange
    /\ Issued(runs[i], what) /\ what \notin runs[i].lapsed
    /\ runs' = [runs EXCEPT ![i].lapsed = @ \cup {what}]
    /\ UNCHANGED <<boot, version, governance, receipts, preparations, loops>>

PreparationLapses(x) ==
    /\ MayChange
    /\ preparations[x].state = "issued" /\ ~preparations[x].lapsed
    /\ preparations' = [preparations EXCEPT ![x].lapsed = TRUE]
    /\ UNCHANGED <<boot, version, governance, receipts, runs, loops>>

\* Mutant of ExpireRun: records of an earlier boot are left as they are.
ExpireOwnRun(run, b) ==
    [run EXCEPT !.intake = IF run.boot = b /\ "intake" \in run.lapsed THEN End(@, "expired") ELSE @,
                !.prep = IF run.boot = b /\ "prep" \in run.lapsed THEN End(@, "expired") ELSE @]

\* ProposalIntakeService.expire in boot b
ExpireRun(run, b) ==
    IF run.boot # b
    THEN EndRulings(EndAttempt(run), "invalidated", IF run.intake = "consumed" THEN Gates ELSE {})
    ELSE [run EXCEPT !.intake = IF "intake" \in run.lapsed THEN End(@, "expired") ELSE @,
                     !.prep = IF "prep" \in run.lapsed THEN End(@, "expired") ELSE @]

\* The sweeper expires the rulings whose window has passed.
SweepRun(run) == EndRulings(run, "expired", run.lapsed \cap Gates)

\* ExecutionPreparationService.expire in boot b
ExpirePreparation(p, b) ==
    IF p.lapsed \/ p.boot # b THEN [p EXCEPT !.state = End(@, "expired")] ELSE p

\* The receipts that have lapsed take their revision preparations with them.
Ended == {s \in Sessions : ~Receipt(s)}

Maintain ==
    /\ runs' = EndRevisions([i \in DOMAIN runs |-> SweepRun(ExpireRun(runs[i], boot))], Ended)
    /\ preparations' = [x \in DOMAIN preparations |-> ExpirePreparation(preparations[x], boot)]
    /\ UNCHANGED <<boot, version, governance, receipts, loops>>

\* A new process runs the same passes before it serves anyone.
Restart ==
    /\ MayChange
    /\ boot' = boot + 1
    /\ runs' = [i \in DOMAIN runs |-> SweepRun(ExpireRun(runs[i], boot + 1))]
    /\ preparations' = [x \in DOMAIN preparations |-> ExpirePreparation(preparations[x], boot + 1)]
    /\ loops' = [c \in Callers |-> Idle]
    /\ receipts' = [s \in Sessions |-> IF Receipt(s) THEN "lost" ELSE receipts[s]]
    /\ UNCHANGED <<version, governance>>

-----------------------------------------------------------------------------
Init ==
    /\ boot = 1 /\ version = 1 /\ governance = 1
    /\ receipts = [s \in Sessions |-> "none"]
    /\ runs = <<>> /\ preparations = <<>>
    /\ loops = [c \in Callers |-> Idle]

Next ==
    \/ ConversationChanges
    \/ \E what \in {"selection", "authority", "unseen"} : GovernanceChanges(what)
    \/ \E s \in Sessions :
        \/ Redeem(s) \/ CloseSession(s) \/ ReceiptLapses(s) \/ BeginCall(s)
        \/ \E i \in DOMAIN runs : PrepareRevision(i, s) \/ IssuePreparation(i, s)
    \/ \E i \in DOMAIN runs :
        \/ BeginRevisionCall(i) \/ AdmitAnswer(i) \/ CallFails(i)
        \/ \E content \in Contents : ConsumeIntake(i, content)
        \/ Answer(i) \/ CloseEscalation(i)
        \/ \E what \in {"prep", "call", "intake"} \cup Gates : RunLapses(i, what)
        \/ \E c \in Callers : StartLoop(c, i)
    \/ \E c \in Callers :
        \/ LeaveLoop(c) \/ LookAgain(c)
        \/ \E v \in Verdicts, narrows \in BOOLEAN : RuleGate(c, v, narrows)
    \/ \E x \in DOMAIN preparations :
        \/ PreparationLapses(x)
        \/ \E v \in Verdicts : CommitVerify(x, v)
    \/ Maintain
    \/ Restart

Spec == Init /\ [][Next]_vars

\* The service runs its maintenance again and again.
FairSpec == Spec /\ WF_vars(Maintain)
=============================================================================
