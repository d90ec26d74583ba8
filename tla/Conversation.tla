---------------------------- MODULE Conversation ----------------------------
(***************************************************************************)
(* The conversation of one case and the model turns that extend it.  The   *)
(* orchestrator holds browser sessions, prepared turns and the output it   *)
(* has in quarantine, all in memory; the authorization service holds the   *)
(* conversation, the model calls and what an admitted answer is released   *)
(* under, all durable (packages/consoles/src/orchestratorHttpServer.ts,    *)
(* modelTurnCoordinator.ts, caseModelTurn.ts, caseConversation.ts,         *)
(* caseProposal.ts; packages/gate-core/src/conversationTransport.ts,       *)
(* conversationProjectionService.ts, proposalIntake.ts).                   *)
(*                                                                         *)
(* The case mutex of the orchestrator lets one turn run at a time: `op`.   *)
(* Each of its calls to the authorization service is one step: the service *)
(* handles the request or refuses it, and the answer arrives or is lost; a *)
(* request whose caller gave up may be handled later (`late`).  A turn is  *)
(* "message" (the officer's text goes into the conversation, and so does   *)
(* the answer), "proposal" (the answer becomes a frozen proposal) or       *)
(* "plain" (the answer stays in quarantine).                               *)
(***************************************************************************)
EXTENDS Naturals, FiniteSets, Sequences, SequencesExt

CONSTANTS
    Lanes,          \* the configured (card, version, requested id) lanes
    Kinds,          \* the kinds of turn a run looks at
    MaxSessions,    \* bound: browser sessions, numbered as they are redeemed
    MaxTurns,       \* bound: turns, numbered as they are prepared
    MaxHeld,        \* ModelOutputQuarantine.maxEntries
    MaxEvents,      \* MAX_CONVERSATION_EVENTS
    MaxChanges      \* bound: switches of the model after the first, responses, sessions that end, restarts,
                    \* records that become overdue and answers that are lost

ASSUME ConversationAssumption ==
    /\ Kinds \subseteq {"plain", "message", "proposal"}
    /\ {MaxSessions, MaxTurns, MaxHeld, MaxEvents, MaxChanges} \subseteq Nat

VARIABLES
    \* the authorization service
    boot,           \* its current start
    selections,     \* the lane of each model selection, the last one is current
    history,        \* the conversation: its version is its length
    calls,          \* model calls, by turn
    releases,       \* the output release or the proposal intake of each turn
    \* both sides
    sessions,       \* the receipt and the console's record of each session
    \* the orchestrator
    turns,          \* the records of the turn stores
    held,           \* the turns whose output is in quarantine
    op,             \* the turn that holds the case mutex, and the call it waits for
    halted,         \* lanes that failed
    late,           \* requests the service may still handle after their caller gave up
    reading,        \* the selection a status request read, still on its way
    asked,          \* turns whose prompt was given to the provider
    changes         \* how much of MaxChanges is used

service == <<boot, selections, history, calls, releases>>
console == <<turns, held, op, halted, reading, asked>>
vars == <<service, sessions, console, late, changes>>

Sessions == 1..MaxSessions
Turns == 1..MaxTurns
Idle == [turn |-> 0, stage |-> "idle"]
NoTurn == [kind |-> "none", session |-> 0, selection |-> 0, version |-> 0, state |-> "none", discard |-> FALSE]
NoCall == [state |-> "none", version |-> 0, selection |-> 0, boot |-> 0, overdue |-> FALSE]
NoRelease == [state |-> "none", version |-> 0, overdue |-> FALSE]

Version == Len(history)
Current == Len(selections)
Event(who, t) == [who |-> who, turn |-> t]
Spoken(who, t) == Contains(history, Event(who, t))

Change == changes < MaxChanges /\ changes' = changes + 1

\* The session of a turn, as the authorization service sees it.
Receipt(t) == sessions[turns[t].session].receipt = "active"

-----------------------------------------------------------------------------
(***************************************************************************)
(* The authorization service.                                              *)
(***************************************************************************)
OpenCall(t) == /\ calls[t].state = "open"
               /\ calls[t].boot = boot
               /\ calls[t].selection = Current
               /\ ~calls[t].overdue

\* Mutant of EndReleases: a change of the conversation invalidates nothing.
EndReleasesNever(rs) == rs

\* What a change of the conversation or of the selection ends: releases and intakes alike.
EndReleases(rs) ==
    [t \in Turns |-> IF rs[t].state = "issued" THEN [rs[t] EXCEPT !.state = "invalidated"] ELSE rs[t]]

\* An expired call, or one opened before a restart and expired since, blocks no message.
Ingestible(t) ==
    /\ Receipt(t)
    /\ \A u \in Turns : ~(calls[u].state = "open" /\ ~calls[u].overdue)
    /\ Version < MaxEvents

Ingest(t) ==
    /\ history' = Append(history, Event("officer", t))
    /\ releases' = EndReleases(releases)

\* assertIngressBinding: the message is still the last of the conversation.
MessageStands(t) == Receipt(t) /\ Version > 0 /\ Last(history) = Event("officer", t)

\* assertCallBinding: the conversation is the one the proposal was prepared for.
ProposalStands(t) == Receipt(t) /\ turns[t].version = Version

Beginnable(t) ==
    /\ turns[t].selection = Current
    /\ calls[t].state = "none"
    /\ turns[t].kind = "message" => MessageStands(t)
    /\ turns[t].kind = "proposal" => ProposalStands(t)

Begin(t) ==
    calls' = [calls EXCEPT ![t] = [state |-> "open", version |-> Version, selection |-> Current,
                                   boot |-> boot, overdue |-> FALSE]]

\* Mutant of Release: bound to the conversation as it is when the answer comes.
ReleaseAtOnce(t) == [state |-> "issued", version |-> Version, overdue |-> FALSE]

\* prepareRelease, prepareIntake: nothing, once the conversation has gone on.
Release(t) ==
    IF Receipt(t) /\ calls[t].version = Version
    THEN [state |-> "issued", version |-> calls[t].version, overdue |-> FALSE]
    ELSE NoRelease

\* evaluateModelOutput admits or withholds an answer; "failed": the system-use decision changed.
\* An answer that cannot be released is not admitted either.
Verdicts(t) ==
    {"withheld", "failed"} \cup (IF turns[t].kind = "plain" \/ Release(t) # NoRelease THEN {"admitted"} ELSE {})

Admit(t, verdict) ==
    /\ calls' = [calls EXCEPT ![t].state = verdict]
    /\ releases' = IF verdict = "admitted" /\ turns[t].kind # "plain"
                   THEN [releases EXCEPT ![t] = Release(t)]
                   ELSE releases

StillCurrent(t) ==
    /\ Receipt(t)
    /\ calls[t].boot = boot
    /\ calls[t].selection = Current
    /\ calls[t].state = "admitted"
    /\ releases[t].version = Version
    /\ ~releases[t].overdue

Issued(t) == releases[t].state = "issued"
EndRelease(t, state) == releases' = [releases EXCEPT ![t].state = state] /\ UNCHANGED history

\* The answer joins the conversation; a release that is not current ends with the
\* request that presents it.
ConsumeRelease(t) ==
    CASE Issued(t) /\ StillCurrent(t) /\ Version < MaxEvents ->
            /\ history' = Append(history, Event("model", t))
            /\ releases' = [EndReleases(releases) EXCEPT ![t].state = "consumed"]
      [] Issued(t) /\ Receipt(t) /\ ~(StillCurrent(t) /\ Version < MaxEvents) ->
            EndRelease(t, IF releases[t].overdue THEN "expired" ELSE "invalidated")
      [] OTHER -> UNCHANGED <<history, releases>>

\* The answer becomes a proposal, or is refused for what it says.
ConsumeIntake(t) ==
    CASE Issued(t) /\ StillCurrent(t) -> EndRelease(t, "consumed") \/ EndRelease(t, "refused")
      [] Issued(t) /\ ~StillCurrent(t) -> EndRelease(t, "invalidated")
      [] OTHER -> UNCHANGED <<history, releases>>

\* What the service does with a request of turn t.
Handled(request, t) ==
    CASE request = "ingest" ->
            IF Ingestible(t) /\ ~Spoken("officer", t)
            THEN Ingest(t) /\ UNCHANGED <<boot, selections, calls>>
            ELSE UNCHANGED service
      [] request = "begin" ->
            IF Beginnable(t) THEN Begin(t) /\ UNCHANGED <<boot, selections, history, releases>> ELSE UNCHANGED service
      [] request = "admit" ->
            IF OpenCall(t)
            THEN (\E verdict \in Verdicts(t) : Admit(t, verdict)) /\ UNCHANGED <<boot, selections, history>>
            ELSE UNCHANGED service
      [] request = "fail" ->
            /\ calls' = IF OpenCall(t) THEN [calls EXCEPT ![t].state = "failed"] ELSE calls
            /\ UNCHANGED <<boot, selections, history, releases>>
      [] request = "consume" ->
            /\ IF turns[t].kind = "message" THEN ConsumeRelease(t) ELSE ConsumeIntake(t)
            /\ UNCHANGED <<boot, selections, calls>>
      [] OTHER -> UNCHANGED service

\* The service handles a request whose caller no longer listens.
HandleLate(r) ==
    /\ late' = late \ {r}
    /\ Handled(r[1], r[2])
    /\ UNCHANGED <<sessions, console, changes>>

\* A dialogue response, or any other change of the stored items of the case.
DialogueResponse ==
    /\ Change /\ Version < MaxEvents
    /\ history' = Append(history, Event("response", 0))
    /\ releases' = EndReleases(releases)
    /\ UNCHANGED <<boot, selections, calls, sessions, console, late>>

LapseCall(t) ==
    /\ Change
    /\ calls[t].state = "open" /\ ~calls[t].overdue
    /\ calls' = [calls EXCEPT ![t].overdue = TRUE]
    /\ UNCHANGED <<boot, selections, history, releases, sessions, console, late>>

LapseRelease(t) ==
    /\ Change
    /\ releases[t].state = "issued" /\ ~releases[t].overdue
    /\ releases' = [releases EXCEPT ![t].overdue = TRUE]
    /\ UNCHANGED <<boot, selections, history, calls, sessions, console, late>>

\* Mutant of Maintain: only what an earlier start left behind.
MaintainOnRestart ==
    /\ releases' = [t \in Turns |-> IF releases[t].state = "issued" /\ calls[t].boot # boot
                                   THEN [releases[t] EXCEPT !.state = "expired"] ELSE releases[t]]
    /\ UNCHANGED <<boot, selections, history, calls, sessions, console, late, changes>>

\* expireReleases, and expire of the intakes, which call one of an earlier start invalidated
Maintain ==
    /\ releases' = [t \in Turns |->
          IF ~(Issued(t) /\ (releases[t].overdue \/ calls[t].boot # boot)) THEN releases[t]
          ELSE [releases[t] EXCEPT !.state = IF turns[t].kind = "proposal" /\ calls[t].boot # boot
                                             THEN "invalidated" ELSE "expired"]]
    /\ UNCHANGED <<boot, selections, history, calls, sessions, console, late, changes>>

\* selectModel: the calls and the releases of the selection before it end with it.
Select(lane) ==
    /\ selections' = Append(selections, lane)
    /\ calls' = [t \in Turns |-> IF calls[t].state = "open" /\ calls[t].selection = Current
                                THEN [calls[t] EXCEPT !.state = "failed"] ELSE calls[t]]
    /\ releases' = EndReleases(releases)

AuthorizationRestarts ==
    /\ Change
    /\ boot' = boot + 1
    /\ sessions' = [s \in Sessions |-> [sessions[s] EXCEPT !.receipt = IF @ = "active" THEN "ended" ELSE @]]
    /\ late' = {}
    /\ UNCHANGED <<selections, history, calls, releases, console>>

-----------------------------------------------------------------------------
(***************************************************************************)
(* The records of the orchestrator.                                        *)
(***************************************************************************)
\* A running turn is discarded when it comes to its end.
Discarded(T) ==
    [t \in Turns |->
        IF t \notin T THEN turns[t]
        ELSE CASE turns[t].state = "prepared" -> [turns[t] EXCEPT !.state = "gone"]
               [] turns[t].state = "running" -> [turns[t] EXCEPT !.discard = TRUE]
               [] OTHER -> [turns[t] EXCEPT !.state = "discarded"]]

\* Mutant of Discard: the record is updated, the bytes are kept.
DiscardRecordOnly(T) == turns' = Discarded(T) /\ UNCHANGED held

Discard(T) == turns' = Discarded(T) /\ held' = held \ T

\* Message and proposal turns lose only what is prepared; plain turns are discarded
\* with their output.
Burnable(t) == turns[t].state \in IF turns[t].kind = "plain" THEN {"prepared", "running", "quarantined", "withheld",
                                                                    "failed", "discarded"}
                                  ELSE {"prepared"}
OfSession(s) == {t \in Turns : turns[t].session = s /\ Burnable(t)}
OfOtherSelections(n) == {t \in Turns : turns[t].selection # n /\ Burnable(t)}

\* A request with the token of a session that neither was closed nor expired.
Authenticated(s) == sessions[s].console = "active"

CloseConsole(s) == sessions' = [sessions EXCEPT ![s].console = "closed"]

\* burnForCase: a message that was used leaves no proposal prepared.
BurnedWith(t) ==
    IF turns[t].kind = "message" THEN {u \in Turns : turns[u].kind = "proposal" /\ turns[u].state = "prepared"} ELSE {}

\* A turn comes to its end and lets the mutex go.
Record(t, state) ==
    /\ turns' = [Discarded(BurnedWith(t)) EXCEPT ![t].state = IF turns[t].discard THEN "discarded" ELSE state]
    /\ op' = Idle

Lane(t) == selections[turns[t].selection]
Halt(t) == halted' = halted \cup {Lane(t)}

\* The caller of a request gives up; the service may handle it all the same.
Lost(request, t) ==
    /\ Change
    /\ late' = late \cup {<<request, t>>}
    /\ UNCHANGED service

Answered == UNCHANGED <<late, changes>>
Refused == UNCHANGED service /\ Answered

-----------------------------------------------------------------------------
(***************************************************************************)
(* Sessions, selections and preparations.                                  *)
(***************************************************************************)
Redeem(s) ==
    /\ sessions[s].console = "none" /\ \A r \in 1..(s - 1) : sessions[r].console # "none"
    /\ sessions' = [sessions EXCEPT ![s] = [receipt |-> "active", console |-> "active", boot |-> boot]]
    /\ UNCHANGED <<service, console, late, changes>>

\* Under the mutex; when the answer is lost the console keeps the session.
CloseSession(s) ==
    /\ op = Idle /\ Change
    /\ Authenticated(s)
    /\ \/ /\ sessions' = [sessions EXCEPT ![s].receipt = "ended", ![s].console = "closed"]
          /\ Discard(OfSession(s))
       \/ /\ sessions' = [sessions EXCEPT ![s].receipt = "ended"]
          /\ UNCHANGED <<turns, held>>
    /\ UNCHANGED <<service, op, halted, reading, asked, late>>

\* Each side has its own expiry.
LapseReceipt(s) ==
    /\ Change
    /\ sessions[s].receipt = "active"
    /\ sessions' = [sessions EXCEPT ![s].receipt = "ended"]
    /\ UNCHANGED <<service, console, late>>

LapseConsole(s) ==
    /\ Change
    /\ sessions[s].console = "active"
    /\ sessions' = [sessions EXCEPT ![s].console = "expired"]
    /\ UNCHANGED <<service, console, late>>

\* The cleanup timer: sessions that expired, and preparations that did.
Cleanup ==
    /\ \E T \in SUBSET {t \in Turns : turns[t].state = "prepared"} :
          Discard(T \cup {t \in Turns : turns[t].session # 0 /\ sessions[turns[t].session].console = "expired" /\ Burnable(t)})
    /\ UNCHANGED <<service, sessions, op, halted, reading, asked, late, changes>>

\* Use of a selection preparation, under the mutex; when the answer is lost, nothing
\* of the orchestrator follows the switch.
SwitchModel(lane) ==
    /\ op = Idle
    /\ IF Current = 0 THEN UNCHANGED changes ELSE Change
    /\ \E s \in Sessions : Authenticated(s) /\ sessions[s].receipt = "active"
    /\ Current > 0 => selections[Current] # lane
    /\ Select(lane)
    /\ \/ Discard({t \in OfOtherSelections(Current + 1) : turns[t].kind # "plain" \/ turns[t].selection = Current})
       \/ UNCHANGED <<turns, held>>
    /\ UNCHANGED <<boot, history, sessions, op, halted, reading, asked, late>>

\* GET model-selection takes no mutex: it reads, and reconciles when the answer comes.
StartReading(s) ==
    /\ reading = {} /\ Authenticated(s)
    /\ reading' = {[session |-> s, selection |-> Current, boot |-> boot]}
    /\ UNCHANGED <<service, sessions, turns, held, op, halted, asked, late, changes>>

FinishReading ==
    /\ \E r \in reading :
          IF r.boot = sessions[r.session].boot
          THEN Discard(OfOtherSelections(r.selection)) /\ UNCHANGED sessions
          ELSE Discard(OfSession(r.session)) /\ CloseConsole(r.session)
    /\ reading' = {}
    /\ UNCHANGED <<service, op, halted, asked, late, changes>>

\* A session that outlived the start of the service it was redeemed at.
Outlived(s) == sessions[s].boot # boot

\* reconcileSelection, before a plain turn is prepared or used
Stale == {t \in OfOtherSelections(Current) : turns[t].kind = "plain"}

\* One preparation of each kind and session; the next one replaces it.
Replaced(kind, s) == {t \in Turns : turns[t].kind = kind /\ turns[t].session = s /\ turns[t].state = "prepared"}

NewTurn(kind, s) ==
    [kind |-> kind, session |-> s, selection |-> Current, version |-> IF kind = "proposal" THEN Version ELSE 0,
     state |-> "prepared", discard |-> FALSE]

\* The records of T go when turn t is prepared.
Create(t, kind, s, T) ==
    /\ turns' = [Discarded(T \cup Replaced(kind, s)) EXCEPT ![t] = NewTurn(kind, s)]
    /\ held' = held \ T
    /\ UNCHANGED sessions

Preparable(t, kind, s) ==
    /\ kind \in Kinds /\ op = Idle
    /\ turns[t] = NoTurn /\ \A u \in 1..(t - 1) : turns[u] # NoTurn
    /\ Authenticated(s)

\* The browser has to come with a new handoff.
StartAgain(s) == CloseConsole(s) /\ Discard(OfSession(s))

\* Without the mutex, as for GET model-selection; the preparation itself binds nothing yet.
PrepareSelection(s) ==
    /\ Authenticated(s) /\ Outlived(s)
    /\ StartAgain(s)
    /\ UNCHANGED <<service, op, halted, reading, asked, late, changes>>

\* A receipt that is gone closes the session, whose turns are left to expire.
PrepareExecution(s) ==
    /\ op = Idle
    /\ Authenticated(s) /\ sessions[s].receipt # "active"
    /\ CloseConsole(s)
    /\ UNCHANGED <<service, console, late, changes>>

\* GET proposal-runs: what the service knows of a run replaces the record of its turn.
ReadProposalStatus(t) ==
    /\ op = Idle
    /\ turns[t].kind = "proposal" /\ Authenticated(turns[t].session)
    /\ IF Outlived(turns[t].session) THEN StartAgain(turns[t].session)
       ELSE /\ Receipt(t) /\ releases[t] # NoRelease
            /\ turns[t].state \in {"released", "failed"}
            /\ turns' = [turns EXCEPT ![t].state = "gone"]
            /\ UNCHANGED <<sessions, held>>
    /\ UNCHANGED <<service, op, halted, reading, asked, late, changes>>

PreparePlain(t, s) ==
    /\ Preparable(t, "plain", s)
    /\ IF Outlived(s) THEN StartAgain(s) ELSE Current > 0 /\ Create(t, "plain", s, Stale)
    /\ UNCHANGED <<service, op, halted, reading, asked, late, changes>>

PrepareMessage(t, s) ==
    /\ Preparable(t, "message", s)
    /\ IF Outlived(s) THEN StartAgain(s) ELSE Current > 0 /\ Create(t, "message", s, {})
    /\ UNCHANGED <<service, op, halted, reading, asked, late, changes>>

\* The conversation is read after the selection, and only for a session with a receipt.
PrepareProposal(t, s) ==
    /\ Preparable(t, "proposal", s)
    /\ Current > 0 /\ Version > 0
    /\ sessions[s].receipt = "active" /\ ~Outlived(s)
    /\ Create(t, "proposal", s, {})
    /\ UNCHANGED <<service, op, halted, reading, asked, late, changes>>

\* beginUse
Usable(t, kind) ==
    /\ op = Idle
    /\ turns[t].kind = kind /\ turns[t].state = "prepared"
    /\ Authenticated(turns[t].session)

\* The selection is read again before anything leaves the process.
Fits(t) == turns[t].selection = Current /\ ~Outlived(turns[t].session)

Run(t, stage, T) ==
    /\ turns' = [Discarded(T) EXCEPT ![t].state = "running"]
    /\ held' = held \ T
    /\ op' = [turn |-> t, stage |-> stage]
    /\ UNCHANGED sessions

\* What fails before it runs; the records of T go with it.
Fail(t, T) ==
    /\ turns' = [Discarded(T) EXCEPT ![t].state = IF t \in T THEN "discarded" ELSE "failed"]
    /\ held' = held \ T
    /\ UNCHANGED op

FailAndStartAgain(t, T) == Outlived(turns[t].session) /\ CloseConsole(turns[t].session) /\ Fail(t, T)

UsePlain(t) ==
    /\ Usable(t, "plain")
    /\ \/ Fits(t) /\ Run(t, "begin", Stale)
       \/ ~Fits(t) /\ ~Outlived(turns[t].session) /\ Fail(t, Stale) /\ UNCHANGED sessions
       \/ Fail(t, {}) /\ UNCHANGED sessions
       \/ FailAndStartAgain(t, OfSession(turns[t].session))
    /\ UNCHANGED <<service, halted, reading, asked, late, changes>>

UseMessage(t) ==
    /\ Usable(t, "message")
    /\ \/ Fits(t) /\ Run(t, "ingest", {})
       \/ Fail(t, BurnedWith(t)) /\ UNCHANGED sessions
    /\ UNCHANGED <<service, halted, reading, asked, late, changes>>

UseProposal(t) ==
    /\ Usable(t, "proposal")
    /\ \/ Fits(t) /\ ProposalStands(t) /\ Run(t, "begin", {})
       \/ Fail(t, {}) /\ UNCHANGED sessions
       \/ FailAndStartAgain(t, OfSession(turns[t].session) \ {t})
    /\ UNCHANGED <<service, halted, reading, asked, late, changes>>

-----------------------------------------------------------------------------
(***************************************************************************)
(* The turn that runs.                                                     *)
(***************************************************************************)
At(t, stage) == op = [turn |-> t, stage |-> stage]
Proceed(stage) == op' = [op EXCEPT !.stage = stage]

\* runMessage: without the message in the conversation nothing starts, and no lane halts.
IngestMessage(t) ==
    /\ At(t, "ingest")
    /\ \/ Ingestible(t) /\ Handled("ingest", t) /\ Answered /\ Proceed("begin") /\ UNCHANGED turns
       \/ Refused /\ Record(t, "failed")
       \/ Lost("ingest", t) /\ Record(t, "failed")
    /\ UNCHANGED <<sessions, held, halted, reading, asked>>

\* Mutant of BeginCall: a begun call whose answer is lost is taken to be open.
BeginCallOptimistically(t) ==
    /\ At(t, "begin")
    /\ Lane(t) \notin halted
    /\ \/ /\ Beginnable(t) /\ Handled("begin", t) /\ Answered
          /\ Proceed("answer") /\ asked' = asked \cup {t} /\ UNCHANGED <<turns, halted>>
       \/ Refused /\ Record(t, "failed") /\ Halt(t) /\ UNCHANGED asked
       \/ /\ Lost("begin", t)
          /\ Proceed("answer") /\ asked' = asked \cup {t} /\ UNCHANGED <<turns, halted>>
    /\ UNCHANGED <<sessions, held, reading>>

\* The call is recorded before the provider is asked.
BeginCall(t) ==
    /\ At(t, "begin")
    /\ Lane(t) \notin halted
    /\ \/ /\ Beginnable(t) /\ Handled("begin", t) /\ Answered
          /\ Proceed("answer") /\ asked' = asked \cup {t} /\ UNCHANGED <<turns, halted>>
       \/ Refused /\ Record(t, "failed") /\ Halt(t) /\ UNCHANGED asked
       \/ Lost("begin", t) /\ Record(t, "failed") /\ Halt(t) /\ UNCHANGED asked
    /\ UNCHANGED <<sessions, held, reading>>

\* A lane that halted begins no call: a message has been ingested by then.
LaneHalted(t) ==
    /\ At(t, "begin")
    /\ Lane(t) \in halted
    /\ Record(t, "failed")
    /\ UNCHANGED <<service, sessions, held, halted, reading, asked, late, changes>>

\* The provider answers, or fails and is not asked again.
ProviderAnswers(t) ==
    /\ At(t, "answer")
    /\ Proceed("admit") \/ Proceed("fail")
    /\ UNCHANGED <<service, sessions, turns, held, halted, reading, asked, late, changes>>

\* Mutant of Seal: room for one more than there is.
SealOneTooMany(t) ==
    IF Cardinality(held) > MaxHeld THEN Record(t, "failed") /\ UNCHANGED held
    ELSE \/ turns[t].kind # "plain" /\ Proceed("consume") /\ UNCHANGED <<turns, held>>
         \/ /\ turns[t].kind = "plain" /\ Record(t, "quarantined")
            /\ held' = IF turns[t].discard THEN held ELSE held \cup {t}

\* Plain output stays in quarantine, unless the turn was discarded meanwhile; the
\* output of the others leaves it again in the same step.
Seal(t) ==
    IF Cardinality(held) >= MaxHeld THEN Record(t, "failed") /\ UNCHANGED held
    ELSE \/ turns[t].kind # "plain" /\ Proceed("consume") /\ UNCHANGED <<turns, held>>
         \/ /\ turns[t].kind = "plain" /\ Record(t, "quarantined")
            /\ held' = IF turns[t].discard THEN held ELSE held \cup {t}

AdmitOutput(t) ==
    /\ At(t, "admit")
    /\ \/ /\ OpenCall(t) /\ Handled("admit", t) /\ Answered
          /\ CASE calls'[t].state = "admitted" -> Seal(t) /\ UNCHANGED halted
               [] calls'[t].state = "withheld" ->
                    Record(t, IF turns[t].kind = "proposal" THEN "failed" ELSE "withheld") /\ Halt(t) /\ UNCHANGED held
               [] OTHER -> Proceed("fail") /\ UNCHANGED <<turns, halted, held>>
       \/ (Refused \/ Lost("admit", t)) /\ Proceed("fail") /\ UNCHANGED <<turns, halted, held>>
    /\ UNCHANGED <<sessions, reading, asked>>

\* haltStarted: the failure is reported once, whatever becomes of the report.
ReportFailure(t) ==
    /\ At(t, "fail")
    /\ (Handled("fail", t) /\ Answered) \/ Lost("fail", t)
    /\ Record(t, "failed") /\ Halt(t)
    /\ UNCHANGED <<sessions, held, reading, asked>>

\* What was consumed is in the conversation; a proposal goes on to its gates.
Released(t) == IF turns[t].kind = "message" THEN Record(t, "released") ELSE Proceed("gates") /\ UNCHANGED turns
NotReleased(t) == Record(t, "failed") /\ Halt(t)

\* Only an answer that says nothing leads to a look at the status.
ConsumeOutput(t) ==
    /\ At(t, "consume")
    /\ \/ /\ Handled("consume", t) /\ Answered
          /\ IF releases'[t].state = "consumed" THEN Released(t) /\ UNCHANGED halted ELSE NotReleased(t)
       \/ Refused /\ NotReleased(t)
       \/ Lost("consume", t) /\ Proceed("status") /\ UNCHANGED <<turns, halted>>
    /\ UNCHANGED <<sessions, held, reading, asked>>

\* Mutant of Settles: an issued release is as good as a consumed one.
SettlesWhenIssued(t) == Receipt(t) /\ releases[t].state \in {"issued", "consumed"}

\* releaseStatus asks for the receipt again, the status of an intake does not.
Settles(t) == releases[t].state = "consumed" /\ (turns[t].kind = "message" => Receipt(t))

\* Mutant of ReadStatus: looks again as long as the release is issued.
ReadStatusAgain(t) ==
    /\ At(t, "status")
    /\ \/ Settles(t) /\ Released(t) /\ UNCHANGED halted
       \/ releases[t].state = "issued" /\ UNCHANGED <<turns, op, halted>>
       \/ releases[t].state # "issued" /\ NotReleased(t)
    /\ UNCHANGED <<service, sessions, held, reading, asked, late, changes>>

ReadStatus(t) ==
    /\ At(t, "status")
    /\ \/ Settles(t) /\ Released(t) /\ UNCHANGED halted
       \/ NotReleased(t)
    /\ UNCHANGED <<service, sessions, held, reading, asked, late, changes>>

\* The gates of the proposal, and what screening they need, run under the mutex; a
\* run whose state cannot be told is shown as failed.
RunGates(t) ==
    /\ At(t, "gates")
    /\ Record(t, "released") \/ Record(t, "failed")
    /\ UNCHANGED <<service, sessions, held, halted, reading, asked, late, changes>>

\* Everything in memory is lost; the request under way may still be handled.
OrchestratorRestarts ==
    /\ Change
    /\ late' = IF op.stage \in {"ingest", "begin", "admit", "fail", "consume"}
               THEN late \cup {<<op.stage, op.turn>>} ELSE late
    /\ sessions' = [s \in Sessions |-> [sessions[s] EXCEPT !.console = IF @ = "none" THEN @ ELSE "closed"]]
    /\ turns' = [t \in Turns |-> IF turns[t] = NoTurn THEN NoTurn ELSE [turns[t] EXCEPT !.state = "gone"]]
    /\ held' = {} /\ op' = Idle /\ halted' = {} /\ reading' = {}
    /\ UNCHANGED <<service, asked>>

-----------------------------------------------------------------------------
Init ==
    /\ boot = 1 /\ selections = <<>> /\ history = <<>>
    /\ calls = [t \in Turns |-> NoCall] /\ releases = [t \in Turns |-> NoRelease]
    /\ sessions = [s \in Sessions |-> [receipt |-> "none", console |-> "none", boot |-> 0]]
    /\ turns = [t \in Turns |-> NoTurn]
    /\ held = {} /\ op = Idle /\ halted = {} /\ late = {} /\ reading = {} /\ asked = {} /\ changes = 0

TurnStep(t) ==
    \/ IngestMessage(t) \/ BeginCall(t) \/ LaneHalted(t) \/ ProviderAnswers(t) \/ AdmitOutput(t)
    \/ ReportFailure(t) \/ ConsumeOutput(t) \/ ReadStatus(t) \/ RunGates(t)

Next ==
    \/ \E r \in late : HandleLate(r)
    \/ DialogueResponse \/ Maintain \/ AuthorizationRestarts
    \/ \E t \in Turns : LapseCall(t) \/ LapseRelease(t)
    \/ \E s \in Sessions : Redeem(s) \/ CloseSession(s) \/ LapseReceipt(s) \/ LapseConsole(s) \/ StartReading(s)
                           \/ PrepareSelection(s) \/ PrepareExecution(s)
    \/ Cleanup \/ FinishReading
    \/ \E lane \in Lanes : SwitchModel(lane)
    \/ \E t \in Turns, s \in Sessions : PreparePlain(t, s) \/ PrepareMessage(t, s) \/ PrepareProposal(t, s)
    \/ \E t \in Turns : UsePlain(t) \/ UseMessage(t) \/ UseProposal(t) \/ ReadProposalStatus(t) \/ TurnStep(t)
    \/ OrchestratorRestarts

Spec == Init /\ [][Next]_vars

\* Every request and the provider's answer have a timeout, the maintenance is periodic.
FairSpec == Spec /\ WF_vars(\E t \in Turns : TurnStep(t)) /\ WF_vars(Maintain)

=============================================================================
