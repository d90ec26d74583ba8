-------------------------- MODULE ConversationProofs --------------------------
(***************************************************************************)
(* Proofs about the conversation of a case and its turns, for any number   *)
(* of sessions, turns, lanes, events, switches, restarts and lost answers. *)
(***************************************************************************)
EXTENDS ConversationProperties, FiniteSetTheorems, TLAPS

-----------------------------------------------------------------------------
(***************************************************************************)
(* The inductive invariant: what the service holds, and what the           *)
(* orchestrator holds.                                                     *)
(***************************************************************************)
\* Only turns that were prepared have a call, and only admitted answers a release.
CallsAreOfTurns ==
    \A t \in Turns :
        /\ calls[t].state # "none" => turns[t].kind # "none"
        /\ releases[t].state # "none" =>
             /\ calls[t].state = "admitted" /\ turns[t].kind # "plain"
             /\ releases[t].version = calls[t].version

\* As long as nobody spoke since its call was opened, the message of a turn is the last event.
CallsStand ==
    \A t \in Turns : calls[t].state # "none" =>
        /\ calls[t].version <= Version
        /\ turns[t].kind = "message" /\ calls[t].version = Version => Version > 0 /\ Last(history) = Event("officer", t)

\* The answer whose release was consumed is in the conversation.
ConsumedIsSpoken ==
    \A t \in Turns : releases[t].state = "consumed" /\ turns[t].kind = "message" => Spoken("model", t)

\* Only a turn whose intake was consumed goes on to its gates.
GatesAfterConsumption ==
    /\ op # Idle => /\ op.turn \in Turns /\ op.stage # "idle"
                    /\ turns[op.turn].kind # "none"
    /\ op.stage = "gates" => releases[op.turn].state = "consumed"
    /\ \A t \in Turns : turns[t].state = "released" => releases[t].state = "consumed"

\* A request that may still be handled is of a turn that was prepared.
LateIsOfTurns ==
    \A r \in late : \E request \in Stages, t \in Turns : r = <<request, t>> /\ turns[t].kind # "none"

\* A turn is bound to a selection there has been.
TurnsAreSelected ==
    \A t \in Turns : turns[t].selection <= Current /\ (turns[t].kind # "none" => turns[t].selection > 0)

ServiceShape ==
    /\ boot \in Nat /\ selections \in Seq(Lanes)
    /\ history \in Seq(Events) /\ Version <= MaxEvents
    /\ calls \in [Turns -> CallRecords] /\ releases \in [Turns -> ReleaseRecords]

ConsoleShape ==
    /\ turns \in [Turns -> TurnRecords] /\ sessions \in [Sessions -> SessionRecords]
    /\ \A t \in Turns : turns[t].state = "running" <=> op.turn = t
    /\ op \in [turn : 0..MaxTurns, stage : Stages]
    /\ held \subseteq Turns /\ Cardinality(held) <= MaxHeld
    /\ halted \subseteq Lanes /\ asked \subseteq Turns

Service == /\ ServiceShape /\ CallsAreOfTurns /\ CallsStand /\ ConsumedIsSpoken
           /\ AnswersFollowTheirMessage /\ IssuedIsNewest
Console == /\ ConsoleShape /\ CustodyMatchesStatus /\ AskedIsRecorded /\ GatesAfterConsumption
           /\ LateIsOfTurns /\ TurnsAreSelected

Inv == Service /\ Console

-----------------------------------------------------------------------------
(***************************************************************************)
(* The service.                                                            *)
(***************************************************************************)
\* A turn keeps its kind from its preparation on.
KindsKept == \A t \in Turns : turns'[t].kind = turns[t].kind \/ turns[t].kind = "none"

\* What the service has recorded stays recorded.
Onward ==
    /\ \A t \in Turns : /\ calls[t].state # "none" => calls'[t].state # "none"
                        /\ releases[t].state = "consumed" => releases'[t].state = "consumed"
    /\ Current <= Current'

LEMMA ServiceStays == ASSUME Service, KindsKept, UNCHANGED service PROVE Service' /\ Onward
<1> USE DEF service, Version, Current
<1>1. ServiceShape' BY DEF Service, ServiceShape
<1>2. CallsAreOfTurns' BY DEF Service, ServiceShape, CallsAreOfTurns, KindsKept
<1>3. CallsStand' BY DEF Service, CallsStand, KindsKept, CallsAreOfTurns
<1>4. ConsumedIsSpoken' BY DEF Service, ConsumedIsSpoken, KindsKept, Spoken, CallsAreOfTurns
<1>5. AnswersFollowTheirMessage' /\ IssuedIsNewest' BY DEF Service, AnswersFollowTheirMessage, IssuedIsNewest
<1>6. Onward BY DEF Service, ServiceShape, Onward
<1> QED BY <1>1, <1>2, <1>3, <1>4, <1>5, <1>6 DEF Service

\* Releases and intakes that end.
Ends(rs) ==
    /\ rs \in [Turns -> ReleaseRecords]
    /\ \A t \in Turns : /\ rs[t].version = releases[t].version
                        /\ rs[t].state = releases[t].state \/ (releases[t].state = "issued" /\ rs[t].state \notin {"issued", "none"})

\* Somebody speaks: what was issued for the conversation before it ends.
LEMMA SpeakingKeeps ==
    ASSUME Service, KindsKept, NEW e \in Events, Version < MaxEvents, history' = Append(history, e),
           UNCHANGED <<boot, selections, calls>>, Ends(releases'), \A t \in Turns : releases'[t].state # "issued",
           \A t \in Turns : turns[t].kind = "message" /\ releases'[t].state = "consumed" /\ releases[t].state # "consumed" =>
                e = Event("model", t),
           e.who = "model" => Version > 0 /\ Last(history) = Event("officer", e.turn)
    PROVE  Service' /\ Onward
<1> USE ConversationAssumption DEF Version, Current
<1>0. /\ history \in Seq(Events) /\ Len(history) \in Nat /\ history' \in Seq(Events)
      /\ Len(history') = Len(history) + 1 /\ history'[Len(history')] = e
      /\ \A i \in 1..Len(history) : history'[i] = history[i]
  BY DEF Service, ServiceShape
<1>1. ServiceShape' BY <1>0 DEF Service, ServiceShape, Ends
<1>2. CallsAreOfTurns' BY DEF Service, ServiceShape, CallsAreOfTurns, KindsKept, Ends
<1>3. CallsStand' BY <1>0 DEF Service, ServiceShape, CallsStand, CallRecords
<1>4. ConsumedIsSpoken'
  <2> SUFFICES ASSUME NEW t \in Turns, releases'[t].state = "consumed", turns'[t].kind = "message" PROVE Spoken("model", t)'
    BY DEF ConsumedIsSpoken
  <2>1. releases[t].state # "none" /\ turns[t].kind = "message" BY DEF Service, CallsAreOfTurns, KindsKept, Ends
  <2>2. CASE releases[t].state = "consumed"
    <3>1. PICK i \in 1..Len(history) : history[i] = Event("model", t)
      BY <2>1, <2>2 DEF Service, ConsumedIsSpoken, Spoken, Contains
    <3> QED BY <1>0, <3>1 DEF Spoken, Contains, Event
  <2>3. CASE releases[t].state # "consumed" BY <1>0, <2>1, <2>3 DEF Spoken, Contains, Event
  <2> QED BY <2>2, <2>3
<1>5. AnswersFollowTheirMessage'
  <2> SUFFICES ASSUME NEW i \in 1..Len(history'), history'[i].who = "model"
               PROVE  i > 1 /\ history'[i - 1] = Event("officer", history'[i].turn)
    BY <1>0 DEF AnswersFollowTheirMessage, Event
  <2>1. CASE i <= Len(history)
    <3>1. history'[i] = history[i] /\ i \in DOMAIN history BY <1>0, <2>1
    <3>2. i > 1 /\ history[i - 1] = Event("officer", history[i].turn) BY <3>1 DEF Service, AnswersFollowTheirMessage
    <3> QED BY <1>0, <2>1, <3>1, <3>2
  <2>2. CASE i = Len(history) + 1 BY <1>0, <2>2 DEF Last
  <2> QED BY <1>0, <2>1, <2>2
<1>6. IssuedIsNewest' BY DEF IssuedIsNewest
<1>7. Onward BY DEF Service, ServiceShape, Onward, Ends
<1> QED BY <1>1, <1>2, <1>3, <1>4, <1>5, <1>6, <1>7 DEF Service

LEMMA EndReleasesEnds == ASSUME ServiceShape
      PROVE /\ Ends(EndReleases(releases))
            /\ \A t \in Turns : /\ EndReleases(releases)[t].state # "issued"
                                /\ EndReleases(releases)[t].state = "consumed" => releases[t].state = "consumed"
<1>1. ASSUME NEW t \in Turns
      PROVE  /\ EndReleases(releases)[t] \in ReleaseRecords
             /\ EndReleases(releases)[t].version = releases[t].version
             /\ \/ EndReleases(releases)[t].state = releases[t].state /\ releases[t].state # "issued"
                \/ releases[t].state = "issued" /\ EndReleases(releases)[t].state = "invalidated"
  <2>1. releases[t] \in ReleaseRecords BY DEF ServiceShape
  <2>2. CASE releases[t].state = "issued" BY <2>1, <2>2 DEF EndReleases, ReleaseRecords, ReleaseStates
  <2>3. CASE releases[t].state # "issued" BY <2>1, <2>3 DEF EndReleases
  <2> QED BY <2>2, <2>3
<1>2. EndReleases(releases) = [t \in Turns |-> EndReleases(releases)[t]] BY DEF EndReleases
<1>3. EndReleases(releases) \in [Turns -> ReleaseRecords] BY <1>1, <1>2
<1> QED BY <1>1, <1>3 DEF Ends

\* Calls that fail or become overdue, while releases end.
LEMMA EndingKeeps ==
    ASSUME Service, KindsKept, boot' \in Nat, UNCHANGED history, Ends(releases'),
           selections' \in Seq(Lanes), Current <= Current',
           Current' # Current => \A t \in Turns : releases'[t].state # "issued",
           calls' \in [Turns -> CallRecords],
           \A t \in Turns : /\ calls'[t].version = calls[t].version /\ calls'[t].selection = calls[t].selection
                            /\ calls'[t].state = calls[t].state \/ (calls[t].state = "open" /\ calls'[t].state # "none"),
           \A t \in Turns : turns[t].kind = "message" /\ releases'[t].state = "consumed" => releases[t].state = "consumed"
    PROVE  Service' /\ Onward
<1> USE DEF Version
<1>1. ServiceShape' BY DEF Service, ServiceShape, Ends
<1>2. CallsAreOfTurns' BY DEF Service, ServiceShape, CallsAreOfTurns, KindsKept, Ends
<1>3. CallsStand' BY DEF Service, CallsStand, KindsKept, CallsAreOfTurns
<1>4. ConsumedIsSpoken' BY DEF Service, ConsumedIsSpoken, KindsKept, Spoken, CallsAreOfTurns, Ends
<1>5. AnswersFollowTheirMessage' BY DEF Service, AnswersFollowTheirMessage
<1>6. IssuedIsNewest' BY DEF Service, IssuedIsNewest, Ends
<1>7. Onward BY DEF Service, ServiceShape, Onward, Ends
<1> QED BY <1>1, <1>2, <1>3, <1>4, <1>5, <1>6, <1>7 DEF Service

\* A release or an intake that ends without a word.
LEMMA ReleaseEnds ==
    ASSUME Service, KindsKept, NEW t \in Turns, Issued(t), NEW state \in {"consumed", "refused", "invalidated", "expired"},
           state = "consumed" => turns[t].kind # "message",
           EndRelease(t, state), UNCHANGED <<boot, selections, calls>>
    PROVE  Service' /\ Onward
<1>1. releases' = [releases EXCEPT ![t].state = state] /\ UNCHANGED history BY DEF EndRelease
<1>2. Ends(releases')
  BY <1>1 DEF Ends, Service, ServiceShape, ReleaseRecords, ReleaseStates, Issued
<1>3. \A u \in Turns : turns[u].kind = "message" /\ releases'[u].state = "consumed" => releases[u].state = "consumed"
  BY <1>1 DEF Service, ServiceShape, ReleaseRecords
<1> QED BY <1>1, <1>2, <1>3, EndingKeeps DEF Service, ServiceShape, Current

LEMMA IngestKeeps ==
    ASSUME Service, KindsKept, NEW t \in Turns, Ingestible(t), Ingest(t), UNCHANGED <<boot, selections, calls>>
    PROVE  Service' /\ Onward
<1>1. Event("officer", t) \in Events /\ Event("officer", t).who # "model" BY DEF Event, Events, Turns
<1>2. /\ Ends(releases')
      /\ \A u \in Turns : /\ releases'[u].state # "issued"
                          /\ releases'[u].state = "consumed" => releases[u].state = "consumed"
  BY EndReleasesEnds DEF Ingest, Service
<1> QED BY <1>1, <1>2, SpeakingKeeps DEF Ingest, Ingestible

LEMMA BeginKeeps ==
    ASSUME Service, KindsKept, NEW t \in Turns, turns[t].kind # "none", Beginnable(t), Begin(t),
           UNCHANGED <<boot, selections, history, releases>>
    PROVE  Service' /\ Onward
<1> USE DEF Version, Current
<1>0. /\ calls' \in [Turns -> CallRecords]
      /\ calls'[t].state = "open" /\ calls'[t].version = Version
      /\ \A u \in Turns : u # t => calls'[u] = calls[u]
  BY DEF Begin, Service, ServiceShape, CallRecords, CallStates
<1>1. ServiceShape' BY <1>0 DEF Service, ServiceShape
<1>2. releases[t].state = "none" BY DEF Service, CallsAreOfTurns, Beginnable
<1>3. CallsAreOfTurns' BY <1>0, <1>2 DEF Service, CallsAreOfTurns, KindsKept
<1>4. turns[t].kind = "message" => Version > 0 /\ Last(history) = Event("officer", t)
  <2>1. calls[t].state = "none" BY DEF Beginnable
  <2> QED BY DEF Beginnable, MessageStands
<1>5. CallsStand' BY <1>0, <1>4 DEF Service, ServiceShape, CallsStand, KindsKept, CallsAreOfTurns
<1>6. ConsumedIsSpoken' BY <1>2 DEF Service, ConsumedIsSpoken, KindsKept, Spoken, CallsAreOfTurns
<1>7. AnswersFollowTheirMessage' BY DEF Service, AnswersFollowTheirMessage
<1>8. IssuedIsNewest' BY <1>0, <1>2 DEF Service, IssuedIsNewest
<1>9. Onward BY <1>0, <1>2 DEF Service, ServiceShape, Onward
<1> QED BY <1>1, <1>3, <1>5, <1>6, <1>7, <1>8, <1>9 DEF Service

LEMMA AdmitKeeps ==
    ASSUME Service, KindsKept, NEW t \in Turns, OpenCall(t), NEW verdict \in Verdicts(t), Admit(t, verdict),
           UNCHANGED <<boot, selections, history>>
    PROVE  Service' /\ Onward
<1> USE DEF Version, Current
<1>0. /\ verdict \in {"withheld", "failed", "admitted"}
      /\ verdict = "admitted" /\ turns[t].kind # "plain" => Release(t) # NoRelease
  BY DEF Verdicts
<1>1. /\ calls' \in [Turns -> CallRecords]
      /\ calls'[t].state = verdict /\ calls'[t].version = calls[t].version /\ calls'[t].selection = Current
      /\ \A u \in Turns : u # t => calls'[u] = calls[u]
  BY <1>0 DEF Admit, Service, ServiceShape, CallRecords, CallStates, OpenCall
<1>2. calls[t].state = "open" /\ turns[t].kind # "none" /\ releases[t].state = "none"
  BY DEF OpenCall, Service, CallsAreOfTurns
<1>3. \/ releases' = releases /\ ~(verdict = "admitted" /\ turns[t].kind # "plain")
      \/ /\ verdict = "admitted" /\ turns[t].kind # "plain" /\ calls[t].version = Version
         /\ releases' = [releases EXCEPT ![t] = [state |-> "issued", version |-> Version, overdue |-> FALSE]]
  BY <1>0 DEF Admit, Release
<1>4. /\ releases' \in [Turns -> ReleaseRecords] /\ \A u \in Turns : u # t => releases'[u] = releases[u]
      /\ \/ releases'[t].state = "none"
         \/ /\ releases'[t].state = "issued" /\ releases'[t].version = Version /\ calls[t].version = Version
            /\ turns[t].kind # "plain" /\ verdict = "admitted"
  <2>1. [state |-> "issued", version |-> Version, overdue |-> FALSE] \in ReleaseRecords
    BY DEF Service, ServiceShape, ReleaseRecords, ReleaseStates
  <2>2. releases \in [Turns -> ReleaseRecords] BY DEF Service, ServiceShape
  <2>3. CASE releases' = releases BY <1>2, <2>2, <2>3
  <2>4. CASE releases' # releases
    <3>1. /\ verdict = "admitted" /\ turns[t].kind # "plain" /\ calls[t].version = Version
          /\ releases' = [releases EXCEPT ![t] = [state |-> "issued", version |-> Version, overdue |-> FALSE]]
      BY <1>3, <2>4
    <3> QED BY <2>1, <2>2, <3>1
  <2> QED BY <2>3, <2>4
<1>5. ServiceShape' BY <1>1, <1>4 DEF Service, ServiceShape
<1>6. CallsAreOfTurns' BY <1>0, <1>1, <1>2, <1>4 DEF Service, CallsAreOfTurns, KindsKept
<1>7. CallsStand' BY <1>1, <1>2 DEF Service, CallsStand, KindsKept, CallsAreOfTurns
<1>8. ConsumedIsSpoken' BY <1>4 DEF Service, ConsumedIsSpoken, KindsKept, Spoken, CallsAreOfTurns
<1>9. AnswersFollowTheirMessage' BY DEF Service, AnswersFollowTheirMessage
<1>10. IssuedIsNewest' BY <1>1, <1>4 DEF Service, IssuedIsNewest
<1>11. Onward BY <1>0, <1>1, <1>2, <1>4 DEF Service, ServiceShape, Onward
<1> QED BY <1>5, <1>6, <1>7, <1>8, <1>9, <1>10, <1>11 DEF Service

LEMMA FailKeeps ==
    ASSUME Service, KindsKept, NEW t \in Turns, OpenCall(t), calls' = [calls EXCEPT ![t].state = "failed"],
           UNCHANGED <<boot, selections, history, releases>>
    PROVE  Service' /\ Onward
<1>1. /\ calls' \in [Turns -> CallRecords] /\ calls[t].state = "open"
      /\ \A u \in Turns : /\ calls'[u].version = calls[u].version /\ calls'[u].selection = calls[u].selection
                          /\ calls'[u].state = calls[u].state \/ (calls[u].state = "open" /\ calls'[u].state # "none")
  BY DEF OpenCall, Service, ServiceShape, CallRecords, CallStates
<1>2. Ends(releases') BY DEF Ends, Service, ServiceShape
<1> QED BY <1>1, <1>2, EndingKeeps DEF Service, ServiceShape, Current

\* The answer whose release is current follows its message.
LEMMA ConsumeReleaseKeeps ==
    ASSUME Service, KindsKept, NEW t \in Turns, turns[t].kind = "message", ConsumeRelease(t),
           UNCHANGED <<boot, selections, calls>>
    PROVE  Service' /\ Onward
<1>1. CASE Issued(t) /\ StillCurrent(t) /\ Version < MaxEvents
  <2>1. /\ history' = Append(history, Event("model", t))
        /\ releases' = [EndReleases(releases) EXCEPT ![t].state = "consumed"]
    BY <1>1 DEF ConsumeRelease
  <2>2. Event("model", t) \in Events /\ Event("model", t).turn = t BY DEF Event, Events, Turns
  <2>3. /\ Ends(EndReleases(releases))
        /\ \A u \in Turns : /\ EndReleases(releases)[u].state # "issued"
                            /\ EndReleases(releases)[u].state = "consumed" => releases[u].state = "consumed"
    BY EndReleasesEnds DEF Service
  <2>4. /\ Ends(releases') /\ \A u \in Turns : releases'[u].state # "issued"
        /\ \A u \in Turns : u # t /\ releases'[u].state = "consumed" => releases[u].state = "consumed"
    <3>1. \A u \in Turns : u # t => releases'[u] = EndReleases(releases)[u] BY <2>1, <2>3 DEF Ends
    <3>2. /\ releases'[t].state = "consumed" /\ releases'[t].version = releases[t].version
          /\ releases' \in [Turns -> ReleaseRecords]
      BY <2>1, <2>3 DEF Ends, ReleaseRecords, ReleaseStates
    <3>3. releases[t].state = "issued" BY <1>1 DEF Issued
    <3>4. ASSUME NEW u \in Turns
          PROVE  /\ releases'[u].version = releases[u].version /\ releases'[u].state # "issued"
                 /\ u # t /\ releases'[u].state = "consumed" => releases[u].state = "consumed"
                 /\ releases'[u].state = releases[u].state \/ (releases[u].state = "issued" /\ releases'[u].state \notin {"issued", "none"})
      <4>1. CASE u = t BY <4>1, <3>2, <3>3
      <4>2. CASE u # t BY <4>2, <2>3, <3>1 DEF Ends
      <4> QED BY <4>1, <4>2
    <3> QED BY <3>2, <3>4 DEF Ends
  <2>5. releases[t].version = Version /\ calls[t].version = Version /\ calls[t].state = "admitted"
    BY <1>1 DEF StillCurrent, Issued, Service, CallsAreOfTurns
  <2>6. Version > 0 /\ Last(history) = Event("officer", t) BY <2>5 DEF Service, CallsStand
  <2> QED BY <1>1, <2>1, <2>2, <2>4, <2>6, SpeakingKeeps
<1>2. CASE Issued(t) /\ Receipt(t) /\ ~(StillCurrent(t) /\ Version < MaxEvents)
  <2>1. PICK state \in {"expired", "invalidated"} : EndRelease(t, state) BY <1>2 DEF ConsumeRelease
  <2> QED BY <1>2, <2>1, ReleaseEnds
<1>3. CASE ~(Issued(t) /\ StillCurrent(t) /\ Version < MaxEvents) /\ ~(Issued(t) /\ Receipt(t) /\ ~(StillCurrent(t) /\ Version < MaxEvents))
  <2>1. UNCHANGED service BY <1>3 DEF ConsumeRelease, service
  <2> QED BY <2>1, ServiceStays
<1> QED BY <1>1, <1>2, <1>3

LEMMA ConsumeIntakeKeeps ==
    ASSUME Service, KindsKept, NEW t \in Turns, turns[t].kind # "message", ConsumeIntake(t),
           UNCHANGED <<boot, selections, calls>>
    PROVE  Service' /\ Onward
<1>1. CASE Issued(t)
  <2>1. PICK state \in {"consumed", "refused", "invalidated"} : EndRelease(t, state) BY <1>1 DEF ConsumeIntake
  <2> QED BY <1>1, <2>1, ReleaseEnds
<1>2. CASE ~Issued(t)
  <2>1. UNCHANGED service BY <1>2 DEF ConsumeIntake, service
  <2> QED BY <2>1, ServiceStays
<1> QED BY <1>1, <1>2

\* However late a request is handled.
LEMMA HandledKeeps ==
    ASSUME Service, KindsKept, NEW t \in Turns, turns[t].kind # "none", NEW request, Handled(request, t)
    PROVE  Service' /\ Onward
<1>1. CASE UNCHANGED service BY <1>1, ServiceStays
<1>2. CASE request = "ingest" BY <1>1, <1>2, IngestKeeps DEF Handled
<1>3. CASE request = "begin" BY <1>1, <1>3, BeginKeeps DEF Handled
<1>4. CASE request = "admit" BY <1>1, <1>4, AdmitKeeps DEF Handled
<1>5. CASE request = "fail"
  <2>1. CASE OpenCall(t) BY <1>5, <2>1, FailKeeps DEF Handled
  <2>2. CASE ~OpenCall(t) BY <1>1, <1>5, <2>2 DEF Handled, service
  <2> QED BY <2>1, <2>2
<1>6. CASE request = "consume" BY <1>6, ConsumeReleaseKeeps, ConsumeIntakeKeeps DEF Handled
<1>7. CASE request \notin {"ingest", "begin", "admit", "fail", "consume"} BY <1>1, <1>7 DEF Handled
<1> QED BY <1>2, <1>3, <1>4, <1>5, <1>6, <1>7

\* The steps of the service that no turn asks for.
LEMMA DialogueResponseKeeps == ASSUME Service, KindsKept, DialogueResponse PROVE Service' /\ Onward
<1>1. Event("response", 0) \in Events /\ Event("response", 0).who # "model"
  BY ConversationAssumption DEF Event, Events
<1>2. /\ Ends(releases')
      /\ \A u \in Turns : /\ releases'[u].state # "issued"
                          /\ releases'[u].state = "consumed" => releases[u].state = "consumed"
  BY EndReleasesEnds DEF DialogueResponse, Service
<1> QED BY <1>1, <1>2, SpeakingKeeps DEF DialogueResponse

LEMMA LapseCallKeeps == ASSUME Service, KindsKept, NEW t \in Turns, LapseCall(t) PROVE Service' /\ Onward
<1>1. /\ calls' \in [Turns -> CallRecords]
      /\ \A u \in Turns : /\ calls'[u].version = calls[u].version /\ calls'[u].selection = calls[u].selection
                          /\ calls'[u].state = calls[u].state \/ (calls[u].state = "open" /\ calls'[u].state # "none")
  BY DEF LapseCall, Service, ServiceShape, CallRecords
<1>2. Ends(releases') BY DEF LapseCall, Ends, Service, ServiceShape
<1> QED BY <1>1, <1>2, EndingKeeps DEF LapseCall, Service, ServiceShape, Current

LEMMA LapseReleaseKeeps == ASSUME Service, KindsKept, NEW t \in Turns, LapseRelease(t) PROVE Service' /\ Onward
<1>1. Ends(releases') /\ \A u \in Turns : releases'[u].state = releases[u].state
  BY DEF LapseRelease, Ends, Service, ServiceShape, ReleaseRecords
<1> QED BY <1>1, EndingKeeps DEF LapseRelease, Service, ServiceShape, Current

LEMMA MaintainKeeps == ASSUME Service, KindsKept, Maintain PROVE Service' /\ Onward
<1>1. ASSUME NEW u \in Turns
      PROVE  /\ releases'[u] \in ReleaseRecords /\ releases'[u].version = releases[u].version
             /\ \/ releases'[u].state = releases[u].state
                \/ releases[u].state = "issued" /\ releases'[u].state \in {"invalidated", "expired"}
  <2>1. releases[u] \in ReleaseRecords BY DEF Service, ServiceShape
  <2>2. CASE ~(Issued(u) /\ (releases[u].overdue \/ calls[u].boot # boot)) BY <2>1, <2>2 DEF Maintain
  <2>3. CASE Issued(u) /\ (releases[u].overdue \/ calls[u].boot # boot)
    <3>1. PICK state \in {"invalidated", "expired"} : releases'[u] = [releases[u] EXCEPT !.state = state]
      BY <2>3 DEF Maintain
    <3> QED BY <2>1, <2>3, <3>1 DEF Issued, ReleaseRecords, ReleaseStates
  <2> QED BY <2>2, <2>3
<1>2. releases' \in [Turns -> ReleaseRecords] BY <1>1 DEF Maintain
<1>3. Ends(releases') /\ \A u \in Turns : releases'[u].state = "consumed" => releases[u].state = "consumed"
  BY <1>1, <1>2 DEF Ends
<1> QED BY <1>3, EndingKeeps DEF Maintain, Service, ServiceShape, Current

LEMMA SelectKeeps ==
    ASSUME Service, KindsKept, NEW lane \in Lanes, Select(lane), UNCHANGED <<boot, history>> PROVE Service' /\ Onward
<1>1. /\ Ends(releases')
      /\ \A u \in Turns : /\ releases'[u].state # "issued"
                          /\ releases'[u].state = "consumed" => releases[u].state = "consumed"
  BY EndReleasesEnds DEF Select, Service
<1>2. ASSUME NEW u \in Turns
      PROVE  /\ calls'[u] \in CallRecords
             /\ calls'[u].version = calls[u].version /\ calls'[u].selection = calls[u].selection
             /\ calls'[u].state = calls[u].state \/ (calls[u].state = "open" /\ calls'[u].state # "none")
  <2>1. calls[u] \in CallRecords BY DEF Service, ServiceShape
  <2>2. CASE calls[u].state = "open" /\ calls[u].selection = Current
    BY <2>1, <2>2 DEF Select, CallRecords, CallStates
  <2>3. CASE ~(calls[u].state = "open" /\ calls[u].selection = Current) BY <2>1, <2>3 DEF Select
  <2> QED BY <2>2, <2>3
<1>3. calls' \in [Turns -> CallRecords] BY <1>2 DEF Select
<1>4. selections' \in Seq(Lanes) /\ Current <= Current' BY DEF Select, Service, ServiceShape, Current
<1> QED BY <1>1, <1>2, <1>3, <1>4, EndingKeeps DEF Service, ServiceShape

LEMMA AuthorizationRestartsKeeps == ASSUME Service, KindsKept, AuthorizationRestarts PROVE Service' /\ Onward
<1>1. Ends(releases') BY DEF AuthorizationRestarts, Ends, Service, ServiceShape
<1> QED BY <1>1, EndingKeeps DEF AuthorizationRestarts, Service, ServiceShape, Current

-----------------------------------------------------------------------------
(***************************************************************************)
(* The orchestrator.                                                       *)
(***************************************************************************)
\* What becomes of the records when those of T are discarded.
LEMMA Discarding ==
    ASSUME ConsoleShape, NEW T
    PROVE  /\ Discarded(T) \in [Turns -> TurnRecords]
           /\ \A t \in Turns :
                /\ Discarded(T)[t].kind = turns[t].kind /\ Discarded(T)[t].selection = turns[t].selection
                /\ t \notin T => Discarded(T)[t] = turns[t]
                /\ Discarded(T)[t].state = "running" <=> turns[t].state = "running"
                /\ t \in T => Discarded(T)[t].state \notin {"quarantined", "released"}
<1>1. ASSUME NEW t \in Turns
      PROVE  /\ Discarded(T)[t] \in TurnRecords
             /\ Discarded(T)[t].kind = turns[t].kind /\ Discarded(T)[t].selection = turns[t].selection
             /\ t \notin T => Discarded(T)[t] = turns[t]
             /\ Discarded(T)[t].state = "running" <=> turns[t].state = "running"
             /\ t \in T => Discarded(T)[t].state \notin {"quarantined", "released"}
  <2>1. turns[t] \in TurnRecords BY DEF ConsoleShape
  <2>2. CASE t \notin T BY <2>1, <2>2 DEF Discarded
  <2>3. CASE t \in T /\ turns[t].state = "prepared" BY <2>1, <2>3 DEF Discarded, TurnRecords, TurnStates
  <2>4. CASE t \in T /\ turns[t].state = "running" BY <2>1, <2>4 DEF Discarded, TurnRecords, TurnStates
  <2>5. CASE t \in T /\ turns[t].state \notin {"prepared", "running"}
    BY <2>1, <2>5 DEF Discarded, TurnRecords, TurnStates
  <2> QED BY <2>2, <2>3, <2>4, <2>5
<1>2. Discarded(T) = [t \in Turns |-> Discarded(T)[t]] BY DEF Discarded
<1> QED BY <1>1, <1>2

LEMMA HeldIsFinite == ASSUME ConsoleShape PROVE IsFiniteSet(held) /\ Cardinality(held) \in Nat
<1>1. IsFiniteSet(Turns) BY ConversationAssumption, FS_Interval DEF Turns
<1> QED BY <1>1, FS_Subset, FS_CardinalityType DEF ConsoleShape

LEMMA LateStays == ASSUME Console, KindsKept, late' \subseteq late PROVE LateIsOfTurns'
BY DEF Console, LateIsOfTurns, KindsKept

LEMMA LateGrows ==
    ASSUME Console, KindsKept, NEW t \in Turns, turns[t].kind # "none", NEW request \in Stages,
           late' = late \cup {<<request, t>>}
    PROVE  LateIsOfTurns'
BY DEF Console, LateIsOfTurns, KindsKept

\* Nothing happens to the turns.
LEMMA ConsoleStays ==
    ASSUME Console, Onward, UNCHANGED <<turns, held, op, halted, asked>>,
           sessions' \in [Sessions -> SessionRecords], LateIsOfTurns'
    PROVE  Console'
<1>1. ConsoleShape' /\ CustodyMatchesStatus' BY DEF Console, ConsoleShape, CustodyMatchesStatus
<1>2. AskedIsRecorded' BY DEF Console, ConsoleShape, AskedIsRecorded, Onward
<1>3. GatesAfterConsumption' BY DEF Console, ConsoleShape, GatesAfterConsumption, Onward, Idle
<1>4. TurnsAreSelected' BY DEF Console, ConsoleShape, TurnsAreSelected, Onward, TurnRecords, Current
<1> QED BY <1>1, <1>2, <1>3, <1>4 DEF Console

\* The parts of Console that are about the record of each turn.
LEMMA RecordsKeep ==
    ASSUME Console, Onward, turns' \in [Turns -> TurnRecords],
           \A t \in Turns : \/ turns'[t].kind = turns[t].kind /\ turns'[t].selection = turns[t].selection
                            \/ turns'[t].selection = Current /\ Current > 0,
           \A t \in Turns : turns'[t].state = "released" => turns[t].state = "released" \/ releases'[t].state = "consumed",
           op' = Idle \/ (op'.turn \in Turns /\ op'.stage # "idle" /\ turns'[op'.turn].kind # "none"),
           op'.stage = "gates" => releases'[op'.turn].state = "consumed"
    PROVE  GatesAfterConsumption' /\ TurnsAreSelected'
<1>1. GatesAfterConsumption' BY DEF Console, GatesAfterConsumption, Onward
<1>2. TurnsAreSelected'
  <2> SUFFICES ASSUME NEW t \in Turns
               PROVE  turns'[t].selection <= Current' /\ (turns'[t].kind # "none" => turns'[t].selection > 0)
    BY DEF TurnsAreSelected
  <2>1. turns[t].selection <= Current /\ (turns[t].kind # "none" => turns[t].selection > 0)
    BY DEF Console, TurnsAreSelected
  <2>2. Current <= Current' /\ turns'[t].selection \in Nat /\ turns[t].selection \in Nat
    BY DEF Onward, Console, ConsoleShape, TurnRecords
  <2> QED BY <2>1, <2>2 DEF Current
<1> QED BY <1>1, <1>2

LEMMA DiscardKeeps ==
    ASSUME Console, Onward, NEW T, Discard(T), UNCHANGED <<op, halted, asked>>,
           sessions' \in [Sessions -> SessionRecords], UNCHANGED late
    PROVE  Console'
<1> USE DEF Console
<1>0. /\ turns' \in [Turns -> TurnRecords] /\ held' = held \ T
      /\ \A t \in Turns :
            /\ turns'[t].kind = turns[t].kind /\ turns'[t].selection = turns[t].selection
            /\ t \notin T => turns'[t] = turns[t]
            /\ turns'[t].state = "running" <=> turns[t].state = "running"
            /\ t \in T => turns'[t].state \notin {"quarantined", "released"}
  BY Discarding DEF Discard
<1>1. Cardinality(held') <= MaxHeld
  <2>1. IsFiniteSet(held) /\ Cardinality(held) \in Nat /\ held' \subseteq held BY <1>0, HeldIsFinite
  <2>2. Cardinality(held') \in Nat /\ Cardinality(held') <= Cardinality(held)
    BY <2>1, FS_Subset, FS_CardinalityType
  <2> QED BY <2>1, <2>2, ConversationAssumption DEF ConsoleShape
<1>2. ConsoleShape' BY <1>0, <1>1 DEF ConsoleShape
<1>3. CustodyMatchesStatus' BY <1>0 DEF ConsoleShape, CustodyMatchesStatus
<1>4. AskedIsRecorded' BY DEF ConsoleShape, AskedIsRecorded, Onward
<1>5. GatesAfterConsumption' /\ TurnsAreSelected'
  <2>1. op' = Idle \/ (op'.turn \in Turns /\ op'.stage # "idle" /\ turns'[op'.turn].kind # "none")
    BY <1>0 DEF GatesAfterConsumption
  <2>2. op'.stage = "gates" => releases'[op'.turn].state = "consumed"
    BY DEF GatesAfterConsumption, Onward, Idle
  <2>3. \A t \in Turns : turns'[t].state = "released" => turns[t].state = "released" BY <1>0
  <2> QED BY <1>0, <2>1, <2>2, <2>3, RecordsKeep
<1>6. LateIsOfTurns' BY <1>0, LateStays DEF KindsKept
<1> QED BY <1>2, <1>3, <1>4, <1>5, <1>6

\* The turn that holds the mutex goes on.
LEMMA ProceedKeeps ==
    ASSUME Console, Onward, NEW t \in Turns, NEW from, At(t, from), NEW stage \in Stages \ {"idle"}, Proceed(stage),
           stage = "gates" => releases'[t].state = "consumed",
           UNCHANGED <<turns, held>>, halted' \subseteq Lanes, sessions' \in [Sessions -> SessionRecords],
           asked' \subseteq asked \cup {t}, asked' # asked => calls'[t].state # "none", LateIsOfTurns'
    PROVE  Console'
<1> USE DEF Console
<1>0. op' = [turn |-> t, stage |-> stage] BY DEF At, Proceed
<1>1. ConsoleShape' /\ CustodyMatchesStatus' BY <1>0 DEF ConsoleShape, CustodyMatchesStatus, At, Turns
<1>2. AskedIsRecorded' BY DEF ConsoleShape, AskedIsRecorded, Onward
<1>3. GatesAfterConsumption' /\ TurnsAreSelected'
  <2>1. turns'[t].kind # "none" BY DEF GatesAfterConsumption, At, Turns, Idle
  <2> QED BY <1>0, <2>1, RecordsKeep DEF ConsoleShape
<1> QED BY <1>1, <1>2, <1>3

\* It comes to its end.
LEMMA RecordKeeps ==
    ASSUME Console, Onward, NEW t \in Turns, NEW from, At(t, from), NEW state \in TurnStates \ {"running", "quarantined"},
           Record(t, state), state = "released" => releases'[t].state = "consumed",
           UNCHANGED <<held, sessions, asked>>, halted' \subseteq Lanes, late' \subseteq late \/ LateIsOfTurns'
    PROVE  Console'
<1> USE DEF Console
<1>0. /\ turns[t].state = "running"
      /\ \A u \in BurnedWith(t) : turns[u].state = "prepared"
  BY DEF At, ConsoleShape, BurnedWith
<1>1. PICK final \in TurnStates \ {"running", "quarantined"} :
          /\ turns' = [Discarded(BurnedWith(t)) EXCEPT ![t].state = final]
          /\ final = "released" => releases'[t].state = "consumed"
  BY DEF Record, TurnStates
<1>2. /\ turns' \in [Turns -> TurnRecords] /\ op' = Idle
      /\ \A u \in Turns : /\ turns'[u].kind = turns[u].kind /\ turns'[u].selection = turns[u].selection
                          /\ turns'[u].state = "quarantined" <=> turns[u].state = "quarantined"
                          /\ turns'[u].state = "released" => turns[u].state = "released" \/ releases'[u].state = "consumed"
                          /\ turns'[u].state = "running" <=> u # t /\ turns[u].state = "running"
  <2>1. op' = Idle BY DEF Record
  <2>2. ASSUME NEW u \in Turns
        PROVE  /\ turns'[u] \in TurnRecords
               /\ turns'[u].kind = turns[u].kind /\ turns'[u].selection = turns[u].selection
               /\ turns'[u].state = "quarantined" <=> turns[u].state = "quarantined"
               /\ turns'[u].state = "released" => turns[u].state = "released" \/ releases'[u].state = "consumed"
               /\ turns'[u].state = "running" <=> u # t /\ turns[u].state = "running"
    <3>0. Discarded(BurnedWith(t)) \in [Turns -> TurnRecords] BY Discarding
    <3>1. CASE u = t
      <4>1. turns'[t] = [Discarded(BurnedWith(t))[t] EXCEPT !.state = final] BY <1>1, <3>0
      <4>2. Discarded(BurnedWith(t))[t].kind = turns[t].kind /\ Discarded(BurnedWith(t))[t].selection = turns[t].selection
        BY Discarding
      <4> QED BY <1>0, <1>1, <3>0, <3>1, <4>1, <4>2 DEF TurnRecords
    <3>2. CASE u # t
      <4>1. turns'[u] = Discarded(BurnedWith(t))[u] BY <1>1, <3>0, <3>2
      <4>2. u \in BurnedWith(t) => turns[u].state = "prepared" BY <1>0
      <4> QED BY <3>0, <3>2, <4>1, <4>2, Discarding
    <3> QED BY <3>1, <3>2
  <2>3. turns' \in [Turns -> TurnRecords]
    <3>1. DOMAIN turns' = Turns /\ turns' = [u \in Turns |-> turns'[u]] BY <1>1, Discarding
    <3> QED BY <2>2, <3>1
  <2> QED BY <2>1, <2>2, <2>3
<1>3. ConsoleShape'
  <2>1. \A u \in Turns : turns'[u].state = "running" <=> op'.turn = u
    BY <1>0, <1>2 DEF ConsoleShape, At, Idle, Turns
  <2> QED BY <1>2, <2>1, ConversationAssumption DEF ConsoleShape, Idle, Stages
<1>4. CustodyMatchesStatus' BY <1>2 DEF CustodyMatchesStatus
<1>5. AskedIsRecorded' BY DEF ConsoleShape, AskedIsRecorded, Onward
<1>6. GatesAfterConsumption' /\ TurnsAreSelected' BY <1>2, RecordsKeep DEF Idle
<1>7. LateIsOfTurns' BY <1>2, LateStays DEF KindsKept
<1> QED BY <1>3, <1>4, <1>5, <1>6, <1>7

\* A plain turn comes to its end with its output in quarantine, if there is room.
LEMMA QuarantineKeeps ==
    ASSUME Console, Onward, NEW t \in Turns, NEW from, At(t, from), Record(t, "quarantined"), turns[t].kind = "plain",
           Cardinality(held) < MaxHeld, held' = IF turns[t].discard THEN held ELSE held \cup {t},
           UNCHANGED <<sessions, asked, halted, late>>
    PROVE  Console'
<1> USE DEF Console
<1>0. turns[t].state = "running" /\ turns[t] \in TurnRecords /\ turns \in [Turns -> TurnRecords]
  BY DEF At, ConsoleShape
<1>1. BurnedWith(t) = {} BY DEF BurnedWith
<1>2. Discarded({}) = turns BY <1>0 DEF Discarded
<1>3. turns' = [turns EXCEPT ![t].state = IF turns[t].discard THEN "discarded" ELSE "quarantined"] /\ op' = Idle
  BY <1>1, <1>2 DEF Record
<1>4. PICK final \in {"discarded", "quarantined"} :
          /\ turns' = [turns EXCEPT ![t].state = final]
          /\ held' = IF final = "quarantined" THEN held \cup {t} ELSE held
  BY <1>0, <1>3 DEF TurnRecords
<1>5. /\ turns' \in [Turns -> TurnRecords] /\ turns'[t].state = final
      /\ turns'[t].kind = turns[t].kind /\ turns'[t].selection = turns[t].selection
      /\ \A u \in Turns : u # t => turns'[u] = turns[u]
  BY <1>0, <1>4 DEF TurnRecords, TurnStates
<1>6. held' \subseteq Turns /\ Cardinality(held') <= MaxHeld
  <2>1. IsFiniteSet(held) /\ Cardinality(held) \in Nat BY HeldIsFinite
  <2>2. CASE held' = held BY <2>1, <2>2 DEF ConsoleShape
  <2>3. CASE held' = held \cup {t}
    <3>1. Cardinality(held') <= Cardinality(held) + 1 BY <2>1, <2>3, FS_AddElement
    <3>2. MaxHeld \in Nat /\ Cardinality(held') \in Nat
      BY <2>1, <2>3, FS_AddElement, FS_CardinalityType, ConversationAssumption
    <3> QED BY <2>1, <2>3, <3>1, <3>2 DEF ConsoleShape
  <2> QED BY <1>4, <2>2, <2>3
<1>7. ConsoleShape'
  <2>1. \A u \in Turns : turns'[u].state = "running" <=> op'.turn = u
    BY <1>0, <1>3, <1>5 DEF ConsoleShape, At, Idle, Turns
  <2> QED BY <1>3, <1>5, <1>6, <2>1, ConversationAssumption DEF ConsoleShape, Idle, Stages
<1>8. CustodyMatchesStatus' BY <1>0, <1>4, <1>5 DEF CustodyMatchesStatus
<1>9. AskedIsRecorded' BY DEF ConsoleShape, AskedIsRecorded, Onward
<1>10. GatesAfterConsumption' /\ TurnsAreSelected'
  <2>1. \A u \in Turns : turns'[u].state = "released" => turns[u].state = "released" BY <1>5
  <2>2. \A u \in Turns : turns'[u].kind = turns[u].kind /\ turns'[u].selection = turns[u].selection BY <1>5
  <2> QED BY <1>3, <1>5, <2>1, <2>2, RecordsKeep DEF Idle
<1>11. LateIsOfTurns' BY <1>5, LateStays DEF KindsKept
<1> QED BY <1>7, <1>8, <1>9, <1>10, <1>11

\* A record other than the running one is replaced, and the records of T go with it.
LEMMA OneRecordKeeps ==
    ASSUME Console, Onward, NEW T, NEW t \in Turns, op = Idle, NEW r \in TurnRecords,
           turns' = [Discarded(T) EXCEPT ![t] = r], turns[t].state \in {"none", "prepared", "released", "failed"},
           r.state \notin {"quarantined", "released"},
           \/ r.kind = turns[t].kind /\ r.selection = turns[t].selection
           \/ r.selection = Current /\ Current > 0 /\ turns[t].kind = "none",
           held' = held \ T, sessions' \in [Sessions -> SessionRecords], UNCHANGED <<halted, asked, late>>,
           \/ op' = Idle /\ r.state # "running"
           \/ \E stage \in Stages \ {"idle", "gates"} :
                op' = [turn |-> t, stage |-> stage] /\ r.state = "running" /\ r.kind # "none"
    PROVE  Console' /\ KindsKept
<1> USE DEF Console
<1>0. /\ Discarded(T) \in [Turns -> TurnRecords]
      /\ \A u \in Turns :
            /\ Discarded(T)[u].kind = turns[u].kind /\ Discarded(T)[u].selection = turns[u].selection
            /\ u \notin T => Discarded(T)[u] = turns[u]
            /\ Discarded(T)[u].state = "running" <=> turns[u].state = "running"
            /\ u \in T => Discarded(T)[u].state \notin {"quarantined", "released"}
  BY Discarding
<1>1. turns' \in [Turns -> TurnRecords] /\ turns'[t] = r /\ \A u \in Turns : u # t => turns'[u] = Discarded(T)[u]
  BY <1>0
<1>2. Cardinality(held') <= MaxHeld /\ held' \subseteq Turns
  <2>1. IsFiniteSet(held) /\ Cardinality(held) \in Nat /\ held' \subseteq held BY <1>0, HeldIsFinite
  <2>2. Cardinality(held') \in Nat /\ Cardinality(held') <= Cardinality(held)
    BY <2>1, FS_Subset, FS_CardinalityType
  <2> QED BY <2>1, <2>2, ConversationAssumption DEF ConsoleShape
<1>3. \A u \in Turns : turns[u].state # "running" BY DEF ConsoleShape, Idle, Turns
<1>4. ConsoleShape'
  <2>1. \A u \in Turns : turns'[u].state = "running" <=> op'.turn = u
    BY <1>0, <1>1, <1>3 DEF Idle, Turns
  <2>2. op' \in [turn : 0..MaxTurns, stage : Stages] BY ConversationAssumption DEF Idle, Stages, Turns
  <2> QED BY <1>1, <1>2, <2>1, <2>2 DEF ConsoleShape
<1>5. CustodyMatchesStatus' BY <1>0, <1>1 DEF CustodyMatchesStatus
<1>6. AskedIsRecorded' BY DEF ConsoleShape, AskedIsRecorded, Onward
<1>7. GatesAfterConsumption' /\ TurnsAreSelected'
  <2>1. \A u \in Turns : turns'[u].state = "released" => turns[u].state = "released" BY <1>0, <1>1
  <2>2. \A u \in Turns : \/ turns'[u].kind = turns[u].kind /\ turns'[u].selection = turns[u].selection
                         \/ turns'[u].selection = Current /\ Current > 0
    BY <1>0, <1>1
  <2>3. op' = Idle \/ (op'.turn \in Turns /\ op'.stage \notin {"idle", "gates"} /\ turns'[op'.turn].kind # "none")
    BY <1>1
  <2> QED BY <1>1, <2>1, <2>2, <2>3, RecordsKeep DEF Idle
<1>8. KindsKept BY <1>0, <1>1 DEF KindsKept
<1>9. LateIsOfTurns' BY <1>8, LateStays
<1> QED BY <1>4, <1>5, <1>6, <1>7, <1>8, <1>9

LEMMA DiscardsKeepKinds == ASSUME Console, NEW T, turns' = Discarded(T) PROVE KindsKept
BY Discarding DEF KindsKept, Console

LEMMA SessionsKeep == ASSUME Console, NEW s
      PROVE  /\ [sessions EXCEPT ![s].console = "closed"] \in [Sessions -> SessionRecords]
             /\ [sessions EXCEPT ![s].console = "expired"] \in [Sessions -> SessionRecords]
             /\ [sessions EXCEPT ![s].receipt = "ended"] \in [Sessions -> SessionRecords]
             /\ [sessions EXCEPT ![s].receipt = "ended", ![s].console = "closed"] \in [Sessions -> SessionRecords]
<1>0. sessions \in [Sessions -> SessionRecords] BY DEF Console, ConsoleShape
<1>1. [sessions EXCEPT ![s].console = "closed"] \in [Sessions -> SessionRecords] BY <1>0 DEF SessionRecords
<1>2. [sessions EXCEPT ![s].console = "expired"] \in [Sessions -> SessionRecords] BY <1>0 DEF SessionRecords
<1>3. [sessions EXCEPT ![s].receipt = "ended"] \in [Sessions -> SessionRecords] BY <1>0 DEF SessionRecords
<1>4. [sessions EXCEPT ![s].receipt = "ended", ![s].console = "closed"] \in [Sessions -> SessionRecords]
  <2> DEFINE ended == [sessions EXCEPT ![s].receipt = "ended"]
  <2>1. [sessions EXCEPT ![s].receipt = "ended", ![s].console = "closed"] = [ended EXCEPT ![s].console = "closed"]
    BY <1>0
  <2>2. ended \in [Sessions -> SessionRecords] BY <1>3
  <2> HIDE DEF ended
  <2>3. [ended EXCEPT ![s].console = "closed"] \in [Sessions -> SessionRecords] BY <2>2 DEF SessionRecords
  <2> QED BY <2>1, <2>3
<1> QED BY <1>1, <1>2, <1>3, <1>4

LEMMA ClosingKeeps == ASSUME Console, NEW s, CloseConsole(s) PROVE sessions' \in [Sessions -> SessionRecords]
<1>1. sessions' = [sessions EXCEPT ![s].console = "closed"] BY DEF CloseConsole
<1>2. [sessions EXCEPT ![s].console = "closed"] \in [Sessions -> SessionRecords] BY SessionsKeep
<1> QED BY <1>1, <1>2

-----------------------------------------------------------------------------
(***************************************************************************)
(* The steps, one by one.                                                  *)
(***************************************************************************)
\* The steps of the service, on time or late.
LEMMA HandleLateInv == ASSUME Inv, NEW r \in late, HandleLate(r) PROVE Inv'
<1>1. PICK request \in Stages, t \in Turns : r = <<request, t>> /\ turns[t].kind # "none"
  BY DEF Inv, Console, LateIsOfTurns
<1>2. Handled(request, t) /\ late' \subseteq late /\ UNCHANGED <<sessions, console>> BY <1>1 DEF HandleLate
<1>3. KindsKept BY <1>2 DEF KindsKept, console
<1>4. Service' /\ Onward BY <1>1, <1>2, <1>3, HandledKeeps DEF Inv
<1>5. Console' BY <1>2, <1>3, <1>4, LateStays, ConsoleStays DEF Inv, console, Console, ConsoleShape
<1> QED BY <1>4, <1>5 DEF Inv

LEMMA ServiceStepInv ==
    ASSUME Inv, DialogueResponse \/ Maintain \/ AuthorizationRestarts \/ \E t \in Turns : LapseCall(t) \/ LapseRelease(t)
    PROVE  Inv'
<1>1. UNCHANGED console /\ late' \subseteq late
  BY DEF DialogueResponse, Maintain, AuthorizationRestarts, LapseCall, LapseRelease
<1>2. KindsKept BY <1>1 DEF KindsKept, console
<1>3. Service' /\ Onward
  BY <1>2, DialogueResponseKeeps, MaintainKeeps, AuthorizationRestartsKeeps, LapseCallKeeps, LapseReleaseKeeps DEF Inv
<1>4. sessions' \in [Sessions -> SessionRecords]
  <2>1. CASE UNCHANGED sessions BY <2>1 DEF Inv, Console, ConsoleShape
  <2>2. CASE AuthorizationRestarts
    <3>1. ASSUME NEW s \in Sessions PROVE sessions'[s] \in SessionRecords
      BY <2>2 DEF AuthorizationRestarts, Inv, Console, ConsoleShape, SessionRecords
    <3> QED BY <2>2, <3>1 DEF AuthorizationRestarts
  <2> QED BY <2>1, <2>2 DEF DialogueResponse, Maintain, LapseCall, LapseRelease
<1>5. Console' BY <1>1, <1>2, <1>3, <1>4, LateStays, ConsoleStays DEF Inv, console
<1> QED BY <1>3, <1>5 DEF Inv

\* Sessions begin, end and are read.
LEMMA SessionStepInv ==
    ASSUME Inv, UNCHANGED <<service, turns, held, op, halted, asked, late>>, sessions' \in [Sessions -> SessionRecords]
    PROVE  Inv'
<1>1. KindsKept BY DEF KindsKept
<1>2. Service' /\ Onward BY <1>1, ServiceStays DEF Inv
<1>3. Console' BY <1>1, <1>2, LateStays, ConsoleStays DEF Inv
<1> QED BY <1>2, <1>3 DEF Inv

LEMMA DiscardStepInv ==
    ASSUME Inv, NEW T, Discard(T), UNCHANGED <<service, op, halted, asked, late>>, sessions' \in [Sessions -> SessionRecords]
    PROVE  Inv'
<1>1. KindsKept BY DiscardsKeepKinds DEF Inv, Discard
<1>2. Service' /\ Onward BY <1>1, ServiceStays DEF Inv
<1>3. Console' BY <1>2, DiscardKeeps DEF Inv
<1> QED BY <1>2, <1>3 DEF Inv

LEMMA RedeemInv == ASSUME Inv, NEW s \in Sessions, Redeem(s) PROVE Inv'
<1>1. [receipt |-> "active", console |-> "active", boot |-> boot] \in SessionRecords
  BY DEF Inv, Service, ServiceShape, SessionRecords
<1>2. sessions' \in [Sessions -> SessionRecords] BY <1>1 DEF Redeem, Inv, Console, ConsoleShape
<1> QED BY <1>2, SessionStepInv DEF Redeem, console

LEMMA CloseSessionInv == ASSUME Inv, NEW s \in Sessions, CloseSession(s) PROVE Inv'
<1>1. Console BY DEF Inv
<1>2. \/ /\ sessions' = [sessions EXCEPT ![s].receipt = "ended", ![s].console = "closed"]
         /\ Discard(OfSession(s))
      \/ /\ sessions' = [sessions EXCEPT ![s].receipt = "ended"]
         /\ UNCHANGED <<turns, held>>
  BY DEF CloseSession
<1>3. /\ [sessions EXCEPT ![s].receipt = "ended"] \in [Sessions -> SessionRecords]
      /\ [sessions EXCEPT ![s].receipt = "ended", ![s].console = "closed"] \in [Sessions -> SessionRecords]
  BY <1>1, SessionsKeep
<1>4. sessions' \in [Sessions -> SessionRecords] BY <1>2, <1>3
<1>5. UNCHANGED <<service, op, halted, asked, late>> BY DEF CloseSession
<1> QED BY <1>2, <1>4, <1>5, SessionStepInv, DiscardStepInv

LEMMA LapsesInv ==
    ASSUME Inv, NEW s \in Sessions, LapseReceipt(s) \/ LapseConsole(s) \/ StartReading(s) \/ PrepareExecution(s)
    PROVE  Inv'
<1>1. \/ sessions' = sessions \/ sessions' = [sessions EXCEPT ![s].receipt = "ended"]
      \/ sessions' = [sessions EXCEPT ![s].console = "expired"] \/ sessions' = [sessions EXCEPT ![s].console = "closed"]
  BY DEF LapseReceipt, LapseConsole, StartReading, PrepareExecution, CloseConsole
<1>3. sessions' \in [Sessions -> SessionRecords]
  <2>0. Console /\ sessions \in [Sessions -> SessionRecords] BY DEF Inv, Console, ConsoleShape
  <2>1. CASE sessions' = [sessions EXCEPT ![s].receipt = "ended"] BY <2>0, <2>1, SessionsKeep
  <2>2. CASE sessions' = [sessions EXCEPT ![s].console = "expired"] BY <2>0, <2>2, SessionsKeep
  <2>3. CASE sessions' = [sessions EXCEPT ![s].console = "closed"] BY <2>0, <2>3, SessionsKeep
  <2> QED BY <1>1, <2>0, <2>1, <2>2, <2>3
<1>2. UNCHANGED <<service, turns, held, op, halted, asked, late>>
  BY DEF LapseReceipt, LapseConsole, StartReading, PrepareExecution, console
<1> QED BY <1>2, <1>3, SessionStepInv

LEMMA StartAgainInv ==
    ASSUME Inv, NEW s, StartAgain(s), UNCHANGED <<service, op, halted, asked, late>> PROVE Inv'
<1>1. sessions' \in [Sessions -> SessionRecords] BY SessionsKeep DEF StartAgain, CloseConsole, Inv
<1> QED BY <1>1, DiscardStepInv DEF StartAgain

LEMMA CleanupInv == ASSUME Inv, Cleanup PROVE Inv'
<1>1. PICK T : Discard(T) BY DEF Cleanup
<1> QED BY <1>1, DiscardStepInv DEF Cleanup, Inv, Console, ConsoleShape

LEMMA FinishReadingInv == ASSUME Inv, FinishReading PROVE Inv'
<1>1. PICK r \in reading : \/ Discard(OfOtherSelections(r.selection)) /\ UNCHANGED sessions
                           \/ Discard(OfSession(r.session)) /\ CloseConsole(r.session)
  BY DEF FinishReading
<1>0. Console /\ sessions \in [Sessions -> SessionRecords] BY DEF Inv, Console, ConsoleShape
<1>2. sessions' \in [Sessions -> SessionRecords] BY <1>0, <1>1, ClosingKeeps
<1> QED BY <1>1, <1>2, DiscardStepInv DEF FinishReading

LEMMA SwitchModelInv == ASSUME Inv, NEW lane \in Lanes, SwitchModel(lane) PROVE Inv'
<1>1. PICK T : Discard(T) \/ UNCHANGED <<turns, held>> BY DEF SwitchModel
<1>2. KindsKept BY <1>1, DiscardsKeepKinds DEF KindsKept, Discard, Inv
<1>3. Service' /\ Onward BY <1>2, SelectKeeps DEF SwitchModel, Inv
<1>4. sessions' \in [Sessions -> SessionRecords] BY DEF SwitchModel, Inv, Console, ConsoleShape
<1>5. Console'
  <2>1. CASE Discard(T) BY <1>3, <1>4, <2>1, DiscardKeeps DEF SwitchModel, Inv
  <2>2. CASE UNCHANGED <<turns, held>> BY <1>2, <1>3, <1>4, <2>2, LateStays, ConsoleStays DEF SwitchModel, Inv
  <2> QED BY <1>1, <2>1, <2>2
<1> QED BY <1>3, <1>5 DEF Inv

\* Turns are prepared and used.
LEMMA CreateInv ==
    ASSUME Inv, NEW t \in Turns, NEW kind \in Kinds, NEW s \in Sessions, NEW T, Preparable(t, kind, s), Create(t, kind, s, T),
           \A u \in T : turns[u].state # "none", Current > 0, UNCHANGED <<service, op, halted, asked, late>>
    PROVE  Inv'
<1>1. NewTurn(kind, s) \in TurnRecords /\ NewTurn(kind, s).state = "prepared" /\ NewTurn(kind, s).selection = Current
  BY ConversationAssumption
     DEF NewTurn, TurnRecords, TurnStates, Sessions, Inv, Service, ServiceShape, Current, Version
<1>2. turns[t].state = "none" /\ turns[t].kind = "none" /\ op = Idle BY DEF Preparable, NoTurn
<1>3. held \ T = held \ (T \cup Replaced(kind, s))
  BY DEF Replaced, Inv, Console, CustodyMatchesStatus
<1>4. sessions' \in [Sessions -> SessionRecords] BY DEF Create, Inv, Console, ConsoleShape
<1>5. UNCHANGED service => Onward BY DEF Onward, service, Inv, Service, ServiceShape, Current
<1>6. Console' /\ KindsKept
  BY <1>1, <1>2, <1>3, <1>4, <1>5, OneRecordKeeps DEF Create, Inv
<1>7. Service' BY <1>6, ServiceStays DEF Inv
<1> QED BY <1>6, <1>7 DEF Inv

LEMMA PrepareInv ==
    ASSUME Inv, NEW t \in Turns, NEW s \in Sessions, PreparePlain(t, s) \/ PrepareMessage(t, s) \/ PrepareProposal(t, s)
    PROVE  Inv'
<1>1. UNCHANGED <<service, op, halted, asked, late>> BY DEF PreparePlain, PrepareMessage, PrepareProposal
<1>2. CASE StartAgain(s) BY <1>1, <1>2, StartAgainInv
<1>3. PICK kind \in {"plain", "message", "proposal"}, T \in {Stale, {}} :
          \/ StartAgain(s)
          \/ Preparable(t, kind, s) /\ Current > 0 /\ Create(t, kind, s, T)
  BY DEF PreparePlain, PrepareMessage, PrepareProposal
<1>4. CASE Preparable(t, kind, s) /\ Current > 0 /\ Create(t, kind, s, T)
  <2>1. kind \in Kinds BY <1>4 DEF Preparable
  <2>2. \A u \in T : turns[u].state # "none" BY <1>3 DEF Stale, OfOtherSelections, Burnable
  <2> QED BY <1>1, <1>4, <2>1, <2>2, CreateInv
<1> QED BY <1>2, <1>3, <1>4

LEMMA RunInv ==
    ASSUME Inv, NEW t \in Turns, NEW kind \in {"plain", "message", "proposal"}, Usable(t, kind), NEW T,
           NEW stage \in {"begin", "ingest"}, Run(t, stage, T), t \notin T, UNCHANGED <<service, halted, asked, late>>
    PROVE  Inv'
<1> DEFINE r == [turns[t] EXCEPT !.state = "running"]
<1>0. turns[t] \in TurnRecords /\ Discarded(T) \in [Turns -> TurnRecords] /\ Discarded(T)[t] = turns[t]
  BY Discarding DEF Inv, Console, ConsoleShape
<1>1. r \in TurnRecords /\ r.state = "running" /\ r.kind = turns[t].kind /\ r.selection = turns[t].selection
  BY <1>0 DEF TurnRecords, TurnStates
<1>2. turns' = [Discarded(T) EXCEPT ![t] = r] BY <1>0 DEF Run
<1>3. op = Idle /\ turns[t].state = "prepared" /\ turns[t].kind # "none" BY DEF Usable
<1>4. sessions' \in [Sessions -> SessionRecords] /\ held' = held \ T BY DEF Run, Inv, Console, ConsoleShape
<1>5. op' = [turn |-> t, stage |-> stage] /\ stage \in Stages \ {"idle", "gates"} BY DEF Run, Stages
<1>6. UNCHANGED service => Onward BY DEF Onward, service, Inv, Service, ServiceShape, Current
<1> HIDE DEF r
<1>7. Console' /\ KindsKept BY <1>1, <1>2, <1>3, <1>4, <1>5, <1>6, OneRecordKeeps DEF Inv
<1>8. Service' BY <1>7, ServiceStays DEF Inv
<1> QED BY <1>7, <1>8 DEF Inv

LEMMA FailInv ==
    ASSUME Inv, NEW t \in Turns, NEW kind, Usable(t, kind), NEW T, Fail(t, T),
           sessions' \in [Sessions -> SessionRecords], UNCHANGED <<service, halted, asked, late>>
    PROVE  Inv'
<1> DEFINE r == [Discarded(T)[t] EXCEPT !.state = IF t \in T THEN "discarded" ELSE "failed"]
<1>0. /\ Discarded(T) \in [Turns -> TurnRecords]
      /\ Discarded(T)[t].kind = turns[t].kind /\ Discarded(T)[t].selection = turns[t].selection
  BY Discarding DEF Inv, Console
<1>1. /\ r \in TurnRecords /\ r.state \in {"discarded", "failed"}
      /\ r.kind = turns[t].kind /\ r.selection = turns[t].selection
  BY <1>0 DEF TurnRecords, TurnStates
<1>2. turns' = [Discarded(T) EXCEPT ![t] = r] BY <1>0 DEF Fail
<1>3. op = Idle /\ turns[t].state = "prepared" BY DEF Usable
<1>4. held' = held \ T /\ op' = Idle BY <1>3 DEF Fail
<1>5. UNCHANGED service => Onward BY DEF Onward, service, Inv, Service, ServiceShape, Current
<1> HIDE DEF r
<1>6. Console' /\ KindsKept BY <1>1, <1>2, <1>3, <1>4, <1>5, OneRecordKeeps DEF Inv
<1>7. Service' BY <1>6, ServiceStays DEF Inv
<1> QED BY <1>6, <1>7 DEF Inv

LEMMA UseInv == ASSUME Inv, NEW t \in Turns, UsePlain(t) \/ UseMessage(t) \/ UseProposal(t) PROVE Inv'
<1>1. UNCHANGED <<service, halted, asked, late>> BY DEF UsePlain, UseMessage, UseProposal
<1>2. PICK kind \in {"plain", "message", "proposal"}, stage \in {"begin", "ingest"}, T \in SUBSET Turns :
          /\ Usable(t, kind)
          /\ \/ Run(t, stage, T) /\ (T = {} \/ (T = Stale /\ Fits(t)))
             \/ Fail(t, T) /\ UNCHANGED sessions
             \/ Fail(t, T) /\ CloseConsole(turns[t].session)
  <2>1. /\ {} \in SUBSET Turns /\ Stale \in SUBSET Turns /\ BurnedWith(t) \in SUBSET Turns
        /\ OfSession(turns[t].session) \in SUBSET Turns /\ OfSession(turns[t].session) \ {t} \in SUBSET Turns
    BY DEF Stale, OfOtherSelections, OfSession, BurnedWith
  <2> QED BY <2>1 DEF UsePlain, UseMessage, UseProposal, FailAndStartAgain
<1>3. CASE Run(t, stage, T) /\ (T = {} \/ (T = Stale /\ Fits(t)))
  <2>1. t \notin T BY <1>3 DEF Stale, OfOtherSelections, Fits
  <2> QED BY <1>1, <1>2, <1>3, <2>1, RunInv
<1>4. CASE Fail(t, T) /\ (UNCHANGED sessions \/ CloseConsole(turns[t].session))
  <2>1. sessions' \in [Sessions -> SessionRecords]
    <3>1. Console /\ sessions \in [Sessions -> SessionRecords] BY DEF Inv, Console, ConsoleShape
    <3> QED BY <1>4, <3>1, ClosingKeeps
  <2> QED BY <1>1, <1>2, <1>4, <2>1, FailInv
<1> QED BY <1>2, <1>3, <1>4

LEMMA ReadProposalStatusInv == ASSUME Inv, NEW t \in Turns, ReadProposalStatus(t) PROVE Inv'
<1>1. CASE StartAgain(turns[t].session) BY <1>1, StartAgainInv DEF ReadProposalStatus
<1>2. CASE ~StartAgain(turns[t].session)
  <2> DEFINE r == [turns[t] EXCEPT !.state = "gone"]
  <2>0. turns[t] \in TurnRecords /\ turns \in [Turns -> TurnRecords] BY DEF Inv, Console, ConsoleShape
  <2>1. r \in TurnRecords /\ r.state = "gone" /\ r.kind = turns[t].kind /\ r.selection = turns[t].selection
    BY <2>0 DEF TurnRecords, TurnStates
  <2>2. /\ op = Idle /\ turns[t].state \in {"released", "failed"} /\ op' = op
        /\ turns' = [turns EXCEPT ![t].state = "gone"] /\ UNCHANGED <<service, sessions, held, halted, asked, late>>
    BY <1>2 DEF ReadProposalStatus
  <2>3. Discarded({}) = turns BY <2>0 DEF Discarded
  <2>4. turns' = [Discarded({}) EXCEPT ![t] = r] BY <2>0, <2>2, <2>3
  <2>5. sessions' \in [Sessions -> SessionRecords] /\ held' = held \ {} BY <2>2 DEF Inv, Console, ConsoleShape
  <2>6. UNCHANGED service => Onward BY DEF Onward, service, Inv, Service, ServiceShape, Current
  <2> HIDE DEF r
  <2>7. Console' /\ KindsKept BY <2>1, <2>2, <2>4, <2>5, <2>6, OneRecordKeeps DEF Inv
  <2>8. Service' BY <2>2, <2>7, ServiceStays DEF Inv
  <2> QED BY <2>7, <2>8 DEF Inv
<1> QED BY <1>1, <1>2

-----------------------------------------------------------------------------
(***************************************************************************)
(* The turn that runs.                                                     *)
(***************************************************************************)
LEMMA RunningTurn ==
    ASSUME Inv, NEW t \in Turns, NEW from, At(t, from)
    PROVE  /\ turns[t].kind # "none" /\ turns[t].state = "running"
           /\ from \in Stages /\ (from = "gates" => releases[t].state = "consumed")
           /\ Lane(t) \in Lanes /\ halted \subseteq Lanes /\ (Halt(t) => halted' \subseteq Lanes)
<1>1. turns[t].kind # "none" /\ turns[t].state = "running" /\ from \in Stages
      /\ (from = "gates" => releases[t].state = "consumed")
  BY DEF Inv, Console, ConsoleShape, GatesAfterConsumption, At, Turns, Idle
<1>2. selections \in Seq(Lanes) /\ turns[t].selection \in 1..Len(selections)
  BY <1>1 DEF Inv, Console, ConsoleShape, Service, ServiceShape, TurnsAreSelected, TurnRecords, Current
<1>3. Lane(t) \in Lanes BY <1>2 DEF Lane
<1> QED BY <1>1, <1>3 DEF Halt, Inv, Console, ConsoleShape

LEMMA RecordKeepsKinds == ASSUME Console, NEW t \in Turns, NEW state, Record(t, state) PROVE KindsKept
<1> DEFINE D == Discarded(BurnedWith(t))
<1>1. D \in [Turns -> TurnRecords] /\ \A u \in Turns : D[u].kind = turns[u].kind BY Discarding DEF Console
<1>2. PICK final : turns' = [D EXCEPT ![t].state = final] BY DEF Record
<1> HIDE DEF D
<1>3. \A u \in Turns : turns'[u].kind = D[u].kind BY <1>1, <1>2 DEF TurnRecords
<1> QED BY <1>1, <1>3 DEF KindsKept

\* Whatever the service makes of its request, the turn comes to its end.
LEMMA EndsInv ==
    ASSUME Inv, NEW t \in Turns, NEW from, At(t, from), NEW request \in Stages, Handled(request, t) \/ UNCHANGED service,
           NEW state \in TurnStates \ {"running", "quarantined"}, Record(t, state),
           state = "released" => releases'[t].state = "consumed",
           UNCHANGED <<held, sessions, asked>>, Halt(t) \/ UNCHANGED halted,
           UNCHANGED late \/ late' = late \cup {<<request, t>>}
    PROVE  Inv'
<1>1. turns[t].kind # "none" /\ halted' \subseteq Lanes BY RunningTurn
<1>2. KindsKept BY RecordKeepsKinds DEF Inv
<1>3. Service' /\ Onward BY <1>1, <1>2, HandledKeeps, ServiceStays DEF Inv
<1>4. late' \subseteq late \/ LateIsOfTurns' BY <1>1, <1>2, LateGrows DEF Inv
<1>5. Console' BY <1>1, <1>3, <1>4, RecordKeeps DEF Inv
<1> QED BY <1>3, <1>5 DEF Inv

\* Whatever the service makes of its request, the turn goes on.
LEMMA GoesOnInv ==
    ASSUME Inv, NEW t \in Turns, NEW from, At(t, from), NEW request \in Stages, Handled(request, t) \/ UNCHANGED service,
           NEW stage \in Stages \ {"idle"}, Proceed(stage), stage = "gates" => releases'[t].state = "consumed",
           UNCHANGED <<turns, held, sessions, halted>>,
           asked' \subseteq asked \cup {t}, asked' # asked => calls'[t].state # "none",
           UNCHANGED late \/ late' = late \cup {<<request, t>>}
    PROVE  Inv'
<1>1. turns[t].kind # "none" /\ halted' \subseteq Lanes BY RunningTurn
<1>2. KindsKept BY DEF KindsKept
<1>3. Service' /\ Onward BY <1>1, <1>2, HandledKeeps, ServiceStays DEF Inv
<1>4. LateIsOfTurns' BY <1>1, <1>2, LateGrows, LateStays DEF Inv
<1>5. sessions' \in [Sessions -> SessionRecords] BY DEF Inv, Console, ConsoleShape
<1>6. Console' BY <1>1, <1>3, <1>4, <1>5, ProceedKeeps DEF Inv
<1> QED BY <1>3, <1>6 DEF Inv

LEMMA IngestMessageInv == ASSUME Inv, NEW t \in Turns, IngestMessage(t) PROVE Inv'
<1>1. At(t, "ingest") /\ UNCHANGED <<sessions, held, halted, reading, asked>> BY DEF IngestMessage
<1>2. {"ingest", "begin"} \subseteq Stages \ {"idle"} /\ "failed" \in TurnStates \ {"running", "quarantined"}
  BY DEF Stages, TurnStates
<1>3. CASE Handled("ingest", t) /\ Answered /\ Proceed("begin") /\ UNCHANGED turns
  BY <1>1, <1>2, <1>3, GoesOnInv DEF Answered
<1>4. CASE Refused /\ Record(t, "failed") BY <1>1, <1>2, <1>4, EndsInv DEF Refused, Answered
<1>5. CASE Lost("ingest", t) /\ Record(t, "failed") BY <1>1, <1>2, <1>5, EndsInv DEF Lost
<1> QED BY <1>3, <1>4, <1>5 DEF IngestMessage

\* A begun call is recorded by the time the provider is asked.
LEMMA BeginCallInv == ASSUME Inv, NEW t \in Turns, BeginCall(t) PROVE Inv'
<1>1. At(t, "begin") /\ UNCHANGED <<sessions, held, reading>> BY DEF BeginCall
<1>2. {"begin", "answer"} \subseteq Stages \ {"idle"} /\ "failed" \in TurnStates \ {"running", "quarantined"}
  BY DEF Stages, TurnStates
<1>3. CASE /\ Beginnable(t) /\ Handled("begin", t) /\ Answered
           /\ Proceed("answer") /\ asked' = asked \cup {t} /\ UNCHANGED <<turns, halted>>
  <2>1. calls'[t].state = "open" BY <1>3 DEF Handled, Begin, Inv, Service, ServiceShape
  <2> QED BY <1>1, <1>2, <1>3, <2>1, GoesOnInv DEF Answered
<1>4. CASE Refused /\ Record(t, "failed") /\ Halt(t) /\ UNCHANGED asked
  BY <1>1, <1>2, <1>4, EndsInv DEF Refused, Answered
<1>5. CASE Lost("begin", t) /\ Record(t, "failed") /\ Halt(t) /\ UNCHANGED asked
  BY <1>1, <1>2, <1>5, EndsInv DEF Lost
<1> QED BY <1>3, <1>4, <1>5 DEF BeginCall

LEMMA LaneHaltedInv == ASSUME Inv, NEW t \in Turns, LaneHalted(t) PROVE Inv'
<1>1. /\ At(t, "begin") /\ Record(t, "failed")
      /\ UNCHANGED <<service, sessions, held, halted, reading, asked, late>>
  BY DEF LaneHalted
<1>2. "begin" \in Stages /\ "failed" \in TurnStates \ {"running", "quarantined"} BY DEF Stages, TurnStates
<1> QED BY <1>1, <1>2, EndsInv

LEMMA ProviderAnswersInv == ASSUME Inv, NEW t \in Turns, ProviderAnswers(t) PROVE Inv'
<1>1. PICK stage \in {"admit", "fail"} :
          /\ At(t, "answer") /\ Proceed(stage)
          /\ UNCHANGED <<service, sessions, turns, held, halted, reading, asked, late>>
  BY DEF ProviderAnswers
<1>2. stage \in Stages \ {"idle"} BY DEF Stages
<1> QED BY <1>1, <1>2, GoesOnInv

\* An admitted answer is sealed, if there is room for it.
LEMMA AdmitOutputInv == ASSUME Inv, NEW t \in Turns, AdmitOutput(t) PROVE Inv'
<1>1. At(t, "admit") /\ UNCHANGED <<sessions, reading, asked>> BY DEF AdmitOutput
<1>2. /\ {"admit", "fail", "consume"} \subseteq Stages \ {"idle"}
      /\ {"failed", "withheld"} \subseteq TurnStates \ {"running", "quarantined"}
  BY DEF Stages, TurnStates
<1>3. CASE (Refused \/ Lost("admit", t)) /\ Proceed("fail") /\ UNCHANGED <<turns, halted, held>>
  BY <1>1, <1>2, <1>3, GoesOnInv DEF Refused, Answered, Lost
<1>4. CASE /\ Handled("admit", t) /\ Answered
           /\ CASE calls'[t].state = "admitted" -> Seal(t) /\ UNCHANGED halted
                [] calls'[t].state = "withheld" ->
                     Record(t, IF turns[t].kind = "proposal" THEN "failed" ELSE "withheld") /\ Halt(t) /\ UNCHANGED held
                [] OTHER -> Proceed("fail") /\ UNCHANGED <<turns, halted, held>>
  <2>0. UNCHANGED late BY <1>4 DEF Answered
  <2>1. CASE Seal(t) /\ UNCHANGED halted
    <3>1. CASE Cardinality(held) >= MaxHeld
      <4>1. Record(t, "failed") /\ UNCHANGED held BY <2>1, <3>1 DEF Seal
      <4> QED BY <1>1, <1>2, <1>4, <2>0, <2>1, <4>1, EndsInv
    <3>2. CASE ~(Cardinality(held) >= MaxHeld) /\ turns[t].kind # "plain"
      <4>1. Proceed("consume") /\ UNCHANGED <<turns, held>> BY <2>1, <3>2 DEF Seal
      <4> QED BY <1>1, <1>2, <1>4, <2>0, <2>1, <4>1, GoesOnInv
    <3>3. CASE ~(Cardinality(held) >= MaxHeld) /\ turns[t].kind = "plain"
      <4>1. Record(t, "quarantined") /\ held' = IF turns[t].discard THEN held ELSE held \cup {t}
        BY <2>1, <3>3 DEF Seal
      <4>2. KindsKept BY <4>1, RecordKeepsKinds DEF Inv
      <4>3. Service' /\ Onward BY <1>1, <1>4, <4>2, RunningTurn, HandledKeeps DEF Inv
      <4>4. Cardinality(held) < MaxHeld BY <3>3, HeldIsFinite, ConversationAssumption DEF Inv, Console
      <4>5. Console' BY <1>1, <2>0, <2>1, <3>3, <4>1, <4>3, <4>4, QuarantineKeeps DEF Inv
      <4> QED BY <4>3, <4>5 DEF Inv
    <3> QED BY <3>1, <3>2, <3>3
  <2>2. CASE Record(t, IF turns[t].kind = "proposal" THEN "failed" ELSE "withheld") /\ Halt(t) /\ UNCHANGED held
    <3>1. PICK state \in {"failed", "withheld"} : Record(t, state) BY <2>2
    <3>2. state \in TurnStates \ {"running", "quarantined"} /\ state # "released" BY <1>2, <3>1
    <3> QED BY <1>1, <1>2, <1>4, <2>0, <2>2, <3>1, <3>2, EndsInv
  <2>3. CASE Proceed("fail") /\ UNCHANGED <<turns, halted, held>> BY <1>1, <1>2, <1>4, <2>0, <2>3, GoesOnInv
  <2> QED BY <1>4, <2>1, <2>2, <2>3
<1> QED BY <1>3, <1>4 DEF AdmitOutput

LEMMA ReportFailureInv == ASSUME Inv, NEW t \in Turns, ReportFailure(t) PROVE Inv'
<1>1. At(t, "fail") /\ Record(t, "failed") /\ Halt(t) /\ UNCHANGED <<sessions, held, reading, asked>>
  BY DEF ReportFailure
<1>2. "fail" \in Stages /\ "failed" \in TurnStates \ {"running", "quarantined"} BY DEF Stages, TurnStates
<1> QED BY <1>1, <1>2, EndsInv DEF ReportFailure, Answered, Lost

\* The console reports as released what the service says is consumed.
LEMMA OutcomeInv ==
    ASSUME Inv, NEW t \in Turns, NEW from, At(t, from), NEW request \in Stages, Handled(request, t) \/ UNCHANGED service,
           \/ Released(t) /\ UNCHANGED halted /\ releases'[t].state = "consumed"
           \/ NotReleased(t),
           UNCHANGED <<sessions, held, asked, late>>
    PROVE  Inv'
<1>1. "gates" \in Stages \ {"idle"} /\ {"failed", "released"} \subseteq TurnStates \ {"running", "quarantined"}
  BY DEF Stages, TurnStates
<1>2. CASE NotReleased(t) BY <1>1, <1>2, EndsInv DEF NotReleased
<1>3. CASE Released(t) /\ UNCHANGED halted /\ releases'[t].state = "consumed"
  <2>1. CASE Record(t, "released") BY <1>1, <1>3, <2>1, EndsInv
  <2>2. CASE Proceed("gates") /\ UNCHANGED turns BY <1>1, <1>3, <2>2, GoesOnInv
  <2> QED BY <1>3, <2>1, <2>2 DEF Released
<1> QED BY <1>2, <1>3

LEMMA ConsumeOutputInv == ASSUME Inv, NEW t \in Turns, ConsumeOutput(t) PROVE Inv'
<1>1. At(t, "consume") /\ UNCHANGED <<sessions, held, reading, asked>> BY DEF ConsumeOutput
<1>2. {"consume", "status"} \subseteq Stages \ {"idle"} BY DEF Stages
<1>3. CASE /\ Handled("consume", t) /\ Answered
           /\ IF releases'[t].state = "consumed" THEN Released(t) /\ UNCHANGED halted ELSE NotReleased(t)
  BY <1>1, <1>2, <1>3, OutcomeInv DEF Answered
<1>4. CASE Refused /\ NotReleased(t) BY <1>1, <1>2, <1>4, OutcomeInv DEF Refused, Answered
<1>5. CASE Lost("consume", t) /\ Proceed("status") /\ UNCHANGED <<turns, halted>>
  BY <1>1, <1>2, <1>5, GoesOnInv DEF Lost
<1> QED BY <1>3, <1>4, <1>5 DEF ConsumeOutput

LEMMA ReadStatusInv == ASSUME Inv, NEW t \in Turns, ReadStatus(t) PROVE Inv'
<1>1. At(t, "status") /\ UNCHANGED <<service, sessions, held, reading, asked, late>> BY DEF ReadStatus
<1>2. "status" \in Stages BY DEF Stages
<1>3. \/ Released(t) /\ UNCHANGED halted /\ releases'[t].state = "consumed"
      \/ NotReleased(t)
  BY <1>1 DEF ReadStatus, Settles, service
<1> QED BY <1>1, <1>2, <1>3, OutcomeInv

LEMMA RunGatesInv == ASSUME Inv, NEW t \in Turns, RunGates(t) PROVE Inv'
<1>1. PICK state \in {"released", "failed"} :
          /\ At(t, "gates") /\ Record(t, state)
          /\ UNCHANGED <<service, sessions, held, halted, reading, asked, late>>
  BY DEF RunGates
<1>2. releases[t].state = "consumed" /\ "gates" \in Stages BY <1>1, RunningTurn
<1>3. state \in TurnStates \ {"running", "quarantined"} BY DEF TurnStates
<1> QED BY <1>1, <1>2, <1>3, EndsInv DEF service

LEMMA TurnStepInv == ASSUME Inv, NEW t \in Turns, TurnStep(t) PROVE Inv'
BY IngestMessageInv, BeginCallInv, LaneHaltedInv, ProviderAnswersInv, AdmitOutputInv, ReportFailureInv,
   ConsumeOutputInv, ReadStatusInv, RunGatesInv
   DEF TurnStep

-----------------------------------------------------------------------------
(***************************************************************************)
(* Restarts, and the theorems.                                             *)
(***************************************************************************)
LEMMA OrchestratorRestartsInv == ASSUME Inv, OrchestratorRestarts PROVE Inv'
<1> USE DEF Inv
<1>1. ASSUME NEW t \in Turns
      PROVE  /\ turns'[t] \in TurnRecords /\ turns'[t].state \in {"none", "gone"}
             /\ turns'[t].kind = turns[t].kind /\ turns'[t].selection = turns[t].selection
  <2>1. turns[t] \in TurnRecords BY DEF Console, ConsoleShape
  <2>2. CASE turns[t] = NoTurn BY <2>1, <2>2 DEF OrchestratorRestarts, NoTurn
  <2>3. CASE turns[t] # NoTurn
    <3>1. turns'[t] = [turns[t] EXCEPT !.state = "gone"] BY <2>3 DEF OrchestratorRestarts
    <3> QED BY <2>1, <3>1 DEF TurnRecords, TurnStates
  <2> QED BY <2>2, <2>3
<1>2. turns' \in [Turns -> TurnRecords] BY <1>1 DEF OrchestratorRestarts
<1>3. sessions' \in [Sessions -> SessionRecords]
  <2>1. ASSUME NEW s \in Sessions PROVE sessions'[s] \in SessionRecords
    <3>1. sessions[s] \in SessionRecords BY DEF Console, ConsoleShape
    <3>2. PICK closed \in {"none", "closed"} : sessions'[s] = [sessions[s] EXCEPT !.console = closed]
      BY DEF OrchestratorRestarts
    <3> QED BY <3>1, <3>2 DEF SessionRecords
  <2> QED BY <2>1 DEF OrchestratorRestarts
<1>4. KindsKept BY <1>1 DEF KindsKept
<1>5. Service' /\ Onward BY <1>4, ServiceStays DEF OrchestratorRestarts
<1>6. ConsoleShape'
  <2>1. held' = {} /\ halted' = {} /\ op' = Idle /\ UNCHANGED asked BY DEF OrchestratorRestarts
  <2>2. Cardinality(held') <= MaxHeld BY <2>1, FS_EmptySet, ConversationAssumption
  <2>3. \A t \in Turns : turns'[t].state # "running" /\ op'.turn # t BY <1>1, <2>1 DEF Idle, Turns
  <2>4. op' \in [turn : 0..MaxTurns, stage : Stages] BY <2>1, ConversationAssumption DEF Idle, Stages
  <2> QED BY <1>2, <1>3, <2>1, <2>2, <2>3, <2>4 DEF Console, ConsoleShape
<1>7. CustodyMatchesStatus' BY <1>1 DEF CustodyMatchesStatus, OrchestratorRestarts
<1>8. AskedIsRecorded' BY <1>5 DEF OrchestratorRestarts, Console, ConsoleShape, AskedIsRecorded, Onward
<1>9. GatesAfterConsumption' /\ TurnsAreSelected'
  <2>1. op' = Idle BY DEF OrchestratorRestarts
  <2>2. \A t \in Turns : turns'[t].state # "released" /\ turns'[t].kind = turns[t].kind
                         /\ turns'[t].selection = turns[t].selection
    BY <1>1
  <2> QED BY <1>2, <1>5, <2>1, <2>2, RecordsKeep DEF Idle
<1>10. LateIsOfTurns'
  <2>1. CASE UNCHANGED late BY <1>4, <2>1, LateStays
  <2>2. CASE op.stage \in {"ingest", "begin", "admit", "fail", "consume"} /\ late' = late \cup {<<op.stage, op.turn>>}
    <3>1. op # Idle BY <2>2 DEF Idle
    <3>2. op.turn \in Turns /\ turns[op.turn].kind # "none" /\ op.stage \in Stages
      BY <2>2, <3>1 DEF Console, GatesAfterConsumption, Stages
    <3> QED BY <1>4, <2>2, <3>2, LateGrows
  <2> QED BY <2>1, <2>2 DEF OrchestratorRestarts
<1> QED BY <1>5, <1>6, <1>7, <1>8, <1>9, <1>10 DEF Console

LEMMA InitInv == Init => Inv
<1> SUFFICES ASSUME Init PROVE Inv OBVIOUS
<1> USE ConversationAssumption DEF Init
<1>1. NoCall \in CallRecords /\ NoRelease \in ReleaseRecords /\ NoTurn \in TurnRecords
  BY DEF NoCall, CallRecords, CallStates, NoRelease, ReleaseRecords, ReleaseStates, NoTurn, TurnRecords, TurnStates
<1>2. ServiceShape BY <1>1 DEF ServiceShape, Version
<1>3. Service
  BY <1>2 DEF Service, CallsAreOfTurns, CallsStand, ConsumedIsSpoken, AnswersFollowTheirMessage, IssuedIsNewest,
              NoCall, NoRelease
<1>4. Cardinality(held) <= MaxHeld BY FS_EmptySet
<1>5. ConsoleShape BY <1>1, <1>4 DEF ConsoleShape, Idle, Stages, Turns, NoTurn, SessionRecords
<1>6. CustodyMatchesStatus /\ AskedIsRecorded BY DEF CustodyMatchesStatus, AskedIsRecorded, NoTurn
<1>7. GatesAfterConsumption /\ LateIsOfTurns BY DEF GatesAfterConsumption, LateIsOfTurns, NoTurn, Idle
<1>8. TurnsAreSelected BY DEF TurnsAreSelected, NoTurn, Current
<1> QED BY <1>3, <1>5, <1>6, <1>7, <1>8 DEF Inv, Console

LEMMA StutterInv == ASSUME Inv, UNCHANGED vars PROVE Inv'
<1>1. KindsKept BY DEF KindsKept, vars, console
<1>2. Service' /\ Onward BY <1>1, ServiceStays DEF Inv, vars
<1>3. sessions' \in [Sessions -> SessionRecords] BY DEF Inv, vars, Console, ConsoleShape
<1>4. Console' BY <1>1, <1>2, <1>3, LateStays, ConsoleStays DEF Inv, vars, console
<1> QED BY <1>2, <1>4 DEF Inv

LEMMA NextInv == Inv /\ [Next]_vars => Inv'
<1> SUFFICES ASSUME Inv, [Next]_vars PROVE Inv' OBVIOUS
<1>1. CASE \E r \in late : HandleLate(r) BY <1>1, HandleLateInv
<1>2. CASE DialogueResponse \/ Maintain \/ AuthorizationRestarts \/ \E t \in Turns : LapseCall(t) \/ LapseRelease(t)
  BY <1>2, ServiceStepInv
<1>3. CASE \E s \in Sessions : Redeem(s) \/ CloseSession(s) \/ LapseReceipt(s) \/ LapseConsole(s) \/ StartReading(s)
                               \/ PrepareSelection(s) \/ PrepareExecution(s)
  BY <1>3, RedeemInv, CloseSessionInv, LapsesInv, StartAgainInv DEF PrepareSelection
<1>4. CASE Cleanup \/ FinishReading BY <1>4, CleanupInv, FinishReadingInv
<1>5. CASE \E lane \in Lanes : SwitchModel(lane) BY <1>5, SwitchModelInv
<1>6. CASE \E t \in Turns, s \in Sessions : PreparePlain(t, s) \/ PrepareMessage(t, s) \/ PrepareProposal(t, s)
  BY <1>6, PrepareInv
<1>7. CASE \E t \in Turns : UsePlain(t) \/ UseMessage(t) \/ UseProposal(t) \/ ReadProposalStatus(t) \/ TurnStep(t)
  BY <1>7, UseInv, ReadProposalStatusInv, TurnStepInv
<1>8. CASE OrchestratorRestarts BY <1>8, OrchestratorRestartsInv
<1>9. CASE UNCHANGED vars BY <1>9, StutterInv
<1> QED BY <1>1, <1>2, <1>3, <1>4, <1>5, <1>6, <1>7, <1>8, <1>9 DEF Next

\* What the service and the orchestrator hold stays in agreement, whatever is lost, late or restarted.
THEOREM ConversationInvariance == Spec => []Inv
<1> QED BY InitInv, NextInv, PTL DEF Spec

\* The record the console shows, the quarantine beside it and the service's durable call never disagree, although
\* three stores keep them (modelTurnCoordinator.ts, caseModelTurn.ts, conversationTransport.ts).
THEOREM RecordsAlwaysAgree == Spec => []RecordsAgree
<1>1. Inv => RecordsAgree
  BY DEF Inv, Service, ServiceShape, Console, ConsoleShape, TurnsAreSelected, RecordsAgree, TypeOK
<1> QED BY <1>1, ConversationInvariance, PTL

\* An answer stands right after the message it answers, for any number of turns, restarts and late requests
\* (assertIngressBinding, prepareRelease, releaseIsCurrent).
THEOREM NobodySpeaksInBetween == Spec => []AnswersFollowTheirMessage
<1>1. Inv => AnswersFollowTheirMessage BY DEF Inv, Service
<1> QED BY <1>1, ConversationInvariance, PTL

\* Whatever changes the conversation or the selection ends, in the same step, what was issued for it.
THEOREM NothingStaleIsIssued == Spec => []IssuedIsNewest
<1>1. Inv => IssuedIsNewest BY DEF Inv, Service
<1> QED BY <1>1, ConversationInvariance, PTL

\* The console reports nothing as released that the service has not recorded, even when the answer that would have
\* said so was lost (consumeRelease, releaseStatus, consume).
THEOREM ReportedIsRecorded == Spec => []ReleasedIsRecorded
<1>1. Inv => ReleasedIsRecorded
  BY DEF Inv, Service, ConsumedIsSpoken, Console, GatesAfterConsumption, ReleasedIsRecorded
<1> QED BY <1>1, ConversationInvariance, PTL

=============================================================================
