----------------------- MODULE ConversationProperties -----------------------
(***************************************************************************)
(* What the conversation of a case and the turns that extend it promise.   *)
(***************************************************************************)
EXTENDS Conversation

TurnStates == {"none", "prepared", "running", "quarantined", "withheld", "released", "failed", "discarded", "gone"}
CallStates == {"none", "open", "admitted", "withheld", "failed"}
ReleaseStates == {"none", "issued", "consumed", "refused", "invalidated", "expired"}
Stages == {"idle", "ingest", "begin", "answer", "admit", "fail", "consume", "status", "gates"}

Events == [who : {"officer", "model", "response"}, turn : 0..MaxTurns]
CallRecords == [state : CallStates, version : Nat, selection : Nat, boot : Nat, overdue : BOOLEAN]
ReleaseRecords == [state : ReleaseStates, version : Nat, overdue : BOOLEAN]
TurnRecords == [kind : Kinds \cup {"none"}, session : 0..MaxSessions, selection : Nat, version : Nat,
                state : TurnStates, discard : BOOLEAN]
SessionRecords == [receipt : {"none", "active", "ended"}, console : {"none", "active", "closed", "expired"}, boot : Nat]

\* The variables have the shape the stores give them, the records of a turn that is
\* over are never running, and the quarantine stays within its capacity.
TypeOK ==
    /\ boot \in Nat /\ selections \in Seq(Lanes)
    /\ history \in Seq(Events) /\ Version <= MaxEvents
    /\ calls \in [Turns -> CallRecords] /\ releases \in [Turns -> ReleaseRecords]
    /\ turns \in [Turns -> TurnRecords] /\ sessions \in [Sessions -> SessionRecords]
    /\ \A t \in Turns : /\ turns[t].selection <= Current
                        /\ turns[t].state = "running" <=> op.turn = t
    /\ op \in [turn : 0..MaxTurns, stage : Stages]
    /\ held \subseteq Turns /\ Cardinality(held) <= MaxHeld
    /\ halted \subseteq Lanes /\ asked \subseteq Turns

\* An answer of the model stands right after the message it answers: nobody spoke
\* in between, whatever was delayed, retried or lost (prepareRelease, releaseIsCurrent).
AnswersFollowTheirMessage ==
    \A i \in DOMAIN history : history[i].who = "model" =>
        i > 1 /\ history[i - 1] = Event("officer", history[i].turn)

\* A release waiting to be consumed is the answer to the conversation as it stands, under
\* the model that is selected: every change of either ends it eagerly.
IssuedIsNewest ==
    \A t \in Turns : releases[t].state = "issued" =>
        releases[t].version = Version /\ calls[t].selection = Current

\* A turn's record says "quarantined" exactly as long as its output is held (ADR-011:
\* it never leaves `state: quarantined` after the bytes are gone).
CustodyMatchesStatus ==
    held = {t \in Turns : turns[t].state = "quarantined"}

\* What the console reports as released is recorded: the release or the intake is consumed,
\* and the answer to a message is in the conversation (consumeRelease, releaseStatus, consume).
ReleasedIsRecorded ==
    \A t \in Turns : turns[t].state = "released" =>
        releases[t].state = "consumed" /\ (turns[t].kind = "message" => Spoken("model", t))

\* The provider is asked only what a durable call records, even when answers are
\* lost or either side restarts.
AskedIsRecorded ==
    \A t \in asked : calls[t].state # "none"

\* The three memories of a turn agree although no step writes them together: the
\* record shown to the console, the quarantine beside it and the service's durable call.
RecordsAgree == TypeOK /\ CustodyMatchesStatus /\ AskedIsRecorded

\* A turn that runs comes to its end, and lets the next one start.
TurnsEnd == []<>(op = Idle)

\* An overdue release does not stay issued.
ReleasesEnd == \A t \in Turns : []<>~(releases[t].state = "issued" /\ releases[t].overdue)

\* Whatever is lost, restarted or left overdue, the work of a turn comes to an end.
WorkEnds == TurnsEnd /\ ReleasesEnd

=============================================================================
