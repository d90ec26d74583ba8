------------------------- MODULE ProposalProperties -------------------------
(***************************************************************************)
(* What the native proposals of a case promise.                            *)
(***************************************************************************)
EXTENDS NativeProposals

RulingRecords == [serial : Nat, verdict : {"none"} \cup Verdicts,
                  status : {"none", "issued", "invalidated", "expired"}]
RunRecords ==
    [source : 0..MaxRuns, action : 1..MaxRuns, prep : {"none", "issued", "consumed", "invalidated", "expired"},
     call : {"none", "open", "failed", "admitted"},
     intake : {"none", "issued", "consumed", "refused", "invalidated", "expired"},
     session : Sessions, boot : Nat, version : Nat, governance : Nat,
     lapsed : SUBSET ({"prep", "call", "intake"} \cup Gates), revision : 1..MaxRuns,
     gates : [Gates -> RulingRecords], escalation : {"none", "open", "answered", "closed"},
     successor : 0..MaxRuns, commit : {"none"} \cup Verdicts]
PreparationRecords ==
    [run : 1..MaxRuns, session : Sessions, boot : Nat, rulings : [Gates -> Nat], lapsed : BOOLEAN,
     state : {"issued", "consumed", "invalidated", "expired"}, verdict : {"none"} \cup Verdicts]

\* The records have their shape and nothing outgrows its bound; a revision comes after
\* what it revises, and is called once its preparation is consumed.
TypeOK ==
    /\ {boot, version, governance} \subseteq 1..(MaxChanges + 1)
    /\ receipts \in [Sessions -> {"none", "active", "ended", "lost"}]
    /\ runs \in Seq(RunRecords) /\ Len(runs) <= MaxRuns
    /\ preparations \in Seq(PreparationRecords) /\ Len(preparations) <= MaxPreparations
    /\ \A i \in DOMAIN runs :
        /\ runs[i].source < i /\ runs[i].successor \in {0} \cup (i + 1)..MaxRuns
        /\ runs[i].source # 0 => (runs[i].prep = "consumed" <=> runs[i].call # "none")
        /\ \A g \in Gates : runs[i].gates[g].serial <= MaxIssues
    /\ loops \in [Callers -> [run : 0..MaxRuns, gate : {"none"} \cup Gates, stage : {"idle", "rule", "look"}]]

\* A dialogue is continued once: whatever prepares, freezes and rules at the
\* same time, the only revision of an answered proposal that ever got an
\* escalation or its final Verify allow is the successor that the answered
\* ruling names, and no other attempt of that source is left issued.
OneSuccessor ==
    \A j \in Frozen : runs[j].source # 0 =>
        LET source == runs[j].source
            claimed == \/ \E g \in Gates : runs[j].gates[g].verdict = "escalate"
                       \/ runs[j].gates["verify"].verdict = "allow"
        IN  /\ claimed => runs[source].successor = j
            /\ runs[source].successor # 0 =>
                 \A k \in DOMAIN runs : runs[k].source = source => runs[k].prep # "issued"

\* An attempt to revise a proposal that can still bring its successor about. (When a
\* ruling expires while another gate loop waits to ask for it again, that loop's ruling
\* revives a run that no longer stood in the way of the next: repeated rulings are left out.)
Alive(j) ==
    \/ RevisionCurrent(j) /\ (runs[j].prep = "issued" \/ runs[j].call = "open" \/ runs[j].intake = "issued")
    \/ /\ ProposalCurrent(j) /\ Status(j) = "frozen"
       /\ \A g \in Gates : runs[j].gates[g].serial <= 1

\* An answer is never pursued twice at a time: of the attempts to continue it
\* one at most is alive, through preparation, call, intake and gates, whoever
\* asks for another while it fails, expires or is invalidated.
OneAttempt ==
    \A j, k \in DOMAIN runs :
        runs[j].source # 0 /\ runs[j].source = runs[k].source /\ Alive(j) /\ Alive(k) => j = k

\* The revisions of an action are frozen in order and without gaps, each under
\* the number its preparation promised.
RevisionsInOrder ==
    \A i \in Frozen : {runs[j].revision : j \in SameAction(i)} = 1..Cardinality(SameAction(i))

\* A Commit ruling is the last word on a proposal: no later preparation of it
\* is issued or consumed, and the ruling is the one its preparation recorded.
CommitIsFinal ==
    \A x, y \in DOMAIN preparations :
        /\ preparations[x].state = "consumed" => runs[preparations[x].run].commit = preparations[x].verdict
        /\ preparations[x].run = preparations[y].run /\ x < y => preparations[x].state # "consumed"

\* A dialogue is continued once, in its records and in what still runs.
OneContinuation == OneSuccessor /\ OneAttempt

\* The records of a case are in order: they have their shape, revisions follow each
\* other and a Commit ruling ends the proposal it is about, however calls interleave.
RecordsInOrder == TypeOK /\ RevisionsInOrder /\ CommitIsFinal

\* What is committed is what was verified: between the issue of a preparation
\* and its Commit ruling nobody has spoken, no authority fact has changed, the
\* session is the one it was and the service has not restarted; and each of the
\* three allows is the very one the preparation named.
CommitsWhatWasPrepared ==
    [][\A x \in DOMAIN preparations :
        preparations[x].state # "consumed" /\ preparations'[x].state = "consumed" =>
            LET run == runs[preparations[x].run]
            IN  /\ run.version = version /\ run.governance = governance
                /\ preparations[x].boot = boot /\ Receipt(run.session)
                /\ \A g \in Gates : /\ run.gates[g].serial = preparations[x].rulings[g]
                                    /\ run.gates[g].verdict = "allow"
                                    /\ run.gates[g].status = "issued"]_vars

\* What is overdue, was issued to an earlier start of the service or to a
\* session that has ended does not stay issued, however the service is
\* restarted in between: again and again there is nothing of the kind.
OverdueEnds ==
    []<>(/\ \A i \in DOMAIN runs :
            LET run == runs[i]
            IN  /\ "prep" \in run.lapsed \/ run.boot # boot \/ ~Receipt(run.session) => run.prep # "issued"
                /\ "intake" \in run.lapsed \/ run.boot # boot => run.intake # "issued"
         /\ \A x \in DOMAIN preparations :
            preparations[x].lapsed \/ preparations[x].boot # boot => preparations[x].state # "issued")

\* ADR-018: a proposal whose run is exactly verified can be prepared for
\* execution as long as nothing it is bound to has changed.
VerifiedIsExecutable ==
    \A i \in Frozen :
        Status(i) = "verified" /\ FactsCurrent(i) /\ Allowed(i) /\ Uncommitted(i)
            /\ runs[i].revision = LatestRevision(i) => Executable(i)
=============================================================================
