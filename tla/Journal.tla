------------------------------ MODULE Journal ------------------------------
(***************************************************************************)
(* What the store of a world promises its callers: a log of transactions   *)
(* in the order in which they were asked for, and an answer that is true.  *)
(***************************************************************************)
EXTENDS Naturals, Sequences, SequencesExt

CONSTANT Requests       \* numbered in the order of arrival

VARIABLES
    log,                \* the transactions no failure can take away
    told                \* what the caller of each request was told

Answers == {"none", "committed", "unlogged", "unknown"}

JournalInit ==
    /\ log = <<>>
    /\ told = [r \in Requests |-> "none"]

\* A request joins the log, also after its caller was told that its fate is open.
Joins(r) ==
    /\ told[r] \in {"none", "unknown"}
    /\ \A s \in ToSet(log) : s < r
    /\ log' = Append(log, r)

Commit(r) == Joins(r) /\ UNCHANGED told

\* "committed" is said of what is in the log, "unlogged" of what never will be.
Tell(r, answer) ==
    /\ told[r] = "none"
    /\ answer = "committed" => r \in ToSet(log)
    /\ answer = "unlogged" => r \notin ToSet(log)
    /\ told' = [told EXCEPT ![r] = answer]
    /\ UNCHANGED log

\* A crash leaves every caller that waits without an answer; what was being
\* written may turn out to be there.
BreakOff ==
    /\ told' \in [Requests -> Answers]
    /\ \A r \in Requests : told'[r] # told[r] => told[r] = "none" /\ told'[r] = "unknown"
    /\ UNCHANGED log \/ \E r \in Requests : Joins(r)

\* A store that closes turns away the callers that still wait.
TurnAway ==
    /\ told' \in [Requests -> Answers]
    /\ \A r \in Requests : told'[r] # told[r] =>
           told[r] = "none" /\ told'[r] = "unlogged" /\ r \notin ToSet(log)
    /\ UNCHANGED log

JournalNext ==
    \/ \E r \in Requests : Commit(r)
    \/ \E r \in Requests, answer \in Answers \ {"none"} : Tell(r, answer)
    \/ BreakOff
    \/ TurnAway

JournalSpec == JournalInit /\ [][JournalNext]_<<log, told>>
=============================================================================
