-------------------------- MODULE EffectExecution ---------------------------
(***************************************************************************)
(* From a commitment to its effect and back: the services host             *)
(* (packages/services-mock/src/servicesHost.ts, effectLedger.ts), commit   *)
(* verification and outcome reports as the host sees them, and the         *)
(* maintenance pass of the authorization service that probes the host for  *)
(* commitments without an outcome (runtimeMaintenance.ts,                  *)
(* reconcileCommitment in authorizationCore.ts).                           *)
(*                                                                         *)
(* The two processes talk over HTTP: a request or a reply may be late or   *)
(* lost, and a client that gave up does not stop its request.  Either      *)
(* process may crash.  The ledger and the commitments are on disk; the     *)
(* tokens, the requests in flight and the maintenance pass are not.  One   *)
(* services process runs at a time: the next one starts after it exited.   *)
(*                                                                         *)
(* A key is the idempotency key of one Commit ruling.  A native key is     *)
(* ruled and bound by consuming an execution preparation.                  *)
(***************************************************************************)
EXTENDS Naturals

CONSTANTS
    Keys,
    Native,         \* keys of execution preparations
    Outcomes,       \* what a service handler may answer
    TokenTtl,       \* life of a commit token
    Attempts,       \* probes of one reconciliation
    None,           \* no key
    MaxTime,        \* bound: last instant of the clock
    MaxAsks,        \* bound: commit-verify requests
    MaxBoots,       \* bound: starts of the services host
    MaxStores,      \* bound: ledgers, each replacing the one before
    MaxRestarts,    \* bound: crashes of the authorization service
    MaxLosses       \* bound: lost messages and unanswered probes of a running host

VARIABLES
    commitments,    \* durable in the authorization service
    ledger,         \* durable in the services host
    effects,        \* what happened in the world, by key
    host,           \* the services process: running?, boot id and ledger id
    memory,         \* tokens and requests in flight of the running host
    network,        \* requests and replies under way
    listening,      \* the authorization service has finished its first pass
    maintenance,    \* its pass over commitments without an outcome
    now,            \* the clock of the machine
    asks, restarts, losses

vars == <<commitments, ledger, effects, host, memory, network, listening,
          maintenance, now, asks, restarts, losses>>

ASSUME ExecutionAssumption ==
    /\ Native \subseteq Keys
    /\ None \notin Keys
    /\ Outcomes \subseteq {"success", "failed"}
    /\ TokenTtl \in Nat /\ Attempts \in Nat \ {0}
    /\ MaxTime \in Nat /\ MaxAsks \in Nat /\ MaxBoots \in Nat
    /\ MaxStores \in Nat /\ MaxRestarts \in Nat /\ MaxLosses \in Nat

Known == {"success", "failed", "no-effect"}

\* "open": the ruling or the preparation can still be bound; "refused": it ended.
Commitment ==
    [state : {"open", "refused", "bound", "unknown", "discharged", "reconciled"},
     outcome : Known \cup {"none"}, boot : Nat, store : Nat]

Entry == [outcome : Outcomes, boot : Nat, store : Nat]
NoEntry == [outcome |-> "none", boot |-> 0, store |-> 0]

Slot == [state : {"none", "asking", "token"}, ask : Nat, deadline : Nat]
Empty == [state |-> "none", ask |-> 0, deadline |-> 0]

Message ==
    [kind : {"verify"}, key : Keys, boot : Nat, store : Nat, ask : Nat]
    \cup [kind : {"token"}, key : Keys, boot : Nat, ask : Nat, deadline : Nat]
    \cup [kind : {"refused", "consumed"}, key : Keys, boot : Nat, ask : Nat]
    \cup [kind : {"report"}, key : Keys, entry : Entry]

Answer ==
    [state : {"none", "unreachable", "absent"}, boot : Nat, store : Nat]
    \cup [state : {"recorded"}, entry : Entry]
NoAnswer == [state |-> "none", boot |-> 0, store |-> 0]

Pass ==
    [phase : {"idle", "next", "probe", "act"}, todo : SUBSET Keys,
     key : Keys \cup {None}, attempt : Nat, answer : Answer]
Idle == [phase |-> "idle", todo |-> {}, key |-> None, attempt |-> 0, answer |-> NoAnswer]

Unresolved(k) == commitments[k].state \in {"bound", "unknown"}

Init ==
    /\ commitments = [k \in Keys |-> [state |-> "open", outcome |-> "none", boot |-> 0, store |-> 0]]
    /\ ledger = [k \in Keys |-> NoEntry]
    /\ effects = [k \in Keys |-> [times |-> 0, outcome |-> "none"]]
    /\ host = [up |-> TRUE, boot |-> 1, store |-> 1]
    /\ memory = [k \in Keys |-> Empty]
    /\ network = {}
    /\ listening = FALSE
    /\ maintenance = Idle
    /\ now = 0
    /\ asks = 0 /\ restarts = 0 /\ losses = 0

Tick ==
    /\ now < MaxTime
    /\ now' = now + 1
    /\ UNCHANGED <<commitments, ledger, effects, host, memory, network, listening,
                   maintenance, asks, restarts, losses>>

-----------------------------------------------------------------------------
(***************************************************************************)
(* The services host.                                                      *)
(***************************************************************************)
\* execute() or executePrepared(): no token cached and no request to join.
Ask(k) ==
    /\ host.up
    /\ memory[k].state = "none"
    /\ asks < MaxAsks
    /\ asks' = asks + 1
    /\ memory' = [memory EXCEPT ![k] = [state |-> "asking", ask |-> asks + 1, deadline |-> 0]]
    /\ network' = network \cup {[kind |-> "verify", key |-> k, boot |-> host.boot,
                                 store |-> host.store, ask |-> asks + 1]}
    /\ UNCHANGED <<commitments, ledger, effects, host, listening, maintenance, now, restarts, losses>>

\* The client's timeout, or a broken connection; the request may still arrive.
AskFails(k) ==
    /\ memory[k].state = "asking"
    /\ memory' = [memory EXCEPT ![k] = Empty]
    /\ UNCHANGED <<commitments, ledger, effects, host, network, listening, maintenance,
                   now, asks, restarts, losses>>

Report(k, entry) == [kind |-> "report", key |-> k, entry |-> entry]

ReceiveReply(m) ==
    LET k == m.key
    IN  /\ m.kind \in {"token", "refused", "consumed"}
        /\ host.up /\ m.boot = host.boot
        /\ memory[k].state = "asking" /\ memory[k].ask = m.ask
        /\ memory' = [memory EXCEPT ![k] =
                        IF m.kind = "token"
                        THEN [state |-> "token", ask |-> m.ask, deadline |-> m.deadline]
                        ELSE Empty]
        \* already consumed and no outcome known: the host looks into its ledger
        /\ network' = (network \ {m}) \cup
                        IF m.kind = "consumed" /\ ledger[k] # NoEntry THEN {Report(k, ledger[k])} ELSE {}
        /\ UNCHANGED <<commitments, ledger, effects, host, listening, maintenance,
                       now, asks, restarts, losses>>

\* The token of a native key is not cached: it is gone whatever comes of it.
Spend(k) == IF k \in Native THEN [memory EXCEPT ![k] = Empty] ELSE memory

\* Mutant of Fresh: the ledger is not looked into.
FreshByDeadline(k) == now < memory[k].deadline

\* A token that may still create an effect.
Fresh(k) == ledger[k] = NoEntry /\ now < memory[k].deadline

\* The ledger entry is the effect, its creation atomic.  The host reports it
\* unless the last sync of the entry fails.
Produce(k, outcome) ==
    LET entry == [outcome |-> outcome, boot |-> host.boot, store |-> host.store]
    IN  /\ memory[k].state = "token"
        /\ Fresh(k)
        /\ ledger' = [ledger EXCEPT ![k] = entry]
        /\ effects' = [effects EXCEPT ![k] = [times |-> effects[k].times + 1, outcome |-> outcome]]
        /\ memory' = Spend(k)
        /\ \/ network' = network \cup {Report(k, entry)}
           \/ UNCHANGED network
        /\ UNCHANGED <<commitments, host, listening, maintenance, now, asks, restarts, losses>>

\* A recorded effect is never produced again, however old the token is.
ServeRecorded(k) ==
    /\ memory[k].state = "token"
    /\ ledger[k] # NoEntry
    /\ memory' = Spend(k)
    /\ network' = network \cup {Report(k, ledger[k])}
    /\ UNCHANGED <<commitments, ledger, effects, host, listening, maintenance,
                   now, asks, restarts, losses>>

\* The token expired, or the entry could not be written.
Forgo(k) ==
    /\ memory[k].state = "token"
    /\ ledger[k] = NoEntry
    /\ memory' = Spend(k)
    /\ UNCHANGED <<commitments, ledger, effects, host, network, listening, maintenance,
                   now, asks, restarts, losses>>

\* Mutant of Crash: tokens survive it.
CrashKeepingTokens ==
    /\ host.up /\ host.boot < MaxBoots
    /\ host' = [host EXCEPT !.up = FALSE]
    /\ UNCHANGED <<commitments, ledger, effects, memory, network, listening, maintenance,
                   now, asks, restarts, losses>>

\* Replies to the crashed process go nowhere.
Crash ==
    /\ host.up /\ host.boot < MaxBoots
    /\ host' = [host EXCEPT !.up = FALSE]
    /\ memory' = [k \in Keys |-> Empty]
    /\ network' = {m \in network : m.kind \in {"verify", "report"}}
    /\ UNCHANGED <<commitments, ledger, effects, listening, maintenance, now, asks, restarts, losses>>

\* Every start has a boot id of its own.
Restart ==
    /\ ~host.up
    /\ host' = [host EXCEPT !.up = TRUE, !.boot = host.boot + 1]
    /\ UNCHANGED <<commitments, ledger, effects, memory, network, listening, maintenance,
                   now, asks, restarts, losses>>

\* A cleared directory gets a new ledger id.
ReplaceLedger ==
    /\ ~host.up /\ host.store < MaxStores
    /\ host' = [host EXCEPT !.store = host.store + 1]
    /\ ledger' = [k \in Keys |-> NoEntry]
    /\ UNCHANGED <<commitments, effects, memory, network, listening, maintenance,
                   now, asks, restarts, losses>>

-----------------------------------------------------------------------------
(***************************************************************************)
(* The authorization service.                                              *)
(***************************************************************************)
Reply(m, kind) == [kind |-> kind, key |-> m.key, boot |-> m.boot, ask |-> m.ask]

Token(m) == [kind |-> "token", key |-> m.key, boot |-> m.boot, ask |-> m.ask,
             deadline |-> now + TokenTtl]

\* Which of the two comes out is AuthorizationCore's CommitVerify; a refusal
\* may end the ruling or leave it as it is.
Bind(m) ==
    /\ commitments' = [commitments EXCEPT ![m.key] =
                        [state |-> "bound", outcome |-> "none", boot |-> m.boot, store |-> m.store]]
    /\ network' = (network \ {m}) \cup {Token(m)}

Refuse(m) ==
    /\ \/ commitments' = [commitments EXCEPT ![m.key].state = "refused"]
       \/ UNCHANGED commitments
    /\ network' = (network \ {m}) \cup {Reply(m, "refused")}

\* A second verification binds nothing; a native key whose outcome is open is
\* answered with the commitment it was bound by.
Replay(m) ==
    /\ commitments[m.key].state # "open"
    /\ network' = (network \ {m}) \cup
                    {Reply(m, IF m.key \in Native /\ commitments[m.key].state = "bound"
                              THEN "consumed" ELSE "refused")}
    /\ UNCHANGED commitments

HandleVerify(m) ==
    /\ m.kind = "verify"
    /\ listening
    /\ \/ commitments[m.key].state = "open" /\ (Bind(m) \/ Refuse(m))
       \/ Replay(m)
    /\ UNCHANGED <<ledger, effects, host, memory, listening, maintenance, now, asks, restarts, losses>>

\* An outcome counts only for the boot and the ledger the commitment names.
Matches(k, entry) == entry.boot = commitments[k].boot /\ entry.store = commitments[k].store

\* The commitments once an outcome of k is recorded.
Recorded(k, outcome) ==
    [commitments EXCEPT ![k] =
        [state |-> IF commitments[k].state = "bound" THEN "discharged" ELSE "reconciled",
         outcome |-> outcome, boot |-> commitments[k].boot, store |-> commitments[k].store]]

\* reportEffectOutcome: anything but the first outcome of the commitment changes nothing.
RecordOutcome(k, entry) ==
    commitments' = IF Unresolved(k) /\ Matches(k, entry) THEN Recorded(k, entry.outcome)
                   ELSE commitments

HandleReport(m) ==
    /\ m.kind = "report"
    /\ listening
    /\ RecordOutcome(m.key, m.entry)
    /\ network' = network \ {m}
    /\ UNCHANGED <<ledger, effects, host, memory, listening, maintenance, now, asks, restarts, losses>>

\* A request that was not answered, or a reply that did not get through.
Lose(m) ==
    /\ losses < MaxLosses
    /\ losses' = losses + 1
    /\ network' = network \ {m}
    /\ UNCHANGED <<commitments, ledger, effects, host, memory, listening, maintenance,
                   now, asks, restarts>>

\* The pass under way is gone, and so are the requests that were open.
AuthorizationCrash ==
    /\ restarts < MaxRestarts
    /\ restarts' = restarts + 1
    /\ listening' = FALSE
    /\ maintenance' = Idle
    /\ network' = {m \in network : m.kind \notin {"verify", "report"}}
    /\ UNCHANGED <<commitments, ledger, effects, host, memory, now, asks, losses>>

-----------------------------------------------------------------------------
(***************************************************************************)
(* Maintenance: one commitment after the other, from one snapshot.  The    *)
(* first pass comes before the service listens and needs a healthy host.   *)
(***************************************************************************)
UnchangedByPass == UNCHANGED <<ledger, effects, host, memory, network, now, asks, restarts>>

\* Mutant of Pending: a commitment declared unknown is left to its owner.
PendingBound == {k \in Keys : commitments[k].state = "bound"}

Pending == {k \in Keys : Unresolved(k)}

BeginPass ==
    /\ maintenance.phase = "idle"
    /\ listening \/ host.up
    /\ maintenance' = [Idle EXCEPT !.phase = "next", !.todo = Pending]
    /\ UNCHANGED <<commitments, listening, losses>> /\ UnchangedByPass

BeginCommitment(k) ==
    /\ maintenance.phase = "next" /\ k \in maintenance.todo
    /\ maintenance' = [phase |-> IF Unresolved(k) THEN "probe" ELSE "next",
                       todo |-> maintenance.todo \ {k},
                       key |-> IF Unresolved(k) THEN k ELSE None,
                       attempt |-> 1, answer |-> NoAnswer]
    /\ UNCHANGED <<commitments, listening, losses>> /\ UnchangedByPass

\* Mutant of ProbeAnswer: what is read is not looked at.
ProbeAnswerUnchecked(k) == [state |-> "recorded", entry |-> ledger[k]]

ProbeAnswer(k) ==
    IF ledger[k] = NoEntry THEN [state |-> "absent", boot |-> host.boot, store |-> host.store]
    ELSE [state |-> "recorded", entry |-> ledger[k]]

\* The answer is what the ledger says now; it is acted upon later.
Probe ==
    /\ maintenance.phase = "probe"
    /\ \/ /\ host.up
          /\ maintenance' = [maintenance EXCEPT !.phase = "act", !.answer = ProbeAnswer(maintenance.key)]
          /\ UNCHANGED losses
       \/ /\ ~host.up \/ losses < MaxLosses
          /\ maintenance' = [maintenance EXCEPT !.phase = "act", !.answer = [NoAnswer EXCEPT !.state = "unreachable"]]
          /\ losses' = IF host.up THEN losses + 1 ELSE losses
    /\ UNCHANGED <<commitments, listening>> /\ UnchangedByPass

\* Mutant of ProvesAbsence: any running host with the ledger will do.
ProvesAbsenceAnyBoot(k, answer) ==
    answer.state = "absent" /\ answer.store = commitments[k].store

\* Only a host started after the binding, with the same ledger, proves that
\* nothing happened.
ProvesAbsence(k, answer) ==
    /\ answer.state = "absent"
    /\ answer.store = commitments[k].store
    /\ answer.boot # commitments[k].boot

NextCommitment == [maintenance EXCEPT !.phase = "next", !.key = None, !.attempt = 0, !.answer = NoAnswer]

\* reconcileAbsentAfterRestart; nothing happens once an outcome is recorded.
RecordAbsence(k) ==
    commitments' = IF Unresolved(k)
                   THEN [commitments EXCEPT ![k] = [commitments[k] EXCEPT !.state = "reconciled", !.outcome = "no-effect"]]
                   ELSE commitments

MarkUnknown(k) ==
    commitments' = IF commitments[k].state = "bound" THEN [commitments EXCEPT ![k].state = "unknown"]
                   ELSE commitments

Act ==
    LET k == maintenance.key
        answer == maintenance.answer
        proof == ProvesAbsence(k, answer)
    IN  /\ maintenance.phase = "act"
        /\ \/ /\ answer.state = "recorded"
              /\ RecordOutcome(k, answer.entry)
              /\ maintenance' = NextCommitment
           \/ /\ proof
              /\ RecordAbsence(k)
              /\ maintenance' = NextCommitment
           \/ /\ answer.state # "recorded" /\ ~proof
              /\ maintenance.attempt < Attempts
              /\ maintenance' = [maintenance EXCEPT !.phase = "probe", !.attempt = maintenance.attempt + 1, !.answer = NoAnswer]
              /\ UNCHANGED commitments
           \/ /\ answer.state # "recorded" /\ ~proof
              /\ maintenance.attempt = Attempts
              /\ MarkUnknown(k)
              /\ maintenance' = NextCommitment
        /\ UNCHANGED <<listening, losses>> /\ UnchangedByPass

EndPass ==
    /\ maintenance.phase = "next" /\ maintenance.todo = {}
    /\ maintenance' = Idle
    /\ listening' = TRUE
    /\ UNCHANGED <<commitments, losses>> /\ UnchangedByPass

Maintain ==
    \/ BeginPass \/ Probe \/ Act \/ EndPass
    \/ \E k \in Keys : BeginCommitment(k)

-----------------------------------------------------------------------------
Next ==
    \/ Tick \/ Crash \/ Restart \/ ReplaceLedger \/ AuthorizationCrash \/ Maintain
    \/ \E k \in Keys :
        \/ Ask(k) \/ AskFails(k) \/ ServeRecorded(k) \/ Forgo(k)
        \/ \E outcome \in Outcomes : Produce(k, outcome)
    \/ \E m \in network : ReceiveReply(m) \/ HandleVerify(m) \/ HandleReport(m) \/ Lose(m)

Spec == Init /\ [][Next]_vars

\* A crashed host is started again and the maintenance passes go on; nobody
\* has to ask, and no message has to arrive.
FairSpec == Spec /\ WF_vars(Restart) /\ WF_vars(Maintain)
=============================================================================
