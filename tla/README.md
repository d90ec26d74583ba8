# Verification of the charter runtime

TLA+ modules, TLC runs and TLAPS proofs for the runtime in `src/`: a service
that rules on what an AI agent proposes to do, binds what it allows exactly
once, and hands the binding to a separate host that produces the effect.

All paths are relative to the repository; `gate-core/`, `consoles/` and
`services-mock/` stand for the `src` directories of those packages under
`src/packages/`, and `A` for `gate-core/authorizationCore.ts`. `PROJECT.json`
maps every definition to the lines it translates.

Contents: 1 inventory, 2 modules, 3 correspondence with the code, 4 runs,
5 fairness, 6 proofs, 7 disagreements found, 8 observations, 9 not modelled,
10 plan.

## 1. Inventory of the system

| part | state it keeps | operations | talks to | what makes it correct |
|---|---|---|---|---|
| durable world state (`gate-core/state.ts`, `schemas/`) | mandates and versions, policy, model selections, proposals, nonces, reservations, rulings, escalations, pattern events, commitments, effects; conversation, calls, releases, sessions, intakes, preparations | `applyWorldOp`, `validateWorldState` | every service, through the store | every operation keeps the relations `validateWorldState` asserts |
| WAL store (`walStore.ts`, `writerLease.ts`, `worldLock.ts`, `chain.ts`, `checkpoint.ts`) | WAL file, action and access chains, lease file, checkpoint, poisoned flag | open, replay, repair, verify, `beginRun`, `transactWithState`, `close` | all authorization services | a transaction is all there or not at all, across crashes; one writer; a crash is not tampering |
| authorization core (`A`, `evaluator.ts`) | none of its own but the loaded policy | grant, amend, revoke, policy reload, rule, dispose, respond, continue a revision, commit-verify, report, mark unknown, reconcile | store, services host | authority that is gone cannot be used; a proposal binds once; ceilings hold; outcomes are final |
| sweeper and maintenance (`sweeper.ts`, `runtimeMaintenance.ts`, `authorizationProcess.ts`) | none | one sweep transaction, then reconciliation of unresolved commitments | core, services host | everything with a deadline ends |
| services host (`services-mock/`) | effect ledger on disk; commitments in memory; boot id | execute, probe, report | core over HTTP | an effect happens at most once per commitment, and the core learns the truth |
| native proposals (`proposalIntake.ts`, `proposalPrecommit.ts`, `executionPreparation.ts`) | intakes, revision preparations, execution preparations | consume, prepare, run gates, issue, commit | core, screening | an answer is continued once; what is committed is what was prepared |
| conversation (`conversationTransport.ts`, `conversationProjectionService.ts`) and turns of the orchestrator (`consoles/modelTurnCoordinator.ts`, `caseModelTurn.ts`, `caseConversation.ts`, `caseProposal.ts`, `orchestratorHttpServer.ts`) | items, calls, releases, selection; beside them, in memory, turn records and held output | ingest, begin, complete, fail, consume; prepare and run a turn, switch the model | each other, over HTTP that can lose an answer | the memories of a turn agree; an answer follows its message |
| screening (`screeningCall.ts`) | calls and their terminals | ensure, resolve, admit, fail | precommit, orchestrator | a gate allows only on clean evidence about what it rules on |
| case session (`caseSessionHandoff.ts`, `consoles/caseSessionStore.ts`) | handoffs, provenance receipts; the sessions of the console | mint, redeem, close, expire | console | single use, bound to one start |
| system-use decisions (`systemUseDecision.ts`), card registry | decisions; signed files | install, transition, replace, resolve | core | what is not in force authorizes nothing |
| supervisor, browser pages, provider clients, tooling | processes; none | start, stop, render, call | | not modelled, see 9 |

The hard part is not any one handler: each is a single transaction under the
world's lock. It is their order. A ruling is issued, then authority changes, an
escalation is answered late, an override rules the proposal again, the sweeper
runs, the commit arrives, the host crashes, the outcome is declared unknown and
then reported; a request whose caller gave up is handled after its turn was
dropped; an fsync fails and the line is there after all. `PROJECT.json` lists
these hazards line by line.

## 2. Modules

| module | models | checked by run |
|---|---|---|
| `WorldState` | the part of the world the core works on, and the operations its handlers compose: `Invalidate`, `Expire`, `BindCommitment`, `RecordOutcome`, `HoldForReconciliation`, `RecordNoEffect`, `PatternNarrowing`, `LinkSuccessor` | through the core |
| `AuthorizationCore` | one action per transaction of the core, the sweeper and the model switch | `settlement`, `patterns`, `lapse` |
| `AuthorizationProperties` | its types, invariants, action properties, liveness | |
| `BindingBook`, `BindingBookRefinement` | abstract specification of the core: a proposal is bound once, under a mandate in force, within its ceilings, and a known outcome is final; and the book read off the core's state | `settlement` |
| `AuthorizationCoreProofs` | proofs about the states of the core | |
| `AuthorizationHistoryProofs` | proofs about its steps, successor links and ceilings, and that it is a `BindingBook` | |
| `MCAuthorizationCore` | proposals and limits for TLC | |
| `EffectExecution`, `EffectProperties` | the services host with its ledger, tokens and requests; verification and reports as messages; probes; crashes and restarts | `execution` |
| `AtMostOnceEffect` | abstract specification: an effect happens at most once, and what is learned of it is true and final | `execution` |
| `EffectExecutionProofs` | proofs about execution, with the refinement | |
| `WalStore`, `WalProperties` | the files of a world, the processes that open them, their appends, repairs and checkpoints | `wal`, `powerLoss` |
| `Journal` | abstract specification of the store: a log of what was committed, and true answers | `wal` |
| `WalProofs` | proofs about the store: the lease, the files and a store's memory, the refinement of `Journal` | |
| `NativeProposals`, `ProposalProperties` | model answers that become proposals, their revisions, the gate loop, execution preparations and Commit rulings | `proposals`, `continuation` |
| `ProposalProofs` | proofs about them | |
| `Conversation`, `ConversationProperties` | model turns in the orchestrator and the conversation, calls and releases of the service | `conversation` |
| `ConversationProofs` | proofs about them | |
| `CaseAuthority`, `AuthorityProperties` | system-use decisions, mandates, policy, handoffs and receipts, and the rulings and preparations that rest on them | `caseAuthority` |
| `CaseAuthorityProofs` | proofs about them | |
| `Screening`, `ScreeningProperties` | screening calls between the gate loop and the provider | `screening` |
| `ScreeningProofs` | proofs about them | |

### How the modules fit together

Each module takes one slice of the world and stands in for the others by what
they may do to it.

* `AuthorizationCore` sees the services host as any caller, with any boot and
  any outcome; `EffectExecution` sees the core as a service that binds or refuses
  and keeps one commitment per key. They meet at commit verification and report.
* `NativeProposals` takes the verdict of a ruling as an input, and every change
  of authority as one number (`governance`); `AuthorizationCore` has those
  rulings and changes in full, and models conversation changes by their effect
  (`PutConversationItems` ends the issued rulings of the case).
* `Conversation` hands a finished proposal turn to the gate loop (`RunGates`)
  without looking into it; `NativeProposals` is that loop. A conversation turn
  there is `ConversationChanges` here.
* `Screening` is the pause of that gate loop before Submit and Verify, with as
  many loops at once as the route admits.
* `CaseAuthority` is the ground of all of them: the mandate, policy and decision
  each boundary resolves anew and the session a preparation names. A `binding` is
  any ruling that gives authority, or a preparation. `AuthorizationCore` has the
  rulings in full and no preparations; here it is the other way round, so that what
  a change of authority does to both can be told apart.
* `WalStore` is below all: it justifies that an action of any other module is
  atomic and durable. `Journal` states exactly what they rely on.

## 3. How the models correspond to the code

**A transaction is an action.** `transactWithState` runs its builder under the
world's FIFO lock on a clone and applies all operations or none. A builder that
throws, an operation `apply()` refuses, and a transaction that only appends
record entries leave the world alone; they are the guards an action has. A
handler that awaits between two transactions is several actions.

**Time.** `AuthorizationCore` has a clock and compares deadlines exactly as the
code does (`>=` for windows and escalations, `>` for a mandate's expiry at
ruling). The other modules have records that become overdue at any moment: what
the code compares with a deadline is then `overdue`, and nothing can tell more.

**Overdue, of an earlier start, ended by somebody else** are kept apart, since
the code treats them differently in each of its checks.

### The core

* `world` is the durable state; one ruling id `r` also names its nonce, its
  reservations (they change state together) and its commitment; `<<"ruling", r>>`
  and `<<"recovery", r>>` name the escalation opened with ruling `r` and the
  recovery escalation of its commitment.
* What the policy rules, the screening and the model evidence say is an input:
  `ev` ranges over allow, deny and the contract of an escalation. `evidence` at
  commit is the conjunction of model card and system-use currentness.
* Left out of a ruling: wording, digests, record entries, review obligations, the
  `notification_volume` counter (a third instance of what two counters show), a
  mandate's time window (taken equal to its expiry), the variant of the ceiling
  contract without narrowing (a subset of its dispositions), `submitChallenge`
  and the Rely gate. One case, one service and one action class.
* Between the durable policy reload and the assignment of the policy in memory
  (A:1131) every ruling is refused as `policy-not-active` (A:1409), so one action
  stands for both.
* Days: `Day(t)` divides time by `DayLength`; the daily counter sums what was
  reserved on the day of reservation, as the code does.

### Execution

* A key is the idempotency key of one Commit ruling. A *native* key is bound by
  consuming an execution preparation: its token is not cached, and asking again
  is answered `already-consumed`, upon which the host looks into its ledger.
* `network` holds the requests and replies under way; nothing orders them. A
  request whose client gave up may still arrive; a reply whose request was given
  up is never read. A report is fire and forget.
* A boot id per start, tokens and pending requests in memory only. Creating the
  ledger entry (`linkSync`) is the effect, in one step. A write that fails before
  it is `Forgo`; a sync that fails after it is `Produce` without a report. A
  cleared records directory is a new ledger id, only while no host runs.
* Maintenance takes its list once, then probes commitment by commitment. A
  probe's answer and what is done about it are two steps.

### The store

* A file is a sequence of lines with a synced prefix. An append that fails leaves
  the line absent, torn or whole and unsynced (`AppendFailed`); the WAL store
  poisons itself then, whichever it was. `PowerLoss` takes any unsynced suffix of
  each file, possibly leaving a torn line, and the process.
* A start is `Open` (lease), `Recover` (torn tail cut off, chain and header
  checked, replay), `Materialize` (one missing entry of one chain, or the
  refusal `projection-diverged`), `Verify` (the latest checkpoint), `BeginRun`. Each
  step may be the last one before a crash.
* A transaction is `Transact` (append and sync, memory), `Project` (its entries,
  chain by chain) and `Answer`. A projection that fails answers `unknown`: the
  caller gets an error although the WAL has the transaction.
* `ClearLease` is the operator who removes a lease after a crash, with no process
  on the world. `WriteCheckpoint` is one step: see 8.
* Signatures, hashes and sequence numbers are not modelled: a line is itself, and
  a torn line followed by another is what verification would find damaged.

### Native proposals

* A run is a record from the model call over the intake to the frozen proposal,
  with the revision preparation it begins with when it revises another. `source`
  is what it revises, `successor` the link of ADR-018.
* `EndAll`, `EndAttempt`, `EndPreparations`, `EndRevisions` are the invalidations
  composed by each handler. Selection, authority and unseen changes differ in
  what they end at once: a card or a file that changes unseen ends nothing.
* The gate loop is a caller that rules (`RuleGate`) and looks again (`LookAgain`):
  several callers run beside each other over the same proposal, each with what it
  read before.
* `action` is the action id of the proposal: that of the source for a revision, a
  fresh one otherwise (`proposalIntake.ts:885`); the runs of an action are those
  that share it.

### Conversation

* `op` is the case mutex with the call its holder waits for; `late` the requests
  the service may handle after their caller gave up; `held` the quarantine;
  `halted` the lanes that failed; `reading` a status request under way.
* Turn stores: `turns[t].state` as the console reports it. Plain turns, message
  turns and proposal turns have the stores of three files, with their differences
  (what discards a turn, what burns it, what a restart of the service does).
* An answer is admitted, withheld or refused: the criteria are inputs. The
  provider's answer is an input.

### Screening

* `context` counts the changes of what a call is bound to; `current` is whether
  the proposal is. A run reads its progress, ensures the call, reads the evidence
  and rules: four steps, everything else may come between.
* The orchestrator takes up a call it was given once per start (`seen`). A report
  may be handled late or lost.

### Decisions and sessions

* A version has a status, the configuration it was made for (what the mandate
  contributes, and the policy), a window and whether its conditions are met.
  `Resolved` is `resolveActive`, which needs one active mandate and no second.
* A mandate has its state, `status`, and what its current version says of itself,
  `record`; revocation and expiry change only the first, and narrowing asks for both.
* Each handler ends its own part of what is issued, in its own transaction:

  | handler | ends |
  |---|---|
  | `transition`, `replace` | all that rests on the version |
  | `reloadPolicy`, or another policy at a start | everything |
  | `amendMandate` | what any version of the mandate gave |
  | `revokeMandate` | what the version that is revoked gave |
  | `grantMandate` | nothing |
  | narrowing by a ruling that escalates (A:1655) | rulings and revision preparations of the mandate |
  | narrowing by an override or a late answer (A:1728) | rulings of the mandate |
  | the sweep, for expiry and for narrowing | issued rulings of the mandate, with the executions that name them, and revision preparations |
  | `closeSession` | preparations of the session |

* A binding is `overdue` when its own window has passed; `Lapsed` adds the windows it
  may not exceed. Every use (`Use`, `Prepare`) checks mandate, decision, session and
  windows anew, and a use that is refused leaves everything as it is.
* Rulings, releases and intakes share the predicates of the table; releases and
  intakes are in `Conversation` and `NativeProposals`. A precommit ruling stands for
  the three an execution names.
* A redeem or close request is answered, refused, lost, or handled late; the
  orchestrator's session and the service's receipt expire each for itself.

## 4. Runs

Bounds stop every system, hence `CHECK_DEADLOCK FALSE` in each configuration. In
the core a threshold or a duration of 9 means "never in this run": each run opens
the dimensions its question needs.

| run | question | bounds that matter |
|---|---|---|
| `settlement` | do authority, capacity, nonces, commitments and recovery agree; are ceilings and lifecycles kept; is the core a `BindingBook`? | two proposals of two actions of which only one fits the ceiling, 2 rulings, 2 mandate versions, 2 policies and one reload, 2 boots, two days: every pair of changes around a ruling, an outcome reported, lost, late or absent |
| `patterns` | who narrows, and does an override or a revision bind twice? | one action, 3 rulings, escalation threshold 3 and timeout and override thresholds 1: each of the three can be the one reached |
| `lapse` | does everything issued or open end? (fair) | two rulings, a mandate that expires before or with them, and two selections |
| `execution` | at most one effect, true knowledge, refinement of `AtMostOnceEffect`, every outcome arrives (fair) | one key, one crash of each process, one replaced ledger, one lost message, two requests, two instants: a reply may come after a restart, a token after its expiry, a probe's answer after a restart. Native keys add states and no question: the theorems have them |
| `wal` | is the log atomic, is there one writer, is memory durable, is a crash never tampering, do callers hear? Refines `Journal` (fair) | two processes, two transactions (of two entries and of one), two faults, one checkpoint, three starts: a fault in a repair of a fault, and a start after both |
| `proposals` | one continuation per answer, revisions in order, nothing committed that was not prepared (fair) | two sessions, two gate loops, one first run and two revisions, two preparations, two changes: two revisions of one answer or a revision of a revision |
| `conversation` | do the three memories of a turn agree, and does its work end? (fair) | two lanes, all three kinds of turn, two turns, one held output, four events, two faults or changes: one turn in the way of the other, one of them late |
| `caseAuthority` | is what is issued held by a decision, a mandate and a session, and does what narrowing leaves stay without authority? (fair) | two scopes, policies, versions, mandates, handoffs, sessions and bindings, two changes: a precommit ruling and its execution, narrowed and then amended back, granted over, reloaded or replaced; a repeated or late redemption; a close after a crash. The safety properties are proved for every bound |
| `screening` | one provider call per start, no allow without evidence, final evidence, every run ends (fair) | three runs side by side, Verify needs screening, two changes |
| `revokedNarrowing`, `powerLoss`, `continuation` | disagreements, see 7 | |

Properties that are conjunctions name their parts, each with a comment:
`Restartable` (`TypeOK`, `Readable`, `NoFalseAlarm`), `OneContinuation`
(`OneSuccessor`, `OneAttempt`), `RecordsInOrder` (`TypeOK`, `RevisionsInOrder`,
`CommitIsFinal`), `UnknownIsRouted` (`TypeOK`, `RoutedIn`), the two `RecordsAgree`, `WorkEnds`, `IssuedIsHeld`,
`SessionsAreRedeemed`, `CallsInOrder`. Every property is broken by a mutant of the
code it is about, listed in `PROJECT.json`: a dropped guard, a handler that forgets
to invalidate, a status read as if it were the outcome. The other operators
marked "Mutant of" break a second part of such a conjunction.

What the runs show, beyond that no property is violated:

* Eager invalidation is complete for rulings: no handler relies on another to end
  the rulings it puts out of force. It is not for preparations. Narrowing leaves the
  execution preparations of the mandate, after an override or a late answer its
  revision preparations too, and the sweep leaves executions whose rulings were
  ended before (`Stranded`). Those are refused at every use, and whatever could
  restore their mandate ends them first: an amendment ends what any version of the
  mandate gave (`NothingRegained`).
* An ambiguous answer is safe in each protocol: after a lost reply a commitment is
  looked up in the ledger, a release is read back by its status, a redemption
  leaves a session nobody can use, a screening call stays open.
* The store is an atomic log even when a failed append left its line behind: what
  was answered as an error may be in the log, what was answered as committed
  always is.

## 5. Fairness

* Core: `Tick` (time passes) and `RunSweeper` (maintenance at start and every
  `SWEEP_INTERVAL_MS`). No person, orchestrator or services host has to act.
* Execution: `Restart` (a host that went down is started again) and the
  maintenance pass (timer, the loop's own progress, probes time out). No message
  has to arrive and nobody has to ask again. A commitment can stay `unknown` for
  as long as the host that holds its expired token runs without an entry:
  `OutcomesArrive` claims an outcome only for what is in the ledger and for what was
  bound before the last restart with the same ledger.
* Store: `Serve`, `Start` and `Stop`. The event loop of the process that has the
  lease runs what can run, and its maintenance timer fires; nobody has to open a
  store, remove a lease or make a request.
* Proposals, mandates, decisions and sessions: `Maintain`, the timer of a running
  service. A pass without any narrowing is always enabled while the service runs; the
  pass that a revoked mandate makes fail is the subject of run `revokedNarrowing`.
* Conversation: `TurnStep` of the turn that holds the mutex (each of its requests,
  and the provider's answer, has a timeout) and `Maintain`.
* Screening: `Progress` of every run that has begun (it awaits transactions only).

## 6. Proofs

All for every value of the constants; the assumptions are the ASSUMEs of the
modules (`WorldAssumption`, `CoreAssumption`, `ExecutionAssumption`,
`ScreeningAssumption`, `CaseAuthorityAssumption`, `ConversationAssumption`,
`ProposalsAssumption`, `WalAssumption`), which TLC evaluates in the runs. They say of
which type the constants are and little else; `CaseAuthorityAssumption` also that
the checked-in decision is for one of the configurations, that "none" is no policy
and that there may be one version of a decision.

`AuthorizationCoreProofs`: `TypeCorrect`, `IssuedRulingsAreCurrent`,
`RulingsAreSingleUse`, `CapacityIsAccounted`, `OneRevisionIsLive`,
`ProposalsBindOnce`, `UnknownOutcomesAreRouted`, each `Spec => []P`. They follow
from `Invariance`: `Inv`, the conjunction `Sound(world)` with `now` and `reloads`
in `Nat`, is inductive. `Sound` adds what makes the properties inductive: which
mandate version and selection a frozen proposal and its rulings are linked to
(`LinkedIn`), that a proposal has one usable ruling per gate at most
(`OneUsableIn`), without which a second Commit allow could be consumed after the
first. The operations of `WorldState` preserve `Sound`, one lemma each with the
guard it needs; an action's proof cites them in the order its handler calls them.

`AuthorizationHistoryProofs`: `SuccessorsAreLinked`, `LifecyclesRunForward`,
`NarrowingHolds`, `CeilingsAreKept` and the refinement `CoreImplementsBook`, from
`HistoryInvariance`. What an operation does to what is there is one of a few relations
between two worlds, each transitive: things end (`Ends`), a proposal is ruled and others
of its action end (`Begins`), a successor or a newest revision is written (`Touches`),
mandates go out of force (`Restricts`), one commitment takes a step (`Commits`). A
handler is a composition of its operations, and so are its relations; from them follow
the lifecycles, and that all other commitments stay as they are (`SameBook`).

The ceilings need an invariant of their own (`WithinCeilings`): a binding is checked
against the counter of the day it happens on, the book counts it on the day of its
ruling. It holds because whatever is counted together with a reserved ruling was within
the ceilings of its mandate when it was reserved or came after it under the same
ceilings (an amendment ends every issued ruling and so releases its reservation). A
counter is a fold over a set of rulings; it is equal to the cardinality of a set of
units (`FoldIsTotal`, by a smallest set for which it is not), so that two counters, or
a counter and what the book has spent, are compared by an injection of one set of
rulings or proposals into another (`TotalAtMost`). Time alone raises no counter, since
no ruling is from the future (`TickContained`). The mapping's `BookState` used to be a
CASE whose conditions were not exclusive; the prover asked for an outcome that is never
"no effect" while it is still open, and the mapping now asks about the state first.

`EffectExecutionProofs`: `KnownOutcomesAreTrue`, `RecordedEffectsAreAdoptable`,
`ExecutionTypeCorrect` and `ExecutionIsAtMostOnce`, the refinement: `Produce` is the
abstract `Do`, a recorded outcome or a concluded absence the abstract `Learn`,
everything else a stutter. "Absent" is only evidence about the past: what makes it
final is that a token lives in the memory of the very boot its commitment names
(`TokensAreCurrent`), so that after an answer of a later boot no token of that
commitment is left; and that while the ledger is kept, an effect is in it
(`LedgerIsTrue`). The expiry of tokens is not needed for any of this.

`CaseAuthorityProofs`: `RecordsAlwaysAgree`, `SessionsWereRedeemed`,
`IssuedWasHeld`, `NothingIsRegained`, from `CaseAuthorityInvariance`. A version in
force is always the newest one (`OnlyNewestLives`), which is why replacing and
transitioning in any order never leaves two approved. A session identifier that has
no receipt is presented by one request at most (`SessionsAreFresh`): without it a
redemption handled late could overwrite the receipt of another handoff. An execution
names a precommit ruling of its own mandate (`NamesAreKnown`): this is why a handler
that ends only rulings leaves no execution that could still be consumed, since its
ruling has ended. What only gets older, at whichever record, keeps everything
(`AgeingKeeps`); the proofs of the actions that redeem, close, bind and change
decisions or mandates are then about the one record they touch. `NothingIsRegained`
is about steps: what is issued without authority has a mandate that is not active
(`IssuedIsAuthorised`), a use needs one that is, and the only step that makes a mandate
active again, `amendMandate`, ends whatever any of its versions gave (`Unregained`).

`ScreeningProofs`: `CallsAreInOrder`, `AllowsWereScreened`, `EvidenceStaysFinal`,
from `ScreeningInvariance`. An allow is traced back to the provider: a ruling names
the context of the call its run resolved (`EvidenceIsTraced`), the call was
admitted on a report (`AdmittedIsTraced`), and the report was made when the
provider was asked about that context, which never changes once the call is open
(`ReportsAreTraced`). That the provider is asked once per start is `AskedWithinStarts`:
a call that this start has not taken up has been asked fewer times than there
were starts.

`ConversationProofs`: `RecordsAlwaysAgree`, `NobodySpeaksInBetween`,
`NothingStaleIsIssued`, `ReportedIsRecorded`, from `ConversationInvariance`. The
memories of the two processes differ while a request is under way, and a request
that timed out may still be handled; the invariant says, per stage of the turn
that holds the mutex, which record the service has already and which late request
can still change it. The proof found that `Seal` had been written with a CASE whose
conditions overlapped: TLC took the first branch, the prover any.

`ProposalProofs`: `CaseRecordsInOrder`, `DialogueContinuedOnce`, `CommittedAsPrepared`,
from `ProposalsInvariance`. The invariant relates the runs of an action: a revision
follows its source in number (`RevisionsInOrder`, `NextRevision`), one successor per
source (`OneSuccessor`), at most one attempt that can still go on (`OneAttempt`),
and of the preparations of a run only the last may be live or consumed (`Commits`).
Most steps only end things; what an end may do to a run is one relation on its record
(`Ebbs`), under which the invariant is closed. For the rest, whatever can go on after a
step could before it, except the revision just prepared (`Ages`, `StillAlive`), and
whatever can go on refuses another attempt (`AliveBlocks`). `NextRevision` is what lets
a freeze end every competing attempt. An earlier form of `OneAttempt` also counted a
run that a repeated ruling brings back to life; it held in TLC's instance only because
a proposal was ruled once there. With two rulings per gate and two gate loops, one
loop can wait while the ruling of the other expires and a new attempt is prepared,
and then ask again: the ruling of the older run is issued anew. Nothing of that reaches
a commit (`CommittedAsPrepared`), and the invariant leaves such rulings out.

`WalProofs`: `OneProcessWrites`, `AlwaysRestartable`, `MemoryIsOnDisk`, from
`StoreInvariance`, and the refinement `StoreImplementsJournal`. The lease file is there
whenever a process works on the world (`LeaseIsHeld`), which the exclusive creation in
`Open` turns into one writer. It needs the operator to look before clearing a lease, as
the error message asks. `StoreInv` adds to it what the files say of each other
(`FilesInv`: `Readable`, `NoFalseAlarm`, checkpoints of whole lines only) and of the
one store that is up (`Settled`): its memory is the replay of the log (`Recovered`),
once it runs the log is synced to its end (`Synced`), and the chains are its projection,
those still to be written one entry behind (`Materialized`, `AtWork`).

What a log says is computed line by line, and the prover has no induction over data to
offer. `SequencesGrow` replaces it: a set that has the empty sequence, and with a
sequence all that are one element longer, has every sequence (by a shortest one it lacks). The
replay is a recursive function for this reason; from `LoggedAppend` follow
`ProjectionAppend` and `ProjectionOfReplay` (to project what a start replayed is to
project the log), with which every append, cut and power loss is a fact about the last line.

The refinement has a further invariant, `JournalInv`. Cutting the log anywhere after its
synced end leaves the durable requests or all of them (`CutInv`), since at most the last
transaction is not durable and nobody has been told that it failed (`PendingInv`); whoever
waits has no answer and a number above all that is logged (`Waits`, `Works`,
`NumberedInv`). `CutInv` is why a power loss, which may take any unsynced line, is
still a step of the journal. A synced append, of a transaction or of whatever
line first syncs an earlier one, is `Commit`; an answer is `Tell`; a crash or a power
loss is `BreakOff`, which decides what was open; closing is `TurnAway`; all else stutters.

Only model-checked: all liveness (`CallersHear`, `LapsesEnd`, `OutcomesArrive`,
`OverdueEnds`, `WorkEnds`, `PreparationsEnd`, `RunsEnd`), which is out of the prover's
reach. Every invariant, action property and refinement of a passing run is a theorem.

## 7. Disagreements found

* `revokedNarrowing` (`gate-core/sweeper.ts:225`): the sweeper decides to narrow
  from the record of the current mandate version, which stays `active` when the
  mandate is revoked, and `mandate.amend` is refused for a revoked mandate. The
  sweep throws, now and at every later pass, and takes the service with it. Run
  `lapse` is the same property with thresholds out of reach.
* `powerLoss` (`gate-core/walStore.ts:230`): a start reads a WAL line whose sync
  failed, projects it and syncs the projection, without syncing the WAL. A power loss
  may then take the line and keep its entry; every later start is refused.
* `continuation` (`gate-core/proposalIntake.ts:1070`): the final Verify allow of a
  continuation claims the ruling it answers, and issuing an execution preparation
  requires that ruling to be unclaimed. A verified revision cannot be executed.

## 8. Observations

Not claimed as disagreements; each is in the model as it is in the code.

* A dialogue answer after the deadline ends the escalation as timed out without
  recording the timeout that the sweeper and a late disposition record (A:2192).
* The disposition of a recovery escalation leaves its commitment unknown (A:1978).
* The nonce of a ruling ended by a late answer never expires; an expired mandate
  may be narrowed; a mandate may be used at the instant of its expiry.
* Narrowing outside the sweeper does not end execution preparations (A:1655), and
  after an override or a late answer no revision preparations (A:1728); both are in
  `CaseAuthority`, and both stay without effect (`NothingRegained`).
* The sweep's expiry of a mandate reaches an execution only through an issued
  ruling it names (`sweeper.ts:116`); one whose rulings ended before stays issued until
  its own window passes, the service starts again or something else ends it.
* `grantMandate` ends nothing. A second active mandate makes `resolveActive` refuse at
  every boundary until one of the two is amended, revoked or expires.
* A native verification joins one in flight by preparation id alone
  (`executionPreparation.ts:339`). The join is left out of `EffectExecution`: the pending
  verification waits for its turn at the world lock only, and a host would have to go down and
  come back within that wait for the join to matter.
* `systemUseDecision.replace` always moves the prior version to `superseded`, which
  the world refuses for a version that is terminal: a suspended decision has no
  successor. Only tests call `transition` and `replace`; production installs the
  fixture.
* A revision attempt whose intake was invalidated blocks another attempt from the
  same conversation until it changes (`proposalRevisionPreparationBlocksReplacement`).
* An output the quarantine has no room for fails its turn and leaves its lane in
  use. A message for a halted lane is in the conversation before the lane refuses.
* A consume whose reply was lost may be handled after the status read that settles
  the turn as not released.
* Reading the model selection and preparing one run outside the case mutex; a stale
  answer only refuses.
* Terminal turn records are kept until the process ends; an open call of an earlier
  start stays open; a screening call whose provider answer was lost stays open too;
  a failed one is not repeated under the same policy version.
* After an exception in the gate loop nobody runs it again: the proposal stays
  frozen until something else ends it.

## 9. Not modelled, and why

* Parts of modelled components: `submitChallenge`, the Rely gate, review
  obligations and access grants (they record, and end nothing); the orchestrator's
  turns that draft a revision, its execution store and its selection preparations
  (the service's side of each is modelled); access denials and damaged ledgers
  of the services host; a crash between the artifact and the `latest.json` of a
  checkpoint; remote anchors and the git observer; which policy rule matches.
* The supervisor: that one service and one host run at a time is assumed.
* The HTTP boundary: routing, authentication, rate limits and projection to JSON add
  no state the properties speak of; lost and late requests are in each module.
* Keys, tokens and canonical form; the model-card registry: pure functions of
  their input, or of signed files. What they answer is an input of the models.
* Admission criteria and redaction of model output; provider clients; browser pages;
  the conformance harness; repository tooling.

## 10. Plan

Done: core, execution, store, native proposals, conversation, decisions and
sessions, screening; proofs about each of them. Left, in this order:

1. The orchestrator's revision turns and execution store, composed with
   `NativeProposals`.
