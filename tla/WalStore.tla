------------------------------ MODULE WalStore ------------------------------
(***************************************************************************)
(* The durable store of one world: the write-ahead log, its replay, the    *)
(* two record chains projected from it, the writer lease, the FIFO lock    *)
(* and the start of the authorization process up to its run header         *)
(* (packages/gate-core/src/walStore.ts, chain.ts, writerLease.ts,          *)
(* worldLock.ts, authorizationProcess.ts), with the checkpoints that are   *)
(* taken of the three files and verified at the start (checkpoint.ts).     *)
(*                                                                         *)
(* A file is a sequence of lines of which a prefix is synced.  An append   *)
(* writes and syncs; when it fails, the line is absent, torn or whole but  *)
(* not synced, and nobody can tell which.  A process may crash at any      *)
(* step; the machine may lose its power, and each file its unsynced end.   *)
(* A chain's hashes are not modelled: a line is itself, and a torn line    *)
(* with another after it is damage that verification finds.                *)
(***************************************************************************)
EXTENDS Naturals, FiniteSets, Sequences, SequencesExt

CONSTANTS
    Procs,          \* processes that may try to own the world
    Requests,       \* 1..n, in the order of arrival
    Entries,        \* the record chains each request's transaction appends to
    NoRequest,
    MaxTime,        \* bound: last instant of the clock; it may be set back at any time
    MaxFaults,      \* bound: failed appends and power losses
    MaxCheckpoints, \* bound: checkpoints
    MaxStarts       \* bound: stores opened

VARIABLES
    disk,           \* the files
    lease,          \* does the file .writer.lock exist?
    store,          \* the WalStore of each process
    queue,          \* callers waiting for the world lock, by process
    current,        \* the caller that holds it
    told,           \* what each caller was told
    arrived,        \* number of requests made
    checkpoint,     \* the latest checkpoint: the lines it covers, by file
    checkpoints,    \* number of checkpoints written
    starts,         \* number of stores opened
    faults,         \* number of failed appends and power losses
    losses          \* number of power losses

vars == <<disk, lease, store, queue, current, told, arrived, checkpoint,
          checkpoints, starts, faults, losses>>

Chains == {"action", "access"}
Files == {"wal"} \cup Chains

ASSUME WalAssumption ==
    /\ Requests = 1..Cardinality(Requests) /\ IsFiniteSet(Requests)
    /\ NoRequest \notin Requests
    /\ Entries \in [Requests -> SUBSET Chains]
    /\ MaxTime \in Nat /\ MaxFaults \in Nat /\ MaxCheckpoints \in Nat /\ MaxStarts \in Nat

Line == [kind : {"genesis", "run", "transaction", "entry", "torn"},
         ts : 0..MaxTime, request : Requests \cup {NoRequest}]
Header(kind, ts) == [kind |-> kind, ts |-> ts, request |-> NoRequest]
Transaction(r, ts) == [kind |-> "transaction", ts |-> ts, request |-> r]
Entry(r) == [kind |-> "entry", ts |-> 0, request |-> r]
Torn == Header("torn", 0)

Lines(f) == disk[f].lines

\* verifyChain: complete lines only; and the one damage repair accepts.
Whole(lines) == \A i \in DOMAIN lines : lines[i].kind # "torn"
TornTail(lines) == ~Whole(lines) /\ Whole(Front(lines))

\* The transactions of some requests that a log holds, in its order.
Logged(lines, requests) ==
    LET logged[i \in 0..Len(lines)] ==
          IF i = 0 THEN <<>>
          ELSE IF lines[i].kind = "transaction" /\ lines[i].request \in requests
               THEN Append(logged[i - 1], lines[i])
               ELSE logged[i - 1]
    IN  logged[Len(lines)]

\* The requests and entries that a log commits to.
Touching == [f \in Chains |-> {r \in Requests : f \in Entries[r]}]
Replay(lines) == Logged(lines, Requests)
Projection(lines, f) ==
    LET touching == Logged(lines, Touching[f])
    IN  [i \in DOMAIN touching |-> Entry(touching[i].request)]

Phases == {"down", "repairing", "projecting", "opened", "verified", "running", "poisoned"}
Down == [phase |-> "down", memory |-> <<>>, last |-> 0, fresh |-> FALSE]
Idle == [request |-> NoRequest, stage |-> "none", todo |-> {}]

Init ==
    /\ disk = [f \in Files |-> [lines |-> <<>>, synced |-> 0]]
    /\ lease = FALSE
    /\ store = [p \in Procs |-> Down]
    /\ queue = [p \in Procs |-> <<>>]
    /\ current = [p \in Procs |-> Idle]
    /\ told = [r \in Requests |-> "none"]
    /\ arrived = 0
    /\ checkpoint = [f \in Files |-> <<>>]
    /\ checkpoints = 0
    /\ starts = 0
    /\ faults = 0 /\ losses = 0

-----------------------------------------------------------------------------
(***************************************************************************)
(* Appending a line.                                                       *)
(***************************************************************************)
\* Mutant of Appended: no fsync.
AppendedUnsynced(f, line) ==
    /\ disk' = [disk EXCEPT ![f].lines = Append(@, line)]
    /\ UNCHANGED faults

\* DurableChainWriter.append returned: the fsync covers the file.
Appended(f, line) ==
    /\ disk' = [disk EXCEPT ![f] = [lines |-> Append(@.lines, line),
                                    synced |-> Len(@.lines) + 1]]
    /\ UNCHANGED faults

\* It threw: the line is absent, torn, or whole and not synced.
AppendFailed(f, line) ==
    /\ faults < MaxFaults
    /\ faults' = faults + 1
    /\ \E end \in {<<>>, <<Torn>>, <<line>>} :
          disk' = [disk EXCEPT ![f].lines = @ \o end]

-----------------------------------------------------------------------------
(***************************************************************************)
(* Opening the store.                                                      *)
(***************************************************************************)
\* WriterLease: the file is created exclusively; while it exists, open refuses.
Open(p) ==
    /\ store[p].phase = "down"
    /\ ~lease
    /\ starts < MaxStarts
    /\ starts' = starts + 1
    /\ lease' = TRUE
    /\ store' = [store EXCEPT ![p] = [Down EXCEPT !.phase = "repairing"]]
    /\ UNCHANGED <<disk, queue, current, told, arrived, checkpoint, checkpoints, faults, losses>>

\* The lease is released, and waiting callers hear that the store is closed.
Shut(p) ==
    /\ lease' = FALSE
    /\ store' = [store EXCEPT ![p] = Down]
    /\ queue' = [queue EXCEPT ![p] = <<>>]
    /\ current' = [current EXCEPT ![p] = Idle]
    /\ told' = [r \in Requests |-> IF r \in ToSet(queue[p]) THEN "unlogged" ELSE told[r]]

\* Mutant of Repaired: the cut is not synced.
RepairedUnsynced(f) == disk' = [disk EXCEPT ![f].lines = Front(@)]

\* Mutant of Repaired: one good line goes with the torn one.
RepairedTooFar(f) ==
    disk' = [disk EXCEPT ![f] = [lines |-> SubSeq(@.lines, 1, Len(@.lines) - 2),
                                 synced |-> IF Len(@.lines) < 2 THEN 0 ELSE Len(@.lines) - 2]]

\* repairTornTail: cut a torn tail and sync.
Repaired(f) ==
    disk' = [disk EXCEPT ![f] = [lines |-> Front(@.lines), synced |-> Len(@.lines) - 1]]

\* The WAL is repaired, parsed and replayed; the clock must not precede it.
Recover(p) ==
    \E now \in 0..MaxTime :
    LET lines == Lines("wal")
    IN  /\ store[p].phase = "repairing"
        /\ \/ /\ TornTail(lines)
              /\ Repaired("wal")
              /\ UNCHANGED <<lease, store, queue, current, told>>
           \/ /\ Whole(lines)
              /\ lines # <<>> => now >= Last(lines).ts
              /\ store' = [store EXCEPT ![p] =
                     [phase |-> "projecting", memory |-> Replay(lines),
                      last |-> IF lines = <<>> THEN now ELSE Last(lines).ts,
                      fresh |-> lines = <<>>]]
              /\ UNCHANGED <<disk, lease, queue, current, told>>
           \/ /\ ~TornTail(lines)
              /\ Whole(lines) => lines # <<>> /\ now < Last(lines).ts
              /\ Shut(p)
              /\ UNCHANGED disk
        /\ UNCHANGED <<arrived, checkpoint, checkpoints, starts, faults, losses>>

\* Mutant of Expected: the access chain is left as it is found.
ExpectedActionOnly(p, f) ==
    IF f = "action" THEN Projection(store[p].memory, f) ELSE Lines(f)

Expected(p, f) == Projection(store[p].memory, f)
Diverged(p, f) == ~TornTail(Lines(f)) /\ ~IsPrefix(Lines(f), Expected(p, f))

\* materializeProjection, for the action chain and then for the access chain.
Materialize(p) ==
    LET behind == {f \in Chains : Lines(f) # Expected(p, f)}
        f == IF "action" \in behind THEN "action" ELSE "access"
        next == Expected(p, f)[Len(Lines(f)) + 1]
    IN  /\ store[p].phase = "projecting"
        /\ \/ /\ behind # {} /\ TornTail(Lines(f))
              /\ Repaired(f)
              /\ UNCHANGED <<lease, store, queue, current, told, faults>>
           \/ /\ behind # {} /\ ~TornTail(Lines(f)) /\ ~Diverged(p, f)
              /\ \/ /\ Appended(f, next)
                    /\ UNCHANGED <<lease, store, queue, current, told>>
                 \/ AppendFailed(f, next) /\ Shut(p)
           \/ /\ behind # {} /\ Diverged(p, f)
              /\ Shut(p)
              /\ UNCHANGED <<disk, faults>>
           \/ /\ behind = {}
              /\ store' = [store EXCEPT ![p].phase = "opened"]
              /\ UNCHANGED <<disk, lease, queue, current, told, faults>>
        /\ UNCHANGED <<arrived, checkpoint, checkpoints, starts, losses>>

\* verifyRecords, local: the chains verify and extend the latest checkpoint.
ChainsVerify == \A f \in Files : Whole(Lines(f))
Extends(covered) == ChainsVerify /\ \A f \in Files : IsPrefix(covered[f], Lines(f))

Verify(p) ==
    /\ store[p].phase = "opened"
    /\ \/ /\ Extends(checkpoint)
          /\ store' = [store EXCEPT ![p].phase = "verified"]
          /\ UNCHANGED <<lease, queue, current, told>>
       \/ ~Extends(checkpoint) /\ Shut(p)
    /\ UNCHANGED <<disk, arrived, checkpoint, checkpoints, starts, faults, losses>>

\* beginRun: the genesis header of an empty WAL, then the header of this run.
\* When it throws, the start of the process closes the store.
BeginRun(p) ==
    \E now \in 0..MaxTime :
    LET header == IF store[p].fresh THEN Header("genesis", store[p].last) ELSE Header("run", now)
    IN  /\ store[p].phase = "verified"
        /\ \/ /\ store[p].fresh \/ now >= store[p].last
              /\ Appended("wal", header)
              /\ store' = [store EXCEPT ![p].fresh = FALSE,
                                        ![p].last = header.ts,
                                        ![p].phase = IF store[p].fresh THEN "verified" ELSE "running"]
              /\ UNCHANGED <<lease, queue, current, told>>
           \/ /\ store[p].fresh \/ now >= store[p].last
              /\ AppendFailed("wal", header)
              /\ Shut(p)
           \/ /\ ~store[p].fresh /\ now < store[p].last
              /\ Shut(p)
              /\ UNCHANGED <<disk, faults>>
        /\ UNCHANGED <<arrived, checkpoint, checkpoints, starts, losses>>

-----------------------------------------------------------------------------
(***************************************************************************)
(* Transactions.                                                           *)
(***************************************************************************)
Serving(p) == store[p].phase \in {"running", "poisoned"}

\* A caller joins the queue of withWorldLock.
Arrive(p) ==
    /\ Serving(p)
    /\ arrived < Cardinality(Requests)
    /\ arrived' = arrived + 1
    /\ queue' = [queue EXCEPT ![p] = Append(@, arrived + 1)]
    /\ UNCHANGED <<disk, lease, store, current, told, checkpoint, checkpoints, starts, faults, losses>>

TellHead(p, answer) ==
    /\ told' = [told EXCEPT ![Head(queue[p])] = answer]
    /\ queue' = [queue EXCEPT ![p] = Tail(@)]
    /\ UNCHANGED <<disk, store, current, faults>>

\* Mutant of Writable: a poisoned writer goes on.
WritableWhenPoisoned(p) == Serving(p)

Writable(p) == store[p].phase = "running"

\* transactWithState up to the WAL: no line, or one appended.
Transact(p) ==
    \E now \in 0..MaxTime :
    LET r == Head(queue[p])
        line == Transaction(r, now)
    IN  /\ Serving(p) /\ queue[p] # <<>> /\ current[p] = Idle
        \* poisoned, a clock set back, a build that refuses or finds nothing to do
        /\ \/ TellHead(p, "unlogged")
           \/ /\ Writable(p)
              /\ now >= store[p].last
              /\ queue' = [queue EXCEPT ![p] = Tail(@)]
              /\ \/ /\ Appended("wal", line)
                    /\ store' = [store EXCEPT ![p].memory = Append(@, line), ![p].last = now]
                    /\ current' = [current EXCEPT ![p] =
                                     [request |-> r, stage |-> "projecting", todo |-> Entries[r]]]
                 \/ /\ AppendFailed("wal", line)
                    /\ store' = [store EXCEPT ![p].phase = "poisoned"]
                    /\ current' = [current EXCEPT ![p] =
                                     [request |-> r, stage |-> "failed", todo |-> {}]]
              /\ UNCHANGED told
        /\ UNCHANGED <<lease, arrived, checkpoint, checkpoints, starts, losses>>

\* The record entries of the transaction, one after the other.
Project(p) ==
    LET r == current[p].request
    IN  /\ Serving(p) /\ current[p].stage = "projecting"
        /\ \E f \in current[p].todo :
             \/ /\ Appended(f, Entry(r))
                /\ current' = [current EXCEPT ![p].todo = @ \ {f}]
                /\ UNCHANGED store
             \/ /\ AppendFailed(f, Entry(r))
                /\ current' = [current EXCEPT ![p].stage = "failed"]
                /\ store' = [store EXCEPT ![p].phase = "poisoned"]
        /\ UNCHANGED <<lease, queue, told, arrived, checkpoint, checkpoints, starts, losses>>

\* Mutant of Answer: a caller whose transaction failed is never answered.
AnswerSuccessOnly(p) ==
    /\ Serving(p) /\ current[p].stage = "projecting" /\ current[p].todo = {}
    /\ told' = [told EXCEPT ![current[p].request] = "committed"]
    /\ current' = [current EXCEPT ![p] = Idle]
    /\ UNCHANGED <<disk, lease, store, queue, arrived, checkpoint, checkpoints, starts, faults, losses>>

\* The caller gets the result, or the error of a poisoned writer.
Answer(p) ==
    /\ Serving(p) /\ current[p] # Idle
    /\ current[p].stage = "projecting" => current[p].todo = {}
    /\ told' = [told EXCEPT ![current[p].request] =
                  IF current[p].stage = "failed" THEN "unknown" ELSE "committed"]
    /\ current' = [current EXCEPT ![p] = Idle]
    /\ UNCHANGED <<disk, lease, store, queue, arrived, checkpoint, checkpoints, starts, faults, losses>>

\* The process stops: asked to, or because a maintenance pass met a poisoned store.
Close(p) ==
    /\ Serving(p) /\ current[p] = Idle
    /\ Shut(p)
    /\ UNCHANGED <<disk, arrived, checkpoint, checkpoints, starts, faults, losses>>

MaintenanceFails(p) == store[p].phase = "poisoned" /\ Close(p)

-----------------------------------------------------------------------------
(***************************************************************************)
(* Crashes, and what is outside of the processes.                          *)
(***************************************************************************)
Waiting(p) == ToSet(queue[p]) \cup ({current[p].request} \ {NoRequest})

\* The lease and the files stay; whoever waited has no answer.
Crash(p) ==
    /\ store[p].phase # "down"
    /\ faults < MaxFaults
    /\ faults' = faults + 1
    /\ store' = [store EXCEPT ![p] = Down]
    /\ queue' = [queue EXCEPT ![p] = <<>>]
    /\ current' = [current EXCEPT ![p] = Idle]
    /\ told' = [r \in Requests |-> IF r \in Waiting(p) THEN "unknown" ELSE told[r]]
    /\ UNCHANGED <<disk, lease, arrived, checkpoint, checkpoints, starts, losses>>

\* Each file keeps its synced lines and some of the others, the last one torn.
Remains(file) ==
    {SubSeq(file.lines, 1, n) : n \in file.synced..Len(file.lines)}
    \cup {Append(SubSeq(file.lines, 1, n), Torn) : n \in file.synced..(Len(file.lines) - 1)}

PowerLoss ==
    /\ faults < MaxFaults
    /\ faults' = faults + 1
    /\ losses' = losses + 1
    /\ \E wal \in Remains(disk["wal"]), action \in Remains(disk["action"]),
          access \in Remains(disk["access"]) :
            LET left == [f \in Files |-> CASE f = "wal" -> wal [] f = "action" -> action
                                           [] OTHER -> access]
            IN  disk' = [f \in Files |-> [lines |-> left[f], synced |-> Len(left[f])]]
    /\ store' = [p \in Procs |-> Down]
    /\ queue' = [p \in Procs |-> <<>>]
    /\ current' = [p \in Procs |-> Idle]
    /\ told' = [r \in Requests |-> IF \E p \in Procs : r \in Waiting(p) THEN "unknown" ELSE told[r]]
    /\ UNCHANGED <<lease, arrived, checkpoint, checkpoints, starts>>

\* Mutant of ClearLease: nobody looks whether a writer is running.
ClearLeaseUnchecked ==
    /\ lease
    /\ lease' = FALSE
    /\ UNCHANGED <<disk, store, queue, current, told, arrived, checkpoint, checkpoints, starts, faults, losses>>

\* "Confirm no writer is running, then clear it manually" (writerLease.ts).
ClearLease ==
    /\ lease /\ \A p \in Procs : store[p].phase = "down"
    /\ lease' = FALSE
    /\ UNCHANGED <<disk, store, queue, current, told, arrived, checkpoint, checkpoints, starts, faults, losses>>

\* writeCheckpoint, by a tool of its own: chains that verify and extend the last.
WriteCheckpoint ==
    LET read == [f \in Files |-> Lines(f)]
    IN  /\ Extends(checkpoint)
        /\ checkpoints < MaxCheckpoints
        /\ checkpoints' = checkpoints + 1
        /\ checkpoint' = read
        /\ UNCHANGED <<disk, lease, store, queue, current, told, arrived, starts, faults, losses>>

Serve == \E p \in Procs : Transact(p) \/ Project(p) \/ Answer(p)
Start == \E p \in Procs : Recover(p) \/ Materialize(p) \/ Verify(p) \/ BeginRun(p)
Stop == \E p \in Procs : MaintenanceFails(p)

Next ==
    \/ \E p \in Procs : \/ Open(p) \/ Recover(p) \/ Materialize(p) \/ Verify(p) \/ BeginRun(p)
                        \/ Arrive(p) \/ Transact(p) \/ Project(p) \/ Answer(p)
                        \/ Close(p) \/ Crash(p)
    \/ PowerLoss
    \/ ClearLease
    \/ WriteCheckpoint

Spec == Init /\ [][Next]_vars

\* The event loop of the one process that holds the lease runs what can run, and
\* its maintenance timer keeps firing.
FairSpec == Spec /\ WF_vars(Serve) /\ WF_vars(Start) /\ WF_vars(Stop)
=============================================================================
