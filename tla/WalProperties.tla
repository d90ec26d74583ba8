--------------------------- MODULE WalProperties ---------------------------
(***************************************************************************)
(* What the store of a world promises across crashes and power losses.     *)
(***************************************************************************)
EXTENDS WalStore

\* Every variable has its shape.
TypeOK ==
    /\ disk \in [Files -> [lines : Seq(Line), synced : Nat]]
    /\ \A f \in Files : disk[f].synced <= Len(Lines(f))
    /\ lease \in BOOLEAN
    /\ store \in [Procs -> [phase : Phases, memory : Seq(Line), last : 0..MaxTime, fresh : BOOLEAN]]
    /\ queue \in [Procs -> Seq(Requests)]
    /\ current \in [Procs -> [request : Requests \cup {NoRequest},
                              stage : {"none", "projecting", "failed"}, todo : SUBSET Chains]]
    /\ told \in [Requests -> {"none", "committed", "unlogged", "unknown"}]
    /\ arrived \in 0..Cardinality(Requests)
    /\ checkpoint \in [Files -> Seq(Line)]
    /\ checkpoints \in 0..MaxCheckpoints /\ starts \in 0..MaxStarts /\ faults \in 0..MaxFaults /\ losses \in 0..MaxFaults

\* The next start can read what the last one wrote: nothing follows a torn
\* line, the WAL begins with its only genesis header and its times never go
\* back, wherever an append failed, a process died or the clock was set back.
Readable ==
    LET lines == Lines("wal")
        written == {i \in DOMAIN lines : lines[i].kind # "torn"}
    IN  /\ \A f \in Files : Whole(Lines(f)) \/ TornTail(Lines(f))
        /\ \A i \in written : lines[i].kind = "genesis" <=> i = 1
        /\ \A i, j \in written : i < j => lines[i].ts <= lines[j].ts

\* Between transactions a running store holds in memory what a restart would
\* replay, and both record chains show exactly the entries of its WAL.
MemoryIsDurable ==
    \A p \in Procs : store[p].phase = "running" /\ current[p] = Idle =>
        /\ Len(Lines("wal")) = disk["wal"].synced
        /\ store[p].memory = Replay(Lines("wal"))
        /\ \A f \in Chains : Lines(f) = Projection(store[p].memory, f)

\* At most one process works on the files of the world at any time.
OneWriter ==
    \A p, q \in Procs : store[p].phase # "down" /\ store[q].phase # "down" => p = q

\* The complete lines of a readable file.
Complete(lines) == IF Whole(lines) THEN lines ELSE Front(lines)

\* A crash is not mistaken for tampering: as long as the machine keeps its
\* power, every chain still extends the latest checkpoint taken of it, and no
\* record entry is ahead of the WAL that it is projected from.
NoFalseAlarm ==
    losses = 0 =>
        \A f \in Files :
            /\ IsPrefix(checkpoint[f], Lines(f))
            /\ f \in Chains =>
                 IsPrefix(Complete(Lines(f)), Projection(Lines("wal"), f))

\* The next start succeeds on what this one leaves: the files are readable, and nothing
\* that a crash can do looks like tampering (walStore.ts, chain.ts, checkpoint.ts).
Restartable == TypeOK /\ Readable /\ NoFalseAlarm

\* The requests that a log commits to, in its order; and those no failure can take away.
Requested(lines) ==
    LET logged == Replay(lines)
    IN  [i \in DOMAIN logged |-> logged[i].request]
Durable == Requested(SubSeq(Lines("wal"), 1, disk["wal"].synced))

\* A log in the order of arrival of which nothing committed is ever lost, and
\* answers that are true of it (ADR-001: "A crash can lose the last
\* transaction, never corrupt an earlier one").
J == INSTANCE Journal WITH log <- Durable

ImplementsJournal == J!JournalSpec

\* Every caller hears back, and a poisoned store stops.
Pending == \E r \in 1..arrived : told[r] = "none"
Poisoned == \E p \in Procs : store[p].phase = "poisoned"
CallersHear ==
    /\ Pending ~> ~Pending
    /\ Poisoned ~> ~Poisoned

\* "Repair ... from record.append ops missing in those files" (ADR-001 9.4):
\* a start finds no record entry that the WAL does not have.
RepairSucceeds ==
    \A p \in Procs, f \in Chains : store[p].phase = "projecting" => ~Diverged(p, f)

-----------------------------------------------------------------------------
(***************************************************************************)
(* Bounds of the instances, and steps of a store with a mistake.           *)
(***************************************************************************)
CONSTANTS p1, p2
BothChainsThenOne == (1 :> Chains) @@ (2 :> {"action"})

=============================================================================
