------------------------------ MODULE WalProofs ------------------------------
(***************************************************************************)
(* Proofs about the store of a world, for every set of processes, any      *)
(* number of requests, starts, faults and power losses: the lease, what    *)
(* the files say of each other and of a store's memory, and the journal    *)
(* that the store implements.                                              *)
(***************************************************************************)
EXTENDS WalProperties, FiniteSetTheorems, WellFoundedInduction, TLAPS

\* Only the phase of a store matters here: whatever else it holds, it has one.
Shaped == \A p \in Procs : "phase" \in DOMAIN store[p]

Up(p) == store[p].phase # "down"

\* The lease file is there whenever a process works on the world, and often longer.
LeaseIsHeld == \A p \in Procs : Up(p) => lease

WriterInv == DOMAIN store = Procs /\ Shaped /\ LeaseIsHeld /\ OneWriter

\* Processes that stop working on the world, the lease given back by the last of them.
LEMMA NobodyElse ==
    ASSUME WriterInv, DOMAIN store' = Procs, Shaped', \A p \in Procs : Up(p)' => Up(p),
           lease' = lease \/ \A p \in Procs : ~Up(p)'
    PROVE  WriterInv'
BY DEF WriterInv, LeaseIsHeld, OneWriter, Up

\* A store that is replaced, by one that has a phase.
LEMMA Replaced ==
    ASSUME WriterInv, NEW p \in Procs, NEW s, "phase" \in DOMAIN s,
           store' = [store EXCEPT ![p] = s]
    PROVE  /\ DOMAIN store' = Procs /\ Shaped'
           /\ store'[p] = s /\ \A q \in Procs : q # p => store'[q] = store[q]
BY DEF WriterInv, Shaped

LEMMA Shutting == ASSUME WriterInv, NEW p \in Procs, Up(p), Shut(p) PROVE WriterInv'
<1>1. store' = [store EXCEPT ![p] = Down] BY DEF Shut
<1>2. "phase" \in DOMAIN Down /\ Down.phase = "down"
  BY DEF Down
<1>3. /\ DOMAIN store' = Procs /\ Shaped'
      /\ store'[p] = Down /\ \A q \in Procs : q # p => store'[q] = store[q]
  BY <1>1, <1>2, Replaced
<1>4. \A q \in Procs : ~Up(q)' BY <1>2, <1>3 DEF WriterInv, OneWriter, Up
<1> QED BY <1>3, <1>4, NobodyElse

\* A process that is up and stays up, or goes on where it is.
LEMMA GoingOn ==
    ASSUME WriterInv, NEW p \in Procs, Up(p), NEW s, store' = [store EXCEPT ![p] = s],
           "phase" \in DOMAIN s, lease' = lease
    PROVE  WriterInv'
<1>1. /\ DOMAIN store' = Procs /\ Shaped'
      /\ store'[p] = s /\ \A q \in Procs : q # p => store'[q] = store[q]
  BY Replaced
<1>2. \A q \in Procs : Up(q)' => Up(q) BY <1>1 DEF Up
<1> QED BY <1>1, <1>2, NobodyElse

LEMMA Staying == ASSUME WriterInv, UNCHANGED <<store, lease>> PROVE WriterInv'
BY DEF WriterInv, Shaped, LeaseIsHeld, OneWriter, Up

\* Creating the lease exclusively is what keeps a second process out.
LEMMA OpenKeeps == ASSUME WriterInv, NEW p \in Procs, Open(p) PROVE WriterInv'
<1> DEFINE s == [Down EXCEPT !.phase = "repairing"]
<1>1. store' = [store EXCEPT ![p] = s] /\ lease' = TRUE /\ ~lease BY Zenon DEF Open
<1>2. "phase" \in DOMAIN s BY DEF Down
<1> HIDE DEF s
<1>3. /\ DOMAIN store' = Procs /\ Shaped'
      /\ store'[p] = s /\ \A q \in Procs : q # p => store'[q] = store[q]
  BY <1>1, <1>2, Replaced
<1>4. \A q \in Procs : ~Up(q) BY <1>1 DEF WriterInv, LeaseIsHeld
<1>5. \A q \in Procs : Up(q)' => q = p BY <1>3, <1>4 DEF Up
<1>6. OneWriter' BY <1>5 DEF OneWriter, Up
<1>7. LeaseIsHeld' BY <1>1 DEF LeaseIsHeld
<1> QED BY <1>3, <1>6, <1>7 DEF WriterInv

LEMMA RecoverKeeps == ASSUME WriterInv, NEW p \in Procs, Recover(p) PROVE WriterInv'
<1>1. Up(p) BY DEF Recover, Up
<1>2. PICK now \in 0..MaxTime :
        \/ UNCHANGED <<store, lease>>
        \/ /\ store' = [store EXCEPT ![p] = [phase |-> "projecting", memory |-> Replay(Lines("wal")),
                        last |-> IF Lines("wal") = <<>> THEN now ELSE Last(Lines("wal")).ts, fresh |-> Lines("wal") = <<>>]]
           /\ lease' = lease
        \/ Shut(p)
  BY DEF Recover
<1>3. CASE UNCHANGED <<store, lease>> BY <1>3, Staying
<1>4. CASE store' = [store EXCEPT ![p] = [phase |-> "projecting", memory |-> Replay(Lines("wal")),
               last |-> IF Lines("wal") = <<>> THEN now ELSE Last(Lines("wal")).ts, fresh |-> Lines("wal") = <<>>]]
           /\ lease' = lease
  <2> DEFINE s == [phase |-> "projecting", memory |-> Replay(Lines("wal")),
               last |-> IF Lines("wal") = <<>> THEN now ELSE Last(Lines("wal")).ts, fresh |-> Lines("wal") = <<>>]
  <2>1. "phase" \in DOMAIN s OBVIOUS
  <2>2. store' = [store EXCEPT ![p] = s] /\ lease' = lease BY <1>4
  <2> HIDE DEF s
  <2> QED BY <1>1, <2>1, <2>2, GoingOn
<1>5. CASE Shut(p) BY <1>1, <1>5, Shutting
<1> QED BY <1>2, <1>3, <1>4, <1>5

\* A step that moves the phase of one store on, shuts it, or leaves it alone.
LEMMA PhaseKeeps ==
    ASSUME WriterInv, NEW p \in Procs, Up(p), NEW ph,
           \/ UNCHANGED <<store, lease>>
           \/ store' = [store EXCEPT ![p].phase = ph] /\ lease' = lease
           \/ Shut(p)
    PROVE  WriterInv'
<1>1. CASE UNCHANGED <<store, lease>> BY <1>1, Staying
<1>2. CASE store' = [store EXCEPT ![p].phase = ph] /\ lease' = lease
  <2> DEFINE s == [store[p] EXCEPT !.phase = ph]
  <2>1. "phase" \in DOMAIN s BY DEF WriterInv, Shaped
  <2>2. store' = [store EXCEPT ![p] = s] BY <1>2
  <2> HIDE DEF s
  <2> QED BY <1>2, <2>1, <2>2, GoingOn
<1>3. CASE Shut(p) BY <1>3, Shutting
<1> QED BY <1>1, <1>2, <1>3

LEMMA MaterializeKeeps == ASSUME WriterInv, NEW p \in Procs, Materialize(p) PROVE WriterInv'
<1>1. Up(p) BY DEF Materialize, Up
<1>2. UNCHANGED <<store, lease>> \/ (store' = [store EXCEPT ![p].phase = "opened"] /\ lease' = lease) \/ Shut(p)
  BY DEF Materialize
<1> QED BY <1>1, <1>2, PhaseKeeps

LEMMA VerifyKeeps == ASSUME WriterInv, NEW p \in Procs, Verify(p) PROVE WriterInv'
<1>1. Up(p) BY DEF Verify, Up
<1>2. (store' = [store EXCEPT ![p].phase = "verified"] /\ lease' = lease) \/ Shut(p) BY DEF Verify
<1> QED BY <1>1, <1>2, PhaseKeeps

LEMMA BeginRunKeeps == ASSUME WriterInv, NEW p \in Procs, BeginRun(p) PROVE WriterInv'
<1>1. Up(p) BY DEF BeginRun, Up
<1>2. CASE Shut(p) BY <1>1, <1>2, Shutting
<1>3. ASSUME NEW f, NEW t, NEW ph, store' = [store EXCEPT ![p].fresh = f, ![p].last = t, ![p].phase = ph], lease' = lease
      PROVE  WriterInv'
  <2> DEFINE s == [store[p] EXCEPT !.fresh = f, !.last = t, !.phase = ph]
  <2>0. "phase" \in DOMAIN store[p]
    BY DEF WriterInv, Shaped
  <2>1. "phase" \in DOMAIN s BY <2>0
  <2>2. store' = [store EXCEPT ![p] = s] BY <1>3 DEF WriterInv
  <2> HIDE DEF s
  <2> QED BY <1>1, <1>3, <2>1, <2>2, GoingOn
<1>4. PICK now \in 0..MaxTime :
        LET header == IF store[p].fresh THEN Header("genesis", store[p].last) ELSE Header("run", now)
        IN  \/ /\ store' = [store EXCEPT ![p].fresh = FALSE, ![p].last = header.ts,
                                         ![p].phase = IF store[p].fresh THEN "verified" ELSE "running"]
               /\ lease' = lease
            \/ Shut(p)
  BY Zenon DEF BeginRun
<1> QED BY <1>2, <1>3, <1>4

LEMMA TransactKeeps == ASSUME WriterInv, NEW p \in Procs, Transact(p) PROVE WriterInv'
<1>1. Up(p) BY DEF Transact, Serving, Up
<1>2. UNCHANGED lease BY DEF Transact
<1>3. ASSUME NEW m, NEW t, store' = [store EXCEPT ![p].memory = m, ![p].last = t] PROVE WriterInv'
  <2> DEFINE s == [store[p] EXCEPT !.memory = m, !.last = t]
  <2>0. "phase" \in DOMAIN store[p]
    BY DEF WriterInv, Shaped
  <2>1. "phase" \in DOMAIN s BY <2>0
  <2>2. store' = [store EXCEPT ![p] = s] BY <1>3 DEF WriterInv
  <2> HIDE DEF s
  <2> QED BY <1>1, <1>2, <2>1, <2>2, GoingOn
<1>4. CASE UNCHANGED store BY <1>2, <1>4, Staying
<1>5. CASE store' = [store EXCEPT ![p].phase = "poisoned"] BY <1>1, <1>2, <1>5, PhaseKeeps
<1>6. PICK now \in 0..MaxTime :
        \/ UNCHANGED store
        \/ store' = [store EXCEPT ![p].memory = Append(@, Transaction(Head(queue[p]), now)), ![p].last = now]
        \/ store' = [store EXCEPT ![p].phase = "poisoned"]
  BY DEF Transact, TellHead
<1>7. CASE store' = [store EXCEPT ![p].memory = Append(@, Transaction(Head(queue[p]), now)), ![p].last = now]
  <2>1. store' = [store EXCEPT ![p].memory = Append(store[p].memory, Transaction(Head(queue[p]), now)), ![p].last = now]
    BY <1>7
  <2> QED BY <2>1, <1>3
<1> QED BY <1>4, <1>5, <1>6, <1>7

LEMMA ProjectKeeps == ASSUME WriterInv, NEW p \in Procs, Project(p) PROVE WriterInv'
<1>1. Up(p) BY DEF Project, Serving, Up
<1>2. UNCHANGED lease /\ (UNCHANGED store \/ store' = [store EXCEPT ![p].phase = "poisoned"]) BY DEF Project
<1> QED BY <1>1, <1>2, PhaseKeeps

LEMMA CloseKeeps == ASSUME WriterInv, NEW p \in Procs, Close(p) PROVE WriterInv'
BY Shutting DEF Close, Serving, Up

\* A crash leaves the lease behind.
LEMMA CrashKeeps == ASSUME WriterInv, NEW p \in Procs, Crash(p) PROVE WriterInv'
<1>1. store' = [store EXCEPT ![p] = Down] /\ lease' = lease /\ Up(p) BY DEF Crash, Up
<1>2. "phase" \in DOMAIN Down BY DEF Down
<1> QED BY <1>1, <1>2, GoingOn

LEMMA PowerLossKeeps == ASSUME WriterInv, PowerLoss PROVE WriterInv'
<1>1. store' = [p \in Procs |-> Down] /\ lease' = lease BY DEF PowerLoss
<1>2. DOMAIN store' = Procs /\ Shaped' BY <1>1 DEF Shaped, Down
<1>3. \A p \in Procs : ~Up(p)' BY <1>1 DEF Up, Down
<1> QED BY <1>1, <1>2, <1>3, NobodyElse

LEMMA ClearLeaseKeeps == ASSUME WriterInv, ClearLease PROVE WriterInv'
<1>1. UNCHANGED store /\ \A p \in Procs : ~Up(p) BY DEF ClearLease, Up
<1>2. \A p \in Procs : ~Up(p)' BY <1>1 DEF Up
<1>3. DOMAIN store' = Procs /\ Shaped' BY <1>1 DEF WriterInv, Shaped
<1> QED BY <1>2, <1>3, NobodyElse

LEMMA WriterKeeps == ASSUME WriterInv, [Next]_vars PROVE WriterInv'
<1>1. CASE UNCHANGED <<store, lease>> BY <1>1, Staying
<1>2. ASSUME NEW p \in Procs, Arrive(p) \/ Answer(p) PROVE WriterInv' BY <1>2, <1>1 DEF Arrive, Answer
<1>3. CASE WriteCheckpoint BY <1>3, <1>1 DEF WriteCheckpoint
<1> QED BY <1>1, <1>2, <1>3, OpenKeeps, RecoverKeeps, MaterializeKeeps, VerifyKeeps, BeginRunKeeps, TransactKeeps,
           ProjectKeeps, CloseKeeps, CrashKeeps, PowerLossKeeps, ClearLeaseKeeps
     DEF Next, vars

\* At most one process works on the files of a world: any number of processes may open
\* it, crash, and leave a lease to whoever clears it once nobody runs.
THEOREM OneProcessWrites == Spec => []OneWriter
<1>1. Init => WriterInv BY DEF Init, WriterInv, Shaped, LeaseIsHeld, OneWriter, Up, Down
<1>2. WriterInv /\ [Next]_vars => WriterInv' BY WriterKeeps
<1>3. WriterInv => OneWriter BY DEF WriterInv
<1> QED BY <1>1, <1>2, <1>3, PTL DEF Spec

-----------------------------------------------------------------------------
(***************************************************************************)
(* Logs: what is read back of them, line by line.                          *)
(***************************************************************************)
LEMMA Smallest == ASSUME NEW T, T \subseteq Nat, T # {} PROVE \E n \in T : \A m \in T : n <= m
<1>1. PICK n \in T : \A m \in T : <<m, n>> \notin OpToRel(<, Nat)
  BY WFMin, NatLessThanWellFounded, Zenon
<1>2. \A m \in T : m \in Nat /\ n \in Nat OBVIOUS
<1>3. \A m \in T : ~(m < n) BY <1>1, <1>2, Zenon DEF OpToRel
<1> QED BY <1>2, <1>3

\* What holds of the empty sequence, and of every sequence with one more element when it
\* holds of the sequence, holds of all of them.
LEMMA SequencesGrow ==
    ASSUME NEW S, NEW Good, <<>> \in Good,
           \A s \in Seq(S), x \in S : s \in Good => Append(s, x) \in Good
    PROVE  Seq(S) \subseteq Good
<1> DEFINE Bad == {Len(s) : s \in {u \in Seq(S) : u \notin Good}}
<1> SUFFICES ASSUME Bad # {} PROVE FALSE OBVIOUS
<1>1. PICK n \in Bad : \A m \in Bad : n <= m
  <2>1. Bad \subseteq Nat OBVIOUS
  <2> HIDE DEF Bad
  <2> QED BY <2>1, Smallest
<1>2. PICK s \in Seq(S) : Len(s) = n /\ s \notin Good OBVIOUS
<1>3. n \in Nat /\ n # 0 BY <1>2
<1> DEFINE t == SubSeq(s, 1, n - 1)
<1>4. t \in Seq(S) /\ Len(t) = n - 1 /\ s = Append(t, s[n]) /\ s[n] \in S
  BY <1>2, <1>3
<1> HIDE DEF t
<1>5. t \notin Good BY <1>2, <1>4
<1>6. n - 1 \in Bad BY <1>4, <1>5
<1> HIDE DEF Bad
<1> QED BY <1>1, <1>3, <1>6

\* The function that Logged takes its value from.
Taken(line, requests) == line.kind = "transaction" /\ line.request \in requests
Fills(logged, lines, requests) ==
    logged = [i \in 0..Len(lines) |->
              IF i = 0 THEN <<>>
              ELSE IF Taken(lines[i], requests) THEN Append(logged[i - 1], lines[i]) ELSE logged[i - 1]]

LEMMA FillsExtends ==
    ASSUME NEW S, NEW s \in Seq(S), NEW x \in S, NEW requests, NEW g, Fills(g, s, requests)
    PROVE  Fills([i \in 0..Len(s) + 1 |-> IF i <= Len(s) THEN g[i]
                    ELSE IF Taken(x, requests) THEN Append(g[Len(s)], x) ELSE g[Len(s)]],
                 Append(s, x), requests)
<1> DEFINE h == [i \in 0..Len(s) + 1 |-> IF i <= Len(s) THEN g[i]
                    ELSE IF Taken(x, requests) THEN Append(g[Len(s)], x) ELSE g[Len(s)]]
           a == Append(s, x)
<1>1. Len(a) = Len(s) + 1 /\ a[Len(s) + 1] = x /\ \A i \in 1..Len(s) : a[i] = s[i]
  OBVIOUS
<1>2. ASSUME NEW i \in 0..Len(a)
      PROVE  h[i] = IF i = 0 THEN <<>>
              ELSE IF Taken(a[i], requests) THEN Append(h[i - 1], a[i]) ELSE h[i - 1]
  <2> HIDE DEF a
  <2>1. CASE i = 0 BY <2>1 DEF Fills
  <2>2. CASE i \in 1..Len(s)
    <3>1. i \in 0..Len(s) /\ i # 0 BY <2>2
    <3>2. g[i] = IF Taken(s[i], requests) THEN Append(g[i - 1], s[i]) ELSE g[i - 1]
      BY <3>1, Zenon DEF Fills
    <3>3. h[i] = g[i] /\ h[i - 1] = g[i - 1] BY <2>2
    <3> QED BY <3>1, <3>2, <3>3, <2>2, <1>1
  <2>3. CASE i = Len(s) + 1 BY <2>3, <1>1
  <2> QED BY <2>1, <2>2, <2>3, <1>1
<1> QED BY <1>1, <1>2, Zenon DEF Fills

LEMMA FillsExists == ASSUME NEW S, NEW s \in Seq(S), NEW requests PROVE \E g : Fills(g, s, requests)
<1> DEFINE Good == {t \in Seq(S) : \E g : Fills(g, t, requests)}
<1>1. <<>> \in Good
  <2>1. Fills([i \in 0..0 |-> <<>>], <<>>, requests) BY DEF Fills
  <2>2. <<>> \in Seq(S) OBVIOUS
  <2> QED BY <2>1, <2>2, Zenon
<1>2. ASSUME NEW t \in Seq(S), NEW x \in S, t \in Good PROVE Append(t, x) \in Good
  <2>1. PICK g : Fills(g, t, requests) BY <1>2
  <2>2. \E h : Fills(h, Append(t, x), requests) BY <2>1, FillsExtends, Zenon
  <2> QED BY <2>2
<1>3. Seq(S) \subseteq Good
  <2> HIDE DEF Good
  <2> QED BY <1>1, <1>2, SequencesGrow
<1> QED BY <1>3

LEMMA FillsOnce ==
    ASSUME NEW S, NEW s \in Seq(S), NEW requests, NEW g, NEW h,
           Fills(g, s, requests), Fills(h, s, requests)
    PROVE  g = h
<1> DEFINE Bad == {n \in 0..Len(s) : g[n] # h[n]}
<1>1. Bad = {}
  <2> SUFFICES ASSUME Bad # {} PROVE FALSE OBVIOUS
  <2>1. PICK n \in Bad : \A m \in Bad : n <= m
    <3>1. Bad \subseteq Nat OBVIOUS
    <3> HIDE DEF Bad
    <3> QED BY <3>1, Smallest
  <2>2. n # 0 BY DEF Fills
  <2>3. n - 1 \notin Bad BY <2>1, <2>2
  <2>4. g[n - 1] = h[n - 1] BY <2>2, <2>3
  <2>5. g[n] = h[n] BY <2>2, <2>4 DEF Fills
  <2> QED BY <2>5
<1>2. DOMAIN g = 0..Len(s) /\ DOMAIN h = 0..Len(s) BY DEF Fills
<1>3. g = [i \in 0..Len(s) |-> g[i]] /\ h = [i \in 0..Len(s) |-> h[i]] BY DEF Fills
<1> QED BY <1>1, <1>3

LEMMA LoggedIs ==
    ASSUME NEW S, NEW s \in Seq(S), NEW requests, NEW g, Fills(g, s, requests)
    PROVE  Logged(s, requests) = g[Len(s)]
<1> DEFINE k == CHOOSE logged : Fills(logged, s, requests)
<1>1. Logged(s, requests) = k[Len(s)] BY Zenon DEF Logged, Fills, Taken
<1>2. Fills(k, s, requests) BY FillsExists
<1> QED BY <1>1, <1>2, FillsOnce

LEMMA LoggedOfNothing == ASSUME NEW requests PROVE Logged(<<>>, requests) = <<>>
<1>1. Fills([i \in 0..0 |-> <<>>], <<>>, requests) BY DEF Fills
<1>2. <<>> \in Seq({}) OBVIOUS
<1> QED BY <1>1, <1>2, LoggedIs

\* A log with one line more holds its transaction, if that is what the line is.
LEMMA LoggedAppend ==
    ASSUME NEW S, NEW s \in Seq(S), NEW x \in S, NEW requests
    PROVE  Logged(Append(s, x), requests) =
             IF Taken(x, requests) THEN Append(Logged(s, requests), x) ELSE Logged(s, requests)
<1>1. PICK g : Fills(g, s, requests) BY FillsExists
<1> DEFINE h == [i \in 0..Len(s) + 1 |-> IF i <= Len(s) THEN g[i]
                    ELSE IF Taken(x, requests) THEN Append(g[Len(s)], x) ELSE g[Len(s)]]
<1>2. Fills(h, Append(s, x), requests) BY <1>1, FillsExtends
<1>3. Logged(s, requests) = g[Len(s)] BY <1>1, LoggedIs
<1>4. Append(s, x) \in Seq(S) /\ Len(Append(s, x)) = Len(s) + 1 OBVIOUS
<1>5. Logged(Append(s, x), requests) = h[Len(s) + 1]
  <2> HIDE DEF h
  <2> QED BY <1>2, <1>4, LoggedIs
<1>6. h[Len(s) + 1] = IF Taken(x, requests) THEN Append(g[Len(s)], x) ELSE g[Len(s)] OBVIOUS
<1> QED BY <1>3, <1>5, <1>6

\* Transactions of the requests that are looked for, and nothing else.
TransactionsOf(requests) == [kind : {"transaction"}, ts : 0..MaxTime, request : requests]

LEMMA LoggedType ==
    ASSUME NEW s \in Seq(Line), NEW requests
    PROVE  Logged(s, requests) \in Seq(TransactionsOf(requests))
<1> DEFINE Good == {t \in Seq(Line) : Logged(t, requests) \in Seq(TransactionsOf(requests))}
<1>1. <<>> \in Good
  <2>1. <<>> \in Seq(Line) /\ <<>> \in Seq(TransactionsOf(requests)) OBVIOUS
  <2> QED BY <2>1, LoggedOfNothing, Zenon
<1>2. ASSUME NEW t \in Seq(Line), NEW x \in Line, t \in Good PROVE Append(t, x) \in Good
  <2>1. Append(t, x) \in Seq(Line) OBVIOUS
  <2>2. Logged(Append(t, x), requests) \in Seq(TransactionsOf(requests))
    <3>1. CASE Taken(x, requests)
      <4>1. x \in TransactionsOf(requests) BY <3>1 DEF Taken, TransactionsOf, Line
      <4>2. Logged(Append(t, x), requests) = Append(Logged(t, requests), x) BY <3>1, LoggedAppend
      <4> QED BY <1>2, <4>1, <4>2
    <3>2. CASE ~Taken(x, requests) BY <1>2, <3>2, LoggedAppend
    <3> QED BY <3>1, <3>2
  <2> QED BY <2>1, <2>2
<1>3. Seq(Line) \subseteq Good
  <2> HIDE DEF Good
  <2> QED BY <1>1, <1>2, SequencesGrow
<1> QED BY <1>3

\* Transactions taken out of transactions are those taken out of the log.
LEMMA LoggedTwice ==
    ASSUME NEW s \in Seq(Line), NEW requests, requests \subseteq Requests
    PROVE  Logged(Logged(s, Requests), requests) = Logged(s, requests)
<1> DEFINE Good == {t \in Seq(Line) : Logged(Logged(t, Requests), requests) = Logged(t, requests)}
<1>1. <<>> \in Good
  <2>1. <<>> \in Seq(Line) OBVIOUS
  <2> QED BY <2>1, LoggedOfNothing, Zenon
<1>2. ASSUME NEW t \in Seq(Line), NEW x \in Line, t \in Good PROVE Append(t, x) \in Good
  <2>1. Append(t, x) \in Seq(Line) OBVIOUS
  <2>2. Logged(t, Requests) \in Seq(TransactionsOf(Requests)) BY LoggedType
  <2>3. CASE Taken(x, Requests)
    <3>1. x \in TransactionsOf(Requests) BY <2>3 DEF Taken, TransactionsOf, Line
    <3>2. Logged(Append(t, x), Requests) = Append(Logged(t, Requests), x) BY <2>3, LoggedAppend
    <3>3. Logged(Logged(Append(t, x), Requests), requests) =
            IF Taken(x, requests) THEN Append(Logged(Logged(t, Requests), requests), x)
                                  ELSE Logged(Logged(t, Requests), requests)
      BY <2>2, <3>1, <3>2, LoggedAppend
    <3>4. Logged(Logged(t, Requests), requests) = Logged(t, requests) BY <1>2
    <3>5. Logged(Append(t, x), requests) =
            IF Taken(x, requests) THEN Append(Logged(t, requests), x) ELSE Logged(t, requests)
      BY LoggedAppend
    <3> QED BY <2>1, <3>3, <3>4, <3>5, Zenon
  <2>4. CASE ~Taken(x, Requests)
    <3>1. ~Taken(x, requests) BY <2>4 DEF Taken
    <3>2. Logged(Append(t, x), Requests) = Logged(t, Requests) BY <2>4, LoggedAppend
    <3>3. Logged(Append(t, x), requests) = Logged(t, requests) BY <3>1, LoggedAppend
    <3> QED BY <1>2, <2>1, <3>2, <3>3
  <2> QED BY <2>3, <2>4
<1>3. Seq(Line) \subseteq Good
  <2> HIDE DEF Good
  <2> QED BY <1>1, <1>2, SequencesGrow
<1> QED BY <1>3

\* The same of the record entries that are projected from a log.
LEMMA ProjectionType ==
    ASSUME NEW s \in Seq(Line), NEW f \in Chains
    PROVE  /\ Projection(s, f) \in Seq(Line)
           /\ \A i \in 1..Len(Projection(s, f)) : Projection(s, f)[i].kind = "entry"
<1> DEFINE touching == Logged(s, Touching[f])
<1>1. touching \in Seq(TransactionsOf(Touching[f])) BY LoggedType
<1>2. Projection(s, f) = [i \in DOMAIN touching |-> Entry(touching[i].request)] BY DEF Projection
<1>3. Touching[f] \subseteq Requests BY DEF Touching
<1>4. \A i \in DOMAIN touching : Entry(touching[i].request) \in Line
  <2>1. 0 \in 0..MaxTime BY WalAssumption
  <2> SUFFICES ASSUME NEW i \in DOMAIN touching PROVE Entry(touching[i].request) \in Line OBVIOUS
  <2> HIDE DEF touching
  <2>2. touching[i] \in TransactionsOf(Touching[f]) BY <1>1
  <2>3. touching[i].request \in Requests BY <2>2, <1>3 DEF TransactionsOf
  <2> QED BY <2>1, <2>3 DEF Entry, Line
<1> HIDE DEF touching
<1>5. DOMAIN touching = 1..Len(touching) /\ Len(touching) \in Nat BY <1>1
<1>6. Projection(s, f) \in [1..Len(touching) -> Line] BY <1>2, <1>4, <1>5
<1>7. Projection(s, f) \in Seq(Line) /\ Len(Projection(s, f)) = Len(touching) BY <1>5, <1>6
<1> QED BY <1>2, <1>5, <1>7 DEF Entry

\* A mapping of a sequence goes along with its appends.
LEMMA MapAppend ==
    ASSUME NEW T, NEW U, NEW F \in [T -> U], NEW a \in Seq(T), NEW x \in T
    PROVE  /\ [i \in DOMAIN a |-> F[a[i]]] \in Seq(U)
           /\ [i \in DOMAIN Append(a, x) |-> F[Append(a, x)[i]]] = Append([i \in DOMAIN a |-> F[a[i]]], F[x])
<1> DEFINE n == Len(a)
           b == Append(a, x)
           pa == [i \in 1..n |-> F[a[i]]]
           pb == [i \in 1..n + 1 |-> F[b[i]]]
           c == Append(pa, F[x])
<1>1. n \in Nat /\ DOMAIN a = 1..n /\ \A i \in 1..n : a[i] \in T OBVIOUS
<1>2. DOMAIN b = 1..n + 1 /\ b[n + 1] = x /\ \A i \in 1..n : b[i] = a[i] OBVIOUS
<1> HIDE DEF n, b
<1>3. pa \in [1..n -> U] BY <1>1
<1>4. pb \in [1..n + 1 -> U] /\ pb[n + 1] = F[x] /\ \A i \in 1..n : pb[i] = F[a[i]]
  <2>1. \A i \in 1..n + 1 : b[i] \in T BY <1>1, <1>2
  <2> QED BY <1>1, <1>2, <2>1
<1>5. \A i \in 1..n : pa[i] = F[a[i]] OBVIOUS
<1>6. F[x] \in U OBVIOUS
<1> HIDE DEF pa, pb
<1>7. pa \in Seq(U) /\ Len(pa) = n BY <1>1, <1>3
<1>8. pb \in Seq(U) /\ Len(pb) = n + 1 BY <1>1, <1>4
<1>9. c \in Seq(U) /\ Len(c) = n + 1 /\ c[n + 1] = F[x] /\ \A i \in 1..n : c[i] = pa[i]
  <2> DEFINE fx == F[x]
  <2> HIDE DEF fx
  <2> QED BY <1>1, <1>6, <1>7 DEF fx
<1> HIDE DEF c
<1>10. \A i \in 1..n + 1 : c[i] = pb[i] BY <1>1, <1>4, <1>5, <1>9
<1>11. c = pb BY <1>1, <1>8, <1>9, <1>10
<1>12. pa = [i \in DOMAIN a |-> F[a[i]]] BY <1>1 DEF pa
<1>13. pb = [i \in DOMAIN b |-> F[b[i]]] BY <1>2 DEF pb
<1> QED BY <1>7, <1>11, <1>12, <1>13 DEF b, c

LEMMA ProjectionAppend ==
    ASSUME NEW s \in Seq(Line), NEW x \in Line, NEW f \in Chains
    PROVE  Projection(Append(s, x), f) =
             IF Taken(x, Touching[f]) THEN Append(Projection(s, f), Entry(x.request)) ELSE Projection(s, f)
<1> DEFINE T == TransactionsOf(Touching[f])
           a == Logged(s, Touching[f])
           b == Logged(Append(s, x), Touching[f])
           F == [y \in T |-> Entry(y.request)]
           U == {Entry(y.request) : y \in T}
<1>1. a \in Seq(T) BY LoggedType
<1>2. b = IF Taken(x, Touching[f]) THEN Append(a, x) ELSE a BY LoggedAppend
<1>3. /\ Projection(s, f) = [i \in DOMAIN a |-> Entry(a[i].request)]
      /\ Projection(Append(s, x), f) = [i \in DOMAIN b |-> Entry(b[i].request)]
  BY DEF Projection
<1>4. F \in [T -> U] /\ \A y \in T : F[y] = Entry(y.request) OBVIOUS
<1>5. Taken(x, Touching[f]) => x \in T BY DEF Taken, TransactionsOf, Line
<1> HIDE DEF a, b, F, T, U
<1>6. CASE Taken(x, Touching[f])
  <2> DEFINE c == Append(a, x)
  <2>1. x \in T BY <1>5, <1>6
  <2>2. [i \in DOMAIN c |-> F[c[i]]] = Append([i \in DOMAIN a |-> F[a[i]]], F[x])
    BY <1>1, <1>4, <2>1, MapAppend
  <2>3. \A i \in DOMAIN a : F[a[i]] = Entry(a[i].request) BY <1>1, <1>4
  <2>4. c \in Seq(T) BY <1>1, <2>1
  <2> HIDE DEF c
  <2>5. \A i \in DOMAIN c : F[c[i]] = Entry(c[i].request) BY <1>4, <2>4
  <2>6. F[x] = Entry(x.request) BY <1>4, <2>1
  <2>7. [i \in DOMAIN a |-> F[a[i]]] = [i \in DOMAIN a |-> Entry(a[i].request)] BY <2>3, Zenon
  <2>8. [i \in DOMAIN c |-> F[c[i]]] = [i \in DOMAIN c |-> Entry(c[i].request)] BY <2>5, Zenon
  <2>9. b = c BY <1>2, <1>6 DEF c
  <2> QED BY <1>3, <1>6, <2>2, <2>6, <2>7, <2>8, <2>9, Zenon
<1>7. CASE ~Taken(x, Touching[f]) BY <1>2, <1>3, <1>7
<1> QED BY <1>6, <1>7

LEMMA ProjectionOfReplay ==
    ASSUME NEW s \in Seq(Line), NEW f \in Chains
    PROVE  Projection(Replay(s), f) = Projection(s, f)
<1>1. Touching[f] \subseteq Requests BY DEF Touching
<1>2. Logged(Logged(s, Requests), Touching[f]) = Logged(s, Touching[f]) BY <1>1, LoggedTwice
<1> QED BY <1>2, Zenon DEF Projection, Replay

-----------------------------------------------------------------------------
(***************************************************************************)
(* Files: whole ones, and ones with a torn line at their end.              *)
(***************************************************************************)
\* What a log promises about its written lines: one genesis header, times that never go back.
InOrder(lines) ==
    LET written == {i \in DOMAIN lines : lines[i].kind # "torn"}
    IN  /\ \A i \in written : lines[i].kind = "genesis" <=> i = 1
        /\ \A i, j \in written : i < j => lines[i].ts <= lines[j].ts

LEMMA ReadableIs ==
    Readable <=> /\ \A f \in Files : Whole(Lines(f)) \/ TornTail(Lines(f))
                 /\ InOrder(Lines("wal"))
BY DEF Readable, InOrder

LEMMA TornIsALine == Torn \in Line /\ Torn.kind = "torn"
<1>1. 0 \in 0..MaxTime BY WalAssumption
<1> QED BY <1>1 DEF Torn, Header, Line

LEMMA WholeAppend ==
    ASSUME NEW s \in Seq(Line), NEW x \in Line
    PROVE  /\ Whole(Append(s, x)) <=> Whole(s) /\ x.kind # "torn"
           /\ Front(Append(s, x)) = s /\ Append(s, x) \in Seq(Line)
           /\ Whole(s) /\ x.kind = "torn" => TornTail(Append(s, x)) /\ Complete(Append(s, x)) = s
<1> DEFINE a == Append(s, x)
<1>1. /\ a \in Seq(Line) /\ Len(a) = Len(s) + 1 /\ DOMAIN a = 1..Len(s) + 1 /\ a[Len(s) + 1] = x
      /\ DOMAIN s = 1..Len(s) /\ \A i \in 1..Len(s) : a[i] = s[i]
  OBVIOUS
<1>2. Front(a) = s
  <2>1. SubSeq(a, 1, Len(s)) = s OBVIOUS
  <2> QED BY <1>1, <2>1 DEF Front
<1> HIDE DEF a
<1>3. Whole(a) <=> Whole(s) /\ x.kind # "torn"
  <2>1. ASSUME Whole(a) PROVE Whole(s) /\ x.kind # "torn" BY <1>1, <2>1 DEF Whole
  <2>2. ASSUME Whole(s), x.kind # "torn" PROVE Whole(a)
    <3> SUFFICES ASSUME NEW i \in DOMAIN a PROVE a[i].kind # "torn" BY DEF Whole
    <3>1. CASE i \in 1..Len(s) BY <1>1, <2>2, <3>1 DEF Whole
    <3>2. CASE i = Len(s) + 1 BY <1>1, <2>2, <3>2
    <3> QED BY <1>1, <3>1, <3>2
  <2> QED BY <2>1, <2>2
<1> QED BY <1>1, <1>2, <1>3 DEF a, TornTail, Complete

LEMMA TornTailIs ==
    ASSUME NEW s \in Seq(Line), TornTail(s)
    PROVE  /\ s # <<>> /\ Len(s) >= 1 /\ Front(s) \in Seq(Line) /\ Len(Front(s)) = Len(s) - 1
           /\ Whole(Front(s)) /\ s[Len(s)] \in Line /\ s[Len(s)].kind = "torn" /\ ~Whole(s)
           /\ \A i \in 1..Len(s) - 1 : Front(s)[i] = s[i]
           /\ s = Append(Front(s), s[Len(s)])
<1>1. ~Whole(s) /\ Whole(Front(s)) BY DEF TornTail
<1>2. PICK k \in DOMAIN s : s[k].kind = "torn" BY <1>1 DEF Whole
<1>3. Len(s) \in Nat /\ Len(s) >= 1 /\ k \in 1..Len(s) /\ s # <<>> BY <1>2
<1>4. /\ Front(s) \in Seq(Line) /\ Len(Front(s)) = Len(s) - 1
      /\ \A i \in 1..Len(s) - 1 : Front(s)[i] = s[i]
      /\ s = Append(Front(s), s[Len(s)]) /\ s[Len(s)] \in Line
  <2>1. /\ Front(s) \in Seq(Line) /\ Len(Front(s)) = Len(s) - 1
        /\ \A i \in 1..Len(s) - 1 : Front(s)[i] = s[i]
    <3> DEFINE n == Len(s) - 1
    <3>1. n \in Nat /\ n <= Len(s) BY <1>3
    <3> HIDE DEF n
    <3>2. /\ SubSeq(s, 1, n) \in Seq(Line) /\ Len(SubSeq(s, 1, n)) = n
          /\ \A i \in 1..n : SubSeq(s, 1, n)[i] = s[i]
      BY <3>1
    <3> QED BY <3>2 DEF Front, n
  <2>2. s[Len(s)] \in Line BY <1>3
  <2>3. s = Append(Front(s), s[Len(s)])
    <3> DEFINE t == Front(s)
               a == Append(t, s[Len(s)])
    <3> HIDE DEF t
    <3>1. /\ a \in Seq(Line) /\ Len(a) = Len(s) /\ a[Len(s)] = s[Len(s)]
          /\ \A i \in 1..Len(s) - 1 : a[i] = s[i]
      BY <1>3, <2>1, <2>2 DEF t
    <3> HIDE DEF a
    <3>2. \A i \in 1..Len(s) : a[i] = s[i] BY <1>3, <3>1
    <3>3. a = s BY <3>1, <3>2
    <3> QED BY <3>3 DEF a, t
  <2> QED BY <2>1, <2>2, <2>3
<1>5. k = Len(s)
  <2> SUFFICES ASSUME k \in 1..Len(s) - 1 PROVE FALSE BY <1>3
  <2>1. k \in DOMAIN Front(s) /\ Front(s)[k] = s[k] BY <1>4
  <2> QED BY <1>1, <1>2, <2>1 DEF Whole
<1> QED BY <1>1, <1>2, <1>3, <1>4, <1>5

LEMMA PrefixIs ==
    ASSUME NEW s \in Seq(Line), NEW t \in Seq(Line)
    PROVE  IsPrefix(s, t) <=> Len(s) <= Len(t) /\ \A i \in 1..Len(s) : s[i] = t[i]
<1> SUFFICES ASSUME Len(s) <= Len(t)
             PROVE  SubSeq(s, 1, Len(s)) = SubSeq(t, 1, Len(s)) <=> \A i \in 1..Len(s) : s[i] = t[i]
  BY DEF IsPrefix
<1> DEFINE a == SubSeq(s, 1, Len(s))
           b == SubSeq(t, 1, Len(s))
<1>1. /\ a \in Seq(Line) /\ Len(a) = Len(s) /\ \A i \in 1..Len(s) : a[i] = s[i]
      /\ b \in Seq(Line) /\ Len(b) = Len(s) /\ \A i \in 1..Len(s) : b[i] = t[i]
  OBVIOUS
<1> HIDE DEF a, b
<1>2. a = b <=> \A i \in 1..Len(s) : a[i] = b[i] BY <1>1
<1> QED BY <1>1, <1>2 DEF a, b

LEMMA PrefixSame == ASSUME NEW s \in Seq(Line) PROVE IsPrefix(s, s)
BY PrefixIs

LEMMA PrefixTrans ==
    ASSUME NEW s \in Seq(Line), NEW t \in Seq(Line), NEW u \in Seq(Line), IsPrefix(s, t), IsPrefix(t, u)
    PROVE  IsPrefix(s, u)
<1>1. Len(s) <= Len(t) /\ \A i \in 1..Len(s) : s[i] = t[i] BY PrefixIs
<1>2. Len(t) <= Len(u) /\ \A i \in 1..Len(t) : t[i] = u[i] BY PrefixIs
<1>3. Len(s) \in Nat /\ Len(t) \in Nat /\ Len(u) \in Nat OBVIOUS
<1>4. Len(s) <= Len(u) /\ \A i \in 1..Len(s) : s[i] = u[i] BY <1>1, <1>2, <1>3
<1> QED BY <1>4, PrefixIs

LEMMA PrefixAppend ==
    ASSUME NEW t \in Seq(Line), NEW x \in Line
    PROVE  IsPrefix(t, Append(t, x))
<1>1. /\ Append(t, x) \in Seq(Line) /\ Len(t) <= Len(Append(t, x))
      /\ \A i \in 1..Len(t) : t[i] = Append(t, x)[i]
  OBVIOUS
<1> QED BY <1>1, PrefixIs

\* The next line of a file that is behind.
LEMMA PrefixNext ==
    ASSUME NEW s \in Seq(Line), NEW t \in Seq(Line), IsPrefix(s, t), s # t
    PROVE  t[Len(s) + 1] \in Line /\ Len(s) + 1 \in 1..Len(t) /\ IsPrefix(Append(s, t[Len(s) + 1]), t)
<1>1. Len(s) <= Len(t) /\ \A i \in 1..Len(s) : s[i] = t[i] BY PrefixIs
<1>2. Len(s) \in Nat /\ Len(t) \in Nat OBVIOUS
<1>3. Len(s) # Len(t) BY <1>1
<1>4. Len(s) + 1 \in 1..Len(t) BY <1>1, <1>2, <1>3
<1> DEFINE x == t[Len(s) + 1]
           a == Append(s, x)
<1>5. x \in Line BY <1>4
<1>6. a \in Seq(Line) /\ Len(a) = Len(s) + 1 /\ a[Len(s) + 1] = x /\ \A i \in 1..Len(s) : a[i] = s[i]
  BY <1>5
<1> HIDE DEF a
<1>7. Len(a) <= Len(t) /\ \A i \in 1..Len(a) : a[i] = t[i] BY <1>1, <1>2, <1>4, <1>6
<1>8. IsPrefix(a, t) BY <1>6, <1>7, PrefixIs
<1> QED BY <1>4, <1>5, <1>8 DEF a

\* Whole lines that a file begins with are not in the torn end of it.
LEMMA PrefixFront ==
    ASSUME NEW c \in Seq(Line), NEW s \in Seq(Line), Whole(c), IsPrefix(c, s), TornTail(s)
    PROVE  IsPrefix(c, Front(s))
<1>1. Len(c) <= Len(s) /\ \A i \in 1..Len(c) : c[i] = s[i] BY PrefixIs
<1>2. /\ Len(s) >= 1 /\ Front(s) \in Seq(Line) /\ Len(Front(s)) = Len(s) - 1
      /\ s[Len(s)].kind = "torn" /\ \A i \in 1..Len(s) - 1 : Front(s)[i] = s[i]
  BY TornTailIs
<1>3. Len(c) \in Nat /\ Len(s) \in Nat /\ DOMAIN c = 1..Len(c) OBVIOUS
<1>4. Len(c) # Len(s)
  <2> SUFFICES ASSUME Len(c) = Len(s) PROVE FALSE OBVIOUS
  <2>1. Len(s) \in DOMAIN c /\ c[Len(s)] = s[Len(s)] BY <1>1, <1>2, <1>3
  <2> QED BY <1>2, <2>1 DEF Whole
<1>6. Len(c) <= Len(s) - 1 BY <1>1, <1>3, <1>4
<1>5. Len(c) <= Len(Front(s)) /\ \A i \in 1..Len(c) : c[i] = Front(s)[i] BY <1>1, <1>2, <1>3, <1>6
<1> QED BY <1>2, <1>5, PrefixIs

LEMMA WholePrefix ==
    ASSUME NEW c \in Seq(Line), NEW s \in Seq(Line), Whole(s), IsPrefix(c, s)
    PROVE  Whole(c)
<1>1. Len(c) <= Len(s) /\ \A i \in 1..Len(c) : c[i] = s[i] BY PrefixIs
<1>2. Len(c) \in Nat /\ Len(s) \in Nat /\ DOMAIN c = 1..Len(c) /\ DOMAIN s = 1..Len(s) OBVIOUS
<1> QED BY <1>1, <1>2 DEF Whole

LEMMA InOrderAppend ==
    ASSUME NEW s \in Seq(Line), InOrder(s), NEW x \in Line,
           \/ x.kind = "torn"
           \/ /\ Whole(s) /\ (x.kind = "genesis" <=> s = <<>>)
              /\ \A i \in DOMAIN s : s[i].ts <= x.ts
    PROVE  InOrder(Append(s, x))
<1> DEFINE a == Append(s, x)
           written == {i \in DOMAIN s : s[i].kind # "torn"}
           now == {i \in DOMAIN a : a[i].kind # "torn"}
<1>1. /\ a \in Seq(Line) /\ DOMAIN a = 1..Len(s) + 1 /\ a[Len(s) + 1] = x /\ Len(s) \in Nat
      /\ DOMAIN s = 1..Len(s) /\ \A i \in 1..Len(s) : a[i] = s[i]
  OBVIOUS
<1>2. s = <<>> <=> Len(s) + 1 = 1 OBVIOUS
<1>3. /\ \A i \in written : s[i].kind = "genesis" <=> i = 1
      /\ \A i, j \in written : i < j => s[i].ts <= s[j].ts
  BY DEF InOrder
<1> HIDE DEF a
<1>4. \A i \in now : i \in written \/ (i = Len(s) + 1 /\ x.kind # "torn") BY <1>1
<1>5. \A i \in written : a[i] = s[i] /\ i < Len(s) + 1 BY <1>1
<1>6. \A i \in now : a[i].kind = "genesis" <=> i = 1
  BY <1>1, <1>2, <1>3, <1>4, <1>5
<1>7. ASSUME NEW i \in now, NEW j \in now, i < j PROVE a[i].ts <= a[j].ts
  <2>1. i \in written BY <1>4, <1>5, <1>7, <1>1
  <2> QED BY <1>1, <1>3, <1>4, <1>5, <1>7, <2>1
<1> QED BY <1>6, <1>7 DEF InOrder, a

LEMMA InOrderPrefix ==
    ASSUME NEW s \in Seq(Line), NEW t \in Seq(Line), InOrder(t), IsPrefix(s, t)
    PROVE  InOrder(s)
<1>1. Len(s) <= Len(t) /\ \A i \in 1..Len(s) : s[i] = t[i] BY PrefixIs
<1>2. Len(s) \in Nat /\ Len(t) \in Nat /\ DOMAIN s = 1..Len(s) /\ DOMAIN t = 1..Len(t) OBVIOUS
<1> QED BY <1>1, <1>2 DEF InOrder

\* What a log has, the log with one line more has too.
LEMMA ProjectionGrows ==
    ASSUME NEW s \in Seq(Line), NEW x \in Line, NEW f \in Chains
    PROVE  IsPrefix(Projection(s, f), Projection(Append(s, x), f))
<1>1. Projection(s, f) \in Seq(Line) BY ProjectionType
<1>2. CASE Taken(x, Touching[f])
  <2>1. x.request \in Requests BY <1>2 DEF Taken, Touching
  <2>2. Entry(x.request) \in Line
    <3>1. 0 \in 0..MaxTime BY WalAssumption
    <3> QED BY <2>1, <3>1 DEF Entry, Line
  <2> QED BY <1>1, <1>2, <2>2, ProjectionAppend, PrefixAppend
<1>3. CASE ~Taken(x, Touching[f]) BY <1>1, <1>3, ProjectionAppend, PrefixSame
<1> QED BY <1>2, <1>3

-----------------------------------------------------------------------------
(***************************************************************************)
(* What a store knows about the files while its process is up.             *)
(***************************************************************************)
Log == Lines("wal")

\* Its memory is what the log says, and its clock is not behind the log.
Recovered(p) ==
    store[p].phase \in {"projecting", "opened", "verified", "running"} =>
        /\ Whole(Log)
        /\ \A i \in DOMAIN Log : Log[i].ts <= store[p].last
        /\ store[p].fresh <=> Log = <<>>
        /\ store[p].memory = Replay(Log)

\* Once it runs, the log is not empty and synced to its end.
Synced(p) ==
    store[p].phase = "running" => ~store[p].fresh /\ Len(Log) = disk["wal"].synced

\* The chains are what the log projects to; while a transaction is projected, the
\* chains it has still to reach are one entry behind.
Materialized(p) ==
    \A f \in Chains :
        /\ store[p].phase \in {"opened", "verified"} => Lines(f) = Projection(Log, f)
        /\ store[p].phase = "running" =>
             IF f \in current[p].todo
             THEN Append(Lines(f), Entry(current[p].request)) = Projection(Log, f)
             ELSE Lines(f) = Projection(Log, f)

\* Only a store that serves has a transaction in hand, and a poisoned one does no more of it.
AtWork(p) ==
    /\ ~Serving(p) => current[p] = Idle
    /\ store[p].phase = "poisoned" => current[p].stage # "projecting"
    /\ store[p].phase = "running" /\ current[p].stage # "projecting" => current[p].todo = {}

Settled(p) == Recovered(p) /\ Synced(p) /\ Materialized(p) /\ AtWork(p)

\* The files are readable and no alarm is raised, whoever reads them; checkpoints cover
\* whole lines only.
FilesInv == Readable /\ NoFalseAlarm /\ \A f \in Files : Whole(checkpoint[f])

-----------------------------------------------------------------------------
(***************************************************************************)
(* What an append, a repair and a power loss do to the files.              *)
(***************************************************************************)
DiskOK ==
    /\ disk \in [Files -> [lines : Seq(Line), synced : Nat]]
    /\ \A f \in Files : disk[f].synced <= Len(Lines(f))
    /\ checkpoint \in [Files -> Seq(Line)]

\* The next lines of one file; the other files have theirs.
OnlyFile(f, next) ==
    disk'[f].lines = next /\ \A g \in Files \ {f} : disk'[g] = disk[g]

LEMMA FilesAre == Files = {"wal", "action", "access"} /\ Chains \subseteq Files /\ "wal" \notin Chains
BY DEF Files, Chains

LEMMA AppendedIs ==
    ASSUME DiskOK, NEW f \in Files, NEW line \in Line, Appended(f, line), UNCHANGED checkpoint
    PROVE  /\ DiskOK' /\ OnlyFile(f, Append(Lines(f), line)) /\ faults' = faults
           /\ disk'[f].synced = Len(disk'[f].lines)
<1> DEFINE d == [lines |-> Append(Lines(f), line), synced |-> Len(Lines(f)) + 1]
<1>1. disk' = [disk EXCEPT ![f] = d] /\ faults' = faults BY DEF Appended, Lines
<1>2. Lines(f) \in Seq(Line) BY DEF DiskOK, Lines
<1>3. d \in [lines : Seq(Line), synced : Nat] /\ d.synced = Len(d.lines) /\ d.lines = Append(Lines(f), line)
  BY <1>2
<1> HIDE DEF d
<1>4. disk'[f] = d /\ \A g \in Files \ {f} : disk'[g] = disk[g] BY <1>1 DEF DiskOK
<1>5. disk' \in [Files -> [lines : Seq(Line), synced : Nat]] BY <1>1, <1>3 DEF DiskOK
<1>6. \A g \in Files : disk'[g].synced <= Len(disk'[g].lines)
  <2> SUFFICES ASSUME NEW g \in Files PROVE disk'[g].synced <= Len(disk'[g].lines) OBVIOUS
  <2>1. CASE g = f
    <3>1. Len(d.lines) \in Nat BY <1>3
    <3> QED BY <1>3, <1>4, <2>1, <3>1
  <2>2. CASE g # f BY <1>4, <2>2 DEF DiskOK, Lines
  <2> QED BY <2>1, <2>2
<1> QED BY <1>1, <1>3, <1>4, <1>5, <1>6 DEF DiskOK, Lines, OnlyFile

LEMMA FailedIs ==
    ASSUME DiskOK, NEW f \in Files, NEW line \in Line, AppendFailed(f, line), UNCHANGED checkpoint
    PROVE  /\ DiskOK' /\ faults < MaxFaults /\ faults' = faults + 1
           /\ disk'[f].synced = disk[f].synced
           /\ \/ OnlyFile(f, Lines(f))
              \/ OnlyFile(f, Append(Lines(f), Torn))
              \/ OnlyFile(f, Append(Lines(f), line))
<1>1. PICK end \in {<<>>, <<Torn>>, <<line>>} : disk' = [disk EXCEPT ![f].lines = @ \o end]
  BY DEF AppendFailed
<1> DEFINE s == Lines(f)
           n == s \o end
<1>2. s \in Seq(Line) /\ disk[f].synced \in Nat /\ disk[f].synced <= Len(s) BY DEF DiskOK, Lines
<1>3. n \in Seq(Line) /\ Len(n) >= Len(s) /\ (n = s \/ n = Append(s, Torn) \/ n = Append(s, line))
  <2>1. CASE end = <<>> BY <1>2, <2>1
  <2>2. CASE end = <<Torn>>
    <3>1. Torn \in Line BY TornIsALine
    <3> HIDE DEF s
    <3> QED BY <1>2, <2>2, <3>1
  <2>3. CASE end = <<line>>
    <3> HIDE DEF s
    <3> QED BY <1>2, <2>3
  <2> QED BY <1>1, <2>1, <2>2, <2>3
<1>4. disk' = [disk EXCEPT ![f].lines = n] BY <1>1 DEF Lines
<1> HIDE DEF n
<1>5. disk'[f].lines = n /\ disk'[f].synced = disk[f].synced /\ \A g \in Files \ {f} : disk'[g] = disk[g]
  BY <1>4 DEF DiskOK
<1>6. disk' \in [Files -> [lines : Seq(Line), synced : Nat]] BY <1>3, <1>4 DEF DiskOK
<1>7. \A g \in Files : disk'[g].synced <= Len(disk'[g].lines)
  <2> SUFFICES ASSUME NEW g \in Files PROVE disk'[g].synced <= Len(disk'[g].lines) OBVIOUS
  <2>1. CASE g = f
    <3>1. Len(n) \in Nat /\ Len(s) \in Nat BY <1>2, <1>3
    <3> QED BY <1>2, <1>3, <1>5, <2>1, <3>1
  <2>2. CASE g # f BY <1>5, <2>2 DEF DiskOK, Lines
  <2> QED BY <2>1, <2>2
<1>8. faults < MaxFaults /\ faults' = faults + 1 BY DEF AppendFailed
<1> QED BY <1>3, <1>5, <1>6, <1>7, <1>8 DEF DiskOK, Lines, OnlyFile

LEMMA RepairedIs ==
    ASSUME DiskOK, NEW f \in Files, TornTail(Lines(f)), Repaired(f), UNCHANGED checkpoint
    PROVE  /\ DiskOK' /\ OnlyFile(f, Front(Lines(f)))
           /\ disk'[f].synced = Len(disk'[f].lines)
<1> DEFINE d == [lines |-> Front(Lines(f)), synced |-> Len(Lines(f)) - 1]
<1>1. disk' = [disk EXCEPT ![f] = d] BY DEF Repaired, Lines
<1>2. Lines(f) \in Seq(Line) BY DEF DiskOK, Lines
<1>3. Front(Lines(f)) \in Seq(Line) /\ Len(Front(Lines(f))) = Len(Lines(f)) - 1 /\ Len(Lines(f)) >= 1
  BY <1>2, TornTailIs
<1>4. Len(Lines(f)) - 1 \in Nat
  <2>1. Len(Lines(f)) \in Nat BY <1>2
  <2> QED BY <1>3, <2>1
<1>5. d \in [lines : Seq(Line), synced : Nat] /\ d.synced = Len(d.lines) /\ d.lines = Front(Lines(f))
  BY <1>3, <1>4
<1> HIDE DEF d
<1>6. disk'[f] = d /\ \A g \in Files \ {f} : disk'[g] = disk[g] BY <1>1 DEF DiskOK
<1>7. disk' \in [Files -> [lines : Seq(Line), synced : Nat]] BY <1>1, <1>5 DEF DiskOK
<1>8. \A g \in Files : disk'[g].synced <= Len(disk'[g].lines)
  <2> SUFFICES ASSUME NEW g \in Files PROVE disk'[g].synced <= Len(disk'[g].lines) OBVIOUS
  <2>1. CASE g = f BY <1>4, <1>5, <1>6, <2>1, <1>3
  <2>2. CASE g # f BY <1>6, <2>2 DEF DiskOK, Lines
  <2> QED BY <2>1, <2>2
<1> QED BY <1>5, <1>6, <1>7, <1>8 DEF DiskOK, Lines, OnlyFile

\* Nothing is written: the files are what they were.
LEMMA FilesStay ==
    ASSUME FilesInv, UNCHANGED <<disk, checkpoint, losses>>
    PROVE  FilesInv'
BY DEF FilesInv, Readable, NoFalseAlarm, Lines

LEMMA LogGrows ==
    ASSUME DiskOK, FilesInv, NEW x \in Line, Whole(Log), UNCHANGED <<checkpoint, losses>>,
           OnlyFile("wal", Append(Log, x)),
           \/ x.kind = "torn"
           \/ /\ x.kind = "genesis" <=> Log = <<>>
              /\ \A i \in DOMAIN Log : Log[i].ts <= x.ts
    PROVE  FilesInv'
<1> DEFINE W == disk'["wal"].lines
<1>1. Log \in Seq(Line) /\ W = Append(Log, x) /\ W \in Seq(Line)
  BY WholeAppend, FilesAre DEF DiskOK, Log, Lines, OnlyFile
<1>2. \A f \in Chains : disk'[f] = disk[f] BY FilesAre DEF OnlyFile
<1>3. /\ \A f \in Files : Whole(Lines(f)) \/ TornTail(Lines(f))
      /\ InOrder(Log)
  BY ReadableIs DEF FilesInv, Log
<1>4. Whole(W) \/ TornTail(W) BY <1>1, WholeAppend
<1>5. InOrder(W) BY <1>1, <1>3, InOrderAppend
<1>6. Readable'
  <2>1. \A f \in Files : Whole(disk'[f].lines) \/ TornTail(disk'[f].lines)
    BY <1>2, <1>3, <1>4, FilesAre DEF Lines, Chains
  <2> QED BY <1>5, <2>1 DEF Readable, InOrder, Lines
<1>7. NoFalseAlarm'
  <2> SUFFICES ASSUME losses = 0, NEW f \in Files
               PROVE  /\ IsPrefix(checkpoint[f], disk'[f].lines)
                      /\ f \in Chains => IsPrefix(Complete(disk'[f].lines), Projection(W, f))
    BY DEF NoFalseAlarm, Lines
  <2>1. /\ IsPrefix(checkpoint[f], Lines(f))
        /\ f \in Chains => IsPrefix(Complete(Lines(f)), Projection(Log, f))
    BY DEF FilesInv, NoFalseAlarm, Log
  <2>2. CASE f = "wal"
    <3>1. checkpoint[f] \in Seq(Line) BY DEF DiskOK
    <3>2. IsPrefix(Log, W) BY <1>1, PrefixAppend
    <3>3. IsPrefix(checkpoint[f], W) BY <1>1, <2>1, <2>2, <3>1, <3>2, PrefixTrans DEF Log
    <3> QED BY <2>2, <3>3, FilesAre
  <2>3. CASE f \in Chains
    <3>1. Lines(f) = disk'[f].lines /\ Lines(f) \in Seq(Line) BY <1>2, <2>3 DEF Lines, DiskOK
    <3>2. Complete(Lines(f)) \in Seq(Line)
      <4>1. TornTail(Lines(f)) => Front(Lines(f)) \in Seq(Line) BY <3>1, TornTailIs
      <4> QED BY <3>1, <4>1, <1>3 DEF Complete
    <3>3. Projection(Log, f) \in Seq(Line) /\ Projection(W, f) \in Seq(Line)
      BY <1>1, <2>3, ProjectionType
    <3>4. IsPrefix(Projection(Log, f), Projection(W, f)) BY <1>1, <2>3, ProjectionGrows
    <3>5. IsPrefix(Complete(Lines(f)), Projection(W, f)) BY <2>1, <2>3, <3>2, <3>3, <3>4, PrefixTrans
    <3> QED BY <2>1, <3>1, <3>5
  <2> QED BY <2>2, <2>3 DEF Files
<1> QED BY <1>6, <1>7 DEF FilesInv

LEMMA ChainGrows ==
    ASSUME DiskOK, FilesInv, NEW f \in Chains, NEW x \in Line, Whole(Lines(f)),
           UNCHANGED <<checkpoint, losses>>, OnlyFile(f, Append(Lines(f), x)),
           x.kind = "torn" \/ IsPrefix(Append(Lines(f), x), Projection(Log, f))
    PROVE  FilesInv'
<1> DEFINE L == disk'[f].lines
<1>0. f \in Files /\ f # "wal" BY FilesAre
<1>1. Lines(f) \in Seq(Line) /\ L = Append(Lines(f), x) /\ L \in Seq(Line)
  BY <1>0, WholeAppend DEF DiskOK, Lines, OnlyFile
<1>2. \A g \in Files : g # f => disk'[g] = disk[g] BY DEF OnlyFile
<1>3. /\ \A g \in Files : Whole(Lines(g)) \/ TornTail(Lines(g))
      /\ InOrder(Log)
  BY ReadableIs DEF FilesInv, Log
<1>4. Whole(L) \/ TornTail(L) BY <1>1, WholeAppend
<1>5. disk'["wal"] = disk["wal"] BY <1>0, <1>2, FilesAre
<1>6. Readable'
  <2>1. \A g \in Files : Whole(disk'[g].lines) \/ TornTail(disk'[g].lines)
    BY <1>2, <1>3, <1>4 DEF Lines
  <2> QED BY <1>3, <1>5, <2>1 DEF Readable, InOrder, Lines, Log
<1>7. NoFalseAlarm'
  <2> SUFFICES ASSUME losses = 0, NEW g \in Files
               PROVE  /\ IsPrefix(checkpoint[g], disk'[g].lines)
                      /\ g \in Chains => IsPrefix(Complete(disk'[g].lines), Projection(Log, g))
    BY <1>5 DEF NoFalseAlarm, Lines, Log
  <2>1. /\ IsPrefix(checkpoint[g], Lines(g))
        /\ g \in Chains => IsPrefix(Complete(Lines(g)), Projection(Log, g))
    BY DEF FilesInv, NoFalseAlarm, Log
  <2>2. CASE g # f BY <1>2, <2>1, <2>2 DEF Lines
  <2>3. CASE g = f
    <3>1. checkpoint[f] \in Seq(Line) BY <1>0 DEF DiskOK
    <3>2. IsPrefix(Lines(f), L) BY <1>1, PrefixAppend
    <3>3. IsPrefix(checkpoint[f], L) BY <1>1, <2>1, <2>3, <3>1, <3>2, PrefixTrans
    <3>4. IsPrefix(Complete(L), Projection(Log, f))
      <4>1. CASE x.kind = "torn"
        <5>1. Complete(L) = Lines(f) /\ Complete(Lines(f)) = Lines(f) BY <1>1, <4>1, WholeAppend DEF Complete
        <5> QED BY <2>1, <2>3, <5>1
      <4>2. CASE x.kind # "torn"
        <5>1. Complete(L) = L BY <1>1, <4>2, WholeAppend DEF Complete
        <5> QED BY <1>1, <4>2, <5>1
      <4> QED BY <4>1, <4>2
    <3> QED BY <2>3, <3>3, <3>4
  <2> QED BY <2>2, <2>3
<1> QED BY <1>6, <1>7 DEF FilesInv

\* A cut takes the torn line and nothing that anybody relies on.
LEMMA FileRepaired ==
    ASSUME DiskOK, FilesInv, NEW f \in Files, TornTail(Lines(f)), UNCHANGED <<checkpoint, losses>>,
           OnlyFile(f, Front(Lines(f)))
    PROVE  FilesInv' /\ Whole(disk'[f].lines)
<1> DEFINE L == disk'[f].lines
<1>1. Lines(f) \in Seq(Line) /\ L = Front(Lines(f)) BY DEF DiskOK, Lines, OnlyFile
<1>2. /\ L \in Seq(Line) /\ Whole(L) /\ Lines(f)[Len(Lines(f))] \in Line /\ ~Whole(Lines(f))
      /\ Lines(f)[Len(Lines(f))].kind = "torn" /\ Lines(f) = Append(L, Lines(f)[Len(Lines(f))])
  BY <1>1, TornTailIs
<1>3. IsPrefix(L, Lines(f)) BY <1>2, PrefixAppend
<1>4. \A g \in Files : g # f => disk'[g] = disk[g] BY DEF OnlyFile
<1>5. /\ \A g \in Files : Whole(Lines(g)) \/ TornTail(Lines(g))
      /\ InOrder(Log)
  BY ReadableIs DEF FilesInv, Log
<1>6. InOrder(disk'["wal"].lines)
  <2>1. CASE f = "wal" BY <1>1, <1>2, <1>3, <1>5, <2>1, InOrderPrefix DEF Log
  <2>2. CASE f # "wal" BY <1>4, <1>5, <2>2, FilesAre DEF Log, Lines
  <2> QED BY <2>1, <2>2
<1>7. Readable'
  <2>1. \A g \in Files : Whole(disk'[g].lines) \/ TornTail(disk'[g].lines)
    BY <1>2, <1>4, <1>5 DEF Lines
  <2> QED BY <1>6, <2>1 DEF Readable, InOrder, Lines
<1>8. ASSUME NEW g \in Chains PROVE Projection(disk'["wal"].lines, g) = Projection(Log, g)
  <2>1. CASE f = "wal"
    <3> DEFINE x == Lines(f)[Len(Lines(f))]
    <3>1. ~Taken(x, Touching[g]) BY <1>2 DEF Taken
    <3>2. Projection(Append(L, x), g) = Projection(L, g) BY <1>2, <3>1, ProjectionAppend
    <3> QED BY <1>2, <2>1, <3>2 DEF Log
  <2>2. CASE f # "wal" BY <1>4, <2>2, FilesAre DEF Log, Lines
  <2> QED BY <2>1, <2>2
<1>9. NoFalseAlarm'
  <2> SUFFICES ASSUME losses = 0, NEW g \in Files
               PROVE  /\ IsPrefix(checkpoint[g], disk'[g].lines)
                      /\ g \in Chains => IsPrefix(Complete(disk'[g].lines), Projection(Log, g))
    BY <1>8 DEF NoFalseAlarm, Lines
  <2>1. /\ IsPrefix(checkpoint[g], Lines(g))
        /\ g \in Chains => IsPrefix(Complete(Lines(g)), Projection(Log, g))
    BY DEF FilesInv, NoFalseAlarm, Log
  <2>2. CASE g # f BY <1>4, <2>1, <2>2 DEF Lines
  <2>3. CASE g = f
    <3>1. checkpoint[f] \in Seq(Line) /\ Whole(checkpoint[f]) BY DEF DiskOK, FilesInv
    <3>2. IsPrefix(checkpoint[f], L) BY <1>1, <2>1, <2>3, <3>1, PrefixFront
    <3>3. Complete(L) = L /\ Complete(Lines(f)) = L BY <1>1, <1>2 DEF Complete
    <3> QED BY <2>1, <2>3, <3>2, <3>3
  <2> QED BY <2>2, <2>3
<1> QED BY <1>2, <1>7, <1>9 DEF FilesInv

\* A power loss leaves every file readable.
LEMMA RemainsIs ==
    ASSUME DiskOK, NEW f \in Files, Whole(Lines(f)) \/ TornTail(Lines(f)), NEW left \in Remains(disk[f])
    PROVE  /\ left \in Seq(Line) /\ (Whole(left) \/ TornTail(left))
           /\ \E n \in disk[f].synced..Len(Lines(f)) :
                 \/ left = SubSeq(Lines(f), 1, n)
                 \/ left = Append(SubSeq(Lines(f), 1, n), Torn)
           /\ InOrder(Lines(f)) => InOrder(left)
<1> DEFINE s == Lines(f)
<1>1. s \in Seq(Line) /\ disk[f].synced \in Nat /\ disk[f].lines = s /\ Len(s) \in Nat BY DEF DiskOK, Lines
<1> HIDE DEF s
<1>2. ASSUME NEW n \in disk[f].synced..Len(s)
      PROVE  /\ SubSeq(s, 1, n) \in Seq(Line) /\ Len(SubSeq(s, 1, n)) = n /\ IsPrefix(SubSeq(s, 1, n), s)
             /\ n = Len(s) => SubSeq(s, 1, n) = s
             /\ n < Len(s) => Whole(SubSeq(s, 1, n))
  <2> DEFINE t == SubSeq(s, 1, n)
  <2>1. n \in Nat /\ n <= Len(s) BY <1>1
  <2>2. /\ t \in Seq(Line) /\ Len(t) = n /\ \A i \in 1..n : t[i] = s[i]
        /\ n = Len(s) => t = s
    BY <1>1, <2>1
  <2> HIDE DEF t
  <2>3. IsPrefix(t, s) BY <1>1, <2>1, <2>2, PrefixIs
  <2>4. ASSUME n < Len(s) PROVE Whole(t)
    <3>1. CASE Whole(s) BY <1>1, <2>2, <2>3, <3>1, WholePrefix
    <3>2. CASE TornTail(s)
      <4>1. /\ Front(s) \in Seq(Line) /\ Whole(Front(s)) /\ Len(Front(s)) = Len(s) - 1
            /\ \A i \in 1..Len(s) - 1 : Front(s)[i] = s[i]
        BY <1>1, <3>2, TornTailIs
      <4>2. n <= Len(s) - 1 BY <1>1, <2>1, <2>4
      <4>3. Len(t) <= Len(Front(s)) /\ \A i \in 1..Len(t) : t[i] = Front(s)[i] BY <1>1, <2>1, <2>2, <4>1, <4>2
      <4>4. IsPrefix(t, Front(s)) BY <2>2, <4>1, <4>3, PrefixIs
      <4> QED BY <2>2, <4>1, <4>4, WholePrefix
    <3> QED BY <3>1, <3>2 DEF s
  <2> QED BY <2>2, <2>3, <2>4 DEF t
<1>3. PICK n \in disk[f].synced..Len(s) :
        left = SubSeq(s, 1, n) \/ (n < Len(s) /\ left = Append(SubSeq(s, 1, n), Torn))
  <2>1. left \in {SubSeq(s, 1, n) : n \in disk[f].synced..Len(s)}
        \/ left \in {Append(SubSeq(s, 1, n), Torn) : n \in disk[f].synced..(Len(s) - 1)}
    BY <1>1 DEF Remains
  <2>2. ASSUME NEW n \in disk[f].synced..(Len(s) - 1) PROVE n \in disk[f].synced..Len(s) /\ n < Len(s)
    BY <1>1
  <2> QED BY <2>1, <2>2
<1> DEFINE t == SubSeq(s, 1, n)
<1>4. /\ t \in Seq(Line) /\ IsPrefix(t, s) /\ (n = Len(s) => t = s) /\ (n < Len(s) => Whole(t)) BY <1>2
<1>5. InOrder(s) => InOrder(t) BY <1>1, <1>4, InOrderPrefix
<1> HIDE DEF t
<1>6. CASE left = t
  <2>1. Whole(t) \/ TornTail(t) BY <1>1, <1>4 DEF s
  <2> QED BY <1>3, <1>4, <1>5, <1>6, <2>1 DEF s, t
<1>7. CASE n < Len(s) /\ left = Append(t, Torn)
  <2>1. Torn \in Line /\ Torn.kind = "torn" BY TornIsALine
  <2>2. left \in Seq(Line) /\ TornTail(left) BY <1>4, <1>7, <2>1, WholeAppend
  <2>3. InOrder(s) => InOrder(left) BY <1>4, <1>5, <1>7, <2>1, InOrderAppend
  <2> QED BY <1>3, <1>7, <2>2, <2>3 DEF s, t
<1> QED BY <1>3, <1>6, <1>7 DEF t

-----------------------------------------------------------------------------
(***************************************************************************)
(* The invariant of the store, step by step.                               *)
(***************************************************************************)
Store == [phase : Phases, memory : Seq(Line), last : 0..MaxTime, fresh : BOOLEAN]
Transacting == [request : Requests \cup {NoRequest}, stage : {"none", "projecting", "failed"},
                todo : SUBSET Chains]

StoresOK == store \in [Procs -> Store]
CallersOK ==
    /\ queue \in [Procs -> Seq(Requests)]
    /\ current \in [Procs -> Transacting]
    /\ told \in [Requests -> {"none", "committed", "unlogged", "unknown"}]
    /\ arrived \in 0..Cardinality(Requests)
CountsOK ==
    /\ lease \in BOOLEAN
    /\ checkpoints \in 0..MaxCheckpoints /\ starts \in 0..MaxStarts
    /\ faults \in 0..MaxFaults /\ losses \in Nat /\ losses <= faults

StoreInv ==
    /\ DiskOK /\ StoresOK /\ CallersOK /\ CountsOK
    /\ WriterInv /\ FilesInv
    /\ \A p \in Procs : Settled(p)

LEMMA TypesAre == StoreInv => TypeOK
<1> SUFFICES ASSUME StoreInv PROVE TypeOK OBVIOUS
<1>1. losses \in 0..MaxFaults
  <2>1. MaxFaults \in Nat BY WalAssumption
  <2> QED BY <2>1 DEF StoreInv, CountsOK
<1> QED BY <1>1 DEF StoreInv, DiskOK, StoresOK, CallersOK, CountsOK, TypeOK, Store, Transacting

LEMMA DownIs == Down \in Store /\ Down.phase = "down" /\ Idle \in Transacting /\ Idle.todo = {} /\ Idle.stage = "none"
<1>1. 0 \in 0..MaxTime /\ <<>> \in Seq(Line) BY WalAssumption
<1> QED BY <1>1 DEF Down, Store, Phases, Idle, Transacting

\* A store that has not read its files yet knows nothing of them.
LEMMA Starting ==
    ASSUME NEW p, store'[p].phase \in {"down", "repairing"}, current'[p] = Idle
    PROVE  Settled(p)'
BY DEF Settled, Recovered, Synced, Materialized, AtWork, Serving

\* The process at work is the only one: the others stay down.
LEMMA Others ==
    ASSUME StoreInv, NEW p \in Procs, Up(p), NEW q \in Procs, q # p,
           store'[q] = store[q], current'[q] = current[q]
    PROVE  Settled(q)'
<1>1. store[q].phase = "down" BY DEF StoreInv, WriterInv, OneWriter, Up
<1>2. current[q] = Idle BY <1>1 DEF StoreInv, Settled, AtWork, Serving
<1> QED BY <1>1, <1>2, Starting

\* What every shut store has in common.
LEMMA ShutIs ==
    ASSUME StoreInv, NEW p \in Procs, Up(p), Shut(p), UNCHANGED arrived
    PROVE  StoresOK' /\ CallersOK' /\ lease' \in BOOLEAN /\ \A q \in Procs : Settled(q)'
<1>1. store' = [store EXCEPT ![p] = Down] /\ current' = [current EXCEPT ![p] = Idle]
      /\ queue' = [queue EXCEPT ![p] = <<>>] /\ lease' = FALSE
      /\ told' = [r \in Requests |-> IF r \in ToSet(queue[p]) THEN "unlogged" ELSE told[r]]
  BY DEF Shut
<1>2. StoresOK' BY <1>1, DownIs DEF StoreInv, StoresOK
<1>3. CallersOK'
  <2>1. queue' \in [Procs -> Seq(Requests)]
    <3>1. <<>> \in Seq(Requests) OBVIOUS
    <3> QED BY <1>1, <3>1 DEF StoreInv, CallersOK
  <2>2. current' \in [Procs -> Transacting] BY <1>1, DownIs DEF StoreInv, CallersOK
  <2>3. told' \in [Requests -> {"none", "committed", "unlogged", "unknown"}]
    BY <1>1 DEF StoreInv, CallersOK
  <2> QED BY <2>1, <2>2, <2>3 DEF StoreInv, CallersOK
<1>4. ASSUME NEW q \in Procs PROVE Settled(q)'
  <2>1. CASE q = p
    <3>1. store'[p] = Down /\ current'[p] = Idle BY <1>1 DEF StoreInv, StoresOK, CallersOK
    <3> QED BY <2>1, <3>1, DownIs, Starting
  <2>2. CASE q # p
    <3>1. store'[q] = store[q] /\ current'[q] = current[q] BY <1>1, <2>2 DEF StoreInv, StoresOK, CallersOK
    <3> QED BY <2>2, <3>1, Others
  <2> QED BY <2>1, <2>2
<1> QED BY <1>1, <1>2, <1>3, <1>4

LEMMA Closes ==
    ASSUME StoreInv, NEW p \in Procs, Up(p), Shut(p), WriterInv', DiskOK', FilesInv',
           faults' = faults \/ (faults < MaxFaults /\ faults' = faults + 1),
           UNCHANGED <<arrived, checkpoints, starts, losses>>
    PROVE  StoreInv'
<1>1. CountsOK'
  <2>1. lease' \in BOOLEAN BY DEF Shut
  <2>2. MaxFaults \in Nat BY WalAssumption
  <2> QED BY <2>1, <2>2 DEF StoreInv, CountsOK
<1> QED BY <1>1, ShutIs DEF StoreInv

LEMMA NoFault == ASSUME CountsOK, UNCHANGED <<lease, checkpoints, starts, faults, losses>> PROVE CountsOK'
BY DEF CountsOK

LEMMA OneFault ==
    ASSUME CountsOK, faults < MaxFaults, faults' = faults + 1, UNCHANGED <<lease, checkpoints, starts, losses>>
    PROVE  CountsOK'
<1>1. MaxFaults \in Nat BY WalAssumption
<1> QED BY <1>1 DEF CountsOK

LEMMA OpenStep == ASSUME StoreInv, NEW p \in Procs, Open(p), WriterInv' PROVE StoreInv'
<1> DEFINE s == [Down EXCEPT !.phase = "repairing"]
<1>1. /\ store' = [store EXCEPT ![p] = s] /\ lease' = TRUE /\ ~lease
      /\ starts < MaxStarts /\ starts' = starts + 1
      /\ UNCHANGED <<disk, queue, current, told, arrived, checkpoint, checkpoints, faults, losses>>
  BY DEF Open
<1>2. s \in Store /\ s.phase = "repairing"
  <2>1. 0 \in 0..MaxTime /\ <<>> \in Seq(Line) BY WalAssumption
  <2> QED BY <2>1 DEF Down, Store, Phases
<1> HIDE DEF s
<1>3. StoresOK' BY <1>1, <1>2 DEF StoreInv, StoresOK
<1>4. CountsOK'
  <2>1. MaxStarts \in Nat BY WalAssumption
  <2> QED BY <1>1, <2>1 DEF StoreInv, CountsOK
<1>5. DiskOK' /\ CallersOK' BY <1>1 DEF StoreInv, DiskOK, CallersOK, Lines
<1>6. FilesInv' BY <1>1, FilesStay DEF StoreInv
<1>7. ASSUME NEW q \in Procs PROVE Settled(q)'
  <2>1. store[q].phase = "down" BY <1>1 DEF StoreInv, WriterInv, LeaseIsHeld, Up
  <2>2. current'[q] = Idle BY <1>1, <2>1 DEF StoreInv, Settled, AtWork, Serving
  <2>3. store'[q].phase \in {"down", "repairing"} BY <1>1, <1>2, <2>1 DEF StoreInv, StoresOK
  <2> QED BY <2>2, <2>3, Starting
<1> QED BY <1>3, <1>4, <1>5, <1>6, <1>7 DEF StoreInv

\* The times of a whole log go up to its last one.
LEMMA LastIsLatest ==
    ASSUME NEW s \in Seq(Line), s # <<>>, Whole(s), InOrder(s)
    PROVE  Last(s).ts \in 0..MaxTime /\ \A i \in DOMAIN s : s[i].ts <= Last(s).ts
<1>1. Len(s) \in DOMAIN s /\ DOMAIN s = 1..Len(s) /\ Len(s) \in Nat /\ Last(s) = s[Len(s)] /\ s[Len(s)] \in Line
  BY DEF Last
<1>2. s[Len(s)].ts \in 0..MaxTime BY <1>1 DEF Line
<1>3. ASSUME NEW i \in DOMAIN s PROVE s[i].ts <= s[Len(s)].ts
  <2>1. CASE i = Len(s) BY <1>2, <2>1
  <2>2. CASE i # Len(s)
    <3>1. i < Len(s) BY <1>1, <2>2
    <3>2. s[i].kind # "torn" /\ s[Len(s)].kind # "torn" BY <1>1 DEF Whole
    <3> QED BY <1>1, <3>1, <3>2 DEF InOrder
  <2> QED BY <2>1, <2>2
<1> QED BY <1>1, <1>2, <1>3

LEMMA LogIs == ASSUME StoreInv PROVE Log \in Seq(Line) /\ InOrder(Log) /\ "wal" \in Files
<1>1. Log \in Seq(Line) BY FilesAre DEF StoreInv, DiskOK, Log, Lines
<1>2. InOrder(Log) BY ReadableIs DEF StoreInv, FilesInv, Log
<1> QED BY <1>1, <1>2, FilesAre

LEMMA RecoverStep == ASSUME StoreInv, NEW p \in Procs, Recover(p), WriterInv' PROVE StoreInv'
<1>0. Up(p) /\ store[p].phase = "repairing" /\ UNCHANGED <<arrived, checkpoint, checkpoints, starts, faults, losses>>
  BY DEF Recover, Up
<1>1. PICK now \in 0..MaxTime :
        \/ /\ TornTail(Log) /\ Repaired("wal") /\ UNCHANGED <<lease, store, queue, current, told>>
        \/ /\ Whole(Log)
           /\ store' = [store EXCEPT ![p] =
                  [phase |-> "projecting", memory |-> Replay(Log),
                   last |-> IF Log = <<>> THEN now ELSE Last(Log).ts, fresh |-> Log = <<>>]]
           /\ UNCHANGED <<disk, lease, queue, current, told>>
        \/ Shut(p) /\ UNCHANGED disk
  BY DEF Recover, Log
<1>2. CASE TornTail(Log) /\ Repaired("wal") /\ UNCHANGED <<lease, store, queue, current, told>>
  <2>1. DiskOK' /\ OnlyFile("wal", Front(Lines("wal"))) BY <1>0, <1>2, RepairedIs, LogIs DEF StoreInv, Log
  <2>2. FilesInv' BY <1>0, <1>2, <2>1, FileRepaired, LogIs DEF StoreInv, Log
  <2>3. StoresOK' /\ CallersOK' BY <1>0, <1>2 DEF StoreInv, StoresOK, CallersOK
  <2>4. CountsOK' BY <1>0, <1>2, NoFault DEF StoreInv
  <2>5. ASSUME NEW q \in Procs PROVE Settled(q)'
    <3>1. CASE q = p
      <4>1. current[p] = Idle BY <1>0 DEF StoreInv, Settled, AtWork, Serving
      <4> QED BY <1>0, <1>2, <3>1, <4>1, Starting
    <3>2. CASE q # p BY <1>0, <1>2, <3>2, Others
    <3> QED BY <3>1, <3>2
  <2> QED BY <2>1, <2>2, <2>3, <2>4, <2>5 DEF StoreInv
<1>3. CASE /\ Whole(Log)
           /\ store' = [store EXCEPT ![p] =
                  [phase |-> "projecting", memory |-> Replay(Log),
                   last |-> IF Log = <<>> THEN now ELSE Last(Log).ts, fresh |-> Log = <<>>]]
           /\ UNCHANGED <<disk, lease, queue, current, told>>
  <2> DEFINE s == [phase |-> "projecting", memory |-> Replay(Log),
                   last |-> IF Log = <<>> THEN now ELSE Last(Log).ts, fresh |-> Log = <<>>]
  <2>1. Replay(Log) \in Seq(Line)
    <3>1. Replay(Log) \in Seq(TransactionsOf(Requests)) BY LogIs, LoggedType DEF Replay
    <3>2. TransactionsOf(Requests) \subseteq Line BY DEF TransactionsOf, Line
    <3> QED BY <3>1, <3>2
  <2>2. s.last \in 0..MaxTime /\ \A i \in DOMAIN Log : Log[i].ts <= s.last
    <3>1. CASE Log = <<>> BY <3>1
    <3>2. CASE Log # <<>> BY <1>3, <3>2, LogIs, LastIsLatest
    <3> QED BY <3>1, <3>2
  <2>3. s \in Store /\ s.phase = "projecting" /\ s.memory = Replay(Log) /\ s.fresh = (Log = <<>>)
    <3>1. (Log = <<>>) \in BOOLEAN OBVIOUS
    <3> QED BY <2>1, <2>2, <3>1 DEF Store, Phases
  <2>4. store' = [store EXCEPT ![p] = s] BY <1>3
  <2> HIDE DEF s
  <2>5. StoresOK' /\ store'[p] = s /\ \A q \in Procs : q # p => store'[q] = store[q]
    BY <2>3, <2>4 DEF StoreInv, StoresOK
  <2>6. DiskOK' /\ CallersOK' BY <1>0, <1>3 DEF StoreInv, DiskOK, CallersOK, Lines
  <2>7. FilesInv' BY <1>0, <1>3, FilesStay DEF StoreInv
  <2>8. CountsOK' BY <1>0, <1>3, NoFault DEF StoreInv
  <2>9. Settled(p)'
    <3>1. Recovered(p)' BY <1>3, <2>2, <2>3, <2>5 DEF Recovered, Log, Lines
    <3>2. Synced(p)' /\ Materialized(p)' BY <2>3, <2>5 DEF Synced, Materialized
    <3>3. AtWork(p)'
      <4>1. current'[p] = Idle BY <1>0, <1>3 DEF StoreInv, Settled, AtWork, Serving
      <4> QED BY <2>3, <2>5, <4>1 DEF AtWork, Serving
    <3> QED BY <3>1, <3>2, <3>3 DEF Settled
  <2>10. ASSUME NEW q \in Procs PROVE Settled(q)' BY <1>0, <1>3, <2>5, <2>9, Others
  <2> QED BY <2>5, <2>6, <2>7, <2>8, <2>10 DEF StoreInv
<1>4. CASE Shut(p) /\ UNCHANGED disk
  <2>1. DiskOK' BY <1>0, <1>4 DEF StoreInv, DiskOK, Lines
  <2>2. FilesInv' BY <1>0, <1>4, FilesStay DEF StoreInv
  <2> QED BY <1>0, <1>4, <2>1, <2>2, Closes
<1> QED BY <1>1, <1>2, <1>3, <1>4

\* A record entry lands in a chain, or fails to, while the log stays as it is.
LEMMA ChainIsWhole ==
    ASSUME StoreInv, NEW f \in Chains, NEW x \in Line, IsPrefix(Append(Lines(f), x), Projection(Log, f))
    PROVE  Whole(Lines(f))
<1>1. Lines(f) \in Seq(Line) BY FilesAre DEF StoreInv, DiskOK, Lines
<1>2. Append(Lines(f), x) \in Seq(Line) /\ IsPrefix(Lines(f), Append(Lines(f), x))
  BY <1>1, WholeAppend, PrefixAppend
<1>3. Projection(Log, f) \in Seq(Line) /\ Whole(Projection(Log, f))
  <2>1. /\ Projection(Log, f) \in Seq(Line)
        /\ \A i \in 1..Len(Projection(Log, f)) : Projection(Log, f)[i].kind = "entry"
    BY LogIs, ProjectionType
  <2>2. DOMAIN Projection(Log, f) = 1..Len(Projection(Log, f)) BY <2>1
  <2> QED BY <2>1, <2>2 DEF Whole
<1>4. IsPrefix(Lines(f), Projection(Log, f)) BY <1>1, <1>2, <1>3, PrefixTrans
<1> QED BY <1>1, <1>3, <1>4, WholePrefix

LEMMA EntryAppended ==
    ASSUME StoreInv, NEW f \in Chains, NEW x \in Line, IsPrefix(Append(Lines(f), x), Projection(Log, f)),
           Appended(f, x), UNCHANGED <<checkpoint, losses>>
    PROVE  /\ DiskOK' /\ FilesInv' /\ OnlyFile(f, Append(Lines(f), x)) /\ disk'["wal"] = disk["wal"]
           /\ faults' = faults
<1>1. f \in Files /\ f # "wal" BY FilesAre
<1>2. DiskOK' /\ OnlyFile(f, Append(Lines(f), x)) /\ faults' = faults BY <1>1, AppendedIs DEF StoreInv
<1>3. FilesInv' BY <1>2, ChainIsWhole, ChainGrows DEF StoreInv
<1> QED BY <1>1, <1>2, <1>3, FilesAre DEF OnlyFile

LEMMA EntryFailed ==
    ASSUME StoreInv, NEW f \in Chains, NEW x \in Line, IsPrefix(Append(Lines(f), x), Projection(Log, f)),
           AppendFailed(f, x), UNCHANGED <<checkpoint, losses>>
    PROVE  /\ DiskOK' /\ FilesInv' /\ disk'["wal"] = disk["wal"]
           /\ faults < MaxFaults /\ faults' = faults + 1
<1>1. f \in Files /\ f # "wal" BY FilesAre
<1>2. /\ DiskOK' /\ faults < MaxFaults /\ faults' = faults + 1 /\ disk'[f].synced = disk[f].synced
      /\ \/ OnlyFile(f, Lines(f))
         \/ OnlyFile(f, Append(Lines(f), Torn))
         \/ OnlyFile(f, Append(Lines(f), x))
  BY <1>1, FailedIs DEF StoreInv
<1>3. CASE OnlyFile(f, Lines(f))
  <2>1. \A g \in Files : disk'[g] = disk[g]
    <3>1. disk'[f] \in [lines : Seq(Line), synced : Nat] /\ disk[f] \in [lines : Seq(Line), synced : Nat]
      BY <1>1, <1>2 DEF StoreInv, DiskOK
    <3>2. disk'[f].lines = disk[f].lines BY <1>3 DEF OnlyFile, Lines
    <3> QED BY <1>2, <1>3, <3>1, <3>2 DEF OnlyFile
  <2>2. disk' = disk
    <3>1. disk' \in [Files -> [lines : Seq(Line), synced : Nat]]
          /\ disk \in [Files -> [lines : Seq(Line), synced : Nat]]
      BY <1>2 DEF StoreInv, DiskOK
    <3> QED BY <2>1, <3>1
  <2>3. FilesInv' BY <2>2, FilesStay DEF StoreInv
  <2> QED BY <1>2, <2>2, <2>3
<1>4. CASE OnlyFile(f, Append(Lines(f), Torn))
  <2>1. FilesInv' BY <1>4, TornIsALine, ChainIsWhole, ChainGrows DEF StoreInv
  <2> QED BY <1>1, <1>2, <1>4, <2>1, FilesAre DEF OnlyFile
<1>5. CASE OnlyFile(f, Append(Lines(f), x))
  <2>1. FilesInv' BY <1>5, ChainIsWhole, ChainGrows DEF StoreInv
  <2> QED BY <1>1, <1>2, <1>5, <2>1, FilesAre DEF OnlyFile
<1> QED BY <1>2, <1>3, <1>4, <1>5

\* The chains that a store expects are those of the log.
LEMMA ExpectedIs ==
    ASSUME StoreInv, NEW p \in Procs, NEW f \in Chains,
           store[p].phase \in {"projecting", "opened", "verified", "running"}
    PROVE  Expected(p, f) = Projection(Log, f) /\ Expected(p, f) \in Seq(Line)
<1>1. store[p].memory = Replay(Log) BY DEF StoreInv, Settled, Recovered
<1> QED BY <1>1, LogIs, ProjectionOfReplay, ProjectionType DEF Expected

LEMMA MaterializeStep == ASSUME StoreInv, NEW p \in Procs, Materialize(p), WriterInv' PROVE StoreInv'
<1>0. Up(p) /\ store[p].phase = "projecting" /\ UNCHANGED <<arrived, checkpoint, checkpoints, starts, losses>>
  BY DEF Materialize, Up
<1> DEFINE behind == {g \in Chains : Lines(g) # Expected(p, g)}
           f == IF "action" \in behind THEN "action" ELSE "access"
           next == Expected(p, f)[Len(Lines(f)) + 1]
<1>1. \/ /\ behind # {} /\ TornTail(Lines(f))
         /\ Repaired(f)
         /\ UNCHANGED <<lease, store, queue, current, told, faults>>
      \/ /\ behind # {} /\ ~TornTail(Lines(f)) /\ ~Diverged(p, f)
         /\ \/ /\ Appended(f, next)
               /\ UNCHANGED <<lease, store, queue, current, told>>
            \/ AppendFailed(f, next) /\ Shut(p)
      \/ /\ behind # {} /\ Diverged(p, f)
         /\ Shut(p)
         /\ UNCHANGED <<disk, faults>>
      \/ /\ behind = {}
         /\ store' = [store EXCEPT ![p].phase = "opened"]
         /\ UNCHANGED <<disk, lease, queue, current, told, faults>>
  BY Zenon DEF Materialize
<1>2. f \in Chains /\ f \in Files /\ f # "wal" BY FilesAre DEF Chains
<1>3. behind # {} => f \in behind BY DEF Chains
<1>4. Lines(f) \in Seq(Line) BY <1>2 DEF StoreInv, DiskOK, Lines
\* While the chains are brought up to date, a step that leaves the log and the stores is harmless.
<1>5. ASSUME DiskOK', FilesInv', disk'["wal"] = disk["wal"], UNCHANGED <<lease, store, queue, current, told, faults>>
      PROVE  StoreInv'
  <2>1. StoresOK' /\ CallersOK' BY <1>0, <1>5 DEF StoreInv, StoresOK, CallersOK
  <2>2. CountsOK' BY <1>0, <1>5, NoFault DEF StoreInv
  <2>3. Settled(p)'
    <3>1. Recovered(p) /\ AtWork(p) BY DEF StoreInv, Settled
    <3>2. Recovered(p)' /\ AtWork(p)' BY <1>5, <3>1 DEF Recovered, AtWork, Serving, Log, Lines
    <3>3. Synced(p)' /\ Materialized(p)' BY <1>0, <1>5 DEF Synced, Materialized
    <3> QED BY <3>2, <3>3 DEF Settled
  <2>4. ASSUME NEW q \in Procs PROVE Settled(q)' BY <1>0, <1>5, <2>3, Others
  <2> QED BY <1>5, <2>1, <2>2, <2>4 DEF StoreInv
<1>6. CASE /\ behind # {} /\ TornTail(Lines(f))
           /\ Repaired(f)
           /\ UNCHANGED <<lease, store, queue, current, told, faults>>
  <2> HIDE DEF f, behind
  <2>1. DiskOK' /\ OnlyFile(f, Front(Lines(f))) BY <1>0, <1>2, <1>6, RepairedIs DEF StoreInv
  <2>2. FilesInv' BY <1>0, <1>2, <1>6, <2>1, FileRepaired DEF StoreInv
  <2>3. disk'["wal"] = disk["wal"] BY <1>2, <2>1, FilesAre DEF OnlyFile
  <2> QED BY <1>5, <1>6, <2>1, <2>2, <2>3
<1>7. CASE /\ behind # {} /\ ~TornTail(Lines(f)) /\ ~Diverged(p, f)
           /\ \/ /\ Appended(f, next)
                 /\ UNCHANGED <<lease, store, queue, current, told>>
              \/ AppendFailed(f, next) /\ Shut(p)
  <2>1. Expected(p, f) = Projection(Log, f) /\ Expected(p, f) \in Seq(Line)
    <3> HIDE DEF f
    <3> QED BY <1>0, <1>2, ExpectedIs
  <2>2. IsPrefix(Lines(f), Expected(p, f)) /\ Lines(f) # Expected(p, f)
    BY <1>3, <1>7 DEF Diverged
  <2>3. next \in Line /\ IsPrefix(Append(Lines(f), next), Projection(Log, f))
    <3> HIDE DEF f
    <3> QED BY <1>4, <2>1, <2>2, PrefixNext
  <2> HIDE DEF f, next, behind
  <2>4. CASE Appended(f, next) /\ UNCHANGED <<lease, store, queue, current, told>>
    <3>1. DiskOK' /\ FilesInv' /\ disk'["wal"] = disk["wal"] /\ faults' = faults
      BY <1>0, <1>2, <2>3, <2>4, EntryAppended
    <3> QED BY <1>5, <2>4, <3>1
  <2>5. CASE AppendFailed(f, next) /\ Shut(p)
    <3>1. DiskOK' /\ FilesInv' /\ faults < MaxFaults /\ faults' = faults + 1
      BY <1>0, <1>2, <2>3, <2>5, EntryFailed
    <3> QED BY <1>0, <2>5, <3>1, Closes
  <2> QED BY <1>7, <2>4, <2>5
<1>8. CASE Shut(p) /\ UNCHANGED <<disk, faults>>
  <2>1. DiskOK' BY <1>0, <1>8 DEF StoreInv, DiskOK, Lines
  <2>2. FilesInv' BY <1>0, <1>8, FilesStay DEF StoreInv
  <2> QED BY <1>0, <1>8, <2>1, <2>2, Closes
<1>9. CASE /\ behind = {}
           /\ store' = [store EXCEPT ![p].phase = "opened"]
           /\ UNCHANGED <<disk, lease, queue, current, told, faults>>
  <2>1. DiskOK' /\ CallersOK' BY <1>0, <1>9 DEF StoreInv, DiskOK, CallersOK, Lines
  <2>2. CountsOK' BY <1>0, <1>9, NoFault DEF StoreInv
  <2>3. FilesInv' BY <1>0, <1>9, FilesStay DEF StoreInv
  <2>4. /\ StoresOK' /\ store'[p] = [store[p] EXCEPT !.phase = "opened"]
        /\ \A q \in Procs : q # p => store'[q] = store[q]
    BY <1>9 DEF StoreInv, StoresOK, Store, Phases
  <2>5. store[p] \in Store BY DEF StoreInv, StoresOK
  <2>6. /\ store'[p].phase = "opened" /\ store'[p].memory = store[p].memory
        /\ store'[p].last = store[p].last /\ store'[p].fresh = store[p].fresh
    BY <2>4, <2>5 DEF Store
  <2>7. Settled(p)'
    <3>1. Recovered(p) /\ AtWork(p) BY DEF StoreInv, Settled
    <3>2. Recovered(p)' BY <1>0, <1>9, <2>6, <3>1 DEF Recovered, Log, Lines
    <3>3. AtWork(p)' BY <1>0, <1>9, <2>6, <3>1 DEF AtWork, Serving
    <3>4. \A g \in Chains : Lines(g) = Projection(Log, g) BY <1>0, <1>9, ExpectedIs
    <3>5. Materialized(p)' BY <1>9, <2>6, <3>4 DEF Materialized, Lines, Log
    <3>6. Synced(p)' BY <2>6 DEF Synced
    <3> QED BY <3>2, <3>3, <3>5, <3>6 DEF Settled
  <2>8. ASSUME NEW q \in Procs PROVE Settled(q)' BY <1>0, <1>9, <2>4, <2>7, Others
  <2> QED BY <2>1, <2>2, <2>3, <2>4, <2>8 DEF StoreInv
<1> QED BY <1>1, <1>6, <1>7, <1>8, <1>9

LEMMA VerifyStep == ASSUME StoreInv, NEW p \in Procs, Verify(p), WriterInv' PROVE StoreInv'
<1>0. Up(p) /\ store[p].phase = "opened"
      /\ UNCHANGED <<disk, arrived, checkpoint, checkpoints, starts, faults, losses>>
  BY DEF Verify, Up
<1>1. DiskOK' BY <1>0 DEF StoreInv, DiskOK, Lines
<1>2. FilesInv' BY <1>0, FilesStay DEF StoreInv
<1>3. CASE store' = [store EXCEPT ![p].phase = "verified"] /\ UNCHANGED <<lease, queue, current, told>>
  <2>1. CallersOK' BY <1>0, <1>3 DEF StoreInv, CallersOK
  <2>2. CountsOK' BY <1>0, <1>3, NoFault DEF StoreInv
  <2>4. /\ StoresOK' /\ store'[p] = [store[p] EXCEPT !.phase = "verified"]
        /\ \A q \in Procs : q # p => store'[q] = store[q]
    BY <1>3 DEF StoreInv, StoresOK, Store, Phases
  <2>5. store[p] \in Store BY DEF StoreInv, StoresOK
  <2>6. /\ store'[p].phase = "verified" /\ store'[p].memory = store[p].memory
        /\ store'[p].last = store[p].last /\ store'[p].fresh = store[p].fresh
    BY <2>4, <2>5 DEF Store
  <2>7. Settled(p)'
    <3>1. Recovered(p) /\ AtWork(p) /\ Materialized(p) BY DEF StoreInv, Settled
    <3>2. Recovered(p)' BY <1>0, <2>6, <3>1 DEF Recovered, Log, Lines
    <3>3. AtWork(p)' BY <1>0, <1>3, <2>6, <3>1 DEF AtWork, Serving
    <3>4. Materialized(p)' BY <1>0, <2>6, <3>1 DEF Materialized, Lines, Log
    <3>5. Synced(p)' BY <2>6 DEF Synced
    <3> QED BY <3>2, <3>3, <3>4, <3>5 DEF Settled
  <2>8. ASSUME NEW q \in Procs PROVE Settled(q)' BY <1>0, <1>3, <2>4, <2>7, Others
  <2> QED BY <1>1, <1>2, <2>1, <2>2, <2>4, <2>8 DEF StoreInv
<1>4. CASE Shut(p) BY <1>0, <1>1, <1>2, <1>4, Closes
<1> QED BY <1>3, <1>4 DEF Verify

\* A line lands in the log, or fails to.
LEMMA LineAppended ==
    ASSUME StoreInv, NEW x \in Line, x.kind # "torn", Whole(Log), Appended("wal", x),
           x.kind = "genesis" <=> Log = <<>>, \A i \in DOMAIN Log : Log[i].ts <= x.ts,
           UNCHANGED <<checkpoint, losses>>
    PROVE  /\ DiskOK' /\ FilesInv' /\ faults' = faults /\ Log' = Append(Log, x)
           /\ Len(Log') = disk'["wal"].synced /\ Whole(Log') /\ Log' # <<>>
           /\ \A i \in DOMAIN Log' : Log'[i].ts <= x.ts
           /\ \A f \in Chains : disk'[f] = disk[f]
<1>1. /\ DiskOK' /\ OnlyFile("wal", Append(Log, x)) /\ faults' = faults
      /\ disk'["wal"].synced = Len(disk'["wal"].lines)
  BY LogIs, AppendedIs DEF StoreInv, Log
<1>2. FilesInv' BY <1>1, LogGrows DEF StoreInv
<1>3. Log' = Append(Log, x) /\ Len(Log') = disk'["wal"].synced BY <1>1 DEF Log, Lines, OnlyFile
<1>4. Whole(Log')
  <2>1. Whole(Append(Log, x)) BY LogIs, WholeAppend
  <2> QED BY <1>3, <2>1
<1>5. Log' # <<>> /\ \A i \in DOMAIN Log' : Log'[i].ts <= x.ts
  <2>1. x.ts \in 0..MaxTime BY DEF Line
  <2>2. Log \in Seq(Line) BY LogIs
  <2> DEFINE s == Log
             a == Append(s, x)
  <2> HIDE DEF s
  <2>3. /\ DOMAIN a = 1..Len(s) + 1 /\ Len(s) \in Nat /\ a[Len(s) + 1] = x /\ a # <<>>
        /\ DOMAIN s = 1..Len(s) /\ \A i \in 1..Len(s) : a[i] = s[i]
    BY <2>2 DEF s
  <2> HIDE DEF a
  <2>4. \A i \in DOMAIN a : a[i].ts <= x.ts BY <2>1, <2>3 DEF s
  <2> QED BY <1>3, <2>3, <2>4 DEF a, s
<1>6. \A f \in Chains : disk'[f] = disk[f] BY <1>1, FilesAre DEF OnlyFile
<1> QED BY <1>1, <1>2, <1>3, <1>4, <1>5, <1>6

LEMMA LineFailed ==
    ASSUME StoreInv, NEW x \in Line, x.kind # "torn", Whole(Log), AppendFailed("wal", x),
           x.kind = "genesis" <=> Log = <<>>, \A i \in DOMAIN Log : Log[i].ts <= x.ts,
           UNCHANGED <<checkpoint, losses>>
    PROVE  DiskOK' /\ FilesInv' /\ faults < MaxFaults /\ faults' = faults + 1
<1>1. /\ DiskOK' /\ faults < MaxFaults /\ faults' = faults + 1 /\ disk'["wal"].synced = disk["wal"].synced
      /\ \/ OnlyFile("wal", Log)
         \/ OnlyFile("wal", Append(Log, Torn))
         \/ OnlyFile("wal", Append(Log, x))
  BY LogIs, FailedIs DEF StoreInv, Log
<1>2. CASE OnlyFile("wal", Log)
  <2>1. /\ disk' \in [Files -> [lines : Seq(Line), synced : Nat]]
        /\ disk \in [Files -> [lines : Seq(Line), synced : Nat]]
    BY <1>1 DEF StoreInv, DiskOK
  <2>2. disk'["wal"] = disk["wal"]
    <3>1. disk'["wal"].lines = disk["wal"].lines BY <1>2 DEF OnlyFile, Lines, Log
    <3>2. /\ disk'["wal"] \in [lines : Seq(Line), synced : Nat]
          /\ disk["wal"] \in [lines : Seq(Line), synced : Nat]
      BY <2>1, LogIs
    <3> QED BY <1>1, <3>1, <3>2
  <2>3. disk' = disk BY <1>2, <2>1, <2>2 DEF OnlyFile
  <2> QED BY <1>1, <2>3, FilesStay DEF StoreInv
<1>3. CASE OnlyFile("wal", Append(Log, Torn)) BY <1>1, <1>3, TornIsALine, LogGrows DEF StoreInv
<1>4. CASE OnlyFile("wal", Append(Log, x)) BY <1>1, <1>4, LogGrows DEF StoreInv
<1> QED BY <1>1, <1>2, <1>3, <1>4

LEMMA HeaderIs ==
    ASSUME StoreInv, NEW p \in Procs, NEW now \in 0..MaxTime
    PROVE  LET header == IF store[p].fresh THEN Header("genesis", store[p].last) ELSE Header("run", now)
           IN  /\ header \in Line /\ header.kind = (IF store[p].fresh THEN "genesis" ELSE "run")
               /\ header.ts = (IF store[p].fresh THEN store[p].last ELSE now)
               /\ \A requests : ~Taken(header, requests)
<1>1. store[p].last \in 0..MaxTime BY DEF StoreInv, StoresOK, Store
<1> QED BY <1>1 DEF Header, Line, Taken

LEMMA BeginRunStep == ASSUME StoreInv, NEW p \in Procs, BeginRun(p), WriterInv' PROVE StoreInv'
<1>0. Up(p) /\ store[p].phase = "verified" /\ UNCHANGED <<arrived, checkpoint, checkpoints, starts, losses>>
  BY Zenon DEF BeginRun, Up
<1>1. PICK now \in 0..MaxTime :
        LET header == IF store[p].fresh THEN Header("genesis", store[p].last) ELSE Header("run", now)
        IN  \/ /\ store[p].fresh \/ now >= store[p].last
               /\ Appended("wal", header)
               /\ store' = [store EXCEPT ![p].fresh = FALSE,
                                         ![p].last = header.ts,
                                         ![p].phase = IF store[p].fresh THEN "verified" ELSE "running"]
               /\ UNCHANGED <<lease, queue, current, told>>
            \/ /\ store[p].fresh \/ now >= store[p].last
               /\ AppendFailed("wal", header)
               /\ Shut(p)
            \/ /\ ~store[p].fresh /\ now < store[p].last
               /\ Shut(p)
               /\ UNCHANGED <<disk, faults>>
  BY Zenon DEF BeginRun
<1> DEFINE header == IF store[p].fresh THEN Header("genesis", store[p].last) ELSE Header("run", now)
<1>2. /\ header \in Line /\ header.kind = (IF store[p].fresh THEN "genesis" ELSE "run")
      /\ header.ts = (IF store[p].fresh THEN store[p].last ELSE now)
      /\ \A requests : ~Taken(header, requests)
  BY HeaderIs
<1>3. \/ /\ store[p].fresh \/ now >= store[p].last
         /\ Appended("wal", header)
         /\ store' = [store EXCEPT ![p].fresh = FALSE,
                                   ![p].last = header.ts,
                                   ![p].phase = IF store[p].fresh THEN "verified" ELSE "running"]
         /\ UNCHANGED <<lease, queue, current, told>>
      \/ /\ store[p].fresh \/ now >= store[p].last
         /\ AppendFailed("wal", header)
         /\ Shut(p)
      \/ /\ ~store[p].fresh /\ now < store[p].last
         /\ Shut(p)
         /\ UNCHANGED <<disk, faults>>
  BY <1>1, Zenon
<1> HIDE DEF header
<1>4. /\ Whole(Log) /\ (store[p].fresh <=> Log = <<>>) /\ store[p].memory = Replay(Log)
      /\ \A i \in DOMAIN Log : Log[i].ts <= store[p].last
      /\ \A f \in Chains : Lines(f) = Projection(Log, f)
  BY <1>0 DEF StoreInv, Settled, Recovered, Materialized
<1>5. store[p] \in Store /\ store[p].last \in 0..MaxTime /\ store[p].fresh \in BOOLEAN
  BY DEF StoreInv, StoresOK, Store
<1>6. /\ header.kind # "torn" /\ (header.kind = "genesis" <=> Log = <<>>)
  BY <1>2, <1>4
<1>7. ASSUME store[p].fresh \/ now >= store[p].last
      PROVE  store[p].last <= header.ts /\ \A i \in DOMAIN Log : Log[i].ts <= header.ts
  <2>1. store[p].last <= header.ts /\ header.ts \in 0..MaxTime BY <1>2, <1>5, <1>7
  <2>2. ASSUME NEW i \in DOMAIN Log PROVE Log[i].ts <= header.ts
    <3>1. Log[i] \in Line BY LogIs
    <3>2. Log[i].ts \in 0..MaxTime /\ Log[i].ts <= store[p].last BY <1>4, <3>1 DEF Line
    <3> QED BY <1>5, <2>1, <3>2
  <2> QED BY <2>1, <2>2
<1>8. CASE /\ store[p].fresh \/ now >= store[p].last
           /\ Appended("wal", header)
           /\ store' = [store EXCEPT ![p].fresh = FALSE,
                                     ![p].last = header.ts,
                                     ![p].phase = IF store[p].fresh THEN "verified" ELSE "running"]
           /\ UNCHANGED <<lease, queue, current, told>>
  <2> DEFINE s == [store[p] EXCEPT !.fresh = FALSE, !.last = header.ts,
                                   !.phase = IF store[p].fresh THEN "verified" ELSE "running"]
  <2>1. /\ DiskOK' /\ FilesInv' /\ faults' = faults /\ Log' = Append(Log, header)
        /\ Len(Log') = disk'["wal"].synced /\ Whole(Log') /\ Log' # <<>>
        /\ \A i \in DOMAIN Log' : Log'[i].ts <= header.ts
        /\ \A f \in Chains : disk'[f] = disk[f]
    BY <1>0, <1>2, <1>4, <1>6, <1>7, <1>8, LineAppended
  <2>2. /\ s \in Store /\ s.fresh = FALSE /\ s.last = header.ts /\ s.memory = store[p].memory
        /\ s.phase = (IF store[p].fresh THEN "verified" ELSE "running")
    BY <1>2, <1>5 DEF Store, Phases
  <2>3. store' = [store EXCEPT ![p] = s] BY <1>8 DEF StoreInv, StoresOK
  <2> HIDE DEF s
  <2>4. StoresOK' /\ store'[p] = s /\ \A q \in Procs : q # p => store'[q] = store[q]
    BY <2>2, <2>3 DEF StoreInv, StoresOK
  <2>5. CallersOK' BY <1>0, <1>8 DEF StoreInv, CallersOK
  <2>6. CountsOK' BY <1>0, <1>8, <2>1, NoFault DEF StoreInv
  <2>7. current[p] = Idle /\ current'[p] = Idle BY <1>0, <1>8 DEF StoreInv, Settled, AtWork, Serving
  <2>8. Replay(Log') = Replay(Log) /\ \A f \in Chains : Projection(Log', f) = Projection(Log, f)
    <3>1. Replay(Append(Log, header)) = Replay(Log) BY <1>2, LogIs, LoggedAppend DEF Replay
    <3>2. \A f \in Chains : Projection(Append(Log, header), f) = Projection(Log, f)
      BY <1>2, LogIs, ProjectionAppend
    <3> QED BY <2>1, <3>1, <3>2
  <2>9. Settled(p)'
    <3>1. Recovered(p)' BY <1>4, <2>1, <2>2, <2>4, <2>8 DEF Recovered
    <3>2. Synced(p)' BY <2>1, <2>2, <2>4 DEF Synced
    <3>3. Materialized(p)'
      <4>1. \A f \in Chains : Lines(f)' = Projection(Log', f) BY <1>4, <2>1, <2>8 DEF Lines
      <4> QED BY <2>4, <2>7, <4>1, DownIs DEF Materialized
    <3>4. AtWork(p)' BY <2>2, <2>4, <2>7, DownIs DEF AtWork, Serving
    <3> QED BY <3>1, <3>2, <3>3, <3>4 DEF Settled
  <2>10. ASSUME NEW q \in Procs PROVE Settled(q)' BY <1>0, <1>8, <2>4, <2>9, Others
  <2> QED BY <2>1, <2>4, <2>5, <2>6, <2>10 DEF StoreInv
<1>9. CASE /\ store[p].fresh \/ now >= store[p].last
           /\ AppendFailed("wal", header)
           /\ Shut(p)
  <2>1. DiskOK' /\ FilesInv' /\ faults < MaxFaults /\ faults' = faults + 1
    BY <1>0, <1>2, <1>4, <1>6, <1>7, <1>9, LineFailed
  <2> QED BY <1>0, <1>9, <2>1, Closes
<1>10. CASE Shut(p) /\ UNCHANGED <<disk, faults>>
  <2>1. DiskOK' BY <1>0, <1>10 DEF StoreInv, DiskOK, Lines
  <2>2. FilesInv' BY <1>0, <1>10, FilesStay DEF StoreInv
  <2> QED BY <1>0, <1>10, <2>1, <2>2, Closes
<1> QED BY <1>3, <1>8, <1>9, <1>10

\* Steps of the callers, which no file and no store is touched by.
LEMMA Queueing ==
    ASSUME StoreInv, UNCHANGED <<disk, lease, store, current, checkpoint, checkpoints, starts, faults, losses>>,
           CallersOK', WriterInv'
    PROVE  StoreInv'
<1>1. DiskOK' /\ StoresOK' BY DEF StoreInv, DiskOK, StoresOK, Lines
<1>2. CountsOK' BY NoFault DEF StoreInv
<1>3. FilesInv' BY FilesStay DEF StoreInv
<1>4. \A q \in Procs : Settled(q)'
  BY DEF StoreInv, Settled, Recovered, Synced, Materialized, AtWork, Serving, Log, Lines
<1> QED BY <1>1, <1>2, <1>3, <1>4 DEF StoreInv

LEMMA RequestsAre == Cardinality(Requests) \in Nat /\ Requests = 1..Cardinality(Requests)
BY WalAssumption, FS_CardinalityType

LEMMA ArriveStep == ASSUME StoreInv, NEW p \in Procs, Arrive(p), WriterInv' PROVE StoreInv'
<1>1. /\ arrived < Cardinality(Requests) /\ arrived' = arrived + 1
      /\ queue' = [queue EXCEPT ![p] = Append(@, arrived + 1)]
      /\ UNCHANGED <<disk, lease, store, current, told, checkpoint, checkpoints, starts, faults, losses>>
  BY DEF Arrive
<1>2. arrived + 1 \in Requests /\ arrived' \in 0..Cardinality(Requests)
  BY <1>1, RequestsAre DEF StoreInv, CallersOK
<1>3. queue' \in [Procs -> Seq(Requests)]
  <2>1. Append(queue[p], arrived + 1) \in Seq(Requests) BY <1>2 DEF StoreInv, CallersOK
  <2> QED BY <1>1, <2>1 DEF StoreInv, CallersOK
<1>4. CallersOK' BY <1>1, <1>2, <1>3 DEF StoreInv, CallersOK
<1> QED BY <1>1, <1>4, Queueing

LEMMA TailOfQueue ==
    ASSUME CallersOK, NEW p \in Procs, queue[p] # <<>>
    PROVE  Head(queue[p]) \in Requests /\ Tail(queue[p]) \in Seq(Requests)
BY DEF CallersOK

LEMMA TransactStep == ASSUME StoreInv, NEW p \in Procs, Transact(p), WriterInv' PROVE StoreInv'
<1>0. /\ Up(p) /\ Serving(p) /\ queue[p] # <<>> /\ current[p] = Idle
      /\ UNCHANGED <<lease, arrived, checkpoint, checkpoints, starts, losses>>
  BY DEF Transact, Up, Serving
<1> DEFINE r == Head(queue[p])
<1>1. PICK now \in 0..MaxTime :
        \/ TellHead(p, "unlogged")
        \/ /\ Writable(p)
           /\ now >= store[p].last
           /\ queue' = [queue EXCEPT ![p] = Tail(@)]
           /\ \/ /\ Appended("wal", Transaction(r, now))
                 /\ store' = [store EXCEPT ![p].memory = Append(@, Transaction(r, now)), ![p].last = now]
                 /\ current' = [current EXCEPT ![p] =
                                  [request |-> r, stage |-> "projecting", todo |-> Entries[r]]]
              \/ /\ AppendFailed("wal", Transaction(r, now))
                 /\ store' = [store EXCEPT ![p].phase = "poisoned"]
                 /\ current' = [current EXCEPT ![p] =
                                  [request |-> r, stage |-> "failed", todo |-> {}]]
           /\ UNCHANGED told
  BY DEF Transact
<1> DEFINE line == Transaction(r, now)
<1>2. r \in Requests /\ Tail(queue[p]) \in Seq(Requests) BY <1>0, TailOfQueue DEF StoreInv
<1>3. line \in Line /\ line.kind = "transaction" /\ line.ts = now /\ line.request = r
  BY <1>2 DEF Transaction, Line
<1>4. Entries[r] \in SUBSET Chains BY <1>2, WalAssumption
<1> HIDE DEF r, line
<1>5. ASSUME queue' = [queue EXCEPT ![p] = Tail(@)] PROVE queue' \in [Procs -> Seq(Requests)]
  BY <1>2, <1>5 DEF StoreInv, CallersOK
<1>6. CASE TellHead(p, "unlogged")
  <2>1. /\ told' = [told EXCEPT ![r] = "unlogged"] /\ queue' = [queue EXCEPT ![p] = Tail(@)]
        /\ UNCHANGED <<disk, store, current, faults>>
    BY <1>6 DEF TellHead, r
  <2>2. CallersOK' BY <1>0, <1>5, <2>1 DEF StoreInv, CallersOK
  <2> QED BY <1>0, <2>1, <2>2, Queueing
<1>7. ASSUME Writable(p), now >= store[p].last
      PROVE  /\ store[p].phase = "running" /\ Whole(Log) /\ Log # <<>> /\ store[p].memory = Replay(Log)
             /\ ~store[p].fresh /\ (line.kind = "genesis" <=> Log = <<>>) /\ line.kind # "torn"
             /\ \A i \in DOMAIN Log : Log[i].ts <= line.ts
             /\ \A f \in Chains : Lines(f) = Projection(Log, f)
  <2>1. store[p].phase = "running" BY <1>7 DEF Writable
  <2>2. /\ Whole(Log) /\ (store[p].fresh <=> Log = <<>>) /\ ~store[p].fresh /\ store[p].memory = Replay(Log)
        /\ \A i \in DOMAIN Log : Log[i].ts <= store[p].last
    BY <2>1 DEF StoreInv, Settled, Recovered, Synced
  <2>3. \A f \in Chains : Lines(f) = Projection(Log, f)
    BY <1>0, <2>1, DownIs DEF StoreInv, Settled, Materialized
  <2>4. store[p].last \in 0..MaxTime BY DEF StoreInv, StoresOK, Store
  <2>5. ASSUME NEW i \in DOMAIN Log PROVE Log[i].ts <= line.ts
    <3>1. Log[i] \in Line BY LogIs
    <3>2. Log[i].ts \in 0..MaxTime /\ Log[i].ts <= store[p].last BY <2>2, <3>1 DEF Line
    <3> QED BY <1>3, <1>7, <2>4, <3>2
  <2> QED BY <1>3, <2>1, <2>2, <2>3, <2>5
<1>8. CASE /\ Writable(p)
           /\ now >= store[p].last
           /\ queue' = [queue EXCEPT ![p] = Tail(@)]
           /\ Appended("wal", line)
           /\ store' = [store EXCEPT ![p].memory = Append(@, line), ![p].last = now]
           /\ current' = [current EXCEPT ![p] =
                            [request |-> r, stage |-> "projecting", todo |-> Entries[r]]]
           /\ UNCHANGED told
  <2> DEFINE s == [store[p] EXCEPT !.memory = Append(store[p].memory, line), !.last = now]
             c == [request |-> r, stage |-> "projecting", todo |-> Entries[r]]
  <2>1. /\ DiskOK' /\ FilesInv' /\ faults' = faults /\ Log' = Append(Log, line)
        /\ Len(Log') = disk'["wal"].synced /\ Whole(Log') /\ Log' # <<>>
        /\ \A i \in DOMAIN Log' : Log'[i].ts <= line.ts
        /\ \A f \in Chains : disk'[f] = disk[f]
    BY <1>0, <1>3, <1>7, <1>8, LineAppended
  <2>2. store[p] \in Store BY DEF StoreInv, StoresOK
  <2>3. Append(store[p].memory, line) \in Seq(Line) BY <1>3, <2>2 DEF Store
  <2>4. /\ s \in Store /\ s.memory = Append(store[p].memory, line) /\ s.last = now
        /\ s.fresh = store[p].fresh /\ s.phase = store[p].phase
    BY <2>2, <2>3 DEF Store
  <2>5. store' = [store EXCEPT ![p] = s] BY <1>8 DEF StoreInv, StoresOK
  <2>6. c \in Transacting /\ c.stage = "projecting" /\ c.todo = Entries[r] /\ c.request = r
    BY <1>2, <1>4 DEF Transacting
  <2>7. current' = [current EXCEPT ![p] = c] BY <1>8
  <2> HIDE DEF s, c
  <2>8. StoresOK' /\ store'[p] = s /\ \A q \in Procs : q # p => store'[q] = store[q]
    BY <2>4, <2>5 DEF StoreInv, StoresOK
  <2>9. current'[p] = c /\ \A q \in Procs : q # p => current'[q] = current[q]
    BY <2>7 DEF StoreInv, CallersOK
  <2>10. CallersOK' BY <1>0, <1>5, <1>8, <2>6, <2>7 DEF StoreInv, CallersOK
  <2>11. CountsOK' BY <1>0, <1>8, <2>1, NoFault DEF StoreInv
  <2>12. Replay(Log') = Append(Replay(Log), line)
    <3>1. Taken(line, Requests) BY <1>2, <1>3 DEF Taken
    <3>2. Replay(Append(Log, line)) = Append(Replay(Log), line) BY <1>3, <3>1, LogIs, LoggedAppend DEF Replay
    <3> QED BY <2>1, <3>2
  <2>13. ASSUME NEW f \in Chains
         PROVE  Projection(Log', f) = IF f \in Entries[r] THEN Append(Projection(Log, f), Entry(r))
                                      ELSE Projection(Log, f)
    <3>1. Taken(line, Touching[f]) <=> f \in Entries[r] BY <1>2, <1>3 DEF Taken, Touching
    <3>2. Projection(Append(Log, line), f) =
            IF Taken(line, Touching[f]) THEN Append(Projection(Log, f), Entry(line.request)) ELSE Projection(Log, f)
      BY <1>3, LogIs, ProjectionAppend
    <3> QED BY <1>3, <2>1, <3>1, <3>2
  <2>14. Settled(p)'
    <3>1. Recovered(p)' BY <1>3, <1>7, <1>8, <2>1, <2>4, <2>8, <2>12 DEF Recovered
    <3>2. Synced(p)' BY <1>7, <1>8, <2>1, <2>4, <2>8 DEF Synced
    <3>3. Materialized(p)'
      <4>1. ASSUME NEW f \in Chains PROVE Lines(f)' = Projection(Log, f)
        BY <1>7, <1>8, <2>1 DEF Lines
      <4>2. store'[p].phase = "running" BY <1>7, <1>8, <2>4, <2>8
      <4> QED BY <2>6, <2>9, <2>13, <4>1, <4>2 DEF Materialized
    <3>4. AtWork(p)' BY <1>7, <1>8, <2>4, <2>6, <2>8, <2>9 DEF AtWork, Serving
    <3> QED BY <3>1, <3>2, <3>3, <3>4 DEF Settled
  <2>15. ASSUME NEW q \in Procs PROVE Settled(q)' BY <1>0, <2>8, <2>9, <2>14, Others
  <2> QED BY <2>1, <2>8, <2>10, <2>11, <2>15 DEF StoreInv
<1>9. CASE /\ Writable(p)
           /\ now >= store[p].last
           /\ queue' = [queue EXCEPT ![p] = Tail(@)]
           /\ AppendFailed("wal", line)
           /\ store' = [store EXCEPT ![p].phase = "poisoned"]
           /\ current' = [current EXCEPT ![p] = [request |-> r, stage |-> "failed", todo |-> {}]]
           /\ UNCHANGED told
  <2>1. DiskOK' /\ FilesInv' /\ faults < MaxFaults /\ faults' = faults + 1
    BY <1>0, <1>3, <1>7, <1>9, LineFailed
  <2> DEFINE c == [request |-> r, stage |-> "failed", todo |-> {}]
  <2>2. c \in Transacting /\ c.stage = "failed" BY <1>2 DEF Transacting
  <2>3. current' = [current EXCEPT ![p] = c] BY <1>9
  <2> HIDE DEF c
  <2>4. /\ StoresOK' /\ store'[p].phase = "poisoned"
        /\ \A q \in Procs : q # p => store'[q] = store[q]
    BY <1>9 DEF StoreInv, StoresOK, Store, Phases
  <2>5. current'[p] = c /\ \A q \in Procs : q # p => current'[q] = current[q]
    BY <2>3 DEF StoreInv, CallersOK
  <2>6. CallersOK' BY <1>0, <1>5, <1>9, <2>2, <2>3 DEF StoreInv, CallersOK
  <2>7. CountsOK' BY <1>0, <2>1, OneFault DEF StoreInv
  <2>8. Settled(p)' BY <2>2, <2>4, <2>5 DEF Settled, Recovered, Synced, Materialized, AtWork, Serving
  <2>9. ASSUME NEW q \in Procs PROVE Settled(q)' BY <1>0, <2>4, <2>5, <2>8, Others
  <2> QED BY <2>1, <2>4, <2>6, <2>7, <2>9 DEF StoreInv
<1> QED BY <1>1, <1>6, <1>8, <1>9 DEF line

LEMMA ProjectStep == ASSUME StoreInv, NEW p \in Procs, Project(p), WriterInv' PROVE StoreInv'
<1> DEFINE r == current[p].request
<1>0. /\ Up(p) /\ Serving(p) /\ current[p].stage = "projecting"
      /\ UNCHANGED <<lease, queue, told, arrived, checkpoint, checkpoints, starts, losses>>
  BY DEF Project, Up, Serving
<1>1. PICK f \in current[p].todo :
        \/ /\ Appended(f, Entry(r))
           /\ current' = [current EXCEPT ![p].todo = @ \ {f}]
           /\ UNCHANGED store
        \/ /\ AppendFailed(f, Entry(r))
           /\ current' = [current EXCEPT ![p].stage = "failed"]
           /\ store' = [store EXCEPT ![p].phase = "poisoned"]
  BY DEF Project
<1>2. current[p] \in Transacting BY DEF StoreInv, CallersOK
<1>3. f \in Chains /\ r \in Requests \cup {NoRequest} BY <1>1, <1>2 DEF Transacting
<1>4. store[p].phase = "running" BY <1>0 DEF StoreInv, Settled, AtWork, Serving
<1>5. /\ Recovered(p) /\ Synced(p)
      /\ \A g \in Chains : IF g \in current[p].todo THEN Append(Lines(g), Entry(r)) = Projection(Log, g)
                           ELSE Lines(g) = Projection(Log, g)
  BY <1>4 DEF StoreInv, Settled, Materialized
<1>6. Entry(r) \in Line
  <2>1. 0 \in 0..MaxTime BY WalAssumption
  <2> QED BY <1>3, <2>1 DEF Entry, Line
<1>7. IsPrefix(Append(Lines(f), Entry(r)), Projection(Log, f))
  <2>1. Projection(Log, f) \in Seq(Line) BY <1>3, LogIs, ProjectionType
  <2> QED BY <1>1, <1>3, <1>5, <2>1, PrefixSame
<1>8. CASE /\ Appended(f, Entry(r))
           /\ current' = [current EXCEPT ![p].todo = @ \ {f}]
           /\ UNCHANGED store
  <2>1. /\ DiskOK' /\ FilesInv' /\ OnlyFile(f, Append(Lines(f), Entry(r))) /\ disk'["wal"] = disk["wal"]
        /\ faults' = faults
    BY <1>0, <1>3, <1>6, <1>7, <1>8, EntryAppended
  <2> DEFINE c == [current[p] EXCEPT !.todo = current[p].todo \ {f}]
  <2>2. /\ c \in Transacting /\ c.todo = current[p].todo \ {f} /\ c.stage = current[p].stage
        /\ c.request = r
    BY <1>2 DEF Transacting
  <2>3. current' = [current EXCEPT ![p] = c] BY <1>8 DEF StoreInv, CallersOK
  <2> HIDE DEF c
  <2>4. current'[p] = c /\ \A q \in Procs : q # p => current'[q] = current[q]
    BY <2>3 DEF StoreInv, CallersOK
  <2>5. CallersOK' /\ StoresOK' BY <1>0, <1>8, <2>2, <2>3 DEF StoreInv, CallersOK, StoresOK
  <2>6. CountsOK' BY <1>0, <2>1, NoFault DEF StoreInv
  <2>7. Settled(p)'
    <3>1. Recovered(p)' /\ Synced(p)' BY <1>5, <1>8, <2>1 DEF Recovered, Synced, Log, Lines
    <3>2. Materialized(p)'
      <4> SUFFICES ASSUME NEW g \in Chains
                   PROVE  IF g \in c.todo THEN Append(disk'[g].lines, Entry(r)) = Projection(Log, g)
                          ELSE disk'[g].lines = Projection(Log, g)
        BY <1>4, <1>8, <2>1, <2>2, <2>4 DEF Materialized, Lines, Log
      <4>1. CASE g = f BY <1>1, <1>3, <1>5, <2>1, <2>2, <4>1 DEF OnlyFile
      <4>2. CASE g # f
        <5>1. disk'[g].lines = Lines(g) BY <2>1, <4>2, FilesAre DEF OnlyFile, Lines
        <5> QED BY <1>5, <2>2, <4>2, <5>1
      <4> QED BY <4>1, <4>2
    <3>3. AtWork(p)' BY <1>0, <1>4, <1>8, <2>2, <2>4 DEF AtWork, Serving
    <3> QED BY <3>1, <3>2, <3>3 DEF Settled
  <2>8. ASSUME NEW q \in Procs PROVE Settled(q)' BY <1>0, <1>8, <2>4, <2>7, Others
  <2> QED BY <2>1, <2>5, <2>6, <2>8 DEF StoreInv
<1>9. CASE /\ AppendFailed(f, Entry(r))
           /\ current' = [current EXCEPT ![p].stage = "failed"]
           /\ store' = [store EXCEPT ![p].phase = "poisoned"]
  <2>1. DiskOK' /\ FilesInv' /\ faults < MaxFaults /\ faults' = faults + 1
    BY <1>0, <1>3, <1>6, <1>7, <1>9, EntryFailed
  <2>2. /\ CallersOK' /\ current'[p].stage = "failed"
        /\ \A q \in Procs : q # p => current'[q] = current[q]
    BY <1>0, <1>9 DEF StoreInv, CallersOK, Transacting
  <2>3. /\ StoresOK' /\ store'[p].phase = "poisoned"
        /\ \A q \in Procs : q # p => store'[q] = store[q]
    BY <1>9 DEF StoreInv, StoresOK, Store, Phases
  <2>4. CountsOK' BY <1>0, <2>1, OneFault DEF StoreInv
  <2>5. Settled(p)' BY <2>2, <2>3 DEF Settled, Recovered, Synced, Materialized, AtWork, Serving
  <2>6. ASSUME NEW q \in Procs PROVE Settled(q)' BY <1>0, <2>2, <2>3, <2>5, Others
  <2> QED BY <2>1, <2>2, <2>3, <2>4, <2>6 DEF StoreInv
<1> QED BY <1>1, <1>8, <1>9

LEMMA AnswerStep == ASSUME StoreInv, NEW p \in Procs, Answer(p), WriterInv' PROVE StoreInv'
<1> DEFINE answer == IF current[p].stage = "failed" THEN "unknown" ELSE "committed"
<1>0. /\ Up(p) /\ Serving(p) /\ (current[p].stage = "projecting" => current[p].todo = {})
      /\ told' = [told EXCEPT ![current[p].request] = answer]
      /\ current' = [current EXCEPT ![p] = Idle]
      /\ UNCHANGED <<disk, lease, store, queue, arrived, checkpoint, checkpoints, starts, faults, losses>>
  BY DEF Answer, Up, Serving
<1>1. DiskOK' /\ StoresOK' BY <1>0 DEF StoreInv, DiskOK, StoresOK, Lines
<1>2. CallersOK'
  <2>1. current' \in [Procs -> Transacting] BY <1>0, DownIs DEF StoreInv, CallersOK
  <2>2. told' \in [Requests -> {"none", "committed", "unlogged", "unknown"}]
    <3>1. answer \in {"none", "committed", "unlogged", "unknown"} OBVIOUS
    <3> HIDE DEF answer
    <3> QED BY <1>0, <3>1 DEF StoreInv, CallersOK
  <2> QED BY <1>0, <2>1, <2>2 DEF StoreInv, CallersOK
<1>3. CountsOK' BY <1>0, NoFault DEF StoreInv
<1>4. FilesInv' BY <1>0, FilesStay DEF StoreInv
<1>5. current'[p] = Idle /\ \A q \in Procs : q # p => current'[q] = current[q]
  BY <1>0 DEF StoreInv, CallersOK
<1>6. Settled(p)'
  <2>1. Recovered(p)' /\ Synced(p)' BY <1>0 DEF StoreInv, Settled, Recovered, Synced, Log, Lines
  <2>2. store[p].phase = "running" => current[p].todo = {}
    BY <1>0 DEF StoreInv, Settled, AtWork
  <2>3. Materialized(p)'
    BY <1>0, <1>5, <2>2, DownIs DEF StoreInv, Settled, Materialized, Serving, Log, Lines
  <2>4. AtWork(p)' BY <1>0, <1>5, DownIs DEF AtWork, Serving
  <2> QED BY <2>1, <2>3, <2>4 DEF Settled
<1>7. ASSUME NEW q \in Procs PROVE Settled(q)' BY <1>0, <1>5, <1>6, Others
<1> QED BY <1>1, <1>2, <1>3, <1>4, <1>7 DEF StoreInv

LEMMA CloseStep == ASSUME StoreInv, NEW p \in Procs, Close(p), WriterInv' PROVE StoreInv'
<1>1. /\ Up(p) /\ Shut(p)
      /\ UNCHANGED <<disk, arrived, checkpoint, checkpoints, starts, faults, losses>>
  BY DEF Close, Up, Serving
<1>2. DiskOK' BY <1>1 DEF StoreInv, DiskOK, Lines
<1>3. FilesInv' BY <1>1, FilesStay DEF StoreInv
<1> QED BY <1>1, <1>2, <1>3, Closes

LEMMA CrashStep == ASSUME StoreInv, NEW p \in Procs, Crash(p), WriterInv' PROVE StoreInv'
<1>1. /\ Up(p) /\ faults < MaxFaults /\ faults' = faults + 1
      /\ store' = [store EXCEPT ![p] = Down]
      /\ queue' = [queue EXCEPT ![p] = <<>>]
      /\ current' = [current EXCEPT ![p] = Idle]
      /\ told' = [r \in Requests |-> IF r \in Waiting(p) THEN "unknown" ELSE told[r]]
      /\ UNCHANGED <<disk, lease, arrived, checkpoint, checkpoints, starts, losses>>
  BY DEF Crash, Up
<1>2. DiskOK' BY <1>1 DEF StoreInv, DiskOK, Lines
<1>3. FilesInv' BY <1>1, FilesStay DEF StoreInv
<1>4. StoresOK' /\ store'[p] = Down /\ \A q \in Procs : q # p => store'[q] = store[q]
  BY <1>1, DownIs DEF StoreInv, StoresOK
<1>5. CallersOK'
  <2>1. queue' \in [Procs -> Seq(Requests)]
    <3>1. <<>> \in Seq(Requests) OBVIOUS
    <3> QED BY <1>1, <3>1 DEF StoreInv, CallersOK
  <2>2. current' \in [Procs -> Transacting] BY <1>1, DownIs DEF StoreInv, CallersOK
  <2>3. told' \in [Requests -> {"none", "committed", "unlogged", "unknown"}]
    BY <1>1 DEF StoreInv, CallersOK
  <2> QED BY <1>1, <2>1, <2>2, <2>3 DEF StoreInv, CallersOK
<1>6. current'[p] = Idle /\ \A q \in Procs : q # p => current'[q] = current[q]
  BY <1>1 DEF StoreInv, CallersOK
<1>7. CountsOK' BY <1>1, OneFault DEF StoreInv
<1>8. ASSUME NEW q \in Procs PROVE Settled(q)'
  <2>1. CASE q = p BY <1>4, <1>6, <2>1, DownIs, Starting
  <2>2. CASE q # p BY <1>1, <1>4, <1>6, <2>2, Others
  <2> QED BY <2>1, <2>2
<1> QED BY <1>2, <1>3, <1>4, <1>5, <1>7, <1>8 DEF StoreInv

\* What is left of each file after a power loss.
LEMMA PowerLossLeaves ==
    ASSUME StoreInv, PowerLoss
    PROVE  /\ DiskOK' /\ Readable'
           /\ \A f \in Files : disk'[f].lines \in Remains(disk[f]) /\ disk'[f].synced = Len(disk'[f].lines)
<1>1. PICK wal \in Remains(disk["wal"]), action \in Remains(disk["action"]),
           access \in Remains(disk["access"]) :
        LET left == [f \in Files |-> CASE f = "wal" -> wal [] f = "action" -> action [] OTHER -> access]
        IN  disk' = [f \in Files |-> [lines |-> left[f], synced |-> Len(left[f])]]
  BY DEF PowerLoss
<1>2. UNCHANGED checkpoint BY DEF PowerLoss
<1> DEFINE left == [f \in Files |-> CASE f = "wal" -> wal [] f = "action" -> action [] OTHER -> access]
<1>3. disk' = [f \in Files |-> [lines |-> left[f], synced |-> Len(left[f])]] BY <1>1
<1>4. \A f \in Files : left[f] \in Remains(disk[f]) BY FilesAre
<1> HIDE DEF left
<1>5. \A f \in Files : disk'[f].lines = left[f] /\ disk'[f].synced = Len(left[f]) BY <1>3
<1>6. \A f \in Files : Whole(Lines(f)) \/ TornTail(Lines(f)) BY ReadableIs DEF StoreInv, FilesInv
<1>7. ASSUME NEW f \in Files
      PROVE  /\ left[f] \in Seq(Line) /\ (Whole(left[f]) \/ TornTail(left[f]))
             /\ InOrder(Lines(f)) => InOrder(left[f])
  BY <1>4, <1>6, RemainsIs DEF StoreInv
<1>8. DiskOK'
  <2>1. \A f \in Files : Len(left[f]) \in Nat BY <1>7
  <2>2. disk' \in [Files -> [lines : Seq(Line), synced : Nat]] BY <1>3, <1>7, <2>1
  <2>3. \A f \in Files : disk'[f].synced <= Len(disk'[f].lines) BY <1>5, <2>1
  <2> QED BY <1>2, <2>2, <2>3 DEF StoreInv, DiskOK, Lines
<1>9. Readable'
  <2>1. \A f \in Files : Whole(disk'[f].lines) \/ TornTail(disk'[f].lines) BY <1>5, <1>7
  <2>2. InOrder(disk'["wal"].lines) BY <1>5, <1>7, LogIs DEF Log
  <2> QED BY <2>1, <2>2 DEF Readable, InOrder, Lines
<1> QED BY <1>4, <1>5, <1>8, <1>9

LEMMA PowerLossStep == ASSUME StoreInv, PowerLoss, WriterInv' PROVE StoreInv'
<1>1. /\ faults < MaxFaults /\ faults' = faults + 1 /\ losses' = losses + 1
      /\ store' = [p \in Procs |-> Down] /\ queue' = [p \in Procs |-> <<>>]
      /\ current' = [p \in Procs |-> Idle]
      /\ told' = [r \in Requests |-> IF \E p \in Procs : r \in Waiting(p) THEN "unknown" ELSE told[r]]
      /\ UNCHANGED <<lease, arrived, checkpoint, checkpoints, starts>>
  BY DEF PowerLoss
<1>2. DiskOK' /\ Readable' BY PowerLossLeaves
<1>3. FilesInv'
  <2>1. losses' # 0 BY <1>1 DEF StoreInv, CountsOK
  <2>2. NoFalseAlarm' BY <2>1 DEF NoFalseAlarm
  <2> QED BY <1>1, <1>2, <2>2 DEF StoreInv, FilesInv
<1>4. StoresOK' BY <1>1, DownIs DEF StoresOK
<1>5. CallersOK'
  <2>1. queue' \in [Procs -> Seq(Requests)]
    <3>1. <<>> \in Seq(Requests) OBVIOUS
    <3> QED BY <1>1, <3>1
  <2>2. current' \in [Procs -> Transacting] BY <1>1, DownIs
  <2>3. told' \in [Requests -> {"none", "committed", "unlogged", "unknown"}]
    BY <1>1 DEF StoreInv, CallersOK
  <2> QED BY <1>1, <2>1, <2>2, <2>3 DEF StoreInv, CallersOK
<1>6. CountsOK'
  <2>1. MaxFaults \in Nat BY WalAssumption
  <2> QED BY <1>1, <2>1 DEF StoreInv, CountsOK
<1>7. ASSUME NEW q \in Procs PROVE Settled(q)' BY <1>1, DownIs, Starting
<1> QED BY <1>2, <1>3, <1>4, <1>5, <1>6, <1>7 DEF StoreInv

LEMMA ClearLeaseStep == ASSUME StoreInv, ClearLease, WriterInv' PROVE StoreInv'
<1>1. /\ lease' = FALSE
      /\ UNCHANGED <<disk, store, queue, current, told, arrived, checkpoint, checkpoints, starts, faults, losses>>
  BY DEF ClearLease
<1>2. DiskOK' /\ StoresOK' /\ CallersOK' /\ CountsOK'
  BY <1>1 DEF StoreInv, DiskOK, StoresOK, CallersOK, CountsOK, Lines
<1>3. FilesInv' BY <1>1, FilesStay DEF StoreInv
<1>4. \A q \in Procs : Settled(q)'
  BY <1>1 DEF StoreInv, Settled, Recovered, Synced, Materialized, AtWork, Serving, Log, Lines
<1> QED BY <1>2, <1>3, <1>4 DEF StoreInv

LEMMA WriteCheckpointStep == ASSUME StoreInv, WriteCheckpoint, WriterInv' PROVE StoreInv'
<1>1. /\ Extends(checkpoint) /\ checkpoints < MaxCheckpoints /\ checkpoints' = checkpoints + 1
      /\ checkpoint' = [f \in Files |-> Lines(f)]
      /\ UNCHANGED <<disk, lease, store, queue, current, told, arrived, starts, faults, losses>>
  BY DEF WriteCheckpoint
<1>2. DiskOK' /\ StoresOK' /\ CallersOK'
  BY <1>1 DEF StoreInv, DiskOK, StoresOK, CallersOK, Lines
<1>3. CountsOK'
  <2>1. MaxCheckpoints \in Nat BY WalAssumption
  <2> QED BY <1>1, <2>1 DEF StoreInv, CountsOK
<1>4. FilesInv'
  <2>1. \A f \in Files : checkpoint'[f] = Lines(f) /\ Whole(Lines(f)) /\ Lines(f)' = Lines(f)
    BY <1>1 DEF Extends, ChainsVerify, Lines
  <2>2. Readable' BY <1>1 DEF StoreInv, FilesInv, Readable, Lines
  <2>3. \A f \in Files : IsPrefix(Lines(f), Lines(f))
    <3>1. \A f \in Files : Lines(f) \in Seq(Line) BY DEF StoreInv, DiskOK, Lines
    <3> QED BY <3>1, PrefixSame
  <2>4. NoFalseAlarm' BY <1>1, <2>1, <2>3 DEF StoreInv, FilesInv, NoFalseAlarm, Lines
  <2> QED BY <2>1, <2>2, <2>4 DEF FilesInv
<1>5. \A q \in Procs : Settled(q)'
  BY <1>1 DEF StoreInv, Settled, Recovered, Synced, Materialized, AtWork, Serving, Log, Lines
<1> QED BY <1>2, <1>3, <1>4, <1>5 DEF StoreInv

LEMMA StoreInit == Init => StoreInv
<1> SUFFICES ASSUME Init PROVE StoreInv OBVIOUS
<1>1. /\ disk = [f \in Files |-> [lines |-> <<>>, synced |-> 0]] /\ lease = FALSE
      /\ store = [p \in Procs |-> Down] /\ queue = [p \in Procs |-> <<>>]
      /\ current = [p \in Procs |-> Idle] /\ told = [r \in Requests |-> "none"]
      /\ arrived = 0 /\ checkpoint = [f \in Files |-> <<>>] /\ checkpoints = 0 /\ starts = 0
      /\ faults = 0 /\ losses = 0
  BY DEF Init
<1>2. /\ MaxCheckpoints \in Nat /\ MaxStarts \in Nat /\ MaxFaults \in Nat BY WalAssumption
<1>3. <<>> \in Seq(Line) /\ <<>> \in Seq(Requests) /\ Len(<<>>) = 0 OBVIOUS
<1>4. DiskOK
  <2>1. [lines |-> <<>>, synced |-> 0] \in [lines : Seq(Line), synced : Nat] BY <1>3
  <2>2. disk \in [Files -> [lines : Seq(Line), synced : Nat]] BY <1>1, <2>1
  <2>3. checkpoint \in [Files -> Seq(Line)] BY <1>1, <1>3
  <2>4. \A f \in Files : disk[f].synced = 0 /\ disk[f].lines = <<>> BY <1>1
  <2> QED BY <1>3, <2>2, <2>3, <2>4 DEF DiskOK, Lines
<1>5. StoresOK BY <1>1, DownIs DEF StoresOK
<1>6. CallersOK
  <2>1. queue \in [Procs -> Seq(Requests)] BY <1>1, <1>3
  <2>2. current \in [Procs -> Transacting] BY <1>1, DownIs
  <2>3. told \in [Requests -> {"none", "committed", "unlogged", "unknown"}] BY <1>1
  <2> QED BY <1>1, <2>1, <2>2, <2>3, RequestsAre DEF CallersOK
<1>7. CountsOK
  <2>1. lease \in BOOLEAN BY <1>1
  <2>2. checkpoints \in 0..MaxCheckpoints BY <1>1, <1>2
  <2>3. starts \in 0..MaxStarts BY <1>1, <1>2
  <2>4. faults \in 0..MaxFaults /\ losses \in Nat /\ losses <= faults BY <1>1, <1>2
  <2> QED BY <2>1, <2>2, <2>3, <2>4 DEF CountsOK
<1>8. WriterInv BY <1>1 DEF WriterInv, Shaped, LeaseIsHeld, OneWriter, Up, Down
<1>9. FilesInv
  <2>1. \A f \in Files : Lines(f) = <<>> /\ checkpoint[f] = <<>> BY <1>1 DEF Lines
  <2>2. Whole(<<>>) /\ Complete(<<>>) = <<>> BY DEF Whole, Complete
  <2>3. Readable BY <2>1, <2>2, FilesAre DEF Readable
  <2>4. ASSUME NEW s \in Seq(Line) PROVE IsPrefix(<<>>, s)
    <3>1. Len(<<>>) <= Len(s) /\ \A i \in 1..Len(<<>>) : <<>>[i] = s[i] BY <1>3
    <3> QED BY <1>3, <3>1, PrefixIs
  <2>5. \A f \in Chains : Projection(Lines("wal"), f) \in Seq(Line) BY <1>3, <2>1, FilesAre, ProjectionType
  <2>6. NoFalseAlarm BY <1>3, <2>1, <2>2, <2>4, <2>5 DEF NoFalseAlarm
  <2> QED BY <2>1, <2>2, <2>3, <2>6 DEF FilesInv
<1>10. ASSUME NEW p \in Procs PROVE Settled(p)
  <2>1. store[p].phase = "down" /\ current[p] = Idle BY <1>1, DownIs
  <2> QED BY <2>1 DEF Settled, Recovered, Synced, Materialized, AtWork, Serving
<1> QED BY <1>4, <1>5, <1>6, <1>7, <1>8, <1>9, <1>10 DEF StoreInv

LEMMA StoreStays == ASSUME StoreInv, UNCHANGED vars PROVE StoreInv'
<1>1. UNCHANGED <<disk, lease, store, queue, current, told, arrived, checkpoint, checkpoints, starts, faults, losses>>
  BY DEF vars
<1>2. DiskOK' /\ StoresOK' /\ CallersOK' /\ CountsOK'
  BY <1>1 DEF StoreInv, DiskOK, StoresOK, CallersOK, CountsOK, Lines
<1>3. FilesInv' BY <1>1, FilesStay DEF StoreInv
<1>4. \A q \in Procs : Settled(q)'
  BY <1>1 DEF StoreInv, Settled, Recovered, Synced, Materialized, AtWork, Serving, Log, Lines
<1>5. WriterInv' BY <1>1, Staying DEF StoreInv
<1> QED BY <1>2, <1>3, <1>4, <1>5 DEF StoreInv

LEMMA StoreNext == ASSUME StoreInv, [Next]_vars PROVE StoreInv'
<1>1. WriterInv'
  <2>1. WriterInv BY DEF StoreInv
  <2> QED BY <2>1, WriterKeeps
<1>2. CASE UNCHANGED vars BY <1>2, StoreStays
<1>3. ASSUME NEW p \in Procs,
             \/ Open(p) \/ Recover(p) \/ Materialize(p) \/ Verify(p) \/ BeginRun(p)
             \/ Arrive(p) \/ Transact(p) \/ Project(p) \/ Answer(p)
             \/ Close(p) \/ Crash(p)
      PROVE  StoreInv'
  BY <1>1, <1>3, OpenStep, RecoverStep, MaterializeStep, VerifyStep, BeginRunStep, ArriveStep,
     TransactStep, ProjectStep, AnswerStep, CloseStep, CrashStep
<1>4. CASE PowerLoss BY <1>1, <1>4, PowerLossStep
<1>5. CASE ClearLease BY <1>1, <1>5, ClearLeaseStep
<1>6. CASE WriteCheckpoint BY <1>1, <1>6, WriteCheckpointStep
<1> QED BY <1>2, <1>3, <1>4, <1>5, <1>6 DEF Next

\* The invariant of the store: its types, one process at work, files that the next start
\* can read, and a store that knows what its files say.
THEOREM StoreInvariance == Spec => []StoreInv
<1>1. Init => StoreInv BY StoreInit
<1>2. StoreInv /\ [Next]_vars => StoreInv' BY StoreNext
<1> QED BY <1>1, <1>2, PTL DEF Spec

\* Whatever append fails and wherever a process stops or the power goes, the next start can
\* read the files, and a crash alone never looks like tampering.
THEOREM AlwaysRestartable == Spec => []Restartable
<1>1. StoreInv => Restartable BY TypesAre DEF StoreInv, FilesInv, Restartable
<1> QED BY <1>1, StoreInvariance, PTL

\* Between transactions a running store has in memory what a restart would read back, and
\* both record chains show exactly that.
THEOREM MemoryIsOnDisk == Spec => []MemoryIsDurable
<1>1. StoreInv => MemoryIsDurable
  <2> SUFFICES ASSUME StoreInv, NEW p \in Procs, store[p].phase = "running", current[p] = Idle
               PROVE  /\ Len(Lines("wal")) = disk["wal"].synced
                      /\ store[p].memory = Replay(Lines("wal"))
                      /\ \A f \in Chains : Lines(f) = Projection(store[p].memory, f)
    BY DEF MemoryIsDurable
  <2>1. /\ Len(Log) = disk["wal"].synced /\ store[p].memory = Replay(Log)
        /\ \A f \in Chains : Lines(f) = Projection(Log, f)
    BY DownIs DEF StoreInv, Settled, Recovered, Synced, Materialized
  <2>2. \A f \in Chains : Projection(Replay(Log), f) = Projection(Log, f) BY LogIs, ProjectionOfReplay
  <2> QED BY <2>1, <2>2 DEF Log
<1> QED BY <1>1, StoreInvariance, PTL

-----------------------------------------------------------------------------
(***************************************************************************)
(* The journal of a world: what is logged, and what the callers are told.  *)
(***************************************************************************)
\* Requests that will be taken in the order of their numbers.
Rising(s) == \A i, j \in DOMAIN s : i < j => s[i] < s[j]

\* A log is cut between its synced end and its end: the cut shows one of the two.
CutInv ==
    \A n \in disk["wal"].synced..Len(Log) :
        Requested(SubSeq(Log, 1, n)) \in {Durable, Requested(Log)}

\* At most the last transaction of the log is not durable, and its caller has not
\* been told what became of it.
PendingInv ==
    \/ Requested(Log) = Durable
    \/ \E r \in Requests :
          /\ told[r] \in {"none", "unknown"}
          /\ \A s \in ToSet(Durable) : s < r
          /\ Requested(Log) = Append(Durable, r)

\* Requests are numbered as they arrive.
NumberedInv ==
    /\ \A r \in ToSet(Requested(Log)) : r <= arrived
    /\ \A r \in Requests : r > arrived => told[r] = "none"

\* Whoever waits has no answer yet, and comes after all that is logged.
Waits(p) ==
    /\ ~Serving(p) => queue[p] = <<>>
    /\ Rising(queue[p])
    /\ \A i \in DOMAIN queue[p] :
          /\ told[queue[p][i]] = "none" /\ queue[p][i] <= arrived
          /\ \A s \in ToSet(Requested(Log)) : s < queue[p][i]
          /\ current[p] # Idle => current[p].request < queue[p][i]

\* So does the caller whose transaction is in hand, which is logged if it is projected.
Works(p) ==
    current[p] # Idle =>
        /\ current[p].request \in Requests /\ current[p].stage \in {"projecting", "failed"}
        /\ told[current[p].request] = "none" /\ current[p].request <= arrived
        /\ current[p].stage = "projecting" => current[p].request \in ToSet(Requested(Log))

JournalInv ==
    /\ CutInv /\ PendingInv /\ NumberedInv
    /\ \A p \in Procs : Waits(p) /\ Works(p)

LEMMA RequestedType ==
    ASSUME NEW s \in Seq(Line)
    PROVE  Requested(s) \in Seq(Requests)
<1> DEFINE a == Replay(s)
<1>1. a \in Seq(TransactionsOf(Requests)) BY LoggedType DEF Replay
<1>2. Requested(s) = [i \in DOMAIN a |-> a[i].request] BY DEF Requested
<1> HIDE DEF a
<1>3. DOMAIN a = 1..Len(a) /\ Len(a) \in Nat /\ \A i \in 1..Len(a) : a[i] \in TransactionsOf(Requests) BY <1>1
<1>4. \A i \in 1..Len(a) : a[i].request \in Requests BY <1>3 DEF TransactionsOf
<1>5. Requested(s) \in [1..Len(a) -> Requests] BY <1>2, <1>3, <1>4
<1> QED BY <1>3, <1>5

LEMMA RequestedAppend ==
    ASSUME NEW s \in Seq(Line), NEW x \in Line
    PROVE  Requested(Append(s, x)) =
             IF Taken(x, Requests) THEN Append(Requested(s), x.request) ELSE Requested(s)
<1> DEFINE T == TransactionsOf(Requests)
           a == Replay(s)
           b == Replay(Append(s, x))
           F == [y \in T |-> y.request]
<1>1. a \in Seq(T) BY LoggedType DEF Replay
<1>2. b = IF Taken(x, Requests) THEN Append(a, x) ELSE a BY LoggedAppend DEF Replay
<1>3. Requested(s) = [i \in DOMAIN a |-> a[i].request]
      /\ Requested(Append(s, x)) = [i \in DOMAIN b |-> b[i].request]
  BY DEF Requested
<1>4. F \in [T -> Requests] /\ \A y \in T : F[y] = y.request BY DEF TransactionsOf
<1>5. Taken(x, Requests) => x \in T BY DEF Taken, TransactionsOf, Line
<1> HIDE DEF a, b, F, T
<1>6. CASE Taken(x, Requests)
  <2>1. x \in T BY <1>5, <1>6
  <2>2. [i \in DOMAIN Append(a, x) |-> F[Append(a, x)[i]]] = Append([i \in DOMAIN a |-> F[a[i]]], F[x])
    BY <1>1, <1>4, <2>1, MapAppend
  <2>3. \A i \in DOMAIN a : F[a[i]] = a[i].request BY <1>1, <1>4
  <2>4. Append(a, x) \in Seq(T) BY <1>1, <2>1
  <2>5. \A i \in DOMAIN Append(a, x) : F[Append(a, x)[i]] = Append(a, x)[i].request
    <3> DEFINE c == Append(a, x)
    <3>1. c \in Seq(T) BY <2>4
    <3> HIDE DEF c
    <3>2. \A i \in DOMAIN c : F[c[i]] = c[i].request BY <1>4, <3>1
    <3> QED BY <3>2 DEF c
  <2>6. F[x] = x.request BY <1>4, <2>1
  <2>7. [i \in DOMAIN a |-> F[a[i]]] = [i \in DOMAIN a |-> a[i].request] BY <2>3, Zenon
  <2>8. [i \in DOMAIN Append(a, x) |-> F[Append(a, x)[i]]] = [i \in DOMAIN Append(a, x) |-> Append(a, x)[i].request]
    BY <2>5, Zenon
  <2>9. b = Append(a, x) BY <1>2, <1>6
  <2> QED BY <1>3, <1>6, <2>2, <2>6, <2>7, <2>8, <2>9, Zenon
<1>7. CASE ~Taken(x, Requests) BY <1>2, <1>3, <1>7
<1> QED BY <1>6, <1>7

\* What is appended, cut or lost at the end of a log.
LEMMA CutOfAppend ==
    ASSUME NEW s \in Seq(Line), NEW x \in Line
    PROVE  /\ SubSeq(s, 1, Len(s)) = s /\ SubSeq(Append(s, x), 1, Len(s) + 1) = Append(s, x)
           /\ Len(Append(s, x)) = Len(s) + 1
           /\ \A n \in 0..Len(s) : SubSeq(Append(s, x), 1, n) = SubSeq(s, 1, n)
<1> DEFINE a == Append(s, x)
<1>1. a \in Seq(Line) /\ Len(a) = Len(s) + 1 /\ (\A i \in 1..Len(s) : a[i] = s[i]) /\ Len(s) \in Nat OBVIOUS
<1> HIDE DEF a
<1>2. SubSeq(s, 1, Len(s)) = s OBVIOUS
<1>3. SubSeq(a, 1, Len(a)) = a BY <1>1
<1>4. ASSUME NEW n \in 0..Len(s) PROVE SubSeq(a, 1, n) = SubSeq(s, 1, n)
  <2> DEFINE b == SubSeq(a, 1, n)
             c == SubSeq(s, 1, n)
  <2>1. n \in Nat /\ n <= Len(s) /\ n <= Len(a) BY <1>1
  <2>2. b \in Seq(Line) /\ Len(b) = n /\ \A i \in 1..n : b[i] = a[i] BY <1>1, <2>1
  <2>3. c \in Seq(Line) /\ Len(c) = n /\ \A i \in 1..n : c[i] = s[i] BY <1>1, <2>1
  <2> HIDE DEF b, c
  <2>4. \A i \in 1..n : b[i] = c[i] BY <1>1, <2>1, <2>2, <2>3
  <2>5. b = c BY <2>2, <2>3, <2>4
  <2> QED BY <2>5 DEF b, c
<1> QED BY <1>1, <1>2, <1>3, <1>4 DEF a

LEMMA LogStays ==
    ASSUME disk'["wal"] = disk["wal"]
    PROVE  /\ Requested(Log)' = Requested(Log) /\ Durable' = Durable /\ (CutInv => CutInv')
<1>1. Log' = Log BY DEF Log, Lines
<1>2. Requested(Log)' = Requested(Log) BY <1>1
<1>3. Durable' = Durable BY DEF Durable, Lines
<1> QED BY <1>1, <1>2, <1>3 DEF CutInv

LEMMA LogSynced ==
    ASSUME DiskOK', disk'["wal"].synced = Len(disk'["wal"].lines)
    PROVE  Durable' = Requested(Log)' /\ CutInv'
<1> DEFINE s == disk'["wal"].lines
<1>1. s \in Seq(Line) BY FilesAre DEF DiskOK, Lines
<1>2. Log' = s BY DEF Log, Lines
<1>3. Durable' = Requested(SubSeq(s, 1, disk'["wal"].synced)) BY DEF Durable, Lines
<1> HIDE DEF s
<1>4. SubSeq(s, 1, Len(s)) = s /\ Len(s) \in Nat BY <1>1
<1>5. Durable' = Requested(s) BY <1>3, <1>4 DEF s
<1>6. ASSUME NEW n \in Len(s)..Len(s) PROVE n = Len(s) BY <1>4
<1>7. \A n \in disk'["wal"].synced..Len(s) : Requested(SubSeq(s, 1, n)) = Requested(s) BY <1>4, <1>6 DEF s
<1> QED BY <1>2, <1>5, <1>7 DEF CutInv

LEMMA LogUnsynced ==
    ASSUME DiskOK, CutInv, NEW x \in Line, OnlyFile("wal", Append(Log, x)),
           disk'["wal"].synced = disk["wal"].synced,
           ~Taken(x, Requests) \/ Durable = Requested(Log)
    PROVE  /\ Durable' = Durable /\ CutInv'
           /\ Requested(Log)' = IF Taken(x, Requests) THEN Append(Requested(Log), x.request)
                                ELSE Requested(Log)
<1> DEFINE s == Log
           a == Append(s, x)
           k == disk["wal"].synced
<1>1. s \in Seq(Line) /\ k \in 0..Len(s) /\ Len(s) \in Nat
  <2>1. s \in Seq(Line) BY FilesAre DEF DiskOK, Log, Lines
  <2>2. k \in Nat /\ k <= Len(s) BY FilesAre DEF DiskOK, Log, Lines
  <2>3. Len(s) \in Nat BY <2>1
  <2> QED BY <2>1, <2>2, <2>3
<1>2. Log' = a BY DEF OnlyFile, Log, Lines
<1>3. /\ SubSeq(a, 1, Len(s) + 1) = a /\ Len(a) = Len(s) + 1
      /\ \A n \in 0..Len(s) : SubSeq(a, 1, n) = SubSeq(s, 1, n)
  BY <1>1, CutOfAppend
<1>4. Requested(a) = IF Taken(x, Requests) THEN Append(Requested(s), x.request) ELSE Requested(s)
  BY <1>1, RequestedAppend
<1>5. Durable = Requested(SubSeq(s, 1, k)) BY DEF Durable, Log
<1>6. Durable' = Requested(SubSeq(a, 1, k)) BY <1>2 DEF Durable, Log
<1>7. \A n \in k..Len(s) : Requested(SubSeq(s, 1, n)) \in {Durable, Requested(s)} BY DEF CutInv
<1>8. Requested(Log)' = Requested(a) BY <1>2
<1> HIDE DEF s, a, k
<1>9. Durable' = Durable BY <1>1, <1>3, <1>5, <1>6
<1>10. ASSUME NEW n \in k..Len(a) PROVE Requested(SubSeq(a, 1, n)) \in {Durable, Requested(a)}
  <2>1. CASE n = Len(s) + 1 BY <1>3, <2>1
  <2>2. CASE n # Len(s) + 1
    <3>1. n \in k..Len(s) /\ n \in 0..Len(s) BY <1>1, <1>3, <2>2
    <3>2. Requested(SubSeq(a, 1, n)) = Requested(SubSeq(s, 1, n)) BY <1>3, <3>1
    <3>3. Requested(SubSeq(a, 1, n)) \in {Durable, Requested(s)} BY <1>7, <3>1, <3>2
    <3>4. Requested(s) = Requested(a) \/ Requested(s) = Durable BY <1>4 DEF s
    <3> QED BY <3>3, <3>4
  <2> QED BY <2>1, <2>2
<1>11. CutInv' BY <1>2, <1>8, <1>9, <1>10 DEF CutInv, k
<1> QED BY <1>4, <1>8, <1>9, <1>11 DEF s

LEMMA LogRepaired ==
    ASSUME DiskOK, DiskOK', TornTail(Log), OnlyFile("wal", Front(Log)),
           disk'["wal"].synced = Len(disk'["wal"].lines)
    PROVE  Requested(Log)' = Requested(Log) /\ Durable' = Requested(Log) /\ CutInv'
<1> DEFINE x == Log[Len(Log)]
           s == Front(Log)
<1>1. Log \in Seq(Line) BY FilesAre DEF DiskOK, Log, Lines
<1>2. s \in Seq(Line) /\ x \in Line /\ x.kind = "torn" /\ Log = Append(s, x) BY <1>1, TornTailIs
<1>3. Log' = s /\ disk'["wal"].synced = Len(Log') BY DEF OnlyFile, Log, Lines
<1>4. ~Taken(x, Requests) BY <1>2 DEF Taken
<1> HIDE DEF x, s
<1>5. Requested(Append(s, x)) = Requested(s) BY <1>2, <1>4, RequestedAppend
<1>6. Requested(Log)' = Requested(Log) BY <1>2, <1>3, <1>5
<1>7. Durable' = Requested(Log)' /\ CutInv' BY LogSynced
<1> QED BY <1>6, <1>7

LEMMA LogLost ==
    ASSUME DiskOK, DiskOK', CutInv, Whole(Log) \/ TornTail(Log),
           disk'["wal"].lines \in Remains(disk["wal"]),
           disk'["wal"].synced = Len(disk'["wal"].lines)
    PROVE  Durable' = Requested(Log)' /\ Durable' \in {Durable, Requested(Log)} /\ CutInv'
<1>1. Durable' = Requested(Log)' /\ CutInv' BY LogSynced
<1> DEFINE left == disk'["wal"].lines
<1>2. Log' = left BY DEF Log, Lines
<1>3. Log \in Seq(Line) /\ "wal" \in Files /\ disk["wal"].synced \in Nat /\ Len(Log) \in Nat
  BY FilesAre DEF DiskOK, Log, Lines
<1>4. PICK n \in disk["wal"].synced..Len(Log) :
        left = SubSeq(Log, 1, n) \/ left = Append(SubSeq(Log, 1, n), Torn)
  <2>1. Whole(Lines("wal")) \/ TornTail(Lines("wal")) BY DEF Log
  <2> QED BY <1>3, <2>1, RemainsIs DEF Log
<1> DEFINE t == SubSeq(Log, 1, n)
<1>5. t \in Seq(Line)
  <2>1. n \in Nat /\ n <= Len(Log) BY <1>3
  <2> QED BY <1>3, <2>1
<1>6. Requested(t) \in {Durable, Requested(Log)} BY DEF CutInv
<1> HIDE DEF t, left
<1>7. Requested(Append(t, Torn)) = Requested(t)
  <2>1. Torn \in Line /\ ~Taken(Torn, Requests) BY TornIsALine DEF Taken
  <2> QED BY <1>5, <2>1, RequestedAppend
<1>8. Requested(left) = Requested(t) BY <1>4, <1>7 DEF t
<1> QED BY <1>1, <1>2, <1>6, <1>8

-----------------------------------------------------------------------------
(***************************************************************************)
(* The steps of the store are steps of the journal.                        *)
(***************************************************************************)
JournalStep == [J!JournalNext]_<<Durable, told>>

LEMMA OneMore ==
    ASSUME NEW s \in Seq(Requests), NEW r \in Requests
    PROVE  Append(s, r) \in Seq(Requests) /\ ToSet(Append(s, r)) = ToSet(s) \cup {r}
<1> DEFINE a == Append(s, r)
<1>1. /\ a \in Seq(Requests) /\ DOMAIN a = 1..Len(s) + 1 /\ a[Len(s) + 1] = r /\ Len(s) \in Nat
      /\ DOMAIN s = 1..Len(s) /\ \A i \in 1..Len(s) : a[i] = s[i]
  OBVIOUS
<1> HIDE DEF a
<1>2. \A y \in ToSet(a) : y \in ToSet(s) \cup {r} BY <1>1 DEF ToSet
<1>3. \A y \in ToSet(s) \cup {r} : y \in ToSet(a) BY <1>1 DEF ToSet
<1> QED BY <1>1, <1>2, <1>3 DEF a

LEMMA SetOfRequests == ASSUME NEW s \in Seq(Requests) PROVE ToSet(s) \subseteq Requests
BY DEF ToSet

LEMMA RequestedAre ==
    ASSUME StoreInv
    PROVE  Requested(Log) \in Seq(Requests) /\ Durable \in Seq(Requests)
<1>1. Log \in Seq(Line) BY LogIs
<1>2. SubSeq(Log, 1, disk["wal"].synced) \in Seq(Line)
  <2>1. disk["wal"].synced \in Nat /\ disk["wal"].synced <= Len(Log)
    BY FilesAre DEF StoreInv, DiskOK, Log, Lines
  <2> QED BY <1>1, <2>1
<1> QED BY <1>1, <1>2, RequestedType DEF Durable, Log

\* What is not durable yet may join the journal.
LEMMA DurableGrows ==
    ASSUME StoreInv, PendingInv, Durable' \in {Durable, Requested(Log)}
    PROVE  \/ Durable' = Durable
           \/ \E r \in Requests : J!Joins(r)
<1>1. \A s : J!ToSet(s) = ToSet(s) BY DEF J!ToSet, ToSet
<1> QED BY <1>1 DEF PendingInv, J!Joins

\* Only one process can have callers.
LEMMA NobodyWaits ==
    ASSUME StoreInv, JournalInv, NEW p \in Procs, Up(p), NEW q \in Procs, q # p
    PROVE  queue[q] = <<>> /\ current[q] = Idle
<1>1. store[q].phase = "down" BY DEF StoreInv, WriterInv, OneWriter, Up
<1>2. current[q] = Idle BY <1>1 DEF StoreInv, Settled, AtWork, Serving
<1>3. queue[q] = <<>> BY <1>1 DEF JournalInv, Waits, Serving
<1> QED BY <1>2, <1>3

LEMMA Free ==
    ASSUME NEW p, queue'[p] = <<>>, current'[p] = Idle
    PROVE  Waits(p)' /\ Works(p)'
BY DEF Waits, Works, Rising

\* Nobody is told anything, and the log commits to what it did.
LEMMA Quiet ==
    ASSUME StoreInv, JournalInv, CutInv', UNCHANGED <<queue, told, arrived>>,
           Requested(Log)' = Requested(Log), Durable' \in {Durable, Requested(Log)},
           \A p \in Procs : /\ queue[p] = <<>> \/ Serving(p)'
                            /\ \/ current'[p] = current[p]
                               \/ /\ current[p] # Idle /\ current'[p].request = current[p].request
                                  /\ current'[p].stage \in {current[p].stage, "failed"}
    PROVE  JournalInv' /\ JournalStep
<1>1. PendingInv' BY DEF JournalInv, PendingInv
<1>2. NumberedInv' BY DEF JournalInv, NumberedInv
<1>3. ASSUME NEW p \in Procs PROVE Waits(p)'
  <2>1. current'[p] # Idle => current[p] # Idle /\ current'[p].request = current[p].request OBVIOUS
  <2>2. queue[p] = <<>> \/ Serving(p)' OBVIOUS
  <2> QED BY <2>1, <2>2 DEF JournalInv, Waits
<1>4. ASSUME NEW p \in Procs PROVE Works(p)'
  <2>1. CASE current'[p] = current[p] BY <2>1 DEF JournalInv, Works
  <2>2. CASE /\ current[p] # Idle /\ current'[p].request = current[p].request
             /\ current'[p].stage \in {current[p].stage, "failed"}
    <3>1. /\ current[p].request \in Requests /\ current[p].stage \in {"projecting", "failed"}
          /\ told[current[p].request] = "none" /\ current[p].request <= arrived
          /\ current[p].stage = "projecting" => current[p].request \in ToSet(Requested(Log))
      BY <2>2 DEF JournalInv, Works
    <3> QED BY <2>2, <3>1 DEF Works
  <2> QED BY <2>1, <2>2
<1>5. JournalStep
  <2>1. CASE Durable' = Durable BY <2>1 DEF JournalStep
  <2>2. CASE \E r \in Requests : J!Joins(r) BY <2>2 DEF JournalStep, J!JournalNext, J!Commit
  <2> QED BY <2>1, <2>2, DurableGrows DEF JournalInv
<1> QED BY <1>1, <1>2, <1>3, <1>4, <1>5 DEF JournalInv

\* The callers of a store that is shut are turned away: what they ask for will never be logged.
LEMMA TurnedAway ==
    ASSUME StoreInv, JournalInv, CallersOK', CutInv', NEW p \in Procs, Up(p), Shut(p), UNCHANGED arrived,
           Requested(Log)' = Requested(Log), Durable' = Durable
    PROVE  JournalInv' /\ JournalStep
<1>1. /\ queue' = [queue EXCEPT ![p] = <<>>] /\ current' = [current EXCEPT ![p] = Idle]
      /\ told' = [r \in Requests |-> IF r \in ToSet(queue[p]) THEN "unlogged" ELSE told[r]]
  BY DEF Shut
<1>2. \A r \in ToSet(queue[p]) :
        told[r] = "none" /\ r <= arrived /\ \A s \in ToSet(Requested(Log)) : s < r
  BY DEF JournalInv, Waits, ToSet
<1>3. /\ Requested(Log) \in Seq(Requests) /\ Durable \in Seq(Requests)
      /\ ToSet(Requested(Log)) \subseteq Requests /\ ToSet(Durable) \subseteq Requests
  BY RequestedAre, SetOfRequests
<1>4. Requests \subseteq Nat BY RequestsAre
<1>5. ASSUME NEW r \in ToSet(queue[p]) PROVE r \notin ToSet(Requested(Log))
  <2>1. r \in Nat BY <1>4, SetOfRequests DEF StoreInv, CallersOK
  <2> QED BY <1>2, <2>1
<1>6. ToSet(Durable) \subseteq ToSet(Requested(Log))
  BY <1>3, OneMore DEF JournalInv, PendingInv
<1>7. PendingInv'
  <2>1. CASE Requested(Log) = Durable BY <2>1 DEF PendingInv
  <2>2. ASSUME NEW r \in Requests, told[r] \in {"none", "unknown"}, Requested(Log) = Append(Durable, r),
               \A s \in ToSet(Durable) : s < r
        PROVE  PendingInv'
    <3>1. r \in ToSet(Requested(Log)) BY <1>3, <2>2, OneMore
    <3>2. told'[r] = told[r] BY <1>1, <1>5, <3>1
    <3> QED BY <2>2, <3>2 DEF PendingInv
  <2> QED BY <2>1, <2>2 DEF JournalInv, PendingInv
<1>8. NumberedInv'
  <2>1. arrived \in Nat BY RequestsAre DEF StoreInv, CallersOK
  <2>2. \A r \in Requests : r > arrived => r \notin ToSet(queue[p]) BY <1>2, <1>4, <2>1
  <2> QED BY <1>1, <2>2 DEF JournalInv, NumberedInv
<1>9. ASSUME NEW q \in Procs PROVE Waits(q)' /\ Works(q)'
  <2>1. queue'[q] = <<>> /\ current'[q] = Idle BY <1>1, NobodyWaits DEF StoreInv, CallersOK
  <2> QED BY <2>1, Free
<1>10. JournalStep
  <2>1. told' \in [Requests -> J!Answers] BY DEF CallersOK, J!Answers
  <2>2. ASSUME NEW r \in Requests, told'[r] # told[r]
        PROVE  told[r] = "none" /\ told'[r] = "unlogged" /\ r \notin ToSet(Durable)
    <3>1. r \in ToSet(queue[p]) BY <1>1, <2>2
    <3> QED BY <1>1, <1>2, <1>5, <1>6, <3>1
  <2>3. J!ToSet(Durable) = ToSet(Durable) BY DEF J!ToSet, ToSet
  <2>4. J!TurnAway BY <2>1, <2>2, <2>3 DEF J!TurnAway
  <2> QED BY <2>4 DEF JournalStep, J!JournalNext
<1> QED BY <1>7, <1>8, <1>9, <1>10 DEF JournalInv

LEMMA QueueIs == ASSUME JournalInv, NEW p \in Procs PROVE queue[p] = <<>> \/ Serving(p)
BY DEF JournalInv, Waits

LEMMA StillServed ==
    ASSUME JournalInv, NEW p \in Procs, ~Serving(p), \A q \in Procs : q # p => store'[q] = store[q]
    PROVE  \A q \in Procs : queue[q] = <<>> \/ Serving(q)'
BY QueueIs DEF Serving

LEMMA AnotherFile ==
    ASSUME DiskOK, NEW f \in Chains, NEW x, Appended(f, x) \/ AppendFailed(f, x) \/ Repaired(f)
    PROVE  disk'["wal"] = disk["wal"]
<1>1. f # "wal" BY FilesAre
<1> QED BY <1>1, FilesAre DEF DiskOK, Appended, AppendFailed, Repaired

\* Steps that neither touch the log nor the callers, and stop no store that serves.
LEMMA NotTheLog ==
    ASSUME StoreInv, JournalInv, disk'["wal"] = disk["wal"], UNCHANGED <<queue, current, told, arrived>>,
           \A p \in Procs : queue[p] = <<>> \/ Serving(p)'
    PROVE  JournalInv' /\ JournalStep
<1>1. Requested(Log)' = Requested(Log) /\ Durable' = Durable /\ CutInv' BY LogStays DEF JournalInv
<1> QED BY <1>1, Quiet

LEMMA NotTheLogShut ==
    ASSUME StoreInv, JournalInv, CallersOK', disk'["wal"] = disk["wal"], UNCHANGED arrived,
           NEW p \in Procs, Up(p), Shut(p)
    PROVE  JournalInv' /\ JournalStep
<1>1. Requested(Log)' = Requested(Log) /\ Durable' = Durable /\ CutInv' BY LogStays DEF JournalInv
<1> QED BY <1>1, TurnedAway

\* A line that is no transaction makes no difference.
LEMMA HeaderWritten ==
    ASSUME StoreInv, JournalInv, DiskOK', NEW x \in Line, ~Taken(x, Requests), UNCHANGED checkpoint,
           Appended("wal", x)
    PROVE  Requested(Log)' = Requested(Log) /\ Durable' = Requested(Log) /\ CutInv'
<1>1. /\ OnlyFile("wal", Append(Log, x)) /\ disk'["wal"].synced = Len(disk'["wal"].lines)
  BY LogIs, AppendedIs DEF StoreInv, Log
<1>2. Log' = Append(Log, x) BY <1>1 DEF OnlyFile, Log, Lines
<1>3. Requested(Append(Log, x)) = Requested(Log) BY LogIs, RequestedAppend
<1>4. Durable' = Requested(Log)' /\ CutInv' BY <1>1, LogSynced
<1> QED BY <1>2, <1>3, <1>4

LEMMA LineUnsynced ==
    ASSUME StoreInv, CutInv, NEW x \in Line, UNCHANGED checkpoint, AppendFailed("wal", x),
           ~Taken(x, Requests) \/ Durable = Requested(Log)
    PROVE  /\ Durable' = Durable /\ CutInv'
           /\ \/ Requested(Log)' = Requested(Log)
              \/ Taken(x, Requests) /\ Requested(Log)' = Append(Requested(Log), x.request)
<1>1. /\ disk'["wal"].synced = disk["wal"].synced /\ DiskOK'
      /\ \/ OnlyFile("wal", Log)
         \/ OnlyFile("wal", Append(Log, Torn))
         \/ OnlyFile("wal", Append(Log, x))
  BY LogIs, FailedIs DEF StoreInv, Log
<1>2. CASE OnlyFile("wal", Log)
  <2>1. disk'["wal"].lines = disk["wal"].lines BY <1>2 DEF OnlyFile, Lines, Log
  <2>2. /\ disk'["wal"] \in [lines : Seq(Line), synced : Nat]
        /\ disk["wal"] \in [lines : Seq(Line), synced : Nat]
    BY <1>1, LogIs DEF StoreInv, DiskOK
  <2>3. disk'["wal"] = disk["wal"] BY <1>1, <2>1, <2>2
  <2> QED BY <2>3, LogStays
<1>3. CASE OnlyFile("wal", Append(Log, Torn))
  <2>1. Torn \in Line /\ ~Taken(Torn, Requests) BY TornIsALine DEF Taken
  <2> QED BY <1>1, <1>3, <2>1, LogUnsynced DEF StoreInv
<1>4. CASE OnlyFile("wal", Append(Log, x)) BY <1>1, <1>4, LogUnsynced DEF StoreInv
<1> QED BY <1>1, <1>2, <1>3, <1>4

LEMMA OpenTold == ASSUME StoreInv, JournalInv, NEW p \in Procs, Open(p) PROVE JournalInv' /\ JournalStep
<1>1. /\ store' = [store EXCEPT ![p] = [Down EXCEPT !.phase = "repairing"]] /\ store[p].phase = "down"
      /\ UNCHANGED <<disk, queue, current, told, arrived>>
  BY DEF Open
<1>2. ~Serving(p) /\ \A q \in Procs : q # p => store'[q] = store[q]
  BY <1>1 DEF StoreInv, StoresOK, Serving
<1> QED BY <1>1, <1>2, StillServed, NotTheLog

LEMMA RecoverTold ==
    ASSUME StoreInv, StoreInv', JournalInv, NEW p \in Procs, Recover(p)
    PROVE  JournalInv' /\ JournalStep
<1>0. Up(p) /\ store[p].phase = "repairing" /\ UNCHANGED <<arrived, checkpoint>>
  BY DEF Recover, Up
<1>1. \/ TornTail(Log) /\ Repaired("wal") /\ UNCHANGED <<store, queue, current, told>>
      \/ /\ \E s : store' = [store EXCEPT ![p] = s]
         /\ UNCHANGED <<disk, queue, current, told>>
      \/ Shut(p) /\ UNCHANGED disk
  BY DEF Recover, Log
<1>2. ASSUME (\E s : store' = [store EXCEPT ![p] = s]) \/ UNCHANGED store
      PROVE  \A q \in Procs : queue[q] = <<>> \/ Serving(q)'
  <2>1. ~Serving(p) /\ \A q \in Procs : q # p => store'[q] = store[q]
    BY <1>0, <1>2 DEF StoreInv, StoresOK, Serving
  <2> QED BY <2>1, StillServed
<1>3. CASE TornTail(Log) /\ Repaired("wal") /\ UNCHANGED <<store, queue, current, told>>
  <2>1. OnlyFile("wal", Front(Log)) /\ disk'["wal"].synced = Len(disk'["wal"].lines)
    BY <1>0, <1>3, RepairedIs, LogIs DEF StoreInv, Log
  <2>2. Requested(Log)' = Requested(Log) /\ Durable' = Requested(Log) /\ CutInv'
    BY <1>3, <2>1, LogRepaired DEF StoreInv
  <2> QED BY <1>0, <1>2, <1>3, <2>2, Quiet
<1>4. CASE /\ \E s : store' = [store EXCEPT ![p] = s]
           /\ UNCHANGED <<disk, queue, current, told>>
  BY <1>0, <1>2, <1>4, NotTheLog
<1>5. CASE Shut(p) /\ UNCHANGED disk BY <1>0, <1>5, NotTheLogShut DEF StoreInv
<1> QED BY <1>1, <1>3, <1>4, <1>5

LEMMA MaterializeTold ==
    ASSUME StoreInv, StoreInv', JournalInv, NEW p \in Procs, Materialize(p)
    PROVE  JournalInv' /\ JournalStep
<1>0. Up(p) /\ store[p].phase = "projecting" /\ UNCHANGED <<arrived, checkpoint>>
  BY DEF Materialize, Up
<1> DEFINE behind == {g \in Chains : Lines(g) # Expected(p, g)}
           f == IF "action" \in behind THEN "action" ELSE "access"
           next == Expected(p, f)[Len(Lines(f)) + 1]
<1>1. \/ Repaired(f) /\ UNCHANGED <<store, queue, current, told>>
      \/ Appended(f, next) /\ UNCHANGED <<store, queue, current, told>>
      \/ AppendFailed(f, next) /\ Shut(p)
      \/ Shut(p) /\ UNCHANGED disk
      \/ /\ store' = [store EXCEPT ![p].phase = "opened"]
         /\ UNCHANGED <<disk, queue, current, told>>
  BY Zenon DEF Materialize
<1>2. f \in Chains BY DEF Chains
<1> HIDE DEF f, next
<1>3. disk'["wal"] = disk["wal"] BY <1>1, <1>2, AnotherFile DEF StoreInv
<1>4. CASE UNCHANGED <<store, queue, current, told>>
  <2>1. \A q \in Procs : queue[q] = <<>> \/ Serving(q)' BY <1>4, QueueIs DEF Serving
  <2> QED BY <1>0, <1>3, <1>4, <2>1, NotTheLog
<1>5. CASE Shut(p) BY <1>0, <1>3, <1>5, NotTheLogShut DEF StoreInv
<1>6. CASE store' = [store EXCEPT ![p].phase = "opened"] /\ UNCHANGED <<queue, current, told>>
  <2>1. \A q \in Procs : queue[q] = <<>> \/ Serving(q)'
    <3>1. ~Serving(p) /\ \A q \in Procs : q # p => store'[q] = store[q]
      BY <1>0, <1>6 DEF StoreInv, StoresOK, Serving
    <3> QED BY <3>1, StillServed
  <2> QED BY <1>0, <1>3, <1>6, <2>1, NotTheLog
<1> QED BY <1>1, <1>4, <1>5, <1>6

LEMMA VerifyTold ==
    ASSUME StoreInv, StoreInv', JournalInv, NEW p \in Procs, Verify(p)
    PROVE  JournalInv' /\ JournalStep
<1>0. Up(p) /\ store[p].phase = "opened" /\ UNCHANGED <<disk, arrived>>
  BY DEF Verify, Up
<1>1. CASE store' = [store EXCEPT ![p].phase = "verified"] /\ UNCHANGED <<queue, current, told>>
  <2>1. \A q \in Procs : queue[q] = <<>> \/ Serving(q)'
    <3>1. ~Serving(p) /\ \A q \in Procs : q # p => store'[q] = store[q]
      BY <1>0, <1>1 DEF StoreInv, StoresOK, Serving
    <3> QED BY <3>1, StillServed
  <2> QED BY <1>0, <1>1, <2>1, NotTheLog
<1>2. CASE Shut(p) BY <1>0, <1>2, NotTheLogShut DEF StoreInv
<1> QED BY <1>1, <1>2 DEF Verify

LEMMA BeginRunTold ==
    ASSUME StoreInv, StoreInv', JournalInv, NEW p \in Procs, BeginRun(p)
    PROVE  JournalInv' /\ JournalStep
<1>0. Up(p) /\ store[p].phase = "verified" /\ UNCHANGED <<arrived, checkpoint>>
  BY Zenon DEF BeginRun, Up
<1>1. PICK now \in 0..MaxTime :
        LET header == IF store[p].fresh THEN Header("genesis", store[p].last) ELSE Header("run", now)
        IN  \/ /\ Appended("wal", header)
               /\ store' = [store EXCEPT ![p].fresh = FALSE,
                                         ![p].last = header.ts,
                                         ![p].phase = IF store[p].fresh THEN "verified" ELSE "running"]
               /\ UNCHANGED <<queue, current, told>>
            \/ AppendFailed("wal", header) /\ Shut(p)
            \/ Shut(p) /\ UNCHANGED disk
  BY Zenon DEF BeginRun
<1> DEFINE header == IF store[p].fresh THEN Header("genesis", store[p].last) ELSE Header("run", now)
<1>2. header \in Line /\ ~Taken(header, Requests) BY HeaderIs
<1>3. \/ /\ Appended("wal", header)
         /\ store' = [store EXCEPT ![p].fresh = FALSE,
                                   ![p].last = header.ts,
                                   ![p].phase = IF store[p].fresh THEN "verified" ELSE "running"]
         /\ UNCHANGED <<queue, current, told>>
      \/ AppendFailed("wal", header) /\ Shut(p)
      \/ Shut(p) /\ UNCHANGED disk
  BY <1>1, Zenon
<1> HIDE DEF header
<1>4. CASE /\ Appended("wal", header)
           /\ store' = [store EXCEPT ![p].fresh = FALSE,
                                     ![p].last = header.ts,
                                     ![p].phase = IF store[p].fresh THEN "verified" ELSE "running"]
           /\ UNCHANGED <<queue, current, told>>
  <2>1. Requested(Log)' = Requested(Log) /\ Durable' = Requested(Log) /\ CutInv'
    BY <1>0, <1>2, <1>4, HeaderWritten DEF StoreInv
  <2>2. \A q \in Procs : queue[q] = <<>> \/ Serving(q)'
    <3>1. ~Serving(p) /\ \A q \in Procs : q # p => store'[q] = store[q]
      BY <1>0, <1>4 DEF StoreInv, StoresOK, Serving
    <3> QED BY <3>1, StillServed
  <2> QED BY <1>0, <1>4, <2>1, <2>2, Quiet
<1>5. CASE AppendFailed("wal", header) /\ Shut(p)
  <2>1. Requested(Log)' = Requested(Log) /\ Durable' = Durable /\ CutInv'
    BY <1>0, <1>2, <1>5, LineUnsynced DEF JournalInv
  <2> QED BY <1>0, <1>5, <2>1, TurnedAway DEF StoreInv
<1>6. CASE Shut(p) /\ UNCHANGED disk BY <1>0, <1>6, NotTheLogShut DEF StoreInv
<1> QED BY <1>3, <1>4, <1>5, <1>6

\* All but the process at work have no callers.
LEMMA OnlyAtWork ==
    ASSUME StoreInv, JournalInv, NEW p \in Procs, Up(p), Waits(p)', Works(p)',
           \A q \in Procs : q # p => queue'[q] = queue[q] /\ current'[q] = current[q]
    PROVE  \A q \in Procs : Waits(q)' /\ Works(q)'
<1> SUFFICES ASSUME NEW q \in Procs, q # p PROVE Waits(q)' /\ Works(q)' OBVIOUS
<1>1. queue'[q] = <<>> /\ current'[q] = Idle BY NobodyWaits
<1> QED BY <1>1, Free

LEMMA RunningIsDurable ==
    ASSUME StoreInv, NEW p \in Procs, store[p].phase = "running"
    PROVE  Durable = Requested(Log)
<1>1. Log \in Seq(Line) /\ Len(Log) = disk["wal"].synced BY LogIs DEF StoreInv, Settled, Synced
<1>2. SubSeq(Log, 1, Len(Log)) = Log BY <1>1
<1> QED BY <1>1, <1>2 DEF Durable, Log

LEMMA DurableIsRequested ==
    ASSUME StoreInv, PendingInv
    PROVE  /\ ToSet(Durable) \subseteq ToSet(Requested(Log))
           /\ ToSet(Requested(Log)) \subseteq Requests /\ ToSet(Durable) \subseteq Requests
           /\ Requests \subseteq Nat
<1>1. Requested(Log) \in Seq(Requests) /\ Durable \in Seq(Requests) BY RequestedAre
<1>2. ToSet(Durable) \subseteq ToSet(Requested(Log)) BY <1>1, OneMore DEF PendingInv
<1> QED BY <1>1, <1>2, SetOfRequests, RequestsAre

\* Who is told something has no transaction that waits to become durable.
LEMMA StillPending ==
    ASSUME StoreInv, PendingInv, UNCHANGED <<Durable, Requested(Log)>>,
           \A r \in ToSet(Requested(Log)) :
               told'[r] = told[r] \/ told'[r] = "unknown" \/ Requested(Log) = Durable
    PROVE  PendingInv'
<1>1. CASE Requested(Log) = Durable BY <1>1 DEF PendingInv
<1>2. ASSUME NEW r \in Requests, told[r] \in {"none", "unknown"}, Requested(Log) = Append(Durable, r),
             \A s \in ToSet(Durable) : s < r
      PROVE  PendingInv'
  <2>1. r \in ToSet(Requested(Log)) BY <1>2, RequestedAre, OneMore
  <2>2. CASE told'[r] \in {"none", "unknown"} BY <1>2, <2>2 DEF PendingInv
  <2>3. CASE Requested(Log) = Durable BY <2>3 DEF PendingInv
  <2> QED BY <1>2, <2>1, <2>2, <2>3
<1> QED BY <1>1, <1>2 DEF PendingInv

LEMMA ArriveTold ==
    ASSUME StoreInv, StoreInv', JournalInv, NEW p \in Procs, Arrive(p)
    PROVE  JournalInv' /\ JournalStep
<1> DEFINE r == arrived + 1
           Q == queue[p]
           A == Append(Q, r)
<1>1. /\ Up(p) /\ Serving(p) /\ arrived < Cardinality(Requests) /\ arrived' = r
      /\ queue' = [queue EXCEPT ![p] = A]
      /\ UNCHANGED <<disk, store, current, told>>
  BY DEF Arrive, Up, Serving
<1>2. arrived \in Nat /\ r \in Requests /\ Requests \subseteq Nat
  BY <1>1, RequestsAre DEF StoreInv, CallersOK
<1>0. \A n \in Requests : n <= arrived => n < r /\ n <= r BY <1>2
<1>3. /\ Q \in Seq(Requests) /\ queue'[p] = A
      /\ \A q \in Procs : q # p => queue'[q] = queue[q] /\ current'[q] = current[q]
  BY <1>1 DEF StoreInv, CallersOK
<1>4. /\ Len(Q) \in Nat /\ DOMAIN Q = 1..Len(Q) /\ DOMAIN A = 1..Len(Q) + 1 /\ A[Len(Q) + 1] = r
      /\ \A i \in 1..Len(Q) : A[i] = Q[i] /\ Q[i] \in Requests
  BY <1>2, <1>3
<1>5. Requested(Log)' = Requested(Log) /\ Durable' = Durable /\ CutInv'
  BY <1>1, LogStays DEF JournalInv
<1>6. PendingInv' BY <1>1, <1>5 DEF JournalInv, PendingInv
<1>7. ToSet(Requested(Log)) \subseteq Nat BY DurableIsRequested DEF JournalInv
<1>8. NumberedInv'
  <2>1. \A s \in ToSet(Requested(Log)) : s <= r BY <1>2, <1>7 DEF JournalInv, NumberedInv
  <2>2. \A s \in Requests : s > r => told[s] = "none" BY <1>2 DEF JournalInv, NumberedInv
  <2> QED BY <1>1, <1>5, <2>1, <2>2 DEF NumberedInv
<1>9. /\ told[r] = "none" /\ \A s \in ToSet(Requested(Log)) : s < r
      /\ current[p] # Idle => current[p].request < r
  <2>1. \A s \in ToSet(Requested(Log)) : s < r BY <1>2, <1>7 DEF JournalInv, NumberedInv
  <2>2. told[r] = "none" BY <1>2 DEF JournalInv, NumberedInv
  <2>3. current[p] # Idle => current[p].request < r BY <1>0 DEF JournalInv, Works
  <2> QED BY <2>1, <2>2, <2>3
<1>10. \A i \in 1..Len(Q) :
          /\ told[Q[i]] = "none" /\ Q[i] <= arrived
          /\ \A s \in ToSet(Requested(Log)) : s < Q[i]
          /\ current[p] # Idle => current[p].request < Q[i]
  BY <1>4 DEF JournalInv, Waits
<1>11. \A i, j \in 1..Len(Q) : i < j => Q[i] < Q[j] BY <1>4 DEF JournalInv, Waits, Rising
<1> HIDE DEF Q, A
<1>12. \A i \in 1..Len(Q) : A[i] <= r /\ A[i] < r /\ i < Len(Q) + 1 BY <1>2, <1>4, <1>10
<1>13. \A i, j \in 1..Len(Q) + 1 : i < j => A[i] < A[j]
  <2> SUFFICES ASSUME NEW i \in 1..Len(Q) + 1, NEW j \in 1..Len(Q) + 1, i < j PROVE A[i] < A[j] OBVIOUS
  <2>1. i \in 1..Len(Q) BY <1>4
  <2>2. CASE j \in 1..Len(Q) BY <1>4, <1>11, <2>1, <2>2
  <2>3. CASE j = Len(Q) + 1 BY <1>4, <1>12, <2>1, <2>3
  <2> QED BY <1>4, <2>2, <2>3
<1>14. ASSUME NEW i \in 1..Len(Q) + 1
       PROVE  /\ told[A[i]] = "none" /\ A[i] <= r
              /\ \A s \in ToSet(Requested(Log)) : s < A[i]
              /\ current[p] # Idle => current[p].request < A[i]
  <2>1. CASE i \in 1..Len(Q) BY <1>4, <1>10, <1>12, <2>1
  <2>2. CASE i = Len(Q) + 1 BY <1>2, <1>4, <1>9, <2>2
  <2> QED BY <1>4, <2>1, <2>2
<1>15. Waits(p)' BY <1>1, <1>3, <1>4, <1>5, <1>13, <1>14 DEF Waits, Rising, Serving
<1>16. Works(p)'
  <2>1. current[p].request <= arrived /\ current[p].request \in Requests => current[p].request <= r
    BY <1>0
  <2> QED BY <1>1, <1>5, <2>1 DEF JournalInv, Works
<1>17. JournalStep BY <1>1, <1>5 DEF JournalStep
<1> QED BY <1>1, <1>3, <1>5, <1>6, <1>8, <1>15, <1>16, <1>17, OnlyAtWork DEF JournalInv

LEMMA TailIs ==
    ASSUME NEW s \in Seq(Requests), s # <<>>
    PROVE  /\ Tail(s) \in Seq(Requests) /\ Len(s) \in Nat /\ 1 \in DOMAIN s /\ Head(s) = s[1]
           /\ DOMAIN s = 1..Len(s) /\ DOMAIN Tail(s) = 1..Len(s) - 1
           /\ \A i \in 1..Len(s) - 1 : Tail(s)[i] = s[i + 1] /\ i + 1 \in DOMAIN s
OBVIOUS

\* The head of a queue is taken out: the others wait behind it.
LEMMA HeadTaken ==
    ASSUME StoreInv, JournalInv, NEW p \in Procs, Up(p), Serving(p), Serving(p)', queue[p] # <<>>,
           UNCHANGED arrived, queue' = [queue EXCEPT ![p] = Tail(queue[p])],
           \A q \in Procs : q # p => current'[q] = current[q],
           \A s \in Requests : s # Head(queue[p]) => told'[s] = told[s],
           Requested(Log)' \in {Requested(Log), Append(Requested(Log), Head(queue[p]))},
           current'[p] = Idle \/ current'[p].request = Head(queue[p])
    PROVE  NumberedInv' /\ Waits(p)' /\ \A q \in Procs : q # p => queue'[q] = queue[q] /\ current'[q] = current[q]
<1> DEFINE Q == queue[p]
           T == Tail(Q)
           r == Head(Q)
           R == ToSet(Requested(Log))
<1>1. /\ Q \in Seq(Requests) /\ queue'[p] = T
      /\ \A q \in Procs : q # p => queue'[q] = queue[q] /\ current'[q] = current[q]
  BY DEF StoreInv, CallersOK
<1>2. /\ Len(Q) \in Nat /\ 1 \in DOMAIN Q /\ r = Q[1] /\ DOMAIN Q = 1..Len(Q) /\ DOMAIN T = 1..Len(Q) - 1
      /\ \A i \in 1..Len(Q) - 1 : T[i] = Q[i + 1] /\ i + 1 \in DOMAIN Q
  BY <1>1, TailIs
<1>3. \A i \in DOMAIN Q : Q[i] \in Requests BY <1>1
<1>4. /\ \A i \in DOMAIN Q : /\ told[Q[i]] = "none" /\ Q[i] <= arrived
                             /\ \A s \in R : s < Q[i]
      /\ \A i, j \in DOMAIN Q : i < j => Q[i] < Q[j]
  BY DEF JournalInv, Waits, Rising
<1>5. /\ Requests \subseteq Nat /\ R \subseteq Requests /\ arrived \in Nat
  BY DurableIsRequested, RequestsAre DEF JournalInv, StoreInv, CallersOK
<1>6. r \in Requests /\ r <= arrived BY <1>2, <1>3, <1>4
<1>7. ToSet(Requested(Log)') \subseteq R \cup {r}
  <2>1. Requested(Log) \in Seq(Requests) BY RequestedAre
  <2>2. ToSet(Append(Requested(Log), r)) = R \cup {r} BY <1>6, <2>1, OneMore
  <2> QED BY <2>2
<1> HIDE DEF Q, T, r, R
<1>8. NumberedInv'
  <2>1. \A s \in R \cup {r} : s <= arrived BY <1>6 DEF JournalInv, NumberedInv, R
  <2>2. ASSUME NEW s \in Requests, s > arrived PROVE told'[s] = "none"
    <3>1. s # r BY <1>5, <1>6, <2>2
    <3> QED BY <2>2, <3>1 DEF JournalInv, NumberedInv, r, Q
  <2> QED BY <1>7, <2>1, <2>2 DEF NumberedInv
<1>9. ASSUME NEW i \in DOMAIN T
      PROVE  /\ told'[T[i]] = "none" /\ T[i] <= arrived /\ r < T[i]
             /\ \A s \in R \cup {r} : s < T[i]
  <2>1. T[i] = Q[i + 1] /\ i + 1 \in DOMAIN Q /\ 1 < i + 1 BY <1>2
  <2>2. r < T[i] BY <1>2, <1>4, <2>1
  <2>3. T[i] \in Requests /\ r # T[i]
    <3>1. T[i] \in Requests BY <1>3, <2>1
    <3>2. r \in Nat BY <1>5, <1>6
    <3>3. ~(r < r) BY <3>2
    <3> QED BY <2>2, <3>1, <3>3
  <2>4. told'[T[i]] = told[T[i]] BY <2>3 DEF r, Q
  <2> QED BY <1>4, <2>1, <2>2, <2>4
<1>10. ASSUME NEW i \in DOMAIN T, NEW j \in DOMAIN T, i < j PROVE T[i] < T[j]
  <2>1. T[i] = Q[i + 1] /\ T[j] = Q[j + 1] /\ i + 1 \in DOMAIN Q /\ j + 1 \in DOMAIN Q /\ i + 1 < j + 1
    BY <1>2, <1>10
  <2> QED BY <1>4, <2>1
<1>11. Waits(p)' BY <1>1, <1>7, <1>9, <1>10 DEF Waits, Rising, r, Q
<1> QED BY <1>1, <1>8, <1>11

LEMMA TransactTold ==
    ASSUME StoreInv, StoreInv', JournalInv, NEW p \in Procs, Transact(p)
    PROVE  JournalInv' /\ JournalStep
<1>0. /\ Up(p) /\ Serving(p) /\ queue[p] # <<>> /\ current[p] = Idle
      /\ UNCHANGED <<arrived, checkpoint>>
  BY DEF Transact, Up, Serving
<1> DEFINE r == Head(queue[p])
<1>1. PICK now \in 0..MaxTime :
        \/ TellHead(p, "unlogged")
        \/ /\ store[p].phase = "running"
           /\ queue' = [queue EXCEPT ![p] = Tail(@)]
           /\ \/ /\ Appended("wal", Transaction(r, now))
                 /\ store' = [store EXCEPT ![p].memory = Append(@, Transaction(r, now)), ![p].last = now]
                 /\ current' = [current EXCEPT ![p] =
                                  [request |-> r, stage |-> "projecting", todo |-> Entries[r]]]
              \/ /\ AppendFailed("wal", Transaction(r, now))
                 /\ store' = [store EXCEPT ![p].phase = "poisoned"]
                 /\ current' = [current EXCEPT ![p] =
                                  [request |-> r, stage |-> "failed", todo |-> {}]]
           /\ UNCHANGED told
  BY DEF Transact, Writable
<1> DEFINE line == Transaction(r, now)
<1>2. r \in Requests /\ r = queue[p][1] /\ 1 \in DOMAIN queue[p]
  BY <1>0, TailIs DEF StoreInv, CallersOK
<1>3. line \in Line /\ Taken(line, Requests) /\ line.request = r
  BY <1>2 DEF Transaction, Line, Taken
<1>4. told[r] = "none" /\ r <= arrived /\ \A s \in ToSet(Requested(Log)) : s < r
  BY <1>2 DEF JournalInv, Waits
<1>5. /\ ToSet(Durable) \subseteq ToSet(Requested(Log)) /\ ToSet(Requested(Log)) \subseteq Requests
      /\ Requests \subseteq Nat
      /\ Requested(Log) \in Seq(Requests)
  BY DurableIsRequested, RequestedAre DEF JournalInv
<1>6. r \notin ToSet(Requested(Log))
  <2> HIDE DEF r
  <2>1. r \in Nat BY <1>2, <1>5
  <2>2. ~(r < r) BY <2>1
  <2> QED BY <1>4, <2>2
<1>7. J!ToSet(Durable) = ToSet(Durable) BY DEF J!ToSet, ToSet
<1> HIDE DEF line
<1>8. CASE TellHead(p, "unlogged")
  <2>1. /\ told' = [told EXCEPT ![r] = "unlogged"] /\ queue' = [queue EXCEPT ![p] = Tail(queue[p])]
        /\ UNCHANGED <<disk, store, current>>
    BY <1>8 DEF TellHead
  <2>2. Requested(Log)' = Requested(Log) /\ Durable' = Durable /\ CutInv'
    BY <2>1, LogStays DEF JournalInv
  <2>3. \A s \in Requests : s # r => told'[s] = told[s] BY <2>1 DEF StoreInv, CallersOK
  <2>4. Serving(p)' /\ current'[p] = Idle BY <1>0, <2>1 DEF Serving
  <2>5. /\ NumberedInv' /\ Waits(p)'
        /\ \A q \in Procs : q # p => queue'[q] = queue[q] /\ current'[q] = current[q]
    BY <1>0, <2>1, <2>2, <2>3, <2>4, HeadTaken
  <2>6. Works(p)' BY <2>4 DEF Works
  <2>7. \A s \in ToSet(Requested(Log)) : told'[s] = told[s] BY <1>5, <1>6, <2>3
  <2>8. PendingInv' BY <2>2, <2>7, StillPending DEF JournalInv
  <2>9. J!Tell(r, "unlogged") BY <1>4, <1>5, <1>6, <1>7, <2>1, <2>2 DEF J!Tell
  <2>10. JournalStep BY <1>2, <2>9 DEF JournalStep, J!JournalNext, J!Answers
  <2> QED BY <1>0, <2>2, <2>5, <2>6, <2>8, <2>10, OnlyAtWork DEF JournalInv
<1>9. CASE /\ store[p].phase = "running"
           /\ queue' = [queue EXCEPT ![p] = Tail(@)]
           /\ Appended("wal", line)
           /\ store' = [store EXCEPT ![p].memory = Append(@, line), ![p].last = now]
           /\ current' = [current EXCEPT ![p] =
                            [request |-> r, stage |-> "projecting", todo |-> Entries[r]]]
           /\ UNCHANGED told
  <2>1. /\ OnlyFile("wal", Append(Log, line)) /\ disk'["wal"].synced = Len(disk'["wal"].lines) /\ DiskOK'
    BY <1>0, <1>3, <1>9, LogIs, AppendedIs DEF StoreInv, Log
  <2>2. Log' = Append(Log, line) BY <2>1 DEF OnlyFile, Log, Lines
  <2>3. Requested(Append(Log, line)) = Append(Requested(Log), r) BY <1>3, LogIs, RequestedAppend
  <2>4. Requested(Log)' = Append(Requested(Log), r) BY <2>2, <2>3
  <2>5. Durable' = Requested(Log)' /\ CutInv' BY <2>1, LogSynced
  <2>6. Durable = Requested(Log) BY <1>9, RunningIsDurable
  <2>7. /\ Serving(p)' /\ current'[p] = [request |-> r, stage |-> "projecting", todo |-> Entries[r]]
        /\ \A q \in Procs : q # p => current'[q] = current[q]
    BY <1>9 DEF StoreInv, StoresOK, CallersOK, Serving, Store
  <2>8. current'[p].request = r /\ current'[p].stage = "projecting" BY <2>7
  <2>9. /\ NumberedInv' /\ Waits(p)'
        /\ \A q \in Procs : q # p => queue'[q] = queue[q] /\ current'[q] = current[q]
    BY <1>0, <1>9, <2>4, <2>7, <2>8, HeadTaken
  <2>10. r \in ToSet(Requested(Log)') BY <1>2, <1>5, <2>4, OneMore
  <2>11. Works(p)' BY <1>0, <1>2, <1>4, <1>9, <2>8, <2>10 DEF Works
  <2>12. PendingInv' BY <2>5 DEF PendingInv
  <2>13. J!Commit(r) BY <1>4, <1>5, <1>7, <1>9, <2>4, <2>5, <2>6 DEF J!Commit, J!Joins
  <2>14. JournalStep BY <1>2, <2>13 DEF JournalStep, J!JournalNext
  <2> QED BY <1>0, <2>5, <2>9, <2>11, <2>12, <2>14, OnlyAtWork DEF JournalInv
<1>10. CASE /\ store[p].phase = "running"
            /\ queue' = [queue EXCEPT ![p] = Tail(@)]
            /\ AppendFailed("wal", line)
            /\ store' = [store EXCEPT ![p].phase = "poisoned"]
            /\ current' = [current EXCEPT ![p] = [request |-> r, stage |-> "failed", todo |-> {}]]
            /\ UNCHANGED told
  <2>1. Durable = Requested(Log) BY <1>10, RunningIsDurable
  <2>2. /\ Durable' = Durable /\ CutInv'
        /\ Requested(Log)' \in {Requested(Log), Append(Requested(Log), r)}
    BY <1>0, <1>3, <1>10, <2>1, LineUnsynced DEF JournalInv
  <2>3. /\ Serving(p)' /\ current'[p] = [request |-> r, stage |-> "failed", todo |-> {}]
        /\ \A q \in Procs : q # p => current'[q] = current[q]
    BY <1>10 DEF StoreInv, StoresOK, CallersOK, Serving, Store
  <2>4. current'[p].request = r /\ current'[p].stage = "failed" BY <2>3
  <2>5. /\ NumberedInv' /\ Waits(p)'
        /\ \A q \in Procs : q # p => queue'[q] = queue[q] /\ current'[q] = current[q]
    BY <1>0, <1>10, <2>2, <2>3, <2>4, HeadTaken
  <2>6. Works(p)' BY <1>0, <1>2, <1>4, <1>10, <2>4 DEF Works
  <2>7. PendingInv'
    <3>1. CASE Requested(Log)' = Requested(Log) BY <2>1, <2>2, <3>1 DEF PendingInv
    <3>2. CASE Requested(Log)' = Append(Requested(Log), r)
      BY <1>2, <1>4, <1>10, <2>1, <2>2, <3>2 DEF PendingInv
    <3> QED BY <2>2, <3>1, <3>2
  <2>8. JournalStep BY <1>10, <2>2 DEF JournalStep
  <2> QED BY <1>0, <2>2, <2>5, <2>6, <2>7, <2>8, OnlyAtWork DEF JournalInv
<1> QED BY <1>1, <1>8, <1>9, <1>10 DEF line

LEMMA ProjectTold ==
    ASSUME StoreInv, StoreInv', JournalInv, NEW p \in Procs, Project(p)
    PROVE  JournalInv' /\ JournalStep
<1>0. /\ Up(p) /\ Serving(p) /\ current[p].stage = "projecting"
      /\ UNCHANGED <<queue, told, arrived, checkpoint>>
  BY DEF Project, Up, Serving
<1>1. PICK f \in current[p].todo :
        \/ /\ Appended(f, Entry(current[p].request))
           /\ current' = [current EXCEPT ![p].todo = @ \ {f}]
           /\ UNCHANGED store
        \/ /\ AppendFailed(f, Entry(current[p].request))
           /\ current' = [current EXCEPT ![p].stage = "failed"]
           /\ store' = [store EXCEPT ![p].phase = "poisoned"]
  BY DEF Project
<1>2. current[p] \in Transacting /\ current[p] # Idle BY <1>0, DownIs DEF StoreInv, CallersOK
<1>3. f \in Chains BY <1>1, <1>2 DEF Transacting
<1>4. disk'["wal"] = disk["wal"] BY <1>1, <1>3, AnotherFile DEF StoreInv
<1>5. Requested(Log)' = Requested(Log) /\ Durable' = Durable /\ CutInv' BY <1>4, LogStays DEF JournalInv
<1>6. /\ current'[p].request = current[p].request /\ current'[p].stage \in {current[p].stage, "failed"}
      /\ \A q \in Procs : q # p => current'[q] = current[q]
  BY <1>1, <1>2 DEF StoreInv, CallersOK, Transacting
<1>7. Serving(p)' /\ \A q \in Procs : q # p => store'[q] = store[q]
  BY <1>0, <1>1 DEF StoreInv, StoresOK, Serving, Store
<1>8. ASSUME NEW q \in Procs PROVE queue[q] = <<>> \/ Serving(q)'
  <2>1. CASE q = p BY <1>7, <2>1
  <2>2. CASE q # p BY <1>7, <2>2, QueueIs DEF Serving
  <2> QED BY <2>1, <2>2
<1>9. ASSUME NEW q \in Procs
      PROVE  \/ current'[q] = current[q]
             \/ /\ current[q] # Idle /\ current'[q].request = current[q].request
                /\ current'[q].stage \in {current[q].stage, "failed"}
  BY <1>2, <1>6
<1> QED BY <1>0, <1>5, <1>8, <1>9, Quiet

LEMMA AnswerTold ==
    ASSUME StoreInv, StoreInv', JournalInv, NEW p \in Procs, Answer(p)
    PROVE  JournalInv' /\ JournalStep
<1> DEFINE c == current[p].request
           answer == IF current[p].stage = "failed" THEN "unknown" ELSE "committed"
<1>1. /\ Up(p) /\ Serving(p) /\ current[p] # Idle
      /\ told' = [told EXCEPT ![c] = answer]
      /\ current' = [current EXCEPT ![p] = Idle]
      /\ UNCHANGED <<disk, store, queue, arrived>>
  BY DEF Answer, Up, Serving
<1>2. /\ c \in Requests /\ current[p].stage \in {"projecting", "failed"} /\ told[c] = "none" /\ c <= arrived
      /\ current[p].stage = "projecting" => c \in ToSet(Requested(Log))
  BY <1>1 DEF JournalInv, Works
<1>3. Requested(Log)' = Requested(Log) /\ Durable' = Durable /\ CutInv'
  BY <1>1, LogStays DEF JournalInv
<1>4. answer = "committed" => Durable = Requested(Log) /\ c \in ToSet(Durable)
  <2>1. SUFFICES ASSUME answer = "committed" PROVE Durable = Requested(Log) /\ c \in ToSet(Durable) OBVIOUS
  <2>2. current[p].stage = "projecting" BY <1>2, <2>1
  <2>3. store[p].phase = "running" BY <1>1, <2>2 DEF StoreInv, Settled, AtWork, Serving
  <2>4. Durable = Requested(Log) BY <2>3, RunningIsDurable
  <2> QED BY <1>2, <2>2, <2>4
<1>5. answer \in {"committed", "unknown"} OBVIOUS
<1>6. J!ToSet(Durable) = ToSet(Durable) BY DEF J!ToSet, ToSet
<1> HIDE DEF answer, c
<1>7. told'[c] = answer /\ \A s \in Requests : s # c => told'[s] = told[s]
  BY <1>1, <1>2 DEF StoreInv, CallersOK
<1>8. ToSet(Requested(Log)) \subseteq Requests /\ Requests \subseteq Nat BY DurableIsRequested DEF JournalInv
<1>9. PendingInv'
  <2>1. \A s \in ToSet(Requested(Log)) :
           told'[s] = told[s] \/ told'[s] = "unknown" \/ Requested(Log) = Durable
    BY <1>4, <1>5, <1>7, <1>8
  <2> QED BY <1>3, <2>1, StillPending DEF JournalInv
<1>10. NumberedInv'
  <2>1. arrived \in Nat BY RequestsAre DEF StoreInv, CallersOK
  <2>2. \A s \in Requests : s > arrived => s # c BY <1>2, <1>8, <2>1
  <2> QED BY <1>1, <1>3, <1>7, <2>2 DEF JournalInv, NumberedInv
<1>11. current'[p] = Idle /\ \A q \in Procs : q # p => current'[q] = current[q]
  BY <1>1 DEF StoreInv, CallersOK
<1>12. Waits(p)'
  <2>1. queue[p] \in Seq(Requests) BY DEF StoreInv, CallersOK
  <2>2. ASSUME NEW i \in DOMAIN queue[p] PROVE told'[queue[p][i]] = told[queue[p][i]]
    <3>1. c < queue[p][i] /\ queue[p][i] \in Requests BY <1>1, <2>1 DEF JournalInv, Waits, c
    <3>2. c \in Nat /\ ~(c < c) BY <1>2, <1>8
    <3> QED BY <1>7, <3>1, <3>2
  <2> QED BY <1>1, <1>3, <1>11, <2>2 DEF JournalInv, Waits, Serving
<1>13. Works(p)' BY <1>11 DEF Works
<1>14. J!Tell(c, answer) BY <1>1, <1>2, <1>3, <1>4, <1>5, <1>6 DEF J!Tell
<1>15. JournalStep BY <1>2, <1>5, <1>14 DEF JournalStep, J!JournalNext, J!Answers
<1> QED BY <1>1, <1>3, <1>9, <1>10, <1>11, <1>12, <1>13, <1>15, OnlyAtWork DEF JournalInv

LEMMA CloseTold ==
    ASSUME StoreInv, StoreInv', JournalInv, NEW p \in Procs, Close(p)
    PROVE  JournalInv' /\ JournalStep
<1>1. Up(p) /\ Shut(p) /\ UNCHANGED <<disk, arrived>> BY DEF Close, Up, Serving
<1> QED BY <1>1, NotTheLogShut DEF StoreInv

\* Whoever waits when a process dies never hears what became of the request.
LEMMA WaitingAre ==
    ASSUME StoreInv, JournalInv, NEW p \in Procs, NEW r \in Waiting(p)
    PROVE  told[r] = "none" /\ r <= arrived
<1>1. CASE r \in ToSet(queue[p]) BY <1>1 DEF JournalInv, Waits, ToSet
<1>2. CASE r = current[p].request /\ r # NoRequest
  <2>1. current[p] # Idle BY <1>2 DEF Idle
  <2> QED BY <1>2, <2>1 DEF JournalInv, Works
<1> QED BY <1>1, <1>2 DEF Waiting

LEMMA BrokenOff ==
    ASSUME StoreInv, StoreInv', JournalInv, CutInv', UNCHANGED arrived,
           NEW died, died \subseteq Procs,
           told' = [r \in Requests |-> IF \E p \in died : r \in Waiting(p) THEN "unknown" ELSE told[r]],
           \A p \in Procs : queue'[p] = <<>> /\ current'[p] = Idle,
           \/ UNCHANGED <<Durable, Requested(Log)>>
           \/ Durable' = Requested(Log)' /\ Durable' \in {Durable, Requested(Log)}
    PROVE  JournalInv' /\ JournalStep
<1>1. /\ ToSet(Durable) \subseteq ToSet(Requested(Log)) /\ ToSet(Requested(Log)) \subseteq Requests
      /\ Requests \subseteq Nat /\ arrived \in Nat
  BY DurableIsRequested, RequestsAre DEF JournalInv, StoreInv, CallersOK
<1>2. ASSUME NEW r \in Requests, told'[r] # told[r]
      PROVE  told[r] = "none" /\ told'[r] = "unknown" /\ r <= arrived
  <2>1. PICK p \in died : r \in Waiting(p) BY <1>2
  <2> QED BY <2>1, WaitingAre
<1>3. PendingInv'
  <2>1. CASE UNCHANGED <<Durable, Requested(Log)>>
    <3>1. \A r \in ToSet(Requested(Log)) : told'[r] = told[r] \/ told'[r] = "unknown" BY <1>1, <1>2
    <3> QED BY <2>1, <3>1, StillPending DEF JournalInv
  <2>2. CASE Durable' = Requested(Log)' BY <2>2 DEF PendingInv
  <2> QED BY <2>1, <2>2
<1>4. NumberedInv'
  <2>1. ToSet(Requested(Log)') \subseteq ToSet(Requested(Log)) BY <1>1
  <2>2. ASSUME NEW r \in Requests, r > arrived PROVE told'[r] = "none"
    <3>1. ~(r <= arrived) /\ told[r] = "none" BY <1>1, <2>2 DEF JournalInv, NumberedInv
    <3> QED BY <1>2, <3>1
  <2> QED BY <2>1, <2>2 DEF JournalInv, NumberedInv
<1>5. \A p \in Procs : Waits(p)' /\ Works(p)' BY Free
<1>6. JournalStep
  <2>1. told' \in [Requests -> J!Answers] BY DEF StoreInv, CallersOK, J!Answers
  <2>2. Durable' = Durable \/ \E r \in Requests : J!Joins(r) BY DurableGrows DEF JournalInv
  <2>3. J!BreakOff BY <1>2, <2>1, <2>2 DEF J!BreakOff
  <2> QED BY <2>3 DEF JournalStep, J!JournalNext
<1> QED BY <1>3, <1>4, <1>5, <1>6 DEF JournalInv

LEMMA CrashTold ==
    ASSUME StoreInv, StoreInv', JournalInv, NEW p \in Procs, Crash(p)
    PROVE  JournalInv' /\ JournalStep
<1>1. /\ Up(p) /\ queue' = [queue EXCEPT ![p] = <<>>] /\ current' = [current EXCEPT ![p] = Idle]
      /\ told' = [r \in Requests |-> IF r \in Waiting(p) THEN "unknown" ELSE told[r]]
      /\ UNCHANGED <<disk, arrived>>
  BY DEF Crash, Up
<1>2. Requested(Log)' = Requested(Log) /\ Durable' = Durable /\ CutInv'
  BY <1>1, LogStays DEF JournalInv
<1>3. \A q \in Procs : queue'[q] = <<>> /\ current'[q] = Idle
  BY <1>1, NobodyWaits DEF StoreInv, CallersOK
<1>4. told' = [r \in Requests |-> IF \E q \in {p} : r \in Waiting(q) THEN "unknown" ELSE told[r]]
  BY <1>1
<1> DEFINE died == {p}
<1>5. died \subseteq Procs OBVIOUS
<1>6. told' = [r \in Requests |-> IF \E q \in died : r \in Waiting(q) THEN "unknown" ELSE told[r]] BY <1>4
<1> HIDE DEF died
<1> QED BY <1>1, <1>2, <1>3, <1>5, <1>6, BrokenOff

LEMMA PowerLossTold ==
    ASSUME StoreInv, StoreInv', JournalInv, PowerLoss
    PROVE  JournalInv' /\ JournalStep
<1>1. /\ queue' = [p \in Procs |-> <<>>] /\ current' = [p \in Procs |-> Idle]
      /\ told' = [r \in Requests |-> IF \E p \in Procs : r \in Waiting(p) THEN "unknown" ELSE told[r]]
      /\ UNCHANGED arrived
  BY DEF PowerLoss
<1>2. disk'["wal"].lines \in Remains(disk["wal"]) /\ disk'["wal"].synced = Len(disk'["wal"].lines)
  BY PowerLossLeaves, FilesAre
<1>3. Whole(Log) \/ TornTail(Log) BY FilesAre DEF StoreInv, FilesInv, Readable, Log
<1>4. Durable' = Requested(Log)' /\ Durable' \in {Durable, Requested(Log)} /\ CutInv'
  BY <1>2, <1>3, LogLost DEF StoreInv, JournalInv
<1> QED BY <1>1, <1>4, BrokenOff

LEMMA JournalInit == Init => JournalInv /\ J!JournalInit
<1> SUFFICES ASSUME Init PROVE JournalInv /\ J!JournalInit OBVIOUS
<1>1. /\ disk = [f \in Files |-> [lines |-> <<>>, synced |-> 0]]
      /\ store = [p \in Procs |-> Down] /\ queue = [p \in Procs |-> <<>>]
      /\ current = [p \in Procs |-> Idle] /\ told = [r \in Requests |-> "none"] /\ arrived = 0
  BY DEF Init
<1>2. Log = <<>> /\ disk["wal"].synced = 0 /\ SubSeq(<<>>, 1, 0) = <<>>
  BY <1>1, FilesAre DEF Log, Lines
<1>3. Requested(<<>>) = <<>>
  <2>1. Replay(<<>>) = <<>> BY LoggedOfNothing DEF Replay
  <2> QED BY <2>1 DEF Requested
<1>4. Requested(Log) = <<>> /\ Durable = <<>> BY <1>2, <1>3 DEF Durable, Log
<1>5. CutInv
  <2>1. Len(<<>>) = 0 /\ \A n \in 0..0 : n = 0 OBVIOUS
  <2> QED BY <1>2, <1>3, <1>4, <2>1 DEF CutInv
<1>6. PendingInv BY <1>4 DEF PendingInv
<1>7. NumberedInv
  <2>1. ToSet(<<>>) = {} BY DEF ToSet
  <2> QED BY <1>1, <1>4, <2>1 DEF NumberedInv
<1>8. \A p \in Procs : Waits(p) /\ Works(p) BY <1>1 DEF Waits, Works, Rising
<1>9. J!JournalInit BY <1>1, <1>4 DEF J!JournalInit
<1> QED BY <1>5, <1>6, <1>7, <1>8, <1>9 DEF JournalInv

LEMMA JournalNext ==
    ASSUME StoreInv, StoreInv', JournalInv, [Next]_vars
    PROVE  JournalInv' /\ JournalStep
<1>1. ASSUME disk' = disk, UNCHANGED <<store, queue, current, told, arrived>>
      PROVE  JournalInv' /\ JournalStep
  <2>1. \A q \in Procs : queue[q] = <<>> \/ Serving(q)' BY <1>1, QueueIs DEF Serving
  <2> QED BY <1>1, <2>1, NotTheLog
<1>2. CASE UNCHANGED vars BY <1>1, <1>2 DEF vars
<1>3. ASSUME NEW p \in Procs,
             \/ Open(p) \/ Recover(p) \/ Materialize(p) \/ Verify(p) \/ BeginRun(p)
             \/ Arrive(p) \/ Transact(p) \/ Project(p) \/ Answer(p)
             \/ Close(p) \/ Crash(p)
      PROVE  JournalInv' /\ JournalStep
  BY <1>3, OpenTold, RecoverTold, MaterializeTold, VerifyTold, BeginRunTold, ArriveTold,
     TransactTold, ProjectTold, AnswerTold, CloseTold, CrashTold
<1>4. CASE PowerLoss BY <1>4, PowerLossTold
<1>5. CASE ClearLease BY <1>1, <1>5 DEF ClearLease
<1>6. CASE WriteCheckpoint BY <1>1, <1>6 DEF WriteCheckpoint
<1> QED BY <1>2, <1>3, <1>4, <1>5, <1>6 DEF Next

\* The store keeps the journal that its callers may rely on: what is committed stays, in the
\* order of arrival, and every answer is true of it, whatever append fails, wherever a
\* process dies and however much of the unsynced log a power loss takes.
THEOREM StoreImplementsJournal == Spec => ImplementsJournal
<1>1. Init => StoreInv /\ JournalInv /\ J!JournalInit BY StoreInit, JournalInit
<1>2. StoreInv /\ JournalInv /\ [Next]_vars => (StoreInv /\ JournalInv)' /\ [J!JournalNext]_<<Durable, told>>
  <2> SUFFICES ASSUME StoreInv, JournalInv, [Next]_vars
               PROVE  StoreInv' /\ JournalInv' /\ JournalStep
    BY DEF JournalStep
  <2>1. StoreInv' BY StoreNext
  <2> QED BY <2>1, JournalNext
<1> QED BY <1>1, <1>2, PTL DEF Spec, ImplementsJournal, J!JournalSpec
=============================================================================
