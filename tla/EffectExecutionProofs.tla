----------------------- MODULE EffectExecutionProofs -----------------------
(***************************************************************************)
(* Proofs about executing commitments, for every set of keys, every number *)
(* of crashes, restarts, replaced ledgers and lost messages.               *)
(*                                                                         *)
(* The argument: a token is only ever in the memory of the host process    *)
(* whose boot its commitment names (TokensAreCurrent), so that an effect   *)
(* can only come from that boot; while the ledger is kept, an effect that  *)
(* happened is in it (LedgerIsTrue); an answer "absent" from a later boot  *)
(* with the same ledger is therefore true, and stays true, since that boot *)
(* can have no token any more (AnswersAreTrue).                            *)
(***************************************************************************)
EXTENDS EffectProperties, TLAPS

Committed(k) == commitments[k].state \notin {"open", "refused"}

Happened(k, outcome) == effects[k].times = 1 /\ effects[k].outcome = outcome

NothingYet ==
    \A k \in Keys : ~Committed(k) => effects[k].times = 0 /\ commitments[k].outcome = "none"

BindingsAreOld ==
    \A k \in Keys : Committed(k) =>
        /\ commitments[k].boot <= host.boot
        /\ commitments[k].store <= host.store
        /\ host.up /\ commitments[k].boot = host.boot => commitments[k].store = host.store

TokensAreCurrent ==
    \A k \in Keys :
        /\ memory[k].state # "none" => host.up
        /\ memory[k].state = "token" => Committed(k) /\ commitments[k].boot = host.boot

MessageIsTrue(m) ==
    /\ m.kind = "verify" => /\ m.boot <= host.boot /\ m.store <= host.store
                            /\ host.up /\ m.boot = host.boot => m.store = host.store
    /\ m.kind = "token" => Committed(m.key) /\ commitments[m.key].boot = m.boot
    /\ m.kind = "report" => Happened(m.key, m.entry.outcome)

MessagesAreTrue == \A m \in network : MessageIsTrue(m)

LedgerIsTrue ==
    \A k \in Keys :
        /\ effects[k].times \in {0, 1}
        /\ effects[k].times = 1 => /\ Committed(k)
                                   /\ effects[k].outcome \in Outcomes
                                   /\ ledger[k] # NoEntry \/ commitments[k].store < host.store
        /\ ledger[k] # NoEntry => Happened(k, ledger[k].outcome) /\ Matches(k, ledger[k])

OutcomesAreTrue ==
    \A k \in Keys :
        /\ commitments[k].outcome \in {"success", "failed"} => Happened(k, commitments[k].outcome)
        /\ commitments[k].outcome = "no-effect" =>
             effects[k].times = 0 /\ commitments[k].boot < host.boot
        /\ Unresolved(k) => commitments[k].outcome = "none"

AnswersAreTrue ==
    LET k == maintenance.key
        answer == maintenance.answer
    IN  /\ maintenance.phase \in {"probe", "act"} => k \in Keys /\ Committed(k)
        /\ answer.state \in {"recorded", "absent"} => maintenance.phase = "act"
        /\ answer.state = "recorded" => Happened(k, answer.entry.outcome)
        /\ answer.state = "absent" =>
             /\ answer.boot <= host.boot
             /\ ProvesAbsence(k, answer) =>
                  effects[k].times = 0 /\ commitments[k].boot < answer.boot

Inv ==
    /\ TypeOK
    /\ NothingYet /\ BindingsAreOld /\ TokensAreCurrent /\ MessagesAreTrue
    /\ LedgerIsTrue /\ OutcomesAreTrue /\ AnswersAreTrue

\* What a message is made of, so that a step which builds one builds a Message.
LEMMA MessageShapes ==
  ASSUME TypeOK, NEW m \in network
  PROVE  /\ m \in Message /\ m.key \in Keys
         /\ m.kind = "report" => m.entry \in Entry /\ m.entry.outcome \in Outcomes
         /\ m.kind \in {"verify", "token", "refused", "consumed"} => m.boot \in Nat /\ m.ask \in Nat
         /\ m.kind = "verify" => m.store \in Nat
         /\ m.kind = "token" => m.deadline \in Nat
  BY SMT DEF TypeOK, Message, Entry

\* A recorded commitment keeps the shape of a commitment.
LEMMA RecordedShape ==
  ASSUME TypeOK, NEW k \in Keys, NEW outcome \in Known
  PROVE  Recorded(k, outcome) \in [Keys -> Commitment]
  BY SMT DEF TypeOK, Recorded, Commitment

\* The empty values belong to the sets the variables range over.
LEMMA NothingShapes == NoAnswer \in Answer /\ Idle \in Pass /\ NoEntry \notin Entry /\ Empty \in Slot
<1>1. NoAnswer \in Answer  BY SMT DEF NoAnswer, Answer
<1>2. Idle \in Pass  BY <1>1, SMT DEF Idle, Pass
<1>3. NoEntry \notin Entry  BY ExecutionAssumption, SMT DEF NoEntry, Entry
<1>4. Empty \in Slot  BY SMT DEF Empty, Slot
<1>. QED  BY <1>1, <1>2, <1>3, <1>4

\* Every outcome a dispatch can have is one the runtime can learn.
LEMMA OutcomesAreKnown == Outcomes \subseteq Known
  BY ExecutionAssumption DEF Known

-----------------------------------------------------------------------------
\* The clock is in none of the facts about effects.
LEMMA TickTypes == ASSUME TypeOK, Tick PROVE TypeOK'
  BY SMT DEF TypeOK, Tick

LEMMA TickPreserves == ASSUME Inv, Tick PROVE Inv'
<1>1. TypeOK'  BY TickTypes DEF Inv
<1>2. NothingYet'
  BY SMT DEF Inv, NothingYet, Tick, Committed
<1>3. BindingsAreOld'
  BY SMT DEF Inv, BindingsAreOld, Tick, Committed
<1>4. TokensAreCurrent'
  BY SMT DEF Inv, TokensAreCurrent, Tick, Committed
<1>5. MessagesAreTrue'
  BY SMT DEF Inv, MessagesAreTrue, Tick, MessageIsTrue, Committed, Happened
<1>6. LedgerIsTrue'
  BY SMT DEF Inv, LedgerIsTrue, Tick, Committed, Happened, Matches
<1>7. OutcomesAreTrue'
  BY SMT DEF Inv, OutcomesAreTrue, Tick, Happened, Unresolved
<1>8. AnswersAreTrue'
  BY SMT DEF Inv, AnswersAreTrue, Tick, Committed, Happened, ProvesAbsence
<1>. QED  BY <1>1, <1>2, <1>3, <1>4, <1>5, <1>6, <1>7, <1>8 DEF Inv

\* The host asks with its own boot and ledger, which is all MessagesAreTrue says of a verification.
LEMMA AskTypes == ASSUME TypeOK, NEW k \in Keys, Ask(k) PROVE TypeOK'
<1>1. memory' \in [Keys -> Slot]
  BY ExecutionAssumption, SMT DEF TypeOK, Ask, Slot
<1>2. network' \subseteq Message
  BY ExecutionAssumption, SMT DEF TypeOK, Ask, Message
<1>. QED  BY <1>1, <1>2, SMT DEF TypeOK, Ask

LEMMA AskPreserves == ASSUME Inv, NEW k \in Keys, Ask(k) PROVE Inv'
<1>1. TypeOK'  BY AskTypes DEF Inv
<1>2. NothingYet'
  BY SMT DEF Inv, NothingYet, Ask, Committed
<1>3. BindingsAreOld'
  BY SMT DEF Inv, BindingsAreOld, Ask, Committed
<1>4. TokensAreCurrent'
  BY SMT DEF Inv, TokensAreCurrent, Ask, Committed
<1>5. MessagesAreTrue'
  BY SMT DEF Inv, TypeOK, MessagesAreTrue, Ask, MessageIsTrue, Committed, Happened
<1>6. LedgerIsTrue'
  BY SMT DEF Inv, LedgerIsTrue, Ask, Committed, Happened, Matches
<1>7. OutcomesAreTrue'
  BY SMT DEF Inv, OutcomesAreTrue, Ask, Happened, Unresolved
<1>8. AnswersAreTrue'
  BY SMT DEF Inv, AnswersAreTrue, Ask, Committed, Happened, ProvesAbsence
<1>. QED  BY <1>1, <1>2, <1>3, <1>4, <1>5, <1>6, <1>7, <1>8 DEF Inv

\* A call that fails empties its slot; no token is lost by it, since none had arrived.
LEMMA AskFailsTypes == ASSUME TypeOK, NEW k \in Keys, AskFails(k) PROVE TypeOK'
<1>1. memory' \in [Keys -> Slot]
  BY ExecutionAssumption, SMT DEF TypeOK, AskFails, Slot, Empty
<1>. QED  BY <1>1, SMT DEF TypeOK, AskFails

LEMMA AskFailsPreserves == ASSUME Inv, NEW k \in Keys, AskFails(k) PROVE Inv'
<1>1. TypeOK'  BY AskFailsTypes DEF Inv
<1>2. NothingYet'
  BY SMT DEF Inv, NothingYet, AskFails, Committed
<1>3. BindingsAreOld'
  BY SMT DEF Inv, BindingsAreOld, AskFails, Committed
<1>4. TokensAreCurrent'
  BY SMT DEF Inv, TokensAreCurrent, AskFails, Empty, Committed
<1>5. MessagesAreTrue'
  BY SMT DEF Inv, MessagesAreTrue, AskFails, MessageIsTrue, Committed, Happened
<1>6. LedgerIsTrue'
  BY SMT DEF Inv, LedgerIsTrue, AskFails, Committed, Happened, Matches
<1>7. OutcomesAreTrue'
  BY SMT DEF Inv, OutcomesAreTrue, AskFails, Happened, Unresolved
<1>8. AnswersAreTrue'
  BY SMT DEF Inv, AnswersAreTrue, AskFails, Committed, Happened, ProvesAbsence
<1>. QED  BY <1>1, <1>2, <1>3, <1>4, <1>5, <1>6, <1>7, <1>8 DEF Inv

\* What the host serves and reports comes from the ledger, whose entries are true (LedgerIsTrue).
LEMMA ServeRecordedTypes == ASSUME TypeOK, NEW k \in Keys, ServeRecorded(k) PROVE TypeOK'
<1>1. memory' \in [Keys -> Slot]
  BY ExecutionAssumption, SMT DEF TypeOK, ServeRecorded, Spend, Slot, Empty
<1>2. network' \subseteq Message
  BY ExecutionAssumption, SMT DEF TypeOK, ServeRecorded, Report, Message
<1>. QED  BY <1>1, <1>2, SMT DEF TypeOK, ServeRecorded

LEMMA ServeRecordedPreserves == ASSUME Inv, NEW k \in Keys, ServeRecorded(k) PROVE Inv'
<1>1. TypeOK'  BY ServeRecordedTypes DEF Inv
<1>2. NothingYet'
  BY SMT DEF Inv, NothingYet, ServeRecorded, Committed
<1>3. BindingsAreOld'
  BY SMT DEF Inv, BindingsAreOld, ServeRecorded, Committed
<1>4. TokensAreCurrent'
  BY SMT DEF Inv, TokensAreCurrent, ServeRecorded, Spend, Committed
<1>5. MessagesAreTrue'
  BY SMT
     DEF Inv, MessagesAreTrue, ServeRecorded, Report, MessageIsTrue, Committed, Happened,
         LedgerIsTrue
<1>6. LedgerIsTrue'
  BY SMT DEF Inv, LedgerIsTrue, ServeRecorded, Committed, Happened, Matches
<1>7. OutcomesAreTrue'
  BY SMT DEF Inv, OutcomesAreTrue, ServeRecorded, Happened, Unresolved
<1>8. AnswersAreTrue'
  BY SMT DEF Inv, AnswersAreTrue, ServeRecorded, Committed, Happened, ProvesAbsence
<1>. QED  BY <1>1, <1>2, <1>3, <1>4, <1>5, <1>6, <1>7, <1>8 DEF Inv

\* A token given up leaves no token, and no effect.
LEMMA ForgoTypes == ASSUME TypeOK, NEW k \in Keys, Forgo(k) PROVE TypeOK'
<1>1. memory' \in [Keys -> Slot]
  BY ExecutionAssumption, SMT DEF TypeOK, Forgo, Spend, Slot, Empty
<1>. QED  BY <1>1, SMT DEF TypeOK, Forgo

LEMMA ForgoPreserves == ASSUME Inv, NEW k \in Keys, Forgo(k) PROVE Inv'
<1>1. TypeOK'  BY ForgoTypes DEF Inv
<1>2. NothingYet'
  BY SMT DEF Inv, NothingYet, Forgo, Committed
<1>3. BindingsAreOld'
  BY SMT DEF Inv, BindingsAreOld, Forgo, Committed
<1>4. TokensAreCurrent'
  BY SMT DEF Inv, TokensAreCurrent, Forgo, Spend, Committed
<1>5. MessagesAreTrue'
  BY SMT DEF Inv, MessagesAreTrue, Forgo, MessageIsTrue, Committed, Happened
<1>6. LedgerIsTrue'
  BY SMT DEF Inv, LedgerIsTrue, Forgo, Committed, Happened, Matches
<1>7. OutcomesAreTrue'
  BY SMT DEF Inv, OutcomesAreTrue, Forgo, Happened, Unresolved
<1>8. AnswersAreTrue'
  BY SMT DEF Inv, AnswersAreTrue, Forgo, Committed, Happened, ProvesAbsence
<1>. QED  BY <1>1, <1>2, <1>3, <1>4, <1>5, <1>6, <1>7, <1>8 DEF Inv

\* A crash empties the memory, so that no token outlives the boot that holds it.
LEMMA CrashTypes == ASSUME TypeOK, Crash PROVE TypeOK'
<1>1. memory' \in [Keys -> Slot]
  BY ExecutionAssumption, SMT DEF Crash, Slot, Empty
<1>2. host' \in [up : BOOLEAN, boot : Nat, store : Nat]
  BY Zenon DEF TypeOK, Crash
<1>3. network' \subseteq Message
  BY Zenon DEF TypeOK, Crash
<1>. QED  BY <1>1, <1>2, <1>3, SMT DEF TypeOK, Crash

LEMMA CrashPreserves == ASSUME Inv, Crash PROVE Inv'
<1>1. TypeOK'  BY CrashTypes DEF Inv
<1>2. NothingYet'
  BY SMT DEF Inv, NothingYet, Crash, Committed
<1>3. BindingsAreOld'
  BY SMT DEF Inv, BindingsAreOld, Crash, Committed
<1>4. TokensAreCurrent'
  BY SMT DEF Inv, TokensAreCurrent, Crash, Empty
<1>5. MessagesAreTrue'
  BY SMT DEF Inv, MessagesAreTrue, Crash, MessageIsTrue, Happened
<1>6. LedgerIsTrue'
  BY SMT DEF Inv, LedgerIsTrue, Crash, Committed, Happened, Matches
<1>7. OutcomesAreTrue'
  BY SMT DEF Inv, OutcomesAreTrue, Crash, Happened, Unresolved
<1>8. AnswersAreTrue'
  BY SMT DEF Inv, AnswersAreTrue, Crash, Committed, Happened, ProvesAbsence
<1>. QED  BY <1>1, <1>2, <1>3, <1>4, <1>5, <1>6, <1>7, <1>8 DEF Inv

\* A restart takes a boot number no commitment has been given before.
LEMMA RestartTypes == ASSUME TypeOK, Restart PROVE TypeOK'
<1>1. host' = [up |-> TRUE, boot |-> host.boot + 1, store |-> host.store]
  BY Zenon DEF TypeOK, Restart
<1>2. host' \in [up : BOOLEAN, boot : Nat, store : Nat]
  BY <1>1, ExecutionAssumption, SMT DEF TypeOK
<1>. QED  BY <1>1, <1>2, SMT DEF TypeOK, Restart

LEMMA RestartPreserves == ASSUME Inv, Restart PROVE Inv'
<1>1. TypeOK'  BY RestartTypes DEF Inv
<1>2. host'.boot = host.boot + 1 /\ host'.store = host.store
  BY SMT DEF Inv, Restart
<1>3. host.boot \in Nat /\ host.store \in Nat /\ ~host.up
  BY SMT DEF Inv, TypeOK, Restart
<1>4. UNCHANGED <<commitments, ledger, effects, memory, network, maintenance>>
  BY DEF Restart
<1>5. NothingYet'
  BY <1>2, <1>3, <1>4, SMT DEF Inv, NothingYet, Committed
<1>6. BindingsAreOld'
  BY <1>2, <1>3, <1>4, SMT DEF Inv, TypeOK, BindingsAreOld, Committed, Commitment
<1>7. TokensAreCurrent'
  BY <1>2, <1>3, <1>4, SMT DEF Inv, TokensAreCurrent
<1>8. MessagesAreTrue'
  BY <1>2, <1>3, <1>4, SMT
     DEF Inv, TypeOK, MessagesAreTrue, MessageIsTrue, Committed, Happened, Message
<1>9. LedgerIsTrue'
  BY <1>2, <1>3, <1>4, SMT DEF Inv, LedgerIsTrue, Committed, Happened, Matches
<1>10. OutcomesAreTrue'
  BY <1>2, <1>3, <1>4, SMT DEF Inv, TypeOK, OutcomesAreTrue, Happened, Unresolved, Commitment
<1>11. AnswersAreTrue'
  BY <1>2, <1>3, <1>4, SMT
     DEF Inv, TypeOK, AnswersAreTrue, Committed, Happened, ProvesAbsence, Answer, Pass
<1>. QED  BY <1>1, <1>5, <1>6, <1>7, <1>8, <1>9, <1>10, <1>11 DEF Inv

\* A replaced ledger is empty and has a number of its own, so that no binding names it.
LEMMA ReplaceLedgerTypes == ASSUME TypeOK, ReplaceLedger PROVE TypeOK'
  BY SMT DEF TypeOK, ReplaceLedger

LEMMA ReplaceLedgerPreserves == ASSUME Inv, ReplaceLedger PROVE Inv'
<1>1. TypeOK'  BY ReplaceLedgerTypes DEF Inv
<1>2. host'.boot = host.boot /\ host'.store = host.store + 1
  BY SMT DEF Inv, ReplaceLedger
<1>3. host.boot \in Nat /\ host.store \in Nat /\ ~host.up /\ ~host'.up
  BY SMT DEF Inv, TypeOK, ReplaceLedger
<1>4. UNCHANGED <<commitments, effects, memory, network, maintenance>> /\ ledger' = [k \in Keys |-> NoEntry]
  BY DEF ReplaceLedger
<1>5. NothingYet'
  BY <1>2, <1>3, <1>4, SMT DEF Inv, NothingYet, Committed
<1>6. BindingsAreOld'
  BY <1>2, <1>3, <1>4, SMT DEF Inv, TypeOK, BindingsAreOld, Committed, Commitment
<1>7. TokensAreCurrent'
  BY <1>2, <1>3, <1>4, SMT DEF Inv, TokensAreCurrent
<1>8. MessagesAreTrue'
  BY <1>2, <1>3, <1>4, SMT
     DEF Inv, TypeOK, MessagesAreTrue, MessageIsTrue, Committed, Happened, Message
<1>9. LedgerIsTrue'
  BY <1>2, <1>3, <1>4, SMT DEF Inv, TypeOK, LedgerIsTrue, Committed, BindingsAreOld, Commitment
<1>10. OutcomesAreTrue'
  BY <1>2, <1>3, <1>4, SMT DEF Inv, OutcomesAreTrue, Happened, Unresolved
<1>11. AnswersAreTrue'
  BY <1>2, <1>3, <1>4, SMT DEF Inv, AnswersAreTrue, Committed, Happened, ProvesAbsence
<1>. QED  BY <1>1, <1>5, <1>6, <1>7, <1>8, <1>9, <1>10, <1>11 DEF Inv

\* The runtime loses its messages and its pass, never a commitment.
LEMMA AuthorizationCrashTypes == ASSUME TypeOK, AuthorizationCrash PROVE TypeOK'
<1>1. network' \subseteq Message  BY Zenon DEF TypeOK, AuthorizationCrash
<1>2. maintenance' \in Pass  BY NothingShapes DEF AuthorizationCrash
<1>3. restarts' \in Nat  BY SMT DEF TypeOK, AuthorizationCrash
<1>. QED  BY <1>1, <1>2, <1>3, Zenon DEF TypeOK, AuthorizationCrash

LEMMA AuthorizationCrashPreserves == ASSUME Inv, AuthorizationCrash PROVE Inv'
<1>1. TypeOK'  BY AuthorizationCrashTypes DEF Inv
<1>2. NothingYet'
  BY SMT DEF Inv, NothingYet, AuthorizationCrash, Committed
<1>3. BindingsAreOld'
  BY SMT DEF Inv, BindingsAreOld, AuthorizationCrash, Committed
<1>4. TokensAreCurrent'
  BY SMT DEF Inv, TokensAreCurrent, AuthorizationCrash, Committed
<1>5. MessagesAreTrue'
  BY SMT DEF Inv, MessagesAreTrue, AuthorizationCrash, MessageIsTrue, Committed
<1>6. LedgerIsTrue'
  BY SMT DEF Inv, LedgerIsTrue, AuthorizationCrash, Committed, Happened, Matches
<1>7. OutcomesAreTrue'
  BY SMT DEF Inv, OutcomesAreTrue, AuthorizationCrash, Happened, Unresolved
<1>8. AnswersAreTrue'
  BY SMT DEF Inv, AnswersAreTrue, AuthorizationCrash, Idle, NoAnswer
<1>. QED  BY <1>1, <1>2, <1>3, <1>4, <1>5, <1>6, <1>7, <1>8 DEF Inv

\* A pass begins with no answer, so that AnswersAreTrue asks nothing of it.
LEMMA BeginPassTypes == ASSUME TypeOK, BeginPass PROVE TypeOK'
<1>1. Pending \subseteq Keys  BY DEF Pending
<1>2. maintenance' \in Pass
  BY <1>1, NothingShapes, Zenon DEF BeginPass, Pass
<1>. QED  BY <1>2, Zenon DEF TypeOK, BeginPass, UnchangedByPass

LEMMA BeginPassPreserves == ASSUME Inv, BeginPass PROVE Inv'
<1>1. TypeOK'  BY BeginPassTypes DEF Inv
<1>2. NothingYet'
  BY SMT DEF Inv, NothingYet, BeginPass, UnchangedByPass, Committed
<1>3. BindingsAreOld'
  BY SMT DEF Inv, BindingsAreOld, BeginPass, UnchangedByPass, Committed
<1>4. TokensAreCurrent'
  BY SMT DEF Inv, TokensAreCurrent, BeginPass, UnchangedByPass, Committed
<1>5. MessagesAreTrue'
  BY SMT DEF Inv, MessagesAreTrue, BeginPass, UnchangedByPass, MessageIsTrue, Committed, Happened
<1>6. LedgerIsTrue'
  BY SMT DEF Inv, LedgerIsTrue, BeginPass, UnchangedByPass, Committed, Happened, Matches
<1>7. OutcomesAreTrue'
  BY SMT DEF Inv, OutcomesAreTrue, BeginPass, UnchangedByPass, Happened, Unresolved
<1>8. AnswersAreTrue'
  BY SMT DEF Inv, AnswersAreTrue, BeginPass, Idle, NoAnswer
<1>. QED  BY <1>1, <1>2, <1>3, <1>4, <1>5, <1>6, <1>7, <1>8 DEF Inv

\* The pass forgets the answer about one commitment before it asks about the next.
LEMMA BeginCommitmentTypes == ASSUME TypeOK, NEW k \in Keys, BeginCommitment(k) PROVE TypeOK'
<1>1. maintenance' \in Pass
  BY ExecutionAssumption, SMT DEF TypeOK, BeginCommitment, Pass, Answer, NoAnswer
<1>. QED  BY <1>1, SMT DEF TypeOK, BeginCommitment, UnchangedByPass

LEMMA BeginCommitmentPreserves == ASSUME Inv, NEW k \in Keys, BeginCommitment(k) PROVE Inv'
<1>1. TypeOK'  BY BeginCommitmentTypes DEF Inv
<1>2. NothingYet'
  BY SMT DEF Inv, NothingYet, BeginCommitment, UnchangedByPass, Committed
<1>3. BindingsAreOld'
  BY SMT DEF Inv, BindingsAreOld, BeginCommitment, UnchangedByPass, Committed
<1>4. TokensAreCurrent'
  BY SMT DEF Inv, TokensAreCurrent, BeginCommitment, UnchangedByPass, Committed
<1>5. MessagesAreTrue'
  BY SMT
     DEF Inv, MessagesAreTrue, BeginCommitment, UnchangedByPass, MessageIsTrue, Committed, Happened
<1>6. LedgerIsTrue'
  BY SMT DEF Inv, LedgerIsTrue, BeginCommitment, UnchangedByPass, Committed, Happened, Matches
<1>7. OutcomesAreTrue'
  BY SMT DEF Inv, OutcomesAreTrue, BeginCommitment, Unresolved, UnchangedByPass, Happened
<1>8. AnswersAreTrue'
  BY SMT DEF Inv, AnswersAreTrue, BeginCommitment, Unresolved, NoAnswer, Committed
<1>. QED  BY <1>1, <1>2, <1>3, <1>4, <1>5, <1>6, <1>7, <1>8 DEF Inv

\* A pass ends without an answer.
LEMMA EndPassTypes == ASSUME TypeOK, EndPass PROVE TypeOK'
<1>1. maintenance' \in Pass
  BY ExecutionAssumption, SMT DEF EndPass, Pass, Idle, Answer, NoAnswer
<1>. QED  BY <1>1, SMT DEF TypeOK, EndPass, UnchangedByPass

LEMMA EndPassPreserves == ASSUME Inv, EndPass PROVE Inv'
<1>1. TypeOK'  BY EndPassTypes DEF Inv
<1>2. NothingYet'
  BY SMT DEF Inv, NothingYet, EndPass, UnchangedByPass, Committed
<1>3. BindingsAreOld'
  BY SMT DEF Inv, BindingsAreOld, EndPass, UnchangedByPass, Committed
<1>4. TokensAreCurrent'
  BY SMT DEF Inv, TokensAreCurrent, EndPass, UnchangedByPass, Committed
<1>5. MessagesAreTrue'
  BY SMT DEF Inv, MessagesAreTrue, EndPass, UnchangedByPass, MessageIsTrue, Committed, Happened
<1>6. LedgerIsTrue'
  BY SMT DEF Inv, LedgerIsTrue, EndPass, UnchangedByPass, Committed, Happened, Matches
<1>7. OutcomesAreTrue'
  BY SMT DEF Inv, OutcomesAreTrue, EndPass, UnchangedByPass, Happened, Unresolved
<1>8. AnswersAreTrue'
  BY SMT DEF Inv, AnswersAreTrue, EndPass, Idle, NoAnswer
<1>. QED  BY <1>1, <1>2, <1>3, <1>4, <1>5, <1>6, <1>7, <1>8 DEF Inv

\* Fewer messages say fewer things.
LEMMA LoseTypes == ASSUME TypeOK, NEW m \in network, Lose(m) PROVE TypeOK'
  BY SMT DEF TypeOK, Lose

LEMMA LosePreserves == ASSUME Inv, NEW m \in network, Lose(m) PROVE Inv'
<1>1. TypeOK'  BY LoseTypes DEF Inv
<1>2. NothingYet'
  BY SMT DEF Inv, NothingYet, Lose, Committed
<1>3. BindingsAreOld'
  BY SMT DEF Inv, BindingsAreOld, Lose, Committed
<1>4. TokensAreCurrent'
  BY SMT DEF Inv, TokensAreCurrent, Lose, Committed
<1>5. MessagesAreTrue'
  BY SMT DEF Inv, MessagesAreTrue, Lose, MessageIsTrue, Committed, Happened
<1>6. LedgerIsTrue'
  BY SMT DEF Inv, LedgerIsTrue, Lose, Committed, Happened, Matches
<1>7. OutcomesAreTrue'
  BY SMT DEF Inv, OutcomesAreTrue, Lose, Happened, Unresolved
<1>8. AnswersAreTrue'
  BY SMT DEF Inv, AnswersAreTrue, Lose, Committed, Happened, ProvesAbsence
<1>. QED  BY <1>1, <1>2, <1>3, <1>4, <1>5, <1>6, <1>7, <1>8 DEF Inv

\* A token is taken only by the boot that asked; a report is read from the ledger.
LEMMA ReceiveReplyTypes == ASSUME TypeOK, NEW m \in network, ReceiveReply(m) PROVE TypeOK'
<1>1. memory' \in [Keys -> Slot]
  BY ExecutionAssumption, SMT DEF TypeOK, ReceiveReply, Slot, Empty, Message
<1>2. network' \subseteq Message
  BY ExecutionAssumption, SMT DEF TypeOK, ReceiveReply, Report, Message
<1>. QED  BY <1>1, <1>2, SMT DEF TypeOK, ReceiveReply

LEMMA ReceiveReplyPreserves == ASSUME Inv, NEW m \in network, ReceiveReply(m) PROVE Inv'
<1>1. TypeOK'  BY ReceiveReplyTypes DEF Inv
<1>2. NothingYet'
  BY SMT DEF Inv, NothingYet, ReceiveReply, Committed
<1>3. BindingsAreOld'
  BY SMT DEF Inv, BindingsAreOld, ReceiveReply, Committed
<1>4. TokensAreCurrent'
  BY SMT DEF Inv, TokensAreCurrent, ReceiveReply, Empty, Committed, MessagesAreTrue, MessageIsTrue
<1>5. MessagesAreTrue'
  <2>. SUFFICES ASSUME NEW x \in network' PROVE MessageIsTrue(x)'
    BY DEF MessagesAreTrue
  <2>1. m.key \in Keys  BY MessageShapes DEF Inv
  <2>2. CASE x \in network
    BY <2>2, SMT DEF Inv, MessagesAreTrue, MessageIsTrue, ReceiveReply, Happened, Committed
  <2>3. CASE ledger[m.key] # NoEntry /\ x = Report(m.key, ledger[m.key])
    BY <2>1, <2>3, SMT DEF Inv, LedgerIsTrue, MessageIsTrue, Report, ReceiveReply, Happened
  <2>. QED  BY <2>2, <2>3, Zenon DEF ReceiveReply
<1>6. LedgerIsTrue'
  BY SMT DEF Inv, LedgerIsTrue, ReceiveReply, Committed, Happened, Matches
<1>7. OutcomesAreTrue'
  BY SMT DEF Inv, OutcomesAreTrue, ReceiveReply, Happened, Unresolved
<1>8. AnswersAreTrue'
  BY SMT DEF Inv, AnswersAreTrue, ReceiveReply, Committed, Happened, ProvesAbsence
<1>. QED  BY <1>1, <1>2, <1>3, <1>4, <1>5, <1>6, <1>7, <1>8 DEF Inv

-----------------------------------------------------------------------------
\* The one step that makes an effect happen: it records the effect in the ledger it runs under.
LEMMA ProduceTypes ==
  ASSUME TypeOK, NEW k \in Keys, NEW outcome \in Outcomes, Produce(k, outcome)
  PROVE  TypeOK'
<1>. DEFINE entry == [outcome |-> outcome, boot |-> host.boot, store |-> host.store]
<1>1. entry \in Entry
  BY SMT DEF TypeOK, Entry
<1>2. ledger' \in [Keys -> Entry \cup {NoEntry}]
  BY <1>1, Zenon DEF TypeOK, Produce
<1>3. effects' \in [Keys -> [times : Nat, outcome : Outcomes \cup {"none"}]]
  BY SMT DEF TypeOK, Produce
<1>4. memory' \in [Keys -> Slot]
  BY NothingShapes, SMT DEF TypeOK, Produce, Spend
<1>5. Report(k, entry) \in Message
  BY <1>1, SMT DEF Report, Message
<1>6. network' \subseteq Message
  BY <1>5, Zenon DEF TypeOK, Produce
<1>. QED  BY <1>2, <1>3, <1>4, <1>6, SMT DEF TypeOK, Produce

\* An effect is only produced once its commitment is bound to this very boot
\* and ledger, when nothing has happened and nothing is known.
LEMMA ProduceFacts ==
  ASSUME Inv, NEW k \in Keys, NEW outcome \in Outcomes, Produce(k, outcome)
  PROVE  /\ Committed(k) /\ host.up
         /\ Matches(k, [outcome |-> outcome, boot |-> host.boot, store |-> host.store])
         /\ ledger[k] = NoEntry
         /\ effects[k].times = 0
         /\ commitments[k].outcome = "none"
<1>1. Committed(k) /\ commitments[k].boot = host.boot /\ host.up /\ ledger[k] = NoEntry
  BY SMT DEF Inv, TokensAreCurrent, Produce, Fresh
<1>2. commitments[k].store = host.store
  BY <1>1, SMT DEF Inv, BindingsAreOld
<1>3. commitments[k].boot \in Nat /\ commitments[k].store \in Nat /\ commitments[k].outcome \in Known \cup {"none"}
  BY SMT DEF Inv, TypeOK, Commitment
<1>4. effects[k].times = 0
  BY <1>1, <1>2, <1>3, SMT DEF Inv, LedgerIsTrue
<1>5. commitments[k].outcome = "none"
  BY <1>1, <1>3, <1>4, SMT DEF Inv, OutcomesAreTrue, Happened, Known
<1>. QED  BY <1>1, <1>2, <1>4, <1>5, SMT DEF Matches

LEMMA ProducePreserves ==
  ASSUME Inv, NEW k \in Keys, NEW outcome \in Outcomes, Produce(k, outcome)
  PROVE  Inv'
<1>. DEFINE entry == [outcome |-> outcome, boot |-> host.boot, store |-> host.store]
<1>1. TypeOK'  BY ProduceTypes DEF Inv
<1>2. /\ Committed(k) /\ Matches(k, entry) /\ host.up
      /\ ledger[k] = NoEntry
      /\ effects[k].times = 0
      /\ commitments[k].outcome = "none"
  BY ProduceFacts
<1>3. /\ \A j \in Keys \ {k} : effects'[j] = effects[j] /\ ledger'[j] = ledger[j] /\ memory'[j] = memory[j]
      /\ effects'[k].times = 1 /\ effects'[k].outcome = outcome /\ ledger'[k] = entry
      /\ memory'[k] = memory[k] \/ memory'[k] = Empty
      /\ UNCHANGED <<commitments, host, maintenance>>
      /\ network' \subseteq network \cup {Report(k, entry)}
  BY <1>2, SMT DEF Inv, TypeOK, Produce, Spend
<1>4. NothingYet'
  BY <1>2, <1>3, SMT DEF Inv, NothingYet, Committed
<1>5. BindingsAreOld'
  BY <1>3, SMT DEF Inv, BindingsAreOld, Committed
<1>6. TokensAreCurrent'
  BY <1>3, SMT DEF Inv, TokensAreCurrent, Committed, Empty
<1>7. MessagesAreTrue'
  <2>. SUFFICES ASSUME NEW m \in network' PROVE MessageIsTrue(m)'
    BY DEF MessagesAreTrue
  <2>1. CASE m \in network
    BY <2>1, <1>2, <1>3, MessageShapes, SMT
       DEF Inv, MessagesAreTrue, MessageIsTrue, Happened, Committed
  <2>2. CASE m = Report(k, entry)
    BY <2>2, <1>3, SMT DEF MessageIsTrue, Report, Happened
  <2>. QED  BY <1>3, <2>1, <2>2
<1>8. LedgerIsTrue'
  <2>1. entry # NoEntry /\ entry.outcome = outcome
    BY NothingShapes, ProduceTypes, SMT DEF Inv, TypeOK, Entry
  <2>. QED  BY <2>1, <1>2, <1>3, SMT DEF Inv, LedgerIsTrue, Happened, Committed, Matches
<1>9. OutcomesAreTrue'
  BY <1>2, <1>3, SMT DEF Inv, OutcomesAreTrue, Happened, Unresolved
<1>10. AnswersAreTrue'
  <2>1. CASE maintenance.answer.state = "absent" /\ ProvesAbsence(k, maintenance.answer)
    <3>1. maintenance.key = k => FALSE
      BY <2>1, <1>2, SMT DEF Inv, TypeOK, AnswersAreTrue, Matches, Pass, Answer
    <3>. QED  BY <1>2, <1>3, <3>1, SMT DEF Inv, AnswersAreTrue, Happened, Committed, ProvesAbsence
  <2>2. CASE ~(maintenance.answer.state = "absent" /\ ProvesAbsence(k, maintenance.answer))
    BY <2>2, <1>2, <1>3, SMT DEF Inv, AnswersAreTrue, Happened, Committed, ProvesAbsence
  <2>. QED  BY <2>1, <2>2
<1>. QED  BY <1>1, <1>4, <1>5, <1>6, <1>7, <1>8, <1>9, <1>10 DEF Inv

\* Verifying binds the commitment to the boot and the ledger that asked.
LEMMA HandleVerifyTypes ==
  ASSUME TypeOK, NEW m \in network, HandleVerify(m)
  PROVE  TypeOK'
<1>1. m.key \in Keys /\ m.boot \in Nat /\ m.store \in Nat /\ m.ask \in Nat
  BY MessageShapes, SMT DEF HandleVerify
<1>2. Token(m) \in Message
  BY <1>1, ExecutionAssumption, SMT DEF TypeOK, Token, Message
<1>3. \A kind \in {"refused", "consumed"} : Reply(m, kind) \in Message
  BY <1>1, SMT DEF Reply, Message
<1>4. network' \subseteq Message
  BY <1>2, <1>3, SMT DEF TypeOK, HandleVerify, Bind, Refuse, Replay
<1>5. commitments' \in [Keys -> Commitment]
  <2>1. CASE Bind(m)
    <3>1. [state |-> "bound", outcome |-> "none", boot |-> m.boot, store |-> m.store] \in Commitment
      BY <1>1, SMT DEF Commitment
    <3>. QED  BY <2>1, <3>1, Zenon DEF TypeOK, Bind
  <2>2. CASE Refuse(m)
    BY <2>2, <1>1, SMT DEF TypeOK, Refuse, Commitment
  <2>3. CASE Replay(m)
    BY <2>3, Zenon DEF TypeOK, Replay
  <2>. QED  BY <2>1, <2>2, <2>3 DEF HandleVerify
<1>. QED  BY <1>4, <1>5, SMT DEF TypeOK, HandleVerify

\* A verification that is handled carries a boot and a ledger the host has had.
LEMMA VerifyMessage ==
  ASSUME Inv, NEW m \in network, HandleVerify(m)
  PROVE  /\ m.key \in Keys /\ m.boot \in Nat /\ m.store \in Nat
         /\ m.boot <= host.boot /\ m.store <= host.store
         /\ host.up /\ m.boot = host.boot => m.store = host.store
  BY MessageShapes, SMT DEF Inv, HandleVerify, MessagesAreTrue, MessageIsTrue

\* A verification binds what was open, and no outcome changes with it.
LEMMA VerifyKeepsOutcomes ==
  ASSUME Inv, NEW m \in network, HandleVerify(m)
  PROVE  /\ \A j \in Keys : Committed(j) => commitments'[j] = commitments[j]
         /\ \A j \in Keys : commitments'[j].outcome = commitments[j].outcome
         /\ \A j \in Keys : ~Committed(j) /\ Committed(j)' =>
               /\ j = m.key /\ Bind(m) /\ commitments'[j].outcome = "none"
               /\ commitments'[j].boot = m.boot /\ commitments'[j].store = m.store
<1>0. m.key \in Keys  BY VerifyMessage
<1>1. CASE Bind(m) /\ commitments[m.key].state = "open"
  <2>1. commitments[m.key].outcome = "none"
    BY <1>1, <1>0, SMT DEF Inv, NothingYet, Committed
  <2>. QED  BY <1>1, <2>1, <1>0, SMT DEF Inv, Bind, Committed
<1>2. CASE Refuse(m) /\ commitments[m.key].state = "open"
  <2>1. CASE UNCHANGED commitments
    BY <2>1, SMT DEF Committed
  <2>2. CASE commitments' = [commitments EXCEPT ![m.key].state = "refused"]
    <3>1. \A j \in Keys : commitments'[j].outcome = commitments[j].outcome
      BY <1>0, <2>2, SMT DEF Inv
    <3>2. \A j \in Keys : j # m.key => commitments'[j] = commitments[j]
      BY <1>0, <2>2, SMT DEF Inv
    <3>3. commitments'[m.key].state = "refused"
      BY <1>0, <2>2, SMT DEF Inv, TypeOK
    <3>. QED  BY <1>2, <3>1, <3>2, <3>3, SMT DEF Committed
  <2>. QED  BY <1>2, <2>1, <2>2 DEF Refuse
<1>3. CASE Replay(m)
  BY <1>3, SMT DEF Replay, Committed
<1>. QED  BY <1>1, <1>2, <1>3 DEF HandleVerify

LEMMA HandleVerifyPreserves ==
  ASSUME Inv, NEW m \in network, HandleVerify(m)
  PROVE  Inv'
<1>1. TypeOK'  BY HandleVerifyTypes DEF Inv
<1>2. /\ m.key \in Keys /\ m.boot \in Nat /\ m.store \in Nat
      /\ m.boot <= host.boot /\ m.store <= host.store
      /\ host.up /\ m.boot = host.boot => m.store = host.store
  BY VerifyMessage
<1>3. UNCHANGED <<ledger, effects, host, memory, maintenance>>
  BY DEF HandleVerify
<1>4. /\ \A j \in Keys : Committed(j) => commitments'[j] = commitments[j]
      /\ \A j \in Keys : commitments'[j].outcome = commitments[j].outcome
      /\ \A j \in Keys : ~Committed(j) /\ Committed(j)' =>
            /\ j = m.key /\ Bind(m) /\ commitments'[j].outcome = "none"
            /\ commitments'[j].boot = m.boot /\ commitments'[j].store = m.store
  BY VerifyKeepsOutcomes
<1>5. NothingYet'
  BY <1>3, <1>4, SMT DEF Inv, NothingYet, Committed
<1>6. BindingsAreOld'
  BY <1>2, <1>3, <1>4, SMT DEF Inv, BindingsAreOld
<1>7. TokensAreCurrent'
  BY <1>3, <1>4, SMT DEF Inv, TokensAreCurrent, Committed
<1>8. MessagesAreTrue'
  <2>. SUFFICES ASSUME NEW x \in network' PROVE MessageIsTrue(x)'
    BY DEF MessagesAreTrue
  <2>1. CASE x \in network
    <3>1. MessageIsTrue(x) /\ x.key \in Keys
      BY <2>1, MessageShapes DEF Inv, MessagesAreTrue
    <3>. QED  BY <3>1, <1>3, <1>4, SMT DEF MessageIsTrue, Happened, Committed
  <2>2. CASE Bind(m) /\ x = Token(m)
    BY <2>2, <1>2, SMT DEF Inv, TypeOK, Bind, MessageIsTrue, Token, Committed
  <2>3. CASE \E kind \in {"refused", "consumed"} : x = Reply(m, kind)
    BY <2>3, SMT DEF MessageIsTrue, Reply
  <2>. QED  BY <2>1, <2>2, <2>3, Zenon DEF HandleVerify, Bind, Refuse, Replay
<1>9. LedgerIsTrue'
  BY <1>3, <1>4, SMT DEF Inv, LedgerIsTrue, NothingYet, Happened, Committed, Matches
<1>10. OutcomesAreTrue'
  BY <1>3, <1>4, SMT DEF Inv, NothingYet, OutcomesAreTrue, Happened, Unresolved
<1>11. AnswersAreTrue'
  BY <1>3, <1>4, SMT DEF Inv, AnswersAreTrue, Happened, Committed, ProvesAbsence
<1>. QED  BY <1>1, <1>5, <1>6, <1>7, <1>8, <1>9, <1>10, <1>11 DEF Inv

-----------------------------------------------------------------------------
\* The parts of the pass, one by one.
LEMMA PassShape ==
  ASSUME NEW pass \in Pass, NEW phase \in {"idle", "next", "probe", "act"},
         NEW key \in Keys \cup {None}, NEW attempt \in Nat, NEW answer \in Answer
  PROVE  /\ [pass EXCEPT !.phase = phase, !.answer = answer] \in Pass
         /\ [pass EXCEPT !.phase = phase, !.attempt = attempt, !.answer = answer] \in Pass
         /\ [pass EXCEPT !.phase = phase, !.key = key, !.attempt = attempt, !.answer = answer] \in Pass
  BY Zenon DEF Pass

\* A probe answers from the ledger of the host that is up; "absent" is the case with work in it.
LEMMA ProbeTypes == ASSUME Inv, Probe PROVE TypeOK'
<1>1. maintenance.key \in Keys
  BY SMT DEF Inv, AnswersAreTrue, Probe
<1>2. ProbeAnswer(maintenance.key) \in Answer
  BY <1>1, SMT DEF Inv, TypeOK, ProbeAnswer, Answer
<1>3. [NoAnswer EXCEPT !.state = "unreachable"] \in Answer
  BY SMT DEF NoAnswer, Answer
<1>4. maintenance' \in Pass
  <2>1. maintenance \in Pass  BY DEF Inv, TypeOK
  <2>2. PICK answer \in Answer : maintenance' = [maintenance EXCEPT !.phase = "act", !.answer = answer]
    BY <1>2, <1>3, Zenon DEF Probe
  <2>. QED  BY <2>1, <2>2, PassShape, Zenon
<1>5. losses' \in Nat
  BY SMT DEF Inv, TypeOK, Probe
<1>. QED  BY <1>4, <1>5, Zenon DEF Inv, TypeOK, Probe, UnchangedByPass

LEMMA ProbePreserves == ASSUME Inv, Probe PROVE Inv'
<1>1. TypeOK'  BY ProbeTypes
<1>2. UNCHANGED <<commitments, ledger, effects, host, memory, network>>
  BY DEF Probe, UnchangedByPass
<1>3. /\ NothingYet' /\ BindingsAreOld' /\ TokensAreCurrent' /\ MessagesAreTrue'
      /\ LedgerIsTrue' /\ OutcomesAreTrue'
  BY <1>2, Zenon
     DEF Inv, NothingYet, BindingsAreOld, TokensAreCurrent, MessagesAreTrue, MessageIsTrue,
         LedgerIsTrue, OutcomesAreTrue, Committed, Happened, Matches, Unresolved
<1>4. AnswersAreTrue'
  <2>. DEFINE k == maintenance.key
  <2>1. k \in Keys /\ Committed(k)
    BY SMT DEF Inv, AnswersAreTrue, Probe
  <2>2. /\ maintenance'.phase = "act" /\ maintenance'.key = k
        /\ \/ host.up /\ maintenance'.answer = ProbeAnswer(k)
           \/ maintenance'.answer.state = "unreachable"
    <3>1. maintenance \in Pass  BY DEF Inv, TypeOK
    <3>2. [NoAnswer EXCEPT !.state = "unreachable"].state = "unreachable"
      BY SMT
    <3>. QED  BY <3>1, <3>2, Zenon DEF Probe, Pass
  <2>3. CASE maintenance'.answer.state = "unreachable"
    BY <2>1, <2>2, <2>3, <1>2, SMT DEF AnswersAreTrue, Committed
  <2>4. CASE host.up /\ maintenance'.answer = ProbeAnswer(k) /\ ledger[k] # NoEntry
    <3>1. maintenance'.answer = [state |-> "recorded", entry |-> ledger[k]] /\ Happened(k, ledger[k].outcome)
      BY <2>1, <2>4, SMT DEF Inv, LedgerIsTrue, ProbeAnswer
    <3>. QED  BY <3>1, <2>1, <2>2, <1>2, SMT DEF AnswersAreTrue, Committed, Happened
  <2>5. CASE host.up /\ maintenance'.answer = ProbeAnswer(k) /\ ledger[k] = NoEntry
    <3>1. maintenance'.answer = [state |-> "absent", boot |-> host.boot, store |-> host.store]
      BY <2>5, SMT DEF ProbeAnswer
    <3>2. host.boot \in Nat /\ host.store \in Nat /\ commitments[k].boot \in Nat /\ commitments[k].store \in Nat
      BY <2>1, SMT DEF Inv, TypeOK, Commitment
    <3>3. commitments[k].boot <= host.boot
      BY <2>1, SMT DEF Inv, BindingsAreOld
    <3>4. host.store = commitments[k].store => effects[k].times = 0
      BY <2>1, <2>5, <3>2, SMT DEF Inv, LedgerIsTrue
    <3>. QED
      BY <3>1, <3>2, <3>3, <3>4, <2>1, <2>2, <1>2, SMT DEF AnswersAreTrue, Committed, ProvesAbsence
  <2>. QED  BY <2>2, <2>3, <2>4, <2>5
<1>. QED  BY <1>1, <1>3, <1>4 DEF Inv

\* What recording, concluding or giving up may do to the commitments: the
\* outcome of an unresolved one changes, and what it becomes is true.
Settling(k) ==
    /\ commitments' \in [Keys -> Commitment]
    /\ \A j \in Keys \ {k} : commitments'[j] = commitments[j]
    /\ commitments'[k].boot = commitments[k].boot
    /\ commitments'[k].store = commitments[k].store
    /\ commitments'[k].state \in {"open", "refused"} <=> commitments[k].state \in {"open", "refused"}
    /\ \/ commitments'[k].outcome = commitments[k].outcome
       \/ /\ Committed(k) /\ commitments[k].outcome = "none"
          /\ \/ /\ commitments'[k].outcome \in Outcomes
                /\ Happened(k, commitments'[k].outcome)
             \/ /\ commitments'[k].outcome = "no-effect"
                /\ effects[k].times = 0 /\ commitments[k].boot < host.boot
    /\ commitments'[k].state \in {"bound", "unknown"} =>
         Unresolved(k) /\ commitments'[k].outcome = commitments[k].outcome

\* Recording an outcome that happened is settling.
LEMMA OutcomeSettles ==
  ASSUME Inv, NEW k \in Keys, NEW entry \in Entry, Happened(k, entry.outcome), RecordOutcome(k, entry)
  PROVE  Settling(k)
<1>1. entry.outcome \in Outcomes /\ entry.outcome \in Known
  BY OutcomesAreKnown, SMT DEF Entry
<1>2. CASE commitments' = commitments
  BY <1>2, SMT DEF Inv, TypeOK, Settling, Unresolved
<1>3. CASE Unresolved(k) /\ commitments' = Recorded(k, entry.outcome)
  <2>1. commitments' \in [Keys -> Commitment]
    BY <1>1, <1>3, RecordedShape DEF Inv
  <2>2. Committed(k) /\ commitments[k].outcome = "none"
    BY <1>3, SMT DEF Inv, OutcomesAreTrue, Unresolved, Committed
  <2>3. /\ \A j \in Keys \ {k} : commitments'[j] = commitments[j]
        /\ commitments'[k].state \in {"discharged", "reconciled"}
        /\ commitments'[k].outcome = entry.outcome
        /\ commitments'[k].boot = commitments[k].boot /\ commitments'[k].store = commitments[k].store
    BY <1>3, SMT DEF Inv, TypeOK, Recorded
  <2>. QED  BY <1>1, <2>1, <2>2, <2>3, SMT DEF Settling, Committed
<1>. QED  BY <1>2, <1>3, Zenon DEF RecordOutcome

\* So is concluding that nothing happened, when that is so and cannot change any more.
LEMMA AbsenceSettles ==
  ASSUME Inv, NEW k \in Keys, effects[k].times = 0, commitments[k].boot < host.boot, RecordAbsence(k)
  PROVE  Settling(k)
<1>1. CASE commitments' = commitments
  BY <1>1, SMT DEF Inv, TypeOK, Settling, Unresolved
<1>2. CASE Unresolved(k) /\ commitments' =
        [commitments EXCEPT ![k] = [commitments[k] EXCEPT !.state = "reconciled", !.outcome = "no-effect"]]
  <2>1. commitments' \in [Keys -> Commitment]
    <3>1. [commitments[k] EXCEPT !.state = "reconciled", !.outcome = "no-effect"] \in Commitment
      <4>1. commitments[k] \in Commitment  BY Zenon DEF Inv, TypeOK
      <4>2. "no-effect" \in Known \cup {"none"}  BY DEF Known
      <4>. QED  BY <4>1, <4>2, Zenon DEF Commitment
    <3>. QED  BY <1>2, <3>1, Zenon DEF Inv, TypeOK
  <2>2. Committed(k) /\ commitments[k].outcome = "none"
    BY <1>2, SMT DEF Inv, OutcomesAreTrue, Unresolved, Committed
  <2>3. /\ \A j \in Keys \ {k} : commitments'[j] = commitments[j]
        /\ commitments'[k].state = "reconciled"
        /\ commitments'[k].outcome = "no-effect"
        /\ commitments'[k].boot = commitments[k].boot /\ commitments'[k].store = commitments[k].store
    BY <1>2, SMT DEF Inv, TypeOK
  <2>. QED  BY <2>1, <2>2, <2>3, SMT DEF Settling, Committed
<1>. QED  BY <1>1, <1>2, Zenon DEF RecordAbsence

\* So is giving up.
LEMMA UnknownSettles ==
  ASSUME Inv, NEW k \in Keys, MarkUnknown(k)
  PROVE  Settling(k)
<1>1. CASE commitments' = commitments
  BY <1>1, SMT DEF Inv, TypeOK, Settling, Unresolved
<1>2. CASE commitments[k].state = "bound" /\ commitments' = [commitments EXCEPT ![k].state = "unknown"]
  <2>1. commitments' \in [Keys -> Commitment]
    BY <1>2, SMT DEF Inv, TypeOK, Commitment
  <2>2. /\ \A j \in Keys \ {k} : commitments'[j] = commitments[j]
        /\ commitments'[k].state = "unknown"
        /\ commitments'[k].outcome = commitments[k].outcome
        /\ commitments'[k].boot = commitments[k].boot /\ commitments'[k].store = commitments[k].store
    BY <1>2, SMT DEF Inv, TypeOK
  <2>. QED  BY <1>2, <2>1, <2>2, SMT DEF Settling, Unresolved
<1>. QED  BY <1>1, <1>2, Zenon DEF MarkUnknown

\* A step that only settles keeps everything but what it does to its messages
\* and to the pass.
LEMMA SettlingPreserves ==
  ASSUME Inv, NEW k \in Keys, Settling(k), UNCHANGED <<ledger, effects, host, memory>>,
         network' \subseteq network
  PROVE  /\ NothingYet' /\ BindingsAreOld' /\ TokensAreCurrent' /\ MessagesAreTrue'
         /\ LedgerIsTrue' /\ OutcomesAreTrue'
<1>1. NothingYet'
  BY SMT DEF Inv, NothingYet, Settling, Committed
<1>2. BindingsAreOld'
  BY SMT DEF Inv, BindingsAreOld, Settling, Committed
<1>3. TokensAreCurrent'
  BY SMT DEF Inv, TokensAreCurrent, Settling, Committed
<1>4. MessagesAreTrue'
  <2>. SUFFICES ASSUME NEW m \in network' PROVE MessageIsTrue(m)'
    BY DEF MessagesAreTrue
  <2>1. m \in network /\ m.key \in Keys /\ MessageIsTrue(m)
    BY MessageShapes DEF Inv, MessagesAreTrue
  <2>. QED  BY <2>1, SMT DEF MessageIsTrue, Settling, Committed, Happened
<1>5. LedgerIsTrue'
  BY SMT DEF Inv, LedgerIsTrue, Settling, Committed, Happened, Matches
<1>6. OutcomesAreTrue'
  BY ExecutionAssumption, SMT DEF Inv, OutcomesAreTrue, Settling, Unresolved, Happened
<1>. QED  BY <1>1, <1>2, <1>3, <1>4, <1>5, <1>6

\* A report settles the commitment it names, and nothing else.
LEMMA ReportSettles ==
  ASSUME Inv, NEW m \in network, HandleReport(m)
  PROVE  m.key \in Keys /\ Settling(m.key)
<1>1. m.key \in Keys /\ m.entry \in Entry /\ Happened(m.key, m.entry.outcome)
  BY MessageShapes DEF Inv, HandleReport, MessagesAreTrue, MessageIsTrue
<1>. QED  BY <1>1, OutcomeSettles DEF HandleReport

LEMMA HandleReportPreserves ==
  ASSUME Inv, NEW m \in network, HandleReport(m)
  PROVE  Inv'
<1>1. m.key \in Keys
  BY ReportSettles
<1>2. Settling(m.key)
  BY ReportSettles
<1>3. /\ UNCHANGED <<ledger, effects, host, memory, maintenance, listening, now, asks, restarts, losses>>
      /\ network' \subseteq network
  BY DEF HandleReport
<1>4. /\ NothingYet' /\ BindingsAreOld' /\ TokensAreCurrent' /\ MessagesAreTrue'
      /\ LedgerIsTrue' /\ OutcomesAreTrue'
  BY <1>1, <1>2, <1>3, SettlingPreserves
<1>5. TypeOK'
  BY <1>2, <1>3, SMT DEF Inv, TypeOK, Settling
<1>6. AnswersAreTrue'
  BY <1>1, <1>2, <1>3, SMT DEF Inv, AnswersAreTrue, Settling, Committed, Happened, ProvesAbsence
<1>. QED  BY <1>4, <1>5, <1>6 DEF Inv

\* The pass settles the commitment it asked about, by the answer it got.
LEMMA ActSettles == ASSUME Inv, Act PROVE maintenance.key \in Keys /\ Settling(maintenance.key)
<1>. DEFINE k == maintenance.key
            answer == maintenance.answer
<1>1. k \in Keys
  BY SMT DEF Inv, AnswersAreTrue, Act
<1>2. CASE answer.state = "recorded" /\ RecordOutcome(k, answer.entry)
  <2>1. answer.entry \in Entry
    BY <1>2, SMT DEF Inv, TypeOK, Pass, Answer
  <2>2. Happened(k, answer.entry.outcome)
    BY <1>2, SMT DEF Inv, AnswersAreTrue
  <2>. QED  BY <1>1, <1>2, <2>1, <2>2, OutcomeSettles
<1>3. CASE ProvesAbsence(k, answer) /\ RecordAbsence(k)
  <2>1. answer.state = "absent" /\ answer.boot \in Nat
    BY <1>3, SMT DEF Inv, TypeOK, Pass, Answer, ProvesAbsence
  <2>2. /\ effects[k].times = 0 /\ commitments[k].boot < answer.boot /\ answer.boot <= host.boot
        /\ commitments[k].boot \in Nat /\ host.boot \in Nat
    BY <1>1, <1>3, <2>1, SMT DEF Inv, TypeOK, Commitment, AnswersAreTrue
  <2>3. commitments[k].boot < host.boot
    BY <2>1, <2>2, SMT
  <2>. QED  BY <1>1, <1>3, <2>2, <2>3, AbsenceSettles
<1>4. CASE UNCHANGED commitments
  BY <1>1, <1>4, SMT DEF Inv, TypeOK, Settling, Unresolved
<1>5. CASE MarkUnknown(k)
  BY <1>1, <1>5, UnknownSettles
<1>. QED  BY <1>1, <1>2, <1>3, <1>4, <1>5, Zenon DEF Act

LEMMA ActPreserves == ASSUME Inv, Act PROVE Inv'
<1>1. maintenance.key \in Keys /\ Settling(maintenance.key)  BY ActSettles
<1>2. UNCHANGED <<ledger, effects, host, memory, network, listening, now, asks, restarts, losses>>
  BY DEF Act, UnchangedByPass
<1>3. /\ NothingYet' /\ BindingsAreOld' /\ TokensAreCurrent' /\ MessagesAreTrue'
      /\ LedgerIsTrue' /\ OutcomesAreTrue'
  BY <1>1, <1>2, SettlingPreserves
<1>4. /\ maintenance' \in Pass /\ maintenance'.answer.state = "none"
      /\ \/ maintenance'.phase = "next"
         \/ maintenance'.key = maintenance.key
  <2>1. maintenance \in Pass  BY DEF Inv, TypeOK
  <2>2. NoAnswer.state = "none" /\ maintenance.attempt + 1 \in Nat
    BY <2>1, SMT DEF NoAnswer, Pass
  <2>3. CASE maintenance' = NextCommitment
    <3>1. maintenance' \in Pass
      BY <2>1, <2>3, NothingShapes, PassShape, Zenon DEF NextCommitment
    <3>. QED  BY <2>1, <2>2, <2>3, <3>1, Zenon DEF Pass, NextCommitment
  <2>4. CASE maintenance' = [maintenance EXCEPT !.phase = "probe", !.attempt = maintenance.attempt + 1, !.answer = NoAnswer]
    <3>1. maintenance' \in Pass
      BY <2>1, <2>2, <2>4, NothingShapes, PassShape, Zenon
    <3>. QED  BY <2>1, <2>2, <2>4, <3>1, Zenon DEF Pass
  <2>. QED  BY <2>3, <2>4, Zenon DEF Act
<1>5. TypeOK'
  BY <1>1, <1>2, <1>4, SMT DEF Inv, TypeOK, Settling
<1>6. AnswersAreTrue'
  <2>1. maintenance.key \in Keys /\ Committed(maintenance.key)
    BY SMT DEF Inv, AnswersAreTrue, Act
  <2>. QED  BY <2>1, <1>1, <1>4, SMT DEF AnswersAreTrue, Settling, Committed
<1>. QED  BY <1>3, <1>5, <1>6 DEF Inv

-----------------------------------------------------------------------------
\* The initial state satisfies the invariant.
LEMMA InitInv == ASSUME Init PROVE Inv
<1>1. TypeOK
  <2>1. commitments \in [Keys -> Commitment]
    BY SMT DEF Init, Commitment
  <2>2. effects \in [Keys -> [times : Nat, outcome : Outcomes \cup {"none"}]]
    BY SMT DEF Init
  <2>3. host \in [up : BOOLEAN, boot : Nat, store : Nat]
    BY Zenon DEF Init
  <2>4. ledger \in [Keys -> Entry \cup {NoEntry}] /\ memory \in [Keys -> Slot] /\ maintenance \in Pass
    BY NothingShapes DEF Init
  <2>5. network \subseteq Message /\ listening \in BOOLEAN
    BY Zenon DEF Init
  <2>. QED  BY <2>1, <2>2, <2>3, <2>4, <2>5, SMT DEF Init, TypeOK
<1>2. AnswersAreTrue
  BY SMT DEF Init, AnswersAreTrue, Idle, NoAnswer
<1>. QED
  BY <1>1, <1>2, SMT
     DEF Init, Inv, NothingYet, BindingsAreOld, TokensAreCurrent, MessagesAreTrue, LedgerIsTrue,
         OutcomesAreTrue, NoEntry, Empty

\* Every step keeps it: one case for each action.
LEMMA NextInv == ASSUME Inv, [Next]_vars PROVE Inv'
<1>1. CASE UNCHANGED vars
  BY <1>1, Zenon
     DEF vars, Inv, TypeOK, NothingYet, BindingsAreOld, TokensAreCurrent, MessagesAreTrue,
         MessageIsTrue, LedgerIsTrue, OutcomesAreTrue, AnswersAreTrue, Committed, Happened,
         Matches, Unresolved, ProvesAbsence
<1>2. CASE Tick \/ Crash \/ Restart \/ ReplaceLedger \/ AuthorizationCrash
  BY <1>2, TickPreserves, CrashPreserves, RestartPreserves, ReplaceLedgerPreserves,
     AuthorizationCrashPreserves
<1>3. CASE Maintain
  BY <1>3, BeginPassPreserves, BeginCommitmentPreserves, ProbePreserves, ActPreserves,
     EndPassPreserves DEF Maintain
<1>4. ASSUME NEW k \in Keys,
             Ask(k) \/ AskFails(k) \/ ServeRecorded(k) \/ Forgo(k) \/ \E outcome \in Outcomes : Produce(k, outcome)
      PROVE  Inv'
  BY <1>4, AskPreserves, AskFailsPreserves, ServeRecordedPreserves, ForgoPreserves, ProducePreserves
<1>5. ASSUME NEW m \in network, ReceiveReply(m) \/ HandleVerify(m) \/ HandleReport(m) \/ Lose(m)
      PROVE  Inv'
  BY <1>5, ReceiveReplyPreserves, HandleVerifyPreserves, HandleReportPreserves, LosePreserves
<1>. QED  BY <1>1, <1>2, <1>3, <1>4, <1>5 DEF Next

\* Inv is an inductive invariant.
THEOREM ExecutionInvariance == Spec => []Inv
<1>1. Init => Inv  BY InitInv
<1>2. Inv /\ [Next]_vars => Inv'  BY NextInv
<1>. QED  BY <1>1, <1>2, PTL DEF Spec

\* Every variable keeps its shape.
THEOREM ExecutionTypeCorrect == Spec => []TypeOK
<1>1. Inv => TypeOK  BY DEF Inv
<1>. QED  BY <1>1, ExecutionInvariance, PTL

\* No report or probe of an effect in the ledger is turned away as a mismatch.
THEOREM RecordedEffectsAreAdoptable == Spec => []Adoptable
<1>1. Inv => Adoptable
  <2>. SUFFICES ASSUME Inv, NEW k \in Keys, ledger[k] # NoEntry
                PROVE  commitments[k].state \notin {"open", "refused"} /\ Matches(k, ledger[k])
    BY DEF Adoptable
  <2>. QED  BY SMT DEF Inv, LedgerIsTrue, Happened, Committed
<1>. QED  BY <1>1, ExecutionInvariance, PTL

\* What the authorization service holds for true is true: a recorded outcome
\* happened, and a concluded absence means that nothing did.
THEOREM KnownOutcomesAreTrue == Spec => []KnownIsTrue
<1>1. Inv => KnownIsTrue
  <2>. SUFFICES ASSUME Inv, NEW k \in Keys
                PROVE  /\ effects[k].times <= 1
                       /\ commitments[k].outcome \in {"success", "failed"} =>
                            effects[k].times = 1 /\ commitments[k].outcome = effects[k].outcome
                       /\ commitments[k].outcome = "no-effect" => effects[k].times = 0
    BY Zenon DEF KnownIsTrue
  <2>1. effects[k].times <= 1
    BY SMT DEF Inv, LedgerIsTrue
  <2>. QED  BY <2>1, SMT DEF Inv, OutcomesAreTrue, Happened
<1>. QED  BY <1>1, ExecutionInvariance, PTL

-----------------------------------------------------------------------------
\* The abstract state of a concrete one.
EffectBar == [k \in Keys |-> EffectOf(k)]
KnownBar == [k \in Keys |-> commitments[k].outcome]

\* A step that touches neither effects nor outcomes is a stutter of the abstract one.
LEMMA QuietSteps ==
  ASSUME UNCHANGED effects, \A k \in Keys : commitments'[k].outcome = commitments[k].outcome
  PROVE  UNCHANGED <<EffectBar, KnownBar>>
<1>1. EffectBar' = EffectBar  BY SMT DEF EffectBar, EffectOf
<1>2. KnownBar' = KnownBar  BY Zenon DEF KnownBar
<1>. QED  BY <1>1, <1>2

\* Settling a commitment is learning what became of it, or a stutter.
LEMMA SettlingLearns ==
  ASSUME Inv, NEW k \in Keys, Settling(k), UNCHANGED effects
  PROVE  Abstract!Learn(k) \/ UNCHANGED <<EffectBar, KnownBar>>
<1>1. CASE commitments'[k].outcome = commitments[k].outcome
  <2>1. \A j \in Keys : commitments'[j].outcome = commitments[j].outcome
    BY <1>1, Zenon DEF Settling
  <2>. QED  BY <2>1, QuietSteps
<1>2. CASE /\ commitments[k].outcome = "none"
           /\ commitments'[k].outcome = IF EffectBar[k] = "none" THEN "no-effect" ELSE EffectBar[k]
  <2>1. KnownBar' = [KnownBar EXCEPT ![k] = IF EffectBar[k] = "none" THEN "no-effect" ELSE EffectBar[k]]
    BY <1>2, Zenon DEF Settling, KnownBar
  <2>2. EffectBar' = EffectBar  BY SMT DEF EffectBar, EffectOf
  <2>3. KnownBar[k] = "none"  BY <1>2 DEF KnownBar
  <2>. QED  BY <2>1, <2>2, <2>3 DEF Abstract!Learn, EffectBar, KnownBar
<1>3. \/ commitments'[k].outcome = commitments[k].outcome
      \/ /\ commitments[k].outcome = "none"
         /\ commitments'[k].outcome = IF EffectBar[k] = "none" THEN "no-effect" ELSE EffectBar[k]
  <2>1. CASE commitments'[k].outcome \in Outcomes /\ Happened(k, commitments'[k].outcome)
    BY <2>1, ExecutionAssumption, SMT DEF EffectBar, EffectOf, Happened, Settling
  <2>2. CASE commitments'[k].outcome = "no-effect" /\ effects[k].times = 0
    BY <2>2, SMT DEF EffectBar, EffectOf, Settling
  <2>. QED  BY <2>1, <2>2 DEF Settling
<1>. QED  BY <1>1, <1>2, <1>3

\* Producing the effect is doing it, once.
LEMMA ProduceDoes ==
  ASSUME Inv, NEW k \in Keys, NEW outcome \in Outcomes, Produce(k, outcome)
  PROVE  Abstract!Do(k, outcome)
<1>1. effects[k].times = 0 /\ commitments[k].outcome = "none"
  BY ProduceFacts
<1>2. EffectBar[k] = "none" /\ KnownBar[k] = "none"
  BY <1>1 DEF EffectBar, EffectOf, KnownBar
<1>3. effects'[k].times = 1 /\ effects'[k].outcome = outcome /\ \A j \in Keys \ {k} : effects'[j] = effects[j]
  BY <1>1, SMT DEF Inv, TypeOK, Produce
<1>4. EffectBar' = [EffectBar EXCEPT ![k] = outcome]
  <2>1. EffectOf(k)' = outcome /\ \A j \in Keys \ {k} : EffectOf(j)' = EffectOf(j)
    BY <1>3, SMT DEF EffectOf
  <2>. QED  BY <2>1, Zenon DEF EffectBar
<1>5. KnownBar' = KnownBar  BY DEF KnownBar, Produce
<1>. QED  BY <1>2, <1>4, <1>5 DEF Abstract!Do, EffectBar, KnownBar

\* Every step is a step of the abstract specification, or a stutter.
LEMMA StepRefines ==
  ASSUME Inv, [Next]_vars
  PROVE  [Abstract!EffectNext]_(Abstract!effectVars)
<1>1. CASE UNCHANGED <<EffectBar, KnownBar>>
  BY <1>1 DEF Abstract!effectVars, EffectBar, KnownBar
<1>2. ASSUME NEW k \in Keys, Abstract!Learn(k) \/ \E outcome \in Outcomes : Abstract!Do(k, outcome)
      PROVE  Abstract!EffectNext
  BY <1>2 DEF Abstract!EffectNext
<1>3. CASE UNCHANGED <<effects, commitments>>
  BY <1>1, <1>3, QuietSteps
<1>4. ASSUME NEW k \in Keys, NEW outcome \in Outcomes, Produce(k, outcome)
      PROVE  Abstract!EffectNext
  BY <1>2, <1>4, ProduceDoes
<1>5. CASE Act
  <2>1. UNCHANGED effects  BY <1>5 DEF Act, UnchangedByPass
  <2>. QED  BY <1>1, <1>2, <1>5, <2>1, ActSettles, SettlingLearns
<1>6. ASSUME NEW m \in network, HandleReport(m)
      PROVE  Abstract!EffectNext \/ UNCHANGED <<EffectBar, KnownBar>>
  <2>1. UNCHANGED effects  BY <1>6 DEF HandleReport
  <2>2. m.key \in Keys /\ Settling(m.key)  BY <1>6, ReportSettles
  <2>. QED  BY <1>2, <2>1, <2>2, SettlingLearns
<1>7. ASSUME NEW m \in network, HandleVerify(m)
      PROVE  UNCHANGED <<EffectBar, KnownBar>>
  BY <1>7, QuietSteps, VerifyKeepsOutcomes DEF HandleVerify
<1>. QED
  BY <1>1, <1>3, <1>4, <1>5, <1>6, <1>7, Zenon
     DEF Next, vars, Tick, Crash, Restart, ReplaceLedger, AuthorizationCrash, Maintain,
         BeginPass, BeginCommitment, Probe, EndPass, UnchangedByPass, Ask, AskFails,
         ServeRecorded, Forgo, ReceiveReply, Lose

\* The effect happens at most once, whatever is lost, repeated or crashed, and
\* nothing is learned of it that is not so: execution implements the abstract
\* specification.
THEOREM ExecutionIsAtMostOnce == Spec => ImplementsAtMostOnce
<1>1. Init => Abstract!EffectInit
  BY SMT DEF Init, Abstract!EffectInit, EffectOf
<1>2. Inv /\ [Next]_vars => [Abstract!EffectNext]_(Abstract!effectVars)
  BY StepRefines
<1>. QED
  BY <1>1, <1>2, ExecutionInvariance, PTL DEF Spec, ImplementsAtMostOnce, Abstract!EffectSpec

=============================================================================
