-------------------------- MODULE CaseAuthorityProofs --------------------------
EXTENDS AuthorityProperties, SequenceTheorems, FiniteSetTheorems, TLAPS

-----------------------------------------------------------------------------
(***************************************************************************)
(* The inductive invariant.                                                *)
(***************************************************************************)
\* What TypeOK leaves open.
Shape ==
    /\ generated \in 0..MaxSessions
    /\ late \subseteq {"redeem", "close"} \X (0..Len(handoffs)) \X (1..generated)
    /\ boot <= changes + 1

\* A version that can still be in force is the newest one: replace leaves none behind it.
OnlyNewestLives ==
    \A v \in Versions : decisions[v].status \in {"proposed", "approved"} => v = Len(decisions)

\* A session identifier is presented by one request: until that request is handled the
\* session has no receipt.
SessionsAreFresh ==
    /\ \A s \in Sessions : s > generated => receipts[s] = NoReceipt
    /\ \A r \in late : r[1] = "redeem" => /\ r[2] # 0 /\ receipts[r[3]] = NoReceipt
                                          /\ \A q \in late : q[1] = "redeem" /\ q[3] = r[3] => q = r

\* A preparation is bound to a session that has a receipt.
PreparationsHaveSessions ==
    \A b \in 1..Len(bindings) : bindings[b].kind \in Preparations =>
        bindings[b].session \in Sessions /\ receipts[bindings[b].session].state # "none"

\* An execution names a precommit ruling of its own mandate, and such a ruling a session.
NamesAreKnown ==
    \A b \in 1..Len(bindings) :
        /\ bindings[b].kind = "precommit" => bindings[b].session \in Sessions
        /\ bindings[b].kind = "execution" =>
              LET p == bindings[b].precommit
              IN p \in 1..Len(bindings) /\ bindings[p].kind = "precommit" /\ bindings[p].mandate = bindings[b].mandate

Inv == /\ TypeOK /\ Shape
       /\ OnlyNewestLives /\ IssuedIsAuthorised /\ NamesAreKnown
       /\ SessionsAreFresh /\ ConsumedIsRedeemed /\ OneSessionPerHandoff /\ ConsoleWasRedeemed
       /\ PreparationsHaveSessions /\ ClosedHoldsNothing

-----------------------------------------------------------------------------
(***************************************************************************)
(* Sequences of records that change in place.                              *)
(***************************************************************************)
LEMMA InPlace == ASSUME NEW S, NEW s \in Seq(S), NEW f, f = [i \in DOMAIN s |-> f[i]], \A i \in 1..Len(s) : f[i] \in S
                 PROVE  f \in Seq(S) /\ Len(f) = Len(s) /\ DOMAIN f = 1..Len(s)
<1>1. Len(s) \in Nat /\ DOMAIN s = 1..Len(s) BY LenProperties
<1>2. f \in [1..Len(s) -> S] BY <1>1
<1>3. f \in Seq(S) BY <1>1, <1>2, SeqDef
<1>4. DOMAIN f = 1..Len(s) BY <1>2
<1>5. Len(f) = Len(s) BY <1>1, <1>3, <1>4, LenProperties
<1> QED BY <1>3, <1>4, <1>5

\* What ends in `bs` were issued bindings, and nothing else about them changes.
Fewer(bs) ==
    /\ bs \in Seq(BindingRecords) /\ Len(bs) = Len(bindings)
    /\ \A b \in 1..Len(bindings) :
         /\ bs[b].kind = bindings[b].kind /\ bs[b].session = bindings[b].session
         /\ bs[b].decision = bindings[b].decision /\ bs[b].mandate = bindings[b].mandate
         /\ bs[b].version = bindings[b].version /\ bs[b].precommit = bindings[b].precommit
         /\ bs[b].state = "issued" => bindings[b].state = "issued"

\* No binding is put to use.
Unused(bs) ==
    \A b \in 1..Len(bindings) : bs[b].mandate = bindings[b].mandate
                                /\ (bs[b].state = "used" => bindings[b].state = "used")

LEMMA EndingEnds == ASSUME TypeOK, NEW B
                    PROVE  /\ Fewer(Ending(B)) /\ Unused(Ending(B))
                           /\ \A b \in B \cap 1..Len(bindings) : Ending(B)[b].state # "issued"
<1>0. bindings \in Seq(BindingRecords) BY DEF TypeOK
<1>1. ASSUME NEW b \in 1..Len(bindings)
      PROVE  /\ Ending(B)[b] \in BindingRecords
             /\ Ending(B)[b].kind = bindings[b].kind /\ Ending(B)[b].session = bindings[b].session
             /\ Ending(B)[b].decision = bindings[b].decision /\ Ending(B)[b].mandate = bindings[b].mandate
             /\ Ending(B)[b].version = bindings[b].version /\ Ending(B)[b].precommit = bindings[b].precommit
             /\ Ending(B)[b].state = "issued" => bindings[b].state = "issued"
             /\ Ending(B)[b].state = "used" => bindings[b].state = "used"
             /\ b \in B => Ending(B)[b].state # "issued"
  <2>1. bindings[b] \in BindingRecords /\ b \in DOMAIN bindings BY <1>0
  <2>2. [bindings[b] EXCEPT !.state = "invalidated"] \in BindingRecords BY <2>1 DEF BindingRecords
  <2>3. CASE b \in B /\ bindings[b].state = "issued"
    <3>1. Ending(B)[b] = [bindings[b] EXCEPT !.state = "invalidated"] BY <2>1, <2>3 DEF Ending
    <3> QED BY <2>1, <2>2, <3>1 DEF BindingRecords
  <2>4. CASE ~(b \in B /\ bindings[b].state = "issued")
    <3>1. Ending(B)[b] = bindings[b] BY <2>1, <2>4 DEF Ending
    <3> QED BY <2>1, <2>4, <3>1
  <2> QED BY <2>3, <2>4
<1>2. Ending(B) = [b \in DOMAIN bindings |-> Ending(B)[b]] BY DEF Ending
<1>3. Ending(B) \in Seq(BindingRecords) /\ Len(Ending(B)) = Len(bindings)
  <2>1. \A b \in 1..Len(bindings) : Ending(B)[b] \in BindingRecords BY <1>1
  <2> QED BY <1>0, <2>1, <1>2, InPlace
<1> QED BY <1>1, <1>3 DEF Fewer, Unused

LEMMA HandoffsExpire == ASSUME TypeOK
      PROVE /\ ExpiredHandoffs \in Seq(HandoffRecords) /\ Len(ExpiredHandoffs) = Len(handoffs)
            /\ \A h \in 1..Len(handoffs) : ExpiredHandoffs[h].state = "consumed" <=> handoffs[h].state = "consumed"
<1>0. handoffs \in Seq(HandoffRecords) BY DEF TypeOK
<1>1. ASSUME NEW h \in 1..Len(handoffs)
      PROVE  ExpiredHandoffs[h] \in HandoffRecords /\ (ExpiredHandoffs[h].state = "consumed" <=> handoffs[h].state = "consumed")
  <2>1. handoffs[h] \in HandoffRecords /\ h \in DOMAIN handoffs BY <1>0
  <2>2. [handoffs[h] EXCEPT !.state = "expired"] \in HandoffRecords BY <2>1 DEF HandoffRecords
  <2>3. CASE handoffs[h].state = "issued" /\ Gone(handoffs[h])
    <3>1. ExpiredHandoffs[h] = [handoffs[h] EXCEPT !.state = "expired"] BY <2>1, <2>3 DEF ExpiredHandoffs
    <3> QED BY <2>1, <2>2, <2>3, <3>1 DEF HandoffRecords
  <2>4. CASE ~(handoffs[h].state = "issued" /\ Gone(handoffs[h]))
    <3>1. ExpiredHandoffs[h] = handoffs[h] BY <2>1, <2>4 DEF ExpiredHandoffs
    <3> QED BY <2>1, <3>1
  <2> QED BY <2>3, <2>4
<1>2. ExpiredHandoffs = [h \in DOMAIN handoffs |-> ExpiredHandoffs[h]] BY DEF ExpiredHandoffs
<1>3. \A h \in 1..Len(handoffs) : ExpiredHandoffs[h] \in HandoffRecords BY <1>1
<1>4. ExpiredHandoffs \in Seq(HandoffRecords) /\ Len(ExpiredHandoffs) = Len(handoffs) BY <1>0, <1>2, <1>3, InPlace
<1> QED BY <1>1, <1>4

\* A receipt that expires by itself is gone already.
LEMMA ReceiptsExpire == ASSUME TypeOK
      PROVE /\ ExpiredReceipts \in [Sessions -> ReceiptRecords]
            /\ \A s \in Sessions :
                 /\ ExpiredReceipts[s].handoff = receipts[s].handoff /\ ExpiredReceipts[s].boot = receipts[s].boot
                 /\ ExpiredReceipts[s].overdue = receipts[s].overdue
                 /\ ExpiredReceipts[s] = receipts[s] \/ (receipts[s].state = "active" /\ Gone(receipts[s]) /\ ExpiredReceipts[s].state = "expired")
<1>1. ASSUME NEW s \in Sessions
      PROVE  /\ ExpiredReceipts[s] \in ReceiptRecords
             /\ ExpiredReceipts[s].handoff = receipts[s].handoff /\ ExpiredReceipts[s].boot = receipts[s].boot
             /\ ExpiredReceipts[s].overdue = receipts[s].overdue
             /\ ExpiredReceipts[s] = receipts[s] \/ (receipts[s].state = "active" /\ Gone(receipts[s]) /\ ExpiredReceipts[s].state = "expired")
  <2>1. receipts[s] \in ReceiptRecords BY DEF TypeOK
  <2>2. [receipts[s] EXCEPT !.state = "expired"] \in ReceiptRecords BY <2>1 DEF ReceiptRecords
  <2>3. CASE receipts[s].state = "active" /\ Gone(receipts[s])
    <3>1. ExpiredReceipts[s] = [receipts[s] EXCEPT !.state = "expired"] BY <2>3 DEF ExpiredReceipts
    <3> QED BY <2>1, <2>2, <2>3, <3>1 DEF ReceiptRecords
  <2>4. CASE ~(receipts[s].state = "active" /\ Gone(receipts[s]))
    <3>1. ExpiredReceipts[s] = receipts[s] BY <2>4, Zenon DEF ExpiredReceipts
    <3> QED BY <2>1, <3>1
  <2> QED BY <2>3, <2>4
<1> QED BY <1>1 DEF ExpiredReceipts

-----------------------------------------------------------------------------
(***************************************************************************)
(* What a step does to receipts, and the parts of the invariant it keeps.  *)
(***************************************************************************)
\* Receipts that move on without a redemption.
Aged(rs) ==
    /\ rs \in [Sessions -> ReceiptRecords]
    /\ \A s \in Sessions :
         /\ rs[s].handoff = receipts[s].handoff /\ rs[s].boot = receipts[s].boot
         /\ receipts[s].overdue => rs[s].overdue
         /\ receipts[s].state = "none" => rs[s] = receipts[s]
         /\ receipts[s].state # "none" => rs[s].state # "none"

\* A receipt that is no longer active ended by itself.
Outlived(rs) ==
    \A s \in Sessions : receipts[s].state = "active" \/ Gone(receipts[s]) => rs[s].state = "active" \/ Gone(rs[s])

Sessioned == SessionsAreFresh /\ ConsumedIsRedeemed /\ OneSessionPerHandoff /\ ConsoleWasRedeemed
Bound == PreparationsHaveSessions /\ ClosedHoldsNothing
Founded == OnlyNewestLives /\ IssuedIsAuthorised /\ NamesAreKnown

\* The same handoffs are consumed.
Spends(hs) == /\ hs \in Seq(HandoffRecords) /\ Len(hs) = Len(handoffs)
              /\ \A h \in 1..Len(handoffs) : hs[h].state = "consumed" <=> handoffs[h].state = "consumed"

LEMMA ExpiryAges == ASSUME TypeOK PROVE Aged(ExpiredReceipts) /\ Outlived(ExpiredReceipts) /\ Spends(ExpiredHandoffs)
<1>1. ASSUME NEW s \in Sessions
      PROVE  /\ ExpiredReceipts[s].handoff = receipts[s].handoff /\ ExpiredReceipts[s].boot = receipts[s].boot
             /\ receipts[s].overdue => ExpiredReceipts[s].overdue
             /\ receipts[s].state = "none" => ExpiredReceipts[s] = receipts[s]
             /\ receipts[s].state # "none" => ExpiredReceipts[s].state # "none"
             /\ receipts[s].state = "active" \/ Gone(receipts[s]) => ExpiredReceipts[s].state = "active" \/ Gone(ExpiredReceipts[s])
  <2>1. /\ ExpiredReceipts[s].handoff = receipts[s].handoff /\ ExpiredReceipts[s].boot = receipts[s].boot
        /\ ExpiredReceipts[s].overdue = receipts[s].overdue
        /\ ExpiredReceipts[s] = receipts[s] \/ (receipts[s].state = "active" /\ Gone(receipts[s]) /\ ExpiredReceipts[s].state = "expired")
    BY ReceiptsExpire
  <2> QED BY <2>1, Zenon DEF Gone
<1>2. ExpiredReceipts \in [Sessions -> ReceiptRecords] BY ReceiptsExpire
<1> QED BY <1>1, <1>2, HandoffsExpire DEF Aged, Outlived, Spends

\* A receipt of the type, by its parts.
LEMMA Unchanging == ASSUME TypeOK PROVE Aged(receipts) /\ Outlived(receipts) /\ Spends(handoffs) /\ Fewer(bindings)
BY DEF TypeOK, Aged, Outlived, Spends, Fewer

LEMMA SessionsStay ==
    ASSUME Inv, Spends(handoffs'), Aged(receipts'), generated' = generated, console' \subseteq console, late' \subseteq late
    PROVE  Sessioned'
<1> USE DEF Inv, Aged
<1>1. SessionsAreFresh'
  <2>1. ASSUME NEW s \in Sessions, receipts[s] = NoReceipt PROVE receipts'[s] = NoReceipt BY <2>1 DEF NoReceipt
  <2>2. \A s \in Sessions : s > generated => receipts'[s] = NoReceipt BY <2>1 DEF SessionsAreFresh
  <2>3. ASSUME NEW r \in late', r[1] = "redeem"
        PROVE  r[2] # 0 /\ receipts'[r[3]] = NoReceipt /\ \A q \in late' : q[1] = "redeem" /\ q[3] = r[3] => q = r
    <3>1. r \in late /\ r[3] \in 1..generated BY <2>3 DEF Shape
    <3>2. r[3] \in Sessions BY <3>1, CaseAuthorityAssumption DEF Shape, Sessions
    <3>3. receipts[r[3]] = NoReceipt BY <3>1, <2>3 DEF SessionsAreFresh
    <3>4. receipts'[r[3]] = NoReceipt BY <3>2, <3>3, <2>1
    <3> QED BY <3>1, <3>4, <2>3 DEF SessionsAreFresh
  <2> QED BY <2>2, <2>3 DEF SessionsAreFresh, Sessions
<1>2. ConsumedIsRedeemed' BY DEF ConsumedIsRedeemed, Spends, Sessions
<1>3. OneSessionPerHandoff' BY DEF OneSessionPerHandoff, Sessions
<1>4. ConsoleWasRedeemed'
  <2>1. console \subseteq Sessions BY CaseAuthorityAssumption DEF TypeOK, Shape, Sessions
  <2> QED BY <2>1 DEF ConsoleWasRedeemed
<1> QED BY <1>1, <1>2, <1>3, <1>4 DEF Sessioned

LEMMA BindingsStay ==
    ASSUME Inv, Fewer(bindings'), Aged(receipts'), Outlived(receipts'), boot' = boot
    PROVE  Bound'
<1>1. Len(bindings') = Len(bindings) BY DEF Fewer
<1>2. ASSUME NEW b \in 1..Len(bindings'), bindings'[b].kind \in Preparations
      PROVE  /\ bindings'[b].session \in Sessions /\ receipts'[bindings'[b].session].state # "none"
             /\ bindings'[b].state = "issued" =>
                  receipts'[bindings'[b].session].state = "active" \/ Gone(receipts[bindings[b].session])'
  <2>0. b \in 1..Len(bindings) BY <1>1
  <2>1. /\ bindings'[b].kind = bindings[b].kind /\ bindings'[b].session = bindings[b].session
        /\ bindings'[b].state = "issued" => bindings[b].state = "issued"
    BY <2>0 DEF Fewer
  <2> DEFINE s == bindings[b].session
  <2>2. s \in Sessions /\ receipts[s].state # "none" BY <1>2, <2>0, <2>1 DEF Inv, PreparationsHaveSessions
  <2>3. receipts'[s].state # "none" BY <2>2 DEF Aged
  <2>4. bindings[b].state = "issued" => receipts[s].state = "active" \/ Gone(receipts[s])
    BY <1>2, <2>0, <2>1 DEF Inv, ClosedHoldsNothing
  <2>5. bindings[b].state = "issued" => receipts'[s].state = "active" \/ Gone(receipts'[s])
    BY <2>2, <2>4 DEF Outlived
  <2>6. Gone(receipts'[s]) => Gone(receipts[bindings[b].session])' BY <2>1 DEF Gone
  <2> QED BY <2>1, <2>2, <2>3, <2>5, <2>6
<1> QED BY <1>2 DEF Bound, PreparationsHaveSessions, ClosedHoldsNothing, Sessions

LEMMA NamesStay == ASSUME Inv, Fewer(bindings') PROVE NamesAreKnown'
<1>1. Len(bindings') = Len(bindings) BY DEF Fewer
<1>2. ASSUME NEW b \in 1..Len(bindings'), bindings'[b].kind = "execution"
      PROVE  LET p == bindings'[b].precommit
             IN p \in 1..Len(bindings') /\ bindings'[p].kind = "precommit" /\ bindings'[p].mandate = bindings'[b].mandate
  <2>1. /\ b \in 1..Len(bindings) /\ bindings[b].kind = "execution"
        /\ bindings'[b].precommit = bindings[b].precommit /\ bindings'[b].mandate = bindings[b].mandate
    BY <1>1, <1>2 DEF Fewer
  <2> DEFINE p == bindings[b].precommit
  <2>2. p \in 1..Len(bindings) /\ bindings[p].kind = "precommit" /\ bindings[p].mandate = bindings[b].mandate
    BY <2>1 DEF Inv, NamesAreKnown
  <2>3. bindings'[p].kind = bindings[p].kind /\ bindings'[p].mandate = bindings[p].mandate BY <2>2 DEF Fewer
  <2> QED BY <1>1, <2>1, <2>2, <2>3
<1>3. ASSUME NEW b \in 1..Len(bindings'), bindings'[b].kind = "precommit" PROVE bindings'[b].session \in Sessions
  BY <1>1, <1>3 DEF Fewer, Inv, NamesAreKnown
<1> QED BY <1>2, <1>3 DEF NamesAreKnown, Sessions

\* What a step makes of the mandate a binding rests on: it is in force as it was, or it is
\* not and leaves the binding stranded.
Kept(m) == /\ mandates'[m].status = mandates[m].status /\ mandates'[m].version = mandates[m].version
           /\ mandates'[m].scope = mandates[m].scope

Strands(b) ==
    /\ bindings[b].kind \in Preparations /\ mandates'[bindings[b].mandate].status # "active"
    /\ bindings[b].kind = "execution" => bindings'[bindings[b].precommit].state # "issued"

LEMMA BindingStays ==
    ASSUME Inv, Fewer(bindings'), policy' = policy, NEW b \in 1..Len(bindings), bindings'[b].state = "issued",
           LET d == bindings[b].decision
           IN /\ decisions'[d].status = decisions[d].status /\ decisions'[d].met = decisions[d].met
              /\ decisions'[d].config = decisions[d].config,
           Kept(bindings[b].mandate) \/ Strands(b)
    PROVE  /\ decisions'[bindings'[b].decision].status = "approved" /\ decisions'[bindings'[b].decision].met
           /\ Authorised(bindings[b])' \/ Stranded(bindings[b])'
<1> DEFINE d == bindings[b].decision
           m == bindings[b].mandate
           p == bindings[b].precommit
<1>1. /\ bindings[b].state = "issued" /\ bindings'[b].kind = bindings[b].kind /\ bindings'[b].decision = d
      /\ bindings'[b].mandate = m /\ bindings'[b].version = bindings[b].version /\ bindings'[b].precommit = p
  BY DEF Fewer
<1>2. decisions[d].status = "approved" /\ decisions[d].met /\ (Authorised(bindings[b]) \/ Stranded(bindings[b]))
  BY <1>1 DEF Inv, IssuedIsAuthorised
<1>3. decisions'[d].status = "approved" /\ decisions'[d].met BY <1>2
<1>4. CASE Strands(b) BY <1>1, <1>3, <1>4 DEF Strands, Stranded
<1>5. CASE Kept(m) /\ Authorised(bindings[b]) BY <1>1, <1>2, <1>3, <1>5 DEF Kept, Authorised, Config
<1>6. CASE Kept(m) /\ Stranded(bindings[b])
  <2>1. bindings[b].kind = "execution" => bindings'[p].state # "issued"
    <3>1. SUFFICES ASSUME bindings[b].kind = "execution" PROVE bindings'[p].state # "issued" OBVIOUS
    <3>2. p \in 1..Len(bindings) BY <3>1 DEF Inv, NamesAreKnown
    <3>3. bindings[p].state # "issued" BY <3>1, <1>6 DEF Stranded
    <3> QED BY <3>2, <3>3 DEF Fewer
  <2> QED BY <2>1, <1>1, <1>3, <1>6 DEF Kept, Stranded
<1> QED BY <1>1, <1>2, <1>3, <1>4, <1>5, <1>6

LEMMA AuthorityMoves ==
    ASSUME Inv, Fewer(bindings'), UNCHANGED <<decisions, policy>>,
           \A b \in 1..Len(bindings) : bindings'[b].state = "issued" => Kept(bindings[b].mandate) \/ Strands(b)
    PROVE  Founded'
<1>1. OnlyNewestLives' BY DEF Inv, OnlyNewestLives, Versions
<1>2. IssuedIsAuthorised'
  <2>1. SUFFICES ASSUME NEW b \in 1..Len(bindings'), bindings'[b].state = "issued"
                 PROVE  /\ decisions'[bindings'[b].decision].status = "approved" /\ decisions'[bindings'[b].decision].met
                        /\ Authorised(bindings[b])' \/ Stranded(bindings[b])'
    BY DEF IssuedIsAuthorised
  <2>2. b \in 1..Len(bindings) BY DEF Fewer
  <2> QED BY <2>1, <2>2, BindingStays
<1> QED BY <1>1, <1>2, NamesStay DEF Founded

LEMMA AuthorityStays ==
    ASSUME Inv, Fewer(bindings'), UNCHANGED <<decisions, mandates, policy>>
    PROVE  Founded'
BY AuthorityMoves DEF Kept

LEMMA SameRecords == ASSUME Len(decisions') = Len(decisions), Len(mandates') = Len(mandates),
                            Len(handoffs') = Len(handoffs), boot' = boot
                     PROVE  /\ HandoffRecords' = HandoffRecords /\ ReceiptRecords' = ReceiptRecords
                            /\ BindingRecords' = BindingRecords /\ DecisionRecords' = DecisionRecords
BY DEF HandoffRecords, ReceiptRecords, BindingRecords, DecisionRecords, Versions, Mandates

\* A start is bounded by the changes.
LEMMA Growing == ASSUME NEW a \in Nat, NEW b \in Nat, NEW c \in Nat, a <= b + 1, c >= b PROVE a <= c + 1
OBVIOUS

\* A step that only ages records.
LEMMA Ageing ==
    ASSUME Inv, Spends(handoffs'), Aged(receipts'), Fewer(bindings'),
           UNCHANGED <<boot, generated>>, console' \subseteq console, late' \subseteq late,
           up' \in BOOLEAN, changes' \in 0..MaxChanges, changes' >= changes,
           decisions' \in Seq(DecisionRecords), Len(decisions') = Len(decisions),
           mandates' \in Seq(MandateRecords), Len(mandates') = Len(mandates), policy' \in Policies \cup {"none"}
    PROVE  TypeOK' /\ Shape' /\ Sessioned'
<1>1. /\ HandoffRecords' = HandoffRecords /\ ReceiptRecords' = ReceiptRecords
      /\ BindingRecords' = BindingRecords /\ DecisionRecords' = DecisionRecords
  BY SameRecords DEF Spends
<1>2. TypeOK'
  <2>1. handoffs' \in Seq(HandoffRecords') BY <1>1 DEF Spends
  <2>2. receipts' \in [Sessions -> ReceiptRecords'] BY <1>1 DEF Aged
  <2>3. bindings' \in Seq(BindingRecords') BY <1>1 DEF Fewer
  <2>4. decisions' \in Seq(DecisionRecords') /\ Len(decisions') <= MaxVersions BY <1>1 DEF Inv, TypeOK
  <2>5. console' \subseteq 1..generated' BY DEF Inv, TypeOK
  <2> QED BY <2>1, <2>2, <2>3, <2>4, <2>5 DEF TypeOK, Sessions, Inv
<1>3. Shape'
  <2>1. late' \subseteq {"redeem", "close"} \X (0..Len(handoffs)) \X (1..generated) BY DEF Inv, Shape
  <2>2. generated' \in 0..MaxSessions BY DEF Inv, Shape
  <2>3. boot' <= changes' + 1
    <3>1. MaxChanges \in Nat BY CaseAuthorityAssumption
    <3>2. boot \in Nat /\ changes \in Nat /\ changes' \in Nat /\ boot <= changes + 1 BY <3>1 DEF Inv, Shape, TypeOK
    <3> QED BY <3>2, Growing
  <2>4. Len(handoffs') = Len(handoffs) /\ generated' = generated BY DEF Spends
  <2>5. late' \subseteq {"redeem", "close"} \X (0..Len(handoffs')) \X (1..generated') BY <2>1, <2>4
  <2> QED BY <2>2, <2>3, <2>5 DEF Shape
<1> QED BY <1>2, <1>3, SessionsStay

\* What a binding names.
LEMMA BindingTypes == ASSUME TypeOK
                      PROVE  /\ DOMAIN bindings = 1..Len(bindings)
                             /\ \A b \in 1..Len(bindings) : /\ bindings[b] \in BindingRecords
                                                            /\ bindings[b].decision \in Versions
                                                            /\ bindings[b].mandate \in Mandates
                                                            /\ bindings[b].boot \in 1..boot
<1>1. bindings \in Seq(BindingRecords) BY DEF TypeOK
<1>2. DOMAIN bindings = 1..Len(bindings) BY <1>1, LenProperties
<1>3. \A b \in 1..Len(bindings) : bindings[b] \in BindingRecords BY <1>1, ElementOfSeq
<1> QED BY <1>2, <1>3 DEF BindingRecords

-----------------------------------------------------------------------------
(***************************************************************************)
(* Decisions, mandate and policy.                                          *)
(***************************************************************************)
LEMMA Counting == ASSUME TypeOK PROVE /\ Change => changes' \in 0..MaxChanges /\ changes' >= changes /\ changes' = changes + 1
                                      /\ changes' = changes => changes' \in 0..MaxChanges /\ changes' >= changes
BY CaseAuthorityAssumption DEF TypeOK, Change

LEMMA DecisionsChange ==
    ASSUME TypeOK, NEW v \in Versions, NEW d \in DecisionRecords
    PROVE  /\ [decisions EXCEPT ![v] = d] \in Seq(DecisionRecords)
           /\ Len([decisions EXCEPT ![v] = d]) = Len(decisions)
           /\ \A u \in Versions : [decisions EXCEPT ![v] = d][u] = IF u = v THEN d ELSE decisions[u]
BY ExceptSeq DEF TypeOK, Versions

LEMMA PassTimeKeeps == ASSUME Inv, NEW v \in Versions, PassTime(v) PROVE Inv'
<1> DEFINE d == [decisions[v] EXCEPT !.window = IF decisions[v].window = "ahead" THEN "open" ELSE "past"]
<1>0. TypeOK BY DEF Inv
<1>1. decisions[v] \in DecisionRecords BY <1>0 DEF TypeOK, Versions
<1>2. /\ d \in DecisionRecords /\ d.status = decisions[v].status
      /\ d.config = decisions[v].config /\ d.met = decisions[v].met
  BY <1>1 DEF DecisionRecords
<1>3. decisions' = [decisions EXCEPT ![v] = d] BY DEF PassTime
<1> HIDE DEF d
<1>4. /\ decisions' \in Seq(DecisionRecords) /\ Len(decisions') = Len(decisions)
      /\ \A u \in Versions : decisions'[u] = IF u = v THEN d ELSE decisions[u]
  BY <1>0, <1>2, <1>3, DecisionsChange
<1>5. Change /\ UNCHANGED <<up, boot, mandates, policy, handoffs, receipts, bindings, generated, console, late>>
  BY DEF PassTime, orchestrator, authority
<1>6. Aged(receipts') /\ Outlived(receipts') /\ Spends(handoffs') /\ Fewer(bindings') BY <1>0, <1>5, Unchanging
<1>7. TypeOK' /\ Shape' /\ Sessioned' BY <1>0, <1>4, <1>5, <1>6, Ageing, Counting DEF TypeOK
<1>8. Bound' BY <1>5, <1>6, BindingsStay
<1>9. Founded'
  <2>1. OnlyNewestLives' BY <1>2, <1>4 DEF Inv, OnlyNewestLives, Versions
  <2>2. IssuedIsAuthorised'
    <3>1. \A b \in 1..Len(bindings) :
             LET e == bindings[b].decision
             IN /\ decisions'[e].status = decisions[e].status /\ decisions'[e].met = decisions[e].met
                /\ decisions'[e].config = decisions[e].config
      BY <1>0, <1>2, <1>4, BindingTypes
    <3>2. SUFFICES ASSUME NEW b \in 1..Len(bindings'), bindings'[b].state = "issued"
                   PROVE  /\ decisions'[bindings'[b].decision].status = "approved" /\ decisions'[bindings'[b].decision].met
                          /\ Authorised(bindings[b])' \/ Stranded(bindings[b])'
      BY DEF IssuedIsAuthorised
    <3>3. b \in 1..Len(bindings) /\ Kept(bindings[b].mandate) BY <1>5 DEF Kept
    <3> QED BY <1>5, <1>6, <3>1, <3>2, <3>3, BindingStays
  <2> QED BY <2>1, <2>2, <1>6, NamesStay DEF Founded
<1> QED BY <1>7, <1>8, <1>9 DEF Inv, Sessioned, Bound, Founded

LEMMA TransitionKeeps ==
    ASSUME Inv, NEW v \in Versions, NEW status \in {"approved", "rejected", "superseded", "suspended"}, Transition(v, status)
    PROVE  Inv'
<1> DEFINE d == [decisions[v] EXCEPT !.status = status]
<1>0. TypeOK BY DEF Inv
<1>1. decisions[v] \in DecisionRecords BY <1>0 DEF TypeOK, Versions
<1>2. d \in DecisionRecords /\ d.status = status BY <1>1 DEF DecisionRecords
<1>3. decisions' = [decisions EXCEPT ![v] = d] BY DEF Transition
<1> HIDE DEF d
<1>4. /\ decisions' \in Seq(DecisionRecords) /\ Len(decisions') = Len(decisions)
      /\ \A u \in Versions : decisions'[u] = IF u = v THEN d ELSE decisions[u]
  BY <1>0, <1>2, <1>3, DecisionsChange
<1>5. Change /\ UNCHANGED <<up, boot, mandates, policy, handoffs, receipts, generated, console, late>>
  BY DEF Transition, orchestrator, authority
<1> DEFINE B == {b \in DOMAIN bindings : bindings[b].decision = v}
<1>6. bindings' = Ending(B) BY DEF Transition, WithoutDecision
<1>7. Fewer(bindings') /\ \A b \in B \cap 1..Len(bindings) : bindings'[b].state # "issued" BY <1>0, <1>6, EndingEnds
<1>8. Aged(receipts') /\ Outlived(receipts') /\ Spends(handoffs') BY <1>0, <1>5, Unchanging
<1>9. TypeOK' /\ Shape' /\ Sessioned' BY <1>0, <1>4, <1>5, <1>7, <1>8, Ageing, Counting DEF TypeOK
<1>10. Bound' BY <1>5, <1>7, <1>8, BindingsStay
<1>11. Founded'
  <2>0. status \in {"proposed", "approved"} => decisions[v].status = "proposed" BY DEF Transition, Allowed
  <2>1. OnlyNewestLives' BY <2>0, <1>2, <1>4 DEF Inv, OnlyNewestLives, Versions
  <2>2. IssuedIsAuthorised'
    <3>1. SUFFICES ASSUME NEW b \in 1..Len(bindings'), bindings'[b].state = "issued"
                   PROVE  /\ decisions'[bindings'[b].decision].status = "approved" /\ decisions'[bindings'[b].decision].met
                          /\ Authorised(bindings[b])' \/ Stranded(bindings[b])'
      BY DEF IssuedIsAuthorised
    <3>2. b \in 1..Len(bindings) /\ Kept(bindings[b].mandate) BY <1>7, <1>5 DEF Fewer, Kept
    <3>3. bindings[b].decision # v /\ bindings[b].decision \in Versions BY <3>1, <3>2, <1>7, <1>0, BindingTypes
    <3>4. decisions'[bindings[b].decision] = decisions[bindings[b].decision] BY <3>3, <1>4
    <3> QED BY <1>7, <1>5, <3>1, <3>2, <3>4, BindingStays
  <2> QED BY <2>1, <2>2, <1>7, NamesStay DEF Founded
<1> QED BY <1>9, <1>10, <1>11 DEF Inv, Sessioned, Bound, Founded

\* Everything bound has been ended.
LEMMA NothingIssued ==
    ASSUME TypeOK, bindings' = WithoutAny
    PROVE  Fewer(bindings') /\ Unused(bindings') /\ \A b \in 1..Len(bindings) : bindings'[b].state # "issued"
<1>1. DOMAIN bindings = 1..Len(bindings) BY BindingTypes
<1>2. DOMAIN bindings \cap 1..Len(bindings) = 1..Len(bindings) BY <1>1
<1>3. bindings' = Ending(DOMAIN bindings) BY DEF WithoutAny
<1> QED BY <1>2, <1>3, EndingEnds

\* A step that moves mandates on and ends bindings.
LEMMA MandatesKeep ==
    ASSUME Inv, Spends(handoffs'), Aged(receipts'), Outlived(receipts'), Fewer(bindings'),
           UNCHANGED <<boot, decisions, policy, generated>>, console' \subseteq console, late' \subseteq late,
           up' \in BOOLEAN, changes' \in 0..MaxChanges, changes' >= changes,
           mandates' \in Seq(MandateRecords), Len(mandates') = Len(mandates),
           \A b \in 1..Len(bindings) : bindings'[b].state = "issued" => Kept(bindings[b].mandate) \/ Strands(b)
    PROVE  Inv'
<1>1. decisions' \in Seq(DecisionRecords) /\ policy' \in Policies \cup {"none"} BY DEF Inv, TypeOK
<1>2. TypeOK' /\ Shape' /\ Sessioned' BY <1>1, Ageing
<1>3. Bound' /\ Founded' BY BindingsStay, AuthorityMoves
<1> QED BY <1>2, <1>3 DEF Inv, Sessioned, Bound, Founded

\* A step that ends all that is issued, whatever it makes of mandates and policy.
LEMMA EndedKeeps ==
    ASSUME Inv, Spends(handoffs'), Aged(receipts'), Outlived(receipts'), Fewer(bindings'),
           UNCHANGED <<boot, decisions, generated>>, console' \subseteq console, late' \subseteq late,
           up' \in BOOLEAN, changes' \in 0..MaxChanges, changes' >= changes,
           mandates' \in Seq(MandateRecords), Len(mandates') = Len(mandates), policy' \in Policies \cup {"none"},
           \A b \in 1..Len(bindings) : bindings'[b].state # "issued"
    PROVE  Inv'
<1>1. decisions' \in Seq(DecisionRecords) BY DEF Inv, TypeOK
<1>2. TypeOK' /\ Shape' /\ Sessioned' BY <1>1, Ageing
<1>3. Bound' BY BindingsStay
<1>4. OnlyNewestLives' BY DEF Inv, OnlyNewestLives, Versions
<1>5. IssuedIsAuthorised' BY DEF IssuedIsAuthorised, Fewer
<1> QED BY <1>2, <1>3, <1>4, <1>5, NamesStay DEF Inv, Sessioned, Bound

LEMMA MandateTypes == ASSUME TypeOK PROVE \A m \in Mandates : mandates[m] \in MandateRecords
BY ElementOfSeq DEF TypeOK, Mandates

\* A change of one mandate: what of it is still issued has to stay or to be stranded.
LEMMA OneMandate ==
    ASSUME Inv, NEW m \in Mandates, NEW n \in MandateRecords, mandates' = [mandates EXCEPT ![m] = n],
           Fewer(bindings'), Change,
           UNCHANGED <<up, boot, decisions, policy, handoffs, receipts, generated, console, late>>,
           \A b \in 1..Len(bindings) : bindings'[b].state = "issued" /\ bindings[b].mandate = m => Kept(m) \/ Strands(b)
    PROVE  Inv'
<1>0. TypeOK BY DEF Inv
<1>1. /\ mandates' \in Seq(MandateRecords) /\ Len(mandates') = Len(mandates)
      /\ \A k \in Mandates : mandates'[k] = IF k = m THEN n ELSE mandates[k]
  BY <1>0, ExceptSeq DEF TypeOK, Mandates
<1>2. ASSUME NEW b \in 1..Len(bindings), bindings'[b].state = "issued" PROVE Kept(bindings[b].mandate) \/ Strands(b)
  <2>1. CASE bindings[b].mandate = m BY <1>2, <2>1
  <2>2. CASE bindings[b].mandate # m
    <3>1. bindings[b].mandate \in Mandates BY <1>0, BindingTypes
    <3> QED BY <2>2, <3>1, <1>1 DEF Kept
  <2> QED BY <2>1, <2>2
<1>3. Aged(receipts') /\ Outlived(receipts') /\ Spends(handoffs') BY <1>0, Unchanging
<1> QED BY <1>0, <1>1, <1>2, <1>3, MandatesKeep, Counting DEF TypeOK

\* A new mandate: what is issued rests on the earlier ones.
LEMMA GrantKeeps ==
    ASSUME Inv, NEW scope \in Scopes, NEW state \in {"active", "suspended"}, Grant(scope, state)
    PROVE  Inv'
<1> DEFINE n == Mandate(1, state, scope)
<1>0. TypeOK BY DEF Inv
<1>1. n \in MandateRecords BY DEF Mandate, MandateRecords, MandateStates
<1>2. /\ mandates' = Append(mandates, n) /\ changes' \in 0..MaxChanges /\ changes' >= changes
      /\ UNCHANGED <<up, boot, decisions, policy, handoffs, receipts, bindings, generated, console, late>>
  BY <1>0, Counting DEF Grant, orchestrator
<1> HIDE DEF n
<1>3. /\ mandates' \in Seq(MandateRecords) /\ Len(mandates') = Len(mandates) + 1 /\ Len(mandates) \in Nat
      /\ \A m \in Mandates : mandates'[m] = mandates[m]
  BY <1>0, <1>1, <1>2 DEF TypeOK, Mandates
<1>4. Aged(receipts') /\ Outlived(receipts') /\ Spends(handoffs') /\ Fewer(bindings') BY <1>0, <1>2, Unchanging
<1>5. TypeOK'
  <2>1. /\ HandoffRecords' = HandoffRecords /\ ReceiptRecords' = ReceiptRecords /\ DecisionRecords' = DecisionRecords
        /\ BindingRecords \subseteq BindingRecords'
    BY <1>2, <1>3 DEF HandoffRecords, ReceiptRecords, BindingRecords, DecisionRecords, Versions, Mandates
  <2>2. bindings' \in Seq(BindingRecords') BY <2>1, <1>4, SeqMonotonic DEF Fewer
  <2> QED BY <2>1, <2>2, <1>0, <1>2, <1>3 DEF TypeOK, Sessions
<1>6. Shape'
  <2>1. boot \in Nat /\ changes \in Nat /\ changes' \in Nat BY <1>0, <1>2, CaseAuthorityAssumption DEF TypeOK
  <2> QED BY <2>1, <1>2, Growing DEF Inv, Shape
<1>7. Sessioned' BY <1>2, <1>4, SessionsStay
<1>8. Bound' BY <1>2, <1>4, BindingsStay
<1>9. Founded'
  <2>1. \A b \in 1..Len(bindings) : Kept(bindings[b].mandate) BY <1>0, <1>3, BindingTypes DEF Kept
  <2> QED BY <2>1, <1>2, <1>4, AuthorityMoves
<1> QED BY <1>5, <1>6, <1>7, <1>8, <1>9 DEF Inv, Sessioned, Bound, Founded

LEMMA AmendKeeps ==
    ASSUME Inv, NEW m \in Mandates, NEW scope \in Scopes, NEW state \in {"active", "suspended"}, Amend(m, scope, state)
    PROVE  Inv'
<1> DEFINE n == Mandate(mandates[m].version + 1, state, scope)
<1>0. TypeOK BY DEF Inv
<1>1. mandates[m].version \in Nat BY <1>0, MandateTypes DEF MandateRecords
<1>2. n \in MandateRecords BY <1>1 DEF Mandate, MandateRecords, MandateStates
<1>3. mandates' = [mandates EXCEPT ![m] = n] BY DEF Amend
<1> HIDE DEF n
<1> DEFINE B == {b \in DOMAIN bindings : bindings[b].mandate = m}
<1>4. bindings' = Ending(B) BY DEF Amend, WithoutMandate
<1>5. Fewer(bindings') /\ \A b \in B \cap 1..Len(bindings) : bindings'[b].state # "issued" BY <1>0, <1>4, EndingEnds
<1>6. \A b \in 1..Len(bindings) : bindings[b].mandate = m => bindings'[b].state # "issued"
  BY <1>0, <1>5, BindingTypes
<1>7. Change /\ UNCHANGED <<up, boot, decisions, policy, handoffs, receipts, generated, console, late>>
  BY DEF Amend, orchestrator
<1> QED BY <1>2, <1>3, <1>5, <1>6, <1>7, OneMandate

\* What an earlier version of the mandate gave and is still issued was stranded before.
LEMMA RevokeKeeps == ASSUME Inv, NEW m \in Mandates, Revoke(m) PROVE Inv'
<1> DEFINE n == [mandates[m] EXCEPT !.status = "revoked"]
<1>0. TypeOK BY DEF Inv
<1>1. mandates[m] \in MandateRecords BY <1>0, MandateTypes
<1>2. n \in MandateRecords /\ n.status = "revoked" BY <1>1 DEF MandateRecords, MandateStates
<1>3. mandates' = [mandates EXCEPT ![m] = n] BY DEF Revoke
<1> HIDE DEF n
<1> DEFINE B == {b \in DOMAIN bindings : bindings[b].mandate = m /\ bindings[b].version = mandates[m].version}
<1>4. bindings' = Ending(B) BY DEF Revoke, WithoutVersion
<1>5. Fewer(bindings') /\ \A b \in B \cap 1..Len(bindings) : bindings'[b].state # "issued" BY <1>0, <1>4, EndingEnds
<1>6. mandates'[m].status # "active" BY <1>0, <1>2, <1>3, ExceptSeq DEF TypeOK, Mandates
<1>7. ASSUME NEW b \in 1..Len(bindings), bindings'[b].state = "issued", bindings[b].mandate = m PROVE Strands(b)
  <2>1. bindings[b].version # mandates[m].version BY <1>0, <1>5, <1>7, BindingTypes
  <2>2. bindings[b].state = "issued" BY <1>5, <1>7 DEF Fewer
  <2>3. Stranded(bindings[b]) BY <2>1, <2>2, <1>7 DEF Inv, IssuedIsAuthorised, Authorised
  <2>4. bindings[b].kind = "execution" => bindings[b].precommit \in 1..Len(bindings) BY DEF Inv, NamesAreKnown
  <2> QED BY <2>3, <2>4, <1>5, <1>6, <1>7 DEF Stranded, Strands, Fewer
<1>8. Change /\ UNCHANGED <<up, boot, decisions, policy, handoffs, receipts, generated, console, late>>
  BY DEF Revoke, orchestrator
<1> QED BY <1>2, <1>3, <1>5, <1>7, <1>8, OneMandate

LEMMA NarrowedTypes == ASSUME TypeOK, NEW m \in Mandates
                       PROVE  Narrowed(m) \in MandateRecords /\ Narrowed(m).status = "suspended"
<1>1. mandates[m] \in MandateRecords BY MandateTypes
<1>2. mandates[m].version + 1 \in Nat BY <1>1 DEF MandateRecords
<1> QED BY <1>1, <1>2 DEF Narrowed, MandateRecords, MandateStates

\* Narrowing ends the rulings: an execution it leaves has lost the one it names.
LEMMA NarrowingKeeps ==
    ASSUME Inv, NEW m \in Mandates, NEW kinds, Rulings \subseteq kinds, mandates' = [mandates EXCEPT ![m] = Narrowed(m)],
           bindings' = WithoutKinds(m, kinds), Change,
           UNCHANGED <<up, boot, decisions, policy, handoffs, receipts, generated, console, late>>
    PROVE  Inv'
<1>0. TypeOK BY DEF Inv
<1>1. Narrowed(m) \in MandateRecords /\ Narrowed(m).status = "suspended" BY <1>0, NarrowedTypes
<1> DEFINE B == {b \in DOMAIN bindings : bindings[b].mandate = m /\ bindings[b].kind \in kinds}
<1>2. bindings' = Ending(B) BY DEF WithoutKinds
<1>3. Fewer(bindings') /\ \A b \in B \cap 1..Len(bindings) : bindings'[b].state # "issued" BY <1>0, <1>2, EndingEnds
<1>4. mandates'[m].status # "active" BY <1>0, <1>1, ExceptSeq DEF TypeOK, Mandates
<1>5. \A b \in 1..Len(bindings) : bindings[b].mandate = m /\ bindings[b].kind \in Rulings => bindings'[b].state # "issued"
  BY <1>0, <1>3, BindingTypes
<1>6. ASSUME NEW b \in 1..Len(bindings), bindings'[b].state = "issued", bindings[b].mandate = m PROVE Strands(b)
  <2>1. bindings[b].kind \in Preparations BY <1>0, <1>5, <1>6, BindingTypes DEF BindingRecords, Kinds
  <2>2. ASSUME bindings[b].kind = "execution" PROVE bindings'[bindings[b].precommit].state # "issued"
    <3> DEFINE p == bindings[b].precommit
    <3>1. p \in 1..Len(bindings) /\ bindings[p].kind = "precommit" /\ bindings[p].mandate = m
      BY <1>6, <2>2 DEF Inv, NamesAreKnown
    <3> QED BY <3>1, <1>5 DEF Rulings
  <2> QED BY <2>1, <2>2, <1>4, <1>6 DEF Strands
<1> QED BY <1>1, <1>3, <1>6, OneMandate

LEMMA NarrowOnEscalationKeeps == ASSUME Inv, NEW m \in Mandates, NarrowOnEscalation(m) PROVE Inv'
BY NarrowingKeeps DEF NarrowOnEscalation, orchestrator

LEMMA NarrowOnAnswerKeeps == ASSUME Inv, NEW m \in Mandates, NarrowOnAnswer(m) PROVE Inv'
BY NarrowingKeeps DEF NarrowOnAnswer, orchestrator

LEMMA LapseMandateKeeps == ASSUME Inv, NEW m \in Mandates, LapseMandate(m) PROVE Inv'
<1> DEFINE n == [mandates[m] EXCEPT !.overdue = TRUE]
<1>0. TypeOK BY DEF Inv
<1>1. mandates[m] \in MandateRecords BY <1>0, MandateTypes
<1>2. /\ n \in MandateRecords /\ n.status = mandates[m].status
      /\ n.version = mandates[m].version /\ n.scope = mandates[m].scope
  BY <1>1, Zenon DEF MandateRecords
<1>3. mandates' = [mandates EXCEPT ![m] = n] BY DEF LapseMandate
<1> HIDE DEF n
<1>4. Kept(m) BY <1>0, <1>2, <1>3, ExceptSeq DEF TypeOK, Mandates, Kept
<1>5. Change /\ UNCHANGED <<up, boot, decisions, policy, handoffs, receipts, bindings, generated, console, late>>
  BY DEF LapseMandate, orchestrator
<1>6. Fewer(bindings') BY <1>0, <1>5, Unchanging
<1> QED BY <1>2, <1>3, <1>4, <1>5, <1>6, OneMandate

LEMMA ReloadPolicyKeeps == ASSUME Inv, NEW p \in Policies, ReloadPolicy(p) PROVE Inv'
<1>0. TypeOK BY DEF Inv
<1>1. Fewer(bindings') /\ \A b \in 1..Len(bindings) : bindings'[b].state # "issued"
  BY <1>0, NothingIssued DEF ReloadPolicy
<1>2. Change /\ UNCHANGED <<up, boot, decisions, mandates, handoffs, receipts, generated, console, late>> /\ policy' = p
  BY DEF ReloadPolicy, orchestrator
<1>3. Aged(receipts') /\ Outlived(receipts') /\ Spends(handoffs') BY <1>0, <1>2, Unchanging
<1> QED BY <1>0, <1>1, <1>2, <1>3, EndedKeeps, Counting DEF TypeOK

\* The successor is in force only when the version before it is not.
LEMMA ReplaceKeeps == ASSUME Inv, NEW d \in DecisionRecords, Replace(d) PROVE Inv'
<1> DEFINE v == Len(decisions)
           old == [decisions[v] EXCEPT !.status = "superseded"]
<1>0. TypeOK BY DEF Inv
<1>1. decisions \in Seq(DecisionRecords) /\ Len(decisions) \in Nat BY <1>0, LenProperties DEF TypeOK
<1>2. v \in Versions /\ decisions[v] \in DecisionRecords
  <2>1. v # 0 BY <1>1, EmptySeq DEF Replace
  <2>2. v \in 1..Len(decisions) BY <2>1, <1>1
  <2> QED BY <2>2, <1>1, ElementOfSeq DEF Versions
<1>3. old \in DecisionRecords /\ old.status = "superseded" BY <1>2 DEF DecisionRecords
<1>4. Superseded = [decisions EXCEPT ![v] = old] BY DEF Superseded
<1>5. /\ Superseded \in Seq(DecisionRecords) /\ Len(Superseded) = Len(decisions)
      /\ \A u \in Versions : Superseded[u] = IF u = v THEN old ELSE decisions[u]
  BY <1>0, <1>2, <1>3, <1>4, DecisionsChange
<1>6. decisions' = Append(Superseded, d) BY DEF Replace
<1>7. Change /\ UNCHANGED <<up, boot, mandates, policy, handoffs, receipts, generated, console, late>>
  BY DEF Replace, orchestrator, authority
<1> DEFINE B == {b \in DOMAIN bindings : bindings[b].decision = v}
<1>8. bindings' = Ending(B) BY DEF Replace, WithoutDecision
<1> HIDE DEF old
<1>9. Fewer(bindings') /\ \A b \in B \cap 1..Len(bindings) : bindings'[b].state # "issued" BY <1>0, <1>8, EndingEnds
<1>10. Aged(receipts') /\ Outlived(receipts') /\ Spends(handoffs') BY <1>0, <1>7, Unchanging
<1>11. /\ decisions' \in Seq(DecisionRecords) /\ Len(decisions') = Len(decisions) + 1
       /\ \A u \in Versions : decisions'[u] = IF u = v THEN old ELSE decisions[u]
       /\ decisions'[Len(decisions) + 1] = d
  BY <1>1, <1>5, <1>6 DEF Versions
<1>12. TypeOK'
  <2>1. /\ HandoffRecords' = HandoffRecords /\ ReceiptRecords' = ReceiptRecords /\ DecisionRecords' = DecisionRecords
        /\ BindingRecords \subseteq BindingRecords'
    BY <1>1, <1>7, <1>11 DEF HandoffRecords, ReceiptRecords, BindingRecords, DecisionRecords, Versions, Mandates
  <2>2. bindings' \in Seq(BindingRecords') BY <2>1, <1>9, SeqMonotonic DEF Fewer
  <2>3. decisions' \in Seq(DecisionRecords') /\ Len(decisions') <= MaxVersions
    BY <2>1, <1>1, <1>11, CaseAuthorityAssumption DEF Replace
  <2> QED BY <2>1, <2>2, <2>3, <1>0, <1>7, Counting DEF TypeOK, Sessions
<1>13. Shape' BY <1>0, <1>7, CaseAuthorityAssumption DEF Inv, Shape, Change, TypeOK
<1>14. Sessioned' BY <1>7, <1>10, SessionsStay
<1>15. Bound' BY <1>7, <1>9, <1>10, BindingsStay
<1>16. Founded'
  <2>1. OnlyNewestLives' BY <1>1, <1>3, <1>11 DEF Inv, OnlyNewestLives, Versions
  <2>2. IssuedIsAuthorised'
    <3>1. SUFFICES ASSUME NEW b \in 1..Len(bindings'), bindings'[b].state = "issued"
                   PROVE  /\ decisions'[bindings'[b].decision].status = "approved" /\ decisions'[bindings'[b].decision].met
                          /\ Authorised(bindings[b])' \/ Stranded(bindings[b])'
      BY DEF IssuedIsAuthorised
    <3>2. b \in 1..Len(bindings) /\ Kept(bindings[b].mandate) BY <1>9, <1>7 DEF Fewer, Kept
    <3>3. bindings[b].decision # v /\ bindings[b].decision \in Versions BY <3>1, <3>2, <1>9, <1>0, BindingTypes
    <3>4. decisions'[bindings[b].decision] = decisions[bindings[b].decision] BY <3>3, <1>11
    <3> QED BY <1>9, <1>7, <3>1, <3>2, <3>4, BindingStays
  <2> QED BY <2>1, <2>2, <1>9, NamesStay DEF Founded
<1> QED BY <1>12, <1>13, <1>14, <1>15, <1>16 DEF Inv, Sessioned, Bound, Founded

-----------------------------------------------------------------------------
(***************************************************************************)
(* Handoffs and sessions.                                                  *)
(***************************************************************************)
LEMMA MintKeeps == ASSUME Inv, Mint PROVE Inv'
<1> DEFINE h == [state |-> "issued", boot |-> boot, overdue |-> FALSE]
<1>0. TypeOK BY DEF Inv
<1>1. /\ UNCHANGED <<up, boot, decisions, mandates, policy, bindings, generated, console, late>>
      /\ changes' \in 0..MaxChanges /\ changes' >= changes
  BY <1>0, Counting DEF Mint, orchestrator, authority
<1>2. Aged(receipts') /\ Outlived(receipts') /\ Spends(ExpiredHandoffs) BY <1>0, ExpiryAges DEF Mint
<1>3. Fewer(bindings') BY <1>0, <1>1, Unchanging
<1>4. Len(handoffs) \in Nat /\ h \in HandoffRecords BY <1>0, LenProperties DEF TypeOK, HandoffRecords
<1>5. handoffs' = Append(ExpiredHandoffs, h) BY DEF Mint
<1> HIDE DEF h
<1>6. /\ handoffs' \in Seq(HandoffRecords) /\ Len(handoffs') = Len(handoffs) + 1
      /\ \A i \in 1..Len(handoffs) : handoffs'[i].state = "consumed" <=> handoffs[i].state = "consumed"
      /\ handoffs'[Len(handoffs) + 1] = h
  BY <1>2, <1>4, <1>5 DEF Spends
<1>7. TypeOK'
  <2>1. /\ HandoffRecords' = HandoffRecords /\ BindingRecords' = BindingRecords /\ DecisionRecords' = DecisionRecords
        /\ ReceiptRecords \subseteq ReceiptRecords'
    BY <1>1, <1>4, <1>6 DEF HandoffRecords, ReceiptRecords, BindingRecords, DecisionRecords, Versions, Mandates
  <2>2. receipts' \in [Sessions -> ReceiptRecords'] BY <2>1, <1>2 DEF Aged
  <2> QED BY <2>1, <2>2, <1>0, <1>1, <1>6 DEF TypeOK, Sessions
<1>8. Shape'
  <2>1. late' \subseteq {"redeem", "close"} \X (0..Len(handoffs')) \X (1..generated')
    BY <1>1, <1>4, <1>6 DEF Inv, Shape
  <2>2. boot' <= changes' + 1
    <3>1. boot \in Nat /\ changes \in Nat /\ changes' \in Nat BY <1>0, <1>1, CaseAuthorityAssumption DEF TypeOK
    <3> QED BY <3>1, <1>1, Growing DEF Inv, Shape
  <2> QED BY <2>1, <2>2, <1>1 DEF Inv, Shape
<1>9. Sessioned'
  <2>1. SessionsAreFresh' /\ OneSessionPerHandoff' /\ ConsoleWasRedeemed'
    <3>2. \A s \in Sessions : receipts'[s].handoff = receipts[s].handoff BY <1>2 DEF Aged
    <3>3. \A s \in Sessions : receipts[s].state # "none" => receipts'[s].state # "none" BY <1>2 DEF Aged
    <3>4. \A s \in Sessions : receipts[s] = NoReceipt => receipts'[s] = NoReceipt BY <1>2 DEF Aged, NoReceipt
    <3>5. console \subseteq Sessions /\ \A r \in late : r[3] \in Sessions
      <4>1. generated \in 0..MaxSessions /\ MaxSessions \in Nat BY CaseAuthorityAssumption DEF Inv, Shape
      <4>2. 1..generated \subseteq Sessions BY <4>1 DEF Sessions
      <4>3. console \subseteq 1..generated BY <1>0 DEF TypeOK
      <4>4. \A r \in late : r[3] \in 1..generated BY DEF Inv, Shape
      <4> QED BY <4>2, <4>3, <4>4
    <3>6. SessionsAreFresh' BY <1>1, <3>4, <3>5 DEF Inv, SessionsAreFresh, Sessions
    <3>7. OneSessionPerHandoff' BY <3>2 DEF Inv, OneSessionPerHandoff, Sessions
    <3>8. ConsoleWasRedeemed' BY <1>1, <3>3, <3>5 DEF Inv, ConsoleWasRedeemed
    <3> QED BY <3>6, <3>7, <3>8
  <2>2. ConsumedIsRedeemed'
    <3>1. \A s \in Sessions : receipts'[s].handoff = receipts[s].handoff /\ receipts[s].handoff \in 0..Len(handoffs)
      BY <1>0, <1>2 DEF Aged, TypeOK, ReceiptRecords
    <3>2. h.state # "consumed" BY DEF h
    <3>3. \A i \in 1..Len(handoffs) : handoffs'[i].state = "consumed" <=> \E s \in Sessions : receipts'[s].handoff = i
      BY <3>1, <1>6 DEF Inv, ConsumedIsRedeemed
    <3>4. handoffs'[Len(handoffs) + 1].state = "consumed" <=> \E s \in Sessions : receipts'[s].handoff = Len(handoffs) + 1
      BY <3>1, <3>2, <1>4, <1>6
    <3> QED BY <3>3, <3>4, <1>4, <1>6 DEF ConsumedIsRedeemed, Sessions
  <2> QED BY <2>1, <2>2 DEF Sessioned
<1>10. Bound' BY <1>1, <1>2, <1>3, BindingsStay
<1>11. Founded' BY <1>1, <1>3, AuthorityStays
<1> QED BY <1>7, <1>8, <1>9, <1>10, <1>11 DEF Inv, Sessioned, Bound, Founded

\* A redemption that is handled, for a session without a receipt.
LEMMA RedeemHandled ==
    ASSUME Inv, NEW h \in 1..Len(handoffs), NEW s \in Sessions, receipts[s] = NoReceipt, HandleRedeem(h, s),
           UNCHANGED <<boot, decisions, mandates, policy, bindings>>
    PROVE  /\ handoffs' \in Seq(HandoffRecords) /\ Len(handoffs') = Len(handoffs)
           /\ receipts' \in [Sessions -> ReceiptRecords]
           /\ ConsumedIsRedeemed' /\ OneSessionPerHandoff' /\ Bound' /\ Founded'
           /\ \A t \in Sessions : /\ receipts[t].state # "none" => receipts'[t].state # "none"
                                  /\ receipts[t] = NoReceipt /\ t # s => receipts'[t] = NoReceipt
           /\ Redeemable(h, s) => receipts'[s].state # "none"
<1>0. TypeOK BY DEF Inv
<1>1. Aged(ExpiredReceipts) /\ Outlived(ExpiredReceipts) /\ Spends(ExpiredHandoffs) BY <1>0, ExpiryAges
<1>2. Fewer(bindings') BY <1>0, Unchanging
<1>3. Founded' BY <1>2, AuthorityStays
<1>4. CASE ~Redeemable(h, s)
  <2>1. handoffs' = ExpiredHandoffs /\ receipts' = ExpiredReceipts BY <1>4 DEF HandleRedeem
  <2>2. Bound' BY <1>1, <1>2, <2>1, BindingsStay
  <2>3. ConsumedIsRedeemed'
    <3>1. \A i \in 1..Len(handoffs) : handoffs[i].state = "consumed" <=> \E t \in Sessions : receipts[t].handoff = i
      BY DEF Inv, ConsumedIsRedeemed
    <3>2. \A t \in Sessions : receipts'[t].handoff = receipts[t].handoff BY <1>1, <2>1 DEF Aged
    <3>3. /\ Len(handoffs') = Len(handoffs)
          /\ \A i \in 1..Len(handoffs) : handoffs'[i].state = "consumed" <=> handoffs[i].state = "consumed"
      BY <1>1, <2>1 DEF Spends
    <3> QED BY <3>1, <3>2, <3>3 DEF ConsumedIsRedeemed, Sessions
  <2>4. OneSessionPerHandoff' BY <1>1, <2>1 DEF Inv, OneSessionPerHandoff, Aged, Sessions
  <2>5. \A t \in Sessions : /\ receipts[t].state # "none" => receipts'[t].state # "none"
                            /\ receipts[t] = NoReceipt => receipts'[t] = NoReceipt
    BY <1>1, <2>1 DEF Aged, NoReceipt
  <2>6. handoffs' \in Seq(HandoffRecords) /\ Len(handoffs') = Len(handoffs) /\ receipts' \in [Sessions -> ReceiptRecords]
    BY <1>1, <2>1 DEF Aged, Spends
  <2> QED BY <1>3, <1>4, <2>2, <2>3, <2>4, <2>5, <2>6
<1>5. CASE Redeemable(h, s)
  <2> DEFINE n == [state |-> "active", handoff |-> h, boot |-> boot, overdue |-> FALSE]
             spent == [ExpiredHandoffs[h] EXCEPT !.state = "consumed"]
  <2>0. Len(handoffs) \in Nat BY <1>0, LenProperties DEF TypeOK
  <2>1. handoffs' = [ExpiredHandoffs EXCEPT ![h] = spent] /\ receipts' = [ExpiredReceipts EXCEPT ![s] = n]
    BY <1>5 DEF HandleRedeem, Consumed
  <2>2. n \in ReceiptRecords /\ n.handoff = h /\ n.state = "active" BY <1>0, <2>0 DEF TypeOK, ReceiptRecords
  <2>3. ExpiredHandoffs[h] \in HandoffRecords BY <1>1, ElementOfSeq DEF Spends
  <2>4. spent \in HandoffRecords /\ spent.state = "consumed" BY <2>3 DEF HandoffRecords
  <2> HIDE DEF n, spent
  <2>5. /\ handoffs' \in Seq(HandoffRecords) /\ Len(handoffs') = Len(handoffs)
        /\ \A i \in 1..Len(handoffs) : handoffs'[i] = IF i = h THEN spent ELSE ExpiredHandoffs[i]
    BY <1>1, <2>1, <2>4, ExceptSeq DEF Spends
  <2>6. /\ receipts' \in [Sessions -> ReceiptRecords]
        /\ \A t \in Sessions : receipts'[t] = IF t = s THEN n ELSE ExpiredReceipts[t]
    BY <1>1, <2>1, <2>2 DEF Aged
  <2>7. handoffs[h].state # "consumed" BY <1>5 DEF Redeemable
  <2>8. \A t \in Sessions : receipts[t].handoff # h BY <2>7 DEF Inv, ConsumedIsRedeemed
  <2>9. \A t \in Sessions : t # s => receipts'[t].handoff = receipts[t].handoff BY <1>1, <2>6 DEF Aged
  <2>10. receipts'[s].handoff = h /\ receipts[s].handoff = 0 BY <2>2, <2>6 DEF NoReceipt
  <2>11. OneSessionPerHandoff' BY <2>8, <2>9, <2>10 DEF Inv, OneSessionPerHandoff, Sessions
  <2>12. ConsumedIsRedeemed'
    <3>1. ASSUME NEW i \in 1..Len(handoffs), i # h
          PROVE  handoffs'[i].state = "consumed" <=> \E t \in Sessions : receipts'[t].handoff = i
      <4>1. handoffs'[i].state = "consumed" <=> handoffs[i].state = "consumed" BY <3>1, <1>1, <2>5 DEF Spends
      <4>2. handoffs[i].state = "consumed" <=> \E t \in Sessions : receipts[t].handoff = i BY DEF Inv, ConsumedIsRedeemed
      <4>3. \A t \in Sessions : receipts'[t].handoff = i <=> receipts[t].handoff = i BY <3>1, <2>9, <2>10
      <4> QED BY <4>1, <4>2, <4>3
    <3>2. handoffs'[h].state = "consumed" /\ \E t \in Sessions : receipts'[t].handoff = h BY <2>4, <2>5, <2>10
    <3> QED BY <3>1, <3>2, <2>5 DEF ConsumedIsRedeemed, Sessions
  <2>13. \A t \in Sessions : /\ receipts[t].state # "none" => receipts'[t].state # "none"
                             /\ receipts[t] = NoReceipt /\ t # s => receipts'[t] = NoReceipt
    BY <1>1, <2>2, <2>6 DEF Aged, NoReceipt
  <2>14. Bound'
    <3>1. ASSUME NEW b \in 1..Len(bindings), bindings[b].kind \in Preparations
          PROVE  LET t == bindings[b].session
                 IN /\ t \in Sessions /\ receipts'[t].state # "none"
                    /\ bindings[b].state = "issued" => receipts'[t].state = "active" \/ Gone(receipts'[t])
      <4> DEFINE t == bindings[b].session
      <4>1. t \in Sessions /\ receipts[t].state # "none" BY <3>1 DEF Inv, PreparationsHaveSessions
      <4>2. t # s BY <4>1 DEF NoReceipt
      <4>3. bindings[b].state = "issued" => receipts[t].state = "active" \/ Gone(receipts[t])
        BY <3>1 DEF Inv, ClosedHoldsNothing
      <4>4. receipts'[t] = ExpiredReceipts[t] BY <4>1, <4>2, <2>6
      <4> QED BY <4>1, <4>3, <4>4, <1>1 DEF Aged, Outlived
    <3>2. \A r : Gone(r)' <=> Gone(r) BY DEF Gone
    <3>3. PreparationsHaveSessions' BY <3>1 DEF PreparationsHaveSessions, Sessions
    <3>4. ClosedHoldsNothing' BY <3>1, <3>2 DEF ClosedHoldsNothing, Gone
    <3> QED BY <3>3, <3>4 DEF Bound
  <2> QED BY <1>3, <2>2, <2>5, <2>6, <2>11, <2>12, <2>13, <2>14
<1> QED BY <1>4, <1>5

\* A session is generated for a redemption: handled at once, or sent and given up.
LEMMA RedeemKeeps == ASSUME Inv, NEW h \in 1..Len(handoffs), Redeem(h) PROVE Inv'
<1> DEFINE s == generated + 1
<1>0. TypeOK BY DEF Inv
<1>1. /\ generated < MaxSessions /\ generated' = s
      /\ UNCHANGED <<up, boot, decisions, mandates, policy, bindings>>
      /\ \/ HandleRedeem(h, s) /\ console' = Created(h, s) /\ UNCHANGED <<late, changes>>
         \/ Change /\ HandleRedeem(h, s) /\ UNCHANGED <<console, late>>
         \/ Change /\ late' = late \cup {<<"redeem", h, s>>} /\ UNCHANGED <<handoffs, receipts, console>>
  BY DEF Redeem, authority
<1>2. generated \in Nat /\ MaxSessions \in Nat BY CaseAuthorityAssumption DEF Inv, Shape
<1>3. s \in Sessions /\ s > generated /\ s \notin 1..generated BY <1>1, <1>2 DEF Sessions
<1>4. receipts[s] = NoReceipt BY <1>3 DEF Inv, SessionsAreFresh
<1> HIDE DEF s
<1>5. changes' \in 0..MaxChanges /\ changes' >= changes BY <1>0, <1>1, Counting
<1>6. /\ handoffs' \in Seq(HandoffRecords) /\ Len(handoffs') = Len(handoffs)
      /\ receipts' \in [Sessions -> ReceiptRecords]
      /\ ConsumedIsRedeemed' /\ OneSessionPerHandoff' /\ Bound' /\ Founded'
      /\ \A t \in Sessions : /\ receipts[t].state # "none" => receipts'[t].state # "none"
                             /\ receipts[t] = NoReceipt /\ t # s => receipts'[t] = NoReceipt
  <2>1. CASE HandleRedeem(h, s) BY <2>1, <1>1, <1>3, <1>4, RedeemHandled
  <2>2. CASE UNCHANGED <<handoffs, receipts, console>>
    <3>1. Aged(receipts') /\ Outlived(receipts') /\ Spends(handoffs') /\ Fewer(bindings') BY <1>0, <1>1, <2>2, Unchanging
    <3>2. Bound' /\ Founded' BY <3>1, <1>1, BindingsStay, AuthorityStays
    <3>3. ConsumedIsRedeemed' /\ OneSessionPerHandoff' BY <2>2 DEF Inv, ConsumedIsRedeemed, OneSessionPerHandoff, Sessions
    <3> QED BY <3>1, <3>2, <3>3, <2>2 DEF Aged, Spends
  <2> QED BY <1>1, <2>1, <2>2
<1>7. console' \subseteq console \cup {s} /\ (s \in console' => receipts'[s].state # "none")
  <2>0. s \notin console BY <1>0, <1>3 DEF TypeOK
  <2>1. CASE HandleRedeem(h, s) /\ console' = Created(h, s)
    <3>1. Redeemable(h, s) => receipts'[s].state # "none" BY <2>1, <1>1, <1>3, <1>4, RedeemHandled
    <3> QED BY <3>1, <2>0, <2>1 DEF Created
  <2> QED BY <1>1, <2>0, <2>1
<1>8. late' \subseteq late \cup {<<"redeem", h, s>>} /\ (<<"redeem", h, s>> \in late' => UNCHANGED receipts)
  <2>1. <<"redeem", h, s>> \notin late
    <3>1. <<"redeem", h, s>> \in late => s \in 1..generated BY DEF Inv, Shape
    <3> QED BY <3>1, <1>3
  <2> QED BY <2>1, <1>1
<1>9. TypeOK'
  <2>1. /\ HandoffRecords' = HandoffRecords /\ ReceiptRecords' = ReceiptRecords
        /\ BindingRecords' = BindingRecords /\ DecisionRecords' = DecisionRecords
    BY <1>1, <1>6, SameRecords
  <2>2. console' \subseteq 1..generated'
    <3>1. 1..generated' = 1..generated \cup {s} BY <1>1, <1>2 DEF s
    <3> QED BY <3>1, <1>7, <1>0 DEF TypeOK
  <2> QED BY <2>1, <2>2, <1>0, <1>1, <1>5, <1>6 DEF TypeOK, Sessions
<1>10. Shape'
  <2>1. generated' \in 0..MaxSessions BY <1>1, <1>2 DEF s
  <2>2. boot' <= changes' + 1
    <3>1. MaxChanges \in Nat BY CaseAuthorityAssumption
    <3>2. boot \in Nat /\ changes \in Nat /\ changes' \in Nat BY <3>1, <1>0, <1>5 DEF TypeOK
    <3>3. boot <= changes + 1 /\ boot' = boot BY <1>1 DEF Inv, Shape
    <3>4. changes' >= changes /\ boot \in Nat /\ changes \in Nat /\ changes' \in Nat BY <3>2, <1>5
    <3>5. boot <= changes' + 1 BY <3>3, <3>4, Growing
    <3> QED BY <3>3, <3>5
  <2>3. late' \subseteq {"redeem", "close"} \X (0..Len(handoffs')) \X (1..generated')
    <3>0. Len(handoffs) \in Nat BY <1>0, LenProperties DEF TypeOK
    <3>1. 1..generated \subseteq 1..generated' /\ s \in 1..generated' BY <1>1, <1>2 DEF s
    <3>2. <<"redeem", h, s>> \in {"redeem", "close"} \X (0..Len(handoffs)) \X (1..generated') BY <3>0, <3>1
    <3>3. late \subseteq {"redeem", "close"} \X (0..Len(handoffs)) \X (1..generated') BY <3>1 DEF Inv, Shape
    <3> QED BY <3>2, <3>3, <1>6, <1>8
  <2> QED BY <2>1, <2>2, <2>3 DEF Shape
<1>11. SessionsAreFresh'
  <2>1. ASSUME NEW t \in Sessions, t > generated' PROVE receipts'[t] = NoReceipt
    <3>1. t # s /\ t > generated BY <2>1, <1>1, <1>2 DEF s, Sessions
    <3> QED BY <3>1, <1>6 DEF Inv, SessionsAreFresh
  <2>2. ASSUME NEW r \in late', r[1] = "redeem"
        PROVE  r[2] # 0 /\ receipts'[r[3]] = NoReceipt /\ \A q \in late' : q[1] = "redeem" /\ q[3] = r[3] => q = r
    <3>1. ASSUME NEW q \in late PROVE q[3] \in 1..generated /\ q[3] # s BY <1>3 DEF Inv, Shape
    <3>2. CASE r \in late
      <4>1. r[3] \in Sessions /\ r[3] # s BY <3>1, <3>2, <1>2, CaseAuthorityAssumption DEF Inv, Shape, Sessions
      <4>2. receipts'[r[3]] = NoReceipt BY <4>1, <3>2, <2>2, <1>6 DEF Inv, SessionsAreFresh
      <4>3. \A q \in late' : q[3] = r[3] => q \in late BY <4>1, <1>8
      <4> QED BY <4>2, <4>3, <3>2, <2>2 DEF Inv, SessionsAreFresh
    <3>3. CASE r = <<"redeem", h, s>>
      <4>1. \A q \in late' : q[3] = s => q = r BY <3>1, <3>3, <1>8
      <4>2. receipts' = receipts BY <2>2, <3>3, <1>8
      <4> QED BY <4>1, <4>2, <3>3, <1>4
    <3> QED BY <3>2, <3>3, <1>8
  <2> QED BY <2>1, <2>2 DEF SessionsAreFresh, Sessions
<1>12. ConsoleWasRedeemed'
  <2>1. console \subseteq Sessions BY <1>0, CaseAuthorityAssumption DEF TypeOK, Inv, Shape, Sessions
  <2> QED BY <2>1, <1>6, <1>7 DEF Inv, ConsoleWasRedeemed
<1> QED BY <1>6, <1>9, <1>10, <1>11, <1>12 DEF Inv, Bound, Founded

\* What was sent earlier is handled now: the session still has no receipt.
LEMMA HandleRedeemLateKeeps ==
    ASSUME Inv, NEW r \in late, r[1] = "redeem", HandleRedeem(r[2], r[3]), late' = late \ {r},
           UNCHANGED <<up, boot, decisions, mandates, policy, bindings, generated, console, changes>>
    PROVE  Inv'
<1> DEFINE h == r[2]
           s == r[3]
<1>0. TypeOK BY DEF Inv
<1>1. h \in 0..Len(handoffs) /\ s \in 1..generated BY DEF Inv, Shape
<1>2. h # 0 /\ receipts[s] = NoReceipt /\ \A q \in late : q[1] = "redeem" /\ q[3] = s => q = r
  BY DEF Inv, SessionsAreFresh
<1>3. generated \in Nat /\ MaxSessions \in Nat /\ generated <= MaxSessions BY CaseAuthorityAssumption DEF Inv, Shape
<1>4. Len(handoffs) \in Nat BY <1>0, LenProperties DEF TypeOK
<1>5. h \in 1..Len(handoffs) /\ s \in Sessions BY <1>1, <1>2, <1>3, <1>4 DEF Sessions
<1> HIDE DEF h, s
<1>6. HandleRedeem(h, s) BY DEF h, s
<1>7. /\ handoffs' \in Seq(HandoffRecords) /\ Len(handoffs') = Len(handoffs)
      /\ receipts' \in [Sessions -> ReceiptRecords]
      /\ ConsumedIsRedeemed' /\ OneSessionPerHandoff' /\ Bound' /\ Founded'
      /\ \A t \in Sessions : /\ receipts[t].state # "none" => receipts'[t].state # "none"
                             /\ receipts[t] = NoReceipt /\ t # s => receipts'[t] = NoReceipt
  BY <1>2, <1>5, <1>6, RedeemHandled
<1>8. TypeOK'
  <2>1. /\ HandoffRecords' = HandoffRecords /\ ReceiptRecords' = ReceiptRecords
        /\ BindingRecords' = BindingRecords /\ DecisionRecords' = DecisionRecords
    BY <1>7, SameRecords
  <2> QED BY <2>1, <1>0, <1>7 DEF TypeOK, Sessions
<1>9. Shape' BY <1>7 DEF Inv, Shape
<1>10. SessionsAreFresh'
  <2>1. ASSUME NEW t \in Sessions, t > generated' PROVE receipts'[t] = NoReceipt
    <3>1. t # s /\ t > generated BY <2>1, <1>1, <1>3 DEF Sessions
    <3> QED BY <3>1, <1>7 DEF Inv, SessionsAreFresh
  <2>2. ASSUME NEW q \in late', q[1] = "redeem"
        PROVE  q[2] # 0 /\ receipts'[q[3]] = NoReceipt /\ \A p \in late' : p[1] = "redeem" /\ p[3] = q[3] => p = q
    <3>1. q \in late /\ q # r BY <2>2
    <3>2. q[3] # s BY <3>1, <2>2, <1>2
    <3>3. q[3] \in Sessions BY <3>1, <1>3 DEF Inv, Shape, Sessions
    <3> QED BY <3>1, <3>2, <3>3, <2>2, <1>7 DEF Inv, SessionsAreFresh
  <2> QED BY <2>1, <2>2 DEF SessionsAreFresh, Sessions
<1>11. ConsoleWasRedeemed'
  <2>1. console \subseteq Sessions BY <1>0, <1>3 DEF TypeOK, Sessions
  <2> QED BY <2>1, <1>7 DEF Inv, ConsoleWasRedeemed
<1> QED BY <1>7, <1>8, <1>9, <1>10, <1>11 DEF Inv, Bound, Founded

\* A session that the service closes: its preparations end with it.
LEMMA CloseHandled ==
    ASSUME Inv, NEW s \in Sessions, HandleClose(s), UNCHANGED <<up, boot, decisions, mandates, policy, handoffs, generated>>,
           console' \subseteq console, late' \subseteq late, changes' \in 0..MaxChanges, changes' >= changes
    PROVE  Inv'
<1>0. TypeOK BY DEF Inv
<1>1. Spends(handoffs') BY <1>0, Unchanging
<1>2. Aged(receipts') /\ Fewer(bindings') /\ Bound'
  <2>1. CASE ~Closable(s)
    <3>1. UNCHANGED <<receipts, bindings>> BY <2>1 DEF HandleClose
    <3>2. Aged(receipts') /\ Outlived(receipts') /\ Fewer(bindings') BY <1>0, <3>1, Unchanging
    <3> QED BY <3>2, BindingsStay
  <2>2. CASE Closable(s)
    <3> DEFINE n == [receipts[s] EXCEPT !.state = "expired"]
               B == {b \in DOMAIN bindings : bindings[b].kind \in Preparations /\ bindings[b].session = s}
    <3>1. receipts' = [receipts EXCEPT ![s] = n] /\ bindings' = Ending(B) BY <2>2 DEF HandleClose, WithoutSession
    <3>2. receipts[s] \in ReceiptRecords BY <1>0 DEF TypeOK
    <3>3. /\ n \in ReceiptRecords /\ n.state = "expired" /\ n.handoff = receipts[s].handoff
          /\ n.boot = receipts[s].boot /\ n.overdue = receipts[s].overdue
      BY <3>2 DEF ReceiptRecords
    <3>4. receipts[s].state = "active" BY <2>2 DEF Closable
    <3> HIDE DEF n
    <3>5. /\ receipts' \in [Sessions -> ReceiptRecords]
          /\ \A t \in Sessions : receipts'[t] = IF t = s THEN n ELSE receipts[t]
      BY <1>0, <3>1, <3>3 DEF TypeOK
    <3>6. Aged(receipts')
      <4>1. ASSUME NEW t \in Sessions, t # s
            PROVE  /\ receipts'[t].handoff = receipts[t].handoff /\ receipts'[t].boot = receipts[t].boot
                   /\ receipts[t].overdue => receipts'[t].overdue
                   /\ receipts[t].state = "none" => receipts'[t] = receipts[t]
                   /\ receipts[t].state # "none" => receipts'[t].state # "none"
        BY <4>1, <3>5
      <4>2. /\ receipts'[s].handoff = receipts[s].handoff /\ receipts'[s].boot = receipts[s].boot
            /\ receipts[s].state # "none" /\ receipts'[s].state # "none"
        BY <3>3, <3>4, <3>5
      <4>3. receipts'[s] = n BY <3>5
      <4>4. receipts[s].overdue => receipts'[s].overdue BY <3>3, <4>3, Zenon
      <4> QED BY <4>1, <4>2, <4>4, <3>5 DEF Aged
    <3>7. Fewer(bindings') /\ \A b \in B \cap 1..Len(bindings) : bindings'[b].state # "issued" BY <1>0, <3>1, EndingEnds
    <3>8. ASSUME NEW b \in 1..Len(bindings), bindings'[b].kind \in Preparations
          PROVE  LET t == bindings'[b].session
                 IN /\ t \in Sessions /\ receipts'[t].state # "none"
                    /\ bindings'[b].state = "issued" => receipts'[t].state = "active" \/ Gone(receipts'[t])
      <4>1. /\ bindings[b].kind = bindings'[b].kind /\ bindings'[b].session = bindings[b].session
            /\ bindings'[b].state = "issued" => bindings[b].state = "issued"
        BY <3>7 DEF Fewer
      <4> DEFINE t == bindings[b].session
      <4>2. t \in Sessions /\ receipts[t].state # "none" BY <3>8, <4>1 DEF Inv, PreparationsHaveSessions
      <4>3. receipts'[t].state # "none" BY <4>2, <3>6 DEF Aged
      <4>4. ASSUME bindings'[b].state = "issued" PROVE receipts'[t].state = "active" \/ Gone(receipts'[t])
        <5>1. t # s BY <4>1, <4>4, <3>8, <3>7, <1>0, BindingTypes
        <5>2. receipts[t].state = "active" \/ Gone(receipts[t]) BY <3>8, <4>1, <4>4 DEF Inv, ClosedHoldsNothing
        <5>3. receipts'[t] = receipts[t] BY <4>2, <5>1, <3>5
        <5> QED BY <5>2, <5>3
      <4> QED BY <4>1, <4>2, <4>3, <4>4
    <3>9. \A x : Gone(x)' <=> Gone(x) BY DEF Gone
    <3>10. Len(bindings') = Len(bindings) BY <3>7 DEF Fewer
    <3>11. PreparationsHaveSessions' BY <3>8, <3>10 DEF PreparationsHaveSessions, Sessions
    <3>12. ClosedHoldsNothing' BY <3>8, <3>10 DEF ClosedHoldsNothing, Gone
    <3> QED BY <3>6, <3>7, <3>11, <3>12 DEF Bound
  <2> QED BY <2>1, <2>2
<1>3. Founded' BY <1>2, AuthorityStays
<1>4. TypeOK' /\ Shape' /\ Sessioned' BY <1>0, <1>1, <1>2, Ageing DEF TypeOK
<1> QED BY <1>2, <1>3, <1>4 DEF Inv, Sessioned, Bound, Founded

LEMMA CloseSessionKeeps == ASSUME Inv, NEW s \in Sessions, CloseSession(s) PROVE Inv'
<1>0. TypeOK BY DEF Inv
<1>1. UNCHANGED <<up, boot, decisions, mandates, policy, handoffs, generated>> BY DEF CloseSession, authority
<1>2. changes' \in 0..MaxChanges /\ changes' >= changes BY <1>0, Counting DEF CloseSession
<1>3. CASE HandleClose(s) /\ UNCHANGED late
  <2>1. console' \subseteq console BY <1>3 DEF CloseSession
  <2> QED BY <1>1, <1>2, <1>3, <2>1, CloseHandled
<1>4. CASE late' = late \cup {<<"close", 0, s>>} /\ UNCHANGED <<receipts, bindings, console>>
  <2>1. Aged(receipts') /\ Outlived(receipts') /\ Spends(handoffs') /\ Fewer(bindings') BY <1>0, <1>1, <1>4, Unchanging
  <2>2. Bound' /\ Founded' BY <2>1, <1>1, BindingsStay, AuthorityStays
  <2>3. TypeOK' BY <1>0, <1>1, <1>2, <1>4, SameRecords DEF TypeOK, Sessions
  <2>4. s \in 1..generated BY <1>0 DEF TypeOK, CloseSession
  <2>5. Shape'
    <3>0. Len(handoffs) \in Nat /\ MaxChanges \in Nat BY <1>0, LenProperties, CaseAuthorityAssumption DEF TypeOK
    <3>1. <<"close", 0, s>> \in {"redeem", "close"} \X (0..Len(handoffs)) \X (1..generated) BY <3>0, <2>4
    <3>2. boot \in Nat /\ changes \in Nat /\ changes' \in Nat /\ boot <= changes + 1
      BY <3>0, <1>0, <1>2 DEF TypeOK, Inv, Shape
    <3>3. boot' <= changes' + 1 BY <3>2, <1>1, <1>2, Growing
    <3> QED BY <3>1, <3>3, <1>1, <1>4 DEF Inv, Shape
  <2>6. SessionsAreFresh' BY <1>1, <1>4 DEF Inv, SessionsAreFresh, Sessions
  <2>7. ConsumedIsRedeemed' /\ OneSessionPerHandoff' /\ ConsoleWasRedeemed'
    BY <1>1, <1>4 DEF Inv, ConsumedIsRedeemed, OneSessionPerHandoff, ConsoleWasRedeemed, Sessions
  <2> QED BY <2>2, <2>3, <2>5, <2>6, <2>7 DEF Inv, Bound, Founded
<1> QED BY <1>3, <1>4 DEF CloseSession

LEMMA HandleLateKeeps == ASSUME Inv, NEW r \in late, HandleLate(r) PROVE Inv'
<1>0. TypeOK BY DEF Inv
<1>1. CASE r[1] = "redeem" /\ HandleRedeem(r[2], r[3]) /\ UNCHANGED bindings
  BY <1>1, HandleRedeemLateKeeps DEF HandleLate, orchestrator, authority
<1>2. CASE r[1] = "close" /\ HandleClose(r[3]) /\ UNCHANGED handoffs
  <2>1. r[3] \in Sessions BY CaseAuthorityAssumption DEF Inv, Shape, Sessions
  <2>2. changes' \in 0..MaxChanges /\ changes' >= changes BY <1>0, Counting DEF HandleLate
  <2>3. console' \subseteq console /\ late' \subseteq late BY DEF HandleLate, orchestrator, authority
  <2> QED BY <1>2, <2>1, <2>2, <2>3, CloseHandled DEF HandleLate, orchestrator, authority
<1> QED BY <1>1, <1>2 DEF HandleLate

\* A step that only ages receipts, handoffs and bindings.
LEMMA AgeingKeeps ==
    ASSUME Inv, Spends(handoffs'), Aged(receipts'), Outlived(receipts'), Fewer(bindings'),
           UNCHANGED <<boot, decisions, mandates, policy, generated>>, console' \subseteq console, late' \subseteq late,
           up' \in BOOLEAN, changes' \in 0..MaxChanges, changes' >= changes
    PROVE  Inv'
<1>1. TypeOK' /\ Shape' /\ Sessioned' BY Ageing DEF Inv, TypeOK
<1>2. Bound' /\ Founded' BY BindingsStay, AuthorityStays
<1> QED BY <1>1, <1>2 DEF Inv, Sessioned, Bound, Founded

LEMMA OverdueHandoff ==
    ASSUME NEW h \in HandoffRecords
    PROVE  [h EXCEPT !.overdue = TRUE] \in HandoffRecords /\ [h EXCEPT !.overdue = TRUE].state = h.state
BY Zenon DEF HandoffRecords

LEMMA OverdueReceipt ==
    ASSUME NEW r \in ReceiptRecords
    PROVE  LET n == [r EXCEPT !.overdue = TRUE]
           IN n \in ReceiptRecords /\ n.state = r.state /\ n.handoff = r.handoff /\ n.boot = r.boot /\ n.overdue
BY Zenon DEF ReceiptRecords

LEMMA OverdueBinding ==
    ASSUME NEW b \in BindingRecords
    PROVE  LET n == [b EXCEPT !.overdue = TRUE]
           IN /\ n \in BindingRecords /\ n.state = b.state /\ n.kind = b.kind /\ n.session = b.session
              /\ n.decision = b.decision /\ n.mandate = b.mandate /\ n.version = b.version /\ n.precommit = b.precommit
BY Zenon DEF BindingRecords

LEMMA LapseHandoffKeeps == ASSUME Inv, NEW h \in 1..Len(handoffs), LapseHandoff(h) PROVE Inv'
<1> DEFINE n == [handoffs[h] EXCEPT !.overdue = TRUE]
<1>0. TypeOK BY DEF Inv
<1>1. handoffs' = [handoffs EXCEPT ![h] = n] BY DEF LapseHandoff
<1>2. handoffs \in Seq(HandoffRecords) BY <1>0 DEF TypeOK
<1>3. handoffs[h] \in HandoffRecords BY <1>2, ElementOfSeq
<1>4. n \in HandoffRecords /\ n.state = handoffs[h].state BY <1>3, OverdueHandoff
<1> HIDE DEF n
<1>5. /\ handoffs' \in Seq(HandoffRecords) /\ Len(handoffs') = Len(handoffs)
      /\ \A i \in 1..Len(handoffs) : handoffs'[i] = IF i = h THEN n ELSE handoffs[i]
  BY <1>1, <1>2, <1>4, ExceptSeq
<1>6. Spends(handoffs') BY <1>4, <1>5 DEF Spends
<1>7. Change /\ UNCHANGED <<up, boot, decisions, mandates, policy, receipts, bindings, generated, console, late>>
  BY DEF LapseHandoff, orchestrator, authority
<1>8. Aged(receipts') /\ Outlived(receipts') /\ Fewer(bindings') BY <1>0, <1>7, Unchanging
<1> QED BY <1>0, <1>6, <1>7, <1>8, AgeingKeeps, Counting DEF TypeOK

LEMMA LapseReceiptKeeps == ASSUME Inv, NEW s \in Sessions, LapseReceipt(s) PROVE Inv'
<1> DEFINE n == [receipts[s] EXCEPT !.overdue = TRUE]
<1>0. TypeOK BY DEF Inv
<1>1. receipts' = [receipts EXCEPT ![s] = n] /\ receipts[s].state = "active" BY DEF LapseReceipt
<1>2. receipts \in [Sessions -> ReceiptRecords] BY <1>0 DEF TypeOK
<1>3. n \in ReceiptRecords /\ n.state = receipts[s].state /\ n.handoff = receipts[s].handoff /\ n.boot = receipts[s].boot /\ n.overdue
  BY <1>2, OverdueReceipt
<1> HIDE DEF n
<1>4. /\ receipts' \in [Sessions -> ReceiptRecords]
      /\ \A t \in Sessions : receipts'[t] = IF t = s THEN n ELSE receipts[t]
  BY <1>1, <1>2, <1>3
<1>5. receipts'[s] = n /\ \A t \in Sessions : t # s => receipts'[t] = receipts[t] BY <1>4
<1>6. Aged(receipts')
  <2>1. /\ receipts'[s].handoff = receipts[s].handoff /\ receipts'[s].boot = receipts[s].boot
        /\ receipts[s].state # "none" /\ receipts'[s].state # "none"
    BY <1>1, <1>3, <1>5
  <2>2. receipts'[s].overdue BY <1>3, <1>5, Zenon
  <2>3. ASSUME NEW t \in Sessions, t # s
        PROVE  /\ receipts'[t].handoff = receipts[t].handoff /\ receipts'[t].boot = receipts[t].boot
               /\ receipts[t].overdue => receipts'[t].overdue
               /\ receipts[t].state = "none" => receipts'[t] = receipts[t]
               /\ receipts[t].state # "none" => receipts'[t].state # "none"
    BY <2>3, <1>5
  <2> QED BY <2>1, <2>2, <2>3, <1>4 DEF Aged
<1>7. Outlived(receipts') BY <1>1, <1>3, <1>5 DEF Outlived
<1>8. Change /\ UNCHANGED <<up, boot, decisions, mandates, policy, handoffs, bindings, generated, console, late>>
  BY DEF LapseReceipt, orchestrator, authority
<1>9. Spends(handoffs') /\ Fewer(bindings') BY <1>0, <1>8, Unchanging
<1> QED BY <1>0, <1>6, <1>7, <1>8, <1>9, AgeingKeeps, Counting DEF TypeOK

LEMMA ConsoleKeeps ==
    ASSUME Inv, UNCHANGED <<up, boot, world, generated, late>>, console' \subseteq console, Change
    PROVE  Inv'
<1>0. TypeOK BY DEF Inv
<1>1. Aged(receipts') /\ Outlived(receipts') /\ Spends(handoffs') /\ Fewer(bindings') BY <1>0, Unchanging DEF world, authority
<1> QED BY <1>0, <1>1, AgeingKeeps, Counting DEF world, authority, TypeOK

-----------------------------------------------------------------------------
(***************************************************************************)
(* Rulings and preparations.                                               *)
(***************************************************************************)
\* One binding that keeps what it names and is not issued anew.
LEMMA OneBinding ==
    ASSUME TypeOK, NEW b \in 1..Len(bindings), NEW n \in BindingRecords, bindings' = [bindings EXCEPT ![b] = n],
           n.kind = bindings[b].kind, n.session = bindings[b].session, n.decision = bindings[b].decision,
           n.mandate = bindings[b].mandate, n.version = bindings[b].version, n.precommit = bindings[b].precommit,
           n.state = "issued" => bindings[b].state = "issued"
    PROVE  Fewer(bindings')
<1>1. bindings \in Seq(BindingRecords) BY DEF TypeOK
<1>2. /\ bindings' \in Seq(BindingRecords) /\ Len(bindings') = Len(bindings)
      /\ \A i \in 1..Len(bindings) : bindings'[i] = IF i = b THEN n ELSE bindings[i]
  BY <1>1, ExceptSeq
<1> QED BY <1>2 DEF Fewer

LEMMA UseKeeps == ASSUME Inv, NEW b \in 1..Len(bindings), Use(b) PROVE Inv'
<1> DEFINE n == [bindings[b] EXCEPT !.state = "used"]
<1>0. TypeOK BY DEF Inv
<1>1. bindings[b] \in BindingRecords BY <1>0, BindingTypes
<1>2. /\ n \in BindingRecords /\ n.state = "used"
      /\ n.kind = bindings[b].kind /\ n.session = bindings[b].session /\ n.decision = bindings[b].decision
      /\ n.mandate = bindings[b].mandate /\ n.version = bindings[b].version /\ n.precommit = bindings[b].precommit
  BY <1>1 DEF BindingRecords
<1>3. bindings' = [bindings EXCEPT ![b] = n] BY DEF Use
<1> HIDE DEF n
<1>4. Fewer(bindings') BY <1>0, <1>2, <1>3, OneBinding
<1>5. UNCHANGED <<up, boot, decisions, mandates, policy, handoffs, receipts, generated, console, late, changes>>
  BY DEF Use, orchestrator, authority
<1>6. Aged(receipts') /\ Outlived(receipts') /\ Spends(handoffs') BY <1>0, <1>5, Unchanging
<1> QED BY <1>0, <1>4, <1>5, <1>6, AgeingKeeps, Counting DEF TypeOK

LEMMA LapseBindingKeeps == ASSUME Inv, NEW b \in 1..Len(bindings), LapseBinding(b) PROVE Inv'
<1> DEFINE n == [bindings[b] EXCEPT !.overdue = TRUE]
<1>0. TypeOK BY DEF Inv
<1>1. bindings[b] \in BindingRecords BY <1>0, BindingTypes
<1>2. /\ n \in BindingRecords /\ n.state = bindings[b].state
      /\ n.kind = bindings[b].kind /\ n.session = bindings[b].session /\ n.decision = bindings[b].decision
      /\ n.mandate = bindings[b].mandate /\ n.version = bindings[b].version /\ n.precommit = bindings[b].precommit
  BY <1>1, OverdueBinding
<1>3. bindings' = [bindings EXCEPT ![b] = n] BY DEF LapseBinding
<1> HIDE DEF n
<1>4. Fewer(bindings') BY <1>0, <1>2, <1>3, OneBinding
<1>5. Change /\ UNCHANGED <<up, boot, decisions, mandates, policy, handoffs, receipts, generated, console, late>>
  BY DEF LapseBinding, orchestrator, authority
<1>6. Aged(receipts') /\ Outlived(receipts') /\ Spends(handoffs') BY <1>0, <1>5, Unchanging
<1> QED BY <1>0, <1>4, <1>5, <1>6, AgeingKeeps, Counting DEF TypeOK

LEMMA SweptTypes ==
    ASSUME TypeOK, NEW N
    PROVE  /\ SweptMandates(N) \in Seq(MandateRecords) /\ Len(SweptMandates(N)) = Len(mandates)
           /\ \A m \in Mandates : IF m \in Expiring \cup N THEN SweptMandates(N)[m].status # "active"
                                                        ELSE SweptMandates(N)[m] = mandates[m]
<1> DEFINE f == SweptMandates(N)
<1>0. mandates \in Seq(MandateRecords) /\ DOMAIN mandates = Mandates BY LenProperties DEF TypeOK, Mandates
<1>1. ASSUME NEW m \in Mandates
      PROVE  /\ f[m] \in MandateRecords
             /\ IF m \in Expiring \cup N THEN f[m].status # "active" ELSE f[m] = mandates[m]
  <2> DEFINE n == [mandates[m] EXCEPT !.status = "expired"]
  <2>1. mandates[m] \in MandateRecords BY MandateTypes
  <2>2. n \in MandateRecords /\ n.status = "expired" BY <2>1 DEF MandateRecords, MandateStates
  <2>3. f[m] = IF m \in Expiring THEN n ELSE IF m \in N THEN Narrowed(m) ELSE mandates[m] BY DEF SweptMandates
  <2> HIDE DEF n
  <2> QED BY <2>1, <2>2, <2>3, NarrowedTypes
<1>2. f = [m \in DOMAIN mandates |-> f[m]] BY <1>0 DEF SweptMandates
<1>3. \A m \in 1..Len(mandates) : f[m] \in MandateRecords BY <1>1 DEF Mandates
<1>4. f \in Seq(MandateRecords) /\ Len(f) = Len(mandates) BY <1>0, <1>2, <1>3, InPlace
<1> QED BY <1>1, <1>4

\* A mandate that the sweep ends leaves no ruling, and an execution only without its ruling.
LEMMA SweepStrands ==
    ASSUME Inv, NEW N, mandates' = SweptMandates(N), bindings' = Swept(N)
    PROVE  /\ Fewer(bindings') /\ Unused(bindings')
           /\ \A b \in 1..Len(bindings) : bindings'[b].state = "issued" => Kept(bindings[b].mandate) \/ Strands(b)
<1> DEFINE R == SweptRulings(N)
           E == {b \in DOMAIN bindings :
                   \/ bindings[b].kind = "execution" /\ bindings[b].precommit \in SweptRulings(N)
                   \/ bindings[b].kind = "revision" /\ SweptRevision(bindings[b], N)
                   \/ bindings[b].kind \in Preparations /\ Spent(bindings[b])}
<1>0. TypeOK BY DEF Inv
<1>1. bindings' = Ending(R \cup E) BY DEF Swept
<1>2. Fewer(bindings') /\ Unused(bindings') /\ \A b \in (R \cup E) \cap 1..Len(bindings) : bindings'[b].state # "issued"
  BY <1>0, <1>1, EndingEnds
<1>3. DOMAIN bindings = 1..Len(bindings) BY <1>0, BindingTypes
<1>4. \A m \in Mandates : IF m \in Expiring \cup N THEN mandates'[m].status # "active" ELSE mandates'[m] = mandates[m]
  BY <1>0, SweptTypes
<1>5. ASSUME NEW r \in 1..Len(bindings), bindings[r].kind \in Rulings, bindings[r].mandate \in Expiring \cup N
      PROVE  bindings[r].state = "issued" => r \in R
  BY <1>3, <1>5 DEF SweptRulings
<1>6. ASSUME NEW b \in 1..Len(bindings), bindings'[b].state = "issued"
      PROVE  Kept(bindings[b].mandate) \/ Strands(b)
  <2> DEFINE m == bindings[b].mandate
             p == bindings[b].precommit
  <2>1. m \in Mandates /\ bindings[b].kind \in Kinds BY <1>0, BindingTypes DEF BindingRecords
  <2>2. bindings[b].state = "issued" /\ b \notin R /\ b \notin E BY <1>2, <1>6 DEF Fewer
  <2>3. CASE m \notin Expiring \cup N BY <2>1, <2>3, <1>4 DEF Kept
  <2>4. CASE m \in Expiring \cup N
    <3>1. mandates'[m].status # "active" BY <2>1, <2>4, <1>4
    <3>2. bindings[b].kind \in Preparations BY <2>1, <2>2, <2>4, <1>5 DEF Kinds
    <3>3. ASSUME bindings[b].kind = "execution" PROVE bindings'[p].state # "issued"
      <4>1. p \in 1..Len(bindings) /\ bindings[p].kind = "precommit" /\ bindings[p].mandate = m
        BY <3>3 DEF Inv, NamesAreKnown
      <4>2. p \notin R BY <3>3, <2>2, <1>3
      <4>3. bindings[p].state # "issued" BY <4>1, <4>2, <2>4, <1>5 DEF Rulings
      <4> QED BY <4>1, <4>3, <1>2 DEF Fewer
    <3> QED BY <3>1, <3>2, <3>3 DEF Strands
  <2> QED BY <2>3, <2>4
<1> QED BY <1>2, <1>6

LEMMA MaintainKeeps == ASSUME Inv, Maintain PROVE Inv'
<1>0. TypeOK BY DEF Inv
<1>1. PICK N \in SUBSET Mandates : /\ IF N = {} THEN UNCHANGED changes ELSE Change
                                   /\ Upkeep(N) /\ bindings' = Swept(N)
  BY DEF Maintain
<1>2. Aged(receipts') /\ Outlived(receipts') /\ Spends(handoffs') BY <1>0, <1>1, ExpiryAges DEF Upkeep
<1>3. mandates' = SweptMandates(N) BY <1>1 DEF Upkeep
<1>4. /\ Fewer(bindings')
      /\ \A b \in 1..Len(bindings) : bindings'[b].state = "issued" => Kept(bindings[b].mandate) \/ Strands(b)
  BY <1>1, <1>3, SweepStrands
<1>5. mandates' \in Seq(MandateRecords) /\ Len(mandates') = Len(mandates) BY <1>0, <1>3, SweptTypes
<1>6. UNCHANGED <<up, boot, decisions, policy, generated, console, late>> BY DEF Maintain, orchestrator
<1>7. changes' \in 0..MaxChanges /\ changes' >= changes BY <1>0, <1>1, Counting
<1> QED BY <1>0, <1>2, <1>4, <1>5, <1>6, <1>7, MandatesKeep DEF TypeOK

LEMMA WithdrawKeeps == ASSUME Inv, NEW B, Withdraw(B) PROVE Inv'
<1>0. TypeOK BY DEF Inv
<1>1. Fewer(bindings') BY <1>0, EndingEnds DEF Withdraw
<1>2. Change /\ UNCHANGED <<up, boot, decisions, mandates, policy, handoffs, receipts, generated, console, late>>
  BY DEF Withdraw, orchestrator, authority
<1>3. Aged(receipts') /\ Outlived(receipts') /\ Spends(handoffs') BY <1>0, <1>2, Unchanging
<1> QED BY <1>0, <1>1, <1>2, <1>3, AgeingKeeps, Counting DEF TypeOK

\* What is resolved is usable, and meets what the decision asks for.
LEMMA ResolveIsUsable ==
    ASSUME NEW c, Resolve(c) # 0
    PROVE  Resolve(c) \in Versions /\ Usable(Resolve(c), c) /\ decisions[Resolve(c)].met
<1>1. PICK v \in Versions : Usable(v, c) /\ decisions[v].met /\ \A u \in Versions : Usable(u, c) => u = v BY DEF Resolve
<1>2. Resolve(c) = CHOOSE u \in Versions : Usable(u, c) BY <1>1 DEF Resolve
<1>3. Resolve(c) \in Versions /\ Usable(Resolve(c), c) BY <1>1, <1>2
<1> QED BY <1>1, <1>3

\* A new binding, issued under a mandate in force, is authorised.
LEMMA BindingIsFounded ==
    ASSUME TypeOK, NEW kind \in Kinds, NEW m \in Mandates, NEW s \in 0..MaxSessions, NEW p \in Nat,
           mandates[m].status = "active", Resolve(Config(m)) # 0
    PROVE  LET n == Binding(kind, m, s, p)
           IN /\ n \in BindingRecords /\ n.kind = kind /\ n.mandate = m /\ n.session = s /\ n.precommit = p
              /\ Authorised(n)
<1> DEFINE n == Binding(kind, m, s, p)
<1>1. /\ Resolve(Config(m)) \in Versions /\ Usable(Resolve(Config(m)), Config(m))
      /\ decisions[Resolve(Config(m))].met
  BY ResolveIsUsable
<1>2. mandates[m].version \in Nat /\ boot \in 1..boot BY MandateTypes DEF MandateRecords, TypeOK
<1>3. n \in BindingRecords BY <1>1, <1>2 DEF Binding, BindingRecords
<1>4. Authorised(n) BY <1>1 DEF Binding, Authorised, Usable
<1> QED BY <1>3, <1>4 DEF Binding

\* The issue of a binding, when others may end.
LEMMA IssuedKeeps ==
    ASSUME Inv, NEW bs, Fewer(bs), NEW n \in BindingRecords, bindings' = Append(bs, n), Authorised(n),
           UNCHANGED <<up, boot, decisions, mandates, policy, handoffs, receipts, generated, console, late, changes>>,
           n.kind # "commit" => n.session \in Sessions /\ receipts[n.session].state = "active",
           n.kind = "execution" => /\ n.precommit \in 1..Len(bindings) /\ bindings[n.precommit].kind = "precommit"
                                   /\ bindings[n.precommit].mandate = n.mandate
    PROVE  Inv'
<1>0. TypeOK BY DEF Inv
<1>1. /\ bindings' \in Seq(BindingRecords) /\ Len(bindings') = Len(bindings) + 1 /\ Len(bindings) \in Nat
      /\ \A i \in 1..Len(bindings) : bindings'[i] = bs[i]
      /\ bindings'[Len(bindings) + 1] = n
  BY <1>0, LenProperties DEF Fewer, TypeOK
<1>2. \A i \in 1..Len(bindings) :
        /\ bindings'[i].kind = bindings[i].kind /\ bindings'[i].session = bindings[i].session
        /\ bindings'[i].decision = bindings[i].decision /\ bindings'[i].mandate = bindings[i].mandate
        /\ bindings'[i].version = bindings[i].version /\ bindings'[i].precommit = bindings[i].precommit
        /\ bindings'[i].state = "issued" => bindings[i].state = "issued"
  BY <1>1 DEF Fewer
<1>3. TypeOK' BY <1>0, <1>1, SameRecords DEF TypeOK, Sessions
<1>4. Shape' BY DEF Inv, Shape
<1>5. SessionsAreFresh' /\ ConsumedIsRedeemed' /\ OneSessionPerHandoff' /\ ConsoleWasRedeemed' /\ OnlyNewestLives'
  BY DEF Inv, SessionsAreFresh, ConsumedIsRedeemed, OneSessionPerHandoff, ConsoleWasRedeemed, OnlyNewestLives,
         Sessions, Versions
<1>6. NamesAreKnown'
  <2>1. ASSUME NEW b \in 1..Len(bindings'), bindings'[b].kind = "execution"
        PROVE  LET p == bindings'[b].precommit
               IN p \in 1..Len(bindings') /\ bindings'[p].kind = "precommit" /\ bindings'[p].mandate = bindings'[b].mandate
    <3>1. CASE b \in 1..Len(bindings) BY <3>1, <2>1, <1>1, <1>2 DEF Inv, NamesAreKnown
    <3>2. CASE b = Len(bindings) + 1
      <4>1. bindings'[b] = n /\ n.precommit \in 1..Len(bindings) BY <3>2, <2>1, <1>1
      <4> QED BY <4>1, <2>1, <1>1, <1>2
    <3> QED BY <3>1, <3>2, <1>1
  <2>2. ASSUME NEW b \in 1..Len(bindings'), bindings'[b].kind = "precommit" PROVE bindings'[b].session \in Sessions
    <3>1. CASE b \in 1..Len(bindings) BY <3>1, <2>2, <1>2 DEF Inv, NamesAreKnown
    <3>2. CASE b = Len(bindings) + 1 BY <3>2, <2>2, <1>1
    <3> QED BY <3>1, <3>2, <1>1
  <2> QED BY <2>1, <2>2 DEF NamesAreKnown, Sessions
<1>7. IssuedIsAuthorised'
  <2>1. ASSUME NEW b \in 1..Len(bindings'), bindings'[b].state = "issued"
        PROVE  /\ decisions'[bindings'[b].decision].status = "approved" /\ decisions'[bindings'[b].decision].met
               /\ Authorised(bindings[b])' \/ Stranded(bindings[b])'
    <3>1. CASE b \in 1..Len(bindings)
      <4> DEFINE p == bindings[b].precommit
      <4>1. /\ decisions[bindings[b].decision].status = "approved" /\ decisions[bindings[b].decision].met
            /\ Authorised(bindings[b]) \/ Stranded(bindings[b])
        BY <3>1, <2>1, <1>2 DEF Inv, IssuedIsAuthorised
      <4>2. CASE Authorised(bindings[b])
        <5>1. Authorised(bindings[b])' BY <4>2, <3>1, <1>2 DEF Authorised, Config
        <5> QED BY <5>1, <4>1, <3>1, <1>2
      <4>3. CASE Stranded(bindings[b])
        <5>1. bindings[b].kind = "execution" => p \in 1..Len(bindings) BY <3>1 DEF Inv, NamesAreKnown
        <5>2. bindings[b].kind = "execution" => bindings'[p].state # "issued" BY <5>1, <4>3, <1>2 DEF Stranded
        <5>3. Stranded(bindings[b])' BY <5>2, <4>3, <3>1, <1>2 DEF Stranded
        <5> QED BY <5>3, <4>1, <3>1, <1>2
      <4> QED BY <4>1, <4>2, <4>3
    <3>2. CASE b = Len(bindings) + 1
      <4>1. bindings'[b] = n BY <3>2, <1>1
      <4>2. Authorised(bindings[b])' BY <4>1 DEF Authorised, Config
      <4> QED BY <4>1, <4>2 DEF Authorised
    <3> QED BY <3>1, <3>2, <1>1
  <2> QED BY <2>1 DEF IssuedIsAuthorised
<1>8. PreparationsHaveSessions' /\ ClosedHoldsNothing'
  <2>1. ASSUME NEW b \in 1..Len(bindings'), bindings'[b].kind \in Preparations
        PROVE  LET t == bindings'[b].session
               IN /\ t \in Sessions /\ receipts[t].state # "none"
                  /\ bindings'[b].state = "issued" => receipts[t].state = "active" \/ Gone(receipts[t])
    <3>1. CASE b \in 1..Len(bindings) BY <3>1, <2>1, <1>2 DEF Inv, PreparationsHaveSessions, ClosedHoldsNothing
    <3>2. CASE b = Len(bindings) + 1
      <4>1. bindings'[b] = n /\ n.kind # "commit" BY <3>2, <2>1, <1>1 DEF Preparations
      <4> QED BY <4>1
    <3> QED BY <3>1, <3>2, <1>1
  <2>2. \A x : Gone(x)' <=> Gone(x) BY DEF Gone
  <2>3. PreparationsHaveSessions' BY <2>1 DEF PreparationsHaveSessions, Sessions
  <2>4. ClosedHoldsNothing' BY <2>1, <2>2 DEF ClosedHoldsNothing, Gone
  <2> QED BY <2>3, <2>4
<1> QED BY <1>3, <1>4, <1>5, <1>6, <1>7, <1>8 DEF Inv

LEMMA IssueKeeps ==
    ASSUME Inv, NEW kind \in Rulings \cup {"revision"}, NEW m \in Mandates, NEW s \in 0..MaxSessions, Issue(kind, m, s)
    PROVE  Inv'
<1> DEFINE n == Binding(kind, m, s, 0)
<1>0. TypeOK BY DEF Inv
<1>1. kind \in Kinds /\ kind # "execution" BY DEF Kinds, Rulings, Preparations
<1>2. mandates[m].status = "active" /\ Resolve(Config(m)) # 0 BY DEF Issue, InForce
<1>3. n \in BindingRecords /\ n.kind = kind /\ n.session = s /\ Authorised(n) BY <1>0, <1>1, <1>2, BindingIsFounded
<1>4. bindings' = Append(bindings, n) BY DEF Issue
<1>5. kind # "commit" => s \in Sessions /\ receipts[s].state = "active" BY DEF Issue, Held
<1> HIDE DEF n
<1>6. UNCHANGED <<up, boot, decisions, mandates, policy, handoffs, receipts, generated, console, late, changes>>
  BY DEF Issue, orchestrator, authority
<1>7. Fewer(bindings) BY <1>0, Unchanging
<1> QED BY <1>1, <1>3, <1>4, <1>5, <1>6, <1>7, IssuedKeeps

\* The one mandate in force is the mandate every boundary resolves for.
LEMMA ResolvedIsResolve ==
    ASSUME NEW m \in Mandates, mandates[m].status = "active", Resolved # 0
    PROVE  Resolved = Resolve(Config(m))
<1>1. PICK k \in Mandates : \A i \in Mandates : mandates[i].status = "active" <=> i = k BY DEF Resolved
<1>2. m = k BY <1>1
<1>3. (CHOOSE i \in Mandates : mandates[i].status = "active") = m BY <1>1, <1>2
<1> QED BY <1>1, <1>3 DEF Resolved

LEMMA PrepareKeeps == ASSUME Inv, NEW p \in 1..Len(bindings), Prepare(p) PROVE Inv'
<1> DEFINE m == bindings[p].mandate
           s == bindings[p].session
           n == Binding("execution", m, s, p)
<1>0. TypeOK BY DEF Inv
<1>1. bindings[p] \in BindingRecords /\ m \in Mandates /\ bindings[p].decision \in Versions BY <1>0, BindingTypes
<1>2. s \in 0..MaxSessions BY <1>1 DEF BindingRecords
<1>3. mandates[m].status = "active" /\ Resolved = bindings[p].decision BY DEF Prepare, Current, InForce
<1>4. Resolved # 0 BY <1>1, <1>3 DEF Versions
<1>5. Resolve(Config(m)) # 0 BY <1>1, <1>3, <1>4, ResolvedIsResolve
<1>6. bindings[p].kind = "precommit" /\ receipts[s].state = "active" BY DEF Prepare, Held
<1>7. s \in Sessions BY <1>6 DEF Inv, NamesAreKnown
<1>8. p \in Nat /\ "execution" \in Kinds BY DEF Kinds, Preparations
<1>9. /\ n \in BindingRecords /\ n.kind = "execution" /\ n.mandate = m /\ n.session = s /\ n.precommit = p
      /\ Authorised(n)
  BY <1>0, <1>1, <1>2, <1>3, <1>5, <1>8, BindingIsFounded
<1>10. bindings' = Append(Ending(Executions(p)), n) BY DEF Prepare
<1>11. Fewer(Ending(Executions(p))) BY <1>0, EndingEnds
<1> HIDE DEF n
<1>12. UNCHANGED <<up, boot, decisions, mandates, policy, handoffs, receipts, generated, console, late, changes>>
  BY DEF Prepare, orchestrator, authority
<1> QED BY <1>6, <1>7, <1>9, <1>10, <1>11, <1>12, IssuedKeeps

-----------------------------------------------------------------------------
(***************************************************************************)
(* Crashes and starts.                                                     *)
(***************************************************************************)
\* The service is back with a start of its own: every receipt is one of an earlier start.
LEMMA CrashKeeps == ASSUME Inv, Crash PROVE Inv'
<1>0. TypeOK BY DEF Inv
<1>1. /\ up' = FALSE /\ boot' = boot + 1 /\ Change
      /\ UNCHANGED <<decisions, mandates, policy, handoffs, receipts, bindings, generated, console, late>>
  BY DEF Crash, world, orchestrator, authority
<1>2. boot \in Nat /\ MaxChanges \in Nat /\ changes \in Nat /\ changes' = changes + 1 /\ changes' \in 0..MaxChanges
  BY <1>0, <1>1, Counting, CaseAuthorityAssumption DEF TypeOK
<1>3. /\ HandoffRecords \subseteq HandoffRecords' /\ ReceiptRecords \subseteq ReceiptRecords'
      /\ BindingRecords \subseteq BindingRecords' /\ DecisionRecords' = DecisionRecords
  BY <1>1, <1>2 DEF HandoffRecords, ReceiptRecords, BindingRecords, DecisionRecords, Versions, Mandates
<1>4. TypeOK'
  <2>1. handoffs' \in Seq(HandoffRecords') BY <1>0, <1>1, <1>3, SeqMonotonic DEF TypeOK
  <2>2. bindings' \in Seq(BindingRecords') BY <1>0, <1>1, <1>3, SeqMonotonic DEF TypeOK
  <2>3. receipts' \in [Sessions -> ReceiptRecords'] BY <1>0, <1>1, <1>3 DEF TypeOK
  <2>4. boot' \in 1..(MaxChanges + 1) BY <1>1, <1>2 DEF Inv, Shape
  <2> QED BY <2>1, <2>2, <2>3, <2>4, <1>0, <1>1, <1>2, <1>3 DEF TypeOK, Sessions
<1>5. Shape' BY <1>1, <1>2 DEF Inv, Shape
<1>6. SessionsAreFresh' /\ ConsumedIsRedeemed' /\ OneSessionPerHandoff' /\ ConsoleWasRedeemed' /\ PreparationsHaveSessions'
  BY <1>1 DEF Inv, SessionsAreFresh, ConsumedIsRedeemed, OneSessionPerHandoff, ConsoleWasRedeemed,
              PreparationsHaveSessions, Sessions
<1>7. ClosedHoldsNothing'
  <2>1. ASSUME NEW s \in Sessions PROVE receipts[s].boot # boot'
    <3>1. receipts[s].boot \in 0..boot BY <1>0 DEF TypeOK, ReceiptRecords
    <3> QED BY <3>1, <1>1, <1>2
  <2> QED BY <2>1, <1>1 DEF ClosedHoldsNothing, Gone, Inv, PreparationsHaveSessions
<1>8. Founded'
  <2>2. OnlyNewestLives' BY <1>1 DEF Inv, OnlyNewestLives, Versions
  <2>3. NamesAreKnown' BY <1>1 DEF Inv, NamesAreKnown, Sessions
  <2>4. IssuedIsAuthorised' BY <1>1 DEF Inv, IssuedIsAuthorised, Authorised, Stranded, Config
  <2> QED BY <2>2, <2>3, <2>4 DEF Founded
<1> QED BY <1>4, <1>5, <1>6, <1>7, <1>8 DEF Inv, Founded

\* The first start approves the fixture, before anything is bound to a decision; a later one
\* is maintenance, or the reload of another policy.
LEMMA StartKeeps == ASSUME Inv, NEW q \in Policies, Start(q) PROVE Inv'
<1>0. TypeOK BY DEF Inv
<1>1. PICK N \in SUBSET Mandates :
         /\ Upkeep(N)
         /\ bindings' = IF q = policy THEN Swept(N) ELSE WithoutAny
         /\ IF N = {} /\ (q = policy \/ (policy = "none" /\ q = FixturePolicy)) THEN UNCHANGED changes ELSE Change
  BY DEF Start
<1>2. Aged(receipts') /\ Outlived(receipts') /\ Spends(handoffs') BY <1>0, <1>1, ExpiryAges DEF Upkeep
<1>3. mandates' = SweptMandates(N) BY <1>1 DEF Upkeep
<1>4. mandates' \in Seq(MandateRecords) /\ Len(mandates') = Len(mandates) BY <1>0, <1>3, SweptTypes
<1>5. UNCHANGED <<boot, generated, console, late>> /\ policy' = q /\ up' \in BOOLEAN BY DEF Start, orchestrator
<1>6. changes' \in 0..MaxChanges /\ changes' >= changes BY <1>0, <1>1, Counting
<1>7. Fewer(bindings')
  <2>1. CASE q = policy BY <2>1, <1>1, <1>3, SweepStrands
  <2>2. CASE q # policy BY <2>2, <1>0, <1>1, NothingIssued
  <2> QED BY <2>1, <2>2
<1>8. CASE decisions # <<>> /\ q = policy
  <2>1. decisions' = decisions BY <1>8 DEF Start
  <2>2. \A b \in 1..Len(bindings) : bindings'[b].state = "issued" => Kept(bindings[b].mandate) \/ Strands(b)
    BY <1>1, <1>3, <1>8, SweepStrands
  <2> QED BY <1>2, <1>4, <1>5, <1>6, <1>7, <1>8, <2>1, <2>2, MandatesKeep
<1>9. CASE decisions # <<>> /\ q # policy
  <2>1. decisions' = decisions BY <1>9 DEF Start
  <2>2. \A b \in 1..Len(bindings) : bindings'[b].state # "issued" BY <1>0, <1>1, <1>9, NothingIssued
  <2> QED BY <1>2, <1>4, <1>5, <1>6, <1>7, <2>1, <2>2, EndedKeeps
<1>10. CASE decisions = <<>>
  <2> DEFINE d == Decision("approved", Fixture, "open", TRUE)
  <2>1. decisions' = <<d>> BY <1>10 DEF Start
  <2>2. d \in DecisionRecords BY CaseAuthorityAssumption DEF Decision, DecisionRecords
  <2> HIDE DEF d
  <2>3. decisions' \in Seq(DecisionRecords) /\ Len(decisions') = 1 /\ Len(decisions) = 0 BY <2>1, <2>2, <1>10
  <2>4. Len(bindings) = 0
    <3>1. Versions = {} BY <2>3 DEF Versions
    <3>2. Len(bindings) \in Nat BY <1>0, LenProperties DEF TypeOK
    <3>3. \A b \in 1..Len(bindings) : FALSE BY <1>0, <3>1, BindingTypes
    <3> QED BY <3>2, <3>3
  <2>5. bindings' = <<>> BY <1>7, <2>4, EmptySeq DEF Fewer
  <2>6. /\ HandoffRecords' = HandoffRecords /\ ReceiptRecords' = ReceiptRecords /\ DecisionRecords' = DecisionRecords
    BY <1>2, <1>5 DEF HandoffRecords, ReceiptRecords, DecisionRecords, Spends
  <2>7. TypeOK'
    <3>1. bindings' \in Seq(BindingRecords') BY <2>5, EmptySeq
    <3>2. Len(decisions') <= MaxVersions BY <2>3, CaseAuthorityAssumption
    <3> QED BY <3>1, <3>2, <2>3, <2>6, <1>0, <1>2, <1>4, <1>5, <1>6 DEF TypeOK, Spends, Aged, Sessions
  <2>8. Shape'
    <3>1. boot \in Nat /\ changes \in Nat /\ changes' \in Nat BY <1>0, <1>6, CaseAuthorityAssumption DEF TypeOK
    <3> QED BY <3>1, <1>2, <1>5, <1>6, Growing DEF Inv, Shape, Spends
  <2>9. Sessioned' BY <1>2, <1>5, SessionsStay
  <2>10. Bound' BY <2>5, EmptySeq DEF Bound, PreparationsHaveSessions, ClosedHoldsNothing
  <2>11. Founded' BY <2>3, <2>5, EmptySeq DEF Founded, OnlyNewestLives, IssuedIsAuthorised, NamesAreKnown, Versions
  <2> QED BY <2>7, <2>8, <2>9, <2>10, <2>11 DEF Inv, Sessioned, Bound, Founded
<1> QED BY <1>8, <1>9, <1>10

LEMMA NextKeeps == ASSUME Inv, Next PROVE Inv'
<1>1. CASE DecisionStep
  <2>1. ASSUME NEW v \in Versions, PassTime(v) PROVE Inv' BY <2>1, PassTimeKeeps
  <2>2. ASSUME NEW v \in Versions, NEW status \in {"approved", "rejected", "superseded", "suspended"}, Transition(v, status)
        PROVE  Inv'
    BY <2>2, TransitionKeeps
  <2>3. ASSUME NEW status \in {"proposed", "approved"}, NEW c \in Configs, NEW w \in {"ahead", "open"}, NEW met \in BOOLEAN,
               Replace(Decision(status, c, w, met))
        PROVE  Inv'
    <3>1. Decision(status, c, w, met) \in DecisionRecords BY DEF Decision, DecisionRecords
    <3> QED BY <3>1, <2>3, ReplaceKeeps
  <2> QED BY <1>1, <2>1, <2>2, <2>3 DEF DecisionStep
<1>2. CASE MandateStep
  BY <1>2, GrantKeeps, AmendKeeps, RevokeKeeps, NarrowOnEscalationKeeps, NarrowOnAnswerKeeps, LapseMandateKeeps,
     ReloadPolicyKeeps DEF MandateStep
<1>3. CASE SessionStep
  <2>1. CASE Mint BY <2>1, MintKeeps
  <2>2. ASSUME NEW h \in 1..Len(handoffs), Redeem(h) \/ LapseHandoff(h) PROVE Inv' BY <2>2, RedeemKeeps, LapseHandoffKeeps
  <2>3. ASSUME NEW s \in Sessions, CloseSession(s) \/ LapseReceipt(s) PROVE Inv' BY <2>3, CloseSessionKeeps, LapseReceiptKeeps
  <2>4. ASSUME NEW s \in Sessions, LapseConsole(s) PROVE Inv'
    <3>1. console' \subseteq console BY <2>4 DEF LapseConsole
    <3> QED BY <3>1, <2>4, ConsoleKeeps DEF LapseConsole
  <2>5. ASSUME NEW r \in late, HandleLate(r) PROVE Inv' BY <2>5, HandleLateKeeps
  <2> QED BY <1>3, <2>1, <2>2, <2>3, <2>4, <2>5 DEF SessionStep
<1>4. CASE BindingStep
  <2>1. DOMAIN bindings = 1..Len(bindings) BY BindingTypes DEF Inv
  <2> QED BY <1>4, <2>1, IssueKeeps, PrepareKeeps, UseKeeps, LapseBindingKeeps, WithdrawKeeps DEF BindingStep
<1>5. CASE Maintain BY <1>5, MaintainKeeps
<1>6. CASE Crash BY <1>6, CrashKeeps
<1>7. ASSUME NEW q \in Policies, Start(q) PROVE Inv' BY <1>7, StartKeeps
<1>8. CASE RestartOrchestrator
  <2>1. console' \subseteq console BY <1>8 DEF RestartOrchestrator
  <2> QED BY <2>1, <1>8, ConsoleKeeps DEF RestartOrchestrator
<1> QED BY <1>1, <1>2, <1>3, <1>4, <1>5, <1>6, <1>7, <1>8 DEF Next

LEMMA InitHolds == ASSUME Init PROVE Inv
<1>0. MaxChanges \in Nat /\ MaxSessions \in Nat /\ MaxVersions \in Nat BY CaseAuthorityAssumption
<1>1. \A S : <<>> \in Seq(S) /\ Len(<<>>) = 0 BY EmptySeq
<1>2. decisions = <<>> /\ mandates = <<>> /\ handoffs = <<>> /\ bindings = <<>> BY DEF Init
<1>3. Len(decisions) = 0 /\ Len(handoffs) = 0 /\ Len(bindings) = 0 BY <1>1, <1>2
<1>4. NoReceipt \in ReceiptRecords BY <1>3 DEF NoReceipt, ReceiptRecords, Init
<1>5. receipts \in [Sessions -> ReceiptRecords] /\ \A s \in Sessions : receipts[s] = NoReceipt BY <1>4 DEF Init
<1>6. TypeOK
  <2>0. up \in BOOLEAN BY Zenon DEF Init
  <2>1. boot \in 1..(MaxChanges + 1) /\ changes \in 0..MaxChanges BY <1>0 DEF Init
  <2>2. policy \in Policies \cup {"none"} /\ console \subseteq 1..generated BY DEF Init
  <2>3. /\ decisions \in Seq(DecisionRecords) /\ mandates \in Seq(MandateRecords)
        /\ handoffs \in Seq(HandoffRecords) /\ bindings \in Seq(BindingRecords)
    BY <1>1, <1>2
  <2> QED BY <2>0, <2>1, <2>2, <2>3, <1>0, <1>3, <1>5 DEF TypeOK
<1>7. Shape BY <1>0, <1>3 DEF Shape, Init
<1>8. OnlyNewestLives /\ IssuedIsAuthorised /\ NamesAreKnown /\ PreparationsHaveSessions /\ ClosedHoldsNothing
      /\ ConsumedIsRedeemed
  BY <1>3 DEF OnlyNewestLives, IssuedIsAuthorised, NamesAreKnown, PreparationsHaveSessions, ClosedHoldsNothing,
              ConsumedIsRedeemed, Versions
<1>9. SessionsAreFresh /\ OneSessionPerHandoff /\ ConsoleWasRedeemed
  BY <1>5 DEF SessionsAreFresh, OneSessionPerHandoff, ConsoleWasRedeemed, NoReceipt, Init
<1> QED BY <1>6, <1>7, <1>8, <1>9 DEF Inv

-----------------------------------------------------------------------------
(***************************************************************************)
(* The theorems.                                                           *)
(***************************************************************************)
\* The inductive invariant holds in every state of every behaviour, with any number of
\* versions, handoffs, sessions and bindings.
THEOREM CaseAuthorityInvariance == Spec => []Inv
<1>1. Init => Inv BY InitHolds
<1>2. Inv /\ [Next]_vars => Inv'
  <2>1. ASSUME Inv, UNCHANGED vars PROVE Inv'
    <3>1. UNCHANGED <<up, boot, decisions, mandates, policy, handoffs, receipts, bindings, generated, console, late, changes>>
      BY <2>1 DEF vars, world, orchestrator, authority
    <3>2. TypeOK BY <2>1 DEF Inv
    <3>3. Aged(receipts') /\ Outlived(receipts') /\ Spends(handoffs') /\ Fewer(bindings') BY <3>1, <3>2, Unchanging
    <3> QED BY <2>1, <3>1, <3>2, <3>3, AgeingKeeps, Counting DEF TypeOK
  <2> QED BY <2>1, NextKeeps
<1> QED BY <1>1, <1>2, PTL DEF Spec

\* A set in which any two elements are equal has at most one.
LEMMA AtMostOne == ASSUME NEW S, \A x, y \in S : x = y PROVE Cardinality(S) <= 1
<1>1. CASE S = {} BY <1>1, FS_EmptySet
<1>2. CASE S # {}
  <2>1. PICK x \in S : TRUE BY <1>2
  <2>2. S = {x} BY <2>1
  <2> QED BY <2>2, FS_Singleton
<1> QED BY <1>1, <1>2

\* At most one version of the system-use decision is approved and a handoff is spent
\* exactly when a session has its receipt.
THEOREM RecordsAlwaysAgree == Spec => []RecordsAgree
<1>1. Inv => RecordsAgree
  <2>1. ASSUME Inv PROVE NeverAmbiguous
    <3> DEFINE S == {v \in Versions : decisions[v].status = "approved"}
    <3>1. \A v, w \in S : v = w BY <2>1 DEF Inv, OnlyNewestLives
    <3> QED BY <3>1, AtMostOne DEF NeverAmbiguous
  <2> QED BY <2>1 DEF Inv, RecordsAgree
<1> QED BY <1>1, CaseAuthorityInvariance, PTL

\* One session per handoff, and none in the orchestrator that was not redeemed, however
\* redemptions are lost, repeated or handled late.
THEOREM SessionsWereRedeemed == Spec => []SessionsAreRedeemed
<1>1. Inv => SessionsAreRedeemed BY DEF Inv, SessionsAreRedeemed
<1> QED BY <1>1, CaseAuthorityInvariance, PTL

\* A ruling that is still issued rests on an approved decision for the mandate and the policy
\* in force; a preparation does so too, or its mandate is not active and, for an execution,
\* its ruling has ended; and no preparation is left of a session that was closed.
THEOREM IssuedWasHeld == Spec => []IssuedIsHeld
<1>1. Inv => IssuedIsHeld BY DEF Inv, IssuedIsHeld
<1> QED BY <1>1, CaseAuthorityInvariance, PTL

-----------------------------------------------------------------------------
(***************************************************************************)
(* What is no longer authorised.                                           *)
(***************************************************************************)
\* What a mandate that is not active left is not used, and ends before it is active again.
Unregained ==
    \A b \in 1..Len(bindings) : bindings[b].state = "issued" /\ mandates[bindings[b].mandate].status # "active" =>
        /\ bindings'[b].state # "used"
        /\ bindings'[b].state = "issued" => /\ bindings'[b].mandate = bindings[b].mandate
                                            /\ mandates'[bindings[b].mandate].status # "active"

\* No mandate becomes active.
Unraised == \A m \in Mandates : mandates'[m].status = "active" => mandates[m].status = "active"

LEMMA UnusedUnraised == ASSUME TypeOK, Unused(bindings'), Unraised PROVE Unregained
BY BindingTypes DEF Unused, Unraised, Unregained

LEMMA UnchangedUnused == ASSUME UNCHANGED bindings PROVE Unused(bindings')
BY DEF Unused

LEMMA UnchangedUnraised == ASSUME UNCHANGED mandates PROVE Unraised
BY DEF Unraised

\* The mandate after a change that leaves it no more active than it was.
LEMMA OneUnraised ==
    ASSUME TypeOK, NEW m \in Mandates, NEW n \in MandateRecords, mandates' = [mandates EXCEPT ![m] = n],
           n.status = "active" => mandates[m].status = "active"
    PROVE  Unraised
BY ExceptSeq DEF TypeOK, Mandates, Unraised

LEMMA DecisionStepUnregained == ASSUME TypeOK, DecisionStep PROVE Unregained
<1>1. Unused(bindings') BY EndingEnds, UnchangedUnused DEF DecisionStep, PassTime, Transition, Replace, WithoutDecision
<1>2. UNCHANGED mandates BY DEF DecisionStep, PassTime, Transition, Replace
<1> QED BY <1>1, <1>2, UnchangedUnraised, UnusedUnraised

LEMMA SessionStepUnregained == ASSUME TypeOK, SessionStep PROVE Unregained
<1>1. Unused(bindings')
  BY EndingEnds, UnchangedUnused
     DEF SessionStep, Mint, Redeem, LapseHandoff, CloseSession, LapseReceipt, LapseConsole, HandleLate, HandleClose,
         WithoutSession, world
<1>2. UNCHANGED mandates
  BY DEF SessionStep, Mint, Redeem, LapseHandoff, CloseSession, LapseReceipt, LapseConsole, HandleLate, world, authority
<1> QED BY <1>1, <1>2, UnchangedUnraised, UnusedUnraised

\* An amendment can make a mandate active, and ends what any version of it gave.
LEMMA AmendUnregained ==
    ASSUME TypeOK, NEW m \in Mandates, NEW scope \in Scopes, NEW state \in {"active", "suspended"}, Amend(m, scope, state)
    PROVE  Unregained
<1> DEFINE n == Mandate(mandates[m].version + 1, state, scope)
           B == {b \in DOMAIN bindings : bindings[b].mandate = m}
<1>1. mandates' = [mandates EXCEPT ![m] = n] /\ bindings' = Ending(B) BY DEF Amend, WithoutMandate
<1>2. Unused(bindings') /\ \A b \in B \cap 1..Len(bindings) : bindings'[b].state # "issued" BY <1>1, EndingEnds
<1>3. \A k \in Mandates : k # m => mandates'[k] = mandates[k] BY <1>1 DEF TypeOK, Mandates
<1>4. ASSUME NEW b \in 1..Len(bindings), bindings[b].state = "issued", mandates[bindings[b].mandate].status # "active"
      PROVE  /\ bindings'[b].state # "used"
             /\ bindings'[b].state = "issued" => /\ bindings'[b].mandate = bindings[b].mandate
                                                 /\ mandates'[bindings[b].mandate].status # "active"
  <2>1. bindings'[b].state # "used" /\ bindings'[b].mandate = bindings[b].mandate BY <1>2, <1>4 DEF Unused
  <2>2. bindings[b].mandate \in Mandates /\ b \in DOMAIN bindings BY BindingTypes
  <2>3. bindings'[b].state = "issued" => bindings[b].mandate # m BY <2>2, <1>2
  <2> QED BY <2>1, <2>2, <2>3, <1>3, <1>4
<1> QED BY <1>4 DEF Unregained

LEMMA MandateStepUnregained == ASSUME TypeOK, MandateStep PROVE Unregained
<1>1. ASSUME NEW scope \in Scopes, NEW state \in {"active", "suspended"}, Grant(scope, state) PROVE Unregained
  <2>1. \A m \in Mandates : mandates'[m] = mandates[m] BY <1>1 DEF Grant, TypeOK, Mandates
  <2>2. Unraised /\ UNCHANGED bindings BY <2>1, <1>1 DEF Unraised, Grant
  <2> QED BY <2>2, UnchangedUnused, UnusedUnraised
<1>2. ASSUME NEW m \in Mandates, Revoke(m) \/ NarrowOnEscalation(m) \/ NarrowOnAnswer(m) \/ LapseMandate(m)
      PROVE  Unregained
  <2>1. Unused(bindings')
    BY <1>2, EndingEnds, UnchangedUnused
       DEF Revoke, NarrowOnEscalation, NarrowOnAnswer, LapseMandate, WithoutVersion, WithoutKinds
  <2>2. mandates[m] \in MandateRecords BY MandateTypes
  <2>3. CASE Revoke(m)
    <3> DEFINE n == [mandates[m] EXCEPT !.status = "revoked"]
    <3>1. n \in MandateRecords /\ n.status = "revoked" BY <2>2 DEF MandateRecords, MandateStates
    <3>2. mandates' = [mandates EXCEPT ![m] = n] BY <2>3 DEF Revoke
    <3> HIDE DEF n
    <3> QED BY <3>1, <3>2, <2>1, OneUnraised, UnusedUnraised
  <2>4. CASE NarrowOnEscalation(m) \/ NarrowOnAnswer(m)
    <3>1. mandates' = [mandates EXCEPT ![m] = Narrowed(m)] BY <2>4 DEF NarrowOnEscalation, NarrowOnAnswer
    <3> QED BY <3>1, <2>1, NarrowedTypes, OneUnraised, UnusedUnraised
  <2>5. CASE LapseMandate(m)
    <3> DEFINE n == [mandates[m] EXCEPT !.overdue = TRUE]
    <3>1. n \in MandateRecords /\ n.status = mandates[m].status BY <2>2, Zenon DEF MandateRecords
    <3>2. mandates' = [mandates EXCEPT ![m] = n] BY <2>5 DEF LapseMandate
    <3> HIDE DEF n
    <3> QED BY <3>1, <3>2, <2>1, OneUnraised, UnusedUnraised
  <2> QED BY <1>2, <2>3, <2>4, <2>5
<1>3. ASSUME NEW p \in Policies, ReloadPolicy(p) PROVE Unregained
  BY <1>3, NothingIssued, UnchangedUnraised, UnusedUnraised DEF ReloadPolicy
<1> QED BY <1>1, <1>2, <1>3, AmendUnregained DEF MandateStep

\* A use needs the mandate in force, and what is issued anew is a binding of its own.
LEMMA BindingStepUnregained == ASSUME TypeOK, BindingStep PROVE Unregained
<1>0. DOMAIN bindings = 1..Len(bindings) /\ Len(bindings) \in Nat /\ bindings \in Seq(BindingRecords)
  BY BindingTypes, LenProperties DEF TypeOK
<1>1. UNCHANGED mandates BY DEF BindingStep, Issue, Prepare, Use, LapseBinding, Withdraw, authority
<1>2. ASSUME NEW kind, NEW m, NEW s, Issue(kind, m, s) PROVE Unregained
  <2>1. \A b \in 1..Len(bindings) : bindings'[b] = bindings[b] BY <1>0, <1>2 DEF Issue
  <2> QED BY <2>1, <1>1, UnchangedUnraised, UnusedUnraised DEF Unused
<1>3. ASSUME NEW p \in DOMAIN bindings, Prepare(p) PROVE Unregained
  <2> DEFINE bs == Ending(Executions(p))
  <2>1. Fewer(bs) /\ Unused(bs) BY EndingEnds
  <2>2. PICK n : bindings' = Append(bs, n) BY <1>3 DEF Prepare
  <2> HIDE DEF bs
  <2>3. \A b \in 1..Len(bindings) : bindings'[b] = bs[b] BY <1>0, <2>1, <2>2 DEF Fewer
  <2>4. Unused(bindings') BY <2>1, <2>3 DEF Unused
  <2> QED BY <2>4, <1>1, UnchangedUnraised, UnusedUnraised
<1>4. ASSUME NEW c \in DOMAIN bindings, Use(c) PROVE Unregained
  <2>1. mandates[bindings[c].mandate].status = "active" BY <1>4 DEF Use, Current, InForce
  <2>2. \A b \in 1..Len(bindings) : b # c => bindings'[b] = bindings[b] BY <1>0, <1>4 DEF Use
  <2> QED BY <2>1, <2>2, <1>1 DEF Unregained
<1>5. ASSUME NEW c \in DOMAIN bindings, LapseBinding(c) PROVE Unregained
  <2> DEFINE n == [bindings[c] EXCEPT !.overdue = TRUE]
  <2>1. bindings[c] \in BindingRecords BY <1>0, BindingTypes
  <2>2. n.state = bindings[c].state /\ n.mandate = bindings[c].mandate BY <2>1, OverdueBinding
  <2>3. bindings' = [bindings EXCEPT ![c] = n] BY <1>5 DEF LapseBinding
  <2> HIDE DEF n
  <2>4. Unused(bindings') BY <2>2, <2>3, <1>0 DEF Unused
  <2> QED BY <2>4, <1>1, UnchangedUnraised, UnusedUnraised
<1>6. ASSUME NEW B, Withdraw(B) PROVE Unregained
  BY <1>6, <1>1, EndingEnds, UnchangedUnraised, UnusedUnraised DEF Withdraw
<1> QED BY <1>2, <1>3, <1>4, <1>5, <1>6 DEF BindingStep

LEMMA UpkeepUnregained ==
    ASSUME TypeOK, NEW N, mandates' = SweptMandates(N), bindings' = Swept(N) \/ bindings' = WithoutAny
    PROVE  Unregained
<1>1. Unused(bindings') BY EndingEnds DEF Swept, WithoutAny
<1>2. Unraised BY SweptTypes DEF Unraised
<1> QED BY <1>1, <1>2, UnusedUnraised

LEMMA StepUnregained == ASSUME TypeOK, Next PROVE Unregained
<1>1. CASE Maintain BY <1>1, UpkeepUnregained DEF Maintain, Upkeep
<1>2. ASSUME NEW q \in Policies, Start(q) PROVE Unregained
  <2>1. PICK N : Upkeep(N) /\ bindings' = IF q = policy THEN Swept(N) ELSE WithoutAny BY <1>2 DEF Start
  <2> QED BY <2>1, UpkeepUnregained DEF Upkeep
<1>3. CASE Crash \/ RestartOrchestrator
  <2>1. UNCHANGED <<mandates, bindings>> BY <1>3 DEF Crash, RestartOrchestrator, world, authority
  <2> QED BY <2>1, UnchangedUnused, UnchangedUnraised, UnusedUnraised
<1> QED BY <1>1, <1>2, <1>3, DecisionStepUnregained, MandateStepUnregained, SessionStepUnregained, BindingStepUnregained DEF Next

\* What is issued and no longer authorised is a preparation that narrowing or the sweep left:
\* it is never used and never authorised again, whatever is amended, granted or reloaded.
THEOREM NothingIsRegained == Spec => NothingRegained
<1>1. ASSUME Inv, [Next]_vars
      PROVE  [\A b \in 1..Len(bindings) : bindings[b].state = "issued" /\ ~Authorised(bindings[b]) =>
                /\ bindings'[b].state # "used"
                /\ bindings'[b].state = "issued" => ~Authorised(bindings[b])']_vars
  <2>1. CASE Next
    <3>1. Unregained BY <1>1, <2>1, StepUnregained DEF Inv
    <3>2. ASSUME NEW b \in 1..Len(bindings), bindings[b].state = "issued", ~Authorised(bindings[b])
          PROVE  /\ bindings'[b].state # "used"
                 /\ bindings'[b].state = "issued" => ~Authorised(bindings[b])'
      <4>1. mandates[bindings[b].mandate].status # "active" BY <1>1, <3>2 DEF Inv, IssuedIsAuthorised, Stranded
      <4>2. /\ bindings'[b].state # "used"
            /\ bindings'[b].state = "issued" => mandates'[bindings'[b].mandate].status # "active"
        BY <3>1, <3>2, <4>1 DEF Unregained
      <4> QED BY <4>2 DEF Authorised
    <3> QED BY <3>2
  <2>2. CASE UNCHANGED vars BY <2>2
  <2> QED BY <1>1, <2>1, <2>2
<1> QED BY <1>1, CaseAuthorityInvariance, PTL DEF Spec, NothingRegained

================================================================================
