-------------------------- MODULE ScreeningProperties --------------------------
(***************************************************************************)
(* The properties of live screening.                                       *)
(***************************************************************************)
EXTENDS Screening

CallRecords == [state : {"none", "open", "admitted", "failed"}, context : 0..context, boot : 0..boot,
                overdue : BOOLEAN, flagged : BOOLEAN]
RulingRecords == [verdict : {"none", "allow", "escalate", "deny"}, issued : BOOLEAN,
                  context : 0..context, evidence : 0..context]
RunRecords == [stage : {"none", "next", "ensure", "resolve", "rule", "done"}, gate : GateNames,
               performed : BOOLEAN, evidence : 0..context]

\* Types: a call exists only where screening is required, and is never bound to a
\* context or a start that has not come yet.
TypeOK ==
    /\ boot \in 1..(MaxChanges + 1) /\ context \in 1..(MaxChanges + 1) /\ starts \in 1..(MaxChanges + 1)
    /\ current \in BOOLEAN /\ changes \in 0..MaxChanges
    /\ calls \in [GateNames -> CallRecords]
    /\ \A g \in GateNames \ Required : calls[g] = NoCall
    /\ rulings \in [GateNames -> RulingRecords]
    /\ runs \in [Runs -> RunRecords]
    /\ given \subseteq Required /\ seen \subseteq Required

\* A gate that requires screening allows only on an answer of the provider that found
\* nothing, about the very card, mandate and items in force when the ruling was made; the
\* evidence is read before the lock is taken and the provider asked long before.
AllowWasScreened ==
    \A g \in Required : rulings[g].verdict = "allow" =>
        rulings[g].evidence = rulings[g].context /\ rulings[g].evidence \in said[g].clean

\* A start of the orchestrator puts a call to the provider once, however often the gate
\* loop hands it out ("no retry or provider fallback occurs", ADR-016 section 3).
AskedOnce == \A g \in GateNames : said[g].asked <= starts

\* The calls of the gate loop are in order: they exist where they are needed, for what
\* has been, and reach the provider once however many requests run the loop.
CallsInOrder == TypeOK /\ AskedOnce

\* The evidence of a call is final: what failed is not admitted later, what was admitted
\* is only ever invalidated, though a second start can ask and report again.
EvidenceIsFinal ==
    [][\A g \in GateNames : calls[g].state \in {"admitted", "failed"} /\ calls'[g] # calls[g] =>
          calls'[g].flagged = calls[g].flagged /\ calls'[g].state \in {calls[g].state, "failed"}]_vars

\* Every run of the gate loop ends, with a ruling, a call to make or a refusal.
RunsEnd == \A r \in Runs : ~At(r, "none") ~> At(r, "done")

================================================================================
