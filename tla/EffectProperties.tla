-------------------------- MODULE EffectProperties --------------------------
(***************************************************************************)
(* What executing commitments promises.                                    *)
(***************************************************************************)
EXTENDS EffectExecution

\* Every variable has its shape.
TypeOK ==
    /\ commitments \in [Keys -> Commitment]
    /\ ledger \in [Keys -> Entry \cup {NoEntry}]
    /\ effects \in [Keys -> [times : Nat, outcome : Outcomes \cup {"none"}]]
    /\ host \in [up : BOOLEAN, boot : Nat, store : Nat]
    /\ memory \in [Keys -> Slot]
    /\ network \subseteq Message
    /\ listening \in BOOLEAN
    /\ maintenance \in Pass
    /\ now \in Nat /\ asks \in Nat /\ restarts \in Nat /\ losses \in Nat

\* An effect that the host recorded can always be adopted: it was produced
\* under the boot and in the ledger its commitment names, so that neither a
\* report nor a probe is turned away as a binding mismatch.
Adoptable ==
    \A k \in Keys :
        ledger[k] # NoEntry => /\ commitments[k].state \notin {"open", "refused"}
                               /\ Matches(k, ledger[k])

\* What the authorization service holds for true is true, whatever was lost,
\* delayed, repeated or crashed: a recorded outcome is that of the one effect
\* there was, and "no-effect" is recorded only when there was none.
KnownIsTrue ==
    \A k \in Keys :
        /\ effects[k].times <= 1
        /\ commitments[k].outcome \in {"success", "failed"} =>
             effects[k].times = 1 /\ commitments[k].outcome = effects[k].outcome
        /\ commitments[k].outcome = "no-effect" => effects[k].times = 0

\* The effect of a key as the world saw it.
EffectOf(k) == CASE effects[k].times = 0 -> "none"
                 [] effects[k].times = 1 -> effects[k].outcome
                 [] OTHER -> "repeated"

Abstract == INSTANCE AtMostOnceEffect WITH
    effect <- [k \in Keys |-> EffectOf(k)],
    known <- [k \in Keys |-> commitments[k].outcome]

\* The effect happens at most once, also after its absence was concluded, and
\* what is known is final (ADR-001: "no duplicate effect").
ImplementsAtMostOnce == Abstract!EffectSpec

\* Nothing stays bound for good; an effect in the ledger becomes known; and a
\* restart of the host with its ledger settles every commitment made before it.
OutcomesArrive ==
    \A k \in Keys :
        /\ commitments[k].state = "bound" ~> commitments[k].state # "bound"
        /\ ledger[k] # NoEntry ~> commitments[k].outcome # "none" \/ ledger[k] = NoEntry
        /\ Unresolved(k) /\ host.boot > commitments[k].boot
             ~> ~Unresolved(k) \/ host.store # commitments[k].store
=============================================================================
