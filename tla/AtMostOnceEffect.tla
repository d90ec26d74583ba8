-------------------------- MODULE AtMostOnceEffect --------------------------
(***************************************************************************)
(* What executing a commitment promises, with no host, ledger, token,      *)
(* message or crash in it: the effect happens at most once, what the       *)
(* authorization service learns of it is the truth, and once it has        *)
(* learned that there was no effect there never will be one.               *)
(***************************************************************************)
CONSTANTS Keys, Outcomes

VARIABLES
    effect,     \* per commitment: the outcome of its effect, or "none"
    known       \* per commitment: what the authorization service knows

effectVars == <<effect, known>>

EffectInit ==
    /\ effect = [k \in Keys |-> "none"]
    /\ known = [k \in Keys |-> "none"]

Do(k, outcome) ==
    /\ effect[k] = "none"
    /\ known[k] = "none"
    /\ effect' = [effect EXCEPT ![k] = outcome]
    /\ UNCHANGED known

Learn(k) ==
    /\ known[k] = "none"
    /\ known' = [known EXCEPT ![k] = IF effect[k] = "none" THEN "no-effect" ELSE effect[k]]
    /\ UNCHANGED effect

EffectNext == \E k \in Keys : Learn(k) \/ \E outcome \in Outcomes : Do(k, outcome)

EffectSpec == EffectInit /\ [][EffectNext]_effectVars
=============================================================================
