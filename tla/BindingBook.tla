----------------------------- MODULE BindingBook -----------------------------
(***************************************************************************)
(* What the authorization core promises about binding commitments, with no *)
(* ruling, nonce, reservation or escalation in it: an action of a proposal *)
(* is bound at most once, only while its mandate is in force and only      *)
(* within the ceilings that hold at that moment, counted over everything   *)
(* bound that is not proven to have had no effect; an outcome, once known, *)
(* is final.  AuthorizationCore is checked to implement this module.       *)
(***************************************************************************)
EXTENDS Naturals, FiniteSetsExt

CONSTANTS Mandates, Proposals, Counters, Delta(_, _), DayOf(_)

VARIABLES
    clock,      \* the clock of the authorization service
    authority,  \* per mandate: whether it is in force, until when, and its ceilings
    book        \* per proposal: what is bound

bookVars == <<clock, authority, book>>

NoAuthority == [inForce |-> FALSE, expiresAt |-> 0, limits |-> [c \in Counters |-> 0]]
Unbound == [state |-> "unbound"]

\* Everything bound under a mandate that may have had an effect; the actions
\* counter is per day of the booking.
Spent(m, c, day) ==
    MapThenSumSet(LAMBDA p : Delta(p, c),
        {p \in Proposals : /\ book[p].state \in {"pending", "effect"}
                           /\ book[p].mandate = m
                           /\ c = "actions" => book[p].day = day})

BookInit ==
    /\ clock = 0
    /\ authority = [m \in Mandates |-> NoAuthority]
    /\ book = [p \in Proposals |-> Unbound]

AdvanceClock == clock' = clock + 1 /\ UNCHANGED <<authority, book>>

\* Principals grant, amend and revoke; patterns and expiry end.
ChangeAuthority == authority' # authority /\ UNCHANGED <<clock, book>>

Bind(p, m, day) ==
    /\ book[p].state = "unbound"
    /\ authority[m].inForce
    /\ clock <= authority[m].expiresAt
    /\ day <= DayOf(clock)
    /\ \A c \in Counters : Spent(m, c, day) + Delta(p, c) <= authority[m].limits[c]
    /\ book' = [book EXCEPT ![p] = [state |-> "pending", mandate |-> m, day |-> day]]
    /\ UNCHANGED <<clock, authority>>

Learn(p, outcome) ==
    /\ book[p].state = "pending"
    /\ book' = [book EXCEPT ![p].state = outcome]
    /\ UNCHANGED <<clock, authority>>

BookNext ==
    \/ AdvanceClock
    \/ ChangeAuthority
    \/ \E p \in Proposals :
        \/ \E m \in Mandates, day \in 0..DayOf(clock) : Bind(p, m, day)
        \/ \E outcome \in {"effect", "no effect"} : Learn(p, outcome)

BookSpec == BookInit /\ [][BookNext]_bookVars
=============================================================================
