------------------------ MODULE BindingBookRefinement ------------------------
(***************************************************************************)
(* AuthorizationCore implements BindingBook: the book of a proposal is     *)
(* read off the commitment of the ruling it was bound by.                  *)
(***************************************************************************)
EXTENDS AuthorizationCore

BindingRulings(p) ==
    {r \in RulingIds : /\ world.commitments[r].state # "none"
                       /\ world.rulings[r].proposal = p}

BookState(commitment) ==
    IF commitment.state \in {"bound", "unknown"} THEN "pending"
    ELSE IF commitment.outcome = "no-effect" THEN "no effect" ELSE "effect"

BookEntry(p) ==
    LET r == CHOOSE r \in BindingRulings(p) : TRUE
    IN  IF BindingRulings(p) = {} THEN [state |-> "unbound"]
        ELSE [state |-> BookState(world.commitments[r]),
              mandate |-> world.rulings[r].mandate,
              day |-> Day(world.rulings[r].issuedAt)]

Authority(m) ==
    IF world.mandates[m].status = "none"
    THEN [inForce |-> FALSE, expiresAt |-> 0, limits |-> [c \in Counters |-> 0]]
    ELSE [inForce |-> world.mandates[m].status = "active",
          expiresAt |-> world.mandates[m].expiresAt,
          limits |-> world.mandates[m].limits]

Book == INSTANCE BindingBook WITH
    DayOf <- Day,
    clock <- now,
    authority <- [m \in Mandates |-> Authority(m)],
    book <- [p \in Proposals |-> BookEntry(p)]

\* Every step of the authorization core is a step of the book or leaves it
\* alone: no interleaving of rulings, overrides, amendments, late outcomes and
\* policy reloads binds a proposal twice, binds without authority, or binds
\* beyond a ceiling, although the ceilings are checked against reservations.
ImplementsBook == Book!BookSpec
=============================================================================
