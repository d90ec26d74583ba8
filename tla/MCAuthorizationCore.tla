------------------------ MODULE MCAuthorizationCore ------------------------
EXTENDS AuthorizationProperties, BindingBookRefinement, TLC

P(action, revision, cost) == [action |-> action, revision |-> revision, cost |-> cost]
Limits(actions, amount) == ("actions" :> actions) @@ ("amount" :> amount)

OneAction == {P("pay", 1, 1), P("pay", 2, 1)}
OnePayment == {P("pay", 1, 1)}
TwoActions == {P("pay", 1, 2), P("file", 1, 1)}
ThreeActions == {P("pay", 1, 2), P("file", 1, 1), P("file", 2, 0)}
OneLimit == {Limits(5, 5)}
TightLimits == {Limits(1, 3), Limits(2, 2)}
=============================================================================
