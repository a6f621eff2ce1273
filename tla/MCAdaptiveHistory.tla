------------------------- MODULE MCAdaptiveHistory -------------------------
\* A small instance of AdaptiveHistory: two prices of one scope, one of
\* them negative, and one of another.
EXTENDS AdaptiveHistory

MCQuotes == {[scope |-> "a", price |-> 1], [scope |-> "a", price |-> -1],
             [scope |-> "b", price |-> 5]}
=============================================================================
