----------------------------- MODULE MCConsole -----------------------------
\* TLC instance of Console: the search finds both environments, or none.
EXTENDS Console, TLC

CONSTANTS e1, e2, q1, q2

const_Env == {e1, e2}

const_Query == {q1, q2}

const_Matches == q1 :> {e1, e2} @@ q2 :> {}

=============================================================================
