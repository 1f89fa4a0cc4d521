-------------------------------- MODULE Units --------------------------------
(***************************************************************************)
(* Sums of buffer units over finite sets.  A thing that holds f[a] units   *)
(* is expanded into the pairs <<a, 1>> .. <<a, f[a]>>, one for each unit,  *)
(* and a sum is the number of such pairs.  The code adds these numbers up  *)
(* in loops; counting them states the same sum without a recursion.        *)
(***************************************************************************)
EXTENDS Naturals, FiniteSets

UnitsOf(S, f) == UNION {{a} \X (1..f[a]) : a \in S}

Total(S, f) == Cardinality(UnitsOf(S, f))

\* Subtraction that stops at zero.
Monus(x, y) == IF x > y THEN x - y ELSE 0

AtMost(x, y) == IF x <= y THEN x ELSE y
=============================================================================
