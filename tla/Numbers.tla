------------------------------- MODULE Numbers -------------------------------
(***************************************************************************)
(* The numbers of the reports.  A money amount or a return is an integer   *)
(* in a unit finer than its rounding; a ratio is a pair <<n, d>>, d > 0,   *)
(* until the code rounds it.                                               *)
(***************************************************************************)
EXTENDS Integers, FiniteSetsExt

\* The sum of the values of f.
SumOver(f) == MapThenSumSet(LAMBDA x : f[x], DOMAIN f)

\* round(n / d): the nearest integer, halves to even
Nearest(n, d) ==
  LET q == n \div d
      twice == 2 * (n % d)
  IN  IF twice < d \/ (twice = d /\ q % 2 = 0) THEN q ELSE q + 1

Rounded(x, unit) == Nearest(unit * x[1], x[2])

\* How far apart two amounts are.
Distance(x, y) == IF x <= y THEN y - x ELSE x - y

AtMost(x, y) == x[1] * y[2] <= y[1] * x[2]
Greatest(S) == CHOOSE x \in S : \A y \in S : AtMost(y, x)
Larger(x, y) == IF AtMost(x, y) THEN y ELSE x

\* (sum of values) / (number of values), 0 for none
Mean(total, count) == IF count = 0 THEN <<0, 1>> ELSE <<total, count>>

\* sorted(): the positions of a list in the order of their keys, those of
\* equal keys in the order given
Before(key, j, k) == key[j] < key[k] \/ (key[j] = key[k] /\ j <= k)
Place(key, k) == Cardinality({j \in DOMAIN key : Before(key, j, k)})
SortedOrder(key) ==
  LET place == [k \in DOMAIN key |-> Place(key, k)]
  IN  [k \in DOMAIN key |-> CHOOSE j \in DOMAIN key : place[j] = k]
=============================================================================
