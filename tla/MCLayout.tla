------------------------------ MODULE MCLayout ------------------------------
(***************************************************************************)
(* Stores of four vectors on a line, in two shards that share nothing or    *)
(* everything, in three that overlap, or unsharded; a store of two; none.   *)
(***************************************************************************)
EXTENDS Layout

MCCorpora == {<< >>, << <<0>>, <<12>> >>, << <<12>>, <<60>>, <<36>>, <<0>> >>}
MCShardings == {[shards |-> 1, soft |-> 1], [shards |-> 2, soft |-> 0],
                [shards |-> 3, soft |-> 2]}
MCCallerOrders == {<<2, 1>>, <<1, 1>>, <<1, 3>>, <<2, 4, 1, 3>>, <<1, 2, 4, 4>>}

Last(S) == CHOOSE n \in S : \A m \in S : m =< n

\* Levels: of one or two nodes any up to 2; of more, the first or the last may draw 1.
Draws(S) == IF Cardinality(S) =< 2 THEN [S -> 0 .. 2]
            ELSE {[n \in S |-> IF n = up THEN 1 ELSE 0] : up \in {0, First(S), Last(S)}}

\* Layer 0: every node links one other, and perhaps all that link it.
OneLink(S) == IF Cardinality(S) = 1 THEN {[n \in S |-> {}]}
              ELSE {[n \in S |-> {f[n]}] : f \in {f \in [S -> S] : \A n \in S : f[n] # n}}

BothWays(S) == {[n \in S |-> a[n] \cup {m \in S : n \in a[m]}] : a \in OneLink(S)}

\* Above: all nodes of a layer link the first, and the first links the last of them.
Above(S, l, h) ==
  LET high == {n \in S : l[n] >= h} \ {First(S)}
  IN [n \in S |-> IF n \in high THEN {First(S)}
                  ELSE IF n = First(S) /\ high # {} THEN {Last(high)} ELSE {}]

\* Of these the specification takes those that a build may leave.
GraphsOver(S, lows) ==
  {[level |-> l, top |-> t,
    adj |-> [h \in 0 .. t |-> IF h = 0 THEN low ELSE Above(S, l, h)]] :
     l \in Draws(S), low \in lows, t \in 0 .. 2}

MCGraphs(S) == GraphsOver(S, OneLink(S) \cup BothWays(S))
=============================================================================
