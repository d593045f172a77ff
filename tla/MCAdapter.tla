----------------------------- MODULE MCAdapter -----------------------------
(* Models of Adapter: nodes are numbered in different ways by each player.  *)
EXTENDS Adapter, TLC

Three == (0 :> <<0, 1, 2>>) @@ (1 :> <<1, 0, 2>>) @@ (2 :> <<2, 1, 0>>)
L(m, c, l, s, f) == [messages |-> <<m[2], m[3]>> @@ (0 :> m[1]), channel |-> c, losses |-> l, losers |-> s, found |-> f]
Limits_Three ==
  {L(<<0, 0, 0>>, 1, 1, {0}, FALSE), L(<<0, 1, 1>>, 0, 1, {1}, TRUE),
   L(<<0, 2, 1>>, 0, 0, {}, TRUE), L(<<0, 2, 0>>, 0, 1, {1}, TRUE),
   L(<<0, 3, 0>>, 0, 0, {}, TRUE)}
=============================================================================
