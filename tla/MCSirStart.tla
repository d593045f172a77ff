----------------------------- MODULE MCSirStart -----------------------------
(* Models of SirStart: two machines with losses, three without. *)
EXTENDS SirStart

OnlyFlood == [n \in Node |-> {Flood}]

Flag(nodes, player, dup) == [nodes |-> nodes, player |-> player, dup |-> dup]
Of(fs, w, b, l) == [flags |-> fs, wrapped |-> w, backlog |-> b, losses |-> l]

PairSetup == Of(<<Flag(2, -1, 1), Flag(2, -1, 2)>>, {}, 1, 1)
SomeSetups ==
  {PairSetup, Of(<<Flag(2, -1, 2), Flag(2, 1, 1)>>, {1}, 1, 1),
   Of(<<Flag(2, 2, 1), Flag(2, 2, 1)>>, {}, 1, 0),
   Of(<<Flag(2, -1, 1), Flag(3, 1, 2), Flag(3, -1, 1)>>, {}, 0, 0)}
JustPair == {PairSetup}

=============================================================================
