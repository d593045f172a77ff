----------------------------- MODULE MCIpxSetup -----------------------------
(***************************************************************************)
(* Scenarios for IpxSetup: three machines that only discover each other,   *)
(* with different flags, and two that lose packets, are aborted, poll late *)
(* or play.                                                                *)
(***************************************************************************)
EXTENDS IpxSetup

Plain == [player |-> -1, dup |-> 1, old |-> FALSE]
OldOne == [Plain EXCEPT !.old = TRUE]
Two == [player : {-1, 1, 2}, dup : {1, 2}, old : {FALSE}]

With(f, backlog, sends, maxlosses, maxaborts) ==
  [flags |-> f, backlog |-> backlog, sends |-> sends, losses |-> maxlosses, aborts |-> maxaborts]

Three == <<[Plain EXCEPT !.dup = 2], [Plain EXCEPT !.player = 1], [Plain EXCEPT !.dup = 3]>>

MCScenarios ==
  {With(Three, 1, 0, 0, 0)}
  \cup {With(<<a, b>>, 1, 0, 1, 0) : a \in Two \cup {OldOne}, b \in Two}
  \cup {With(<<Plain, Plain>>, 1, 0, 1, 1), With(<<Plain, Plain>>, 2, 3, 0, 0)}
=============================================================================
