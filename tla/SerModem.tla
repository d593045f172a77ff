------------------------------ MODULE SerModem ------------------------------
(***************************************************************************)
(* How the serial driver (net/sersetup.c) gets a connection: on a direct   *)
(* line it arbitrates at once (module SerArb); with modems one driver      *)
(* dials and the other answers, each following a script of commands and    *)
(* expected responses in an event loop.  With -bg the game is launched     *)
(* before there is a connection, and its calls run the event loop.         *)
(*                                                                         *)
(* External: the modems.  One carries a command out when it has got it,    *)
(* rings while it is called, and may give up a call.                       *)
(***************************************************************************)
EXTENDS SerArb, SequencesExt

Dialer == 0
Answerer == 1

VARIABLES
  modem,       \* the players have modems
  background,  \* background[p]: -bg
  expected,    \* modemresp.expected_response, "none" when the event loop has no such poll_func
  command,     \* command[p]: what has been sent to p's modem, "none" when it is done
  reply,       \* reply[p]: lines of p's modem that have not been read
  call,        \* "none", "ringing", "up", "failed"
  launched     \* launched[p]: the player number p's game was launched with, -1 before

modemVars == <<modem, background, expected, command, reply, call, launched>>
arbVars == vars
allVars == <<arbVars, modemVars>>

\* SetBackgroundPlayer: with -bg one of -player1 and -player2 is set.
ModemInit ==
  /\ Init
  /\ modem \in BOOLEAN /\ background \in [Player -> BOOLEAN]
  /\ modem => old = {}
  /\ \A p \in Player : background[p] => modem /\ localid[p] \in {ForcedFirst, ForcedSecond}
  /\ expected = [p \in Player |-> "none"] /\ command = [p \in Player |-> "none"]
  /\ reply = [p \in Player |-> <<>>]
  /\ call = "none"
  /\ launched = [p \in Player |-> -1]

-----------------------------------------------------------------------------
(***************************************************************************)
(* The modems and the telephone line between them.                         *)
(***************************************************************************)

\* A modem carries out the startup string, ATDT or ATA.
Execute(p) ==
  /\ command[p] # "none"
  /\ command' = [command EXCEPT ![p] = "none"]
  /\ CASE command[p] = "startup" ->
            reply' = [reply EXCEPT ![p] = Append(@, "OK")] /\ UNCHANGED <<phase, call>>
       [] command[p] = "dial" ->
            call' = "ringing" /\ UNCHANGED <<phase, reply>>
       [] command[p] = "answer" /\ call = "ringing" ->
            /\ call' = "up"
            /\ reply' = [q \in Player |-> Append(reply[q], "CONNECT")]
            /\ phase' = [q \in Player |-> "connected"]
       [] OTHER ->
            reply' = [reply EXCEPT ![p] = Append(@, "NO_CARRIER")] /\ UNCHANGED <<phase, call>>
  /\ UNCHANGED <<old, localid, consoleplayer, stage, new_protocol, due, link, losses, lastlost,
                 modem, background, expected, launched>>

\* It rings, again and again; the bound is one RING that has not been read.
Ring ==
  /\ call = "ringing" /\ ~Contains(reply[Answerer], "RING")
  /\ reply' = [reply EXCEPT ![Answerer] = Append(@, "RING")]
  /\ UNCHANGED <<arbVars, modem, background, expected, command, call, launched>>

\* The calling modem has waited too long for an answer.
NoCarrier ==
  /\ call = "ringing"
  /\ call' = "failed"
  /\ reply' = [reply EXCEPT ![Dialer] = Append(@, "NO_CARRIER")]
  /\ UNCHANGED <<arbVars, modem, background, expected, command, launched>>

-----------------------------------------------------------------------------
(***************************************************************************)
(* net/sersetup.c                                                          *)
(***************************************************************************)

\* Dial and Answer begin: ModemCommand(startup), ModemResponse("OK").
Startup(p) ==
  /\ modem /\ phase[p] = "off" /\ expected[p] = "none" /\ launched[p] = -1
  /\ command' = [command EXCEPT ![p] = "startup"]
  /\ expected' = [expected EXCEPT ![p] = "OK"]
  /\ UNCHANGED <<arbVars, modem, background, reply, call, launched>>

\* Mutant: the flags are the other way round.
BackgroundPlayer_Swapped(p) == IF localid[p] = ForcedFirst THEN 1 ELSE 0

\* SetBackgroundPlayer: the number the game is launched with.
BackgroundPlayer(p) == IF localid[p] = ForcedFirst THEN 0 ELSE 1

\* OK: Dial dials and expects CONNECT, Answer expects RING. With -bg, main goes on
\* and launches the game.
ReadyModem(p) ==
  /\ expected' = [expected EXCEPT ![p] = IF p = Dialer THEN "CONNECT" ELSE "RING"]
  /\ command' = [command EXCEPT ![p] = IF p = Dialer THEN "dial" ELSE @]
  /\ launched' = [launched EXCEPT ![p] = IF background[p] THEN BackgroundPlayer(p) ELSE @]
  /\ UNCHANGED arbVars

\* RingDetected.
RingDetected(p) ==
  /\ expected' = [expected EXCEPT ![p] = "CONNECT"]
  /\ command' = [command EXCEPT ![p] = "answer"]
  /\ UNCHANGED <<arbVars, launched>>

\* Connected.
Connected(p) ==
  /\ StartArbitratePlayers(p)
  /\ expected' = [expected EXCEPT ![p] = "none"]
  /\ UNCHANGED <<command, launched>>

\* The response is the one that is expected.
Completes(p, line) == line = expected[p]

\* PollModemResponse, by main's event loop or by the game's call (ISRCallback): it
\* reads lines up to the one that is expected, and throws the others away.
PollModemResponse(p) ==
  /\ expected[p] # "none" /\ reply[p] # <<>>
  /\ LET complete == {i \in DOMAIN reply[p] : Completes(p, reply[p][i])}
     IN IF complete = {}
          THEN /\ reply' = [reply EXCEPT ![p] = <<>>]
               /\ UNCHANGED <<arbVars, expected, command, launched>>
          ELSE /\ \E i \in complete : /\ \A j \in complete : i <= j
                                      /\ reply' = [reply EXCEPT ![p] = SubSeq(@, i + 1, Len(@))]
               /\ CASE expected[p] = "OK" -> ReadyModem(p)
                    [] expected[p] = "RING" -> RingDetected(p)
                    [] expected[p] = "CONNECT" -> Connected(p)
  /\ UNCHANGED <<modem, background, call>>

\* ArbitrationComplete, or the end of main: the game is launched, unless it runs
\* already.
ArbitrationComplete(p) ==
  /\ Complete(p)
  /\ launched' = [launched EXCEPT ![p] = IF background[p] THEN @ ELSE consoleplayer[p]]
  /\ UNCHANGED <<modem, background, expected, command, reply, call>>

\* PollArbitratePlayers, from ArbitratePlayers, the event loop or the game's calls.
DirectStart(p) == ~modem /\ Start(p) /\ UNCHANGED modemVars
Arbitration(p) ==
  /\ \/ Second(p) \/ Lose(p)
     \/ \E n \in 0 .. Len(link[p]) : Poll(p, n)
  /\ UNCHANGED modemVars

ModemNext ==
  \/ \E p \in Player : \/ DirectStart(p) \/ Startup(p) \/ Execute(p) \/ PollModemResponse(p)
                       \/ Arbitration(p) \/ ArbitrationComplete(p)
  \/ Ring \/ NoCarrier

-----------------------------------------------------------------------------
(***************************************************************************)
(* Properties.                                                             *)
(***************************************************************************)

\* A game is launched when the other side has heard of it, with the player number that the
\* two sides agree on, also "in background mode", when "we must set doomcom.consoleplayer
\* before launching the game" (net/sersetup.c:402), long before they do.
LaunchesAsAgreed ==
  /\ LaunchesTogether
  /\ \A p \in Player : phase[p] = "game" => launched[p] = consoleplayer[p]

\* Both players get into the game, also when RING came before OK, unless the call or
\* the last packet of arbitration fails.
ModemsConnect ==
  <>(\/ \A p \in Player : phase[p] = "game"
     \/ lastlost \/ call = "failed"
     \/ old = {} /\ localid[0] = localid[1])
=============================================================================
