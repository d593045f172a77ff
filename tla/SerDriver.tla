----------------------------- MODULE SerDriver -----------------------------
(***************************************************************************)
(* The serial driver from its start: modems and arbitration (SerModem),    *)
(* and then the games' packets on the line (SerLine), from the moment both *)
(* games run connected.  What comes before is the same for the parallel    *)
(* port driver without modems, whose games then use ParPort.               *)
(***************************************************************************)
EXTENDS SerModem, SerLine, ParPort

VARIABLE playing    \* both play, by "serial" or "parallel" port; "none" before

driverVars == <<allVars, lineVars, parVars, playing>>

DriverInit == ModemInit /\ LineInit /\ ParInit /\ playing = "none"

Connecting == playing = "none" /\ UNCHANGED <<lineVars, parVars, playing>>
PlayingSerial == playing = "serial" /\ UNCHANGED <<allVars, parVars, playing>>
PlayingParallel == playing = "parallel" /\ UNCHANGED <<allVars, lineVars, playing>>

\* Both games run and are connected. Nothing of modems and arbitration is used any more.
Begin ==
  /\ playing = "none" /\ \A p \in Player : phase[p] = "game"
  /\ playing' \in IF modem THEN {"serial"} ELSE {"serial", "parallel"}
  /\ old' = {} /\ phase' = [p \in Player |-> "off"] /\ localid' = [p \in Player |-> 0]
  /\ consoleplayer' = [p \in Player |-> 0] /\ stage' = [p \in Player |-> 0]
  /\ new_protocol' = [p \in Player |-> TRUE] /\ due' = [p \in Player |-> FALSE]
  /\ link' = [p \in Player |-> <<>>] /\ losses' = 0 /\ lastlost' = FALSE
  /\ modem' = FALSE /\ background' = [p \in Player |-> FALSE] /\ launched' = [p \in Player |-> -1]
  /\ expected' = [p \in Player |-> "none"] /\ command' = [p \in Player |-> "none"]
  /\ reply' = [p \in Player |-> <<>>] /\ call' = "none"
  /\ UNCHANGED <<lineVars, parVars>>

DriverNext ==
  \/ ModemNext /\ Connecting
  \/ Begin
  \/ LineNext /\ PlayingSerial
  \/ ParNext /\ PlayingParallel

\* Both drivers are started and their loops, or their games, poll; modems obey and
\* ring. Nothing is assumed of NoCarrier and Lose. In the game the UART transmits and
\* raises its interrupts, and the game keeps calling.
DriverSpec ==
  /\ DriverInit /\ [][DriverNext]_driverVars
  /\ WF_driverVars(Ring /\ Connecting)
  /\ \A p \in Player :
       /\ WF_driverVars((DirectStart(p) \/ Startup(p) \/ PollModemResponse(p) \/ ArbitrationComplete(p))
                        /\ Connecting)
       /\ WF_driverVars(Execute(p) /\ Connecting)
       /\ SF_driverVars(Second(p) /\ UNCHANGED modemVars /\ Connecting)
       /\ WF_driverVars(Poll(p, Len(link[p])) /\ UNCHANGED modemVars /\ Connecting)
  /\ WF_driverVars(TxISR /\ PlayingSerial) /\ WF_driverVars(Arrive /\ PlayingSerial)
  /\ WF_driverVars(CmdGet /\ PlayingSerial)

\* The types of the parts.
DriverTypeOK == TypeOK /\ LineTypeOK /\ ParTypeOK
=============================================================================
