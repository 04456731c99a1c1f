------------------------------ MODULE BridgeRpc ------------------------------
(***************************************************************************)
(* What main of test_client.py promises when the bridge device answers    *)
(* within the client's timeout: a remote call per command, in script      *)
(* order, each yielding the value of the device's answer to that very     *)
(* command when the answer has the expected tag, and None otherwise (an   *)
(* error packet, a wrong tag, no answer).  main stops after a reset that  *)
(* yields no ATR, after the last command, or when the port fails, and it  *)
(* always ends with the port closed.                                      *)
(*                                                                         *)
(* Bytes, chunks, buffers and the polling clock do not appear: a call     *)
(* completes in one step.  BridgeSystem is checked against this module    *)
(* through INSTANCE ... WITH.                                             *)
(***************************************************************************)
EXTENDS Integers, Sequences, TLC

CONSTANTS
  Script,     \* the commands in order: [tag, expect] records
  ResetStep,  \* the index of the reset command in Script
  Replies,    \* Replies[k]: the packets the device may answer command k with
  None

VARIABLES
  phase,      \* "start", "call", "returned", "closing", "closed"
  pos,        \* the index in Script of the current call
  ret,        \* the result of the last completed call
  answers,    \* the packet the device answered each command with
  open        \* whether the port is open

vars == <<phase, pos, ret, answers, open>>

(* The result a call of command k must have. *)
Verdict(k) ==
  IF k \in DOMAIN answers /\ answers[k].tag = Script[k].expect
    THEN answers[k].value
    ELSE None

(* The reset produced no ATR: no value, or only the protocol byte. *)
NoAtr(r) == r = None \/ Len(r) < 2

-----------------------------------------------------------------------------

Init ==
  /\ phase = "start"
  /\ pos = 1
  /\ ret = None
  /\ answers = <<>>
  /\ open = FALSE

(* The port opens, or main gives up at once. *)
Open ==
  /\ phase = "start"
  /\ \/ phase' = "call" /\ open' = TRUE
     \/ phase' = "closed" /\ UNCHANGED open
  /\ UNCHANGED <<pos, ret, answers>>

(* The device answers the current command, once. *)
Answer ==
  /\ phase \in {"call", "closing", "closed"}
  /\ pos \notin DOMAIN answers
  /\ \E r \in Replies[pos] : answers' = (pos :> r) @@ answers
  /\ UNCHANGED <<phase, pos, ret, open>>

Complete ==
  /\ phase = "call"
  /\ ret' = Verdict(pos)
  /\ phase' = "returned"
  /\ UNCHANGED <<pos, answers, open>>

Advance ==
  /\ phase = "returned"
  /\ IF (pos = ResetStep /\ NoAtr(ret)) \/ pos = Len(Script)
       THEN phase' = "closing" /\ UNCHANGED pos
       ELSE phase' = "call" /\ pos' = pos + 1
  /\ UNCHANGED <<ret, answers, open>>

(* The port fails during a call. *)
Abort ==
  /\ phase = "call"
  /\ phase' = "closing"
  /\ UNCHANGED <<pos, ret, answers, open>>

Close ==
  /\ phase = "closing"
  /\ phase' = "closed"
  /\ open' = FALSE
  /\ UNCHANGED <<pos, ret, answers>>

Next == Open \/ Answer \/ Complete \/ Advance \/ Abort \/ Close

(* Every run of main ends. *)
Spec == Init /\ [][Next]_vars /\ <>(phase = "closed")

=============================================================================
