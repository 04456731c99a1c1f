---------------------------- MODULE BridgeSystem ----------------------------
(***************************************************************************)
(* The SmartCard bridge test client of                                    *)
(* src/components/net/SmartCard_USB_Bridge/test_client.py, composed with  *)
(* the bridge device and the serial line between them.                    *)
(*                                                                         *)
(* Client: main connects, then runs its fixed sequence of commands.  Each *)
(* helper (query_status, set_ui_led, reset_sim, send_apdu) calls          *)
(* send_command and then receive_response, which starts from an empty     *)
(* local buffer and, until the timeout, polls in_waiting, appends what    *)
(* it reads, parses one packet, and returns its value (expected tag),     *)
(* None (TAG_ERROR), or drops it and polls on; each turn ends with a      *)
(* sleep.  main stops early when reset_sim yields no ATR, and its finally *)
(* clause closes the port.  Time is counted in turns of the polling loop; *)
(* the timeout is Timeout turns.                                          *)
(*                                                                         *)
(* Device and line (not in this repository, so only an environment): the *)
(* device takes the commands in order and answers each with one of the    *)
(* packets Replies allows, or not at all; the line delivers the answer    *)
(* bytes in order, in chunks of any size.  When Late is FALSE the device  *)
(* answers within the timeout: the client's clock does not reach the      *)
(* deadline while the device still owes bytes.                            *)
(***************************************************************************)
EXTENDS Integers, Sequences, TLC, Tlv

CONSTANTS
  Script,     \* main's commands in order: [tag, expect] records
  ResetStep,  \* the index of reset_sim in Script
  Replies,    \* Replies[k]: the [tag, value] packets the device may answer k with
  Timeout,    \* self.timeout, in turns of the polling loop
  Late,       \* whether the device may answer after the client's timeout
  None        \* Python's None

ASSUME Timeout \in Nat \ {0}
ASSUME ResetStep \in DOMAIN Script

VARIABLES
  pc,         \* where main is
  cmd,        \* the index in Script of the current command
  buffer,     \* receive_response's local buffer
  t,          \* turns of the polling loop since start_time
  ret,        \* the value receive_response returned
  port_open,  \* self.ser.is_open
  tx,         \* commands written to the port, not yet taken by the device
  pending,    \* answer bytes the device has written, still on the line
  rx,         \* bytes arrived at the port, not yet read (in_waiting)
  answers     \* history: the packet the device answered each command with

client == <<pc, cmd, buffer, t, ret, port_open>>
line == <<tx, pending, rx>>
vars == <<pc, cmd, buffer, t, ret, port_open, tx, pending, rx, answers>>

Expect == Script[cmd].expect

(* The device still has bytes to deliver for commands already sent. *)
Owed == tx # <<>> \/ pending # <<>> \/ rx # <<>>

(* time.sleep(0.01) may take the loop to the deadline. *)
CanTick == Late \/ t + 1 < Timeout \/ ~Owed

-----------------------------------------------------------------------------

Init ==
  /\ pc = "connect"
  /\ cmd = 1
  /\ buffer = <<>>
  /\ t = 0
  /\ ret = None
  /\ port_open = FALSE
  /\ tx = <<>>
  /\ pending = <<>>
  /\ rx = <<>>
  /\ answers = <<>>

(* bridge.connect(): the port opens, or main returns at once. *)
Connect ==
  /\ pc = "connect"
  /\ \/ port_open' = TRUE /\ pc' = "send"
     \/ pc' = "exit" /\ UNCHANGED port_open
  /\ UNCHANGED <<cmd, buffer, t, ret, line, answers>>

(* send_command writes the packet; receive_response starts its loop. *)
Send ==
  /\ pc = "send"
  /\ tx' = Append(tx, cmd)
  /\ buffer' = <<>>
  /\ t' = 0
  /\ pc' = "recv"
  /\ UNCHANGED <<cmd, ret, port_open, pending, rx, answers>>

(* Mutant: the while loop never looks at the clock. *)
PollingNoDeadline == pc = "recv"

(* while (time.time() - start_time) < self.timeout *)
Polling == pc = "recv" /\ t < Timeout

(* in_waiting > 0: read everything, parse the first packet of the buffer. *)
Read ==
  /\ Polling /\ rx # <<>>
  /\ rx' = <<>>
  /\ LET buf == buffer \o rx
         p   == ParseTlv(buf)
     IN  CASE p.tag = TAG_ERROR ->
                ret' = None /\ pc' = "handle" /\ UNCHANGED <<buffer, t>>
           [] p.tag = Expect ->
                ret' = p.value /\ pc' = "handle" /\ UNCHANGED <<buffer, t>>
           [] OTHER ->
                /\ CanTick
                /\ buffer' = IF p = NoPacket THEN buf
                             ELSE SubSeq(buf, p.total + 1, Len(buf))
                /\ t' = t + 1
                /\ UNCHANGED <<ret, pc>>
  /\ UNCHANGED <<cmd, port_open, tx, pending, answers>>

(* Nothing waiting: sleep one turn. *)
Idle ==
  /\ Polling /\ rx = <<>>
  /\ CanTick
  /\ t' = t + 1
  /\ UNCHANGED <<pc, cmd, buffer, ret, port_open, line, answers>>

(* The while condition fails: "Timeout waiting for response". *)
Expire ==
  /\ pc = "recv" /\ t = Timeout
  /\ ret' = None
  /\ pc' = "handle"
  /\ UNCHANGED <<cmd, buffer, t, port_open, line, answers>>

(* reset_sim's ATR is atr_data[1:], and main needs it non-empty. *)
AtrMissing == ret = None \/ Len(ret) < 2

(* Mutant: main goes on after a reset without ATR. *)
StopsNoAtrCheck == cmd = Len(Script)

(* main returns: "Cannot continue without ATR", or all tests completed. *)
Stops == (cmd = ResetStep /\ AtrMissing) \/ cmd = Len(Script)

(* The helper returns to main, which goes on with its next command or   *)
(* leaves the try block.                                                *)
Handle ==
  /\ pc = "handle"
  /\ IF Stops
       THEN pc' = "close" /\ UNCHANGED cmd
       ELSE pc' = "send" /\ cmd' = cmd + 1
  /\ UNCHANGED <<buffer, t, ret, port_open, line, answers>>

(* finally: bridge.disconnect() closes the open port. *)
Close ==
  /\ pc = "close"
  /\ port_open' = FALSE
  /\ pc' = "exit"
  /\ UNCHANGED <<cmd, buffer, t, ret, line, answers>>

(* ser.write or ser.read raises (the device is unplugged): main's       *)
(* except Exception reports it and the finally clause runs.             *)
PortError ==
  /\ pc \in {"send", "recv"}
  /\ pc' = "close"
  /\ UNCHANGED <<cmd, buffer, t, ret, port_open, line, answers>>

ClientStep ==
  Connect \/ Send \/ Read \/ Idle \/ Expire \/ Handle \/ PortError \/ Close

-----------------------------------------------------------------------------
(* The device and the line. *)

Respond ==
  /\ tx # <<>>
  /\ \E r \in Replies[Head(tx)] :
       /\ pending' = pending \o BuildTlv(r.tag, r.value)
       /\ answers' = (Head(tx) :> r) @@ answers
  /\ tx' = Tail(tx)
  /\ UNCHANGED <<client, rx>>

Ignore ==
  /\ tx # <<>>
  /\ tx' = Tail(tx)
  /\ UNCHANGED <<client, pending, rx, answers>>

Arrive ==
  /\ pending # <<>>
  /\ \E n \in 1 .. Len(pending) :
       /\ rx' = rx \o SubSeq(pending, 1, n)
       /\ pending' = SubSeq(pending, n + 1, Len(pending))
  /\ UNCHANGED <<client, tx, answers>>

DeviceStep == Respond \/ Ignore \/ Arrive

Next == ClientStep \/ DeviceStep

(* The client loop never blocks, and the device and the line go on       *)
(* delivering what they hold.                                            *)
Fairness == WF_vars(ClientStep) /\ WF_vars(DeviceStep)

Spec == Init /\ [][Next]_vars /\ Fairness

-----------------------------------------------------------------------------
(* Reference framing: the tags of the complete packets buffer holds,     *)
(* read one after the other from its start.                              *)
RECURSIVE FrameTags(_)
FrameTags(buf) ==
  IF Len(buf) < 3 THEN {}
  ELSE LET n == 3 + buf[2] * 256 + buf[3]
       IN  IF Len(buf) < n THEN {}
           ELSE {buf[1]} \cup FrameTags(SubSeq(buf, n + 1, Len(buf)))

-----------------------------------------------------------------------------

TypeOK ==
  /\ pc \in {"connect", "send", "recv", "handle", "close", "exit"}
  /\ cmd \in DOMAIN Script
  /\ buffer \in Seq(0 .. 255)
  /\ t \in 0 .. Timeout
  /\ ret \in Seq(0 .. 255) \cup {None}
  /\ port_open \in BOOLEAN
  /\ tx \in Seq(DOMAIN Script)
  /\ pending \in Seq(0 .. 255)
  /\ rx \in Seq(0 .. 255)

(* receive_response returns a value only when it is the value of the     *)
(* device's answer to the command just sent, with the tag that command   *)
(* expects, whatever chunks the answer arrived in.                       *)
ResultAnswersItsCommand ==
  pc = "handle" /\ ret # None =>
    /\ cmd \in DOMAIN answers
    /\ answers[cmd].tag = Expect
    /\ ret = answers[cmd].value

(* The loop times out only when its buffer holds no complete packet with *)
(* the expected tag or TAG_ERROR: an answer that has been read is never  *)
(* left unparsed until the deadline.                                     *)
TimedOutWithoutAnswer ==
  pc = "recv" /\ t = Timeout => FrameTags(buffer) \cap {Expect, TAG_ERROR} = {}

(* The client as a sequence of remote calls (BridgeRpc).                  *)
Phase ==
  CASE pc = "connect"          -> "start"
    [] pc \in {"send", "recv"} -> "call"
    [] pc = "handle"           -> "returned"
    [] pc = "close"            -> "closing"
    [] pc = "exit"             -> "closed"

Rpc == INSTANCE BridgeRpc WITH
  phase <- Phase, pos <- cmd, ret <- ret, answers <- answers, open <- port_open

(* With a device that answers in time, main implements BridgeRpc: its    *)
(* calls complete in script order, each with the value of the answer to  *)
(* that command exactly when the answer has the expected tag, it stops   *)
(* after a reset without ATR, and it always ends with the port closed,   *)
(* also after a serial error (the finally clause).                      *)
ImplementsBridgeRpc == Rpc!Spec

=============================================================================
