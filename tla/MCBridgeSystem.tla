--------------------------- MODULE MCBridgeSystem ---------------------------
(***************************************************************************)
(* main's test sequence (test_client.py lines 354-420) and the answers a  *)
(* bridge device may give to each command.                                *)
(***************************************************************************)
EXTENDS BridgeSystem

Status == [tag |-> TAG_STATUS_QUERY, expect |-> TAG_STATUS_RESPONSE]
Led     == [tag |-> TAG_SET_UI_INFO,  expect |-> TAG_ACK]
Reset   == [tag |-> TAG_RESET_SIM,    expect |-> TAG_ATR_DATA]
Apdu    == [tag |-> TAG_APDU_REQUEST, expect |-> TAG_APDU_RESPONSE]

(* query_status, LED blue, LED yellow, reset_sim, query_status, four     *)
(* APDUs, query_status, LED green.                                       *)
MainScript ==
  <<Status, Led, Led, Reset, Status, Apdu, Apdu, Apdu, Apdu, Status, Led>>

MainResetStep == 4

(* The LED byte set_ui_led sends, which the ACK may echo. *)
LedByte == (2 :> 4) @@ (3 :> 3) @@ (11 :> 1)

NoCard == [tag |-> TAG_ERROR, value |-> <<4>>]

MainReplies ==
  [k \in DOMAIN MainScript |->
     CASE MainScript[k] = Status -> {[tag |-> TAG_STATUS_RESPONSE, value |-> <<1, 1>>]}
       [] MainScript[k] = Led    -> {[tag |-> TAG_ACK, value |-> <<LedByte[k]>>],
                                     [tag |-> TAG_ACK, value |-> <<>>]}
       [] MainScript[k] = Reset  -> {[tag |-> TAG_ATR_DATA, value |-> <<0, 59>>],
                                     [tag |-> TAG_ATR_DATA, value |-> <<0>>], NoCard}
       [] MainScript[k] = Apdu   -> {[tag |-> TAG_APDU_RESPONSE, value |-> <<144, 0>>],
                                     NoCard}]

=============================================================================
