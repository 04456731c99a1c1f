-------------------------------- MODULE Tlv --------------------------------
(***************************************************************************)
(* TLVProtocol of src/components/net/SmartCard_USB_Bridge/test_client.py: *)
(* a packet is the tag byte, the value length as a big-endian 16-bit      *)
(* field, and the value.  Buffers and values are sequences of byte values.*)
(***************************************************************************)
EXTENDS Integers, Sequences

TAG_APDU_REQUEST    == 1
TAG_APDU_RESPONSE   == 2
TAG_ATR_DATA        == 3
TAG_RESET_SIM       == 4
TAG_STATUS_QUERY    == 7
TAG_STATUS_RESPONSE == 8
TAG_ERROR           == 9
TAG_ACK             == 10
TAG_SET_UI_INFO     == 13

(* struct.pack('>BH', tag, len(data)) + data. *)
BuildTlv(tag, data) ==
  <<tag, Len(data) \div 256, Len(data) % 256>> \o data

(* The result (None, None, 0) of parse_tlv; -1 stands for a None tag,  *)
(* which equals no byte. *)
NoPacket == [tag |-> -1, value |-> <<>>, total |-> 0]

(* Mutant: a packet is taken only once a byte beyond it has arrived. *)
ArrivedOffByOne(buffer, length) == Len(buffer) > 3 + length

(* if len(buffer) < 3 + length: return None, None, 0 *)
Arrived(buffer, length) == Len(buffer) >= 3 + length

(* parse_tlv: the first packet of buffer, once all of it has arrived. *)
ParseTlv(buffer) ==
  IF Len(buffer) < 3 THEN NoPacket
  ELSE LET length == buffer[2] * 256 + buffer[3]
       IN  IF ~Arrived(buffer, length) THEN NoPacket
           ELSE [tag   |-> buffer[1],
                 value |-> SubSeq(buffer, 4, 3 + length),
                 total |-> 3 + length]

=============================================================================
