----------------------------- MODULE MCHexToBin -----------------------------
(***************************************************************************)
(* Model-checking instance of HexToBin.  Addresses are scaled down: the   *)
(* ELA value weighs BankSize = 4 instead of 2^16 and record offsets range *)
(* over a whole bank 0..3, so records of one bank can overlap, leave gaps *)
(* and cross into the next bank.  Payload bytes are 0 and 1; the checksum *)
(* byte is written as 9 so that a checksum taken for data would show in  *)
(* the image.  Files have up to three lines.                              *)
(***************************************************************************)
EXTENDS HexToBin

Chk == 9

Rec(t, c, o, b) == [kind |-> "rec", type |-> t, count |-> c, offset |-> o, body |-> b]
NonRec(k) == [kind |-> k, type |-> 0, count |-> 0, offset |-> 0, body |-> <<>>]

(* Payloads of zero, one and two bytes; two-byte payloads are <<0, 1>>  *)
(* and <<1, 0>>, which is enough for an overlap to show which one wins. *)
Payloads == {<<>>, <<0>>, <<1>>, <<0, 1>>, <<1, 0>>}

(* Data records whose body is exactly the payload and the checksum. *)
WellFormedData ==
  { Rec(0, Len(p), o, p \o <<Chk>>) : p \in Payloads, o \in 0 .. (BankSize - 1) }

OtherLines ==
  { Rec(4, 2, 0, <<0, b, Chk>>) : b \in {0, 1} }   \* ELA to bank 0 or 1
  \cup { Rec(4, 0, 0, <<Chk>>),                     \* ELA without its bytes
         Rec(1, 0, 0, <<Chk>>),                     \* end of file
         NonRec("skip"), NonRec("bad") }

WellFormedLines == WellFormedData \cup OtherLines

(* Data records whose line stops short of its byte count. *)
TruncatedLines ==
  WellFormedLines \cup { Rec(0, 2, o, <<1>>) : o \in {0, 2} }

=============================================================================
