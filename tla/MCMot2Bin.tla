----------------------------- MODULE MCMot2Bin ------------------------------
(***************************************************************************)
(* Model-checking instance of Mot2Bin.  Data lines are S1 lines at small  *)
(* addresses with a byte count that matches them; their checksum either   *)
(* verifies or is off by one.  A payload byte 0xFF makes the checksum sum *)
(* exceed one byte, so the low-byte mask of the code matters.             *)
(***************************************************************************)
EXTENDS Mot2Bin

(* An S-record line; the checksum is the ones' complement of the byte   *)
(* sum of count, address and data, or that plus one.                     *)
SRec(t, a, d, good) ==
  LET c  == 2 + Len(d) + 1
      ok == 255 - ((c + ByteSum(a) + SumBytes(d)) % 256)
  IN  [kind |-> "rec", type |-> t, count |-> c, addr |-> a, data |-> d,
       cs |-> IF good THEN ok ELSE (ok + 1) % 256]

NonRec(k) == [kind |-> k, type |-> "", count |-> 0, addr |-> 0, data |-> <<>>, cs |-> 0]

(* Lines of every kind the parser tells apart. *)
ChecksumLines ==
  { SRec("1", a, d, g) : a \in {0, 2}, d \in {<<>>, <<0>>, <<255>>, <<0, 255>>},
                         g \in BOOLEAN }
  \cup { [SRec("1", 0, <<>>, TRUE) EXCEPT !.type = "0"],   \* S0 header
         [SRec("1", 0, <<>>, TRUE) EXCEPT !.type = "6"],   \* no branch takes S6
         NonRec("skip"), NonRec("bad") }

(* Verified data lines only: one- and two-byte records. *)
SpanLines ==
  { SRec("1", a, d, TRUE) : a \in {0, 2}, d \in {<<0>>, <<1, 0>>} }

(* Verified one-byte records, which leave a gap between them. *)
PadLines ==
  { SRec("1", a, d, TRUE) : a \in {0, 2}, d \in {<<0>>, <<1>>} }

(* A verified record without data below a verified one-byte record. *)
EmptyRecordLines ==
  { SRec("1", 0, <<>>, TRUE), SRec("1", 2, <<1>>, TRUE) }

============================================================================
