------------------------------ MODULE ImageSpec ------------------------------
(***************************************************************************)
(* What a firmware image converter promises (spec.md sections 3 and 4.3): *)
(* the input file denotes a sequence of data records, each an absolute    *)
(* start address and the bytes stored from there; the output binary spans *)
(* exactly the lowest to the highest address any record stores a byte at, *)
(* each address holds the byte of the last record that stores one there,  *)
(* and every other address in the span holds the pad byte.  A conversion  *)
(* whose input is unreadable or malformed, whose input stores no byte at  *)
(* all, or whose destination cannot be written, creates no output file.   *)
(*                                                                         *)
(* The whole conversion is one step: no output exists before it and the   *)
(* finished image exists after it.  HexToBin and Mot2Bin are checked      *)
(* against this module through INSTANCE ... WITH.                         *)
(***************************************************************************)
EXTENDS Integers, Sequences, FiniteSetsExt

CONSTANTS
  PadByte,   \* the byte that fills addresses no record stores
  Invalid,   \* the input cannot be read as records (missing, malformed)
  NoFile     \* the output file does not exist

VARIABLES
  recs,      \* Invalid, or the data records the input denotes, in file order
  writable,  \* whether the destination path can be written
  out,       \* NoFile, or the contents of the output file
  done       \* the conversion has finished

vars == <<recs, writable, out, done>>

Record == [addr : Nat, bytes : Seq(Nat)]

(* The addresses record r stores a byte at. *)
Covered(r) == r.addr .. (r.addr + Len(r.bytes) - 1)

(* Every address some record of rs stores a byte at. *)
Span(rs) == UNION {Covered(rs[k]) : k \in DOMAIN rs}

(* The index of the last record of rs that stores a byte at address a. *)
LastWriter(rs, a) ==
  CHOOSE k \in DOMAIN rs :
    /\ a \in Covered(rs[k])
    /\ \A j \in DOMAIN rs : a \in Covered(rs[j]) => j <= k

ByteAt(rs, a) ==
  IF a \in Span(rs)
    THEN LET r == rs[LastWriter(rs, a)] IN r.bytes[a - r.addr + 1]
    ELSE PadByte

(* The flat image from the lowest to the highest stored address. *)
Image(rs) ==
  LET lo == Min(Span(rs))
      hi == Max(Span(rs))
  IN  [k \in 1 .. (hi - lo + 1) |-> ByteAt(rs, lo + k - 1)]

Convertible == recs # Invalid /\ Span(recs) # {} /\ writable

-----------------------------------------------------------------------------

Init ==
  /\ recs \in Seq(Record) \cup {Invalid}
  /\ writable \in BOOLEAN
  /\ out = NoFile
  /\ done = FALSE

Convert ==
  /\ ~done
  /\ Convertible
  /\ out' = Image(recs)
  /\ done' = TRUE
  /\ UNCHANGED <<recs, writable>>

Reject ==
  /\ ~done
  /\ ~Convertible
  /\ done' = TRUE
  /\ UNCHANGED <<recs, writable, out>>

Next == Convert \/ Reject

(* Every conversion finishes, with an output file or a diagnostic. *)
Spec == Init /\ [][Next]_vars /\ <>done

=============================================================================
