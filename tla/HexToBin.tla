------------------------------ MODULE HexToBin ------------------------------
(***************************************************************************)
(* hex_to_bin of src/utils/script/hex2bin.py: converts an Intel HEX file  *)
(* to a raw binary in two passes over the input.  Pass 1 tracks the       *)
(* Extended Linear Address base and folds every data record into the      *)
(* lowest and highest address; the buffer is then allocated full of the   *)
(* pad byte; pass 2 restarts the base at 0 and writes every data record's *)
(* payload into the buffer with a slice assignment; finally the output    *)
(* file is opened and the buffer written.  Any exception ends the run     *)
(* with a diagnostic and no output file.                                  *)
(*                                                                         *)
(* A line of the file is a record                                         *)
(*   [kind |-> "rec", type, count, offset, body]                          *)
(* where count, offset and type are the header bytes data[0], data[1..2], *)
(* data[3] and body is data[4:], the payload followed by the checksum as  *)
(* the line spells them (a truncated line has a shorter body).  A line    *)
(* that is blank or does not start with ':' has kind "skip"; one that     *)
(* bytes.fromhex rejects, or that is shorter than the four header bytes,  *)
(* has kind "bad".                                                        *)
(***************************************************************************)
EXTENDS Integers, Sequences, SequencesExt, FiniteSetsExt

CONSTANTS
  PadByte,   \* pad_byte: 0xFF at the command line
  BankSize,  \* 2^16 in the code: the weight of the ELA value in an address
  Lines,     \* the lines an input file is made of
  MaxLines,  \* the longest input file considered
  Inf,       \* float('inf'), the initial lowest_address
  Missing,   \* the input path does not exist
  Invalid,   \* the input denotes no record sequence (for the refinement)
  NoFile     \* the output file does not exist

ASSUME BankSize \in Nat \ {0}
ASSUME MaxLines \in Nat

VARIABLES
  file,             \* the input file: a sequence of Lines, or Missing
  writable,         \* whether bin_file can be opened for writing
  pc,               \* where hex_to_bin is
  line,             \* index of the next line of the current pass
  base_address,
  lowest_address,
  highest_address,
  memory,
  outfile           \* NoFile, or the bytes written to bin_file

env   == <<file, writable>>
range == <<lowest_address, highest_address>>
vars  == <<env, pc, line, base_address, range, memory, outfile>>

Inputs == BoundedSeq(Lines, MaxLines) \cup {Missing}

Cur == file[line]

IsData(l)   == l.kind = "rec" /\ l.type = 0
IsExtAddr(l) == l.kind = "rec" /\ l.type = 4
IsOther(l)  == l.kind = "rec" /\ l.type \notin {0, 4}

(* Mutant: data[4:], the checksum byte taken along with the payload. *)
PayloadWithChecksum(l) == l.body

(* data[4:4 + byte_count]: at most count bytes of the body. *)
Payload(l) == SubSeq(l.body, 1, Min({l.count, Len(l.body)}))

(* (data[4] << 24) | (data[5] << 16); an IndexError below two bytes. *)
HasExtAddr(l) == Len(l.body) >= 2
ExtAddrBase(l) == (l.body[1] * 256 + l.body[2]) * BankSize

(* m[p:q] = s, with Python's normalisation of the slice bounds. *)
SliceAssign(m, p, q, s) ==
  LET n == Len(m)
      Clamp(i) == IF i < 0 THEN Max({0, i + n}) ELSE Min({i, n})
      lo == Clamp(p)
      hi == Max({lo, Clamp(q)})
  IN  SubSeq(m, 1, lo) \o s \o SubSeq(m, hi + 1, n)

-----------------------------------------------------------------------------

Init ==
  /\ file \in Inputs
  /\ writable \in BOOLEAN
  /\ pc = "open"
  /\ line = 1
  /\ base_address = 0
  /\ lowest_address = Inf
  /\ highest_address = 0
  /\ memory = <<>>
  /\ outfile = NoFile

(* with open(hex_file, 'r'): FileNotFoundError is reported, the run ends. *)
Open ==
  /\ pc = "open"
  /\ pc' = IF file = Missing THEN "error" ELSE "pass1"
  /\ UNCHANGED <<env, line, base_address, range, memory, outfile>>

InPass == pc \in {"pass1", "pass2"} /\ line <= Len(file)

(* A blank line, or one not starting with ':'; and in either pass a     *)
(* record of a type other than 0 and 4 (start address, end of file):      *)
(* nothing changes but the line.                                          *)
SkipLine ==
  /\ InPass
  /\ Cur.kind = "skip" \/ IsOther(Cur)
  /\ line' = line + 1
  /\ UNCHANGED <<env, pc, base_address, range, memory, outfile>>

(* bytes.fromhex or the header indexing raises: the run ends. *)
BadLine ==
  /\ InPass
  /\ \/ Cur.kind = "bad"
     \/ IsExtAddr(Cur) /\ ~HasExtAddr(Cur)
  /\ pc' = "error"
  /\ UNCHANGED <<env, line, base_address, range, memory, outfile>>

(* Record type 4, in either pass: the new base address. *)
ExtendedAddress ==
  /\ InPass
  /\ IsExtAddr(Cur) /\ HasExtAddr(Cur)
  /\ base_address' = ExtAddrBase(Cur)
  /\ line' = line + 1
  /\ UNCHANGED <<env, pc, range, memory, outfile>>

(* Mutant: the record offset taken as one-based. *)
PhysAddrOffByOne(l) == base_address + l.offset - 1

(* phys_addr = base_address + address. *)
PhysAddr(l) == base_address + l.offset

(* Pass 1, a data record with bytes widens [lowest, highest]. *)
ScanData ==
  /\ pc = "pass1" /\ line <= Len(file)
  /\ IsData(Cur)
  /\ LET phys == PhysAddr(Cur)
     IN  /\ lowest_address' =
              IF Cur.count > 0 /\ (lowest_address = Inf \/ phys < lowest_address)
                THEN phys ELSE lowest_address
         /\ highest_address' =
              IF Cur.count > 0 /\ phys + Cur.count - 1 > highest_address
                THEN phys + Cur.count - 1 ELSE highest_address
  /\ line' = line + 1
  /\ UNCHANGED <<env, pc, base_address, memory, outfile>>

(* Mutant: pass 2 starts from the base address pass 1 ended with. *)
KeepBase == base_address' = base_address

(* base_address = 0 before the second pass. *)
ResetBase == base_address' = 0

(* End of pass 1: allocate the padded buffer (a TypeError when no data   *)
(* record had bytes and lowest_address is still inf), reset the base.    *)
EndScan ==
  /\ pc = "pass1" /\ line > Len(file)
  /\ IF lowest_address = Inf
       THEN /\ pc' = "error"
            /\ UNCHANGED <<line, base_address, memory>>
       ELSE /\ memory' = [k \in 1 .. (highest_address - lowest_address + 1) |-> PadByte]
            /\ ResetBase
            /\ pc' = "pass2"
            /\ line' = 1
  /\ UNCHANGED <<env, range, outfile>>

(* Pass 2, memory[phys:phys + byte_count] = data[4:4 + byte_count]. *)
FillData ==
  /\ pc = "pass2" /\ line <= Len(file)
  /\ IsData(Cur)
  /\ LET phys == base_address + Cur.offset - lowest_address
     IN  memory' = SliceAssign(memory, phys, phys + Cur.count, Payload(Cur))
  /\ line' = line + 1
  /\ UNCHANGED <<env, pc, base_address, range, outfile>>

(* End of pass 2: open bin_file and write the buffer, or fail to open. *)
WriteOutput ==
  /\ pc = "pass2" /\ line > Len(file)
  /\ IF writable
       THEN pc' = "ok" /\ outfile' = memory
       ELSE pc' = "error" /\ UNCHANGED outfile
  /\ UNCHANGED <<env, line, base_address, range, memory>>

Next ==
  \/ Open \/ SkipLine \/ BadLine \/ ExtendedAddress
  \/ ScanData \/ EndScan \/ FillData \/ WriteOutput

(* A single sequential process that never blocks: weak fairness. *)
Spec == Init /\ [][Next]_vars /\ WF_vars(Next)

-----------------------------------------------------------------------------
(* The record sequence an Intel HEX file denotes (spec.md 3 and 4.1): the *)
(* base address follows the ELA records; a data record stores its payload *)
(* at base + offset.  A bad line, or an ELA record without its two bytes, *)
(* makes the whole file Invalid.                                          *)

ReadLine(acc, l) ==
  CASE ~acc.ok \/ l.kind = "bad" \/ (IsExtAddr(l) /\ ~HasExtAddr(l))
         -> [acc EXCEPT !.ok = FALSE]
    [] IsData(l)
         -> [acc EXCEPT !.recs = Append(@, [addr  |-> acc.base + l.offset,
                                            bytes |-> Payload(l)])]
    [] IsExtAddr(l)
         -> [acc EXCEPT !.base = ExtAddrBase(l)]
    [] OTHER -> acc

HexRecords(f) ==
  IF f = Missing THEN Invalid
  ELSE LET r == FoldLeft(ReadLine, [ok |-> TRUE, base |-> 0, recs |-> <<>>], f)
       IN  IF r.ok THEN r.recs ELSE Invalid

Converter == INSTANCE ImageSpec WITH
  recs <- HexRecords(file),
  out  <- outfile,
  done <- pc \in {"ok", "error"}

-----------------------------------------------------------------------------

TypeOK ==
  /\ file \in Seq(Lines) \cup {Missing}
  /\ writable \in BOOLEAN
  /\ pc \in {"open", "pass1", "pass2", "ok", "error"}
  /\ line \in 1 .. (MaxLines + 1)
  /\ base_address \in Nat
  /\ lowest_address \in Nat \cup {Inf}
  /\ highest_address \in Nat
  /\ memory \in Seq(Nat)
  /\ outfile \in Seq(Nat) \cup {NoFile}

(* The two passes agree: every slice assignment of pass 2 replaces bytes *)
(* within the buffer pass 1 sized, so the buffer keeps exactly the length *)
(* highest_address - lowest_address + 1 (hex2bin.py lines 35, 41, 58).   *)
BufferMatchesScan ==
  pc = "pass2" => Len(memory) = highest_address - lowest_address + 1

(* hex_to_bin implements ImageSpec: the output file appears only at the  *)
(* end, complete, and is the flat image of the records the file denotes. *)
ImplementsImageSpec == Converter!Spec

=============================================================================
