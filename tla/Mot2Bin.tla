------------------------------ MODULE Mot2Bin -------------------------------
(***************************************************************************)
(* mot2bin and the main block of src/utils/script/mo2bin.py: converts a   *)
(* Motorola S-record file to a raw binary.  The input and the output file *)
(* are opened together (the output is truncated at once); every S1/S2/S3  *)
(* line whose checksum verifies stores its data in data_dict under its    *)
(* start address and widens [min_address, max_address]; the binary is    *)
(* then built by walking every address of that range, extending it by    *)
(* the record stored there or appending one 0xFF, and written.  Any       *)
(* exception ends the call with a diagnostic.  The main block calls       *)
(* mot2bin twice, first with --pad and then with the default.             *)
(*                                                                         *)
(* A line is a record [kind, type, count, addr, data, cs]: kind "rec" for *)
(* a line starting with 'S' that parses, with type the character after    *)
(* 'S', count the byte-count field, addr the address field, data the      *)
(* payload and cs the trailing checksum byte; kind "skip" for a line not  *)
(* starting with 'S'; kind "bad" for one whose fields int() or            *)
(* bytes.fromhex reject.  Addresses stay below 256 in the models, where   *)
(* S1, S2 and S3 differ only in the width of the address field.           *)
(***************************************************************************)
EXTENDS Integers, Sequences, SequencesExt, FiniteSetsExt

CONSTANTS
  PadArg,    \* the value given to --pad
  Lines,     \* the lines an input file is made of
  MaxLines,  \* the longest input file considered
  Inf,       \* float('inf'), the initial min_address
  Missing,   \* the input path does not exist
  Invalid,   \* the input denotes no record sequence
  NoFile     \* the output file does not exist

ASSUME MaxLines \in Nat

VARIABLES
  file,          \* the input file: a sequence of Lines, or Missing
  writable,      \* whether bin_file can be opened for writing
  call,          \* which of the two calls of main is running
  pc,            \* where the current call is
  line,          \* index of the next input line
  data_dict,
  min_address,
  max_address,
  i,             \* the address the build loop is at
  binary_data,
  outfile        \* NoFile, or the contents of bin_file

env    == <<file, writable>>
locals == <<line, data_dict, min_address, max_address, i, binary_data>>
vars   == <<env, call, pc, locals, outfile>>

Inputs == BoundedSeq(Lines, MaxLines) \cup {Missing}

Cur == file[line]

SkippedTypes == {"0", "5", "7", "8", "9"}
DataTypes == {"1", "2", "3"}

RECURSIVE ByteSum(_)
(* The sum of the bytes of the big-endian address field. *)
ByteSum(a) == IF a < 256 THEN a ELSE (a % 256) + ByteSum(a \div 256)

SumBytes(s) == FoldLeft(LAMBDA x, y : x + y, 0, s)

(* Mutant: the sum not reduced to its low byte. *)
UnmaskedChecksum(l) == 255 - (l.count + ByteSum(l.addr) + SumBytes(l.data))

(* 255 - (sum of bytes.fromhex(line[2:-2]) & 0xFF). *)
CalculatedChecksum(l) ==
  255 - ((l.count + ByteSum(l.addr) + SumBytes(l.data)) % 256)

(* binary_data.append(0xFF): the literal, whatever pad_byte is. *)
FillByte == 255

-----------------------------------------------------------------------------

(* The locals of one call of mot2bin before it opens its files. *)
CallStart ==
  /\ pc' = "open"
  /\ line' = 1
  /\ data_dict' = <<>>
  /\ min_address' = Inf
  /\ max_address' = 0
  /\ i' = 0
  /\ binary_data' = <<>>

Init ==
  /\ file \in Inputs
  /\ writable \in BOOLEAN
  /\ call = 1
  /\ pc = "open"
  /\ line = 1
  /\ data_dict = <<>>
  /\ min_address = Inf
  /\ max_address = 0
  /\ i = 0
  /\ binary_data = <<>>
  /\ outfile = NoFile

(* with open(mot_file, 'r') as infile, open(bin_file, 'wb') as outfile: *)
(* both open and the output is emptied, or the call reports the error.  *)
OpenFiles ==
  /\ pc = "open"
  /\ pc' = IF file # Missing /\ writable THEN "parse" ELSE "returned"
  /\ outfile' = IF file # Missing /\ writable THEN <<>> ELSE outfile
  /\ UNCHANGED <<env, call, locals>>

InParse == pc = "parse" /\ line <= Len(file)

IsRec(l, types) == l.kind = "rec" /\ l.type \in types

(* A line not starting with 'S'; S0, S5, S7, S8, S9; any other type: the *)
(* line is passed over.                                                  *)
PassLine ==
  /\ InParse
  /\ \/ Cur.kind = "skip"
     \/ IsRec(Cur, SkippedTypes)
     \/ Cur.kind = "rec" /\ Cur.type \notin SkippedTypes \cup DataTypes
  /\ line' = line + 1
  /\ UNCHANGED <<env, call, pc, data_dict, min_address, max_address, i,
                 binary_data, outfile>>

(* int() or bytes.fromhex raises: the call ends, bin_file stays truncated. *)
BadLine ==
  /\ InParse
  /\ Cur.kind = "bad"
  /\ pc' = "returned"
  /\ UNCHANGED <<env, call, locals, outfile>>

(* A data line whose checksum does not verify is reported and dropped. *)
ChecksumError ==
  /\ InParse
  /\ IsRec(Cur, DataTypes)
  /\ CalculatedChecksum(Cur) # Cur.cs
  /\ line' = line + 1
  /\ UNCHANGED <<env, call, pc, data_dict, min_address, max_address, i,
                 binary_data, outfile>>

(* Mutant: max_address = address + len(data) - 1, not folded with max. *)
WidenMaxNoMax(l) == l.addr + Len(l.data) - 1

(* max(max_address, address + len(data) - 1). *)
WidenMax(l) == Max({max_address, l.addr + Len(l.data) - 1})

(* A verified data line: data_dict[address] = data; widen the range. *)
StoreRecord ==
  /\ InParse
  /\ IsRec(Cur, DataTypes)
  /\ CalculatedChecksum(Cur) = Cur.cs
  /\ data_dict' = (Cur.addr :> Cur.data) @@ data_dict
  /\ min_address' = IF min_address = Inf THEN Cur.addr ELSE Min({min_address, Cur.addr})
  /\ max_address' = WidenMax(Cur)
  /\ line' = line + 1
  /\ UNCHANGED <<env, call, pc, i, binary_data, outfile>>

(* range(min_address, max_address + 1): a TypeError while min_address is *)
(* still inf, i.e. when no line verified.                                 *)
EndParse ==
  /\ pc = "parse" /\ line > Len(file)
  /\ IF min_address = Inf
       THEN pc' = "returned" /\ UNCHANGED i
       ELSE pc' = "build" /\ i' = min_address
  /\ UNCHANGED <<env, call, line, data_dict, min_address, max_address,
                 binary_data, outfile>>

(* One turn of the build loop: the record starting at i, or one 0xFF.  *)
(* The loop moves on to i + 1 whatever the length of what it appended.  *)
BuildStep ==
  /\ pc = "build" /\ i <= max_address
  /\ binary_data' = IF i \in DOMAIN data_dict
                      THEN binary_data \o data_dict[i]
                      ELSE Append(binary_data, FillByte)
  /\ i' = i + 1
  /\ UNCHANGED <<env, call, pc, line, data_dict, min_address, max_address,
                 outfile>>

(* outfile.write(binary_data). *)
WriteOutput ==
  /\ pc = "build" /\ i > max_address
  /\ outfile' = binary_data
  /\ pc' = "returned"
  /\ UNCHANGED <<env, call, locals>>

(* main: mot2bin(args.mot_file, args.bin_file, args.pad) returns and     *)
(* mot2bin(args.mot_file, args.bin_file) runs on the same files.         *)
SecondCall ==
  /\ pc = "returned" /\ call = 1
  /\ call' = 2
  /\ CallStart
  /\ UNCHANGED <<env, outfile>>

Next ==
  \/ OpenFiles \/ PassLine \/ BadLine \/ ChecksumError \/ StoreRecord
  \/ EndParse \/ BuildStep \/ WriteOutput \/ SecondCall

Spec == Init /\ [][Next]_vars /\ WF_vars(Next)

Exited == pc = "returned" /\ call = 2

-----------------------------------------------------------------------------
(* Reference readings of an S-record file (spec.md 4.1 and 6).  A data   *)
(* line is valid when its bytes from the count through the checksum sum  *)
(* to 0xFF modulo 256; the file denotes the records of its valid data    *)
(* lines, in order, and is Invalid when missing or when a line does not  *)
(* parse.                                                                *)

ValidLine(l) ==
  IsRec(l, DataTypes)
  /\ (l.count + ByteSum(l.addr) + SumBytes(l.data) + l.cs) % 256 = 255

RefDict(s) ==
  FoldLeft(LAMBDA d, l : IF ValidLine(l) THEN (l.addr :> l.data) @@ d ELSE d, <<>>, s)

MotRecords(f) ==
  IF f = Missing \/ \E k \in DOMAIN f : f[k].kind = "bad" THEN Invalid
  ELSE LET valid == SelectSeq(f, ValidLine)
       IN  [k \in DOMAIN valid |-> [addr |-> valid[k].addr, bytes |-> valid[k].data]]

Img == INSTANCE ImageSpec WITH
  PadByte <- PadArg,
  recs    <- MotRecords(file),
  out     <- outfile,
  done    <- Exited

-----------------------------------------------------------------------------

TypeOK ==
  /\ file \in Seq(Lines) \cup {Missing}
  /\ writable \in BOOLEAN
  /\ call \in {1, 2}
  /\ pc \in {"open", "parse", "build", "returned"}
  /\ line \in 1 .. (MaxLines + 1)
  /\ DOMAIN data_dict \subseteq Nat
  /\ min_address \in Nat \cup {Inf}
  /\ max_address \in Nat
  /\ i \in Nat
  /\ binary_data \in Seq(0 .. 255)
  /\ outfile \in Seq(0 .. 255) \cup {NoFile}

(* Checksum gate and last-writer rule (mo2bin.py lines 42-52): while the *)
(* file is read and after, data_dict holds, for every start address, the *)
(* data of the last line so far at that address whose checksum verifies, *)
(* and nothing from a line whose checksum does not.                     *)
ChecksumGate ==
  pc \in {"parse", "build"} => data_dict = RefDict(SubSeq(file, 1, line - 1))

(* Image (spec.md 3, 4.3, 8): when main returns after converting an input *)
(* that stores some byte to a writable path, bin_file holds exactly the   *)
(* span from the lowest to the highest stored address, with the --pad     *)
(* byte wherever no record stores one.                                    *)
OutputIsImage ==
  Exited /\ Img!Convertible => outfile = Img!Image(MotRecords(file))

=============================================================================
