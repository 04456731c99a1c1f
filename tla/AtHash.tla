------------------------------- MODULE AtHash -------------------------------
(***************************************************************************)
(* calculate_hash of                                                       *)
(* src/components/net/xy_at/ats-simcom/tools/calculate_hash.py, the       *)
(* two-part hash the AT command table of the firmware is indexed by.  A   *)
(* command name is a sequence of character codes (ord values).  The      *)
(* function returns the pair <<value1, value2>>, or raises IndexError.   *)
(*                                                                         *)
(* The loop condition compares each character with '=', '?', 13, 10 and  *)
(* '\0'.  In Python a one-character str never equals the int 13 or 10,   *)
(* so those two tests are always true; the model keeps them as such.     *)
(***************************************************************************)
EXTENDS Integers, Sequences

CONSTANTS
  Names,       \* the command names checked
  IndexError   \* the result when the code indexes past the end of at_name

VARIABLE name

AT_HASH_TABLE_ROW == 37
AT_HASH_TABLE_SPAN == 5
AT_MAX_CMD_NAME_LEN == 2 * AT_HASH_TABLE_SPAN

IsUpper(c) == c \in 65 .. 90
IsLower(c) == c \in 97 .. 122
IsDigit(c) == c \in 48 .. 57

(* The while condition: '=' is 61, '?' is 63, '\0' is 0; the tests      *)
(* against the ints 13 and 10 compare a str with an int and always hold. *)
Continues(c) == c # 61 /\ c # 63 /\ TRUE /\ TRUE /\ c # 0

(* Mutant: the digit offset taken as '2' (50) rather than 30. *)
DigitCodeOffByTwenty(c) == c - 50

(* ascii_char = ord(at_name[i]) - 30 for a digit. *)
DigitCode(c) == c - 30

(* ascii_char after character c: a code for letters and digits, and the *)
(* previous value for anything else.                                    *)
CharCode(c, prev) ==
  CASE IsUpper(c) -> c - 65
    [] IsLower(c) -> c - 97
    [] IsDigit(c) -> DigitCode(c)
    [] OTHER      -> prev

(* value1 = value1 * (AT_HASH_TABLE_ROW + 1) + (ascii_char + 1). *)
Fold(v, code) == v * (AT_HASH_TABLE_ROW + 1) + (code + 1)

(* Mutant: value1 takes positions 3..6 only. *)
InValue1OffByOne(i) == i < AT_HASH_TABLE_SPAN + 2

(* Positions 3..7 of at_name go to value1, 8..12 to value2. *)
InValue1(i) == i < AT_HASH_TABLE_SPAN + 3
InValue2(i) == ~InValue1(i) /\ i < AT_MAX_CMD_NAME_LEN + 3

(* The while loop from index i (0-based) with ascii_char = ch: stop at a *)
(* terminator, or after the character at the last index.               *)
RECURSIVE HashLoop(_, _, _, _, _)
HashLoop(s, i, ch, v1, v2) ==
  IF ~Continues(s[i + 1]) THEN <<v1, v2>>
  ELSE LET code == CharCode(s[i + 1], ch)
           n1   == IF InValue1(i) THEN Fold(v1, code) ELSE v1
           n2   == IF InValue2(i) THEN Fold(v2, code) ELSE v2
       IN  IF i + 1 = Len(s) THEN <<n1, n2>>
           ELSE HashLoop(s, i + 1, code, n1, n2)

(* The whole function: the "AT" prefix test, then the loop from index 3. *)
CalculateHash(s) ==
  CASE Len(s) < 1                -> IndexError
    [] s[1] \notin {97, 65}      -> <<0, 0>>
    [] Len(s) < 2                -> IndexError
    [] s[2] \notin {116, 84}     -> <<0, 0>>
    [] Len(s) < 4                -> IndexError
    [] OTHER                     -> HashLoop(s, 3, 0, 0, 0)

-----------------------------------------------------------------------------
(* The name is fixed; each initial state is one call of calculate_hash. *)

Init == name \in Names
Next == UNCHANGED name
Spec == Init /\ [][Next]_name

-----------------------------------------------------------------------------
(* Reference: the hash the firmware comment describes (line 16).  The     *)
(* command name is what follows "AT+" or "AT#" up to '=', '?', CR, LF or  *)
(* NUL; letters count case-insensitively as 0..25; the first five         *)
(* characters make value1 and the next five value2, each in base 38.      *)

Terminators == {61, 63, 13, 10, 0}

RECURSIVE NameLen(_, _)
NameLen(s, k) ==
  IF k > Len(s) \/ s[k] \in Terminators THEN k - 4 ELSE NameLen(s, k + 1)

CommandName(s) == SubSeq(s, 4, 3 + NameLen(s, 4))

LetterCode(c) == IF IsUpper(c) THEN c - 65 ELSE c - 97

RECURSIVE Positional(_)
Positional(cs) ==
  IF cs = <<>> THEN 0
  ELSE Positional(SubSeq(cs, 1, Len(cs) - 1)) * 38 + LetterCode(cs[Len(cs)]) + 1

ReferenceHash(s) ==
  LET nm == CommandName(s)
      k  == Len(nm)
  IN  << Positional(SubSeq(nm, 1, IF k < 5 THEN k ELSE 5)),
         Positional(SubSeq(nm, 6, IF k < 10 THEN k ELSE 10)) >>

IsATCommand(s) == Len(s) >= 4 /\ s[1] \in {97, 65} /\ s[2] \in {116, 84}

LettersOnly(s) == \A k \in 1 .. Len(CommandName(s)) : IsUpper(CommandName(s)[k]) \/ IsLower(CommandName(s)[k])

-----------------------------------------------------------------------------

TypeOK ==
  /\ name \in Seq(0 .. 127)
  /\ CalculateHash(name) \in (Nat \X Nat) \cup {IndexError}

(* For every AT command whose name is made of letters and ends at '=',   *)
(* '?', NUL or the end of the string, calculate_hash returns the base-38 *)
(* value of its first five and of its next five letters, case folded,    *)
(* ignoring everything past the tenth.                                   *)
HashMatchesReference ==
  IsATCommand(name) /\ LettersOnly(name) /\ CommandName(name) # <<>>
    /\ (\A k \in 1 .. Len(name) : name[k] \notin {13, 10})
    => CalculateHash(name) = ReferenceHash(name)

(* Line 16: a CR or LF ends the command name, like '=' does, so a name   *)
(* followed by CR hashes as the name alone.                              *)
CarriageReturnEndsName ==
  \A k \in 4 .. Len(name) :
    name[k] \in {13, 10} /\ IsATCommand(name)
      => CalculateHash(name) = CalculateHash(SubSeq(name, 1, k - 1) \o <<61>>)

(* The hash indexes a table of AT_HASH_TABLE_ROW + 1 = 38 symbols per   *)
(* position: two alphanumeric command names of at most ten characters    *)
(* that differ other than in letter case get different hash pairs.       *)
Alnum(c) == IsUpper(c) \/ IsLower(c) \/ IsDigit(c)
Folded(c) == IF IsLower(c) THEN c - 32 ELSE c
ShortAlnum(s) ==
  IsATCommand(s) /\ Len(CommandName(s)) \in 1 .. AT_MAX_CMD_NAME_LEN
    /\ \A k \in 1 .. Len(CommandName(s)) : Alnum(CommandName(s)[k])
DistinctNamesDistinctHashes ==
  \A other \in Names :
    /\ ShortAlnum(name) /\ ShortAlnum(other)
    /\ [k \in DOMAIN CommandName(name) |-> Folded(CommandName(name)[k])]
         # [k \in DOMAIN CommandName(other) |-> Folded(CommandName(other)[k])]
    => CalculateHash(name) # CalculateHash(other)

=============================================================================
