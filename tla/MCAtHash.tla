------------------------------ MODULE MCAtHash ------------------------------
(***************************************************************************)
(* Bounded command names for AtHash.  A name is a sequence of character  *)
(* codes: 'A' 65, 'T' 84, 'a' 97, 't' 116, '+' 43, '#' 35, 'z' 122,       *)
(* '=' 61, '?' 63, NUL 0, CR 13, LF 10, '0' 48, '_' 95.                           *)
(***************************************************************************)
EXTENDS AtHash, SequencesExt

Heads == {<<65, 84, 43>>, <<97, 116, 35>>, <<97, 84, 43>>}

(* Up to five characters of every class after the head. *)
ShortTails == BoundedSeq({65, 122, 61, 63, 0, 48, 95}, 5)

(* Letter names of 11 and 12 characters, past AT_MAX_CMD_NAME_LEN. *)
LongTails == [1 .. 11 -> {65, 122}] \cup [1 .. 12 -> {65, 122}]

(* Strings too short for, or not starting with, "AT". *)
Stubs == {<<>>, <<65>>, <<97, 116>>, <<65, 84, 43>>, <<66, 84, 43, 65>>,
          <<65, 88, 43, 65>>}

HashNames == {h \o t : h \in Heads, t \in ShortTails \cup LongTails} \cup Stubs

(* "AT+A" CR "Z": a command name followed by CR and more characters. *)
CrNames == {<<65, 84, 43, 65, 13, 90>>, <<65, 84, 43, 65, 10, 90>>}

(* "AT+0" and "AT+S": a digit and a letter in the same position. *)
DigitNames == {<<65, 84, 43, 48>>, <<65, 84, 43, 83>>, <<65, 84, 43, 65>>}

=============================================================================
