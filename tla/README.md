# TLA+ models of the XinYi utility scripts

This directory holds TLA+ models of the four Python sources of the repository,
the TLC configurations that check them, and `PROJECT.json`, the
machine-readable index of components, runs, mutants, the source map, findings
and hazards.

## 1. Inventory

The repository has four independent command-line programs. They share no
state, and each runs as one sequential process.

| Component | Source | State | Operations | Interactions |
|---|---|---|---|---|
| Intel HEX converter | `src/utils/script/hex2bin.py` | `base_address`, `lowest_address` (starts at `inf`), `highest_address`, the `memory` bytearray, the output file | pass 1 per line (skip, bad, data, ELA, other); allocation; pass 2 per line; write; exception exits | reads the input file twice, then writes the output file |
| S-record converter | `src/utils/script/mo2bin.py` | `data_dict`, `min_address`, `max_address`, `binary_data`, the output file (open from the start) | open both files; per line: skip, header type, other type, checksum error, store, exception; build loop; write; `main` calls it twice | input and output files open together |
| AT command hash | `src/components/net/xy_at/ats-simcom/tools/calculate_hash.py` | `value1`, `value2`, `ascii_char`, `i` | the character loop | pure function; it mirrors a firmware hash |
| SmartCard bridge client | `src/components/net/SmartCard_USB_Bridge/test_client.py` | the serial port, the receive `buffer`, the test sequence's progress | `build_tlv`, `parse_tlv`; `send_command`; `receive_response` (poll, read, parse, timeout); the commands built on them (main calls all but `power_on`, `power_off` and `get_info`); `main` | talks to the bridge device over a serial line: requests go out, TLV responses come back in chunks, possibly late |

What is hard in each:

* **hex2bin.** The two passes must agree. Pass 1 sizes the buffer from each
  record's byte count. Pass 2 writes each record's payload through a Python
  slice assignment, which *resizes* the bytearray when the payload is shorter.
  `base_address` must restart at 0 between the passes. The `inf` sentinel
  reaches arithmetic when no record has data.
* **mo2bin.** The output file is truncated before the input is parsed. The
  checksum takes the low byte of a sum that exceeds one byte. The build loop
  walks every address and extends by whole records. `pad_byte` is never used,
  and `main` runs the conversion twice.
* **calculate_hash.** CR and LF are compared with integers, so they never stop
  the loop. A non-alphanumeric character reuses the previous character's code.
  The digit codes overlap the letter codes. Short names are indexed before any
  length check.
* **Bridge client.** `receive_response` is the only concurrent behaviour in the
  repository: the device writes while the client polls. The client parses one
  packet per read. It discards the rest of its buffer on return, and it leaves
  late responses in the port for the next command.

Properties that make each component correct:

* **Converters:** the output is exactly the flat image of the records
  (spec.md 3): it spans lowest to highest stored address, the last writer wins,
  and gaps hold the pad byte. A failed conversion leaves no output. Only
  checksum-verified S-records count.
* **Hash:** equals the reference positional hash of the name up to its
  terminator, and is injective on names that the table must tell apart.
* **TLV:** parse inverts build, and a stream of packets is framed correctly
  whatever its chunking.
* **Client:** a command's result is the device's answer to *that* command. An
  answer already received is returned before the timeout. The port is closed
  on every exit path.

## 2. Plan

Modules, in order of importance:

1. `ImageSpec` (done): the abstract converter. One step produces the flat
   padded image, or no file.
2. `HexToBin` + `MCHexToBin` (done): hex2bin line by line, shown to implement
   `ImageSpec` via `INSTANCE ImageSpec WITH recs <- HexRecords(file), ...`.
3. `Mot2Bin` + `MCMot2Bin` (done): mo2bin and its `main`. The output is
   compared with `ImageSpec`'s `Image`, and the checksum gate with a reference
   reading.
4. `AtHash` + `MCAtHash` (done): `calculate_hash` as a `RECURSIVE` operator
   over bounded names, checked against a reference definition. Runs: a passing
   run on letter names; violation runs for CR/LF termination and for
   digit/letter collisions.
5. `Tlv` (done): `build_tlv`/`parse_tlv` over byte sequences. Round trip and
   framing of concatenated packets are checked over bounded lengths.
6. `BridgeSystem` + `MCBridgeSystem` (done; client and environment in one
   module, the codec in `Tlv`): the client's
   `receive_response` loop and the commands of `main`, composed with a device
   that answers each request once and a serial channel that delivers bytes in
   order, in arbitrary chunks, before or after the client's timeout. With a
   prompt device, main refines `BridgeRpc` (below), which includes that each
   result answers its own command and that main ends with the port closed.
   Violation runs are expected for the late-answer and the two-packets-per-read
   hazards.
7. `BridgeRpc` (done): main as one-step remote calls, the refinement target
   of `BridgeSystem`.

8. Open: the hazards that `PROJECT.json` lists without a property.
   * Four need a statement of intended behaviour that neither the code nor
     spec.md gives: a non-alphanumeric character hashed with the previous
     code, a short name raising IndexError, a one-byte ATR stopping main, and
     a bin_file that mo2bin leaves emptied when a line or `range(inf)`
     raises after the open (spec.md 7 promises no partial output only when
     the input is missing).
     For the ATR, the code disagrees with itself: reset_sim prints
     "[+] ATR received", and main then reports "Cannot continue without ATR".
   * One is beyond TLC's reach: a HEX span of hundreds of MiB.
   * One no run exhibits: a call whose buffer holds the tail of one answer
     and the head of the next (test_client.py:150). `ResultAnswersItsCommand`
     would catch it, but with a prompt device no call sees two answers, and
     with a late device TLC reports the late answer first.

## 3. Modules and how they correspond to the code

### ImageSpec

The variables are `recs` (the records the input denotes, or `Invalid`),
`writable`, `out` and `done`. `Convert` writes `Image(recs)` in one step;
`Reject` finishes without an output when the input is invalid, stores no
byte, or the destination is not writable. `Spec` requires that the conversion
finishes (`<>done`). `Image` is written from spec.md, not from either
converter: the span of `Covered` addresses, and the last writer's byte or
`PadByte` at each address.

### HexToBin (hex2bin.py)

The variables are `file` and `writable` (the environment, fixed at `Init`),
plus `pc`, `line` and the function's locals under their own names. There is
one action per branch of the loop body: `SkipLine` (a blank or non-`:` line,
or a record type other than 0 and 4), `BadLine` and `ExtendedAddress` serve
both passes, because the code is the same; `ScanData` is pass 1's data branch and `FillData` pass 2's. `EndScan` is
the allocation and base reset between the passes. `WriteOutput` opens and
writes `bin_file`. `SliceAssign` is Python's `m[p:q] = s`, including bound
clamping, negative indices and resizing. `Payload` is
`data[4:4+byte_count]`. A line is abstracted to its header fields and its
body `data[4:]`. The checksum is not validated by the code, so it only
matters when a short line's slice takes it for data.

`HexRecords(file)` reads the file the way spec.md 4.1 describes, in one pass,
into the record sequence. It is the refinement mapping for `recs`. `out` maps
to `outfile`, and `done` to the end of the run.

### Mot2Bin (mo2bin.py)

The variables are `call` (main's first or second call), `pc`, `line`, the
locals, and `outfile`. `OpenFiles` covers a missing input (no output), an
unwritable output, and the truncation. `PassLine` covers the three
`continue`/fall-through cases. `OpenFiles` opens the input before the output,
so a missing input leaves bin_file untouched, while every later exception
leaves it emptied. `ChecksumError` and `StoreRecord` are the two
outcomes of the checksum test. `EndParse` is `range()` with its TypeError on
`inf`. `BuildStep` is one turn of the build loop, appending the literal
`FillByte` = 0xFF. `SecondCall` is line 82. `CalculatedChecksum` is the code's
formula. The properties compare it with the S-record definition `ValidLine`:
all bytes including the checksum sum to 0xFF modulo 256.

### AtHash (calculate_hash.py)

A name is a sequence of character codes (ord values). `CalculateHash` is the
whole function: the `'a'/'A'`, `'t'/'T'` tests, with `IndexError` (a model
value) where the code indexes past a short name. `HashLoop` is the while
loop, one recursion per iteration, carrying `i`, `ascii_char`, `value1` and
`value2`. `Continues` is the loop condition. It keeps the comparisons with the
ints 13 and 10 as `TRUE`, because a Python str never equals an int.
`CharCode` keeps the previous code for a character that is neither a letter
nor a digit. The function has no state: `name` is fixed at `Init`, so each
initial state is one call, and the properties are state predicates on it.
The reference (`ReferenceHash`) reads the comment on line 16: the command
name runs up to `=`, `?`, CR, LF or NUL. Letters count case-insensitively as
0..25. The first five characters are the base-38 digits of value1, and the
next five those of value2.

### Tlv (test_client.py, TLVProtocol)

`BuildTlv` is `struct.pack('>BH', ...) + data`, and `ParseTlv` is `parse_tlv`:
`NoPacket` until the buffer holds the three header bytes and the whole value.
Its tag is -1 there, standing for `None`, which no byte equals. The tags are
the class constants. The codec has no state. Its round trip and framing are
checked where they matter, in the bridge runs. One bridge mutant is a
mutant of `Arrived`, the test that the whole value is in the buffer.

### BridgeRpc (abstract)

What main promises when the device answers in time. Each command is one
remote call: `Open`, then, per command, `Complete`, which returns `Verdict`
(the value of the device's answer to that command if its tag is the expected
one, else None), and `Advance` to the next command or to `Close`. `Answer` is
the device's reply, recorded in `answers`, and `Abort` is a failing port.
`BridgeSystem` maps onto it through `Phase` (`connect` to `start`, `send` and
`recv` to `call`, `handle` to `returned`, `close` to `closing`, `exit` to
`closed`), with `cmd`, `ret`, `answers` and `port_open` unchanged. Bytes,
chunks and the polling clock are stutter steps.

### BridgeSystem (test_client.py, SmartCardBridge and main)

The client's variables are `pc`, `cmd` (the position in main's sequence),
`buffer`, `t` (turns of the polling loop since `start_time`), `ret` (what
`receive_response` returned) and `port_open`. The actions are `Connect`;
`Send` (`send_command` plus the start of `receive_response`); `Read`, one turn
with `in_waiting > 0` (append, parse one packet, then return the value, return
None on TAG_ERROR, or drop an unexpected packet and sleep); `Idle`, a turn with
nothing waiting; `Expire`, the while condition failing; `Handle`, the helper's
return to main, which stops after a reset without ATR or after the last
command; `PortError`, the `except Exception` path; and `Close`, the `finally`.
`MainScript` in `MCBridgeSystem` is main's sequence, lines 354-420.

The device and the serial line are not in this repository. They are an
environment: `tx` carries the commands in order, `Respond` answers one with a
packet from `Replies` (`BuildTlv`), `Ignore` drops one, and `Arrive` moves any
number of the written bytes into `rx`. `answers` is a history variable: the
packet each command was answered with. `Late` says whether the device may
answer after the client's deadline. When it is FALSE, `CanTick` stops the
client's clock one turn short of the deadline while the device still owes
bytes. This models a device that answers within 2 s.

## 4. Runs

| Run | Expect | What it shows |
|---|---|---|
| `hex_wellformed` | pass | Every file of up to 3 well-formed lines leads either to the exact image or to no file (`ImplementsImageSpec`, a refinement checked as a `PROPERTY`, including termination). Pass 2 never resizes the buffer (`BufferMatchesScan`). About 312k states, about 1.5 min. |
| `hex_truncated` | violation | A data line shorter than its count shrinks the buffer, and the output loses a byte. |
| `mot_checksum` | pass | `data_dict` always holds the last verified line per start address (`ChecksumGate`), with sums above 255. About 320k states, about 20 s. |
| `mot_span` | violation | A 2-byte record produces 3 output bytes. |
| `mot_pad` | violation | `--pad 0` still pads with 0xFF. |
| `mot_empty_record` | violation | A record without data widens the span. |
| `hash_reference` | pass | For about 77k names, `calculate_hash` returns two naturals or raises IndexError (`TypeOK`). On letter names ending at `=`, `?`, NUL or the string's end, it equals the reference (`HashMatchesReference`), including names longer than ten letters. |
| `hash_crlf` | violation | `AT+A` LF `Z` hashes differently from `AT+A=`: LF does not end the name. |
| `hash_digits` | violation | `AT+0` and `AT+S` both hash to (19, 0). |
| `bridge_prompt` | pass | The device answers in time, errs or stays silent, and bytes arrive in any chunks. main refines `BridgeRpc` (`ImplementsBridgeRpc`): the calls run in script order, each returns the value of its own command's answer exactly when that answer has the expected tag, main stops after a reset without ATR, and it always ends with the port closed, also after a serial error. No call times out with its answer in the buffer (`TimedOutWithoutAnswer`). About 1.4M states, about 1 min. |
| `bridge_late_answer` | violation | The LED-blue ACK arrives after its timeout, and set_ui_led(YELLOW) returns it as its own answer. |
| `bridge_coalesced` | violation | A late status response and the LED ACK arrive in one read. The ACK is never parsed, and the call times out. |

Each property of a passing run has a mutant in `PROJECT.json`: a plausible
bug in a mapped definition, under which TLC finds the property violated.
Examples: pass 2 keeps pass 1's base address; the payload slice takes the
checksum along; the checksum sum is left unmasked.

### Bounds and why they suffice

* **HEX.** `BankSize` = 4 stands for 2^16, and offsets range over the whole
  bank 0..3. Two-byte records therefore overlap, leave gaps, and cross into
  the next bank. The ELA value is 0 or 1, so two banks are far apart. Payloads
  hold 0 to 2 bytes, and the two-byte ones are `<<0,1>>` and `<<1,0>>`, so an
  overlap shows which record wins. Files have up to 3 lines, which is enough
  for data, then an ELA, then data. Every line kind appears, including a bad
  line, a short ELA and an EOF record. Empty and missing inputs and an
  unwritable output are in `Init`.
* **S-record.** Addresses are 0 and 2, and payloads are empty, `<<0>>`,
  `<<255>>` or `<<0,255>>`, so the checksum sum exceeds 255. Each line's
  checksum is either correct or off by one. There are 3 lines per file.
  S2/S3 differ from S1 only in the width of the address field, which does not
  matter below 256, so only S1 lines are used. The violation runs use the
  smallest line sets that exhibit the behaviour.

* **Hash.** The names are the heads `AT+`, `at#` and `aT+`, followed by
  every tail of up to 5 characters over `A z = ? NUL 0 _`, or by 11 or 12
  letters from `A z`. The second kind passes both the value1/value2 boundary
  and `AT_MAX_CMD_NAME_LEN`. Short and non-`AT` strings are included too. Both
  cases, and every character class, occur in every position the loop treats
  differently.

* **Bridge.** main's whole sequence of 11 commands runs. `Timeout` = 2
  turns gives a partial read, a second read and a deadline. The answers are
  short (2 bytes of status, 0 or 1 byte of ACK, 1 or 2 bytes of ATR, a 2-byte
  status word), so a packet can arrive in up to 5 chunks. Every command can
  also get no answer, the reset and the APDUs TAG_ERROR, and the ATR can be
  the protocol byte only.

### Fairness

Each converter is a single sequential process that never waits, so weak
fairness of its whole next-state relation is justified: it can only stop at
its end. The deadlock check is off because the programs do exit.
In `BridgeSystem`, the client and the device-and-line are each weakly fair.
The client's loop never blocks, because it sleeps and reads the clock. A
serial line delivers the bytes written to it. When the device is silent,
the timeout still ends each call. With the prompt device of `bridge_prompt`
(`Late` = FALSE), the client's clock may not reach the deadline while bytes are
still owed (`CanTick`), so the client then waits for the device, and the termination `ImplementsBridgeRpc` asks for
(`<>(phase = "closed")`) rests on the fairness of both the client and
`DeviceStep`, or on a `PortError` ending the run. The converters' termination is checked in the same way, as part
of `ImplementsImageSpec` (`<>done`). Neither abstract spec states fairness of
its own: each demands the eventual end directly, which the detailed spec must
deliver.

## 5. Not modelled, and why

* `print` diagnostics and `argparse` are left out. Only the parsed `--pad`
  value matters, and it appears as `PadArg`.
* A write failure after a successful open (disk full) is left out.
* The size of the buffer is left out. Data in banks far apart makes
  hex2bin allocate the whole span, which can be hundreds of MiB. The models
  scale a bank down to `BankSize` addresses, and nothing states a limit.
* Addresses of 2^16 and above are left out. The converters use unbounded
  Python integers, so no width is lost in scaling the bank size down.
* The bridge firmware and pyserial are not in `src/`. They appear only as
  the environment of the client model.
* In `test_client.py`: console output, `format_hex`, the ICCID decoding, and
  KeyboardInterrupt (handled like any exception). `power_on`, `power_off`
  and `get_info` are left out because main never calls them. Each is
  `send_command` plus `receive_response` with a fixed pair of tags, which a
  `Script` entry would model. Each helper's handling of its result is
  printing; only reset_sim's ATR reaches main's control flow. That is why a
  `Script` entry (`Status`, `Led`, `Reset`, `Apdu` in `MCBridgeSystem`) is
  just the tag the helper sends and the tag it expects. Packets of 64 KiB, where
  `struct.pack` raises, are beyond TLC's reach.
* `calculate_hash` on non-ASCII characters is left out. There, `isupper` and
  `isdigit` follow Unicode; the names the firmware uses are ASCII.
* Apart from the omissions above, every operation that changes state in the
  four scripts, and that their `main` reaches, is an action or an operator
  of a module. The properties
  the code's comments, spec.md and the scripts' own messages support are all
  checked. The project keeps twelve runs, and two further questions would
  each need a run of their own:
  * Does main still end, with the port closed, when the device answers late?
    This is checked only for a prompt device, as part of
    `ImplementsBridgeRpc`. With a late device the loop still ends by its
    clock, which then no longer waits for the device.
  * reset_sim's own "ATR received" against main's stop.
