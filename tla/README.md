# TLA+ models of the QUIC TLS message codec

This directory holds TLA+ models of `src/unnamed/part_001`. That file is the TLS-side
helper of the QUIC stack:
- the server's reader of the client's first flight (ClientHello, SNI, ALPN);
- the transport parameter (TP) encoder, decoder, copy and cleanup.

It also models `src/fix.sh`, the script that strips `QuicTraceEvent(...)`
calls from the C and C++ sources so that they build against the no-op trace
stubs of `src/src/core/reason.h`, with that header as one of its inputs.

Every definition is written from the C source; `PROJECT.json` maps each one
to the lines it stands for. The QUIC varint helpers and the header constants
the codec calls are not under `src/`. They are modelled from `spec.md` and
marked `spec_modelled` in the map.

## 1. Inventory

### Components

| # | Component | Source | Model |
|---|-----------|--------|-------|
| C1 | Varint codec `QuicVarIntSize/Encode/Decode` | headers, not under src/ (spec 4.1) | `QuicVarInt` |
| C2 | TP ids, limits, record `QUIC_TRANSPORT_PARAMETERS`, `QuicTpIdIsReserved` | lines 37-81 and headers | `QuicTransportParams` |
| C3 | TP decoder `QuicCryptoTlsDecodeTransportParameters` | 1004-1328 | `TpDecoder`, `TpDecodeSpec`, `TpTokens`, `MCTpDecoder` |
| C4 | TP encoder `QuicCryptoTlsEncodeTransportParameters`, `TlsWriteTransportParam*` | 106-150, 598-1002 | `TpEncoder`, `MCTpEncoder` |
| C5 | TP copy and cleanup, with the VersionInfo parts of the decoder | 1256-1269, 1330-1367 | `TpLifecycle`, `MCTpLifecycle` |
| C6 | ClientHello reader `ReadInitial`, `ReadClientHello`, `GetCompleteTlsMessagesLength`, `ReadClientRandom`, `TlsReadUint16/24` | 18-34, 83-104, 403-596 | `ClientHelloReader`, `ClientHelloSpec`, `MCClientHelloReader` |
| C7 | Extension dispatcher, SNI and ALPN parsers | 151-401 | `ClientHelloReader` |
| C8 | `src/fix.sh`, the QuicTraceEvent stripping script | lines 1-50 | `FixScript`, `MCFixScript` |
| C9 | `src/src/core/reason.h` (enums, empty trace macros) | lines 1-125 | partly: `ReasonHeader`, its text as C8's input |
| -- | `src/unnamed/part_000` (git auto-commit script) | | not modelled: git and file-system I/O only |

### State and operations

- **Decoder (C3).** Its state is:
  - the input buffer and `TPLen`;
  - `IsServerTP`;
  - the cursor `Offset` (`uint16_t`);
  - the duplicate bitmap `ParamsPresent` (ids < 64 only);
  - the output record, whose `VersionInfo` is a heap buffer.

  It zeroes the record, installs the defaults, and then loops over
  `<id varint, length varint, payload>`. The loop exits on any malformed
  header, duplicate, overrun or out-of-range value. It ends with the
  cross-check min_ack_delay (µs) <= max_ack_delay (ms) × 1000.
- **Encoder (C4).** It is a two-pass writer:
  1. Pass 1 sums every present parameter's `TlsTransportParamLength` into
     `RequiredTPLen`.
  2. The limit check `RequiredTPLen > UINT16_MAX` returns NULL.
  3. The buffer is allocated, and the allocation may fail.
  4. Pass 2 writes the same parameters in the same order "without checking
     any more lengths".
  5. The written length is compared with `RequiredTPLen`.

  A `CXPLAT_FRE_ASSERT` stops the process if a connection id is longer than
  20 bytes or a preferred address is present.
- **Copy and cleanup (C5).** Copy takes the whole record and re-allocates
  `VersionInfo`. Cleanup frees `VersionInfo` and clears its flag.
- **ClientHello reader (C6, C7).** `ReadInitial` walks the framed handshake
  messages in the CRYPTO buffer. It returns `PENDING` while a message is
  incomplete. It parses each ClientHello's fixed fields and extensions:
  - at most one SNI, one ALPN and one TP extension per message;
  - the TP extension is decoded by C3 with `IsServerTP = FALSE`.

  `GetCompleteTlsMessagesLength` measures the complete messages at the front
  of a buffer.

### Interactions

- C7 calls C3 to decode the peer's TPs into `Connection->PeerTransportParams`.
- The encoder C4 produces what the peer's decoder C3 reads, so C3 ∘ C4 must
  be the identity on the records C3 produces.
- C5 copies records produced by C3, and C4 encodes them.
- C8 rewrites the `.c`/`.cpp` files of a tree. It must leave C9 alone: the
  header's own `#define QuicTraceEvent(Name, Fmt, ...)` is a call to the
  script's scanner.

### What is hard here

The code is single-threaded and synchronous: there is no interleaving to
explore. The hard behaviours are sequences of inputs and the failure paths:
- boundary values of every varint form and range;
- lengths that end exactly at, or one byte past, the buffer, or that wrap
  `uint16_t`;
- duplicate ids around the 64-id bitmap;
- allocation failures in the middle of a decode or copy;
- disagreement between the encoder's two passes;
- several ClientHellos, or partial messages, in one CRYPTO buffer.

`PROJECT.json` lists each hazard at its line.

### Correctness properties (from the code's comments and spec.md)

- The varint codec round-trips through the encoder and decoder (spec §8, property 1).
- The decoder never reads outside `[0, TPLen)` and always returns.
- It accepts exactly what the decoder contract of spec §4.5 accepts, with the
  same record.
- Encoding a record the decoder produced, then decoding it, returns the same
  record. Pass 2 never writes past the allocation.
- VersionInfo ownership: every buffer is freed exactly once and owned by one
  record (C5).
- The ClientHello reader never reads outside the region it was given, and
  the SNI and ALPN it hands out are slices of the input (spec §3, §4.2).
- `PENDING` is returned exactly when a message is incomplete, in agreement
  with `GetCompleteTlsMessagesLength` (spec §8, property 7).
- `SUCCESS` means an ALPN list and accepted transport parameters (spec §4.3,
  §4.4); the SNI and ALPN sub-parsers reject what spec §4.4 rejects.
- A failed decode leaves a valid record (spec §7): every flagged field is
  in range.
- The client random for the key log is the first ClientHello's Random field
  (spec C4).
- ReadInitial implements its whole-buffer contract (spec §4.3, §4.4):
  it returns the same outcome and the same server name and ALPN list. This
  holds with the SNI and ALPN grammars the code enforces, not with those of
  the spec.

## 2. Plan

1. **`QuicVarInt`** (done). Helpers over 62-bit values, represented as pairs
   of 31-bit limbs (TLC integers are 32-bit). They are checked through their
   users: the encoder run decodes what `QuicVarIntEncode` wrote (a mutant of
   `ByteAt` breaks it), and the decoder refinement compares every value.
2. **`TpDecoder` + `TpDecodeSpec`** (done).
   - The decoder is a state machine with one step per loop iteration.
   - `TpDecodeSpec` is the abstract contract: one step from "pending" to a
     result computed by the reference decoder `SpecDecode`, written from
     spec §4.5.
   - `MCTpDecoder` shows the refinement (`INSTANCE ... WITH result <-
     DecodeResult`).
3. **`TpEncoder`** (done). Both passes, one parameter per step.
   `MCTpEncoder` composes it with `SpecDecode` to check the round trip.
   Using `SpecDecode` as the decoder is justified by step 2's refinement.
4. **`TpLifecycle`** (done). A heap of VersionInfo buffers and three record
   slots; Decode (only its VersionInfo parts), Copy and Cleanup, each with
   allocation failure. Properties: no dangling pointer, exclusive ownership;
   the Copy-overwrite leak and the Copy out-of-memory state are violation runs.
5. **`ClientHelloReader`** (done). `ReadInitial` over a buffer of framed
   messages, one step per message and one per extension; the TP extension
   goes through `SpecDecode`. Findings: ALPN zero-length entries and the
   unchecked SNI list length. `ClientHelloSpec` is its contract: the
   outcome and Info for the whole buffer. It is stated declaratively:
   - message framing;
   - the layout of the ClientHello;
   - extension triples that tile the block;
   - each extension at most once;
   - the version's transport-parameter code;
   - ALPN present.

   `MCClientHelloReader` shows the refinement (`INSTANCE ... WITH result <-
   ReadInitialResult`).
6. **Incremental delivery.** The CRYPTO stream arrives in pieces, and
   `ReadInitial` is retried on each prefix. Its answer must be monotone:
   `PENDING` until it is complete, then a stable result.

## 3. Modules

| Module | Models | State / actions |
|--------|--------|-----------------|
| `QuicVarInt` | C1 | operators only: `QuicVarIntSize`, `QuicVarIntEncode`, `QuicVarIntDecode`, and 62-bit pair arithmetic (`ULt`, `ShiftIn`, `UMod31`) |
| `QuicTransportParams` | C2 | `TpId`, the limits, `TpZero`, `TpDefaults`; the record `[flags, val, bytes]` |
| `TpDecoder` | C3 | variables `TPBuf, IsServerTP, Offset, ParamsPresent, TransportParams, status`, plus the ghost `consumed` (the span of each parameter stepped over) |
| `TpDecodeSpec` | contract of C3 | `TPBuf, IsServerTP, result`; one `Decide` step |
| `ClientHelloSpec` | contract of C6, C7 | `Buf, IsDraft29, result` (`[status, sni, alpn]`); one `Decide` step computing `Ingest(0, Running)` |
| `FixScript` | C8 | `arg`, the disk `files`, find's `pending` list, the loop's `cur`, the Python scanner's `content, i, depth, result`, `pc`, and the ghost `orig` |
| `ReasonHeader` | C9 | operators only: the header's text as tokens (`ReasonPreamble`, `ReasonEnums`, `ReasonRundown`, `ReasonStubs`) |
| `TpTokens` | test inputs | about 60 encoded parameters at the edge of every rule |
| `TpEncoder` | C4 | `TransportParams, IsServerTP, TestParam, RequiredTPLen, TPBuf, i, status` |
| `TpLifecycle` | C5 | `VersionNegotiation, VersionInfo, VersionInfoLength` per record, and `heap` (each buffer "free" or "live") |
| `ClientHelloReader` | C6, C7 | the input `Buf`, `IsDraft29`, ReadInitial's cursor `Pos, Remaining`, ReadExtensions' cursor `ExtBase, ExtOff, ExtRemaining, ExtLength`, the seen-once flags, `Info` (`ServerName`, `ClientAlpnList` as `<<offset, length>>` slices), `PeerTransportParams`, `status`, `TlsSecrets->ClientRandom` as a slice, and the ghost `FirstRandom` |

`TpDecoder` actions:
- `Prepare` is lines 1022-1029.
- Three header exits: `IdTruncated`, `DuplicateId` and `BadLength`.
- One action per class of switch arm: `ConnectionId`,
  `StatelessResetToken`, `IntegerParam` (13 ids, from a table),
  `FlagParam`, `PreferredAddress`, `CibirEncoding`, `VersionNegotiation`,
  `EnableTimestamp` and `UnknownParam` (`default:`).
- `Finish` is the min/max ack-delay cross-check.
- `Returned` stutters once the call has returned.

In `IntegerParam`, the field is written before its range check, as in the
code. The alloc-failure branch of `VersionNegotiation` is its own disjunct.
`Payload` reads zero bytes past the end of `TPBuf`. The code would read
whatever memory follows; this only happens when the overrun check is wrong.

`TpEncoder` actions:
- `SizeParam` (pass 1, with the FRE_ASSERTs);
- `SizeTestParamAndCheck` (the test parameter and the UINT16_MAX limit);
- `Allocate` (may fail);
- `WriteParamStep` (pass 2);
- `WriteTestParamAndCheck` (the final length comparison).

The per-parameter layout is in `PayloadLength` and `WriteParam`, over the
table `EncodeOrder`, which lists the parameters in the code's order.

`TpLifecycle` actions, over records `Records` and heap addresses `Buffers`:
- `Decode(r, len)`: the decoder's preparation (free a non-NULL VersionInfo
  whatever the flags say, zero the record) and its VERSION_NEGOTIATION_EXT arm
  (allocate, which may return NULL; an empty blob sets the flag with a NULL
  pointer). The rest of the record is left out: no operation here reads it.
- `Copy(s, d)`: `*Destination = *Source`, then a new buffer when the flag is
  set; Destination's old buffer is not freed.
- `Cleanup(r)`: only when the flag is set.

`ClientHelloReader` actions, one per exit or iteration of the code's loops:
- `ReadInitial`: `MessagePending`, `NotClientHello`, then on a complete
  ClientHello `HelloInvalid`, `HelloNoExtensions` or `HelloExtensions`
  (`ReadClientHello` is an operator over the body, up to the call of
  ReadExtensions). `MessageDone` steps over the message and, at the end of
  the buffer, applies the ALPN-present check.
- `ReadExtensions`: `ExtensionTruncated`, `SniExtension`, `AlpnExtension`,
  `TransportParametersExtension` (the type code chosen by `IsDraft29`),
  `OtherExtension`, and `ExtensionsEnd` (transport parameters required).
- `ReadClientRandom`: the call the caller makes on the same buffer once
  ReadInitial has returned SUCCESS (the caller is outside the repository).
  It copies the 32 bytes at offset 6. The ghost `FirstRandom` records where
  `ReadClientHello` stepped over the Random of the first message.
- The SNI and ALPN walkers and `GetCompleteTlsMessagesLength` are RECURSIVE
  operators. `Info->ServerName` is set as soon as the walker meets the first
  host_name, even when a later entry fails, as in the code.
- Every read goes through `U8`, `TlsReadUint16` or `TlsReadUint24`, which
  return `OOB` outside the region the function was given; the call then
  ends in status "oob". Slices are offsets into `Buf`, so "inside the input"
  is checkable.

## 4. Runs

| Run | Cfg | Expect | What it shows |
|-----|-----|--------|---------------|
| decoder | `MCTpDecoder.cfg` | pass | `TypeOK`, `CursorWithinBuffer`, `LoopMakesProgress`, and refinement of `TpDecodeSpec` on every concatenation of ≤ 2 tokens × both roles (≈ 27 000 states) |
| decoder_strict_length | `MCTpDecoderStrict.cfg` | violation | the spec's exact-length varint rule: `01 02 05 00` (idle_timeout with a padded payload) is accepted |
| decoder_flags | `MCTpDecoderFlags.cfg` | violation | `FlaggedValuesInRange`: `50 00 02 01 00 50 00 02 00 00` (two CIBIR parameters, the second with length 0) is rejected with the CIBIR flag set and CibirLength 0 |
| encoder | `MCTpEncoder.cfg` | pass | every record a decode of ≤ 2 tokens accepts (each buffer decoded once by `SpecDecode`), with or without a test parameter, encodes without overflowing its allocation or asserting, and decodes back to itself (≈ 83 000 states) |
| encoder_min_ack_delay | `MCTpEncoderMinAckDelay.cfg` | violation | min_ack_delay 1500 µs with max_ack_delay 1 ms passes the encoder's assertion but is rejected by the decoder |
| lifecycle | `MCTpLifecycle.cfg` | pass | over any sequence of decodes, copies and cleanups of 3 records with 3 heap buffers, no VersionInfo pointer dangles and no two records share a buffer (225 states, with symmetry) |
| lifecycle_copy_leak | `MCTpLifecycleLeak.cfg` | violation | `NoLeak`: Copy onto a record that owns a buffer loses it |
| lifecycle_copy_oom | `MCTpLifecycleCopyOom.cfg` | violation | `VersionInfoOwnedWhenFlagged`: a Copy whose allocation fails leaves the destination flagged with a length and a NULL pointer |
| client_hello | `MCClientHelloReader.cfg` | pass | on about 6100 CRYPTO buffers, ReadInitial never reads outside its regions (`NoReadPastBuffer`), hands out slices inside the input (`BorrowedSlicesInBuffer`), returns PENDING exactly at the first incomplete message (`PendingAtFirstIncompleteMessage`), returns SUCCESS only with an ALPN list and accepted transport parameters (`SuccessMeansTransportParameters`), and the key-log random is the Random field of the first ClientHello, inside the buffer (`ClientRandomOfFirstHello`). It also checks that ReadInitial refines `ClientHelloSpec` (`ReadInitialRefinesSpec`, `StrictSubParsers` FALSE). The refinement mapping sends a walking reader to `Running` and a returned reader to its status. On success the outcome also carries `ServerName` and `ClientAlpnList`. (≈ 24 000 states) |
| client_hello_returns | `MCClientHelloReaderReturns.cfg` | pass | under weak fairness `ReadInitial` returns on every buffer whose ClientHellos carry at most one extension (about 580 states) |
| client_hello_strict | `MCClientHelloReaderStrict.cfg` | violation | `ReadInitialRefinesStrictSpec`: the refinement of `ClientHelloSpec` with `StrictSubParsers` TRUE (spec 4.4's SNI and ALPN grammars) fails. TLC reports a ClientHello whose ALPN payload `00 03 00 01 68` has a zero-length first entry and succeeds. With the ALPN rule relaxed, the same run reports an SNI list whose outer length is not the payload's |
| fix_script | `MCFixScript.cfg` | pass | on every source text of up to 4 tokens and four longer ones, the script rewrites each file exactly as `Stripped` says (`StripMatchesReference`). On `Done.`, every `.c`/`.cpp` file is stripped and every other file, `reason.h` included, is untouched (`CleanedExactlySources`). A quoted file name ends the script before `Done.`, and the script always ends (`ScriptTerminates`) |

`FixScript` actions, one per step of the script and one per iteration of
the scanner's loops:
- `Start`: lines 4-14 (no argument, or not a directory, exits) and `find`'s
  filter (`IsSource`: `*.c` and `*.cpp`).
- `Skip`: `read -r` yields a file that `grep -q` finds no `QuicTraceEvent` in.
- `Read`: grep matches and `python3 -c` reads the file. `PyFail`: python3
  fails before writing (a file name with a quote breaks the pasted
  program), and `set -e` (`ErrExit`) ends the script.
- `Match` (line 27's 15-character test, `CallAt`), `ArgStep` (lines 30-35),
  `ArgsEnd` (the `';'` skip and `'(void)0;'`), `Copy` (lines 39-41) and
  `Write` (lines 43-46).
- `Finish` prints `Done.`; `Ended` stutters.

Text is a sequence of tokens: `(`, `)`, `;`, the name `QuicTraceEvent`,
and one `Other` token for any other run of characters. The scanner tells
apart nothing else, so the 15-character test is "a `QuicTraceEvent` token
followed by a `(` token". `Stripped` is the reference: a RECURSIVE operator
that replaces each call, from its name to the shortest balanced prefix of
what follows (or the end of the file), plus one `;`.

Each property of a passing run has a mutant in `PROJECT.json`: a fault
variant of a mapped definition that the run catches. Examples:
- an `Id <= 64` duplicate check (a shift by 64);
- an overrun check off by one;
- high varint bytes left unmasked;
- no duplicate detection;
- the cursor advanced from the id instead of the payload;
- swapped timestamp bits;
- a CIBIR payload sized as one varint;
- Copy without duplicating the buffer, Cleanup freeing without clearing;
- the SNI walker without its name-length or its length-field check;
- ReadInitial's completeness test with `<=`; the final TP check dropped;
- an extension's header not stepped over.

### Bounds

- **Decoder and encoder inputs.** These are concatenations of at most 2
  tokens from `TpTokens`. Every rule is hit at its boundary:
  - each range bound and the value one past it;
  - connection ids of 0, 20 and 21 bytes;
  - reset tokens of 15 and 16 bytes;
  - an overrun by one byte and a length that wraps `uint16_t`;
  - padded varints, truncated headers and reserved/unknown ids.

  Two tokens are enough for the only cross-parameter rules:
  - duplicates;
  - min_ack_delay against max_ack_delay;
  - a parameter following another one.

  Three tokens take 2.5 minutes, spent in enumerating the inputs.
- **Lifecycle.** Three records and three buffers: enough for a copy onto a
  record that owns a buffer while a third holds another, and for every
  buffer to be live at once (so an allocation can only fail). VersionInfo
  lengths 0, 1, 2 and absent separate the empty-blob and allocation paths.
- **ClientHello inputs** (`MCClientHelloReader`). A ClientHello with every
  block of up to three extensions from 14 tokens: good, duplicate-prone and
  malformed SNI (empty list, name past the list, missing length, two names
  with a non-host first), ALPN (zero-length entry first or last, outer length
  mismatch, entry past the list), TP good, rejected, and of the draft code,
  and an unknown type; blocks ending in a cut header or an overrunning
  length; a ClientHello failing each skeleton check; every prefix of a good
  message; a message of another type; and six two-message buffers. Three
  extensions are enough for every pair of arms to meet, a duplicate after a
  different extension, and the TP check at the end; both QUIC versions are
  taken in `Init`.

- **fix.sh** (`MCFixScript`). The tree holds four files:
  - `conn.c`, with every text of up to four tokens and four longer ones: a
    nested call, a call that never closes, `QuicTraceEventEnabled(`, and a
    name glued to a call;
  - `api.cpp`;
  - `log'.c`, with a quote in its name, holding either a call or no mention;
  - `reason.h`.

  The script is run with no argument, with a non-directory and with a
  directory. Four tokens already give every order of `(`, `)`, `;` and the
  name around a call, and every end-of-file cut.

### Fairness

None is assumed. The decoder and encoder are straight-line calls. Instead of
a `<>Done` liveness property, termination is stated as:
- the action property `LoopMakesProgress`: each loop iteration moves `Offset`
  strictly forward, within `TPLen`;
- deadlock checking, which stays on: `Returned` is the only step of a
  returned call, so a stuck state would be reported.

These two imply that every decode returns.

`ClientHelloReader` states termination as liveness: `ReadInitialReturns`
(`<>Done`) under `FairSpec`, weak fairness of `Next`. `ReadInitial` runs to
completion on its caller's thread without blocking, so a step that stays
possible is taken. The property matters because the code's loops spin
forever, without changing any state, if an iteration fails to step over an
extension's header; an action property cannot see a step that changes
nothing. The liveness run uses blocks of at most one extension: the
reference decoder evaluated under fairness checking is slow, and one
extension of each kind already exercises every arm's advance. `FixScript` is one process that never waits on another, so `Spec` has weak
fairness of `Next`. `ScriptTerminates` says it ends: both scanner loops stop
at the end of the file.

`TpLifecycle` has no liveness to state: its operations are calls a
caller may or may not make.

## 5. Findings

1. **The padded varint is accepted** (spec/code divergence, line 1058).
   `TRY_READ_VAR_INT` bounds the varint by the parameter length but does not
   require it to fill the parameter. Spec §4.5 says it does. CIBIR and
   enable_timestamp are affected the same way.
2. **A rejected record can be left inconsistent** (spec/code divergence,
   line 1240). The CIBIR arm writes CibirLength before checking it, and ids
   of 64 and above are never duplicate-checked. A second CIBIR parameter
   that fails its check therefore leaves the flag of the first one set over
   a length of 0. Spec §7 says a failed decode leaves the record in a valid
   state. The run `decoder_flags` shows it with `FlaggedValuesInRange`.
   (A failed VersionInfo allocation also makes the decode succeed without
   the parameter. `TpDecodeSpec` allows this because the spec is silent on
   it; the lifecycle run checks that nothing dangles afterwards.)
3. **The encoder's min_ack_delay assertion is weaker than the decoder's check**
   (line 745). The assertion is `US_TO_MS(min) <= max`, and US_TO_MS
   truncates. The decoder checks `min > MS_TO_US(max)`. A locally built
   record can therefore be encoded into bytes every decoder rejects.

4. **Copy leaks Destination's buffer** (line 1337). `*Destination =
   *Source` overwrites a VersionInfo that Destination owned; the spec says
   it is released exactly once on overwrite.
5. **Copy out of memory leaves a half-copied record** (line 1341). The
   destination keeps Source's flag and length with a NULL VersionInfo; the
   spec says an error path never partially mutates the caller's record.
6. **The SNI list length is never compared with the payload** (line 188).
   The parser checks only that it is at least 3. Spec 4.4 says an empty list
   or any truncation is rejected.
7. **ALPN accepts zero-length entries** (line 280), unless the entry is the
   last one. Spec 4.4 says zero-length entries are rejected.

   Both are shown by `client_hello_strict`. The passing `client_hello` run
   refines the same contract with the code's looser grammars, so these two
   rules are the only difference between the code and the contract.

## 6. Not modelled

- **Incremental delivery** (plan step 6). Each call of `ReadInitial` is on a
  whole buffer; the caller that retries on longer prefixes is outside the
  repository. Every prefix of a good message is among the inputs. The state
  a retry redoes is the decode into `Connection->PeerTransportParams`. Its
  second decode frees what the first one allocated; `TpLifecycle`'s `Decode`
  on a record that owns a buffer covers this.
- **`src/src/core/reason.h` as C.** The header holds a bit enum that
  nothing in the repository uses, trace enums, and trace macros that expand
  to `do { } while (0)`. None of this has state or control flow to model. Its
  text is modelled (`ReasonHeader`) as an input of `fix.sh`.
- **`src/unnamed/part_000`.** This git auto-commit script only runs git and
  file-system commands; it has no state of its own to check.
- **File names and string literals in `fix.sh`.** File names are model
  values. The effect of a quote in a name is the `PyFail` step. Names that
  `read -r` would mangle (leading blanks, newlines) are not modelled. The
  scanner counts parentheses inside string literals and comments like any
  others. The tokens do not tell these apart, and no source says what the
  script should do with them.
- **The `RequiredTPLen > UINT16_MAX` branch.** It needs a record with a
  65 KB blob. TLC explores such a record in seconds: a 65535-byte decoded
  VersionInfo reaches both the limit and a full-size return. But writing out
  a counterexample through such states takes about 80 s per state, so no
  run keeps it. The `(uint16_t)` cast on the VersionInfo length is in the
  model and is checked on small records.
- **The contents of connection ids, tokens and VersionInfo.** Only their
  lengths and a byte or two matter to the code's decisions.
- **The CxPlatTlsTPHeaderSize prefix of the encoder's buffer.** It is left
  out, because the code never reads it.
- **`CXPLAT_DBG_ASSERT`s.** They are compiled out of release builds. The one
  on min_ack_delay is used only as the encoder's stated precondition
  (`MinAckDelayAsserted`).
