# Formal models of imessage-client

TLA+ models of the Go client under `src/imessage-client`. The models are
model-checked with TLC and, where it pays, proved with TLAPS.

## The system

The client is a command-line program (`cmd/`). It loads registration data
(`config`), opens a `messaging.Session` and fetches unread messages. The parts,
and how they interact:

| Part | Source | State and operations |
|---|---|---|
| Wire codec | `messaging/apns/binary.go`, `unnamed/part_002` | Pure functions. `Payload.ToBytes` writes `[cmd:1][len:4]` and then TLV fields `[id:1][len:2][value]`. `UnmarshalBinaryStream`, `UnmarshalBinary` and `unmarshalFieldsFromBytes` parse it back. The command structs translate to and from payloads. |
| Courier connection | `messaging/apns/connection.go` | `Connection` holds the key, the certificate, the token, `conn` and `messageHandler`. Its operations are `NewConnection`, `SetMessageHandler`, `Connect` (identity checks, dial, write the connect command, read and check the ack), `Filter`, `SetState`, `Close`, and the `ReadLoop` goroutine (check ctx, read a frame, dispatch it). |
| Session | `unnamed/part_004`, `messaging/store.go` | `Session` holds the registration, the store, the handshake state, `messageChan` and the read-loop cancel. Its operations are `Connect`, `FetchUnread`, `ensureHandshake`, `startAPNS`, `handleAPNSMessage` (called by ReadLoop), `FetchMessages` (drains the channel), `filterUnread`, `updateStore` and `Close` (cancel the loop, close the connection). |
| Handshake | `messaging/handshake_real.go` | Generates keys, registers with IDS over HTTP, checks the response shape, and builds an `apns.Connection` with a nil certificate and an empty token. |
| IDS client | `messaging/ids/*.go`, `unnamed/part_000` | HTTP requests and plist responses, with a status-code table. |
| Decryptor | `messaging/decrypt.go` | `ParseBody`, which parses `[tag][len:2][body][siglen:1][sig]`, then RSA, AES-CTR, gzip and plist. |
| Config, CLI | `unnamed/part_005`, `part_003`, `part_006`, `part_007`, `cmd/` | Loading files, flags and printing. |

Two goroutines share a `Connection`: the caller's, and ReadLoop's, which
`startAPNS` starts. They share it with no lock. Three parties act on its
socket: the caller, the loop and the courier server.

## Modules

### Courier.tla: the courier connection

State (VARIABLES), and what each corresponds to in the code:

| Variable | Code |
|---|---|
| `identity` | `privateKey != nil`, `deviceCert != nil` |
| `token` | `c.token`. `EmptyToken` is `[]byte{}`. |
| `conn` | `c.conn`: 0 is nil, otherwise the number of the socket it holds. |
| `sock` | Each socket a dial made (`Socks == 1..MaxConnects`): `unopened`, `open`, `broken` or `closed`. A second `Connect` opens a new socket and leaves the old one as it was. |
| `rsock` | The socket `readPayload` took from `c.conn` when it was called; a blocked read stays on it. |
| `handler` | `messageHandler != nil` |
| `inbox`, `wire` | The bytes in flight: per socket from the server, and from the client, as sequences of frames (records). |
| `caller` | `"awaitAck"` while `Connect` is blocked reading the ack. |
| `lastErr` | What the caller's last call returned. |
| `loop`, `frame` | ReadLoop's program counter and the payload it holds. |
| `ctxDone` | The loop context is cancelled. |
| `handled` | The payloads given to the handler. |

The ghost variables are `acked`, `kaSeen` and `afterCancel`. The bounds are
`connects`, `sent` and `writes`, named by `MaxConnects`, `MaxFrames` and
`MaxWrites`.

Actions:
- `Init` is `NewConnection`, for any identity and token.
- `Connect` is split at its one blocking point:
  - `ConnectDial` covers the checks, the dial (a new socket, assigned to `c.conn`) and the write.
  - `ConnectAck` covers the read of one frame from `c.conn` and the checks on it.
- `WriteCommand` is the shared shape of `Filter` and `SetState`: the guard `c.conn == nil`, then `write`, which fails on a broken or closed socket.
- `Close` closes the socket `c.conn` holds, if any, and no other.
- `StartReadLoop` and `Cancel` are `startAPNS`'s `go ReadLoop` and `Session.Close`'s cancel.
- The loop is `LoopCheck` (the select on `ctx.Done()`), `LoopRead` (`readPayload`: `ErrNotConnected` on a nil `c.conn`, otherwise a read that blocks on the socket it took), `LoopReceive` (the read returns: an error on a socket that is not open ends the loop, a malformed frame ends it too, otherwise the frame is dispatched) and `LoopDispatch` (the switch on the command id).
- The server is `ServerSend` (on any open socket it writes any frame the reader can produce: an ack of either status, with or without a token, a send-message, a keep-alive, an ignored ack, an unknown id, or `Malformed`, a frame whose TLV lengths overrun) and `NetFail` (a reset or write deadline).

Bytes are abstracted: a frame is a record with a command id, an ack status, a
token and a payload. The codec is modelled byte by byte in `WireCodec.tla`.

### WireCodec.tla: the frame codec

Operators over byte strings (sequences of 0..255), one per Go function:
`ToBytes` (with `FieldBytes` for one field and its `uint16` length word),
`UnmarshalBinaryStream` (with `FrameSize`, the bytes it takes from a stream),
`UnmarshalBinary`, `UnmarshalFieldsFromBytes` (a recursive function over the Go
index `i`), `FindField`, `FlagBytes` and the command structs' `ToPayload` and
`FromPayload`. A decode ends in `Decoded(p)`, `DecodeError` or `DecodePanic`.
Recursion is written as recursive functions in a LET, never as RECURSIVE
operators.

### WireStream.tla: one direction of the socket

`stream` holds the bytes in flight; `written` the payloads `write` has sent;
`decoded` what `readPayload` has returned. `Write(p)` appends `ToBytes(p)`;
`Read` takes one whole frame and decodes it. `WF_vars(Read)`: the read loop
keeps reading while a whole frame is buffered.

### Envelope.tla: ParseBody

`ParseBody` with the `uint16` offsets of the code (`U16`), its three errors and
its panics (a Go slice or index out of range), and `EnvelopeLayout`, the layout
of spec section 6 with unbounded integers, to compare it with.

### Probe.tla, EnvelopeProbe.tla, ByteProbe.tla: every short buffer

`Probe` is a harness and not a part of the code: `buf` grows by one byte of
`ProbeBytes` per step up to `MaxProbe`, so TLC sees every buffer of those
bytes up to that length, and the invariants are checked on each one.
`EnvelopeProbe` applies `ParseBody` to `buf` (`ParseBodyMatchesLayout`,
`MissingBodyReported`); `ByteProbe` applies the codec's `UnmarshalBinary`
(`DecodeIsExact`). They are two modules so that the proofs about the envelope
do not depend on `WireCodec` and its recursive-function decoder.

### Session.tla: FetchUnread, the channel and the store

One `Session`, used by a caller that calls `FetchUnread` repeatedly, while the
read loop calls `handleAPNSMessage`. Variables and their code:
- `hs` is `s.state` (nil or set by `ensureHandshake`). `loop` is whether
  `startAPNS` has a read loop running. `chan` is `messageChan`'s buffer, of
  capacity `ChanCap`.
- `phase`, `batch`, `unread`, `todo`, `chatLatest` and `pending` are the locals
  of `FetchUnread` → `FetchMessages` → `filterUnread` → `updateStore`, at the
  point of the call the caller is in.
- `lastSeen` is the Store's map. With `FileBacked`, a `FileStore` loaded from
  disk starts at any times. Without it, a `MemoryStore` starts at zero.
- Ghosts: `loaded` (the store at the start), `produced`, `dropped` (the
  "message channel full" branch) and `reported` (each summary returned, with
  the call that returned it).

The actions are `HandleAPNSMessage` (a non-blocking send: append, or drop when
the buffer is full) and `HandshakeFails`/`FetchStart` (`ensureHandshake`).
`DrainOne` is one receive of the drain loop. `DrainDone` is its `default`
branch together with `filterUnread`. `FoldLatest` is one iteration of
`updateStore`'s first loop, and `LatestDone` ends that loop. `SetLastSeen` is
one iteration of the second loop, in any order, since Go's map order is random.
It includes `FileStore.save`, which may fail after the time is stored.
`UpdateFails` is the error return, and `UpdateDone` returns the summaries.

Two modelling choices follow the code and not the spec:
- The code never makes `messageChan`: it is nil, so every send takes the
  `default` branch, which is `ChanCap = 0`. The runs use `ChanCap = 2`, so
  that the drain, filter and store logic is exercised on the messages a
  `make(chan *Message, 2)` would carry.
- No code calls `startAPNS`. `StartAPNS` is an action of its own, so that the
  rest can be checked.

`Connect`'s argument checks are not actions: `Init` is the session it returns.
Time is a clock `1..MaxTime` that `Tick` advances. Ties are possible, so
`After`'s strictness matters.

`StoreUpdate.tla` is what `FetchUnread` promises of the store, with the
channel, the drain and the first loop hidden. A call is refused (`Refuse`) or
begins (`Begin`). It then takes at once (`Take`) a set of messages newer than
the store's time for their chat, with their latest time per chat
(`Latest(f, S)`: an upper bound that one of them attains, or 0). It stores
those times one chat at a time (`Store`, with the same failures as
`SetLastSeen`), and reports what it took (`Report`). `Session` maps onto it
as follows:
- `StorePhase` shows `drain` and `latest` as `"fetch"`;
- `TakenUnread` and `TakenLatest` show `unread` and `chatLatest` only while
  the second loop runs.

So `LatestDone` is `Take`, and the drain and the first loop are stutters.

### MCSession and its cfgs

Chats are `{c1, e}`, where `e` is the empty chat that `SetLastSeen` refuses.
`ChanCap = 2` lets a full channel drop a message while another is kept.
`MaxTime = 3` gives a stored time that is later, equal or earlier. With
`MaxMsgs = 3` and `MaxFetches = 3`, a message can arrive during a drain, after
it, and between two fetches. `MCSession.cfg` uses a FileStore: a stored time
that starts later than the clock, and saves that fail. It reaches 454,197
distinct states in about 5 seconds. `MCSessionLoss.cfg` uses a MemoryStore, so
the loss it shows does not depend on disk errors.

### MCCourier.tla and its cfgs

MCCourier has one payload, one token and the four non-ack inbound commands
that matter to the loop. `MCCourier.cfg` has `MaxConnects = 1`, `MaxFrames = 3`
and `MaxWrites = 1`: one connect is the program's own use (`startAPNS` connects
once), three frames allow an ack, a send-message and a keep-alive in one run,
or a failed ack followed by more traffic, and one write shows a write on an
unacked socket. It reaches 343,574 distinct states. `MCCourierReconnect.cfg`
has two connects and two frames and no writes: the smallest instance in which
a loop can block on a socket that `c.conn` no longer holds.

### Orchestrator.tla: from the command to the session

How a caller reaches the session: the `RunE` of `check-messages` and `send`
(`CheckMessagesStart` and `SendStart`: `LoadRegistration`, whose failures are
`LoadRegistrationFails`, the expiry check, `NewFileStore`, and for `send` the
`--chat` check), a Go caller's `Client.PollUnread`/`Client.Send`
(`LibraryCall`), `messaging.Connect` (`Connect`: validation data, expiry, a
session with a nil state), `Handshake` up to the request (`KeyGen`), the
register call (`SendRegister`), and the IDS side (`IDSReply` with any response
of `Replies`, `TransportFails`, or no answer at all). `Timeout` is the
`http.Client`'s 30-second timeout; `HandleReply` is the rest of `Register` and
`Handshake`, checking in the code's order (`ReplyError`) and setting the
handshake state. `Send` then returns `ErrNotImplemented`. `clock` and
`validUntil` are `time.Now()` and `reg.ValidUntil`. `MCOrchestrator.cfg` has
`MaxTime = 2` (a registration can expire during a call) and `MaxCalls = 2` (a
library caller calls twice); it reaches 42,870 distinct states.

`ClientCall.tla` is what a caller is promised, with the network, the clock
and the registration file hidden. A command either refuses before its one
call (`Refuse`, with `LoadRegistration`'s, the expiry check's, the store's or
the `--chat` error) or makes it (`Begin`); a Go caller makes up to
`MaxCalls` calls. Each call begins on a session with no certificate and ends
in `Fail` (one of `CallErrors`, no certificate) or `Succeed` (a certificate
that parsed; `"ok"` for `PollUnread`, `NotImplemented` for `Send`).
`Orchestrator` maps onto it through `Phase` (every pc inside a call is
`"busy"`) and `CallCert` (while `Connect` has not run, the call's session
does not exist yet, so its certificate is `"none"`); `ImplementsClientCall`
is `CC!Spec`.

### StoreFile.tla and LastSeenStore.tla: the store across runs

`StoreFile` models the `FileStore` as successive runs of `check-messages` use
it. Each run is a process: `Load` (`NewFileStore`/`load`: a missing file is an
empty store, a file that does not decode fails the command), `SetLastSeen`
(the new time, and `save` begins), `SaveOpen` (`MkdirAll` and `OpenFile` with
`O_TRUNC`: either fails, or the file is now empty), `SaveWrite` (`Encode`
writes the whole map or fails), `Finish` and `Crash`. `disk` is the file
(absent, a JSON map, or torn), `mem` each run's `f.seen`, and the ghost `good`
the last map written whole. The constant `Overlap` says whether a run may load
before the previous one has ended; the code takes no lock, and the spec says
nothing of concurrent runs.

`LastSeenStore` is what the store promises: a map `saved`, and runs that,
one after the other, copy it (`Start`) or fail to open it (`Refuse`), raise
their copy (`Advance`), put it back in one step (`Save`) and end. `StoreFile`
implements it under the mapping `saved <- good`, `view <- mem`, and `run <-
RunOf` (new, ended, or active in between). `SaveOpen`'s truncation is a
stutter: the torn file is not a state of the abstract store, and the
refinement holds because a torn file is never loaded (`load` refuses it).
`MCStoreFile.cfg` has two chats, three runs and `MaxTime = 2`: a run can
follow a crash, a failed open and a failed write, and a later run sees what
they left. It reaches 37,168 distinct states.

### MCWireStream, MCEnvelopeProbe and MCByteProbe

`MCWireStream` writes the four commands the client sends, at their real sizes:
a Connect with a 32-byte token, a 300-byte certificate (its length word needs
two bytes), a 20-byte nonce and a 160-byte signature; a FilterTopics with two
20-byte hashes; a SetState; a KeepAlive. `MaxWrites = 4` interleaves writes
and reads in every order. `MCByteProbe` probes the codec over `{0,1,2}` up to
7 bytes (every length word that fits, every field overrun and every
trailing-byte case). `MCEnvelopeProbe` probes `ParseBody` over `{0,1,2}` up to
7 bytes, and over `{0,252,255}` up to 6 bytes for the `uint16` wrap of
`ParseBody`, which needs a declared body length of at least 65532.

## Runs

| Run | cfg | Result |
|---|---|---|
| `courier_core` | `MCCourier.cfg` | Passes. It checks `TypeOK`; `KeepAliveAnswered` (every keep-alive read is answered before the next read); `CancelStopsWithinOneFrame` (after cancel the handler runs at most once); and `LoopStopsAfterClose` (liveness: after `Close` the loop ends unless the caller reconnects). |
| `courier_filter_before_ack` | `MCCourierFilter.cfg` | Violates `FilterOnlyWhenActive`. `Connect` stores `c.conn` before it checks the ack, so after a failed ack `Filter`/`SetState` still write. Spec §4.2 says they require Active. |
| `courier_close_after_reconnect` | `MCCourierReconnect.cfg` | Violates `LoopStopsAfterClose`. The loop blocks reading socket 1; the caller connects again (socket 2, socket 1 left open); `Close` closes socket 2 only, and the loop stays blocked forever. Spec §4.2 says a blocked read errors on Close. |
| `orchestrator_core` | `MCOrchestrator.cfg` | Passes. `TypeOK` includes that a session's state only ever holds a certificate that parsed; `CallsReturn`: every call and command returns, even when IDS never answers. `ImplementsClientCall`: the caller implements `ClientCall`. |
| `store_runs` | `MCStoreFile.cfg` | Passes. `ImplementsLastSeenStore`: successive runs with crashes and failed saves implement the atomic store. |
| `store_torn` | `MCStoreFileTorn.cfg` | Violates `StoreLoadable`: a crash or a failed `Encode` after the truncation leaves a file every later run refuses. |
| `session_core` | `MCSession.cfg` | Passes, 454,197 states. It checks `TypeOK`. `ReportsNewerThanEarlier`: a message `FetchUnread` returns is later than every message of its chat that an earlier call returned. `StoreNeverRegresses`: no step moves a chat's last-seen time back, even when `updateStore` fails halfway. `ImplementsStoreUpdate`: `FetchUnread` implements `StoreUpdate`. |
| `session_store_error` | `MCSessionLoss.cfg` | Violates `NoMessageLost`. A message of the empty chat is drained, and `SetLastSeen("")` fails. `FetchUnread` returns the error, and every drained message is gone. |
| `wire_stream_roundtrip` | `MCWireStream.cfg` | Passes, 1593 states. `RoundTrip`: what the reader decodes is, in order, a prefix of what was written. `EveryFrameRead`: every frame written is eventually read. |
| `envelope_parse` | `MCEnvelopeParse.cfg` | Passes, 3280 states. `ParseBodyMatchesLayout`: on short buffers `ParseBody` agrees with the layout. |
| `envelope_wrap` | `MCEnvelopeWrap.cfg` | Violates `MissingBodyReported` at `<<0,255,252,0>>`: the length 65532 wraps and the body slice panics. |
| `codec_trailing_bytes` | `MCByteProbeExact.cfg` | Violates `DecodeIsExact` at `<<1,0,0,0,1,0>>`: one byte left over is accepted. |

Every property of a passing run has a mutant, written just above the
definition it replaces, and TLC kills each one:
- `LoopCheckIgnoringCtx` breaks `CancelStopsWithinOneFrame`.
- `LoopReceiveBlockingOnClose` (a read on a closed socket that does not fail) breaks `LoopStopsAfterClose`.
- `LoopDispatchIgnoringKeepAlive` breaks `KeepAliveAnswered`.
- `LoopDispatchHandingFrame` breaks `TypeOK` of Courier.
- `HandleReplyIgnoringParse` (the `ParseCertificate` error dropped) breaks `TypeOK` of Orchestrator.
- `TimeoutNever` (an `http.Client` without `Timeout`) breaks `CallsReturn`.
- `LoadTreatingErrorAsEmpty` (a torn file loaded as an empty store) breaks `ImplementsLastSeenStore`.
- `UnmarshalFieldsFromBytesOffByOne` (a value sliced one byte early) breaks `RoundTrip`.
- `ToBytesCountingHeader` (a length word that counts the header) breaks `EveryFrameRead`.
- `ParseBodyShortBody` (a body sliced one byte short) breaks `ParseBodyMatchesLayout`.
- `HandleAPNSMessageOverfilling` (a send into a full buffer) breaks `TypeOK` of Session.
- `DrainDoneNotBefore` (`!Before` in place of `After`: ties kept) breaks `ReportsNewerThanEarlier`.
- `DrainDoneUnfiltered` (no `filterUnread`) breaks `StoreNeverRegresses`.
- `ConnectKeepingSession` (a call handed the previous call's session) breaks `ImplementsClientCall`.
- `FoldLatestOverwriting` (the first loop of `updateStore` without the `After` check) breaks `ImplementsStoreUpdate`.

## Fairness

Courier's `Spec` has `WF_vars(Loop)`: the Go runtime eventually runs a
runnable goroutine, so the read loop keeps taking steps while it can. The
caller and the server get no fairness: nothing in the code forces the caller
to call anything, or the server to send. Orchestrator's `Spec` has
`WF_vars(Call)`: the caller's goroutine runs while it can, and `Timeout` is in
`Call` because the `http.Client`'s timer fires by itself. IDS, the network and
a Go caller's next call get none. StoreFile and LastSeenStore are checked for
safety and refinement only, with no fairness.

## Proofs (CourierProofs.tla)

All of these hold for every value of the constants, under `CourierAssumption`:

- `TypeCorrect`: `Spec => []TypeOK`. It goes through `TypeInv`, which adds
  `SockRefs` to `TypeOK`: while the caller awaits the ack, `c.conn` names a
  socket, and while the loop is blocked, the socket it reads is one of
  `Socks`. `TypeOK` is split into `FlagsTypeOK` (the Boolean variables,
  proved with Zenon) and `DataTypeOK` (proved with SMT, one case per action,
  `LoopReceive` split by its outcomes). It rests on the lemmas
  `AppendClientFrame`, `ReadInbox`, `ReadSocket`, `SendMessageCarriesPayload`
  and `WriteCommandType`.
- `CancelBound`: `Spec => []CancelStopsWithinOneFrame`. The invariant alone is
  not inductive. The strengthening is `CancelInv`: once the handler has run
  after the cancel, `ctxDone` holds and the loop is at `check` or `done`, so it
  can neither read nor dispatch again.
- `KeepAlivesAnswered`: `Spec => []KeepAliveAnswered`. The strengthening is
  `KeepAliveInv`: while dispatching a keep-alive the loop owes exactly one
  reply. It rests on `KeepAlivesAppend`, the count of keep-alives in
  `Append(w, x)`, proved from `FS_AddElement`.

Only TLC checks the following:
- The liveness property `LoopStopsAfterClose`. Fairness and ENABLED are out of
  TLAPS's reach.
- The violated properties, which are findings and not theorems.

## Proofs (SessionProofs.tla)

These hold under `SessionAssumption`, for every set of chats, every capacity,
either store and every bound:
- `TypeCorrect`: `Spec => []TypeOK`, one case per action (`TypeStep`).
  It includes that the buffer never exceeds `ChanCap`.
- `ReportsOrdered`: `Spec => []ReportsNewerThanEarlier`.
- `StoreMonotone`: `Spec => StoreNeverRegresses`.
- `StoreRefinement`: `Spec => ImplementsStoreUpdate` (below).

`ReportsNewerThanEarlier` is not inductive: a step of `updateStore` must know
that what it stores is ahead of all that was reported. The strengthening
`StoreInv` adds these facts:
- a reported message is never later than its chat's last-seen time
  (`SeenCoversReports`);
- during a call, every report is from an earlier call (`EarlierFetches`);
- the filtered messages are later than the store, and so later than every
  report (`UnreadAfterReports`);
- `chatLatest` is ahead of the store, and covers the messages already folded
  (`LatestAhead`, `LatestCovers`);
- the chats already stored cover their messages (`StoredCovers`);
- the chats still pending are ahead of the store (`PendingAhead`);
- nothing is filtered outside a call (`IdleEmpty`).

TLC checked `StoreInv` as an invariant on the 454,197 states of `session_core`
before it was proved. The same invariant also gives `StoreNeverRegresses`. The
only write is `SetLastSeen(c)`, which stores `chatLatest[c]`, and
`PendingAhead` says this value is ahead.

`StoreRefinement`: `Spec => ImplementsStoreUpdate`. `StoreInv` is not enough
for it, because `Take` needs `chatLatest` to be exactly the latest time per
chat, not only a bound. `RefInv` adds two facts:
- `LatestAttained`: during the first loop, each nonzero entry is the time of
  a visited message (`FoldAttains`);
- `PendingOnlyInUpdate`: outside the second loop no chat is pending, as
  `Begin` requires.

TLC checked `RefInv` on the 454,197 states of `session_core` before it was
proved. `StoreStepRefines` maps each step:
- `HandshakeFails` to `Refuse` and `FetchStart` to `Begin`;
- `LatestDone` to `Take` (`LatestDoneTakes`: with `todo = {}`,
  `LatestCovers` and `LatestAttained` are `Latest(chatLatest, unread)`, and
  `LatestAhead` puts every message above the store);
- `SetLastSeen` to `Store` and `UpdateDone` to `Report`;
- every other step to a stutter.

## Proofs (StoreFileProofs.tla)

These hold under `StoreFileAssumption` (runs are numbered by naturals), for
every set of chats, every set of runs and every time bound:
- `TypeCorrect`: `Spec => []TypeOK`.
- `SavedMonotone`: if runs do not overlap, `Spec => SavedNeverRegresses`.
- `Refinement`: if runs do not overlap, `Spec => ImplementsLastSeenStore`.

The argument is the inductive invariant `Inv`, the conjunction of:
- `TypeOK`;
- `FileMatches`: unless the file is torn, it holds `good`;
- `AheadOfFile`: a working run's map is, chat by chat, at least `good`;
- `InTurn`: a run that has loaded comes after runs that have all ended.

`InTurn` gives `OneWorking` (two runs are never working at once), so when a
run writes its map no other run's map needs to be ahead of it.
`FileMatches` is what makes `Load` a `Start` of the abstract store: a run
that loads gets `good`, the abstract `saved`. `AheadOfFile` makes a save
monotone. With these, each step maps to an abstract one (`StepRefines`):
`Load` to `Start` or `Refuse`, `SetLastSeen` to `Advance`, a successful
`SaveWrite` to `Save`, a failure, `Finish` or `Crash` to `End`, and the
truncation (`SaveOpen`) to a stutter. `Init` maps to `LSS!Init`. TLC checked
`Inv` on the 37,168 states of `store_runs` before it was proved.
`SavedMonotone` and `Refinement` need `~Overlap`: with overlapping runs the
later save overwrites the earlier run's chats, and TLC finds that at once.

## Proofs (EnvelopeProofs.tla)

- `ParseBodyCorrect`: for every byte sequence `p` with `OffsetsFit(p)`,
  `ParseBody(p) = EnvelopeLayout(p)`. The proof follows the code's branches:
  a short header; a missing body; and the signature-length read, which splits
  into a missing signature or a parse. `OffsetsFit` says that the two sums the
  code forms in `uint16` (`3+bodyLength+1` and, when the body is there,
  `3+bodyLength+1+signatureLength`) are below 65536. Then `U16` is the
  identity on them (`U16Fits`), no slice panics, and every branch of the code
  meets the same branch of the layout.
- `SmallBytesFit`: bytes of at most 253 always fit. The length word is then
  at most 65021, and 65021+4+253 < 65536.
- `ParseBodyAgrees`: if `ProbeBytes \subseteq 0..253`, then
  `Spec => []ParseBodyMatchesLayout`, for every `MaxProbe`. Buffers of any
  length are covered, not only the 7 bytes of `envelope_parse`. The step
  needs no inductive invariant beyond `BufOK` (the buffer is a sequence of
  probe bytes), because the property is a function of the current buffer.
  The bound 253 is near the limit: `envelope_wrap` shows that with bytes
  252 and 255 the offsets wrap and the code panics.

Byte ranges are written `{b \in Int : 0 <= b /\ b <= 255}` in the proofs
because the SMT backend encodes `x \in 0..65535` as 65,536 equalities.

## Proofs (OrchestratorProofs.tla)

- `TypeCorrect`: `Spec => []TypeOK`, for every `MaxTime` and `MaxCalls`. The
  inductive invariant `IInv` adds `pc = "start" => calls = 0`: a command's
  single call raises `calls` from 0. Without that conjunct, a `start` state
  with `calls = MaxCalls` would step out of range. `TypeOK` says more than
  types here. `stateCert \in {"none", "parsed"}` means a session never holds a
  certificate that failed to parse (the mutant that drops the
  `ParseCertificate` error breaks it).
- `CallRefinement`: `Spec => ImplementsClientCall`, from `[]IInv`.
  `StepRefines` has one case per action:
  - `CheckMessagesStart` and `SendStart` are `Begin` when they go on to
    `connect`, and `Refuse` otherwise (their errors are `CommandErrors`);
  - `LibraryCall` is `Begin`;
  - `Connect`, `KeyGen`, `TransportFails` and `Timeout` are `Fail` when they
    return an error;
  - `HandleReply` is `Succeed` when `ReplyError` is `"none"`, and `Fail`
    otherwise (`ReplyErrorIsCallError`);
  - `Tick`, a key generation that succeeds, the request and the reply's
    arrival are stutters.

  `InitRefines` maps the initial states.

## What only TLC checks

- Liveness: `CallsReturn`, `LoopStopsAfterClose` and `EveryFrameRead`.
  Fairness and ENABLED are out of TLAPS's reach.
- `WireStream`'s `RoundTrip`. It says the decoder inverts the encoder on
  every frame. That is induction over data: over the field list that
  `ToBytes` flattens and over the index of the recursive function `parse` in
  `UnmarshalFieldsFromBytes`. The library's induction theorems take an
  operator parameter, which no installed backend can instantiate, so what
  the recursive function computes for every input cannot be proved here.
- `DecodeIsExact` and `MissingBodyReported`, and the other violated
  properties. They are findings, shown by TLC's counterexamples.

## Findings

1. `connection.go:88`: `c.conn` is set before the ack is validated
   (`courier_filter_before_ack`).
2. `connection.go:88` and `:231`: a second `Connect` overwrites `c.conn`
   without closing the earlier socket, and `Close` closes only `c.conn`, so a
   read loop blocked on the earlier socket never ends and the socket leaks
   (`courier_close_after_reconnect`). Spec §4.2 says Close unblocks the loop.
3. `binary.go:227`: `save` truncates the file before encoding into it, so a
   crash or a failed `Encode` leaves a file no later run can load
   (`store_torn`).
4. `decrypt.go:36`: `3 + bodyLength + 1` wraps in `uint16` and the slice panics (`envelope_wrap`).
5. `binary.go:120`: one or two trailing bytes are silently accepted (`codec_trailing_bytes`).
6. `part_004:64`: a failing `updateStore` (the empty chat, or a FileStore save
   error) makes `FetchUnread` discard all the messages it drained
   (`session_store_error`). Spec §7 says notifications are not silently lost.

Hazards with no property (the list is in `PROJECT.json`):
- `Connect` refuses the empty token the handshake gives it
  (`connection.go:66`). This is a one-step consequence.
- Connect's ack read has no deadline (`connection.go:119`), as spec §5 says.
  The caller returns only if the server answers, so a liveness property
  would be false by assumption and not by the code.
- The ack read and a running loop read the same socket. Only a reconnect
  while the loop runs makes them race, and no caller does that.
- `messageChan` is never made (`part_004:147`), and `startAPNS` is never
  called (`part_004:46`). In Session these are `ChanCap = 0` and an action no
  caller takes. No property can tell a nil channel from a full one, or a
  missing call from a caller that never fetches.
- `UnmarshalBinaryStream` allocates up to 4 GiB from a wire length
  (`binary.go:93`). The allocation's only outcome in a model is success.

## Not modelled

- TLS, RSA, AES, gzip, plist and HTTP encoding are I/O or cryptography. Only
  their failure or success enters the models: `ConnectDial`'s `Dial` error,
  `KeyGen`, `IDSReply`'s shapes.
- `Payload.UnmarshalBinary` has no caller. Its missing length check
  (`binary.go:114`) is therefore not a run.
- `DefaultHandshaker` (`handshake.go`) and `NacIDSHandshaker` (`part_001`)
  are never constructed: a session's handshaker is always `RealHandshaker`.
- `AuthenticateDevice` (ids) has no caller either. `identity.go` and
  `part_000` are plist structs and a status table, with no state.
- Flag parsing, printing, config file loading and the mac registration
  provider binary are sequential I/O. What the commands do with their
  results is in `Orchestrator` (`CheckMessagesStart`, `SendStart`, `Returned`).
- Session and Courier are separate modules. `StartAPNS`/`StartReadLoop` and
  `Close`/`Cancel` are their points of contact. The code never starts the
  loop (`startAPNS` has no caller), so no behaviour of the real program
  composes them.
