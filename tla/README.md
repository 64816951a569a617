# WebWormhole: TLA+ models, checks and proofs

WebWormhole connects two computers over WebRTC. A *signalling server* lets two
clients meet on a numbered slot and relays their handshake; the *handshake*
(PAKE, then an encrypted WebRTC offer and answer) opens a data channel; over it
the programs send files, pipes or, with the tunnel package, many virtual TCP
connections. This directory models the parts that carry the program's own logic:
the tunnel's stream multiplexer and the TCP proxies on top of it, the server's
rendezvous and relay, the handshake of the Go clients and of the web page, the
transfer of files between either kind of program down to the page's service
worker, and the code words that users read to each other.

## 1. Inventory

| component | source | state | operations | talks to |
|---|---|---|---|---|
| tunnel session | `wormhole/tunnel/session.go` | `conns`, `nextID`, `controlCh`, `dataCh`, `listener.connCh`, `stopCh`; per connection `readCh`, `closeCh`, `once`, `closed` | Dial, Accept, Read, Write, Close, Session.Close; goroutines readLoop, writeLoop | the peer's session, by records |
| record format | `wormhole/tunnel/protocol.go` | none | Encode*, Decode | session |
| record adapters, data channel | `wormhole/tunnel.go`, `tunnel_ctx.go`, `dial.go` (Read, Write, Close), `dial_ctx.go` (CloseCtx) | send buffer, `flushc` | ReadRecord, WriteRecord, Close | WebRTC |
| forward, serve, proxy | `wormhole/tunnel/tunnel.go` | one goroutine pair per connection | Forward, Serve, Proxy | session, local TCP |
| rendezvous and relay | `cmd/ww/server.go` (relay, freeslot) | `slots.m`; per connection `rconn`, `slotkey`, ctx | book, join, swap, relay, time out | clients over WebSocket |
| HTTP front | `cmd/ww/server.go` (server) | configuration | serve files, TLS | browser |
| handshake | `wormhole/dial.go`, `dial_ctx.go`, `client_ctx.go` | `opened`, `err`, `pc`, key | New, Join and context variants | server, peer |
| command line | `cmd/ww/main.go`, `file.go`, `pipe.go` | current file | send, receive, pipe | data channel |
| code words | `wordlist/wordlist.go` | none | Encode, Decode, Match | user |
| web client | `web/ww.ts`, `web/webwormhole.go` | handler state, key, `pc`, `ws` | dial, message handlers | server, peer |
| web transfer and UI | `web/main.ts` | send queue, receiving, data channel | send, receive, disconnected | peer, service worker |
| service worker | `web/sw.ts` | streams by id | metadata, data, end, fetch | page, browser |

Hard to test, and why these parts are modelled:

* A session is two goroutines plus one per caller, joined by five kinds of
  bounded channels and two `sync.Once`; a readLoop may wait for its own
  writeLoop, a writeLoop for the peer's readLoop. `select` chooses at random
  whenever several cases are ready. Closing, refusing, stopping and failing race
  each other and `sync.Map.Range`.
* The relay is two goroutines per connection that share `rconn` without a lock,
  meet the other pair over an unbuffered channel, and delete map entries by a
  number that may meanwhile belong to someone else.
* A handshake is a function, a goroutine reading candidates, the callbacks of
  the WebRTC library and, with a context, a goroutine that closes what the
  function is using. Candidates share one stream with offer and answer. The page handles
  messages in an asynchronous function that reads its state before an await and
  assigns it afterwards.
* Proxy is three goroutines per client and side; whichever copy ends first
  closes both connections under the other, on both sides of the tunnel.
* A transfer crosses a send buffer with a threshold, callbacks that outlive
  their connection, a send loop that awaits across a disconnection, and a
  service worker that gets data and request on two ways and may be stopped.
* A code is decoded by trial: four encodings, two word lists that overlap, and
  a parity that runs through a varint of variable length.

What makes them correct: a connection is a pair of FIFO streams that lose
nothing while open; EOF has a cause; control records are not starved; calls
return; a closed connection leaves the table; a failure is noticed. A slot leads
to the host that booked it; pairs are exclusive; a relayed stream is a prefix of
what was sent; time-outs release everything. Only peers that know the same
password connect, no early candidate is dropped, and every handshake ends. What
is presented as a complete file is the file that was sent, and what was sent
arrives unless something breaks. A code leads to its slot and password, and a
slip of the tongue does not lead anywhere. `PROJECT.json` lists the hazards at
their lines.

## 2. Modules

| module | role |
|---|---|
| `TunnelSession` | two sessions, their goroutines and callers, and the transport between them |
| `VirtualStream` | abstract specification of the connections: what Read, Write and EOF promise |
| `TunnelProperties` | properties, the refinement mapping to `VirtualStream`, fairness |
| `TunnelSession_proofs` | types, record priority and the table of connections of `TunnelSession`, proved |
| `TunnelStream_proofs` | its connections are streams and implement `VirtualStream`, proved |
| `MCTunnelSession` | definitions for the TLC configurations |
| `SignalServer` | the server's slots, rendezvous goroutines and read loops, with clients and time |
| `SignalProperties` | properties and fairness of the server |
| `SignalServer_proofs` | theorems about `SignalServer` |
| `MCSignalServer` | definitions for the TLC configurations |
| `TunnelProxy` | Forward, Serve and Proxy with their local connections, over an instance of `VirtualStream` |
| `ProxyProperties` | properties and fairness of the proxies |
| `TunnelProxy_proofs` | theorems about `TunnelProxy` |
| `MCTunnelProxy` | definitions for the TLC configuration |
| `Handshake` | New, NewCtx, PrepareTunnel, Join, JoinCtx and the web page's Player1 and Player2 on both sides of a relay |
| `HandshakeProperties` | properties and fairness of the handshake |
| `Handshake_proofs` | theorems about `Handshake` |
| `MCHandshake` | definitions for the TLC configuration |
| `Transfer` | send and receive of `ww` and of the page over a data channel that may be lost and made again |
| `DownloadWorker` | the service worker's streams and listeners, extended by `Transfer` |
| `TransferProperties` | properties and fairness of the transfer |
| `Transfer_proofs` | theorems about `Transfer` |
| `Induction` | induction in a form the provers can use, for `Transfer_proofs`, `TunnelStream_proofs` and `CodeWords_proofs` |
| `MCTransfer` | scenarios for the TLC configurations |
| `CodeWords` | the four encodings, who shows a code, who types it, and the properties |
| `CodeWords_proofs` | theorems about `CodeWords` |
| `MCCodeWords` | definitions for the TLC configuration |

Composition: `TunnelSession` implements `VirtualStream`, and `TunnelProxy` is
built on `VirtualStream`, so what `proxy` shows holds over every session that
keeps that specification. `SignalServer` shows that a relay pairs clients and
keeps their messages in order; `Handshake` assumes that of its two queues.
`Transfer` extends `DownloadWorker`; its connections are those a handshake made.

Operators whose names end in a fault (`DeliverOrDrop`, `ForgetNothing`,
`CloseConnsSwapped`, ...) are not part of the models. Each is a plausible bug, used
in place of the definition that follows it to show that a property notices.

### TunnelSession

An action is what a goroutine does between two points at which it can block or
be observed. Every `select` is a disjunction of its cases, `default` guarded by
the others not being ready.

| state | code |
|---|---|
| `nextID`, `conns`, `ctl`, `dat`, `connCh` | `nextID`, `conns`, `controlCh`, `dataCh`, `listener.connCh` |
| `stopOnce`, `sweep` | `closeOnce` (and `stopCh`), the `Range` of closeAll |
| `once`, `closed`, `readCh` | the fields of `tunnelConn`; `closed` is the flag and `closeCh` |
| `call[kind][end]` | how far a call of sendControl / enqueueData has got: `new` (before it), `send` and `wait` (its two selects), `ok`/`fail` (the reply in `req.err`), `over` |
| `writer`, `reader` | program counter and operand of writeLoop and readLoop |
| `wire`, `up` | the data channel, a FIFO per direction, and whether it works |
| `held`, `sent`, `got`, `eof`, `serving`, `sclose` | what the application has, did and saw |
| `bypass` | auxiliary: data records written since a control record has been waiting |

Dial is `DialBegin, DialStore, Enqueue("open"), DialReturn`; Write is
`WriteBegin, Enqueue("data"), WriteReturn`; Read is `ReadData` or `ReadClosed`;
Close is `CloseBegin, CloseDelete, Enqueue("close"), CloseReturn`; handleOpen is
`Receive`, then `OpenQueued` or `OpenRejected, Enqueue("reject"), RejectReturn`;
handleData is `Receive, Deliver`; handleClose is `Receive, CloseRecord,
CloseRecordDelete`; Session.close is `StopBegin`, then `SweepVisit, SweepClose,
SweepDelete` per entry and `StopEnd`; Session.Close is `SessionClose`, that, and
`SessionCloseRw, RwClose, SessionClosed`. `Range` follows `sync.Map`'s contract:
each key at most once, with the value at the start or a later one, entries
stored meanwhile visited or not.

Abstractions. A record is its kind, its sender and which write of the sender it
is; actions look only at kind, id and whether the payload is empty, the rest is
for the properties. The transport accepts a record while fewer than `WireCap`
are under way: this stands for `BufferedAmount` against its low threshold in
`Wormhole.Write`, which waits for a flush also when the link is dead. The
adapter's Close waits for an empty send buffer, i.e. until at most `PeerWindow`
records are left that the peer's transport has already taken (`tunnel.go`), or
five seconds (`tunnel_ctx.go`; `CtxSides` are the sides over this adapter). After a failure a read fails at
once or after some buffered records. ReadRecord and the `Load` after it are one
step, since only the reader itself stores accepted ends and a close in between
leads to the same cases. One goroutine reads and one writes an end, as Proxy
does; the listener's Close and the end of Serve's Accept loop are one step.
Decode errors cannot happen: both sides run this encoder, and records stay whole.

### TunnelProxy

One client and one server, on the sides `forward` and `serve`. `sent`, `got`,
`hungUp`, `shut` and `eof` are the virtual connection: `Write`, `Read` and
`ReadEof` of `VirtualStream`, and `HangUp` for the own Close, the mate's MsgClose
and a session that stops (`CloseTunnel`, `RemoteClose`, `StopSession`). `payload`
says which chunk a write carried. A local TCP connection is the FIFOs `up` and
`down`, of at most `Window` chunks, and may be closed by its application in one
direction (`fin`) or in both (`gone`), and by Proxy (`closed`). `handler` is the
goroutine per connection of Forward or Serve, `copyIn` and `copyOut` are
`io.Copy(b, a)` and `io.Copy(a, b)`, each either in its read or in its write of
a chunk, and `done` is the channel both close. A write to the tunnel is two
steps, since enqueueData does not look at `closeCh`: `WriteTunnel` is the check
of the flag and the queueing, `WriteReturns` waits until the tunnel has room
(`Room`: the mate has read up to `Window` chunks before this one, or is shut and
drops what comes) or the own session stops; that the own end is shut meanwhile
does not end it. Serve may have the other end as soon as MsgOpen has been read,
before the Dial of Forward returns (`AcceptTunnel`, `Opened`). `CloseConns` is the end of Proxy:
`<-done`, then a.Close, then b.Close, two steps in this order. Closing a local
connection drops what the proxy had not read of it; what was written to the
application can still be read.

### SignalServer

`rz[h]` is the rendezvous goroutine of connection `h` and `loop[h]` its read
loop. A slot's channel is named by the host that made it, so `slots[k] = h`
says that `h`'s channel is listed under `k`. `Meet` and `Swap` are the two
synchronous exchanges on it. `ws[h]` is `open` or the status of the first close,
`expired` holds the connections whose `slotTimeout` has passed, and ctx of a
handler is done then or when the handler returned (`Done`). `freeslot` finds
some free number, or gives up if all it drew were taken. The unsynchronised
`rconn` is read when it is used, with the last value written: on the build's
platforms a pointer-sized read yields the old or the new value. Clients follow
`dial.go`: a joiner sends right after the init message, a host once it has
received something; both may vanish at any time; that a key is bad or the connection is up they
say only after they have received something. A client's own close arrives behind its
messages, other closes may lose them. Only the status of a failed connection
comes at any time, since a cancelled context sends it from a goroutine.

### Handshake

Each function is the sequence of its steps (`NewSteps`, `JoinSteps`, ...), and
one action per kind of step runs them: `DialServer`, `GiveSlot`,
`NewPeerConnection`, `SendMessage`, `ReadMessage` and `ReadFails`,
`SetDescription`, `StartWatch`, `Select`. `at[r]` is the position of side `r`,
`result[r]` what it returned. Beside it run handleRemoteCandidates (`watch`:
`RemoteCandidate`, `WatchEnds`), the callbacks (`LocalCandidate`,
`ChannelEvent`) and the cancel goroutine of the context variants (`CancelWs`,
`CancelPc`). `Connect` is ICE, DTLS and SCTP, which are external: possible once
all descriptions are set and some candidate was added. The errors of
newPeerConnection, PAKE, CreateOffer, CreateAnswer, of setting a description and
of a write are the error disjuncts of `NewPeerConnection`, `SendMessage`,
`ReadMessage` (step `readB`) and `SetDescription`: the function returns and its
WebSocket stays open. `Exit` is the program ending after that, which closes it;
nothing says that it does. `CancelWs` is the goroutine's ws.Close with
CloseWebRTCFailed, unless a Read with the finished context was first and closed
the connection without a status. Candidates are numbered, and `added` has the
numbers of those that a PeerConnection was given.

Encryption is symbolic: a message carries the key it was sealed with, both
sides have the key `"shared"` exactly if they were given the same password, and
`Opens` compares. The relay is a FIFO per direction; `Told` is its reaction to
the status a client closes with, from server.go: a bad key is passed on, a lost
connection becomes "peer hung up", the WebRTC results are not passed on. It is
assumed that the relay let the two meet, or refused one of them; the bail-out of
`SignalServer` is not repeated here. A read returns what arrived before the
server closed the connection, and fails at once on a connection closed on this
side or with a finished context.

The page runs the class Wormhole of `ww.ts`: `Player1Steps` and `Player2Steps`
are the states in which its message handler can be found, and an action is the
handler from one of them to its next await or return (`WebInit`, `WebPake`,
`WebDescription`, `WebCandidate`), or the continuation after the browser's
promises (`WebPromise`). A message that arrives during an await is handled in
the state the pending handler set before it: `localOffer` and `localAnswer`. In
the latter the handler waits for `done` with its message in `parked`, and
`WebPromise` lets it process them. A handler that fails with the WebSocket open
(`WebFail`: start, exchange and finish) and one whose promise is rejected
(`WebRejected`) leave the page in `FailedState`; after a rejected promise not
even `done` is rejected. That such a handler may put the state back
to stateWaitForLocalAnswer afterwards is harmless, since there candidates are
still processed once `done` is resolved; the model therefore stays in
`candidates`. The result of the page is that of the promise `dial` returns, and
`WebClosed` and `WebClose` are `onclose` and the close on an ICE state.

### Transfer and DownloadWorker

A scenario (`kind`) names the programs on both sides (`ww`; `page`, which keeps
a file in memory; `pageSW`, which hands it to the worker), the uploads with their
sizes in chunks, and how many connections are made and how often a side is told
that one has gone. `link`, `buf` and `net` are the data channels, their send
buffer and what is in flight. On the page `sendqueue`, `sending`, `receiving` and
`datachannel` have their names from `main.ts`; `uploads` holds the calls of
Upload.send that are suspended in an await, with the channel they write to and
whether they wait for `bufferedamountlow`. `SendLoop` is the loop of `send()` up
to its next await: a throw ends it and leaves `sending` set. `Disconnected` is
`disconnected()` with every assignment it makes; it may come more than once for
a connection, since several callbacks call it, and for an old connection when a
new one is up. `gosend` is the goroutine of `ww send` with the lock and the
condition variable of `Wormhole.Write`: `held` is between the test and Wait,
`Flushed` the callback that signals, `GoClose` waits for an empty buffer.
`GoReceive` and `GoReceiveEOF` are the loop of `ww receive`. A failed program
(`GoSendFatal`, a fatal read) takes its connection with it.

`DownloadWorker` has the worker's Map (`streams`, an entry being a Stream or the
placeholder that waitForMetadata puts there), the response bodies, and the two
ways into it: `post`, in order, and `nav`, requests under way. `OnMessage` and
`StreamDownload` are its two listeners; a handler that throws changes nothing.
`StopWorker` is the browser ending it: the Map is lost, open bodies fail.

### CodeWords

A code is the sequence of its parts, and a part a word or a number. A word is
known by its index in the English and in the PGP list (-1 where it is none), a
number by its digits; this is what `indexOf`, Atoi and ParseInt tell apart. The
twelve words that are in both lists are given by their two indices. `Digits` and
`ValueOf` are the conversions between a number and its digits, for base 8, 10
and, in `PutUvarint` and `Uvarint`, 128. `Uvarint` refuses what has more than 64
bits and converts to an int as the code does, which a mistyped code can reach; a
slot has at most 21 bits, since `freeslot` draws no larger one. Encoders and
decoders are functions on these sequences, `Decode` tries them in the order of
`wordlist.go`. The behaviour is: a host shows a code, a person types it with at
most one slip (two neighbours swapped, a part left out, a part doubled), and
`newConn` (`JoinGo`) or the page's constructor (`JoinWeb`) goes on with what
Decode says.

## 3. Runs

All channel capacities are 1 or 2, so that a full queue, a refusal and a blocked
writer happen with few connections; two connections are the fewest for which
one can block the other, and two writes the fewest that can be reordered.
Deadlock is not checked since the applications and clients may be done; that
nobody waits for ever is what the liveness properties say.

| run | instance | shows |
|---|---|---|
| `session_close` | one connection, A dials and writes twice (the second empty), both read and close, B's listener may close | `TypeOK`; `StreamConserved`: what an open end has read and what is still under way are writes 1, 2, 3... of its mate, up to the last one enqueued while the mate's session and the transport run; `ImplementsStream`; `CloseReachesMate`; `CallsReturn` |
| `session_stop` | one connection, B reads, A calls Session.Close over the adapter of `tunnel.go`, the link may fail | `NoLeak`, with both its clauses; `ImplementsStream` |
| `session_two` | two connections, accept queue of one, A writes and closes, nobody reads | `ControlPriority`; `NoLeak` without a session that stops, so its first clause; `ImplementsStream` as far as writes, closes and refusals go: that closing or refusing one connection never shuts the other |
| `live_stop` | one connection, A writes, over the adapter of `tunnel_ctx.go`, B reads, over that of `tunnel.go`, and may close its listener; either calls Session.Close, the link may fail, both ends may be closed (`StopScenarios`) | `SessionCloseReturns`, `FailureStopsSessions` |
| `proxy` | the client writes two chunks, the server one, windows of one; either may half-close or close at any time, the dial may fail, the forwarding session may stop | `TypeOK`; `NoGap`: applications read a prefix of what was written; `TearsDown`: when one ends, both goroutines and all copies end and the other application reads EOF; `Delivered` |
| `handshake` | all combinations of functions, the page's included, equal and different passwords, up to two candidates in all (`FewCandidates`), one if the passwords differ | `TypeOK`; `Authenticated`: descriptions are accepted only under a common key, and success of a Go side means both have both; `NeverConfused`: no candidate is read in place of an offer or answer; `NoCandidateLost`: no candidate is dropped because it came early or because another one came; `HandshakeEnds` |
| `signal_pairs` | two hosts, two joiners, one slot number | `TypeOK`, `PairingSound`, `ListedHostWaits` |
| `signal_live` | a host, two joiners, two messages each, pings and time-outs | `RelayInOrder`, `TimeoutReleases` |
| `transfer` | every sender with every receiver; empty files, texts, too long headers; a page that loses its connection in the middle and dials again; the worker stopped once | `TypeOK`; `WholeFiles`: what is presented as complete is what was sent; `CleanEnd`: `ww receive` ends well only with every file; `WorkerCleansUp`; `Arrives` |
| `codes` | slots at the limits of one, two and three varint bytes, passes of up to three bytes among 0, 255 and bytes whose PGP word is also an English one, all encodings, all single slips | `TypeOK`; `RoundTrip`: a code typed as shown gives the host's slot and pass; `SlipsRefused`: a swapped, doubled or missing word is noticed |

Why these bounds are enough: files of up to three chunks with a buffer threshold
of one (`GoMark`) or two messages (`Mark`) and reads of up to two chunks
(`ReadMax`) make a writer wait, a read cross the threshold and a connection end
before, within and after a file; two connections are the fewest for which data
or a send loop of one can reach the other, and two notices (`MaxTold`) the
fewest with which one comes late. A second stop of the worker finds nothing that
the first did not. Windows of one block both copies of a proxy after one chunk,
and two chunks are the fewest that can show a gap. One candidate of each side
shows those that come early from either, two of one side that one may be dropped
while the other is added.

`live_stop` is a directed search, the constraint being `StopScenarios`. In
`WriterStops` A calls Session.Close, and writes a second time only to a listener
that was closed, which is what fills the readCh of an end nobody accepts. In
`ReaderStops` B does, with a readLoop that takes a second write while closeAll
runs: its deliverData then waits for the close of that end, and waits for ever if
the end was stored too late for closeAll. In `LinkFailsAmidCloses` nobody does,
and the transport fails while both ends of the connection are being closed and
A's writeLoop is inside `Wormhole.Write`: the readLoop that waits in `once.Do` is
the one that would have to notice. In each, the other session is left alone
until nothing moves at the first any more. The constraint leaves out the other
orders, and for the behaviours it leaves out the run says nothing.

`ImplementsStream` is `VirtualStream!Spec` under the mapping in
`TunnelProperties`: writes are numbered, reads return them in order, an end is
shut only after one of the two sides hung up (closed, refused or stopped), and
EOF means shut or an empty write. A read may skip a write only at an end whose
own side has hung up, because deliverData may then drop a record and still
queue a later one. `TunnelProxy` depends on exactly this: Proxy closes the local
connection before the virtual one, so what is read after the gap has nowhere to
go (`NoGap`; with the closes swapped it fails). A session that stops gives no
such order, and `NoGap` makes no claim for its side.

Two runs show a disagreement between the code and what the repository says of
it (`findings` in `PROJECT.json`); TLC prints the schedule.

| run | property | what happens |
|---|---|---|
| `v_circular` | `NoCircularWait` | readLoop waits in `once.Do` for a Close that waits for writeLoop; on both sides at once, with full transports, this is for ever. The search is directed by the constraint `OneAfterTheOther` |
| `v_queue` | `QueueIsSent` | a connection is lost during an upload: what Upload.send throws ends the send loop with `sending` still set, disconnected() does not reset it, and after the next connection nothing in the queue is sent |

Three more properties are stated that the code does not keep and no run lists:

* `OwnMateOnly` (`TunnelProperties`): both sides number connections from 1 in one
  map, so when both dial, data reaches the wrong connection. To see it, let
  `Dialers` be `AllSides` in `session_close.cfg` and check it as an invariant.
  When only one side dials it is a theorem (`OwnMateOnlyHolds`).
* `EofAfterData` (`TunnelProperties`): Read may choose closeCh over queued data,
  so the tail of a stream that was closed properly is lost. To see it, check it
  as an invariant with `session_close.cfg` and no empty writes.
* `NoSuchSlotIsTrue` (`SignalProperties`): a joiner unlists the slot and
  disappears before its init message: the host waits on a slot nobody can find.
  To see it, check it as a property with `signal_live.cfg`.

The passing runs do not contradict these: they let only one side dial, and
`VirtualStream` allows EOF to overtake data. What the other properties except:

* `CallsReturn` and `CloseReachesMate` need readers that read on: deliverData
  blocks the only readLoop while one connection's readCh is full, so one unread
  connection stops all others, their Close included.
* `SessionCloseReturns` excludes three waits. `CloseWaits`: over `tunnel.go`,
  `Wormhole.Close` loops while the buffer is not empty, and over a dead link it
  never is. `WriterBlocked`: `wg.Wait` waits for a writeLoop that is inside
  `Wormhole.Write`, with a buffer nobody drains. `Undelivered` and `LateEntry`:
  handleOpen stored an end after closeAll had ranged over the table, nobody
  closes it, and the readLoop for which `wg.Wait` waits is in deliverData for it.
* `FailureStopsSessions` excludes a readLoop that never comes back to
  ReadRecord, which alone notices the failure: it is in `once.Do` behind a Close,
  or in the sendClose of handleOpen, whose record waits for a writeLoop inside
  `Wormhole.Write` over the dead transport (`ReaderNeedsWriter` and
  `WriterBlocked`); or in deliverData for an end that nobody reads
  (`Undelivered`).
* `Delivered` speaks of connections nobody has ended: Proxy closes both when the
  first copy ends, so a client that half-closes may lose the answer under way.
* `TimeoutReleases` excludes a joiner that timed out and offers its connection
  on a channel nobody receives from: that goroutine stays for ever.
* `HandshakeEnds` excludes a side that is `Stranded`, i.e. that waits for a
  message of a `SilentPeer`: one that did not get in; one that was cancelled,
  whose CloseWebRTCFailed the relay does not pass on; one that has failed and
  left its WebSocket open, as New and Join do on most errors (unless the program
  then exits) and the page does in `fail()` and on a rejected promise. Such a
  side waits until the relay's slotTimeout. Moreover a page takes "peer hung up"
  for a normal closure, and waits for ever after that and after a rejected
  promise.
* `WholeFiles` makes no claim once a page begins, or goes on with, a file on a
  connection that is not its `datachannel` any more (`late`): the handlers of an
  old connection stay registered and feed the one global `receiving`. With three
  connections this happens without a message of a connection that the page was
  told has gone, if the notice comes for an older one.
* `Arrives` speaks of what the receiver accepts (`Accepts`): the page never
  completes an empty file, since it asks `done` only after a chunk, and takes
  what follows for its data; `ww receive` ends at a header of more than 1024
  bytes or one that is not a file's. It excludes lost connections, a stopped
  worker, a download whose navigation was displaced by the next one (`Broken`),
  and a page whose write waits with its buffer exactly at the threshold, which is
  never crossed again (`AtThreshold`).
* `RoundTrip` excludes one-word PGP codes whose word is an even word of the
  English list too. `SlipsRefused` is about the codes this program shows, and
  excludes leaving out the last word, since what is left is a code too.

Further observations met on the way, which no run needs to contradict a comment:

* Dial and handleOpen may store a connection after closeAll has ranged over the
  table; nobody closes it then, and its Read never returns.
* A Write that passed the closed check before a concurrent Close is sent behind
  the MsgClose; the receiver ignores it.
* The relay's read loop ends the session of a joiner whose first message is read
  before `rconn` is set, although that joiner followed the protocol.
* A host that timed out deletes its slot number even if another host has booked
  that number meanwhile.
* A code that is all slot decodes to an empty pass that is not nil: `newConn`
  joins with an empty password, while the page refuses by the pass's length. A
  magic code without its number may be read as a varint code.

Fairness: weak fairness of each goroutine, which the Go scheduler provides
(`GoFairness`, and `FairSpec` of the server). Whether the application calls
Dial, Write or Close is free; that it accepts and reads until EOF
(`AppFairness`) is what Serve and Proxy of `tunnel.go` do. No strong fairness is
assumed: no property depends on which ready case a `select` takes. In the
handshake the functions, the candidate readers and the cancel goroutines are
fair (`FairSpec` of `HandshakeProperties`), and so are the page's handlers and
the browser's promises (`WebSteps`); this includes that the caller takes the slot
from `slotc` and that the 30 second timer of the final select fires. Candidates,
connectivity, cancellation and exits are not fair. `live_stop` needs less than
`GoFairness`: only that while some goroutine can take a step, some does
(`Progress`). In `TransferProperties` the
goroutines, the page's loops and handlers, the worker's listeners and the
movement of data on an open connection are fair; users, losses, notices of a
loss and the stopping of the worker are not. In `ProxyProperties` the handlers,
the copies and the reading of the applications are fair. What Close sends waits
like a write, so b.Close returns, and MsgClose arrives, only with the `Room` of
that side's tunnel or a session that stops; that they do then is what
`CallsReturn` and `CloseReachesMate` say of the session below. Writing, closing and stopping are free.

## 4. Proofs

The theorems hold for every value of the constants that meets the named
assumption of the component; those assumptions only say what kind of value a
constant is (sets of the right things, capacities of at least one, a `None` that
is nothing else). No fairness is assumed: all are about `Spec`.

| theorem | module | assumption | inductive invariant |
|---|---|---|---|
| `TypeCorrect` | every `*_proofs` module but `TunnelStream_proofs`, which extends that of the session | of the component | `TypeOK`, alone in `TunnelSession`, elsewhere with the others |
| `ControlPriorityHolds` | `TunnelSession_proofs` | `BoundsAssumption`, `CapAssumption`, `NoneAssumption` | `PriorityInv` |
| `NoLeakHolds` | `TunnelSession_proofs` | the same | `TableInv`, and `Swept` on it |
| `StreamConservedHolds`, `OwnMateOnlyHolds`, `ImplementsStreamHolds` | `TunnelStream_proofs` | the same and `OneDialler` | `DataInv`, with `TableInv` and `PriorityInv` |
| `PairingHolds`, `ListedHolds` | `SignalServer_proofs` | `ServerAssumption` | `RendezvousInv` |
| `RelayHolds` | `SignalServer_proofs` | `ServerAssumption` | `RelayInv`, with `PairingSound` |
| `AuthenticatedHolds`, `NeverConfusedHolds` | `Handshake_proofs` | `HandshakeAssumption` | `HandshakeInv` |
| `NoCandidateLostHolds` | `Handshake_proofs` | `HandshakeAssumption` | `CandInv`, with `HandshakeInv` |
| `NoGapHolds` | `TunnelProxy_proofs` | `ProxyAssumption` | `ProxyInv` |
| `WorkerCleansUpHolds` | `Transfer_proofs` | `TransferAssumption` | `WorkerInv` |
| `WholeFilesHolds` | `Transfer_proofs` | `TransferAssumption` | `FileInv` |
| `CleanEndHolds` | `Transfer_proofs` | `TransferAssumption` | `EndInv` |
| `RoundTripHolds`, `SlipsRefusedHolds` | `CodeWords_proofs` | `CodeAssumption` | `CodeInv` |

**Session.** `TypeOK` is inductive by itself because it ties operands to program
counters: writeLoop has a record exactly in WriteRecord, readLoop an end exactly
inside a handler and a record exactly in deliverData, closeAll an end exactly
while it closes it. The bound on `bypass` in `ControlPriority` is not inductive:
`PriorityInv` adds that controlCh holds no data record, that the first select
writes only what it took from controlCh, and that after a data record overtook
a waiting control record the writeLoop is at the first select with that record
still waiting, so the next record is a control record.

`NoLeak` says that a close has deleted its end; what has to be added is that
nobody stores the end again. Dial stores it before anything can know it, and
handleOpen stores it when it reads the record that opens it. So `TableInv`
follows that record: Dial sends it once, it is at one place at a time among
controlCh, writeLoop and the transport (`OpenOnce`), and as long as it is under
way nobody on the other side has the end in its hands (`Introduced`). The
theorem allows both sides to dial, although their ids then collide: a delete
removes whatever is stored under the number, hence `Gone` speaks of the end and
`Filed` of the number. The second clause of `NoLeak` is `Swept`: of the ends that
were there when closeAll began, each is gone, is the one closeAll is at, or is
still to be visited; closeAll ends only when none is left to visit, and an end
that is gone is not stored again (`NotStoredAgain`).

**Streams.** The theorems of `TunnelStream_proofs` suppose `OneDialler`: at most
one of the two sides calls Dial. `tunnel.go` keeps to that (the program that
forwards dials, the one that serves accepts), and without it they are false. Then
a number stands for one connection, so a record that a table hands to an end is
from its mate. Neither property is inductive: both speak of open ends and of
what was read, while a step moves a record that was queued long before.
`DataInv` is about the whole way, for closed ends too:

* `Owned` and `Calling`: goroutines work on ends of their own side, and every
  record under way is from a call that was made; `Writing1` numbers the writes.
* `Usable`: an end that Dial, handleOpen or the application has in its hands is
  registered until it is closed. `OpenOut` and `OpenFirst`: Dial returns after
  its record has been written, so data cannot be ahead of the record that opens
  the connection, although the two go through different channels.
* `Hanging`: an end closed without its own side hanging up was closed by the
  MsgClose of a mate that did, and readLoop, which closes it, cannot be
  delivering to it.
* `Theirs`, `Ordered`: what an end took over is its mate's, and on the way from
  dataCh over writeLoop, transport, readLoop and readCh each place is ahead of
  the ones behind it (`Chain`).
* `Whole`, `Complete`: nothing is missing in what was taken over until the own
  side hangs up, and nothing in what will come while the end is registered. They
  are two because an end goes on reading what is queued after its mate closed
  it, when later records are dropped; and because an end that is not yet opened
  must already have all of them before it.

In every step at most one data record to an end moves, from one place to the
next (`DataSteps`), so each part is proved once per kind of move rather than
once per action. The refinement maps the writes read to their numbers and the
ends that closed, refused or stopped to `hungUp`; a Read is a `Read` of
`VirtualStream` by `Whole` and `Ordered` (`ReadImplements`), a Write one of its
writes, and every other step is a `HangUp`, with no change at least. The proof
attempt showed that an earlier form of `StreamConserved` said too much: after
the transport failed, what was still queued behind it cannot be counted as under
way.

**Server.** `PairingSound` relates `rconn` of two connections, which two
goroutines set at different steps. `RendezvousInv` says what each rendezvous
goroutine has at each step (`Stages`), that a slot's channel is in the hands of
one joiner at most, the one with its number (`Channels`), and that `rconn` is
what came over that channel (`Swapped`); `ListedHostWaits` is part of it, since
a joiner gets a channel only from `slots`. For `RelayInOrder`, `Queued` cuts what
a client has sent in what its peer has got and what its read loop has still to
read, and `Relayed` says from whom a peer got what it got. That nobody relays
before `rconn` is set comes from the relay closing the connection in that case.

**Handshake.** What is on its way to a side continues what that side has read:
two tables say for each position of each function how many of init, PAKE and
description it has read (`SeenAt`) and how many its peer has from it and the
server by then (`TellAt`), and `Queue` that the queue holds the messages from the
one to the other number, then candidates, under the sender's key. `Place` adds
what a function has done at each position, `Causal` that descriptions are
answered in turn, `Success` what a connection presupposes. A page that has failed
may have sent less than its position says, so `Queue` bounds its messages from
above only. `NoCandidateLost` follows each numbered candidate on its way, parked
in the page's handler, and added (`CandInv`); a read takes it from one to the
next, since by `Queue` a candidate is never the head of a queue before the
description was read.

**Proxy.** `ProxyInv` numbers chunks along the whole way: from the application
over `io.Copy` to the n-th write on the virtual connection (`Sending`), from the
last read on it to the local connection and the application (`Receiving`).
`Closing` has the order of `Proxy`'s two closes, by which a read may skip chunks
only when the local connection has been closed and nothing it delivers arrives.

**Transfer.** `WholeFiles` needs the whole way of a chunk. `LinkInv` and
`UploadInv` say which connections can carry anything and that one upload at a
time is suspended. `WayInv` says that what lies in buffer and network of a
connection is a run of consecutive parts of uploads, which ends where the sender
is; `ReceiveInv` that the file being received is a run from its beginning and is
continued by what lies on the connection it is fed from. For a page with the
worker, `DataInv` says where each chunk is: already in the response body, or in
the queue to the worker in front of every later one and of the end (`Posted`).
It would not hold for an arbitrary order of the messages of one stream, but is
independent of where the request comes among them and of the worker being
stopped, which leaves a body that cannot become complete. Everything that is
received is excepted once `late` holds; the rest of the invariant is not.

`CleanEnd` counts: of the messages that `ww send` writes, the receiver has
taken the first `Taken`, the next ones are on the way, and what it has
saved is given by `Taken` alone (`HasTaken`). That the channel is closed in order
only when all are written and none is buffered is `ClosedInv`. That the messages
of a batch are the walk through its uploads, however many (`WrittenWalks`), is
proved by induction over the number of uploads. The library's induction takes a
predicate as a parameter; `Induction` derives it for sets (`NatSet`) from the
well-founded minimum, and shows that the recursive function with which
`FlattenSeq` of the community modules is defined exists (`FlattenSolves`).

`FileInv` and `EndInv` were first explored with TLC on scenarios with two
connections. The proof attempt, which covers three, showed the earlier exception
(a message of a connection the page was told has gone) to be too narrow, which
is why `late` now looks at `datachannel`.

**Codes.** That every number is read back from its digits (`NumbersBack`) is
proved by induction over all smaller numbers (`FromSmaller`); `Digits` and
`ValueOf` are recursive functions, which exist because their prefixes do and
agree (`UpToSome`, `UpToOne`). A decoder is then exact on its own encoding
(`VarintExact`, `MagicExact`, `OctalExact`). What makes `RoundTrip` hard is that
`Decode` takes the first decoder that accepts: a number is no word, so the
varint decoder refuses the other three encodings, and an odd PGP word that is
English too has an even place in the English list (`SharedWords`, over the twelve
such words), so a PGP code of two words or more is not read as a magic code.
For `SlipsRefused`, every word of a varint code has the parity of its position
(`Placed`), the bytes of the slot included; each slip puts a word at a position
of the other parity, and a code of words with such a one has no decoder
(`Misplaced`). `CodeInv` carries both from the code shown to the code typed.
The theorems are for every set of slots below 2^21 and passes of any length,
and `CodeInv` was checked by TLC on the instance of `codes` before.

Model-checked only:

Liveness (`CloseReachesMate`, `CallsReturn`, `SessionCloseReturns`,
`FailureStopsSessions`, `TearsDown`, `Delivered`, `HandshakeEnds`,
`TimeoutReleases`, `Arrives`), which with ENABLED is beyond the prover. Every
safety property of a passing run is a theorem; TLC checks those of the session
for one dialling side too, so the hypothesis takes nothing away from the runs.

## 5. Not modelled, and the plan

Left out for good: HTTP serving, TURN credentials and TLS configuration,
command line parsing, DOM code, generated JavaScript, the examples, and the
byte layout of records and messages.

Left out, and why:

* `pipe.go` copies standard input and output over the data channel and closes
  when the first copy ends; this is the pattern of Proxy without the tunnel.
* `streamUpload` of `sw.ts` hands a file shared to the page over to it: one
  message, without effect on a transfer. The page's fallback for browsers
  without Blob.stream reads a file by other means in the same loop.
* `Match` of `wordlist.go` completes a prefix while a user types.
* The 64 KiB limit of ReadRecord: it needs payload sizes, which no other
  property tells apart.
* Metrics in the relay; version negotiation and IsRelay in the handshake.

The programme of proofs is complete as far as safety goes. Worth adding, should
the code change: payload sizes, if ReadRecord's buffer or Write's splitting are
touched, and separate numbers for the two sides' connections, with which
`OneDialler` could go.

To run: `tlc -config <run>.cfg <module>` with the module of the run in
`PROJECT.json` (`MCTunnelSession`, `MCTunnelProxy`, `MCSignalServer`,
`MCHandshake`, `MCTransfer`, `MCCodeWords`), and `tlapm <module>.tla` for
`TunnelSession_proofs`, `TunnelStream_proofs`, `SignalServer_proofs`,
`Handshake_proofs`, `TunnelProxy_proofs`, `Induction`, `Transfer_proofs` and
`CodeWords_proofs` (`TunnelStream_proofs` and `Transfer_proofs` take some ten
minutes each).
