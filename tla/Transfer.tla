------------------------------ MODULE Transfer ------------------------------
(***************************************************************************)
(* File transfer over the default data channel: the sender is "ww send"    *)
(* (cmd/ww/file.go, over Write and Close of wormhole/dial.go) or the web   *)
(* page (web/main.ts), the receiver "ww receive", the page with its own    *)
(* buffer ("page") or the page with the service worker of DownloadWorker   *)
(* ("pageSW").  A file is a header message and its data in chunks; a text  *)
(* is a header alone.                                                      *)
(*                                                                         *)
(* A page may lose its connection and dial again, while a send loop of the *)
(* old one still runs; a ww process makes one connection and exits.  How a *)
(* connection comes about is the subject of Handshake.                     *)
(***************************************************************************)
EXTENDS DownloadWorker, SequencesExt

CONSTANTS
    Scenarios, \* sender, receiver, what is sent, and two bounds: connections
               \* made, and how often a side is told that one has gone
    MaxConn, MaxTold, \* the largest of those bounds
    ReadMax,   \* chunks in one read of the stream of an upload
    Mark,      \* the page's bufferedAmount thresholds, in messages
    GoMark     \* BufferedAmountLowThreshold of package wormhole

SenderKind == {"ww", "page"}
ReceiverKind == {"ww", "page", "pageSW"}

(* size is in chunks; long is whether the header does not fit the buffer   *)
(* that ww receive reads it with (or its name is none for a file).         *)
Upload == [type: {"file", "text"}, size: Nat, long: BOOLEAN]

ASSUME TransferAssumption ==
    /\ \A k \in Scenarios :
          /\ k.s \in SenderKind /\ k.r \in ReceiverKind /\ k.conns \in 1..MaxConn
          /\ k.told \in [{"s", "r"} -> 0..MaxTold]
          /\ k.batch \in Seq(Upload)
          /\ \A i \in DOMAIN k.batch :
                k.batch[i].type = "text" => k.batch[i].size = 0 /\ k.s = "page"
    /\ MaxConn \in Nat \ {0} /\ MaxTold \in Nat /\ MaxStops \in Nat
    /\ ReadMax \in Nat \ {0} /\ Mark \in Nat \ {0} /\ GoMark \in Nat \ {0}

Side == {"s", "r"}
Conn == 1..MaxConn

VARIABLES
    kind,        \* the scenario
    link,        \* a connection: none, open, closed in order by ww, or lost
    opened,      \* the sides that had its onopen
    events,      \* how often a side was told that it has gone
    buf, net,    \* messages in the sender's channel buffer and in flight
    state,       \* state of main.ts, or "gone" for a ww that has exited
    datachannel, \* the page's datachannel, 0 for null
    added,       \* number of uploads the user has added
    sendqueue, sending, \* as in main.ts; sending is 0 for undefined
    uploads,     \* the Upload.send calls that are suspended at an await
    gosend,      \* the goroutine of ww send
    flush,       \* whether OnBufferedAmountLow has yet to call flushed
    receiving,   \* the receiver's current file; item 0 for none
    goreceive,   \* the goroutine of ww receive
    downloads,   \* the item of each download id
    saved,       \* what ww receive and the page have completed
    late         \* whether a page began, or went on with, a file on a connection
                 \* that is not its datachannel any more

connVars == <<link, opened, events>>
pageVars == <<state, datachannel>>
queueVars == <<added, sendqueue, sending, uploads>>
goVars == <<gosend, flush>>
receiveVars == <<receiving, goreceive, downloads, saved, late>>
vars == <<kind, connVars, buf, net, pageVars, queueVars, goVars, receiveVars, workerVars>>

Page(p) == kind[p] # "ww"
batch == kind.batch
Item == 1..Len(batch)
Nothing == [item |-> 0, data |-> <<>>, id |-> 0]

(* Part 0 of an item is its header.                                        *)
Header(i) == [item |-> i, part |-> 0]
Chunks(i, from, n) == [k \in 1..n |-> [item |-> i, part |-> from + k]]

Content(i) == Chunks(i, 0, batch[i].size)
(* What ww send writes, message by message.                                *)
Messages == FlattenSeq([i \in Item |-> <<Header(i)>> \o Content(i)])

Message == {m \in [item: Item, part: Nat] : m.part <= batch[m.item].size}

TypeOK ==
    /\ WorkerTypeOK(Message)
    /\ kind \in Scenarios
    /\ link \in [Conn -> {"none", "open", "closed", "lost"}]
    /\ opened \in [Conn -> SUBSET Side]
    /\ events \in [Side -> [Conn -> 0..MaxTold]]
    /\ buf \in [Conn -> Seq(Message)] /\ net \in [Conn -> Seq(Message)]
    /\ state \in [Side -> {"disconnected", "dialling", "connected", "gone"}]
    /\ datachannel \in [Side -> 0..MaxConn]
    /\ added \in 0..Len(batch) /\ sendqueue \in Seq(Item) /\ sending \in 0..Len(batch)
    /\ uploads \subseteq [item: Item, offset: Nat, dc: Conn, wait: BOOLEAN]
    /\ gosend \in [at: {"write", "held", "waiting", "exit"}, written: 0..Len(Messages)]
    /\ flush \in BOOLEAN /\ late \in BOOLEAN
    /\ receiving \in [item: 0..Len(batch), data: Seq(Message), id: Nat]
    /\ goreceive \in {"read", "ok", "fatal"}
    /\ downloads \in Seq(Item)
    /\ saved \subseteq [item: Item, data: Seq(Message)]

Init ==
    /\ kind \in Scenarios
    /\ link = [c \in Conn |-> "none"] /\ opened = [c \in Conn |-> {}]
    /\ events = [p \in Side |-> [c \in Conn |-> 0]]
    /\ buf = [c \in Conn |-> <<>>] /\ net = [c \in Conn |-> <<>>]
    /\ state = [p \in Side |-> IF Page(p) THEN "disconnected" ELSE "dialling"]
    /\ datachannel = [p \in Side |-> 0]
    /\ added = (IF kind.s = "ww" THEN Len(batch) ELSE 0)
    /\ sendqueue = <<>> /\ sending = 0 /\ uploads = {}
    /\ gosend = [at |-> "write", written |-> 0] /\ flush = FALSE
    /\ receiving = Nothing /\ goreceive = "read"
    /\ downloads = <<>> /\ saved = {} /\ late = FALSE
    /\ WorkerInit

-----------------------------------------------------------------------------
(* The sending page.                                                       *)

(* dc.send throws on null, and on a channel that has closed.               *)
Throws(d) == d = 0 \/ (link[d] # "open" /\ events["s"][d] > 0)

(* The loop of send(): take the next upload from q and call its send,      *)
(* which runs to its first await.  If it throws the loop ends and sending  *)
(* stays set.                                                              *)
SendLoop(q, d, others) ==
    IF q = <<>>
    THEN sending' = 0 /\ sendqueue' = q /\ uploads' = others /\ UNCHANGED buf
    ELSE /\ sending' = Head(q) /\ sendqueue' = Tail(q)
         /\ IF Throws(d) THEN uploads' = others /\ UNCHANGED buf
            ELSE /\ uploads' = others \cup {[item |-> Head(q), offset |-> 0, dc |-> d, wait |-> FALSE]}
                 /\ buf' = [buf EXCEPT ![d] = Append(@, Header(Head(q)))]

(* send(item), with q the queue after the push.                            *)
Send(q, d) ==
    IF d = 0 \/ sending # 0
    THEN sendqueue' = q /\ UNCHANGED <<sending, uploads, buf>>
    ELSE SendLoop(q, d, uploads)

(* sendfile and sendtext, from the picker, a paste or a drop; a drop on a  *)
(* disconnected page dials, and the other inputs are disabled there.       *)
AddUpload ==
    /\ Page("s") /\ added < Len(batch)
    /\ added' = added + 1
    /\ Send(Append(sendqueue, added + 1), datachannel["s"])
    /\ state' = IF state["s"] = "disconnected" THEN [state EXCEPT !["s"] = "dialling"] ELSE state
    /\ UNCHANGED <<kind, connVars, net, datachannel, goVars, receiveVars, workerVars>>

(* Upload.send reads n chunks of its stream and DataChannelWriter.write    *)
(* sends them; a full buffer makes the next write wait.                    *)
WriteChunksPastEnd(u, n) ==
    /\ ~u.wait /\ u.offset < batch[u.item].size
    /\ IF Throws(u.dc) THEN uploads' = uploads \ {u} /\ UNCHANGED buf
       ELSE /\ buf' = [buf EXCEPT ![u.dc] = @ \o Chunks(u.item, u.offset, n)]
            /\ uploads' = (uploads \ {u}) \cup
                   {[u EXCEPT !.offset = @ + n, !.wait = Len(buf[u.dc]) + n >= Mark]}
    /\ UNCHANGED <<kind, connVars, net, pageVars, added, sendqueue, sending, goVars,
                   receiveVars, workerVars>>
WriteChunks(u, n) ==
    /\ ~u.wait /\ u.offset + n <= batch[u.item].size
    /\ IF Throws(u.dc) THEN uploads' = uploads \ {u} /\ UNCHANGED buf
       ELSE /\ buf' = [buf EXCEPT ![u.dc] = @ \o Chunks(u.item, u.offset, n)]
            /\ uploads' = (uploads \ {u}) \cup
                   {[u EXCEPT !.offset = @ + n, !.wait = Len(buf[u.dc]) + n >= Mark]}
    /\ UNCHANGED <<kind, connVars, net, pageVars, added, sendqueue, sending, goVars,
                   receiveVars, workerVars>>

(* The stream is done: Upload.send returns and the loop goes on, with the  *)
(* datachannel of this moment.                                             *)
FinishUpload(u) ==
    /\ u.offset = batch[u.item].size
    /\ SendLoop(sendqueue, datachannel["s"], uploads \ {u})
    /\ UNCHANGED <<kind, connVars, net, pageVars, added, goVars, receiveVars, workerVars>>

-----------------------------------------------------------------------------
(* ww send.  Wormhole.Write waits while the channel's buffer is above its  *)
(* threshold, on a condition variable that the callback flushed signals.   *)

(* The one connection of a ww process.                                     *)
GoConn == 1
GoSends(at) == ~Page("s") /\ "s" \in opened[GoConn] /\ gosend.at = at

(* Write with the lock: the message is sent, or Wait is called ...         *)
GoWrite ==
    /\ GoSends("write") /\ gosend.written < Len(Messages)
    /\ IF Len(buf[GoConn]) > GoMark
       THEN gosend' = [gosend EXCEPT !.at = "held"] /\ UNCHANGED buf
       ELSE /\ gosend' = [gosend EXCEPT !.written = @ + 1]
            /\ buf' = [buf EXCEPT ![GoConn] = Append(@, Messages[gosend.written + 1])]
    /\ UNCHANGED <<kind, connVars, net, pageVars, queueVars, flush, receiveVars, workerVars>>

(* ... and releases the lock.                                              *)
GoWait ==
    /\ GoSends("held")
    /\ gosend' = [gosend EXCEPT !.at = "waiting"]
    /\ UNCHANGED <<kind, connVars, buf, net, pageVars, queueVars, flush, receiveVars,
                   workerVars>>

(* The callback, which takes the lock and signals.                         *)
FlushedUnlocked ==
    /\ flush /\ flush' = FALSE
    /\ gosend' = IF gosend.at = "waiting" THEN [gosend EXCEPT !.at = "write"] ELSE gosend
    /\ UNCHANGED <<kind, connVars, buf, net, pageVars, queueVars, receiveVars, workerVars>>
Flushed ==
    /\ flush /\ gosend.at # "held" /\ flush' = FALSE
    /\ gosend' = IF gosend.at = "waiting" THEN [gosend EXCEPT !.at = "write"] ELSE gosend
    /\ UNCHANGED <<kind, connVars, buf, net, pageVars, queueVars, receiveVars, workerVars>>

(* After the last file Close waits for an empty buffer, closes, and the    *)
(* process exits.                                                          *)
GoCloseAtOnce ==
    /\ GoSends("write") /\ gosend.written = Len(Messages)
    /\ link' = [link EXCEPT ![GoConn] = IF @ = "open" THEN "closed" ELSE @]
    /\ buf' = [buf EXCEPT ![GoConn] = <<>>]
    /\ gosend' = [gosend EXCEPT !.at = "exit"] /\ state' = [state EXCEPT !["s"] = "gone"]
    /\ UNCHANGED <<kind, opened, events, net, datachannel, queueVars, flush,
                   receiveVars, workerVars>>
GoClose ==
    /\ GoSends("write") /\ gosend.written = Len(Messages) /\ buf[GoConn] = <<>>
    /\ link' = [link EXCEPT ![GoConn] = IF @ = "open" THEN "closed" ELSE @]
    /\ gosend' = [gosend EXCEPT !.at = "exit"] /\ state' = [state EXCEPT !["s"] = "gone"]
    /\ UNCHANGED <<kind, opened, events, buf, net, datachannel, queueVars, flush,
                   receiveVars, workerVars>>

(* fatalf: a file cannot be opened or read, or is not as long as it was.   *)
GoSendFatal ==
    /\ GoSends("write") /\ gosend.written < Len(Messages)
    /\ link' = [link EXCEPT ![GoConn] = "lost"] /\ net' = [net EXCEPT ![GoConn] = <<>>]
    /\ gosend' = [gosend EXCEPT !.at = "exit"] /\ state' = [state EXCEPT !["s"] = "gone"]
    /\ UNCHANGED <<kind, opened, events, buf, datachannel, queueVars, flush,
                   receiveVars, workerVars>>

-----------------------------------------------------------------------------
(* The channel and its callbacks.                                          *)

(* A message leaves the buffer.  Its falling to the threshold is told to   *)
(* the DataChannelWriter or to OnBufferedAmountLow.                        *)
Drain(c) ==
    LET low == IF Page("s") THEN Mark ELSE GoMark
        falls == Len(buf[c]) = low + 1
    IN  /\ link[c] = "open" /\ buf[c] # <<>>
        /\ net' = [net EXCEPT ![c] = Append(@, Head(buf[c]))]
        /\ buf' = [buf EXCEPT ![c] = Tail(@)]
        /\ uploads' = {IF falls /\ u.dc = c THEN [u EXCEPT !.wait = FALSE] ELSE u : u \in uploads}
        /\ flush' = (flush \/ (falls /\ ~Page("s")))
        /\ UNCHANGED <<kind, connVars, pageVars, added, sendqueue, sending, gosend,
                       receiveVars, workerVars>>

(* The connection breaks down, and what is in flight is lost.              *)
LoseLink(c) ==
    /\ link[c] = "open"
    /\ link' = [link EXCEPT ![c] = "lost"] /\ net' = [net EXCEPT ![c] = <<>>]
    /\ UNCHANGED <<kind, opened, events, buf, pageVars, queueVars, goVars, receiveVars,
                   workerVars>>

(* The user of a page starts to dial.                                      *)
Dial(p) ==
    /\ Page(p) /\ state[p] = "disconnected"
    /\ state' = [state EXCEPT ![p] = "dialling"]
    /\ UNCHANGED <<kind, connVars, buf, net, datachannel, queueVars, goVars, receiveVars,
                   workerVars>>

(* The handshake of two sides that dial has made a connection.             *)
NewConnection(c) ==
    /\ c <= kind.conns /\ link[c] = "none" /\ \A p \in Side : state[p] = "dialling"
    /\ \A d \in 1..(c - 1) : link[d] # "none" /\ (link[d] = "open" => opened[d] = Side)
    /\ link' = [link EXCEPT ![c] = "open"]
    /\ UNCHANGED <<kind, opened, events, buf, net, pageVars, queueVars, goVars,
                   receiveVars, workerVars>>

(* dc.onopen of connect(), with connected() and send(), and c.open of ww.  *)
Open(p, c) ==
    /\ link[c] \in {"open", "closed"} /\ p \notin opened[c]
    /\ opened' = [opened EXCEPT ![c] = @ \cup {p}]
    /\ state' = [state EXCEPT ![p] = "connected"]
    /\ datachannel' = IF Page(p) THEN [datachannel EXCEPT ![p] = c] ELSE datachannel
    /\ IF p = "s" /\ Page(p) THEN Send(sendqueue, c)
       ELSE UNCHANGED <<sendqueue, sending, uploads, buf>>
    /\ UNCHANGED <<kind, link, events, net, added, goVars, receiveVars, workerVars>>

(* receiving.cancel() of a download by way of the worker.                  *)
ErrorPost == IF kind.r = "pageSW" THEN <<[type |-> "error", id |-> receiving.id]>> ELSE <<>>

(* disconnected() on the receiver's page                                   *)
ForgetReceivingLater ==
    post' = post \o ErrorPost /\ UNCHANGED receiving
ForgetReceiving ==
    IF receiving.item = 0 THEN UNCHANGED <<receiving, post>>
    ELSE receiving' = Nothing /\ post' = post \o ErrorPost

(* A page is told that a connection has gone: onclose and onerror of the   *)
(* channel, or the ICE state, which may also recover later.  The handlers  *)
(* of an older connection are still there.                                 *)
Disconnected(p, c) ==
    /\ Page(p) /\ p \in opened[c] /\ events[p][c] < kind.told[p]
    /\ link[c] = "closed" => net[c] = <<>>
    /\ events' = [events EXCEPT ![p][c] = @ + 1]
    /\ state' = [state EXCEPT ![p] = "disconnected"]
    /\ datachannel' = [datachannel EXCEPT ![p] = 0]
    /\ sendqueue' = IF p = "s" THEN <<>> ELSE sendqueue
    /\ IF p = "r" THEN ForgetReceiving ELSE UNCHANGED <<receiving, post>>
    /\ UNCHANGED <<kind, link, opened, buf, net, added, sending, uploads, goVars,
                   goreceive, downloads, saved, late, nav, streams, body, served, stops>>

-----------------------------------------------------------------------------
(* The receivers.                                                          *)

Complete(i, data) == saved' = saved \cup {[item |-> i, data |-> data]}
Via == kind.r = "pageSW"

(* receive() of ServiceWorkerDownload and ArrayBufferDownload.             *)
TakeChunk(m) ==
    LET size == batch[receiving.item].size
        n == Len(receiving.data)
        data == Append(receiving.data, m)
        chunk == [type |-> "data", id |-> receiving.id, data |-> m, offset |-> n]
        end == [type |-> "end", id |-> receiving.id]
    IN  /\ IF n + 1 > size
           THEN post' = post \o ErrorPost /\ UNCHANGED <<receiving, saved>>
           ELSE /\ receiving' = IF n + 1 = size THEN Nothing ELSE [receiving EXCEPT !.data = data]
                /\ post' = IF ~Via THEN post
                           ELSE post \o (IF n + 1 = size THEN <<chunk, end>> ELSE <<chunk>>)
                /\ IF n + 1 = size /\ ~Via THEN Complete(receiving.item, data) ELSE UNCHANGED saved
        /\ UNCHANGED <<downloads, nav>>

(* A message that is no header does not parse.  The navigation that        *)
(* fetches a download may displace one that has not started.               *)
TakeHeader(m) ==
    \/ m.part # 0 /\ UNCHANGED <<receiving, saved, downloads, post, nav>>
    \/ /\ m.part = 0 /\ batch[m.item].type = "text"
       /\ Complete(m.item, <<>>) /\ UNCHANGED <<receiving, downloads, post, nav>>
    \/ /\ m.part = 0 /\ batch[m.item].type = "file" /\ ~Via
       /\ receiving' = [item |-> m.item, data |-> <<>>, id |-> 0]
       /\ UNCHANGED <<saved, downloads, post, nav>>
    \/ /\ m.part = 0 /\ batch[m.item].type = "file" /\ Via
       /\ LET id == Len(downloads) + 1
          IN  /\ receiving' = [item |-> m.item, data |-> <<>>, id |-> id]
              /\ post' = Append(post, [type |-> "metadata", id |-> id])
              /\ nav' \in {nav \cup {id}, {id}}
       /\ downloads' = Append(downloads, m.item) /\ UNCHANGED saved

(* receive() of the page                                                   *)
PageReceive(c) ==
    /\ Page("r") /\ "r" \in opened[c] /\ net[c] # <<>>
    /\ net' = [net EXCEPT ![c] = Tail(@)]
    /\ IF receiving.item # 0 THEN TakeChunk(Head(net[c])) ELSE TakeHeader(Head(net[c]))
    /\ late' = (late \/ (datachannel["r"] # c /\ receiving' # receiving))
    /\ UNCHANGED <<kind, connVars, buf, pageVars, queueVars, goVars, goreceive,
                   streams, body, served, stops>>

(* ww receive takes a message: a header, which ends at once for an empty   *)
(* file, or data.  fatalf ends the process and with it the connection.     *)
GoReceive ==
    LET m == Head(net[GoConn])
        data == Append(receiving.data, m)
    IN  /\ ~Page("r") /\ "r" \in opened[GoConn] /\ goreceive = "read" /\ net[GoConn] # <<>>
        /\ \/ /\ receiving.item = 0 /\ (m.part # 0 \/ batch[m.item].long)
              /\ goreceive' = "fatal" /\ state' = [state EXCEPT !["r"] = "gone"]
              /\ link' = [link EXCEPT ![GoConn] = "lost"] /\ net' = [net EXCEPT ![GoConn] = <<>>]
              /\ UNCHANGED <<receiving, saved>>
           \/ /\ receiving.item = 0 /\ m.part = 0 /\ ~batch[m.item].long
              /\ IF batch[m.item].size = 0 THEN Complete(m.item, <<>>) /\ UNCHANGED receiving
                 ELSE receiving' = [item |-> m.item, data |-> <<>>, id |-> 0] /\ UNCHANGED saved
              /\ net' = [net EXCEPT ![GoConn] = Tail(@)] /\ UNCHANGED <<goreceive, state, link>>
           \/ /\ receiving.item # 0
              /\ IF Len(data) = batch[receiving.item].size
                 THEN receiving' = Nothing /\ Complete(receiving.item, data)
                 ELSE receiving' = [receiving EXCEPT !.data = data] /\ UNCHANGED saved
              /\ net' = [net EXCEPT ![GoConn] = Tail(@)] /\ UNCHANGED <<goreceive, state, link>>
        /\ UNCHANGED <<kind, opened, events, buf, datachannel, queueVars, goVars,
                       downloads, late, workerVars>>

(* io.EOF: the end of the loop between files, an error within one.         *)
GoReceiveEOF ==
    /\ ~Page("r") /\ "r" \in opened[GoConn] /\ goreceive = "read"
    /\ link[GoConn] = "closed" /\ net[GoConn] = <<>>
    /\ goreceive' = IF receiving.item = 0 THEN "ok" ELSE "fatal"
    /\ state' = [state EXCEPT !["r"] = "gone"]
    /\ UNCHANGED <<kind, connVars, buf, net, datachannel, queueVars, goVars, receiving,
                   downloads, saved, late, workerVars>>

Worker ==
    /\ WorkerNext
    /\ UNCHANGED <<kind, connVars, buf, net, pageVars, queueVars, goVars, receiveVars>>

-----------------------------------------------------------------------------
Next ==
    \/ AddUpload \/ GoWrite \/ GoWait \/ Flushed \/ GoClose \/ GoSendFatal
    \/ GoReceive \/ GoReceiveEOF \/ Worker
    \/ \E u \in uploads : FinishUpload(u) \/ \E n \in 1..ReadMax : WriteChunks(u, n)
    \/ \E p \in Side : Dial(p) \/ \E c \in Conn : Open(p, c) \/ Disconnected(p, c)
    \/ \E c \in Conn : Drain(c) \/ LoseLink(c) \/ NewConnection(c) \/ PageReceive(c)

Spec == Init /\ [][Next]_vars
=============================================================================
