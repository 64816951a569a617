--------------------------- MODULE TunnelSession ---------------------------
(***************************************************************************)
(* The stream multiplexer of wormhole/tunnel/session.go: two Sessions, one *)
(* per peer, that carry many virtual connections over one record           *)
(* transport.  Each Session runs a readLoop and a writeLoop goroutine; the *)
(* application adds goroutines that call Dial, Accept, Read, Write, Close  *)
(* and Session.Close.  One action is what a goroutine does between two     *)
(* points at which it can block or at which another goroutine can observe  *)
(* shared state.                                                           *)
(*                                                                         *)
(* The transport is the detached data channel behind wormhole/tunnel.go    *)
(* and wormhole/tunnel_ctx.go: a reliable FIFO of records per direction    *)
(* that accepts no more records while its send buffer is full.             *)
(***************************************************************************)
EXTENDS Naturals, Sequences, FiniteSets

CONSTANTS
    MaxDial,      \* bound: calls of Dial per side, hence connection ids
    MaxWrite,     \* bound: calls of Write per connection end
    EmptyWrites,  \* which of those writes carry no byte
    Dialers,      \* the sides whose application calls Dial
    Writers,      \* the sides whose application calls Write
    Readers,      \* the sides whose application calls Read
    Closers,      \* the sides whose application closes its connections
    Quitters,     \* the sides whose application closes its listener
    Stoppers,     \* the sides whose application calls Session.Close
    LinkFails,    \* whether the transport may fail by itself
    CtxSides,     \* sides over the adapter of tunnel_ctx.go, others: tunnel.go
    ControlCap,   \* capacity of controlCh (64 in the code)
    DataCap,      \* capacity of dataCh (256)
    AcceptCap,    \* capacity of the listener's connCh (64)
    ReadCap,      \* capacity of a connection's readCh (64)
    WireCap,      \* records a transport direction holds before Write blocks
    PeerWindow,   \* how many of these the peer's transport has taken over
    None          \* no connection

Side == {"A", "B"}
Peer(s) == IF s = "A" THEN "B" ELSE "A"
Id == 1..MaxDial

ASSUME BoundsAssumption ==
    /\ MaxDial \in Nat \ {0} /\ MaxWrite \in Nat
    /\ EmptyWrites \subseteq 1..MaxWrite
    /\ Dialers \subseteq Side /\ Writers \subseteq Side /\ Closers \subseteq Side
    /\ Readers \subseteq Side /\ Quitters \subseteq Side /\ Stoppers \subseteq Side
    /\ LinkFails \in BOOLEAN /\ CtxSides \subseteq Side

ASSUME CapAssumption ==
    /\ ControlCap \in Nat \ {0} /\ DataCap \in Nat \ {0}
    /\ AcceptCap \in Nat \ {0} /\ ReadCap \in Nat \ {0}
    /\ WireCap \in Nat \ {0} /\ PeerWindow \in 0..WireCap

(* A tunnelConn: the end of a virtual connection that Dial or handleOpen   *)
(* creates.  Its mate is the end its records are meant for.                *)
Conn == [side: Side, role: {"dial", "accept"}, id: Id]
Mate(c) == [side |-> Peer(c.side), id |-> c.id,
            role |-> IF c.role = "dial" THEN "accept" ELSE "dial"]
DialEnd(s, i) == [side |-> s, role |-> "dial", id |-> i]
AcceptEndOffByOne(s, i) == [side |-> s, role |-> "accept", id |-> i + 1]
AcceptEnd(s, i) == [side |-> s, role |-> "accept", id |-> i]

(* The four calls of sendControl / enqueueData: Dial's, Write's,           *)
(* tunnelConn.Close's and the sendClose of handleOpen.  A record is        *)
(* described by the call that sent it, the end that sent it and, for data, *)
(* which write of that end it is; only the receiver-visible part of it     *)
(* (type, id, payload) steers the actions.                                 *)
Kind == {"open", "data", "close", "reject"}
Record == [kind: Kind, from: Conn, n: 0..MaxWrite]
CallState == {"idle", "new", "send", "wait", "ok", "fail", "over"}

ASSUME NoneAssumption == None \notin Conn \cup Record

VARIABLES
    nextID,     \* Session.nextID
    conns,      \* Session.conns: id -> registered end
    held,       \* ends the application got from Dial or Accept
    once,       \* tunnelConn.once: fresh, busy (inside Do) or done
    closed,     \* ends whose closeCh is closed (and closed flag is 1)
    readCh,     \* tunnelConn.readCh
    got,        \* history: what Read has returned
    eof,        \* ends whose Read has returned io.EOF
    sent,       \* number of Writes begun on an end
    call,       \* progress of a call of sendControl / enqueueData
    ctl, dat,   \* Session.controlCh, Session.dataCh
    writer,     \* the writeLoop goroutine
    bypass,     \* auxiliary: data records written while control waits
    wire, up,   \* records under way from a side; whether the transport works
    reader,     \* the readLoop goroutine
    connCh,     \* listener.connCh
    serving,    \* sides with a goroutine in the Accept loop of Serve
    stopOnce,   \* Session.closeOnce; stopCh is closed once it is not fresh
    sweep,      \* the Range of closeAll
    sclose      \* the application's Session.Close call

table == <<nextID, conns>>
ends  == <<held, once, closed>>
data  == <<sent, readCh, got, eof>>
queue == <<call, ctl, dat>>
out   == <<writer, bypass>>
link  == <<wire, up>>
listen == <<connCh, serving>>
stop  == <<stopOnce, sweep, sclose>>
streams == <<table, ends, data, queue>>
system == <<out, link, reader, listen, stop>>
vars == <<streams, system>>

-----------------------------------------------------------------------------
(* Where a goroutine is, with an operand exactly where its code has one.   *)
Writing == {"topWrite", "selWrite"}  \* writeLoop is in WriteRecord
WriterState == [pc: {"top", "sel", "exit"}, req: {None}] \cup [pc: Writing, req: Record]
ReaderState ==
    [pc: {"read", "stop", "exit"}, c: {None}, rec: {None}]
        \cup [pc: {"opened", "reject", "close", "delete"}, c: Conn, rec: {None}]
        \cup [pc: {"deliver"}, c: Conn, rec: Record]
SweepState ==
    [todo: SUBSET Conn, seen: SUBSET Id, c: {None}, pc: {"range"}]
        \cup [todo: SUBSET Conn, seen: SUBSET Id, c: Conn, pc: {"close", "delete"}]
OnceState == {"fresh", "busy", "done"}

(* The type of every variable.                                             *)
TypeOK ==
    /\ nextID \in [Side -> 0..MaxDial]
    /\ conns \in [Side -> [Id -> Conn \cup {None}]]
    /\ held \subseteq Conn /\ closed \subseteq Conn /\ eof \subseteq Conn
    /\ once \in [Conn -> OnceState]
    /\ readCh \in [Conn -> Seq(Record)] /\ got \in [Conn -> Seq(Record)]
    /\ sent \in [Conn -> 0..MaxWrite]
    /\ call \in [Kind -> [Conn -> CallState]]
    /\ ctl \in [Side -> Seq(Record)] /\ dat \in [Side -> Seq(Record)]
    /\ writer \in [Side -> WriterState] /\ bypass \in [Side -> Nat]
    /\ wire \in [Side -> Seq(Record)] /\ up \in BOOLEAN
    /\ reader \in [Side -> ReaderState]
    /\ connCh \in [Side -> Seq(Conn)] /\ serving \subseteq Side
    /\ stopOnce \in [Side -> OnceState] /\ sweep \in [Side -> SweepState]
    /\ sclose \in [Side -> {"idle", "close", "rwClose", "wait", "done"}]

(* NewSession on both sides, over an open transport, with Serve running.   *)
Init ==
    /\ nextID = [s \in Side |-> 0]
    /\ conns = [s \in Side |-> [i \in Id |-> None]]
    /\ held = {} /\ closed = {} /\ eof = {}
    /\ once = [c \in Conn |-> "fresh"]
    /\ readCh = [c \in Conn |-> <<>>]
    /\ got = [c \in Conn |-> <<>>]
    /\ sent = [c \in Conn |-> 0]
    /\ call = [k \in Kind |-> [c \in Conn |-> "idle"]]
    /\ ctl = [s \in Side |-> <<>>] /\ dat = [s \in Side |-> <<>>]
    /\ writer = [s \in Side |-> [pc |-> "top", req |-> None]]
    /\ bypass = [s \in Side |-> 0]
    /\ wire = [s \in Side |-> <<>>] /\ up = TRUE
    /\ reader = [s \in Side |-> [pc |-> "read", c |-> None, rec |-> None]]
    /\ connCh = [s \in Side |-> <<>>]
    /\ serving = Side
    /\ stopOnce = [s \in Side |-> "fresh"]
    /\ sweep = [s \in Side |-> [todo |-> {}, seen |-> {}, c |-> None, pc |-> "range"]]
    /\ sclose = [s \in Side |-> "idle"]

-----------------------------------------------------------------------------
(* Parts of several actions.                                               *)

Stopped(s) == stopOnce[s] # "fresh"

(* s.conns.Delete(id): whoever is registered under id goes.                *)
Delete(s, i) == conns' = [conns EXCEPT ![s][i] = None]

SetCall(k, c, v) == call' = [call EXCEPT ![k][c] = v]

(* How a call of sendControl or enqueueData may return: with the reply of  *)
(* writeLoop once there is one, or with net.ErrClosed in either select.    *)
Returns(k, c) ==
    ({call[k][c]} \cap {"ok", "fail"})
        \cup (IF Stopped(c.side) /\ call[k][c] \in {"send", "wait", "ok", "fail"}
              THEN {"fail"} ELSE {})

(* The first select of sendControl / enqueueData takes the channel case.   *)
Enqueue(k, c) ==
    LET rec == [kind |-> k, from |-> c, n |-> IF k = "data" THEN sent[c] ELSE 0]
    IN  /\ call[k][c] = "send"
        /\ SetCall(k, c, "wait")
        /\ IF k = "data"
           THEN /\ Len(dat[c.side]) < DataCap
                /\ dat' = [dat EXCEPT ![c.side] = Append(@, rec)]
                /\ UNCHANGED ctl
           ELSE /\ Len(ctl[c.side]) < ControlCap
                /\ ctl' = [ctl EXCEPT ![c.side] = Append(@, rec)]
                /\ UNCHANGED dat
        /\ UNCHANGED <<table, ends, data, system>>

ShutAll(c) ==
    /\ once[c] = "fresh" /\ once' = [once EXCEPT ![c] = "busy"]
    /\ closed' = closed \cup {d \in Conn : d.side = c.side}

(* once.Do of a close, up to and including close(c.closeCh).               *)
Shut(c) ==
    /\ once[c] = "fresh"
    /\ once' = [once EXCEPT ![c] = "busy"]
    /\ closed' = closed \cup {c}

ForgetNothing(c) == once' = [once EXCEPT ![c] = "done"] /\ UNCHANGED conns

(* The rest of remoteClose: forget the id and leave once.Do.               *)
Forget(c) ==
    /\ Delete(c.side, c.id)
    /\ once' = [once EXCEPT ![c] = "done"]

-----------------------------------------------------------------------------
(* Application goroutines.                                                 *)

(* Dial finds stopCh open and takes an id ...                              *)
DialBegin(s) ==
    /\ s \in Dialers /\ nextID[s] < MaxDial /\ ~Stopped(s)
    /\ nextID' = [nextID EXCEPT ![s] = @ + 1]
    /\ SetCall("open", DialEnd(s, nextID[s] + 1), "new")
    /\ UNCHANGED <<conns, ends, data, ctl, dat, system>>

(* ... registers the new end under it and calls sendControl ...            *)
DialStore(c) ==
    /\ call["open"][c] = "new"
    /\ conns' = [conns EXCEPT ![c.side][c.id] = c]
    /\ SetCall("open", c, "send")
    /\ UNCHANGED <<nextID, ends, data, ctl, dat, system>>

(* ... and hands the connection out, or unregisters the id again.          *)
DialReturn(c) ==
    \E r \in Returns("open", c) :
        /\ SetCall("open", c, "over")
        /\ IF r = "ok"
           THEN held' = held \cup {c} /\ UNCHANGED conns
           ELSE Delete(c.side, c.id) /\ UNCHANGED held
        /\ UNCHANGED <<nextID, once, closed, data, ctl, dat, out, link, reader,
                       listen, stop>>

(* The Accept loop of Serve takes a connection; any case of the select may *)
(* be chosen when several are ready.                                       *)
Accept(s) ==
    /\ s \in serving /\ connCh[s] # <<>>
    /\ held' = held \cup {Head(connCh[s])}
    /\ connCh' = [connCh EXCEPT ![s] = Tail(@)]
    /\ UNCHANGED <<table, once, closed, data, queue, out, link, reader, serving, stop>>

(* tunnelListener.Close or the stopped session makes Accept report         *)
(* net.ErrClosed, and Serve returns.                                       *)
AcceptEnds(s) ==
    /\ s \in serving /\ (s \in Quitters \/ Stopped(s))
    /\ serving' = serving \ {s}
    /\ UNCHANGED <<streams, out, link, reader, connCh, stop>>

(* Write finds the closed flag clear.                                      *)
WriteBegin(c) ==
    /\ c \in held \ closed /\ c.side \in Writers
    /\ call["data"][c] = "idle" /\ sent[c] < MaxWrite
    /\ sent' = [sent EXCEPT ![c] = @ + 1]
    /\ SetCall("data", c, "send")
    /\ UNCHANGED <<table, ends, readCh, got, eof, ctl, dat, system>>

(* A writer whose Write failed does not write again.                       *)
WriteReturn(c) ==
    \E r \in Returns("data", c) :
        /\ SetCall("data", c, IF r = "ok" THEN "idle" ELSE "over")
        /\ UNCHANGED <<table, ends, data, ctl, dat, system>>

(* Read takes what deliverData queued; an empty payload reads as EOF.      *)
ReadData(c) ==
    /\ c \in held \ eof /\ c.side \in Readers /\ readCh[c] # <<>>
    /\ readCh' = [readCh EXCEPT ![c] = Tail(@)]
    /\ IF Head(readCh[c]).n \in EmptyWrites
       THEN eof' = eof \cup {c} /\ UNCHANGED got
       ELSE got' = [got EXCEPT ![c] = Append(@, Head(readCh[c]))] /\ UNCHANGED eof
    /\ UNCHANGED <<table, ends, sent, queue, system>>

ReadClosedOrEmpty(c) ==
    /\ c \in held \ eof /\ c.side \in Readers /\ (c \in closed \/ readCh[c] = <<>>)
    /\ eof' = eof \cup {c}
    /\ UNCHANGED <<table, ends, sent, readCh, got, queue, system>>

ReadClosedOwn(c) ==
    /\ c \in (held \ eof) \cap closed /\ c.side \in Readers /\ call["close"][c] # "idle"
    /\ eof' = eof \cup {c}
    /\ UNCHANGED <<table, ends, sent, readCh, got, queue, system>>

(* Read sees closeCh, whatever readCh holds.                               *)
ReadClosed(c) ==
    /\ c \in (held \ eof) \cap closed /\ c.side \in Readers
    /\ eof' = eof \cup {c}
    /\ UNCHANGED <<table, ends, sent, readCh, got, queue, system>>

(* tunnelConn.Close, inside once.Do: closed flag and closeCh ...           *)
CloseBegin(c) ==
    /\ c \in held /\ c.side \in Closers
    /\ Shut(c)
    /\ SetCall("close", c, "new")
    /\ UNCHANGED <<table, held, data, ctl, dat, system>>

(* ... conns.Delete ...                                                    *)
CloseDelete(c) ==
    /\ call["close"][c] = "new"
    /\ Delete(c.side, c.id)
    /\ SetCall("close", c, "send")
    /\ UNCHANGED <<nextID, ends, data, ctl, dat, system>>

(* ... and sendClose, whose error is dropped.                              *)
CloseReturn(c) ==
    /\ Returns("close", c) # {}
    /\ SetCall("close", c, "over")
    /\ once' = [once EXCEPT ![c] = "done"]
    /\ UNCHANGED <<table, held, closed, data, ctl, dat, system>>

-----------------------------------------------------------------------------
(* The writeLoop goroutine.                                                *)

TakeCtl(s, pc) ==
    /\ ctl[s] # <<>>
    /\ writer' = [writer EXCEPT ![s] = [pc |-> pc, req |-> Head(ctl[s])]]
    /\ ctl' = [ctl EXCEPT ![s] = Tail(@)]
    /\ bypass' = [bypass EXCEPT ![s] = 0]
    /\ UNCHANGED dat

WriterGoto(s, pc) ==
    /\ writer' = [writer EXCEPT ![s] = [pc |-> pc, req |-> None]]
    /\ UNCHANGED <<ctl, dat, bypass>>

WriterTopNoPriority(s) ==
    /\ writer[s].pc = "top"
    /\ WriterGoto(s, IF Stopped(s) THEN "exit" ELSE "sel")
    /\ UNCHANGED <<table, ends, data, call, link, reader, listen, stop>>

(* The first select: a pending control record is taken before any data.    *)
WriterTop(s) ==
    /\ writer[s].pc = "top"
    /\ \/ Stopped(s) /\ WriterGoto(s, "exit")
       \/ TakeCtl(s, "topWrite")
       \/ ~Stopped(s) /\ ctl[s] = <<>> /\ WriterGoto(s, "sel")
    /\ UNCHANGED <<table, ends, data, call, link, reader, listen, stop>>

WriterSelectDataOnly(s) ==
    /\ writer[s].pc = "sel"
    /\ \/ Stopped(s) /\ WriterGoto(s, "exit")
       \/ /\ dat[s] # <<>>
          /\ writer' = [writer EXCEPT ![s] = [pc |-> "selWrite", req |-> Head(dat[s])]]
          /\ dat' = [dat EXCEPT ![s] = Tail(@)]
          /\ UNCHANGED <<ctl, bypass>>
    /\ UNCHANGED <<table, ends, data, call, link, reader, listen, stop>>

(* The second select: whichever is ready.                                  *)
WriterSelect(s) ==
    /\ writer[s].pc = "sel"
    /\ \/ Stopped(s) /\ WriterGoto(s, "exit")
       \/ TakeCtl(s, "selWrite")
       \/ /\ dat[s] # <<>>
          /\ writer' = [writer EXCEPT ![s] = [pc |-> "selWrite", req |-> Head(dat[s])]]
          /\ dat' = [dat EXCEPT ![s] = Tail(@)]
          /\ UNCHANGED <<ctl, bypass>>
    /\ UNCHANGED <<table, ends, data, call, link, reader, listen, stop>>

(* WriteRecord: Wormhole.Write waits for flushc while the send buffer is   *)
(* full, also over a dead transport, then sends or fails.  The reply goes  *)
(* to the caller, if it still waits, through the buffered req.err.         *)
WriterWrite(s) ==
    LET req == writer[s].req
    IN  /\ writer[s].pc \in Writing
        /\ Len(wire[s]) < WireCap
        /\ wire' = IF up THEN [wire EXCEPT ![s] = Append(@, req)] ELSE wire
        /\ call' = IF call[req.kind][req.from] = "wait"
                   THEN [call EXCEPT ![req.kind][req.from] = IF up THEN "ok" ELSE "fail"]
                   ELSE call
        /\ writer' = [writer EXCEPT ![s] =
               [pc |-> IF @.pc = "topWrite" THEN "sel" ELSE "top", req |-> None]]
        /\ bypass' = [bypass EXCEPT ![s] =
               IF req.kind = "data" /\ ctl[s] # <<>> THEN @ + 1 ELSE @]
        /\ UNCHANGED <<table, ends, data, ctl, dat, up, reader, listen, stop>>

-----------------------------------------------------------------------------
(* The readLoop goroutine.                                                 *)

ReaderAt(pc, c, rec) == [pc |-> pc, c |-> c, rec |-> rec]
ReaderGoto(s, pc, c, rec) == reader' = [reader EXCEPT ![s] = ReaderAt(pc, c, rec)]
ReaderNext(s) == ReaderGoto(s, "read", None, None)

(* ReadRecord, Decode and the first step of the handler: handleOpen        *)
(* registers a new end under the id, handleData and handleClose load the   *)
(* end registered under it and ignore the record when there is none.       *)
Receive(s) ==
    LET rec == Head(wire[Peer(s)])
        i == rec.from.id
        to == conns[s][i]
    IN  /\ reader[s].pc = "read" /\ wire[Peer(s)] # <<>>
        /\ wire' = [wire EXCEPT ![Peer(s)] = Tail(@)]
        /\ CASE rec.kind = "open" ->
                  /\ conns' = [conns EXCEPT ![s][i] = AcceptEnd(s, i)]
                  /\ ReaderGoto(s, "opened", AcceptEnd(s, i), None)
             [] rec.kind = "data" /\ to # None ->
                  ReaderGoto(s, "deliver", to, rec) /\ UNCHANGED conns
             [] rec.kind \in {"close", "reject"} /\ to # None ->
                  ReaderGoto(s, "close", to, None) /\ UNCHANGED conns
             [] OTHER -> UNCHANGED <<reader, conns>>
        /\ UNCHANGED <<nextID, ends, data, queue, out, up, listen, stop>>

(* The select of handleOpen: its default case only when neither of the     *)
(* others is ready.                                                        *)
OpenQueued(s) ==
    /\ reader[s].pc = "opened" /\ Len(connCh[s]) < AcceptCap
    /\ connCh' = [connCh EXCEPT ![s] = Append(@, reader[s].c)]
    /\ ReaderNext(s)
    /\ UNCHANGED <<streams, out, link, serving, stop>>

OpenRejected(s) ==
    /\ reader[s].pc = "opened"
    /\ Stopped(s) \/ Len(connCh[s]) = AcceptCap
    /\ SetCall("reject", reader[s].c, "send")
    /\ ReaderGoto(s, "reject", reader[s].c, None)
    /\ UNCHANGED <<table, ends, data, ctl, dat, out, link, listen, stop>>

(* The rest of the rejection: sendClose returned, conns.Delete(id).        *)
RejectReturn(s) ==
    /\ reader[s].pc = "reject" /\ Returns("reject", reader[s].c) # {}
    /\ SetCall("reject", reader[s].c, "over")
    /\ Delete(s, reader[s].c.id)
    /\ ReaderNext(s)
    /\ UNCHANGED <<nextID, ends, data, ctl, dat, out, link, listen, stop>>

DeliverOrDrop(s) ==
    LET c == reader[s].c
    IN  /\ reader[s].pc = "deliver"
        /\ readCh' = IF Len(readCh[c]) < ReadCap
                     THEN [readCh EXCEPT ![c] = Append(@, reader[s].rec)] ELSE readCh
        /\ ReaderNext(s)
        /\ UNCHANGED <<table, ends, sent, got, eof, queue, out, link, listen, stop>>

(* deliverData: either case of the select when both are ready.             *)
Deliver(s) ==
    LET c == reader[s].c
    IN  /\ reader[s].pc = "deliver"
        /\ \/ /\ Len(readCh[c]) < ReadCap
              /\ readCh' = [readCh EXCEPT ![c] = Append(@, reader[s].rec)]
           \/ c \in closed /\ UNCHANGED readCh
        /\ ReaderNext(s)
        /\ UNCHANGED <<table, ends, sent, got, eof, queue, out, link, listen, stop>>

(* remoteClose of handleClose.  once.Do waits while another goroutine is   *)
(* inside it and does nothing once that is over.                           *)
CloseRecord(s) ==
    LET c == reader[s].c
    IN  /\ reader[s].pc = "close"
        /\ \/ Shut(c) /\ ReaderGoto(s, "delete", c, None)
           \/ once[c] = "done" /\ ReaderNext(s) /\ UNCHANGED <<once, closed>>
        /\ UNCHANGED <<table, held, data, queue, out, link, listen, stop>>

CloseRecordDelete(s) ==
    /\ reader[s].pc = "delete"
    /\ Forget(reader[s].c)
    /\ ReaderNext(s)
    /\ UNCHANGED <<nextID, held, closed, data, queue, out, link, listen, stop>>

ReadFailsQuietly(s) ==
    /\ reader[s].pc = "read" /\ ~up
    /\ ReaderGoto(s, "exit", None, None)
    /\ UNCHANGED <<streams, out, link, listen, stop>>

(* ReadRecord fails.  Records still buffered may be read first or be lost. *)
ReadFails(s) ==
    /\ reader[s].pc = "read" /\ ~up
    /\ ReaderGoto(s, "stop", None, None)
    /\ UNCHANGED <<streams, out, link, listen, stop>>

(* s.close() of readLoop returned, by its own doing or another goroutine's.*)
ReaderExits(s) ==
    /\ reader[s].pc = "stop" /\ stopOnce[s] = "done"
    /\ ReaderGoto(s, "exit", None, None)
    /\ UNCHANGED <<streams, out, link, listen, stop>>

-----------------------------------------------------------------------------
(* Session.close: closeOnce.Do, run by readLoop or by Session.Close.       *)

Registered(s) == {conns[s][i] : i \in Id} \ {None}
SweepTo(s, todo, seen, c, pc) ==
    sweep' = [sweep EXCEPT ![s] = [todo |-> todo, seen |-> seen, c |-> c, pc |-> pc]]

(* close(s.stopCh), then closeAll's Range starts.                          *)
StopBegin(s) ==
    /\ stopOnce[s] = "fresh"
    /\ reader[s].pc = "stop" \/ sclose[s] = "close"
    /\ stopOnce' = [stopOnce EXCEPT ![s] = "busy"]
    /\ SweepTo(s, Registered(s), {}, None, "range")
    /\ UNCHANGED <<streams, out, link, reader, listen, sclose>>

(* Range visits an id once, with the end it had at the start or has now.   *)
SweepVisit(s) ==
    /\ stopOnce[s] = "busy" /\ sweep[s].pc = "range"
    /\ \E c \in sweep[s].todo \cup Registered(s) :
          /\ c.id \notin sweep[s].seen
          /\ SweepTo(s, sweep[s].todo, sweep[s].seen \cup {c.id}, c, "close")
    /\ UNCHANGED <<streams, out, link, reader, listen, stopOnce, sclose>>

(* remoteClose of the visited end.                                         *)
SweepClose(s) ==
    /\ sweep[s].pc = "close"
    /\ \/ /\ Shut(sweep[s].c)
          /\ SweepTo(s, sweep[s].todo, sweep[s].seen, sweep[s].c, "delete")
       \/ /\ once[sweep[s].c] = "done" /\ UNCHANGED <<once, closed>>
          /\ SweepTo(s, sweep[s].todo, sweep[s].seen, None, "range")
    /\ UNCHANGED <<table, held, data, queue, out, link, reader, listen, stopOnce, sclose>>

SweepDelete(s) ==
    /\ sweep[s].pc = "delete"
    /\ Forget(sweep[s].c)
    /\ SweepTo(s, sweep[s].todo, sweep[s].seen, None, "range")
    /\ UNCHANGED <<nextID, held, closed, data, queue, out, link, reader, listen,
                   stopOnce, sclose>>

StopEndAtOnce(s) ==
    /\ stopOnce[s] = "busy" /\ sweep[s].pc = "range"
    /\ stopOnce' = [stopOnce EXCEPT ![s] = "done"]
    /\ UNCHANGED <<streams, out, link, reader, listen, sweep, sclose>>

(* Range ends once no id it has to visit is left; an entry stored after it *)
(* began need not be one.                                                  *)
StopEnd(s) ==
    /\ stopOnce[s] = "busy" /\ sweep[s].pc = "range"
    /\ \A c \in sweep[s].todo : c.id \in sweep[s].seen \/ c \notin Registered(s)
    /\ stopOnce' = [stopOnce EXCEPT ![s] = "done"]
    /\ UNCHANGED <<streams, out, link, reader, listen, sweep, sclose>>

(* The application calls Session.Close, at most once.                      *)
SessionClose(s) ==
    /\ s \in Stoppers /\ sclose[s] = "idle"
    /\ sclose' = [sclose EXCEPT ![s] = "close"]
    /\ UNCHANGED <<streams, out, link, reader, listen, stopOnce, sweep>>

SessionCloseRw(s) ==
    /\ sclose[s] = "close" /\ stopOnce[s] = "done"
    /\ sclose' = [sclose EXCEPT ![s] = "rwClose"]
    /\ UNCHANGED <<streams, out, link, reader, listen, stopOnce, sweep>>

RwCloseForgotten(s) ==
    /\ sclose[s] = "rwClose"
    /\ sclose' = [sclose EXCEPT ![s] = "wait"]
    /\ UNCHANGED <<streams, out, link, reader, listen, stopOnce, sweep>>

(* rw.Close: Wormhole.Close waits until nothing is buffered, CloseCtx for  *)
(* five seconds at most; then both ends of the transport fail.             *)
RwClose(s) ==
    /\ sclose[s] = "rwClose"
    /\ s \in CtxSides \/ Len(wire[s]) <= PeerWindow
    /\ up' = FALSE
    /\ sclose' = [sclose EXCEPT ![s] = "wait"]
    /\ UNCHANGED <<streams, out, wire, reader, listen, stopOnce, sweep>>

(* wg.Wait.                                                                *)
SessionClosed(s) ==
    /\ sclose[s] = "wait" /\ reader[s].pc = "exit" /\ writer[s].pc = "exit"
    /\ sclose' = [sclose EXCEPT ![s] = "done"]
    /\ UNCHANGED <<streams, out, link, reader, listen, stopOnce, sweep>>

(* The peer connection fails on its own.                                   *)
LinkFail ==
    /\ LinkFails /\ up
    /\ up' = FALSE
    /\ UNCHANGED <<streams, out, wire, reader, listen, stop>>

-----------------------------------------------------------------------------
AppCall(c) == \/ DialStore(c) \/ DialReturn(c) \/ WriteReturn(c)
              \/ CloseDelete(c) \/ CloseReturn(c)
              \/ \E k \in Kind : Enqueue(k, c)
AppRead(c) == ReadData(c) \/ ReadClosed(c)
AppStart(c) == WriteBegin(c) \/ CloseBegin(c)

Writer(s) == WriterTop(s) \/ WriterSelect(s) \/ WriterWrite(s)
Reader(s) == \/ Receive(s) \/ OpenQueued(s) \/ OpenRejected(s) \/ RejectReturn(s)
             \/ Deliver(s) \/ CloseRecord(s) \/ CloseRecordDelete(s)
             \/ ReadFails(s) \/ ReaderExits(s)
Stopping(s) == \/ StopBegin(s) \/ SweepVisit(s) \/ SweepClose(s) \/ SweepDelete(s)
               \/ StopEnd(s) \/ SessionCloseRw(s) \/ RwClose(s) \/ SessionClosed(s)
Serving(s) == Accept(s) \/ AcceptEnds(s)

Next ==
    \/ \E c \in Conn : AppCall(c) \/ AppRead(c) \/ AppStart(c)
    \/ \E s \in Side : \/ Writer(s) \/ Reader(s) \/ Stopping(s) \/ Serving(s)
                       \/ DialBegin(s) \/ SessionClose(s)
    \/ LinkFail

Spec == Init /\ [][Next]_vars
=============================================================================
