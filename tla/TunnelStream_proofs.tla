------------------------- MODULE TunnelStream_proofs -------------------------
(***************************************************************************)
(* A virtual connection is a stream: theorems StreamConserved, OwnMateOnly *)
(* and ImplementsStream of TunnelSession, for any number of connections    *)
(* and writes, any capacity of the channels, and whatever fails or stops,  *)
(* when only one of the two sides dials.  That is how the package is used: *)
(* the side that ran Proxy dials and the other one serves                  *)
(* (wormhole/tunnel/tunnel.go).                                            *)
(***************************************************************************)
EXTENDS TunnelSession_proofs, Induction

OneDialler == \E s \in Side : Dialers \subseteq {s}

(* Every goroutine works on ends of its own side, and only the side that   *)
(* dials has dialled ends.                                                 *)
Owned ==
    /\ \A s \in Side :
          /\ reader[s].pc \notin {"read", "stop", "exit"} => reader[s].c.side = s
          /\ reader[s].pc \in {"opened", "reject"} => reader[s].c.role = "accept"
          /\ \A c \in sweep[s].todo : c.side = s
          /\ sweep[s].pc # "range" => sweep[s].c.side = s /\ Stopped(s)
          /\ \A i \in 1..Len(connCh[s]) : connCh[s][i].side = s /\ connCh[s][i].role = "accept"
    /\ \A c \in Conn : call["open"][c] # "idle" => c.side \in Dialers

(* What has been closed, and who has begun to hang up.                     *)
At(P, c) == reader[c.side].pc \in P /\ reader[c.side].c = c
Hanging(c) ==
    /\ c \in closed => once[c] # "fresh"
    /\ call["close"][c] # "idle" => c \in closed
    /\ call["reject"][c] # "idle" => Introduced(c)
    /\ At({"delete"}, c) \/ (sweep[c.side].pc = "delete" /\ sweep[c.side].c = c) => c \in closed
    /\ At({"close"}, c) => HungUp(Mate(c))
    /\ c \in closed /\ ~ HungUp(c) =>
           /\ conns[c.side][c.id] = c => At({"delete"}, c)
           /\ ~ At({"deliver"}, c)

(* An end in use is registered until it is closed.                         *)
InUse(c) ==
    \/ c \in held \/ Queued(c) \/ At({"opened"}, c)
    \/ call["open"][c] \in {"send", "wait", "ok", "fail"}
Usable(c) ==
    /\ InUse(c) /\ c \notin closed => conns[c.side][c.id] = c
    /\ At({"opened", "reject"}, c) => c \notin held /\ ~ Queued(c)
    /\ c \in held /\ c.role = "dial" => call["open"][c] = "over"

(* The records under way are from calls that were made.                    *)
Made(s, r) ==
    /\ r.from.side = s
    /\ IF r.kind = "data" THEN r.n \in 1..Enqueued(r.from) ELSE call[r.kind][r.from] # "idle"
AllMade(s, q) == \A i \in 1..Len(q) : Made(s, q[i])
Calling(s) == AllMade(s, ctl[s]) /\ AllMade(s, InWriter(s)) /\ AllMade(s, wire[s]) /\ AllMade(s, dat[s])
Writing1(c) ==
    /\ sent[c] > 0 => c \in held
    /\ call["data"][c] # "idle" => sent[c] > 0

(* Dial has its record written before it returns, and data comes after it. *)
OpenOut(d) ==
    call["open"][d] = "ok" \/ (d \in held /\ d.role = "dial")
        => ~ Carries(ctl[d.side], d) /\ ~ InHand(d.side, d)
OpenFirst(q, d) ==
    \A i, j \in 1..Len(q) : IsOpen(q[i], d) /\ q[j].kind = "data" /\ q[j].from = d => i < j

(* What an end has taken over is its mate's.                               *)
Theirs(c, q) ==
    \A i \in 1..Len(q) : q[i].kind = "data" /\ q[i].from = Mate(c) /\ q[i].n \in 1..Enqueued(Mate(c))

(* The places of a record on its way, and what is at one of them is ahead  *)
(* of what is at another.                                                  *)
Low(c) == IF got[c] = <<>> THEN 0 ELSE got[c][Len(got[c])].n
Ahead(X, Y) == \A x \in X, y \in Y : x < y
Chain(l, a, b, w, h, d) ==
    /\ Ahead({l}, a) /\ Ahead({l}, b) /\ Ahead({l}, w) /\ Ahead({l}, h) /\ Ahead({l}, d)
    /\ Ahead(a, b) /\ Ahead(a, w) /\ Ahead(a, h) /\ Ahead(a, d)
    /\ Ahead(b, w) /\ Ahead(b, h) /\ Ahead(b, d)
    /\ Ahead(w, h) /\ Ahead(w, d) /\ Ahead(h, d)
Ordered(c) ==
    LET m == Mate(c)
        p == Peer(c.side)
    IN  /\ InOrder(readCh[c], m) /\ InOrder(wire[p], m) /\ InOrder(dat[p], m)
        /\ Chain(Low(c), Numbers(readCh[c], m), Numbers(InReader(c), m), Numbers(wire[p], m),
                 Numbers(InWriter(p), m), Numbers(dat[p], m))

(* No number is missing in what an end has taken over, until its own side  *)
(* hangs up ...                                                            *)
Whole(c) ==
    /\ \A i \in 1..Len(got[c]) : got[c][i].n = i
    /\ \A i \in 1..Len(readCh[c]) : readCh[c][i].n = Len(got[c]) + i
    /\ \A i \in 1..Len(InReader(c)) : InReader(c)[i].n = Len(got[c]) + Len(readCh[c]) + i

(* ... and none in what it will still get while it is registered.          *)
Fed(c) == c \notin closed \cup eof /\ (conns[c.side][c.id] = c \/ ~ Introduced(c))
Count(c) == Len(got[c]) + Len(readCh[c]) + Len(InReader(c))
Under(c) ==
    LET m == Mate(c)
        p == Peer(c.side)
    IN  Numbers(wire[p], m) \cup (IF up THEN Numbers(InWriter(p), m) \cup Numbers(dat[p], m) ELSE {})
Complete(c) ==
    \E last \in Count(c)..sent[Mate(c)] :
        /\ Under(c) = (Count(c) + 1)..last
        /\ up => \/ last = Enqueued(Mate(c))
                 \/ Stopped(Peer(c.side)) /\ call["data"][Mate(c)] = "over"

DataInv ==
    /\ Owned
    /\ \A c \in Conn : Hanging(c) /\ Usable(c)
    /\ \A s \in Side : Calling(s) /\ \A d \in Conn : OpenFirst(wire[s], d)
    /\ \A c \in Conn : Writing1(c) /\ OpenOut(c)
    /\ \A c \in Conn : Theirs(c, got[c]) /\ Theirs(c, readCh[c]) /\ Theirs(c, InReader(c))
    /\ \A c \in Conn : Ordered(c)
    /\ \A c \in Conn : c \notin eof /\ (c \in closed => ~ HungUp(c)) => Whole(c)
    /\ \A c \in Conn : Fed(c) => Complete(c)

-----------------------------------------------------------------------------
(* Which steps change a variable.                                          *)
Frame ==
    /\ \/ conns' = conns
       \/ \E c \in Conn : DialStore(c) \/ DialReturn(c) \/ CloseDelete(c)
       \/ \E s \in Side : Receive(s) \/ RejectReturn(s) \/ CloseRecordDelete(s) \/ SweepDelete(s)
    /\ \/ held' = held
       \/ \E c \in Conn : DialReturn(c)
       \/ \E s \in Side : Accept(s)
    /\ \/ once' = once
       \/ \E c \in Conn : CloseBegin(c) \/ CloseReturn(c)
       \/ \E s \in Side : CloseRecord(s) \/ CloseRecordDelete(s) \/ SweepClose(s) \/ SweepDelete(s)
    /\ \/ closed' = closed
       \/ \E c \in Conn : CloseBegin(c)
       \/ \E s \in Side : CloseRecord(s) \/ SweepClose(s)
    /\ \/ readCh' = readCh
       \/ \E c \in Conn : ReadData(c)
       \/ \E s \in Side : Deliver(s)
    /\ \/ got' = got
       \/ \E c \in Conn : ReadData(c)
    /\ \/ eof' = eof
       \/ \E c \in Conn : ReadData(c) \/ ReadClosed(c)
    /\ \/ sent' = sent
       \/ \E c \in Conn : WriteBegin(c)
    /\ \/ call' = call
       \/ \E c \in Conn : DialStore(c) \/ DialReturn(c) \/ WriteBegin(c) \/ WriteReturn(c) \/
           CloseBegin(c) \/ CloseDelete(c) \/ CloseReturn(c)
       \/ \E c \in Conn, k \in Kind : Enqueue(k, c)
       \/ \E s \in Side : DialBegin(s) \/ WriterWrite(s) \/ OpenRejected(s) \/ RejectReturn(s)
    /\ \/ ctl' = ctl
       \/ \E c \in Conn, k \in Kind : Enqueue(k, c)
       \/ \E s \in Side : WriterTop(s) \/ WriterSelect(s)
    /\ \/ dat' = dat
       \/ \E c \in Conn, k \in Kind : Enqueue(k, c)
       \/ \E s \in Side : WriterSelect(s)
    /\ \/ writer' = writer
       \/ \E s \in Side : WriterTop(s) \/ WriterSelect(s) \/ WriterWrite(s)
    /\ \/ wire' = wire
       \/ \E s \in Side : WriterWrite(s) \/ Receive(s)
    /\ \/ up' = up
       \/ \E s \in Side : RwClose(s)
       \/ LinkFail
    /\ \/ reader' = reader
       \/ \E s \in Side : Receive(s) \/ OpenQueued(s) \/ OpenRejected(s) \/ RejectReturn(s) \/
           Deliver(s) \/ CloseRecord(s) \/ CloseRecordDelete(s) \/ ReadFails(s) \/ ReaderExits(s)
    /\ \/ connCh' = connCh
       \/ \E s \in Side : Accept(s) \/ OpenQueued(s)
    /\ \/ stopOnce' = stopOnce
       \/ \E s \in Side : StopBegin(s) \/ StopEnd(s)
    /\ \/ sweep' = sweep
       \/ \E s \in Side : StopBegin(s) \/ SweepVisit(s) \/ SweepClose(s) \/ SweepDelete(s)

LEMMA Frames ==
    ASSUME [Next]_vars
    PROVE  Frame
  <1> USE DEF table, ends, data, queue, out, link, listen, stop, streams, system
  <1>1. ASSUME NEW s \in Side, DialBegin(s) PROVE Frame
    <2>1. UNCHANGED <<conns, held, once, closed, readCh, got, eof, sent, ctl, dat, writer, wire, up,
        reader, connCh, stopOnce, sweep>>
      BY <1>1 DEF DialBegin
    <2> QED
      BY <1>1, <2>1 DEF Frame
  <1>2. ASSUME NEW c \in Conn, DialStore(c) PROVE Frame
    <2>1. UNCHANGED <<held, once, closed, readCh, got, eof, sent, ctl, dat, writer, wire, up,
        reader, connCh, stopOnce, sweep>>
      BY <1>2 DEF DialStore
    <2> QED
      BY <1>2, <2>1 DEF Frame
  <1>3. ASSUME NEW c \in Conn, DialReturn(c) PROVE Frame
    <2>1. UNCHANGED <<once, closed, readCh, got, eof, sent, ctl, dat, writer, wire, up, reader,
        connCh, stopOnce, sweep>>
      BY <1>3 DEF DialReturn
    <2> QED
      BY <1>3, <2>1 DEF Frame
  <1>4. ASSUME NEW s \in Side, Accept(s) PROVE Frame
    <2>1. UNCHANGED <<conns, once, closed, readCh, got, eof, sent, call, ctl, dat, writer, wire, up,
        reader, stopOnce, sweep>>
      BY <1>4 DEF Accept
    <2> QED
      BY <1>4, <2>1 DEF Frame
  <1>5. ASSUME NEW s \in Side, AcceptEnds(s) PROVE Frame
    <2>1. UNCHANGED <<conns, held, once, closed, readCh, got, eof, sent, call, ctl, dat, writer,
        wire, up, reader, connCh, stopOnce, sweep>>
      BY <1>5 DEF AcceptEnds
    <2> QED
      BY <1>5, <2>1 DEF Frame
  <1>6. ASSUME NEW c \in Conn, WriteBegin(c) PROVE Frame
    <2>1. UNCHANGED <<conns, held, once, closed, readCh, got, eof, ctl, dat, writer, wire, up,
        reader, connCh, stopOnce, sweep>>
      BY <1>6 DEF WriteBegin
    <2> QED
      BY <1>6, <2>1 DEF Frame
  <1>7. ASSUME NEW c \in Conn, WriteReturn(c) PROVE Frame
    <2>1. UNCHANGED <<conns, held, once, closed, readCh, got, eof, sent, ctl, dat, writer, wire, up,
        reader, connCh, stopOnce, sweep>>
      BY <1>7 DEF WriteReturn
    <2> QED
      BY <1>7, <2>1 DEF Frame
  <1>8. ASSUME NEW c \in Conn, ReadData(c) PROVE Frame
    <2>1. UNCHANGED <<conns, held, once, closed, sent, call, ctl, dat, writer, wire, up, reader,
        connCh, stopOnce, sweep>>
      BY <1>8 DEF ReadData
    <2> QED
      BY <1>8, <2>1 DEF Frame
  <1>9. ASSUME NEW c \in Conn, ReadClosed(c) PROVE Frame
    <2>1. UNCHANGED <<conns, held, once, closed, readCh, got, sent, call, ctl, dat, writer, wire,
        up, reader, connCh, stopOnce, sweep>>
      BY <1>9 DEF ReadClosed
    <2> QED
      BY <1>9, <2>1 DEF Frame
  <1>10. ASSUME NEW c \in Conn, CloseBegin(c) PROVE Frame
    <2>1. UNCHANGED <<conns, held, readCh, got, eof, sent, ctl, dat, writer, wire, up, reader,
        connCh, stopOnce, sweep>>
      BY <1>10 DEF CloseBegin
    <2> QED
      BY <1>10, <2>1 DEF Frame
  <1>11. ASSUME NEW c \in Conn, CloseDelete(c) PROVE Frame
    <2>1. UNCHANGED <<held, once, closed, readCh, got, eof, sent, ctl, dat, writer, wire, up,
        reader, connCh, stopOnce, sweep>>
      BY <1>11 DEF CloseDelete
    <2> QED
      BY <1>11, <2>1 DEF Frame
  <1>12. ASSUME NEW c \in Conn, CloseReturn(c) PROVE Frame
    <2>1. UNCHANGED <<conns, held, closed, readCh, got, eof, sent, ctl, dat, writer, wire, up,
        reader, connCh, stopOnce, sweep>>
      BY <1>12 DEF CloseReturn
    <2> QED
      BY <1>12, <2>1 DEF Frame
  <1>13. ASSUME NEW s \in Side, WriterTop(s) PROVE Frame
    <2>1. UNCHANGED <<conns, held, once, closed, readCh, got, eof, sent, call, dat, wire, up,
        reader, connCh, stopOnce, sweep>>
      BY <1>13 DEF WriterTop, TakeCtl, WriterGoto
    <2> QED
      BY <1>13, <2>1 DEF Frame
  <1>14. ASSUME NEW s \in Side, WriterSelect(s) PROVE Frame
    <2>1. UNCHANGED <<conns, held, once, closed, readCh, got, eof, sent, call, wire, up, reader,
        connCh, stopOnce, sweep>>
      BY <1>14 DEF WriterSelect
    <2> QED
      BY <1>14, <2>1 DEF Frame
  <1>15. ASSUME NEW s \in Side, WriterWrite(s) PROVE Frame
    <2>1. UNCHANGED <<conns, held, once, closed, readCh, got, eof, sent, ctl, dat, up, reader,
        connCh, stopOnce, sweep>>
      BY <1>15 DEF WriterWrite
    <2> QED
      BY <1>15, <2>1 DEF Frame
  <1>16. ASSUME NEW s \in Side, Receive(s) PROVE Frame
    <2>1. UNCHANGED <<held, once, closed, readCh, got, eof, sent, call, ctl, dat, writer, up,
        connCh, stopOnce, sweep>>
      BY <1>16 DEF Receive
    <2> QED
      BY <1>16, <2>1 DEF Frame
  <1>17. ASSUME NEW s \in Side, OpenQueued(s) PROVE Frame
    <2>1. UNCHANGED <<conns, held, once, closed, readCh, got, eof, sent, call, ctl, dat, writer,
        wire, up, stopOnce, sweep>>
      BY <1>17 DEF OpenQueued
    <2> QED
      BY <1>17, <2>1 DEF Frame
  <1>18. ASSUME NEW s \in Side, OpenRejected(s) PROVE Frame
    <2>1. UNCHANGED <<conns, held, once, closed, readCh, got, eof, sent, ctl, dat, writer, wire, up,
        connCh, stopOnce, sweep>>
      BY <1>18 DEF OpenRejected
    <2> QED
      BY <1>18, <2>1 DEF Frame
  <1>19. ASSUME NEW s \in Side, RejectReturn(s) PROVE Frame
    <2>1. UNCHANGED <<held, once, closed, readCh, got, eof, sent, ctl, dat, writer, wire, up,
        connCh, stopOnce, sweep>>
      BY <1>19 DEF RejectReturn
    <2> QED
      BY <1>19, <2>1 DEF Frame
  <1>20. ASSUME NEW s \in Side, Deliver(s) PROVE Frame
    <2>1. UNCHANGED <<conns, held, once, closed, got, eof, sent, call, ctl, dat, writer, wire, up,
        connCh, stopOnce, sweep>>
      BY <1>20 DEF Deliver
    <2> QED
      BY <1>20, <2>1 DEF Frame
  <1>21. ASSUME NEW s \in Side, CloseRecord(s) PROVE Frame
    <2>1. UNCHANGED <<conns, held, readCh, got, eof, sent, call, ctl, dat, writer, wire, up, connCh,
        stopOnce, sweep>>
      BY <1>21 DEF CloseRecord
    <2> QED
      BY <1>21, <2>1 DEF Frame
  <1>22. ASSUME NEW s \in Side, CloseRecordDelete(s) PROVE Frame
    <2>1. UNCHANGED <<held, closed, readCh, got, eof, sent, call, ctl, dat, writer, wire, up,
        connCh, stopOnce, sweep>>
      BY <1>22 DEF CloseRecordDelete
    <2> QED
      BY <1>22, <2>1 DEF Frame
  <1>23. ASSUME NEW s \in Side, ReadFails(s) PROVE Frame
    <2>1. UNCHANGED <<conns, held, once, closed, readCh, got, eof, sent, call, ctl, dat, writer,
        wire, up, connCh, stopOnce, sweep>>
      BY <1>23 DEF ReadFails
    <2> QED
      BY <1>23, <2>1 DEF Frame
  <1>24. ASSUME NEW s \in Side, ReaderExits(s) PROVE Frame
    <2>1. UNCHANGED <<conns, held, once, closed, readCh, got, eof, sent, call, ctl, dat, writer,
        wire, up, connCh, stopOnce, sweep>>
      BY <1>24 DEF ReaderExits
    <2> QED
      BY <1>24, <2>1 DEF Frame
  <1>25. ASSUME NEW s \in Side, StopBegin(s) PROVE Frame
    <2>1. UNCHANGED <<conns, held, once, closed, readCh, got, eof, sent, call, ctl, dat, writer,
        wire, up, reader, connCh>>
      BY <1>25 DEF StopBegin
    <2> QED
      BY <1>25, <2>1 DEF Frame
  <1>26. ASSUME NEW s \in Side, SweepVisit(s) PROVE Frame
    <2>1. UNCHANGED <<conns, held, once, closed, readCh, got, eof, sent, call, ctl, dat, writer,
        wire, up, reader, connCh, stopOnce>>
      BY <1>26 DEF SweepVisit
    <2> QED
      BY <1>26, <2>1 DEF Frame
  <1>27. ASSUME NEW s \in Side, SweepClose(s) PROVE Frame
    <2>1. UNCHANGED <<conns, held, readCh, got, eof, sent, call, ctl, dat, writer, wire, up, reader,
        connCh, stopOnce>>
      BY <1>27 DEF SweepClose
    <2> QED
      BY <1>27, <2>1 DEF Frame
  <1>28. ASSUME NEW s \in Side, SweepDelete(s) PROVE Frame
    <2>1. UNCHANGED <<held, closed, readCh, got, eof, sent, call, ctl, dat, writer, wire, up,
        reader, connCh, stopOnce>>
      BY <1>28 DEF SweepDelete
    <2> QED
      BY <1>28, <2>1 DEF Frame
  <1>29. ASSUME NEW s \in Side, StopEnd(s) PROVE Frame
    <2>1. UNCHANGED <<conns, held, once, closed, readCh, got, eof, sent, call, ctl, dat, writer,
        wire, up, reader, connCh, sweep>>
      BY <1>29 DEF StopEnd
    <2> QED
      BY <1>29, <2>1 DEF Frame
  <1>30. ASSUME NEW s \in Side, SessionClose(s) PROVE Frame
    <2>1. UNCHANGED <<conns, held, once, closed, readCh, got, eof, sent, call, ctl, dat, writer,
        wire, up, reader, connCh, stopOnce, sweep>>
      BY <1>30 DEF SessionClose
    <2> QED
      BY <1>30, <2>1 DEF Frame
  <1>31. ASSUME NEW s \in Side, SessionCloseRw(s) PROVE Frame
    <2>1. UNCHANGED <<conns, held, once, closed, readCh, got, eof, sent, call, ctl, dat, writer,
        wire, up, reader, connCh, stopOnce, sweep>>
      BY <1>31 DEF SessionCloseRw
    <2> QED
      BY <1>31, <2>1 DEF Frame
  <1>32. ASSUME NEW s \in Side, RwClose(s) PROVE Frame
    <2>1. UNCHANGED <<conns, held, once, closed, readCh, got, eof, sent, call, ctl, dat, writer,
        wire, reader, connCh, stopOnce, sweep>>
      BY <1>32 DEF RwClose
    <2> QED
      BY <1>32, <2>1 DEF Frame
  <1>33. ASSUME NEW s \in Side, SessionClosed(s) PROVE Frame
    <2>1. UNCHANGED <<conns, held, once, closed, readCh, got, eof, sent, call, ctl, dat, writer,
        wire, up, reader, connCh, stopOnce, sweep>>
      BY <1>33 DEF SessionClosed
    <2> QED
      BY <1>33, <2>1 DEF Frame
  <1>34. ASSUME LinkFail PROVE Frame
    <2>1. UNCHANGED <<conns, held, once, closed, readCh, got, eof, sent, call, ctl, dat, writer,
        wire, reader, connCh, stopOnce, sweep>>
      BY <1>34 DEF LinkFail
    <2> QED
      BY <1>34, <2>1 DEF Frame
  <1>35. ASSUME NEW c \in Conn, NEW k \in Kind, Enqueue(k, c) PROVE Frame
    <2>1. UNCHANGED <<conns, held, once, closed, readCh, got, eof, sent, writer, wire, up, reader,
        connCh, stopOnce, sweep>>
      BY <1>35 DEF Enqueue
    <2> QED
      BY <1>35, <2>1 DEF Frame
  <1>36. ASSUME UNCHANGED vars PROVE Frame
    BY <1>36 DEF vars, Frame
  <1> QED
    BY <1>1, <1>2, <1>3, <1>4, <1>5, <1>6, <1>7, <1>8, <1>9, <1>10, <1>11, <1>12, <1>13, <1>14, <1>15, <1>16, <1>17, <1>18, <1>19, <1>20, <1>21, <1>22, <1>23, <1>24, <1>25, <1>26, <1>27, <1>28, <1>29, <1>30, <1>31, <1>32, <1>33, <1>34, <1>35, <1>36
       DEF Next, AppCall, AppRead, AppStart, Writer, Reader, Stopping, Serving
-----------------------------------------------------------------------------
(* The positions of a queue that gets another record ...                   *)
LEMMA Appended ==
    ASSUME NEW q \in Seq(Record), NEW r \in Record, NEW p, p = Append(q, r)
    PROVE  /\ p \in Seq(Record) /\ Len(q) \in Nat /\ Len(p) = Len(q) + 1 /\ p[Len(q) + 1] = r
           /\ \A i \in 1..Len(p) : (i \in 1..Len(q) /\ p[i] = q[i]) \/ (i = Len(q) + 1 /\ p[i] = r)
           /\ \A i \in 1..Len(q) : i \in 1..Len(p) /\ p[i] = q[i] /\ i < Len(q) + 1
  OBVIOUS

(* ... and of one whose first record is taken.                             *)
LEMMA Rest ==
    ASSUME NEW q \in Seq(Record), q # <<>>, NEW p, p = Tail(q)
    PROVE  /\ p \in Seq(Record) /\ Head(q) \in Record /\ Head(q) = q[1] /\ 1 \in 1..Len(q)
           /\ Len(p) \in Nat /\ Len(q) = Len(p) + 1
           /\ \A i \in 1..Len(q) : (i = 1) \/ (i - 1 \in 1..Len(p) /\ q[i] = p[i - 1])
           /\ \A i \in 1..Len(p) : i + 1 \in 1..Len(q) /\ p[i] = q[i + 1]
  <1>1. /\ p \in Seq(Record) /\ Head(q) \in Record /\ Head(q) = q[1] /\ 1 \in 1..Len(q)
        /\ Len(p) \in Nat /\ Len(q) = Len(p) + 1
        /\ \A i \in 1..Len(p) : i + 1 \in 1..Len(q) /\ p[i] = q[i + 1]
    OBVIOUS
  <1>2. ASSUME NEW i \in 1..Len(q), i # 1 PROVE i - 1 \in 1..Len(p) /\ q[i] = p[i - 1]
    <2>1. i - 1 \in 1..Len(p) /\ (i - 1) + 1 = i
      BY <1>1, <1>2
    <2> QED
      BY <1>1, <2>1
  <1> QED
    BY <1>1, <1>2

(* The numbers of the writes of m in a queue, when a record is appended ...*)
NumberOf(r, m) == IF r.kind = "data" /\ r.from = m THEN {r.n} ELSE {}
LEMMA NumbersAppended ==
    ASSUME NEW q \in Seq(Record), NEW r \in Record, NEW m
    PROVE  /\ Numbers(Append(q, r), m) = Numbers(q, m) \cup NumberOf(r, m)
           /\ InOrder(q, m) /\ Ahead(Numbers(q, m), NumberOf(r, m)) => InOrder(Append(q, r), m)
  <1> DEFINE p == Append(q, r)
             Is(x) == x.kind = "data" /\ x.from = m
  <1>1. /\ p \in Seq(Record) /\ Len(q) \in Nat /\ Len(p) = Len(q) + 1 /\ p[Len(q) + 1] = r
        /\ \A i \in 1..Len(p) : (i \in 1..Len(q) /\ p[i] = q[i]) \/ (i = Len(q) + 1 /\ p[i] = r)
        /\ \A i \in 1..Len(q) : i \in 1..Len(p) /\ p[i] = q[i] /\ i < Len(q) + 1
    BY Appended
  <1>2. DOMAIN p = 1..Len(p) /\ DOMAIN q = 1..Len(q) /\ Len(q) + 1 \in 1..Len(p)
    BY <1>1
  <1> HIDE DEF p
  <1>3. /\ DataFrom(p, m) = {i \in 1..Len(p) : Is(p[i])}
        /\ DataFrom(q, m) = {i \in 1..Len(q) : Is(q[i])}
    BY <1>2 DEF DataFrom
  <1>4. NumberOf(r, m) = IF Is(r) THEN {r.n} ELSE {}
    BY DEF NumberOf
  <1> HIDE DEF Is
  <1>5. Numbers(p, m) \subseteq Numbers(q, m) \cup NumberOf(r, m)
    BY <1>1, <1>3, <1>4 DEF Numbers
  <1>6. Numbers(q, m) \subseteq Numbers(p, m)
    BY <1>1, <1>3 DEF Numbers
  <1>7. NumberOf(r, m) \subseteq Numbers(p, m)
    BY <1>1, <1>2, <1>3, <1>4 DEF Numbers
  <1>8. ASSUME InOrder(q, m), Ahead(Numbers(q, m), NumberOf(r, m)) PROVE InOrder(p, m)
    <2>1. ASSUME NEW i \in DataFrom(p, m), NEW j \in DataFrom(p, m), i < j PROVE p[i].n < p[j].n
      <3>1. i \in 1..Len(p) /\ j \in 1..Len(p) /\ Is(p[i]) /\ Is(p[j])
        BY <1>3, <2>1
      <3>2. i \in 1..Len(q) /\ p[i] = q[i]
        BY <1>1, <2>1, <3>1
      <3>3. i \in DataFrom(q, m)
        BY <1>3, <3>1, <3>2
      <3>4. CASE j \in 1..Len(q) /\ p[j] = q[j]
        <4>1. j \in DataFrom(q, m)
          BY <1>3, <3>1, <3>4
        <4> QED
          BY <1>8, <2>1, <3>2, <3>3, <3>4, <4>1 DEF InOrder
      <3>5. CASE j = Len(q) + 1 /\ p[j] = r
        <4>1. r.n \in NumberOf(r, m) /\ q[i].n \in Numbers(q, m)
          BY <1>4, <3>1, <3>3, <3>5 DEF Numbers
        <4> QED
          BY <1>8, <3>2, <3>5, <4>1 DEF Ahead
      <3> QED
        BY <1>1, <3>1, <3>4, <3>5
    <2> QED
      BY <2>1 DEF InOrder
  <1>9. Numbers(p, m) = Numbers(q, m) \cup NumberOf(r, m)
    BY <1>5, <1>6, <1>7
  <1> QED
    BY <1>8, <1>9 DEF p

(* ... and when the first one is taken.                                    *)
LEMMA NumbersTaken ==
    ASSUME NEW q \in Seq(Record), q # <<>>, NEW m
    PROVE  /\ Numbers(q, m) = NumberOf(Head(q), m) \cup Numbers(Tail(q), m)
           /\ InOrder(q, m) => InOrder(Tail(q), m) /\ Ahead(NumberOf(Head(q), m), Numbers(Tail(q), m))
  <1> DEFINE p == Tail(q)
             Is(x) == x.kind = "data" /\ x.from = m
  <1>1. /\ p \in Seq(Record) /\ Head(q) \in Record /\ Head(q) = q[1] /\ 1 \in 1..Len(q)
        /\ Len(p) \in Nat /\ Len(q) = Len(p) + 1
        /\ \A i \in 1..Len(q) : (i = 1) \/ (i - 1 \in 1..Len(p) /\ q[i] = p[i - 1])
        /\ \A i \in 1..Len(p) : i + 1 \in 1..Len(q) /\ p[i] = q[i + 1]
    BY Rest
  <1>2. DOMAIN p = 1..Len(p) /\ DOMAIN q = 1..Len(q)
    BY <1>1
  <1> HIDE DEF p
  <1>3. /\ DataFrom(p, m) = {i \in 1..Len(p) : Is(p[i])}
        /\ DataFrom(q, m) = {i \in 1..Len(q) : Is(q[i])}
    BY <1>2 DEF DataFrom
  <1>4. NumberOf(q[1], m) = IF Is(q[1]) THEN {q[1].n} ELSE {}
    BY DEF NumberOf
  <1> HIDE DEF Is
  <1>5. Numbers(q, m) \subseteq NumberOf(q[1], m) \cup Numbers(p, m)
    <2>1. ASSUME NEW i \in DataFrom(q, m) PROVE q[i].n \in NumberOf(q[1], m) \cup Numbers(p, m)
      <3>1. CASE i = 1
        BY <1>3, <1>4, <2>1, <3>1
      <3>2. CASE i - 1 \in 1..Len(p) /\ q[i] = p[i - 1]
        <4>1. i - 1 \in DataFrom(p, m)
          BY <1>3, <2>1, <3>2
        <4> QED
          BY <3>2, <4>1 DEF Numbers
      <3> QED
        BY <1>1, <1>3, <2>1, <3>1, <3>2
    <2> QED
      BY <2>1 DEF Numbers
  <1>6. NumberOf(q[1], m) \subseteq Numbers(q, m)
    BY <1>1, <1>3, <1>4 DEF Numbers
  <1>7. Numbers(p, m) \subseteq Numbers(q, m)
    BY <1>1, <1>3 DEF Numbers
  <1>8. ASSUME InOrder(q, m) PROVE InOrder(p, m) /\ Ahead(NumberOf(q[1], m), Numbers(p, m))
    <2>1. ASSUME NEW i \in DataFrom(p, m) PROVE i + 1 \in DataFrom(q, m) /\ q[i + 1] = p[i] /\ i \in Nat /\ i > 0
      BY <1>1, <1>3, <2>1
    <2>2. ASSUME NEW i \in DataFrom(p, m), NEW j \in DataFrom(p, m), i < j PROVE p[i].n < p[j].n
      <3>1. i + 1 < j + 1
        BY <2>1, <2>2
      <3> QED
        BY <1>8, <2>1, <3>1 DEF InOrder
    <2>3. ASSUME NEW x \in NumberOf(q[1], m), NEW y \in Numbers(p, m) PROVE x < y
      <3>1. PICK j \in DataFrom(p, m) : y = p[j].n
        BY <2>3 DEF Numbers
      <3>2. 1 \in DataFrom(q, m) /\ x = q[1].n
        BY <1>1, <1>3, <1>4, <2>3
      <3>3. 1 < j + 1
        BY <2>1
      <3> QED
        BY <1>8, <2>1, <3>1, <3>2, <3>3 DEF InOrder
    <2> QED
      BY <2>2, <2>3 DEF InOrder, Ahead
  <1>9. Numbers(q, m) = NumberOf(q[1], m) \cup Numbers(p, m)
    BY <1>5, <1>6, <1>7
  <1> QED
    BY <1>1, <1>8, <1>9 DEF p

(* A queue of none or of one.                                              *)
LEMMA NumbersFew ==
    ASSUME NEW m
    PROVE  /\ Numbers(<<>>, m) = {} /\ InOrder(<<>>, m)
           /\ \A r \in Record : Numbers(<<r>>, m) = NumberOf(r, m) /\ InOrder(<<r>>, m)
  <1>1. Numbers(<<>>, m) = {} /\ InOrder(<<>>, m)
    BY DEF Numbers, InOrder, DataFrom
  <1>2. ASSUME NEW r \in Record
        PROVE  Numbers(<<r>>, m) = NumberOf(r, m) /\ InOrder(<<r>>, m)
    <2>1. <<>> \in Seq(Record) /\ Append(<<>>, r) = <<r>>
      OBVIOUS
    <2>2. Ahead(Numbers(<<>>, m), NumberOf(r, m))
      BY <1>1 DEF Ahead
    <2>3. /\ Numbers(Append(<<>>, r), m) = Numbers(<<>>, m) \cup NumberOf(r, m)
          /\ InOrder(<<>>, m) /\ Ahead(Numbers(<<>>, m), NumberOf(r, m)) => InOrder(Append(<<>>, r), m)
      BY <2>1, NumbersAppended
    <2>4. Numbers(<<r>>, m) = Numbers(<<>>, m) \cup NumberOf(r, m) /\ InOrder(<<r>>, m)
      BY <1>1, <2>1, <2>2, <2>3
    <2> QED
      BY <1>1, <2>4
  <1> QED
    BY <1>1, <1>2

(* Numbers are numbers.                                                    *)
LEMMA NumbersType ==
    ASSUME NEW q \in Seq(Record), NEW m
    PROVE  Numbers(q, m) \in SUBSET Nat
  <1>1. ASSUME NEW i \in DataFrom(q, m) PROVE q[i].n \in Nat
    <2>1. q[i] \in Record
      BY <1>1 DEF DataFrom
    <2> QED
      BY <2>1, BoundsAssumption, ConnFacts
  <1> QED
    BY <1>1 DEF Numbers

-----------------------------------------------------------------------------
(* Which steps take a call further, and where to.                          *)
InCall == {"send", "wait", "ok", "fail"}
CallStep(k, c) ==
    \/ k = "open" /\ \/ DialBegin(c.side) /\ c.side \in Dialers /\ call'[k][c] = "new"
                     \/ DialStore(c) /\ call[k][c] = "new" /\ call'[k][c] = "send"
                     \/ DialReturn(c) /\ call[k][c] \in InCall /\ call'[k][c] = "over"
    \/ k = "data" /\ \/ WriteBegin(c) /\ call[k][c] = "idle" /\ call'[k][c] = "send"
                     \/ WriteReturn(c) /\ call[k][c] \in InCall /\ call'[k][c] \in {"idle", "over"}
    \/ k = "close" /\ \/ CloseBegin(c) /\ call'[k][c] = "new"
                      \/ CloseDelete(c) /\ call[k][c] = "new" /\ call'[k][c] = "send"
                      \/ CloseReturn(c) /\ call[k][c] \in InCall /\ call'[k][c] = "over"
    \/ k = "reject" /\ \E s \in Side :
          /\ reader[s].c = c
          /\ \/ OpenRejected(s) /\ call'[k][c] = "send"
             \/ RejectReturn(s) /\ call[k][c] \in InCall /\ call'[k][c] = "over"
    \/ Enqueue(k, c) /\ call[k][c] = "send" /\ call'[k][c] = "wait"
    \/ /\ \E s \in Side : WriterWrite(s) /\ writer[s].req.kind = k /\ writer[s].req.from = c
       /\ call[k][c] = "wait" /\ call'[k][c] = IF up THEN "ok" ELSE "fail"

LEMMA CallSteps ==
    ASSUME TypeOK, [Next]_vars, NEW k \in Kind, NEW c \in Conn
    PROVE  call'[k][c] = call[k][c] \/ CallStep(k, c)
  <1> DEFINE Goal == call'[k][c] = call[k][c] \/ CallStep(k, c)
  <1> HIDE DEF Goal
  <1>0. \A j \in {"open", "data", "close", "reject"} : j \in Kind
    BY DEF Kind
  <1>1. ASSUME NEW j \in Kind, NEW x \in Conn, NEW v, SetCall(j, x, v), j = k /\ x = c => CallStep(k, c)
        PROVE  Goal
    BY <1>1, CallSet DEF Goal
  <1>2. ASSUME NEW s \in Side, DialBegin(s) PROVE Goal
    <2> DEFINE x == DialEnd(s, nextID[s] + 1)
    <2>1. x \in Conn /\ x.side = s
      <3>1. nextID[s] + 1 \in Id
        BY <1>2, BoundsAssumption DEF DialBegin, TypeOK, Id
      <3> QED
        BY <3>1, ConnFacts DEF DialEnd
    <2>2. SetCall("open", x, "new") /\ s \in Dialers
      BY <1>2 DEF DialBegin
    <2> HIDE DEF x
    <2>3. call'["open"][x] = "new"
      BY <1>0, <2>1, <2>2, CallSet
    <2>4. "open" = k /\ x = c => CallStep(k, c)
      BY <1>2, <2>1, <2>2, <2>3 DEF CallStep
    <2> QED
      BY <1>0, <1>1, <2>1, <2>2, <2>4
  <1>3. ASSUME NEW x \in Conn, DialStore(x) PROVE Goal
    <2>1. SetCall("open", x, "send") /\ call["open"][x] = "new"
      BY <1>3 DEF DialStore
    <2>2. call'["open"][x] = "send"
      BY <1>0, <2>1, CallSet
    <2>3. "open" = k /\ x = c => CallStep(k, c)
      BY <1>3, <2>1, <2>2 DEF CallStep
    <2> QED
      BY <1>0, <1>1, <2>1, <2>3
  <1>4. ASSUME NEW x \in Conn, DialReturn(x) PROVE Goal
    <2>1. SetCall("open", x, "over") /\ call["open"][x] \in InCall
      BY <1>4 DEF DialReturn, Returns, InCall
    <2>2. call'["open"][x] = "over"
      BY <1>0, <2>1, CallSet
    <2>3. "open" = k /\ x = c => CallStep(k, c)
      BY <1>4, <2>1, <2>2 DEF CallStep
    <2> QED
      BY <1>0, <1>1, <2>1, <2>3
  <1>5. ASSUME NEW x \in Conn, WriteBegin(x) PROVE Goal
    <2>1. SetCall("data", x, "send") /\ call["data"][x] = "idle"
      BY <1>5 DEF WriteBegin
    <2>2. call'["data"][x] = "send"
      BY <1>0, <2>1, CallSet
    <2>3. "data" = k /\ x = c => CallStep(k, c)
      BY <1>5, <2>1, <2>2 DEF CallStep
    <2> QED
      BY <1>0, <1>1, <2>1, <2>3
  <1>6. ASSUME NEW x \in Conn, WriteReturn(x) PROVE Goal
    <2>1. PICK v \in {"idle", "over"} : SetCall("data", x, v) /\ call["data"][x] \in InCall
      BY <1>6 DEF WriteReturn, Returns, InCall
    <2>2. call'["data"][x] \in {"idle", "over"}
      BY <1>0, <2>1, CallSet
    <2>3. "data" = k /\ x = c => CallStep(k, c)
      BY <1>6, <2>1, <2>2 DEF CallStep
    <2> QED
      BY <1>0, <1>1, <2>1, <2>3
  <1>7. ASSUME NEW x \in Conn, CloseBegin(x) PROVE Goal
    <2>1. SetCall("close", x, "new")
      BY <1>7 DEF CloseBegin
    <2>2. call'["close"][x] = "new"
      BY <1>0, <2>1, CallSet
    <2>3. "close" = k /\ x = c => CallStep(k, c)
      BY <1>7, <2>1, <2>2 DEF CallStep
    <2> QED
      BY <1>0, <1>1, <2>1, <2>3
  <1>8. ASSUME NEW x \in Conn, CloseDelete(x) PROVE Goal
    <2>1. SetCall("close", x, "send") /\ call["close"][x] = "new"
      BY <1>8 DEF CloseDelete
    <2>2. call'["close"][x] = "send"
      BY <1>0, <2>1, CallSet
    <2>3. "close" = k /\ x = c => CallStep(k, c)
      BY <1>8, <2>1, <2>2 DEF CallStep
    <2> QED
      BY <1>0, <1>1, <2>1, <2>3
  <1>9. ASSUME NEW x \in Conn, CloseReturn(x) PROVE Goal
    <2>1. SetCall("close", x, "over") /\ call["close"][x] \in InCall
      BY <1>9 DEF CloseReturn, Returns, InCall
    <2>2. call'["close"][x] = "over"
      BY <1>0, <2>1, CallSet
    <2>3. "close" = k /\ x = c => CallStep(k, c)
      BY <1>9, <2>1, <2>2 DEF CallStep
    <2> QED
      BY <1>0, <1>1, <2>1, <2>3
  <1>10. ASSUME NEW x \in Conn, NEW j \in Kind, Enqueue(j, x) PROVE Goal
    <2>1. SetCall(j, x, "wait") /\ call[j][x] = "send"
      BY <1>10 DEF Enqueue
    <2>2. call'[j][x] = "wait"
      BY <2>1, CallSet
    <2>3. j = k /\ x = c => CallStep(k, c)
      BY <1>10, <2>1, <2>2 DEF CallStep
    <2> QED
      BY <1>1, <2>1, <2>3
  <1>11. ASSUME NEW s \in Side, WriterWrite(s) PROVE Goal
    <2> DEFINE j == writer[s].req.kind
               x == writer[s].req.from
               v == IF up THEN "ok" ELSE "fail"
    <2>1. j \in Kind /\ x \in Conn
      BY <1>11, WriterFacts, ConnFacts DEF WriterWrite, TypeOK
    <2>2. call' = call \/ (call[j][x] = "wait" /\ SetCall(j, x, v))
      BY <1>11 DEF WriterWrite, SetCall
    <2>3. CASE call' = call
      BY <2>3 DEF Goal
    <2>4. CASE call[j][x] = "wait" /\ SetCall(j, x, v)
      <3> HIDE DEF v
      <3>1. call'[j][x] = v
        BY <2>1, <2>4, CallSet
      <3>2. j = k /\ x = c => CallStep(k, c)
        BY <1>11, <2>4, <3>1 DEF CallStep, v
      <3> QED
        BY <1>1, <2>1, <2>4, <3>2
    <2> QED
      BY <2>2, <2>3, <2>4
  <1>12. ASSUME NEW s \in Side, OpenRejected(s) \/ RejectReturn(s) PROVE Goal
    <2> DEFINE x == reader[s].c
    <2>1. x \in Conn
      BY <1>12, ReaderFacts DEF OpenRejected, RejectReturn, TypeOK
    <2>2. \/ OpenRejected(s) /\ SetCall("reject", x, "send")
          \/ RejectReturn(s) /\ SetCall("reject", x, "over") /\ call["reject"][x] \in InCall
      BY <1>12 DEF OpenRejected, RejectReturn, Returns, InCall
    <2>3. CASE OpenRejected(s) /\ SetCall("reject", x, "send")
      <3>1. call'["reject"][x] = "send"
        BY <1>0, <2>1, <2>3, CallSet
      <3>2. "reject" = k /\ x = c => CallStep(k, c)
        BY <2>3, <3>1 DEF CallStep
      <3> QED
        BY <1>0, <1>1, <2>1, <2>3, <3>2
    <2>4. CASE RejectReturn(s) /\ SetCall("reject", x, "over") /\ call["reject"][x] \in InCall
      <3>1. call'["reject"][x] = "over"
        BY <1>0, <2>1, <2>4, CallSet
      <3>2. "reject" = k /\ x = c => CallStep(k, c)
        BY <2>4, <3>1 DEF CallStep
      <3> QED
        BY <1>0, <1>1, <2>1, <2>4, <3>2
    <2> QED
      BY <2>2, <2>3, <2>4
  <1>13. ASSUME call' = call PROVE Goal
    BY <1>13 DEF Goal
  <1>14. Goal
    <2>1. Frame
      BY Frames
    <2>2. \/ call' = call
          \/ \E x \in Conn : DialStore(x) \/ DialReturn(x) \/ WriteBegin(x) \/ WriteReturn(x) \/
                CloseBegin(x) \/ CloseDelete(x) \/ CloseReturn(x)
          \/ \E x \in Conn, j \in Kind : Enqueue(j, x)
          \/ \E s \in Side : DialBegin(s) \/ WriterWrite(s) \/ OpenRejected(s) \/ RejectReturn(s)
      BY <2>1 DEF Frame
    <2> QED
      BY <1>2, <1>3, <1>4, <1>5, <1>6, <1>7, <1>8, <1>9, <1>10, <1>11, <1>12, <1>13, <2>2
  <1> QED
    BY <1>14 DEF Goal

(* A call that was begun stays begun, the numbers of writes only grow.     *)
LEMMA CallsGoOn ==
    ASSUME TypeOK, [Next]_vars, NEW c \in Conn
    PROVE  /\ \A k \in {"open", "close", "reject"} : call[k][c] # "idle" => call'[k][c] # "idle"
           /\ sent'[c] = (IF WriteBegin(c) THEN sent[c] + 1 ELSE sent[c])
           /\ Enqueued(c)' = (IF Enqueue("data", c) \/ (WriteReturn(c) /\ call["data"][c] = "send")
                              THEN Enqueued(c) + 1 ELSE Enqueued(c))
  <1>1. \A k \in {"open", "data", "close", "reject"} : k \in Kind
    BY DEF Kind
  <1>2. \A k \in {"open", "close", "reject"} : call[k][c] # "idle" => call'[k][c] # "idle"
    BY <1>1, CallSteps DEF CallStep
  <1>3. sent[c] \in Nat /\ sent \in [Conn -> 0..MaxWrite]
    BY BoundsAssumption DEF TypeOK
  <1>4. ASSUME NEW x \in Conn, WriteBegin(x) PROVE sent' = [sent EXCEPT ![x] = @ + 1]
    BY <1>4 DEF WriteBegin
  <1>5. WriteBegin(c) => sent'[c] = sent[c] + 1
    BY <1>3, <1>4
  <1>6. ~ WriteBegin(c) => sent'[c] = sent[c]
    <2>1. CASE sent' = sent
      BY <2>1
    <2>2. ASSUME NEW x \in Conn, WriteBegin(x), ~ WriteBegin(c) PROVE sent'[c] = sent[c]
      BY <1>3, <1>4, <2>2
    <2> QED
      BY <2>1, <2>2, Frames DEF Frame
  <1>7. Enqueued(c)' = (IF Enqueue("data", c) \/ (WriteReturn(c) /\ call["data"][c] = "send")
                        THEN Enqueued(c) + 1 ELSE Enqueued(c))
    <2>1. WriteBegin(c) => call["data"][c] = "idle" /\ call'["data"][c] = "send"
      BY <1>1, CallSet DEF WriteBegin
    <2>2. Enqueue("data", c) => call["data"][c] = "send" /\ call'["data"][c] = "wait"
      BY <1>1, CallSet DEF Enqueue
    <2>3. WriteReturn(c) => call["data"][c] \in InCall /\ call'["data"][c] \in {"idle", "over"}
      BY <1>1, CallSet DEF WriteReturn, Returns, InCall
    <2>4. call'["data"][c] = call["data"][c] \/ CallStep("data", c)
      BY <1>1, CallSteps
    <2>5. \/ call'["data"][c] = call["data"][c] \/ WriteBegin(c) \/ WriteReturn(c) \/ Enqueue("data", c)
          \/ (call["data"][c] = "wait" /\ call'["data"][c] \in {"ok", "fail"})
      BY <2>4 DEF CallStep
    <2>6. CASE WriteBegin(c)
      BY <1>3, <1>5, <2>1, <2>2, <2>3, <2>6 DEF Enqueued, InCall
    <2>7. CASE ~ WriteBegin(c)
      BY <1>3, <1>6, <2>2, <2>3, <2>5, <2>7 DEF Enqueued, InCall
    <2> QED
      BY <2>6, <2>7
  <1> QED
    BY <1>2, <1>5, <1>6, <1>7

-----------------------------------------------------------------------------
(* Where the steps of readLoop lead.                                       *)
Idle == ReaderAt("read", None, None)
ReaderStep(s) ==
    LET rec == Head(wire[Peer(s)])
        to == conns[s][rec.from.id]
        x == reader[s].c
    IN  \/ /\ Receive(s) /\ reader[s].pc = "read" /\ wire[Peer(s)] # <<>>
           /\ \/ rec.kind = "open" /\ reader'[s] = ReaderAt("opened", AcceptEnd(s, rec.from.id), None)
              \/ rec.kind = "data" /\ to # None /\ reader'[s] = ReaderAt("deliver", to, rec)
              \/ rec.kind \in {"close", "reject"} /\ to # None /\ reader'[s] = ReaderAt("close", to, None)
        \/ OpenQueued(s) /\ reader[s].pc = "opened" /\ reader'[s] = Idle
        \/ OpenRejected(s) /\ reader[s].pc = "opened" /\ reader'[s] = ReaderAt("reject", x, None)
        \/ RejectReturn(s) /\ reader[s].pc = "reject" /\ reader'[s] = Idle
        \/ Deliver(s) /\ reader[s].pc = "deliver" /\ reader'[s] = Idle
        \/ /\ CloseRecord(s) /\ reader[s].pc = "close"
           /\ \/ reader'[s] = ReaderAt("delete", x, None) /\ closed' = closed \cup {x}
              \/ reader'[s] = Idle
        \/ CloseRecordDelete(s) /\ reader[s].pc = "delete" /\ reader'[s] = Idle
        \/ /\ ReadFails(s) \/ ReaderExits(s)
           /\ reader[s].pc \in {"read", "stop"} /\ reader'[s].pc \in {"stop", "exit"}

LEMMA ReaderSteps ==
    ASSUME TypeOK, [Next]_vars, NEW s \in Side
    PROVE  reader'[s] = reader[s] \/ ReaderStep(s)
  <1> DEFINE Goal == reader'[s] = reader[s] \/ ReaderStep(s)
  <1>1. reader \in [Side -> ReaderState]
    BY DEF TypeOK
  <1>2. ASSUME NEW t \in Side, NEW p, NEW x, NEW rec, ReaderGoto(t, p, x, rec)
        PROVE  reader'[t] = ReaderAt(p, x, rec) /\ (t # s => reader'[s] = reader[s])
    BY <1>1, <1>2 DEF ReaderGoto
  <1> HIDE DEF Goal
  <1>3. ASSUME NEW t \in Side, Receive(t) PROVE Goal
    <2> DEFINE rec == Head(wire[Peer(t)])
               to == conns[t][rec.from.id]
    <2>1. /\ reader[t].pc = "read" /\ wire[Peer(t)] # <<>>
          /\ \/ rec.kind = "open" /\ ReaderGoto(t, "opened", AcceptEnd(t, rec.from.id), None)
             \/ rec.kind = "data" /\ to # None /\ ReaderGoto(t, "deliver", to, rec)
             \/ rec.kind \in {"close", "reject"} /\ to # None /\ ReaderGoto(t, "close", to, None)
             \/ reader' = reader
      BY <1>3 DEF Receive
    <2>2. \/ reader' = reader
          \/ t # s /\ reader'[s] = reader[s]
          \/ /\ t = s
             /\ \/ rec.kind = "open" /\ reader'[t] = ReaderAt("opened", AcceptEnd(t, rec.from.id), None)
                \/ rec.kind = "data" /\ to # None /\ reader'[t] = ReaderAt("deliver", to, rec)
                \/ rec.kind \in {"close", "reject"} /\ to # None /\ reader'[t] = ReaderAt("close", to, None)
      <3> HIDE DEF rec, to
      <3> QED
        BY <1>2, <2>1
    <2> QED
      BY <1>3, <2>1, <2>2 DEF Goal, ReaderStep
  <1>4. ASSUME NEW t \in Side, OpenQueued(t) \/ RejectReturn(t) \/ Deliver(t) \/ CloseRecordDelete(t) PROVE Goal
    <2>1. /\ ReaderGoto(t, "read", None, None)
          /\ OpenQueued(t) => reader[t].pc = "opened"
          /\ RejectReturn(t) => reader[t].pc = "reject"
          /\ Deliver(t) => reader[t].pc = "deliver"
          /\ CloseRecordDelete(t) => reader[t].pc = "delete"
      BY <1>4 DEF OpenQueued, RejectReturn, Deliver, CloseRecordDelete, ReaderNext
    <2>2. reader'[t] = Idle /\ (t # s => reader'[s] = reader[s])
      BY <1>2, <2>1 DEF Idle
    <2> QED
      BY <1>4, <2>1, <2>2 DEF Goal, ReaderStep
  <1>5. ASSUME NEW t \in Side, OpenRejected(t) PROVE Goal
    <2>1. ReaderGoto(t, "reject", reader[t].c, None) /\ reader[t].pc = "opened"
      BY <1>5 DEF OpenRejected
    <2>2. reader'[t] = ReaderAt("reject", reader[t].c, None) /\ (t # s => reader'[s] = reader[s])
      BY <1>2, <2>1
    <2> QED
      BY <1>5, <2>1, <2>2 DEF Goal, ReaderStep
  <1>6. ASSUME NEW t \in Side, CloseRecord(t) PROVE Goal
    <2>1. /\ reader[t].pc = "close"
          /\ \/ ReaderGoto(t, "delete", reader[t].c, None) /\ closed' = closed \cup {reader[t].c}
             \/ ReaderGoto(t, "read", None, None)
      BY <1>6 DEF CloseRecord, Shut, ReaderNext
    <2>2. /\ \/ reader'[t] = ReaderAt("delete", reader[t].c, None) /\ closed' = closed \cup {reader[t].c}
             \/ reader'[t] = Idle
          /\ (t # s => reader'[s] = reader[s])
      BY <1>2, <2>1 DEF Idle
    <2> QED
      BY <1>6, <2>1, <2>2 DEF Goal, ReaderStep
  <1>7. ASSUME NEW t \in Side, ReadFails(t) \/ ReaderExits(t) PROVE Goal
    <2>1. PICK p \in {"stop", "exit"} : ReaderGoto(t, p, None, None) /\ reader[t].pc \in {"read", "stop"}
      BY <1>7 DEF ReadFails, ReaderExits
    <2>2. reader'[t] = ReaderAt(p, None, None) /\ (t # s => reader'[s] = reader[s])
      BY <1>2, <2>1
    <2>3. reader'[t].pc = p
      BY <2>2 DEF ReaderAt
    <2> QED
      BY <1>7, <2>1, <2>2, <2>3 DEF Goal, ReaderStep
  <1>8. ASSUME reader' = reader PROVE Goal
    BY <1>8 DEF Goal
  <1>9. \/ reader' = reader
        \/ \E t \in Side : Receive(t) \/ OpenQueued(t) \/ OpenRejected(t) \/ RejectReturn(t) \/
           Deliver(t) \/ CloseRecord(t) \/ CloseRecordDelete(t) \/ ReadFails(t) \/ ReaderExits(t)
    BY Frames DEF Frame
  <1>10. Goal
    BY <1>3, <1>4, <1>5, <1>6, <1>7, <1>8, <1>9
  <1> QED
    BY <1>10 DEF Goal

(* How an end comes into the hands of its readLoop, and leaves them.       *)
Reached(c, kinds) ==
    LET rec == Head(wire[Peer(c.side)])
    IN  /\ Receive(c.side) /\ reader[c.side].pc = "read" /\ wire[Peer(c.side)] # <<>>
        /\ rec.kind \in kinds /\ conns[c.side][rec.from.id] = c
Came(c) ==
    LET rec == Head(wire[Peer(c.side)])
    IN  /\ Receive(c.side) /\ reader[c.side].pc = "read" /\ wire[Peer(c.side)] # <<>>
        /\ rec.kind = "open" /\ c = AcceptEnd(c.side, rec.from.id)
LEMMA Enters ==
    ASSUME TypeOK, [Next]_vars, NEW c \in Conn
    PROVE  /\ At({"opened"}, c)' => At({"opened"}, c) \/ Came(c)
           /\ At({"reject"}, c)' =>
                 At({"reject"}, c) \/ (At({"opened"}, c) /\ OpenRejected(c.side))
           /\ At({"close"}, c)' => At({"close"}, c) \/ Reached(c, {"close", "reject"})
           /\ At({"delete"}, c)' =>
                 At({"delete"}, c) \/ (At({"close"}, c) /\ closed' = closed \cup {c})
           /\ At({"deliver"}, c)' =>
                 \/ At({"deliver"}, c) /\ reader'[c.side].rec = reader[c.side].rec
                 \/ /\ Reached(c, {"data"})
                    /\ reader'[c.side].rec = Head(wire[Peer(c.side)])
           /\ At({"deliver"}, c) => At({"deliver"}, c)' \/ Deliver(c.side)
           /\ At({"delete"}, c) => At({"delete"}, c)' \/ CloseRecordDelete(c.side)
           /\ reader'[c.side] # reader[c.side] => ReaderStep(c.side)
  <1> DEFINE s == c.side
  <1>1. s \in Side /\ c # None
    BY ConnFacts
  <1>2. reader'[s] = reader[s] \/ ReaderStep(s)
    BY <1>1, ReaderSteps
  <1>3. \A p, x, r : ReaderAt(p, x, r).pc = p /\ ReaderAt(p, x, r).c = x /\ ReaderAt(p, x, r).rec = r
    BY DEF ReaderAt
  <1> HIDE DEF s
  <1>4. At({"opened"}, c)' => At({"opened"}, c) \/ Came(c)
    BY <1>2, <1>3, SMTT(30) DEF At, ReaderStep, Came, Idle, s
  <1>5. At({"reject"}, c)' => At({"reject"}, c) \/ (At({"opened"}, c) /\ OpenRejected(c.side))
    BY <1>2, <1>3 DEF At, ReaderStep, Idle, s
  <1>6. At({"close"}, c)' => At({"close"}, c) \/ Reached(c, {"close", "reject"})
    BY <1>2, <1>3, SMTT(30) DEF At, ReaderStep, Reached, Idle, s
  <1>7. At({"delete"}, c)' => At({"delete"}, c) \/ (At({"close"}, c) /\ closed' = closed \cup {c})
    BY <1>2, <1>3, SMTT(30) DEF At, ReaderStep, Idle, s
  <1>8. At({"deliver"}, c)' =>
            \/ At({"deliver"}, c) /\ reader'[c.side].rec = reader[c.side].rec
            \/ Reached(c, {"data"}) /\ reader'[c.side].rec = Head(wire[Peer(c.side)])
    BY <1>2, <1>3 DEF At, ReaderStep, Reached, Idle, s
  <1>9. /\ At({"deliver"}, c) => At({"deliver"}, c)' \/ Deliver(c.side)
        /\ At({"delete"}, c) => At({"delete"}, c)' \/ CloseRecordDelete(c.side)
    BY <1>2, <1>3 DEF At, ReaderStep, Idle, s
  <1> QED
    BY <1>2, <1>4, <1>5, <1>6, <1>7, <1>8, <1>9 DEF s

-----------------------------------------------------------------------------
(* A session that stops stays stopped, and nothing is forgotten: what was  *)
(* closed, read to the end or hung up stays so.                            *)
LEMMA NextStopped ==
    ASSUME TypeOK, [Next]_vars, NEW s \in Side
    PROVE  Stopped(s) => Stopped(s)'
  <1>1. ASSUME NEW t \in Side, StopBegin(t) \/ StopEnd(t)
        PROVE  stopOnce' = [stopOnce EXCEPT ![t] = "busy"] \/ stopOnce' = [stopOnce EXCEPT ![t] = "done"]
    BY <1>1 DEF StopBegin, StopEnd
  <1>2. ASSUME NEW t \in Side, StopBegin(t) \/ StopEnd(t) PROVE Stopped(s) => Stopped(s)'
    BY <1>1, <1>2 DEF Stopped, TypeOK
  <1>3. stopOnce' = stopOnce => (Stopped(s) => Stopped(s)')
    BY DEF Stopped
  <1>4. stopOnce' = stopOnce \/ \E t \in Side : StopBegin(t) \/ StopEnd(t)
    BY Frames DEF Frame
  <1> QED
    BY <1>2, <1>3, <1>4

LEMMA NextOver ==
    ASSUME TypeOK, [Next]_vars, NEW c \in Conn
    PROVE  /\ closed \subseteq closed' /\ eof \subseteq eof' /\ held \subseteq held'
           /\ HungUp(c) => HungUp(c)'
  <1>1. closed \subseteq closed'
    <2>1. ASSUME NEW x \in Conn, CloseBegin(x) PROVE closed \subseteq closed'
      BY <2>1 DEF CloseBegin, Shut
    <2>2. ASSUME NEW s \in Side, CloseRecord(s) \/ SweepClose(s) PROVE closed \subseteq closed'
      BY <2>2 DEF CloseRecord, SweepClose, Shut
    <2> QED
      BY <2>1, <2>2, Frames DEF Frame
  <1>2. eof \subseteq eof'
    <2>1. ASSUME NEW x \in Conn, ReadData(x) \/ ReadClosed(x) PROVE eof \subseteq eof'
      BY <2>1 DEF ReadData, ReadClosed
    <2> QED
      BY <2>1, Frames DEF Frame
  <1>3. held \subseteq held'
    <2>1. ASSUME NEW x \in Conn, DialReturn(x) PROVE held \subseteq held'
      BY <2>1 DEF DialReturn
    <2>2. ASSUME NEW s \in Side, Accept(s) PROVE held \subseteq held'
      BY <2>2 DEF Accept
    <2> QED
      BY <2>1, <2>2, Frames DEF Frame
  <1>4. HungUp(c) => HungUp(c)'
    BY CallsGoOn, NextStopped, ConnFacts DEF HungUp
  <1> QED
    BY <1>1, <1>2, <1>3, <1>4

(* The goroutines of a side stay with the ends of that side.               *)
LEMMA NextOwned ==
    ASSUME TypeOK, TableInv, Owned, [Next]_vars
    PROVE  Owned'
  <1>1. ASSUME NEW s \in Side
        PROVE  /\ reader'[s].pc \notin {"read", "stop", "exit"} => reader'[s].c.side = s
               /\ reader'[s].pc \in {"opened", "reject"} => reader'[s].c.role = "accept"
    <2> DEFINE rec == Head(wire[Peer(s)])
               to == conns[s][rec.from.id]
    <2>1. /\ reader[s].pc \notin {"read", "stop", "exit"} => reader[s].c.side = s
          /\ reader[s].pc \in {"opened", "reject"} => reader[s].c.role = "accept"
      BY DEF Owned
    <2>2. wire[Peer(s)] # <<>> => rec.from.id \in Id
      BY RecordQueues, ConnFacts DEF TypeOK
    <2>3. wire[Peer(s)] # <<>> /\ to # None => to.side = s
      BY <2>2, InTable
    <2>4. AcceptEnd(s, rec.from.id).side = s /\ AcceptEnd(s, rec.from.id).role = "accept"
      BY DEF AcceptEnd
    <2>5. reader'[s] = reader[s] \/ ReaderStep(s)
      BY ReaderSteps
    <2>6. \A p, x, r : ReaderAt(p, x, r).pc = p /\ ReaderAt(p, x, r).c = x
      BY DEF ReaderAt
    <2>7. \/ reader'[s] = reader[s]
          \/ wire[Peer(s)] # <<>> /\ reader'[s] = ReaderAt("opened", AcceptEnd(s, rec.from.id), None)
          \/ /\ wire[Peer(s)] # <<>> /\ to # None
             /\ reader'[s] = ReaderAt("deliver", to, rec) \/ reader'[s] = ReaderAt("close", to, None)
          \/ reader'[s] = Idle \/ reader'[s].pc \in {"stop", "exit"}
          \/ reader[s].pc = "opened" /\ reader'[s] = ReaderAt("reject", reader[s].c, None)
          \/ reader[s].pc = "close" /\ reader'[s] = ReaderAt("delete", reader[s].c, None)
      BY <2>5 DEF ReaderStep
    <2> HIDE DEF rec, to
    <2> QED
      BY <2>1, <2>3, <2>4, <2>6, <2>7 DEF Idle
  <1>2. ASSUME NEW s \in Side
        PROVE  /\ \A c \in sweep'[s].todo : c.side = s
               /\ sweep'[s].pc # "range" => sweep'[s].c.side = s /\ Stopped(s)'
    <2>1. /\ \A c \in sweep[s].todo : c.side = s
          /\ sweep[s].pc # "range" => sweep[s].c.side = s /\ Stopped(s)
      BY DEF Owned
    <2>2. \A c \in Registered(s) : c.side = s
      <3>1. ASSUME NEW i \in Id, conns[s][i] # None PROVE conns[s][i].side = s
        BY <3>1, InTable
      <3> QED
        BY <3>1 DEF Registered
    <2>3. ASSUME NEW t \in Side, NEW todo, NEW seen, NEW c, NEW pc, SweepTo(t, todo, seen, c, pc),
                 t = s => /\ todo = sweep[s].todo \/ todo = Registered(s)
                          /\ pc = "range" \/ (c.side = s /\ Stopped(s))
          PROVE  /\ \A d \in sweep'[s].todo : d.side = s
                 /\ sweep'[s].pc # "range" => sweep'[s].c.side = s /\ Stopped(s)'
      <3>1. sweep'[s] = IF t = s THEN [todo |-> todo, seen |-> seen, c |-> c, pc |-> pc] ELSE sweep[s]
        BY <2>3 DEF SweepTo, TypeOK
      <3>2. CASE t # s
        BY <2>1, <3>1, <3>2, NextStopped
      <3>3. CASE t = s
        <4>1. sweep'[s].todo = todo /\ sweep'[s].c = c /\ sweep'[s].pc = pc
          BY <3>1, <3>3
        <4> QED
          BY <2>1, <2>2, <2>3, <3>3, <4>1, NextStopped
      <3> QED
        BY <3>2, <3>3
    <2>4. ASSUME NEW t \in Side, StopBegin(t) \/ SweepDelete(t)
          PROVE  \E todo \in {sweep[t].todo, Registered(t)} : \E seen, c : SweepTo(t, todo, seen, c, "range")
      BY <2>4 DEF StopBegin, SweepDelete
    <2>5. ASSUME NEW t \in Side, SweepVisit(t)
          PROVE  Stopped(t) /\ \E c \in sweep[t].todo \cup Registered(t), seen \in {sweep[t].seen \cup {d.id} : d \in Conn} :
                                SweepTo(t, sweep[t].todo, seen, c, "close")
      <3>1. sweep[t].todo \cup Registered(t) \in SUBSET Conn /\ stopOnce[t] = "busy"
        BY <2>5, SweepFacts, RegisteredType DEF SweepVisit, TypeOK
      <3> QED
        BY <2>5, <3>1 DEF SweepVisit, Stopped
    <2>6. ASSUME NEW t \in Side, SweepClose(t)
          PROVE  /\ sweep[t].pc = "close"
                 /\ \/ SweepTo(t, sweep[t].todo, sweep[t].seen, sweep[t].c, "delete")
                    \/ SweepTo(t, sweep[t].todo, sweep[t].seen, None, "range")
      BY <2>6 DEF SweepClose
    <2>7. ASSUME NEW t \in Side, StopBegin(t) \/ SweepVisit(t) \/ SweepClose(t) \/ SweepDelete(t)
          PROVE  /\ \A d \in sweep'[s].todo : d.side = s
                 /\ sweep'[s].pc # "range" => sweep'[s].c.side = s /\ Stopped(s)'
      <3>1. CASE StopBegin(t) \/ SweepDelete(t)
        BY <2>3, <2>4, <3>1
      <3>2. CASE SweepVisit(t)
        BY <2>1, <2>2, <2>3, <2>5, <3>2
      <3>3. CASE SweepClose(t)
        BY <2>1, <2>3, <2>6, <3>3
      <3> QED
        BY <2>7, <3>1, <3>2, <3>3
    <2>8. sweep' = sweep => /\ \A d \in sweep'[s].todo : d.side = s
                            /\ sweep'[s].pc # "range" => sweep'[s].c.side = s /\ Stopped(s)'
      BY <2>1, NextStopped
    <2>9. sweep' = sweep \/ \E t \in Side : StopBegin(t) \/ SweepVisit(t) \/ SweepClose(t) \/ SweepDelete(t)
      BY Frames DEF Frame
    <2> QED
      BY <2>7, <2>8, <2>9
  <1>3. ASSUME NEW s \in Side, NEW i \in 1..Len(connCh'[s])
        PROVE  connCh'[s][i].side = s /\ connCh'[s][i].role = "accept"
    <2> DEFINE Fit(c) == c.side = s /\ c.role = "accept"
    <2>1. connCh[s] \in Seq(Conn) /\ \A j \in 1..Len(connCh[s]) : Fit(connCh[s][j])
      BY DEF TypeOK, Owned
    <2>2. CASE connCh'[s] = connCh[s]
      BY <1>3, <2>1, <2>2
    <2>3. CASE connCh[s] # <<>> /\ connCh'[s] = Tail(connCh[s])
      <3>1. i + 1 \in 1..Len(connCh[s]) /\ connCh'[s][i] = connCh[s][i + 1]
        BY <1>3, <2>1, <2>3
      <3> QED
        BY <2>1, <3>1
    <2>4. ASSUME NEW c \in Conn, Fit(c), connCh'[s] = Append(connCh[s], c) PROVE Fit(connCh'[s][i])
      <3>1. (i \in 1..Len(connCh[s]) /\ connCh'[s][i] = connCh[s][i]) \/ connCh'[s][i] = c
        BY <1>3, <2>1, <2>4
      <3> QED
        BY <2>1, <2>4, <3>1
    <2>5. ASSUME NEW t \in Side, Accept(t)
          PROVE  connCh'[s] = connCh[s] \/ (connCh[s] # <<>> /\ connCh'[s] = Tail(connCh[s]))
      BY <2>5 DEF Accept, TypeOK
    <2>6. ASSUME NEW t \in Side, OpenQueued(t)
          PROVE  connCh'[s] = connCh[s] \/ \E c \in Conn : Fit(c) /\ connCh'[s] = Append(connCh[s], c)
      <3>1. reader[t].c \in Conn /\ reader[t].c.side = t /\ reader[t].c.role = "accept"
        BY <2>6, ReaderFacts DEF OpenQueued, TypeOK, Owned
      <3>2. connCh'[s] = IF t = s THEN Append(connCh[s], reader[t].c) ELSE connCh[s]
        BY <2>6 DEF OpenQueued, TypeOK
      <3> QED
        BY <3>1, <3>2
    <2>7. connCh' = connCh \/ \E t \in Side : Accept(t) \/ OpenQueued(t)
      BY Frames DEF Frame
    <2> QED
      BY <2>2, <2>3, <2>4, <2>5, <2>6, <2>7
  <1>4. ASSUME NEW c \in Conn, call'["open"][c] # "idle" PROVE c.side \in Dialers
    <2>1. call'["open"][c] = call["open"][c] \/ CallStep("open", c)
      BY CallSteps DEF Kind
    <2>2. call["open"][c] # "idle" => c.side \in Dialers
      BY DEF Owned
    <2>3. "open" # "data" /\ "open" # "close" /\ "open" # "reject"
      OBVIOUS
    <2> QED
      BY <1>4, <2>1, <2>2, <2>3 DEF CallStep, InCall
  <1> QED
    BY <1>1, <1>2, <1>3, <1>4 DEF Owned

-----------------------------------------------------------------------------
(* The side that dialled a connection.  Ends of the same id belong         *)
(* together when only one side dials: they are one end, or mates.          *)
DialSide(c) == IF c.role = "dial" THEN c.side ELSE Peer(c.side)
LEMMA DialSides ==
    ASSUME NEW c \in Conn
    PROVE  /\ Owned /\ Introduced(c) => DialSide(c) \in Dialers
           /\ Owned' /\ Introduced(c)' => DialSide(c) \in Dialers
  <1>1. Mate(c) \in Conn /\ Mate(c).side = Peer(c.side)
    BY Mates
  <1> QED
    BY <1>1 DEF Owned, Introduced, DialSide, Unsent

LEMMA Unique ==
    ASSUME OneDialler, NEW c \in Conn, NEW d \in Conn, c.id = d.id,
           DialSide(c) \in Dialers, DialSide(d) \in Dialers
    PROVE  /\ c.side = d.side => c = d
           /\ c.side = Peer(d.side) => c = Mate(d)
  BY DEF OneDialler, DialSide, Conn, Side, Peer, Mate

-----------------------------------------------------------------------------
(* The hand of writeLoop, as a queue.                                      *)
LEMMA Hand ==
    ASSUME TypeOK, NEW s \in Side
    PROVE  /\ writer[s].pc \in Writing => InWriter(s) = <<writer[s].req>> /\ writer[s].req \in Record
           /\ writer[s].pc \notin Writing => InWriter(s) = <<>>
           /\ InWriter(s) \in Seq(Record)
           /\ \A d : InHand(s, d) <=> Carries(InWriter(s), d)
  <1>1. writer[s] \in WriterState /\ None \notin Record
    BY ConnFacts DEF TypeOK
  <1>2. writer[s].pc \in Writing => writer[s].req \in Record /\ InWriter(s) = <<writer[s].req>>
    BY <1>1, WriterFacts DEF InWriter
  <1>3. writer[s].pc \notin Writing => InWriter(s) = <<>>
    BY <1>1 DEF InWriter, WriterState
  <1>4. InWriter(s) \in Seq(Record)
    <2>1. <<>> \in Seq(Record) /\ \A r \in Record : <<r>> \in Seq(Record)
      OBVIOUS
    <2> QED
      BY <1>2, <1>3, <2>1
  <1>5. ASSUME NEW d PROVE InHand(s, d) <=> Carries(InWriter(s), d)
    <2>1. CASE writer[s].pc \in Writing
      <3>1. Len(InWriter(s)) = 1 /\ InWriter(s)[1] = writer[s].req
        BY <1>2, <2>1
      <3> QED
        BY <2>1, <3>1 DEF InHand, Carries
    <2>2. CASE writer[s].pc \notin Writing
      <3>1. Len(InWriter(s)) = 0
        BY <1>3, <2>2
      <3> QED
        BY <2>2, <3>1 DEF InHand, Carries
    <2> QED
      BY <2>1, <2>2
  <1> QED
    BY <1>2, <1>3, <1>4, <1>5

(* What happens to the records a side has under way.                       *)
Sends(k, c) == [kind |-> k, from |-> c, n |-> IF k = "data" THEN sent[c] ELSE 0]
Writes(s, r) == WriterWrite(s) /\ InWriter(s) = <<r>> /\ InWriter(s)' = <<>>
QueueStep(s) ==
    \/ UNCHANGED <<ctl[s], dat[s], wire[s], InWriter(s)>>
    \/ \E k \in Kind, c \in Conn :
          /\ Enqueue(k, c) /\ c.side = s /\ UNCHANGED <<wire[s], InWriter(s)>>
          /\ \/ k # "data" /\ ctl'[s] = Append(ctl[s], Sends(k, c)) /\ dat'[s] = dat[s]
             \/ k = "data" /\ dat'[s] = Append(dat[s], Sends(k, c)) /\ ctl'[s] = ctl[s]
    \/ /\ WriterTop(s) \/ WriterSelect(s)
       /\ InWriter(s) = <<>> /\ UNCHANGED wire[s]
       /\ \/ /\ ctl[s] # <<>> /\ ctl'[s] = Tail(ctl[s]) /\ dat'[s] = dat[s]
             /\ InWriter(s)' = <<Head(ctl[s])>>
          \/ /\ dat[s] # <<>> /\ dat'[s] = Tail(dat[s]) /\ ctl'[s] = ctl[s]
             /\ InWriter(s)' = <<Head(dat[s])>>
    \/ \E r \in Record :
          /\ Writes(s, r) /\ UNCHANGED <<ctl[s], dat[s]>>
          /\ wire'[s] = IF up THEN Append(wire[s], r) ELSE wire[s]
    \/ /\ Receive(Peer(s)) /\ UNCHANGED <<ctl[s], dat[s], InWriter(s)>>
       /\ wire[s] # <<>> /\ wire'[s] = Tail(wire[s])

LEMMA QueueSteps ==
    ASSUME TypeOK, [Next]_vars, NEW s \in Side
    PROVE  QueueStep(s)
  <1>0. /\ ctl \in [Side -> Seq(Record)] /\ dat \in [Side -> Seq(Record)] /\ wire \in [Side -> Seq(Record)]
        /\ writer \in [Side -> WriterState] /\ writer[s] \in WriterState /\ None \notin Record
        /\ TypeOK'
    BY NextType, ConnFacts DEF TypeOK
  <1>1. ASSUME UNCHANGED <<ctl[s], dat[s], wire[s], writer[s]>> PROVE QueueStep(s)
    BY <1>1 DEF QueueStep, InWriter
  <1>2. ASSUME NEW c \in Conn, NEW k \in Kind, Enqueue(k, c) PROVE QueueStep(s)
    <2>1. writer' = writer /\ wire' = wire
      BY <1>2 DEF Enqueue, system, out, link
    <2>2. InWriter(s)' = InWriter(s)
      BY <2>1 DEF InWriter
    <2>3. c.side \in Side
      BY ConnFacts
    <2>4. \/ k # "data" /\ ctl' = [ctl EXCEPT ![c.side] = Append(@, Sends(k, c))] /\ dat' = dat
          \/ k = "data" /\ dat' = [dat EXCEPT ![c.side] = Append(@, Sends(k, c))] /\ ctl' = ctl
      BY <1>2 DEF Enqueue, Sends
    <2>5. CASE c.side # s
      BY <1>0, <1>1, <2>1, <2>3, <2>4, <2>5
    <2>6. CASE c.side = s
      <3>1. \/ k # "data" /\ ctl'[s] = Append(ctl[s], Sends(k, c)) /\ dat'[s] = dat[s]
            \/ k = "data" /\ dat'[s] = Append(dat[s], Sends(k, c)) /\ ctl'[s] = ctl[s]
        BY <1>0, <2>4, <2>6
      <3> QED
        BY <1>2, <2>1, <2>2, <2>6, <3>1 DEF QueueStep
    <2> QED
      BY <2>5, <2>6
  <1>3. ASSUME NEW t \in Side, WriterTop(t) \/ WriterSelect(t) PROVE QueueStep(s)
    <2>1. wire' = wire
      BY <1>3 DEF WriterTop, WriterSelect, link
    <2>2. /\ writer[t].pc \in {"top", "sel"}
          /\ \/ ctl' = ctl /\ dat' = dat /\ \E p \in {"exit", "sel"} : writer' = [writer EXCEPT ![t] = [pc |-> p, req |-> None]]
             \/ /\ ctl[t] # <<>> /\ ctl' = [ctl EXCEPT ![t] = Tail(@)] /\ dat' = dat
                /\ \E p \in Writing : writer' = [writer EXCEPT ![t] = [pc |-> p, req |-> Head(ctl[t])]]
             \/ /\ dat[t] # <<>> /\ dat' = [dat EXCEPT ![t] = Tail(@)] /\ ctl' = ctl
                /\ writer' = [writer EXCEPT ![t] = [pc |-> "selWrite", req |-> Head(dat[t])]]
      BY <1>3 DEF WriterTop, WriterSelect, TakeCtl, WriterGoto, Writing
    <2>3. CASE t # s
      BY <1>0, <1>1, <2>1, <2>2, <2>3
    <2>4. CASE t = s
      <3>1. InWriter(s) = <<>>
        BY <2>2, <2>4, Hand DEF Writing
      <3>2. CASE ctl' = ctl /\ dat' = dat /\ \E p \in {"exit", "sel"} : writer' = [writer EXCEPT ![t] = [pc |-> p, req |-> None]]
        <4>1. writer'[s].req = None
          BY <1>0, <2>4, <3>2
        <4>2. InWriter(s)' = <<>>
          BY <4>1 DEF InWriter
        <4> QED
          BY <2>1, <3>1, <3>2, <4>2 DEF QueueStep
      <3>3. CASE /\ ctl[t] # <<>> /\ ctl' = [ctl EXCEPT ![t] = Tail(@)] /\ dat' = dat
                 /\ \E p \in Writing : writer' = [writer EXCEPT ![t] = [pc |-> p, req |-> Head(ctl[t])]]
        <4>1. writer'[s].req = Head(ctl[s]) /\ Head(ctl[s]) # None /\ ctl'[s] = Tail(ctl[s]) /\ ctl[s] # <<>>
          BY <1>0, <2>4, <3>3, RecordQueues
        <4>2. InWriter(s)' = <<Head(ctl[s])>>
          BY <4>1 DEF InWriter
        <4> QED
          BY <1>3, <2>1, <2>4, <3>1, <3>3, <4>1, <4>2 DEF QueueStep
      <3>4. CASE /\ dat[t] # <<>> /\ dat' = [dat EXCEPT ![t] = Tail(@)] /\ ctl' = ctl
                 /\ writer' = [writer EXCEPT ![t] = [pc |-> "selWrite", req |-> Head(dat[t])]]
        <4>1. writer'[s].req = Head(dat[s]) /\ Head(dat[s]) # None /\ dat'[s] = Tail(dat[s]) /\ dat[s] # <<>>
          BY <1>0, <2>4, <3>4, RecordQueues
        <4>2. InWriter(s)' = <<Head(dat[s])>>
          BY <4>1 DEF InWriter
        <4> QED
          BY <1>3, <2>1, <2>4, <3>1, <3>4, <4>1, <4>2 DEF QueueStep
      <3> QED
        BY <2>2, <3>2, <3>3, <3>4
    <2> QED
      BY <2>3, <2>4
  <1>4. ASSUME NEW t \in Side, WriterWrite(t) PROVE QueueStep(s)
    <2>1. /\ ctl' = ctl /\ dat' = dat /\ writer[t].pc \in Writing
          /\ wire' = IF up THEN [wire EXCEPT ![t] = Append(@, writer[t].req)] ELSE wire
          /\ \E p : writer' = [writer EXCEPT ![t] = [pc |-> p, req |-> None]]
      BY <1>4 DEF WriterWrite
    <2>2. CASE t # s
      BY <1>0, <1>1, <2>1, <2>2
    <2>3. CASE t = s
      <3>1. writer[s].req \in Record /\ InWriter(s) = <<writer[s].req>>
        BY <2>1, <2>3, Hand
      <3>2. writer'[s].req = None
        BY <1>0, <2>1, <2>3
      <3>3. InWriter(s)' = <<>>
        BY <3>2 DEF InWriter
      <3>4. wire'[s] = IF up THEN Append(wire[s], writer[s].req) ELSE wire[s]
        BY <1>0, <2>1, <2>3
      <3> QED
        BY <1>4, <2>1, <2>3, <3>1, <3>3, <3>4 DEF QueueStep, Writes
    <2> QED
      BY <2>2, <2>3
  <1>5. ASSUME NEW t \in Side, Receive(t) PROVE QueueStep(s)
    <2>1. /\ ctl' = ctl /\ dat' = dat /\ writer' = writer /\ wire[Peer(t)] # <<>>
          /\ wire' = [wire EXCEPT ![Peer(t)] = Tail(@)]
      BY <1>5 DEF Receive, queue, out
    <2>2. CASE Peer(t) # s
      BY <1>0, <1>1, <2>1, <2>2
    <2>3. CASE Peer(t) = s
      <3>1. t = Peer(s) /\ wire'[s] = Tail(wire[s])
        BY <1>0, <2>1, <2>3 DEF Side, Peer
      <3>2. InWriter(s)' = InWriter(s)
        BY <2>1 DEF InWriter
      <3> QED
        BY <1>5, <2>1, <2>3, <3>1, <3>2 DEF QueueStep
    <2> QED
      BY <2>2, <2>3
  <1>6. \/ UNCHANGED <<ctl, dat, writer, wire>>
        \/ \E c \in Conn, k \in Kind : Enqueue(k, c)
        \/ \E t \in Side : WriterTop(t) \/ WriterSelect(t) \/ WriterWrite(t) \/ Receive(t)
    BY Frames DEF Frame
  <1> QED
    BY <1>1, <1>2, <1>3, <1>4, <1>5, <1>6

-----------------------------------------------------------------------------
(* A write that has been called is numbered from 1.                        *)
LEMMA NextWriting ==
    ASSUME TypeOK, [Next]_vars, NEW c \in Conn, Writing1(c)
    PROVE  Writing1(c)'
  <1>1. sent'[c] = (IF WriteBegin(c) THEN sent[c] + 1 ELSE sent[c]) /\ sent[c] \in Nat
    BY CallsGoOn, BoundsAssumption DEF TypeOK
  <1>2. WriteBegin(c) => c \in held
    BY DEF WriteBegin
  <1>3. held \subseteq held'
    BY NextOver
  <1>4. sent'[c] > 0 => c \in held'
    BY <1>1, <1>2, <1>3 DEF Writing1
  <1>5. call'["data"][c] = call["data"][c] \/ CallStep("data", c)
    BY CallSteps DEF Kind
  <1>6. call'["data"][c] # "idle" => WriteBegin(c) \/ call["data"][c] # "idle"
    BY <1>5 DEF CallStep, InCall
  <1>7. call'["data"][c] # "idle" => sent'[c] > 0
    BY <1>1, <1>6 DEF Writing1
  <1> QED
    BY <1>4, <1>7 DEF Writing1

(* What was called stays called.                                           *)
LEMMA MadeKept ==
    ASSUME TypeOK, [Next]_vars, NEW s, NEW r \in Record, Made(s, r)
    PROVE  Made(s, r)'
  <1>1. r.from \in Conn /\ r.kind \in {"open", "data", "close", "reject"} /\ r.n \in Nat
    BY ConnFacts, BoundsAssumption DEF Kind
  <1>2. sent[r.from] \in Nat
    BY <1>1, BoundsAssumption DEF TypeOK
  <1>3. Enqueued(r.from) \in Int
    BY <1>2 DEF Enqueued
  <1>4. /\ \A k \in {"open", "close", "reject"} : call[k][r.from] # "idle" => call'[k][r.from] # "idle"
        /\ Enqueued(r.from)' = Enqueued(r.from) + 1 \/ Enqueued(r.from)' = Enqueued(r.from)
    BY <1>1, CallsGoOn
  <1>5. CASE r.kind = "data"
    BY <1>1, <1>3, <1>4, <1>5 DEF Made
  <1>6. CASE r.kind # "data"
    BY <1>1, <1>4, <1>6 DEF Made
  <1> QED
    BY <1>5, <1>6

LEMMA AllMadeKept ==
    ASSUME TypeOK, [Next]_vars, NEW s, NEW q \in Seq(Record), AllMade(s, q)
    PROVE  /\ AllMade(s, q)'
           /\ \A r \in Record : Made(s, r)' => AllMade(s, Append(q, r))'
           /\ q # <<>> => AllMade(s, Tail(q))' /\ AllMade(s, <<Head(q)>>)' /\ Made(s, Head(q))
  <1>1. ASSUME NEW i \in 1..Len(q) PROVE Made(s, q[i]) /\ Made(s, q[i])'
    BY <1>1, MadeKept DEF AllMade
  <1>2. AllMade(s, q)'
    BY <1>1 DEF AllMade
  <1>3. ASSUME NEW r \in Record, Made(s, r)' PROVE AllMade(s, Append(q, r))'
    <2>1. PICK p : p = Append(q, r)
      OBVIOUS
    <2>2. \A i \in 1..Len(p) : (i \in 1..Len(q) /\ p[i] = q[i]) \/ (i = Len(q) + 1 /\ p[i] = r)
      BY <2>1, Appended
    <2>3. AllMade(s, p)'
      BY <1>1, <1>3, <2>2 DEF AllMade
    <2> QED
      BY <2>1, <2>3
  <1>4. ASSUME q # <<>> PROVE AllMade(s, Tail(q))' /\ AllMade(s, <<Head(q)>>)' /\ Made(s, Head(q))
    <2>1. PICK p : p = Tail(q)
      OBVIOUS
    <2>2. /\ Head(q) \in Record /\ Head(q) = q[1] /\ 1 \in 1..Len(q)
          /\ \A i \in 1..Len(p) : i + 1 \in 1..Len(q) /\ p[i] = q[i + 1]
      BY <1>4, <2>1, Rest
    <2>3. AllMade(s, p)'
      BY <1>1, <2>2 DEF AllMade
    <2>4. Made(s, Head(q)) /\ Made(s, Head(q))'
      BY <1>1, <2>2
    <2>5. Len(<<Head(q)>>) = 1 /\ <<Head(q)>>[1] = Head(q)
      OBVIOUS
    <2>6. AllMade(s, <<Head(q)>>)'
      BY <2>4, <2>5 DEF AllMade
    <2> QED
      BY <2>1, <2>3, <2>4, <2>6
  <1> QED
    BY <1>2, <1>3, <1>4

LEMMA NextCalling ==
    ASSUME TypeOK, [Next]_vars, NEW s \in Side, Calling(s), \A c \in Conn : Writing1(c)
    PROVE  Calling(s)'

  <1>1. PICK c, d, w, h : c = ctl[s] /\ d = dat[s] /\ w = wire[s] /\ h = InWriter(s)
    OBVIOUS
  <1>2. c \in Seq(Record) /\ d \in Seq(Record) /\ w \in Seq(Record) /\ h \in Seq(Record)
    BY <1>1, Hand DEF TypeOK
  <1>3. AllMade(s, c) /\ AllMade(s, d) /\ AllMade(s, w) /\ AllMade(s, h)
    BY <1>1 DEF Calling
  <1>4. /\ AllMade(s, c)' /\ AllMade(s, d)' /\ AllMade(s, w)' /\ AllMade(s, h)'
        /\ c # <<>> => AllMade(s, Tail(c))' /\ AllMade(s, <<Head(c)>>)'
        /\ d # <<>> => AllMade(s, Tail(d))' /\ AllMade(s, <<Head(d)>>)'
        /\ w # <<>> => AllMade(s, Tail(w))'
    BY <1>2, <1>3, AllMadeKept
  <1>5. ASSUME NEW c1, NEW d1, NEW w1, NEW h1,
               ctl'[s] = c1, dat'[s] = d1, wire'[s] = w1, InWriter(s)' = h1,
               AllMade(s, c1)', AllMade(s, d1)', AllMade(s, w1)', AllMade(s, h1)'
        PROVE  Calling(s)'
    BY <1>5 DEF Calling, AllMade
  <1>6. QueueStep(s)
    BY QueueSteps
  <1>7. CASE UNCHANGED <<ctl[s], dat[s], wire[s], InWriter(s)>>
    BY <1>1, <1>4, <1>5, <1>7
  <1>8. ASSUME NEW k \in Kind, NEW x \in Conn, Enqueue(k, x), x.side = s, UNCHANGED <<wire[s], InWriter(s)>>,
               \/ k # "data" /\ ctl'[s] = Append(ctl[s], Sends(k, x)) /\ dat'[s] = dat[s]
               \/ k = "data" /\ dat'[s] = Append(dat[s], Sends(k, x)) /\ ctl'[s] = ctl[s]
        PROVE  Calling(s)'
    <2>1. PICK r : r = Sends(k, x)
      OBVIOUS
    <2>2. sent[x] \in 0..MaxWrite /\ 0 \in 0..MaxWrite /\ sent[x] \in Nat
      BY BoundsAssumption DEF TypeOK
    <2>3. r \in Record /\ r.from = x /\ r.kind = k /\ r.n = IF k = "data" THEN sent[x] ELSE 0
      BY <1>8, <2>1, <2>2 DEF Sends, Record
    <2>4. call[k][x] = "send" /\ call'[k][x] = "wait" /\ sent' = sent
      BY <1>8, CallSet DEF Enqueue, data
    <2>5. k = "data" => sent[x] > 0 /\ Enqueued(x)' = sent[x]
      BY <2>4 DEF Writing1, Enqueued
    <2>6. Made(s, r)'
      BY <1>8, <2>2, <2>3, <2>4, <2>5 DEF Made
    <2>7. AllMade(s, Append(c, r))' /\ AllMade(s, Append(d, r))'
      BY <1>2, <1>3, <2>3, <2>6, AllMadeKept
    <2> QED
      BY <1>1, <1>4, <1>5, <1>8, <2>1, <2>7
  <1>9. ASSUME InWriter(s) = <<>>, UNCHANGED wire[s],
               \/ ctl[s] # <<>> /\ ctl'[s] = Tail(ctl[s]) /\ dat'[s] = dat[s] /\ InWriter(s)' = <<Head(ctl[s])>>
               \/ dat[s] # <<>> /\ dat'[s] = Tail(dat[s]) /\ ctl'[s] = ctl[s] /\ InWriter(s)' = <<Head(dat[s])>>
        PROVE  Calling(s)'
    BY <1>1, <1>4, <1>5, <1>9
  <1>10. ASSUME NEW r \in Record, Writes(s, r), UNCHANGED <<ctl[s], dat[s]>>,
                wire'[s] = IF up THEN Append(wire[s], r) ELSE wire[s]
         PROVE  Calling(s)'
    <2>1. h = <<r>> /\ InWriter(s)' = <<>>
      BY <1>1, <1>10 DEF Writes
    <2>2. Len(h) = 1 /\ h[1] = r /\ Len(<<>>) = 0
      BY <2>1
    <2>3. Made(s, r)' /\ AllMade(s, <<>>)'
      BY <1>4, <2>2 DEF AllMade
    <2>4. AllMade(s, Append(w, r))'
      BY <1>2, <1>3, <2>3, AllMadeKept
    <2> QED
      BY <1>1, <1>4, <1>5, <1>10, <2>1, <2>3, <2>4
  <1>11. ASSUME UNCHANGED <<ctl[s], dat[s], InWriter(s)>>, wire[s] # <<>>, wire'[s] = Tail(wire[s])
         PROVE  Calling(s)'
    BY <1>1, <1>4, <1>5, <1>11
  <1> QED
    BY <1>6, <1>7, <1>8, <1>9, <1>10, <1>11 DEF QueueStep

-----------------------------------------------------------------------------
(* How an end comes to be handed out.                                      *)
LEMMA HeldSteps ==
    ASSUME TypeOK, Owned, [Next]_vars, NEW c \in Conn, c \in held', c \notin held
    PROVE  \/ DialReturn(c) /\ call["open"][c] = "ok"
           \/ Accept(c.side) /\ Queued(c) /\ c.role = "accept"
  <1>1. ASSUME NEW x \in Conn, DialReturn(x) PROVE DialReturn(c) /\ call["open"][c] = "ok"
    <2>1. held' = held \cup {x} /\ \E r \in Returns("open", x) : r = "ok"
      BY <1>1 DEF DialReturn
    <2>2. c = x /\ call["open"][x] = "ok"
      BY <2>1 DEF Returns
    <2> QED
      BY <1>1, <2>2
  <1>2. ASSUME NEW s \in Side, Accept(s) PROVE Accept(c.side) /\ Queued(c) /\ c.role = "accept"
    <2>1. connCh[s] # <<>> /\ held' = held \cup {Head(connCh[s])} /\ connCh[s] \in Seq(Conn)
      BY <1>2 DEF Accept, TypeOK
    <2>2. c = connCh[s][1] /\ 1 \in 1..Len(connCh[s])
      BY <2>1
    <2>3. c.side = s /\ c.role = "accept"
      BY <2>2 DEF Owned
    <2> QED
      BY <1>2, <2>2, <2>3 DEF Queued
  <1>3. held' = held \/ (\E x \in Conn : DialReturn(x)) \/ (\E s \in Side : Accept(s))
    BY Frames DEF Frame
  <1> QED
    BY <1>1, <1>2, <1>3

(* Dial returns after its record has left, so that nothing an end writes   *)
(* is ahead of the record that opens it.                                   *)
LEMMA NextOpenOut ==
    ASSUME TypeOK, TableInv, Owned, [Next]_vars, NEW d \in Conn, OpenOut(d), Usable(d)
    PROVE  OpenOut(d)'
  <1> DEFINE s == d.side
             Out == ~ Carries(ctl[s], d) /\ ~ Carries(InWriter(s), d)
             Was == call["open"][d] = "ok" \/ (d \in held /\ d.role = "dial")
  <1>1. PICK c, h, c1, h1 : c = ctl[s] /\ h = InWriter(s) /\ c1 = ctl'[s] /\ h1 = InWriter(s)'
    OBVIOUS
  <1>2. /\ s \in Side /\ c \in Seq(Record) /\ h \in Seq(Record) /\ TypeOK'
        /\ InHand(s, d) <=> Carries(h, d)
    BY <1>1, ConnFacts, Hand, NextType DEF TypeOK
  <1>3. InHand(s, d)' <=> Carries(h1, d)
    <2>1. InHand(s, d)' <=> writer'[s].pc \in Writing /\ IsOpen(writer'[s].req, d)
      BY DEF InHand
    <2>2. writer'[s] \in WriterState
      BY <1>2 DEF TypeOK
    <2>3. None \notin Record
      BY ConnFacts
    <2>4. CASE writer'[s].pc \in Writing
      <3>1. h1 = <<writer'[s].req>>
        BY <1>1, <2>2, <2>3, <2>4, WriterFacts DEF InWriter
      <3>2. Len(h1) = 1 /\ h1[1] = writer'[s].req
        BY <3>1
      <3> QED
        BY <2>1, <2>4, <3>2 DEF Carries
    <2>5. CASE writer'[s].pc \notin Writing
      <3>1. h1 = <<>>
        BY <1>1, <2>2, <2>5 DEF InWriter, WriterState
      <3>2. Len(h1) = 0
        BY <3>1
      <3> QED
        BY <2>1, <2>5, <3>2 DEF Carries
    <2> QED
      BY <2>4, <2>5
  <1>4. QueueStep(s)
    BY <1>2, QueueSteps
  <1>5. OpenOut(d) <=> (Was => ~ Carries(c, d) /\ ~ Carries(h, d))
    BY <1>1, <1>2 DEF OpenOut
  <1>6. SUFFICES ASSUME call'["open"][d] = "ok" \/ (d \in held' /\ d.role = "dial")
                 PROVE  ~ Carries(c1, d) /\ ~ Carries(h1, d)
    BY <1>1, <1>3 DEF OpenOut
  <1>7. CASE Was
    <2>1. ~ Carries(c, d) /\ ~ Carries(h, d) /\ call["open"][d] # "send"
      BY <1>5, <1>7 DEF Usable
    <2>2. ASSUME NEW k \in Kind, NEW x \in Conn, Enqueue(k, x), x.side = s, UNCHANGED <<wire[s], InWriter(s)>>,
                 \/ k # "data" /\ ctl'[s] = Append(ctl[s], Sends(k, x)) /\ dat'[s] = dat[s]
                 \/ k = "data" /\ dat'[s] = Append(dat[s], Sends(k, x)) /\ ctl'[s] = ctl[s]
          PROVE  ~ Carries(c1, d) /\ ~ Carries(h1, d)
      <3>1. CASE k = "data"
        BY <1>1, <2>1, <2>2, <3>1
      <3>2. CASE k # "data"
        <4>1. PICK r : r = Sends(k, x)
          OBVIOUS
        <4>2. r \in Record /\ r.kind = k /\ r.from = x
          BY <3>2, <4>1, BoundsAssumption DEF Sends, Record
        <4>3. ~ IsOpen(r, d)
          BY <2>1, <2>2, <4>2 DEF IsOpen, Enqueue
        <4>4. c1 = Append(c, r) /\ h1 = h
          BY <1>1, <2>2, <3>2, <4>1
        <4> QED
          BY <1>2, <2>1, <4>2, <4>3, <4>4, OpenAdded
      <3> QED
        BY <3>1, <3>2
    <2>3. c # <<>> => ~ IsOpen(Head(c), d) /\ ~ Carries(Tail(c), d)
      BY <1>2, <2>1, OpenTaken
    <2>4. ASSUME NEW r, ~ IsOpen(r, d) PROVE ~ Carries(<<r>>, d)
      BY <2>4 DEF Carries
    <2>5. CASE UNCHANGED <<ctl[s], dat[s], wire[s], InWriter(s)>>
      BY <1>1, <2>1, <2>5
    <2>6. ASSUME ctl[s] # <<>>, ctl'[s] = Tail(ctl[s]), InWriter(s)' = <<Head(ctl[s])>>
          PROVE  ~ Carries(c1, d) /\ ~ Carries(h1, d)
      BY <1>1, <2>3, <2>4, <2>6
    <2>7. ASSUME dat[s] # <<>>, ctl'[s] = ctl[s], InWriter(s)' = <<Head(dat[s])>>
          PROVE  ~ Carries(c1, d) /\ ~ Carries(h1, d)
      <3>1. 1 \in 1..Len(dat[s]) /\ Head(dat[s]) = dat[s][1]
        BY <1>2, <2>7 DEF TypeOK
      <3>2. Head(dat[s]).kind = "data"
        BY <1>2, <3>1 DEF TableInv
      <3>3. ~ IsOpen(Head(dat[s]), d)
        BY <3>2 DEF IsOpen
      <3> QED
        BY <1>1, <2>1, <2>4, <2>7, <3>3
    <2>8. ASSUME NEW r \in Record, Writes(s, r), UNCHANGED <<ctl[s], dat[s]>>
          PROVE  ~ Carries(c1, d) /\ ~ Carries(h1, d)
      <3>1. h1 = <<>> /\ Len(<<>>) = 0
        BY <1>1, <2>8 DEF Writes
      <3> QED
        BY <1>1, <2>1, <2>8, <3>1 DEF Carries
    <2>9. CASE UNCHANGED <<ctl[s], dat[s], InWriter(s)>>
      BY <1>1, <2>1, <2>9
    <2> QED
      BY <1>4, <2>2, <2>5, <2>6, <2>7, <2>8, <2>9 DEF QueueStep
  <1>8. CASE ~ Was
    <2>1. d \in held' /\ d.role = "dial" => Was
      <3>1. CASE d \in held
        BY <3>1
      <3>2. CASE d \in held' /\ d \notin held
        BY <3>2, HeldSteps
      <3> QED
        BY <3>1, <3>2
    <2>2. call'["open"][d] = "ok" /\ call["open"][d] # "ok"
      BY <1>6, <1>8, <2>1
    <2>3. PICK t \in Side : WriterWrite(t) /\ writer[t].req.kind = "open" /\ writer[t].req.from = d
      BY <2>2, CallSteps DEF CallStep, Kind
    <2>4. InHand(t, d) /\ ctl' = ctl
      BY <2>3 DEF InHand, IsOpen, WriterWrite
    <2>5. OpenOnce(t, d)
      BY DEF TableInv
    <2>6. t = s /\ ~ Carries(ctl[s], d)
      BY <2>4, <2>5 DEF OpenOnce, Coming
    <2>7. PICK p : writer' = [writer EXCEPT ![s] = [pc |-> p, req |-> None]]
      BY <2>3, <2>6 DEF WriterWrite
    <2>8. writer'[s].req = None
      <3>1. writer \in [Side -> WriterState] /\ s \in Side
        BY <1>2 DEF TypeOK
      <3> HIDE DEF s
      <3> QED
        BY <2>7, <3>1
    <2>9. h1 = <<>> /\ Len(<<>>) = 0
      BY <1>1, <2>8 DEF InWriter
    <2> QED
      BY <1>1, <2>4, <2>6, <2>9 DEF Carries
  <1> QED
    BY <1>7, <1>8

LEMMA NextOpenFirst ==
    ASSUME TypeOK, TableInv, [Next]_vars, NEW s \in Side, NEW d \in Conn,
           Calling(s), OpenOut(d), Writing1(d), OpenFirst(wire[s], d)
    PROVE  OpenFirst(wire[s], d)'
  <1>1. PICK w, w1 : w = wire[s] /\ w1 = wire'[s]
    OBVIOUS
  <1>2. w \in Seq(Record) /\ OpenFirst(w, d)
    BY <1>1 DEF TypeOK
  <1>3. SUFFICES OpenFirst(w1, d)
    BY <1>1
  <1>4. QueueStep(s)
    BY QueueSteps
  <1>5. w1 = w => OpenFirst(w1, d)
    BY <1>2
  <1>6. ASSUME w # <<>>, w1 = Tail(w) PROVE OpenFirst(w1, d)
    <2>1. /\ Len(w1) \in Nat
          /\ \A i \in 1..Len(w1) : i + 1 \in 1..Len(w) /\ w1[i] = w[i + 1]
      BY <1>2, <1>6, Rest
    <2>2. ASSUME NEW i \in 1..Len(w1), NEW j \in 1..Len(w1),
                 IsOpen(w1[i], d), w1[j].kind = "data", w1[j].from = d
          PROVE  i < j
      <3>1. i + 1 < j + 1
        BY <1>2, <2>1, <2>2 DEF OpenFirst
      <3> QED
        BY <2>1, <3>1
    <2> QED
      BY <2>2 DEF OpenFirst
  <1>7. ASSUME NEW r \in Record, Writes(s, r), w1 = Append(w, r) PROVE OpenFirst(w1, d)
    <2>1. /\ Len(w) \in Nat /\ Len(w1) = Len(w) + 1
          /\ \A i \in 1..Len(w1) : (i \in 1..Len(w) /\ w1[i] = w[i]) \/ (i = Len(w) + 1 /\ w1[i] = r)
      BY <1>2, <1>7, Appended
    <2>2. ASSUME IsOpen(r, d), NEW j \in 1..Len(w), w[j].kind = "data", w[j].from = d PROVE FALSE
      <3>1. Made(s, w[j])
        BY <1>1, <2>2 DEF Calling, AllMade
      <3>2. d.side = s /\ w[j].n \in 1..Enqueued(d) /\ sent[d] \in Nat
        BY <2>2, <3>1, BoundsAssumption DEF Made, TypeOK
      <3>3. d \in held
        BY <3>2 DEF Enqueued, Writing1
      <3>4. writer[s].pc \in Writing /\ writer[s].req = r
        <4>1. writer[s].pc \in Writing
          BY <1>7 DEF Writes, WriterWrite
        <4>2. <<writer[s].req>> = <<r>>
          BY <1>7, <4>1, Hand DEF Writes
        <4> QED
          BY <4>1, <4>2
      <3>5. InHand(s, d)
        BY <2>2, <3>4 DEF InHand
      <3>6. OpenOnce(s, d) /\ Numbered(d)
        BY DEF TableInv
      <3>7. d.role = "dial"
        BY <3>5, <3>6 DEF OpenOnce, Coming, Numbered, Unsent
      <3> QED
        BY <3>2, <3>3, <3>5, <3>7 DEF OpenOut
    <2>3. ASSUME NEW i \in 1..Len(w1), NEW j \in 1..Len(w1),
                 IsOpen(w1[i], d), w1[j].kind = "data", w1[j].from = d
          PROVE  i < j
      <3>1. CASE j \in 1..Len(w) /\ w1[j] = w[j]
        <4>1. i \in 1..Len(w) /\ w1[i] = w[i]
          BY <2>1, <2>2, <2>3, <3>1
        <4> QED
          BY <1>2, <2>3, <3>1, <4>1 DEF OpenFirst
      <3>2. CASE j = Len(w) + 1 /\ w1[j] = r
        <4>1. i # j
          BY <2>3 DEF IsOpen
        <4> QED
          BY <2>1, <2>3, <3>2, <4>1
      <3> QED
        BY <2>1, <2>3, <3>1, <3>2
    <2> QED
      BY <2>3 DEF OpenFirst
  <1> QED
    BY <1>1, <1>4, <1>5, <1>6, <1>7 DEF QueueStep

-----------------------------------------------------------------------------
(* How an end comes into a listener's queue ...                            *)
LEMMA QueuedSteps ==
    ASSUME TypeOK, Owned, [Next]_vars, NEW c \in Conn, Queued(c)'
    PROVE  Queued(c) \/ (OpenQueued(c.side) /\ At({"opened"}, c))
  <1>1. PICK s \in Side : \E i \in 1..Len(connCh'[s]) : connCh'[s][i] = c
    BY DEF Queued
  <1>2. PICK i \in 1..Len(connCh'[s]) : connCh'[s][i] = c
    BY <1>1
  <1>3. connCh \in [Side -> Seq(Conn)] /\ connCh[s] \in Seq(Conn)
    BY DEF TypeOK
  <1>4. connCh'[s] = connCh[s] => Queued(c)
    BY <1>2 DEF Queued
  <1>5. ASSUME NEW t \in Side, Accept(t) PROVE Queued(c)
    <2>1. t # s => connCh'[s] = connCh[s]
      BY <1>3, <1>5 DEF Accept
    <2>2. CASE t = s
      <3>1. connCh[s] # <<>> /\ connCh'[s] = Tail(connCh[s])
        BY <1>3, <1>5, <2>2 DEF Accept
      <3>2. i + 1 \in 1..Len(connCh[s]) /\ connCh[s][i + 1] = c
        BY <1>2, <1>3, <3>1
      <3> QED
        BY <3>2 DEF Queued
    <2> QED
      BY <1>4, <2>1, <2>2
  <1>6. ASSUME NEW t \in Side, OpenQueued(t) PROVE Queued(c) \/ (OpenQueued(c.side) /\ At({"opened"}, c))
    <2>1. t # s => connCh'[s] = connCh[s]
      BY <1>3, <1>6 DEF OpenQueued
    <2>2. CASE t = s
      <3>1. connCh'[s] = Append(connCh[s], reader[s].c) /\ reader[s].pc = "opened" /\ reader[s].c \in Conn
        BY <1>3, <1>6, <2>2, ReaderFacts DEF OpenQueued, TypeOK
      <3>2. (i \in 1..Len(connCh[s]) /\ connCh[s][i] = c) \/ c = reader[s].c
        BY <1>2, <1>3, <3>1
      <3>3. reader[s].c.side = s
        BY <3>1 DEF Owned
      <3> QED
        BY <1>6, <2>2, <3>1, <3>2, <3>3 DEF Queued, At
    <2> QED
      BY <1>4, <2>1, <2>2
  <1>7. connCh' = connCh \/ \E t \in Side : Accept(t) \/ OpenQueued(t)
    BY Frames DEF Frame
  <1> QED
    BY <1>4, <1>5, <1>6, <1>7

(* ... into the table ...                                                  *)
LEMMA Stored ==
    ASSUME TypeOK, TableInv, [Next]_vars, NEW c \in Conn, DialStore(c) \/ Came(c)
    PROVE  ~ Introduced(c) /\ ~ Known(c) /\ Introduced(c)' /\ conns'[c.side][c.id] = c
  <1>1. c.side \in Side /\ c.id \in Id /\ conns \in [Side -> [Id -> Conn \cup {None}]]
    BY ConnFacts DEF TypeOK
  <1>2. CASE DialStore(c)
    <2>1. conns' = [conns EXCEPT ![c.side][c.id] = c] /\ call["open"][c] = "new" /\ SetCall("open", c, "send")
      BY <1>2 DEF DialStore
    <2>2. call'["open"][c] = "send"
      BY <2>1, CallSet DEF Kind
    <2>3. c.role = "dial" /\ (Known(c) => Introduced(c))
      BY <2>1 DEF TableInv, Numbered
    <2>4. conns'[c.side][c.id] = c
      BY <1>1, <2>1
    <2> QED
      BY <2>1, <2>2, <2>3, <2>4 DEF Introduced
  <1>3. CASE Came(c)
    <2> DEFINE s == c.side
    <2>1. PICK r : r = Head(wire[Peer(s)])
      OBVIOUS
    <2>2. Receive(s) /\ r.kind = "open" /\ c = AcceptEnd(s, r.from.id)
      BY <1>3, <2>1 DEF Came
    <2>3. c.id = r.from.id /\ ~ Introduced(c) /\ Introduced(c)'
      BY <1>1, <2>1, <2>2, Received
    <2>4. conns' = [conns EXCEPT ![s][c.id] = c]
      BY <2>1, <2>2, <2>3 DEF Receive
    <2>5. Known(c) => Introduced(c)
      BY DEF TableInv
    <2>6. conns'[s][c.id] = c
      BY <1>1, <2>4
    <2> QED
      BY <2>3, <2>5, <2>6
  <1> QED
    BY <1>2, <1>3

LEMMA Filing ==
    ASSUME TypeOK, TableInv, [Next]_vars, NEW c \in Conn, conns'[c.side][c.id] = c, conns[c.side][c.id] # c
    PROVE  DialStore(c) \/ Came(c)
  <1>1. c.side \in Side /\ c.id \in Id /\ conns \in [Side -> [Id -> Conn \cup {None}]] /\ c # None
    BY ConnFacts DEF TypeOK
  <1>2. ASSUME NEW s \in Side, NEW i \in Id, Delete(s, i) PROVE FALSE
    BY <1>2, Deleted
  <1>3. ASSUME NEW x \in Conn, DialStore(x) PROVE DialStore(c)
    <2>1. conns' = [conns EXCEPT ![x.side][x.id] = x]
      BY <1>3 DEF DialStore
    <2>2. c = x
      BY <1>1, <2>1
    <2> QED
      BY <1>3, <2>2
  <1>4. ASSUME NEW x \in Conn, DialReturn(x) \/ CloseDelete(x) PROVE FALSE
    <2>1. x.side \in Side /\ x.id \in Id
      BY ConnFacts
    <2>2. conns' = conns \/ Delete(x.side, x.id)
      BY <1>4 DEF DialReturn, CloseDelete
    <2> QED
      BY <1>2, <2>1, <2>2
  <1>5. ASSUME NEW s \in Side, Receive(s) PROVE Came(c)
    <2> DEFINE r == Head(wire[Peer(s)])
    <2>1. conns' = conns \/ (r.kind = "open" /\ conns' = [conns EXCEPT ![s][r.from.id] = AcceptEnd(s, r.from.id)])
      BY <1>5 DEF Receive
    <2>2. r.kind = "open" /\ c = AcceptEnd(s, r.from.id)
      <3> HIDE DEF r
      <3> QED
        BY <1>1, <2>1
    <2>3. c.side = s
      BY <2>2 DEF AcceptEnd
    <2> QED
      BY <1>5, <2>2, <2>3 DEF Came, Receive
  <1>6. ASSUME NEW s \in Side, RejectReturn(s) \/ CloseRecordDelete(s) PROVE FALSE
    <2>1. reader[s].c \in Conn
      BY <1>6, ReaderFacts DEF RejectReturn, CloseRecordDelete, TypeOK
    <2>2. Delete(s, reader[s].c.id) \/ Delete(reader[s].c.side, reader[s].c.id)
      BY <1>6 DEF RejectReturn, CloseRecordDelete, Forget
    <2> QED
      BY <1>2, <2>1, <2>2, ConnFacts
  <1>7. ASSUME NEW s \in Side, SweepDelete(s) PROVE FALSE
    <2>1. sweep[s].c \in Conn /\ Delete(sweep[s].c.side, sweep[s].c.id)
      BY <1>7, SweepFacts DEF SweepDelete, Forget, TypeOK
    <2> QED
      BY <1>2, <2>1, ConnFacts
  <1>8. \/ conns' = conns
        \/ \E x \in Conn : DialStore(x) \/ DialReturn(x) \/ CloseDelete(x)
        \/ \E s \in Side : Receive(s) \/ RejectReturn(s) \/ CloseRecordDelete(s) \/ SweepDelete(s)
    BY Frames DEF Frame
  <1> QED
    BY <1>3, <1>4, <1>5, <1>6, <1>7, <1>8

(* ... and out of it again: only its own handlers take it out.             *)
LEMMA Unfiling ==
    ASSUME TypeOK, TableInv, Owned, OneDialler, [Next]_vars, NEW c \in Conn, Introduced(c),
           conns'[c.side][c.id] # c, conns[c.side][c.id] = c
    PROVE  \/ DialReturn(c) /\ held' = held
           \/ CloseDelete(c)
           \/ RejectReturn(c.side) /\ At({"reject"}, c)
           \/ CloseRecordDelete(c.side) /\ At({"delete"}, c)
           \/ SweepDelete(c.side) /\ sweep[c.side].pc = "delete" /\ sweep[c.side].c = c
  <1>1. c.side \in Side /\ c.id \in Id /\ conns \in [Side -> [Id -> Conn \cup {None}]] /\ c # None
    BY ConnFacts DEF TypeOK
  <1>2. ASSUME NEW s \in Side, NEW i \in Id, NEW v, conns' = [conns EXCEPT ![s][i] = v]
        PROVE  c.side = s /\ c.id = i
    BY <1>1, <1>2
  <1>3. ASSUME NEW x \in Conn, Introduced(x) \/ (Introduced(x)' /\ Owned'),
               \E v : conns' = [conns EXCEPT ![x.side][x.id] = v]
        PROVE  x = c
    <2>1. x.side \in Side /\ x.id \in Id
      BY ConnFacts
    <2>2. c.side = x.side /\ c.id = x.id
      BY <1>2, <1>3, <2>1
    <2>3. DialSide(c) \in Dialers /\ DialSide(x) \in Dialers
      BY <1>3, DialSides
    <2> QED
      BY <2>2, <2>3, Unique
  <1>4. ASSUME NEW x \in Conn, DialStore(x) \/ Came(x) PROVE FALSE
    <2>1. Introduced(x)' /\ Owned' /\ conns'[x.side][x.id] = x
      BY <1>4, Stored, NextOwned
    <2>2. \E v : conns' = [conns EXCEPT ![x.side][x.id] = v]
      <3>1. CASE DialStore(x)
        BY <3>1 DEF DialStore
      <3>2. CASE Came(x)
        <4>1. x = AcceptEnd(x.side, Head(wire[Peer(x.side)]).from.id)
          BY <3>2 DEF Came
        <4>2. x.id = Head(wire[Peer(x.side)]).from.id
          BY <4>1 DEF AcceptEnd
        <4> QED
          BY <3>2, <4>2 DEF Came, Receive
      <3> QED
        BY <1>4, <3>1, <3>2
    <2> QED
      BY <1>3, <2>1, <2>2
  <1>5. ASSUME NEW x \in Conn, DialReturn(x) PROVE DialReturn(c) /\ held' = held
    <2>1. call["open"][x] \in InCall /\ (conns' = conns \/ (Delete(x.side, x.id) /\ held' = held))
      BY <1>5 DEF DialReturn, Returns, InCall
    <2>2. Introduced(x)
      BY <2>1 DEF TableInv, Numbered, Introduced, InCall
    <2>3. Delete(x.side, x.id) /\ held' = held
      BY <2>1
    <2>4. x = c
      BY <1>3, <2>2, <2>3 DEF Delete
    <2> QED
      BY <1>5, <2>3, <2>4
  <1>6. ASSUME NEW x \in Conn, CloseDelete(x) PROVE CloseDelete(c)
    <2>1. call["close"][x] = "new" /\ Delete(x.side, x.id)
      BY <1>6 DEF CloseDelete
    <2>2. Introduced(x)
      BY <2>1 DEF TableInv, Known
    <2>3. x = c
      BY <1>3, <2>1, <2>2 DEF Delete
    <2> QED
      BY <1>6, <2>3
  <1>7. ASSUME NEW s \in Side, RejectReturn(s) \/ CloseRecordDelete(s)
        PROVE  \/ RejectReturn(c.side) /\ At({"reject"}, c)
               \/ CloseRecordDelete(c.side) /\ At({"delete"}, c)
    <2> DEFINE x == reader[s].c
    <2>1. x \in Conn /\ reader[s].pc \in {"reject", "delete"}
      BY <1>7, ReaderFacts DEF RejectReturn, CloseRecordDelete, TypeOK
    <2>2. x.side = s
      BY <2>1 DEF Owned
    <2>3. Delete(x.side, x.id)
      BY <1>7, <2>2 DEF RejectReturn, CloseRecordDelete, Forget
    <2>4. Introduced(x)
      BY <2>1 DEF TableInv, Known, Reading
    <2>5. x = c
      BY <1>3, <2>1, <2>3, <2>4 DEF Delete
    <2>6. s = c.side /\ reader[c.side].c = c
      BY <2>2, <2>5
    <2>7. RejectReturn(s) => reader[s].pc = "reject"
      BY DEF RejectReturn
    <2>8. CloseRecordDelete(s) => reader[s].pc = "delete"
      BY DEF CloseRecordDelete
    <2> QED
      BY <1>7, <2>6, <2>7, <2>8 DEF At
  <1>8. ASSUME NEW s \in Side, SweepDelete(s)
        PROVE  SweepDelete(c.side) /\ sweep[c.side].pc = "delete" /\ sweep[c.side].c = c
    <2> DEFINE x == sweep[s].c
    <2>1. x \in Conn /\ sweep[s].pc = "delete" /\ Delete(x.side, x.id)
      BY <1>8, SweepFacts DEF SweepDelete, Forget, TypeOK
    <2>2. x.side = s
      BY <2>1 DEF Owned
    <2>3. Introduced(x)
      BY <2>1 DEF TableInv, Known, Sweeping
    <2>4. x = c
      BY <1>3, <2>1, <2>3 DEF Delete
    <2> QED
      BY <1>8, <2>1, <2>2, <2>4
  <1>9. ASSUME NEW s \in Side, Receive(s) PROVE FALSE
    <2> DEFINE r == Head(wire[Peer(s)])
    <2>1. r.kind = "open"
      BY <1>9 DEF Receive
    <2>2. AcceptEnd(s, r.from.id).side = s
      BY DEF AcceptEnd
    <2>3. AcceptEnd(s, r.from.id) \in Conn
      BY <1>9, <2>1, Received
    <2>4. Came(AcceptEnd(s, r.from.id))
      BY <1>9, <2>1, <2>2 DEF Came, Receive
    <2> QED
      BY <1>4, <2>3, <2>4
  <1>10. \/ conns' = conns
         \/ \E x \in Conn : DialStore(x) \/ DialReturn(x) \/ CloseDelete(x)
         \/ \E s \in Side : Receive(s) \/ RejectReturn(s) \/ CloseRecordDelete(s) \/ SweepDelete(s)
    BY Frames DEF Frame
  <1> QED
    BY <1>4, <1>5, <1>6, <1>7, <1>8, <1>9, <1>10

-----------------------------------------------------------------------------
(* Only an end that was introduced is in use.                              *)
LEMMA UsedIntroduced ==
    ASSUME TableInv, NEW c \in Conn, InUse(c) \/ Known(c)
    PROVE  Introduced(c)
  <1>1. At({"opened"}, c) => Reading(c)
    BY ConnFacts DEF At, Reading
  <1>2. call["open"][c] \in InCall => c.role = "dial"
    BY DEF InCall, TableInv, Numbered
  <1>3. InUse(c) => Known(c) \/ call["open"][c] \in InCall
    BY <1>1 DEF InUse, Known, InCall
  <1> QED
    BY <1>2, <1>3 DEF TableInv, Introduced, InCall

(* Every end is stored before it is used.                                  *)
LEMMA NextInUse ==
    ASSUME TypeOK, TableInv, Owned, [Next]_vars, NEW c \in Conn, InUse(c)'
    PROVE  InUse(c) \/ DialStore(c) \/ Came(c)
  <1>1. c \in held' => InUse(c)
    BY HeldSteps DEF InUse
  <1>2. Queued(c)' => InUse(c)
    BY QueuedSteps DEF InUse
  <1>3. At({"opened"}, c)' => InUse(c) \/ Came(c)
    BY Enters DEF InUse
  <1>4. call'["open"][c] = call["open"][c] \/ CallStep("open", c)
    BY CallSteps DEF Kind
  <1>5. call'["open"][c] \in {"send", "wait", "ok", "fail"} => call["open"][c] \in {"send", "wait", "ok", "fail"} \/ DialStore(c)
    BY <1>4 DEF CallStep
  <1> QED
    BY <1>1, <1>2, <1>3, <1>5 DEF InUse

(* What handleOpen has not queued yet is in no other hands.                *)
LEMMA NextUndecided ==
    ASSUME TypeOK, TableInv, Owned, [Next]_vars, NEW c \in Conn, Usable(c)
    PROVE  /\ At({"opened", "reject"}, c)' => c \notin held' /\ ~ Queued(c)'
           /\ c \in held' /\ c.role = "dial" => call'["open"][c] = "over"
  <1>1. At({"opened", "reject"}, c) => c \notin held /\ ~ Queued(c) /\ c.role = "accept"
    BY ConnFacts DEF Usable, At, Owned
  <1>2. c.role = "accept" => call["open"][c] = "idle" /\ ~ DialReturn(c)
    <2>1. c.role = "accept" => call["open"][c] = "idle"
      BY DEF TableInv, Numbered
    <2>2. DialReturn(c) => call["open"][c] \in InCall
      BY DEF DialReturn, Returns, InCall
    <2> QED
      BY <2>1, <2>2 DEF InCall
  <1>3. ASSUME At({"opened", "reject"}, c), At({"opened", "reject"}, c)' PROVE c \notin held' /\ ~ Queued(c)'
    <2>1. c \notin held'
      BY <1>1, <1>2, <1>3, HeldSteps
    <2>2. ~ OpenQueued(c.side)
      <3>1. ASSUME OpenQueued(c.side) PROVE reader'[c.side] = Idle
        BY <3>1, ConnFacts DEF OpenQueued, ReaderNext, ReaderGoto, Idle, TypeOK
      <3> QED
        BY <1>3, <3>1 DEF At, Idle, ReaderAt
    <2>3. ~ Queued(c)'
      BY <1>1, <1>3, <2>2, QueuedSteps
    <2> QED
      BY <2>1, <2>3
  <1>4. ASSUME Came(c) PROVE c \notin held' /\ ~ Queued(c)'
    <2>1. ~ Known(c)
      BY <1>4, Stored
    <2>2. held' = held /\ connCh' = connCh
      BY <1>4 DEF Came, Receive, ends, listen
    <2> QED
      BY <2>1, <2>2 DEF Known, Queued
  <1>5. At({"opened", "reject"}, c)' => At({"opened", "reject"}, c) \/ Came(c)
    <2>1. At({"opened", "reject"}, c)' <=> At({"opened"}, c)' \/ At({"reject"}, c)'
      BY DEF At
    <2>2. At({"opened"}, c) \/ At({"reject"}, c) => At({"opened", "reject"}, c)
      BY DEF At
    <2> QED
      BY <2>1, <2>2, Enters
  <1>6. ASSUME c \in held', c.role = "dial" PROVE call'["open"][c] = "over"
    <2>1. CASE c \in held
      <3>1. call["open"][c] = "over"
        BY <1>6, <2>1 DEF Usable
      <3>2. call'["open"][c] \notin Unsent
        BY <3>1, NextCall DEF Unsent
      <3>3. call'["open"][c] = call["open"][c] \/ CallStep("open", c)
        BY CallSteps DEF Kind
      <3> QED
        BY <3>1, <3>2, <3>3 DEF CallStep, Unsent, InCall
    <2>2. CASE c \notin held
      <3>1. DialReturn(c)
        BY <1>6, <2>2, HeldSteps
      <3> QED
        BY <3>1, CallSet DEF DialReturn, Kind
    <2> QED
      BY <2>1, <2>2
  <1> QED
    BY <1>3, <1>4, <1>5, <1>6

LEMMA NextUsable ==
    ASSUME TypeOK, TableInv, Owned, OneDialler, [Next]_vars, NEW c \in Conn, Usable(c), Hanging(c)
    PROVE  Usable(c)'
  <1>1. ASSUME InUse(c)', c \notin closed' PROVE conns'[c.side][c.id] = c
    <2>1. CASE DialStore(c) \/ Came(c)
      BY <2>1, Stored
    <2>2. CASE InUse(c) /\ ~ Came(c)
      <3>1. c \notin closed /\ conns[c.side][c.id] = c /\ Introduced(c)
        BY <1>1, <2>2, NextOver, UsedIntroduced DEF Usable
      <3>2. SUFFICES ASSUME conns'[c.side][c.id] # c PROVE FALSE
        OBVIOUS
      <3>3. /\ ~ CloseDelete(c)
            /\ ~ At({"delete"}, c) /\ ~ (sweep[c.side].pc = "delete" /\ sweep[c.side].c = c)
        BY <3>1 DEF Hanging, CloseDelete
      <3>4. ASSUME DialReturn(c), held' = held PROVE FALSE
        <4>1. call["open"][c] \in InCall /\ call'["open"][c] = "over"
          BY <3>4, CallSet DEF DialReturn, Returns, InCall, Kind
        <4>2. c.role = "dial"
          BY <4>1 DEF InCall, TableInv, Numbered
        <4>3. c \notin held'
          BY <3>4, <4>1, <4>2 DEF InCall, Usable
        <4>4. ~ Queued(c) /\ ~ At({"opened"}, c)
          BY <4>2, ConnFacts DEF Queued, Owned, At
        <4>5. ~ Queued(c)' /\ ~ At({"opened"}, c)'
          BY <2>2, <4>4, QueuedSteps, Enters
        <4> QED
          BY <1>1, <4>1, <4>3, <4>5 DEF InUse
      <3>5. ASSUME RejectReturn(c.side), At({"reject"}, c) PROVE FALSE
        <4>1. /\ c \notin held /\ ~ Queued(c) /\ c.role = "accept" /\ ~ At({"opened"}, c)
          BY <3>5, ConnFacts DEF Usable, At, Owned
        <4>2. call["open"][c] = "idle"
          BY <4>1 DEF TableInv, Numbered
        <4> QED
          BY <2>2, <4>1, <4>2 DEF InUse
      <3> QED
        BY <3>1, <3>2, <3>3, <3>4, <3>5, Unfiling
    <2> QED
      BY <1>1, <2>1, <2>2, NextInUse
  <1> QED
    BY <1>1, NextUndecided DEF Usable

-----------------------------------------------------------------------------
(* How an end comes to be closed: once, by one of three goroutines.        *)
LEMMA NextOnce ==
    ASSUME TypeOK, [Next]_vars, NEW c \in Conn, once[c] # "fresh"
    PROVE  once'[c] # "fresh"
  <1>1. ASSUME NEW x, NEW v \in {"busy", "done"}, once' = [once EXCEPT ![x] = v] PROVE once'[c] # "fresh"
    BY <1>1 DEF TypeOK
  <1>2. ASSUME NEW x \in Conn, CloseBegin(x) \/ CloseReturn(x) PROVE once'[c] # "fresh"
    BY <1>1, <1>2 DEF CloseBegin, CloseReturn, Shut
  <1>3. ASSUME NEW s \in Side, CloseRecord(s) \/ SweepClose(s) PROVE once'[c] # "fresh"
    BY <1>1, <1>3 DEF CloseRecord, SweepClose, Shut
  <1>4. ASSUME NEW s \in Side, CloseRecordDelete(s) \/ SweepDelete(s) PROVE once'[c] # "fresh"
    BY <1>1, <1>4 DEF CloseRecordDelete, SweepDelete, Forget
  <1>5. \/ once' = once
        \/ \E x \in Conn : CloseBegin(x) \/ CloseReturn(x)
        \/ \E s \in Side : CloseRecord(s) \/ CloseRecordDelete(s) \/ SweepClose(s) \/ SweepDelete(s)
    BY Frames DEF Frame
  <1> QED
    BY <1>2, <1>3, <1>4, <1>5

LEMMA ClosedSteps ==
    ASSUME TypeOK, Owned, [Next]_vars, NEW c \in Conn, c \in closed', c \notin closed
    PROVE  /\ once'[c] = "busy"
           /\ \/ CloseBegin(c)
              \/ CloseRecord(c.side) /\ At({"close"}, c) /\ At({"delete"}, c)'
              \/ SweepClose(c.side) /\ Stopped(c.side)
  <1>1. ASSUME NEW x, Shut(x) PROVE c = x /\ once'[c] = "busy"
    BY <1>1 DEF Shut, TypeOK
  <1>2. ASSUME NEW x \in Conn, CloseBegin(x) PROVE CloseBegin(c) /\ once'[c] = "busy"
    <2>1. Shut(x)
      BY <1>2 DEF CloseBegin
    <2> QED
      BY <1>1, <1>2, <2>1
  <1>3. ASSUME NEW s \in Side, CloseRecord(s)
        PROVE  CloseRecord(c.side) /\ At({"close"}, c) /\ At({"delete"}, c)' /\ once'[c] = "busy"
    <2>1. /\ Shut(reader[s].c) /\ ReaderGoto(s, "delete", reader[s].c, None) /\ reader[s].pc = "close"
      BY <1>3 DEF CloseRecord
    <2>2. c = reader[s].c /\ once'[c] = "busy"
      BY <1>1, <2>1
    <2>3. c.side = s
      BY <2>1, <2>2 DEF Owned
    <2>4. reader'[s] = ReaderAt("delete", c, None)
      BY <2>1, <2>2 DEF ReaderGoto, TypeOK
    <2> QED
      BY <1>3, <2>1, <2>2, <2>3, <2>4 DEF At, ReaderAt
  <1>4. ASSUME NEW s \in Side, SweepClose(s) PROVE SweepClose(c.side) /\ Stopped(c.side) /\ once'[c] = "busy"
    <2>1. Shut(sweep[s].c) /\ sweep[s].pc = "close"
      BY <1>4 DEF SweepClose
    <2>2. c = sweep[s].c /\ once'[c] = "busy"
      BY <1>1, <2>1
    <2>3. c.side = s /\ Stopped(s)
      BY <2>1, <2>2 DEF Owned
    <2> QED
      BY <1>4, <2>2, <2>3
  <1>5. closed' = closed \/ (\E x \in Conn : CloseBegin(x)) \/ (\E s \in Side : CloseRecord(s) \/ SweepClose(s))
    BY Frames DEF Frame
  <1> QED
    BY <1>2, <1>3, <1>4, <1>5

(* The record an end gets from the table is from its mate.                 *)
LEMMA Sender ==
    ASSUME TypeOK, TableInv, Owned, OneDialler, NEW c \in Conn, NEW kinds, Reached(c, kinds),
           NEW r, r = Head(wire[Peer(c.side)]), r.from.side = Peer(c.side), Introduced(r.from)
    PROVE  r \in Record /\ r.from = Mate(c) /\ conns[c.side][c.id] = c
  <1>1. c.side \in Side /\ Peer(c.side) \in Side
    BY ConnFacts
  <1>2. r \in Record /\ r.from \in Conn /\ r.from.id \in Id
    BY <1>1, RecordQueues, ConnFacts DEF Reached, TypeOK
  <1>3. conns[c.side][r.from.id] = c /\ c # None
    BY ConnFacts DEF Reached
  <1>4. c.id = r.from.id /\ Known(c)
    BY <1>1, <1>2, <1>3, InTable
  <1>5. DialSide(c) \in Dialers /\ DialSide(r.from) \in Dialers
    BY <1>2, <1>4, DialSides DEF TableInv
  <1>6. r.from = Mate(c)
    <2>1. r.from.side = Peer(c.side)
      OBVIOUS
    <2> QED
      BY <1>2, <1>4, <1>5, <2>1, Unique
  <1> QED
    BY <1>2, <1>3, <1>4, <1>6

(* The record at the head of the transport was made by its side.           *)
LEMMA FirstMade ==
    ASSUME TypeOK, NEW s \in Side, Calling(s), wire[s] # <<>>, NEW r, r = Head(wire[s])
    PROVE  r \in Record /\ Made(s, r)
  <1>1. wire[s] \in Seq(Record)
    BY DEF TypeOK
  <1>2. 1 \in 1..Len(wire[s]) /\ r = wire[s][1] /\ r \in Record
    BY <1>1
  <1> QED
    BY <1>2 DEF Calling, AllMade

LEMMA NextHanging ==
    ASSUME TypeOK, TableInv, Owned, OneDialler, [Next]_vars, NEW c \in Conn,
           \A d \in Conn : Hanging(d), \A s \in Side : Calling(s)
    PROVE  Hanging(c)'
  <1>0. Hanging(c) /\ Mate(c) \in Conn /\ c.side \in Side
    BY Mates, ConnFacts
  <1>1. ASSUME c \in closed' PROVE once'[c] # "fresh"
    BY <1>0, <1>1, NextOnce, ClosedSteps DEF Hanging
  <1>2. ASSUME call'["close"][c] # "idle" PROVE c \in closed'
    <2>1. call'["close"][c] = call["close"][c] \/ CallStep("close", c)
      BY CallSteps DEF Kind
    <2>2. call["close"][c] # "idle" \/ CloseBegin(c)
      BY <1>2, <2>1 DEF CallStep, InCall
    <2>3. CloseBegin(c) => c \in closed'
      BY DEF CloseBegin, Shut
    <2>4. closed \subseteq closed'
      BY NextOver
    <2> QED
      BY <1>0, <2>2, <2>3, <2>4 DEF Hanging
  <1>3. ASSUME call'["reject"][c] # "idle" PROVE Introduced(c)'
    <2>1. call'["reject"][c] = call["reject"][c] \/ CallStep("reject", c)
      BY CallSteps DEF Kind
    <2>2. call["reject"][c] # "idle" \/ \E s \in Side : reader[s].c = c /\ OpenRejected(s)
      BY <1>3, <2>1 DEF CallStep, InCall
    <2>3. ASSUME NEW s \in Side, reader[s].c = c, OpenRejected(s) PROVE Introduced(c)
      <3>1. reader[s].pc = "opened"
        BY <2>3 DEF OpenRejected
      <3> QED
        BY <2>3, <3>1 DEF TableInv, Known, Reading
    <2>4. Introduced(c)
      BY <1>0, <2>2, <2>3 DEF Hanging
    <2> QED
      BY <2>4, NextIntroduced
  <1>4. ASSUME At({"delete"}, c)' PROVE c \in closed'
    <2>1. closed \subseteq closed'
      BY NextOver
    <2> QED
      BY <1>0, <1>4, <2>1, Enters DEF Hanging
  <1>5. ASSUME sweep'[c.side].pc = "delete", sweep'[c.side].c = c PROVE c \in closed'
    <2>1. closed \subseteq closed' /\ sweep \in [Side -> SweepState]
      BY NextOver DEF TypeOK
    <2>2. sweep[c.side].pc = "delete" /\ sweep[c.side].c = c => c \in closed'
      BY <1>0, <2>1 DEF Hanging
    <2>3. ASSUME NEW s \in Side, StopBegin(s) \/ SweepVisit(s) \/ SweepDelete(s)
          PROVE  sweep[c.side].pc = "delete" /\ sweep[c.side].c = c
      <3>1. PICK p \in {"range", "close"} : \E todo, seen, x : SweepTo(s, todo, seen, x, p)
        BY <2>3 DEF StopBegin, SweepVisit, SweepDelete
      <3>2. sweep'[s].pc = p /\ (c.side # s => sweep'[c.side] = sweep[c.side])
        BY <1>0, <2>1, <3>1 DEF SweepTo
      <3> QED
        BY <1>5, <3>2
    <2>4. ASSUME NEW s \in Side, SweepClose(s) PROVE c \in closed'
      <3>1. \/ Shut(sweep[s].c) /\ SweepTo(s, sweep[s].todo, sweep[s].seen, sweep[s].c, "delete")
            \/ SweepTo(s, sweep[s].todo, sweep[s].seen, None, "range")
        BY <2>4 DEF SweepClose
      <3>2. CASE c.side # s
        <4>1. sweep'[c.side] = sweep[c.side]
          BY <1>0, <2>1, <3>1, <3>2 DEF SweepTo
        <4> QED
          BY <1>5, <2>2, <4>1
      <3>3. CASE c.side = s
        <4>1. Shut(sweep[s].c) /\ sweep'[s].c = sweep[s].c
          BY <1>0, <1>5, <2>1, <3>1, <3>3 DEF SweepTo
        <4> QED
          BY <1>5, <3>3, <4>1 DEF Shut
      <3> QED
        BY <3>2, <3>3
    <2>5. sweep' = sweep \/ \E s \in Side : StopBegin(s) \/ SweepVisit(s) \/ SweepClose(s) \/ SweepDelete(s)
      BY Frames DEF Frame
    <2> QED
      BY <1>5, <2>2, <2>3, <2>4, <2>5
  <1>6. ASSUME At({"close"}, c)' PROVE HungUp(Mate(c))'
    <2>1. HungUp(Mate(c)) => HungUp(Mate(c))'
      BY <1>0, NextOver
    <2>2. CASE At({"close"}, c)
      BY <1>0, <2>1, <2>2 DEF Hanging
    <2>3. CASE Reached(c, {"close", "reject"})
      <3>1. PICK r : r = Head(wire[Peer(c.side)])
        OBVIOUS
      <3>2. wire[Peer(c.side)] # <<>> /\ r.kind \in {"close", "reject"} /\ Peer(c.side) \in Side
        BY <1>0, <2>3, <3>1, ConnFacts DEF Reached
      <3>3. r \in Record /\ Made(Peer(c.side), r) /\ r.from \in Conn
        BY <3>1, <3>2, FirstMade, ConnFacts
      <3>4. r.from.side = Peer(c.side) /\ call[r.kind][r.from] # "idle"
        BY <3>2, <3>3 DEF Made
      <3>5. Introduced(r.from)
        <4>1. CASE r.kind = "close"
          BY <3>3, <3>4, <4>1 DEF TableInv, Known
        <4>2. CASE r.kind = "reject"
          BY <3>3, <3>4, <4>2 DEF Hanging
        <4> QED
          BY <3>2, <4>1, <4>2
      <3>6. r.from = Mate(c)
        BY <2>3, <3>1, <3>4, <3>5, Sender
      <3> QED
        BY <2>1, <3>2, <3>4, <3>6 DEF HungUp
    <2> QED
      BY <1>6, <2>2, <2>3, Enters
  <1>7. ASSUME c \in closed', ~ HungUp(c)'
        PROVE  /\ conns'[c.side][c.id] = c => At({"delete"}, c)'
               /\ ~ At({"deliver"}, c)'
    <2>1. ~ HungUp(c)
      BY <1>7, NextOver
    <2>2. CASE c \in closed
      <3>1. /\ conns[c.side][c.id] = c => At({"delete"}, c)
            /\ ~ At({"deliver"}, c) /\ Known(c)
        BY <1>0, <2>1, <2>2 DEF Hanging, Known
      <3>2. ASSUME conns'[c.side][c.id] = c PROVE At({"delete"}, c)'
        <4>1. conns[c.side][c.id] = c
          BY <3>1, <3>2, Filing, Stored
        <4>2. ASSUME CloseRecordDelete(c.side) PROVE FALSE
          <5>1. reader[c.side].c = c
            BY <3>1, <4>1 DEF At
          <5>2. Delete(c.side, c.id) /\ c.id \in Id
            BY <4>2, <5>1, ConnFacts DEF CloseRecordDelete, Forget
          <5> QED
            BY <1>0, <3>2, <5>2, Deleted
        <4> QED
          BY <3>1, <4>1, <4>2, Enters
      <3>3. ASSUME Reached(c, {"data"}) PROVE FALSE
        <4>1. wire[Peer(c.side)] # <<>> /\ Peer(c.side) \in Side /\ reader[c.side].pc = "read"
          BY <1>0, <3>3, ConnFacts DEF Reached
        <4>2. Head(wire[Peer(c.side)]).from.id \in Id
          BY <4>1, RecordQueues, ConnFacts DEF TypeOK
        <4>3. conns[c.side][Head(wire[Peer(c.side)]).from.id] = c /\ c # None
          BY <3>3, ConnFacts DEF Reached
        <4>4. c.id = Head(wire[Peer(c.side)]).from.id
          BY <1>0, <4>2, <4>3, InTable
        <4> QED
          BY <3>1, <4>1, <4>3, <4>4 DEF At
      <3> QED
        BY <3>1, <3>2, <3>3, Enters
    <2>3. CASE c \notin closed
      <3>1. ~ CloseBegin(c)
        <4>1. CloseBegin(c) => call'["close"][c] = "new"
          BY CallSet DEF CloseBegin, Kind
        <4> QED
          BY <1>7, <4>1 DEF HungUp
      <3>2. ~ Stopped(c.side)
        BY <2>1 DEF HungUp
      <3>3. At({"delete"}, c)'
        BY <1>7, <2>3, <3>1, <3>2, ClosedSteps
      <3> QED
        BY <3>3 DEF At
    <2> QED
      BY <2>2, <2>3
  <1> QED
    BY <1>1, <1>2, <1>3, <1>4, <1>5, <1>6, <1>7 DEF Hanging

-----------------------------------------------------------------------------
(* The record readLoop has in its hands for an end.                        *)
LEMMA ReaderHand ==
    ASSUME TypeOK, NEW c \in Conn
    PROVE  /\ At({"deliver"}, c) => InReader(c) = <<reader[c.side].rec>> /\ reader[c.side].rec \in Record
           /\ ~ At({"deliver"}, c) => InReader(c) = <<>>
           /\ InReader(c) \in Seq(Record)
  <1>1. reader[c.side] \in ReaderState
    BY ConnFacts DEF TypeOK
  <1>2. <<>> \in Seq(Record) /\ \A r \in Record : <<r>> \in Seq(Record)
    OBVIOUS
  <1> QED
    BY <1>1, <1>2, ReaderFacts DEF InReader, At

(* How a step moves the data records that go to c.                         *)
Comes(c) ==
    LET p == Peer(c.side)
    IN  /\ UNCHANGED <<wire[p], InWriter(p)>>
        /\ \E x \in Conn : /\ Enqueue("data", x) /\ x.side = p
                           /\ dat'[p] = Append(dat[p], Sends("data", x))
TakenUp(c) ==
    LET p == Peer(c.side)
    IN  /\ UNCHANGED wire[p] /\ InWriter(p) = <<>>
        /\ \/ ctl[p] # <<>> /\ InWriter(p)' = <<Head(ctl[p])>> /\ dat'[p] = dat[p]
           \/ dat[p] # <<>> /\ InWriter(p)' = <<Head(dat[p])>> /\ dat'[p] = Tail(dat[p])
Sent(c) ==
    LET p == Peer(c.side)
    IN  \E r \in Record : /\ Writes(p, r) /\ UNCHANGED dat[p]
                          /\ wire'[p] = IF up THEN Append(wire[p], r) ELSE wire[p]
Arrives(c) ==
    LET p == Peer(c.side)
    IN  /\ Receive(c.side) /\ UNCHANGED <<got[c], readCh[c], InWriter(p), dat[p]>>
        /\ wire[p] # <<>> /\ wire'[p] = Tail(wire[p]) /\ InReader(c) = <<>>
        /\ \/ InReader(c)' = <<>> /\ ~ Reached(c, {"data"})
           \/ InReader(c)' = <<Head(wire[p])>> /\ Reached(c, {"data"})
Delivered(c) ==
    LET p == Peer(c.side)
        r == reader[c.side].rec
    IN  /\ Deliver(c.side) /\ UNCHANGED <<got[c], wire[p], InWriter(p), dat[p]>>
        /\ At({"deliver"}, c) /\ InReader(c) = <<r>> /\ InReader(c)' = <<>>
        /\ \/ readCh'[c] = Append(readCh[c], r)
           \/ c \in closed /\ readCh'[c] = readCh[c]
IsRead(c) ==
    LET p == Peer(c.side)
        r == Head(readCh[c])
    IN  /\ ReadData(c) /\ UNCHANGED <<wire[p], InWriter(p), dat[p], InReader(c)>>
        /\ readCh[c] # <<>> /\ readCh'[c] = Tail(readCh[c])
        /\ \/ r.n \in EmptyWrites /\ got'[c] = got[c] /\ c \in eof'
           \/ r.n \notin EmptyWrites /\ got'[c] = Append(got[c], r) /\ eof' = eof
DataStep(c) ==
    \/ /\ UNCHANGED <<got[c], readCh[c], InReader(c)>>
       /\ \/ UNCHANGED <<wire[Peer(c.side)], InWriter(Peer(c.side)), dat[Peer(c.side)]>>
          \/ Comes(c) \/ TakenUp(c) \/ Sent(c)
    \/ Arrives(c) \/ Delivered(c) \/ IsRead(c)

LEMMA DataSteps ==
    ASSUME TypeOK, Owned, [Next]_vars, NEW c \in Conn
    PROVE  DataStep(c)
  <1>0. /\ readCh \in [Conn -> Seq(Record)] /\ got \in [Conn -> Seq(Record)]
        /\ c.side \in Side /\ Peer(c.side) \in Side /\ Peer(Peer(c.side)) = c.side
        /\ reader[c.side] \in ReaderState /\ TypeOK'
    BY ConnFacts, NextType DEF TypeOK, Side, Peer
  <1>1. /\ At({"deliver"}, c) => InReader(c) = <<reader[c.side].rec>>
        /\ ~ At({"deliver"}, c) => InReader(c) = <<>>
        /\ At({"deliver"}, c)' => InReader(c)' = <<reader'[c.side].rec>>
        /\ ~ At({"deliver"}, c)' => InReader(c)' = <<>>
    BY DEF InReader, At
  <1>2. QueueStep(Peer(c.side))
    BY <1>0, QueueSteps
  <1>3. CASE \E s \in Side : Deliver(s)
    <2>1. PICK s \in Side : Deliver(s)
      BY <1>3
    <2>2. /\ UNCHANGED <<got, wire, writer, dat>> /\ reader[s].pc = "deliver"
          /\ \/ readCh' = [readCh EXCEPT ![reader[s].c] = Append(@, reader[s].rec)]
             \/ reader[s].c \in closed /\ readCh' = readCh
          /\ ReaderNext(s)
      BY <2>1 DEF Deliver, link, out, queue
    <2>3. UNCHANGED <<got[c], wire[Peer(c.side)], InWriter(Peer(c.side)), dat[Peer(c.side)]>>
      BY <2>2 DEF InWriter
    <2>4. reader[s].c \in Conn
      BY <1>0, <2>2, ReaderFacts DEF TypeOK
    <2>5. reader'[s].pc = "read" /\ (s # c.side => reader'[c.side] = reader[c.side])
      BY <1>0, <2>2 DEF ReaderNext, ReaderGoto, ReaderAt, TypeOK
    <2>6. CASE reader[s].c = c /\ s = c.side
      <3>1. At({"deliver"}, c) /\ ~ At({"deliver"}, c)'
        BY <2>2, <2>5, <2>6 DEF At
      <3>2. \/ readCh'[c] = Append(readCh[c], reader[c.side].rec)
            \/ c \in closed /\ readCh'[c] = readCh[c]
        BY <1>0, <2>2, <2>6
      <3>3. Delivered(c)
        BY <1>1, <2>1, <2>3, <2>6, <3>1, <3>2 DEF Delivered
      <3> QED
        BY <3>3 DEF DataStep
    <2>7. CASE reader[s].c # c
      <3>1. readCh'[c] = readCh[c]
        BY <1>0, <2>2, <2>4, <2>7
      <3>2. InReader(c)' = InReader(c)
        <4>1. CASE s = c.side
          BY <1>1, <2>5, <2>7, <4>1 DEF At
        <4>2. CASE s # c.side
          BY <2>5, <4>2 DEF InReader
        <4> QED
          BY <4>1, <4>2
      <3> QED
        BY <2>3, <3>1, <3>2 DEF DataStep
    <2>8. reader[s].c = c => s = c.side
      BY <2>2 DEF Owned
    <2> QED
      BY <2>6, <2>7, <2>8
  <1>4. CASE \E x \in Conn : ReadData(x)
    <2>1. PICK x \in Conn : ReadData(x)
      BY <1>4
    <2>2. /\ UNCHANGED <<wire, writer, dat, reader>>
          /\ readCh[x] # <<>> /\ readCh' = [readCh EXCEPT ![x] = Tail(@)]
          /\ \/ Head(readCh[x]).n \in EmptyWrites /\ got' = got /\ eof' = eof \cup {x}
             \/ /\ Head(readCh[x]).n \notin EmptyWrites /\ eof' = eof
                /\ got' = [got EXCEPT ![x] = Append(@, Head(readCh[x]))]
      BY <2>1 DEF ReadData, system, out, link, queue
    <2>3. UNCHANGED <<wire[Peer(c.side)], InWriter(Peer(c.side)), dat[Peer(c.side)], InReader(c)>>
      BY <2>2 DEF InWriter, InReader
    <2>4. CASE x = c
      <3>1. /\ readCh[c] # <<>> /\ readCh'[c] = Tail(readCh[c])
            /\ \/ Head(readCh[c]).n \in EmptyWrites /\ got'[c] = got[c] /\ c \in eof'
               \/ /\ Head(readCh[c]).n \notin EmptyWrites
                  /\ got'[c] = Append(got[c], Head(readCh[c])) /\ eof' = eof
        BY <1>0, <2>2, <2>4
      <3>2. IsRead(c)
        BY <2>1, <2>3, <2>4, <3>1 DEF IsRead
      <3> QED
        BY <3>2 DEF DataStep
    <2>5. CASE x # c
      <3>1. readCh'[c] = readCh[c] /\ got'[c] = got[c]
        BY <1>0, <2>2, <2>5
      <3> QED
        BY <2>3, <3>1 DEF DataStep
    <2> QED
      BY <2>4, <2>5
  <1>5. CASE \A s \in Side, x \in Conn : ~ Deliver(s) /\ ~ ReadData(x)
    <2>0. /\ readCh' = readCh \/ (\E x \in Conn : ReadData(x)) \/ (\E s \in Side : Deliver(s))
          /\ got' = got \/ (\E x \in Conn : ReadData(x))
      BY Frames DEF Frame
    <2>1. readCh' = readCh /\ got' = got
      BY <1>0, <1>5, <2>0
    <2>2. CASE Receive(c.side)
      <3>1. /\ UNCHANGED <<writer, dat>> /\ reader[c.side].pc = "read" /\ wire[Peer(c.side)] # <<>>
            /\ wire' = [wire EXCEPT ![Peer(c.side)] = Tail(@)]
        BY <2>2 DEF Receive, out, queue
      <3>2. wire'[Peer(c.side)] = Tail(wire[Peer(c.side)])
        BY <1>0, <3>1 DEF TypeOK
      <3>3. ~ At({"deliver"}, c)
        BY <3>1 DEF At
      <3>4. At({"deliver"}, c)' => Reached(c, {"data"}) /\ reader'[c.side].rec = Head(wire[Peer(c.side)])
        BY <3>3, Enters
      <3>5. Reached(c, {"data"}) => At({"deliver"}, c)'
        <4> DEFINE rec == Head(wire[Peer(c.side)])
        <4>1. HAVE Reached(c, {"data"})
        <4>2. rec.kind = "data" /\ conns[c.side][rec.from.id] = c /\ c # None
          BY <4>1, ConnFacts DEF Reached
        <4>3. ReaderGoto(c.side, "deliver", c, rec)
          BY <2>2, <4>2 DEF Receive
        <4> QED
          BY <1>0, <4>3 DEF At, ReaderGoto, ReaderAt, TypeOK
      <3>6. InReader(c) = <<>> /\ InWriter(Peer(c.side))' = InWriter(Peer(c.side))
        BY <1>1, <3>1, <3>3 DEF InWriter
      <3>7. Arrives(c)
        BY <1>1, <2>1, <2>2, <3>1, <3>2, <3>4, <3>5, <3>6 DEF Arrives
      <3> QED
        BY <3>7 DEF DataStep
    <2>3. CASE ~ Receive(c.side)
      <3>1. ~ Reached(c, {"data"}) /\ ~ Deliver(c.side)
        BY <1>0, <1>5, <2>3 DEF Reached
      <3>2. /\ At({"deliver"}, c)' => At({"deliver"}, c) /\ reader'[c.side].rec = reader[c.side].rec
            /\ At({"deliver"}, c) => At({"deliver"}, c)'
        BY <3>1, Enters
      <3>3. InReader(c)' = InReader(c)
        BY <1>1, <3>2
      <3>4. \/ UNCHANGED <<wire[Peer(c.side)], InWriter(Peer(c.side)), dat[Peer(c.side)]>>
            \/ Comes(c) \/ TakenUp(c) \/ Sent(c)
        BY <1>0, <1>2, <2>3 DEF QueueStep, Comes, TakenUp, Sent
      <3> QED
        BY <2>1, <3>3, <3>4 DEF DataStep
    <2> QED
      BY <2>2, <2>3
  <1> QED
    BY <1>3, <1>4, <1>5

-----------------------------------------------------------------------------
(* A data record that readLoop gets for an end is its mate's.              *)
LEMMA Arrival ==
    ASSUME TypeOK, TableInv, Owned, OneDialler, NEW c \in Conn, Reached(c, {"data"}),
           \A s \in Side : Calling(s), \A d \in Conn : Writing1(d),
           NEW r, r = Head(wire[Peer(c.side)])
    PROVE  /\ r \in Record /\ conns[c.side][c.id] = c /\ r.kind = "data" /\ r.from = Mate(c)
           /\ r.n \in 1..Enqueued(Mate(c))
  <1>1. wire[Peer(c.side)] # <<>> /\ r.kind = "data" /\ Peer(c.side) \in Side
    BY ConnFacts DEF Reached
  <1>2. r \in Record /\ Made(Peer(c.side), r) /\ r.from \in Conn
    BY <1>1, FirstMade, ConnFacts
  <1>3. r.from.side = Peer(c.side) /\ r.n \in 1..Enqueued(r.from)
    BY <1>1, <1>2 DEF Made
  <1>4. sent[r.from] \in Nat
    <2>1. \A d \in Conn : sent[d] \in Nat
      BY BoundsAssumption DEF TypeOK
    <2> QED
      BY <1>2, <2>1
  <1>5. sent[r.from] > 0
    BY <1>3, <1>4 DEF Enqueued
  <1>6. Introduced(r.from)
    BY <1>2, <1>5 DEF Writing1, TableInv, Known
  <1>7. r.from = Mate(c) /\ conns[c.side][c.id] = c
    BY <1>3, <1>6, Sender
  <1> QED
    BY <1>1, <1>2, <1>3, <1>7

(* What has been taken over stays so.                                      *)
LEMMA TheirsKept ==
    ASSUME TypeOK, [Next]_vars, NEW c \in Conn, NEW q \in Seq(Record), Theirs(c, q)
    PROVE  /\ Theirs(c, q)'
           /\ \A r \in Record : r.kind = "data" /\ r.from = Mate(c) /\ r.n \in 1..Enqueued(Mate(c)) =>
                  Theirs(c, Append(q, r))' /\ Theirs(c, <<r>>)'
           /\ q # <<>> => /\ Theirs(c, Tail(q))' /\ Head(q) \in Record
                          /\ Head(q).kind = "data" /\ Head(q).from = Mate(c)
                          /\ Head(q).n \in 1..Enqueued(Mate(c))
  <1>1. Mate(c) \in Conn /\ Enqueued(Mate(c)) \in Int /\ Enqueued(Mate(c))' \in Int
    <2>1. Mate(c) \in Conn /\ TypeOK'
      BY Mates, NextType
    <2>2. sent[Mate(c)] \in Nat /\ sent'[Mate(c)] \in Nat
      BY <2>1, BoundsAssumption DEF TypeOK
    <2> QED
      BY <2>1, <2>2 DEF Enqueued
  <1>2. Enqueued(Mate(c))' >= Enqueued(Mate(c))
    BY <1>1, CallsGoOn
  <1>3. 1..Enqueued(Mate(c)) \subseteq 1..Enqueued(Mate(c))'
    BY <1>1, <1>2
  <1>4. Theirs(c, q)'
    BY <1>3 DEF Theirs
  <1>5. ASSUME NEW r \in Record, r.kind = "data", r.from = Mate(c), r.n \in 1..Enqueued(Mate(c))
        PROVE  Theirs(c, Append(q, r))' /\ Theirs(c, <<r>>)'
    <2> DEFINE p == Append(q, r)
    <2>1. \A i \in 1..Len(p) : (i \in 1..Len(q) /\ p[i] = q[i]) \/ (i = Len(q) + 1 /\ p[i] = r)
      BY Appended
    <2> HIDE DEF p
    <2>2. Theirs(c, p)'
      BY <1>3, <1>4, <1>5, <2>1 DEF Theirs
    <2>3. Theirs(c, <<r>>)'
      BY <1>3, <1>5 DEF Theirs
    <2> QED
      BY <2>2, <2>3 DEF p
  <1>6. ASSUME q # <<>>
        PROVE  /\ Theirs(c, Tail(q))' /\ Head(q) \in Record
               /\ Head(q).kind = "data" /\ Head(q).from = Mate(c)
               /\ Head(q).n \in 1..Enqueued(Mate(c))
    <2> DEFINE p == Tail(q)
    <2>1. /\ Head(q) \in Record /\ Head(q) = q[1] /\ 1 \in 1..Len(q)
          /\ \A i \in 1..Len(p) : i + 1 \in 1..Len(q) /\ p[i] = q[i + 1]
      BY <1>6, Rest
    <2> HIDE DEF p
    <2>2. Theirs(c, p)'
      BY <1>4, <2>1 DEF Theirs
    <2>3. Head(q).kind = "data" /\ Head(q).from = Mate(c) /\ Head(q).n \in 1..Enqueued(Mate(c))
      BY <2>1 DEF Theirs
    <2> QED
      BY <2>1, <2>2, <2>3 DEF p
  <1> QED
    BY <1>4, <1>5, <1>6

LEMMA NextTheirs ==
    ASSUME TypeOK, TableInv, Owned, OneDialler, [Next]_vars, NEW c \in Conn,
           \A s \in Side : Calling(s), \A d \in Conn : Writing1(d),
           Theirs(c, got[c]), Theirs(c, readCh[c]), Theirs(c, InReader(c))
    PROVE  (Theirs(c, got[c]) /\ Theirs(c, readCh[c]) /\ Theirs(c, InReader(c)))'
  <1>1. PICK g, a, b : g = got[c] /\ a = readCh[c] /\ b = InReader(c)
    OBVIOUS
  <1>2. g \in Seq(Record) /\ a \in Seq(Record) /\ b \in Seq(Record)
    BY <1>1, ReaderHand DEF TypeOK
  <1>3. Theirs(c, g) /\ Theirs(c, a) /\ Theirs(c, b)
    BY <1>1
  <1>4. Theirs(c, g)' /\ Theirs(c, a)' /\ Theirs(c, b)'
    BY <1>2, <1>3, TheirsKept
  <1>5. \A x \in Record : x.kind = "data" /\ x.from = Mate(c) /\ x.n \in 1..Enqueued(Mate(c)) =>
            Theirs(c, Append(g, x))' /\ Theirs(c, Append(a, x))' /\ Theirs(c, <<x>>)'
    BY <1>2, <1>3, TheirsKept
  <1>6. a # <<>> => /\ Theirs(c, Tail(a))' /\ Head(a) \in Record
                    /\ Head(a).kind = "data" /\ Head(a).from = Mate(c)
                    /\ Head(a).n \in 1..Enqueued(Mate(c))
    BY <1>2, <1>3, TheirsKept
  <1>7. Theirs(c, <<>>)'
    BY DEF Theirs
  <1>8. ASSUME NEW g2, NEW a2, NEW b2, got'[c] = g2, readCh'[c] = a2, InReader(c)' = b2,
               Theirs(c, g2)', Theirs(c, a2)', Theirs(c, b2)'
        PROVE  (Theirs(c, got[c]) /\ Theirs(c, readCh[c]) /\ Theirs(c, InReader(c)))'
    BY <1>8
  <1>9. CASE UNCHANGED <<got[c], readCh[c], InReader(c)>>
    BY <1>1, <1>4, <1>9
  <1>10. CASE Arrives(c)
    <2>1. InReader(c)' = <<>> \/ (InReader(c)' = <<Head(wire[Peer(c.side)])>> /\ Reached(c, {"data"}))
      BY <1>10 DEF Arrives
    <2>2. got'[c] = g /\ readCh'[c] = a
      BY <1>1, <1>10 DEF Arrives
    <2>3. CASE InReader(c)' = <<>>
      BY <1>4, <1>7, <2>2, <2>3
    <2>4. CASE InReader(c)' = <<Head(wire[Peer(c.side)])>> /\ Reached(c, {"data"})
      <3>1. PICK x : x = Head(wire[Peer(c.side)])
        OBVIOUS
      <3>2. x \in Record /\ x.kind = "data" /\ x.from = Mate(c) /\ x.n \in 1..Enqueued(Mate(c))
        BY <2>4, <3>1, Arrival
      <3>3. Theirs(c, <<x>>)' /\ InReader(c)' = <<x>>
        BY <1>5, <2>4, <3>1, <3>2
      <3> QED
        BY <1>4, <2>2, <3>3
    <2> QED
      BY <2>1, <2>3, <2>4
  <1>11. CASE Delivered(c)
    <2>1. PICK x : x = reader[c.side].rec
      OBVIOUS
    <2>2. /\ b = <<x>> /\ got'[c] = g /\ InReader(c)' = <<>> /\ At({"deliver"}, c)
          /\ readCh'[c] = Append(a, x) \/ readCh'[c] = a
      BY <1>1, <1>11, <2>1 DEF Delivered
    <2>3. x \in Record
      BY <2>1, <2>2, ReaderHand
    <2>4. x.kind = "data" /\ x.from = Mate(c) /\ x.n \in 1..Enqueued(Mate(c))
      BY <1>3, <2>2 DEF Theirs
    <2>5. Theirs(c, Append(a, x))'
      BY <1>5, <2>3, <2>4
    <2> QED
      BY <1>4, <1>7, <2>2, <2>5
  <1>12. CASE IsRead(c)
    <2>1. /\ a # <<>> /\ readCh'[c] = Tail(a) /\ InReader(c)' = b
          /\ got'[c] = g \/ got'[c] = Append(g, Head(a))
      BY <1>1, <1>12 DEF IsRead
    <2>2. Theirs(c, Tail(a))' /\ Theirs(c, Append(g, Head(a)))'
      BY <1>5, <1>6, <2>1
    <2> QED
      BY <1>4, <2>1, <2>2
  <1> QED
    BY <1>9, <1>10, <1>11, <1>12, DataSteps DEF DataStep

-----------------------------------------------------------------------------
(* The order along the way, when records move on.                          *)
LEMMA Chains ==
    ASSUME NEW l, NEW a, NEW b, NEW w, NEW h, NEW d, Chain(l, a, b, w, h, d)
    PROVE  /\ \A n : Ahead({l}, {n}) /\ Ahead(a, {n}) /\ Ahead(b, {n}) /\ Ahead(w, {n})
                        /\ Ahead(h, {n}) => Chain(l, a, b, w, h, d \cup {n})
           /\ \A x, y : h = {} /\ d = x \cup y /\ Ahead(x, y) => Chain(l, a, b, w, x, y)
           /\ Chain(l, a, b, w \cup h, {}, d) /\ Chain(l, a, b, w, {}, d)
           /\ \A x, y : b = {} /\ w = x \cup y /\ Ahead(x, y) =>
                  Chain(l, a, x, y, h, d) /\ Chain(l, a, {}, y, h, d)
           /\ Chain(l, a \cup b, {}, w, h, d) /\ Chain(l, a, {}, w, h, d)
           /\ \A n, y : a = {n} \cup y /\ Ahead({n}, y) =>
                  Chain(n, y, b, w, h, d) /\ Chain(l, y, b, w, h, d)
  <1>1. ASSUME NEW n, Ahead({l}, {n}), Ahead(a, {n}), Ahead(b, {n}), Ahead(w, {n}), Ahead(h, {n})
        PROVE  Chain(l, a, b, w, h, d \cup {n})
    BY <1>1 DEF Chain, Ahead
  <1>2. ASSUME NEW x, NEW y, h = {}, d = x \cup y, Ahead(x, y) PROVE Chain(l, a, b, w, x, y)
    BY <1>2 DEF Chain, Ahead
  <1>3. Chain(l, a, b, w \cup h, {}, d) /\ Chain(l, a, b, w, {}, d)
    BY DEF Chain, Ahead
  <1>4. ASSUME NEW x, NEW y, b = {}, w = x \cup y, Ahead(x, y)
        PROVE  Chain(l, a, x, y, h, d) /\ Chain(l, a, {}, y, h, d)
    BY <1>4 DEF Chain, Ahead
  <1>5. Chain(l, a \cup b, {}, w, h, d) /\ Chain(l, a, {}, w, h, d)
    BY DEF Chain, Ahead
  <1>6. ASSUME NEW n, NEW y, a = {n} \cup y, Ahead({n}, y)
        PROVE  Chain(n, y, b, w, h, d) /\ Chain(l, y, b, w, h, d)
    BY <1>6 DEF Chain, Ahead
  <1> QED
    BY <1>1, <1>2, <1>3, <1>4, <1>5, <1>6

(* What is under way from a side has been written.                         *)
LEMMA NumbersMade ==
    ASSUME NEW s, NEW q \in Seq(Record), AllMade(s, q), NEW m \in Conn
    PROVE  Numbers(q, m) \subseteq 1..Enqueued(m)
  <1>1. ASSUME NEW i \in DataFrom(q, m) PROVE q[i].n \in 1..Enqueued(m)
    <2>1. i \in 1..Len(q) /\ q[i].kind = "data" /\ q[i].from = m
      BY DEF DataFrom
    <2> QED
      BY <2>1 DEF AllMade, Made
  <1> QED
    BY <1>1 DEF Numbers

LEMMA NumbersTheirs ==
    ASSUME NEW c \in Conn, NEW q \in Seq(Record), Theirs(c, q)
    PROVE  Numbers(q, Mate(c)) \subseteq 1..Enqueued(Mate(c))
  <1>1. ASSUME NEW i \in DataFrom(q, Mate(c)) PROVE q[i].n \in 1..Enqueued(Mate(c))
    BY DEF DataFrom, Theirs
  <1> QED
    BY <1>1 DEF Numbers

(* The last number Read has returned.                                      *)
LEMMA Lows ==
    ASSUME TypeOK, NEW c \in Conn, Theirs(c, got[c]), Writing1(Mate(c))
    PROVE  /\ Low(c) \in Nat /\ Low(c) <= Enqueued(Mate(c))
           /\ Enqueued(Mate(c)) \in Nat /\ Enqueued(Mate(c)) <= sent[Mate(c)] /\ sent[Mate(c)] \in Nat
  <1>1. got[c] \in Seq(Record) /\ Mate(c) \in Conn
    BY Mates DEF TypeOK
  <1>2. sent[Mate(c)] \in Nat
    BY <1>1, BoundsAssumption DEF TypeOK
  <1>3. Enqueued(Mate(c)) \in Nat /\ Enqueued(Mate(c)) <= sent[Mate(c)]
    BY <1>2 DEF Enqueued, Writing1
  <1>4. CASE got[c] = <<>>
    BY <1>2, <1>3, <1>4 DEF Low
  <1>5. CASE got[c] # <<>>
    <2>1. Len(got[c]) \in 1..Len(got[c])
      BY <1>1, <1>5
    <2>2. got[c][Len(got[c])].n \in 1..Enqueued(Mate(c))
      BY <2>1 DEF Theirs
    <2> QED
      BY <1>2, <1>3, <1>5, <2>2 DEF Low
  <1> QED
    BY <1>4, <1>5

(* The order is kept.                                                      *)
LEMMA NextOrdered ==
    ASSUME TypeOK, TableInv, Owned, OneDialler, PriorityInv, [Next]_vars, NEW c \in Conn,
           \A s \in Side : Calling(s), \A x \in Conn : Writing1(x),
           Theirs(c, got[c]), Theirs(c, readCh[c]), Theirs(c, InReader(c)), Ordered(c)
    PROVE  Ordered(c)'
  <1>1. PICK m, p, g, qa, qb, qw, qh, qd, l, a, b, w, h, d :
            /\ m = Mate(c) /\ p = Peer(c.side)
            /\ g = got[c] /\ qa = readCh[c] /\ qb = InReader(c) /\ qw = wire[p] /\ qh = InWriter(p) /\ qd = dat[p]
            /\ l = Low(c) /\ a = Numbers(qa, m) /\ b = Numbers(qb, m) /\ w = Numbers(qw, m)
            /\ h = Numbers(qh, m) /\ d = Numbers(qd, m)
    OBVIOUS
  <1>2. /\ m \in Conn /\ p \in Side /\ g \in Seq(Record) /\ qa \in Seq(Record) /\ qb \in Seq(Record)
        /\ qw \in Seq(Record) /\ qh \in Seq(Record) /\ qd \in Seq(Record) /\ ctl[p] \in Seq(Record)
    BY <1>1, Mates, ReaderHand, Hand DEF TypeOK
  <1>3. InOrder(qa, m) /\ InOrder(qw, m) /\ InOrder(qd, m) /\ Chain(l, a, b, w, h, d)
    BY <1>1 DEF Ordered
  <1>4. /\ a \subseteq 1..Enqueued(m) /\ b \subseteq 1..Enqueued(m) /\ w \subseteq 1..Enqueued(m)
        /\ h \subseteq 1..Enqueued(m) /\ d \subseteq 1..Enqueued(m)
    BY <1>1, <1>2, NumbersTheirs, NumbersMade DEF Calling
  <1>5. l \in Nat /\ l <= Enqueued(m) /\ Enqueued(m) \in Nat
    BY <1>1, <1>2, Lows
  <1>6. ASSUME NEW la, NEW qa2, NEW qb2, NEW qw2, NEW qh2, NEW qd2,
               Low(c)' = la, readCh'[c] = qa2, InReader(c)' = qb2, wire'[p] = qw2, InWriter(p)' = qh2, dat'[p] = qd2,
               InOrder(qa2, m), InOrder(qw2, m), InOrder(qd2, m),
               Chain(la, Numbers(qa2, m), Numbers(qb2, m), Numbers(qw2, m), Numbers(qh2, m), Numbers(qd2, m))
        PROVE  Ordered(c)'
    BY <1>1, <1>6 DEF Ordered
  <1>7. got'[c] = g => Low(c)' = l
    BY <1>1 DEF Low
  <1>8. Numbers(<<>>, m) = {} /\ InOrder(<<>>, m)
    BY NumbersFew
  <1>9. CASE UNCHANGED <<got[c], readCh[c], InReader(c), wire[p], InWriter(p), dat[p]>>
    BY <1>1, <1>3, <1>6, <1>7, <1>9
  <1>10. CASE UNCHANGED <<got[c], readCh[c], InReader(c)>> /\ Comes(c)
    <2>1. PICK x \in Conn : /\ Enqueue("data", x) /\ x.side = p
                            /\ dat'[p] = Append(qd, Sends("data", x))
      BY <1>1, <1>10 DEF Comes
    <2>2. PICK r : r = Sends("data", x)
      OBVIOUS
    <2>3. r.kind = "data" /\ r.from = x /\ r.n = sent[x] /\ r \in Record
      BY <2>2 DEF Sends, Record, Kind, TypeOK
    <2>4. wire'[p] = qw /\ InWriter(p)' = qh
      BY <1>1, <1>10 DEF Comes
    <2>5. CASE x # m
      <3>1. NumberOf(r, m) = {} /\ Ahead(d, NumberOf(r, m))
        BY <2>3, <2>5 DEF NumberOf, Ahead
      <3>2. /\ Numbers(Append(qd, r), m) = d \cup NumberOf(r, m)
            /\ InOrder(qd, m) /\ Ahead(d, NumberOf(r, m)) => InOrder(Append(qd, r), m)
        BY <1>1, <1>2, <2>3, NumbersAppended
      <3>3. Numbers(Append(qd, r), m) = d /\ InOrder(Append(qd, r), m)
        BY <1>3, <3>1, <3>2
      <3> QED
        BY <1>1, <1>3, <1>6, <1>7, <1>10, <2>1, <2>2, <2>4, <3>3
    <2>6. CASE x = m
      <3>1. call["data"][m] = "send"
        BY <2>1, <2>6 DEF Enqueue
      <3>2. Enqueued(m) = sent[m] - 1 /\ sent[m] \in Nat
        <4>1. \A y \in Conn : sent[y] \in Nat
          BY BoundsAssumption DEF TypeOK
        <4> QED
          BY <1>2, <3>1, <4>1 DEF Enqueued
      <3>3. \A i \in 1..Enqueued(m) : i < sent[m]
        BY <3>2
      <3>4. /\ Ahead({l}, {sent[m]}) /\ Ahead(a, {sent[m]}) /\ Ahead(b, {sent[m]}) /\ Ahead(w, {sent[m]})
            /\ Ahead(h, {sent[m]}) /\ Ahead(d, {sent[m]})
        BY <1>4, <1>5, <3>2, <3>3 DEF Ahead
      <3>5. NumberOf(r, m) = {sent[m]}
        BY <2>3, <2>6 DEF NumberOf
      <3>6. /\ Numbers(Append(qd, r), m) = d \cup NumberOf(r, m)
            /\ InOrder(qd, m) /\ Ahead(d, NumberOf(r, m)) => InOrder(Append(qd, r), m)
        BY <1>1, <1>2, <2>3, NumbersAppended
      <3>7. Numbers(Append(qd, r), m) = d \cup {sent[m]} /\ InOrder(Append(qd, r), m)
        BY <1>3, <3>4, <3>5, <3>6
      <3>8. Chain(l, a, b, w, h, d \cup {sent[m]})
        BY <1>3, <3>4, Chains
      <3> QED
        BY <1>1, <1>3, <1>6, <1>7, <1>10, <2>1, <2>2, <2>4, <3>7, <3>8, ZenonT(30)
    <2> QED
      BY <2>5, <2>6
  <1>11. CASE UNCHANGED <<got[c], readCh[c], InReader(c)>> /\ TakenUp(c)
    <2>1. /\ wire'[p] = qw /\ qh = <<>>
          /\ \/ ctl[p] # <<>> /\ InWriter(p)' = <<Head(ctl[p])>> /\ dat'[p] = qd
             \/ qd # <<>> /\ InWriter(p)' = <<Head(qd)>> /\ dat'[p] = Tail(qd)
      BY <1>1, <1>11 DEF TakenUp
    <2>2. h = {}
      BY <1>1, <1>8, <2>1
    <2>3. CASE ctl[p] # <<>> /\ InWriter(p)' = <<Head(ctl[p])>> /\ dat'[p] = qd
      <3>1. PICK r : r = Head(ctl[p])
        OBVIOUS
      <3>2. r \in Record /\ r = ctl[p][1] /\ 1 \in 1..Len(ctl[p])
        BY <1>2, <2>3, <3>1
      <3>3. r.kind # "data"
        BY <1>2, <3>2 DEF PriorityInv
      <3>4. Numbers(<<r>>, m) = {}
        BY <3>2, <3>3, NumbersFew DEF NumberOf
      <3> QED
        BY <1>1, <1>3, <1>6, <1>7, <1>11, <2>1, <2>2, <2>3, <3>1, <3>4, ZenonT(30)
    <2>4. CASE qd # <<>> /\ InWriter(p)' = <<Head(qd)>> /\ dat'[p] = Tail(qd)
      <3>1. PICK r, z : r = Head(qd) /\ z = Tail(qd)
        OBVIOUS
      <3>2. r \in Record /\ z \in Seq(Record)
        BY <1>2, <2>4, <3>1, RecordQueues
      <3>3. d = NumberOf(r, m) \cup Numbers(z, m) /\ InOrder(z, m) /\ Ahead(NumberOf(r, m), Numbers(z, m))
        BY <1>1, <1>2, <1>3, <2>4, <3>1, NumbersTaken
      <3>4. Numbers(<<r>>, m) = NumberOf(r, m)
        BY <3>2, NumbersFew
      <3>5. Chain(l, a, b, w, NumberOf(r, m), Numbers(z, m))
        BY <1>3, <2>2, <3>3, Chains
      <3>6. Chain(l, Numbers(qa, m), Numbers(qb, m), Numbers(qw, m), Numbers(<<r>>, m), Numbers(z, m))
        BY <1>1, <3>4, <3>5
      <3>7. /\ Low(c)' = l /\ readCh'[c] = qa /\ InReader(c)' = qb /\ wire'[p] = qw
            /\ InWriter(p)' = <<r>> /\ dat'[p] = z
        BY <1>1, <1>7, <1>11, <2>1, <2>4, <3>1
      <3> QED
        BY <1>3, <1>6, <3>3, <3>6, <3>7
    <2> QED
      BY <2>1, <2>3, <2>4
  <1>12. CASE UNCHANGED <<got[c], readCh[c], InReader(c)>> /\ Sent(c)
    <2>1. PICK r \in Record : /\ qh = <<r>> /\ InWriter(p)' = <<>> /\ dat'[p] = qd
                              /\ wire'[p] = IF up THEN Append(qw, r) ELSE qw
      BY <1>1, <1>12 DEF Sent, Writes
    <2>2. h = NumberOf(r, m)
      BY <1>1, <2>1, NumbersFew
    <2>3. Chain(l, a, b, w \cup h, {}, d) /\ Chain(l, a, b, w, {}, d) /\ Ahead(w, h)
      <3>1. Ahead(w, h)
        BY <1>3 DEF Chain
      <3> QED
        BY <1>3, <3>1, Chains
    <2>4. CASE ~ up
      BY <1>1, <1>3, <1>6, <1>7, <1>8, <1>12, <2>1, <2>3, <2>4
    <2>5. CASE up
      <3>1. Numbers(Append(qw, r), m) = w \cup h /\ InOrder(Append(qw, r), m)
        BY <1>1, <1>2, <1>3, <2>2, <2>3, NumbersAppended
      <3>2. PICK z : z = Append(qw, r)
        OBVIOUS
      <3>3. Chain(l, Numbers(qa, m), Numbers(qb, m), Numbers(z, m), Numbers(<<>>, m), Numbers(qd, m))
        BY <1>1, <1>8, <2>3, <3>1, <3>2
      <3>4. /\ Low(c)' = l /\ readCh'[c] = qa /\ InReader(c)' = qb /\ wire'[p] = z
            /\ InWriter(p)' = <<>> /\ dat'[p] = qd
        BY <1>1, <1>7, <1>12, <2>1, <2>5, <3>2
      <3> QED
        BY <1>3, <1>6, <3>1, <3>2, <3>3, <3>4
    <2> QED
      BY <2>4, <2>5
  <1>13. CASE Arrives(c)
    <2>1. PICK r, z : r = Head(qw) /\ z = Tail(qw)
      OBVIOUS
    <2>2. /\ got'[c] = g /\ readCh'[c] = qa /\ InWriter(p)' = qh /\ dat'[p] = qd
          /\ qw # <<>> /\ wire'[p] = z /\ qb = <<>>
          /\ InReader(c)' = <<>> \/ InReader(c)' = <<r>>
      BY <1>1, <1>13, <2>1 DEF Arrives
    <2>3. r \in Record /\ z \in Seq(Record)
      BY <1>2, <2>1, <2>2, RecordQueues
    <2>4. w = NumberOf(r, m) \cup Numbers(z, m) /\ InOrder(z, m) /\ Ahead(NumberOf(r, m), Numbers(z, m))
      BY <1>1, <1>2, <1>3, <2>1, <2>2, NumbersTaken
    <2>5. b = {} /\ Numbers(<<r>>, m) = NumberOf(r, m)
      BY <1>1, <1>8, <2>2, <2>3, NumbersFew
    <2>6. Chain(l, a, NumberOf(r, m), Numbers(z, m), h, d) /\ Chain(l, a, {}, Numbers(z, m), h, d)
      BY <1>3, <2>4, <2>5, Chains
    <2>7. /\ Low(c)' = l /\ readCh'[c] = qa /\ wire'[p] = z /\ InWriter(p)' = qh /\ dat'[p] = qd
      BY <1>1, <1>7, <2>2
    <2>8. CASE InReader(c)' = <<>>
      <3>1. Chain(l, Numbers(qa, m), Numbers(<<>>, m), Numbers(z, m), Numbers(qh, m), Numbers(qd, m))
        BY <1>1, <1>8, <2>6
      <3> QED
        BY <1>3, <1>6, <2>4, <2>7, <2>8, <3>1
    <2>9. CASE InReader(c)' = <<r>>
      <3>1. Chain(l, Numbers(qa, m), Numbers(<<r>>, m), Numbers(z, m), Numbers(qh, m), Numbers(qd, m))
        BY <1>1, <2>5, <2>6
      <3> QED
        BY <1>3, <1>6, <2>4, <2>7, <2>9, <3>1
    <2> QED
      BY <2>2, <2>8, <2>9
  <1>14. CASE Delivered(c)
    <2>1. PICK r : r = reader[c.side].rec
      OBVIOUS
    <2>2. /\ got'[c] = g /\ wire'[p] = qw /\ InWriter(p)' = qh /\ dat'[p] = qd
          /\ qb = <<r>> /\ InReader(c)' = <<>> /\ At({"deliver"}, c)
          /\ readCh'[c] = Append(qa, r) \/ readCh'[c] = qa
      BY <1>1, <1>14, <2>1 DEF Delivered
    <2>3. r \in Record
      BY <2>1, <2>2, ReaderHand
    <2>4. b = NumberOf(r, m) /\ Ahead(a, b)
      BY <1>1, <1>3, <2>2, <2>3, NumbersFew DEF Chain
    <2>5. Numbers(Append(qa, r), m) = a \cup b /\ InOrder(Append(qa, r), m)
      BY <1>1, <1>2, <1>3, <2>3, <2>4, NumbersAppended
    <2>6. Chain(l, a \cup b, {}, w, h, d) /\ Chain(l, a, {}, w, h, d)
      BY <1>3, Chains
    <2>7. /\ Low(c)' = l /\ InReader(c)' = <<>> /\ wire'[p] = qw /\ InWriter(p)' = qh /\ dat'[p] = qd
      BY <1>1, <1>7, <2>2
    <2>8. CASE readCh'[c] = qa
      <3>1. Chain(l, Numbers(qa, m), Numbers(<<>>, m), Numbers(qw, m), Numbers(qh, m), Numbers(qd, m))
        BY <1>1, <1>8, <2>6
      <3> QED
        BY <1>3, <1>6, <2>7, <2>8, <3>1
    <2>9. CASE readCh'[c] = Append(qa, r)
      <3>1. PICK z : z = Append(qa, r)
        OBVIOUS
      <3>2. Chain(l, Numbers(z, m), Numbers(<<>>, m), Numbers(qw, m), Numbers(qh, m), Numbers(qd, m))
        BY <1>1, <1>8, <2>5, <2>6, <3>1
      <3> QED
        BY <1>3, <1>6, <2>5, <2>7, <2>9, <3>1, <3>2
    <2> QED
      BY <2>2, <2>8, <2>9
  <1>15. CASE IsRead(c)
    <2>1. PICK r, z : r = Head(qa) /\ z = Tail(qa)
      OBVIOUS
    <2>2. /\ wire'[p] = qw /\ InWriter(p)' = qh /\ dat'[p] = qd /\ InReader(c)' = qb
          /\ qa # <<>> /\ readCh'[c] = z
          /\ got'[c] = g \/ got'[c] = Append(g, r)
      BY <1>1, <1>15, <2>1 DEF IsRead
    <2>3. z \in Seq(Record) /\ r \in Record /\ r.kind = "data" /\ r.from = m
      BY <1>1, <1>2, <2>1, <2>2, TheirsKept, RecordQueues
    <2>4. a = {r.n} \cup Numbers(z, m) /\ InOrder(z, m) /\ Ahead({r.n}, Numbers(z, m))
      <3>1. NumberOf(r, m) = {r.n}
        BY <2>3 DEF NumberOf
      <3>2. a = NumberOf(r, m) \cup Numbers(z, m) /\ InOrder(z, m) /\ Ahead(NumberOf(r, m), Numbers(z, m))
        BY <1>1, <1>2, <1>3, <2>1, <2>2, NumbersTaken
      <3> QED
        BY <3>1, <3>2
    <2>5. Chain(r.n, Numbers(z, m), b, w, h, d) /\ Chain(l, Numbers(z, m), b, w, h, d)
      BY <1>3, <2>4, Chains
    <2>6. got'[c] = Append(g, r) => Low(c)' = r.n
      <3>1. PICK y : y = Append(g, r)
        OBVIOUS
      <3>2. Len(y) = Len(g) + 1 /\ y[Len(g) + 1] = r /\ Len(g) \in Nat
        BY <1>2, <2>3, <3>1, Appended
      <3>3. y # <<>> /\ y[Len(y)] = r
        BY <3>2
      <3> QED
        BY <3>1, <3>3 DEF Low
    <2>7. CASE got'[c] = g
      BY <1>1, <1>3, <1>6, <1>7, <2>2, <2>4, <2>5, <2>7
    <2>8. CASE got'[c] = Append(g, r)
      BY <1>1, <1>3, <1>6, <2>2, <2>4, <2>5, <2>6, <2>8
    <2> QED
      BY <2>2, <2>7, <2>8
  <1> QED
    BY <1>1, <1>9, <1>10, <1>11, <1>12, <1>13, <1>14, <1>15, DataSteps DEF DataStep

-----------------------------------------------------------------------------
(* An end that is still fed was fed before.                                *)
LEMMA FedBefore ==
    ASSUME TypeOK, TableInv, [Next]_vars, NEW c \in Conn, Fed(c)'
    PROVE  Fed(c)
  <1>1. closed \subseteq closed' /\ eof \subseteq eof'
    BY NextOver
  <1>2. Introduced(c) => Introduced(c)'
    BY NextIntroduced
  <1>3. conns'[c.side][c.id] = c => conns[c.side][c.id] = c \/ ~ Introduced(c)
    BY Filing, Stored
  <1> QED
    BY <1>1, <1>2, <1>3 DEF Fed

(* The next record to come is the next one of the stream.                  *)
LEMMA FirstIsNext ==
    ASSUME TypeOK, NEW c \in Conn, Ordered(c), Complete(c), InReader(c) = <<>>,
           NEW q, q = wire[Peer(c.side)], q # <<>>, NEW r, r = Head(q),
           r.kind = "data", r.from = Mate(c)
    PROVE  /\ r.n = Len(got[c]) + Len(readCh[c]) + 1
           /\ r.n \in Under(c)
  <1>1. PICK m, p, w, h, d, z : /\ m = Mate(c) /\ p = Peer(c.side) /\ z = Numbers(Tail(q), m)
                                /\ w = Numbers(q, m) /\ h = Numbers(InWriter(p), m) /\ d = Numbers(dat[p], m)
    OBVIOUS
  <1>2. /\ m \in Conn /\ p \in Side /\ q \in Seq(Record)
        /\ Len(got[c]) \in Nat /\ Len(readCh[c]) \in Nat /\ sent[m] \in Nat
    <2>1. m \in Conn /\ p \in Side
      BY <1>1, Mates
    <2>2. got[c] \in Seq(Record) /\ readCh[c] \in Seq(Record) /\ q \in Seq(Record)
      BY <1>1, <2>1 DEF TypeOK
    <2>3. sent[m] \in Nat
      BY <2>1, BoundsAssumption DEF TypeOK
    <2> QED
      BY <2>1, <2>2, <2>3
  <1>3. r \in Record /\ r.n \in Nat
    <2>1. r \in Record
      BY <1>2, RecordQueues
    <2> QED
      BY <2>1, BoundsAssumption, ConnFacts
  <1>4. PICK k, last \in Nat : /\ k = Len(got[c]) + Len(readCh[c]) /\ Under(c) = (k + 1)..last
    <2>1. PICK x, y : x = Len(got[c]) /\ y = Len(readCh[c])
      OBVIOUS
    <2>2. Len(InReader(c)) = 0
      OBVIOUS
    <2>3. Count(c) = x + y + 0
      BY <2>1, <2>2, Zenon DEF Count
    <2>4. Count(c) = x + y /\ x + y \in Nat
      <3>1. x \in Nat /\ y \in Nat
        BY <1>2, <2>1, Zenon
      <3> QED
        BY <2>3, <3>1
    <2>5. PICK last \in Count(c)..sent[m] : Under(c) = (Count(c) + 1)..last
      BY <1>1 DEF Complete
    <2>6. last \in Nat
      BY <1>2, <2>4, <2>5
    <2> QED
      BY <2>1, <2>4, <2>5, <2>6
  <1>5. NumberOf(r, m) = {r.n}
    BY <1>1 DEF NumberOf
  <1>6. w = {r.n} \cup z /\ Ahead({r.n}, z)
    <2>1. InOrder(q, m)
      BY <1>1 DEF Ordered
    <2> QED
      BY <1>1, <1>2, <1>5, <2>1, NumbersTaken
  <1>7. Ahead(w, h) /\ Ahead(w, d)
    BY <1>1 DEF Ordered, Chain
  <1>8. Under(c) = w \cup (IF up THEN h \cup d ELSE {})
    BY <1>1 DEF Under
  <1>9. r.n \in Under(c) /\ r.n \in w
    BY <1>6, <1>8
  <1>10. \A x \in Under(c) : x = r.n \/ r.n < x
    BY <1>6, <1>7, <1>8, <1>9 DEF Ahead
  <1>11. PICK U, n : U = Under(c) /\ n = r.n
    OBVIOUS
  <1>12. n \in Nat /\ n \in U /\ U = (k + 1)..last /\ \A x \in U : x = n \/ n < x
    BY <1>3, <1>4, <1>9, <1>10, <1>11, Zenon
  <1>13. k + 1 \in U /\ n >= k + 1
    BY <1>12
  <1>14. n = k + 1
    BY <1>12, <1>13
  <1> QED
    BY <1>4, <1>9, <1>11, <1>14, Zenon

(* Nothing is missing in what an end has taken over.                       *)
LEMMA NextWhole ==
    ASSUME TypeOK, TableInv, Owned, OneDialler, [Next]_vars, NEW c \in Conn,
           \A s \in Side : Calling(s), \A x \in Conn : Writing1(x),
           Hanging(c), Ordered(c), Fed(c) => Complete(c),
           c \notin eof /\ (c \in closed => ~ HungUp(c)) => Whole(c),
           c \notin eof', c \in closed' => ~ HungUp(c)'
    PROVE  Whole(c)'
  <1>1. c \notin eof /\ (c \in closed => ~ HungUp(c)) /\ Whole(c)
    <2>1. closed \subseteq closed' /\ eof \subseteq eof' /\ (HungUp(c) => HungUp(c)')
      BY NextOver
    <2> QED
      BY <2>1
  <1>2. PICK g, a, b : g = got[c] /\ a = readCh[c] /\ b = InReader(c)
    OBVIOUS
  <1>3. /\ g \in Seq(Record) /\ a \in Seq(Record) /\ b \in Seq(Record)
        /\ Len(g) \in Nat /\ Len(a) \in Nat
    <2>1. g \in Seq(Record) /\ a \in Seq(Record) /\ b \in Seq(Record)
      BY <1>2, ReaderHand DEF TypeOK
    <2> QED
      BY <2>1
  <1>4. /\ \A i \in 1..Len(g) : g[i].n = i
        /\ \A i \in 1..Len(a) : a[i].n = Len(g) + i
        /\ \A i \in 1..Len(b) : b[i].n = Len(g) + Len(a) + i
    BY <1>1, <1>2 DEF Whole
  <1>5. ASSUME NEW g2, NEW a2, NEW b2, got'[c] = g2, readCh'[c] = a2, InReader(c)' = b2,
               \A i \in 1..Len(g2) : g2[i].n = i,
               \A i \in 1..Len(a2) : a2[i].n = Len(g2) + i,
               \A i \in 1..Len(b2) : b2[i].n = Len(g2) + Len(a2) + i
        PROVE  Whole(c)'
    BY <1>5 DEF Whole
  <1>6. CASE UNCHANGED <<got[c], readCh[c], InReader(c)>>
    <2>1. got'[c] = g /\ readCh'[c] = a /\ InReader(c)' = b
      BY <1>2, <1>6
    <2> QED
      BY <1>4, <1>5, <2>1
  <1>7. CASE Arrives(c)
    <2>1. PICK q, r : q = wire[Peer(c.side)] /\ r = Head(q)
      OBVIOUS
    <2>2. /\ got'[c] = g /\ readCh'[c] = a /\ InReader(c) = <<>> /\ q # <<>>
          /\ \/ InReader(c)' = <<>>
             \/ InReader(c)' = <<r>> /\ Reached(c, {"data"})
      BY <1>2, <1>7, <2>1 DEF Arrives
    <2>3. CASE InReader(c)' = <<>>
      <3>1. \A i \in 1..Len(<<>>) : <<>>[i].n = Len(g) + Len(a) + i
        OBVIOUS
      <3> QED
        BY <1>4, <1>5, <2>2, <2>3, <3>1
    <2>4. CASE InReader(c)' = <<r>> /\ Reached(c, {"data"})
      <3>1. r.kind = "data" /\ r.from = Mate(c) /\ conns[c.side][c.id] = c
        BY <2>1, <2>4, Arrival
      <3>2. reader[c.side].pc = "read"
        BY <2>4 DEF Reached
      <3>3. c \notin closed
        BY <1>1, <3>1, <3>2 DEF Hanging, At
      <3>4. Complete(c)
        BY <1>1, <3>1, <3>3 DEF Fed
      <3>5. r.n = Len(g) + Len(a) + 1
        BY <1>2, <2>1, <2>2, <3>1, <3>4, FirstIsNext
      <3>6. \A i \in 1..Len(<<r>>) : <<r>>[i].n = Len(g) + Len(a) + i
        BY <3>5
      <3> QED
        BY <1>4, <1>5, <2>2, <2>4, <3>6
    <2> QED
      BY <2>2, <2>3, <2>4
  <1>8. CASE Delivered(c)
    <2>1. PICK r : r = reader[c.side].rec
      OBVIOUS
    <2>2. /\ got'[c] = g /\ b = <<r>> /\ InReader(c)' = <<>> /\ At({"deliver"}, c)
          /\ readCh'[c] = Append(a, r) \/ (c \in closed /\ readCh'[c] = a)
      BY <1>2, <1>8, <2>1 DEF Delivered
    <2>3. c \notin closed
      BY <1>1, <2>2 DEF Hanging
    <2>4. PICK y : y = Append(a, r)
      OBVIOUS
    <2>5. r \in Record /\ r.n = Len(g) + Len(a) + 1
      <3>1. r \in Record
        BY <2>1, <2>2, ReaderHand
      <3>2. Len(b) = 1 /\ b[1] = r
        BY <2>2
      <3>3. b[1].n = Len(g) + Len(a) + 1
        BY <1>4, <3>2
      <3> QED
        BY <3>1, <3>2, <3>3
    <2>6. /\ Len(y) = Len(a) + 1
          /\ \A i \in 1..Len(y) : (i \in 1..Len(a) /\ y[i] = a[i]) \/ (i = Len(a) + 1 /\ y[i] = r)
      BY <1>3, <2>4, <2>5, Appended
    <2>7. r.n = Len(g) + (Len(a) + 1)
      BY <1>3, <2>5
    <2>8. \A i \in 1..Len(y) : y[i].n = Len(g) + i
      BY <1>4, <2>6, <2>7
    <2>9. \A i \in 1..Len(<<>>) : <<>>[i].n = Len(g) + Len(y) + i
      OBVIOUS
    <2>10. got'[c] = g /\ readCh'[c] = y /\ InReader(c)' = <<>>
      BY <2>2, <2>3, <2>4
    <2> QED
      BY <1>4, <1>5, <2>8, <2>9, <2>10
  <1>9. CASE IsRead(c)
    <2>1. PICK r, z, y : r = Head(a) /\ z = Tail(a) /\ y = Append(g, r)
      OBVIOUS
    <2>2. /\ a # <<>> /\ readCh'[c] = z /\ InReader(c)' = b /\ got'[c] = y
      BY <1>2, <1>9, <2>1 DEF IsRead
    <2>3. /\ r \in Record /\ r = a[1] /\ 1 \in 1..Len(a) /\ Len(a) = Len(z) + 1 /\ Len(z) \in Nat
          /\ \A i \in 1..Len(z) : i + 1 \in 1..Len(a) /\ z[i] = a[i + 1]
      BY <1>3, <2>1, <2>2, Rest
    <2>4. r.n = Len(g) + 1
      BY <1>4, <2>3
    <2>5. /\ Len(y) = Len(g) + 1
          /\ \A i \in 1..Len(y) : (i \in 1..Len(g) /\ y[i] = g[i]) \/ (i = Len(g) + 1 /\ y[i] = r)
      BY <1>3, <2>1, <2>3, Appended
    <2>6. \A i \in 1..Len(y) : y[i].n = i
      BY <1>4, <2>4, <2>5
    <2>7. \A i \in 1..Len(z) : z[i].n = Len(y) + i
      <3>1. ASSUME NEW i \in 1..Len(z) PROVE z[i].n = Len(y) + i
        <4>1. z[i].n = Len(g) + (i + 1)
          BY <1>4, <2>3
        <4> QED
          BY <1>3, <2>5, <4>1
      <3> QED
        BY <3>1
    <2>8. \A i \in 1..Len(b) : b[i].n = Len(y) + Len(z) + i
      <3>1. Len(y) + Len(z) = Len(g) + Len(a)
        BY <1>3, <2>3, <2>5
      <3> QED
        BY <1>4, <3>1
    <2> QED
      BY <1>5, <2>2, <2>6, <2>7, <2>8
  <1> QED
    BY <1>6, <1>7, <1>8, <1>9, DataSteps DEF DataStep

-----------------------------------------------------------------------------
(* Data arrives only after the record that opens the connection.           *)
LEMMA DataOpens ==
    ASSUME TypeOK, TableInv, NEW c \in Conn, Calling(Peer(c.side)), Writing1(Mate(c)), Usable(Mate(c)),
           OpenOut(Mate(c)), OpenFirst(wire[Peer(c.side)], Mate(c)),
           NEW q, q = wire[Peer(c.side)], q # <<>>, NEW r, r = Head(q), r.kind = "data", r.from = Mate(c)
    PROVE  Introduced(c)
  <1>1. PICK m, p : m = Mate(c) /\ p = Peer(c.side)
    OBVIOUS
  <1>2. m \in Conn /\ m.side = p /\ Mate(m) = c /\ p \in Side /\ c.side \in Side
    BY <1>1, Mates, ConnFacts
  <1>3. r \in Record /\ Made(p, r)
    BY <1>1, <1>2, FirstMade
  <1>4. m \in held
    <2>1. r.n \in 1..Enqueued(m)
      BY <1>1, <1>3 DEF Made
    <2>2. \A x \in Conn : sent[x] \in Nat
      BY BoundsAssumption DEF TypeOK
    <2>3. sent[m] > 0
      BY <1>2, <2>1, <2>2 DEF Enqueued
    <2> QED
      BY <1>1, <2>3 DEF Writing1
  <1>5. CASE c.role = "dial"
    <2>1. Introduced(m) /\ m.role = "accept"
      BY <1>1, <1>2, <1>4, <1>5 DEF TableInv, Known, Mate
    <2>2. call["open"][c] \notin Unsent
      BY <1>2, <2>1 DEF Introduced
    <2> QED
      BY <1>5, <2>2 DEF Introduced, Unsent
  <1>6. CASE c.role # "dial"
    <2>1. m.role = "dial"
      BY <1>1, <1>6 DEF Mate
    <2>2. call["open"][m] = "over"
      BY <1>1, <1>4, <2>1 DEF Usable
    <2>3. ~ Carries(ctl[p], m) /\ ~ InHand(p, m)
      BY <1>1, <1>2, <1>4, <2>1 DEF OpenOut
    <2>4. ~ Carries(q, m)
      <3>1. q \in Seq(Record)
        BY <1>1, <1>2 DEF TypeOK
      <3>2. r = q[1] /\ 1 \in 1..Len(q)
        BY <3>1
      <3>3. ASSUME NEW i \in 1..Len(q), IsOpen(q[i], m) PROVE FALSE
        <4>1. i < 1
          BY <1>1, <3>2, <3>3 DEF OpenFirst
        <4> QED
          BY <4>1
      <3> QED
        BY <3>3 DEF Carries
    <2>5. ~ Coming(p, m)
      BY <1>1, <2>3, <2>4 DEF Coming
    <2> QED
      BY <1>1, <1>6, <2>2, <2>5 DEF Introduced, Unsent
  <1> QED
    BY <1>5, <1>6

(* The transport fails for good, and nothing else happens then.            *)
LEMMA UpSteps ==
    ASSUME [Next]_vars, NEW c \in Conn
    PROVE  \/ up' = up
           \/ /\ ~ up'
              /\ UNCHANGED <<got[c], readCh[c], InReader(c), sent>>
              /\ UNCHANGED <<wire[Peer(c.side)], InWriter(Peer(c.side)), dat[Peer(c.side)]>>
  <1>1. up' = up \/ LinkFail \/ \E s \in Side : RwClose(s)
    BY Frames DEF Frame
  <1>2. ASSUME LinkFail \/ \E s \in Side : RwClose(s)
        PROVE  ~ up' /\ UNCHANGED <<got, readCh, reader, wire, writer, dat, sent>>
    BY <1>2 DEF LinkFail, RwClose, streams, data, queue, out
  <1>3. UNCHANGED <<got, readCh, reader, wire, writer, dat, sent>> =>
            /\ UNCHANGED <<got[c], readCh[c], InReader(c), sent>>
            /\ UNCHANGED <<wire[Peer(c.side)], InWriter(Peer(c.side)), dat[Peer(c.side)]>>
    BY DEF InReader, InWriter
  <1> QED
    BY <1>1, <1>2, <1>3

(* How far the queued writes of an end go, when none is queued.            *)
LEMMA LastKept ==
    ASSUME TypeOK, [Next]_vars, NEW m \in Conn, ~ Enqueue("data", m), NEW last,
           \/ last = Enqueued(m)
           \/ Stopped(m.side) /\ call["data"][m] = "over"
    PROVE  \/ last = Enqueued(m)'
           \/ (Stopped(m.side) /\ call["data"][m] = "over")'
  <1>1. /\ Enqueued(m)' = (IF Enqueue("data", m) \/ (WriteReturn(m) /\ call["data"][m] = "send")
                           THEN Enqueued(m) + 1 ELSE Enqueued(m))
        /\ call'["data"][m] = call["data"][m] \/ CallStep("data", m)
        /\ Stopped(m.side) => Stopped(m.side)'
    BY CallsGoOn, CallSteps, NextStopped, ConnFacts DEF Kind
  <1>2. CASE Stopped(m.side) /\ call["data"][m] = "over"
    <2>1. call'["data"][m] = "over"
      BY <1>1, <1>2 DEF CallStep, InCall
    <2> QED
      BY <1>1, <1>2, <2>1
  <1>3. CASE WriteReturn(m) /\ call["data"][m] = "send"
    <2>1. PICK v \in Returns("data", m) : SetCall("data", m, IF v = "ok" THEN "idle" ELSE "over")
      BY <1>3 DEF WriteReturn
    <2>2. v = "fail" /\ Stopped(m.side)
      BY <1>3, <2>1 DEF Returns
    <2>3. call'["data"][m] = "over"
      BY <2>1, <2>2, CallSet DEF Kind
    <2> QED
      BY <1>1, <2>2, <2>3
  <1>4. CASE last = Enqueued(m) /\ ~ (WriteReturn(m) /\ call["data"][m] = "send")
    BY <1>1, <1>4
  <1> QED
    BY <1>2, <1>3, <1>4

(* An end goes on to be fed.                                               *)
LEMMA NextComplete ==
    ASSUME TypeOK, TableInv, Owned, OneDialler, PriorityInv, [Next]_vars, NEW c \in Conn,
           \A s \in Side : Calling(s) /\ \A x \in Conn : OpenFirst(wire[s], x),
           \A x \in Conn : Writing1(x) /\ OpenOut(x) /\ Usable(x),
           Theirs(c, got[c]), Theirs(c, readCh[c]), Theirs(c, InReader(c)),
           Ordered(c), Fed(c) => Complete(c), Fed(c)'
    PROVE  Complete(c)'
  <1>1. PICK m, p, qw, qh, qd, w, h, d :
            /\ m = Mate(c) /\ p = Peer(c.side)
            /\ qw = wire[p] /\ qh = InWriter(p) /\ qd = dat[p]
            /\ w = Numbers(qw, m) /\ h = Numbers(qh, m) /\ d = Numbers(qd, m)
    OBVIOUS
  <1>2. /\ m \in Conn /\ p \in Side /\ m.side = p
        /\ qw \in Seq(Record) /\ qh \in Seq(Record) /\ qd \in Seq(Record) /\ ctl[p] \in Seq(Record)
    BY <1>1, Mates, Hand DEF TypeOK
  <1>3. Fed(c) /\ Complete(c) /\ c \notin closed
    BY FedBefore DEF Fed
  <1>4. PICK x, y, z : x = Len(got[c]) /\ y = Len(readCh[c]) /\ z = Len(InReader(c))
    OBVIOUS
  <1>5. x \in Nat /\ y \in Nat /\ z \in Nat
    <2>1. got[c] \in Seq(Record) /\ readCh[c] \in Seq(Record) /\ InReader(c) \in Seq(Record)
      BY ReaderHand DEF TypeOK
    <2>2. \A q \in Seq(Record) : Len(q) \in Nat
      OBVIOUS
    <2> QED
      BY <1>4, <2>1, <2>2, Zenon
  <1>6. PICK k : k = Count(c)
    OBVIOUS
  <1>7. k = x + y + z /\ k \in Nat
    <2>1. k = x + y + z
      BY <1>4, <1>6, Zenon DEF Count
    <2> QED
      BY <1>5, <2>1
  <1>8. sent[m] \in Nat /\ sent'[m] \in Nat /\ sent'[m] >= sent[m]
    <2>1. sent[m] \in Nat
      <3>1. \A e \in Conn : sent[e] \in Nat
        BY BoundsAssumption DEF TypeOK
      <3> QED
        BY <1>2, <3>1
    <2>2. sent'[m] = (IF WriteBegin(m) THEN sent[m] + 1 ELSE sent[m])
      BY <1>2, CallsGoOn
    <2> QED
      BY <2>1, <2>2
  <1>9. PICK last : /\ last \in k..sent[m] /\ Under(c) = (k + 1)..last
                    /\ up => \/ last = Enqueued(m)
                             \/ Stopped(p) /\ call["data"][m] = "over"
    BY <1>1, <1>3, <1>6 DEF Complete
  <1>10. last \in Nat /\ k <= last /\ last \in k..sent'[m]
    BY <1>7, <1>8, <1>9
  <1>11. w \cup (IF up THEN h \cup d ELSE {}) = (k + 1)..last
    BY <1>1, <1>9 DEF Under
  <1>12. Ahead(w, h) /\ Ahead(w, d) /\ InOrder(qd, m) /\ InOrder(qw, m)
    BY <1>1 DEF Ordered, Chain
  <1>13. ASSUME NEW k2, NEW l2, NEW w2, NEW h2, NEW d2, NEW U, Count(c)' = k2, l2 \in k2..sent'[m],
                wire'[p] = w2, InWriter(p)' = h2, dat'[p] = d2,
                U = Numbers(w2, m) \cup (IF up' THEN Numbers(h2, m) \cup Numbers(d2, m) ELSE {}),
                U = (k2 + 1)..l2,
                up' => \/ l2 = Enqueued(m)'
                       \/ (Stopped(p) /\ call["data"][m] = "over")'
         PROVE  Complete(c)'
    <2>1. Under(c)' = U
      BY <1>1, <1>13 DEF Under
    <2> QED
      BY <1>1, <1>13, <2>1 DEF Complete
  <1>14. /\ UNCHANGED <<got[c], readCh[c], InReader(c)>> => Count(c)' = k
         /\ \A i, j : (i \in Nat /\ j \in Nat /\ i + j = y + z /\ got'[c] = got[c] /\ Len(readCh'[c]) = i /\ Len(InReader(c)') = j)
                           => Count(c)' = k
    <2>1. ASSUME UNCHANGED <<got[c], readCh[c], InReader(c)>> PROVE Count(c)' = k
      BY <1>6, <2>1 DEF Count
    <2>2. ASSUME NEW i \in Nat, NEW j \in Nat, i + j = y + z, got'[c] = got[c], Len(readCh'[c]) = i, Len(InReader(c)') = j
          PROVE  Count(c)' = k
      <3>1. Count(c)' = x + i + j
        BY <1>4, <2>2, Zenon DEF Count
      <3> QED
        BY <1>5, <1>7, <2>2, <3>1
    <2> QED
      BY <2>1, <2>2
  <1>15. \/ up /\ ~ up' /\ UNCHANGED <<got[c], readCh[c], InReader(c), wire[p], InWriter(p), dat[p]>>
         \/ up' <=> up
    <2>1. \/ up' = up
          \/ ~ up' /\ UNCHANGED <<got[c], readCh[c], InReader(c), wire[p], InWriter(p), dat[p]>>
      BY <1>1, UpSteps
    <2> QED
      BY <2>1, Zenon
  <1>16. CASE up /\ ~ up' /\ UNCHANGED <<got[c], readCh[c], InReader(c), wire[p], InWriter(p), dat[p]>>
    <2>1. /\ ~ up' /\ UNCHANGED <<got[c], readCh[c], InReader(c)>>
          /\ wire'[p] = qw /\ InWriter(p)' = qh /\ dat'[p] = qd /\ up
      BY <1>1, <1>16
    <2>2. PICK l \in k..last : w = (k + 1)..l
      <3>1. PICK Y : Y = h \cup d
        OBVIOUS
      <3>2. w \cup Y = (k + 1)..last /\ \A i \in w, j \in Y : i < j
        BY <1>11, <1>12, <2>1, <3>1 DEF Ahead
      <3>3. k \in Nat /\ last \in Nat /\ k <= last
        BY <1>7, <1>10
      <3>4. \E l \in k..last : w = (k + 1)..l
        BY <3>2, <3>3, LowerPart
      <3> QED
        BY <3>4
    <2>3. l \in k..sent'[m]
      BY <1>7, <1>8, <1>10, <2>2
    <2>4. w = Numbers(qw, m) \cup (IF up' THEN Numbers(qh, m) \cup Numbers(qd, m) ELSE {})
      BY <1>1, <2>1
    <2> QED
      BY <1>13, <1>14, <2>1, <2>2, <2>3, <2>4
  <1>17. CASE (up' <=> up) /\ Enqueue("data", m)
    <2>1. PICK r, q2 : r = Sends("data", m) /\ q2 = Append(qd, r)
      OBVIOUS
    <2>2. r.kind = "data" /\ r.from = m /\ r.n = sent[m] /\ r \in Record
      BY <1>2, <2>1 DEF Sends, Record, Kind, TypeOK
    <2>3. /\ UNCHANGED <<got, readCh, reader, wire, writer, sent>> /\ call["data"][m] = "send"
          /\ dat' = [dat EXCEPT ![m.side] = Append(@, Sends("data", m))]
      BY <1>17 DEF Enqueue, Sends, data, system, out, link
    <2>4. UNCHANGED <<got[c], readCh[c], InReader(c)>> /\ wire'[p] = qw /\ InWriter(p)' = qh
      BY <1>1, <2>3 DEF InReader, InWriter
    <2>5. dat'[p] = q2
      BY <1>1, <1>2, <2>1, <2>3 DEF TypeOK
    <2>6. Numbers(q2, m) = d \cup {sent[m]}
      <3>1. NumberOf(r, m) = {sent[m]}
        BY <2>2 DEF NumberOf
      <3>2. Numbers(Append(qd, r), m) = Numbers(qd, m) \cup NumberOf(r, m)
        BY <1>2, <2>2, NumbersAppended
      <3> QED
        BY <1>1, <2>1, <3>1, <3>2
    <2>7. Enqueued(m) = sent[m] - 1 /\ Enqueued(m)' = sent[m]
      <3>1. Enqueued(m) = sent[m] - 1
        BY <2>3 DEF Enqueued
      <3>2. Enqueued(m)' = Enqueued(m) + 1
        BY <1>2, <1>17, CallsGoOn
      <3> QED
        BY <1>8, <3>1, <3>2
    <2>8. CASE up
      <3>1. last = sent[m] - 1
        BY <1>9, <2>3, <2>7, <2>8
      <3>2. sent[m] \in k..sent'[m]
        BY <1>7, <1>8, <1>10, <3>1
      <3>3. (k + 1)..last \cup {sent[m]} = (k + 1)..sent[m]
        BY <1>7, <1>8, <1>10, <3>1
      <3>4. (k + 1)..sent[m] = w \cup (IF up' THEN h \cup Numbers(q2, m) ELSE {})
        BY <1>11, <1>17, <2>6, <2>8, <3>3
      <3>5. Count(c)' = k
        BY <1>14, <2>4
      <3> QED
        BY <1>1, <1>13, <2>4, <2>5, <2>7, <3>2, <3>4, <3>5
    <2>9. CASE ~ up
      <3>1. (k + 1)..last = w \cup (IF up' THEN h \cup Numbers(q2, m) ELSE {})
        BY <1>11, <1>17, <2>9
      <3>2. Count(c)' = k
        BY <1>14, <2>4
      <3> QED
        BY <1>1, <1>10, <1>13, <1>17, <2>4, <2>5, <2>9, <3>1, <3>2
    <2> QED
      BY <2>8, <2>9
  <1>18. ASSUME up' <=> up, ~ Enqueue("data", m)
         PROVE  up' => \/ last = Enqueued(m)'
                       \/ (Stopped(p) /\ call["data"][m] = "over")'
    <2>1. HAVE up'
    <2>2. up
      BY <1>18, <2>1
    <2>3. \/ last = Enqueued(m)
          \/ Stopped(m.side) /\ call["data"][m] = "over"
      BY <1>2, <1>9, <2>2
    <2>4. ~ Enqueue("data", m)
      BY <1>18
    <2>5. \/ last = Enqueued(m)'
          \/ (Stopped(m.side) /\ call["data"][m] = "over")'
      BY <1>2, <2>3, <2>4, LastKept
    <2> QED
      BY <1>2, <2>5
  <1>19. ASSUME NEW w2, NEW h2, NEW d2, Count(c)' = k, up' <=> up, ~ Enqueue("data", m),
                wire'[p] = w2, InWriter(p)' = h2, dat'[p] = d2,
                Numbers(w2, m) \cup (IF up THEN Numbers(h2, m) \cup Numbers(d2, m) ELSE {})
                    = w \cup (IF up THEN h \cup d ELSE {})
         PROVE  Complete(c)'
    <2>1. PICK U : U = Numbers(w2, m) \cup (IF up' THEN Numbers(h2, m) \cup Numbers(d2, m) ELSE {})
      OBVIOUS
    <2>2. U = (k + 1)..last
      BY <1>11, <1>19, <2>1
    <2> QED
      BY <1>10, <1>13, <1>18, <1>19, <2>1, <2>2
  <1>20. CASE /\ (up' <=> up) /\ ~ Enqueue("data", m) /\ UNCHANGED <<got[c], readCh[c], InReader(c)>>
              /\ \/ UNCHANGED <<wire[p], InWriter(p), dat[p]>>
                 \/ Comes(c) \/ TakenUp(c) \/ Sent(c)
    <2>1. Count(c)' = k
      BY <1>14, <1>20
    <2>2. CASE UNCHANGED <<wire[p], InWriter(p), dat[p]>>
      BY <1>1, <1>19, <1>20, <2>1, <2>2
    <2>3. CASE Comes(c)
      <3>1. PICK e \in Conn : /\ Enqueue("data", e) /\ e.side = p
                              /\ dat'[p] = Append(qd, Sends("data", e))
        BY <1>1, <2>3 DEF Comes
      <3>2. PICK r, q2 : r = Sends("data", e) /\ q2 = Append(qd, r)
        OBVIOUS
      <3>3. r.kind = "data" /\ r.from = e /\ r \in Record /\ e # m
        BY <1>20, <3>1, <3>2 DEF Sends, Record, Kind, TypeOK
      <3>4. Numbers(q2, m) = d
        <4>1. NumberOf(r, m) = {}
          BY <3>3 DEF NumberOf
        <4>2. Numbers(Append(qd, r), m) = Numbers(qd, m) \cup NumberOf(r, m)
          BY <1>2, <3>3, NumbersAppended
        <4> QED
          BY <1>1, <3>2, <4>1, <4>2
      <3>5. wire'[p] = qw /\ InWriter(p)' = qh /\ dat'[p] = q2
        BY <1>1, <2>3, <3>1, <3>2 DEF Comes
      <3> QED
        BY <1>1, <1>19, <1>20, <2>1, <3>4, <3>5
    <2>4. CASE TakenUp(c)
      <3>1. /\ wire'[p] = qw /\ qh = <<>>
            /\ \/ ctl[p] # <<>> /\ InWriter(p)' = <<Head(ctl[p])>> /\ dat'[p] = qd
               \/ qd # <<>> /\ InWriter(p)' = <<Head(qd)>> /\ dat'[p] = Tail(qd)
        BY <1>1, <2>4 DEF TakenUp
      <3>2. h = {}
        BY <1>1, <3>1, NumbersFew
      <3>3. CASE ctl[p] # <<>> /\ InWriter(p)' = <<Head(ctl[p])>> /\ dat'[p] = qd
        <4>1. PICK r : r = Head(ctl[p])
          OBVIOUS
        <4>2. r \in Record /\ r = ctl[p][1] /\ 1 \in 1..Len(ctl[p])
          BY <1>2, <3>3, <4>1
        <4>3. r.kind # "data"
          BY <1>2, <4>2 DEF PriorityInv
        <4>4. Numbers(<<r>>, m) = {}
          BY <4>2, <4>3, NumbersFew DEF NumberOf
        <4> QED
          BY <1>1, <1>19, <1>20, <2>1, <3>1, <3>2, <3>3, <4>1, <4>4
      <3>4. CASE qd # <<>> /\ InWriter(p)' = <<Head(qd)>> /\ dat'[p] = Tail(qd)
        <4>1. PICK r, q2 : r = Head(qd) /\ q2 = Tail(qd)
          OBVIOUS
        <4>2. r \in Record
          BY <1>2, <3>4, <4>1, RecordQueues
        <4>3. d = NumberOf(r, m) \cup Numbers(q2, m)
          BY <1>1, <1>2, <3>4, <4>1, NumbersTaken
        <4>4. Numbers(<<r>>, m) = NumberOf(r, m)
          BY <4>2, NumbersFew
        <4>5. Numbers(<<r>>, m) \cup Numbers(q2, m) = h \cup d
          BY <3>2, <4>3, <4>4
        <4>6. wire'[p] = qw /\ InWriter(p)' = <<r>> /\ dat'[p] = q2
          BY <3>1, <3>4, <4>1
        <4> QED
          BY <1>1, <1>19, <1>20, <2>1, <4>5, <4>6
      <3> QED
        BY <3>1, <3>3, <3>4
    <2>5. CASE Sent(c)
      <3>1. PICK r \in Record : /\ qh = <<r>> /\ InWriter(p)' = <<>> /\ dat'[p] = qd
                                /\ wire'[p] = IF up THEN Append(qw, r) ELSE qw
        BY <1>1, <2>5 DEF Sent, Writes
      <3>2. h = NumberOf(r, m) /\ Numbers(<<>>, m) = {}
        BY <1>1, <3>1, NumbersFew
      <3>3. CASE ~ up
        BY <1>1, <1>19, <1>20, <2>1, <3>1, <3>3
      <3>4. CASE up
        <4>1. PICK q2 : q2 = Append(qw, r)
          OBVIOUS
        <4>2. Numbers(q2, m) = w \cup h
          BY <1>1, <1>2, <3>2, <4>1, NumbersAppended
        <4>3. Numbers(q2, m) \cup (Numbers(<<>>, m) \cup d) = w \cup (h \cup d)
          BY <3>2, <4>2
        <4>4. wire'[p] = q2 /\ InWriter(p)' = <<>> /\ dat'[p] = qd
          BY <3>1, <3>4, <4>1
        <4>5. Numbers(q2, m) \cup (IF up THEN Numbers(<<>>, m) \cup Numbers(qd, m) ELSE {})
                  = w \cup (IF up THEN h \cup d ELSE {})
          BY <1>1, <3>4, <4>3
        <4> QED
          BY <1>19, <1>20, <2>1, <4>4, <4>5
      <3> QED
        BY <3>3, <3>4
    <2> QED
      BY <1>20, <2>2, <2>3, <2>4, <2>5
  <1>21. CASE (up' <=> up) /\ ~ Enqueue("data", m) /\ Arrives(c)
    <2>1. PICK r, q2 : r = Head(qw) /\ q2 = Tail(qw)
      OBVIOUS
    <2>2. /\ got'[c] = got[c] /\ readCh'[c] = readCh[c] /\ InWriter(p)' = qh /\ dat'[p] = qd
          /\ qw # <<>> /\ wire'[p] = q2 /\ InReader(c) = <<>> /\ Receive(c.side)
          /\ \/ InReader(c)' = <<>> /\ ~ Reached(c, {"data"})
             \/ InReader(c)' = <<r>> /\ Reached(c, {"data"})
      BY <1>1, <1>21, <2>1 DEF Arrives
    <2>3. r \in Record /\ w = NumberOf(r, m) \cup Numbers(q2, m) /\ Ahead(NumberOf(r, m), Numbers(q2, m))
      BY <1>1, <1>2, <1>12, <2>1, <2>2, RecordQueues, NumbersTaken
    <2>4. CASE InReader(c)' = <<>> /\ ~ Reached(c, {"data"})
      <3>1. ~ (r.kind = "data" /\ r.from = m)
        <4>1. SUFFICES ASSUME r.kind = "data", r.from = m PROVE FALSE
          OBVIOUS
        <4>2. Introduced(c)
          BY <1>1, <1>2, <2>1, <2>2, <4>1, DataOpens
        <4>3. conns[c.side][c.id] = c
          BY <1>3, <4>2 DEF Fed
        <4>4. r.from.id = c.id
          BY <1>1, <4>1 DEF Mate
        <4>5. reader[c.side].pc = "read"
          BY <2>2 DEF Receive
        <4> QED
          BY <1>1, <2>1, <2>2, <2>4, <4>1, <4>3, <4>4, <4>5 DEF Reached
      <3>2. Numbers(q2, m) = w
        BY <2>3, <3>1 DEF NumberOf
      <3>3. Count(c)' = k
        BY <1>14, <2>2, <2>4
      <3> QED
        BY <1>1, <1>19, <1>21, <2>2, <3>2, <3>3
    <2>5. CASE InReader(c)' = <<r>> /\ Reached(c, {"data"})
      <3>1. r.kind = "data" /\ r.from = m
        BY <1>1, <2>1, <2>5, Arrival
      <3>2. r.n = x + y + 1 /\ r.n \in Under(c)
        BY <1>1, <1>3, <1>4, <2>1, <2>2, <3>1, FirstIsNext
      <3>3. z = 0 /\ k = x + y /\ r.n = k + 1
        <4>1. z = 0
          BY <1>4, <2>2
        <4> QED
          BY <1>5, <1>7, <3>2, <4>1
      <3>4. Count(c)' = k + 1
        <4>1. Len(InReader(c)') = 1
          BY <2>5
        <4>2. Count(c)' = x + y + 1
          BY <1>4, <2>2, <4>1, Zenon DEF Count
        <4> QED
          BY <3>3, <4>2
      <3>5. NumberOf(r, m) = {k + 1}
        BY <3>1, <3>3 DEF NumberOf
      <3>6. k + 1 \in (k + 1)..last
        BY <1>9, <3>2, <3>3
      <3>7. last \in (k + 1)..sent'[m]
        BY <1>7, <1>8, <1>10, <3>6
      <3>8. PICK U : U = Numbers(q2, m) \cup (IF up' THEN Numbers(qh, m) \cup Numbers(qd, m) ELSE {})
        OBVIOUS
      <3>9. {k + 1} \cup U = (k + 1)..last
        BY <1>1, <1>11, <1>21, <2>3, <3>5, <3>8
      <3>10. k + 1 \notin U
        <4>1. \A e \in U : k + 1 < e
          BY <1>1, <1>12, <2>3, <3>5, <3>8 DEF Ahead
        <4> QED
          BY <1>7, <4>1
      <3>11. U = (k + 1 + 1)..last
        <4>1. \A e : e \in U <=> e \in (k + 1)..last /\ e # k + 1
          BY <3>9, <3>10
        <4>2. \A e : e \in (k + 1)..last /\ e # k + 1 <=> e \in (k + 1 + 1)..last
          BY <1>7, <1>10
        <4> QED
          BY <4>1, <4>2, Zenon
      <3> QED
        BY <1>13, <1>18, <1>21, <2>2, <3>4, <3>7, <3>8, <3>11
    <2> QED
      BY <2>2, <2>4, <2>5
  <1>22. CASE (up' <=> up) /\ ~ Enqueue("data", m) /\ Delivered(c)
    <2>1. PICK r, a2 : r = reader[c.side].rec /\ a2 = Append(readCh[c], r)
      OBVIOUS
    <2>2. /\ got'[c] = got[c] /\ wire'[p] = qw /\ InWriter(p)' = qh /\ dat'[p] = qd
          /\ InReader(c) = <<r>> /\ InReader(c)' = <<>> /\ At({"deliver"}, c) /\ readCh'[c] = a2
      BY <1>1, <1>3, <1>22, <2>1 DEF Delivered
    <2>3. Len(a2) = y + 1 /\ z = 1 /\ Len(<<>>) = 0
      <3>1. r \in Record /\ readCh[c] \in Seq(Record)
        BY <2>1, <2>2, ReaderHand DEF TypeOK
      <3> QED
        BY <1>4, <2>1, <2>2, <3>1, Appended
    <2>4. Count(c)' = k
      <3>1. Len(readCh'[c]) = y + 1 /\ Len(InReader(c)') = 0
        BY <2>2, <2>3
      <3>2. y + 1 \in Nat /\ 0 \in Nat /\ y + 1 + 0 = y + z
        BY <1>5, <2>3
      <3> QED
        BY <1>14, <2>2, <3>1, <3>2
    <2> QED
      BY <1>1, <1>19, <1>22, <2>2, <2>4
  <1>23. CASE (up' <=> up) /\ ~ Enqueue("data", m) /\ IsRead(c)
    <2>1. PICK r, a2, g2 : r = Head(readCh[c]) /\ a2 = Tail(readCh[c]) /\ g2 = Append(got[c], r)
      OBVIOUS
    <2>2. c \notin eof'
      BY DEF Fed
    <2>3. /\ wire'[p] = qw /\ InWriter(p)' = qh /\ dat'[p] = qd /\ InReader(c)' = InReader(c)
          /\ readCh[c] # <<>> /\ readCh'[c] = a2 /\ got'[c] = g2
      BY <1>1, <1>23, <2>1, <2>2 DEF IsRead
    <2>4. Len(g2) = x + 1 /\ Len(a2) \in Nat /\ y = Len(a2) + 1
      <3>1. got[c] \in Seq(Record) /\ readCh[c] \in Seq(Record)
        BY DEF TypeOK
      <3>2. r \in Record /\ Len(a2) \in Nat /\ y = Len(a2) + 1
        BY <1>4, <2>1, <2>3, <3>1, Rest
      <3> QED
        BY <1>4, <2>1, <3>1, <3>2, Appended
    <2>5. Count(c)' = k
      <3>1. Count(c)' = (x + 1) + Len(a2) + z
        BY <1>4, <2>3, <2>4, Zenon DEF Count
      <3> QED
        BY <1>5, <1>7, <2>4, <3>1
    <2> QED
      BY <1>1, <1>19, <1>23, <2>3, <2>5
  <1> QED
    BY <1>1, <1>15, <1>16, <1>17, <1>20, <1>21, <1>22, <1>23, DataSteps DEF DataStep

-----------------------------------------------------------------------------
(* The whole invariant.                                                    *)
LEMMA InitStream == Init => DataInv
  <1> SUFFICES ASSUME Init PROVE DataInv
    OBVIOUS
  <1>0. Len(<<>>) = 0
    OBVIOUS
  <1>1. ASSUME NEW s \in Side
        PROVE  /\ ctl[s] = <<>> /\ dat[s] = <<>> /\ wire[s] = <<>> /\ connCh[s] = <<>>
               /\ writer[s].pc = "top" /\ writer[s].req = None /\ reader[s].pc = "read"
               /\ sweep[s].pc = "range" /\ sweep[s].todo = {}
               /\ \A i \in Id : conns[s][i] = None
    BY DEF Init
  <1>2. ASSUME NEW c \in Conn
        PROVE  /\ c \notin closed /\ c \notin held /\ c \notin eof /\ sent[c] = 0 /\ up
               /\ \A k \in {"open", "data", "close", "reject"} : call[k][c] = "idle"
               /\ got[c] = <<>> /\ readCh[c] = <<>>
    BY DEF Init, Kind
  <1>3. ASSUME NEW s \in Side PROVE InWriter(s) = <<>>
    BY <1>1 DEF InWriter
  <1>4. ASSUME NEW c \in Conn PROVE InReader(c) = <<>> /\ \A P : At(P, c) => "read" \in P
    BY <1>1, ConnFacts DEF InReader, At
  <1>5. Owned
    BY <1>0, <1>1, <1>2 DEF Owned
  <1>6. ASSUME NEW c \in Conn PROVE Hanging(c) /\ Usable(c)
    <2>1. ~ Queued(c)
      BY <1>0, <1>1 DEF Queued
    <2>2. sweep[c.side].pc = "range"
      BY <1>1, ConnFacts
    <2>3. /\ ~ At({"delete"}, c) /\ ~ At({"close"}, c) /\ ~ At({"opened"}, c) /\ ~ At({"opened", "reject"}, c)
      BY <1>4
    <2>4. Hanging(c)
      BY <1>2, <2>2, <2>3 DEF Hanging
    <2>5. Usable(c)
      BY <1>2, <2>1, <2>3 DEF Usable, InUse
    <2> QED
      BY <2>4, <2>5
  <1>7. ASSUME NEW s \in Side PROVE Calling(s) /\ \A d \in Conn : OpenFirst(wire[s], d)
    BY <1>0, <1>1, <1>3 DEF Calling, AllMade, OpenFirst
  <1>8. ASSUME NEW c \in Conn PROVE Writing1(c) /\ OpenOut(c)
    BY <1>2 DEF Writing1, OpenOut
  <1>9. ASSUME NEW c \in Conn PROVE Theirs(c, got[c]) /\ Theirs(c, readCh[c]) /\ Theirs(c, InReader(c))
    BY <1>0, <1>2, <1>4 DEF Theirs
  <1>10. ASSUME NEW c \in Conn
         PROVE  Mate(c) \in Conn /\ Peer(c.side) \in Side /\ \A m : Numbers(<<>>, m) = {} /\ InOrder(<<>>, m)
    BY Mates, NumbersFew
  <1>11. ASSUME NEW c \in Conn PROVE Ordered(c)
    BY <1>1, <1>2, <1>3, <1>4, <1>10 DEF Ordered, Chain, Ahead
  <1>12. ASSUME NEW c \in Conn PROVE Whole(c)
    <2>1. \A i \in 1..Len(<<>>) : FALSE
      OBVIOUS
    <2>2. got[c] = <<>> /\ readCh[c] = <<>> /\ InReader(c) = <<>>
      BY <1>2, <1>4
    <2> QED
      BY <2>1, <2>2 DEF Whole
  <1>13. ASSUME NEW c \in Conn PROVE Complete(c)
    <2>1. Count(c) = 0
      <3>1. Len(got[c]) = 0 /\ Len(readCh[c]) = 0 /\ Len(InReader(c)) = 0
        BY <1>0, <1>2, <1>4
      <3>2. Count(c) = 0 + 0 + 0
        BY <3>1, Zenon DEF Count
      <3> QED
        BY <3>2
    <2>2. Under(c) = {}
      BY <1>1, <1>3, <1>10 DEF Under
    <2>3. sent[Mate(c)] = 0 /\ Enqueued(Mate(c)) = 0
      BY <1>2, <1>10 DEF Enqueued
    <2>4. 0 \in 0..0 /\ (0 + 1)..0 = {}
      OBVIOUS
    <2> QED
      BY <2>1, <2>2, <2>3, <2>4 DEF Complete
  <1> QED
    BY <1>5, <1>6, <1>7, <1>8, <1>9, <1>11, <1>12, <1>13 DEF DataInv

LEMMA NextStream ==
    ASSUME TypeOK, TableInv, PriorityInv, DataInv, OneDialler, [Next]_vars
    PROVE  DataInv'
  <1>1. /\ Owned
        /\ \A c \in Conn : Hanging(c) /\ Usable(c)
        /\ \A s \in Side : Calling(s) /\ \A d \in Conn : OpenFirst(wire[s], d)
        /\ \A c \in Conn : Writing1(c) /\ OpenOut(c)
        /\ \A c \in Conn : Theirs(c, got[c]) /\ Theirs(c, readCh[c]) /\ Theirs(c, InReader(c))
        /\ \A c \in Conn : Ordered(c)
        /\ \A c \in Conn : c \notin eof /\ (c \in closed => ~ HungUp(c)) => Whole(c)
        /\ \A c \in Conn : Fed(c) => Complete(c)
    BY DEF DataInv
  <1>2. Owned'
    BY <1>1, NextOwned
  <1>3. ASSUME NEW c \in Conn PROVE Hanging(c)' /\ Usable(c)'
    BY <1>1, NextHanging, NextUsable
  <1>4. ASSUME NEW s \in Side PROVE Calling(s)' /\ \A d \in Conn : OpenFirst(wire[s], d)'
    BY <1>1, NextCalling, NextOpenFirst
  <1>5. ASSUME NEW c \in Conn PROVE Writing1(c)' /\ OpenOut(c)'
    BY <1>1, NextWriting, NextOpenOut
  <1>6. ASSUME NEW c \in Conn PROVE (Theirs(c, got[c]) /\ Theirs(c, readCh[c]) /\ Theirs(c, InReader(c)))'
    BY <1>1, NextTheirs
  <1>7. ASSUME NEW c \in Conn PROVE Ordered(c)'
    BY <1>1, NextOrdered
  <1>8. ASSUME NEW c \in Conn, c \notin eof', c \in closed' => ~ HungUp(c)' PROVE Whole(c)'
    BY <1>1, <1>8, NextWhole
  <1>9. ASSUME NEW c \in Conn, Fed(c)' PROVE Complete(c)'
    BY <1>1, <1>9, NextComplete
  <1> QED
    BY <1>2, <1>3, <1>4, <1>5, <1>6, <1>7, <1>8, <1>9 DEF DataInv

(* It holds in every reachable state, when one side dials.                 *)
LEMMA StreamInvariant ==
    ASSUME OneDialler
    PROVE  Spec => [](TypeOK /\ TableInv /\ DataInv)
  <1>1. TypeOK /\ TableInv /\ PriorityInv /\ DataInv /\ [Next]_vars => DataInv'
    BY NextStream
  <1> QED
    BY <1>1, InitStream, TypeCorrect, TableHolds, PriorityInvHolds, PTL DEF Spec

-----------------------------------------------------------------------------
(* Two queues, one behind the other.                                       *)
LEMMA Joined ==
    ASSUME NEW q \in Seq(Record), NEW r \in Seq(Record), NEW p, p = q \o r
    PROVE  /\ p \in Seq(Record) /\ Len(q) \in Nat /\ Len(r) \in Nat /\ Len(p) = Len(q) + Len(r)
           /\ \A i \in 1..Len(q) : p[i] = q[i]
           /\ \A i \in 1..Len(r) : p[Len(q) + i] = r[i]
  OBVIOUS

(* Their numbers and their order.                                          *)
LEMMA NumbersJoined ==
    ASSUME NEW q \in Seq(Record), NEW r \in Seq(Record), NEW m
    PROVE  /\ q \o r \in Seq(Record)
           /\ Numbers(q \o r, m) = Numbers(q, m) \cup Numbers(r, m)
           /\ InOrder(q, m) /\ InOrder(r, m) /\ Ahead(Numbers(q, m), Numbers(r, m)) => InOrder(q \o r, m)
  <1> DEFINE p == q \o r
             k == Len(q)
             Is(x) == x.kind = "data" /\ x.from = m
  <1>1. /\ p \in Seq(Record) /\ k \in Nat /\ Len(r) \in Nat /\ Len(p) = k + Len(r)
        /\ \A i \in 1..k : p[i] = q[i]
        /\ \A i \in 1..Len(r) : p[k + i] = r[i]
    OBVIOUS
  <1>2. DOMAIN p = 1..Len(p) /\ DOMAIN q = 1..k /\ DOMAIN r = 1..Len(r)
    BY <1>1
  <1> HIDE DEF p, k
  <1>3. /\ DataFrom(p, m) = {i \in 1..Len(p) : Is(p[i])}
        /\ DataFrom(q, m) = {i \in 1..k : Is(q[i])}
        /\ DataFrom(r, m) = {i \in 1..Len(r) : Is(r[i])}
    BY <1>2 DEF DataFrom
  <1> HIDE DEF Is
  <1>4. ASSUME NEW i \in DataFrom(p, m)
        PROVE  \/ i \in DataFrom(q, m) /\ p[i] = q[i] /\ i <= k
               \/ i - k \in DataFrom(r, m) /\ p[i] = r[i - k] /\ i > k
    <2>1. i \in 1..Len(p) /\ Is(p[i])
      BY <1>3, <1>4
    <2>2. CASE i <= k
      <3>1. i \in 1..k
        BY <1>1, <2>1, <2>2
      <3>2. p[i] = q[i]
        BY <1>1, <3>1
      <3> QED
        BY <1>3, <2>1, <2>2, <3>1, <3>2
    <2>3. CASE i > k
      <3>1. i - k \in 1..Len(r) /\ k + (i - k) = i
        BY <1>1, <2>1, <2>3
      <3>2. p[i] = r[i - k]
        BY <1>1, <3>1
      <3> QED
        BY <1>3, <2>1, <2>3, <3>1, <3>2
    <2> QED
      BY <1>1, <2>1, <2>2, <2>3
  <1>5. ASSUME NEW i \in DataFrom(q, m) PROVE i \in DataFrom(p, m) /\ p[i] = q[i]
    <2>1. i \in 1..k /\ Is(q[i])
      BY <1>3, <1>5
    <2>2. i \in 1..Len(p) /\ p[i] = q[i]
      BY <1>1, <2>1
    <2> QED
      BY <1>3, <2>1, <2>2
  <1>6. ASSUME NEW i \in DataFrom(r, m) PROVE k + i \in DataFrom(p, m) /\ p[k + i] = r[i]
    <2>1. i \in 1..Len(r) /\ Is(r[i])
      BY <1>3, <1>6
    <2>2. k + i \in 1..Len(p) /\ p[k + i] = r[i]
      BY <1>1, <2>1
    <2> QED
      BY <1>3, <2>1, <2>2
  <1>7. Numbers(p, m) \subseteq Numbers(q, m) \cup Numbers(r, m)
    <2>1. ASSUME NEW i \in DataFrom(p, m) PROVE p[i].n \in Numbers(q, m) \cup Numbers(r, m)
      BY <1>4 DEF Numbers
    <2> QED
      BY <2>1 DEF Numbers
  <1>8. Numbers(q, m) \subseteq Numbers(p, m)
    BY <1>5 DEF Numbers
  <1>9. Numbers(r, m) \subseteq Numbers(p, m)
    BY <1>6 DEF Numbers
  <1>10. ASSUME InOrder(q, m), InOrder(r, m), Ahead(Numbers(q, m), Numbers(r, m)) PROVE InOrder(p, m)
    <2>1. ASSUME NEW i \in DataFrom(p, m), NEW j \in DataFrom(p, m), i < j PROVE p[i].n < p[j].n
      <3>1. i \in Nat /\ j \in Nat
        BY <1>3
      <3>2. CASE i \in DataFrom(q, m) /\ p[i] = q[i] /\ i <= k /\ j \in DataFrom(q, m) /\ p[j] = q[j] /\ j <= k
        BY <1>10, <2>1, <3>2 DEF InOrder
      <3>3. CASE /\ i \in DataFrom(q, m) /\ p[i] = q[i]
                 /\ j - k \in DataFrom(r, m) /\ p[j] = r[j - k]
        <4>1. q[i].n \in Numbers(q, m) /\ r[j - k].n \in Numbers(r, m)
          BY <3>3 DEF Numbers
        <4> QED
          BY <1>10, <3>3, <4>1 DEF Ahead
      <3>4. CASE /\ i - k \in DataFrom(r, m) /\ p[i] = r[i - k] /\ i > k
                 /\ j - k \in DataFrom(r, m) /\ p[j] = r[j - k]
        <4>1. i - k < j - k
          BY <1>1, <2>1, <3>1
        <4> QED
          BY <1>10, <3>4, <4>1 DEF InOrder
      <3>5. ~ (i > k /\ j <= k)
        BY <1>1, <2>1, <3>1
      <3> QED
        BY <1>4, <3>2, <3>3, <3>4, <3>5
    <2> QED
      BY <2>1 DEF InOrder
  <1>11. Numbers(p, m) = Numbers(q, m) \cup Numbers(r, m)
    BY <1>7, <1>8, <1>9
  <1> QED
    BY <1>1, <1>10, <1>11 DEF p

(* What an open end has taken over is its mate's writes from 1 on.         *)
LEMMA TakenInOrder ==
    ASSUME TypeOK, NEW c \in Conn, Whole(c), Theirs(c, got[c]), Theirs(c, readCh[c]), Theirs(c, InReader(c))
    PROVE  /\ Len(Taken(c)) = Count(c) /\ Count(c) \in Nat
           /\ \A i \in DOMAIN Taken(c) : Taken(c)[i].from = Mate(c) /\ Taken(c)[i].n = i
  <1>1. PICK g, a, b : g = got[c] /\ a = readCh[c] /\ b = InReader(c)
    OBVIOUS
  <1>2. PICK x, y, z : x = Len(g) /\ y = Len(a) /\ z = Len(b)
    OBVIOUS
  <1>3. g \in Seq(Record) /\ a \in Seq(Record) /\ b \in Seq(Record)
    BY <1>1, ReaderHand DEF TypeOK
  <1>4. x \in Nat /\ y \in Nat /\ z \in Nat
    BY <1>2, <1>3
  <1>5. /\ \A i \in 1..x : g[i].n = i /\ g[i].from = Mate(c)
        /\ \A i \in 1..y : a[i].n = x + i /\ a[i].from = Mate(c)
        /\ \A i \in 1..z : b[i].n = x + y + i /\ b[i].from = Mate(c)
    BY <1>1, <1>2 DEF Whole, Theirs
  <1>6. PICK h : h = g \o a
    OBVIOUS
  <1>7. /\ h \in Seq(Record) /\ Len(h) = x + y
        /\ \A i \in 1..x : h[i] = g[i]
        /\ \A i \in 1..y : h[x + i] = a[i]
    BY <1>2, <1>3, <1>6, Joined
  <1>8. PICK t : t = h \o b
    OBVIOUS
  <1>9. /\ t \in Seq(Record) /\ Len(t) = x + y + z
        /\ \A i \in 1..(x + y) : t[i] = h[i]
        /\ \A i \in 1..z : t[x + y + i] = b[i]
    <2>1. /\ t \in Seq(Record) /\ Len(t) = Len(h) + Len(b)
          /\ \A i \in 1..Len(h) : t[i] = h[i]
          /\ \A i \in 1..Len(b) : t[Len(h) + i] = b[i]
      BY <1>3, <1>7, <1>8, Joined, SMTT(30)
    <2>2. Len(h) = x + y /\ Len(b) = z
      BY <1>2, <1>7
    <2> QED
      BY <2>1, <2>2, Zenon
  <1>10. \A i \in 1..(x + y) : h[i].n = i /\ h[i].from = Mate(c)
    <2>1. ASSUME NEW i \in 1..(x + y) PROVE h[i].n = i /\ h[i].from = Mate(c)
      <3>1. CASE i <= x
        <4>1. i \in 1..x
          BY <1>4, <3>1
        <4> QED
          BY <1>5, <1>7, <4>1
      <3>2. CASE i > x
        <4>1. i - x \in 1..y /\ x + (i - x) = i
          BY <1>4, <3>2
        <4> QED
          BY <1>5, <1>7, <4>1
      <3> QED
        BY <1>4, <3>1, <3>2
    <2> QED
      BY <2>1
  <1>11. \A i \in 1..(x + y + z) : t[i].n = i /\ t[i].from = Mate(c)
    <2>1. ASSUME NEW i \in 1..(x + y + z) PROVE t[i].n = i /\ t[i].from = Mate(c)
      <3>1. CASE i <= x + y
        <4>1. i \in 1..(x + y)
          BY <1>4, <3>1
        <4> QED
          BY <1>9, <1>10, <4>1
      <3>2. CASE i > x + y
        <4>1. i - (x + y) \in 1..z /\ x + y + (i - (x + y)) = i
          BY <1>4, <3>2
        <4> QED
          BY <1>5, <1>9, <4>1
      <3> QED
        BY <1>4, <3>1, <3>2
    <2> QED
      BY <2>1
  <1>12. Taken(c) = t
    BY <1>1, <1>6, <1>8 DEF Taken
  <1>13. Count(c) = x + y + z /\ x + y + z \in Nat
    <2>1. Count(c) = x + y + z
      BY <1>1, <1>2, Zenon DEF Count
    <2> QED
      BY <1>4, <2>1
  <1>14. DOMAIN t = 1..(x + y + z)
    BY <1>9
  <1> QED
    BY <1>9, <1>11, <1>12, <1>13, <1>14

(* What is under way to an end is in order.                                *)
LEMMA WayInOrder ==
    ASSUME TypeOK, NEW c \in Conn, Ordered(c)
    PROVE  /\ InOrder(Way(Peer(c.side)), Mate(c))
           /\ Numbers(IF up THEN Way(Peer(c.side)) ELSE wire[Peer(c.side)], Mate(c)) = Under(c)
  <1>1. PICK m, p, w, h, d, v : /\ m = Mate(c) /\ p = Peer(c.side) /\ w = wire[p] /\ h = InWriter(p)
                                /\ d = dat[p] /\ v = w \o h
    OBVIOUS
  <1>2. p \in Side /\ w \in Seq(Record) /\ h \in Seq(Record) /\ d \in Seq(Record)
    BY <1>1, Mates, Hand DEF TypeOK
  <1>3. /\ InOrder(w, m) /\ InOrder(d, m)
        /\ Ahead(Numbers(w, m), Numbers(h, m)) /\ Ahead(Numbers(w, m), Numbers(d, m))
        /\ Ahead(Numbers(h, m), Numbers(d, m))
    BY <1>1 DEF Ordered, Chain
  <1>4. InOrder(h, m)
    BY <1>1, <1>2, Hand, NumbersFew
  <1>5. v \in Seq(Record) /\ Numbers(v, m) = Numbers(w, m) \cup Numbers(h, m) /\ InOrder(v, m)
    BY <1>1, <1>2, <1>3, <1>4, NumbersJoined
  <1>6. Ahead(Numbers(v, m), Numbers(d, m))
    BY <1>3, <1>5 DEF Ahead
  <1>7. Numbers(v \o d, m) = Numbers(v, m) \cup Numbers(d, m) /\ InOrder(v \o d, m)
    BY <1>2, <1>3, <1>5, <1>6, NumbersJoined
  <1>8. Way(p) = v \o d
    BY <1>1 DEF Way
  <1>9. CASE up
    BY <1>1, <1>5, <1>7, <1>8, <1>9 DEF Under
  <1>10. CASE ~ up
    BY <1>1, <1>7, <1>8, <1>10 DEF Under
  <1> QED
    BY <1>9, <1>10

(* While an end is open it gets exactly what its mate writes, each write   *)
(* once and in order, and no byte is lost on the way through dataCh,       *)
(* writeLoop, the transport, readLoop and readCh, for any number of        *)
(* connections and writes and any capacity of the channels, when one side  *)
(* dials and the other accepts.                                            *)
THEOREM StreamConservedHolds ==
    ASSUME OneDialler
    PROVE  Spec => []StreamConserved
  <1>1. TypeOK /\ TableInv /\ DataInv => StreamConserved
    <2> SUFFICES ASSUME TypeOK, TableInv, DataInv, NEW c \in Conn, Open(c)
                 PROVE  LET m == Mate(c)
                            s == Peer(c.side)
                            t == Len(Taken(c))
                        IN  /\ \A i \in DOMAIN Taken(c) : Taken(c)[i].from = m /\ Taken(c)[i].n = i
                            /\ InOrder(Way(s), m)
                            /\ \E last \in t..sent[m] :
                                  /\ Numbers(IF up THEN Way(s) ELSE wire[s], m) = (t + 1)..last
                                  /\ up /\ ~Stopped(s) => last = Enqueued(m)
      BY DEF StreamConserved
    <2>1. c \notin closed /\ c \notin eof /\ (c \in held \/ conns[c.side][c.id] = c)
      BY DEF Open
    <2>2. /\ Usable(c) /\ Ordered(c) /\ Whole(c) /\ (Fed(c) => Complete(c))
          /\ Theirs(c, got[c]) /\ Theirs(c, readCh[c]) /\ Theirs(c, InReader(c))
      BY <2>1 DEF DataInv
    <2>3. Fed(c)
      BY <2>1, <2>2 DEF Usable, InUse, Fed
    <2>4. PICK last \in Count(c)..sent[Mate(c)] :
              /\ Under(c) = (Count(c) + 1)..last
              /\ up => \/ last = Enqueued(Mate(c))
                       \/ Stopped(Peer(c.side)) /\ call["data"][Mate(c)] = "over"
      BY <2>2, <2>3 DEF Complete
    <2>5. /\ Len(Taken(c)) = Count(c)
          /\ \A i \in DOMAIN Taken(c) : Taken(c)[i].from = Mate(c) /\ Taken(c)[i].n = i
      BY <2>2, TakenInOrder
    <2>6. /\ InOrder(Way(Peer(c.side)), Mate(c))
          /\ Numbers(IF up THEN Way(Peer(c.side)) ELSE wire[Peer(c.side)], Mate(c)) = Under(c)
      BY <2>2, WayInOrder
    <2> QED
      BY <2>4, <2>5, <2>6
  <1> QED
    BY <1>1, StreamInvariant, PTL

(* No byte of another connection is ever read, not even after an end was   *)
(* closed or the sessions stopped, when one side dials.                    *)
THEOREM OwnMateOnlyHolds ==
    ASSUME OneDialler
    PROVE  Spec => []OwnMateOnly
  <1>1. DataInv => OwnMateOnly
    BY DEF DataInv, Theirs, OwnMateOnly
  <1> QED
    BY <1>1, StreamInvariant, PTL

-----------------------------------------------------------------------------
(* The refinement.  What Read has returned, as the abstract stream has it. *)
Seen(c) == [i \in 1..Len(got[c]) |-> IF got[c][i].from = Mate(c) THEN got[c][i].n ELSE 0]
LEMMA SeenFacts ==
    ASSUME TypeOK, NEW c \in Conn, Theirs(c, got[c])
    PROVE  /\ Stream_!Last(Seen(c)) = Low(c)
           /\ \A r \in Record : r.from = Mate(c) /\ got'[c] = Append(got[c], r) =>
                  Seen(c)' = Append(Seen(c), r.n)
  <1>1. PICK g, n : g = got[c] /\ n = Len(g)
    OBVIOUS
  <1>2. g \in Seq(Record) /\ n \in Nat
    BY <1>1 DEF TypeOK
  <1>3. \A i \in 1..n : g[i].from = Mate(c) /\ g[i].n \in Nat
    <2>1. \A i \in 1..n : g[i] \in Record
      BY <1>1, <1>2
    <2> QED
      BY <1>1, <2>1, BoundsAssumption, ConnFacts DEF Theirs
  <1>4. PICK t : t = [i \in 1..n |-> g[i].n]
    OBVIOUS
  <1>5. Seen(c) = t
    BY <1>1, <1>3, <1>4 DEF Seen
  <1>6. t \in Seq(Nat) /\ Len(t) = n /\ \A i \in 1..n : t[i] = g[i].n
    BY <1>2, <1>3, <1>4
  <1>7. Stream_!Last(t) = Low(c)
    <2>0. (Len(t) = 0 <=> t = <<>>) /\ (n = 0 <=> g = <<>>)
      BY <1>1, <1>2, <1>6
    <2>1. CASE n = 0
      <3>1. t = <<>> /\ g = <<>>
        BY <1>2, <1>6, <2>0, <2>1
      <3> QED
        BY <1>1, <3>1 DEF Stream_!Last, Low
    <2>2. CASE n # 0
      <3>1. t # <<>> /\ g # <<>> /\ t[n] = g[n].n
        BY <1>1, <1>2, <1>6, <2>0, <2>2
      <3> QED
        BY <1>1, <1>6, <3>1 DEF Stream_!Last, Low
    <2> QED
      BY <2>1, <2>2
  <1>8. ASSUME NEW r \in Record, r.from = Mate(c), got'[c] = Append(got[c], r)
        PROVE  Seen(c)' = Append(Seen(c), r.n)
    <2>1. PICK y : y = Append(g, r)
      OBVIOUS
    <2>2. /\ Len(y) = n + 1 /\ y[n + 1] = r
          /\ \A i \in 1..n : y[i] = g[i]
      BY <1>1, <1>2, <2>1, Appended
    <2>3. Seen(c)' = [i \in 1..(n + 1) |-> IF y[i].from = Mate(c) THEN y[i].n ELSE 0]
      BY <1>1, <1>8, <2>1, <2>2 DEF Seen
    <2>4. \A i \in 1..(n + 1) : (i \in 1..n /\ y[i] = g[i]) \/ (i = n + 1 /\ y[i] = r)
      BY <1>2, <2>2
    <2>5. \A i \in 1..(n + 1) : (IF y[i].from = Mate(c) THEN y[i].n ELSE 0) = IF i = n + 1 THEN r.n ELSE t[i]
      BY <1>2, <1>3, <1>6, <1>8, <2>4
    <2>6. Append(t, r.n) = [i \in 1..(n + 1) |-> IF i = n + 1 THEN r.n ELSE t[i]]
      BY <1>2, <1>6
    <2> QED
      BY <1>5, <2>3, <2>5, <2>6
  <1> QED
    BY <1>5, <1>7, <1>8
(* Which ends are shut, and who hung up before.                            *)
LEMMA Shutting ==
    ASSUME TypeOK, Owned, [Next]_vars, \A d \in Conn : Hanging(d)
    PROVE  \/ closed' = closed
           \/ \E c \in Conn : closed' = closed \cup {c} /\ (HungUp(c) \/ HungUp(Mate(c)))'
  <1>1. ASSUME NEW c \in Conn, CloseBegin(c) PROVE closed' = closed \cup {c} /\ HungUp(c)'
    <2>1. closed' = closed \cup {c} /\ SetCall("close", c, "new")
      BY <1>1 DEF CloseBegin, Shut
    <2>2. call'["close"][c] = "new"
      BY <2>1, CallSet DEF Kind
    <2> QED
      BY <2>1, <2>2 DEF HungUp
  <1>2. ASSUME NEW s \in Side, CloseRecord(s), closed' # closed
        PROVE  \E c \in Conn : closed' = closed \cup {c} /\ HungUp(Mate(c))'
    <2>1. reader[s].pc = "close" /\ Shut(reader[s].c)
      BY <1>2 DEF CloseRecord
    <2>2. PICK c \in Conn : c = reader[s].c
      BY <2>1, ReaderFacts DEF TypeOK
    <2>3. c.side = s
      BY <2>1, <2>2 DEF Owned
    <2>4. HungUp(Mate(c))
      BY <2>1, <2>2, <2>3 DEF Hanging, At
    <2>5. Mate(c) \in Conn
      BY Mates
    <2>6. HungUp(Mate(c))'
      BY <2>4, <2>5, NextOver
    <2> QED
      BY <2>1, <2>2, <2>6 DEF Shut
  <1>3. ASSUME NEW s \in Side, SweepClose(s), closed' # closed
        PROVE  \E c \in Conn : closed' = closed \cup {c} /\ HungUp(c)'
    <2>1. sweep[s].pc = "close" /\ Shut(sweep[s].c)
      BY <1>3 DEF SweepClose
    <2>2. sweep[s] \in SweepState
      BY DEF TypeOK
    <2>3. PICK c \in Conn : c = sweep[s].c
      BY <2>1, <2>2 DEF SweepState
    <2>4. c.side = s /\ Stopped(s)
      BY <2>1, <2>3 DEF Owned
    <2>5. HungUp(c)
      BY <2>4 DEF HungUp
    <2> QED
      BY <2>1, <2>3, <2>5, NextOver DEF Shut
  <1> QED
    BY <1>1, <1>2, <1>3, Frames DEF Frame

(* Reading and writing is no hanging up.                                   *)
LEMMA Quietly ==
    ASSUME TypeOK, NEW c \in Conn, ReadData(c) \/ ReadClosed(c) \/ WriteBegin(c), NEW d \in Conn
    PROVE  closed' = closed /\ (HungUp(d)' <=> HungUp(d))
  <1>1. CASE ReadData(c) \/ ReadClosed(c)
    <2>1. UNCHANGED <<closed, call, stopOnce>>
      BY <1>1 DEF ReadData, ReadClosed, ends, queue, system, stop
    <2> QED
      BY <2>1 DEF HungUp, Stopped
  <1>2. CASE WriteBegin(c)
    <2>1. UNCHANGED <<closed, stopOnce>> /\ SetCall("data", c, "send")
      BY <1>2 DEF WriteBegin, ends, system, stop
    <2>2. call'["close"][d] = call["close"][d] /\ call'["reject"][d] = call["reject"][d]
      BY <2>1, CallSet DEF Kind
    <2> QED
      BY <2>1, <2>2 DEF HungUp, Stopped
  <1> QED
    BY <1>1, <1>2

(* The record a read takes is the next one of the mate's writes that are   *)
(* left.                                                                   *)
LEMMA NextRead ==
    ASSUME TypeOK, DataInv, [Next]_vars, NEW c \in Conn, ReadData(c), NEW r, r = Head(readCh[c])
    PROVE  /\ r \in Record /\ r.from = Mate(c)
           /\ r.n \in (Low(c) + 1)..sent[Mate(c)]
           /\ r.n = Low(c) + 1 \/ (HungUp(c) /\ c \in closed)
  <1>1. PICK g, q, l, m : g = got[c] /\ q = readCh[c] /\ l = Low(c) /\ m = Mate(c)
    OBVIOUS
  <1>2. /\ q # <<>> /\ c \notin eof /\ g \in Seq(Record) /\ q \in Seq(Record) /\ m \in Conn
    BY <1>1, Mates DEF ReadData, TypeOK
  <1>3. /\ r \in Record /\ r = q[1] /\ 1 \in 1..Len(q)
    BY <1>1, <1>2, Rest
  <1>4. r.kind = "data" /\ r.from = m /\ r.n \in 1..Enqueued(m)
    BY <1>1, <1>3 DEF DataInv, Theirs
  <1>5. l \in Nat /\ Enqueued(m) \in Nat /\ Enqueued(m) <= sent[m] /\ sent[m] \in Nat
    BY <1>1, <1>2, Lows DEF DataInv
  <1>6. l < r.n
    <2>1. Ordered(c)
      BY DEF DataInv
    <2>2. Ahead({l}, Numbers(q, m))
      BY <1>1, <2>1 DEF Ordered, Chain
    <2>3. 1 \in DataFrom(q, m)
      BY <1>2, <1>3, <1>4 DEF DataFrom
    <2>4. r.n \in Numbers(q, m)
      BY <1>3, <2>3 DEF Numbers
    <2> QED
      BY <2>2, <2>4 DEF Ahead
  <1>7. ASSUME c \in closed => ~ HungUp(c) PROVE r.n = l + 1
    <2>1. Whole(c)
      BY <1>2, <1>7 DEF DataInv
    <2>2. (\A i \in 1..Len(g) : g[i].n = i) /\ r.n = Len(g) + 1
      BY <1>1, <1>3, <2>1 DEF Whole
    <2>3. Len(g) \in Nat /\ (g # <<>> => Len(g) \in 1..Len(g)) /\ (g = <<>> => Len(g) = 0)
      BY <1>2
    <2>4. l = Len(g)
      BY <1>1, <2>2, <2>3 DEF Low
    <2> QED
      BY <2>2, <2>4
  <1>8. r.n \in (l + 1)..sent[m]
    BY <1>4, <1>5, <1>6
  <1> QED
    BY <1>1, <1>3, <1>4, <1>7, <1>8

-----------------------------------------------------------------------------
(* The refinement: how the variables of VirtualStream read ...             *)
StreamGot == [c \in Conn |-> Seen(c)]
StreamHungUp == {c \in Conn : HungUp(c)}

(* ... and that each step is one of its steps.                             *)
LEMMA InitImplements == Init => Stream_!Init
  <1> SUFFICES ASSUME Init PROVE Stream_!Init
    OBVIOUS
  <1>1. \A c \in Conn : got[c] = <<>> /\ Len(got[c]) = 0
    BY DEF Init
  <1>2. StreamGot = [c \in Conn |-> <<>>]
    <2>1. \A c \in Conn : Seen(c) = <<>>
      BY <1>1 DEF Seen
    <2> QED
      BY <2>1 DEF StreamGot
  <1>3. StreamHungUp = {}
    BY ConnFacts DEF StreamHungUp, HungUp, Stopped, Init, Kind
  <1>4. sent = [c \in Conn |-> 0] /\ closed = {} /\ eof = {}
    BY DEF Init
  <1> QED
    BY <1>2, <1>3, <1>4 DEF Stream_!Init, StreamGot, StreamHungUp, Seen

LEMMA WriteImplements ==
    ASSUME TypeOK, NEW c \in Conn, WriteBegin(c)
    PROVE  Stream_!Write(c)
  <1>1. /\ c \notin closed /\ sent' = [sent EXCEPT ![c] = @ + 1]
        /\ UNCHANGED <<got, closed, eof>>
    BY DEF WriteBegin, ends
  <1>2. StreamHungUp' = StreamHungUp
    BY Quietly DEF StreamHungUp
  <1>3. StreamGot' = StreamGot
    BY <1>1 DEF StreamGot, Seen
  <1> QED
    BY <1>1, <1>2, <1>3 DEF Stream_!Write, StreamGot, StreamHungUp, Seen

LEMMA ReadImplements ==
    ASSUME TypeOK, DataInv, [Next]_vars, NEW c \in Conn, ReadData(c) \/ ReadClosed(c)
    PROVE  Stream_!Read(c) \/ Stream_!ReadEof(c)
  <1>1. StreamHungUp' = StreamHungUp /\ closed' = closed
    BY Quietly DEF StreamHungUp
  <1>2. CASE ReadClosed(c)
    <2>1. c \in closed /\ eof' = eof \cup {c} /\ UNCHANGED <<sent, got>>
      BY <1>2 DEF ReadClosed
    <2>2. StreamGot' = StreamGot
      BY <2>1 DEF StreamGot, Seen
    <2> QED
      BY <1>1, <2>1, <2>2 DEF Stream_!ReadEof, StreamGot, StreamHungUp, Seen
  <1>3. CASE ReadData(c)
    <2>1. PICK r : r = Head(readCh[c])
      OBVIOUS
    <2>2. /\ r \in Record /\ r.from = Mate(c)
          /\ r.n \in (Low(c) + 1)..sent[Mate(c)]
          /\ r.n = Low(c) + 1 \/ (HungUp(c) /\ c \in closed)
      BY <1>3, <2>1, NextRead
    <2>3. Theirs(c, got[c]) /\ Writing1(Mate(c))
      BY Mates DEF DataInv
    <2>4. /\ Stream_!Last(Seen(c)) = Low(c)
          /\ got'[c] = Append(got[c], r) => Seen(c)' = Append(Seen(c), r.n)
      BY <2>2, <2>3, SeenFacts
    <2>5. Low(c) \in Nat /\ sent[Mate(c)] \in Nat
      BY <2>3, Lows
    <2>6. sent' = sent /\ c \notin eof
      BY <1>3 DEF ReadData
    <2>7. StreamGot[c] = Seen(c)
      BY DEF StreamGot
    <2>8. CASE r.n \in EmptyWrites
      <3>1. eof' = eof \cup {c} /\ got' = got
        BY <1>3, <2>1, <2>8 DEF ReadData
      <3>2. StreamGot' = StreamGot
        BY <3>1 DEF StreamGot, Seen
      <3>3. c \in closed \/ Stream_!Last(StreamGot[c]) + 1 \in EmptyWrites \cap (1..sent[Mate(c)])
        BY <2>2, <2>4, <2>5, <2>7, <2>8
      <3> QED
        BY <1>1, <2>6, <3>1, <3>2, <3>3 DEF Stream_!ReadEof, StreamGot, StreamHungUp, Seen
    <2>9. CASE r.n \notin EmptyWrites
      <3>1. eof' = eof /\ got' = [got EXCEPT ![c] = Append(@, r)]
        BY <1>3, <2>1, <2>9 DEF ReadData
      <3>2. got \in [Conn -> Seq(Record)]
        BY DEF TypeOK
      <3>3. got'[c] = Append(got[c], r) /\ \A d \in Conn : d # c => got'[d] = got[d]
        BY <3>1, <3>2
      <3>4. Seen(c)' = Append(Seen(c), r.n) /\ \A d \in Conn : d # c => Seen(d)' = Seen(d)
        BY <2>4, <3>3 DEF Seen
      <3>5. StreamGot' = [StreamGot EXCEPT ![c] = Append(@, r.n)]
        BY <3>4 DEF StreamGot
      <3>6. r.n \in (Stream_!Last(StreamGot[c]) + 1 .. sent[Mate(c)]) \ EmptyWrites
        BY <2>2, <2>4, <2>7, <2>9
      <3>7. r.n = Stream_!Last(StreamGot[c]) + 1 \/ c \in StreamHungUp
        BY <2>2, <2>4, <2>7 DEF StreamHungUp
      <3> QED
        BY <1>1, <2>6, <3>1, <3>5, <3>6, <3>7 DEF Stream_!Read, StreamGot, StreamHungUp, Seen
    <2> QED
      BY <2>8, <2>9
  <1> QED
    BY <1>2, <1>3

LEMMA StepImplements ==
    ASSUME TypeOK, DataInv, [Next]_vars
    PROVE  Stream_!Next
  <1>1. CASE \E c \in Conn : WriteBegin(c)
    BY <1>1, WriteImplements DEF Stream_!Next
  <1>2. CASE \E c \in Conn : ReadData(c) \/ ReadClosed(c)
    BY <1>2, ReadImplements DEF Stream_!Next
  <1>3. CASE UNCHANGED <<sent, got, eof>>
    <2>1. StreamHungUp' \in SUBSET Conn /\ StreamHungUp \subseteq StreamHungUp'
      BY NextOver DEF StreamHungUp
    <2>2. \/ closed' = closed
          \/ \E c \in Conn : closed' = closed \cup {c} /\ (HungUp(c) \/ HungUp(Mate(c)))'
      BY Shutting DEF DataInv
    <2>3. \/ closed' = closed
          \/ \E c \in Conn : closed' = closed \cup {c} /\ {c, Mate(c)} \cap StreamHungUp' # {}
      BY <2>2, Mates DEF StreamHungUp
    <2>4. StreamGot' = StreamGot
      BY <1>3 DEF StreamGot, Seen
    <2>5. Stream_!HangUp
      BY <1>3, <2>1, <2>3, <2>4 DEF Stream_!HangUp, StreamGot, StreamHungUp, Seen
    <2> QED
      BY <2>5 DEF Stream_!Next
  <1> QED
    BY <1>1, <1>2, <1>3, Frames DEF Frame

(* Read, Write and Close of tunnelConn implement VirtualStream: what is    *)
(* read at an end is what was written at its mate, in order, nothing twice *)
(* and nothing skipped before its own side hangs up, an end is shut only   *)
(* after one of the two hung up, and no EOF comes from nowhere.            *)
THEOREM ImplementsStreamHolds ==
    ASSUME OneDialler
    PROVE  Spec => ImplementsStream
  <1>1. TypeOK /\ DataInv /\ [Next]_vars => [Stream_!Next]_(Stream_!vars)
    BY StepImplements
  <1> QED
    BY <1>1, InitImplements, StreamInvariant, PTL DEF Spec, ImplementsStream, Stream_!Spec

=============================================================================
