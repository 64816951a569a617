-------------------------- MODULE TunnelProperties --------------------------
(***************************************************************************)
(* What makes TunnelSession correct, and the specifications with the       *)
(* fairness the Go scheduler and the callers of the package provide.       *)
(***************************************************************************)
EXTENDS TunnelSession

(* What an end has taken over from its mate: what Read returned, readCh,   *)
(* and the record in deliverData; and what may still come: the transport,  *)
(* writeLoop and dataCh of the other side, in this order.                  *)
InReader(c) == IF reader[c.side].pc = "deliver" /\ reader[c.side].c = c
               THEN <<reader[c.side].rec>> ELSE <<>>
InWriter(s) == IF writer[s].req = None THEN <<>> ELSE <<writer[s].req>>
Taken(c) == got[c] \o readCh[c] \o InReader(c)
Way(s) == wire[s] \o InWriter(s) \o dat[s]

(* The writes of an end m among the records of a queue.                    *)
DataFrom(q, m) == {i \in DOMAIN q : q[i].kind = "data" /\ q[i].from = m}
Numbers(q, m) == {q[i].n : i \in DataFrom(q, m)}
InOrder(q, m) == \A i, j \in DataFrom(q, m) : i < j => q[i].n < q[j].n

(* The writes of m that have been queued.                                  *)
Enqueued(m) == IF call["data"][m] = "send" THEN sent[m] - 1 ELSE sent[m]
Open(c) == c \notin closed \cup eof /\ (c \in held \/ conns[c.side][c.id] = c)

(* While an end is open nothing its mate wrote is lost, duplicated or      *)
(* reordered, and nothing else is delivered to it: it has taken over write *)
(* 1, 2, 3, ... of its mate, and the next ones are under way in order, up  *)
(* to the last one enqueued as long as the mate's session and the          *)
(* transport run (handleData, deliverData, writeLoop, Read).  When the     *)
(* transport has failed, this holds for what it had taken over by then.    *)
StreamConserved ==
    \A c \in Conn : Open(c) =>
        LET m == Mate(c)
            s == Peer(c.side)
            t == Len(Taken(c))
        IN  /\ \A i \in DOMAIN Taken(c) : Taken(c)[i].from = m /\ Taken(c)[i].n = i
            /\ InOrder(Way(s), m)
            /\ \E last \in t..sent[m] :
                  /\ Numbers(IF up THEN Way(s) ELSE wire[s], m) = (t + 1)..last
                  /\ up /\ ~Stopped(s) => last = Enqueued(m)

(* Control records are not starved: at most one data record is written     *)
(* while a control record waits in controlCh (the two selects of           *)
(* writeLoop).                                                             *)
ControlPriority == \A s \in Side : bypass[s] <= 1

(* Why: controlCh holds no data, the first select writes only what it took *)
(* from there, and after a data record went ahead of a control record the  *)
(* writeLoop is back at the first select with that record still waiting.   *)
PriorityInv ==
    \A s \in Side :
        /\ \A i \in 1..Len(ctl[s]) : ctl[s][i].kind # "data"
        /\ writer[s].pc = "topWrite" => writer[s].req.kind # "data"
        /\ bypass[s] <= 1
        /\ bypass[s] = 1 => \/ writer[s].pc = "exit"
                            \/ writer[s].pc = "top" /\ ctl[s] # <<>>

(* A connection whose close ran to its end is no longer registered, on any *)
(* path (Close, MsgClose, closeAll), and once Session.closeAll has ended   *)
(* none is that was registered when it began, whatever was stored, closed  *)
(* or deleted while it ranged: Session.conns does not leak.                *)
NoLeak ==
    \A s \in Side, i \in Id :
        LET c == conns[s][i]
        IN  c # None => /\ once[c] # "done" /\ c.side = s /\ c.id = i
                        /\ stopOnce[s] = "done" => c \notin sweep[s].todo

(* What Read returns comes from the mate of the end it was read at.        *)
OwnMateOnly ==
    \A c \in Conn : \A i \in 1..Len(got[c]) : got[c][i].from = Mate(c)

(* An end that only its mate closed has read everything the mate wrote     *)
(* before it reports EOF, as a TCP connection does.                        *)
EofAfterData ==
    \A c \in eof :
        (call["close"][c] = "idle" /\ up /\ \A s \in Side : ~Stopped(s))
            => Len(got[c]) = sent[Mate(c)]

(* The two sessions never wait for each other: both readLoops in a call    *)
(* that waits for their own writeLoop (sendClose of handleOpen, or         *)
(* once.Do while tunnelConn.Close is inside sendClose), and both           *)
(* writeLoops waiting for the other readLoop to drain the transport.       *)
WriterBlocked(s) == writer[s].pc \in Writing /\ Len(wire[s]) = WireCap
ReaderNeedsWriter(s) ==
    LET k == IF reader[s].pc = "reject" THEN "reject" ELSE "close"
    IN  /\ \/ reader[s].pc = "reject"
           \/ reader[s].pc = "close" /\ once[reader[s].c] = "busy"
        /\ call[k][reader[s].c] \in {"send", "wait"}
NoCircularWait == ~ \A s \in Side : ReaderNeedsWriter(s) /\ WriterBlocked(s)

-----------------------------------------------------------------------------
(* The detailed specification implements the abstract one: Read and Write  *)
(* of tunnelConn behave as one stream per direction, and an end is shut    *)
(* only after its own or its mate's side closed it, refused it (handleOpen *)
(* with a full connCh) or stopped, so that no EOF comes from nowhere.      *)
HungUp(c) == \/ call["close"][c] # "idle" \/ call["reject"][c] # "idle"
             \/ Stopped(c.side)
Stream_ == INSTANCE VirtualStream WITH
    End <- Conn,
    Mate <- Mate,
    Empty <- EmptyWrites,
    got <- [c \in Conn |-> [i \in 1..Len(got[c]) |->
                IF got[c][i].from = Mate(c) THEN got[c][i].n ELSE 0]],
    hungUp <- {c \in Conn : HungUp(c)},
    shut <- closed
ImplementsStream == Stream_!Spec

-----------------------------------------------------------------------------
(* Fairness.  Every goroutine that can take a step eventually does: the Go *)
(* scheduler is weakly fair.  Calling Dial, Write, Close or Session.Close  *)
(* is the application's choice and is not.                                 *)
GoFairness ==
    /\ \A s \in Side : /\ WF_vars(Writer(s)) /\ WF_vars(Reader(s))
                       /\ WF_vars(Stopping(s))
    /\ \A c \in Conn : WF_vars(AppCall(c))

(* The callers in wormhole/tunnel/tunnel.go: Serve accepts in a loop and   *)
(* Proxy reads each connection until EOF.                                  *)
AppFairness ==
    /\ \A s \in Side : WF_vars(Serving(s))
    /\ \A c \in Conn : WF_vars(AppRead(c))

(* The weakest of it: while goroutines can take a step, one of them does.  *)
Progress == WF_vars(\/ \E c \in Conn : AppCall(c) \/ AppRead(c)
                    \/ \E s \in Side : Writer(s) \/ Reader(s) \/ Stopping(s) \/ Serving(s))

ProgressSpec == Spec /\ Progress
FairSpec == Spec /\ GoFairness
FairAppSpec == FairSpec /\ AppFairness

(* Every Dial, Write and Close that was begun returns (of the bounded      *)
(* number of calls none is pending for ever).                              *)
Pending == {"new", "send", "wait", "ok", "fail"}
CallsReturn == []<>(\A k \in Kind, c \in Conn : call[k][c] \notin Pending)

(* Closing an end is noticed at the other one: its reader gets EOF.        *)
CloseReachesMate ==
    []<>(\A c \in held : call["close"][Mate(c)] # "idle" => c \in eof)

(* deliverData waits for room in the readCh of an end nobody reads: it was *)
(* never accepted, has reported EOF, or its application does not read.     *)
Undelivered(s) ==
    LET c == reader[s].c
    IN  /\ reader[s].pc = "deliver" /\ Len(readCh[c]) = ReadCap /\ c \notin closed
        /\ c \notin held \ eof \/ s \notin Readers

(* A failed transport stops both sessions, because readLoop runs closeAll. *)
(* It does not where readLoop never comes back to ReadRecord: it waits for *)
(* a writeLoop that is inside Wormhole.Write over the dead transport (in   *)
(* once.Do behind a Close, or in the sendClose of handleOpen), or for a    *)
(* reader.                                                                 *)
FailureStopsSessions ==
    []<>(\/ up
         \/ \A s \in Side :
                \/ stopOnce[s] = "done"
                \/ ReaderNeedsWriter(s) /\ WriterBlocked(s)
                \/ Undelivered(s))

(* Wormhole.Close waits for a send buffer nobody drains any more.          *)
CloseWaits(s) == sclose[s] = "rwClose" /\ s \notin CtxSides /\ Len(wire[s]) > PeerWindow

(* An end that handleOpen stored when closeAll had begun and did not meet: *)
(* neither it nor a later call closes that end, and Accept has ended.      *)
LateEntry(s) == reader[s].c \notin sweep[s].todo /\ reader[s].c.role = "accept"

(* Session.Close returns.  It does not where the send buffer is full and   *)
(* nobody drains it any more, in rw.Close or because the writeLoop that    *)
(* wg.Wait waits for is inside Wormhole.Write, nor where readLoop is in    *)
(* deliverData for an end that came too late for closeAll.                 *)
SessionCloseReturns ==
    []<>(\A s \in Side :
            \/ sclose[s] \in {"idle", "done"}
            \/ CloseWaits(s)
            \/ sclose[s] = "wait" /\ WriterBlocked(s)
            \/ sclose[s] = "wait" /\ Undelivered(s) /\ LateEntry(s))
=============================================================================
