------------------------ MODULE TunnelSession_proofs ------------------------
(***************************************************************************)
(* Theorems about TunnelSession for every value of its constants.          *)
(***************************************************************************)
EXTENDS TunnelProperties, TLAPS

(* The ends, records and peers that actions build have their types.        *)
LEMMA ConnFacts ==
    /\ \A c \in Conn : c.side \in Side /\ c.id \in Id
    /\ \A s \in Side, i \in Id : DialEnd(s, i) \in Conn /\ AcceptEnd(s, i) \in Conn
    /\ \A s \in Side : Peer(s) \in Side
    /\ \A r \in Record : r.kind \in Kind /\ r.from \in Conn /\ r.n \in 0..MaxWrite
    /\ None \notin Conn /\ None \notin Record
  BY NoneAssumption DEF Side, Conn, Record, DialEnd, AcceptEnd, Peer

(* What Append, Head and Tail do to the type of a queue.                   *)
LEMMA RecordQueues ==
    \A q \in Seq(Record) :
        /\ \A r \in Record : Append(q, r) \in Seq(Record)
        /\ q # <<>> => Head(q) \in Record /\ Tail(q) \in Seq(Record)
  OBVIOUS

(* The same for the accept queue of a listener.                            *)
LEMMA ConnQueues ==
    \A q \in Seq(Conn) :
        /\ \A c \in Conn : Append(q, c) \in Seq(Conn)
        /\ q # <<>> => Head(q) \in Conn /\ Tail(q) \in Seq(Conn)
  OBVIOUS

(* The positions of the goroutines and the operands they have there.       *)
LEMMA WriterFacts ==
    /\ \A p \in {"top", "sel", "exit"} : [pc |-> p, req |-> None] \in WriterState
    /\ \A p \in Writing, r \in Record : [pc |-> p, req |-> r] \in WriterState
    /\ \A w \in WriterState : w.pc \in Writing => w.req \in Record
  BY DEF WriterState, Writing

(* readLoop has the end, and the record, its handler works on.             *)
LEMMA ReaderFacts ==
    /\ \A p \in {"read", "stop", "exit"} : ReaderAt(p, None, None) \in ReaderState
    /\ \A p \in {"opened", "reject", "close", "delete"}, c \in Conn :
           ReaderAt(p, c, None) \in ReaderState
    /\ \A c \in Conn, r \in Record : ReaderAt("deliver", c, r) \in ReaderState
    /\ \A x \in ReaderState :
           /\ x.pc \in {"opened", "reject", "close", "delete", "deliver"} => x.c \in Conn
           /\ x.pc = "deliver" => x.rec \in Record
  BY DEF ReaderState, ReaderAt

(* closeAll works on an end exactly while it closes or deletes it.         *)
LEMMA SweepFacts ==
    /\ \A t \in SUBSET Conn, i \in SUBSET Id :
           /\ [todo |-> t, seen |-> i, c |-> None, pc |-> "range"] \in SweepState
           /\ \A p \in {"close", "delete"}, c \in Conn :
                  [todo |-> t, seen |-> i, c |-> c, pc |-> p] \in SweepState
    /\ \A x \in SweepState :
           /\ x.todo \in SUBSET Conn /\ x.seen \in SUBSET Id
           /\ x.pc \in {"close", "delete"} => x.c \in Conn
  BY DEF SweepState

(* Updates of the two-level functions.                                     *)
LEMMA CallUpdate ==
    ASSUME call \in [Kind -> [Conn -> CallState]],
           NEW k \in Kind, NEW c \in Conn, NEW v \in CallState
    PROVE  [call EXCEPT ![k][c] = v] \in [Kind -> [Conn -> CallState]]
  OBVIOUS

(* Store and Delete keep the type of Session.conns.                        *)
LEMMA TableUpdate ==
    ASSUME conns \in [Side -> [Id -> Conn \cup {None}]],
           NEW s \in Side, NEW i \in Id, NEW v \in Conn \cup {None}
    PROVE  [conns EXCEPT ![s][i] = v] \in [Side -> [Id -> Conn \cup {None}]]
  OBVIOUS

(* What the Range of closeAll finds are ends.                              *)
LEMMA RegisteredType ==
    ASSUME conns \in [Side -> [Id -> Conn \cup {None}]], NEW s \in Side
    PROVE  Registered(s) \in SUBSET Conn
  BY DEF Registered

(* The initial state has the types.                                        *)
LEMMA InitType == Init => TypeOK
  <1> SUFFICES ASSUME Init PROVE TypeOK
    OBVIOUS
  <1>1. writer \in [Side -> WriterState]
    BY WriterFacts DEF Init
  <1>2. reader \in [Side -> ReaderState]
    BY ReaderFacts DEF Init, ReaderAt
  <1>3. sweep \in [Side -> SweepState]
    BY SweepFacts DEF Init
  <1>4. call \in [Kind -> [Conn -> CallState]] /\ once \in [Conn -> OnceState]
    BY DEF Init, CallState, OnceState
  <1>5. /\ nextID \in [Side -> 0..MaxDial] /\ sent \in [Conn -> 0..MaxWrite]
        /\ conns \in [Side -> [Id -> Conn \cup {None}]]
    BY BoundsAssumption DEF Init
  <1>6. /\ readCh \in [Conn -> Seq(Record)] /\ got \in [Conn -> Seq(Record)]
        /\ ctl \in [Side -> Seq(Record)] /\ dat \in [Side -> Seq(Record)]
        /\ wire \in [Side -> Seq(Record)] /\ connCh \in [Side -> Seq(Conn)]
    BY DEF Init
  <1> QED
    BY <1>1, <1>2, <1>3, <1>4, <1>5, <1>6 DEF Init, TypeOK, OnceState

(* Every step keeps the types.                                             *)
LEMMA NextType == TypeOK /\ [Next]_vars => TypeOK'
  <1> SUFFICES ASSUME TypeOK, [Next]_vars PROVE TypeOK'
    OBVIOUS
  <1> USE DEF TypeOK
  <1>1. ASSUME NEW c \in Conn, DialStore(c) PROVE TypeOK'
    <2>1. conns' \in [Side -> [Id -> Conn \cup {None}]]
      BY <1>1, TableUpdate, ConnFacts DEF DialStore, Delete
    <2>2. call' \in [Kind -> [Conn -> CallState]]
      BY <1>1, CallUpdate DEF DialStore, SetCall, Kind, CallState
    <2> QED
      BY <1>1, <2>1, <2>2 DEF DialStore, table, ends, data, queue, out, link, listen,
         stop, streams, system
  <1>2. ASSUME NEW c \in Conn, DialReturn(c) PROVE TypeOK'
    <2>1. call' \in [Kind -> [Conn -> CallState]]
      BY <1>2, CallUpdate DEF DialReturn, SetCall, Kind, CallState
    <2>2. [conns EXCEPT ![c.side][c.id] = None] \in [Side -> [Id -> Conn \cup {None}]]
      BY <1>2, TableUpdate, ConnFacts DEF DialReturn
    <2>3. conns' \in [Side -> [Id -> Conn \cup {None}]]
      BY <1>2, <2>2 DEF DialReturn, Delete
    <2>4. held' \subseteq Conn
      BY <1>2 DEF DialReturn
    <2> QED
      BY <1>2, <2>1, <2>2, <2>3, <2>4 DEF DialReturn, table, ends, data, queue, out,
         link, listen, stop, streams, system
  <1>3. ASSUME NEW c \in Conn, WriteReturn(c) PROVE TypeOK'
    <2>1. call' \in [Kind -> [Conn -> CallState]]
      BY <1>3, CallUpdate DEF WriteReturn, SetCall, Kind, CallState
    <2> QED
      BY <1>3, <2>1 DEF WriteReturn, table, ends, data, queue, out, link, listen, stop,
         streams, system
  <1>4. ASSUME NEW c \in Conn, CloseDelete(c) PROVE TypeOK'
    <2>1. call' \in [Kind -> [Conn -> CallState]]
      BY <1>4, CallUpdate DEF CloseDelete, SetCall, Kind, CallState
    <2>2. conns' \in [Side -> [Id -> Conn \cup {None}]]
      BY <1>4, TableUpdate, ConnFacts DEF CloseDelete, Delete
    <2> QED
      BY <1>4, <2>1, <2>2 DEF CloseDelete, table, ends, data, queue, out, link, listen,
         stop, streams, system
  <1>5. ASSUME NEW c \in Conn, CloseReturn(c) PROVE TypeOK'
    <2>1. call' \in [Kind -> [Conn -> CallState]]
      BY <1>5, CallUpdate DEF CloseReturn, SetCall, Kind, CallState
    <2>2. once' \in [Conn -> OnceState]
      BY <1>5 DEF CloseReturn, OnceState
    <2> QED
      BY <1>5, <2>1, <2>2 DEF CloseReturn, table, ends, data, queue, out, link, listen,
         stop, streams, system
  <1>6. ASSUME NEW c \in Conn, ReadData(c) PROVE TypeOK'
    <2>1. readCh' \in [Conn -> Seq(Record)]
      BY <1>6, RecordQueues DEF ReadData
    <2>2. Append(got[c], Head(readCh[c])) \in Seq(Record)
      BY <1>6, RecordQueues DEF ReadData
    <2>3. got' \in [Conn -> Seq(Record)]
      BY <1>6, <2>2 DEF ReadData
    <2>4. eof' \subseteq Conn
      BY <1>6 DEF ReadData
    <2> QED
      BY <1>6, <2>1, <2>2, <2>3, <2>4 DEF ReadData, table, ends, data, queue, out, link,
         listen, stop, streams, system
  <1>7. ASSUME NEW c \in Conn, ReadClosed(c) PROVE TypeOK'
    <2>1. eof' \subseteq Conn
      BY <1>7 DEF ReadClosed
    <2> QED
      BY <1>7, <2>1 DEF ReadClosed, table, ends, data, queue, out, link, listen, stop,
         streams, system
  <1>8. ASSUME NEW c \in Conn, WriteBegin(c) PROVE TypeOK'
    <2>1. call' \in [Kind -> [Conn -> CallState]]
      BY <1>8, CallUpdate DEF WriteBegin, SetCall, Kind, CallState
    <2>2. sent' \in [Conn -> 0..MaxWrite]
      BY <1>8, BoundsAssumption DEF WriteBegin
    <2> QED
      BY <1>8, <2>1, <2>2 DEF WriteBegin, table, ends, data, queue, out, link, listen,
         stop, streams, system
  <1>9. ASSUME NEW c \in Conn, CloseBegin(c) PROVE TypeOK'
    <2>1. call' \in [Kind -> [Conn -> CallState]]
      BY <1>9, CallUpdate DEF CloseBegin, SetCall, Kind, CallState
    <2>2. once' \in [Conn -> OnceState]
      BY <1>9 DEF CloseBegin, Shut, OnceState
    <2>3. closed' \subseteq Conn
      BY <1>9 DEF CloseBegin, Shut
    <2> QED
      BY <1>9, <2>1, <2>2, <2>3 DEF CloseBegin, table, ends, data, queue, out, link,
         listen, stop, streams, system
  <1>10. ASSUME NEW c \in Conn, NEW k \in Kind, Enqueue(k, c) PROVE TypeOK'
    <2>1. [kind |-> k, from |-> c, n |-> IF k = "data" THEN sent[c] ELSE 0] \in Record
      BY <1>10, BoundsAssumption DEF Enqueue, Record
    <2>2. call' \in [Kind -> [Conn -> CallState]]
      BY <1>10, CallUpdate DEF Enqueue, SetCall, Kind, CallState
    <2>3. \A q \in {ctl[c.side], dat[c.side]} :
          Append(q, [kind |-> k, from |-> c, n |-> IF k = "data" THEN sent[c] ELSE 0])
              \in Seq(Record)
      BY <1>10, <2>1, RecordQueues, ConnFacts DEF Enqueue
    <2>4. ctl' \in [Side -> Seq(Record)]
      BY <1>10, <2>3 DEF Enqueue
    <2>5. dat' \in [Side -> Seq(Record)]
      BY <1>10, <2>3 DEF Enqueue
    <2> QED
      BY <1>10, <2>1, <2>2, <2>3, <2>4, <2>5 DEF Enqueue, table, ends, data, queue, out,
         link, listen, stop, streams, system
  <1>11. ASSUME NEW s \in Side, WriterTop(s) PROVE TypeOK'
    <2>1. writer' \in [Side -> WriterState]
      BY <1>11, WriterFacts, RecordQueues DEF WriterTop, TakeCtl, WriterGoto, Writing
    <2>2. \A q \in {ctl[s], dat[s]} : q # <<>> => Tail(q) \in Seq(Record)
      BY <1>11, RecordQueues DEF WriterTop
    <2>3. ctl' \in [Side -> Seq(Record)]
      BY <1>11, <2>2 DEF WriterTop, TakeCtl, WriterGoto
    <2>4. dat' \in [Side -> Seq(Record)]
      BY <1>11, <2>2 DEF WriterTop, TakeCtl, WriterGoto
    <2>5. bypass' \in [Side -> Nat]
      BY SMTT(20), <1>11 DEF WriterTop, TakeCtl, WriterGoto
    <2> QED
      BY <1>11, <2>1, <2>2, <2>3, <2>4, <2>5 DEF WriterTop, table, ends, data, queue,
         out, link, listen, stop, streams, system
  <1>12. ASSUME NEW s \in Side, WriterSelect(s) PROVE TypeOK'
    <2>1. writer' \in [Side -> WriterState]
      BY <1>12, WriterFacts, RecordQueues DEF WriterSelect, TakeCtl, WriterGoto, Writing
    <2>2. \A q \in {ctl[s], dat[s]} : q # <<>> => Tail(q) \in Seq(Record)
      BY <1>12, RecordQueues DEF WriterSelect
    <2>3. ctl' \in [Side -> Seq(Record)]
      BY <1>12, <2>2 DEF WriterSelect, TakeCtl, WriterGoto
    <2>4. dat' \in [Side -> Seq(Record)]
      BY <1>12, <2>2 DEF WriterSelect, TakeCtl, WriterGoto
    <2>5. bypass' \in [Side -> Nat]
      BY <1>12 DEF WriterSelect, TakeCtl, WriterGoto
    <2> QED
      BY <1>12, <2>1, <2>2, <2>3, <2>4, <2>5 DEF WriterSelect, table, ends, data, queue,
         out, link, listen, stop, streams, system
  <1>13. ASSUME NEW s \in Side, WriterWrite(s) PROVE TypeOK'
    <2>1. writer[s].req \in Record
      BY <1>13, WriterFacts DEF WriterWrite
    <2>2. wire' \in [Side -> Seq(Record)]
      BY <1>13, <2>1, RecordQueues DEF WriterWrite
    <2>3. call' \in [Kind -> [Conn -> CallState]]
      BY <1>13, <2>1, CallUpdate, ConnFacts DEF WriterWrite, CallState
    <2>4. writer' \in [Side -> WriterState]
      BY <1>13, WriterFacts DEF WriterWrite
    <2>5. bypass' \in [Side -> Nat]
      <3> DEFINE b == IF writer[s].req.kind = "data" /\ ctl[s] # <<>>
                      THEN bypass[s] + 1 ELSE bypass[s]
      <3>1. bypass[s] \in Nat
        OBVIOUS
      <3>2. b \in Nat
        BY <3>1
      <3>3. bypass' = [bypass EXCEPT ![s] = b]
        BY <1>13 DEF WriterWrite
      <3> HIDE DEF b
      <3> QED
        BY <3>2, <3>3
    <2> QED
      BY <1>13, <2>1, <2>2, <2>3, <2>4, <2>5 DEF WriterWrite, table, ends, data, queue,
         out, link, listen, stop, streams, system
  <1>14. ASSUME NEW s \in Side, Receive(s) PROVE TypeOK'
    <2>1. Peer(s) \in Side /\ Head(wire[Peer(s)]) \in Record
      BY <1>14, RecordQueues, ConnFacts DEF Receive
    <2>2. wire' \in [Side -> Seq(Record)]
      BY <1>14, <2>1, RecordQueues DEF Receive
    <2>3. /\ Head(wire[Peer(s)]).from.id \in Id
          /\ conns[s][Head(wire[Peer(s)]).from.id] \in Conn \cup {None}
          /\ AcceptEnd(s, Head(wire[Peer(s)]).from.id) \in Conn
      <3>1. Head(wire[Peer(s)]).from \in Conn
        BY <2>1, ConnFacts
      <3>2. Head(wire[Peer(s)]).from.id \in Id
        BY <3>1, ConnFacts
      <3>3. conns[s] \in [Id -> Conn \cup {None}]
        OBVIOUS
      <3>4. AcceptEnd(s, Head(wire[Peer(s)]).from.id) \in Conn
        BY <3>2, ConnFacts
      <3> QED
        BY <3>2, <3>3, <3>4
    <2>4. [conns EXCEPT ![s][Head(wire[Peer(s)]).from.id] =
              AcceptEnd(s, Head(wire[Peer(s)]).from.id)] \in [Side -> [Id -> Conn \cup {None}]]
      BY <1>14, <2>3, TableUpdate DEF Receive
    <2>5. conns' \in [Side -> [Id -> Conn \cup {None}]]
      BY <1>14, <2>4 DEF Receive
    <2>6. LET rec == Head(wire[Peer(s)])
              to == conns[s][rec.from.id]
          IN  /\ ReaderAt("opened", AcceptEnd(s, rec.from.id), None) \in ReaderState
              /\ to # None => /\ ReaderAt("deliver", to, rec) \in ReaderState
                              /\ ReaderAt("close", to, None) \in ReaderState
      BY <1>14, <2>1, <2>3, ReaderFacts DEF Receive
    <2>7. reader' \in [Side -> ReaderState]
      BY <1>14, <2>6 DEF Receive, ReaderGoto
    <2> QED
      BY <1>14, <2>1, <2>2, <2>3, <2>4, <2>5, <2>6, <2>7 DEF Receive, table, ends, data,
         queue, out, link, listen, stop, streams, system
  <1>15. ASSUME NEW s \in Side, OpenQueued(s) PROVE TypeOK'
    <2>1. connCh' \in [Side -> Seq(Conn)]
      BY <1>15, ConnQueues, ReaderFacts DEF OpenQueued
    <2>2. reader' \in [Side -> ReaderState]
      BY <1>15, ReaderFacts DEF OpenQueued, ReaderGoto, ReaderNext
    <2> QED
      BY <1>15, <2>1, <2>2 DEF OpenQueued, table, ends, data, queue, out, link, listen,
         stop, streams, system
  <1>16. ASSUME NEW s \in Side, OpenRejected(s) PROVE TypeOK'
    <2>1. reader[s].c \in Conn
      BY <1>16, ReaderFacts DEF OpenRejected
    <2>2. call' \in [Kind -> [Conn -> CallState]]
      BY <1>16, <2>1, CallUpdate DEF OpenRejected, SetCall, Kind, CallState
    <2>3. reader' \in [Side -> ReaderState]
      BY <1>16, <2>1, ReaderFacts DEF OpenRejected, ReaderGoto, ReaderNext
    <2> QED
      BY <1>16, <2>1, <2>2, <2>3 DEF OpenRejected, table, ends, data, queue, out, link,
         listen, stop, streams, system
  <1>17. ASSUME NEW s \in Side, RejectReturn(s) PROVE TypeOK'
    <2>1. reader[s].c \in Conn
      BY <1>17, ReaderFacts DEF RejectReturn
    <2>2. call' \in [Kind -> [Conn -> CallState]]
      BY <1>17, <2>1, CallUpdate DEF RejectReturn, SetCall, Kind, CallState
    <2>3. conns' \in [Side -> [Id -> Conn \cup {None}]]
      BY <1>17, <2>1, TableUpdate, ConnFacts DEF RejectReturn, Delete
    <2>4. reader' \in [Side -> ReaderState]
      BY <1>17, ReaderFacts DEF RejectReturn, ReaderGoto, ReaderNext
    <2> QED
      BY <1>17, <2>1, <2>2, <2>3, <2>4 DEF RejectReturn, table, ends, data, queue, out,
         link, listen, stop, streams, system
  <1>18. ASSUME NEW s \in Side, Deliver(s) PROVE TypeOK'
    <2>1. reader[s].c \in Conn /\ reader[s].rec \in Record
      BY <1>18, ReaderFacts DEF Deliver
    <2>2. Append(readCh[reader[s].c], reader[s].rec) \in Seq(Record)
      BY <1>18, <2>1, RecordQueues DEF Deliver
    <2>3. readCh' \in [Conn -> Seq(Record)]
      BY <1>18, <2>2 DEF Deliver
    <2>4. reader' \in [Side -> ReaderState]
      BY <1>18, ReaderFacts DEF Deliver, ReaderGoto, ReaderNext
    <2> QED
      BY <1>18, <2>1, <2>2, <2>3, <2>4 DEF Deliver, table, ends, data, queue, out, link,
         listen, stop, streams, system
  <1>19. ASSUME NEW s \in Side, CloseRecord(s) PROVE TypeOK'
    <2>1. reader[s].c \in Conn
      BY <1>19, ReaderFacts DEF CloseRecord
    <2>2. once' \in [Conn -> OnceState]
      BY <1>19, <2>1 DEF CloseRecord, Shut, OnceState
    <2>3. closed' \subseteq Conn
      BY <1>19, <2>1 DEF CloseRecord, Shut
    <2>4. reader' \in [Side -> ReaderState]
      BY <1>19, <2>1, ReaderFacts DEF CloseRecord, ReaderGoto, ReaderNext
    <2> QED
      BY <1>19, <2>1, <2>2, <2>3, <2>4 DEF CloseRecord, table, ends, data, queue, out,
         link, listen, stop, streams, system
  <1>20. ASSUME NEW s \in Side, CloseRecordDelete(s) PROVE TypeOK'
    <2>1. reader[s].c \in Conn
      BY <1>20, ReaderFacts DEF CloseRecordDelete
    <2>2. conns' \in [Side -> [Id -> Conn \cup {None}]]
      BY <1>20, <2>1, TableUpdate, ConnFacts DEF CloseRecordDelete, Forget, Delete
    <2>3. once' \in [Conn -> OnceState]
      BY <1>20, <2>1 DEF CloseRecordDelete, Forget, OnceState
    <2>4. reader' \in [Side -> ReaderState]
      BY <1>20, ReaderFacts DEF CloseRecordDelete, ReaderGoto, ReaderNext
    <2> QED
      BY <1>20, <2>1, <2>2, <2>3, <2>4 DEF CloseRecordDelete, table, ends, data, queue,
         out, link, listen, stop, streams, system
  <1>21. ASSUME NEW s \in Side, ReadFails(s) PROVE TypeOK'
    <2>1. reader' \in [Side -> ReaderState]
      BY <1>21, ReaderFacts DEF ReadFails, ReaderGoto, ReaderNext
    <2> QED
      BY <1>21, <2>1 DEF ReadFails, table, ends, data, queue, out, link, listen, stop,
         streams, system
  <1>22. ASSUME NEW s \in Side, ReaderExits(s) PROVE TypeOK'
    <2>1. reader' \in [Side -> ReaderState]
      BY <1>22, ReaderFacts DEF ReaderExits, ReaderGoto, ReaderNext
    <2> QED
      BY <1>22, <2>1 DEF ReaderExits, table, ends, data, queue, out, link, listen, stop,
         streams, system
  <1>23. ASSUME NEW s \in Side, StopBegin(s) PROVE TypeOK'
    <2>1. Registered(s) \in SUBSET Conn
      BY <1>23, RegisteredType DEF StopBegin
    <2>2. sweep' \in [Side -> SweepState]
      BY <1>23, <2>1, SweepFacts DEF StopBegin, SweepTo
    <2>3. stopOnce' \in [Side -> OnceState]
      BY <1>23 DEF StopBegin, OnceState
    <2> QED
      BY <1>23, <2>1, <2>2, <2>3 DEF StopBegin, table, ends, data, queue, out, link,
         listen, stop, streams, system
  <1>24. ASSUME NEW s \in Side, SweepVisit(s) PROVE TypeOK'
    <2>1. Registered(s) \in SUBSET Conn
      BY <1>24, RegisteredType DEF SweepVisit
    <2>2. \A c \in sweep[s].todo \cup Registered(s) :
          [todo |-> sweep[s].todo, seen |-> sweep[s].seen \cup {c.id}, c |-> c,
           pc |-> "close"] \in SweepState
      BY <1>24, <2>1, SweepFacts, ConnFacts DEF SweepVisit
    <2>3. sweep' \in [Side -> SweepState]
      BY <1>24, <2>2 DEF SweepVisit, SweepTo
    <2> QED
      BY <1>24, <2>1, <2>2, <2>3 DEF SweepVisit, table, ends, data, queue, out, link,
         listen, stop, streams, system
  <1>25. ASSUME NEW s \in Side, SweepClose(s) PROVE TypeOK'
    <2>1. sweep[s].c \in Conn
      BY <1>25, SweepFacts DEF SweepClose
    <2>2. once' \in [Conn -> OnceState]
      BY <1>25, <2>1 DEF SweepClose, Shut, OnceState
    <2>3. closed' \subseteq Conn
      BY <1>25, <2>1 DEF SweepClose, Shut
    <2>4. /\ [todo |-> sweep[s].todo, seen |-> sweep[s].seen, c |-> sweep[s].c, pc |-> "delete"]
                 \in SweepState
          /\ [todo |-> sweep[s].todo, seen |-> sweep[s].seen, c |-> None, pc |-> "range"]
                 \in SweepState
      BY <1>25, <2>1, SweepFacts DEF SweepClose
    <2>5. sweep' \in [Side -> SweepState]
      BY <1>25, <2>4 DEF SweepClose, SweepTo
    <2> QED
      BY <1>25, <2>1, <2>2, <2>3, <2>4, <2>5 DEF SweepClose, table, ends, data, queue,
         out, link, listen, stop, streams, system
  <1>26. ASSUME NEW s \in Side, SweepDelete(s) PROVE TypeOK'
    <2>1. sweep[s].c \in Conn
      BY <1>26, SweepFacts DEF SweepDelete
    <2>2. conns' \in [Side -> [Id -> Conn \cup {None}]]
      BY <1>26, <2>1, TableUpdate, ConnFacts DEF SweepDelete, Forget, Delete
    <2>3. once' \in [Conn -> OnceState]
      BY <1>26, <2>1 DEF SweepDelete, Forget, OnceState
    <2>4. sweep' \in [Side -> SweepState]
      BY <1>26, <2>1, SweepFacts DEF SweepDelete, SweepTo
    <2> QED
      BY <1>26, <2>1, <2>2, <2>3, <2>4 DEF SweepDelete, table, ends, data, queue, out,
         link, listen, stop, streams, system
  <1>27. ASSUME NEW s \in Side, StopEnd(s) PROVE TypeOK'
    <2>1. stopOnce' \in [Side -> OnceState]
      BY <1>27 DEF StopEnd, OnceState
    <2> QED
      BY <1>27, <2>1 DEF StopEnd, table, ends, data, queue, out, link, listen, stop,
         streams, system
  <1>28. ASSUME NEW s \in Side, SessionCloseRw(s) PROVE TypeOK'
    <2>1. sclose' \in [Side -> {"idle", "close", "rwClose", "wait", "done"}]
      BY <1>28 DEF SessionCloseRw
    <2> QED
      BY <1>28, <2>1 DEF SessionCloseRw, table, ends, data, queue, out, link, listen,
         stop, streams, system
  <1>29. ASSUME NEW s \in Side, SessionClosed(s) PROVE TypeOK'
    <2>1. sclose' \in [Side -> {"idle", "close", "rwClose", "wait", "done"}]
      BY <1>29 DEF SessionClosed
    <2> QED
      BY <1>29, <2>1 DEF SessionClosed, table, ends, data, queue, out, link, listen,
         stop, streams, system
  <1>30. ASSUME NEW s \in Side, SessionClose(s) PROVE TypeOK'
    <2>1. sclose' \in [Side -> {"idle", "close", "rwClose", "wait", "done"}]
      BY <1>30 DEF SessionClose
    <2> QED
      BY <1>30, <2>1 DEF SessionClose, table, ends, data, queue, out, link, listen,
         stop, streams, system
  <1>31. ASSUME NEW s \in Side, RwClose(s) PROVE TypeOK'
    <2>1. sclose' \in [Side -> {"idle", "close", "rwClose", "wait", "done"}]
      BY <1>31 DEF RwClose
    <2>2. up' \in BOOLEAN
      BY <1>31 DEF RwClose
    <2> QED
      BY <1>31, <2>1, <2>2 DEF RwClose, table, ends, data, queue, out, link, listen,
         stop, streams, system
  <1>32. ASSUME NEW s \in Side, Accept(s) PROVE TypeOK'
    <2>1. held' \subseteq Conn
      BY <1>32, ConnQueues DEF Accept
    <2>2. connCh' \in [Side -> Seq(Conn)]
      BY <1>32, ConnQueues DEF Accept
    <2> QED
      BY <1>32, <2>1, <2>2 DEF Accept, table, ends, data, queue, out, link, listen,
         stop, streams, system
  <1>33. ASSUME NEW s \in Side, AcceptEnds(s) PROVE TypeOK'
    <2>1. serving' \subseteq Side
      BY <1>33 DEF AcceptEnds
    <2> QED
      BY <1>33, <2>1 DEF AcceptEnds, table, ends, data, queue, out, link, listen, stop,
         streams, system
  <1>34. ASSUME NEW s \in Side, DialBegin(s) PROVE TypeOK'
    <2>1. nextID' \in [Side -> 0..MaxDial] /\ nextID[s] + 1 \in Id
      BY <1>34, BoundsAssumption DEF DialBegin, Id
    <2>2. call' \in [Kind -> [Conn -> CallState]]
      BY <1>34, <2>1, CallUpdate, ConnFacts DEF DialBegin, SetCall, Kind, CallState
    <2> QED
      BY <1>34, <2>1, <2>2 DEF DialBegin, table, ends, data, queue, out, link, listen,
         stop, streams, system
  <1>35. CASE LinkFail
    BY <1>35 DEF LinkFail, table, ends, data, queue, out, link, listen, stop, streams,
       system
  <1>36. CASE UNCHANGED vars
    BY <1>36 DEF vars, table, ends, data, queue, out, link, listen, stop, streams,
       system
  <1> QED
    BY <1>1, <1>2, <1>3, <1>4, <1>5, <1>6, <1>7, <1>8, <1>9, <1>10, <1>11, <1>12, <1>13,
       <1>14, <1>15, <1>16, <1>17, <1>18, <1>19, <1>20, <1>21, <1>22, <1>23, <1>24, <1>25,
       <1>26, <1>27, <1>28, <1>29, <1>30, <1>31, <1>32, <1>33, <1>34, <1>35, <1>36
    DEF Next, AppCall, AppRead, AppStart, Writer, Reader, Stopping, Serving

(* Type correctness of the two sessions, their queues and goroutines.      *)
THEOREM TypeCorrect == Spec => []TypeOK
  BY InitType, NextType, PTL DEF Spec

-----------------------------------------------------------------------------
(* The part of PriorityInv about one side.  A step of the other side, or   *)
(* of a goroutine that touches neither controlCh nor writeLoop, keeps it.  *)
PriorityAt(s) ==
    /\ \A i \in 1..Len(ctl[s]) : ctl[s][i].kind # "data"
    /\ writer[s].pc = "topWrite" => writer[s].req.kind # "data"
    /\ bypass[s] <= 1
    /\ bypass[s] = 1 => \/ writer[s].pc = "exit"
                        \/ writer[s].pc = "top" /\ ctl[s] # <<>>

(* A side whose writeLoop and controlCh do not change keeps its priority.  *)
LEMMA PriorityKept ==
    ASSUME NEW s \in Side, PriorityAt(s),
           ctl'[s] = ctl[s], writer'[s] = writer[s], bypass'[s] = bypass[s]
    PROVE  PriorityAt(s)'
  BY DEF PriorityAt

(* A control request joins controlCh behind the others.                    *)
LEMMA PriorityEnqueue ==
    ASSUME TypeOK, NEW s \in Side, PriorityAt(s),
           NEW k \in Kind, NEW c \in Conn, Enqueue(k, c)
    PROVE  PriorityAt(s)'
  <1>1. writer' = writer /\ bypass' = bypass
    BY DEF Enqueue, system, out
  <1>2. CASE k = "data" \/ c.side # s
    <2>1. ctl'[s] = ctl[s]
      BY <1>2, ConnFacts DEF Enqueue, TypeOK
    <2> QED
      BY <1>1, <2>1, PriorityKept
  <1>3. CASE k # "data" /\ c.side = s
    <2> DEFINE rec == [kind |-> k, from |-> c, n |-> 0]
    <2>1. ctl'[s] = Append(ctl[s], rec)
      BY <1>3 DEF Enqueue, TypeOK
    <2>2. ctl[s] \in Seq(Record) /\ rec \in Record
      <3>1. ctl[s] \in Seq(Record)
        BY DEF TypeOK
      <3>2. rec \in Record
        BY BoundsAssumption DEF Record
      <3> QED
        BY <3>1, <3>2
    <2>3. \A i \in 1..Len(ctl'[s]) : ctl'[s][i].kind # "data"
      <3> HIDE DEF rec
      <3>1. /\ Len(ctl'[s]) = Len(ctl[s]) + 1
            /\ \A i \in 1..Len(ctl[s]) : ctl'[s][i] = ctl[s][i]
            /\ ctl'[s][Len(ctl[s]) + 1] = rec
        BY <2>1, <2>2
      <3>2. rec.kind # "data"
        BY <1>3 DEF rec
      <3> QED
        BY <2>2, <3>1, <3>2 DEF PriorityAt
    <2>4. ctl'[s] # <<>>
      BY <2>1, <2>2
    <2> QED
      BY <1>1, <2>3, <2>4 DEF PriorityAt
  <1> QED
    BY <1>2, <1>3

(* Taking the head of controlCh leaves no data at its head or in its tail. *)
LEMMA PriorityTake ==
    ASSUME TypeOK, NEW s \in Side, PriorityAt(s),
           NEW pc \in Writing, TakeCtl(s, pc)
    PROVE  PriorityAt(s)'
  <1>1. /\ ctl[s] \in Seq(Record) /\ ctl[s] # <<>> /\ ctl'[s] = Tail(ctl[s])
        /\ writer'[s] = [pc |-> pc, req |-> Head(ctl[s])] /\ bypass'[s] = 0
    BY DEF TakeCtl, TypeOK
  <1>2. Head(ctl[s]).kind # "data"
    BY <1>1 DEF PriorityAt
  <1>3. /\ Len(Tail(ctl[s])) = Len(ctl[s]) - 1
        /\ \A i \in 1..Len(Tail(ctl[s])) : Tail(ctl[s])[i] = ctl[s][i + 1]
    BY <1>1
  <1>4. \A i \in 1..Len(ctl'[s]) : ctl'[s][i].kind # "data"
    BY <1>1, <1>3 DEF PriorityAt
  <1> QED
    BY <1>1, <1>2, <1>4 DEF PriorityAt

(* A step of writeLoop on its own side.                                    *)
LEMMA PriorityWriter ==
    ASSUME TypeOK, NEW s \in Side, PriorityAt(s), Writer(s)
    PROVE  PriorityAt(s)'
  <1>1. writer[s] \in WriterState /\ bypass[s] \in Nat /\ ctl[s] \in Seq(Record)
    BY DEF TypeOK
  <1>2. CASE WriterTop(s)
    <2>1. CASE TakeCtl(s, "topWrite")
      BY <2>1, PriorityTake DEF Writing
    <2>2. CASE Stopped(s) /\ WriterGoto(s, "exit")
      BY <2>2 DEF WriterGoto, PriorityAt, TypeOK
    <2>3. CASE ctl[s] = <<>> /\ WriterGoto(s, "sel")
      BY <1>1, <1>2, <2>3 DEF WriterTop, WriterGoto, PriorityAt, TypeOK
    <2> QED
      BY <1>2, <2>1, <2>2, <2>3 DEF WriterTop
  <1>3. CASE WriterSelect(s)
    <2>1. CASE TakeCtl(s, "selWrite")
      BY <2>1, PriorityTake DEF Writing
    <2>2. CASE Stopped(s) /\ WriterGoto(s, "exit")
      BY <2>2 DEF WriterGoto, PriorityAt, TypeOK
    <2>3. ASSUME writer'[s].pc = "selWrite", UNCHANGED <<ctl, bypass>>
          PROVE  PriorityAt(s)'
      BY <1>1, <1>3, <2>3 DEF WriterSelect, PriorityAt
    <2>4. CASE /\ dat[s] # <<>>
               /\ writer' = [writer EXCEPT ![s] = [pc |-> "selWrite", req |-> Head(dat[s])]]
               /\ UNCHANGED <<ctl, bypass>>
      BY <2>3, <2>4 DEF TypeOK
    <2> QED
      BY <1>3, <2>1, <2>2, <2>4 DEF WriterSelect
  <1>4. CASE WriterWrite(s)
    <2>1. ctl' = ctl /\ writer[s].pc \in Writing /\ bypass[s] = 0
      BY <1>1, <1>4 DEF WriterWrite, PriorityAt, Writing
    <2>2. /\ writer'[s].pc \in {"top", "sel"}
          /\ writer[s].pc = "selWrite" => writer'[s].pc = "top"
      BY <1>4 DEF WriterWrite, TypeOK, Writing
    <2>3. bypass'[s] = IF writer[s].req.kind = "data" /\ ctl[s] # <<>> THEN 1 ELSE 0
      BY <1>4, <2>1 DEF WriterWrite, TypeOK
    <2>4. writer[s].pc = "topWrite" => writer[s].req.kind # "data"
      BY DEF PriorityAt
    <2> QED
      BY <2>1, <2>2, <2>3, <2>4 DEF PriorityAt, Writing
  <1> QED
    BY <1>2, <1>3, <1>4 DEF Writer

(* A step of the other side's writeLoop.                                   *)
LEMMA WriterElsewhere ==
    ASSUME TypeOK, NEW s \in Side, NEW t \in Side, t # s, Writer(t)
    PROVE  ctl'[s] = ctl[s] /\ writer'[s] = writer[s] /\ bypass'[s] = bypass[s]
  <1>1. CASE WriterTop(t)
    BY <1>1 DEF WriterTop, TakeCtl, WriterGoto, TypeOK
  <1>2. CASE WriterSelect(t)
    BY <1>2 DEF WriterSelect, TakeCtl, WriterGoto, TypeOK
  <1>3. CASE WriterWrite(t)
    BY <1>3 DEF WriterWrite, TypeOK
  <1> QED
    BY <1>1, <1>2, <1>3 DEF Writer

(* Only Enqueue and writeLoop touch controlCh, writeLoop or bypass.        *)
LEMMA ControlFrame ==
    ASSUME [Next]_vars
    PROVE  \/ \E k \in Kind, c \in Conn : Enqueue(k, c)
           \/ \E s \in Side : Writer(s)
           \/ UNCHANGED <<ctl, writer, bypass>>
  <1> USE DEF streams, system, queue, out
  <1>1. ASSUME NEW c \in Conn, AppCall(c), ~ \E k \in Kind : Enqueue(k, c)
        PROVE  UNCHANGED <<ctl, writer, bypass>>
    BY <1>1 DEF AppCall, DialStore, DialReturn, WriteReturn, CloseDelete, CloseReturn
  <1>2. ASSUME NEW c \in Conn, AppRead(c) \/ AppStart(c)
        PROVE  UNCHANGED <<ctl, writer, bypass>>
    BY <1>2 DEF AppRead, AppStart, ReadData, ReadClosed, WriteBegin, CloseBegin
  <1>3. ASSUME NEW s \in Side, Reader(s) PROVE UNCHANGED <<ctl, writer, bypass>>
    BY <1>3 DEF Reader, Receive, OpenQueued, OpenRejected, RejectReturn, Deliver,
                CloseRecord, CloseRecordDelete, ReadFails, ReaderExits
  <1>4. ASSUME NEW s \in Side, Stopping(s) PROVE UNCHANGED <<ctl, writer, bypass>>
    BY <1>4 DEF Stopping, StopBegin, SweepVisit, SweepClose, SweepDelete, StopEnd,
                SessionCloseRw, RwClose, SessionClosed
  <1>5. ASSUME NEW s \in Side, Serving(s) \/ DialBegin(s) \/ SessionClose(s)
        PROVE  UNCHANGED <<ctl, writer, bypass>>
    BY <1>5 DEF Serving, Accept, AcceptEnds, DialBegin, SessionClose
  <1>6. LinkFail \/ UNCHANGED vars => UNCHANGED <<ctl, writer, bypass>>
    BY DEF LinkFail, vars
  <1> QED
    BY <1>1, <1>2, <1>3, <1>4, <1>5, <1>6 DEF Next

(* The invariant behind the priority of control records.                   *)
LEMMA PriorityInvHolds == Spec => []PriorityInv
  <1>1. Init => PriorityInv
    BY DEF Init, PriorityInv
  <1>2. TypeOK /\ PriorityInv /\ [Next]_vars => PriorityInv'
    <2> SUFFICES ASSUME TypeOK, PriorityInv, [Next]_vars, NEW s \in Side
                 PROVE  PriorityAt(s)'
      BY DEF PriorityInv, PriorityAt
    <2>1. PriorityAt(s)
      BY DEF PriorityInv, PriorityAt
    <2>2. CASE \E k \in Kind, c \in Conn : Enqueue(k, c)
      BY <2>1, <2>2, PriorityEnqueue
    <2>3. ASSUME NEW t \in Side, Writer(t) PROVE PriorityAt(s)'
      BY <2>1, <2>3, PriorityWriter, WriterElsewhere, PriorityKept
    <2>4. CASE UNCHANGED <<ctl, writer, bypass>>
      BY <2>1, <2>4, PriorityKept
    <2> QED
      BY <2>2, <2>3, <2>4, ControlFrame
  <1> QED
    BY <1>1, <1>2, TypeCorrect, PTL DEF Spec

(* Control records are never overtaken by more than one data record,       *)
(* whatever the number of connections, writes and goroutines and the       *)
(* capacities of the channels: writeLoop's two selects give priority.      *)
THEOREM ControlPriorityHolds == Spec => []ControlPriority
  <1>1. PriorityInv => ControlPriority
    BY DEF PriorityInv, ControlPriority
  <1> QED
    BY <1>1, PriorityInvHolds, PTL

-----------------------------------------------------------------------------
(* Session.conns does not leak: theorem NoLeak, for any number of          *)
(* connections dialled from either side or from both.                      *)
(*                                                                         *)
(* An end is stored in the table once, by Dial or by handleOpen, and       *)
(* before anything can close it.  So a close that has deleted it has done  *)
(* so for good.  For the accepting end this rests on the record that opens *)
(* it: Dial sends it once, and it is under way at one place at a time.     *)

IsOpen(r, d) == r.kind = "open" /\ r.from = d
Carries(q, d) == \E i \in 1..Len(q) : IsOpen(q[i], d)
Single(q, d) == \A i, j \in 1..Len(q) : IsOpen(q[i], d) /\ IsOpen(q[j], d) => i = j

(* Where the record that opens d may be: in controlCh, in the hands of     *)
(* writeLoop, in the transport.                                            *)
InHand(s, d) == writer[s].pc \in Writing /\ IsOpen(writer[s].req, d)
Coming(s, d) == Carries(ctl[s], d) \/ InHand(s, d) \/ Carries(wire[s], d)

Unsent == {"idle", "new", "send"}
OpenOnce(s, d) ==
    /\ Single(ctl[s], d) /\ Single(wire[s], d)
    /\ Carries(ctl[s], d) => ~ InHand(s, d) /\ ~ Carries(wire[s], d)
    /\ InHand(s, d) => ~ Carries(wire[s], d)
    /\ Coming(s, d) => d.side = s /\ call["open"][d] \notin Unsent

(* Only ids that Dial has taken are in use.                                *)
Numbered(d) == call["open"][d] # "idle" => d.role = "dial" /\ d.id <= nextID[d.side]

(* Dial has stored the end, or handleOpen has got the record for it ...    *)
Introduced(c) ==
    IF c.role = "dial" THEN call["open"][c] \notin {"idle", "new"}
    ELSE call["open"][Mate(c)] \notin Unsent /\ ~ Coming(Peer(c.side), Mate(c))

(* ... before any goroutine can have it in its hands.                      *)
Reading(c) == \E s \in Side : reader[s].pc \notin {"read", "stop", "exit"} /\ reader[s].c = c
Sweeping(c) ==
    \E s \in Side : c \in sweep[s].todo \/ (sweep[s].pc # "range" /\ sweep[s].c = c)
Queued(c) == \E s \in Side : \E i \in 1..Len(connCh[s]) : connCh[s][i] = c
Known(c) ==
    \/ conns[c.side][c.id] = c
    \/ c \in held \/ Queued(c) \/ Reading(c) \/ Sweeping(c)
    \/ once[c] # "fresh" \/ call["close"][c] # "idle"

(* The table has an end under its own id.                                  *)
Filed(s) == \A i \in Id : conns[s][i] # None => conns[s][i].side = s /\ conns[s][i].id = i

(* An end that a close has deleted is not in the table.                    *)
Gone(c) ==
    once[c] = "done" \/ call["close"][c] \notin {"idle", "new"} => conns[c.side][c.id] # c

TableInv ==
    /\ \A s \in Side : /\ Filed(s)
                       /\ \A d \in Conn : OpenOnce(s, d)
                       /\ \A i \in 1..Len(dat[s]) : dat[s][i].kind = "data"
    /\ \A c \in Conn : Numbered(c) /\ (Known(c) => Introduced(c)) /\ Gone(c)
-----------------------------------------------------------------------------
(* The record that opens d, when a queue gets another record ...           *)
LEMMA OpenAdded ==
    ASSUME NEW q \in Seq(Record), NEW r \in Record, NEW d
    PROVE  /\ Carries(Append(q, r), d) <=> Carries(q, d) \/ IsOpen(r, d)
           /\ Single(q, d) /\ ~ (Carries(q, d) /\ IsOpen(r, d)) => Single(Append(q, r), d)
  <1> DEFINE p == Append(q, r)
             n == Len(q) + 1
  <1>1. Len(q) \in Nat /\ Len(p) = n /\ p[n] = r /\ \A i \in 1..Len(q) : p[i] = q[i]
    OBVIOUS
  <1> HIDE DEF p
  <1>2. \A i \in 1..Len(p) : i \in 1..Len(q) \/ i = n
    BY <1>1
  <1>3. n \in 1..Len(p) /\ \A i \in 1..Len(q) : i \in 1..Len(p)
    BY <1>1
  <1>4. Carries(p, d) <=> Carries(q, d) \/ IsOpen(r, d)
    <2> HIDE DEF n
    <2> QED
      BY <1>1, <1>2, <1>3 DEF Carries
  <1>5. ASSUME Single(q, d), ~ (Carries(q, d) /\ IsOpen(r, d)) PROVE Single(p, d)
    <2> HIDE DEF n
    <2>1. ASSUME NEW i \in 1..Len(p), NEW j \in 1..Len(p), IsOpen(p[i], d), IsOpen(p[j], d)
          PROVE  i = j
      BY <1>1, <1>2, <1>5, <2>1 DEF Carries, Single
    <2> QED
      BY <2>1 DEF Single
  <1> QED
    BY <1>4, <1>5 DEF p

(* ... and when its first one is taken.                                    *)
LEMMA OpenTaken ==
    ASSUME NEW q \in Seq(Record), q # <<>>, NEW d
    PROVE  /\ Carries(q, d) <=> IsOpen(Head(q), d) \/ Carries(Tail(q), d)
           /\ Single(q, d) => Single(Tail(q), d)
           /\ Single(q, d) /\ IsOpen(Head(q), d) => ~ Carries(Tail(q), d)
  <1> DEFINE p == Tail(q)
             n == Len(p)
  <1>1. n \in Nat /\ Len(q) = n + 1 /\ Head(q) = q[1] /\ \A i \in 1..n : p[i] = q[i + 1]
    OBVIOUS
  <1> HIDE DEF p, n
  <1>2. \A i \in 1..Len(q) : i = 1 \/ (i - 1 \in 1..n /\ q[i] = p[i - 1])
    <2>1. ASSUME NEW i \in 1..Len(q), i # 1 PROVE i - 1 \in 1..n /\ q[i] = p[i - 1]
      <3>1. i - 1 \in 1..n /\ (i - 1) + 1 = i
        BY <1>1, <2>1
      <3> QED
        BY <1>1, <3>1
    <2> QED
      BY <2>1
  <1>3. 1 \in 1..Len(q) /\ \A i \in 1..n : i + 1 \in 1..Len(q) /\ i + 1 # 1
    BY <1>1
  <1>4. Carries(q, d) <=> IsOpen(Head(q), d) \/ Carries(p, d)
    <2>1. ASSUME Carries(q, d) PROVE IsOpen(Head(q), d) \/ Carries(p, d)
      <3>1. PICK i \in 1..Len(q) : IsOpen(q[i], d)
        BY <2>1 DEF Carries
      <3>2. CASE i = 1
        BY <1>1, <3>1, <3>2
      <3>3. CASE i - 1 \in 1..n /\ q[i] = p[i - 1]
        BY <3>1, <3>3 DEF Carries, n
      <3> QED
        BY <1>2, <3>2, <3>3
    <2>2. ASSUME IsOpen(Head(q), d) PROVE Carries(q, d)
      BY <1>1, <1>3, <2>2 DEF Carries
    <2>3. ASSUME Carries(p, d) PROVE Carries(q, d)
      <3>1. PICK i \in 1..n : IsOpen(p[i], d)
        BY <2>3 DEF Carries, n
      <3> QED
        BY <1>1, <1>3, <3>1 DEF Carries
    <2> QED
      BY <2>1, <2>2, <2>3
  <1>5. ASSUME Single(q, d) PROVE Single(p, d)
    <2>1. ASSUME NEW i \in 1..n, NEW j \in 1..n, IsOpen(p[i], d), IsOpen(p[j], d) PROVE i = j
      <3>1. i + 1 \in 1..Len(q) /\ j + 1 \in 1..Len(q) /\ IsOpen(q[i + 1], d) /\ IsOpen(q[j + 1], d)
        BY <1>1, <1>3, <2>1
      <3>2. i + 1 = j + 1
        BY <1>5, <3>1 DEF Single
      <3> QED
        BY <1>1, <3>2
    <2> QED
      BY <2>1 DEF Single, n
  <1>6. ASSUME Single(q, d), IsOpen(Head(q), d), Carries(p, d) PROVE FALSE
    <2>1. PICK i \in 1..n : IsOpen(p[i], d)
      BY <1>6 DEF Carries, n
    <2>2. i + 1 \in 1..Len(q) /\ i + 1 # 1 /\ IsOpen(q[i + 1], d) /\ IsOpen(q[1], d)
      BY <1>1, <1>3, <1>6, <2>1
    <2> QED
      BY <1>3, <1>6, <2>2 DEF Single
  <1> QED
    BY <1>4, <1>5, <1>6 DEF p

-----------------------------------------------------------------------------
(* What SetCall changes.                                                   *)
LEMMA CallSet ==
    ASSUME TypeOK, NEW k \in Kind, NEW c \in Conn, NEW v, SetCall(k, c, v)
    PROVE  \A j \in Kind, d \in Conn : call'[j][d] = IF j = k /\ d = c THEN v ELSE call[j][d]
  BY DEF SetCall, TypeOK

(* A call that is not Dial's.                                              *)
LEMMA OtherCall ==
    ASSUME TypeOK, NEW k \in {"data", "close", "reject"}, NEW c, NEW v, SetCall(k, c, v)
    PROVE  call'["open"] = call["open"]
  BY DEF SetCall, TypeOK, Kind

(* Only these steps touch Dial's calls, controlCh, writeLoop or the        *)
(* transport.                                                              *)
LEMMA OpeningFrame ==
    ASSUME TypeOK, [Next]_vars
    PROVE  \/ \E s \in Side : DialBegin(s) \/ WriterTop(s) \/ WriterSelect(s) \/ WriterWrite(s) \/ Receive(s)
           \/ \E c \in Conn : DialStore(c) \/ DialReturn(c) \/ \E k \in Kind : Enqueue(k, c)
           \/ UNCHANGED <<ctl, dat, writer, wire, nextID>> /\ \A c \in Conn : call'["open"][c] = call["open"][c]
  <1> USE DEF streams, system, table, queue, out, link
  <1> DEFINE Same == UNCHANGED <<ctl, dat, writer, wire, nextID>> /\ call'["open"] = call["open"]
  <1>1. ASSUME NEW c \in Conn, WriteReturn(c) \/ CloseDelete(c) \/ CloseReturn(c) PROVE Same
    BY <1>1, OtherCall DEF WriteReturn, CloseDelete, CloseReturn
  <1>2. ASSUME NEW c \in Conn, AppRead(c) \/ AppStart(c) PROVE Same
    BY <1>2, OtherCall DEF AppRead, AppStart, ReadData, ReadClosed, WriteBegin, CloseBegin
  <1>3. ASSUME NEW s \in Side, OpenQueued(s) \/ OpenRejected(s) \/ RejectReturn(s) \/ Deliver(s)
                               \/ CloseRecord(s) \/ CloseRecordDelete(s) \/ ReadFails(s) \/ ReaderExits(s)
        PROVE  Same
    BY <1>3, OtherCall DEF OpenQueued, OpenRejected, RejectReturn, Deliver, CloseRecord, CloseRecordDelete,
                           ReadFails, ReaderExits
  <1>4. ASSUME NEW s \in Side, Stopping(s) PROVE Same
    BY <1>4 DEF Stopping, StopBegin, SweepVisit, SweepClose, SweepDelete, StopEnd,
                SessionCloseRw, RwClose, SessionClosed
  <1>5. ASSUME NEW s \in Side, Serving(s) \/ SessionClose(s) PROVE Same
    BY <1>5 DEF Serving, Accept, AcceptEnds, SessionClose
  <1>6. LinkFail \/ UNCHANGED vars => Same
    BY DEF LinkFail, vars
  <1> HIDE DEF Same
  <1>7. \/ \E s \in Side : DialBegin(s) \/ WriterTop(s) \/ WriterSelect(s) \/ WriterWrite(s) \/ Receive(s)
        \/ \E c \in Conn : DialStore(c) \/ DialReturn(c) \/ \E k \in Kind : Enqueue(k, c)
        \/ Same
    BY <1>1, <1>2, <1>3, <1>4, <1>5, <1>6 DEF Next, AppCall, Writer, Reader
  <1> QED
    BY <1>7 DEF Same

(* Dial's call goes through its states in their order.                     *)
LEMMA NextCall ==
    ASSUME TypeOK, TableInv, [Next]_vars, NEW d \in Conn
    PROVE  /\ Numbered(d)'
           /\ call["open"][d] \notin {"idle", "new"} => call'["open"][d] \notin {"idle", "new"}
           /\ call["open"][d] \notin Unsent => call'["open"][d] \notin Unsent
  <1> DEFINE Goal == /\ Numbered(d)'
                     /\ call["open"][d] \notin {"idle", "new"} => call'["open"][d] \notin {"idle", "new"}
                     /\ call["open"][d] \notin Unsent => call'["open"][d] \notin Unsent
  <1>1. Numbered(d) /\ nextID[d.side] \in Nat /\ d.side \in Side /\ d.id \in Nat /\ "open" \in Kind
    BY ConnFacts DEF TableInv, TypeOK, Id, Kind
  <1>2. ASSUME nextID' = nextID,
               \/ call'["open"][d] = call["open"][d]
               \/ (call["open"][d] = "new" /\ call'["open"][d] = "send")
               \/ (call["open"][d] = "send" /\ call'["open"][d] = "wait")
               \/ (call["open"][d] \in {"send", "wait", "ok", "fail"} /\ call'["open"][d] \in {"ok", "fail", "over"})
        PROVE  Goal
    BY <1>1, <1>2 DEF Numbered, Unsent
  <1> HIDE DEF Goal
  <1>3. ASSUME NEW s \in Side, DialBegin(s) PROVE Goal
    <2> DEFINE c == DialEnd(s, nextID[s] + 1)
    <2>1. nextID[s] \in Nat /\ c \in Conn /\ c.role = "dial" /\ c.side = s /\ c.id = nextID[s] + 1
      <3>1. nextID[s] + 1 \in Id
        BY <1>3, BoundsAssumption DEF DialBegin, TypeOK, Id
      <3> QED
        BY <3>1, ConnFacts DEF TypeOK, DialEnd
    <2>2. SetCall("open", c, "new") /\ nextID' = [nextID EXCEPT ![s] = @ + 1]
      BY <1>3 DEF DialBegin
    <2> HIDE DEF c
    <2>3. call'["open"][d] = IF d = c THEN "new" ELSE call["open"][d]
      BY <1>1, <2>1, <2>2, CallSet
    <2>4. nextID'[d.side] \in Nat /\ nextID[d.side] <= nextID'[d.side] /\ nextID'[s] = nextID[s] + 1
      <3>1. nextID'[s] = nextID[s] + 1 /\ (d.side # s => nextID'[d.side] = nextID[d.side])
        BY <1>1, <2>2 DEF TypeOK
      <3> QED
        BY <1>1, <2>1, <3>1
    <2>5. CASE d = c
      <3>1. call["open"][d] = "idle"
        BY <1>1, <2>1, <2>5 DEF Numbered
      <3>2. d.role = "dial" /\ d.id <= nextID'[d.side]
        BY <2>1, <2>4, <2>5
      <3> QED
        BY <3>1, <3>2 DEF Numbered, Unsent, Goal
    <2>6. CASE d # c
      BY <1>1, <2>3, <2>4, <2>6 DEF Numbered, Goal
    <2> QED
      BY <2>5, <2>6
  <1>4. ASSUME NEW s \in Side, WriterTop(s) \/ WriterSelect(s) \/ Receive(s) PROVE Goal
    <2>1. nextID' = nextID /\ call' = call
      BY <1>4 DEF WriterTop, WriterSelect, Receive, table, queue
    <2> QED
      BY <1>2, <2>1
  <1>5. ASSUME NEW s \in Side, WriterWrite(s) PROVE Goal
    <2> DEFINE r == writer[s].req
    <2>1. r.kind \in Kind /\ r.from \in Conn
      BY <1>5, WriterFacts, ConnFacts DEF WriterWrite, TypeOK
    <2>2. \/ call' = call
          \/ call[r.kind][r.from] = "wait" /\ \E v \in {"ok", "fail"} : SetCall(r.kind, r.from, v)
      BY <1>5 DEF WriterWrite, SetCall
    <2>3. nextID' = nextID
      BY <1>5 DEF WriterWrite, table
    <2> HIDE DEF r
    <2>4. \/ call'["open"][d] = call["open"][d]
          \/ call["open"][d] = "wait" /\ call'["open"][d] \in {"ok", "fail"}
      BY <1>1, <2>1, <2>2, CallSet
    <2> QED
      BY <1>2, <2>3, <2>4
  <1>6. ASSUME NEW c \in Conn, DialStore(c) PROVE Goal
    <2>1. call'["open"][d] = IF d = c THEN "send" ELSE call["open"][d]
      BY <1>1, <1>6, CallSet DEF DialStore
    <2>2. call["open"][c] = "new" /\ nextID' = nextID
      BY <1>6 DEF DialStore
    <2> QED
      BY <1>2, <2>1, <2>2
  <1>7. ASSUME NEW c \in Conn, DialReturn(c) PROVE Goal
    <2>1. call'["open"][d] = IF d = c THEN "over" ELSE call["open"][d]
      BY <1>1, <1>7, CallSet DEF DialReturn
    <2>2. call["open"][c] \in {"send", "wait", "ok", "fail"} /\ nextID' = nextID
      BY <1>7 DEF DialReturn, Returns
    <2> QED
      BY <1>2, <2>1, <2>2
  <1>8. ASSUME NEW c \in Conn, NEW k \in Kind, Enqueue(k, c) PROVE Goal
    <2>1. call'["open"][d] = IF "open" = k /\ d = c THEN "wait" ELSE call["open"][d]
      BY <1>1, <1>8, CallSet DEF Enqueue
    <2>2. call[k][c] = "send" /\ nextID' = nextID
      BY <1>8 DEF Enqueue, table
    <2> QED
      BY <1>2, <2>1, <2>2
  <1>9. ASSUME UNCHANGED <<ctl, dat, writer, wire, nextID>>, \A c \in Conn : call'["open"][c] = call["open"][c]
        PROVE  Goal
    <2>1. nextID' = nextID /\ call'["open"][d] = call["open"][d]
      BY <1>9
    <2> QED
      BY <1>2, <2>1
  <1>10. Goal
    BY <1>3, <1>4, <1>5, <1>6, <1>7, <1>8, <1>9, OpeningFrame
  <1> QED
    BY <1>10 DEF Goal

(* A side whose queues and writeLoop do not change.                        *)
LEMMA OpenKept ==
    ASSUME NEW s \in Side, NEW d \in Conn, OpenOnce(s, d),
           ctl'[s] = ctl[s], writer'[s] = writer[s], wire'[s] = wire[s],
           call["open"][d] \notin Unsent => call'["open"][d] \notin Unsent
    PROVE  OpenOnce(s, d)' /\ (Coming(s, d)' => Coming(s, d))
  BY DEF OpenOnce, Coming, InHand

(* The record that opens an end is under way at one place at most, and it  *)
(* is sent when Dial sends it.                                             *)
LEMMA NextOpening ==
    ASSUME TypeOK, TableInv, [Next]_vars, NEW s \in Side, NEW d \in Conn
    PROVE  OpenOnce(s, d)' /\ (Coming(s, d)' => Coming(s, d) \/ call["open"][d] \in Unsent)
  <1> DEFINE Goal == OpenOnce(s, d)' /\ (Coming(s, d)' => Coming(s, d) \/ call["open"][d] \in Unsent)
  <1>1. /\ OpenOnce(s, d)
        /\ call["open"][d] \notin Unsent => call'["open"][d] \notin Unsent
        /\ ctl[s] \in Seq(Record) /\ wire[s] \in Seq(Record)
    BY NextCall DEF TableInv, TypeOK
  <1>2. ASSUME ctl'[s] = ctl[s], writer'[s] = writer[s], wire'[s] = wire[s] PROVE Goal
    BY <1>1, <1>2, OpenKept
  <1> HIDE DEF Goal
  <1>3. ASSUME NEW t \in Side, DialBegin(t) PROVE Goal
    BY <1>2, <1>3 DEF DialBegin, system, out, link
  <1>4. ASSUME NEW c \in Conn, DialStore(c) \/ DialReturn(c) PROVE Goal
    BY <1>2, <1>4 DEF DialStore, DialReturn, system, out, link
  <1>5. ASSUME NEW c \in Conn, NEW k \in Kind, Enqueue(k, c) PROVE Goal
    <2>1. writer' = writer /\ wire' = wire
      BY <1>5 DEF Enqueue, system, out, link
    <2>2. CASE k = "data" \/ c.side # s
      <3>1. ctl'[s] = ctl[s]
        BY <1>5, <2>2, ConnFacts DEF Enqueue, TypeOK
      <3> QED
        BY <1>2, <2>1, <3>1
    <2>3. CASE k # "data" /\ c.side = s
      <3> DEFINE rec == [kind |-> k, from |-> c, n |-> 0]
      <3>1. ctl'[s] = Append(ctl[s], rec) /\ call[k][c] = "send" /\ SetCall(k, c, "wait")
        BY <1>5, <2>3 DEF Enqueue, TypeOK
      <3>2. rec \in Record /\ (IsOpen(rec, d) <=> k = "open" /\ c = d)
        BY <1>5, BoundsAssumption DEF Record, IsOpen
      <3> HIDE DEF rec
      <3>3. /\ Carries(ctl'[s], d) <=> Carries(ctl[s], d) \/ IsOpen(rec, d)
            /\ Single(ctl[s], d) /\ ~ (Carries(ctl[s], d) /\ IsOpen(rec, d)) => Single(ctl'[s], d)
        BY <1>1, <3>1, <3>2, OpenAdded
      <3>4. CASE IsOpen(rec, d)
        <4>1. call["open"][d] \in Unsent /\ call'["open"][d] = "wait" /\ d.side = s
          BY <2>3, <3>1, <3>2, <3>4, CallSet DEF Unsent
        <4>2. ~ Coming(s, d)
          BY <1>1, <4>1 DEF OpenOnce
        <4>3. Single(ctl'[s], d) /\ Carries(ctl'[s], d) /\ ~ InHand(s, d)' /\ ~ Carries(wire'[s], d)
          BY <1>1, <2>1, <3>3, <3>4, <4>2 DEF OpenOnce, Coming, InHand
        <4>4. call'["open"][d] \notin Unsent
          BY <4>1 DEF Unsent
        <4>5. OpenOnce(s, d)'
          BY <1>1, <2>1, <4>1, <4>3, <4>4 DEF OpenOnce
        <4> QED
          BY <4>1, <4>5 DEF Goal
      <3>5. CASE ~ IsOpen(rec, d)
        <4>1. Single(ctl'[s], d) /\ (Carries(ctl'[s], d) <=> Carries(ctl[s], d))
          BY <1>1, <3>3, <3>5 DEF OpenOnce
        <4> QED
          BY <1>1, <2>1, <4>1 DEF OpenOnce, Coming, InHand, Goal
      <3> QED
        BY <3>4, <3>5
    <2> QED
      BY <2>2, <2>3
  <1>6. ASSUME NEW t \in Side, WriterTop(t) \/ WriterSelect(t) PROVE Goal
    <2>1. wire' = wire
      BY <1>6 DEF WriterTop, WriterSelect, link
    <2>2. CASE t # s
      <3>1. ctl'[s] = ctl[s] /\ writer'[s] = writer[s]
        BY <1>6, <2>2, WriterElsewhere DEF Writer
      <3> QED
        BY <1>2, <2>1, <3>1
    <2>3. ASSUME NEW pc \in Writing, TakeCtl(t, pc), t = s PROVE Goal
      <3>1. /\ ctl[s] # <<>> /\ ctl'[s] = Tail(ctl[s]) /\ ~ InHand(s, d)
            /\ writer'[s] = [pc |-> pc, req |-> Head(ctl[s])]
        BY <1>6, <2>3 DEF TakeCtl, TypeOK, WriterTop, WriterSelect, InHand, Writing
      <3>2. InHand(s, d)' <=> IsOpen(Head(ctl[s]), d)
        BY <3>1 DEF InHand
      <3>3. /\ Carries(ctl[s], d) <=> IsOpen(Head(ctl[s]), d) \/ Carries(ctl'[s], d)
            /\ Single(ctl[s], d) => Single(ctl'[s], d)
            /\ Single(ctl[s], d) /\ IsOpen(Head(ctl[s]), d) => ~ Carries(ctl'[s], d)
        BY <1>1, <3>1, OpenTaken
      <3> QED
        BY <1>1, <2>1, <3>1, <3>2, <3>3 DEF OpenOnce, Coming, Goal
    <2>4. ASSUME ctl' = ctl, ~ InHand(s, d)' PROVE Goal
      BY <1>1, <2>1, <2>4 DEF OpenOnce, Coming, Goal
    <2>5. CASE \E pc \in {"exit", "sel"} : WriterGoto(t, pc) /\ t = s
      <3>1. ctl' = ctl /\ writer'[s].pc \notin Writing
        BY <2>5 DEF WriterGoto, TypeOK, Writing
      <3> QED
        BY <2>4, <3>1 DEF InHand
    <2>6. CASE /\ dat[t] # <<>> /\ t = s /\ UNCHANGED <<ctl, bypass>>
               /\ writer' = [writer EXCEPT ![t] = [pc |-> "selWrite", req |-> Head(dat[t])]]
      <3>1. Head(dat[s]).kind = "data"
        <4>1. dat[s] \in Seq(Record) /\ dat[s] # <<>> /\ \A i \in 1..Len(dat[s]) : dat[s][i].kind = "data"
          BY <2>6 DEF TypeOK, TableInv
        <4>2. 1 \in 1..Len(dat[s]) /\ Head(dat[s]) = dat[s][1]
          BY <4>1
        <4> QED
          BY <4>1, <4>2
      <3>2. writer'[s].req = Head(dat[s])
        BY <2>6 DEF TypeOK
      <3>3. ~ InHand(s, d)'
        BY <3>1, <3>2 DEF InHand, IsOpen
      <3> QED
        BY <2>4, <2>6, <3>3
    <2> QED
      BY <1>6, <2>2, <2>3, <2>5, <2>6 DEF WriterTop, WriterSelect, Writing
  <1>7. ASSUME NEW t \in Side, WriterWrite(t) PROVE Goal
    <2>1. ctl' = ctl
      BY <1>7 DEF WriterWrite
    <2>2. CASE t # s
      <3>1. ctl'[s] = ctl[s] /\ writer'[s] = writer[s] /\ wire'[s] = wire[s]
        BY <1>7, <2>1, <2>2 DEF WriterWrite, TypeOK
      <3> QED
        BY <1>2, <3>1
    <2>3. CASE t = s
      <3> DEFINE r == writer[s].req
      <3>1. r \in Record /\ writer[s].pc \in Writing
        BY <1>7, <2>3, WriterFacts DEF WriterWrite, TypeOK
      <3>2. writer'[s].pc \notin Writing /\ (wire'[s] = wire[s] \/ wire'[s] = Append(wire[s], r))
        BY <1>7, <2>3 DEF WriterWrite, TypeOK, Writing
      <3>3. InHand(s, d) <=> IsOpen(r, d)
        BY <3>1 DEF InHand
      <3>4. ~ InHand(s, d)'
        BY <3>2 DEF InHand
      <3> HIDE DEF r
      <3>5. CASE wire'[s] = wire[s]
        BY <1>1, <2>1, <3>4, <3>5 DEF OpenOnce, Coming, Goal
      <3>6. CASE wire'[s] = Append(wire[s], r)
        <4>1. /\ Carries(wire'[s], d) <=> Carries(wire[s], d) \/ IsOpen(r, d)
              /\ Single(wire[s], d) /\ ~ (Carries(wire[s], d) /\ IsOpen(r, d)) => Single(wire'[s], d)
          BY <1>1, <3>1, <3>6, OpenAdded
        <4> QED
          BY <1>1, <2>1, <3>3, <3>4, <4>1 DEF OpenOnce, Coming, Goal
      <3> QED
        BY <3>2, <3>5, <3>6
    <2> QED
      BY <2>2, <2>3
  <1>8. ASSUME NEW t \in Side, Receive(t) PROVE Goal
    <2>1. /\ ctl' = ctl /\ writer' = writer /\ wire[Peer(t)] # <<>> /\ Peer(t) \in Side
          /\ wire' = [wire EXCEPT ![Peer(t)] = Tail(@)]
      BY <1>8, ConnFacts DEF Receive, queue, out
    <2>2. CASE Peer(t) # s
      BY <1>2, <2>1, <2>2 DEF TypeOK
    <2>3. CASE Peer(t) = s
      <3>1. wire'[s] = Tail(wire[s])
        BY <2>1, <2>3 DEF TypeOK
      <3>2. /\ Carries(wire[s], d) <=> IsOpen(Head(wire[s]), d) \/ Carries(wire'[s], d)
            /\ Single(wire[s], d) => Single(wire'[s], d)
        BY <1>1, <2>1, <2>3, <3>1, OpenTaken
      <3> QED
        BY <1>1, <2>1, <3>2 DEF OpenOnce, Coming, InHand, Goal
    <2> QED
      BY <2>2, <2>3
  <1>9. ASSUME UNCHANGED <<ctl, dat, writer, wire, nextID>> PROVE Goal
    BY <1>2, <1>9
  <1>10. Goal
    BY <1>3, <1>4, <1>5, <1>6, <1>7, <1>8, <1>9, OpeningFrame
  <1> QED
    BY <1>10 DEF Goal

(* dataCh holds data.                                                      *)
LEMMA NextData ==
    ASSUME TypeOK, TableInv, [Next]_vars, NEW s \in Side
    PROVE  \A i \in 1..Len(dat'[s]) : dat'[s][i].kind = "data"
  <1> DEFINE Data(q) == \A i \in 1..Len(q) : q[i].kind = "data"
  <1>1. dat[s] \in Seq(Record) /\ Data(dat[s])
    BY DEF TypeOK, TableInv
  <1>2. ASSUME dat'[s] # dat[s]
        PROVE  \/ \E r \in Record : r.kind = "data" /\ dat'[s] = Append(dat[s], r)
               \/ dat[s] # <<>> /\ dat'[s] = Tail(dat[s])
    <2>1. ASSUME NEW c \in Conn, NEW k \in Kind, Enqueue(k, c)
          PROVE  \E r \in Record : r.kind = "data" /\ dat'[s] = Append(dat[s], r)
      <3>1. k = "data" /\ c.side = s
        BY <1>2, <2>1, ConnFacts DEF Enqueue, TypeOK
      <3>2. dat'[s] = Append(dat[s], [kind |-> "data", from |-> c, n |-> sent[c]])
        BY <2>1, <3>1 DEF Enqueue, TypeOK
      <3>3. [kind |-> "data", from |-> c, n |-> sent[c]] \in Record
        BY <2>1 DEF Record, TypeOK, Kind
      <3> QED
        BY <3>2, <3>3
    <2>2. ASSUME NEW t \in Side, WriterTop(t) \/ WriterSelect(t)
          PROVE  dat[s] # <<>> /\ dat'[s] = Tail(dat[s])
      BY <1>2, <2>2 DEF WriterTop, WriterSelect, TakeCtl, WriterGoto, TypeOK
    <2>3. ASSUME NEW t \in Side, DialBegin(t) \/ WriterWrite(t) \/ Receive(t) PROVE dat' = dat
      BY <2>3 DEF DialBegin, WriterWrite, Receive, queue
    <2>4. ASSUME NEW c \in Conn, DialStore(c) \/ DialReturn(c) PROVE dat' = dat
      BY <2>4 DEF DialStore, DialReturn
    <2> QED
      BY <1>2, <2>1, <2>2, <2>3, <2>4, OpeningFrame
  <1>3. ASSUME NEW r \in Record, r.kind = "data", dat'[s] = Append(dat[s], r) PROVE Data(dat'[s])
    <2>1. /\ Len(dat'[s]) = Len(dat[s]) + 1 /\ Len(dat[s]) \in Nat
          /\ \A i \in 1..Len(dat[s]) : dat'[s][i] = dat[s][i]
          /\ dat'[s][Len(dat[s]) + 1] = r
      BY <1>1, <1>3
    <2> QED
      BY <1>1, <1>3, <2>1
  <1>4. ASSUME dat[s] # <<>>, dat'[s] = Tail(dat[s]) PROVE Data(dat'[s])
    <2>1. /\ Len(dat'[s]) = Len(dat[s]) - 1 /\ Len(dat[s]) \in Nat
          /\ \A i \in 1..Len(dat'[s]) : dat'[s][i] = dat[s][i + 1]
      BY <1>1, <1>4
    <2> QED
      BY <1>1, <2>1
  <1> QED
    BY <1>1, <1>2, <1>3, <1>4
-----------------------------------------------------------------------------
(* The mate of an end is the end it is dialled from or accepted as.        *)
LEMMA Mates ==
    /\ \A c \in Conn : Mate(c) \in Conn /\ Mate(c).side = Peer(c.side) /\ Mate(Mate(c)) = c
                       /\ Peer(c.side) \in Side
    /\ \A s \in Side, d \in Conn : d.side = Peer(s) /\ d.role = "dial" =>
           /\ AcceptEnd(s, d.id) \in Conn /\ Mate(AcceptEnd(s, d.id)) = d
           /\ AcceptEnd(s, d.id).side = s /\ AcceptEnd(s, d.id).id = d.id
           /\ AcceptEnd(s, d.id).role = "accept" /\ Peer(AcceptEnd(s, d.id).side) = Peer(s)
  BY DEF Conn, Mate, Peer, Side, AcceptEnd

(* Once introduced, an end stays so.                                       *)
LEMMA NextIntroduced ==
    ASSUME TypeOK, TableInv, [Next]_vars, NEW c \in Conn, Introduced(c)
    PROVE  Introduced(c)'
  <1>1. Mate(c) \in Conn /\ Peer(c.side) \in Side
    BY Mates
  <1>2. CASE c.role = "dial"
    BY <1>2, NextCall DEF Introduced
  <1>3. CASE c.role # "dial"
    <2>1. call["open"][Mate(c)] \notin Unsent /\ ~ Coming(Peer(c.side), Mate(c))
      BY <1>3 DEF Introduced
    <2>2. call'["open"][Mate(c)] \notin Unsent
      BY <1>1, <2>1, NextCall
    <2>3. ~ Coming(Peer(c.side), Mate(c))'
      BY <1>1, <2>1, NextOpening
    <2> QED
      BY <1>3, <2>2, <2>3 DEF Introduced
  <1> QED
    BY <1>2, <1>3

(* handleOpen gets the record that opens an end once.                      *)
LEMMA Received ==
    ASSUME TypeOK, TableInv, NEW s \in Side, Receive(s),
           NEW r, r = Head(wire[Peer(s)]), r.kind = "open",
           NEW c, c = AcceptEnd(s, r.from.id)
    PROVE  /\ c \in Conn /\ c.side = s /\ c.id = r.from.id
           /\ ~ Introduced(c) /\ Introduced(c)'
  <1> DEFINE d == r.from
             p == Peer(s)
  <1>1. p \in Side /\ wire[p] \in Seq(Record) /\ wire[p] # <<>> /\ wire'[p] = Tail(wire[p])
        /\ ctl' = ctl /\ writer' = writer /\ call' = call
    BY ConnFacts DEF Receive, TypeOK, queue, out
  <1>2. r \in Record /\ d \in Conn
    BY <1>1, RecordQueues, ConnFacts
  <1> HIDE DEF p, d
  <1>3. IsOpen(Head(wire[p]), d)
    BY DEF IsOpen, p, d
  <1>4. /\ Carries(wire[p], d)
        /\ Single(wire[p], d) => ~ Carries(wire'[p], d)
    BY <1>1, <1>3, OpenTaken
  <1>5. OpenOnce(p, d) /\ Numbered(d)
    BY <1>1, <1>2 DEF TableInv
  <1>6. /\ Coming(p, d) /\ d.side = p /\ call["open"][d] \notin Unsent
        /\ ~ Carries(ctl[p], d) /\ ~ InHand(p, d) /\ ~ Carries(wire'[p], d)
    BY <1>4, <1>5 DEF OpenOnce, Coming
  <1>7. d.role = "dial"
    BY <1>5, <1>6 DEF Numbered, Unsent
  <1>8. /\ c \in Conn /\ Mate(c) = d /\ c.side = s /\ c.id = d.id /\ c.role = "accept"
        /\ Peer(c.side) = p
    BY <1>2, <1>6, <1>7, Mates DEF p, d
  <1>9. ~ Introduced(c)
    BY <1>6, <1>8 DEF Introduced
  <1>10. ~ Coming(p, d)'
    BY <1>1, <1>6 DEF Coming, InHand
  <1>11. Introduced(c)'
    BY <1>1, <1>6, <1>8, <1>10 DEF Introduced
  <1> QED
    BY <1>8, <1>9, <1>11 DEF d

(* What a step may do to an end that it does not store in the table ...    *)
Fine(c) ==
    /\ conns'[c.side][c.id] = c => conns[c.side][c.id] = c
    /\ c \in held' => Known(c) \/ Introduced(c)'
    /\ Queued(c)' => Known(c)
    /\ Reading(c)' => Known(c) \/ Introduced(c)'
    /\ Sweeping(c)' => Known(c)
    /\ \/ once'[c] = once[c]
       \/ Known(c) /\ (once'[c] = "busy" \/ conns'[c.side][c.id] # c)
    /\ \/ call'["close"][c] = call["close"][c]
       \/ Known(c) /\ (call'["close"][c] = "new" \/ conns'[c.side][c.id] # c)

(* ... keeps the invariant.                                                *)
LEMMA FineKeeps ==
    ASSUME NEW c \in Conn, TableInv, Fine(c), Introduced(c) => Introduced(c)'
    PROVE  (Known(c)' => Introduced(c)') /\ Gone(c)'
  <1>1. (Known(c) => Introduced(c)) /\ Gone(c)
    BY DEF TableInv
  <1>2. Known(c)' => Known(c) \/ Introduced(c)'
    BY DEF Known, Fine
  <1>3. Gone(c)'
    BY <1>1 DEF Gone, Fine
  <1> QED
    BY <1>1, <1>2, <1>3

(* What is not touched.                                                    *)
LEMMA Untouched ==
    ASSUME NEW c \in Conn, conns' = conns \/ (conns'[c.side][c.id] = c => conns[c.side][c.id] = c),
           held' = held \/ (c \in held' => Known(c) \/ Introduced(c)'),
           connCh' = connCh \/ (Queued(c)' => Known(c)),
           reader' = reader \/ (Reading(c)' => Known(c) \/ Introduced(c)'),
           sweep' = sweep \/ (Sweeping(c)' => Known(c)),
           \/ once'[c] = once[c]
           \/ Known(c) /\ (once'[c] = "busy" \/ conns'[c.side][c.id] # c),
           \/ call'["close"][c] = call["close"][c]
           \/ Known(c) /\ (call'["close"][c] = "new" \/ conns'[c.side][c.id] # c)
    PROVE  Fine(c)
  <1>1. connCh' = connCh => (Queued(c)' => Known(c))
    BY DEF Queued, Known
  <1>2. reader' = reader => (Reading(c)' => Known(c))
    BY DEF Reading, Known
  <1>3. sweep' = sweep => (Sweeping(c)' => Known(c))
    BY DEF Sweeping, Known
  <1>4. c \in held => Known(c)
    BY DEF Known
  <1> QED
    BY <1>1, <1>2, <1>3, <1>4 DEF Fine

(* conns.Delete of an id.                                                  *)
LEMMA Deleted ==
    ASSUME TypeOK, NEW s \in Side, NEW i \in Id, Delete(s, i), NEW c \in Conn
    PROVE  /\ conns'[c.side][c.id] = c => conns[c.side][c.id] = c
           /\ c.side = s /\ c.id = i => conns'[c.side][c.id] # c
  <1>1. /\ conns \in [Side -> [Id -> Conn \cup {None}]] /\ c.side \in Side /\ c.id \in Id
        /\ c # None
    BY ConnFacts DEF TypeOK
  <1>2. conns'[c.side][c.id] = IF c.side = s /\ c.id = i THEN None ELSE conns[c.side][c.id]
    BY <1>1 DEF Delete
  <1> QED
    BY <1>1, <1>2

(* What a Range over the table finds is in the table under its own id.     *)
LEMMA InTable ==
    ASSUME TypeOK, TableInv, NEW s \in Side, NEW i \in Id, conns[s][i] # None
    PROVE  conns[s][i] \in Conn /\ conns[s][i].side = s /\ conns[s][i].id = i /\ Known(conns[s][i])
  <1>1. conns[s][i] \in Conn
    BY DEF TypeOK
  <1>2. conns[s][i].side = s /\ conns[s][i].id = i
    BY DEF TableInv, Filed
  <1> QED
    BY <1>1, <1>2 DEF Known

LEMMA AppFine ==
    ASSUME TypeOK, TableInv, [Next]_vars, NEW c \in Conn, NEW x \in Conn,
           AppRead(x) \/ AppStart(x) \/ (AppCall(x) /\ ~ DialStore(x))
    PROVE  Fine(c)
  <1> USE DEF table, ends, data, queue, out, link, listen, stop, system
  <1>1. x.side \in Side /\ x.id \in Id /\ \A k \in {"open", "data", "close", "reject"} : k \in Kind
    BY ConnFacts DEF Kind
  <1>2. CASE ReadData(x) \/ ReadClosed(x)
    BY <1>2, Untouched DEF ReadData, ReadClosed
  <1>3. CASE WriteBegin(x) \/ WriteReturn(x)
    <2>1. \E v : SetCall("data", x, v)
      BY <1>3 DEF WriteBegin, WriteReturn
    <2>2. call'["close"][c] = call["close"][c]
      BY <1>1, <2>1, CallSet
    <2> QED
      BY <1>3, <2>2, Untouched DEF WriteBegin, WriteReturn
  <1>4. CASE CloseBegin(x)
    <2>1. call'["close"][c] = IF c = x THEN "new" ELSE call["close"][c]
      BY <1>1, <1>4, CallSet DEF CloseBegin
    <2>2. once'[c] = IF c = x THEN "busy" ELSE once[c]
      BY <1>4 DEF CloseBegin, Shut, TypeOK
    <2>3. Known(x)
      BY <1>4 DEF CloseBegin, Known
    <2> QED
      BY <1>4, <2>1, <2>2, <2>3, Untouched DEF CloseBegin
  <1>5. CASE DialReturn(x)
    <2>1. call'["close"][c] = call["close"][c]
      BY <1>1, <1>5, CallSet DEF DialReturn
    <2>2. conns' = conns \/ (conns'[c.side][c.id] = c => conns[c.side][c.id] = c)
      BY <1>1, <1>5, Deleted DEF DialReturn
    <2>3. Introduced(x)
      <3>1. call["open"][x] \in {"send", "wait", "ok", "fail"} /\ Numbered(x)
        BY <1>5 DEF DialReturn, Returns, TableInv
      <3> QED
        BY <3>1 DEF Numbered, Introduced
    <2>4. Introduced(x)'
      BY <2>3, NextIntroduced
    <2>5. held' = held \/ held' = held \cup {x}
      BY <1>5 DEF DialReturn
    <2>6. c \in held' => Known(c) \/ Introduced(c)'
      BY <2>4, <2>5 DEF Known
    <2> QED
      BY <1>5, <2>1, <2>2, <2>6, Untouched DEF DialReturn
  <1>6. CASE CloseDelete(x)
    <2>1. call'["close"][c] = IF c = x THEN "send" ELSE call["close"][c]
      BY <1>1, <1>6, CallSet DEF CloseDelete
    <2>2. /\ conns'[c.side][c.id] = c => conns[c.side][c.id] = c
          /\ c = x => conns'[c.side][c.id] # c
      BY <1>1, <1>6, Deleted DEF CloseDelete
    <2>3. Known(x)
      BY <1>6 DEF CloseDelete, Known
    <2> QED
      BY <1>6, <2>1, <2>2, <2>3, Untouched DEF CloseDelete
  <1>7. CASE CloseReturn(x)
    <2>1. call'["close"][c] = IF c = x THEN "over" ELSE call["close"][c]
      BY <1>1, <1>7, CallSet DEF CloseReturn
    <2>2. call["close"][x] \in {"send", "wait", "ok", "fail"}
      BY <1>7 DEF CloseReturn, Returns
    <2>3. Known(x) /\ conns[x.side][x.id] # x
      BY <2>2 DEF Known, TableInv, Gone
    <2>4. once'[c] = IF c = x THEN "done" ELSE once[c]
      BY <1>7 DEF CloseReturn, TypeOK
    <2>5. conns' = conns
      BY <1>7 DEF CloseReturn
    <2> QED
      BY <1>7, <2>1, <2>3, <2>4, <2>5, Untouched DEF CloseReturn
  <1>8. ASSUME NEW k \in Kind, Enqueue(k, x) PROVE Fine(c)
    <2>1. call'["close"][c] = IF k = "close" /\ c = x THEN "wait" ELSE call["close"][c]
      BY <1>1, <1>8, CallSet DEF Enqueue
    <2>2. k = "close" => Known(x) /\ conns[x.side][x.id] # x
      BY <1>8 DEF Enqueue, Known, TableInv, Gone
    <2>3. UNCHANGED <<conns, held, connCh, reader, sweep, once>>
      BY <1>8 DEF Enqueue
    <2> QED
      BY <2>1, <2>2, <2>3, Untouched
  <1> QED
    BY <1>2, <1>3, <1>4, <1>5, <1>6, <1>7, <1>8 DEF AppRead, AppStart, AppCall

LEMMA ReaderFine ==
    ASSUME TypeOK, TableInv, [Next]_vars, NEW c \in Conn, NEW s \in Side,
           Reader(s), Receive(s) => Head(wire[Peer(s)]).kind # "open"
    PROVE  Fine(c)
  <1> USE DEF table, ends, data, queue, out, link, listen, stop, streams
  <1> DEFINE x == reader[s].c
  <1>1. /\ reader[s] \in ReaderState /\ connCh[s] \in Seq(Conn)
        /\ \A k \in {"open", "data", "close", "reject"} : k \in Kind
    BY DEF Kind, TypeOK
  <1>2. reader[s].pc \notin {"read", "stop", "exit"} => x \in Conn /\ Known(x) /\ x.side \in Side /\ x.id \in Id
    <2>1. reader[s].pc \notin {"read", "stop", "exit"} => x \in Conn
      BY <1>1, ReaderFacts DEF ReaderState
    <2> QED
      BY <2>1, ConnFacts DEF Known, Reading
  <1> HIDE DEF x
  <1>3. ASSUME NEW p, NEW y, NEW rec, ReaderGoto(s, p, y, rec),
               p \in {"read", "stop", "exit"} \/ (y = x /\ reader[s].pc \notin {"read", "stop", "exit"}) \/ Known(y)
        PROVE  Reading(c)' => Known(c) \/ Introduced(c)'
    <2>1. \A t \in Side : reader'[t] = IF t = s THEN ReaderAt(p, y, rec) ELSE reader[t]
      BY <1>3 DEF ReaderGoto, TypeOK
    <2>2. ReaderAt(p, y, rec).pc = p /\ ReaderAt(p, y, rec).c = y
      BY DEF ReaderAt
    <2> QED
      BY <1>2, <1>3, <2>1, <2>2 DEF Reading, Known
  <1>4. CASE Receive(s)
    <2> DEFINE rec == Head(wire[Peer(s)])
               to == conns[s][rec.from.id]
    <2>1. UNCHANGED <<held, connCh, sweep, once, call, conns>>
      BY <1>4 DEF Receive
    <2>2. rec.from.id \in Id
      BY <1>4, RecordQueues, ConnFacts DEF Receive, TypeOK
    <2>3. to # None => Known(to)
      BY <2>2, InTable
    <2>4. reader' = reader \/ \E p : to # None /\ (ReaderGoto(s, p, to, rec) \/ ReaderGoto(s, p, to, None))
      BY <1>4 DEF Receive
    <2> HIDE DEF rec, to
    <2>5. reader' = reader \/ (Reading(c)' => Known(c) \/ Introduced(c)')
      BY <1>3, <2>3, <2>4
    <2> QED
      BY <2>1, <2>5, Untouched
  <1>5. CASE OpenQueued(s)
    <2>1. UNCHANGED <<held, conns, sweep, once, call>> /\ ReaderNext(s) /\ reader[s].pc = "opened"
          /\ connCh' = [connCh EXCEPT ![s] = Append(@, x)]
      BY <1>5 DEF OpenQueued, x
    <2>2. Queued(c)' => Known(c)
      <3>1. ASSUME NEW t \in Side, NEW i \in 1..Len(connCh'[t]), connCh'[t][i] = c PROVE Known(c)
        <4>1. CASE t # s
          BY <2>1, <3>1, <4>1 DEF Known, Queued, TypeOK
        <4>2. CASE t = s
          <5>1. connCh'[s] = Append(connCh[s], x) /\ x \in Conn
            BY <1>2, <2>1 DEF TypeOK
          <5>2. (i \in 1..Len(connCh[s]) /\ connCh[s][i] = c) \/ c = x
            BY <1>1, <3>1, <4>2, <5>1
          <5> QED
            BY <1>2, <2>1, <5>2 DEF Known, Queued
        <4> QED
          BY <4>1, <4>2
      <3> QED
        BY <3>1 DEF Queued
    <2>3. Reading(c)' => Known(c) \/ Introduced(c)'
      BY <1>3, <2>1 DEF ReaderNext
    <2> QED
      BY <2>1, <2>2, <2>3, Untouched
  <1>6. CASE OpenRejected(s)
    <2>1. /\ UNCHANGED <<held, connCh, conns, sweep, once>> /\ reader[s].pc = "opened"
          /\ SetCall("reject", x, "send") /\ ReaderGoto(s, "reject", x, None)
      BY <1>6 DEF OpenRejected, x
    <2>2. call'["close"][c] = call["close"][c]
      BY <1>1, <1>2, <2>1, CallSet
    <2>3. Reading(c)' => Known(c) \/ Introduced(c)'
      BY <1>3, <2>1
    <2> QED
      BY <2>1, <2>2, <2>3, Untouched
  <1>7. CASE RejectReturn(s)
    <2>1. /\ UNCHANGED <<held, connCh, sweep, once>> /\ reader[s].pc = "reject"
          /\ SetCall("reject", x, "over") /\ Delete(s, x.id) /\ ReaderNext(s)
      BY <1>7 DEF RejectReturn, x
    <2>2. call'["close"][c] = call["close"][c]
      BY <1>1, <1>2, <2>1, CallSet
    <2>3. conns'[c.side][c.id] = c => conns[c.side][c.id] = c
      BY <1>2, <2>1, Deleted
    <2>4. Reading(c)' => Known(c) \/ Introduced(c)'
      BY <1>3, <2>1 DEF ReaderNext
    <2> QED
      BY <2>1, <2>2, <2>3, <2>4, Untouched
  <1>8. CASE Deliver(s) \/ ReadFails(s) \/ ReaderExits(s)
    <2>1. UNCHANGED <<held, connCh, conns, sweep, once, call>>
      BY <1>8 DEF Deliver, ReadFails, ReaderExits
    <2>2. PICK p \in {"read", "stop", "exit"} : ReaderGoto(s, p, None, None)
      BY <1>8 DEF Deliver, ReadFails, ReaderExits, ReaderNext
    <2>3. Reading(c)' => Known(c) \/ Introduced(c)'
      BY <1>3, <2>2
    <2> QED
      BY <2>1, <2>3, Untouched
  <1>9. CASE CloseRecord(s)
    <2>1. /\ UNCHANGED <<held, connCh, conns, sweep, call>> /\ reader[s].pc = "close"
          /\ \/ once' = [once EXCEPT ![x] = "busy"] /\ ReaderGoto(s, "delete", x, None)
             \/ once' = once /\ ReaderNext(s)
      BY <1>9 DEF CloseRecord, Shut, x
    <2>2. once'[c] = once[c] \/ (c = x /\ once'[c] = "busy")
      BY <1>2, <2>1 DEF TypeOK
    <2>3. Reading(c)' => Known(c) \/ Introduced(c)'
      BY <1>3, <2>1 DEF ReaderNext
    <2> QED
      BY <1>2, <2>1, <2>2, <2>3, Untouched
  <1>10. CASE CloseRecordDelete(s)
    <2>1. /\ UNCHANGED <<held, connCh, sweep, call>> /\ reader[s].pc = "delete"
          /\ Delete(x.side, x.id) /\ once' = [once EXCEPT ![x] = "done"] /\ ReaderNext(s)
      BY <1>10 DEF CloseRecordDelete, Forget, x
    <2>2. once'[c] = once[c] \/ c = x
      BY <1>2, <2>1 DEF TypeOK
    <2>3. /\ conns'[c.side][c.id] = c => conns[c.side][c.id] = c
          /\ c = x => conns'[c.side][c.id] # c
      BY <1>2, <2>1, Deleted
    <2>4. Reading(c)' => Known(c) \/ Introduced(c)'
      BY <1>3, <2>1 DEF ReaderNext
    <2> QED
      BY <1>2, <2>1, <2>2, <2>3, <2>4, Untouched
  <1> QED
    BY <1>4, <1>5, <1>6, <1>7, <1>8, <1>9, <1>10 DEF Reader

LEMMA StoppingFine ==
    ASSUME TypeOK, TableInv, [Next]_vars, NEW c \in Conn, NEW s \in Side, Stopping(s)
    PROVE  Fine(c)
  <1> USE DEF table, ends, data, queue, out, link, listen, stop, streams
  <1> DEFINE x == sweep[s].c
  <1>1. sweep[s] \in SweepState
    BY DEF TypeOK
  <1>2. sweep[s].pc \in {"close", "delete"} => x \in Conn /\ Known(x) /\ x.side \in Side /\ x.id \in Id
    <2>1. sweep[s].pc \in {"close", "delete"} => x \in Conn
      BY <1>1, SweepFacts
    <2> QED
      BY <2>1, ConnFacts DEF Known, Sweeping
  <1>3. ASSUME NEW y \in Registered(s) PROVE Known(y)
    <2>1. PICK i \in Id : y = conns[s][i] /\ conns[s][i] # None
      BY <1>3 DEF Registered
    <2> QED
      BY <2>1, InTable
  <1> HIDE DEF x
  <1>4. ASSUME NEW todo, NEW seen, NEW y, NEW pc, SweepTo(s, todo, seen, y, pc),
               todo = sweep[s].todo \/ todo = Registered(s),
               pc = "range" \/ y \in sweep[s].todo \cup Registered(s) \/ Known(y)
        PROVE  Sweeping(c)' => Known(c)
    <2>1. \A t \in Side : sweep'[t] = IF t = s THEN [todo |-> todo, seen |-> seen, c |-> y, pc |-> pc] ELSE sweep[t]
      BY <1>4 DEF SweepTo, TypeOK
    <2>2. c \in sweep[s].todo \/ c \in Registered(s) => Known(c)
      BY <1>3 DEF Known, Sweeping
    <2>3. ASSUME NEW t \in Side, c \in sweep'[t].todo \/ (sweep'[t].pc # "range" /\ sweep'[t].c = c)
          PROVE  Known(c)
      <3>1. CASE t = s
        BY <1>4, <2>1, <2>2, <2>3, <3>1
      <3>2. CASE t # s
        BY <2>1, <2>3, <3>2 DEF Known, Sweeping
      <3> QED
        BY <3>1, <3>2
    <2> QED
      BY <2>3 DEF Sweeping
  <1>5. CASE StopBegin(s)
    <2>1. UNCHANGED <<held, connCh, conns, reader, once, call>> /\ SweepTo(s, Registered(s), {}, None, "range")
      BY <1>5 DEF StopBegin
    <2>2. Sweeping(c)' => Known(c)
      BY <1>4, <2>1
    <2> QED
      BY <2>1, <2>2, Untouched
  <1>6. CASE SweepVisit(s)
    <2>1. UNCHANGED <<held, connCh, conns, reader, once, call>>
      BY <1>6 DEF SweepVisit
    <2>2. PICK y \in sweep[s].todo \cup Registered(s) : SweepTo(s, sweep[s].todo, sweep[s].seen \cup {y.id}, y, "close")
      BY <1>6 DEF SweepVisit
    <2>3. Sweeping(c)' => Known(c)
      BY <1>4, <2>2
    <2> QED
      BY <2>1, <2>3, Untouched
  <1>7. CASE SweepClose(s)
    <2>1. /\ UNCHANGED <<held, connCh, conns, reader, call>> /\ sweep[s].pc = "close"
          /\ \/ once' = [once EXCEPT ![x] = "busy"] /\ SweepTo(s, sweep[s].todo, sweep[s].seen, x, "delete")
             \/ once' = once /\ SweepTo(s, sweep[s].todo, sweep[s].seen, None, "range")
      BY <1>7 DEF SweepClose, Shut, x
    <2>2. once'[c] = once[c] \/ (c = x /\ once'[c] = "busy")
      BY <1>2, <2>1 DEF TypeOK
    <2>3. Sweeping(c)' => Known(c)
      BY <1>2, <1>4, <2>1
    <2> QED
      BY <1>2, <2>1, <2>2, <2>3, Untouched
  <1>8. CASE SweepDelete(s)
    <2>1. /\ UNCHANGED <<held, connCh, reader, call>> /\ sweep[s].pc = "delete"
          /\ Delete(x.side, x.id) /\ once' = [once EXCEPT ![x] = "done"]
          /\ SweepTo(s, sweep[s].todo, sweep[s].seen, None, "range")
      BY <1>8 DEF SweepDelete, Forget, x
    <2>2. once'[c] = once[c] \/ c = x
      BY <1>2, <2>1 DEF TypeOK
    <2>3. /\ conns'[c.side][c.id] = c => conns[c.side][c.id] = c
          /\ c = x => conns'[c.side][c.id] # c
      BY <1>2, <2>1, Deleted
    <2>4. Sweeping(c)' => Known(c)
      BY <1>4, <2>1
    <2> QED
      BY <1>2, <2>1, <2>2, <2>3, <2>4, Untouched
  <1>9. CASE StopEnd(s) \/ SessionCloseRw(s) \/ RwClose(s) \/ SessionClosed(s)
    <2>1. UNCHANGED <<held, connCh, conns, reader, sweep, once, call>>
      BY <1>9 DEF StopEnd, SessionCloseRw, RwClose, SessionClosed
    <2> QED
      BY <2>1, Untouched
  <1> QED
    BY <1>5, <1>6, <1>7, <1>8, <1>9 DEF Stopping

LEMMA OtherFine ==
    ASSUME TypeOK, TableInv, [Next]_vars, NEW c \in Conn,
           \/ \E s \in Side : Writer(s) \/ Serving(s) \/ DialBegin(s) \/ SessionClose(s)
           \/ LinkFail \/ UNCHANGED vars
    PROVE  Fine(c)
  <1> USE DEF table, ends, data, queue, out, link, listen, stop, streams, system
  <1>1. CASE \E s \in Side : SessionClose(s) \/ WriterTop(s) \/ WriterSelect(s) \/ AcceptEnds(s)
    <2>1. UNCHANGED <<held, connCh, conns, reader, sweep, once, call>>
      BY <1>1 DEF SessionClose, WriterTop, WriterSelect, AcceptEnds
    <2> QED
      BY <2>1, Untouched
  <1>2. CASE LinkFail \/ UNCHANGED vars
    <2>1. UNCHANGED <<held, connCh, conns, reader, sweep, once, call>>
      BY <1>2 DEF LinkFail, vars
    <2> QED
      BY <2>1, Untouched
  <1>3. ASSUME NEW s \in Side, DialBegin(s) PROVE Fine(c)
    <2>1. UNCHANGED <<held, connCh, conns, reader, sweep, once>>
      BY <1>3 DEF DialBegin
    <2>2. call'["close"] = call["close"]
      BY <1>3 DEF DialBegin, SetCall, TypeOK, Kind
    <2> QED
      BY <2>1, <2>2, Untouched
  <1>4. ASSUME NEW s \in Side, Accept(s) PROVE Fine(c)
    <2>1. /\ UNCHANGED <<conns, reader, sweep, once, call>> /\ connCh[s] # <<>> /\ connCh[s] \in Seq(Conn)
          /\ held' = held \cup {Head(connCh[s])} /\ connCh' = [connCh EXCEPT ![s] = Tail(@)]
      BY <1>4 DEF Accept, TypeOK
    <2>2. c \in held' => Known(c) \/ Introduced(c)'
      <3>1. 1 \in 1..Len(connCh[s]) /\ Head(connCh[s]) = connCh[s][1]
        BY <2>1
      <3> QED
        BY <2>1, <3>1 DEF Known, Queued
    <2>3. Queued(c)' => Known(c)
      <3>1. ASSUME NEW t \in Side, NEW i \in 1..Len(connCh'[t]), connCh'[t][i] = c PROVE Known(c)
        <4>1. CASE t # s
          BY <2>1, <3>1, <4>1 DEF Known, Queued, TypeOK
        <4>2. CASE t = s
          <5>1. connCh'[s] = Tail(connCh[s])
            BY <2>1 DEF TypeOK
          <5>2. i + 1 \in 1..Len(connCh[s]) /\ connCh[s][i + 1] = c
            <6>1. i \in 1..Len(Tail(connCh[s])) /\ Tail(connCh[s])[i] = c
              BY <3>1, <4>2, <5>1
            <6>2. /\ connCh[s] \in Seq(Conn) /\ connCh[s] # <<>>
              BY <2>1
            <6> QED
              BY <6>1, <6>2
          <5> QED
            BY <5>2 DEF Known, Queued
        <4> QED
          BY <4>1, <4>2
      <3> QED
        BY <3>1 DEF Queued
    <2> QED
      BY <2>1, <2>2, <2>3, Untouched
  <1>5. ASSUME NEW s \in Side, WriterWrite(s) PROVE Fine(c)
    <2> DEFINE r == writer[s].req
    <2>1. r.kind \in Kind /\ r.from \in Conn /\ "close" \in Kind
      BY <1>5, WriterFacts, ConnFacts DEF WriterWrite, TypeOK, Kind
    <2>2. \/ call' = call
          \/ call[r.kind][r.from] = "wait" /\ \E v : SetCall(r.kind, r.from, v)
      BY <1>5 DEF WriterWrite, SetCall
    <2>3. UNCHANGED <<held, connCh, conns, reader, sweep, once>>
      BY <1>5 DEF WriterWrite
    <2> HIDE DEF r
    <2>4. call'["close"][c] = call["close"][c] \/ call["close"][c] = "wait"
      BY <2>1, <2>2, CallSet
    <2>5. call["close"][c] = "wait" => Known(c) /\ conns[c.side][c.id] # c
      BY DEF Known, TableInv, Gone
    <2> QED
      BY <2>3, <2>4, <2>5, Untouched
  <1> QED
    BY <1>1, <1>2, <1>3, <1>4, <1>5 DEF Writer, Serving

-----------------------------------------------------------------------------
(* The steps that store an end in the table: it is new to everybody.       *)
LEMMA StoreKeeps ==
    ASSUME TypeOK, TableInv, [Next]_vars, NEW c \in Conn, NEW x \in Conn,
           ~ Introduced(x), Introduced(x)',
           conns' = [conns EXCEPT ![x.side][x.id] = x],
           UNCHANGED <<held, connCh, sweep, once>>, call'["close"][c] = call["close"][c],
           Reading(c)' => Reading(c) \/ c = x
    PROVE  (Known(c)' => Introduced(c)') /\ Gone(c)'
  <1>1. (Known(c) => Introduced(c)) /\ Gone(c) /\ (Known(x) => Introduced(x)) /\ (Introduced(c) => Introduced(c)')
    BY NextIntroduced DEF TableInv
  <1>2. conns'[c.side][c.id] = IF c.side = x.side /\ c.id = x.id THEN x ELSE conns[c.side][c.id]
    BY ConnFacts DEF TypeOK
  <1>3. CASE c = x
    <2>1. ~ Known(c)
      BY <1>1, <1>3
    <2>2. once'[c] = "fresh" /\ call'["close"][c] = "idle"
      BY <2>1 DEF Known
    <2> QED
      BY <1>3, <2>2 DEF Gone
  <1>4. CASE c # x
    <2>1. conns'[c.side][c.id] = c => conns[c.side][c.id] = c
      BY <1>2, <1>4
    <2>2. Queued(c)' = Queued(c) /\ Sweeping(c)' = Sweeping(c)
      BY DEF Queued, Sweeping
    <2>3. Known(c)' => Known(c)
      BY <1>4, <2>1, <2>2 DEF Known
    <2> QED
      BY <1>1, <2>1, <2>3 DEF Gone
  <1> QED
    BY <1>3, <1>4

LEMMA NextEnds ==
    ASSUME TypeOK, TableInv, [Next]_vars, NEW c \in Conn
    PROVE  (Known(c)' => Introduced(c)') /\ Gone(c)'
  <1> USE DEF table, ends, data, queue, out, link, listen, stop, streams, system
  <1>1. ASSUME Fine(c) PROVE (Known(c)' => Introduced(c)') /\ Gone(c)'
    BY <1>1, FineKeeps, NextIntroduced
  <1>2. ASSUME NEW x \in Conn, DialStore(x) PROVE (Known(c)' => Introduced(c)') /\ Gone(c)'
    <2>1. /\ call["open"][x] = "new" /\ SetCall("open", x, "send") /\ conns' = [conns EXCEPT ![x.side][x.id] = x]
          /\ UNCHANGED <<held, connCh, sweep, once, reader>>
      BY <1>2 DEF DialStore
    <2>2. call'["open"][x] = "send" /\ call'["close"][c] = call["close"][c]
      BY <2>1, CallSet DEF Kind
    <2>3. x.role = "dial"
      BY <2>1 DEF TableInv, Numbered
    <2>4. ~ Introduced(x) /\ Introduced(x)'
      BY <2>1, <2>2, <2>3 DEF Introduced
    <2>5. Reading(c)' => Reading(c)
      BY <2>1 DEF Reading
    <2> QED
      BY <2>1, <2>2, <2>4, <2>5, StoreKeeps
  <1>3. ASSUME NEW s \in Side, Receive(s), Head(wire[Peer(s)]).kind = "open"
        PROVE  (Known(c)' => Introduced(c)') /\ Gone(c)'
    <2>0. PICK r \in Record : r = Head(wire[Peer(s)]) /\ r.kind = "open"
      BY <1>3, RecordQueues, ConnFacts DEF Receive, TypeOK
    <2> DEFINE x == AcceptEnd(s, r.from.id)
    <2>2. /\ UNCHANGED <<held, connCh, sweep, once, call>> /\ ReaderGoto(s, "opened", x, None)
          /\ conns' = [conns EXCEPT ![s][r.from.id] = x]
      BY <1>3, <2>0 DEF Receive
    <2>1. x \in Conn /\ x.side = s /\ x.id = r.from.id /\ ~ Introduced(x) /\ Introduced(x)'
      BY <1>3, <2>0, Received
    <2> HIDE DEF x
    <2>3. conns' = [conns EXCEPT ![x.side][x.id] = x]
      BY <2>1, <2>2
    <2>4. Reading(c)' => Reading(c) \/ c = x
      BY <2>2 DEF Reading, ReaderGoto, ReaderAt, TypeOK
    <2>5. UNCHANGED <<held, connCh, sweep, once>> /\ call'["close"][c] = call["close"][c]
      BY <2>2
    <2> QED
      BY <2>1, <2>3, <2>4, <2>5, StoreKeeps
  <1>4. ASSUME NEW s \in Side, Reader(s), Receive(s) => Head(wire[Peer(s)]).kind # "open"
        PROVE  (Known(c)' => Introduced(c)') /\ Gone(c)'
    BY <1>1, <1>4, ReaderFine
  <1>5. ASSUME NEW x \in Conn, AppRead(x) \/ AppStart(x) \/ (AppCall(x) /\ ~ DialStore(x))
        PROVE  (Known(c)' => Introduced(c)') /\ Gone(c)'
    BY <1>1, <1>5, AppFine
  <1>6. ASSUME NEW s \in Side, Stopping(s) PROVE (Known(c)' => Introduced(c)') /\ Gone(c)'
    BY <1>1, <1>6, StoppingFine
  <1>7. ASSUME \/ \E s \in Side : Writer(s) \/ Serving(s) \/ DialBegin(s) \/ SessionClose(s)
               \/ LinkFail \/ UNCHANGED vars
        PROVE  (Known(c)' => Introduced(c)') /\ Gone(c)'
    BY <1>1, <1>7, OtherFine
  <1> QED
    BY <1>2, <1>3, <1>4, <1>5, <1>6, <1>7 DEF Next

(* The table keeps its ends under their ids.                               *)
LEMMA NextFiled ==
    ASSUME TypeOK, TableInv, [Next]_vars, NEW s \in Side
    PROVE  Filed(s)'
  <1> USE DEF table, ends, data, queue, out, link, listen, stop, streams, system
  <1>1. Filed(s) /\ conns \in [Side -> [Id -> Conn \cup {None}]]
    BY DEF TableInv, TypeOK
  <1>2. ASSUME conns' = conns PROVE Filed(s)'
    BY <1>1, <1>2 DEF Filed
  <1>3. ASSUME NEW t \in Side, NEW i \in Id, NEW v,
               v = None \/ (v.side = t /\ v.id = i), conns' = [conns EXCEPT ![t][i] = v]
        PROVE  Filed(s)'
    <2>1. \A j \in Id : conns'[s][j] = IF s = t /\ j = i THEN v ELSE conns[s][j]
      BY <1>1, <1>3
    <2> QED
      BY <1>1, <1>3, <2>1 DEF Filed
  <1>4. ASSUME NEW t \in Side, NEW i \in Id, Delete(t, i) PROVE Filed(s)'
    BY <1>3, <1>4 DEF Delete
  <1>5. ASSUME NEW c \in Conn, AppCall(c) PROVE Filed(s)'
    <2>1. c.side \in Side /\ c.id \in Id
      BY ConnFacts
    <2>2. CASE DialStore(c)
      BY <1>3, <2>1, <2>2 DEF DialStore
    <2>3. CASE DialReturn(c) \/ CloseDelete(c)
      BY <1>2, <1>4, <2>1, <2>3 DEF DialReturn, CloseDelete
    <2>4. CASE WriteReturn(c) \/ CloseReturn(c) \/ \E k \in Kind : Enqueue(k, c)
      BY <1>2, <2>4 DEF WriteReturn, CloseReturn, Enqueue
    <2> QED
      BY <1>5, <2>2, <2>3, <2>4 DEF AppCall
  <1>6. ASSUME NEW t \in Side, Receive(t) PROVE Filed(s)'
    <2>1. Head(wire[Peer(t)]).from.id \in Id
      BY <1>6, RecordQueues, ConnFacts DEF Receive, TypeOK
    <2>2. \A i \in Id : AcceptEnd(t, i).side = t /\ AcceptEnd(t, i).id = i
      BY DEF AcceptEnd
    <2>3. \/ conns' = conns
          \/ conns' = [conns EXCEPT ![t][Head(wire[Peer(t)]).from.id] = AcceptEnd(t, Head(wire[Peer(t)]).from.id)]
      BY <1>6 DEF Receive
    <2> QED
      BY <1>2, <1>3, <2>1, <2>2, <2>3
  <1>7. ASSUME NEW t \in Side, RejectReturn(t) \/ CloseRecordDelete(t) PROVE Filed(s)'
    <2>1. reader[t].c \in Conn /\ reader[t].c.side \in Side /\ reader[t].c.id \in Id
      BY <1>7, ReaderFacts, ConnFacts DEF RejectReturn, CloseRecordDelete, TypeOK
    <2> QED
      BY <1>4, <1>7, <2>1 DEF RejectReturn, CloseRecordDelete, Forget
  <1>8. ASSUME NEW t \in Side, SweepDelete(t) PROVE Filed(s)'
    <2>1. sweep[t].c \in Conn /\ sweep[t].c.side \in Side /\ sweep[t].c.id \in Id
      BY <1>8, SweepFacts, ConnFacts DEF SweepDelete, TypeOK
    <2> QED
      BY <1>4, <1>8, <2>1 DEF SweepDelete, Forget
  <1>9. ASSUME NEW t \in Side,
               \/ Writer(t) \/ Serving(t) \/ DialBegin(t) \/ SessionClose(t)
               \/ OpenQueued(t) \/ OpenRejected(t) \/ Deliver(t) \/ CloseRecord(t) \/ ReadFails(t) \/ ReaderExits(t)
        PROVE  Filed(s)'
    BY <1>2, <1>9 DEF Writer, WriterTop, WriterSelect, WriterWrite, Serving, Accept, AcceptEnds, DialBegin,
       SessionClose, OpenQueued, OpenRejected, Deliver, CloseRecord, ReadFails, ReaderExits
  <1>10. ASSUME NEW t \in Side, StopBegin(t) \/ SweepVisit(t) \/ SweepClose(t) \/ StopEnd(t) \/ SessionCloseRw(t)
                                \/ RwClose(t) \/ SessionClosed(t)
         PROVE  Filed(s)'
    BY <1>2, <1>10 DEF StopBegin, SweepVisit, SweepClose, StopEnd, SessionCloseRw, RwClose, SessionClosed
  <1>11. ASSUME NEW c \in Conn, AppRead(c) \/ AppStart(c) PROVE Filed(s)'
    BY <1>2, <1>11 DEF AppRead, AppStart, ReadData, ReadClosed, WriteBegin, CloseBegin
  <1>12. LinkFail \/ UNCHANGED vars => Filed(s)'
    BY <1>2 DEF LinkFail, vars
  <1> QED
    BY <1>5, <1>6, <1>7, <1>8, <1>9, <1>10, <1>11, <1>12 DEF Next, Reader, Stopping

LEMMA InitTable == Init => TableInv
  <1> SUFFICES ASSUME Init PROVE TableInv
    OBVIOUS
  <1>1. ASSUME NEW s \in Side
        PROVE  /\ ctl[s] = <<>> /\ dat[s] = <<>> /\ wire[s] = <<>> /\ connCh[s] = <<>>
               /\ writer[s].pc = "top" /\ reader[s].pc = "read" /\ sweep[s].pc = "range" /\ sweep[s].todo = {}
               /\ \A i \in Id : conns[s][i] = None
    BY DEF Init
  <1>2. Len(<<>>) = 0
    OBVIOUS
  <1>3. ASSUME NEW s \in Side, NEW d \in Conn PROVE OpenOnce(s, d)
    <2>1. ~ Carries(ctl[s], d) /\ ~ Carries(wire[s], d) /\ Single(ctl[s], d) /\ Single(wire[s], d)
      BY <1>1, <1>2 DEF Carries, Single
    <2>2. ~ InHand(s, d)
      BY <1>1 DEF InHand, Writing
    <2> QED
      BY <2>1, <2>2 DEF OpenOnce, Coming
  <1>4. ASSUME NEW s \in Side PROVE Filed(s) /\ \A i \in 1..Len(dat[s]) : dat[s][i].kind = "data"
    BY <1>1, <1>2 DEF Filed
  <1>5. ASSUME NEW c \in Conn PROVE Numbered(c) /\ (Known(c) => Introduced(c)) /\ Gone(c)
    <2>1. once[c] = "fresh" /\ call["open"][c] = "idle" /\ call["close"][c] = "idle" /\ c \notin held
      BY DEF Init, Kind
    <2>2. ~ Queued(c) /\ ~ Reading(c) /\ ~ Sweeping(c)
      BY <1>1, <1>2 DEF Queued, Reading, Sweeping
    <2>3. conns[c.side][c.id] # c
      BY <1>1, ConnFacts
    <2> QED
      BY <2>1, <2>2, <2>3 DEF Numbered, Known, Gone
  <1> QED
    BY <1>3, <1>4, <1>5 DEF TableInv

(* The table is in order in every reachable state.                         *)
LEMMA TableHolds == Spec => []TableInv
  <1>1. TypeOK /\ TableInv /\ [Next]_vars => TableInv'
    <2> SUFFICES ASSUME TypeOK, TableInv, [Next]_vars PROVE TableInv'
      OBVIOUS
    <2>1. ASSUME NEW s \in Side
          PROVE  (Filed(s) /\ \A i \in 1..Len(dat[s]) : dat[s][i].kind = "data")'
      BY NextFiled, NextData
    <2>2. ASSUME NEW s \in Side, NEW d \in Conn PROVE OpenOnce(s, d)'
      BY NextOpening
    <2>3. ASSUME NEW c \in Conn PROVE Numbered(c)' /\ (Known(c)' => Introduced(c)') /\ Gone(c)'
      BY NextCall, NextEnds
    <2> QED
      BY <2>1, <2>2, <2>3 DEF TableInv
  <1> QED
    BY <1>1, InitTable, TypeCorrect, PTL DEF Spec

-----------------------------------------------------------------------------
(* closeAll leaves none behind that was there when it began.  The ends it  *)
(* found have different ids; one that it has visited is in the table only  *)
(* until it has closed it; and nothing stores an end a second time.        *)
Swept(c) ==
    c \in sweep[c.side].todo =>
        /\ \A d \in sweep[c.side].todo : d.id = c.id => d = c
        /\ conns[c.side][c.id] = c =>
               /\ c.id \in sweep[c.side].seen =>
                      sweep[c.side].pc \in {"close", "delete"} /\ sweep[c.side].c = c
               /\ stopOnce[c.side] # "done"

(* Only closeAll's own steps touch its Range and closeOnce.                *)
LEMMA StopFrame ==
    ASSUME TypeOK, [Next]_vars, NEW s \in Side
    PROVE  \/ StopBegin(s) \/ SweepVisit(s) \/ SweepClose(s) \/ SweepDelete(s) \/ StopEnd(s)
           \/ sweep'[s] = sweep[s] /\ stopOnce'[s] = stopOnce[s]
  <1> USE DEF stop, streams, system
  <1> DEFINE Same == sweep'[s] = sweep[s] /\ stopOnce'[s] = stopOnce[s]
  <1>1. ASSUME UNCHANGED <<sweep, stopOnce>> PROVE Same
    BY <1>1
  <1>2. ASSUME NEW c \in Conn, AppCall(c) \/ AppRead(c) \/ AppStart(c) PROVE Same
    BY <1>1, <1>2 DEF AppCall, AppRead, AppStart, DialStore, DialReturn, WriteReturn, CloseDelete, CloseReturn,
       Enqueue, ReadData, ReadClosed, WriteBegin, CloseBegin
  <1>3. ASSUME NEW t \in Side, Writer(t) \/ Reader(t) \/ Serving(t) \/ DialBegin(t) \/ SessionClose(t) PROVE Same
    BY <1>1, <1>3 DEF Writer, WriterTop, WriterSelect, WriterWrite, Reader, Receive, OpenQueued, OpenRejected,
       RejectReturn, Deliver, CloseRecord, CloseRecordDelete, ReadFails, ReaderExits, Serving, Accept, AcceptEnds,
       DialBegin, SessionClose
  <1>4. ASSUME NEW t \in Side, SessionCloseRw(t) \/ RwClose(t) \/ SessionClosed(t) PROVE Same
    BY <1>1, <1>4 DEF SessionCloseRw, RwClose, SessionClosed
  <1>5. ASSUME NEW t \in Side, t # s,
               StopBegin(t) \/ SweepVisit(t) \/ SweepClose(t) \/ SweepDelete(t) \/ StopEnd(t)
        PROVE  Same
    BY <1>5 DEF StopBegin, SweepVisit, SweepClose, SweepDelete, StopEnd, SweepTo, TypeOK
  <1>6. LinkFail \/ UNCHANGED vars => Same
    BY <1>1 DEF LinkFail, vars
  <1> HIDE DEF Same
  <1>7. \/ StopBegin(s) \/ SweepVisit(s) \/ SweepClose(s) \/ SweepDelete(s) \/ StopEnd(s)
        \/ Same
    BY <1>2, <1>3, <1>4, <1>5, <1>6 DEF Next, Stopping
  <1> QED
    BY <1>7 DEF Same

(* An end that is known and not in the table does not come back to it.     *)
LEMMA NotStoredAgain ==
    ASSUME TypeOK, TableInv, [Next]_vars, NEW c \in Conn, Known(c), conns'[c.side][c.id] = c
    PROVE  conns[c.side][c.id] = c
  <1> USE DEF table, ends, data, queue, out, link, listen, stop, streams, system
  <1>1. Introduced(c)
    BY DEF TableInv
  <1>2. ASSUME Fine(c) PROVE conns[c.side][c.id] = c
    BY <1>2 DEF Fine
  <1>3. ASSUME NEW x \in Conn, ~ Introduced(x), conns' = [conns EXCEPT ![x.side][x.id] = x]
        PROVE  conns[c.side][c.id] = c
    <2>1. conns'[c.side][c.id] = IF c.side = x.side /\ c.id = x.id THEN x ELSE conns[c.side][c.id]
      BY <1>3, ConnFacts DEF TypeOK
    <2> QED
      BY <1>1, <1>3, <2>1
  <1>4. ASSUME NEW x \in Conn, DialStore(x) PROVE conns[c.side][c.id] = c
    <2>1. x.role = "dial" /\ call["open"][x] = "new"
      BY <1>4 DEF DialStore, TableInv, Numbered
    <2>2. ~ Introduced(x)
      BY <2>1 DEF Introduced
    <2> QED
      BY <1>3, <1>4, <2>2 DEF DialStore
  <1>5. ASSUME NEW s \in Side, Receive(s), Head(wire[Peer(s)]).kind = "open" PROVE conns[c.side][c.id] = c
    <2>1. PICK r \in Record : r = Head(wire[Peer(s)]) /\ r.kind = "open"
      BY <1>5, RecordQueues, ConnFacts DEF Receive, TypeOK
    <2> DEFINE x == AcceptEnd(s, r.from.id)
    <2>2. conns' = [conns EXCEPT ![s][r.from.id] = x]
      BY <1>5, <2>1 DEF Receive
    <2>3. x \in Conn /\ x.side = s /\ x.id = r.from.id /\ ~ Introduced(x)
      BY <1>5, <2>1, Received
    <2> HIDE DEF x
    <2> QED
      BY <1>3, <2>2, <2>3
  <1>6. ASSUME NEW s \in Side, Reader(s), Receive(s) => Head(wire[Peer(s)]).kind # "open"
        PROVE  conns[c.side][c.id] = c
    BY <1>2, <1>6, ReaderFine
  <1>7. ASSUME NEW x \in Conn, AppRead(x) \/ AppStart(x) \/ (AppCall(x) /\ ~ DialStore(x))
        PROVE  conns[c.side][c.id] = c
    BY <1>2, <1>7, AppFine
  <1>8. ASSUME NEW s \in Side, Stopping(s) PROVE conns[c.side][c.id] = c
    BY <1>2, <1>8, StoppingFine
  <1>9. ASSUME \/ \E s \in Side : Writer(s) \/ Serving(s) \/ DialBegin(s) \/ SessionClose(s)
               \/ LinkFail \/ UNCHANGED vars
        PROVE  conns[c.side][c.id] = c
    BY <1>2, <1>9, OtherFine
  <1> QED
    BY <1>4, <1>5, <1>6, <1>7, <1>8, <1>9 DEF Next

(* Every step keeps it.                                                    *)
LEMMA NextSwept ==
    ASSUME TypeOK, TableInv, [Next]_vars, NEW c \in Conn, Swept(c)
    PROVE  Swept(c)'
  <1> DEFINE s == c.side
             i == c.id
  <1>1. s \in Side /\ i \in Id /\ c # None /\ sweep[s] \in SweepState
    BY ConnFacts DEF TypeOK
  <1>2. ASSUME c \in sweep[s].todo, conns'[s][i] = c PROVE conns[s][i] = c
    <2>1. Known(c)
      BY <1>1, <1>2 DEF Known, Sweeping
    <2> QED
      BY <1>2, <2>1, NotStoredAgain
  <1>3. \A y \in Registered(s) : y \in Conn /\ y = conns[s][y.id]
    <2>1. ASSUME NEW y \in Registered(s) PROVE y \in Conn /\ y = conns[s][y.id]
      <3>1. PICK j \in Id : y = conns[s][j] /\ conns[s][j] # None
        BY <2>1 DEF Registered
      <3> QED
        BY <1>1, <3>1, InTable
    <2> QED
      BY <2>1
  <1> HIDE DEF s, i
  <1>4. ASSUME NEW todo, NEW seen, NEW y, NEW pc, SweepTo(s, todo, seen, y, pc)
        PROVE  sweep'[s] = [todo |-> todo, seen |-> seen, c |-> y, pc |-> pc]
    BY <1>1, <1>4 DEF SweepTo, TypeOK
  <1>5. Swept(c) <=> (c \in sweep[s].todo =>
            /\ \A d \in sweep[s].todo : d.id = i => d = c
            /\ conns[s][i] = c => /\ i \in sweep[s].seen => sweep[s].pc \in {"close", "delete"} /\ sweep[s].c = c
                                  /\ stopOnce[s] # "done")
    BY DEF Swept, s, i
  <1>6. Swept(c)' <=> (c \in sweep'[s].todo =>
            /\ \A d \in sweep'[s].todo : d.id = i => d = c
            /\ conns'[s][i] = c => /\ i \in sweep'[s].seen => sweep'[s].pc \in {"close", "delete"} /\ sweep'[s].c = c
                                   /\ stopOnce'[s] # "done")
    BY DEF Swept, s, i
  <1>7. CASE sweep'[s] = sweep[s] /\ stopOnce'[s] = stopOnce[s]
    BY <1>2, <1>5, <1>6, <1>7
  <1>8. CASE StopBegin(s)
    <2>1. sweep'[s] = [todo |-> Registered(s), seen |-> {}, c |-> None, pc |-> "range"]
      BY <1>4, <1>8 DEF StopBegin
    <2>2. stopOnce'[s] = "busy"
      BY <1>1, <1>8 DEF StopBegin, TypeOK
    <2> QED
      BY <1>3, <1>6, <2>1, <2>2 DEF i
  <1>9. CASE SweepVisit(s)
    <2>1. PICK y \in sweep[s].todo \cup Registered(s) :
              SweepTo(s, sweep[s].todo, sweep[s].seen \cup {y.id}, y, "close")
      BY <1>9 DEF SweepVisit
    <2>2. sweep'[s] = [todo |-> sweep[s].todo, seen |-> sweep[s].seen \cup {y.id}, c |-> y, pc |-> "close"]
      BY <1>4, <2>1
    <2>3. conns' = conns /\ stopOnce' = stopOnce /\ sweep[s].pc = "range"
      BY <1>9 DEF SweepVisit, streams, table
    <2>4. ASSUME c \in sweep[s].todo, conns[s][i] = c, y.id = i PROVE y = c
      BY <1>3, <1>5, <2>1, <2>4
    <2> QED
      BY <1>5, <1>6, <2>2, <2>3, <2>4
  <1>10. CASE SweepClose(s)
    <2>1. /\ conns' = conns /\ stopOnce' = stopOnce /\ sweep[s].pc = "close"
          /\ \/ sweep'[s] = [todo |-> sweep[s].todo, seen |-> sweep[s].seen, c |-> sweep[s].c, pc |-> "delete"]
             \/ /\ sweep'[s] = [todo |-> sweep[s].todo, seen |-> sweep[s].seen, c |-> None, pc |-> "range"]
                /\ once[sweep[s].c] = "done"
      BY <1>4, <1>10 DEF SweepClose, table
    <2>2. once[c] = "done" => conns[s][i] # c
      BY DEF TableInv, Gone, s, i
    <2> QED
      BY <1>5, <1>6, <2>1, <2>2
  <1>11. CASE SweepDelete(s)
    <2>1. /\ sweep[s].pc = "delete" /\ Delete(sweep[s].c.side, sweep[s].c.id) /\ stopOnce' = stopOnce
          /\ sweep'[s] = [todo |-> sweep[s].todo, seen |-> sweep[s].seen, c |-> None, pc |-> "range"]
      BY <1>4, <1>11 DEF SweepDelete, Forget
    <2>2. sweep[s].c = c => conns'[s][i] # c
      BY <1>1, <2>1, Deleted DEF s, i
    <2> QED
      BY <1>2, <1>5, <1>6, <2>1, <2>2
  <1>12. CASE StopEnd(s)
    <2>1. /\ conns' = conns /\ sweep' = sweep /\ sweep[s].pc = "range"
          /\ \A d \in sweep[s].todo : d.id \in sweep[s].seen \/ d \notin Registered(s)
      BY <1>12 DEF StopEnd, streams, table
    <2>2. conns[s][i] = c => c \in Registered(s)
      BY <1>1 DEF Registered
    <2> QED
      BY <1>5, <1>6, <2>1, <2>2 DEF i
  <1> QED
    BY <1>1, <1>7, <1>8, <1>9, <1>10, <1>11, <1>12, StopFrame

(* What closeAll found is out of the table when it has ended.              *)
LEMMA SweptHolds == Spec => [](\A c \in Conn : Swept(c))
  <1> DEFINE I == \A c \in Conn : Swept(c)
  <1>1. Init => I
    BY ConnFacts DEF Init, Swept
  <1>2. TypeOK /\ TableInv /\ I /\ [Next]_vars => I'
    BY NextSwept
  <1> HIDE DEF I
  <1>3. Spec => []I
    BY <1>1, <1>2, TypeCorrect, TableHolds, PTL DEF Spec
  <1> QED
    BY <1>3 DEF I

(* A connection whose close ran to its end is not in Session.conns, and    *)
(* nothing stores it there again, whoever closed it: Close, a MsgClose or  *)
(* closeAll; and when closeAll has ended, none is there that it found when *)
(* it began.  It holds for ends dialled from both sides under one id, too. *)
THEOREM NoLeakHolds == Spec => []NoLeak
  <1> DEFINE I == \A c \in Conn : Swept(c)
  <1>1. TypeOK /\ TableInv /\ I => NoLeak
    <2> SUFFICES ASSUME TypeOK, TableInv, I, NEW s \in Side, NEW i \in Id, conns[s][i] # None
                 PROVE  /\ once[conns[s][i]] # "done" /\ conns[s][i].side = s /\ conns[s][i].id = i
                        /\ stopOnce[s] = "done" => conns[s][i] \notin sweep[s].todo
      BY DEF NoLeak
    <2>1. conns[s][i] \in Conn /\ conns[s][i].side = s /\ conns[s][i].id = i
      BY InTable
    <2>2. Gone(conns[s][i]) /\ Swept(conns[s][i])
      BY <2>1 DEF TableInv
    <2> QED
      BY <2>1, <2>2 DEF Gone, Swept
  <1>2. Spec => []I
    BY SweptHolds
  <1> HIDE DEF I
  <1> QED
    BY <1>1, <1>2, TableHolds, TypeCorrect, PTL

=============================================================================
