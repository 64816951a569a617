-------------------------- MODULE Transfer_proofs --------------------------
(***************************************************************************)
(* Proofs about Transfer, for every set of scenarios and all bounds: type  *)
(* correctness, WorkerCleansUp, WholeFiles and CleanEnd.                   *)
(***************************************************************************)
EXTENDS TransferProperties, Induction

(* How main.ts and ww keep track of connections.  Nothing is on its way on *)
(* a connection that is not there; one that a side has yet to open is the  *)
(* only one, and until then the side has no datachannel; and one is closed *)
(* only by ww send, when it has written everything.                        *)
EmptyInv(c) ==
    /\ link[c] \in {"none", "lost"} => net[c] = <<>>
    /\ link[c] = "none" =>
          buf[c] = <<>> /\ opened[c] = {} /\ \A d \in Conn : d > c => link[d] = "none"
Live(c) == link[c] \in {"open", "closed"}
PendingInv(p, c) ==
    Live(c) /\ p \notin opened[c] =>
        /\ datachannel[p] = 0 /\ (~Page(p) => state[p] = "dialling")
        /\ \A d \in Conn : d # c /\ Live(d) => p \in opened[d]
ChannelInv(p) ==
    /\ datachannel[p] # 0 => p \in opened[datachannel[p]]
    /\ (state[p] \in {"disconnected", "dialling"} \/ ~Page(p)) => datachannel[p] = 0
    /\ ~Page(p) /\ p \in opened[GoConn] => state[p] # "dialling"
ClosedInv(c) ==
    link[c] = "closed" =>
        /\ ~Page("s") /\ c = GoConn /\ buf[c] = <<>>
        /\ gosend.written = Len(Messages) /\ gosend.at = "exit" /\ "s" \in opened[c]
LinkInv ==
    /\ \A c \in Conn : EmptyInv(c) /\ ClosedInv(c)
    /\ \A p \in Side : ChannelInv(p) /\ \A c \in Conn : PendingInv(p, c)

(* One upload at a time is suspended, and none without sending.            *)
UploadInv ==
    /\ (sending = 0 \/ ~Page("s")) => uploads = {}
    /\ \A u, v \in uploads : u = v
    /\ \A u \in uploads : u.offset <= batch[u.item].size /\ link[u.dc] # "none"

(* What is on its way on a connection, and which message may follow which. *)
Way(c) == net[c] \o buf[c]
Follows(a, b) ==
    IF a.part < batch[a.item].size THEN b = [item |-> a.item, part |-> a.part + 1]
    ELSE b.part = 0

(* m is the last message that the sender has put on c.                     *)
Ends(c, m) ==
    IF Page("s")
    THEN \/ \E u \in uploads : u.dc = c /\ m = [item |-> u.item, part |-> u.offset]
         \/ m.part = batch[m.item].size /\ \A u \in uploads : u.dc # c
    ELSE c = GoConn /\ gosend.written > 0 /\ m = Messages[gosend.written]

(* q is what the sender has put on c, from some message on.                *)
Chain(c, q) ==
    /\ \A k \in 1..(Len(q) - 1) : Follows(q[k], q[k + 1])
    /\ q # <<>> => Ends(c, q[Len(q)])
WayInv(c) == Live(c) => Chain(c, Way(c))

(* The receiver's place in a file, and the connection it is fed from.      *)
Feeds(c) == IF Page("r") THEN datachannel["r"] = c ELSE c = GoConn
Place == [item |-> receiving.item, part |-> Len(receiving.data)]
Within == receiving.item # 0 /\ Len(receiving.data) < batch[receiving.item].size

CurrentInv ==
    receiving.item # 0 =>
        /\ receiving.data = Chunks(receiving.item, 0, Len(receiving.data))
        /\ ~Within => Page("r") /\ receiving.data = <<>>
        /\ IF Page("r") THEN datachannel["r"] # 0 ELSE "r" \in opened[GoConn]
FeedInv(c) == Within /\ Feeds(c) /\ Live(c) => Chain(c, <<Place>> \o Way(c))
SavedInv == \A f \in saved : f.data = Content(f.item)
ReceiveInv == CurrentInv /\ SavedInv /\ \A c \in Conn : FeedInv(c)

(* Which of the two listeners of sw.ts removes an entry.                   *)
EntryInv(id) ==
    IF streams[id].kind = "placeholder" THEN id \notin nav \cup served
    ELSE /\ id \in DOMAIN body
         /\ body[id].state = "closed" => streams[id].streamHandled /\ ~streams[id].requestHandled
         /\ id \in served => streams[id].requestHandled
WorkerInv ==
    /\ DOMAIN streams \cup DOMAIN body \cup nav \subseteq DOMAIN downloads
    /\ served \subseteq DOMAIN body /\ nav \cap served = {}
    /\ \A i \in DOMAIN post : post[i].id \in DOMAIN downloads
    /\ \A i \in DOMAIN post : post[i].type = "metadata" =>
            /\ post[i].id \notin DOMAIN body
            /\ \A j \in DOMAIN post : j # i /\ post[j].type = "metadata" => post[j].id # post[i].id
    /\ \A id \in DOMAIN streams : EntryInv(id)
    /\ Via /\ receiving.item # 0 =>
            receiving.id \in DOMAIN downloads /\ downloads[receiving.id] = receiving.item

(* Before place j of post are all of the first n chunks of a download that *)
(* the worker has not had.                                                 *)
DataAt(k, id, o) == post[k].type = "data" /\ post[k].id = id /\ post[k].offset = o
Posted(id, n, j) ==
    /\ Usable(id) => \A o \in streams[id].offset..(n - 1) :
                        \E k \in DOMAIN post : k < j /\ DataAt(k, id, o)
    /\ \A i \in DOMAIN post : post[i].type = "metadata" /\ post[i].id = id /\ i < j =>
            \A o \in 0..(n - 1) : \E k \in DOMAIN post : i < k /\ k < j /\ DataAt(k, id, o)
PlaceInv(i) ==
    /\ post[i].type = "data" =>
          /\ post[i].data = [item |-> downloads[post[i].id], part |-> post[i].offset + 1]
          /\ post[i].offset < batch[downloads[post[i].id]].size
    /\ post[i].type = "end" => Posted(post[i].id, batch[downloads[post[i].id]].size, i)
BodyInv(id) ==
    /\ Usable(id) => /\ body[id].data = Chunks(downloads[id], 0, streams[id].offset)
                     /\ streams[id].offset <= batch[downloads[id]].size
    /\ body[id].state = "closed" => body[id].data = Content(downloads[id])
PageInv == Via /\ receiving.item # 0 => Posted(receiving.id, Len(receiving.data), Len(post) + 1)
DataInv == PageInv /\ (\A i \in DOMAIN post : PlaceInv(i)) /\ \A id \in DOMAIN body : BodyInv(id)

(* Between ww send and ww receive: how many messages the receiver has      *)
(* taken, and what it has after t of them.                                 *)
Going == ~Page("s") /\ ~Page("r") /\ link[GoConn] # "lost" /\ goreceive = "read"
Taken == gosend.written - Len(Way(GoConn))
Whole(m) == m.part = batch[m.item].size
SavedItems == {f.item : f \in saved}
HasTaken(t) ==
    IF t = 0 THEN SavedItems = {} /\ receiving.item = 0
    ELSE LET m == Messages[t]
         IN  /\ SavedItems = 1..(IF Whole(m) THEN m.item ELSE m.item - 1)
             /\ IF Whole(m) THEN receiving.item = 0
                ELSE receiving.item = m.item /\ Len(receiving.data) = m.part
CountInv ==
    Going => /\ Taken \in Nat /\ HasTaken(Taken)
             /\ \A k \in 1..Len(Way(GoConn)) : Way(GoConn)[k] = Messages[Taken + k]

(* The inductive invariants of WholeFiles and of CleanEnd.                 *)
FileInv ==
    /\ LinkInv /\ UploadInv /\ WorkerInv /\ \A c \in Conn : WayInv(c)
    /\ late \/ (ReceiveInv /\ DataInv)
EndInv == LinkInv /\ UploadInv /\ WorkerInv /\ CountInv /\ CleanEnd
-----------------------------------------------------------------------------
(* What ww send writes for a batch b, as a walk through its messages.      *)

MessageOf(b) == {m \in [item: 1..Len(b), part: Nat] : m.part <= b[m.item].size}
Parts(b, i) == <<Header(i)>> \o Chunks(i, 0, b[i].size)
Written(b) == FlattenSeq([i \in 1..Len(b) |-> Parts(b, i)])
After(b, m) ==
    IF m.part < b[m.item].size THEN [item |-> m.item, part |-> m.part + 1] ELSE Header(m.item + 1)
WalkTo(b, q, n) ==
    /\ q \in Seq(MessageOf(b)) /\ Len(q) > 0
    /\ q[1] = Header(1) /\ q[Len(q)] = [item |-> n, part |-> b[n].size]
    /\ \A t \in 1..(Len(q) - 1) : q[t + 1] = After(b, q[t])

(* The size of an upload.                                                  *)
LEMMA SizeIsNat ==
    ASSUME NEW b \in Seq(Upload), NEW i \in 1..Len(b)
    PROVE  b[i].size \in Nat
<1>1. b[i] \in Upload
  OBVIOUS
<1> QED
  BY <1>1 DEF Upload

(* A header and its chunks are numbered through.                           *)
LEMMA PartsAre ==
    ASSUME NEW b \in Seq(Upload), NEW i \in 1..Len(b)
    PROVE  /\ Parts(b, i) \in Seq(MessageOf(b)) /\ Len(Parts(b, i)) = b[i].size + 1
           /\ \A k \in 1..(b[i].size + 1) : Parts(b, i)[k] = [item |-> i, part |-> k - 1]
<1>1. b[i].size \in Nat
  BY SizeIsNat
<1> DEFINE s == b[i].size
           h == <<Header(i)>>
           q == Chunks(i, 0, s)
<1>2. Header(i) \in MessageOf(b) /\ \A k \in 1..s : [item |-> i, part |-> 0 + k] \in MessageOf(b)
  BY <1>1 DEF MessageOf, Header
<1>3. q \in Seq(MessageOf(b)) /\ Len(q) = s /\ \A k \in 1..s : q[k] = [item |-> i, part |-> k]
  BY <1>1, <1>2 DEF Chunks
<1>4. h \in Seq(MessageOf(b)) /\ Len(h) = 1 /\ h[1] = [item |-> i, part |-> 0]
  BY <1>2 DEF Header
<1>5. Parts(b, i) = h \o q
  BY DEF Parts
<1> HIDE DEF s, h, q
<1>6. /\ Parts(b, i) \in Seq(MessageOf(b)) /\ Len(Parts(b, i)) = 1 + s
      /\ Parts(b, i)[1] = h[1] /\ \A t \in 1..s : Parts(b, i)[1 + t] = q[t]
  <2>1. /\ h \o q \in Seq(MessageOf(b)) /\ Len(h \o q) = Len(h) + Len(q)
        /\ \A t \in 1..Len(h) : (h \o q)[t] = h[t]
        /\ \A t \in 1..Len(q) : (h \o q)[Len(h) + t] = q[t]
    <3>1. h \in Seq(MessageOf(b)) /\ q \in Seq(MessageOf(b))
      BY <1>3, <1>4
    <3> QED
      BY <3>1
  <2> QED
    BY <2>1, <1>3, <1>4, <1>5
<1>7. ASSUME NEW k \in 1..(s + 1) PROVE Parts(b, i)[k] = [item |-> i, part |-> k - 1]
  <2>1. CASE k = 1
    BY <2>1, <1>4, <1>6
  <2>2. CASE k # 1
    <3>1. k - 1 \in 1..s /\ k = 1 + (k - 1)
      BY <2>2, <1>1 DEF s
    <3>2. Parts(b, i)[k] = q[k - 1]
      BY <3>1, <1>6
    <3> QED
      BY <3>1, <3>2, <1>3
  <2> QED
    BY <2>1, <2>2
<1> QED
  BY <1>1, <1>6, <1>7 DEF s

(* The first file alone, and one file more.                                *)
LEMMA WalkStarts ==
    ASSUME NEW b \in Seq(Upload), Len(b) > 0
    PROVE  WalkTo(b, Parts(b, 1), 1)
<1>1. 1 \in 1..Len(b) /\ b[1].size \in Nat
  BY 1 \in 1..Len(b), SizeIsNat
<1> DEFINE q == Parts(b, 1)
<1>2. /\ q \in Seq(MessageOf(b)) /\ Len(q) = b[1].size + 1
      /\ \A k \in 1..(b[1].size + 1) : q[k] = [item |-> 1, part |-> k - 1]
  BY <1>1, PartsAre
<1> HIDE DEF q
<1>3. q[1] = Header(1) /\ q[Len(q)] = [item |-> 1, part |-> b[1].size]
  BY <1>1, <1>2 DEF Header
<1>4. ASSUME NEW t \in 1..(Len(q) - 1) PROVE q[t + 1] = After(b, q[t])
  <2>1. t \in 1..b[1].size /\ t + 1 \in 1..(b[1].size + 1) /\ t \in 1..(b[1].size + 1)
    BY <1>1, <1>2
  <2>2. q[t] = [item |-> 1, part |-> t - 1] /\ q[t + 1] = [item |-> 1, part |-> (t + 1) - 1]
    BY <2>1, <1>2
  <2>3. After(b, [item |-> 1, part |-> t - 1]) = [item |-> 1, part |-> (t - 1) + 1]
    BY <2>1, <1>1 DEF After
  <2>4. (t - 1) + 1 = (t + 1) - 1
    BY <2>1
  <2> QED
    BY <2>2, <2>3, <2>4
<1>5. Len(q) > 0
  BY <1>1, <1>2
<1> QED
  BY <1>2, <1>3, <1>4, <1>5 DEF WalkTo, q

LEMMA WalkGoesOn ==
    ASSUME NEW b \in Seq(Upload), NEW n \in 1..(Len(b) - 1), NEW q, WalkTo(b, q, n)
    PROVE  WalkTo(b, q \o Parts(b, n + 1), n + 1)
<1>1. n + 1 \in 1..Len(b) /\ b[n + 1].size \in Nat /\ b[n].size \in Nat /\ n \in 1..Len(b)
  BY n + 1 \in 1..Len(b), n \in 1..Len(b), SizeIsNat
<1> DEFINE p == Parts(b, n + 1)
           s == b[n + 1].size
           r == q \o p
<1>2. /\ p \in Seq(MessageOf(b)) /\ Len(p) = s + 1
      /\ \A k \in 1..(s + 1) : p[k] = [item |-> n + 1, part |-> k - 1]
  BY <1>1, PartsAre
<1>3. /\ q \in Seq(MessageOf(b)) /\ Len(q) > 0 /\ Len(q) \in Nat
      /\ q[1] = Header(1) /\ q[Len(q)] = [item |-> n, part |-> b[n].size]
      /\ \A t \in 1..(Len(q) - 1) : q[t + 1] = After(b, q[t])
  BY DEF WalkTo
<1> DEFINE l == Len(q)
<1>4. s \in Nat /\ l \in Nat /\ l > 0 /\ Len(q) = l
  BY <1>1, <1>3
<1> HIDE DEF p, s, l
<1>5. /\ r \in Seq(MessageOf(b)) /\ Len(r) = l + (s + 1)
      /\ \A t \in 1..l : r[t] = q[t]
      /\ \A t \in 1..(s + 1) : r[l + t] = p[t]
  <2>1. /\ q \o p \in Seq(MessageOf(b)) /\ Len(q \o p) = Len(q) + Len(p)
        /\ \A t \in 1..Len(q) : (q \o p)[t] = q[t]
        /\ \A t \in 1..Len(p) : (q \o p)[Len(q) + t] = p[t]
    <3>1. q \in Seq(MessageOf(b)) /\ p \in Seq(MessageOf(b))
      BY <1>2, <1>3
    <3> QED
      BY <3>1
  <2> QED
    BY <2>1, <1>2, <1>4
<1> HIDE DEF r
<1>6. r[1] = Header(1)
  BY <1>3, <1>4, <1>5
<1>7. r[Len(r)] = [item |-> n + 1, part |-> s]
  <2>1. r[l + (s + 1)] = p[s + 1]
    BY <1>4, <1>5
  <2>2. p[s + 1] = [item |-> n + 1, part |-> (s + 1) - 1]
    BY <1>2, <1>4
  <2>3. Len(r) = l + (s + 1) /\ (s + 1) - 1 = s
    BY <1>4, <1>5
  <2> QED
    BY <2>1, <2>2, <2>3
<1>8. ASSUME NEW t \in 1..(Len(r) - 1) PROVE r[t + 1] = After(b, r[t])
  <2>1. t \in Nat /\ t \in 1..(l + s)
    BY <1>4, <1>5
  <2>2. CASE t < l
    <3>1. t \in 1..l /\ t + 1 \in 1..l /\ t \in 1..(Len(q) - 1)
      BY <2>1, <2>2, <1>4
    <3> QED
      BY <3>1, <1>3, <1>5
  <2>3. CASE t = l
    <3>1. r[t] = [item |-> n, part |-> b[n].size]
      BY <2>3, <1>3, <1>4, <1>5
    <3>2. r[t + 1] = Header(n + 1)
      BY <2>3, <1>2, <1>4, <1>5 DEF Header
    <3>3. After(b, [item |-> n, part |-> b[n].size]) = Header(n + 1)
      BY <1>1 DEF After
    <3> QED
      BY <3>1, <3>2, <3>3
  <2>4. CASE t > l
    <3>1. PICK k \in 1..s : t = l + k
      <4>1. t - l \in 1..s /\ t = l + (t - l)
        BY <2>1, <2>4, <1>4
      <4> QED
        BY <4>1
    <3>2. r[t] = [item |-> n + 1, part |-> k - 1]
      <4>1. k \in 1..(s + 1)
        BY <3>1, <1>4
      <4> QED
        BY <3>1, <4>1, <1>2, <1>5
    <3>3. r[t + 1] = [item |-> n + 1, part |-> k]
      <4>1. k + 1 \in 1..(s + 1) /\ t + 1 = l + (k + 1) /\ (k + 1) - 1 = k
        BY <3>1, <1>4
      <4> QED
        BY <4>1, <1>2, <1>5
    <3>4. After(b, [item |-> n + 1, part |-> k - 1]) = [item |-> n + 1, part |-> k]
      BY <3>1, <1>4 DEF After, s
    <3> QED
      BY <3>2, <3>3, <3>4
  <2> QED
    BY <2>1, <2>2, <2>3, <2>4, <1>4
<1>9. Len(r) > 0
  BY <1>4, <1>5
<1> QED
  BY <1>5, <1>6, <1>7, <1>8, <1>9 DEF WalkTo, r, p, s

(* The messages that ww send writes go through the batch in order.         *)
LEMMA WrittenWalks ==
    ASSUME NEW b \in Seq(Upload)
    PROVE  IF Len(b) = 0 THEN Written(b) = <<>> ELSE WalkTo(b, Written(b), Len(b))
<1> DEFINE seqs == [i \in 1..Len(b) |-> Parts(b, i)]
<1>0. Len(b) \in Nat /\ Len(seqs) = Len(b) /\ \A i \in 1..Len(b) : seqs[i] = Parts(b, i)
  OBVIOUS
<1>1. CASE Len(b) = 0
  <2>1. seqs = <<>>
    BY <1>1
  <2> QED
    BY <2>1, <1>0, <1>1 DEF Written, FlattenSeq
<1>2. CASE Len(b) # 0
  <2> HIDE DEF seqs
  <2>1. PICK f : /\ f = [i \in 1..Len(seqs) |-> IF i = 1 THEN seqs[i] ELSE f[i-1] \o seqs[i]]
                 /\ FlattenSeq(seqs) = f[Len(seqs)]
    BY <1>0, <1>2, FlattenSolves
  <2>2. \A i \in 1..Len(b) : f[i] = IF i = 1 THEN Parts(b, i) ELSE f[i-1] \o Parts(b, i)
    BY <2>1, <1>0
  <2> DEFINE S == {n \in Nat : n \in 1..Len(b) => WalkTo(b, f[n], n)}
  <2>3. 0 \in S
    OBVIOUS
  <2>4. ASSUME NEW n \in Nat, n \in S PROVE n + 1 \in S
    <3>1. SUFFICES ASSUME n + 1 \in 1..Len(b) PROVE WalkTo(b, f[n + 1], n + 1)
      OBVIOUS
    <3>2. CASE n = 0
      <4>1. f[1] = Parts(b, 1)
        BY <2>2, <1>0, <1>2
      <4>2. WalkTo(b, Parts(b, 1), 1)
        BY <1>0, <1>2, WalkStarts
      <4> QED
        BY <3>2, <4>1, <4>2
    <3>3. CASE n # 0
      <4>1. n \in 1..(Len(b) - 1) /\ n \in 1..Len(b) /\ (n + 1) - 1 = n /\ n + 1 # 1
        BY <3>1, <3>3, <1>0
      <4>2. WalkTo(b, f[n], n)
        BY <4>1, <2>4
      <4>3. f[n + 1] = f[n] \o Parts(b, n + 1)
        BY <4>1, <3>1, <2>2
      <4>4. WalkTo(b, f[n] \o Parts(b, n + 1), n + 1)
        BY <4>1, <4>2, WalkGoesOn
      <4> QED
        BY <4>3, <4>4
    <3> QED
      BY <3>2, <3>3
  <2>5. Len(b) \in S
    <3>1. \A n \in Nat : n \in S => n + 1 \in S
      BY <2>4
    <3> HIDE DEF S
    <3> QED
      BY <2>3, <3>1, <1>0, NatSet
  <2>6. WalkTo(b, f[Len(b)], Len(b))
    BY <2>5, <1>0, <1>2
  <2>7. Written(b) = f[Len(b)]
    BY <2>1, <1>0 DEF Written, seqs
  <2> QED
    BY <2>6, <2>7, <1>2
<1> QED
  BY <1>1, <1>2

-----------------------------------------------------------------------------
(* The scenario does not change, and what is defined from it.              *)

LEMMA Scenario ==
    ASSUME TypeOK
    PROVE  /\ batch \in Seq(Upload) /\ Len(batch) \in Nat /\ Item = DOMAIN batch
           /\ \A i \in Item : batch[i].size \in Nat
           /\ Message = MessageOf(batch) /\ Messages = Written(batch)
           /\ kind.conns \in Conn /\ kind.told \in [Side -> 0..MaxTold]
           /\ MaxConn \in Nat /\ MaxTold \in Nat /\ GoConn \in Conn
<1>1. kind \in Scenarios
  BY DEF TypeOK
<1>2. batch \in Seq(Upload) /\ kind.conns \in Conn /\ kind.told \in [Side -> 0..MaxTold]
  BY <1>1, TransferAssumption DEF batch, Conn, Side
<1>3. MaxConn \in Nat /\ MaxTold \in Nat /\ GoConn \in Conn
  BY TransferAssumption DEF GoConn, Conn
<1>4. Len(batch) \in Nat /\ Item = DOMAIN batch /\ Item = 1..Len(batch)
  BY <1>2 DEF Item
<1>5. ASSUME NEW i \in Item PROVE batch[i].size \in Nat
  <2>1. batch[i] \in Upload
    BY <1>2, <1>4
  <2> QED
    BY <2>1 DEF Upload
<1>6. Message = MessageOf(batch) /\ Messages = Written(batch)
  BY DEF Message, MessageOf, Messages, Written, Item, Content, Parts
<1> QED
  BY <1>2, <1>3, <1>4, <1>5, <1>6

LEMMA KindKept ==
    ASSUME [Next]_vars
    PROVE  kind' = kind
BY DEF Next, vars, AddUpload, GoWrite, GoWait, Flushed, GoClose, GoSendFatal, GoReceive,
         GoReceiveEOF, Worker, FinishUpload, WriteChunks, Dial, Open, Disconnected, Drain,
         LoseLink, NewConnection, PageReceive

LEMMA Kept ==
    ASSUME kind' = kind
    PROVE  /\ batch' = batch /\ Item' = Item /\ Message' = Message /\ Messages' = Messages
           /\ Page("s")' = Page("s") /\ Page("r")' = Page("r") /\ Via' = Via
BY DEF batch, Item, Message, Messages, Content, Page, Via

(* Messages of the batch.                                                  *)
LEMMA HeaderTyped ==
    ASSUME TypeOK, NEW i \in Item
    PROVE  Header(i) \in Message
<1>1. batch[i].size \in Nat
  BY Scenario
<1> QED
  BY <1>1 DEF Message, Header

LEMMA ChunksTyped ==
    ASSUME TypeOK, NEW i \in Item, NEW o \in Nat, NEW n \in Nat, o + n <= batch[i].size
    PROVE  /\ Chunks(i, o, n) \in Seq(Message) /\ Len(Chunks(i, o, n)) = n
           /\ \A k \in 1..n : Chunks(i, o, n)[k] = [item |-> i, part |-> o + k]
<1>1. batch[i].size \in Nat
  BY Scenario
<1>2. \A k \in 1..n : [item |-> i, part |-> o + k] \in Message
  BY <1>1 DEF Message
<1> QED
  BY <1>2 DEF Chunks

LEMMA MessagesTyped ==
    ASSUME TypeOK
    PROVE  /\ Messages \in Seq(Message)
           /\ batch = <<>> => Messages = <<>>
           /\ batch # <<>> => WalkTo(batch, Messages, Len(batch))
<1>1. /\ batch \in Seq(Upload) /\ Len(batch) \in Nat
      /\ Message = MessageOf(batch) /\ Messages = Written(batch)
  BY Scenario
<1>2. PICK b \in Seq(Upload) : b = batch
  BY <1>1
<1>3. IF Len(b) = 0 THEN Written(b) = <<>> ELSE WalkTo(b, Written(b), Len(b))
  BY <1>2, WrittenWalks
<1>4. b = <<>> <=> Len(b) = 0
  BY <1>2
<1>5. b # <<>> => Written(b) \in Seq(MessageOf(b))
  BY <1>3, <1>4 DEF WalkTo
<1> QED
  BY <1>1, <1>2, <1>3, <1>4, <1>5

(* The loop of send(), as TypeOK sees it.                                  *)
UploadCall == [item: Item, offset: Nat, dc: Conn, wait: BOOLEAN]
LEMMA SendLoopTyped ==
    ASSUME TypeOK, NEW q \in Seq(Item), NEW d \in 0..MaxConn, NEW others \in SUBSET UploadCall,
           SendLoop(q, d, others)
    PROVE  /\ sendqueue' \in Seq(Item) /\ sending' \in 0..Len(batch)
           /\ uploads' \subseteq UploadCall /\ buf' \in [Conn -> Seq(Message)]
<1>1. buf \in [Conn -> Seq(Message)] /\ Len(batch) \in Nat /\ MaxConn \in Nat
  BY Scenario DEF TypeOK
<1>2. CASE q = <<>>
  BY <1>1, <1>2 DEF SendLoop
<1>3. CASE q # <<>>
  <2>1. Head(q) \in Item /\ Tail(q) \in Seq(Item) /\ Head(q) \in 0..Len(batch)
    BY <1>1, <1>3 DEF Item
  <2>2. sending' = Head(q) /\ sendqueue' = Tail(q)
    BY <1>3 DEF SendLoop
  <2>3. CASE Throws(d)
    BY <2>1, <2>2, <2>3, <1>1, <1>3 DEF SendLoop
  <2>4. CASE ~Throws(d)
    <3>1. d \in Conn
      BY <2>4, <1>1 DEF Throws, Conn
    <3>2. Header(Head(q)) \in Message
      BY <2>1, HeaderTyped
    <3>3. uploads' = others \cup {[item |-> Head(q), offset |-> 0, dc |-> d, wait |-> FALSE]}
      BY <2>4, <1>3 DEF SendLoop
    <3>4. buf' = [buf EXCEPT ![d] = Append(@, Header(Head(q)))]
      BY <2>4, <1>3 DEF SendLoop
    <3>5. buf' \in [Conn -> Seq(Message)]
      BY <3>1, <3>2, <3>4, <1>1
    <3>6. uploads' \subseteq UploadCall
      <4>1. [item |-> Head(q), offset |-> 0, dc |-> d, wait |-> FALSE] \in UploadCall
        BY <3>1, <2>1 DEF UploadCall
      <4> QED
        BY <4>1, <3>3
    <3> QED
      BY <3>5, <3>6, <2>1, <2>2
  <2> QED
    BY <2>3, <2>4
<1> QED
  BY <1>2, <1>3

-----------------------------------------------------------------------------
(* Type correctness, and what holds of the worker's Map.                   *)

(* TypeOK without what only the worker's invariants give.                  *)
PagesOK ==
    /\ kind \in Scenarios
    /\ link \in [Conn -> {"none", "open", "closed", "lost"}]
    /\ opened \in [Conn -> SUBSET Side]
    /\ events \in [Side -> [Conn -> 0..MaxTold]]
    /\ state \in [Side -> {"disconnected", "dialling", "connected", "gone"}]
    /\ datachannel \in [Side -> 0..MaxConn]
    /\ gosend \in [at: {"write", "held", "waiting", "exit"}, written: 0..Len(Messages)]
    /\ flush \in BOOLEAN /\ late \in BOOLEAN
    /\ goreceive \in {"read", "ok", "fatal"}
SendersOK ==
    /\ buf \in [Conn -> Seq(Message)] /\ net \in [Conn -> Seq(Message)]
    /\ added \in 0..Len(batch) /\ sendqueue \in Seq(Item) /\ sending \in 0..Len(batch)
    /\ uploads \subseteq UploadCall
ReceiversOK ==
    /\ receiving \in [item: 0..Len(batch), data: Seq(Message), id: Nat]
    /\ downloads \in Seq(Item)
    /\ saved \subseteq [item: Item, data: Seq(Message)]

LEMMA TypeParts == TypeOK <=> PagesOK /\ SendersOK /\ ReceiversOK /\ WorkerTypeOK(Message)
BY DEF TypeOK, PagesOK, SendersOK, ReceiversOK, UploadCall

LEMMA PagesTyped ==
    ASSUME TypeOK, [Next]_vars
    PROVE  PagesOK'
<1>1. kind' = kind /\ Messages' = Messages
  BY KindKept, Kept
<1> DEFINE l == Len(Messages)
<1>2. l \in Nat /\ MaxConn \in Nat /\ MaxTold \in Nat /\ GoConn \in Conn /\ Conn = 1..MaxConn
  BY MessagesTyped, Scenario DEF Conn
<1>3. /\ kind \in Scenarios
      /\ link \in [Conn -> {"none", "open", "closed", "lost"}]
      /\ opened \in [Conn -> SUBSET Side]
      /\ events \in [Side -> [Conn -> 0..MaxTold]]
      /\ state \in [Side -> {"disconnected", "dialling", "connected", "gone"}]
      /\ datachannel \in [Side -> 0..MaxConn]
      /\ gosend \in [at: {"write", "held", "waiting", "exit"}, written: 0..l]
      /\ flush \in BOOLEAN /\ late \in BOOLEAN
      /\ goreceive \in {"read", "ok", "fatal"}
      /\ "s" \in Side /\ "r" \in Side
  BY DEF TypeOK, Side
<1>4. kind.told \in [Side -> 0..MaxTold]
  BY Scenario
<1> HIDE DEF l
<1> SUFFICES
      /\ link' \in [Conn -> {"none", "open", "closed", "lost"}]
      /\ opened' \in [Conn -> SUBSET Side]
      /\ events' \in [Side -> [Conn -> 0..MaxTold]]
      /\ state' \in [Side -> {"disconnected", "dialling", "connected", "gone"}]
      /\ datachannel' \in [Side -> 0..MaxConn]
      /\ gosend' \in [at: {"write", "held", "waiting", "exit"}, written: 0..l]
      /\ flush' \in BOOLEAN /\ late' \in BOOLEAN
      /\ goreceive' \in {"read", "ok", "fatal"}
  BY <1>1, <1>3 DEF PagesOK, l
<1>5. CASE AddUpload
  BY <1>5, <1>3 DEF AddUpload, connVars, goVars, receiveVars
<1>6. CASE GoWrite \/ GoWait \/ Flushed
  <2>1. gosend' \in [at: {"write", "held", "waiting", "exit"}, written: 0..l]
    BY <1>6, <1>2, <1>3 DEF GoWrite, GoWait, Flushed, l
  <2> QED
    BY <2>1, <1>6, <1>3 DEF GoWrite, GoWait, Flushed, connVars, pageVars, receiveVars
<1>7. CASE GoClose \/ GoSendFatal
  BY ZenonT(40), <1>7, <1>2, <1>3 DEF GoClose, GoSendFatal, receiveVars
<1>8. CASE GoReceive \/ GoReceiveEOF
  BY <1>8, <1>2, <1>3 DEF GoReceive, GoReceiveEOF, connVars, goVars
<1>9. CASE Worker \/ UNCHANGED vars
  BY <1>9, <1>3 DEF Worker, vars, connVars, pageVars, goVars, receiveVars
<1>10. ASSUME NEW u \in uploads, FinishUpload(u) \/ \E n \in 1..ReadMax : WriteChunks(u, n)
       PROVE  /\ UNCHANGED <<link, opened, events, state, datachannel, gosend, flush, late, goreceive>>
  BY <1>10 DEF FinishUpload, WriteChunks, connVars, pageVars, goVars, receiveVars
<1>11. CASE \E p \in Side : Dial(p)
  BY <1>11, <1>3 DEF Dial, connVars, goVars, receiveVars
<1>12. ASSUME NEW p \in Side, NEW c \in Conn, Open(p, c) \/ Disconnected(p, c)
       PROVE  /\ opened' \in [Conn -> SUBSET Side]
              /\ events' \in [Side -> [Conn -> 0..MaxTold]]
              /\ state' \in [Side -> {"disconnected", "dialling", "connected", "gone"}]
              /\ datachannel' \in [Side -> 0..MaxConn]
              /\ UNCHANGED <<link, gosend, flush, late, goreceive>>
  <2>1. CASE Open(p, c)
    BY <2>1, <1>2, <1>3 DEF Open, goVars, receiveVars
  <2>2. CASE Disconnected(p, c)
    <3>1. events[p][c] + 1 \in 0..MaxTold
      <4>1. events[p][c] \in 0..MaxTold /\ kind.told[p] \in 0..MaxTold
        BY <1>3, <1>4
      <4>2. events[p][c] < kind.told[p]
        BY <2>2 DEF Disconnected
      <4> QED
        BY <4>1, <4>2, <1>2
    <3>2. events' \in [Side -> [Conn -> 0..MaxTold]]
      BY <2>2, <3>1, <1>3 DEF Disconnected
    <3> QED
      BY SMTT(20), <2>2, <3>2, <1>2, <1>3 DEF Disconnected, goVars
  <2> QED
    BY <1>12, <2>1, <2>2
<1>13. ASSUME NEW c \in Conn, Drain(c) \/ LoseLink(c) \/ NewConnection(c) \/ PageReceive(c)
       PROVE  /\ link' \in [Conn -> {"none", "open", "closed", "lost"}]
              /\ flush' \in BOOLEAN /\ late' \in BOOLEAN
              /\ UNCHANGED <<opened, events, state, datachannel, gosend, goreceive>>
  <2>1. CASE Drain(c)
    BY <2>1, <1>3 DEF Drain, connVars, pageVars, receiveVars
  <2>2. CASE LoseLink(c) \/ NewConnection(c)
    BY <2>2, <1>3 DEF LoseLink, NewConnection, pageVars, goVars, receiveVars
  <2>3. CASE PageReceive(c)
    BY <2>3, <1>3 DEF PageReceive, connVars, pageVars, goVars
  <2> QED
    BY <1>13, <2>1, <2>2, <2>3
<1> QED
  BY <1>3, <1>5, <1>6, <1>7, <1>8, <1>9, <1>10, <1>11, <1>12, <1>13 DEF Next

LEMMA SendersTyped ==
    ASSUME TypeOK, [Next]_vars
    PROVE  SendersOK'
<1>1. kind' = kind /\ batch' = batch /\ Item' = Item /\ Message' = Message
  BY KindKept, Kept
<1>2. UploadCall' = UploadCall
  BY <1>1 DEF UploadCall
<1>3. /\ buf \in [Conn -> Seq(Message)] /\ net \in [Conn -> Seq(Message)]
      /\ added \in 0..Len(batch) /\ sendqueue \in Seq(Item) /\ sending \in 0..Len(batch)
      /\ uploads \subseteq UploadCall /\ datachannel \in [Side -> 0..MaxConn]
      /\ "s" \in Side /\ "r" \in Side
  BY DEF TypeOK, UploadCall, Side
<1>4. Len(batch) \in Nat /\ GoConn \in Conn /\ Conn = 1..MaxConn /\ MaxConn \in Nat /\ Item = 1..Len(batch)
  BY Scenario DEF Conn, Item
<1>0. \A c \in Conn : [net EXCEPT ![c] = <<>>] \in [Conn -> Seq(Message)]
  <2>1. <<>> \in Seq(Message)
    OBVIOUS
  <2> QED
    BY <2>1, <1>3
<1> SUFFICES
      /\ buf' \in [Conn -> Seq(Message)] /\ net' \in [Conn -> Seq(Message)]
      /\ added' \in 0..Len(batch) /\ sendqueue' \in Seq(Item) /\ sending' \in 0..Len(batch)
      /\ uploads' \subseteq UploadCall
  BY <1>1, <1>2 DEF SendersOK
<1>5. ASSUME NEW q \in Seq(Item), NEW d \in 0..MaxConn, Send(q, d)
      PROVE  /\ sendqueue' \in Seq(Item) /\ sending' \in 0..Len(batch)
             /\ uploads' \subseteq UploadCall /\ buf' \in [Conn -> Seq(Message)]
  <2>1. CASE d = 0 \/ sending # 0
    BY <2>1, <1>3, <1>5 DEF Send
  <2>2. CASE ~(d = 0 \/ sending # 0)
    <3>1. PICK o \in SUBSET UploadCall : o = uploads
      BY <1>3
    <3>2. SendLoop(q, d, o)
      BY <2>2, <3>1, <1>5 DEF Send
    <3> QED
      BY <3>2, SendLoopTyped
  <2> QED
    BY <2>1, <2>2
<1>6. CASE AddUpload
  <2>1. PICK q \in Seq(Item) : q = Append(sendqueue, added + 1)
    <3>1. added + 1 \in Item
      BY <1>3, <1>4, <1>6 DEF AddUpload
    <3>2. Append(sendqueue, added + 1) \in Seq(Item)
      BY <3>1, <1>3
    <3> QED
      BY <3>2, Zenon
  <2>2. PICK d \in 0..MaxConn : d = datachannel["s"]
    BY <1>3
  <2>3. Send(q, d)
    BY <2>1, <2>2, <1>6 DEF AddUpload
  <2>4. added' \in 0..Len(batch) /\ net' = net
    BY <1>3, <1>4, <1>6 DEF AddUpload
  <2> QED
    BY <2>3, <2>4, <1>3, <1>5
<1>7. CASE GoWrite
  <2>1. CASE Len(buf[GoConn]) > GoMark
    BY <2>1, <1>3, <1>7 DEF GoWrite, queueVars
  <2>2. CASE ~(Len(buf[GoConn]) > GoMark)
    <3>1. Messages \in Seq(Message) /\ gosend.written + 1 \in 1..Len(Messages)
      <4>1. Messages \in Seq(Message) /\ Len(Messages) \in Nat
        BY MessagesTyped
      <4>2. gosend.written \in 0..Len(Messages) /\ gosend.written < Len(Messages)
        BY <1>7 DEF GoWrite, TypeOK
      <4> QED
        BY <4>1, <4>2
    <3>2. Messages[gosend.written + 1] \in Message
      BY <3>1
    <3>3. buf' = [buf EXCEPT ![GoConn] = Append(@, Messages[gosend.written + 1])]
      BY <2>2, <1>7 DEF GoWrite
    <3>4. buf' \in [Conn -> Seq(Message)]
      BY <3>2, <3>3, <1>3, <1>4
    <3> QED
      BY <3>4, <1>3, <1>7 DEF GoWrite, queueVars
  <2> QED
    BY <2>1, <2>2
<1>8. CASE GoWait \/ Flushed \/ GoClose \/ GoSendFatal
  <2>1. net' \in [Conn -> Seq(Message)]
    BY <1>8, <1>0, <1>3, <1>4 DEF GoWait, Flushed, GoClose, GoSendFatal
  <2> QED
    BY <2>1, <1>8, <1>3 DEF GoWait, Flushed, GoClose, GoSendFatal, queueVars
<1>9. CASE GoReceive \/ GoReceiveEOF
  <2>1. net' \in [Conn -> Seq(Message)]
    <3>1. CASE GoReceiveEOF
      BY <3>1, <1>3 DEF GoReceiveEOF
    <3>2. CASE GoReceive
      <4>1. Tail(net[GoConn]) \in Seq(Message)
        BY <3>2, <1>3, <1>4 DEF GoReceive
      <4>2. net' = [net EXCEPT ![GoConn] = <<>>] \/ net' = [net EXCEPT ![GoConn] = Tail(net[GoConn])]
        BY <3>2 DEF GoReceive
      <4> QED
        BY <4>1, <4>2, <1>0, <1>3, <1>4
    <3> QED
      BY <1>9, <3>1, <3>2
  <2> QED
    BY <2>1, <1>3, <1>9 DEF GoReceive, GoReceiveEOF, queueVars
<1>10. CASE Worker \/ UNCHANGED vars
  BY <1>10, <1>3 DEF Worker, vars, queueVars
<1>11. ASSUME NEW u \in uploads, FinishUpload(u)
       PROVE  /\ sendqueue' \in Seq(Item) /\ sending' \in 0..Len(batch) /\ UNCHANGED <<added, net>>
              /\ uploads' \subseteq UploadCall /\ buf' \in [Conn -> Seq(Message)]
  <2>1. PICK q \in Seq(Item) : q = sendqueue
    BY <1>3
  <2>2. PICK d \in 0..MaxConn : d = datachannel["s"]
    BY <1>3
  <2>3. PICK o \in SUBSET UploadCall : o = uploads \ {u}
    BY <1>3
  <2>4. SendLoop(q, d, o) /\ UNCHANGED <<added, net>>
    BY <2>1, <2>2, <2>3, <1>11 DEF FinishUpload
  <2> QED
    BY <2>4, SendLoopTyped
<1>12. ASSUME NEW u \in uploads, NEW n \in 1..ReadMax, WriteChunks(u, n)
       PROVE  /\ uploads' \subseteq UploadCall /\ buf' \in [Conn -> Seq(Message)]
              /\ UNCHANGED <<added, net, sendqueue, sending>>
  <2>1. u \in UploadCall
    BY <1>3
  <2>2. u.item \in Item /\ u.offset \in Nat /\ u.dc \in Conn /\ n \in Nat
    BY <2>1, TransferAssumption DEF UploadCall
  <2>3. u.offset + n <= batch[u.item].size
    BY <1>12 DEF WriteChunks
  <2>4. PICK q \in Seq(Message) : q = Chunks(u.item, u.offset, n)
    BY <2>2, <2>3, ChunksTyped
  <2>5. CASE Throws(u.dc)
    BY <2>5, <1>3, <1>12 DEF WriteChunks
  <2>6. CASE ~Throws(u.dc)
    <3>1. buf' = [buf EXCEPT ![u.dc] = @ \o q]
      BY <2>4, <2>6, <1>12 DEF WriteChunks
    <3>2. buf' \in [Conn -> Seq(Message)]
      BY <3>1, <2>2, <1>3
    <3>3. uploads' = (uploads \ {u}) \cup
              {[u EXCEPT !.offset = @ + n, !.wait = Len(buf[u.dc]) + n >= Mark]}
      BY <2>6, <1>12 DEF WriteChunks
    <3>4. PICK w \in BOOLEAN : uploads' = (uploads \ {u}) \cup {[u EXCEPT !.offset = @ + n, !.wait = w]}
      <4>1. CASE Len(buf[u.dc]) + n >= Mark
        <5>1. (Len(buf[u.dc]) + n >= Mark) = TRUE
          BY <4>1
        <5> QED
          BY <5>1, <3>3, Zenon
      <4>2. CASE ~(Len(buf[u.dc]) + n >= Mark)
        <5>1. (Len(buf[u.dc]) + n >= Mark) = FALSE
          BY <4>2
        <5> QED
          BY <5>1, <3>3, Zenon
      <4> QED
        BY <4>1, <4>2
    <3>5. [u EXCEPT !.offset = @ + n, !.wait = w] \in UploadCall
      <4>1. u.offset + n \in Nat
        BY <2>2
      <4> QED
        BY <4>1, <2>1 DEF UploadCall
    <3> QED
      BY <3>2, <3>4, <3>5, <1>3, <1>12 DEF WriteChunks
  <2> QED
    BY <2>5, <2>6, <1>12 DEF WriteChunks
<1>13. CASE \E p \in Side : Dial(p)
  BY <1>13, <1>3 DEF Dial, queueVars
<1>14. ASSUME NEW p \in Side, NEW c \in Conn, Open(p, c) \/ Disconnected(p, c)
       PROVE  /\ sendqueue' \in Seq(Item) /\ sending' \in 0..Len(batch) /\ UNCHANGED <<added, net>>
              /\ uploads' \subseteq UploadCall /\ buf' \in [Conn -> Seq(Message)]
  <2>1. CASE Disconnected(p, c)
    BY <2>1, <1>3 DEF Disconnected
  <2>2. CASE Open(p, c) /\ p = "s" /\ Page(p)
    <3>1. PICK q \in Seq(Item) : q = sendqueue
      BY <1>3
    <3>2. Send(q, c) /\ UNCHANGED <<added, net>>
      BY <2>2, <3>1 DEF Open
    <3>3. c \in 0..MaxConn
      BY <1>4
    <3> QED
      BY <3>2, <3>3, <1>5
  <2>3. CASE Open(p, c) /\ ~(p = "s" /\ Page(p))
    BY <2>3, <1>3 DEF Open
  <2> QED
    BY <1>14, <2>1, <2>2, <2>3
<1>15. ASSUME NEW c \in Conn, Drain(c)
       PROVE  /\ uploads' \subseteq UploadCall /\ UNCHANGED <<added, sendqueue, sending>>
              /\ buf' \in [Conn -> Seq(Message)] /\ net' \in [Conn -> Seq(Message)]
  <2>1. Head(buf[c]) \in Message /\ Tail(buf[c]) \in Seq(Message)
    BY <1>3, <1>15 DEF Drain
  <2>2. net' = [net EXCEPT ![c] = Append(@, Head(buf[c]))] /\ buf' = [buf EXCEPT ![c] = Tail(buf[c])]
    BY <1>15 DEF Drain
  <2>3. buf' \in [Conn -> Seq(Message)] /\ net' \in [Conn -> Seq(Message)]
    BY <2>1, <2>2, <1>3
  <2>4. \A u \in uploads : [u EXCEPT !.wait = FALSE] \in UploadCall
    BY <1>3 DEF UploadCall
  <2>5. uploads' \subseteq UploadCall
    BY <2>4, <1>3, <1>15 DEF Drain
  <2> QED
    BY <2>3, <2>5, <1>15 DEF Drain
<1>16. ASSUME NEW c \in Conn, LoseLink(c) \/ NewConnection(c) \/ PageReceive(c)
       PROVE  /\ UNCHANGED <<added, sendqueue, sending, uploads, buf>>
              /\ net' \in [Conn -> Seq(Message)]
  <2>1. CASE LoseLink(c) \/ NewConnection(c)
    <3>1. net' \in [Conn -> Seq(Message)]
      BY <2>1, <1>0, <1>3 DEF LoseLink, NewConnection
    <3> QED
      BY <2>1, <3>1 DEF LoseLink, NewConnection, queueVars
  <2>2. CASE PageReceive(c)
    <3>1. Tail(net[c]) \in Seq(Message) /\ net' = [net EXCEPT ![c] = Tail(net[c])]
      BY <2>2, <1>3 DEF PageReceive
    <3> QED
      BY <2>2, <3>1, <1>3 DEF PageReceive, queueVars
  <2> QED
    BY <1>16, <2>1, <2>2
<1> QED
  BY <1>3, <1>6, <1>7, <1>8, <1>9, <1>10, <1>11, <1>12, <1>13, <1>14, <1>15, <1>16 DEF Next

(* The receivers' variables change in these steps only.                    *)
LEMMA ReceiversKept ==
    ASSUME [Next]_vars
    PROVE  \/ UNCHANGED <<receiving, downloads, saved, late>>
           \/ GoReceive
           \/ \E p \in Side, c \in Conn : Disconnected(p, c)
           \/ \E c \in Conn : PageReceive(c)
BY DEF Next, vars, AddUpload, GoWrite, GoWait, Flushed, GoClose, GoSendFatal, GoReceiveEOF,
       Worker, FinishUpload, WriteChunks, Dial, Open, Drain, LoseLink, NewConnection, receiveVars

LEMMA NothingTyped ==
    ASSUME TypeOK
    PROVE  Nothing \in [item: 0..Len(batch), data: Seq(Message), id: Nat]
<1>1. Len(batch) \in Nat
  BY Scenario
<1> QED
  BY <1>1 DEF Nothing

(* A page takes a chunk or a header.                                       *)
LEMMA TakeTyped ==
    ASSUME TypeOK, NEW m \in Message, (TakeChunk(m) /\ receiving.item # 0) \/ TakeHeader(m)
    PROVE  /\ receiving' \in [item: 0..Len(batch), data: Seq(Message), id: Nat]
           /\ downloads' \in Seq(Item) /\ saved' \subseteq [item: Item, data: Seq(Message)]
           /\ post' \in Seq(Post(Message)) /\ nav' \subseteq Nat
<1> DEFINE R == [item: 0..Len(batch), data: Seq(Message), id: Nat]
           F == [item: Item, data: Seq(Message)]
           P == Post(Message)
<1>1. /\ Len(batch) \in Nat /\ Item = 1..Len(batch) /\ \A i \in Item : batch[i].size \in Nat
      /\ <<>> \in Seq(Message) /\ Nothing \in R
  BY Scenario, NothingTyped DEF Item
<1>2. receiving \in R /\ downloads \in Seq(Item) /\ saved \subseteq F /\ post \in Seq(P) /\ nav \subseteq Nat
  BY DEF TypeOK, WorkerTypeOK
<1>3. receiving.item \in 0..Len(batch) /\ receiving.data \in Seq(Message) /\ receiving.id \in Nat
  BY <1>2
<1>4. m.item \in Item /\ m.part \in Nat
  BY DEF Message
<1>5. CASE TakeChunk(m) /\ receiving.item # 0
  <2> DEFINE i == receiving.item
             n == Len(receiving.data)
             data == Append(receiving.data, m)
             chunk == [type |-> "data", id |-> receiving.id, data |-> m, offset |-> n]
             end == [type |-> "end", id |-> receiving.id]
  <2>1. i \in Item /\ n \in Nat /\ data \in Seq(Message)
    BY <1>1, <1>3, <1>5
  <2>2. chunk \in P /\ end \in P
    BY <1>3, <2>1 DEF Post
  <2>3. ErrorPost \in Seq(P)
    <3>1. [type |-> "error", id |-> receiving.id] \in P
      BY <1>3 DEF Post
    <3> HIDE DEF P
    <3> QED
      BY <3>1 DEF ErrorPost
  <2>4. [item |-> i, data |-> data] \in F
    BY <2>1
  <2>5. [receiving EXCEPT !.data = data] \in R
    BY <2>1, <1>2
  <2>6. /\ UNCHANGED <<downloads, nav>>
        /\ \/ post' = post \o ErrorPost /\ UNCHANGED <<receiving, saved>>
           \/ /\ receiving' = Nothing \/ receiving' = [receiving EXCEPT !.data = data]
              /\ post' = post \/ post' = post \o <<chunk, end>> \/ post' = post \o <<chunk>>
              /\ saved' = saved \/ saved' = saved \cup {[item |-> i, data |-> data]}
    BY <1>5 DEF TakeChunk, Complete
  <2> HIDE DEF R, F, P, chunk, end, data, i, n
  <2>7. post' \in Seq(P)
    <3>1. <<chunk, end>> \in Seq(P) /\ <<chunk>> \in Seq(P)
      BY <2>2
    <3>2. \A q \in Seq(P) : post \o q \in Seq(P)
      BY <1>2
    <3> QED
      BY <3>1, <3>2, <2>3, <2>6, <1>2
  <2>8. receiving' \in R
    BY <2>5, <2>6, <1>1, <1>2
  <2>9. saved' \subseteq F
    BY <2>4, <2>6, <1>2
  <2> QED
    BY <2>6, <2>7, <2>8, <2>9, <1>2 DEF R, F, P
<1>6. CASE TakeHeader(m)
  <2> DEFINE id == Len(downloads) + 1
             meta == [type |-> "metadata", id |-> id]
  <2>1. id \in Nat
    BY <1>2
  <2>2. meta \in P
    BY <2>1 DEF Post
  <2>3. [item |-> m.item, data |-> <<>>] \in F
    BY <1>1, <1>4
  <2>4. [item |-> m.item, data |-> <<>>, id |-> 0] \in R /\ [item |-> m.item, data |-> <<>>, id |-> id] \in R
    BY <2>1, <1>1, <1>4
  <2>5. /\ saved' = saved \/ saved' = saved \cup {[item |-> m.item, data |-> <<>>]}
        /\ \/ UNCHANGED receiving
           \/ receiving' = [item |-> m.item, data |-> <<>>, id |-> 0]
           \/ receiving' = [item |-> m.item, data |-> <<>>, id |-> id]
        /\ UNCHANGED downloads \/ downloads' = Append(downloads, m.item)
        /\ UNCHANGED post \/ post' = Append(post, meta)
        /\ UNCHANGED nav \/ nav' \in {nav \cup {id}, {id}}
    BY <1>6 DEF TakeHeader, Complete
  <2> HIDE DEF R, F, P, id, meta
  <2>6. post' \in Seq(P)
    BY <2>2, <2>5, <1>2
  <2>7. downloads' \in Seq(Item)
    BY <2>5, <1>2, <1>4
  <2>8. receiving' \in R /\ saved' \subseteq F /\ nav' \subseteq Nat
    BY <2>1, <2>3, <2>4, <2>5, <1>2
  <2> QED
    BY <2>6, <2>7, <2>8 DEF R, F, P
<1> QED
  BY <1>5, <1>6

LEMMA ReceiversTyped ==
    ASSUME TypeOK, [Next]_vars
    PROVE  ReceiversOK'
<1>1. kind' = kind /\ batch' = batch /\ Item' = Item /\ Message' = Message
  BY KindKept, Kept
<1> DEFINE R == [item: 0..Len(batch), data: Seq(Message), id: Nat]
           F == [item: Item, data: Seq(Message)]
<1>2. /\ receiving \in R /\ downloads \in Seq(Item) /\ saved \subseteq F
      /\ net \in [Conn -> Seq(Message)]
  BY DEF TypeOK
<1>3. Nothing \in R /\ Len(batch) \in Nat /\ GoConn \in Conn /\ Item = 1..Len(batch)
  BY Scenario, NothingTyped DEF Item
<1> SUFFICES receiving' \in R /\ downloads' \in Seq(Item) /\ saved' \subseteq F
  BY <1>1 DEF ReceiversOK
<1>4. CASE UNCHANGED <<receiving, downloads, saved, late>>
  BY <1>2, <1>4
<1>5. CASE GoReceive
  <2> DEFINE m == Head(net[GoConn])
             data == Append(receiving.data, m)
  <2>1. net[GoConn] \in Seq(Message) /\ net[GoConn] # <<>>
    BY <1>2, <1>3, <1>5 DEF GoReceive
  <2>2. m \in Message
    BY <2>1
  <2>3. m.item \in Item
    BY <2>2 DEF Message
  <2>4. receiving.item \in 0..Len(batch) /\ receiving.data \in Seq(Message) /\ receiving.id \in Nat
    BY <1>2
  <2>5. data \in Seq(Message) /\ <<>> \in Seq(Message)
    BY <2>2, <2>4
  <2>6. [item |-> m.item, data |-> <<>>] \in F /\ [item |-> m.item, data |-> <<>>, id |-> 0] \in R
    BY <2>3, <2>5, <1>3
  <2>7. [receiving EXCEPT !.data = data] \in R
    BY <2>5, <1>2
  <2>8. receiving.item # 0 => [item |-> receiving.item, data |-> data] \in F
    BY <2>4, <2>5, <1>3
  <2>9. /\ UNCHANGED downloads
        /\ \/ UNCHANGED receiving \/ receiving' = Nothing \/ receiving' = [receiving EXCEPT !.data = data]
           \/ receiving' = [item |-> m.item, data |-> <<>>, id |-> 0]
        /\ \/ UNCHANGED saved \/ saved' = saved \cup {[item |-> m.item, data |-> <<>>]}
           \/ receiving.item # 0 /\ saved' = saved \cup {[item |-> receiving.item, data |-> data]}
    BY <1>5 DEF GoReceive, Complete
  <2> HIDE DEF R, F, m, data
  <2> QED
    BY <2>6, <2>7, <2>8, <2>9, <1>2, <1>3
<1>6. ASSUME NEW p \in Side, NEW c \in Conn, Disconnected(p, c)
      PROVE  receiving' \in R /\ downloads' \in Seq(Item) /\ saved' \subseteq F
  <2>1. UNCHANGED <<downloads, saved>> /\ (UNCHANGED receiving \/ receiving' = Nothing)
    BY <1>6 DEF Disconnected, ForgetReceiving
  <2> HIDE DEF R, F
  <2> QED
    BY <2>1, <1>2, <1>3
<1>7. ASSUME NEW c \in Conn, PageReceive(c)
      PROVE  receiving' \in R /\ downloads' \in Seq(Item) /\ saved' \subseteq F
  <2>1. net[c] \in Seq(Message) /\ net[c] # <<>>
    BY <1>2, <1>7 DEF PageReceive
  <2>2. PICK m \in Message : m = Head(net[c])
    BY <2>1
  <2>3. (TakeChunk(m) /\ receiving.item # 0) \/ TakeHeader(m)
    BY <2>2, <1>7 DEF PageReceive
  <2> QED
    BY <2>3, TakeTyped
<1> QED
  BY <1>4, <1>5, <1>6, <1>7, ReceiversKept

(* The worker takes its next message; the other ones move up.              *)
LEMMA PostTail ==
    ASSUME TypeOK, post # <<>>, post' = Tail(post)
    PROVE  /\ post' \in Seq(Post(Message)) /\ Len(post') = Len(post) - 1
           /\ 1 \in DOMAIN post /\ Head(post) = post[1] /\ post[1] \in Post(Message)
           /\ \A i \in DOMAIN post' : i + 1 \in DOMAIN post /\ post'[i] = post[i + 1]
           /\ \A i \in DOMAIN post : i # 1 => i - 1 \in DOMAIN post' /\ post[i] = post'[i - 1]
<1>1. post \in Seq(Post(Message))
  BY DEF TypeOK, WorkerTypeOK
<1> QED
  BY <1>1

(* What of WorkerInv is about messages that wait.                          *)
PostInv ==
    /\ \A i \in DOMAIN post : post[i].id \in DOMAIN downloads
    /\ \A i \in DOMAIN post : post[i].type = "metadata" =>
            /\ post[i].id \notin DOMAIN body
            /\ \A j \in DOMAIN post : j # i /\ post[j].type = "metadata" => post[j].id # post[i].id

LEMMA PostInvMovesUp ==
    ASSUME TypeOK, PostInv, post # <<>>, post' = Tail(post), UNCHANGED downloads,
           \A id \in DOMAIN body' : \/ id \in DOMAIN body
                                    \/ post[1].type = "metadata" /\ id = post[1].id
    PROVE  PostInv'
<1>1. /\ 1 \in DOMAIN post
      /\ \A i \in DOMAIN post' : i \in Nat /\ i + 1 \in DOMAIN post /\ i + 1 # 1 /\ post'[i] = post[i + 1]
  BY PostTail
<1>2. \A i \in DOMAIN post' : post'[i].id \in DOMAIN downloads'
  BY <1>1 DEF PostInv
<1>3. ASSUME NEW i \in DOMAIN post', post'[i].type = "metadata"
      PROVE  /\ post'[i].id \notin DOMAIN body'
             /\ \A j \in DOMAIN post' : j # i /\ post'[j].type = "metadata" => post'[j].id # post'[i].id
  <2>1. /\ i + 1 \in DOMAIN post /\ post[i + 1].type = "metadata" /\ i + 1 # 1
        /\ post'[i].id = post[i + 1].id
    BY <1>1, <1>3
  <2>2. post[i + 1].id \notin DOMAIN body
    BY <2>1 DEF PostInv
  <2>3. post[1].type = "metadata" => post[1].id # post[i + 1].id
    BY <2>1, <1>1 DEF PostInv
  <2>4. ASSUME NEW j \in DOMAIN post', j # i, post'[j].type = "metadata"
        PROVE  post'[j].id # post'[i].id
    <3>1. j + 1 \in DOMAIN post /\ post'[j] = post[j + 1] /\ j + 1 # i + 1
      BY <1>1, <2>4
    <3> QED
      BY <2>1, <2>4, <3>1 DEF PostInv
  <2> QED
    BY <2>1, <2>2, <2>3, <2>4
<1> QED
  BY <1>2, <1>3 DEF PostInv

(* The rest of it, without the page.                                       *)
MapInv ==
    /\ DOMAIN streams \cup DOMAIN body \cup nav \subseteq DOMAIN downloads
    /\ served \subseteq DOMAIN body /\ nav \cap served = {}
    /\ \A id \in DOMAIN streams : EntryInv(id)
MapOK ==
    /\ DOMAIN streams \subseteq Nat /\ streams \in [DOMAIN streams -> Stream]
    /\ DOMAIN body \subseteq Nat /\ body \in [DOMAIN body -> Body(Message)]

LEMMA WorkerInvParts ==
    WorkerInv <=> /\ MapInv /\ PostInv
                  /\ Via /\ receiving.item # 0 =>
                        receiving.id \in DOMAIN downloads /\ downloads[receiving.id] = receiving.item
BY DEF WorkerInv, MapInv, PostInv

LEMMA MetadataSteps ==
    ASSUME TypeOK, MapInv, PostInv, NEW m \in Post(Message), m.id \in DOMAIN downloads,
           m.id \notin DOMAIN body, OnMetadata(m), UNCHANGED <<nav, downloads, kind>>
    PROVE  /\ MapInv' /\ MapOK'
           /\ \A id \in DOMAIN body' : id \in DOMAIN body \/ id = m.id
<1> DEFINE d == m.id
           waits == d \in DOMAIN streams
           new == [NewStream EXCEPT !.requestHandled = waits]
           none == [data |-> <<>>, state |-> "readable"]
<1>1. Message' = Message
  BY Kept
<1>2. /\ DOMAIN body' = DOMAIN body \cup {d} /\ body'[d] = none
      /\ \A x \in DOMAIN body : x # d => body'[x] = body[x]
      /\ body' = [x \in DOMAIN body \cup {d} |-> IF x = d THEN none ELSE body[x]]
  BY DEF OnMetadata, Put
<1>3. /\ DOMAIN streams' = DOMAIN streams \cup {d} /\ streams'[d] = new
      /\ \A x \in DOMAIN streams : x # d => streams'[x] = streams[x]
      /\ streams' = [x \in DOMAIN streams \cup {d} |-> IF x = d THEN new ELSE streams[x]]
  BY DEF OnMetadata, Put
<1>4. /\ new.kind = "stream" /\ new.offset = 0 /\ new.requestHandled = waits /\ ~new.streamHandled
      /\ none.state = "readable" /\ none.data = <<>>
  BY DEF NewStream
<1>5. served' = IF waits THEN served \cup {d} ELSE served
  BY DEF OnMetadata
<1>6. d \notin served /\ (waits => streams[d].kind = "placeholder" /\ d \notin nav)
  BY DEF MapInv, EntryInv
<1>7. /\ DOMAIN streams \subseteq Nat /\ streams \in [DOMAIN streams -> Stream]
      /\ DOMAIN body \subseteq Nat /\ body \in [DOMAIN body -> Body(Message)]
      /\ d \in Nat
  BY DEF TypeOK, WorkerTypeOK, Post
<1>8. none \in Body(Message)
  BY DEF Body
<1>9. new \in Stream
  <2>1. CASE waits
    <3>1. waits = TRUE
      BY <2>1
    <3>2. new = [NewStream EXCEPT !.requestHandled = TRUE]
      BY <3>1, Zenon
    <3>3. [NewStream EXCEPT !.requestHandled = TRUE] \in Stream
      BY DEF NewStream, Stream
    <3> QED
      BY <3>2, <3>3, Zenon
  <2>2. CASE ~waits
    <3>1. waits = FALSE
      BY <2>2
    <3>2. new = [NewStream EXCEPT !.requestHandled = FALSE]
      BY <3>1, Zenon
    <3>3. [NewStream EXCEPT !.requestHandled = FALSE] \in Stream
      BY DEF NewStream, Stream
    <3> QED
      BY <3>2, <3>3, Zenon
  <2> QED
    BY <2>1, <2>2
<1> HIDE DEF d, waits, new, none
<1>10. MapOK'
  BY <1>1, <1>2, <1>3, <1>7, <1>8, <1>9 DEF MapOK
<1>11. ASSUME NEW x \in DOMAIN streams' PROVE EntryInv(x)'
  <2>1. CASE x = d
    BY <2>1, <1>2, <1>3, <1>4, <1>5, <1>6 DEF EntryInv
  <2>2. CASE x # d
    <3>1. x \in DOMAIN streams /\ streams'[x] = streams[x] /\ EntryInv(x)
      BY <2>2, <1>3 DEF MapInv
    <3>2. (x \in DOMAIN body <=> x \in DOMAIN body') /\ (x \in DOMAIN body => body'[x] = body[x])
      BY <2>2, <1>2
    <3>3. x \in served' <=> x \in served
      BY <2>2, <1>5
    <3> QED
      BY <3>1, <3>2, <3>3 DEF EntryInv
  <2> QED
    BY <2>1, <2>2
<1>12. d \in DOMAIN downloads
  BY DEF d
<1> QED
  BY <1>2, <1>3, <1>5, <1>6, <1>10, <1>11, <1>12 DEF MapInv, d

LEMMA DataSteps ==
    ASSUME TypeOK, MapInv, NEW m \in Post(Message), m.type = "data",
           OnData(m), UNCHANGED <<nav, downloads, kind>>
    PROVE  MapInv' /\ MapOK' /\ DOMAIN body' = DOMAIN body
<1> DEFINE d == m.id
<1>1. Message' = Message
  BY Kept
<1>2. /\ DOMAIN streams \subseteq Nat /\ streams \in [DOMAIN streams -> Stream]
      /\ DOMAIN body \subseteq Nat /\ body \in [DOMAIN body -> Body(Message)]
      /\ d \in Nat /\ m.data \in Message /\ m.offset \in Nat
  BY DEF TypeOK, WorkerTypeOK, Post
<1>3. CASE /\ Usable(d) /\ served' = served
           /\ body' = [body EXCEPT ![d].data = Append(@, m.data)]
           /\ streams' = [streams EXCEPT ![d].offset = @ + 1]
  <2>1. d \in DOMAIN streams /\ streams[d] \in Stream /\ d \in DOMAIN body /\ body[d] \in Body(Message)
    BY <1>2, <1>3 DEF Usable, MapInv, EntryInv
  <2> DEFINE s == [streams[d] EXCEPT !.offset = @ + 1]
             b == [body[d] EXCEPT !.data = Append(@, m.data)]
  <2>2. /\ s \in Stream /\ s.kind = streams[d].kind
        /\ s.requestHandled = streams[d].requestHandled /\ s.streamHandled = streams[d].streamHandled
    BY <2>1 DEF Stream
  <2>3. b \in Body(Message) /\ b.state = body[d].state
    <3>1. body[d].data \in Seq(Message)
      BY <2>1 DEF Body
    <3>2. Append(body[d].data, m.data) \in Seq(Message)
      BY <3>1, <1>2
    <3> QED
      BY <2>1, <3>2 DEF Body
  <2>4. streams' = [streams EXCEPT ![d] = s] /\ body' = [body EXCEPT ![d] = b]
    BY <1>3
  <2> HIDE DEF s, b, d
  <2>5. MapOK' /\ DOMAIN body' = DOMAIN body /\ DOMAIN streams' = DOMAIN streams
    BY <2>1, <2>2, <2>3, <2>4, <1>1, <1>2 DEF MapOK
  <2>6. ASSUME NEW x \in DOMAIN streams' PROVE EntryInv(x)'
    <3>1. x \in DOMAIN streams /\ EntryInv(x)
      BY <2>5 DEF MapInv
    <3>2. /\ streams'[x].kind = streams[x].kind
          /\ streams'[x].requestHandled = streams[x].requestHandled
          /\ streams'[x].streamHandled = streams[x].streamHandled
      BY <2>1, <2>2, <2>4, <3>1, <1>2
    <3>3. x \in DOMAIN body => body'[x].state = body[x].state
      BY <2>1, <2>3, <2>4, <1>2
    <3> QED
      BY <2>5, <3>1, <3>2, <3>3, <1>3 DEF EntryInv
  <2> QED
    BY <2>5, <2>6, <1>3 DEF MapInv
<1>4. CASE UNCHANGED <<streams, body, served>>
  BY <1>1, <1>2, <1>4 DEF MapInv, MapOK, EntryInv
<1>5. CASE streams' = Delete(streams, d) /\ UNCHANGED <<body, served>>
  <2>1. /\ DOMAIN streams' = DOMAIN streams \ {d}
        /\ streams' = [x \in DOMAIN streams \ {d} |-> streams[x]]
        /\ \A x \in DOMAIN streams' : x \in DOMAIN streams /\ streams'[x] = streams[x]
    BY <1>5 DEF Delete, Restrict
  <2>2. MapOK'
    BY <2>1, <1>1, <1>2, <1>5 DEF MapOK
  <2>3. ASSUME NEW x \in DOMAIN streams' PROVE EntryInv(x)'
    BY <2>1, <1>5 DEF EntryInv, MapInv
  <2> QED
    BY <2>1, <2>2, <2>3, <1>5 DEF MapInv
<1> QED
  BY <1>3, <1>4, <1>5 DEF OnData

LEMMA EndSteps ==
    ASSUME TypeOK, MapInv, NEW m \in Post(Message),
           OnEnd(m) \/ OnError(m), UNCHANGED <<nav, downloads, kind>>
    PROVE  MapInv' /\ MapOK' /\ DOMAIN body' = DOMAIN body
<1> DEFINE d == m.id
<1>1. Message' = Message
  BY Kept
<1>2. /\ DOMAIN streams \subseteq Nat /\ streams \in [DOMAIN streams -> Stream]
      /\ DOMAIN body \subseteq Nat /\ body \in [DOMAIN body -> Body(Message)]
      /\ d \in Nat
  BY DEF TypeOK, WorkerTypeOK, Post
<1>3. CASE UNCHANGED <<streams, body, served>>
  BY <1>1, <1>2, <1>3 DEF MapInv, MapOK, EntryInv
<1>4. ASSUME Usable(d), NEW st \in {"closed", "errored"}, body' = [body EXCEPT ![d].state = st], served' = served,
             \/ st = "errored" /\ streams' = streams
             \/ streams' = Delete(streams, d)
             \/ /\ streams' = [streams EXCEPT ![d].streamHandled = TRUE]
                /\ ~streams[d].requestHandled
      PROVE  MapInv' /\ MapOK' /\ DOMAIN body' = DOMAIN body
  <2>1. /\ d \in DOMAIN streams /\ streams[d] \in Stream /\ d \in DOMAIN body /\ body[d] \in Body(Message)
        /\ streams[d].kind = "stream" /\ body[d].state = "readable"
    BY <1>2, <1>4 DEF Usable, MapInv, EntryInv
  <2> DEFINE b == [body[d] EXCEPT !.state = st]
             s == [streams[d] EXCEPT !.streamHandled = TRUE]
  <2>2. b \in Body(Message) /\ b.state = st
    BY <2>1 DEF Body
  <2>3. s \in Stream /\ s.kind = "stream" /\ s.requestHandled = streams[d].requestHandled /\ s.streamHandled
    BY <2>1 DEF Stream
  <2>4. body' = [body EXCEPT ![d] = b]
    BY <1>4
  <2>5. \/ st = "errored" /\ streams' = streams
        \/ streams' = [x \in DOMAIN streams \ {d} |-> streams[x]]
        \/ streams' = [streams EXCEPT ![d] = s] /\ ~streams[d].requestHandled
    BY <1>4 DEF Delete, Restrict
  <2> HIDE DEF b, s, d
  <2>6. /\ DOMAIN body' = DOMAIN body /\ body' \in [DOMAIN body -> Body(Message)]
        /\ body'[d] = b /\ \A x \in DOMAIN body : x # d => body'[x] = body[x]
    BY <2>1, <2>2, <2>4, <1>2
  <2>7. DOMAIN streams' \subseteq DOMAIN streams /\ streams' \in [DOMAIN streams' -> Stream]
    BY <2>1, <2>3, <2>5, <1>2
  <2>8. MapOK'
    BY <2>6, <2>7, <1>1, <1>2 DEF MapOK
  <2>9. ASSUME NEW x \in DOMAIN streams' PROVE EntryInv(x)'
    <3>1. x \in DOMAIN streams /\ EntryInv(x)
      BY <2>7 DEF MapInv
    <3>2. CASE x # d
      <4>1. streams'[x] = streams[x]
        BY <2>1, <2>5, <3>1, <3>2, <1>2
      <4> QED
        BY <2>6, <3>1, <3>2, <4>1, <1>4 DEF EntryInv
    <3>3. CASE x = d
      <4>1. \/ st = "errored" /\ streams'[d] = streams[d]
            \/ streams'[d] = s /\ ~streams[d].requestHandled
        BY <2>1, <2>5, <3>3, <1>2
      <4> QED
        BY <2>1, <2>2, <2>3, <2>6, <3>1, <3>3, <4>1, <1>4 DEF EntryInv
    <3> QED
      BY <3>2, <3>3
  <2> QED
    BY <2>6, <2>7, <2>8, <2>9, <1>4 DEF MapInv
<1>5. CASE OnEnd(m)
  <2>1. CASE Usable(d)
    <3>1. streams[d].requestHandled \in BOOLEAN
      BY <2>1, <1>2 DEF Usable, Stream
    <3>2. /\ body' = [body EXCEPT ![d].state = "closed"] /\ served' = served
          /\ \/ streams' = Delete(streams, d)
             \/ streams' = [streams EXCEPT ![d].streamHandled = TRUE] /\ ~streams[d].requestHandled
      BY <2>1, <3>1, <1>5 DEF OnEnd
    <3> QED
      BY <2>1, <3>2, <1>4
  <2>2. CASE ~Usable(d)
    BY <2>2, <1>3, <1>5 DEF OnEnd
  <2> QED
    BY <2>1, <2>2
<1>6. CASE OnError(m)
  <2>1. CASE Usable(d)
    <3>1. body' = [body EXCEPT ![d].state = "errored"] /\ UNCHANGED <<streams, served>>
      BY <2>1, <1>6 DEF OnError
    <3> QED
      BY <2>1, <3>1, <1>4
  <2>2. CASE ~Usable(d)
    BY <2>2, <1>3, <1>6 DEF OnError
  <2> QED
    BY <2>1, <2>2
<1> QED
  BY <1>5, <1>6

LEMMA RequestSteps ==
    ASSUME TypeOK, MapInv, NEW d \in nav, StreamDownload(d), UNCHANGED <<downloads, kind>>
    PROVE  MapInv' /\ MapOK'
<1>1. Message' = Message
  BY Kept
<1>2. /\ DOMAIN streams \subseteq Nat /\ streams \in [DOMAIN streams -> Stream]
      /\ DOMAIN body \subseteq Nat /\ body \in [DOMAIN body -> Body(Message)]
      /\ d \in Nat /\ d \in DOMAIN downloads /\ d \notin served
  BY DEF TypeOK, WorkerTypeOK, MapInv
<1>3. nav' = nav \ {d} /\ body' = body
  BY DEF StreamDownload
<1>4. CASE d \in DOMAIN streams
  <2>1. /\ streams[d] \in Stream /\ streams[d].kind = "stream" /\ d \in DOMAIN body
        /\ body[d].state = "closed" => streams[d].streamHandled
    <3>1. streams[d] \in Stream
      BY <1>2, <1>4
    <3>2. streams[d].kind \in {"stream", "placeholder"}
      BY <3>1 DEF Stream
    <3> QED
      BY <3>1, <3>2, <1>4 DEF MapInv, EntryInv
  <2> DEFINE s == [streams[d] EXCEPT !.requestHandled = TRUE]
  <2>2. s \in Stream /\ s.kind = "stream" /\ s.requestHandled /\ s.streamHandled = streams[d].streamHandled
    BY <2>1 DEF Stream
  <2>3. /\ served' = served \cup {d}
        /\ \/ streams' = [x \in DOMAIN streams \ {d} |-> streams[x]]
           \/ ~streams[d].streamHandled /\ streams' = [streams EXCEPT ![d] = s]
    <3>1. streams[d].streamHandled \in BOOLEAN
      BY <2>1 DEF Stream
    <3> QED
      BY <3>1, <1>4 DEF StreamDownload, Delete, Restrict
  <2> HIDE DEF s
  <2>4. DOMAIN streams' \subseteq DOMAIN streams /\ streams' \in [DOMAIN streams' -> Stream]
    BY <2>1, <2>2, <2>3, <1>2
  <2>5. ASSUME NEW x \in DOMAIN streams' PROVE EntryInv(x)'
    <3>1. x \in DOMAIN streams /\ EntryInv(x)
      BY <2>4 DEF MapInv
    <3>2. CASE x # d
      <4>1. streams'[x] = streams[x]
        BY <2>3, <3>1, <3>2, <1>2, <1>4
      <4> QED
        BY <2>3, <3>1, <3>2, <4>1, <1>3 DEF EntryInv
    <3>3. CASE x = d
      <4>1. streams'[d] = s /\ ~streams[d].streamHandled
        BY <2>3, <3>3, <1>2, <1>4
      <4> QED
        BY <2>1, <2>2, <3>3, <4>1, <1>3 DEF EntryInv
    <3> QED
      BY <3>2, <3>3
  <2>6. MapOK'
    BY <2>4, <1>1, <1>2, <1>3 DEF MapOK
  <2> QED
    BY <2>1, <2>3, <2>4, <2>5, <2>6, <1>3 DEF MapInv
<1>5. CASE d \notin DOMAIN streams
  <2>1. /\ streams' = [x \in DOMAIN streams \cup {d} |-> IF x = d THEN Placeholder ELSE streams[x]]
        /\ served' = served
    BY <1>5 DEF StreamDownload, Put
  <2>2. Placeholder \in Stream /\ Placeholder.kind = "placeholder"
    BY DEF Placeholder, NewStream, Stream
  <2>3. DOMAIN streams' = DOMAIN streams \cup {d} /\ streams' \in [DOMAIN streams' -> Stream]
    BY <2>1, <2>2, <1>2
  <2>4. ASSUME NEW x \in DOMAIN streams' PROVE EntryInv(x)'
    <3>1. CASE x = d
      BY <2>1, <2>2, <3>1, <1>2, <1>3 DEF EntryInv
    <3>2. CASE x # d
      <4>1. x \in DOMAIN streams /\ EntryInv(x) /\ streams'[x] = streams[x]
        BY <2>1, <2>3, <3>2 DEF MapInv
      <4> QED
        BY <2>1, <4>1, <1>3 DEF EntryInv
    <3> QED
      BY <3>1, <3>2
  <2>5. MapOK'
    BY <2>3, <1>1, <1>2, <1>3 DEF MapOK
  <2> QED
    BY <2>1, <2>3, <2>4, <2>5, <1>2, <1>3 DEF MapInv
<1> QED
  BY <1>4, <1>5

LEMMA StopSteps ==
    ASSUME TypeOK, MapInv, StopWorker, UNCHANGED <<downloads, kind>>
    PROVE  MapInv' /\ MapOK' /\ DOMAIN body' = DOMAIN body
<1>1. Message' = Message
  BY Kept
<1>2. DOMAIN body \subseteq Nat /\ body \in [DOMAIN body -> Body(Message)]
  BY DEF TypeOK, WorkerTypeOK
<1>3. DOMAIN streams' = {} /\ streams' = <<>> /\ UNCHANGED <<nav, served>>
  BY DEF StopWorker
<1>4. \A id \in DOMAIN body : [body[id] EXCEPT !.state = "errored"] \in Body(Message)
  <2>1. \A id \in DOMAIN body : body[id] \in Body(Message)
    BY <1>2
  <2> QED
    BY <2>1 DEF Body
<1>5. DOMAIN body' = DOMAIN body /\ body' \in [DOMAIN body -> Body(Message)]
  BY <1>2, <1>4 DEF StopWorker
<1>6. MapOK'
  BY <1>1, <1>2, <1>3, <1>5 DEF MapOK
<1> QED
  BY <1>3, <1>5, <1>6 DEF MapInv

LEMMA WorkerSteps ==
    ASSUME TypeOK, WorkerInv, Worker
    PROVE  WorkerTypeOK(Message)' /\ WorkerInv'
<1>1. /\ UNCHANGED <<kind, downloads, receiving>> /\ Message' = Message /\ Via' = Via
      /\ MapInv /\ PostInv
      /\ post \in Seq(Post(Message)) /\ nav \subseteq Nat /\ stops \in 0..MaxStops /\ MaxStops \in Nat
  BY Kept, WorkerInvParts, TransferAssumption DEF Worker, receiveVars, TypeOK, WorkerTypeOK
<1> SUFFICES /\ MapInv' /\ MapOK' /\ PostInv' /\ post' \in Seq(Post(Message)) /\ nav' \subseteq Nat
             /\ stops' \in 0..MaxStops
  <2>1. WorkerInv'
    BY <1>1, WorkerInvParts DEF WorkerInv, MapInv, PostInv
  <2>2. WorkerTypeOK(Message)'
    BY <1>1 DEF WorkerTypeOK, MapOK, MapInv, Post, Body
  <2> QED
    BY <2>1, <2>2
<1>2. CASE OnMessage
  <2>1. post # <<>> /\ post' = Tail(post) /\ UNCHANGED <<nav, stops>>
    BY <1>2 DEF OnMessage
  <2>2. /\ post' \in Seq(Post(Message)) /\ 1 \in DOMAIN post /\ Head(post) = post[1]
        /\ post[1] \in Post(Message)
    BY <2>1, PostTail
  <2>3. PICK m \in Post(Message) : m = post[1]
    BY <2>2
  <2>4. \/ m.type = "metadata" /\ OnMetadata(m)
        \/ m.type = "data" /\ OnData(m)
        \/ m.type = "end" /\ OnEnd(m)
        \/ m.type = "error" /\ OnError(m)
    BY <2>2, <2>3, <1>2 DEF OnMessage
  <2>5. UNCHANGED <<nav, downloads, kind>>
    BY <2>1, <1>1
  <2>6. /\ MapInv' /\ MapOK'
        /\ \A id \in DOMAIN body' : id \in DOMAIN body \/ (m.type = "metadata" /\ id = m.id)
    <3>1. CASE m.type = "metadata" /\ OnMetadata(m)
      <4>1. m.id \in DOMAIN downloads /\ m.id \notin DOMAIN body
        BY <2>2, <2>3, <3>1, <1>1 DEF PostInv
      <4> QED
        BY <2>5, <3>1, <4>1, <1>1, MetadataSteps
    <3>2. CASE m.type = "data" /\ OnData(m)
      BY <2>5, <3>2, <1>1, DataSteps
    <3>3. CASE OnEnd(m) \/ OnError(m)
      BY <2>5, <3>3, <1>1, EndSteps
    <3> QED
      BY <2>4, <3>1, <3>2, <3>3
  <2>7. PostInv'
    BY <2>1, <2>3, <2>6, <1>1, PostInvMovesUp
  <2> QED
    BY <2>1, <2>2, <2>6, <2>7, <1>1
<1>3. ASSUME NEW d \in nav, StreamDownload(d)
      PROVE  /\ MapInv' /\ MapOK' /\ UNCHANGED <<post, body, stops>> /\ nav' \subseteq Nat
  <2>1. MapInv' /\ MapOK'
    BY <1>1, <1>3, RequestSteps
  <2> QED
    BY <2>1, <1>1, <1>3 DEF StreamDownload
<1>4. CASE StopWorker
  <2>1. MapInv' /\ MapOK' /\ DOMAIN body' = DOMAIN body
    BY <1>1, <1>4, StopSteps
  <2>2. UNCHANGED <<post, nav>> /\ stops' \in 0..MaxStops
    BY <1>1, <1>4 DEF StopWorker
  <2> QED
    BY <2>1, <2>2, <1>1 DEF PostInv
<1>5. WorkerNext
  BY DEF Worker
<1> QED
  BY <1>1, <1>2, <1>3, <1>4, <1>5 DEF WorkerNext, PostInv

(* The steps of pages that concern the worker: messages other than         *)
(* metadata for the current download, or a new download.                   *)
LEMMA Appended ==
    ASSUME NEW S, NEW p \in Seq(S), NEW q \in Seq(S), NEW i \in DOMAIN (p \o q)
    PROVE  \/ i \in DOMAIN p /\ (p \o q)[i] = p[i]
           \/ \E k \in DOMAIN q : i = Len(p) + k /\ (p \o q)[i] = q[k]
<1>1. CASE i <= Len(p)
  BY <1>1
<1>2. CASE i > Len(p)
  <2>1. i - Len(p) \in DOMAIN q /\ (p \o q)[i] = q[i - Len(p)] /\ i = Len(p) + (i - Len(p))
    BY <1>2
  <2> QED
    BY <2>1
<1> QED
  BY <1>1, <1>2

LEMMA PageSteps ==
    ASSUME TypeOK, WorkerInv, UNCHANGED <<kind, streams, body, served, nav, downloads>>,
           NEW q \in Seq(Post(Message)), post' = post \o q, q # <<>> => Via /\ receiving.item # 0,
           \A k \in DOMAIN q : q[k].id = receiving.id /\ q[k].type # "metadata",
           \/ Via' => receiving'.item = 0
           \/ receiving'.item = receiving.item /\ receiving'.id = receiving.id
    PROVE  WorkerInv'
<1>1. post \in Seq(Post(Message)) /\ Via' = Via
  BY Kept DEF TypeOK, WorkerTypeOK
<1>2. MapInv'
  BY WorkerInvParts DEF MapInv, EntryInv
<1>3. ASSUME NEW i \in DOMAIN post'
      PROVE  \/ i \in DOMAIN post /\ post'[i] = post[i]
             \/ post'[i].id \in DOMAIN downloads /\ post'[i].type # "metadata"
  <2>1. PICK p \in Seq(Post(Message)) : p = post
    BY <1>1
  <2>2. \/ i \in DOMAIN p /\ (p \o q)[i] = p[i]
        \/ \E k \in DOMAIN q : i = Len(p) + k /\ (p \o q)[i] = q[k]
    BY <2>1, <1>3, Appended
  <2>3. \A k \in DOMAIN q : q # <<>>
    OBVIOUS
  <2> QED
    BY <2>1, <2>2, <2>3 DEF WorkerInv
<1>4. PostInv'
  BY <1>3 DEF PostInv, WorkerInv
<1> QED
  BY <1>1, <1>2, <1>4, WorkerInvParts DEF WorkerInv, MapInv, PostInv

LEMMA NewDownload ==
    ASSUME TypeOK, WorkerInv, UNCHANGED <<kind, streams, body, served>>,
           NEW id, id = Len(downloads) + 1, NEW i \in Item,
           nav' \subseteq nav \cup {id}, downloads' = Append(downloads, i),
           post' = Append(post, [type |-> "metadata", id |-> id]),
           receiving'.item = i, receiving'.id = id
    PROVE  WorkerInv'
<1>1. post \in Seq(Post(Message)) /\ Via' = Via /\ downloads \in Seq(Item)
  BY Kept DEF TypeOK, WorkerTypeOK
<1>2. /\ id \in Nat /\ id \notin DOMAIN downloads /\ id \in DOMAIN downloads'
      /\ DOMAIN downloads' = DOMAIN downloads \cup {id} /\ downloads'[id] = i
  BY <1>1
<1>3. id \notin DOMAIN streams /\ id \notin DOMAIN body /\ id \notin served
  BY <1>2 DEF WorkerInv
<1>4. ASSUME NEW x \in DOMAIN streams' PROVE EntryInv(x)'
  BY <1>3 DEF WorkerInv, EntryInv
<1>5. MapInv'
  BY <1>2, <1>3, <1>4 DEF WorkerInv, MapInv
<1>6. ASSUME NEW k \in DOMAIN post'
      PROVE  \/ k \in DOMAIN post /\ post'[k] = post[k]
             \/ k = Len(post) + 1 /\ k \notin DOMAIN post /\ post'[k] = [type |-> "metadata", id |-> id]
  BY <1>1
<1>7. \A k \in DOMAIN post : post[k].id # id
  BY <1>2 DEF WorkerInv
<1>8. ASSUME NEW k \in DOMAIN post', post'[k].type = "metadata"
      PROVE  /\ post'[k].id \notin DOMAIN body'
             /\ \A j \in DOMAIN post' : j # k /\ post'[j].type = "metadata" => post'[j].id # post'[k].id
  <2>1. CASE k \in DOMAIN post /\ post'[k] = post[k]
    BY <2>1, <1>6, <1>7, <1>8 DEF WorkerInv
  <2>2. CASE k = Len(post) + 1 /\ k \notin DOMAIN post /\ post'[k] = [type |-> "metadata", id |-> id]
    BY <2>2, <1>3, <1>6, <1>7 DEF WorkerInv
  <2> QED
    BY <2>1, <2>2, <1>6
<1>9. \A k \in DOMAIN post' : post'[k].id \in DOMAIN downloads'
  BY <1>2, <1>6 DEF WorkerInv
<1>10. PostInv'
  BY <1>8, <1>9 DEF PostInv
<1> QED
  BY <1>2, <1>5, <1>10, WorkerInvParts DEF WorkerInv, MapInv, PostInv

(* Neither GoReceive nor any other step concerns it.                       *)
LEMMA WorkerKept ==
    ASSUME [Next]_vars
    PROVE  \/ Worker
           \/ UNCHANGED <<streams, body, served, stops, post, nav, downloads>> /\
              (UNCHANGED receiving \/ GoReceive)
           \/ \E p \in Side, c \in Conn : Disconnected(p, c)
           \/ \E c \in Conn : PageReceive(c)
BY ZenonT(40) DEF Next, vars, AddUpload, GoWrite, GoWait, Flushed, GoClose, GoSendFatal, GoReceiveEOF, GoReceive,
       FinishUpload, WriteChunks, Dial, Open, Drain, LoseLink, NewConnection, receiveVars, workerVars

LEMMA ErrorPosts ==
    ASSUME TypeOK
    PROVE  /\ ErrorPost \in Seq(Post(Message)) /\ (ErrorPost # <<>> => Via)
           /\ \A k \in DOMAIN ErrorPost : ErrorPost[k] = [type |-> "error", id |-> receiving.id]
<1>1. receiving.id \in Nat
  BY DEF TypeOK
<1>2. PICK x \in Post(Message) : x = [type |-> "error", id |-> receiving.id]
  BY <1>1 DEF Post
<1>3. CASE Via
  <2>1. ErrorPost = <<x>>
    BY <1>2, <1>3 DEF ErrorPost, Via
  <2> QED
    BY <2>1, <1>2, <1>3
<1>4. CASE ~Via
  <2>1. ErrorPost = <<>>
    BY <1>4 DEF ErrorPost, Via
  <2> QED
    BY <2>1
<1> QED
  BY <1>3, <1>4

(* What TakeChunk posts and keeps.                                         *)
ChunkPost(m) == [type |-> "data", id |-> receiving.id, data |-> m, offset |-> Len(receiving.data)]
EndPost == [type |-> "end", id |-> receiving.id]
LEMMA TakeChunkCases ==
    ASSUME TypeOK, NEW m \in Message, receiving.item # 0, TakeChunk(m)
    PROVE  /\ UNCHANGED <<downloads, nav>>
           /\ \/ /\ ~Within /\ post' = post \o ErrorPost /\ UNCHANGED <<receiving, saved>>
              \/ /\ Within /\ Len(receiving.data) + 1 # batch[receiving.item].size
                 /\ receiving' = [receiving EXCEPT !.data = Append(receiving.data, m)]
                 /\ post' = (IF Via THEN post \o <<ChunkPost(m)>> ELSE post) /\ UNCHANGED saved
              \/ /\ Within /\ Len(receiving.data) + 1 = batch[receiving.item].size
                 /\ receiving' = Nothing
                 /\ post' = IF Via THEN post \o <<ChunkPost(m), EndPost>> ELSE post
                 /\ saved' = IF Via THEN saved
                             ELSE saved \cup {[item |-> receiving.item, data |-> Append(receiving.data, m)]}
<1>1. Len(receiving.data) \in Nat /\ receiving.item \in Item /\ batch[receiving.item].size \in Nat
  <2>1. receiving.data \in Seq(Message) /\ receiving.item \in 0..Len(batch)
    BY DEF TypeOK
  <2>2. receiving.item \in Item
    BY <2>1, Scenario DEF Item
  <2> QED
    BY <2>1, <2>2, Scenario
<1> DEFINE n == Len(receiving.data)
           size == batch[receiving.item].size
<1>2. Within <=> ~(n + 1 > size)
  BY <1>1 DEF Within
<1>3. CASE n + 1 > size
  BY <1>2, <1>3 DEF TakeChunk
<1>4. CASE ~(n + 1 > size)
  BY <1>2, <1>4 DEF TakeChunk, Complete, ChunkPost, EndPost
<1> QED
  BY <1>3, <1>4

LEMMA PostsTyped ==
    ASSUME TypeOK, NEW m \in Message
    PROVE  /\ ChunkPost(m) \in Post(Message) /\ EndPost \in Post(Message)
           /\ ChunkPost(m).type = "data" /\ ChunkPost(m).id = receiving.id
           /\ ChunkPost(m).offset = Len(receiving.data) /\ ChunkPost(m).data = m
           /\ EndPost.type = "end" /\ EndPost.id = receiving.id
<1>1. receiving.id \in Nat /\ Len(receiving.data) \in Nat
  <2>1. receiving.data \in Seq(Message) /\ receiving.id \in Nat
    BY DEF TypeOK
  <2> QED
    BY <2>1
<1> QED
  BY <1>1 DEF ChunkPost, EndPost, Post

LEMMA WorkerStep ==
    ASSUME TypeOK, WorkerInv, [Next]_vars
    PROVE  WorkerTypeOK(Message)' /\ WorkerInv'
<1>1. /\ kind' = kind /\ Message' = Message /\ Via' = Via
      /\ post \in Seq(Post(Message)) /\ net \in [Conn -> Seq(Message)]
      /\ <<>> \in Seq(Post(Message)) /\ post = post \o <<>>
  BY KindKept, Kept DEF TypeOK, WorkerTypeOK
<1>2. CASE Worker
  BY <1>2, WorkerSteps
<1>3. ASSUME post' \in Seq(Post(Message)), nav' \subseteq Nat, UNCHANGED <<streams, body, served, stops>>
      PROVE  WorkerTypeOK(Message)'
  <2>1. WorkerTypeOK(Message)
    BY DEF TypeOK
  <2> QED
    BY <2>1, <1>1, <1>3 DEF WorkerTypeOK, Post, Body
<1>4. nav \subseteq Nat
  BY DEF TypeOK, WorkerTypeOK
<1>5. CASE /\ UNCHANGED <<streams, body, served, stops, post, nav, downloads>>
           /\ UNCHANGED receiving \/ GoReceive
  <2>1. Via' => UNCHANGED receiving
    BY <1>1, <1>5 DEF GoReceive, Page, Via
  <2>2. WorkerInv'
    BY <2>1, <1>1, <1>5 DEF WorkerInv, EntryInv
  <2> QED
    BY <2>2, <1>1, <1>3, <1>4, <1>5
<1>6. ASSUME NEW p \in Side, NEW c \in Conn, Disconnected(p, c)
      PROVE  WorkerTypeOK(Message)' /\ WorkerInv'
  <2>1. UNCHANGED <<streams, body, served, stops, nav, downloads>>
    BY <1>6 DEF Disconnected
  <2>2. CASE UNCHANGED <<receiving, post>>
    BY <2>1, <2>2, <1>1, <1>3, <1>4 DEF WorkerInv, EntryInv
  <2>3. CASE receiving.item # 0 /\ receiving' = Nothing /\ post' = post \o ErrorPost
    <3>1. PICK q \in Seq(Post(Message)) : q = ErrorPost
      BY ErrorPosts
    <3>2. /\ q # <<>> => Via /\ receiving.item # 0
          /\ \A k \in DOMAIN q : q[k].id = receiving.id /\ q[k].type # "metadata"
      BY <2>3, <3>1, ErrorPosts
    <3>3. post' = post \o q /\ receiving'.item = 0
      BY <2>3, <3>1 DEF Nothing
    <3>4. WorkerInv'
      BY <2>1, <3>2, <3>3, <1>1, PageSteps
    <3>5. post' \in Seq(Post(Message))
      BY <3>3, <1>1
    <3> QED
      BY <2>1, <3>4, <3>5, <1>3, <1>4
  <2> QED
    BY <2>2, <2>3, <1>6 DEF Disconnected, ForgetReceiving
<1>7. ASSUME NEW c \in Conn, PageReceive(c)
      PROVE  WorkerTypeOK(Message)' /\ WorkerInv'
  <2>1. UNCHANGED <<streams, body, served, stops>>
    BY <1>7 DEF PageReceive
  <2>2. PICK m \in Message : m = Head(net[c])
    <3>1. net[c] \in Seq(Message) /\ net[c] # <<>>
      BY <1>1, <1>7 DEF PageReceive
    <3> QED
      BY <3>1
  <2>3. (TakeChunk(m) /\ receiving.item # 0) \/ (TakeHeader(m) /\ receiving.item = 0)
    BY <2>2, <1>7 DEF PageReceive
  <2>4. post' \in Seq(Post(Message)) /\ nav' \subseteq Nat
    BY <2>3, TakeTyped
  <2>5. WorkerTypeOK(Message)'
    BY <2>1, <2>4, <1>3
  <2>6. CASE TakeChunk(m) /\ receiving.item # 0
    <3>1. /\ UNCHANGED <<downloads, nav>>
          /\ \/ post' = post \o ErrorPost /\ UNCHANGED receiving
             \/ /\ \/ receiving' = [receiving EXCEPT !.data = Append(receiving.data, m)]
                   \/ receiving' = Nothing
                /\ \/ ~Via /\ post' = post
                   \/ Via /\ (post' = post \o <<ChunkPost(m)>> \/ post' = post \o <<ChunkPost(m), EndPost>>)
      BY <2>6, TakeChunkCases
    <3>2. \/ receiving'.item = 0
          \/ receiving'.item = receiving.item /\ receiving'.id = receiving.id
      <4>1. receiving \in [item: 0..Len(batch), data: Seq(Message), id: Nat]
        BY DEF TypeOK
      <4> QED
        BY <3>1, <4>1 DEF Nothing
    <3>3. PICK q \in Seq(Post(Message)) :
             /\ post' = post \o q /\ (q # <<>> => Via)
             /\ \A k \in DOMAIN q : q[k].id = receiving.id /\ q[k].type # "metadata"
      <4>1. CASE post' = post \o ErrorPost
        BY <4>1, ErrorPosts
      <4>2. CASE ~Via /\ post' = post
        <5>1. PICK q \in Seq(Post(Message)) : q = <<>>
          BY <1>1
        <5>2. post' = post \o q /\ DOMAIN q = {}
          BY <4>2, <5>1, <1>1
        <5> QED
          BY <5>1, <5>2
      <4>3. PICK a \in Post(Message), b \in Post(Message) : a = ChunkPost(m) /\ b = EndPost
        BY PostsTyped
      <4>4. /\ <<a>> \in Seq(Post(Message)) /\ <<a, b>> \in Seq(Post(Message))
            /\ \A k \in DOMAIN <<a>> : <<a>>[k].id = receiving.id /\ <<a>>[k].type # "metadata"
            /\ \A k \in DOMAIN <<a, b>> : <<a, b>>[k].id = receiving.id /\ <<a, b>>[k].type # "metadata"
        <5>1. a.id = receiving.id /\ a.type # "metadata" /\ b.id = receiving.id /\ b.type # "metadata"
          BY <4>3, PostsTyped
        <5> QED
          BY <5>1
      <4>5. CASE Via /\ post' = post \o <<a>>
        BY <4>4, <4>5
      <4>6. CASE Via /\ post' = post \o <<a, b>>
        BY <4>4, <4>6
      <4> QED
        BY <3>1, <4>1, <4>2, <4>3, <4>5, <4>6
    <3>4. WorkerInv'
      BY <2>1, <2>6, <3>1, <3>2, <3>3, <1>1, PageSteps
    <3> QED
      BY <2>5, <3>4
  <2>7. CASE TakeHeader(m) /\ receiving.item = 0
    <3>1. CASE UNCHANGED <<downloads, post, nav>> /\ (Via => UNCHANGED receiving)
      BY <2>1, <2>5, <3>1, <1>1 DEF WorkerInv, EntryInv
    <3>2. CASE /\ receiving' = [item |-> m.item, data |-> <<>>, id |-> Len(downloads) + 1]
               /\ post' = Append(post, [type |-> "metadata", id |-> Len(downloads) + 1])
               /\ nav' \in {nav \cup {Len(downloads) + 1}, {Len(downloads) + 1}}
               /\ downloads' = Append(downloads, m.item)
      <4>1. PICK id : id = Len(downloads) + 1
        OBVIOUS
      <4>2. m.item \in Item
        BY DEF Message
      <4>3. /\ nav' \subseteq nav \cup {id} /\ receiving'.item = m.item /\ receiving'.id = id
            /\ post' = Append(post, [type |-> "metadata", id |-> id])
            /\ downloads' = Append(downloads, m.item)
        BY <3>2, <4>1
      <4>4. WorkerInv'
        BY <2>1, <4>1, <4>2, <4>3, <1>1, NewDownload
      <4> QED
        BY <2>5, <4>4
    <3> QED
      BY <2>7, <3>1, <3>2 DEF TakeHeader
  <2> QED
    BY <2>3, <2>6, <2>7
<1> QED
  BY <1>2, <1>5, <1>6, <1>7, WorkerKept

LEMMA StartsTyped == Init => TypeOK /\ WorkerInv
<1> SUFFICES ASSUME Init PROVE TypeOK /\ WorkerInv
  OBVIOUS
<1>1. kind \in Scenarios /\ batch \in Seq(Upload) /\ Len(batch) \in Nat /\ MaxConn \in Nat /\ MaxTold \in Nat
      /\ MaxStops \in Nat
  BY TransferAssumption DEF Init, batch
<1>2. Len(Messages) \in Nat
  <2>1. PICK b \in Seq(Upload) : b = batch
    BY <1>1
  <2>2. Written(b) = <<>> \/ WalkTo(b, Written(b), Len(b))
    BY <2>1, WrittenWalks
  <2>3. Len(Written(b)) \in Nat
    BY <2>2 DEF WalkTo
  <2>4. Messages = Written(batch)
    BY DEF Messages, Written, Item, Content, Parts
  <2> QED
    BY <2>1, <2>3, <2>4
<1>3. PagesOK
  <2>1. gosend \in [at: {"write", "held", "waiting", "exit"}, written: 0..Len(Messages)]
    BY <1>2 DEF Init
  <2>2. /\ events \in [Side -> [Conn -> 0..MaxTold]]
        /\ state \in [Side -> {"disconnected", "dialling", "connected", "gone"}]
        /\ datachannel \in [Side -> 0..MaxConn]
    BY <1>1 DEF Init, Side
  <2>3. /\ link \in [Conn -> {"none", "open", "closed", "lost"}] /\ opened \in [Conn -> SUBSET Side]
        /\ flush \in BOOLEAN /\ late \in BOOLEAN /\ goreceive \in {"read", "ok", "fatal"}
    BY DEF Init
  <2> QED
    BY <2>1, <2>2, <2>3, <1>1 DEF PagesOK
<1>4. SendersOK
  BY <1>1 DEF Init, SendersOK
<1>5. ReceiversOK
  BY <1>1 DEF Init, ReceiversOK, Nothing
<1>6. WorkerTypeOK(Message)
  BY <1>1 DEF Init, WorkerInit, WorkerTypeOK
<1>7. WorkerInv
  BY DEF Init, WorkerInit, WorkerInv, Nothing
<1> QED
  BY <1>3, <1>4, <1>5, <1>6, <1>7, TypeParts

LEMMA StepTyped ==
    ASSUME TypeOK, WorkerInv, [Next]_vars
    PROVE  TypeOK' /\ WorkerInv'
<1>1. PagesOK' /\ SendersOK' /\ ReceiversOK'
  BY PagesTyped, SendersTyped, ReceiversTyped
<1>2. WorkerTypeOK(Message)' /\ WorkerInv'
  BY WorkerStep
<1>3. TypeOK'
  BY <1>1, <1>2 DEF TypeOK, PagesOK, SendersOK, ReceiversOK, UploadCall
<1> QED
  BY <1>2, <1>3

(* Type correctness: every variable of senders, receivers, channels and    *)
(* the worker keeps its type; every message is a part of an upload that    *)
(* exists, and only streams that exist are served.                         *)
THEOREM TypeCorrect == Spec => []TypeOK
<1>1. TypeOK /\ WorkerInv /\ [Next]_vars => TypeOK' /\ WorkerInv'
  BY StepTyped
<1> QED
  BY <1>1, StartsTyped, PTL DEF Spec

(* sw.ts: whichever of the last message and the request is handled last,   *)
(* the Map no longer holds the stream once both were, for any order of     *)
(* messages, requests and stops of the worker.                             *)
THEOREM WorkerCleansUpHolds == Spec => []WorkerCleansUp
<1>1. TypeOK /\ WorkerInv /\ [Next]_vars => TypeOK' /\ WorkerInv'
  BY StepTyped
<1>2. TypeOK /\ WorkerInv => WorkerCleansUp
  <2> SUFFICES ASSUME TypeOK, WorkerInv, NEW id \in DOMAIN streams PROVE ~Downloaded(id)
    BY DEF WorkerCleansUp
  <2> QED
    BY DEF WorkerInv, EntryInv, Downloaded
<1> QED
  BY <1>1, <1>2, StartsTyped, PTL DEF Spec
-----------------------------------------------------------------------------
(* The sending page: how its buffer and its suspended calls change.        *)

NewUpload(i, d) == [item |-> i, offset |-> 0, dc |-> d, wait |-> FALSE]
Rests(u) == u.offset = batch[u.item].size \/ link[u.dc] = "lost"
Idles == uploads' = {} /\ UNCHANGED <<buf, link, net>> /\ \A u \in uploads : Rests(u)
Begins(i, d) ==
    /\ uploads' = {NewUpload(i, d)} /\ sending' = i
    /\ buf' = [buf EXCEPT ![d] = Append(@, Header(i))]
    /\ UNCHANGED <<link, net>> /\ link[d] # "none" /\ \A u \in uploads : Rests(u)
Adds(u, n) == WriteChunks(u, n) /\ ~Throws(u.dc)

LEMMA SendLoopSteps ==
    ASSUME TypeOK, LinkInv, UNCHANGED <<link, net>>, \A u \in uploads : Rests(u),
           NEW q \in Seq(Item), NEW d \in 0..MaxConn, d # 0 => link[d] # "none", SendLoop(q, d, {})
    PROVE  Idles \/ \E e \in Conn, i \in Item : Begins(i, e)
<1>1. CASE q = <<>>
  BY <1>1 DEF SendLoop, Idles
<1>2. CASE q # <<>> /\ Throws(d)
  BY <1>2 DEF SendLoop, Idles
<1>3. CASE q # <<>> /\ ~Throws(d)
  <2>1. Head(q) \in Item /\ d \in Conn /\ link[d] # "none"
    BY <1>3, TransferAssumption DEF Throws, Conn
  <2>2. Begins(Head(q), d)
    BY <2>1, <1>3 DEF SendLoop, Begins, NewUpload
  <2> QED
    BY <2>1, <2>2
<1> QED
  BY <1>1, <1>2, <1>3

LEMMA UploadSteps ==
    ASSUME TypeOK, LinkInv, UploadInv, Page("s"), [Next]_vars
    PROVE  \/ UNCHANGED <<buf, uploads, sending>>
           \/ Idles
           \/ \E d \in Conn, i \in Item : Begins(i, d)
           \/ \E u \in uploads, n \in 1..ReadMax : Adds(u, n)
           \/ \E c \in Conn : Drain(c)
<1>1. /\ sendqueue \in Seq(Item) /\ datachannel \in [Side -> 0..MaxConn] /\ "s" \in Side
      /\ added \in 0..Len(batch) /\ uploads \subseteq UploadCall
      /\ link \in [Conn -> {"none", "open", "closed", "lost"}]
  BY DEF TypeOK, Side, UploadCall
<1>0. Conn \subseteq 0..MaxConn
  BY TransferAssumption DEF Conn
<1>2. PICK d \in 0..MaxConn : d = datachannel["s"]
  BY <1>1
<1>3. d # 0 => link[d] # "none"
  <2>1. SUFFICES ASSUME d # 0 PROVE link[d] # "none"
    OBVIOUS
  <2>2. d \in Conn /\ ChannelInv("s")
    BY <2>1, <1>1, TransferAssumption DEF Conn, LinkInv
  <2>3. "s" \in opened[d] /\ EmptyInv(d)
    BY <2>1, <2>2, <1>2 DEF ChannelInv, LinkInv
  <2> QED
    BY <2>3 DEF EmptyInv
<1>4. ASSUME NEW q \in Seq(Item), NEW e \in 0..MaxConn, e # 0 => link[e] # "none", Send(q, e),
             UNCHANGED <<link, net>>
      PROVE  \/ UNCHANGED <<buf, uploads, sending>> \/ Idles
             \/ \E c \in Conn, i \in Item : Begins(i, c)
  <2>1. CASE e = 0 \/ sending # 0
    BY <2>1, <1>4 DEF Send
  <2>2. CASE ~(e = 0 \/ sending # 0)
    <3>1. uploads = {}
      BY <2>2 DEF UploadInv
    <3>2. SendLoop(q, e, {})
      BY <2>2, <3>1, <1>4 DEF Send
    <3> QED
      BY <3>1, <3>2, <1>4, SendLoopSteps
  <2> QED
    BY <2>1, <2>2
<1>5. CASE AddUpload
  <2>1. PICK q \in Seq(Item) : q = Append(sendqueue, added + 1)
    <3>1. added + 1 \in Item
      BY <1>1, <1>5, Scenario DEF AddUpload, Item
    <3>2. Append(sendqueue, added + 1) \in Seq(Item)
      BY <3>1, <1>1
    <3> QED
      BY <3>2, Zenon
  <2>2. Send(q, d) /\ UNCHANGED <<link, net>>
    BY <2>1, <1>2, <1>5 DEF AddUpload, connVars
  <2> QED
    BY <2>2, <1>3, <1>4
<1>6. CASE GoWrite \/ GoWait \/ Flushed \/ GoClose \/ GoSendFatal \/ GoReceive \/ GoReceiveEOF \/ Worker \/ UNCHANGED vars
  BY <1>6 DEF GoWrite, GoSends, GoWait, Flushed, GoClose, GoSendFatal, GoReceive, GoReceiveEOF,
              Worker, vars, queueVars
<1>7. ASSUME NEW u \in uploads, FinishUpload(u)
      PROVE  Idles \/ \E c \in Conn, i \in Item : Begins(i, c)
  <2>1. uploads \ {u} = {} /\ \A v \in uploads : Rests(v)
    BY <1>7 DEF UploadInv, FinishUpload, Rests
  <2>2. PICK q \in Seq(Item) : q = sendqueue
    BY <1>1
  <2>3. SendLoop(q, d, {}) /\ UNCHANGED <<link, net>>
    BY <2>1, <2>2, <1>2, <1>7 DEF FinishUpload, connVars
  <2> QED
    BY <2>1, <2>3, <1>3, SendLoopSteps
<1>8. ASSUME NEW u \in uploads, NEW n \in 1..ReadMax, WriteChunks(u, n)
      PROVE  Idles \/ Adds(u, n)
  <2>1. CASE Throws(u.dc)
    <3>1. u.dc \in Conn
      BY <1>1 DEF UploadCall
    <3>2. link[u.dc] \in {"none", "closed", "lost"} /\ link[u.dc] # "none" /\ ClosedInv(u.dc)
      BY <2>1, <3>1, <1>1, TransferAssumption DEF Throws, UploadInv, LinkInv, Conn
    <3>3. Rests(u) /\ \A v \in uploads : v = u
      BY <3>2 DEF ClosedInv, Rests, UploadInv
    <3> QED
      BY <2>1, <3>3, <1>8 DEF WriteChunks, Idles, connVars
  <2> QED
    BY <2>1, <1>8 DEF Adds
<1>9. CASE \E p \in Side : Dial(p)
  BY <1>9 DEF Dial, queueVars
<1>10. ASSUME NEW p \in Side, NEW c \in Conn, Open(p, c) \/ Disconnected(p, c)
       PROVE  \/ UNCHANGED <<buf, uploads, sending>> \/ Idles
              \/ \E e \in Conn, i \in Item : Begins(i, e)
  <2>1. CASE Disconnected(p, c)
    BY <2>1 DEF Disconnected
  <2>2. CASE Open(p, c) /\ p # "s"
    BY <2>2 DEF Open
  <2>3. CASE Open(p, c) /\ p = "s"
    <3>1. PICK q \in Seq(Item) : q = sendqueue
      BY <1>1
    <3>2. Send(q, c) /\ UNCHANGED <<link, net>> /\ link[c] # "none" /\ c \in 0..MaxConn
      BY <2>3, <3>1, <1>0 DEF Open
    <3> QED
      BY <3>2, <1>4
  <2> QED
    BY <1>10, <2>1, <2>2, <2>3
<1>11. ASSUME NEW c \in Conn, LoseLink(c) \/ NewConnection(c) \/ PageReceive(c)
       PROVE  UNCHANGED <<buf, uploads, sending>>
  BY <1>11 DEF LoseLink, NewConnection, PageReceive, queueVars
<1> QED
  BY <1>5, <1>6, <1>7, <1>8, <1>9, <1>10, <1>11 DEF Next

(* What happens to connections.                                            *)
LEMMA LinkSteps ==
    ASSUME TypeOK, [Next]_vars
    PROVE  /\ link' \in [Conn -> {"none", "open", "closed", "lost"}]
           /\ \/ UNCHANGED link
              \/ \E c \in Conn : NewConnection(c) \/ LoseLink(c)
              \/ GoClose \/ GoSendFatal \/ (GoReceive /\ link' = [link EXCEPT ![GoConn] = "lost"])
<1>1. PagesOK'
  BY PagesTyped
<1>2. \/ UNCHANGED link
      \/ \E c \in Conn : NewConnection(c) \/ LoseLink(c)
      \/ GoClose \/ GoSendFatal \/ (GoReceive /\ link' = [link EXCEPT ![GoConn] = "lost"])
  BY DEF Next, vars, AddUpload, GoWrite, GoWait, Flushed, GoReceive, GoReceiveEOF, PageReceive,
         Worker, FinishUpload, WriteChunks, Dial, Open, Drain, Disconnected, connVars
<1> QED
  BY <1>1, <1>2 DEF PagesOK

LEMMA NoneBefore ==
    ASSUME TypeOK, [Next]_vars, NEW c \in Conn, link'[c] = "none"
    PROVE  link[c] = "none"
<1>1. link \in [Conn -> {"none", "open", "closed", "lost"}] /\ GoConn \in Conn
  BY Scenario DEF TypeOK
<1> QED
  BY <1>1, LinkSteps DEF NewConnection, LoseLink, GoClose, GoSendFatal

LEMMA UploadStep ==
    ASSUME TypeOK, LinkInv, UploadInv, [Next]_vars
    PROVE  UploadInv'
<1>1. kind' = kind /\ batch' = batch /\ Page("s")' = Page("s")
  BY KindKept, Kept
<1>2. uploads \subseteq UploadCall /\ \A i \in Item : batch[i].size \in Nat
  BY Scenario DEF TypeOK, UploadCall
<1>3. \A u \in uploads : u.item \in Item /\ u.offset \in Nat /\ u.dc \in Conn
  BY <1>2 DEF UploadCall
<1>4. CASE ~Page("s")
  <2>1. uploads = {}
    BY <1>4 DEF UploadInv
  <2>2. uploads' = {}
    BY <2>1, <1>4 DEF Next, vars, AddUpload, GoWrite, GoWait, Flushed, GoClose, GoSendFatal,
         GoReceive, GoReceiveEOF, Worker, FinishUpload, WriteChunks, Dial, Open, Disconnected,
         Drain, LoseLink, NewConnection, PageReceive, queueVars
  <2> QED
    BY <2>2 DEF UploadInv
<1>5. CASE Page("s")
  <2>1. CASE UNCHANGED <<buf, uploads, sending>>
    <3>1. \A u \in uploads' : link'[u.dc] # "none"
      BY <2>1, <1>3, NoneBefore DEF UploadInv
    <3> QED
      BY <2>1, <3>1, <1>1 DEF UploadInv
  <2>2. CASE Idles
    BY <2>2 DEF Idles, UploadInv
  <2>3. ASSUME NEW d \in Conn, NEW i \in Item, Begins(i, d)
        PROVE  UploadInv'
    <3>1. batch[i].size \in Nat /\ i # 0
      BY <1>2 DEF Item
    <3>2. \A u \in uploads' : u = NewUpload(i, d)
      BY <2>3 DEF Begins
    <3>3. NewUpload(i, d).item = i /\ NewUpload(i, d).offset = 0 /\ NewUpload(i, d).dc = d
      BY DEF NewUpload
    <3>4. sending' # 0 /\ link'[d] # "none"
      BY <2>3, <3>1 DEF Begins
    <3> QED
      BY <3>1, <3>2, <3>3, <3>4, <1>1, <1>5 DEF UploadInv
  <2>4. ASSUME NEW u \in uploads, NEW n \in 1..ReadMax, Adds(u, n)
        PROVE  UploadInv'
    <3>1. \A v \in uploads : v = u
      BY DEF UploadInv
    <3>2. uploads' = (uploads \ {u}) \cup
              {[u EXCEPT !.offset = @ + n, !.wait = Len(buf[u.dc]) + n >= Mark]}
      BY <2>4 DEF Adds, WriteChunks
    <3> DEFINE w == [u EXCEPT !.offset = @ + n, !.wait = Len(buf[u.dc]) + n >= Mark]
    <3>3. u \in [item: Item, offset: Nat, dc: Conn, wait: BOOLEAN]
      BY <1>2 DEF UploadCall
    <3>4. w.item = u.item /\ w.offset = u.offset + n /\ w.dc = u.dc
      BY <3>3
    <3>5. u.offset + n <= batch[u.item].size /\ UNCHANGED <<link, sending>>
      BY <2>4 DEF Adds, WriteChunks, connVars
    <3>6. \A v \in uploads' : v = w
      BY <3>1, <3>2
    <3> HIDE DEF w
    <3>7. sending # 0 /\ link[u.dc] # "none"
      BY DEF UploadInv
    <3> QED
      BY <3>4, <3>5, <3>6, <3>7, <1>1, <1>5 DEF UploadInv
  <2>5. ASSUME NEW c \in Conn, Drain(c)
        PROVE  UploadInv'
    <3>1. /\ UNCHANGED <<link, sending>>
          /\ \A v \in uploads' : \E u \in uploads : v = u \/ v = [u EXCEPT !.wait = FALSE]
      BY <2>5 DEF Drain, connVars
    <3>2. \A u \in uploads : /\ [u EXCEPT !.wait = FALSE].item = u.item
                             /\ [u EXCEPT !.wait = FALSE].offset = u.offset
                             /\ [u EXCEPT !.wait = FALSE].dc = u.dc
      BY <1>2 DEF UploadCall
    <3>3. ASSUME NEW v \in uploads' PROVE v.offset <= batch[v.item].size /\ link[v.dc] # "none"
      <4>1. PICK u \in uploads : v = u \/ v = [u EXCEPT !.wait = FALSE]
        BY <3>1
      <4>2. v.item = u.item /\ v.offset = u.offset /\ v.dc = u.dc
        BY <3>2, <4>1
      <4> QED
        BY <4>2 DEF UploadInv
    <3>4. \A v, w \in uploads' : v = w
      <4>1. CASE uploads = {}
        BY <3>1, <4>1
      <4>2. CASE uploads # {}
        <5>1. PICK u : uploads = {u}
          BY <4>2 DEF UploadInv
        <5>2. \E x : \A v \in uploads' : v = x
          BY <2>5, <5>1 DEF Drain
        <5> QED
          BY <5>2
      <4> QED
        BY <4>1, <4>2
    <3>5. uploads = {} => uploads' = {}
      BY <3>1
    <3> QED
      BY <3>1, <3>3, <3>4, <3>5, <1>1 DEF UploadInv
  <2> QED
    BY <2>1, <2>2, <2>3, <2>4, <2>5, <1>5, UploadSteps
<1> QED
  BY <1>4, <1>5

LEMMA BufSteps ==
    ASSUME TypeOK, LinkInv, UploadInv, [Next]_vars, NEW c \in Conn
    PROVE  buf'[c] = buf[c] \/ link[c] \in {"open", "lost"}
<1>1. /\ buf \in [Conn -> Seq(Message)] /\ link \in [Conn -> {"none", "open", "closed", "lost"}]
      /\ GoConn \in Conn /\ uploads \subseteq UploadCall
  BY Scenario DEF TypeOK, UploadCall
<1>2. EmptyInv(c) /\ ClosedInv(c)
  BY DEF LinkInv
<1>3. CASE \E d \in Conn : Drain(d)
  BY <1>1, <1>3 DEF Drain
<1>4. CASE Page("s")
  <2>1. link[c] # "closed"
    BY <1>2, <1>4 DEF ClosedInv
  <2>2. ASSUME NEW d \in Conn, NEW i \in Item, Begins(i, d)
        PROVE  buf'[c] = buf[c] \/ link[c] # "none"
    BY <2>2, <1>1 DEF Begins
  <2>3. ASSUME NEW u \in uploads, NEW n \in 1..ReadMax, Adds(u, n)
        PROVE  buf'[c] = buf[c] \/ link[c] # "none"
    <3>1. u.dc \in Conn /\ link[u.dc] # "none"
      BY <1>1 DEF UploadCall, UploadInv
    <3> QED
      BY <2>3, <3>1, <1>1 DEF Adds, WriteChunks
  <2> QED
    BY <2>1, <2>2, <2>3, <1>1, <1>3, <1>4, UploadSteps DEF Idles
<1>5. CASE ~Page("s")
  <2>1. uploads = {}
    BY <1>5 DEF UploadInv
  <2>2. UNCHANGED buf \/ GoWrite \/ \E d \in Conn : Drain(d)
    BY <2>1, <1>5 DEF Next, vars, AddUpload, GoWait, Flushed, GoClose, GoSendFatal,
         GoReceive, GoReceiveEOF, Worker, FinishUpload, WriteChunks, Dial, Open, Disconnected,
         LoseLink, NewConnection, PageReceive, queueVars
  <2>3. CASE GoWrite
    <3>1. c # GoConn => buf'[c] = buf[c]
      BY <2>3, <1>1 DEF GoWrite
    <3>2. c = GoConn => link[c] # "none" /\ link[c] # "closed"
      BY <2>3, <1>2 DEF GoWrite, GoSends, EmptyInv, ClosedInv
    <3> QED
      BY <3>1, <3>2, <1>1
  <2> QED
    BY <2>2, <2>3, <1>3
<1> QED
  BY <1>4, <1>5

(* Connections of both sides are kept track of.                            *)
LEMMA EmptyStep ==
    ASSUME TypeOK, LinkInv, UploadInv, [Next]_vars, NEW c \in Conn
    PROVE  EmptyInv(c)'
<1>1. /\ net \in [Conn -> Seq(Message)] /\ opened \in [Conn -> SUBSET Side]
      /\ link \in [Conn -> {"none", "open", "closed", "lost"}] /\ GoConn \in Conn
  BY Scenario DEF TypeOK
<1>2. EmptyInv(c)
  BY DEF LinkInv
<1>3. ASSUME link'[c] = "none"
      PROVE  buf'[c] = <<>> /\ opened'[c] = {} /\ \A d \in Conn : d > c => link'[d] = "none"
  <2>1. link[c] = "none"
    BY <1>3, NoneBefore
  <2>2. buf'[c] = <<>>
    BY <2>1, <1>2, BufSteps DEF EmptyInv
  <2>3. opened' = opened \/ \E p \in Side, d \in Conn : Open(p, d)
    BY DEF Next, vars, AddUpload, GoWrite, GoWait, Flushed, GoClose, GoSendFatal,
         GoReceive, GoReceiveEOF, Worker, FinishUpload, WriteChunks, Dial, Disconnected, Drain,
         LoseLink, NewConnection, PageReceive, connVars
  <2>4. opened'[c] = {}
    BY <2>1, <2>3, <1>1, <1>2 DEF EmptyInv, Open
  <2>5. ASSUME NEW d \in Conn, d > c PROVE link'[d] = "none"
    <3>1. link[d] = "none" /\ opened[d] = {}
      BY <2>1, <2>5, <1>2 DEF EmptyInv, LinkInv
    <3>2. ~NewConnection(d)
      <4>1. c \in 1..(d - 1)
        BY <2>5 DEF Conn
      <4> QED
        BY <2>1, <4>1 DEF NewConnection
    <3> QED
      BY <3>1, <3>2, <1>1, LinkSteps DEF NewConnection, LoseLink, GoClose, GoSendFatal, GoSends,
          GoReceive
  <2> QED
    BY <2>2, <2>4, <2>5
<1>4. ASSUME link'[c] \in {"none", "lost"}
      PROVE  net'[c] = <<>>
  <2>1. \/ UNCHANGED net \/ GoSendFatal \/ GoReceive
        \/ \E d \in Conn : Drain(d) \/ LoseLink(d) \/ PageReceive(d)
    BY DEF Next, vars, AddUpload, GoWrite, GoWait, Flushed, GoClose,
         GoReceiveEOF, Worker, FinishUpload, WriteChunks, Dial, Disconnected, Open,
         NewConnection
  <2>2. link[c] \in {"none", "lost"} => net[c] = <<>>
    BY <1>2 DEF EmptyInv
  <2>3. CASE UNCHANGED net
    <3>1. link[c] = link'[c] \/ net'[c] = <<>>
      <4>1. link[c] = link'[c] \/ GoSendFatal \/ GoReceive \/ \E d \in Conn : LoseLink(d)
        BY <1>1, <1>4, LinkSteps DEF NewConnection, GoClose
      <4>2. CASE GoSendFatal \/ GoReceive
        BY <4>2, <1>1, <1>4 DEF GoSendFatal, GoReceive
      <4>3. CASE \E d \in Conn : LoseLink(d)
        BY <4>3, <1>1, <1>4 DEF LoseLink
      <4> QED
        BY <4>1, <4>2, <4>3
    <3> QED
      BY <2>2, <2>3, <3>1, <1>4
  <2>4. CASE GoSendFatal \/ GoReceive
    BY <2>2, <2>4, <1>1, <1>4 DEF GoSendFatal, GoReceive
  <2>5. ASSUME NEW d \in Conn, Drain(d) \/ LoseLink(d) \/ PageReceive(d)
        PROVE  net'[c] = <<>>
    BY <2>2, <2>5, <1>1, <1>4 DEF Drain, LoseLink, PageReceive, connVars
  <2> QED
    BY <2>1, <2>3, <2>4, <2>5
<1> QED
  BY <1>3, <1>4 DEF EmptyInv

LEMMA ClosedStep ==
    ASSUME TypeOK, LinkInv, UploadInv, [Next]_vars, NEW c \in Conn
    PROVE  ClosedInv(c)'
<1>1. /\ link \in [Conn -> {"none", "open", "closed", "lost"}] /\ GoConn \in Conn
      /\ opened \in [Conn -> SUBSET Side] /\ buf \in [Conn -> Seq(Message)]
      /\ gosend \in [at: {"write", "held", "waiting", "exit"}, written: 0..Len(Messages)]
  BY Scenario DEF TypeOK
<1>2. ClosedInv(c) /\ Page("s")' = Page("s") /\ Messages' = Messages
  BY KindKept, Kept DEF LinkInv
<1> SUFFICES ASSUME link'[c] = "closed"
             PROVE  /\ ~Page("s") /\ c = GoConn /\ buf'[c] = <<>> /\ "s" \in opened'[c]
                    /\ gosend'.written = Len(Messages) /\ gosend'.at = "exit"
  BY <1>2 DEF ClosedInv
<1>3. CASE link[c] = "closed"
  <2>1. ~Page("s") /\ c = GoConn /\ buf'[c] = <<>> /\ gosend.at = "exit" /\ gosend.written = Len(Messages)
        /\ "s" \in opened[c]
    BY <1>2, <1>3, BufSteps DEF ClosedInv
  <2>2. gosend' = gosend
    BY <2>1 DEF Next, vars, AddUpload, GoWrite, GoWait, Flushed, GoClose, GoSendFatal, GoSends,
         GoReceive, GoReceiveEOF, Worker, FinishUpload, WriteChunks, Dial, Disconnected, Drain, Open,
         LoseLink, NewConnection, PageReceive, goVars
  <2>3. opened' = opened \/ \E p \in Side, d \in Conn : Open(p, d)
    BY DEF Next, vars, AddUpload, GoWrite, GoWait, Flushed, GoClose, GoSendFatal,
         GoReceive, GoReceiveEOF, Worker, FinishUpload, WriteChunks, Dial, Disconnected, Drain,
         LoseLink, NewConnection, PageReceive, connVars
  <2>4. "s" \in opened'[c]
    <3>1. ASSUME NEW p \in Side, NEW d \in Conn, Open(p, d) PROVE "s" \in opened'[c]
      <4>1. opened' = [opened EXCEPT ![d] = opened[d] \cup {p}]
        BY <3>1 DEF Open
      <4> QED
        BY <2>1, <4>1, <1>1
    <3> QED
      BY <2>1, <2>3, <3>1
  <2> QED
    BY <2>1, <2>2, <2>4
<1>4. CASE link[c] # "closed"
  <2>1. GoClose
    BY <1>1, <1>4, LinkSteps DEF NewConnection, LoseLink, GoSendFatal
  <2> QED
    BY <2>1, <1>1, <1>4 DEF GoClose, GoSends
<1> QED
  BY <1>3, <1>4

LEMMA ChannelStep ==
    ASSUME TypeOK, LinkInv, UploadInv, [Next]_vars, NEW p \in Side
    PROVE  ChannelInv(p)'
<1>1. /\ link \in [Conn -> {"none", "open", "closed", "lost"}] /\ GoConn \in Conn
      /\ opened \in [Conn -> SUBSET Side] /\ datachannel \in [Side -> 0..MaxConn]
      /\ state \in [Side -> {"disconnected", "dialling", "connected", "gone"}]
      /\ Side = {"s", "r"}
  BY Scenario DEF TypeOK, Side
<1>0. \A c \in Conn : c # 0
  BY DEF Conn
<1>2. ChannelInv(p) /\ Page(p)' = Page(p)
  BY KindKept DEF LinkInv, Page
<1>3. CASE UNCHANGED <<state, datachannel, opened>>
  BY <1>2, <1>3 DEF ChannelInv
<1>4. CASE AddUpload \/ \E q \in Side : Dial(q)
  <2>1. /\ UNCHANGED <<datachannel, opened>>
        /\ state'[p] = state[p] \/ (Page(p) /\ state[p] = "disconnected" /\ state'[p] = "dialling")
    BY <1>1, <1>4 DEF AddUpload, Dial, connVars
  <2> QED
    BY <2>1, <1>2 DEF ChannelInv
<1>5. CASE GoClose \/ GoSendFatal \/ GoReceive \/ GoReceiveEOF
  <2>1. /\ UNCHANGED <<datachannel, opened>>
        /\ state'[p] = state[p] \/ (~Page(p) /\ state'[p] = "gone")
    BY <1>1, <1>5 DEF GoClose, GoSendFatal, GoReceive, GoReceiveEOF, GoSends, connVars
  <2> QED
    BY <2>1, <1>2 DEF ChannelInv
<1>6. ASSUME NEW q \in Side, NEW c \in Conn, Open(q, c)
      PROVE  ChannelInv(p)'
  <2>1. /\ opened' = [opened EXCEPT ![c] = opened[c] \cup {q}]
        /\ state' = [state EXCEPT ![q] = "connected"]
        /\ datachannel' = IF Page(q) THEN [datachannel EXCEPT ![q] = c] ELSE datachannel
    BY <1>6 DEF Open
  <2>2. CASE q = p
    <3>1. state'[p] = "connected" /\ p \in opened'[c]
      BY <2>1, <2>2, <1>1
    <3>2. CASE Page(p)
      <4>1. datachannel'[p] = c
        BY <2>1, <2>2, <3>2, <1>1
      <4> QED
        BY <3>1, <3>2, <4>1, <1>0, <1>1, <1>2 DEF ChannelInv
    <3>3. CASE ~Page(p)
      <4>1. datachannel'[p] = 0
        BY <2>1, <2>2, <3>3, <1>2 DEF ChannelInv
      <4> QED
        BY <3>1, <4>1 DEF ChannelInv
    <3> QED
      BY <3>2, <3>3
  <2>3. CASE q # p
    <3>1. state'[p] = state[p] /\ datachannel'[p] = datachannel[p]
      BY <2>1, <2>3, <1>1
    <3>2. \A d \in Conn : p \in opened'[d] <=> p \in opened[d]
      BY <2>1, <2>3, <1>1
    <3>3. datachannel[p] # 0 => datachannel[p] \in Conn
      BY <1>1, TransferAssumption DEF Conn
    <3> QED
      BY <3>1, <3>2, <3>3, <1>1, <1>2 DEF ChannelInv
  <2> QED
    BY <2>2, <2>3
<1>7. ASSUME NEW q \in Side, NEW c \in Conn, Disconnected(q, c)
      PROVE  ChannelInv(p)'
  <2>1. /\ UNCHANGED opened /\ Page(q)
        /\ state' = [state EXCEPT ![q] = "disconnected"]
        /\ datachannel' = [datachannel EXCEPT ![q] = 0]
    BY <1>7 DEF Disconnected
  <2>2. CASE q = p
    <3>1. state'[p] = "disconnected" /\ datachannel'[p] = 0
      BY <2>1, <2>2, <1>1
    <3> QED
      BY <3>1, <1>2 DEF ChannelInv
  <2>3. CASE q # p
    <3>1. state'[p] = state[p] /\ datachannel'[p] = datachannel[p]
      BY <2>1, <2>3, <1>1
    <3> QED
      BY <2>1, <3>1, <1>2 DEF ChannelInv
  <2> QED
    BY <2>2, <2>3
<1>8. \/ UNCHANGED <<state, datachannel, opened>>
      \/ AddUpload \/ \E q \in Side : Dial(q)
      \/ GoClose \/ GoSendFatal \/ GoReceive \/ GoReceiveEOF
      \/ \E q \in Side, c \in Conn : Open(q, c) \/ Disconnected(q, c)
  BY DEF Next, vars, GoWrite, GoWait, Flushed, Worker, FinishUpload, WriteChunks, Drain,
         LoseLink, NewConnection, PageReceive, connVars, pageVars
<1> QED
  BY <1>3, <1>4, <1>5, <1>6, <1>7, <1>8

LEMMA PendingStep ==
    ASSUME TypeOK, LinkInv, UploadInv, [Next]_vars, NEW p \in Side, NEW c \in Conn
    PROVE  PendingInv(p, c)'
<1>1. /\ link \in [Conn -> {"none", "open", "closed", "lost"}] /\ GoConn \in Conn
      /\ opened \in [Conn -> SUBSET Side] /\ datachannel \in [Side -> 0..MaxConn]
      /\ state \in [Side -> {"disconnected", "dialling", "connected", "gone"}]
      /\ Side = {"s", "r"} /\ Conn = 1..MaxConn /\ MaxConn \in Nat
  BY Scenario DEF TypeOK, Side, Conn
<1>2. PendingInv(p, c) /\ ChannelInv(p) /\ Page(p)' = Page(p)
  BY KindKept DEF LinkInv, Page
<1>3. ASSUME \A d \in Conn : Live(d)' => Live(d), \A d \in Conn : p \in opened[d] => p \in opened'[d],
             datachannel'[p] = datachannel[p] \/ datachannel'[p] = 0,
             state'[p] = state[p] \/ Page(p) \/ p \in opened[GoConn]
      PROVE  PendingInv(p, c)'
  BY <1>1, <1>2, <1>3 DEF PendingInv, ChannelInv
<1>4. CASE UNCHANGED <<link, state, datachannel, opened>>
  BY <1>3, <1>4 DEF Live
<1>5. CASE AddUpload \/ \E q \in Side : Dial(q)
  <2>1. UNCHANGED <<datachannel, opened, link>> /\ (state'[p] = state[p] \/ Page(p))
    BY <1>1, <1>5 DEF AddUpload, Dial, connVars
  <2> QED
    BY <2>1, <1>3 DEF Live
<1>6. CASE GoClose \/ GoSendFatal \/ GoReceive \/ GoReceiveEOF
  <2>1. /\ UNCHANGED <<datachannel, opened>>
        /\ state'[p] = state[p] \/ p \in opened[GoConn]
    BY <1>1, <1>6 DEF GoClose, GoSendFatal, GoReceive, GoReceiveEOF, GoSends, connVars
  <2>2. \A d \in Conn : Live(d)' => Live(d)
    BY <1>1, <1>6 DEF GoClose, GoSendFatal, GoReceive, GoReceiveEOF, connVars, Live
  <2> QED
    BY <2>1, <2>2, <1>3
<1>7. ASSUME NEW q \in Side, NEW e \in Conn, Open(q, e)
      PROVE  PendingInv(p, c)'
  <2>1. /\ opened' = [opened EXCEPT ![e] = opened[e] \cup {q}]
        /\ state' = [state EXCEPT ![q] = "connected"] /\ UNCHANGED link /\ Live(e) /\ q \notin opened[e]
        /\ datachannel' = IF Page(q) THEN [datachannel EXCEPT ![q] = e] ELSE datachannel
    BY <1>7 DEF Open, Live
  <2>2. CASE q = p
    <3>1. PendingInv(p, e)
      BY DEF LinkInv
    <3>2. \A d \in Conn : Live(d)' => p \in opened'[d]
      BY <2>1, <2>2, <3>1, <1>1 DEF PendingInv, Live
    <3> QED
      BY <3>2 DEF PendingInv
  <2>3. CASE q # p
    <3>1. state'[p] = state[p] /\ datachannel'[p] = datachannel[p]
      BY <2>1, <2>3, <1>1
    <3>2. \A d \in Conn : p \in opened[d] => p \in opened'[d]
      BY <2>1, <2>3, <1>1
    <3> QED
      BY <2>1, <3>1, <3>2, <1>3 DEF Live
  <2> QED
    BY <2>2, <2>3
<1>8. ASSUME NEW q \in Side, NEW e \in Conn, Disconnected(q, e)
      PROVE  PendingInv(p, c)'
  <2>1. /\ UNCHANGED <<opened, link>> /\ Page(q)
        /\ state' = [state EXCEPT ![q] = "disconnected"]
        /\ datachannel' = [datachannel EXCEPT ![q] = 0]
    BY <1>8 DEF Disconnected
  <2>2. /\ datachannel'[p] = datachannel[p] \/ datachannel'[p] = 0
        /\ state'[p] = state[p] \/ Page(p)
    BY <2>1, <1>1
  <2> QED
    BY <2>1, <2>2, <1>3 DEF Live
<1>9. ASSUME NEW e \in Conn, NewConnection(e)
      PROVE  PendingInv(p, c)'
  <2>1. /\ link[e] = "none" /\ state["s"] = "dialling" /\ state["r"] = "dialling"
        /\ \A d \in 1..(e - 1) : link[d] # "none" /\ (link[d] = "open" => opened[d] = Side)
        /\ link' = [link EXCEPT ![e] = "open"] /\ UNCHANGED <<opened, datachannel, state>>
    BY <1>9, <1>1 DEF NewConnection, pageVars
  <2>2. ASSUME NEW d \in Conn, d # e, Live(d)' PROVE p \in opened'[d]
    <3>1. Live(d)
      BY <2>1, <2>2, <1>1 DEF Live
    <3>2. ~(d > e)
      BY <2>1, <3>1 DEF Live, LinkInv, EmptyInv
    <3>3. d \in 1..(e - 1)
      BY <2>2, <3>2, <1>1
    <3>4. link[d] # "closed"
      <4>1. ClosedInv(d) /\ ChannelInv("s")
        BY <1>1 DEF LinkInv
      <4> QED
        BY <4>1, <2>1 DEF ClosedInv, ChannelInv
    <3> QED
      BY <2>1, <3>1, <3>3, <3>4, <1>1 DEF Live
  <2>3. datachannel[p] = 0 /\ state[p] = "dialling"
    BY <2>1, <1>1, <1>2 DEF ChannelInv
  <2> QED
    BY <2>1, <2>2, <2>3, <1>1 DEF PendingInv
<1>10. CASE \E d \in Conn : LoseLink(d)
  <2>1. UNCHANGED <<opened, datachannel, state>> /\ \A d \in Conn : Live(d)' => Live(d)
    BY <1>1, <1>10 DEF LoseLink, pageVars, Live
  <2> QED
    BY <2>1, <1>3
<1>11. \/ UNCHANGED <<link, state, datachannel, opened>>
       \/ AddUpload \/ \E q \in Side : Dial(q)
       \/ GoClose \/ GoSendFatal \/ GoReceive \/ GoReceiveEOF
       \/ \E q \in Side, d \in Conn : Open(q, d) \/ Disconnected(q, d)
       \/ \E d \in Conn : LoseLink(d) \/ NewConnection(d)
  BY DEF Next, vars, GoWrite, GoWait, Flushed, Worker, FinishUpload, WriteChunks, Drain,
         PageReceive, connVars, pageVars
<1> QED
  BY <1>4, <1>5, <1>6, <1>7, <1>8, <1>9, <1>10, <1>11

LEMMA LinkStep ==
    ASSUME TypeOK, LinkInv, UploadInv, [Next]_vars
    PROVE  LinkInv'
BY EmptyStep, ClosedStep, ChannelStep, PendingStep DEF LinkInv

-----------------------------------------------------------------------------
(* What is on its way: chains of messages, and how steps change them.      *)

LEMMA ChainKept ==
    ASSUME kind' = kind, NEW c, NEW q, Chain(c, q),
           Ends(c, q[Len(q)]) => Ends(c, q[Len(q)])'
    PROVE  Chain(c, q)'
<1>1. batch' = batch
  BY Kept
<1> QED
  BY <1>1 DEF Chain, Follows

LEMMA ChainGrows ==
    ASSUME kind' = kind, NEW c, NEW S, NEW q \in Seq(S), NEW s \in Seq(S), Chain(c, q), s # <<>>,
           \A k \in 1..(Len(s) - 1) : Follows(s[k], s[k + 1]),
           q # <<>> => Follows(q[Len(q)], s[1]), Ends(c, s[Len(s)])'
    PROVE  Chain(c, q \o s)'
<1>1. batch' = batch
  BY Kept
<1>2. Len(q) \in Nat /\ Len(s) \in Nat /\ Len(s) > 0 /\ (q # <<>> <=> Len(q) > 0)
  OBVIOUS
<1> DEFINE r == q \o s
           l == Len(q)
           n == Len(s)
<1>3. /\ Len(r) = l + n /\ r # <<>>
      /\ \A k \in 1..l : r[k] = q[k]
      /\ \A k \in 1..n : r[l + k] = s[k]
  OBVIOUS
<1>4. l \in Nat /\ n \in Nat /\ n > 0
  BY <1>2
<1>5. /\ \A k \in 1..(l - 1) : Follows(q[k], q[k + 1])
      /\ l > 0 => Follows(q[l], s[1])
  BY <1>2 DEF Chain
<1>6. \A k \in 1..(n - 1) : Follows(s[k], s[k + 1])
  OBVIOUS
<1>7. Ends(c, s[n])'
  OBVIOUS
<1> HIDE DEF r, l, n
<1>8. ASSUME NEW k \in 1..(Len(r) - 1) PROVE Follows(r[k], r[k + 1])
  <2>1. CASE k < l
    <3>1. k \in 1..l /\ k + 1 \in 1..l /\ k \in 1..(l - 1)
      BY <2>1, <1>4
    <3> QED
      BY <3>1, <1>3, <1>5
  <2>2. CASE k = l
    <3>1. k \in 1..l /\ 1 \in 1..n /\ l > 0
      BY <2>2, <1>4
    <3> QED
      BY <2>2, <3>1, <1>3, <1>5
  <2>3. CASE k > l
    <3>1. PICK j \in 1..(n - 1) : k = l + j
      <4>1. k - l \in 1..(n - 1) /\ k = l + (k - l)
        BY <2>3, <1>3, <1>4
      <4> QED
        BY <4>1
    <3>2. j \in 1..n /\ j + 1 \in 1..n /\ k + 1 = l + (j + 1)
      BY <3>1, <1>4
    <3> QED
      BY <3>1, <3>2, <1>3, <1>6
  <2> QED
    BY <2>1, <2>2, <2>3, <1>3, <1>4
<1>9. r[Len(r)] = s[n]
  BY <1>3, <1>4
<1>10. Chain(c, r)'
  BY <1>1, <1>7, <1>8, <1>9 DEF Chain, Follows
<1> QED
  BY <1>10 DEF r

(* Without its first message.                                              *)
LEMMA ChainDrops ==
    ASSUME NEW c, NEW S, NEW m \in S, NEW q \in Seq(S), Chain(c, <<m>> \o q)
    PROVE  /\ Chain(c, q)
           /\ IF q = <<>> THEN Ends(c, m) ELSE Follows(m, q[1])
<1> DEFINE r == <<m>> \o q
<1>1. /\ Len(q) \in Nat /\ Len(r) = 1 + Len(q) /\ r # <<>> /\ (q = <<>> <=> Len(q) = 0)
      /\ r[1] = m /\ \A k \in 1..Len(q) : r[k + 1] = q[k]
  OBVIOUS
<1>2. (\A k \in 1..(Len(r) - 1) : Follows(r[k], r[k + 1])) /\ Ends(c, r[Len(r)])
  BY <1>1 DEF Chain
<1> HIDE DEF r
<1>3. ASSUME NEW k \in 1..(Len(q) - 1) PROVE Follows(q[k], q[k + 1])
  <2>1. k \in 1..Len(q) /\ k + 1 \in 1..Len(q) /\ k + 1 \in 1..(Len(r) - 1)
    BY <1>1
  <2>2. Follows(r[k + 1], r[(k + 1) + 1])
    BY <2>1, <1>2
  <2> QED
    BY <2>1, <2>2, <1>1
<1>4. CASE q = <<>>
  BY <1>1, <1>2, <1>3, <1>4 DEF Chain
<1>5. CASE q # <<>>
  <2>1. Len(q) \in 1..Len(q) /\ 1 \in 1..Len(q) /\ 1 \in 1..(Len(r) - 1) /\ Len(r) = Len(q) + 1
    BY <1>1, <1>5
  <2>2. Ends(c, q[Len(q)])
    BY <2>1, <1>1, <1>2
  <2>3. Follows(m, q[1])
    BY <2>1, <1>1, <1>2
  <2> QED
    BY <2>2, <2>3, <1>3, <1>5 DEF Chain
<1> QED
  BY <1>4, <1>5

(* The sender puts the messages s on c, or none.                           *)
Extends(c, s) == \A q \in Seq(Message) : Chain(c, q) => Chain(c, q \o s)'

LEMMA ExtendsNothing ==
    ASSUME kind' = kind, NEW c, \A m \in Message : Ends(c, m) => Ends(c, m)'
    PROVE  Extends(c, <<>>)
<1> SUFFICES ASSUME NEW q \in Seq(Message), Chain(c, q) PROVE Chain(c, q \o <<>>)'
  BY DEF Extends
<1>1. q \o <<>> = q /\ (q # <<>> => q[Len(q)] \in Message)
  OBVIOUS
<1>2. CASE q = <<>>
  BY <1>2, <1>1 DEF Chain
<1>3. CASE q # <<>>
  <2>1. Chain(c, q)'
    BY <1>1, <1>3, ChainKept
  <2> QED
    BY <2>1, <1>1
<1> QED
  BY <1>2, <1>3

LEMMA ExtendsBy ==
    ASSUME kind' = kind, NEW c, NEW s \in Seq(Message), s # <<>>, Ends(c, s[Len(s)])',
           \A k \in 1..(Len(s) - 1) : Follows(s[k], s[k + 1]),
           \A m \in Message : Ends(c, m) => Follows(m, s[1])
    PROVE  Extends(c, s)
<1> SUFFICES ASSUME NEW q \in Seq(Message), Chain(c, q) PROVE Chain(c, q \o s)'
  BY DEF Extends
<1>1. q # <<>> => q[Len(q)] \in Message /\ Ends(c, q[Len(q)])
  BY DEF Chain
<1> QED
  BY <1>1, ChainGrows

LEMMA PageExtends ==
    ASSUME TypeOK, LinkInv, UploadInv, Page("s"), [Next]_vars, NEW c \in Conn, Live(c)
    PROVE  \/ buf'[c] = buf[c] /\ Extends(c, <<>>)
           \/ Drain(c) /\ Extends(c, <<>>)
           \/ \E s \in Seq(Message) : buf'[c] = buf[c] \o s /\ net' = net /\ Extends(c, s)
<1>1. kind' = kind /\ batch' = batch /\ Page("s")' = Page("s")
  BY KindKept, Kept
<1>2. /\ buf \in [Conn -> Seq(Message)] /\ uploads \subseteq UploadCall
      /\ \A i \in Item : batch[i].size \in Nat
  BY Scenario DEF TypeOK, UploadCall
<1>3. \A u \in uploads : u.item \in Item /\ u.offset \in Nat /\ u.dc \in Conn
  BY <1>2 DEF UploadCall
<1>4. CASE UNCHANGED <<buf, uploads, sending>>
  <2>1. \A m \in Message : Ends(c, m) => Ends(c, m)'
    BY <1>1, <1>4 DEF Ends
  <2> QED
    BY <2>1, <1>1, <1>4, ExtendsNothing
<1>5. ASSUME \A u \in uploads : Rests(u), NEW m \in Message, Ends(c, m)
      PROVE  m.part = batch[m.item].size
  <2>1. CASE \E u \in uploads : u.dc = c /\ m = [item |-> u.item, part |-> u.offset]
    BY <2>1, <1>5 DEF Rests, Live
  <2> QED
    BY <2>1, <1>5 DEF Ends
<1>6. CASE Idles
  <2>1. \A m \in Message : Ends(c, m) => Ends(c, m)'
    BY <1>1, <1>5, <1>6 DEF Ends, Idles
  <2> QED
    BY <2>1, <1>1, <1>6, ExtendsNothing DEF Idles
<1>7. ASSUME NEW d \in Conn, NEW i \in Item, Begins(i, d)
      PROVE  \/ buf'[c] = buf[c] /\ Extends(c, <<>>)
             \/ \E s \in Seq(Message) : buf'[c] = buf[c] \o s /\ net' = net /\ Extends(c, s)
  <2>1. NewUpload(i, d).item = i /\ NewUpload(i, d).offset = 0 /\ NewUpload(i, d).dc = d
    BY DEF NewUpload
  <2>2. /\ uploads' = {NewUpload(i, d)} /\ net' = net
        /\ buf' = [buf EXCEPT ![d] = Append(buf[d], Header(i))]
    BY <1>7 DEF Begins
  <2>3. \A m \in Message : Ends(c, m) => m.part = batch[m.item].size
    BY <1>5, <1>7 DEF Begins
  <2>4. CASE d # c
    <3>1. \A m \in Message : Ends(c, m) => Ends(c, m)'
      BY <2>1, <2>2, <2>3, <2>4, <1>1 DEF Ends
    <3>2. buf'[c] = buf[c]
      BY <2>2, <2>4, <1>2
    <3> QED
      BY <3>1, <3>2, <1>1, ExtendsNothing
  <2>5. CASE d = c
    <3>1. PICK h \in Message : h = Header(i)
      BY HeaderTyped
    <3>2. PICK s \in Seq(Message) : s = <<h>>
      BY <<h>> \in Seq(Message)
    <3>3. buf'[c] = buf[c] \o s
      BY <2>2, <2>5, <3>1, <3>2, <1>2
    <3>4. s # <<>> /\ Len(s) = 1 /\ s[1] = h /\ 1..(Len(s) - 1) = {}
      BY <3>2
    <3>5. h.part = 0 /\ h = [item |-> i, part |-> 0]
      BY <3>1 DEF Header
    <3>6. Ends(c, h)'
      BY <2>1, <2>2, <2>5, <3>5, <1>1 DEF Ends
    <3>7. \A m \in Message : Ends(c, m) => Follows(m, h)
      <4>1. \A m \in Message : m.part \in Nat
        BY DEF Message
      <4> QED
        BY <2>3, <3>5, <4>1 DEF Follows
    <3>8. Extends(c, s)
      BY <3>4, <3>6, <3>7, <1>1, ExtendsBy
    <3> QED
      BY <2>2, <3>3, <3>8
  <2> QED
    BY <2>4, <2>5
<1>8. ASSUME NEW u \in uploads, NEW n \in 1..ReadMax, Adds(u, n)
      PROVE  \/ buf'[c] = buf[c] /\ Extends(c, <<>>)
             \/ \E s \in Seq(Message) : buf'[c] = buf[c] \o s /\ net' = net /\ Extends(c, s)
  <2> DEFINE w == [u EXCEPT !.offset = @ + n, !.wait = Len(buf[u.dc]) + n >= Mark]
  <2>1. u \in [item: Item, offset: Nat, dc: Conn, wait: BOOLEAN] /\ \A v \in uploads : v = u
    BY <1>2 DEF UploadCall, UploadInv
  <2>2. w.item = u.item /\ w.offset = u.offset + n /\ w.dc = u.dc
    BY <2>1
  <2>3. /\ uploads' = {w} /\ net' = net /\ u.offset + n <= batch[u.item].size
        /\ buf' = [buf EXCEPT ![u.dc] = buf[u.dc] \o Chunks(u.item, u.offset, n)]
    BY <2>1, <1>8 DEF Adds, WriteChunks
  <2> HIDE DEF w
  <2>4. CASE u.dc # c
    <3>1. \A m \in Message : Ends(c, m) => Ends(c, m)'
      BY <2>1, <2>2, <2>3, <2>4, <1>1 DEF Ends
    <3>2. buf'[c] = buf[c]
      BY <2>3, <2>4, <1>2, <1>3
    <3> QED
      BY <3>1, <3>2, <1>1, ExtendsNothing
  <2>5. CASE u.dc = c
    <3>1. n \in Nat /\ n > 0 /\ u.offset \in Nat /\ u.item \in Item /\ batch[u.item].size \in Nat
      BY <1>2, <1>3, TransferAssumption
    <3>2. /\ Chunks(u.item, u.offset, n) \in Seq(Message) /\ Len(Chunks(u.item, u.offset, n)) = n
          /\ \A k \in 1..n : Chunks(u.item, u.offset, n)[k] = [item |-> u.item, part |-> u.offset + k]
      BY <2>3, <3>1, ChunksTyped
    <3>3. PICK s \in Seq(Message) : s = Chunks(u.item, u.offset, n)
      BY <3>2
    <3>4. /\ Len(s) = n /\ s # <<>>
          /\ \A k \in 1..n : s[k] = [item |-> u.item, part |-> u.offset + k]
      BY <3>1, <3>2, <3>3
    <3>5. buf'[c] = buf[c] \o s
      BY <2>3, <2>5, <3>3, <1>2
    <3>6. ASSUME NEW k \in 1..(Len(s) - 1) PROVE Follows(s[k], s[k + 1])
      <4>0. PICK o \in Nat, z \in Nat : o = u.offset /\ z = batch[u.item].size
        BY <3>1
      <4>1. /\ k \in 1..n /\ k + 1 \in 1..n /\ u.offset + k < batch[u.item].size
            /\ u.offset + (k + 1) = (u.offset + k) + 1
        <5>1. k \in 1..(n - 1) /\ o + n <= z
          BY <2>3, <3>4, <4>0
        <5>2. k \in Int /\ 1 <= k /\ k <= n - 1 /\ n \in Int
          BY <5>1, <3>1
        <5>3. k \in 1..n /\ k + 1 \in 1..n
          BY <5>2
        <5>4. o + k < z /\ o + (k + 1) = (o + k) + 1
          BY <5>1, <5>2
        <5> QED
          BY <5>3, <5>4, <4>0
      <4>2. s[k] = [item |-> u.item, part |-> u.offset + k] /\ s[k + 1] = [item |-> u.item, part |-> (u.offset + k) + 1]
        BY <3>4, <4>1
      <4> QED
        BY <4>1, <4>2 DEF Follows
    <3>7. Ends(c, s[Len(s)])'
      <4>1. s[Len(s)] = [item |-> w.item, part |-> w.offset]
        BY <2>2, <3>1, <3>4
      <4> QED
        BY <2>2, <2>3, <2>5, <4>1, <1>1 DEF Ends
    <3>8. ASSUME NEW m \in Message, Ends(c, m) PROVE Follows(m, s[1])
      <4>1. m = [item |-> u.item, part |-> u.offset]
        BY <2>1, <2>5, <3>8 DEF Ends
      <4>2. s[1] = [item |-> u.item, part |-> u.offset + 1] /\ u.offset < batch[u.item].size
        BY <2>3, <3>1, <3>4
      <4> QED
        BY <4>1, <4>2 DEF Follows
    <3>9. Extends(c, s)
      BY <3>4, <3>6, <3>7, <3>8, <1>1, ExtendsBy
    <3> QED
      BY <2>3, <3>5, <3>9
  <2> QED
    BY <2>4, <2>5
<1>9. ASSUME NEW d \in Conn, Drain(d)
      PROVE  Extends(c, <<>>) /\ (d = c \/ buf'[c] = buf[c])
  <2>1. \A u \in uploads : \E v \in uploads' : v = u \/ v = [u EXCEPT !.wait = FALSE]
    BY <1>9 DEF Drain
  <2>2. \A v \in uploads' : \E u \in uploads : v = u \/ v = [u EXCEPT !.wait = FALSE]
    BY <1>9 DEF Drain
  <2>3. \A u \in uploads : /\ [u EXCEPT !.wait = FALSE].item = u.item
                           /\ [u EXCEPT !.wait = FALSE].offset = u.offset
                           /\ [u EXCEPT !.wait = FALSE].dc = u.dc
    BY <1>2 DEF UploadCall
  <2>4. \A u \in uploads : \E v \in uploads' : v.item = u.item /\ v.offset = u.offset /\ v.dc = u.dc
    BY <2>1, <2>3
  <2>5. \A v \in uploads' : \E u \in uploads : v.item = u.item /\ v.offset = u.offset /\ v.dc = u.dc
    BY <2>2, <2>3
  <2>6. ASSUME NEW m \in Message, Ends(c, m) PROVE Ends(c, m)'
    <3>1. CASE \E u \in uploads : u.dc = c /\ m = [item |-> u.item, part |-> u.offset]
      <4>1. \E v \in uploads' : v.dc = c /\ m = [item |-> v.item, part |-> v.offset]
        BY <2>4, <3>1
      <4> QED
        BY <4>1, <1>1 DEF Ends
    <3>2. CASE m.part = batch[m.item].size /\ \A u \in uploads : u.dc # c
      <4>1. \A v \in uploads' : v.dc # c
        BY <2>5, <3>2
      <4> QED
        BY <3>2, <4>1, <1>1 DEF Ends
    <3> QED
      BY <2>6, <3>1, <3>2 DEF Ends
  <2>7. d # c => buf'[c] = buf[c]
    BY <1>2, <1>9 DEF Drain
  <2> QED
    BY <2>6, <2>7, <1>1, ExtendsNothing
<1> QED
  BY <1>4, <1>6, <1>7, <1>8, <1>9, UploadSteps

LEMMA GoExtends ==
    ASSUME TypeOK, LinkInv, UploadInv, ~Page("s"), [Next]_vars, NEW c \in Conn
    PROVE  \/ buf'[c] = buf[c] /\ Extends(c, <<>>)
           \/ Drain(c) /\ Extends(c, <<>>)
           \/ \E s \in Seq(Message) : buf'[c] = buf[c] \o s /\ net' = net /\ Extends(c, s)
<1>1. kind' = kind /\ batch' = batch /\ Page("s")' = Page("s") /\ Messages' = Messages
  BY KindKept, Kept
<1>2. /\ buf \in [Conn -> Seq(Message)] /\ uploads = {} /\ Messages \in Seq(Message)
      /\ gosend \in [at: {"write", "held", "waiting", "exit"}, written: 0..Len(Messages)]
  BY MessagesTyped DEF TypeOK, UploadInv
<1>3. \/ UNCHANGED <<buf, gosend>> \/ GoWrite
      \/ UNCHANGED buf /\ gosend'.written = gosend.written
      \/ UNCHANGED gosend /\ \E d \in Conn : Drain(d)
  BY <1>2 DEF Next, vars, AddUpload, GoWait, Flushed, GoClose, GoSendFatal,
         GoReceive, GoReceiveEOF, Worker, FinishUpload, WriteChunks, Dial, Open, Disconnected, Drain,
         LoseLink, NewConnection, PageReceive, queueVars, goVars
<1>4. ASSUME gosend'.written = gosend.written PROVE Extends(c, <<>>)
  <2>1. \A m \in Message : Ends(c, m) => Ends(c, m)'
    BY <1>1, <1>4 DEF Ends
  <2> QED
    BY <2>1, <1>1, ExtendsNothing
<1>5. CASE UNCHANGED buf /\ gosend'.written = gosend.written
  BY <1>4, <1>5
<1>6. CASE UNCHANGED gosend /\ \E d \in Conn : Drain(d)
  <2>1. Drain(c) \/ buf'[c] = buf[c]
    BY <1>2, <1>6 DEF Drain
  <2> QED
    BY <2>1, <1>4, <1>6
<1>7. CASE GoWrite /\ ~(UNCHANGED buf /\ gosend'.written = gosend.written)
  <2>1. /\ gosend' = [gosend EXCEPT !.written = @ + 1] /\ gosend.written < Len(Messages) /\ net' = net
        /\ buf' = [buf EXCEPT ![GoConn] = Append(buf[GoConn], Messages[gosend.written + 1])]
    BY <1>2, <1>7 DEF GoWrite
  <2>2. PICK w \in Nat : w = gosend.written
    BY <1>2
  <2>3. w + 1 \in 1..Len(Messages) /\ gosend'.written = w + 1
    BY <2>1, <2>2, <1>2
  <2>4. PICK h \in Message : h = Messages[w + 1]
    BY <2>3, <1>2
  <2>5. CASE c # GoConn
    <3>1. \A m \in Message : ~Ends(c, m)
      BY <2>5 DEF Ends
    <3>2. buf'[c] = buf[c]
      BY <2>1, <2>5, <1>2
    <3> QED
      BY <3>1, <3>2, <1>1, ExtendsNothing
  <2>6. CASE c = GoConn
    <3>1. PICK s \in Seq(Message) : s = <<h>>
      BY <<h>> \in Seq(Message)
    <3>2. buf'[c] = buf[c] \o s
      BY <2>1, <2>2, <2>4, <2>6, <3>1, <1>2
    <3>3. s # <<>> /\ Len(s) = 1 /\ s[1] = h /\ 1..(Len(s) - 1) = {}
      BY <3>1
    <3>4. Ends(c, h)'
      BY <2>2, <2>3, <2>4, <2>6, <1>1 DEF Ends
    <3>5. ASSUME NEW m \in Message, Ends(c, m) PROVE Follows(m, h)
      <4>1. w > 0 /\ m = Messages[w] /\ w \in 1..(Len(Messages) - 1)
        BY <2>1, <2>2, <2>3, <3>5, <1>2 DEF Ends
      <4>2. batch # <<>>
        BY <4>1, MessagesTyped
      <4>3. h = After(batch, m)
        BY <2>4, <4>1, <4>2, MessagesTyped DEF WalkTo
      <4> QED
        BY <4>3 DEF After, Follows, Header
    <3>6. Extends(c, s)
      BY <3>3, <3>4, <3>5, <1>1, ExtendsBy
    <3> QED
      BY <2>1, <3>2, <3>6
  <2> QED
    BY <2>5, <2>6
<1> QED
  BY <1>3, <1>5, <1>6, <1>7

(* The receiver takes the first message that is on its way on c.           *)
Takes(c, m) ==
    /\ net[c] # <<>> /\ m = Head(net[c]) /\ Way(c) = <<m>> \o Way(c)'
    /\ PageReceive(c) \/ (GoReceive /\ c = GoConn)

LEMMA NetSteps ==
    ASSUME TypeOK, [Next]_vars, NEW c \in Conn, Live(c)'
    PROVE  \/ net'[c] = net[c] \/ Drain(c)
           \/ /\ net[c] # <<>> /\ net'[c] = Tail(net[c])
              /\ PageReceive(c) \/ (GoReceive /\ c = GoConn)
<1>1. /\ net \in [Conn -> Seq(Message)] /\ GoConn \in Conn
      /\ link \in [Conn -> {"none", "open", "closed", "lost"}]
  BY Scenario DEF TypeOK
<1>2. \/ UNCHANGED net \/ GoSendFatal \/ GoReceive
      \/ \E d \in Conn : Drain(d) \/ LoseLink(d) \/ PageReceive(d)
  BY DEF Next, vars, AddUpload, GoWrite, GoWait, Flushed, GoClose,
       GoReceiveEOF, Worker, FinishUpload, WriteChunks, Dial, Disconnected, Open,
       NewConnection
<1>3. CASE GoSendFatal
  BY <1>1, <1>3 DEF GoSendFatal, Live
<1>4. CASE GoReceive
  <2>1. CASE link' = [link EXCEPT ![GoConn] = "lost"] /\ net' = [net EXCEPT ![GoConn] = <<>>]
    BY <2>1, <1>1 DEF Live
  <2>2. CASE net' = [net EXCEPT ![GoConn] = Tail(net[GoConn])] /\ net[GoConn] # <<>>
    BY <2>2, <1>1, <1>4
  <2> QED
    BY <2>1, <2>2, <1>4 DEF GoReceive
<1>5. ASSUME NEW d \in Conn, Drain(d) PROVE Drain(c) \/ net'[c] = net[c]
  <2>1. CASE d = c
    BY <2>1, <1>5
  <2>2. CASE d # c
    BY <2>2, <1>1, <1>5 DEF Drain
  <2> QED
    BY <2>1, <2>2
<1>6. ASSUME NEW d \in Conn, LoseLink(d) PROVE net'[c] = net[c]
  BY <1>1, <1>6 DEF LoseLink, Live
<1>7. ASSUME NEW d \in Conn, PageReceive(d)
      PROVE  net'[c] = net[c] \/ (PageReceive(c) /\ net[c] # <<>> /\ net'[c] = Tail(net[c]))
  BY <1>1, <1>7 DEF PageReceive
<1> QED
  BY <1>2, <1>3, <1>4, <1>5, <1>6, <1>7

LEMMA DrainKeeps ==
    ASSUME TypeOK, NEW c \in Conn, Drain(c)
    PROVE  Way(c)' = Way(c)
<1>1. /\ net[c] \in Seq(Message) /\ buf[c] \in Seq(Message)
      /\ net \in [Conn -> Seq(Message)] /\ buf \in [Conn -> Seq(Message)]
  BY DEF TypeOK
<1>2. net'[c] = Append(net[c], Head(buf[c])) /\ buf'[c] = Tail(buf[c]) /\ buf[c] # <<>>
  BY <1>1 DEF Drain
<1>3. PICK n \in Seq(Message), b \in Seq(Message) : n = net[c] /\ b = buf[c]
  BY <1>1
<1>4. b # <<>> /\ Head(b) \in Message /\ Tail(b) \in Seq(Message)
  BY <1>2, <1>3
<1>5. Append(n, Head(b)) \o Tail(b) = n \o b
  BY <1>4
<1> QED
  BY <1>2, <1>3, <1>5 DEF Way

LEMMA WaySteps ==
    ASSUME TypeOK, LinkInv, UploadInv, [Next]_vars, NEW c \in Conn, Live(c), Live(c)'
    PROVE  \/ \E s \in Seq(Message) : Way(c)' = Way(c) \o s /\ Extends(c, s)
           \/ \E m \in Message : Takes(c, m) /\ Extends(c, <<>>)
<1>1. /\ net[c] \in Seq(Message) /\ buf[c] \in Seq(Message) /\ <<>> \in Seq(Message)
      /\ net \in [Conn -> Seq(Message)] /\ buf \in [Conn -> Seq(Message)]
  BY DEF TypeOK
<1>2. \/ buf'[c] = buf[c] /\ Extends(c, <<>>)
      \/ Drain(c) /\ Extends(c, <<>>)
      \/ \E s \in Seq(Message) : buf'[c] = buf[c] \o s /\ net' = net /\ Extends(c, s)
  BY PageExtends, GoExtends
<1>3. Way(c) \in Seq(Message) /\ Way(c) \o <<>> = Way(c)
  BY <1>1 DEF Way
<1>4. CASE Drain(c) /\ Extends(c, <<>>)
  <2>1. Way(c)' = Way(c) \o <<>>
    BY <1>3, <1>4, DrainKeeps
  <2> QED
    BY <2>1, <1>1, <1>4
<1>5. CASE \E s \in Seq(Message) : buf'[c] = buf[c] \o s /\ net' = net /\ Extends(c, s)
  <2>1. PICK s \in Seq(Message) : buf'[c] = buf[c] \o s /\ net' = net /\ Extends(c, s)
    BY <1>5
  <2>2. net[c] \o (buf[c] \o s) = (net[c] \o buf[c]) \o s
    <3>1. PICK n \in Seq(Message), b \in Seq(Message) : n = net[c] /\ b = buf[c]
      BY <1>1
    <3>2. n \o (b \o s) = (n \o b) \o s
      OBVIOUS
    <3> QED
      BY <3>1, <3>2
  <2> QED
    BY <2>1, <2>2 DEF Way
<1>6. CASE buf'[c] = buf[c] /\ Extends(c, <<>>) /\ ~Drain(c)
  <2>1. CASE net'[c] = net[c]
    <3>1. Way(c)' = Way(c) \o <<>>
      BY <2>1, <1>3, <1>6 DEF Way
    <3> QED
      BY <3>1, <1>1, <1>6
  <2>2. CASE net[c] # <<>> /\ net'[c] = Tail(net[c]) /\ (PageReceive(c) \/ (GoReceive /\ c = GoConn))
    <3>1. PICK n \in Seq(Message), b \in Seq(Message) : n = net[c] /\ b = buf[c]
      BY <1>1
    <3>2. PICK m \in Message : m = Head(n)
      BY <2>2, <3>1
    <3>3. n \o b = <<m>> \o (Tail(n) \o b)
      <4>1. n # <<>>
        BY <2>2, <3>1
      <4> QED
        BY <3>2, <4>1
    <3>4. Way(c) = <<m>> \o Way(c)'
      BY <2>2, <3>1, <3>3, <1>6 DEF Way
    <3>5. Takes(c, m)
      BY <2>2, <3>1, <3>2, <3>4 DEF Takes
    <3> QED
      BY <3>5, <1>6
  <2> QED
    BY <2>1, <2>2, <1>6, NetSteps
<1> QED
  BY <1>2, <1>4, <1>5, <1>6

LEMMA NewLive ==
    ASSUME TypeOK, LinkInv, UploadInv, [Next]_vars, NEW c \in Conn, ~Live(c), Live(c)'
    PROVE  NewConnection(c) /\ Way(c)' = <<>>
<1>1. /\ net \in [Conn -> Seq(Message)] /\ GoConn \in Conn
      /\ link \in [Conn -> {"none", "open", "closed", "lost"}]
  BY Scenario DEF TypeOK
<1>2. NewConnection(c)
  BY <1>1, LinkSteps DEF NewConnection, LoseLink, GoClose, GoSendFatal, Live
<1>3. net'[c] = <<>> /\ buf'[c] = <<>>
  BY <1>2 DEF NewConnection, LinkInv, EmptyInv
<1> QED
  BY <1>2, <1>3 DEF Way

LEMMA WayStep ==
    ASSUME TypeOK, LinkInv, UploadInv, [Next]_vars, NEW c \in Conn, WayInv(c)
    PROVE  WayInv(c)'
<1> SUFFICES ASSUME Live(c)' PROVE Chain(c, Way(c))'
  BY DEF WayInv
<1>1. CASE ~Live(c)
  BY <1>1, NewLive DEF Chain
<1>2. CASE Live(c)
  <2>1. Chain(c, Way(c)) /\ Way(c) \in Seq(Message)
    <3>1. net[c] \in Seq(Message) /\ buf[c] \in Seq(Message)
      BY DEF TypeOK
    <3> QED
      BY <3>1, <1>2 DEF WayInv, Way
  <2>2. PICK q \in Seq(Message) : q = Way(c)
    BY <2>1
  <2>3. CASE \E s \in Seq(Message) : Way(c)' = Way(c) \o s /\ Extends(c, s)
    <3>1. PICK s \in Seq(Message) : Way(c)' = Way(c) \o s /\ Extends(c, s)
      BY <2>3
    <3>2. Chain(c, q \o s)'
      BY <2>1, <2>2, <3>1 DEF Extends
    <3> QED
      BY <2>2, <3>1, <3>2
  <2>4. CASE \E m \in Message : Takes(c, m) /\ Extends(c, <<>>)
    <3>1. PICK m \in Message : Takes(c, m) /\ Extends(c, <<>>)
      BY <2>4
    <3>2. PICK r \in Seq(Message) : r = Way(c)'
      <4>1. net'[c] \in Seq(Message) /\ buf'[c] \in Seq(Message)
        BY SendersTyped, KindKept, Kept DEF SendersOK
      <4>2. net'[c] \o buf'[c] \in Seq(Message)
        BY <4>1
      <4> QED
        BY <4>2 DEF Way
    <3>3. Chain(c, r)
      BY <2>1, <3>1, <3>2, ChainDrops DEF Takes
    <3>4. Chain(c, r \o <<>>)'
      BY <3>1, <3>3 DEF Extends
    <3>5. r \o <<>> = r
      OBVIOUS
    <3> QED
      BY <3>2, <3>4, <3>5
  <2> QED
    BY <2>3, <2>4, <1>2, WaySteps
<1> QED
  BY <1>1, <1>2

-----------------------------------------------------------------------------
(* The receivers: what they have of a file is its beginning.               *)

LEMMA PlaceTyped ==
    ASSUME TypeOK
    PROVE  /\ receiving.item \in 0..Len(batch) /\ receiving.data \in Seq(Message)
           /\ Len(receiving.data) \in Nat
           /\ receiving.item # 0 => receiving.item \in Item /\ batch[receiving.item].size \in Nat
           /\ Within => Place \in Message
<1>1. receiving.item \in 0..Len(batch) /\ receiving.data \in Seq(Message)
  BY DEF TypeOK
<1>2. receiving.item # 0 => receiving.item \in Item /\ batch[receiving.item].size \in Nat
  BY <1>1, Scenario DEF Item
<1>3. Len(receiving.data) \in Nat
  BY <1>1
<1>4. ASSUME Within PROVE Place \in Message
  BY <1>2, <1>3, <1>4 DEF Within, Place, Message
<1> QED
  BY <1>1, <1>2, <1>3, <1>4

LEMMA NextChunk ==
    ASSUME NEW i, NEW n \in Nat, NEW d, d = Chunks(i, 0, n), NEW m, m = [item |-> i, part |-> n + 1]
    PROVE  Append(d, m) = Chunks(i, 0, n + 1) /\ Len(Append(d, m)) = n + 1 /\ Len(d) = n
<1> DEFINE S == [item: {i}, part: Nat]
<1>0. m \in S /\ \A k \in 1..n : [item |-> i, part |-> 0 + k] \in S
  OBVIOUS
<1> HIDE DEF S
<1>1. d \in Seq(S) /\ Len(d) = n /\ \A k \in 1..n : d[k] = [item |-> i, part |-> 0 + k]
  BY <1>0 DEF Chunks
<1> DEFINE a == Append(d, m)
           b == Chunks(i, 0, n + 1)
<1>2. /\ Len(a) = n + 1 /\ DOMAIN a = 1..(n + 1) /\ a = [k \in 1..(n + 1) |-> a[k]]
      /\ \A k \in 1..n : a[k] = d[k]
      /\ a[n + 1] = m
  BY <1>0, <1>1
<1>3. \A k \in 1..(n + 1) : k = n + 1 \/ k \in 1..n
  OBVIOUS
<1>4. \A k \in 1..(n + 1) : a[k] = [item |-> i, part |-> 0 + k]
  BY <1>1, <1>2, <1>3
<1> HIDE DEF a
<1>5. a = b
  BY <1>2, <1>4 DEF Chunks
<1> QED
  BY <1>1, <1>2, <1>5 DEF a

(* A step in which the receiver's current file stays what it was.          *)
LEMMA ReceivingKept ==
    ASSUME TypeOK, LinkInv, UploadInv, CurrentInv, \A c \in Conn : FeedInv(c), [Next]_vars,
           receiving' = receiving
    PROVE  CurrentInv' /\ \A c \in Conn : FeedInv(c)'
<1>1. /\ kind' = kind /\ batch' = batch /\ Page("r")' = Page("r") /\ Message' = Message
  BY KindKept, Kept
<1>2. Within' = Within /\ Place' = Place
  BY <1>1 DEF Within, Place
<1>3. /\ GoConn \in Conn /\ "r" \in Side /\ datachannel \in [Side -> 0..MaxConn]
      /\ opened \in [Conn -> SUBSET Side]
  BY Scenario DEF TypeOK, Side
<1>0. \A c \in Conn : c # 0
  BY DEF Conn
<1>4. CASE receiving.item = 0
  BY <1>2, <1>4 DEF CurrentInv, FeedInv, Within
<1>5. CASE receiving.item # 0
  <2>1. \/ datachannel'["r"] = datachannel["r"]
        \/ \E c \in Conn : Open("r", c) \/ Disconnected("r", c)
    <3>1. \/ UNCHANGED datachannel
          \/ \E p \in Side, c \in Conn : Open(p, c) \/ Disconnected(p, c)
      BY DEF Next, vars, AddUpload, GoWrite, GoWait, Flushed, GoClose, GoSendFatal, GoReceive,
             GoReceiveEOF, Worker, FinishUpload, WriteChunks, Dial, Drain, LoseLink, NewConnection,
             PageReceive, pageVars
    <3>2. ASSUME NEW p \in Side, NEW c \in Conn, Open(p, c) \/ Disconnected(p, c), p # "r"
          PROVE  datachannel'["r"] = datachannel["r"]
      BY <3>2, <1>3 DEF Open, Disconnected
    <3> QED
      BY <3>1, <3>2
  <2>2. ASSUME NEW c \in Conn, Disconnected("r", c) PROVE FALSE
    BY <2>2, <1>5 DEF Disconnected, ForgetReceiving, Nothing
  <2>3. ASSUME NEW c \in Conn, Open("r", c), Page("r") PROVE FALSE
    <3>1. datachannel["r"] = 0
      BY <2>3, <1>3 DEF Open, LinkInv, PendingInv, Live
    <3> QED
      BY <3>1, <2>3, <1>5 DEF CurrentInv
  <2>4. Page("r") => datachannel'["r"] = datachannel["r"]
    BY <2>1, <2>2, <2>3
  <2>5. opened' = opened \/ \E p \in Side, d \in Conn : Open(p, d)
    BY DEF Next, vars, AddUpload, GoWrite, GoWait, Flushed, GoClose, GoSendFatal,
         GoReceive, GoReceiveEOF, Worker, FinishUpload, WriteChunks, Dial, Disconnected, Drain,
         LoseLink, NewConnection, PageReceive, connVars
  <2>6. "r" \in opened[GoConn] => "r" \in opened'[GoConn]
    <3>1. ASSUME NEW p \in Side, NEW d \in Conn, Open(p, d), "r" \in opened[GoConn]
          PROVE  "r" \in opened'[GoConn]
      <4>1. opened' = [opened EXCEPT ![d] = opened[d] \cup {p}]
        BY <3>1 DEF Open
      <4> QED
        BY <3>1, <4>1, <1>3
    <3> QED
      BY <2>5, <3>1
  <2>7. CurrentInv'
    BY <2>4, <2>6, <1>1, <1>2 DEF CurrentInv, Chunks
  <2>8. ASSUME NEW c \in Conn, Within, Feeds(c)', Live(c)'
        PROVE  Chain(c, <<Place>> \o Way(c))'
    <3>1. Feeds(c)
      BY <2>4, <2>8, <1>1 DEF Feeds
    <3>2. Live(c)
      <4>1. SUFFICES ASSUME NewConnection(c) PROVE FALSE
        BY <2>8, NewLive
      <4>2. state["r"] = "dialling" /\ link[c] = "none"
        BY <4>1, <1>3 DEF NewConnection
      <4>3. datachannel["r"] = 0 /\ opened[c] = {}
        BY <4>2, <1>3 DEF LinkInv, ChannelInv, EmptyInv
      <4> QED
        BY <3>1, <4>3, <1>0, <1>5 DEF Feeds, CurrentInv
    <3>3. Chain(c, <<Place>> \o Way(c))
      BY <2>8, <3>1, <3>2 DEF FeedInv
    <3>4. PICK w \in Seq(Message), p \in Message : w = Way(c) /\ p = Place
      <4>1. net[c] \in Seq(Message) /\ buf[c] \in Seq(Message)
        BY DEF TypeOK
      <4>2. Way(c) \in Seq(Message)
        BY <4>1 DEF Way
      <4> QED
        BY <4>2, <2>8, PlaceTyped
    <3>5. ASSUME NEW m \in Message, Takes(c, m) PROVE FALSE
      <4>1. CASE PageReceive(c)
        <5>1. TakeChunk(m)
          BY <3>5, <4>1, <1>5 DEF PageReceive, Takes
        <5>2. \/ receiving' = [receiving EXCEPT !.data = Append(receiving.data, m)]
              \/ receiving' = Nothing
          BY <5>1, <2>8, <1>5, TakeChunkCases
        <5>3. receiving \in [item: 0..Len(batch), data: Seq(Message), id: Nat]
          BY DEF TypeOK
        <5>4. receiving.data \in Seq(Message) /\ Append(receiving.data, m) # receiving.data
          BY <5>3
        <5> QED
          BY <5>2, <5>3, <5>4, <1>5 DEF Nothing
      <4>2. CASE GoReceive
        <5>1. receiving \in [item: 0..Len(batch), data: Seq(Message), id: Nat]
          BY DEF TypeOK
        <5>2. PICK x : x = Head(net[GoConn])
          OBVIOUS
        <5>3. receiving' = Nothing \/ receiving' = [receiving EXCEPT !.data = Append(receiving.data, x)]
          BY <4>2, <5>2, <1>5 DEF GoReceive
        <5>4. Append(receiving.data, x) # receiving.data
          <6>1. Len(Append(receiving.data, x)) = Len(receiving.data) + 1 /\ Len(receiving.data) \in Nat
            BY <5>1
          <6> QED
            BY <6>1
        <5> QED
          BY <5>1, <5>3, <5>4, <1>5 DEF Nothing
      <4> QED
        BY <3>5, <4>1, <4>2 DEF Takes
    <3>6. PICK s \in Seq(Message) : Way(c)' = Way(c) \o s /\ Extends(c, s)
      BY <2>8, <3>2, <3>5, WaySteps
    <3>7. PICK q \in Seq(Message) : q = <<p>> \o w
      <4>1. <<p>> \in Seq(Message)
        OBVIOUS
      <4>2. <<p>> \o w \in Seq(Message)
        BY <4>1
      <4> QED
        BY <4>2
    <3>8. Chain(c, q \o s)'
      BY <3>3, <3>4, <3>6, <3>7 DEF Extends
    <3>9. q \o s = <<p>> \o (w \o s)
      BY <3>7
    <3> QED
      BY <3>4, <3>6, <3>8, <3>9, <1>2
  <2> QED
    BY <2>7, <2>8, <1>2 DEF FeedInv
<1> QED
  BY <1>4, <1>5

(* A message taken from the connection that feeds the receiver is the one  *)
(* it waits for, and goes before what is still on its way.                 *)
LEMMA TakenNext ==
    ASSUME TypeOK, LinkInv, UploadInv, [Next]_vars, NEW c \in Conn, WayInv(c), FeedInv(c), Feeds(c),
           Live(c), Live(c)', NEW m \in Message, Takes(c, m)
    PROVE  /\ Chain(c, <<m>> \o Way(c))'
           /\ Within => m = [item |-> receiving.item, part |-> Len(receiving.data) + 1]
<1>1. PICK w \in Seq(Message), r \in Seq(Message) : w = Way(c) /\ r = Way(c)'
  <2>1. net[c] \in Seq(Message) /\ buf[c] \in Seq(Message)
    BY DEF TypeOK
  <2>2. net'[c] \in Seq(Message) /\ buf'[c] \in Seq(Message)
    BY SendersTyped, KindKept, Kept DEF SendersOK
  <2>3. net[c] \o buf[c] \in Seq(Message) /\ net'[c] \o buf'[c] \in Seq(Message)
    BY <2>1, <2>2
  <2> QED
    BY <2>3 DEF Way
<1>2. w = <<m>> \o r
  BY <1>1 DEF Takes
<1>3. Len(w) = 1 + Len(r) /\ Len(r) \in Nat /\ w[1] = m /\ w # <<>>
  BY <1>2
<1>4. Extends(c, <<>>)
  <2>1. ASSUME NEW s \in Seq(Message), r = w \o s PROVE FALSE
    <3>1. Len(r) = Len(w) + Len(s) /\ Len(s) \in Nat
      BY <2>1
    <3> QED
      BY <3>1, <1>3
  <2> QED
    BY <2>1, <1>1, WaySteps
<1>5. Chain(c, w)
  BY <1>1 DEF WayInv
<1>6. Chain(c, w \o <<>>)' /\ w \o <<>> = w
  BY <1>4, <1>5 DEF Extends
<1>7. ASSUME Within PROVE m = [item |-> receiving.item, part |-> Len(receiving.data) + 1]
  <2>1. PICK p \in Message : p = Place
    BY <1>7, PlaceTyped
  <2>2. Chain(c, <<p>> \o w)
    BY <2>1, <1>1, <1>7 DEF FeedInv
  <2>3. Follows(p, m)
    BY <2>2, <1>3, ChainDrops
  <2> QED
    BY <2>1, <2>3, <1>7 DEF Follows, Place, Within
<1> QED
  BY <1>1, <1>2, <1>6, <1>7

(* The receiver begins with a file, or goes on with it.                    *)
LEMMA TakesPlace ==
    ASSUME TypeOK, LinkInv, UploadInv, [Next]_vars, NEW c \in Conn, WayInv(c), FeedInv(c), Feeds(c),
           Live(c), NEW m \in Message, Takes(c, m), UNCHANGED <<datachannel, opened, link>>,
           Place' = m, "r" \in opened[c],
           receiving'.data = Chunks(receiving'.item, 0, Len(receiving'.data)),
           ~Within' => Page("r") /\ receiving'.data = <<>>
    PROVE  CurrentInv' /\ \A d \in Conn : FeedInv(d)'
<1>1. kind' = kind /\ Page("r")' = Page("r")
  BY KindKept, Kept
<1>2. Live(c)' /\ \A d \in Conn : Feeds(d)' => d = c
  BY <1>1 DEF Live, Feeds
<1>3. Chain(c, <<m>> \o Way(c))'
  BY <1>2, TakenNext
<1>0. c # 0
  BY DEF Conn
<1>4. CurrentInv'
  BY <1>0, <1>1 DEF CurrentInv, Feeds, Chunks
<1> QED
  BY <1>2, <1>3, <1>4 DEF FeedInv

LEMMA ReceiveEmpty ==
    ASSUME receiving'.item = 0
    PROVE  CurrentInv' /\ \A d \in Conn : FeedInv(d)'
BY DEF CurrentInv, FeedInv, Within

LEMMA SavedMore ==
    ASSUME TypeOK, SavedInv, kind' = kind, NEW i \in Item, NEW d, d = Content(i),
           saved' = saved \/ saved' = saved \cup {[item |-> i, data |-> d]}
    PROVE  SavedInv'
<1>1. \A j : Content(j)' = Content(j)
  BY DEF Content, batch, Chunks
<1>2. [item |-> i, data |-> d].data = d /\ [item |-> i, data |-> d].item = i
  OBVIOUS
<1> QED
  BY <1>1, <1>2 DEF SavedInv

LEMMA EmptyContent ==
    ASSUME NEW i, batch[i].size = 0
    PROVE  Content(i) = <<>>
BY DEF Content, Chunks

LEMMA GoReceiveStep ==
    ASSUME TypeOK, LinkInv, UploadInv, \A c \in Conn : WayInv(c), ReceiveInv, [Next]_vars, GoReceive
    PROVE  ReceiveInv'
<1>1. /\ kind' = kind /\ batch' = batch /\ Page("r")' = Page("r") /\ ~Page("r") /\ GoConn \in Conn
      /\ CurrentInv /\ SavedInv /\ \A c \in Conn : FeedInv(c)
  BY KindKept, Kept, Scenario DEF GoReceive, ReceiveInv
<1>2. net[GoConn] \in Seq(Message) /\ net[GoConn] # <<>>
  BY <1>1 DEF GoReceive, TypeOK
<1>3. PICK m \in Message : m = Head(net[GoConn])
  BY <1>2
<1>4. m.item \in Item /\ batch[m.item].size \in Nat /\ m.part \in Nat
  BY Scenario DEF Message
<1>5. Live(GoConn) /\ Feeds(GoConn) /\ "r" \in opened[GoConn]
  <2>1. link \in [Conn -> {"none", "open", "closed", "lost"}]
    BY DEF TypeOK
  <2> QED
    BY <2>1, <1>1, <1>2 DEF LinkInv, EmptyInv, Live, Feeds, GoReceive
<1>6. CASE UNCHANGED <<receiving, saved>>
  <2>1. CurrentInv' /\ \A c \in Conn : FeedInv(c)'
    BY <1>1, <1>6, ReceivingKept
  <2>2. SavedInv'
    BY <1>1, <1>6 DEF SavedInv, Content, Chunks
  <2> QED
    BY <2>1, <2>2 DEF ReceiveInv
<1>7. ASSUME net' = [net EXCEPT ![GoConn] = Tail(net[GoConn])], link' = link
      PROVE  Takes(GoConn, m) /\ Live(GoConn)'
  <2>1. Live(GoConn)'
    BY <1>5, <1>7 DEF Live
  <2>2. buf' = buf
    BY DEF GoReceive
  <2>3. Way(GoConn) = <<m>> \o Way(GoConn)'
    <3>1. PICK n \in Seq(Message), b \in Seq(Message) : n = net[GoConn] /\ b = buf[GoConn]
      BY <1>1, <1>2 DEF TypeOK
    <3>0. n # <<>> /\ m = Head(n)
      BY <3>1, <1>2, <1>3
    <3>2. n \o b = <<m>> \o (Tail(n) \o b)
      BY <3>0
    <3>3. net'[GoConn] = Tail(n)
      BY <3>1, <1>1, <1>7 DEF TypeOK
    <3> QED
      BY <2>2, <3>1, <3>2, <3>3 DEF Way
  <2> QED
    BY <2>1, <2>3, <1>2, <1>3 DEF Takes
<1>8. CASE /\ receiving.item = 0 /\ m.part = 0 /\ ~batch[m.item].long
           /\ IF batch[m.item].size = 0 THEN Complete(m.item, <<>>) /\ UNCHANGED receiving
              ELSE receiving' = [item |-> m.item, data |-> <<>>, id |-> 0] /\ UNCHANGED saved
           /\ net' = [net EXCEPT ![GoConn] = Tail(net[GoConn])] /\ UNCHANGED <<goreceive, state, link>>
  <2>1. CASE batch[m.item].size = 0
    <3>1. SavedInv'
      BY <2>1, <1>1, <1>4, <1>8, SavedMore, EmptyContent DEF Complete
    <3>2. receiving'.item = 0
      BY <2>1, <1>8
    <3> QED
      BY <3>1, <3>2, ReceiveEmpty DEF ReceiveInv
  <2>2. CASE batch[m.item].size # 0
    <3>1. receiving' = [item |-> m.item, data |-> <<>>, id |-> 0] /\ UNCHANGED saved
      BY <2>2, <1>8
    <3>2. /\ receiving'.item = m.item /\ receiving'.data = <<>> /\ Len(receiving'.data) = 0
      BY <3>1
    <3>3. m = [item |-> m.item, part |-> 0]
      BY <1>8 DEF Message
    <3>4. Place' = m
      BY <3>2, <3>3 DEF Place
    <3>5. Chunks(m.item, 0, 0) = <<>>
      BY DEF Chunks
    <3>6. Within'
      <4>1. m.item # 0 /\ 0 < batch[m.item].size
        BY <2>2, <1>4 DEF Item
      <4> QED
        BY <3>2, <4>1, <1>1 DEF Within
    <3>7. UNCHANGED <<datachannel, opened, link>> /\ Takes(GoConn, m)
      BY <1>7, <1>8 DEF GoReceive
    <3>8. CurrentInv' /\ \A d \in Conn : FeedInv(d)'
      BY <3>2, <3>4, <3>5, <3>6, <3>7, <1>1, <1>5, TakesPlace
    <3>9. SavedInv'
      BY <3>1, <1>1 DEF SavedInv, Content, Chunks
    <3> QED
      BY <3>8, <3>9 DEF ReceiveInv
  <2> QED
    BY <2>1, <2>2
<1>9. CASE /\ receiving.item # 0
           /\ IF Len(Append(receiving.data, m)) = batch[receiving.item].size
              THEN receiving' = Nothing /\ Complete(receiving.item, Append(receiving.data, m))
              ELSE receiving' = [receiving EXCEPT !.data = Append(receiving.data, m)] /\ UNCHANGED saved
           /\ net' = [net EXCEPT ![GoConn] = Tail(net[GoConn])] /\ UNCHANGED <<goreceive, state, link>>
  <2>1. PICK i \in Item, n \in Nat, d \in Seq(Message) :
            i = receiving.item /\ n = Len(receiving.data) /\ d = receiving.data
    BY <1>9, PlaceTyped
  <2>2. Within /\ d = Chunks(i, 0, n) /\ batch[i].size \in Nat /\ n < batch[i].size
    BY <2>1, <1>1, <1>9, Scenario DEF CurrentInv, Within
  <2>3. Takes(GoConn, m) /\ Live(GoConn)' /\ UNCHANGED <<datachannel, opened, link>>
    BY <1>7, <1>9 DEF GoReceive
  <2>4. m = [item |-> i, part |-> n + 1]
    BY <2>1, <2>2, <2>3, <1>1, <1>5, TakenNext
  <2>5. Append(d, m) = Chunks(i, 0, n + 1) /\ Len(Append(d, m)) = n + 1
    BY <2>2, <2>4, NextChunk
  <2>6. CASE n + 1 = batch[i].size
    <3>1. receiving' = Nothing /\ Complete(i, Append(d, m)) /\ Append(d, m) = Content(i)
      BY <2>1, <2>5, <2>6, <1>9 DEF Content
    <3>2. SavedInv'
      BY <3>1, <1>1, SavedMore DEF Complete
    <3> QED
      BY <3>1, <3>2, ReceiveEmpty DEF ReceiveInv, Nothing
  <2>7. CASE n + 1 # batch[i].size
    <3>1. receiving' = [receiving EXCEPT !.data = Append(d, m)] /\ UNCHANGED saved
      BY <2>1, <2>5, <2>7, <1>9
    <3>2. receiving'.item = i /\ receiving'.data = Append(d, m)
      <4>1. receiving \in [item: 0..Len(batch), data: Seq(Message), id: Nat]
        BY DEF TypeOK
      <4> QED
        BY <2>1, <3>1, <4>1
    <3>3. Place' = m
      BY <2>4, <2>5, <3>2 DEF Place
    <3>4. Within'
      <4>1. i # 0 /\ n + 1 < batch[i].size
        BY <2>2, <2>7 DEF Item
      <4> QED
        BY <2>5, <3>2, <4>1, <1>1 DEF Within
    <3>5. receiving'.data = Chunks(receiving'.item, 0, Len(receiving'.data))
      BY <2>5, <3>2
    <3>6. CurrentInv' /\ \A c \in Conn : FeedInv(c)'
      BY <2>3, <3>3, <3>4, <3>5, <1>1, <1>5, TakesPlace
    <3>7. SavedInv'
      BY <3>1, <1>1 DEF SavedInv, Content, Chunks
    <3> QED
      BY <3>6, <3>7 DEF ReceiveInv
  <2> QED
    BY <2>6, <2>7
<1> QED
  BY <1>3, <1>6, <1>8, <1>9 DEF GoReceive

LEMMA PageTakes ==
    ASSUME TypeOK, LinkInv, [Next]_vars, NEW c \in Conn, PageReceive(c)
    PROVE  \E m \in Message : m = Head(net[c]) /\ Takes(c, m) /\ Live(c) /\ Live(c)'
<1>1. /\ UNCHANGED <<opened, link, buf>> /\ "r" \in opened[c]
      /\ net' = [net EXCEPT ![c] = Tail(net[c])]
  BY DEF PageReceive, connVars
<1>2. net[c] \in Seq(Message) /\ net[c] # <<>> /\ buf[c] \in Seq(Message)
  BY DEF PageReceive, TypeOK
<1>3. PICK m \in Message : m = Head(net[c])
  BY <1>2
<1>4. Live(c) /\ Live(c)'
  <2>1. link \in [Conn -> {"none", "open", "closed", "lost"}]
    BY DEF TypeOK
  <2> QED
    BY <2>1, <1>1, <1>2 DEF LinkInv, EmptyInv, Live
<1>5. Takes(c, m)
  <2>1. PICK n \in Seq(Message), b \in Seq(Message) : n = net[c] /\ b = buf[c]
    BY <1>2
  <2>2. n # <<>> /\ m = Head(n)
    BY <2>1, <1>2, <1>3
  <2>3. n \o b = <<m>> \o (Tail(n) \o b)
    BY <2>2
  <2>4. net'[c] = Tail(n)
    BY <2>1, <1>1 DEF TypeOK
  <2>5. Way(c) = <<m>> \o Way(c)'
    BY <2>1, <2>3, <2>4, <1>1 DEF Way
  <2> QED
    BY <2>5, <1>2, <1>3 DEF Takes
<1> QED
  BY <1>3, <1>4, <1>5

LEMMA PageReceiveStep ==
    ASSUME TypeOK, LinkInv, UploadInv, \A c \in Conn : WayInv(c), ReceiveInv, [Next]_vars,
           NEW c \in Conn, PageReceive(c), ~late'
    PROVE  ReceiveInv'
<1>1. /\ kind' = kind /\ batch' = batch /\ Page("r")' = Page("r") /\ Page("r")
      /\ CurrentInv /\ SavedInv /\ \A d \in Conn : FeedInv(d)
      /\ UNCHANGED <<datachannel, opened, link>> /\ "r" \in opened[c]
      /\ datachannel["r"] = c \/ receiving' = receiving
  BY KindKept, Kept DEF PageReceive, ReceiveInv, pageVars, connVars
<1>2. PICK m \in Message : m = Head(net[c]) /\ Takes(c, m) /\ Live(c) /\ Live(c)'
  BY PageTakes
<1>3. m.item \in Item /\ batch[m.item].size \in Nat /\ m.part \in Nat
  BY Scenario DEF Message
<1>4. ASSUME UNCHANGED saved PROVE SavedInv'
  BY <1>1, <1>4 DEF SavedInv, Content, Chunks
<1>5. ASSUME receiving' = receiving PROVE CurrentInv' /\ \A d \in Conn : FeedInv(d)'
  BY <1>1, <1>5, ReceivingKept
<1>6. CASE receiving.item # 0
  <2>1. TakeChunk(m)
    BY <1>2, <1>6 DEF PageReceive
  <2>2. \/ UNCHANGED <<receiving, saved>>
        \/ /\ Within /\ Len(receiving.data) + 1 # batch[receiving.item].size
           /\ receiving' = [receiving EXCEPT !.data = Append(receiving.data, m)] /\ UNCHANGED saved
        \/ /\ Within /\ Len(receiving.data) + 1 = batch[receiving.item].size
           /\ receiving' = Nothing
           /\ saved' = IF Via THEN saved
                       ELSE saved \cup {[item |-> receiving.item, data |-> Append(receiving.data, m)]}
    BY <2>1, <1>6, TakeChunkCases
  <2>3. CASE UNCHANGED <<receiving, saved>>
    BY <2>3, <1>4, <1>5 DEF ReceiveInv
  <2>4. CASE Within /\ receiving' # receiving
    <3>1. PICK i \in Item, n \in Nat, d \in Seq(Message) :
              i = receiving.item /\ n = Len(receiving.data) /\ d = receiving.data
      BY <1>6, PlaceTyped
    <3>2. d = Chunks(i, 0, n) /\ batch[i].size \in Nat /\ n < batch[i].size
      BY <2>4, <3>1, <1>1, <1>6, Scenario DEF CurrentInv, Within
    <3>3. Feeds(c)
      BY <2>4, <1>1 DEF Feeds
    <3>4. m = [item |-> i, part |-> n + 1]
      BY <2>4, <3>1, <3>3, <1>1, <1>2, TakenNext
    <3>5. Append(d, m) = Chunks(i, 0, n + 1) /\ Len(Append(d, m)) = n + 1
      BY <3>2, <3>4, NextChunk
    <3>6. CASE n + 1 = batch[i].size
      <4>1. receiving' = Nothing /\ Append(d, m) = Content(i)
            /\ (saved' = saved \/ saved' = saved \cup {[item |-> i, data |-> Append(d, m)]})
        BY <2>2, <2>4, <3>1, <3>5, <3>6 DEF Content
      <4>2. SavedInv'
        BY <4>1, <1>1, SavedMore
      <4> QED
        BY <4>1, <4>2, ReceiveEmpty DEF ReceiveInv, Nothing
    <3>7. CASE n + 1 # batch[i].size
      <4>1. receiving' = [receiving EXCEPT !.data = Append(d, m)] /\ UNCHANGED saved
        BY <2>2, <2>4, <3>1, <3>7
      <4>2. receiving'.item = i /\ receiving'.data = Append(d, m)
        <5>1. receiving \in [item: 0..Len(batch), data: Seq(Message), id: Nat]
          BY DEF TypeOK
        <5> QED
          BY <3>1, <4>1, <5>1
      <4>3. Place' = m
        BY <3>4, <3>5, <4>2 DEF Place
      <4>4. Within'
        <5>1. i # 0 /\ n + 1 < batch[i].size
          BY <3>2, <3>7 DEF Item
        <5> QED
          BY <3>5, <4>2, <5>1, <1>1 DEF Within
      <4>5. receiving'.data = Chunks(receiving'.item, 0, Len(receiving'.data))
        BY <3>5, <4>2
      <4>6. CurrentInv' /\ \A e \in Conn : FeedInv(e)'
        BY <3>3, <4>3, <4>4, <4>5, <1>1, <1>2, TakesPlace
      <4> QED
        BY <4>1, <4>6, <1>4 DEF ReceiveInv
    <3> QED
      BY <3>6, <3>7
  <2>5. CASE Within /\ receiving' = receiving
    <3>1. receiving \in [item: 0..Len(batch), data: Seq(Message), id: Nat]
      BY DEF TypeOK
    <3>2. Append(receiving.data, m) # receiving.data
      BY <3>1
    <3>3. UNCHANGED <<receiving, saved>>
      BY <2>2, <2>5, <3>1, <3>2, <1>6 DEF Nothing
    <3> QED
      BY <2>3, <3>3
  <2> QED
    BY <2>2, <2>3, <2>4, <2>5
<1>7. CASE receiving.item = 0
  <2>1. TakeHeader(m)
    BY <1>2, <1>7 DEF PageReceive
  <2>2. SavedInv'
    <3>1. CASE m.part = 0 /\ batch[m.item].type = "text" /\ Complete(m.item, <<>>)
      <4>1. batch[m.item].size = 0
        BY <3>1, <1>3, TransferAssumption, Scenario DEF TypeOK, batch
      <4> QED
        BY <3>1, <4>1, <1>1, <1>3, SavedMore, EmptyContent DEF Complete
    <3> QED
      BY <2>1, <3>1, <1>4 DEF TakeHeader
  <2>3. CASE UNCHANGED receiving
    BY <2>2, <2>3, <1>5 DEF ReceiveInv
  <2>4. CASE ~UNCHANGED receiving
    <3>1. m.part = 0 /\ receiving'.item = m.item /\ receiving'.data = <<>> /\ Len(receiving'.data) = 0
      BY <2>1, <2>4 DEF TakeHeader
    <3>2. m = [item |-> m.item, part |-> 0]
      BY <3>1 DEF Message
    <3>3. Place' = m
      BY <3>1, <3>2 DEF Place
    <3>4. Chunks(m.item, 0, 0) = <<>>
      BY DEF Chunks
    <3>5. Feeds(c)
      BY <2>4, <1>1 DEF Feeds
    <3>6. CurrentInv' /\ \A e \in Conn : FeedInv(e)'
      BY <3>1, <3>3, <3>4, <3>5, <1>1, <1>2, TakesPlace
    <3> QED
      BY <2>2, <3>6 DEF ReceiveInv
  <2> QED
    BY <2>3, <2>4
<1> QED
  BY <1>6, <1>7

LEMMA ReceiveStep ==
    ASSUME TypeOK, LinkInv, UploadInv, \A c \in Conn : WayInv(c), ReceiveInv, [Next]_vars, ~late'
    PROVE  ReceiveInv'
<1>1. kind' = kind /\ batch' = batch
  BY KindKept, Kept
<1>2. ASSUME UNCHANGED saved PROVE SavedInv'
  BY <1>1, <1>2 DEF ReceiveInv, SavedInv, Content, Chunks
<1>3. CASE UNCHANGED <<receiving, saved>>
  BY <1>2, <1>3, ReceivingKept DEF ReceiveInv
<1>4. ASSUME NEW p \in Side, NEW c \in Conn, Disconnected(p, c) PROVE ReceiveInv'
  <2>1. UNCHANGED saved /\ (receiving' = receiving \/ receiving'.item = 0)
    BY <1>4 DEF Disconnected, ForgetReceiving, Nothing
  <2> QED
    BY <2>1, <1>2, <1>3, ReceiveEmpty DEF ReceiveInv
<1> QED
  BY <1>3, <1>4, GoReceiveStep, PageReceiveStep, ReceiversKept

-----------------------------------------------------------------------------
(* The page and the worker: no chunk of a download is lost between them.   *)

(* The page posts more.                                                    *)
Grows ==
    /\ DOMAIN post \subseteq DOMAIN post' /\ DOMAIN post' \subseteq Nat
    /\ \A k \in DOMAIN post : post'[k] = post[k]

LEMMA PostedStays ==
    ASSUME Grows, UNCHANGED <<streams, body>>, NEW id, NEW n, NEW j \in Nat, NEW l \in Nat, j <= l,
           \A k \in DOMAIN post' : k < l => (k \in DOMAIN post /\ k < j) \/ post'[k].type # "metadata",
           Posted(id, n, j)
    PROVE  Posted(id, n, l)'
<1>1. \A k \in DOMAIN post : k \in Nat /\ (k < j => k < l)
  BY DEF Grows
<1>2. Usable(id)' = Usable(id)
  BY DEF Usable
<1>3. \A k, o : k \in DOMAIN post /\ DataAt(k, id, o) => k \in DOMAIN post' /\ DataAt(k, id, o)'
  BY DEF DataAt, Grows
<1>4. ASSUME Usable(id), NEW o \in streams[id].offset..(n - 1)
      PROVE  \E k \in DOMAIN post' : k < l /\ DataAt(k, id, o)'
  BY <1>1, <1>3, <1>4 DEF Posted
<1>5. ASSUME NEW i \in DOMAIN post', post'[i].type = "metadata", post'[i].id = id, i < l,
             NEW o \in 0..(n - 1)
      PROVE  \E k \in DOMAIN post' : i < k /\ k < l /\ DataAt(k, id, o)'
  <2>1. i \in DOMAIN post /\ i < j /\ post'[i] = post[i]
    BY <1>5 DEF Grows
  <2>2. PICK k \in DOMAIN post : i < k /\ k < j /\ DataAt(k, id, o)
    BY <2>1, <1>5 DEF Posted
  <2> QED
    BY <2>2, <1>1, <1>3
<1> QED
  BY <1>2, <1>4, <1>5 DEF Posted

LEMMA PostedMore ==
    ASSUME Grows, UNCHANGED <<streams, body>>, NEW id, NEW n \in Nat, NEW j \in Nat, NEW l \in Nat,
           \A k \in DOMAIN post' : k < l => (k \in DOMAIN post /\ k < j) \/ post'[k].type # "metadata",
           Usable(id) => streams[id].offset \in Nat,
           NEW x \in DOMAIN post', j <= x, x < l, DataAt(x, id, n)', Posted(id, n, j)
    PROVE  Posted(id, n + 1, l)'
<1>1. x \in Nat /\ j <= l /\ DOMAIN post' \subseteq Nat /\ n - 1 \in Int
  BY DEF Grows
<1>2. Posted(id, n, l)'
  BY <1>1, PostedStays
<1>3. Usable(id)' = Usable(id)
  BY DEF Usable
<1>4. ASSUME Usable(id), NEW o \in streams[id].offset..((n + 1) - 1)
      PROVE  \E k \in DOMAIN post' : k < l /\ DataAt(k, id, o)'
  <2>1. CASE o = n
    BY <2>1
  <2>2. CASE o # n
    <3>1. o \in streams[id].offset..(n - 1)
      BY <2>2, <1>4
    <3> QED
      BY <3>1, <1>2, <1>3, <1>4 DEF Posted
  <2> QED
    BY <2>1, <2>2
<1>5. ASSUME NEW i \in DOMAIN post', post'[i].type = "metadata", post'[i].id = id, i < l,
             NEW o \in 0..((n + 1) - 1)
      PROVE  \E k \in DOMAIN post' : i < k /\ k < l /\ DataAt(k, id, o)'
  <2>1. CASE o = n
    <3>1. i < j /\ i \in Nat
      BY <1>1, <1>5
    <3> QED
      BY <2>1, <3>1, <1>1
  <2>2. CASE o # n
    <3>1. o \in 0..(n - 1)
      BY <2>2, <1>5
    <3> QED
      BY <3>1, <1>2, <1>5 DEF Posted
  <2> QED
    BY <2>1, <2>2
<1> QED
  BY <1>3, <1>4, <1>5 DEF Posted

LEMMA PagePosts ==
    ASSUME TypeOK, WorkerInv, DataInv, Grows, UNCHANGED <<kind, streams, body>>,
           \A d \in DOMAIN downloads : downloads'[d] = downloads[d],
           \A i \in DOMAIN post, k \in DOMAIN post' : k < i => k \in DOMAIN post,
           \A i \in DOMAIN post' : i \in DOMAIN post \/ PlaceInv(i)', PageInv'
    PROVE  DataInv'
<1>1. /\ batch' = batch /\ \A i, f, n : Chunks(i, f, n)' = Chunks(i, f, n)
      /\ \A id : Usable(id)' = Usable(id)
  BY DEF batch, Chunks, Usable
<1>2. ASSUME NEW id \in DOMAIN body' PROVE BodyInv(id)'
  <2>1. id \in DOMAIN downloads /\ BodyInv(id)
    BY <1>2 DEF WorkerInv, DataInv
  <2> QED
    BY <2>1, <1>1 DEF BodyInv, Content
<1>3. ASSUME NEW i \in DOMAIN post PROVE PlaceInv(i)'
  <2>1. PlaceInv(i) /\ post[i].id \in DOMAIN downloads /\ post'[i] = post[i] /\ i \in Nat
    BY <1>3 DEF WorkerInv, DataInv, Grows
  <2>2. downloads'[post'[i].id] = downloads[post[i].id]
    BY <2>1
  <2>3. PICK d, n : d = post[i].id /\ n = batch[downloads[post[i].id]].size
    OBVIOUS
  <2>4. ASSUME post[i].type = "end" PROVE Posted(d, n, i)'
    <3>1. Posted(d, n, i)
      BY <2>1, <2>3, <2>4 DEF PlaceInv
    <3>2. \A k \in DOMAIN post' : k < i => (k \in DOMAIN post /\ k < i)
      OBVIOUS
    <3>3. i <= i
      BY <2>1
    <3> QED
      BY <2>1, <3>1, <3>2, <3>3, PostedStays
  <2>5. post[i].type = "end" => Posted(post[i].id, batch[downloads[post[i].id]].size, i)'
    BY <2>1, <2>2, <2>3, <2>4, <1>1
  <2> QED
    BY <2>1, <2>2, <2>5, <1>1 DEF PlaceInv
<1> QED
  BY <1>2, <1>3 DEF DataInv

LEMMA GrowsBy ==
    ASSUME TypeOK, NEW q \in Seq(Post(Message)), post' = post \o q
    PROVE  /\ Grows /\ Len(post) \in Nat /\ Len(q) \in Nat /\ Len(post') = Len(post) + Len(q)
           /\ DOMAIN post = 1..Len(post) /\ DOMAIN post' = 1..(Len(post) + Len(q))
           /\ \A k \in 1..Len(q) : post'[Len(post) + k] = q[k]
           /\ \A i \in DOMAIN post, k \in DOMAIN post' : k < i => k \in DOMAIN post
           /\ \A i \in DOMAIN post' : i \in DOMAIN post \/ \E k \in 1..Len(q) : i = Len(post) + k
<1>1. PICK p \in Seq(Post(Message)) : p = post
  BY DEF TypeOK, WorkerTypeOK
<1>2. PICK r \in Seq(Post(Message)) : r = p \o q
  <2>1. p \o q \in Seq(Post(Message))
    OBVIOUS
  <2> QED
    BY <2>1
<1>3. PICK a \in Nat, b \in Nat : a = Len(p) /\ b = Len(q)
  OBVIOUS
<1>4. /\ Len(r) = a + b /\ DOMAIN p = 1..a /\ DOMAIN r = 1..(a + b)
      /\ \A k \in 1..a : r[k] = p[k]
      /\ \A k \in 1..b : r[a + k] = q[k]
  BY <1>2, <1>3
<1>5. ASSUME NEW i \in 1..(a + b) PROVE i \in 1..a \/ \E k \in 1..b : i = a + k
  <2>1. i <= a \/ (i - a \in 1..b /\ i = a + (i - a))
    OBVIOUS
  <2> QED
    BY <2>1
<1>6. /\ 1..a \subseteq 1..(a + b) /\ 1..(a + b) \subseteq Nat
      /\ \A i \in 1..a, k \in 1..(a + b) : k < i => k \in 1..a
  OBVIOUS
<1> QED
  BY <1>1, <1>2, <1>3, <1>4, <1>5, <1>6 DEF Grows

(* The page gives a download up, or is not in one.                         *)
LEMMA PageCancels ==
    ASSUME TypeOK, WorkerInv, DataInv, UNCHANGED <<kind, streams, body, downloads>>,
           post' = post \o ErrorPost, receiving' = receiving \/ receiving'.item = 0
    PROVE  DataInv'
<1>1. PICK q \in Seq(Post(Message)) : q = ErrorPost
  BY ErrorPosts
<1>2. \A k \in 1..Len(q) : q[k].type = "error"
  BY <1>1, ErrorPosts
<1>3. Via' = Via /\ post' = post \o q
  BY <1>1, Kept
<1>4. PICK l \in Nat, b \in Nat : l = Len(post) /\ b = Len(q)
  BY <1>3, GrowsBy
<1>5. /\ Grows /\ Len(post') = l + b /\ DOMAIN post = 1..l
      /\ \A k \in 1..b : post'[l + k] = q[k]
      /\ \A i \in DOMAIN post, k \in DOMAIN post' : k < i => k \in DOMAIN post
      /\ \A i \in DOMAIN post' : i \in DOMAIN post \/ \E k \in 1..b : i = l + k
  BY <1>3, <1>4, GrowsBy
<1>6. \A i \in DOMAIN post' : i \in DOMAIN post \/ post'[i].type = "error"
  BY <1>2, <1>4, <1>5
<1>7. \A i \in DOMAIN post' : i \in DOMAIN post \/ PlaceInv(i)'
  BY <1>6 DEF PlaceInv
<1>8. PageInv'
  <2> SUFFICES ASSUME Via, receiving' = receiving, receiving.item # 0
               PROVE  Posted(receiving.id, Len(receiving.data), Len(post) + 1)'
    BY <1>3 DEF PageInv
  <2>1. PICK id, n : id = receiving.id /\ n = Len(receiving.data)
    OBVIOUS
  <2>2. Posted(id, n, l + 1)
    BY <2>1, <1>4 DEF DataInv, PageInv
  <2>3. \A k \in DOMAIN post : k < l + 1
    BY <1>5
  <2>4. \A k \in DOMAIN post' : k < (l + b) + 1 => (k \in DOMAIN post /\ k < l + 1) \/ post'[k].type # "metadata"
    BY <2>3, <1>6
  <2>5. Posted(id, n, (l + b) + 1)'
    <3>1. PICK x \in Nat, y \in Nat : x = l + 1 /\ y = (l + b) + 1 /\ x <= y
      OBVIOUS
    <3> QED
      BY <2>2, <2>4, <3>1, <1>5, PostedStays
  <2> QED
    BY <2>1, <2>5, <1>5
<1> QED
  BY <1>5, <1>7, <1>8, PagePosts

(* The page begins with a download.                                        *)
LEMMA PageBegins ==
    ASSUME TypeOK, WorkerInv, DataInv, UNCHANGED <<kind, streams, body>>, NEW id \in Nat,
           id = Len(downloads) + 1, NEW i, downloads' = Append(downloads, i),
           post' = Append(post, [type |-> "metadata", id |-> id]),
           receiving' = [item |-> i, data |-> <<>>, id |-> id]
    PROVE  DataInv'
<1>1. PICK x \in Post(Message) : x = [type |-> "metadata", id |-> id]
  BY DEF Post
<1>2. PICK q \in Seq(Post(Message)) : q = <<x>>
  <2>1. <<x>> \in Seq(Post(Message))
    OBVIOUS
  <2> QED
    BY <2>1
<1>3. post' = post \o q
  <2>1. PICK p \in Seq(Post(Message)) : p = post
    BY DEF TypeOK, WorkerTypeOK
  <2>2. Append(p, x) = p \o <<x>>
    OBVIOUS
  <2> QED
    BY <2>1, <2>2, <1>1, <1>2
<1>4. /\ Grows /\ \A k \in DOMAIN post, j \in DOMAIN post' : j < k => j \in DOMAIN post
      /\ \A k \in DOMAIN post' : k \in DOMAIN post \/ post'[k] = x
  <2>1. Len(q) = 1 /\ q[1] = x /\ \A k \in 1..1 : k = 1
    BY <1>2
  <2>2. \A k \in DOMAIN post' : k \in DOMAIN post \/ k = Len(post) + 1
    BY <2>1, <1>3, GrowsBy
  <2>3. post'[Len(post) + 1] = x
    BY <2>1, <1>3, GrowsBy
  <2> QED
    BY <2>2, <2>3, <1>3, GrowsBy
<1>5. \A k \in DOMAIN post' : k \in DOMAIN post \/ PlaceInv(k)'
  BY <1>1, <1>4 DEF PlaceInv
<1>6. downloads \in Seq(Item) /\ id \notin DOMAIN downloads /\ \A d \in DOMAIN downloads : downloads'[d] = downloads[d]
  <2>1. downloads \in Seq(Item)
    BY DEF TypeOK
  <2> QED
    BY <2>1
<1>7. PageInv'
  <2>1. ~Usable(id)'
    BY <1>6 DEF WorkerInv, Usable
  <2>2. receiving'.id = id /\ Len(receiving'.data) = 0 /\ 0..(0 - 1) = {}
    OBVIOUS
  <2> QED
    BY <2>1, <2>2 DEF PageInv, Posted
<1> QED
  BY <1>4, <1>5, <1>6, <1>7, PagePosts

(* The page posts a chunk, and the end after the last one.                 *)
LEMMA PageGoesOn ==
    ASSUME TypeOK, WorkerInv, DataInv, UNCHANGED <<kind, streams, body, downloads>>, Via, Within,
           NEW m \in Message, m = [item |-> receiving.item, part |-> Len(receiving.data) + 1],
           \/ /\ post' = post \o <<ChunkPost(m)>>
              /\ receiving' = [receiving EXCEPT !.data = Append(receiving.data, m)]
           \/ /\ post' = post \o <<ChunkPost(m), EndPost>> /\ receiving' = Nothing
              /\ Len(receiving.data) + 1 = batch[receiving.item].size
    PROVE  DataInv'
<1>1. PICK id \in Nat, n \in Nat, i \in Item, d \in Seq(Message) :
          /\ id = receiving.id /\ n = Len(receiving.data) /\ i = receiving.item /\ d = receiving.data
          /\ i # 0
  BY PlaceTyped DEF Within, TypeOK
<1>2. /\ batch' = batch /\ Via' = Via /\ batch[i].size \in Nat /\ n < batch[i].size
      /\ id \in DOMAIN downloads /\ downloads[id] = i
  BY <1>1, Kept, Scenario DEF Within, WorkerInv
<1>3. PICK a \in Post(Message), b \in Post(Message) : a = ChunkPost(m) /\ b = EndPost
  BY PostsTyped
<1>4. /\ a.type = "data" /\ a.id = id /\ a.offset = n /\ a.data = m
      /\ b.type = "end" /\ b.id = id
  BY <1>1, <1>3, PostsTyped
<1>5. PICK l \in Nat : l = Len(post)
  <2>1. post \in Seq(Post(Message))
    BY DEF TypeOK, WorkerTypeOK
  <2> QED
    BY SMTT(20), <2>1
<1>6. Posted(id, n, l + 1)
  BY <1>1, <1>5 DEF DataInv, PageInv
<1>7. Usable(id) => streams[id].offset \in Nat
  <2>1. streams \in [DOMAIN streams -> Stream]
    BY DEF TypeOK, WorkerTypeOK
  <2> QED
    BY <2>1 DEF Usable, Stream
<1>8. ASSUME Grows, DOMAIN post = 1..l, l + 1 \in DOMAIN post', post'[l + 1] = a
      PROVE  PlaceInv(l + 1)' /\ Posted(id, n + 1, l + 2)'
  <2>1. PlaceInv(l + 1)'
    BY <1>1, <1>2, <1>4, <1>8 DEF PlaceInv
  <2>2. DataAt(l + 1, id, n)'
    BY <1>4, <1>8 DEF DataAt
  <2>3. \A k \in DOMAIN post' : k < l + 2 => (k \in DOMAIN post /\ k < l + 1) \/ k = l + 1
    BY SMTT(20), <1>8 DEF Grows
  <2>4. \A k \in DOMAIN post' : k < l + 2 => (k \in DOMAIN post /\ k < l + 1) \/ post'[k].type # "metadata"
    BY <2>3, <1>4, <1>8
  <2>5. PICK x \in Nat, y \in Nat : x = l + 1 /\ y = l + 2 /\ x <= x /\ x < y
    OBVIOUS
  <2>6. Posted(id, n + 1, y)'
    BY <2>2, <2>4, <2>5, <1>6, <1>7, <1>8, PostedMore
  <2> QED
    BY <2>1, <2>5, <2>6
<1>9. CASE /\ post' = post \o <<a>>
           /\ receiving' = [receiving EXCEPT !.data = Append(receiving.data, m)]
  <2>1. PICK q \in Seq(Post(Message)) : q = <<a>>
    <3>1. <<a>> \in Seq(Post(Message))
      OBVIOUS
    <3> QED
      BY <3>1
  <2>2. Len(q) = 1 /\ q[1] = a /\ \A k \in 1..1 : k = 1
    BY <2>1
  <2>3. /\ Grows /\ Len(post') = l + 1 /\ DOMAIN post = 1..l /\ DOMAIN post' = 1..(l + 1)
        /\ \A k \in 1..Len(q) : post'[l + k] = q[k]
        /\ \A x \in DOMAIN post, k \in DOMAIN post' : k < x => k \in DOMAIN post
        /\ \A x \in DOMAIN post' : x \in DOMAIN post \/ \E k \in 1..Len(q) : x = l + k
    <3>1. post' = post \o q
      BY <2>1, <1>9
    <3>2. /\ Grows /\ Len(post') = Len(post) + Len(q) /\ DOMAIN post = 1..Len(post)
          /\ DOMAIN post' = 1..(Len(post) + Len(q))
          /\ \A k \in 1..Len(q) : post'[Len(post) + k] = q[k]
          /\ \A x \in DOMAIN post, k \in DOMAIN post' : k < x => k \in DOMAIN post
          /\ \A x \in DOMAIN post' : x \in DOMAIN post \/ \E k \in 1..Len(q) : x = Len(post) + k
      BY <3>1, GrowsBy
    <3> QED
      BY <2>2, <3>2, <1>5
  <2>4. l + 1 \in DOMAIN post' /\ post'[l + 1] = a
    BY <2>2, <2>3
  <2>5. \A x \in DOMAIN post' : x \in DOMAIN post \/ x = l + 1
    BY <2>2, <2>3
  <2>6. PlaceInv(l + 1)' /\ Posted(id, n + 1, l + 2)'
    BY <2>3, <2>4, <1>8
  <2>7. PageInv'
    <3>1. receiving'.id = id /\ receiving'.data = Append(d, m)
      <4>1. receiving \in [item: 0..Len(batch), data: Seq(Message), id: Nat]
        BY DEF TypeOK
      <4> QED
        BY <4>1, <1>1, <1>9
    <3>2. Len(Append(d, m)) = n + 1 /\ (l + 1) + 1 = l + 2
      BY <1>1
    <3> QED
      BY <2>3, <2>6, <3>1, <3>2 DEF PageInv
  <2>8. \A x \in DOMAIN post' : x \in DOMAIN post \/ PlaceInv(x)'
    BY <2>5, <2>6
  <2> QED
    BY <2>3, <2>7, <2>8, PagePosts
<1>10. CASE /\ post' = post \o <<a, b>> /\ receiving' = Nothing
            /\ Len(receiving.data) + 1 = batch[receiving.item].size
  <2>1. PICK q \in Seq(Post(Message)) : q = <<a, b>>
    <3>1. <<a, b>> \in Seq(Post(Message))
      OBVIOUS
    <3> QED
      BY <3>1
  <2>2. Len(q) = 2 /\ q[1] = a /\ q[2] = b /\ \A k \in 1..2 : k = 1 \/ k = 2
    BY <2>1
  <2>3. /\ Grows /\ Len(post') = l + 2 /\ DOMAIN post = 1..l /\ DOMAIN post' = 1..(l + 2)
        /\ \A k \in 1..Len(q) : post'[l + k] = q[k]
        /\ \A x \in DOMAIN post, k \in DOMAIN post' : k < x => k \in DOMAIN post
        /\ \A x \in DOMAIN post' : x \in DOMAIN post \/ \E k \in 1..Len(q) : x = l + k
    <3>1. post' = post \o q
      BY <2>1, <1>10
    <3>2. /\ Grows /\ Len(post') = Len(post) + Len(q) /\ DOMAIN post = 1..Len(post)
          /\ DOMAIN post' = 1..(Len(post) + Len(q))
          /\ \A k \in 1..Len(q) : post'[Len(post) + k] = q[k]
          /\ \A x \in DOMAIN post, k \in DOMAIN post' : k < x => k \in DOMAIN post
          /\ \A x \in DOMAIN post' : x \in DOMAIN post \/ \E k \in 1..Len(q) : x = Len(post) + k
      BY <3>1, GrowsBy
    <3> QED
      BY <2>2, <3>2, <1>5
  <2>4. l + 1 \in DOMAIN post' /\ post'[l + 1] = a /\ post'[l + 2] = b
    BY <2>2, <2>3
  <2>5. \A x \in DOMAIN post' : x \in DOMAIN post \/ x = l + 1 \/ x = l + 2
    BY <2>2, <2>3
  <2>6. PlaceInv(l + 1)' /\ Posted(id, n + 1, l + 2)'
    BY <2>3, <2>4, <1>8
  <2>7. PlaceInv(l + 2)'
    <3>1. PICK x : x = l + 2
      OBVIOUS
    <3>2. post'[x].type = "end" /\ post'[x].id = id /\ batch'[downloads'[id]].size = n + 1
      BY <2>4, <3>1, <1>1, <1>2, <1>4, <1>10
    <3> QED
      BY <2>6, <3>1, <3>2 DEF PlaceInv
  <2>8. PageInv'
    BY <1>10 DEF PageInv, Nothing
  <2>9. \A x \in DOMAIN post' : x \in DOMAIN post \/ PlaceInv(x)'
    BY <2>5, <2>6, <2>7
  <2> QED
    BY <2>3, <2>8, <2>9, PagePosts
<1> QED
  BY <1>3, <1>9, <1>10

(* What the worker does to a download when it takes m, and what it does    *)
(* without a message.                                                      *)
Same(id) == Usable(id) /\ streams'[id].offset = streams[id].offset /\ body'[id].data = body[id].data
Closed(id) == id \in DOMAIN body /\ body[id].state = "closed"
Handles(id, m) ==
    /\ Usable(id)' =>
          \/ m.type = "metadata" /\ m.id = id /\ streams'[id].offset = 0 /\ body'[id].data = <<>>
          \/ /\ Usable(id) /\ m.type = "data" /\ m.id = id /\ m.offset = streams[id].offset
             /\ streams'[id].offset = m.offset + 1 /\ body'[id].data = Append(body[id].data, m.data)
          \/ Same(id) /\ ~(m.type = "data" /\ m.id = id)
    /\ Closed(id)' => /\ body'[id].data = body[id].data
                      /\ Closed(id) \/ (Usable(id) /\ m.type = "end" /\ m.id = id)
Leaves(id) ==
    /\ Usable(id)' => Same(id)
    /\ Closed(id)' => body'[id].data = body[id].data /\ Closed(id)

LEMMA MessageHandled ==
    ASSUME TypeOK, WorkerInv, OnMessage, NEW id
    PROVE  Handles(id, post[1])
<1>1. /\ DOMAIN streams \subseteq Nat /\ streams \in [DOMAIN streams -> Stream]
      /\ DOMAIN body \subseteq Nat /\ body \in [DOMAIN body -> Body(Message)]
      /\ post # <<>> /\ post' = Tail(post)
  BY DEF TypeOK, WorkerTypeOK, OnMessage
<1>2. 1 \in DOMAIN post /\ Head(post) = post[1] /\ post[1] \in Post(Message)
  BY <1>1, PostTail
<1>3. PICK m \in Post(Message) : m = post[1]
  BY <1>2
<1> SUFFICES Handles(id, m)
  BY <1>3
<1>4. PICK d : d = m.id
  OBVIOUS
<1>5. Usable(d) => /\ d \in DOMAIN streams /\ d \in DOMAIN body
                   /\ streams[d] \in Stream /\ body[d] \in Body(Message)
  BY <1>1 DEF Usable, WorkerInv, EntryInv
<1>6. ASSUME UNCHANGED <<streams, body>>, m.type = "data" => ~(Usable(d) /\ id = d) PROVE Handles(id, m)
  BY <1>4, <1>6 DEF Handles, Usable, Same, Closed
<1>7. CASE m.type = "metadata" /\ OnMetadata(m)
  <2>1. DOMAIN body' = DOMAIN body \cup {d} /\ DOMAIN streams' = DOMAIN streams \cup {d}
    BY <1>4, <1>7 DEF OnMetadata, Put
  <2>2. CASE id = d
    BY <2>2, <1>4, <1>7 DEF OnMetadata, Put, NewStream, Handles, Usable, Closed
  <2>3. CASE id # d
    <3>1. /\ id \in DOMAIN body' => id \in DOMAIN body /\ body'[id] = body[id]
          /\ id \in DOMAIN streams' => id \in DOMAIN streams /\ streams'[id] = streams[id]
      BY <2>1, <2>3, <1>4, <1>7 DEF OnMetadata, Put
    <3>2. Usable(id)' => id \in DOMAIN body'
      <4>1. id \in DOMAIN streams /\ streams[id].kind = "stream" => id \in DOMAIN body
        BY DEF WorkerInv, EntryInv
      <4> QED
        BY <2>1, <3>1, <4>1 DEF Usable
    <3> QED
      BY <2>3, <3>1, <3>2, <1>4, <1>7 DEF Handles, Usable, Same, Closed
  <2> QED
    BY <2>2, <2>3
<1>8. CASE m.type = "data" /\ OnData(m)
  <2>1. CASE /\ Usable(d) /\ streams[d].offset = m.offset
             /\ body' = [body EXCEPT ![d].data = Append(@, m.data)]
             /\ streams' = [streams EXCEPT ![d].offset = @ + 1]
    <3>1. /\ DOMAIN body' = DOMAIN body /\ DOMAIN streams' = DOMAIN streams
          /\ body'[d].data = Append(body[d].data, m.data) /\ body'[d].state = body[d].state
          /\ streams'[d].offset = m.offset + 1
      BY <2>1, <1>5 DEF Body, Stream
    <3>2. /\ id # d /\ id \in DOMAIN body => body'[id] = body[id]
          /\ id # d /\ id \in DOMAIN streams => streams'[id] = streams[id]
      BY <2>1, <1>5
    <3>3. CASE id = d
      BY <2>1, <3>1, <3>3, <1>4, <1>8 DEF Handles, Usable, Closed
    <3>4. CASE id # d
      <4>1. id \in DOMAIN streams /\ streams[id].kind = "stream" => id \in DOMAIN body
        BY DEF WorkerInv, EntryInv
      <4> QED
        BY <3>1, <3>2, <3>4, <4>1, <1>4, <1>8 DEF Handles, Usable, Same, Closed
    <3> QED
      BY <3>3, <3>4
  <2>2. CASE UNCHANGED <<streams, body>> /\ ~Usable(d)
    BY <2>2, <1>6
  <2>3. CASE streams' = Delete(streams, d) /\ UNCHANGED body
    <3>1. DOMAIN streams' = DOMAIN streams \ {d} /\ \A x \in DOMAIN streams' : streams'[x] = streams[x]
      BY <2>3 DEF Delete, Restrict
    <3> QED
      BY <2>3, <3>1, <1>4, <1>8 DEF Handles, Usable, Same, Closed
  <2>4. Usable(d) => d \in DOMAIN streams
    BY <1>5
  <2> QED
    BY <2>1, <2>2, <2>3, <2>4, <1>4, <1>8 DEF OnData
<1>9. ASSUME m.type \in {"end", "error"}, Usable(d), NEW st \in {"closed", "errored"},
             st = "closed" => m.type = "end",
             body' = [body EXCEPT ![d].state = st],
             \/ streams' = streams
             \/ streams' = Delete(streams, d)
             \/ streams' = [streams EXCEPT ![d].streamHandled = TRUE]
      PROVE  Handles(id, m)
  <2>1. /\ DOMAIN body' = DOMAIN body /\ body'[d].state = st /\ body'[d].data = body[d].data
        /\ \A x \in DOMAIN body : x # d => body'[x] = body[x]
    BY <1>5, <1>9 DEF Body
  <2>2. /\ DOMAIN streams' \subseteq DOMAIN streams
        /\ \A x \in DOMAIN streams' : x # d => streams'[x] = streams[x]
    BY <1>1, <1>5, <1>9 DEF Delete, Restrict
  <2>3. CASE id = d
    BY <2>1, <2>3, <1>4, <1>9 DEF Handles, Usable, Same, Closed
  <2>4. CASE id # d
    <3>1. id \in DOMAIN streams /\ streams[id].kind = "stream" => id \in DOMAIN body
      BY DEF WorkerInv, EntryInv
    <3> QED
      BY <2>1, <2>2, <2>4, <3>1, <1>4, <1>9 DEF Handles, Usable, Same, Closed
  <2> QED
    BY <2>3, <2>4
<1>10. CASE m.type = "end" /\ OnEnd(m)
  BY <1>4, <1>6, <1>9, <1>10 DEF OnEnd
<1>11. CASE m.type = "error" /\ OnError(m)
  BY <1>4, <1>6, <1>9, <1>11 DEF OnError
<1>12. \/ m.type = "metadata" /\ OnMetadata(m)
       \/ m.type = "data" /\ OnData(m)
       \/ m.type = "end" /\ OnEnd(m)
       \/ m.type = "error" /\ OnError(m)
  BY <1>2, <1>3 DEF OnMessage
<1> QED
  BY <1>3, <1>7, <1>8, <1>10, <1>11, <1>12

LEMMA OthersLeave ==
    ASSUME TypeOK, WorkerInv, (\E d \in nav : StreamDownload(d)) \/ StopWorker, NEW id
    PROVE  Leaves(id) /\ DOMAIN body' = DOMAIN body /\ post' = post
<1>1. streams \in [DOMAIN streams -> Stream] /\ body \in [DOMAIN body -> Body(Message)]
  BY DEF TypeOK, WorkerTypeOK
<1>2. ASSUME NEW d \in nav, StreamDownload(d) PROVE Leaves(id) /\ DOMAIN body' = DOMAIN body /\ post' = post
  <2>1. body' = body /\ post' = post
    BY <1>2 DEF StreamDownload
  <2>2. CASE streams' = Delete(streams, d)
    <3>1. DOMAIN streams' = DOMAIN streams \ {d} /\ \A x \in DOMAIN streams' : streams'[x] = streams[x]
      BY <2>2 DEF Delete, Restrict
    <3> QED
      BY <2>1, <3>1 DEF Leaves, Usable, Same, Closed
  <2>3. CASE d \in DOMAIN streams /\ streams' = [streams EXCEPT ![d].requestHandled = TRUE]
    <3>1. /\ DOMAIN streams' = DOMAIN streams
          /\ \A x \in DOMAIN streams : /\ streams'[x].kind = streams[x].kind
                                        /\ streams'[x].offset = streams[x].offset
      BY <2>3, <1>1 DEF Stream
    <3> QED
      BY <2>1, <3>1 DEF Leaves, Usable, Same, Closed
  <2>4. CASE streams' = Put(streams, d, Placeholder)
    <3>1. /\ DOMAIN streams' = DOMAIN streams \cup {d} /\ streams'[d].kind = "placeholder"
          /\ \A x \in DOMAIN streams : x # d => streams'[x] = streams[x]
      BY <2>4 DEF Put, Placeholder, NewStream
    <3> QED
      BY <2>1, <3>1 DEF Leaves, Usable, Same, Closed
  <2> QED
    BY <2>1, <2>2, <2>3, <2>4, <1>2 DEF StreamDownload
<1>3. CASE StopWorker
  <2>1. DOMAIN streams' = {} /\ DOMAIN body' = DOMAIN body /\ post' = post
    BY <1>3 DEF StopWorker
  <2>2. ASSUME Closed(id)' PROVE body'[id].data = body[id].data /\ Closed(id)
    <3>1. id \in DOMAIN body /\ body[id] \in Body(Message)
      BY <2>1, <2>2, <1>1 DEF Closed
    <3>2. [body[id] EXCEPT !.state = "errored"].state = "errored"
      BY <3>1 DEF Body
    <3>3. body'[id] = body[id]
      BY <2>2, <3>1, <3>2, <1>3 DEF StopWorker, Closed
    <3> QED
      BY <2>2, <3>1, <3>3 DEF Closed
  <2> QED
    BY <2>1, <2>2 DEF Leaves, Usable
<1> QED
  BY <1>2, <1>3

LEMMA PostedLeft ==
    ASSUME NEW id, Leaves(id), post' = post, NEW n, NEW j, Posted(id, n, j)
    PROVE  Posted(id, n, j)'
<1>1. \A k, o : DataAt(k, id, o)' = DataAt(k, id, o)
  BY DEF DataAt
<1> QED
  BY <1>1 DEF Posted, Leaves, Same

LEMMA PostedTaken ==
    ASSUME TypeOK, WorkerInv, OnMessage, NEW id, NEW n \in Nat, NEW j \in Nat, Posted(id, n, j + 1), j > 0
    PROVE  Posted(id, n, j)'
<1>1. /\ post # <<>> /\ post' = Tail(post) /\ Handles(id, post[1])
  BY MessageHandled DEF OnMessage
<1>2. /\ 1 \in DOMAIN post /\ DOMAIN post \subseteq Nat /\ DOMAIN post' \subseteq Nat
      /\ \A i \in DOMAIN post' : i + 1 \in DOMAIN post /\ post'[i] = post[i + 1]
      /\ \A i \in DOMAIN post : i # 1 => i - 1 \in DOMAIN post' /\ post[i] = post'[i - 1]
  <2>1. post \in Seq(Post(Message)) /\ post' \in Seq(Post(Message))
    BY <1>1, PostTail DEF TypeOK, WorkerTypeOK
  <2>2. DOMAIN post \subseteq Nat /\ DOMAIN post' \subseteq Nat
    BY <2>1
  <2> QED
    BY <2>2, <1>1, PostTail
<1>3. ASSUME NEW k \in DOMAIN post, NEW o, DataAt(k, id, o), k # 1
      PROVE  k - 1 \in DOMAIN post' /\ DataAt(k - 1, id, o)'
  BY <1>2, <1>3 DEF DataAt
<1>4. ASSUME Usable(id)', NEW o \in streams'[id].offset..(n - 1)
      PROVE  \E k \in DOMAIN post' : k < j /\ DataAt(k, id, o)'
  <2>1. CASE post[1].type = "metadata" /\ post[1].id = id /\ streams'[id].offset = 0
    <3>1. o \in 0..(n - 1) /\ 1 < j + 1
      BY <2>1, <1>4
    <3>2. PICK k \in DOMAIN post : 1 < k /\ k < j + 1 /\ DataAt(k, id, o)
      BY <2>1, <3>1, <1>2 DEF Posted
    <3>3. k - 1 \in DOMAIN post' /\ k - 1 < j /\ DataAt(k - 1, id, o)'
      BY <3>2, <1>2, <1>3
    <3> QED
      BY <3>3
  <2>2. CASE /\ Usable(id) /\ streams[id].offset \in Nat
             /\ \/ post[1].offset = streams[id].offset /\ streams'[id].offset = streams[id].offset + 1
                \/ streams'[id].offset = streams[id].offset /\ ~(post[1].type = "data" /\ post[1].id = id)
    <3>1. o \in streams[id].offset..(n - 1)
      BY <2>2, <1>4
    <3>2. PICK k \in DOMAIN post : k < j + 1 /\ DataAt(k, id, o)
      BY <2>2, <3>1 DEF Posted
    <3>3. k # 1
      <4>1. o \in Int /\ o >= streams'[id].offset
        BY <2>2, <1>4
      <4> QED
        BY <2>2, <3>2, <4>1 DEF DataAt
    <3>4. k - 1 \in DOMAIN post' /\ k - 1 < j /\ DataAt(k - 1, id, o)'
      BY <3>2, <3>3, <1>2, <1>3
    <3> QED
      BY <3>4
  <2>3. Usable(id) => streams[id].offset \in Nat
    <3>1. streams \in [DOMAIN streams -> Stream]
      BY DEF TypeOK, WorkerTypeOK
    <3> QED
      BY <3>1 DEF Usable, Stream
  <2> QED
    BY <2>1, <2>2, <2>3, <1>1, <1>4 DEF Handles, Same
<1>5. ASSUME NEW i \in DOMAIN post', post'[i].type = "metadata", post'[i].id = id, i < j,
             NEW o \in 0..(n - 1)
      PROVE  \E k \in DOMAIN post' : i < k /\ k < j /\ DataAt(k, id, o)'
  <2>1. i \in Nat /\ i + 1 \in DOMAIN post /\ post[i + 1] = post'[i] /\ i + 1 < j + 1
    BY <1>2, <1>5
  <2>2. PICK k \in DOMAIN post : i + 1 < k /\ k < j + 1 /\ DataAt(k, id, o)
    BY <2>1, <1>5 DEF Posted
  <2>3. k - 1 \in DOMAIN post' /\ i < k - 1 /\ k - 1 < j /\ DataAt(k - 1, id, o)'
    <3>1. k \in Nat /\ k # 1
      BY <2>1, <2>2, <1>2
    <3> QED
      BY <2>1, <2>2, <3>1, <1>3
  <2> QED
    BY <2>3
<1> QED
  BY <1>4, <1>5 DEF Posted

LEMMA DownloadTyped ==
    ASSUME TypeOK, NEW id \in DOMAIN downloads
    PROVE  downloads[id] \in Item /\ batch[downloads[id]].size \in Nat
<1>1. downloads \in Seq(Item)
  BY DEF TypeOK
<1>2. downloads[id] \in Item
  BY <1>1
<1> QED
  BY <1>2, Scenario

(* The worker: what it has of a download is its beginning, and at the end  *)
(* all of it.                                                              *)
LEMMA BodyHandled ==
    ASSUME TypeOK, WorkerInv, DataInv, OnMessage, UNCHANGED <<kind, downloads>>,
           NEW id \in DOMAIN downloads
    PROVE  id \in DOMAIN body' => BodyInv(id)'
<1> SUFFICES ASSUME id \in DOMAIN body' PROVE BodyInv(id)'
  OBVIOUS
<1>1. /\ batch' = batch /\ \A i, f, n : Chunks(i, f, n)' = Chunks(i, f, n)
      /\ \A i : Content(i)' = Content(i)
  BY DEF batch, Chunks, Content
<1>2. PICK i \in Item, z \in Nat : i = downloads[id] /\ z = batch[i].size
  BY DownloadTyped
<1>3. 1 \in DOMAIN post /\ Handles(id, post[1]) /\ PlaceInv(1)
  <2>1. post # <<>> /\ post' = Tail(post)
    BY DEF OnMessage
  <2> QED
    BY <2>1, PostTail, MessageHandled DEF DataInv
<1>4. Usable(id) => /\ id \in DOMAIN body /\ streams[id].offset \in Nat
                    /\ body[id].data = Chunks(i, 0, streams[id].offset) /\ streams[id].offset <= z
  <2>1. streams \in [DOMAIN streams -> Stream]
    BY DEF TypeOK, WorkerTypeOK
  <2>2. Usable(id) => id \in DOMAIN body /\ streams[id].offset \in Nat
    BY <2>1 DEF Usable, Stream, WorkerInv, EntryInv
  <2> QED
    BY <2>2, <1>2 DEF DataInv, BodyInv
<1>5. ASSUME Usable(id)'
      PROVE  body'[id].data = Chunks(i, 0, streams'[id].offset) /\ streams'[id].offset <= z
  <2>1. CASE streams'[id].offset = 0 /\ body'[id].data = <<>>
    BY <2>1, <1>2 DEF Chunks
  <2>2. CASE /\ Usable(id) /\ post[1].type = "data" /\ post[1].id = id /\ post[1].offset = streams[id].offset
             /\ streams'[id].offset = post[1].offset + 1
             /\ body'[id].data = Append(body[id].data, post[1].data)
    <3>1. PICK n \in Nat : n = streams[id].offset
      BY <2>2, <1>4
    <3>2. post[1].data = [item |-> i, part |-> n + 1] /\ n < z
      BY <2>2, <3>1, <1>2, <1>3 DEF PlaceInv
    <3>3. Append(body[id].data, post[1].data) = Chunks(i, 0, n + 1)
      BY <2>2, <3>1, <3>2, <1>4, NextChunk
    <3> QED
      BY <2>2, <3>1, <3>2, <3>3
  <2>3. CASE Same(id)
    BY <2>3, <1>4 DEF Same
  <2> QED
    BY <2>1, <2>2, <2>3, <1>3, <1>5 DEF Handles
<1>6. ASSUME body'[id].state = "closed" PROVE body'[id].data = Content(i)
  <2>1. /\ body'[id].data = body[id].data
        /\ Closed(id) \/ (Usable(id) /\ post[1].type = "end" /\ post[1].id = id)
    BY <1>3, <1>6 DEF Handles, Closed
  <2>2. CASE Closed(id)
    BY <2>1, <2>2, <1>2 DEF DataInv, BodyInv, Closed
  <2>3. CASE Usable(id) /\ post[1].type = "end" /\ post[1].id = id
    <3>1. Posted(id, z, 1)
      BY <2>3, <1>2, <1>3 DEF PlaceInv
    <3>2. PICK n \in Nat : n = streams[id].offset /\ n <= z
      BY <2>3, <1>4
    <3>3. DOMAIN post \subseteq Nat \ {0}
      <4>1. post \in Seq(Post(Message))
        BY DEF TypeOK, WorkerTypeOK
      <4> QED
        BY <4>1
    <3>4. ~(n <= z - 1)
      <4>1. SUFFICES ASSUME n \in n..(z - 1) PROVE FALSE
        BY <3>2
      <4>2. PICK k \in DOMAIN post : k < 1
        BY <2>3, <3>1, <3>2, <4>1 DEF Posted
      <4> QED
        BY <3>3, <4>2
    <3>5. n = z
      BY <3>2, <3>4
    <3> QED
      BY <2>1, <2>3, <3>2, <3>5, <1>2, <1>4 DEF Content
  <2> QED
    BY <2>1, <2>2, <2>3
<1> QED
  BY <1>1, <1>2, <1>5, <1>6 DEF BodyInv

LEMMA WorkerDataStep ==
    ASSUME TypeOK, WorkerInv, WorkerInv', DataInv, Worker
    PROVE  DataInv'
<1>1. /\ UNCHANGED <<kind, downloads, receiving>> /\ batch' = batch /\ Via' = Via
      /\ \A i, f, n : Chunks(i, f, n)' = Chunks(i, f, n)
      /\ \A i : Content(i)' = Content(i)
  BY Kept DEF Worker, receiveVars, Chunks, Content, batch
<1>2. CASE OnMessage
  <2>1. post # <<>> /\ post' = Tail(post)
    BY <1>2 DEF OnMessage
  <2>2. /\ Len(post') = Len(post) - 1 /\ Len(post) \in Nat \ {0} /\ DOMAIN post' \subseteq Nat \ {0}
        /\ \A i \in DOMAIN post' : i + 1 \in DOMAIN post /\ post'[i] = post[i + 1]
    <3>1. post \in Seq(Post(Message)) /\ post' \in Seq(Post(Message))
      BY <2>1, PostTail DEF TypeOK, WorkerTypeOK
    <3>2. Len(post) \in Nat \ {0} /\ DOMAIN post' \subseteq Nat \ {0}
      BY <2>1, <3>1
    <3> QED
      BY <2>1, <3>2, PostTail
  <2>3. ASSUME NEW id \in DOMAIN body' PROVE BodyInv(id)'
    <3>1. id \in DOMAIN downloads
      BY <2>3, <1>1 DEF WorkerInv
    <3> QED
      BY <2>3, <3>1, <1>1, <1>2, BodyHandled
  <2>4. ASSUME NEW i \in DOMAIN post' PROVE PlaceInv(i)'
    <3>1. i + 1 \in DOMAIN post /\ post'[i] = post[i + 1] /\ PlaceInv(i + 1) /\ i \in Nat /\ i > 0
      BY <2>2, <2>4 DEF DataInv
    <3>2. PICK d \in DOMAIN downloads, n \in Nat : d = post[i + 1].id /\ n = batch[downloads[d]].size
      BY <3>1, DownloadTyped DEF WorkerInv
    <3>3. post[i + 1].type = "end" => Posted(d, n, i)'
      BY <3>1, <3>2, <1>2, PostedTaken DEF PlaceInv
    <3> QED
      BY <3>1, <3>2, <3>3, <1>1 DEF PlaceInv
  <2>5. PageInv'
    <3> SUFFICES ASSUME Via, receiving.item # 0
                 PROVE  Posted(receiving.id, Len(receiving.data), Len(post) + 1)'
      BY <1>1 DEF PageInv
    <3>0. PICK id : id = receiving.id
      OBVIOUS
    <3>1. PICK n \in Nat, l \in Nat : n = Len(receiving.data) /\ l = Len(post)
      BY <2>2, PlaceTyped
    <3>2. Posted(id, n, l + 1) /\ l > 0 /\ Len(post') + 1 = l
      BY <2>2, <3>0, <3>1 DEF DataInv, PageInv
    <3>3. Posted(id, n, l)'
      BY <3>2, <1>2, PostedTaken
    <3> QED
      BY <3>0, <3>1, <3>2, <3>3, <1>1
  <2> QED
    BY <2>3, <2>4, <2>5 DEF DataInv
<1>3. CASE (\E d \in nav : StreamDownload(d)) \/ StopWorker
  <2>1. /\ \A id : Leaves(id)
        /\ DOMAIN body' = DOMAIN body /\ post' = post
    BY <1>3, OthersLeave
  <2>2. \A id, n, j : Posted(id, n, j) => Posted(id, n, j)'
    BY <2>1, PostedLeft
  <2>3. PageInv'
    BY <2>1, <2>2, <1>1 DEF DataInv, PageInv
  <2>4. ASSUME NEW i \in DOMAIN post' PROVE PlaceInv(i)'
    BY <2>1, <2>2, <2>4, <1>1 DEF DataInv, PlaceInv
  <2>5. ASSUME NEW id \in DOMAIN body' PROVE BodyInv(id)'
    <3>1. id \in DOMAIN body /\ BodyInv(id) /\ Leaves(id)
      BY <2>1, <2>5 DEF DataInv
    <3> QED
      BY <2>5, <3>1, <1>1 DEF BodyInv, Leaves, Same, Closed
  <2> QED
    BY <2>3, <2>4, <2>5 DEF DataInv
<1>4. WorkerNext
  BY DEF Worker
<1> QED
  BY <1>2, <1>3, <1>4 DEF WorkerNext

(* Every step, while no page has gone on with a file on an old connection. *)
LEMMA DataStep ==
    ASSUME TypeOK, LinkInv, UploadInv, \A c \in Conn : WayInv(c), WorkerInv, ReceiveInv, DataInv,
           [Next]_vars, ~late'
    PROVE  DataInv'
<1>1. kind' = kind /\ Via' = Via /\ batch' = batch /\ WorkerInv'
  BY KindKept, Kept, StepTyped
<1>2. CASE Worker
  BY <1>1, <1>2, WorkerDataStep
<1>3. ASSUME UNCHANGED <<streams, body, post, downloads>>, Via => UNCHANGED receiving PROVE DataInv'
  <2>1. /\ \A id, n, j : Posted(id, n, j)' = Posted(id, n, j)
        /\ \A id : Usable(id)' = Usable(id)
    BY <1>3 DEF Posted, DataAt, Usable
  <2>2. \A i \in DOMAIN post : PlaceInv(i)'
    BY <2>1, <1>1, <1>3 DEF DataInv, PlaceInv
  <2>3. \A id \in DOMAIN body : BodyInv(id)'
    BY <2>1, <1>1, <1>3 DEF DataInv, BodyInv, Content, Chunks
  <2>4. PageInv'
    BY <2>1, <1>1, <1>3 DEF DataInv, PageInv
  <2> QED
    BY <2>2, <2>3, <2>4, <1>3 DEF DataInv
<1>4. CASE GoReceive /\ UNCHANGED <<streams, body, post, downloads>>
  BY <1>3, <1>4 DEF GoReceive, Page, Via
<1>5. ASSUME NEW p \in Side, NEW c \in Conn, Disconnected(p, c) PROVE DataInv'
  <2>1. UNCHANGED <<streams, body, downloads>>
    BY <1>5 DEF Disconnected
  <2>2. CASE UNCHANGED <<receiving, post>>
    BY <2>1, <2>2, <1>3
  <2>3. CASE receiving' = Nothing /\ post' = post \o ErrorPost
    BY <2>1, <2>3, <1>1, PageCancels DEF Nothing
  <2> QED
    BY <2>2, <2>3, <1>5 DEF Disconnected, ForgetReceiving
<1>6. ASSUME NEW c \in Conn, PageReceive(c) PROVE DataInv'
  <2>1. UNCHANGED <<streams, body>> /\ (datachannel["r"] = c \/ receiving' = receiving) /\ Page("r")
    BY <1>6 DEF PageReceive
  <2>2. PICK m \in Message : m = Head(net[c]) /\ Takes(c, m) /\ Live(c) /\ Live(c)'
    BY <1>6, PageTakes
  <2>3. CASE receiving.item # 0
    <3>1. TakeChunk(m)
      BY <2>2, <2>3, <1>6 DEF PageReceive
    <3>2. CASE UNCHANGED downloads /\ post' = post \o ErrorPost /\ UNCHANGED receiving
      BY <2>1, <3>2, <1>1, PageCancels
    <3>3. CASE ~Via /\ UNCHANGED <<downloads, post>>
      BY <2>1, <3>3, <1>3
    <3>4. ASSUME Via, Within, UNCHANGED downloads,
                 \/ /\ post' = post \o <<ChunkPost(m)>>
                    /\ receiving' = [receiving EXCEPT !.data = Append(receiving.data, m)]
                 \/ /\ post' = post \o <<ChunkPost(m), EndPost>> /\ receiving' = Nothing
                    /\ Len(receiving.data) + 1 = batch[receiving.item].size
          PROVE  DataInv'
      <4>1. receiving' # receiving
        <5>1. receiving \in [item: 0..Len(batch), data: Seq(Message), id: Nat]
          BY DEF TypeOK
        <5>2. Append(receiving.data, m) # receiving.data
          BY <5>1
        <5> QED
          BY <2>3, <3>4, <5>1, <5>2 DEF Nothing
      <4>2. Feeds(c) /\ FeedInv(c)
        BY <2>1, <4>1 DEF Feeds, ReceiveInv
      <4>3. m = [item |-> receiving.item, part |-> Len(receiving.data) + 1]
        BY <2>2, <3>4, <4>2, TakenNext
      <4> QED
        BY <2>1, <3>4, <4>3, <1>1, PageGoesOn
    <3> QED
      BY <2>3, <3>1, <3>2, <3>3, <3>4, TakeChunkCases
  <2>4. CASE receiving.item = 0
    <3>1. TakeHeader(m)
      BY <2>2, <2>4, <1>6 DEF PageReceive
    <3>2. CASE UNCHANGED <<downloads, post>> /\ (Via => UNCHANGED receiving)
      BY <2>1, <3>2, <1>3
    <3>3. CASE /\ receiving' = [item |-> m.item, data |-> <<>>, id |-> Len(downloads) + 1]
               /\ post' = Append(post, [type |-> "metadata", id |-> Len(downloads) + 1])
               /\ downloads' = Append(downloads, m.item)
      <4>1. PICK id \in Nat : id = Len(downloads) + 1
        <5>1. downloads \in Seq(Item)
          BY DEF TypeOK
        <5>2. Len(downloads) + 1 \in Nat
          BY <5>1
        <5> QED
          BY <5>2
      <4> QED
        BY <2>1, <3>3, <4>1, <1>1, PageBegins
    <3> QED
      BY <3>1, <3>2, <3>3 DEF TakeHeader
  <2> QED
    BY <2>3, <2>4
<1> QED
  BY <1>2, <1>3, <1>4, <1>5, <1>6, WorkerKept

-----------------------------------------------------------------------------
LEMMA FileStarts == Init => FileInv
<1> SUFFICES ASSUME Init PROVE FileInv
  OBVIOUS
<1>1. TypeOK /\ WorkerInv
  BY StartsTyped
<1>2. /\ \A c \in Conn : link[c] = "none" /\ opened[c] = {} /\ buf[c] = <<>> /\ net[c] = <<>>
      /\ \A p \in Side : datachannel[p] = 0
      /\ uploads = {} /\ receiving.item = 0 /\ saved = {}
      /\ DOMAIN post = {} /\ DOMAIN body = {} /\ ~late /\ GoConn \in Conn
  BY <1>1, Scenario DEF Init, WorkerInit, Nothing
<1>3. LinkInv
  <2>1. \A c \in Conn : EmptyInv(c) /\ ClosedInv(c)
    BY <1>2 DEF EmptyInv, ClosedInv
  <2>2. ASSUME NEW p \in Side PROVE ChannelInv(p) /\ \A c \in Conn : PendingInv(p, c)
    BY <1>2 DEF ChannelInv, PendingInv, Live
  <2> QED
    BY <2>1, <2>2 DEF LinkInv
<1>4. UploadInv /\ \A c \in Conn : WayInv(c)
  BY <1>2 DEF UploadInv, WayInv, Live
<1>5. ReceiveInv
  BY <1>2 DEF ReceiveInv, CurrentInv, SavedInv, FeedInv, Within
<1>6. DataInv
  BY <1>2 DEF DataInv, PageInv
<1> QED
  BY <1>1, <1>3, <1>4, <1>5, <1>6 DEF FileInv

LEMMA LateStays ==
    ASSUME late, [Next]_vars
    PROVE  late'
BY DEF Next, vars, AddUpload, GoWrite, GoWait, Flushed, GoClose, GoSendFatal, GoReceive,
         GoReceiveEOF, Worker, FinishUpload, WriteChunks, Dial, Open, Disconnected, Drain,
         LoseLink, NewConnection, PageReceive, receiveVars

LEMMA FileSteps ==
    ASSUME TypeOK, FileInv, [Next]_vars
    PROVE  TypeOK' /\ FileInv'
<1>1. TypeOK' /\ WorkerInv'
  BY StepTyped DEF FileInv
<1>2. LinkInv' /\ UploadInv'
  BY LinkStep, UploadStep DEF FileInv
<1>3. \A c \in Conn : WayInv(c)'
  BY WayStep DEF FileInv
<1>4. CASE late'
  BY <1>1, <1>2, <1>3, <1>4 DEF FileInv
<1>5. CASE ~late'
  <2>1. ReceiveInv /\ DataInv
    BY <1>5, LateStays DEF FileInv
  <2>2. ReceiveInv' /\ DataInv'
    BY <2>1, <1>5, ReceiveStep, DataStep DEF FileInv
  <2> QED
    BY <2>2, <1>1, <1>2, <1>3 DEF FileInv
<1> QED
  BY <1>4, <1>5

(* main.ts, file.go, sw.ts: every file that is presented as complete is    *)
(* the one that was sent, every chunk in its place, for any number of      *)
(* uploads, connections, losses of a connection and stops of the worker,   *)
(* as long as no page has begun or gone on with a file on a connection     *)
(* that is no longer its datachannel.                                      *)
THEOREM WholeFilesHolds == Spec => []WholeFiles
<1>1. TypeOK /\ FileInv /\ [Next]_vars => TypeOK' /\ FileInv'
  BY FileSteps
<1>2. TypeOK /\ FileInv => WholeFiles
  <2> SUFFICES ASSUME TypeOK, FileInv, ~late, NEW f \in Received PROVE f.data = Content(f.item)
    BY DEF WholeFiles
  <2>1. CASE f \in saved
    BY <2>1 DEF FileInv, ReceiveInv, SavedInv
  <2>2. ASSUME NEW id \in DOMAIN downloads, Downloaded(id), f = [item |-> downloads[id], data |-> body[id].data]
        PROVE  f.data = Content(f.item)
    <3>1. id \in DOMAIN body /\ body[id].state = "closed"
      BY <2>2 DEF Downloaded, TypeOK, WorkerTypeOK
    <3>2. body[id].data = Content(downloads[id])
      BY <3>1 DEF FileInv, DataInv, BodyInv
    <3> QED
      BY <2>2, <3>2
  <2> QED
    BY <2>1, <2>2 DEF Received
<1> QED
  BY <1>1, <1>2, StartsTyped, FileStarts, PTL DEF Spec
-----------------------------------------------------------------------------
(* ww send and ww receive: what one writes is counted off by the other.    *)

(* What a step between the two does, as long as nothing ends.              *)
Waits == UNCHANGED <<receiving, saved>> /\ gosend'.written = gosend.written /\ Way(GoConn)' = Way(GoConn)
Writes ==
    /\ UNCHANGED <<receiving, saved>> /\ gosend.written < Len(Messages)
    /\ gosend'.written = gosend.written + 1
    /\ Way(GoConn)' = Append(Way(GoConn), Messages[gosend.written + 1])
LEMMA GoSteps ==
    ASSUME TypeOK, UploadInv, [Next]_vars, ~Page("s"), ~Page("r"),
           link'[GoConn] # "lost", goreceive' = "read"
    PROVE  Waits \/ Writes \/ (GoReceive /\ net' = [net EXCEPT ![GoConn] = Tail(net[GoConn])])
<1>1. /\ net \in [Conn -> Seq(Message)] /\ buf \in [Conn -> Seq(Message)] /\ GoConn \in Conn
      /\ link \in [Conn -> {"none", "open", "closed", "lost"}]
      /\ gosend \in [at: {"write", "held", "waiting", "exit"}, written: 0..Len(Messages)]
      /\ uploads = {} /\ \A p \in Side : ~Page(p)
  BY Scenario DEF TypeOK, UploadInv, Side
<1>2. ASSUME UNCHANGED <<buf, net, receiving, saved>>, gosend'.written = gosend.written PROVE Waits
  BY <1>2 DEF Waits, Way
<1>3. CASE GoWrite
  <2>1. UNCHANGED <<net, receiving, saved>> /\ gosend.written < Len(Messages)
    BY <1>3 DEF GoWrite, receiveVars
  <2>2. CASE gosend' = [gosend EXCEPT !.at = "held"] /\ UNCHANGED buf
    <3>1. gosend'.written = gosend.written
      BY <2>2, <1>1
    <3> QED
      BY <2>1, <2>2, <3>1, <1>2
  <2>3. CASE /\ gosend' = [gosend EXCEPT !.written = @ + 1]
             /\ buf' = [buf EXCEPT ![GoConn] = Append(@, Messages[gosend.written + 1])]
    <3>1. gosend'.written = gosend.written + 1
      BY <2>3, <1>1
    <3>2. buf'[GoConn] = Append(buf[GoConn], Messages[gosend.written + 1])
      BY <2>3, <1>1
    <3>3. PICK n \in Seq(Message), b \in Seq(Message), m \in Message :
              n = net[GoConn] /\ b = buf[GoConn] /\ m = Messages[gosend.written + 1]
      <4>1. gosend.written \in Nat
        BY <1>1
      <4>2. Messages \in Seq(Message)
        BY MessagesTyped
      <4>3. gosend.written + 1 \in 1..Len(Messages)
        BY <2>1, <4>1, <4>2
      <4>4. Messages[gosend.written + 1] \in Message
        BY <4>2, <4>3
      <4> QED
        BY <4>4, <1>1
    <3>4. n \o Append(b, m) = Append(n \o b, m)
      OBVIOUS
    <3> QED
      BY <2>1, <3>1, <3>2, <3>3, <3>4 DEF Writes, Way
  <2> QED
    BY <2>2, <2>3, <1>3 DEF GoWrite
<1>4. CASE GoWait \/ Flushed
  <2>1. UNCHANGED <<buf, net, receiving, saved>>
    BY <1>4 DEF GoWait, Flushed, receiveVars
  <2>2. gosend'.written = gosend.written
    BY <1>1, <1>4 DEF GoWait, Flushed
  <2> QED
    BY <2>1, <2>2, <1>2
<1>5. CASE GoClose
  <2>1. UNCHANGED <<buf, net, receiving, saved>>
    BY <1>5 DEF GoClose, receiveVars
  <2>2. gosend'.written = gosend.written
    BY <1>1, <1>5 DEF GoClose
  <2> QED
    BY <2>1, <2>2, <1>2
<1>6. ~GoSendFatal
  BY <1>1 DEF GoSendFatal
<1>7. CASE GoReceive
  BY <1>7 DEF GoReceive
<1>8. ~GoReceiveEOF
  BY DEF GoReceiveEOF
<1>9. ASSUME NEW c \in Conn, Drain(c) PROVE Waits
  <2>1. UNCHANGED <<receiving, saved, gosend>>
    BY <1>9 DEF Drain, receiveVars
  <2>2. Way(GoConn)' = Way(GoConn)
    <3>1. CASE c = GoConn
      BY <3>1, <1>1, <1>9, DrainKeeps
    <3>2. CASE c # GoConn
      BY <3>2, <1>1, <1>9 DEF Drain, Way
    <3> QED
      BY <3>1, <3>2
  <2> QED
    BY <2>1, <2>2 DEF Waits
<1>10. ASSUME NEW c \in Conn, LoseLink(c) PROVE Waits
  <2>1. UNCHANGED <<receiving, saved, gosend, buf>>
    BY <1>10 DEF LoseLink, receiveVars, goVars
  <2>2. c # GoConn
    BY <1>1, <1>10 DEF LoseLink
  <2>3. net'[GoConn] = net[GoConn]
    BY <2>2, <1>1, <1>10 DEF LoseLink
  <2> QED
    BY <2>1, <2>3 DEF Waits, Way
<1>11. ASSUME NEW p \in Side, NEW c \in Conn, Open(p, c) PROVE Waits
  <2>1. UNCHANGED <<receiving, saved, gosend, buf, net>>
    BY <1>1, <1>11 DEF Open, receiveVars, goVars
  <2> QED
    BY <2>1, <1>2
<1>12. CASE Worker \/ UNCHANGED vars \/ \E c \in Conn : NewConnection(c)
  <2>1. UNCHANGED <<receiving, saved, gosend, buf, net>>
    BY <1>12 DEF Worker, NewConnection, vars, receiveVars, goVars
  <2> QED
    BY <2>1, <1>2
<1>13. /\ ~AddUpload /\ (\A p \in Side, c \in Conn : ~Disconnected(p, c))
       /\ \A c \in Conn : ~PageReceive(c)
  BY <1>1 DEF AddUpload, Disconnected, PageReceive
<1>14. \A p \in Side : ~Dial(p)
  BY <1>1 DEF Dial
<1> QED
  BY <1>1, <1>3, <1>4, <1>5, <1>6, <1>7, <1>8, <1>9, <1>10, <1>11, <1>12, <1>13, <1>14 DEF Next

LEMMA SavesItem ==
    ASSUME NEW i, NEW d, Complete(i, d)
    PROVE  SavedItems' = SavedItems \cup {i}
<1>1. [item |-> i, data |-> d].item = i
  OBVIOUS
<1> QED
  BY <1>1 DEF SavedItems, Complete

(* ww receive takes message t + 1.                                         *)
LEMMA TakesOne ==
    ASSUME TypeOK, NEW t \in Nat, t < Len(Messages), HasTaken(t), GoReceive,
           Head(net[GoConn]) = Messages[t + 1], goreceive' = "read"
    PROVE  HasTaken(t + 1)'
<1>1. /\ kind' = kind /\ batch' = batch /\ Messages' = Messages /\ Messages \in Seq(Message)
      /\ batch # <<>> /\ WalkTo(batch, Messages, Len(batch))
  <2>1. kind' = kind
    BY DEF GoReceive
  <2>2. Messages \in Seq(Message) /\ Messages # <<>>
    BY MessagesTyped
  <2> QED
    BY <2>1, <2>2, Kept, MessagesTyped
<1>2. PICK m \in Message : m = Messages[t + 1]
  <2>1. t + 1 \in 1..Len(Messages)
    BY <1>1
  <2>2. Messages[t + 1] \in Message
    BY <2>1, <1>1
  <2> QED
    BY <2>2
<1>3. m.item \in Item /\ batch[m.item].size \in Nat /\ m.part \in Nat /\ Item \subseteq Nat \ {0}
  BY Scenario DEF Message, Item
<1>4. /\ t + 1 # 0 /\ Messages'[t + 1] = m /\ Whole(m)' = Whole(m)
  BY <1>1, <1>2 DEF Whole
<1>5. ASSUME NEW j \in Nat, m = Header(j + 1), SavedItems = 1..j, receiving.item = 0
      PROVE  HasTaken(t + 1)'
  <2>1. m.item = j + 1 /\ m.part = 0
    BY <1>5 DEF Header
  <2>2. IF batch[m.item].size = 0 THEN Complete(m.item, <<>>) /\ UNCHANGED receiving
        ELSE receiving' = [item |-> m.item, data |-> <<>>, id |-> 0] /\ UNCHANGED saved
    BY <2>1, <1>2, <1>5 DEF GoReceive
  <2>3. CASE batch[m.item].size = 0
    <3>1. Whole(m) /\ receiving'.item = 0 /\ SavedItems' = 1..j \cup {j + 1}
      BY <2>1, <2>2, <2>3, <1>5, SavesItem DEF Whole
    <3>2. 1..j \cup {j + 1} = 1..(j + 1)
      OBVIOUS
    <3> QED
      BY <2>1, <3>1, <3>2, <1>4 DEF HasTaken
  <2>4. CASE batch[m.item].size # 0
    <3>1. ~Whole(m) /\ receiving'.item = m.item /\ Len(receiving'.data) = 0 /\ SavedItems' = 1..j
      BY <2>1, <2>2, <2>4, <1>5 DEF Whole, SavedItems
    <3>2. (j + 1) - 1 = j
      OBVIOUS
    <3> QED
      BY <2>1, <3>1, <3>2, <1>4 DEF HasTaken
  <2> QED
    BY <2>3, <2>4
<1>6. ASSUME NEW i \in Item, NEW n \in Nat, m = [item |-> i, part |-> n + 1], SavedItems = 1..(i - 1),
             receiving.item = i, Len(receiving.data) = n
      PROVE  HasTaken(t + 1)'
  <2>1. m.item = i /\ m.part = n + 1 /\ i \in Nat \ {0}
    BY <1>3, <1>6
  <2>2. receiving \in [item: 0..Len(batch), data: Seq(Message), id: Nat]
    BY DEF TypeOK
  <2>3. PICK d : d = Append(receiving.data, m) /\ Len(d) = n + 1
    <3>1. PICK r \in Seq(Message) : r = receiving.data
      BY <2>2
    <3>2. Len(Append(r, m)) = Len(r) + 1
      OBVIOUS
    <3> QED
      BY <3>1, <3>2, <1>6
  <2>4. IF Len(d) = batch[i].size
        THEN receiving' = Nothing /\ Complete(i, d)
        ELSE receiving' = [receiving EXCEPT !.data = d] /\ UNCHANGED saved
    BY <2>1, <2>3, <1>2, <1>6 DEF GoReceive
  <2>5. CASE n + 1 = batch[i].size
    <3>1. Whole(m) /\ receiving'.item = 0 /\ SavedItems' = 1..(i - 1) \cup {i}
      BY <2>1, <2>3, <2>4, <2>5, <1>6, SavesItem DEF Whole, Nothing
    <3>2. 1..(i - 1) \cup {i} = 1..i
      BY <2>1
    <3> QED
      BY <2>1, <3>1, <3>2, <1>4 DEF HasTaken
  <2>6. CASE n + 1 # batch[i].size
    <3>1. receiving'.item = i /\ receiving'.data = d
      BY <2>2, <2>3, <2>4, <2>6, <1>6
    <3>2. ~Whole(m) /\ SavedItems' = 1..(i - 1)
      BY <2>1, <2>3, <2>4, <2>6, <1>6 DEF Whole, SavedItems
    <3> QED
      BY <2>1, <2>3, <3>1, <3>2, <1>4 DEF HasTaken
  <2> QED
    BY <2>5, <2>6
<1>7. CASE t = 0
  <2>1. m = Header(0 + 1)
    BY <1>1, <1>2, <1>7 DEF WalkTo
  <2>2. SavedItems = 1..0 /\ receiving.item = 0
    BY <1>7 DEF HasTaken
  <2> QED
    BY <2>1, <2>2, <1>5
<1>8. CASE t # 0
  <2>1. PICK x \in Message : x = Messages[t]
    <3>1. t \in 1..Len(Messages)
      BY <1>1, <1>8
    <3>2. Messages[t] \in Message
      BY <3>1, <1>1
    <3> QED
      BY <3>2
  <2>2. m = After(batch, x)
    <3>1. t \in 1..(Len(Messages) - 1)
      BY <1>1, <1>8
    <3> QED
      BY <2>1, <3>1, <1>1, <1>2 DEF WalkTo
  <2>3. /\ x.item \in Item /\ x.part \in Nat /\ batch[x.item].size \in Nat /\ x.part <= batch[x.item].size
        /\ x.item \in Nat
    BY Scenario, <1>3 DEF Message
  <2>4. CASE Whole(x)
    <3>1. m = Header(x.item + 1)
      BY <2>2, <2>3, <2>4 DEF After, Whole
    <3>2. SavedItems = 1..x.item /\ receiving.item = 0
      BY <2>1, <2>4, <1>8 DEF HasTaken
    <3> QED
      BY <2>3, <3>1, <3>2, <1>5
  <2>5. CASE ~Whole(x)
    <3>1. m = [item |-> x.item, part |-> x.part + 1]
      BY <2>2, <2>3, <2>5 DEF After, Whole
    <3>2. SavedItems = 1..(x.item - 1) /\ receiving.item = x.item /\ Len(receiving.data) = x.part
      BY <2>1, <2>5, <1>8 DEF HasTaken
    <3> QED
      BY <2>3, <3>1, <3>2, <1>6
  <2> QED
    BY <2>4, <2>5
<1> QED
  BY <1>7, <1>8

LEMMA CountStep ==
    ASSUME TypeOK, UploadInv, CountInv, [Next]_vars
    PROVE  CountInv'
<1> SUFFICES ASSUME Going'
             PROVE  (/\ Taken \in Nat /\ HasTaken(Taken)
                     /\ \A k \in 1..Len(Way(GoConn)) : Way(GoConn)[k] = Messages[Taken + k])'
  BY DEF CountInv
<1>1. /\ kind' = kind /\ batch' = batch /\ Messages' = Messages /\ Messages \in Seq(Message)
      /\ Page("s")' = Page("s") /\ Page("r")' = Page("r") /\ ~Page("s") /\ ~Page("r")
      /\ link'[GoConn] # "lost" /\ goreceive' = "read" /\ GoConn \in Conn
  BY KindKept, Kept, MessagesTyped, Scenario DEF Going
<1>2. Going
  <2>1. link[GoConn] # "lost"
    <3>1. link \in [Conn -> {"none", "open", "closed", "lost"}]
      BY DEF TypeOK
    <3> SUFFICES ASSUME link[GoConn] = "lost" PROVE link'[GoConn] = "lost"
      BY <1>1
    <3>2. ASSUME NEW c \in Conn, NewConnection(c) \/ LoseLink(c) PROVE link'[GoConn] = "lost"
      BY <3>1, <3>2, <1>1 DEF NewConnection, LoseLink
    <3> QED
      BY <3>1, <3>2, <1>1, LinkSteps DEF GoClose, GoSendFatal
  <2>2. goreceive = "read"
    BY <1>1 DEF Next, vars, AddUpload, GoWrite, GoWait, Flushed, GoClose, GoSendFatal, GoReceive,
         GoReceiveEOF, Worker, FinishUpload, WriteChunks, Dial, Open, Disconnected, Drain,
         LoseLink, NewConnection, PageReceive, receiveVars
  <2> QED
    BY <2>1, <2>2, <1>1 DEF Going
<1>3. PICK w \in Seq(Message), v \in Seq(Message) : w = Way(GoConn) /\ v = Way(GoConn)'
  <2>1. net[GoConn] \in Seq(Message) /\ buf[GoConn] \in Seq(Message)
    BY <1>1 DEF TypeOK
  <2>2. net'[GoConn] \in Seq(Message) /\ buf'[GoConn] \in Seq(Message)
    BY <1>1, SendersTyped, Kept DEF SendersOK
  <2>3. net[GoConn] \o buf[GoConn] \in Seq(Message) /\ net'[GoConn] \o buf'[GoConn] \in Seq(Message)
    BY <2>1, <2>2
  <2> QED
    BY <2>3 DEF Way
<1>4. PICK t \in Nat, n \in Nat : t = Taken /\ n = gosend.written
  <2>1. gosend \in [at: {"write", "held", "waiting", "exit"}, written: 0..Len(Messages)]
    BY DEF TypeOK
  <2>2. gosend.written \in Nat
    BY <2>1
  <2> QED
    BY <2>2, <1>2 DEF CountInv
<1>5. /\ t = n - Len(w) /\ HasTaken(t) /\ \A k \in 1..Len(w) : w[k] = Messages[t + k]
      /\ n <= Len(Messages)
  <2>1. gosend \in [at: {"write", "held", "waiting", "exit"}, written: 0..Len(Messages)]
    BY DEF TypeOK
  <2>2. gosend.written <= Len(Messages)
    BY <2>1, <1>1
  <2> QED
    BY <2>2, <1>2, <1>3, <1>4 DEF CountInv, Taken
<1>6. ASSUME NEW y \in Nat, Taken' = y, HasTaken(y)', \A k \in 1..Len(v) : v[k] = Messages[y + k]
      PROVE  (/\ Taken \in Nat /\ HasTaken(Taken)
              /\ \A k \in 1..Len(Way(GoConn)) : Way(GoConn)[k] = Messages[Taken + k])'
  BY <1>1, <1>3, <1>6
<1>7. CASE Waits
  <2>1. v = w /\ Taken' = t
    BY <1>3, <1>4, <1>7 DEF Waits, Taken
  <2>2. HasTaken(t)'
    BY <1>1, <1>5, <1>7 DEF Waits, HasTaken, Whole, SavedItems
  <2> QED
    BY <2>1, <2>2, <1>5, <1>6
<1>8. CASE Writes
  <2>1. PICK m \in Message : m = Messages[n + 1]
    <3>1. n + 1 \in 1..Len(Messages)
      BY <1>1, <1>4, <1>8 DEF Writes
    <3>2. Messages[n + 1] \in Message
      BY <3>1, <1>1
    <3> QED
      BY <3>2
  <2>2. v = Append(w, m) /\ gosend'.written = n + 1
    BY <2>1, <1>3, <1>4, <1>8 DEF Writes
  <2>3. PICK l \in Nat : l = Len(w)
    OBVIOUS
  <2>4. Len(v) = l + 1 /\ v[l + 1] = m /\ \A k \in 1..l : v[k] = w[k]
    BY <2>2, <2>3
  <2>5. Taken' = t
    <3>1. Taken' = (n + 1) - (l + 1) /\ t = n - l
      BY <2>2, <2>3, <2>4, <1>3, <1>5 DEF Taken
    <3> QED
      BY <3>1
  <2>6. t + (l + 1) = n + 1
    BY <2>3, <1>5
  <2>7. ASSUME NEW k \in 1..Len(v) PROVE v[k] = Messages[t + k]
    <3>1. CASE k = l + 1
      BY <2>1, <2>4, <2>6, <3>1
    <3>2. CASE k # l + 1
      <4>1. k \in 1..l
        BY <2>4, <2>7, <3>2
      <4> QED
        BY <2>3, <2>4, <4>1, <1>5
    <3> QED
      BY <3>1, <3>2
  <2>8. HasTaken(t)'
    BY <1>1, <1>5, <1>8 DEF Writes, HasTaken, Whole, SavedItems
  <2> QED
    BY <2>5, <2>7, <2>8, <1>6
<1>9. CASE GoReceive /\ net' = [net EXCEPT ![GoConn] = Tail(net[GoConn])]
  <2>1. PICK p \in Seq(Message), b \in Seq(Message) : p = net[GoConn] /\ b = buf[GoConn] /\ p # <<>>
    BY <1>1, <1>9 DEF TypeOK, GoReceive
  <2>2. w = p \o b /\ v = Tail(p) \o b /\ gosend'.written = n
    BY <2>1, <1>1, <1>3, <1>4, <1>9 DEF Way, GoReceive, goVars, TypeOK
  <2>3. PICK m \in Message, l \in Nat : m = Head(p) /\ l = Len(v)
    BY <2>1
  <2>4. Len(w) = l + 1 /\ w[1] = m /\ \A k \in 1..l : v[k] = w[k + 1]
    <3>1. w = <<m>> \o v
      <4>1. p = <<m>> \o Tail(p)
        BY <2>1, <2>3
      <4>2. <<m>> \in Seq(Message) /\ Tail(p) \in Seq(Message)
        BY <2>1
      <4>3. (<<m>> \o Tail(p)) \o b = <<m>> \o (Tail(p) \o b)
        BY <4>2
      <4> QED
        BY <2>2, <4>1, <4>3
    <3> QED
      BY <2>3, <3>1
  <2>5. Taken' = t + 1
    <3>1. Taken' = n - l /\ t = n - (l + 1)
      BY <2>2, <2>3, <2>4, <1>3, <1>5 DEF Taken
    <3> QED
      BY <3>1
  <2>6. m = Messages[t + 1] /\ t < Len(Messages)
    <3>1. 1 \in 1..Len(w) /\ n = t + (l + 1) /\ Len(Messages) \in Nat
      BY <2>4, <1>1, <1>5
    <3>2. t < Len(Messages)
      BY <3>1, <1>5
    <3> QED
      BY <2>4, <3>1, <3>2, <1>5
  <2>7. HasTaken(t + 1)'
    BY <2>1, <2>3, <2>6, <1>1, <1>5, <1>9, TakesOne
  <2>8. ASSUME NEW k \in 1..Len(v) PROVE v[k] = Messages[(t + 1) + k]
    <3>1. k \in 1..l /\ k + 1 \in 1..Len(w) /\ t + (k + 1) = (t + 1) + k
      BY <2>3, <2>4, <2>8
    <3>2. v[k] = Messages[t + (k + 1)]
      BY <2>4, <3>1, <1>5
    <3> QED
      BY <3>1, <3>2
  <2>9. PICK y \in Nat : y = t + 1
    OBVIOUS
  <2>10. Taken' = y /\ HasTaken(y)' /\ \A k \in 1..Len(v) : v[k] = Messages[y + k]
    BY <2>5, <2>7, <2>8, <2>9
  <2> QED
    BY <2>10, <1>6
<1> QED
  BY <1>1, <1>7, <1>8, <1>9, GoSteps

LEMMA SavedGrows ==
    ASSUME [Next]_vars
    PROVE  saved \subseteq saved'
BY DEF Next, vars, AddUpload, GoWrite, GoWait, Flushed, GoClose, GoSendFatal, GoReceive,
         GoReceiveEOF, Worker, FinishUpload, WriteChunks, Dial, Open, Disconnected, Drain,
         LoseLink, NewConnection, PageReceive, TakeChunk, TakeHeader, Complete, receiveVars

(* The end of the channel comes after everything that was written.         *)
LEMMA EndStep ==
    ASSUME TypeOK, EndInv, [Next]_vars
    PROVE  TypeOK' /\ EndInv'
<1>1. TypeOK' /\ WorkerInv' /\ LinkInv' /\ UploadInv' /\ CountInv'
  BY StepTyped, LinkStep, UploadStep, CountStep DEF EndInv
<1>2. kind' = kind /\ Item' = Item
  BY KindKept, Kept
<1>3. CASE goreceive = "ok"
  <2>1. SavedItems = Item /\ SavedItems \subseteq SavedItems'
    BY <1>3, SavedGrows DEF EndInv, CleanEnd, SavedItems
  <2>2. SavedItems' \subseteq Item
    <3>1. saved' \subseteq [item: Item, data: Seq(Message')]
      BY <1>1, <1>2 DEF TypeOK
    <3>2. \A f \in saved' : f.item \in Item
      BY <3>1
    <3> QED
      BY <3>2 DEF SavedItems
  <2>3. SavedItems' = Item
    BY <2>1, <2>2
  <2>4. CleanEnd'
    BY <2>3, <1>2 DEF CleanEnd, SavedItems
  <2> QED
    BY <2>4, <1>1 DEF EndInv
<1>4. CASE goreceive # "ok" /\ goreceive' = "ok"
  <2>1. GoReceiveEOF
    BY <1>4 DEF Next, vars, AddUpload, GoWrite, GoWait, Flushed, GoClose, GoSendFatal, GoReceive,
         Worker, FinishUpload, WriteChunks, Dial, Open, Disconnected, Drain,
         LoseLink, NewConnection, PageReceive, receiveVars
  <2>2. /\ receiving.item = 0 /\ UNCHANGED saved /\ link[GoConn] = "closed" /\ net[GoConn] = <<>>
        /\ goreceive = "read" /\ ~Page("r")
    BY <2>1, <1>4 DEF GoReceiveEOF
  <2>3. ~Page("s") /\ buf[GoConn] = <<>> /\ gosend.written = Len(Messages)
    BY <2>2, Scenario DEF EndInv, LinkInv, ClosedInv
  <2>4. PICK t \in Nat : t = Taken /\ t = Len(Messages) /\ HasTaken(t)
    <3>1. Going
      BY <2>2, <2>3 DEF Going
    <3>2. Way(GoConn) = <<>>
      BY <2>2, <2>3 DEF Way
    <3>3. Messages \in Seq(Message)
      BY MessagesTyped
    <3>4. Taken = Len(Messages)
      BY <2>3, <3>2, <3>3 DEF Taken
    <3> QED
      BY <3>1, <3>4 DEF EndInv, CountInv
  <2>5. SavedItems = Item
    <3>1. CASE batch = <<>>
      <4>1. t = 0 /\ Item = {}
        BY <2>4, <3>1, MessagesTyped DEF Item
      <4> QED
        BY <2>4, <4>1 DEF HasTaken
    <3>2. CASE batch # <<>>
      <4>1. t # 0 /\ Messages[t] = [item |-> Len(batch), part |-> batch[Len(batch)].size]
        BY <2>4, <3>2, MessagesTyped DEF WalkTo
      <4>2. Whole(Messages[t]) /\ Messages[t].item = Len(batch)
        BY <4>1 DEF Whole
      <4> QED
        BY <2>4, <4>1, <4>2 DEF HasTaken, Item
    <3> QED
      BY <3>1, <3>2
  <2> QED
    BY <2>2, <2>5, <1>1, <1>2 DEF EndInv, CleanEnd, SavedItems
<1>5. CASE goreceive' # "ok"
  BY <1>1, <1>5 DEF EndInv, CleanEnd
<1> QED
  BY <1>3, <1>4, <1>5

LEMMA EndStarts == Init => EndInv
<1> SUFFICES ASSUME Init PROVE EndInv
  OBVIOUS
<1>1. FileInv /\ TypeOK
  BY FileStarts, StartsTyped
<1>2. /\ net[GoConn] = <<>> /\ buf[GoConn] = <<>> /\ gosend.written = 0
      /\ saved = {} /\ receiving.item = 0 /\ goreceive = "read"
  BY <1>1, Scenario DEF Init, Nothing
<1>3. Way(GoConn) = <<>> /\ Len(Way(GoConn)) = 0
  BY <1>2 DEF Way
<1>4. Taken = 0
  <2>1. Taken = 0 - 0
    BY <1>2, <1>3, Zenon DEF Taken
  <2> QED
    BY <2>1
<1>5. CountInv
  BY <1>2, <1>3, <1>4 DEF CountInv, HasTaken, SavedItems
<1> QED
  BY <1>1, <1>2, <1>5 DEF EndInv, FileInv, CleanEnd

(* ww send and ww receive (file.go, Close of dial.go): the end of the      *)
(* channel does not overtake data that Close had still buffered, so a      *)
(* receiver that ends without an error has every file of the batch.        *)
THEOREM CleanEndHolds == Spec => []CleanEnd
<1>1. TypeOK /\ EndInv /\ [Next]_vars => TypeOK' /\ EndInv'
  BY EndStep
<1>2. EndInv => CleanEnd
  BY DEF EndInv
<1> QED
  BY <1>1, <1>2, StartsTyped, EndStarts, PTL DEF Spec

=============================================================================
