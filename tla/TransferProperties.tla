------------------------- MODULE TransferProperties -------------------------
(* What makes Transfer correct. *)
EXTENDS Transfer

(* Everything the receiving side has presented to its user as complete.    *)
Received ==
    saved \cup {[item |-> downloads[id], data |-> body[id].data] :
                    id \in {d \in DOMAIN downloads : Downloaded(d)}}

(* A file that is presented as complete is the file that was sent, every   *)
(* chunk in its place: across the sender's queue, the loss of a            *)
(* connection within a file and a new one, and the hand-over to the worker *)
(* (send, disconnected, receive of main.ts, receive of file.go, sw.ts).    *)
(* Not claimed once a page begins, or goes on with, a file on a connection *)
(* that is not its datachannel any more: the handlers of an old connection *)
(* feed the same global receiving.                                         *)
WholeFiles == late \/ \A f \in Received : f.data = Content(f.item)

(* ww receive ends without an error only when it has every file: the end   *)
(* of the channel, its only sign that there are no more files, does not    *)
(* overtake data that ww send's Close had still buffered.                  *)
CleanEnd == goreceive = "ok" => {f.item : f \in saved} = Item

(* The two listeners of sw.ts agree on who removes the entry: whichever of *)
(* the last message and the request comes last, once both were handled the *)
(* Map no longer holds the stream.                                         *)
WorkerCleansUp == \A id \in DOMAIN streams : ~Downloaded(id)

-----------------------------------------------------------------------------
(* The browser and the Go scheduler run what is ready, and an open         *)
(* connection moves data.  What users do, and what breaks, is not fair.    *)
Fairness ==
    /\ WF_vars(GoWrite) /\ WF_vars(GoWait) /\ WF_vars(Flushed) /\ WF_vars(GoClose)
    /\ WF_vars(GoReceive) /\ WF_vars(GoReceiveEOF)
    /\ WF_vars(OnMessage /\ Worker) /\ WF_vars(Worker /\ \E id \in nav : StreamDownload(id))
    /\ WF_vars(\E u \in uploads : FinishUpload(u) \/ \E n \in 1..ReadMax : WriteChunks(u, n))
    /\ \A c \in Conn : /\ WF_vars(Drain(c)) /\ WF_vars(PageReceive(c))
                       /\ \A p \in Side : WF_vars(Open(p, c))
FairSpec == Spec /\ Fairness

(* What may keep an upload from arriving: a connection that is lost or     *)
(* that a page was told is lost, a worker that was stopped, a navigation   *)
(* that was displaced, and a write that waits at the threshold itself,     *)
(* which is never crossed again.                                           *)
Broken ==
    \/ \E c \in Conn : link[c] = "lost" \/ (link[c] = "open" /\ \E p \in Side : events[p][c] > 0)
    \/ stops > 0
    \/ \E id \in DOMAIN downloads :
            id \notin nav \cup served /\ (id \in DOMAIN streams => streams[id].kind = "stream")
AtThreshold == \E u \in uploads : u.wait /\ Len(buf[u.dc]) <= Mark

(* A page does not complete an empty file, and takes all that follows for  *)
(* its data; ww receive ends at a header that is too long.                 *)
Accepts(i) ==
    IF kind.r = "ww" THEN ~batch[i].long
    ELSE batch[i].type = "file" => batch[i].size > 0

(* Everything up to the first upload that the receiver does not accept     *)
(* arrives, if nothing breaks: no wake-up of a blocked writer is lost, no  *)
(* upload stays in the queue, no chunk between page and worker.            *)
Arrives ==
    \A i \in 1..Max({Len(k.batch) : k \in Scenarios}) :
        (i <= added /\ link[1] = "open" /\ \A j \in 1..i : Accepts(j))
            ~> (Broken \/ AtThreshold \/ \E f \in Received : f.item = i)

-----------------------------------------------------------------------------
(* The comment in dc.onopen of main.ts: what waits in the send queue of a  *)
(* page that has a connection is sent.                                     *)
QueueIsSent ==
    (datachannel["s"] # 0 /\ sendqueue # <<>>)
        ~> (sendqueue = <<>> \/ datachannel["s"] = 0 \/ link[datachannel["s"]] # "open")
=============================================================================
