----------------------------- MODULE Handshake -----------------------------
(***************************************************************************)
(* The signalling handshake of wormhole/dial.go, dial_ctx.go and           *)
(* client_ctx.go: a host that has booked a slot and a joiner exchange PAKE *)
(* messages, an encrypted offer and answer and trickled ICE candidates     *)
(* through the relay, until a data channel opens.  Each side runs its      *)
(* function (New, NewCtx, PrepareTunnel, Join or JoinCtx), a goroutine     *)
(* that reads remote candidates, the callbacks of the WebRTC library and,  *)
(* in the context variants, a goroutine that waits for cancellation.       *)
(* A web page runs the state machine of web/ww.ts instead: Player1 is its  *)
(* host, Player2 its joiner, and its steps are the states that wait for    *)
(* the next message or for a promise of the browser.                       *)
(*                                                                         *)
(* The relay is what cmd/ww/server.go provides once both have met: a FIFO  *)
(* per direction, and its reaction to the status a client closes with.     *)
(* SignalServer models how they meet.                                      *)
(***************************************************************************)
EXTENDS Naturals, Sequences

CONSTANTS
    Pairs,     \* the functions of host and joiner that may meet
    MaxCand,   \* bound: local candidates of a side
    None

Role == {"host", "joiner"}
Peer(r) == IF r = "host" THEN "joiner" ELSE "host"
HostFns == {"New", "NewCtx", "PrepareTunnel", "Player1"}
JoinFns == {"Join", "JoinCtx", "Player2"}
WebFns == {"Player1", "Player2"}
CtxFns == {"NewCtx", "PrepareTunnel", "JoinCtx"}

ASSUME HandshakeAssumption ==
    /\ Pairs \subseteq HostFns \X JoinFns
    /\ MaxCand \in Nat
    /\ None \notin Role \cup {"shared"}

(* The functions, as the steps they take.                                  *)
NewSteps == <<"dial", "readInit", "giveSlot", "newPC", "readA", "sendB", "sendOffer",
              "setLocal", "readAnswer", "setRemote", "watch", "select">>
NewCtxSteps == NewSteps
(* PrepareTunnel returns the code, and the caller calls connect.           *)
PrepareTunnelSteps == <<"dial", "readInit", "newPC", "giveSlot", "readA", "sendB", "sendOffer",
              "setLocal", "readAnswer", "setRemote", "watch", "select">>
JoinLocalFirst == <<"dial", "readInit", "newPC", "sendA", "readB", "readOffer",
              "setRemote", "setLocal", "sendAnswer", "watch", "select">>
JoinSteps == <<"dial", "readInit", "newPC", "sendA", "readB", "readOffer",
              "setRemote", "sendAnswer", "setLocal", "watch", "select">>
JoinCtxSteps == JoinSteps
(* The states of the class Wormhole; in the last a handler has failed or   *)
(* thrown and has left the WebSocket open, and no message changes anything.*)
Player1Steps == <<"dial", "player1", "waitPakeA", "localOffer", "waitAnswer", "candidates", "failed">>
Player2Steps == <<"dial", "player2", "waitPakeB", "waitOffer", "localAnswer", "candidates", "failed">>
Steps(f) ==
    CASE f = "New" -> NewSteps [] f = "NewCtx" -> NewCtxSteps
      [] f = "PrepareTunnel" -> PrepareTunnelSteps
      [] f = "Join" -> JoinSteps [] f = "JoinCtx" -> JoinCtxSteps
      [] f = "Player1" -> Player1Steps [] f = "Player2" -> Player2Steps

(* What a step sends, or expects to read.                                  *)
Sends(s) == CASE s = "sendA" -> "pakeA" [] s = "sendB" -> "pakeB"
              [] s = "sendOffer" -> "offer" [] s = "sendAnswer" -> "answer"
Expects(s) == CASE s = "readInit" -> "init" [] s = "readA" -> "pakeA"
                [] s = "readB" -> "pakeB" [] s = "readOffer" -> "offer"
                [] s = "readAnswer" -> "answer"
SendStep == {"sendA", "sendB", "sendOffer", "sendAnswer"}
ReadStep == {"readInit", "readA", "readB", "readOffer", "readAnswer"}
Sealed == {"offer", "answer", "cand", "bye"}
Message == [type: {"init", "pakeA", "pakeB"} \cup Sealed, key: Role \cup {"shared", None},
            num: 0..MaxCand]

VARIABLES
    fn,       \* the function a side runs
    samePass, \* whether both were given the same password
    at,       \* position in the steps of that function
    result,   \* what it has returned
    ws,       \* a side's WebSocket: none, open, closed by itself, or the
              \* status the server closed it with
    in,       \* messages to a side that it has not read
    pc,       \* its PeerConnection: none, new or closed
    local, remote, \* whether its descriptions are set
    cands,    \* number of local candidates its callback was given
    watch,    \* its handleRemoteCandidates goroutine
    added,    \* numbers of the remote candidates its PeerConnection was given
    linked,   \* whether the two PeerConnections are connected
    event,    \* what the data channel's callbacks have for the select
    parked,   \* messages whose handler awaits done in stateWaitForLocalAnswer
    ctx,      \* the caller's context
    cancel    \* the goroutine that waits for ctx.Done

signal == <<ws, in>>
peerconn == <<pc, local, remote, cands, added, linked, event>>
vars == <<fn, samePass, at, result, signal, peerconn, watch, parked, ctx, cancel>>

TypeOK ==
    /\ <<fn["host"], fn["joiner"]>> \in Pairs /\ samePass \in BOOLEAN
    /\ at \in [Role -> 1..12]
    /\ result \in [Role -> {"none", "ok", "badKey", "timedOut", "confused", "error"}]
    /\ ws \in [Role -> {"none", "open", "closed", "badKey", "peerHungUp", "refused"}]
    /\ in \in [Role -> Seq(Message)] /\ parked \in [Role -> Seq(Message)]
    /\ pc \in [Role -> {"none", "new", "closed"}]
    /\ local \subseteq Role /\ remote \subseteq Role
    /\ added \in [Role -> SUBSET (0..MaxCand)]
    /\ cands \in [Role -> 0..MaxCand] /\ linked \in BOOLEAN
    /\ watch \in [Role -> {"off", "run", "end"}]
    /\ event \in [Role -> {"none", "open", "err", "taken"}]
    /\ ctx \in [Role -> {"live", "done"}]
    /\ cancel \in [Role -> {"wait", "closePc", "over"}]

Init ==
    /\ \E p \in Pairs : fn = [host |-> p[1], joiner |-> p[2]]
    /\ samePass \in BOOLEAN
    /\ at = [r \in Role |-> 1] /\ result = [r \in Role |-> "none"]
    /\ ws = [r \in Role |-> "none"] /\ in = [r \in Role |-> <<>>]
    /\ pc = [r \in Role |-> "none"]
    /\ local = {} /\ remote = {} /\ linked = FALSE
    /\ cands = [r \in Role |-> 0] /\ added = [r \in Role |-> {}] /\ watch = [r \in Role |-> "off"]
    /\ parked = [r \in Role |-> <<>>]
    /\ event = [r \in Role |-> "none"]
    /\ ctx = [r \in Role |-> "live"] /\ cancel = [r \in Role |-> "wait"]

-----------------------------------------------------------------------------
(* Parts of several actions.                                               *)

Step(r) == Steps(fn[r])[at[r]]
At(r, s) == result[r] = "none" /\ Step(r) = s
Advance(r) == at' = [at EXCEPT ![r] = @ + 1] /\ UNCHANGED result
Return(r, v) == result' = [result EXCEPT ![r] = v] /\ UNCHANGED at

Cancelled(r) == fn[r] \in CtxFns /\ ctx[r] = "done"

(* Both derive the same key from PAKE exactly if their passwords agree.    *)
KeyOf(r) == IF samePass THEN "shared" ELSE r
OpensAnything(r, m) == TRUE
(* secretbox.Open of a message with the key of r.                          *)
Opens(r, m) == m.key = KeyOf(r)

(* What the relay closes the other WebSocket with when a client closed its *)
(* own with a status, or vanished: nothing after a WebRTC result.          *)
ToldOfHangUp(code) == IF code = "lost" THEN "peerHungUp" ELSE "open"
ToldUndefined(code) == IF code = "badKey" THEN "bad key" ELSE "open"
Told(code) == CASE code = "badKey" -> "badKey" [] code = "lost" -> "peerHungUp"
                [] OTHER -> "open"

CloseWs(r, code) ==
    ws' = [ws EXCEPT ![r] = "closed",
                     ![Peer(r)] = IF ws[r] = "open" /\ @ = "open" THEN Told(code) ELSE @]

(* A message of r; its candidates are numbered.                            *)
Msg(r, type) == [type |-> type, key |-> IF type \in Sealed THEN KeyOf(r) ELSE None,
                 num |-> IF type = "cand" THEN cands[r] + 1 ELSE 0]

(* The queues q after r has written a message.                             *)
Sent(q, r, type) ==
    IF ws[r] = "open" /\ ws[Peer(r)] = "open"
    THEN [q EXCEPT ![Peer(r)] = Append(@, Msg(r, type))] ELSE q
Deliver(r, type) == in' = Sent(in, r, type)

(* Read fails at the end of a connection the server closed, at once on one *)
(* that was closed here or when the context is done.                       *)
ReadError(r) ==
    \/ ws[r] = "closed" \/ Cancelled(r)
    \/ ws[r] # "open" /\ in[r] = <<>>

-----------------------------------------------------------------------------
(* The steps of the functions.                                             *)

(* websocket.Dial and the server's answer: the init message, or a status   *)
(* (no such slot, no more slots, timed out).  The joiner has the code once *)
(* the host has it.                                                        *)
DialServer(r) ==
    /\ At(r, "dial")
    /\ r = "joiner" => at["host"] > 2
    /\ \/ Return(r, "error") /\ UNCHANGED signal
       \/ /\ ~Cancelled(r)
          /\ Advance(r)
          /\ \/ /\ r = "host" \/ ws["host"] = "open"
                /\ ws' = [ws EXCEPT ![r] = "open"]
                /\ in' = [in EXCEPT ![r] = <<[type |-> "init", key |-> None, num |-> 0]>>]
             \/ ws' = [ws EXCEPT ![r] = "refused"] /\ UNCHANGED in
    /\ UNCHANGED <<fn, samePass, peerconn, watch, parked, ctx, cancel>>

(* The caller takes the slot from slotc, or calls connect.                 *)
GiveSlot(r) ==
    /\ At(r, "giveSlot")
    /\ Advance(r)
    /\ UNCHANGED <<fn, samePass, signal, peerconn, watch, parked, ctx, cancel>>

(* The PeerConnection or its data channel may fail; the WebSocket stays    *)
(* open, here and at every error of the steps below.                       *)
NewPeerConnection(r) ==
    /\ At(r, "newPC")
    /\ \/ (Advance(r) \/ Return(r, "error")) /\ pc' = [pc EXCEPT ![r] = "new"]
       \/ Return(r, "error") /\ UNCHANGED pc
    /\ UNCHANGED <<fn, samePass, signal, local, remote, cands, added, linked, event,
                   watch, parked, ctx, cancel>>

(* What is to be sent may fail to be made (cpace.Start, cpace.Exchange,    *)
(* CreateOffer, CreateAnswer), or to be written.                           *)
SendMessage(r) ==
    /\ result[r] = "none" /\ Step(r) \in SendStep
    /\ \/ ws[r] # "closed" /\ ~Cancelled(r) /\ Deliver(r, Sends(Step(r))) /\ Advance(r)
       \/ Return(r, "error") /\ UNCHANGED in
    /\ UNCHANGED <<fn, samePass, ws, peerconn, watch, parked, ctx, cancel>>

(* A message arrived: it is taken, opened if it is to be sealed, and has   *)
(* to be the expected one.  Only Join tells the other side of a bad key.   *)
(* pake.Finish may fail.                                                   *)
ReadMessage(r) ==
    LET m == Head(in[r])
    IN  /\ result[r] = "none" /\ Step(r) \in ReadStep
        /\ in[r] # <<>> /\ ws[r] # "closed" /\ ~Cancelled(r)
        /\ in' = [in EXCEPT ![r] = Tail(@)]
        /\ \/ /\ Expects(Step(r)) \in Sealed /\ ~Opens(r, m)
              /\ Return(r, "badKey")
              /\ IF Step(r) = "readOffer" THEN CloseWs(r, "badKey") ELSE UNCHANGED ws
           \/ /\ Expects(Step(r)) \in Sealed => Opens(r, m)
              /\ IF m.type = Expects(Step(r)) THEN Advance(r) ELSE Return(r, "confused")
              /\ UNCHANGED ws
           \/ Step(r) = "readB" /\ Return(r, "error") /\ UNCHANGED ws
        /\ UNCHANGED <<fn, samePass, peerconn, watch, parked, ctx, cancel>>

ReadFails(r) ==
    /\ result[r] = "none" /\ Step(r) \in ReadStep /\ ReadError(r)
    /\ Return(r, IF ws[r] = "badKey" /\ Step(r) = "readAnswer" THEN "badKey" ELSE "error")
    /\ UNCHANGED <<fn, samePass, signal, peerconn, watch, parked, ctx, cancel>>

(* SetLocalDescription and SetRemoteDescription.                           *)
SetDescription(r) ==
    /\ At(r, "setLocal") \/ At(r, "setRemote")
    /\ \/ /\ pc[r] = "new" /\ Advance(r)
          /\ local' = IF Step(r) = "setLocal" THEN local \cup {r} ELSE local
          /\ remote' = IF Step(r) = "setRemote" THEN remote \cup {r} ELSE remote
       \/ Return(r, "error") /\ UNCHANGED <<local, remote>>
    /\ UNCHANGED <<fn, samePass, signal, pc, cands, added, linked, event, watch, parked, ctx, cancel>>

(* go c.handleRemoteCandidates                                             *)
StartWatch(r) ==
    /\ At(r, "watch")
    /\ watch' = [watch EXCEPT ![r] = "run"]
    /\ Advance(r)
    /\ UNCHANGED <<fn, samePass, signal, peerconn, parked, ctx, cancel>>

(* The final select: opened, err, the 30 second timer, or ctx.Done.        *)
Select(r) ==
    /\ At(r, "select")
    /\ \/ /\ event[r] = "open"
          /\ CloseWs(r, "success") /\ Return(r, "ok") /\ UNCHANGED event
       \/ /\ event[r] = "err"
          /\ CloseWs(r, "failed") /\ Return(r, "error")
          /\ event' = [event EXCEPT ![r] = "taken"]
       \/ CloseWs(r, "failed") /\ Return(r, "timedOut") /\ UNCHANGED event
       \/ Cancelled(r) /\ Return(r, "error") /\ UNCHANGED <<ws, event>>
    /\ UNCHANGED <<fn, samePass, in, pc, local, remote, cands, added, linked, watch, parked, ctx, cancel>>

-----------------------------------------------------------------------------
(* Callbacks and goroutines.                                               *)

(* OnICECandidate, once SetLocalDescription has started gathering; what    *)
(* cannot be sent is dropped.                                              *)
LocalCandidate(r) ==
    /\ r \in local /\ pc[r] = "new" /\ cands[r] < MaxCand
    /\ cands' = [cands EXCEPT ![r] = @ + 1]
    /\ IF Cancelled(r) THEN UNCHANGED in ELSE Deliver(r, "cand")
    /\ UNCHANGED <<fn, samePass, at, result, ws, pc, local, remote, added, linked, event,
                   watch, parked, ctx, cancel>>

(* handleRemoteCandidates adds a candidate or ends for good.               *)
RemoteCandidate(r) ==
    LET m == Head(in[r])
        good == Opens(r, m) /\ m.type = "cand" /\ pc[r] = "new"
    IN  /\ watch[r] = "run" /\ in[r] # <<>> /\ ws[r] # "closed" /\ ~Cancelled(r)
        /\ in' = [in EXCEPT ![r] = Tail(@)]
        /\ added' = IF good THEN [added EXCEPT ![r] = @ \cup {m.num}] ELSE added
        /\ watch' = IF good THEN watch ELSE [watch EXCEPT ![r] = "end"]
        /\ UNCHANGED <<fn, samePass, at, result, ws, pc, local, remote, cands, linked, event,
                       parked, ctx, cancel>>

WatchEnds(r) ==
    /\ watch[r] = "run" /\ ReadError(r)
    /\ watch' = [watch EXCEPT ![r] = "end"]
    /\ UNCHANGED <<fn, samePass, at, result, signal, peerconn, parked, ctx, cancel>>

(* ICE finds a path from a candidate of either side, and DTLS and SCTP     *)
(* come up over it.                                                        *)
Connect ==
    /\ ~linked /\ local = Role /\ remote = Role /\ \E r \in Role : added[r] # {}
    /\ \A r \in Role : pc[r] = "new"
    /\ linked' = TRUE
    /\ UNCHANGED <<fn, samePass, at, result, signal, pc, local, remote, cands, added, event,
                   watch, parked, ctx, cancel>>

(* OnOpen closes opened, or Detach fails; OnError offers its error on err. *)
ChannelEvent(r) ==
    /\ linked /\ pc[r] = "new" /\ event[r] = "none" /\ fn[r] \notin WebFns
    /\ \E e \in {"open", "err"} : event' = [event EXCEPT ![r] = e]
    /\ UNCHANGED <<fn, samePass, at, result, signal, pc, local, remote, cands, added, linked,
                   watch, parked, ctx, cancel>>

(* The caller's context ends.                                              *)
CtxDone(r) ==
    /\ fn[r] \in CtxFns /\ ctx[r] = "live"
    /\ ctx' = [ctx EXCEPT ![r] = "done"]
    /\ UNCHANGED <<fn, samePass, at, result, signal, peerconn, watch, parked, cancel>>

(* The goroutine that Dial's success started: ws.Close, unless a Read with *)
(* the context has closed the connection, without a status ...             *)
CancelWs(r) ==
    /\ cancel[r] = "wait" /\ Cancelled(r) /\ ws[r] # "none"
    /\ \E code \in {"failed", "lost"} : CloseWs(r, code)
    /\ cancel' = [cancel EXCEPT ![r] = "closePc"]
    /\ UNCHANGED <<fn, samePass, at, result, in, peerconn, watch, parked, ctx>>

(* ... and pc.Close, if there is one by now.                               *)
CancelPc(r) ==
    /\ cancel[r] = "closePc"
    /\ pc' = IF pc[r] = "new" THEN [pc EXCEPT ![r] = "closed"] ELSE pc
    /\ cancel' = [cancel EXCEPT ![r] = "over"]
    /\ UNCHANGED <<fn, samePass, at, result, signal, local, remote, cands, added, linked,
                   event, watch, parked, ctx>>

(* A program whose handshake failed exits.                                 *)
Exit(r) ==
    /\ fn[r] \notin WebFns
    /\ result[r] \notin {"none", "ok"} /\ ws[r] \notin {"none", "refused"}
    /\ ws[r] # "closed" \/ pc[r] = "new"
    /\ CloseWs(r, "lost")
    /\ pc' = [pc EXCEPT ![r] = "closed"]
    /\ UNCHANGED <<fn, samePass, at, result, in, local, remote, cands, added, linked,
                   event, watch, parked, ctx, cancel>>

-----------------------------------------------------------------------------
(* The state machine of web/ww.ts.  Its result is that of the promise done *)
(* that dial returns: only the first resolve or reject counts.             *)

Settle(r, v) == result' = IF result[r] = "none" THEN [result EXCEPT ![r] = v] ELSE result
Enter(r, i) == at' = [at EXCEPT ![r] = i]
ErrorState == 8
FailedState == 7
(* fail(), in a handler that leaves the WebSocket open.                    *)
WebFail(r) == Settle(r, "error") /\ Enter(r, FailedState)

(* onmessage with the WebSocket open, in state s.                          *)
Gets(r, s) ==
    /\ fn[r] \in WebFns /\ at[r] # ErrorState /\ Step(r) = s
    /\ in[r] # <<>> /\ ws[r] # "closed"
Rest(r) == [in EXCEPT ![r] = Tail(@)]

(* statePlayer1 and statePlayer2, whose start(pass) may fail.              *)
WebInit(r) ==
    /\ Gets(r, "player1") \/ Gets(r, "player2")
    /\ pc' = [pc EXCEPT ![r] = "new"]
    /\ \/ /\ in' = IF Step(r) = "player2" THEN Sent(Rest(r), r, "pakeA") ELSE Rest(r)
          /\ Enter(r, at[r] + 1) /\ UNCHANGED result
       \/ Step(r) = "player2" /\ in' = Rest(r) /\ WebFail(r)
    /\ UNCHANGED <<fn, samePass, ws, local, remote, cands, added, linked, event,
                   watch, parked, ctx, cancel>>

(* stateWaitForPAKEA, up to its await of createOffer, and                  *)
(* stateWaitForPAKEB; exchange and finish may fail.                        *)
WebPake(r) ==
    /\ Gets(r, "waitPakeA") \/ Gets(r, "waitPakeB")
    /\ \/ /\ in' = IF Step(r) = "waitPakeA" THEN Sent(Rest(r), r, "pakeB") ELSE Rest(r)
          /\ Enter(r, at[r] + 1) /\ UNCHANGED result
       \/ in' = Rest(r) /\ WebFail(r)
    /\ UNCHANGED <<fn, samePass, ws, peerconn, watch, parked, ctx, cancel>>

(* stateWaitForRemoteOffer, up to its first await, and                     *)
(* stateWaitForRemoteAnswer.  stateWaitForLocalOffer expects nothing, and  *)
(* the handler that is awaiting overwrites the error state it goes to.     *)
WebExpects(s) == CASE s = "waitOffer" -> "offer" [] s = "waitAnswer" -> "answer"
                   [] s = "localOffer" -> "nothing"
WebDescription(r) ==
    LET m == Head(in[r])
        badKey == Step(r) # "localOffer" /\ ~Opens(r, m)
    IN  /\ Gets(r, "waitOffer") \/ Gets(r, "waitAnswer") \/ Gets(r, "localOffer")
        /\ \/ /\ badKey
              /\ in' = Sent(Rest(r), r, "bye") /\ CloseWs(r, "badKey")
              /\ Settle(r, "badKey") /\ Enter(r, ErrorState) /\ UNCHANGED remote
           \/ /\ ~badKey
              /\ in' = Rest(r) /\ UNCHANGED ws
              /\ Enter(r, IF m.type = WebExpects(Step(r)) THEN at[r] + 1
                          ELSE IF Step(r) = "localOffer" THEN at[r] ELSE ErrorState)
              /\ IF m.type # WebExpects(Step(r)) THEN Settle(r, "confused") /\ UNCHANGED remote
                 ELSE IF m.type = "answer" THEN Settle(r, "ok") /\ remote' = remote \cup {r}
                 ELSE UNCHANGED <<result, remote>>
        /\ UNCHANGED <<fn, samePass, pc, local, cands, added, linked, event, watch, parked,
                       ctx, cancel>>

(* The promises that stateWaitForPAKEA and stateWaitForRemoteOffer await   *)
(* are fulfilled.  The latter then resolves done, which lets the handlers  *)
(* that wait for it process their candidates.                              *)
WebPromiseForgetful(r) ==
    /\ fn[r] \in WebFns /\ at[r] # ErrorState /\ Step(r) \in {"localOffer", "localAnswer"}
    /\ Deliver(r, IF Step(r) = "localOffer" THEN "offer" ELSE "answer")
    /\ local' = local \cup {r}
    /\ parked' = [parked EXCEPT ![r] = <<>>]
    /\ IF Step(r) = "localOffer" THEN UNCHANGED <<remote, result>>
       ELSE remote' = remote \cup {r} /\ Settle(r, "ok")
    /\ Enter(r, at[r] + 1)
    /\ UNCHANGED <<fn, samePass, ws, pc, cands, added, linked, event, watch, ctx, cancel>>
WebPromise(r) ==
    /\ fn[r] \in WebFns /\ at[r] # ErrorState /\ Step(r) \in {"localOffer", "localAnswer"}
    /\ Deliver(r, IF Step(r) = "localOffer" THEN "offer" ELSE "answer")
    /\ local' = local \cup {r}
    /\ parked' = [parked EXCEPT ![r] = <<>>]
    /\ added' = [added EXCEPT ![r] = @ \cup {parked[r][i].num : i \in 1..Len(parked[r])}]
    /\ IF Step(r) = "localOffer" THEN UNCHANGED <<remote, result>>
       ELSE remote' = remote \cup {r} /\ Settle(r, "ok")
    /\ Enter(r, at[r] + 1)
    /\ UNCHANGED <<fn, samePass, ws, pc, cands, linked, event, watch, ctx, cancel>>

(* A rejected promise ends its handler with an exception: neither done nor *)
(* the state ever changes.                                                 *)
WebRejected(r) ==
    /\ fn[r] \in WebFns /\ at[r] # ErrorState /\ Step(r) \in {"localOffer", "localAnswer"}
    /\ Enter(r, FailedState)
    /\ UNCHANGED <<fn, samePass, result, signal, peerconn, watch, parked, ctx, cancel>>

(* stateWaitForLocalAnswer parks a message, stateWaitForCandidates adds it *)
(* or tells the peer of the bad key.                                       *)
WebCandidate(r) ==
    LET m == Head(in[r])
    IN  /\ \/ /\ Gets(r, "localAnswer")
              /\ parked' = [parked EXCEPT ![r] = Append(@, m)]
              /\ in' = Rest(r) /\ UNCHANGED <<ws, added, result>>
           \/ /\ Gets(r, "candidates")
              /\ IF Opens(r, m)
                 THEN /\ added' = IF m.type = "cand" THEN [added EXCEPT ![r] = @ \cup {m.num}] ELSE added
                      /\ in' = Rest(r) /\ UNCHANGED <<ws, result>>
                 ELSE /\ Settle(r, "badKey") /\ in' = Sent(Rest(r), r, "bye")
                      /\ CloseWs(r, "badKey") /\ UNCHANGED added
              /\ UNCHANGED parked
        /\ UNCHANGED <<fn, samePass, at, pc, local, remote, cands, linked, event, watch, ctx, cancel>>

(* onclose: that the peer has hung up is a normal closure.                 *)
WebClosed(r) ==
    /\ fn[r] \in WebFns /\ ws[r] \in {"badKey", "refused"} /\ in[r] = <<>> /\ result[r] = "none"
    /\ Settle(r, "error")
    /\ UNCHANGED <<fn, samePass, at, signal, peerconn, watch, parked, ctx, cancel>>

(* close(), when the ICE connection is connected or has failed.            *)
WebClose(r) ==
    /\ fn[r] \in WebFns /\ ws[r] = "open" /\ r \in local \cap remote
    /\ CloseWs(r, IF linked THEN "success" ELSE "failed")
    /\ UNCHANGED <<fn, samePass, at, result, in, peerconn, watch, parked, ctx, cancel>>

WebSteps(r) ==
    \/ WebInit(r) \/ WebPake(r) \/ WebDescription(r) \/ WebPromise(r) \/ WebRejected(r)
    \/ WebCandidate(r) \/ WebClosed(r)

-----------------------------------------------------------------------------
Main(r) ==
    \/ DialServer(r) \/ GiveSlot(r) \/ NewPeerConnection(r) \/ SendMessage(r)
    \/ ReadMessage(r) \/ ReadFails(r) \/ SetDescription(r) \/ StartWatch(r) \/ Select(r)
Watcher(r) == RemoteCandidate(r) \/ WatchEnds(r)
Canceller(r) == CancelWs(r) \/ CancelPc(r)

Next ==
    \/ \E r \in Role : \/ Main(r) \/ Watcher(r) \/ Canceller(r) \/ LocalCandidate(r)
                       \/ WebSteps(r) \/ WebClose(r)
                       \/ ChannelEvent(r) \/ CtxDone(r) \/ Exit(r)
    \/ Connect

Spec == Init /\ [][Next]_vars
=============================================================================
