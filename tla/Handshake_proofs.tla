-------------------------- MODULE Handshake_proofs --------------------------
(***************************************************************************)
(* Theorems about Handshake for every set of pairs of functions that may   *)
(* meet and any number of candidates.                                      *)
(***************************************************************************)
EXTENDS HandshakeProperties, TLAPS

GoHost == {"New", "NewCtx", "PrepareTunnel"}
GoJoin == {"Join", "JoinCtx"}
GoFns == GoHost \cup GoJoin

-----------------------------------------------------------------------------
(* The inductive invariant.  The messages to a side come in the order init,*)
(* PAKE, description, candidates.                                          *)

(* How many of the first three a function has read at each position; the   *)
(* error states of a page, the last two, count as before the description.  *)
SeenAt(f) ==
    CASE f \in GoHost -> <<0, 0, 1, 1, 1, 2, 2, 2, 2, 3, 3, 3>>
      [] f \in GoJoin -> <<0, 0, 1, 1, 1, 2, 3, 3, 3, 3, 3>>
      [] f = "Player1" -> <<0, 0, 1, 2, 2, 3, 2, 2>>
      [] f = "Player2" -> <<0, 0, 1, 2, 3, 3, 0, 2>>

(* And how many of them its peer may have from the server and from it; a   *)
(* page that has failed may have sent fewer.                               *)
TellAt(f) ==
    CASE f \in GoHost -> <<1, 1, 1, 1, 1, 1, 2, 3, 3, 3, 3, 3>>
      [] f \in GoJoin -> <<1, 1, 1, 1, 2, 2, 2, 2, 3, 3, 3>>
      [] f = "Player1" -> <<1, 1, 1, 2, 3, 3, 2, 3>>
      [] f = "Player2" -> <<1, 1, 2, 2, 2, 3, 2, 3>>

Seen(r) == SeenAt(fn[r])[at[r]]
Tell(r) == TellAt(fn[r])[at[r]]

(* The n-th message to r, from the fourth on a candidate.  A page that     *)
(* cannot open the offer sends "bye" in place of the answer.               *)
Nth(r, n, same) ==
    LET key == IF same THEN "shared" ELSE Peer(r)
    IN  CASE n = 1 -> [type : {"init"}, key : {None}, num : {0}]
          [] n = 2 -> [type : {IF r = "host" THEN "pakeA" ELSE "pakeB"}, key : {None}, num : {0}]
          [] n = 3 -> [type : IF r = "joiner" THEN {"offer"}
                              ELSE IF same THEN {"answer"} ELSE {"answer", "bye"},
                       key : {key}, num : {0}]
          [] n > 3 -> [type : {"cand"}, key : {key}, num : 0..MaxCand]

(* The position at which a function of package wormhole has made its       *)
(* PeerConnection.                                                         *)
PcAt(f) == IF f \in {"New", "NewCtx"} THEN 4 ELSE 3

UpTo(m, n) == IF n < m THEN n ELSE m

(* A side that reads on: a function of package wormhole until it returned, *)
(* its watcher afterwards, a page until its error states.                  *)
Reads(r) == IF fn[r] \in WebFns THEN at[r] \notin {ErrorState, FailedState} ELSE result[r] = "none" \/ Seen(r) = 3

BothOpen == \A r \in Role : ws[r] = "open"
Failed(r) == fn[r] \in WebFns /\ at[r] = FailedState

(* What r has not read yet continues what it has read, up to what its peer *)
(* has sent, or at least would have sent on open connections.              *)
Queue(r) == Reads(r) =>
    /\ \A i \in 1..Len(in[r]) : in[r][i] \in Nth(r, Seen(r) + i, samePass)
    /\ UpTo(3, Seen(r) + Len(in[r])) <= Tell(Peer(r))
    /\ BothOpen /\ ~Failed(Peer(r)) => UpTo(3, Seen(r) + Len(in[r])) = Tell(Peer(r))

(* Where a side can be, and what it has by then.                           *)
Place(r) ==
    /\ \/ at[r] \in 1..Len(Steps(fn[r]))
       \/ fn[r] \in WebFns /\ at[r] = ErrorState /\ result[r] # "none" /\ ws[r] = "closed"
    /\ ws[r] = "none" <=> at[r] = 1
    /\ ws[r] = "none" => in[r] = <<>>
    /\ r = "joiner" /\ at[r] > 1 => at["host"] > 2
    /\ r \in remote => Seen(r) = 3 /\ (fn[r] \in WebFns => at[r] = 6)
    /\ r \in local => Tell(r) = 3
    /\ watch[r] # "off" => fn[r] \in GoFns /\ Seen(r) = 3 /\ pc[r] # "none"
    /\ fn[r] \in GoFns /\ at[r] > PcAt(fn[r]) => pc[r] # "none"
    /\ \A i \in 1..Len(parked[r]) : parked[r][i].type = "cand"
    /\ pc[r] = "closed" \/ cancel[r] = "closePc" => ws[r] = "closed"

(* Nothing is read before it was sent, no answer is sent before the offer, *)
(* and a description that was opened was sealed with the same key.         *)
Causal ==
    /\ \A r \in Role : Seen(r) <= Tell(Peer(r)) /\ (Seen(r) = 3 => samePass)
    /\ Tell("joiner") = 3 => Tell("host") = 3

(* Success needs a connection, and that both have set both descriptions.   *)
Success ==
    /\ linked => local = Role /\ remote = Role
    /\ \A r \in Role : /\ event[r] # "none" => linked
                       /\ result[r] = "ok" /\ fn[r] \notin WebFns => linked
                       /\ result[r] # "confused"

HandshakeInv == Causal /\ Success /\ \A r \in Role : Queue(r) /\ Place(r)

-----------------------------------------------------------------------------
(* The tables, step by step.                                               *)

(* The sequence of steps of each function, its length and last step.       *)
LEMMA GoSteps ==
    ASSUME NEW f \in GoFns, NEW i \in 1..Len(Steps(f))
    PROVE  LET s == Steps(f)[i]
           IN  /\ SeenAt(f)[i] \in 0..3 /\ TellAt(f)[i] \in 1..3
               /\ i \in 1..12 /\ (s # "select" => i + 1 \in 1..Len(Steps(f)))
               /\ s = "dial" <=> i = 1
               /\ i = 1 => SeenAt(f)[i] = 0 /\ TellAt(f)[i] = 1
               /\ s \in ReadStep => SeenAt(f)[i] < 3 /\ SeenAt(f)[i + 1] = SeenAt(f)[i] + 1
               /\ s \notin ReadStep /\ s # "select" => SeenAt(f)[i + 1] = SeenAt(f)[i]
               /\ s \in SendStep => TellAt(f)[i] < 3 /\ TellAt(f)[i + 1] = TellAt(f)[i] + 1
               /\ s \notin SendStep /\ s # "select" => TellAt(f)[i + 1] = TellAt(f)[i]
               /\ s \in {"setRemote", "watch", "select"} => SeenAt(f)[i] = 3
               /\ s = "setLocal" => TellAt(f)[i] = 3
               /\ s = "newPC" <=> i = PcAt(f)
               /\ s = "watch" => i > PcAt(f)
  <1> USE DEF GoFns, GoHost, GoJoin, ReadStep, SendStep, PcAt
  <1>1. CASE f = "New"
    BY <1>1 DEF Steps, NewSteps, SeenAt, TellAt
  <1>2. CASE f = "NewCtx"
    BY <1>2 DEF Steps, NewCtxSteps, NewSteps, SeenAt, TellAt
  <1>3. CASE f = "PrepareTunnel"
    BY <1>3 DEF Steps, PrepareTunnelSteps, SeenAt, TellAt
  <1>4. CASE f = "Join"
    BY <1>4 DEF Steps, JoinSteps, SeenAt, TellAt
  <1>5. CASE f = "JoinCtx"
    BY <1>5 DEF Steps, JoinCtxSteps, JoinSteps, SeenAt, TellAt
  <1> QED
    BY <1>1, <1>2, <1>3, <1>4, <1>5

(* Which messages the steps of hosts and joiners send and expect.          *)
LEMMA GoMessages ==
    ASSUME NEW f \in GoFns, NEW i \in 1..Len(Steps(f))
    PROVE  LET s == Steps(f)[i]
           IN  /\ s = "readInit" => SeenAt(f)[i] = 0
               /\ s \in {"readA", "readB"} => SeenAt(f)[i] = 1
               /\ s \in {"readOffer", "readAnswer"} => SeenAt(f)[i] = 2
               /\ s \in {"sendA", "sendB"} => TellAt(f)[i] = 1
               /\ s \in {"sendOffer", "sendAnswer"} => TellAt(f)[i] = 2
               /\ f \in GoHost => /\ s \notin {"readB", "readOffer", "sendA", "sendAnswer"}
                                  /\ TellAt(f)[i] >= 2 => SeenAt(f)[i] >= 2
                                  /\ i > 2 => SeenAt(f)[i] >= 1
               /\ f \in GoJoin => /\ s \notin {"readA", "readAnswer", "sendB", "sendOffer"}
                                  /\ s = "sendAnswer" \/ TellAt(f)[i] = 3 => SeenAt(f)[i] = 3
  <1> USE DEF GoFns, GoHost, GoJoin
  <1>1. CASE f = "New"
    BY <1>1 DEF Steps, NewSteps, SeenAt, TellAt
  <1>2. CASE f = "NewCtx"
    BY <1>2 DEF Steps, NewCtxSteps, NewSteps, SeenAt, TellAt
  <1>3. CASE f = "PrepareTunnel"
    BY <1>3 DEF Steps, PrepareTunnelSteps, SeenAt, TellAt
  <1>4. CASE f = "Join"
    BY <1>4 DEF Steps, JoinSteps, SeenAt, TellAt
  <1>5. CASE f = "JoinCtx"
    BY <1>5 DEF Steps, JoinCtxSteps, JoinSteps, SeenAt, TellAt
  <1> QED
    BY <1>1, <1>2, <1>3, <1>4, <1>5

(* The same for the pages, whose error states are positions 7 and 8.       *)
LEMMA PageSteps ==
    ASSUME NEW f \in WebFns, NEW i \in 1..Len(Steps(f))
    PROVE  LET s == Steps(f)[i]
           IN  /\ Len(Steps(f)) = 7 /\ i \in 1..7 /\ i # ErrorState
               /\ SeenAt(f)[i] \in 0..3 /\ TellAt(f)[i] \in 1..3
               /\ SeenAt(f)[8] = 2 /\ TellAt(f)[8] = 3
               /\ SeenAt(f)[7] = (IF f = "Player1" THEN 2 ELSE 0) /\ TellAt(f)[7] = 2
               /\ s = "failed" <=> i = FailedState
               /\ s = "dial" <=> i = 1
               /\ s \notin ReadStep \cup SendStep
               /\ s \notin {"giveSlot", "newPC", "setLocal", "setRemote", "watch", "select"}
               /\ SeenAt(f)[1] = 0 /\ SeenAt(f)[2] = 0 /\ TellAt(f)[1] = 1 /\ TellAt(f)[2] = 1
               /\ f = "Player1" => /\ i \in {2, 3, 4} => s = <<"dial", "player1", "waitPakeA", "localOffer">>[i]
                                   /\ i \in {5, 6, 7} => s = <<"waitAnswer", "candidates", "failed">>[i - 4]
                                   /\ TellAt(f)[i] >= 2 => SeenAt(f)[i] >= 2
                                   /\ i > 2 => SeenAt(f)[i] >= 1
               /\ f = "Player2" => /\ i \in {2, 3, 4} => s = <<"dial", "player2", "waitPakeB", "waitOffer">>[i]
                                   /\ i \in {5, 6, 7} => s = <<"localAnswer", "candidates", "failed">>[i - 4]
                                   /\ TellAt(f)[i] = 3 => SeenAt(f)[i] = 3
  <1>1. CASE f = "Player1"
    BY <1>1 DEF Steps, Player1Steps, SeenAt, TellAt, ErrorState, FailedState, ReadStep, SendStep, WebFns, GoHost, GoJoin
  <1>2. CASE f = "Player2"
    BY <1>2 DEF Steps, Player2Steps, SeenAt, TellAt, ErrorState, FailedState, ReadStep, SendStep, WebFns, GoHost, GoJoin
  <1> QED
    BY <1>1, <1>2 DEF WebFns

(* What the steps of the pages read and write.                             *)
LEMMA PageTable ==
    ASSUME NEW f \in WebFns, NEW i \in 1..Len(Steps(f))
    PROVE  LET s == Steps(f)[i]
               Now(seen, tell) == SeenAt(f)[i] = seen /\ TellAt(f)[i] = tell
               Next1(seen, tell) == SeenAt(f)[i + 1] = seen /\ TellAt(f)[i + 1] = tell
           IN  /\ s = "player1" => f = "Player1" /\ Now(0, 1) /\ Next1(1, 1)
               /\ s = "player2" => f = "Player2" /\ Now(0, 1) /\ Next1(1, 2)
               /\ s = "waitPakeA" => f = "Player1" /\ Now(1, 1) /\ Next1(2, 2)
               /\ s = "waitPakeB" => f = "Player2" /\ Now(1, 2) /\ Next1(2, 2)
               /\ s = "localOffer" => f = "Player1" /\ Now(2, 2) /\ Next1(2, 3)
               /\ s = "waitOffer" => f = "Player2" /\ Now(2, 2) /\ Next1(3, 2)
               /\ s = "waitAnswer" => f = "Player1" /\ Now(2, 3) /\ Next1(3, 3)
               /\ s = "localAnswer" => f = "Player2" /\ Now(3, 2) /\ Next1(3, 3)
               /\ s = "candidates" => Now(3, 3)
               /\ s \in {"player1", "player2", "waitPakeA", "waitPakeB", "localOffer", "waitOffer",
                        "waitAnswer", "localAnswer"} => i \in 2..5
               /\ s \in {"waitAnswer", "localAnswer"} => i = 5
  <1>1. CASE f = "Player1"
    BY <1>1 DEF Steps, Player1Steps, SeenAt, TellAt, GoHost, GoJoin
  <1>2. CASE f = "Player2"
    BY <1>2 DEF Steps, Player2Steps, SeenAt, TellAt, GoHost, GoJoin
  <1> QED
    BY <1>1, <1>2 DEF WebFns

-----------------------------------------------------------------------------
(* Types.                                                                  *)

(* There are two sides.                                                    *)
LEMMA Sides ==
    /\ \A r \in Role : Peer(r) \in Role /\ Peer(r) # r /\ Peer(Peer(r)) = r /\ Role = {r, Peer(r)}
    /\ WebFns \cap GoFns = {}
    /\ TypeOK => /\ fn["host"] \in GoHost \cup {"Player1"} /\ fn["joiner"] \in GoJoin \cup {"Player2"}
                 /\ \A r \in Role : fn[r] \in GoFns \cup WebFns
  BY HandshakeAssumption
  DEF Role, Peer, TypeOK, HostFns, JoinFns, WebFns, GoFns, GoHost, GoJoin

(* What a side writes.                                                     *)
LEMMA MsgIs ==
    ASSUME TypeOK, NEW r \in Role, NEW type
    PROVE  /\ Msg(r, type).type = type
           /\ Msg(r, type).key = IF type \in Sealed THEN KeyOf(r) ELSE None
           /\ type = "cand" => Msg(r, type).num = cands[r] + 1
           /\ type # "cand" => Msg(r, type).num = 0
           /\ Msg(r, type) = [type |-> Msg(r, type).type, key |-> Msg(r, type).key, num |-> Msg(r, type).num]
           /\ (type \in {"init", "pakeA", "pakeB"} \cup Sealed /\ (type = "cand" => cands[r] < MaxCand))
                  => Msg(r, type) \in Message
  <1>1. (type = "cand" /\ cands[r] < MaxCand => cands[r] + 1 \in 0..MaxCand) /\ 0 \in 0..MaxCand
    BY HandshakeAssumption DEF TypeOK
  <1> QED
    BY <1>1 DEF Msg, Message, KeyOf

(* What writing a message does to the types.                               *)
LEMMA SentType ==
    ASSUME NEW q \in [Role -> Seq(Message)], NEW r \in Role, TypeOK,
           NEW type \in {"init", "pakeA", "pakeB"} \cup Sealed, type = "cand" => cands[r] < MaxCand
    PROVE  Sent(q, r, type) \in [Role -> Seq(Message)]
  <1> DEFINE m == Msg(r, type)
  <1>1. m \in Message
    BY MsgIs
  <1>2. Peer(r) \in Role
    BY Sides
  <1> HIDE DEF m
  <1>3. Append(q[Peer(r)], m) \in Seq(Message)
    BY <1>1, <1>2
  <1>4. [q EXCEPT ![Peer(r)] = Append(@, m)] \in [Role -> Seq(Message)]
    BY <1>2, <1>3
  <1> QED
    BY <1>4 DEF Sent, m

(* Closing a WebSocket opens none, and leaves one that was never open.     *)
LEMMA Closing ==
    ASSUME TypeOK, NEW r \in Role, NEW code \in {"success", "failed", "lost", "badKey"}, CloseWs(r, code)
    PROVE  /\ ws' \in [Role -> {"none", "open", "closed", "badKey", "peerHungUp", "refused"}]
           /\ ws'[r] = "closed"
           /\ \A x \in Role : /\ ws'[x] = "open" => ws[x] = "open"
                              /\ x # r => (ws'[x] = "none" <=> ws[x] = "none")
                              /\ ws[x] = "closed" => ws'[x] = "closed"
  <1>1. Peer(r) \in Role /\ Peer(r) # r /\ Role = {r, Peer(r)}
    BY Sides
  <1> QED
    BY <1>1 DEF CloseWs, Told, TypeOK

(* Where the steps of package wormhole are, and those of a page.           *)
GoStep == ReadStep \cup SendStep \cup {"giveSlot", "newPC", "setLocal", "setRemote", "watch", "select"}

LEMMA GoAt ==
    ASSUME TypeOK, NEW r \in Role, Place(r), result[r] = "none", Step(r) \in GoStep
    PROVE  /\ fn[r] \in GoFns /\ at[r] \in 1..Len(Steps(fn[r])) /\ at[r] \in 2..12
           /\ Step(r) # "select" => at[r] + 1 \in 1..Len(Steps(fn[r])) /\ at[r] + 1 \in 1..12
  <1>1. at[r] \in 1..Len(Steps(fn[r])) /\ fn[r] \in GoFns \cup WebFns
    BY Sides DEF Place
  <1>2. fn[r] \notin WebFns
    BY <1>1, PageSteps DEF Step, GoStep
  <1>3. fn[r] \in GoFns
    BY <1>1, <1>2
  <1>4. Step(r) # "dial"
    BY DEF GoStep, ReadStep, SendStep
  <1>5. at[r] \in 1..12 /\ at[r] # 1
    BY <1>1, <1>3, <1>4, GoSteps DEF Step
  <1>6. Step(r) # "select" => at[r] + 1 \in 1..Len(Steps(fn[r]))
    BY <1>1, <1>3, GoSteps DEF Step
  <1>7. Len(Steps(fn[r])) \in 11..12
    BY <1>3 DEF GoFns, GoHost, GoJoin, Steps, NewSteps, NewCtxSteps, PrepareTunnelSteps, JoinSteps, JoinCtxSteps
  <1>8. Step(r) # "select" => at[r] + 1 \in 1..12
    <2> DEFINE n == Len(Steps(fn[r]))
    <2> HIDE DEF n
    <2>1. Step(r) # "select" => at[r] + 1 \in 1..n
      BY <1>6 DEF n
    <2>2. n \in 11..12
      BY <1>7 DEF n
    <2> QED
      BY <1>5, <2>1, <2>2
  <1> QED
    BY <1>1, <1>3, <1>5, <1>6, <1>8

LEMMA PageAt ==
    ASSUME TypeOK, NEW r \in Role, Place(r), fn[r] \in WebFns, at[r] # ErrorState
    PROVE  /\ at[r] \in 1..Len(Steps(fn[r])) /\ at[r] \in 1..7
           /\ Step(r) # "failed" => at[r] # FailedState /\ at[r] \in 1..6
  <1>1. at[r] \in 1..Len(Steps(fn[r]))
    BY DEF Place
  <1>2. at[r] \in 1..7 /\ (Step(r) = "failed" <=> at[r] = FailedState)
    BY <1>1, PageSteps DEF Step
  <1> QED
    BY <1>1, <1>2 DEF FailedState

(* A step of a page that is not one of the last has a next one.            *)
LEMMA PageNext ==
    ASSUME TypeOK, NEW r \in Role, Place(r), fn[r] \in WebFns, at[r] # ErrorState,
           Step(r) \notin {"dial", "candidates", "failed"}
    PROVE  at[r] \in 2..5 /\ at[r] + 1 \in 1..Len(Steps(fn[r]))
  <1>1. at[r] \in 1..6 /\ at[r] \in 1..Len(Steps(fn[r]))
    BY PageAt
  <1>2. Step(r) = "dial" <=> at[r] = 1
    BY <1>1, PageSteps DEF Step
  <1>3. at[r] = 6 => Step(r) = "candidates"
    <2>1. CASE fn[r] = "Player1"
      BY <1>1, <2>1, PageSteps DEF Step
    <2>2. CASE fn[r] = "Player2"
      BY <1>1, <2>2, PageSteps DEF Step
    <2> QED
      BY <2>1, <2>2 DEF WebFns
  <1>4. Len(Steps(fn[r])) = 7
    BY <1>1, PageSteps
  <1> QED
    BY <1>1, <1>2, <1>3, <1>4

(* Every step keeps the types.                                             *)
LEMMA NextType ==
    ASSUME TypeOK, HandshakeInv, [Next]_vars
    PROVE  TypeOK'
  <1> USE DEF signal, peerconn
  <1>1. ASSUME NEW r \in Role PROVE Place(r) /\ Queue(r) /\ Peer(r) \in Role
    BY Sides DEF HandshakeInv
  <1> DEFINE Codes == {"success", "failed", "lost", "badKey"}
             WsType == [Role -> {"none", "open", "closed", "badKey", "peerHungUp", "refused"}]
             Result == {"none", "ok", "badKey", "timedOut", "confused", "error"}
             ResultType == [Role -> Result]
             AtType == [Role -> 1..12]
             Queues == [Role -> Seq(Message)]
             Numbers == [Role -> SUBSET (0..MaxCand)]
  <1>2. ASSUME NEW r \in Role, NEW code \in Codes, CloseWs(r, code) PROVE ws' \in WsType
    BY <1>2, Closing
  <1>3. ASSUME NEW r \in Role, Step(r) # "select", result[r] = "none", Step(r) \in GoStep, Advance(r)
        PROVE  at' \in AtType /\ result' \in ResultType
    <2>1. at[r] + 1 \in 1..12
      BY <1>1, <1>3, GoAt
    <2> QED
      BY <1>3, <2>1 DEF Advance, TypeOK
  <1>4. /\ \A r \in Role, v \in Result : Return(r, v) => at' \in AtType /\ result' \in ResultType
        /\ \A r \in Role, v \in Result : Settle(r, v) => result' \in ResultType
        /\ \A r \in Role, n \in 1..12 : Enter(r, n) => at' \in AtType
        /\ UNCHANGED result => result' \in ResultType
    <2>1. \A r \in Role, v \in Result : Return(r, v) => at' \in AtType /\ result' \in ResultType
      BY SMTT(20) DEF Return, TypeOK
    <2>2. \A r \in Role, v \in Result : Settle(r, v) => result' \in ResultType
      BY DEF Settle, TypeOK
    <2>3. \A r \in Role, n \in 1..12 : Enter(r, n) => at' \in AtType
      BY DEF Enter, TypeOK
    <2>4. UNCHANGED result => result' \in ResultType
      BY DEF TypeOK
    <2> QED
      BY <2>1, <2>2, <2>3, <2>4
  <1>5. ASSUME NEW r \in Role, in[r] # <<>> PROVE Rest(r) \in Queues /\ Head(in[r]) \in Message
    BY <1>5 DEF TypeOK, Rest
  <1>6. ASSUME NEW r \in Role, DialServer(r) PROVE TypeOK'
    <2>1. at' \in [Role -> 1..12] /\ result' \in ResultType
      <3>1. at[r] = 1
        BY <1>1, <1>6, PageSteps, GoSteps, Sides DEF DialServer, Place, At, Step
      <3>2. Advance(r) => at' \in AtType /\ result' \in ResultType
        <4>1. at \in AtType /\ result \in ResultType
          BY DEF TypeOK
        <4> HIDE DEF ResultType
        <4> QED
          BY <3>1, <4>1 DEF Advance
      <3> QED
        BY <1>4, <1>6, <3>2 DEF DialServer
    <2>2. ws' \in WsType
      BY <1>6 DEF DialServer, TypeOK
    <2>3. in' \in Queues
      <3> DEFINE q == <<[type |-> "init", key |-> None, num |-> 0]>>
      <3>1. q \in Seq(Message) /\ in \in Queues
        <4>1. <<[type |-> "init", key |-> None, num |-> 0]>> \in Seq(Message)
          BY HandshakeAssumption DEF Message
        <4> QED
          BY <4>1 DEF TypeOK
      <3>2. in' = in \/ in' = [in EXCEPT ![r] = q]
        BY <1>6 DEF DialServer
      <3> HIDE DEF q
      <3> QED
        BY <3>1, <3>2
    <2> QED
      BY <1>6, <2>1, <2>2, <2>3 DEF DialServer, TypeOK
  <1>7. ASSUME NEW r \in Role, GiveSlot(r) \/ NewPeerConnection(r) \/ StartWatch(r) PROVE TypeOK'
    <2>1. at' \in AtType /\ result' \in ResultType
      BY <1>3, <1>4, <1>7 DEF GiveSlot, NewPeerConnection, StartWatch, At, GoStep
    <2>2. CASE GiveSlot(r)
      BY <2>1, <2>2 DEF GiveSlot, TypeOK
    <2>3. CASE NewPeerConnection(r)
      <3>1. PICK p \in {"none", "new", "closed"} : pc' = [pc EXCEPT ![r] = p]
        BY <2>3 DEF NewPeerConnection, TypeOK
      <3> QED
        BY <2>1, <2>3, <3>1 DEF NewPeerConnection, TypeOK
    <2>4. CASE StartWatch(r)
      BY <2>1, <2>4 DEF StartWatch, TypeOK
    <2> QED
      BY <1>7, <2>2, <2>3, <2>4
  <1>8. ASSUME NEW r \in Role, SendMessage(r) PROVE TypeOK'
    <2>1. at' \in [Role -> 1..12] /\ result' \in ResultType
      BY <1>3, <1>4, <1>8 DEF SendMessage, GoStep, SendStep
    <2>2. in' \in Queues
      <3>1. Sends(Step(r)) \in {"init", "pakeA", "pakeB"} \cup Sealed /\ Sends(Step(r)) # "cand"
        BY <1>8 DEF SendMessage, SendStep, Sends, Sealed
      <3>2. in \in Queues
        BY DEF TypeOK
      <3> QED
        BY <1>8, <3>1, <3>2, SentType DEF SendMessage, Deliver
    <2> QED
      BY <1>8, <2>1, <2>2 DEF SendMessage, TypeOK
  <1>9. ASSUME NEW r \in Role, ReadMessage(r) PROVE TypeOK'
    <2>1. at' \in [Role -> 1..12] /\ result' \in ResultType
      BY <1>3, <1>4, <1>9 DEF ReadMessage, GoStep, ReadStep
    <2>2. in' \in Queues
      BY <1>5, <1>9 DEF ReadMessage, Rest
    <2>3. ws' \in WsType
      BY <1>2, <1>9 DEF ReadMessage, TypeOK
    <2> QED
      BY <1>9, <2>1, <2>2, <2>3 DEF ReadMessage, TypeOK
  <1>10. ASSUME NEW r \in Role, ReadFails(r) PROVE TypeOK'
    BY <1>4, <1>10 DEF ReadFails, TypeOK
  <1>11. ASSUME NEW r \in Role, SetDescription(r) PROVE TypeOK'
    <2>1. at' \in [Role -> 1..12] /\ result' \in ResultType
      BY <1>3, <1>4, <1>11 DEF SetDescription, At, GoStep
    <2> QED
      BY <1>11, <2>1 DEF SetDescription, TypeOK
  <1>12. ASSUME NEW r \in Role, Select(r) PROVE TypeOK'
    <2>1. ws' \in WsType
      BY <1>2, <1>12 DEF Select, TypeOK
    <2>2. at' \in [Role -> 1..12] /\ result' \in ResultType
      BY <1>4, <1>12 DEF Select
    <2> QED
      BY ZenonT(40), <1>12, <2>1, <2>2 DEF Select, TypeOK
  <1>13. ASSUME NEW r \in Role, LocalCandidate(r) PROVE TypeOK'
    <2>1. in' \in Queues
      <3>1. in \in Queues /\ "cand" \in Sealed
        BY DEF TypeOK, Sealed
      <3> QED
        BY <1>13, <3>1, SentType DEF LocalCandidate, Deliver
    <2>2. cands' \in [Role -> 0..MaxCand] /\ cands[r] < MaxCand
      BY <1>13, HandshakeAssumption DEF LocalCandidate, TypeOK
    <2> QED
      BY <1>13, <2>1, <2>2 DEF LocalCandidate, TypeOK
  <1>14. ASSUME NEW r \in Role, RemoteCandidate(r) PROVE TypeOK'
    <2>1. in' \in Queues
      BY <1>5, <1>14 DEF RemoteCandidate, Rest
    <2>2. Head(in[r]).num \in 0..MaxCand
      BY <1>5, <1>14 DEF RemoteCandidate, Message
    <2>3. added' \in Numbers
      BY <1>14, <2>2 DEF RemoteCandidate, TypeOK
    <2> QED
      BY <1>14, <2>1, <2>3 DEF RemoteCandidate, TypeOK
  <1>15. ASSUME NEW r \in Role, WatchEnds(r) \/ ChannelEvent(r) \/ CtxDone(r) \/ CancelPc(r)
         PROVE  TypeOK'
    <2>1. CASE WatchEnds(r)
      BY <2>1 DEF WatchEnds, TypeOK
    <2>2. CASE ChannelEvent(r)
      BY <2>2 DEF ChannelEvent, TypeOK
    <2>3. CASE CtxDone(r)
      BY <2>3 DEF CtxDone, TypeOK
    <2>4. CASE CancelPc(r)
      BY <2>4 DEF CancelPc, TypeOK
    <2> QED
      BY <1>15, <2>1, <2>2, <2>3, <2>4
  <1>16. ASSUME NEW r \in Role, CancelWs(r) \/ Exit(r) \/ WebClose(r) PROVE TypeOK'
    <2>1. ws' \in WsType
      BY <1>2, <1>16 DEF CancelWs, Exit, WebClose
    <2>2. CASE CancelWs(r)
      BY <2>1, <2>2 DEF CancelWs, TypeOK
    <2>3. CASE Exit(r)
      BY <2>1, <2>3 DEF Exit, TypeOK
    <2>4. CASE WebClose(r)
      BY <2>1, <2>4 DEF WebClose, TypeOK
    <2> QED
      BY <1>16, <2>2, <2>3, <2>4
  <1>17. CASE Connect
    BY <1>17 DEF Connect, TypeOK
  <1>18. ASSUME NEW r \in Role, WebInit(r) \/ WebPake(r) PROVE TypeOK'
    <2>1. /\ fn[r] \in WebFns /\ at[r] # ErrorState /\ in[r] # <<>>
          /\ Step(r) \notin {"dial", "candidates", "failed"}
          /\ at' = [at EXCEPT ![r] = at[r] + 1] \/ at' = [at EXCEPT ![r] = 7]
      BY <1>18 DEF WebInit, WebPake, WebFail, FailedState, Gets, Enter
    <2>2. at' \in [Role -> 1..12]
      <3>1. at[r] + 1 \in 1..12 /\ 7 \in 1..12
        BY <1>1, <2>1, PageNext
      <3>2. at \in [Role -> 1..12]
        BY DEF TypeOK
      <3> QED
        BY <2>1, <3>1, <3>2
    <2>3. in' \in Queues
      <3>1. \A type \in {"pakeA", "pakeB"} : Sent(Rest(r), r, type) \in Queues
        BY <1>5, <2>1, SentType
      <3> QED
        BY <1>5, <1>18, <2>1, <3>1 DEF WebInit, WebPake
    <2>4. result' \in ResultType
      BY <1>4, <1>18 DEF WebInit, WebPake, WebFail
    <2> QED
      BY ZenonT(40), <1>18, <2>2, <2>3, <2>4 DEF WebInit, WebPake, TypeOK
  <1>19. ASSUME NEW r \in Role, WebDescription(r) PROVE TypeOK'
    <2>1. /\ fn[r] \in WebFns /\ at[r] # ErrorState /\ in[r] # <<>>
          /\ Step(r) \notin {"dial", "candidates", "failed"}
      BY <1>19 DEF WebDescription, Gets
    <2>2. at' \in [Role -> 1..12]
      <3>1. at[r] + 1 \in 1..12
        BY <1>1, <2>1, PageNext
      <3> QED
        <4>1. Enter(r, at[r]) \/ Enter(r, at[r] + 1) \/ Enter(r, 8)
          BY <1>19 DEF WebDescription, ErrorState, Enter
        <4>2. at[r] \in 1..12 /\ 8 \in 1..12
          BY DEF TypeOK
        <4> QED
          BY <1>4, <3>1, <4>1, <4>2
    <2>3. in' \in Queues
      <3>1. Sent(Rest(r), r, "bye") \in Queues
        BY <1>5, <2>1, SentType DEF Sealed
      <3> QED
        BY <1>5, <1>19, <2>1, <3>1 DEF WebDescription
    <2>4. ws' \in WsType
      BY <1>2, <1>19 DEF WebDescription, TypeOK
    <2>5. result' \in ResultType
      BY <1>4, <1>19 DEF WebDescription
    <2> QED
      BY <1>19, <2>2, <2>3, <2>4, <2>5 DEF WebDescription, TypeOK
  <1>20. ASSUME NEW r \in Role, WebPromise(r) PROVE TypeOK'
    <2>1. fn[r] \in WebFns /\ at[r] # ErrorState /\ Step(r) \notin {"dial", "candidates", "failed"}
      BY <1>20 DEF WebPromise
    <2>2. at' \in [Role -> 1..12]
      <3>1. at[r] + 1 \in 1..12
        BY <1>1, <2>1, PageNext
      <3> QED
        BY <1>20, <3>1 DEF WebPromise, Enter, TypeOK
    <2>3. in' \in Queues
      BY <1>20, SentType DEF WebPromise, Deliver, TypeOK, Sealed
    <2>4. parked' \in Queues
      BY <1>20 DEF WebPromise, TypeOK
    <2>5. result' \in ResultType
      BY <1>4, <1>20 DEF WebPromise, TypeOK
    <2>6. added' \in Numbers
      <3> DEFINE new == {parked[r][i].num : i \in 1..Len(parked[r])}
      <3>1. \A i \in 1..Len(parked[r]) : parked[r][i] \in Message
        BY DEF TypeOK
      <3>2. new \subseteq 0..MaxCand
        BY <3>1 DEF Message
      <3>3. added' = [added EXCEPT ![r] = @ \cup new]
        BY <1>20 DEF WebPromise
      <3> HIDE DEF new
      <3> QED
        BY <3>2, <3>3 DEF TypeOK
    <2> QED
      BY <1>20, <2>2, <2>3, <2>4, <2>5, <2>6 DEF WebPromise, TypeOK
  <1>21. ASSUME NEW r \in Role, WebCandidate(r) PROVE TypeOK'
    <2>1. in[r] # <<>>
      BY <1>21 DEF WebCandidate, Gets
    <2>2. in' \in Queues
      BY <1>5, <1>21, <2>1, SentType DEF WebCandidate, Sealed
    <2>3. parked' \in Queues
      <3>1. Append(parked[r], Head(in[r])) \in Seq(Message)
        BY <1>5, <2>1 DEF TypeOK
      <3> QED
        BY ZenonT(40), <1>21, <3>1 DEF WebCandidate, TypeOK
    <2>4. ws' \in WsType
      BY <1>2, <1>21 DEF WebCandidate, TypeOK
    <2>5. result' \in ResultType
      BY <1>4, <1>21 DEF WebCandidate, TypeOK
    <2>6. added' \in Numbers
      <3>1. Head(in[r]).num \in 0..MaxCand
        BY <1>5, <2>1 DEF Message
      <3>2. UNCHANGED added \/ added' = [added EXCEPT ![r] = @ \cup {Head(in[r]).num}]
        BY <1>21 DEF WebCandidate
      <3>3. added[r] \cup {Head(in[r]).num} \in SUBSET (0..MaxCand) /\ added \in Numbers
        BY <3>1 DEF TypeOK
      <3> QED
        BY <3>2, <3>3
    <2> QED
      BY <1>21, <2>2, <2>3, <2>4, <2>5, <2>6 DEF WebCandidate, TypeOK
  <1>22. ASSUME NEW r \in Role, WebClosed(r) PROVE TypeOK'
    BY <1>4, <1>22 DEF WebClosed, TypeOK
  <1>24. ASSUME NEW r \in Role, WebRejected(r) PROVE TypeOK'
    BY <1>4, <1>24 DEF WebRejected, FailedState, TypeOK
  <1>23. CASE UNCHANGED vars
    BY <1>23 DEF vars, TypeOK
  <1> QED
    BY <1>6, <1>7, <1>8, <1>9, <1>10, <1>11, <1>12, <1>13, <1>14, <1>15, <1>16, <1>17, <1>18,
       <1>19, <1>20, <1>21, <1>22, <1>23, <1>24
    DEF Next, Main, Watcher, Canceller, WebSteps

-----------------------------------------------------------------------------
(* Moves.                                                                  *)

(* The numbers of messages at any position.                                *)
LEMMA Levels ==
    ASSUME TypeOK, NEW r \in Role, Place(r)
    PROVE  Seen(r) \in 0..3 /\ Tell(r) \in 1..3 /\ (Failed(r) => Tell(r) = 2)
  <1>1. fn[r] \in GoFns \cup WebFns
    BY Sides
  <1>2. CASE at[r] \in 1..Len(Steps(fn[r]))
    <2>1. CASE fn[r] \in GoFns
      BY <1>2, <2>1, Sides, GoSteps DEF Seen, Tell, Failed
    <2>2. CASE fn[r] \in WebFns
      BY <1>2, <2>2, PageSteps DEF Seen, Tell, Failed, FailedState
    <2> QED
      BY <1>1, <2>1, <2>2
  <1>3. CASE fn[r] \in WebFns /\ at[r] = ErrorState
    BY <1>3 DEF WebFns, Seen, Tell, SeenAt, TellAt, ErrorState, FailedState, Failed, GoHost, GoJoin
  <1> QED
    BY <1>2, <1>3 DEF Place

(* A step of package wormhole that is done.                                *)
LEMMA GoMove ==
    ASSUME TypeOK, NEW r \in Role, Place(r), result[r] = "none", Step(r) \in GoStep, Step(r) # "select",
           Advance(r), UNCHANGED fn
    PROVE  /\ Seen(r)' = IF Step(r) \in ReadStep THEN Seen(r) + 1 ELSE Seen(r)
           /\ Tell(r)' = IF Step(r) \in SendStep THEN Tell(r) + 1 ELSE Tell(r)
           /\ \A x \in Role : x # r => Seen(x)' = Seen(x) /\ Tell(x)' = Tell(x) /\ at'[x] = at[x]
           /\ at'[r] = at[r] + 1 /\ fn'[r] \in GoFns /\ at'[r] \in 1..Len(Steps(fn[r])) /\ at'[r] > 2
           /\ ~Failed(r) /\ ~Failed(r)' /\ \A x \in Role : Failed(x)' <=> Failed(x)
  <1>1. /\ fn[r] \in GoFns /\ at[r] \in 1..Len(Steps(fn[r])) /\ at[r] \in 2..12
        /\ at[r] + 1 \in 1..Len(Steps(fn[r]))
    BY GoAt
  <1>2. at'[r] = at[r] + 1 /\ \A x \in Role : x # r => at'[x] = at[x]
    BY DEF Advance, TypeOK
  <1>3. Seen(r)' = SeenAt(fn[r])[at[r] + 1] /\ Tell(r)' = TellAt(fn[r])[at[r] + 1]
    BY <1>2 DEF Seen, Tell
  <1>4. /\ Seen(r)' = IF Step(r) \in ReadStep THEN Seen(r) + 1 ELSE Seen(r)
        /\ Tell(r)' = IF Step(r) \in SendStep THEN Tell(r) + 1 ELSE Tell(r)
    BY <1>1, <1>3, GoSteps DEF Seen, Tell, Step
  <1>5. ~Failed(r) /\ ~Failed(r)' /\ \A x \in Role : Failed(x)' <=> Failed(x)
    BY <1>1, <1>2, Sides DEF Failed
  <1> QED
    BY <1>1, <1>2, <1>4, <1>5 DEF Seen, Tell

(* A page enters another state.                                            *)
LEMMA PageMove ==
    ASSUME TypeOK, NEW r \in Role, Place(r), fn[r] \in WebFns, at[r] # ErrorState, UNCHANGED fn,
           NEW n \in 1..12, Enter(r, n)
    PROVE  /\ Seen(r) = SeenAt(fn[r])[at[r]] /\ Tell(r) = TellAt(fn[r])[at[r]]
           /\ Seen(r)' = SeenAt(fn[r])[n] /\ Tell(r)' = TellAt(fn[r])[n] /\ at'[r] = n
           /\ at[r] \in 1..Len(Steps(fn[r])) /\ (Failed(r)' <=> n = FailedState)
           /\ \A x \in Role : x # r => /\ Seen(x)' = Seen(x) /\ Tell(x)' = Tell(x) /\ at'[x] = at[x]
                                      /\ Failed(x)' <=> Failed(x)
  BY PageAt DEF Enter, Seen, Tell, Failed, TypeOK

(* What has not moved.                                                     *)
LEMMA NoMove ==
    ASSUME NEW x \in Role, UNCHANGED fn, at'[x] = at[x]
    PROVE  Seen(x)' = Seen(x) /\ Tell(x)' = Tell(x) /\ (Failed(x)' <=> Failed(x))
  BY DEF Seen, Tell, Failed

-----------------------------------------------------------------------------
(* The messages on their way.                                              *)

(* Nothing read and nothing written on the connection to r.                *)
LEMMA QueueKept ==
    ASSUME NEW r \in Role, Queue(r), Reads(r)' => Reads(r), UNCHANGED <<samePass, in[r]>>,
           Seen(r)' = Seen(r), Tell(Peer(r))' = Tell(Peer(r)), BothOpen' => BothOpen,
           Failed(Peer(r)) => Failed(Peer(r))'
    PROVE  Queue(r)'
  BY DEF Queue

(* r has read a message.                                                   *)
LEMMA QueueRead ==
    ASSUME TypeOK, NEW r \in Role, Queue(r), Reads(r), UNCHANGED samePass, in[r] # <<>>,
           in'[r] = Tail(in[r]), Seen(r) \in 0..3, Tell(Peer(r)) \in 1..3,
           Seen(r)' = Seen(r) + 1 \/ (Seen(r) = 3 /\ Seen(r)' = 3),
           Tell(Peer(r))' = Tell(Peer(r)), BothOpen' => BothOpen, Failed(Peer(r)) => Failed(Peer(r))'
    PROVE  Queue(r)'
  <1>1. /\ Len(in[r]) \in Nat /\ Len(in[r]) > 0 /\ Len(in'[r]) = Len(in[r]) - 1
        /\ \A i \in 1..Len(in'[r]) : in'[r][i] = in[r][i + 1]
    BY DEF TypeOK
  <1>2. ASSUME NEW i \in 1..Len(in'[r]) PROVE in'[r][i] \in Nth(r, Seen(r)' + i, samePass)
    <2>1. in'[r][i] \in Nth(r, Seen(r) + (i + 1), samePass)
      BY <1>1 DEF Queue
    <2>2. CASE Seen(r)' = Seen(r) + 1
      <3>1. Seen(r)' + i = Seen(r) + (i + 1)
        BY <2>2
      <3> QED
        BY <2>1, <3>1
    <2>3. CASE Seen(r) = 3 /\ Seen(r)' = 3
      BY <2>1, <2>3 DEF Nth
    <2> QED
      BY <2>2, <2>3
  <1>3. \A i \in 1..Len(in'[r]) : in'[r][i] \in Nth(r, Seen(r)' + i, samePass')
    BY <1>2
  <1>4. UpTo(3, Seen(r) + Len(in[r])) = UpTo(3, Seen(r)' + Len(in'[r]))
    BY <1>1 DEF UpTo
  <1> QED
    BY <1>3, <1>4 DEF Queue, UpTo

(* The peer of r has written a message.                                    *)
LEMMA QueueSent ==
    ASSUME TypeOK, NEW r \in Role, Queue(r), Reads(r)' => Reads(r), UNCHANGED samePass,
           Seen(r) \in 0..3, Seen(r)' = Seen(r), Tell(Peer(r)) \in 1..3, NEW m \in Message,
           \/ Tell(Peer(r))' = Tell(Peer(r)) + 1 /\ Tell(Peer(r))' \in 1..3
           \/ Tell(Peer(r)) = 3 /\ Tell(Peer(r))' = 3,
           m \in Nth(r, Tell(Peer(r)) + 1, samePass),
           in'[r] = IF BothOpen THEN Append(in[r], m) ELSE in[r], BothOpen' => BothOpen,
           ~Failed(Peer(r))
    PROVE  Queue(r)'
  <1> SUFFICES ASSUME Reads(r) PROVE Queue(r)'
    BY DEF Queue
  <1>1. in[r] \in Seq(Message) /\ Len(in[r]) \in Nat
    BY DEF TypeOK
  <1>2. /\ \A i \in 1..Len(in[r]) : in[r][i] \in Nth(r, Seen(r) + i, samePass)
        /\ UpTo(3, Seen(r) + Len(in[r])) <= Tell(Peer(r))
        /\ BothOpen => UpTo(3, Seen(r) + Len(in[r])) = Tell(Peer(r))
    BY DEF Queue
  <1>3. CASE ~BothOpen
    <2>1. \A i \in 1..Len(in'[r]) : in'[r][i] \in Nth(r, Seen(r)' + i, samePass')
      BY <1>1, <1>2, <1>3
    <2>2. UpTo(3, Seen(r)' + Len(in'[r])) <= Tell(Peer(r))'
      BY <1>1, <1>2, <1>3 DEF UpTo
    <2> QED
      BY <1>3, <2>1, <2>2 DEF Queue
  <1>4. CASE BothOpen
    <2>1. /\ Len(in'[r]) = Len(in[r]) + 1
          /\ \A i \in 1..Len(in'[r]) : in'[r][i] = IF i = Len(in[r]) + 1 THEN m ELSE in[r][i]
      BY <1>1, <1>4
    <2>2. m \in Nth(r, Seen(r) + (Len(in[r]) + 1), samePass)
      <3>1. CASE Tell(Peer(r)) < 3
        <4>1. Seen(r) + (Len(in[r]) + 1) = Tell(Peer(r)) + 1
          BY <1>1, <1>2, <1>4, <3>1 DEF UpTo
        <4> QED
          BY <4>1
      <3>2. CASE Tell(Peer(r)) = 3
        <4>1. Seen(r) + (Len(in[r]) + 1) > 3
          BY <1>1, <1>2, <1>4, <3>2 DEF UpTo
        <4> QED
          BY <3>2, <4>1 DEF Nth
      <3> QED
        BY <3>1, <3>2
    <2>3. ASSUME NEW i \in 1..Len(in'[r]) PROVE in'[r][i] \in Nth(r, Seen(r)' + i, samePass')
      BY <1>1, <1>2, <2>1, <2>2
    <2>4. UpTo(3, Seen(r)' + Len(in'[r])) = Tell(Peer(r))'
      BY <1>1, <1>2, <1>4, <2>1 DEF UpTo
    <2> QED
      BY <2>3, <2>4 DEF Queue
  <1> QED
    BY <1>3, <1>4

(* What writing a message does to the queues.                              *)
LEMMA SentAt ==
    ASSUME TypeOK, NEW r \in Role, NEW q \in [Role -> Seq(Message)], NEW type
    PROVE  /\ Sent(q, r, type)[r] = q[r]
           /\ Sent(q, r, type)[Peer(r)] =
                  IF BothOpen
                  THEN Append(q[Peer(r)], Msg(r, type)) ELSE q[Peer(r)]
  <1>1. Peer(r) \in Role /\ Peer(r) # r /\ Role = {r, Peer(r)}
    BY Sides
  <1> QED
    BY <1>1 DEF Sent, BothOpen

(* The message a side reads next.                                          *)
LEMMA HeadIs ==
    ASSUME TypeOK, HandshakeInv, NEW r \in Role, Reads(r), in[r] # <<>>
    PROVE  /\ Head(in[r]) \in Nth(r, Seen(r) + 1, samePass)
           /\ Seen(r) < 3 => Seen(r) + 1 <= Tell(Peer(r))
  <1>1. Place(r) /\ Queue(r) /\ Place(Peer(r)) /\ Peer(r) \in Role
    BY Sides DEF HandshakeInv
  <1>2. Seen(r) \in 0..3 /\ Tell(Peer(r)) \in 1..3
    BY <1>1, Levels
  <1>3. Head(in[r]) = in[r][1] /\ Len(in[r]) \in Nat /\ Len(in[r]) >= 1
    BY DEF TypeOK
  <1> QED
    BY <1>1, <1>2, <1>3 DEF Queue, UpTo

(* Sealed messages open exactly if the passwords agree.                    *)
LEMMA Opening ==
    ASSUME TypeOK, NEW r \in Role, NEW n \in {3, 4}, NEW m \in Nth(r, n, samePass)
    PROVE  Opens(r, m) <=> samePass
  <1>1. Peer(r) # r /\ Peer(r) \in Role
    BY Sides
  <1>2. m.key = IF samePass THEN "shared" ELSE Peer(r)
    BY DEF Nth
  <1> QED
    BY <1>1, <1>2 DEF Opens, KeyOf, TypeOK

(* How far host and joiner are with what they send when they have read.    *)
LEMMA HostLevels ==
    ASSUME TypeOK, Place("host")
    PROVE  /\ Tell("host") >= 2 => Seen("host") >= 2
           /\ at["host"] > 2 => Seen("host") >= 1
  <1>1. fn["host"] \in GoHost \cup {"Player1"} /\ GoHost \subseteq GoFns /\ "Player1" \in WebFns
    BY Sides DEF GoFns, WebFns
  <1>2. CASE at["host"] \in 1..Len(Steps(fn["host"])) /\ fn["host"] \in GoHost
    BY <1>1, <1>2, GoMessages DEF Seen, Tell
  <1>3. CASE at["host"] \in 1..Len(Steps(fn["host"])) /\ fn["host"] = "Player1"
    BY <1>1, <1>3, PageSteps DEF Seen, Tell
  <1>4. CASE fn["host"] \in WebFns /\ at["host"] = 8
    BY <1>4 DEF Seen, SeenAt, WebFns, GoHost, GoJoin
  <1> QED
    BY <1>1, <1>2, <1>3, <1>4 DEF Place, ErrorState

LEMMA JoinLevels ==
    ASSUME TypeOK, Place("joiner"), Tell("joiner") = 3
    PROVE  \/ Seen("joiner") = 3
           \/ fn["joiner"] \in WebFns /\ at["joiner"] = ErrorState /\ ws["joiner"] = "closed"
  <1>1. fn["joiner"] \in GoJoin \cup {"Player2"} /\ GoJoin \subseteq GoFns /\ "Player2" \in WebFns
    BY Sides DEF GoFns, WebFns
  <1>2. CASE at["joiner"] = ErrorState /\ ws["joiner"] = "closed" /\ fn["joiner"] \in WebFns
    BY <1>2
  <1>3. CASE at["joiner"] \in 1..Len(Steps(fn["joiner"])) /\ fn["joiner"] \in GoJoin
    <2>1. TellAt(fn["joiner"])[at["joiner"]] = 3
      BY DEF Tell
    <2>2. SeenAt(fn["joiner"])[at["joiner"]] = 3
      BY <1>1, <1>3, <2>1, GoMessages
    <2> QED
      BY <2>2 DEF Seen
  <1>4. CASE at["joiner"] \in 1..Len(Steps(fn["joiner"])) /\ fn["joiner"] = "Player2"
    <2>1. TellAt(fn["joiner"])[at["joiner"]] = 3
      BY DEF Tell
    <2>2. SeenAt(fn["joiner"])[at["joiner"]] = 3
      BY <1>1, <1>4, <2>1, PageSteps
    <2> QED
      BY <2>2 DEF Seen
  <1> QED
    BY <1>1, <1>2, <1>3, <1>4 DEF Place

(* A move of one side keeps the order of reading and writing.              *)
LEMMA CausalMove ==
    ASSUME Causal, UNCHANGED samePass, NEW r \in Role,
           Seen(Peer(r))' = Seen(Peer(r)), Tell(Peer(r))' = Tell(Peer(r)),
           Seen(r) \in 0..3, Tell(r) \in 1..3, Seen(Peer(r)) \in 0..3, Tell(Peer(r)) \in 1..3,
           Tell(r)' \in 1..3, Tell(r)' >= Tell(r), Seen(r)' \in 0..3, Seen(r)' <= Tell(Peer(r)),
           Seen(r)' = 3 => samePass,
           r = "joiner" /\ Tell(r)' = 3 => Tell("host") = 3
    PROVE  Causal'
  <1>1. Role = {r, Peer(r)} /\ Peer(Peer(r)) = r /\ Role = {"host", "joiner"}
    BY Sides DEF Role
  <1>2. CASE r = "host"
    <2>1. Peer(r) = "joiner" /\ Peer("host") = "joiner" /\ Peer("joiner") = "host"
      BY <1>2 DEF Peer
    <2> QED
      BY <1>1, <1>2, <2>1 DEF Causal
  <1>3. CASE r = "joiner"
    <2>1. Peer(r) = "host" /\ Peer("host") = "joiner" /\ Peer("joiner") = "host"
      BY <1>3 DEF Peer
    <2> QED
      BY <1>1, <1>3, <2>1 DEF Causal
  <1> QED
    BY <1>1, <1>2, <1>3

Order == Causal /\ \A x \in Role : Queue(x) /\ result[x] # "confused"

(* A step that neither moves a side nor reads or writes a message.         *)
LEMMA OrderKept ==
    ASSUME HandshakeInv, UNCHANGED <<fn, samePass, at, in>>, BothOpen' => BothOpen,
           \A x \in Role : result'[x] # result[x] => result[x] = "none" /\ result'[x] # "confused"
    PROVE  Order'
  <1>1. \A x \in Role : Seen(x)' = Seen(x) /\ Tell(x)' = Tell(x)
    BY DEF Seen, Tell
  <1>2. Causal'
    BY <1>1, Sides DEF Causal, HandshakeInv, Role
  <1>3. ASSUME NEW x \in Role PROVE Queue(x)'
    <2>1. (Reads(x)' => Reads(x)) /\ (Failed(Peer(x)) => Failed(Peer(x))')
      BY <1>1, <1>3 DEF Reads, Failed
    <2>2. Peer(x) \in Role /\ Queue(x)
      BY Sides DEF HandshakeInv
    <2>3. Seen(x)' = Seen(x) /\ Tell(Peer(x))' = Tell(Peer(x)) /\ in'[x] = in[x] /\ samePass' = samePass
      BY <1>1, <2>2
    <2> QED
      BY <2>1, <2>2, <2>3, QueueKept
  <1> QED
    BY <1>2, <1>3 DEF Order, HandshakeInv, Success

(* The steps of package wormhole that read and write nothing.              *)
LEMMA OrderSilent ==
    ASSUME TypeOK, HandshakeInv, NEW r \in Role, result[r] = "none", Step(r) \in GoStep,
           Step(r) \notin ReadStep \cup SendStep \cup {"select"},
           Advance(r), UNCHANGED <<fn, samePass, ws, in>>
    PROVE  Order'
  <1>1. \A x \in Role : Seen(x)' = Seen(x) /\ Tell(x)' = Tell(x) /\ (Failed(x)' <=> Failed(x))
    BY GoMove DEF HandshakeInv
  <1>2. \A x \in Role : Reads(x)' => Reads(x)
    <2>1. fn[r] \notin WebFns
      BY GoAt, Sides DEF HandshakeInv
    <2> QED
      BY <1>1, <2>1 DEF Reads, Advance, TypeOK
  <1>3. Causal'
    BY <1>1, Sides DEF Causal, HandshakeInv, Role
  <1>4. ASSUME NEW x \in Role PROVE Queue(x)'
    BY <1>1, <1>2, <1>4, Sides, QueueKept DEF HandshakeInv, BothOpen
  <1> QED
    BY <1>3, <1>4 DEF Order, HandshakeInv, Success, Advance

(* The two sides connect to the server.                                    *)
LEMMA OrderDial ==
    ASSUME TypeOK, HandshakeInv, NEW r \in Role, DialServer(r)
    PROVE  Order'
  <1> DEFINE p == Peer(r)
  <1>1. p \in Role /\ p # r /\ Peer(p) = r /\ Role = {r, p} /\ Place(r) /\ Place(p) /\ Queue(r) /\ Queue(p)
    BY Sides DEF HandshakeInv
  <1>2. CASE Return(r, "error") /\ UNCHANGED signal
    BY <1>2, OrderKept DEF DialServer, Return, At, signal, BothOpen, TypeOK
  <1>3. CASE Advance(r)
    <2>1. at[r] = 1 /\ ws[r] = "none" /\ in[r] = <<>>
      BY <1>1, GoSteps, PageSteps, Sides DEF DialServer, At, Step, Place
    <2>2. Seen(r) = 0 /\ Seen(r)' = 0 /\ Tell(r) = 1 /\ Tell(r)' = 1
      <3>1. Seen(r) = SeenAt(fn[r])[1] /\ Seen(r)' = SeenAt(fn[r])[2]
            /\ Tell(r) = TellAt(fn[r])[1] /\ Tell(r)' = TellAt(fn[r])[2]
        BY <1>3, <2>1 DEF DialServer, Advance, Seen, Tell, TypeOK
      <3>2. fn[r] \in GoHost \cup GoJoin \cup {"Player1", "Player2"}
        BY Sides DEF GoFns, WebFns
      <3> QED
        BY <3>1, <3>2 DEF SeenAt, TellAt, GoHost, GoJoin
    <2>3. Seen(p)' = Seen(p) /\ Tell(p)' = Tell(p) /\ at'[p] = at[p]
      BY <1>1, <1>3 DEF DialServer, Advance, Seen, Tell, TypeOK
    <2>4. Seen(p) \in 0..3 /\ Tell(p) \in 1..3 /\ Seen(r) \in 0..3 /\ Tell(r) \in 1..3
      BY <1>1, Levels
    <2>5. Causal'
      BY <1>1, <1>3, <2>2, <2>3, <2>4, CausalMove DEF DialServer, HandshakeInv
    <2>6. /\ in'[p] = in[p] /\ ws'[p] = ws[p] /\ UNCHANGED <<fn, samePass, result>>
          /\ ws'[r] # "open" => in'[r] = <<>>
          /\ ws'[r] = "open" => in'[r] = <<[type |-> "init", key |-> None, num |-> 0]>>
      BY <1>1, <1>3, <2>1 DEF DialServer, Advance, Return, TypeOK
    <2>7. BothOpen' => r = "joiner" /\ at["host"] > 2 /\ p = "host"
      <3>1. r = "host" => ws[p] = "none"
        BY <1>1, <2>1, Sides DEF Peer, Place, Role, TypeOK
      <3> QED
        BY <1>1, <1>3, <2>6, <3>1 DEF BothOpen, DialServer, Role, Peer
    <2>8. BothOpen' => Tell(p) = 1 /\ Seen(p) = 1
      <3>1. BothOpen' => (Tell(p) >= 2 => Seen(p) >= 2) /\ Seen(p) >= 1
        BY <1>1, <2>7, HostLevels
      <3>2. Seen(p) <= Tell(r)
        BY <1>1 DEF HandshakeInv, Causal
      <3> QED
        BY <2>2, <2>4, <3>1, <3>2
    <2>9. Queue(r)'
      <3>1. CASE ws'[r] = "open"
        <4>1. Len(in'[r]) = 1 /\ in'[r][1] = [type |-> "init", key |-> None, num |-> 0]
          BY <2>6, <3>1
        <4>2. in'[r][1] \in Nth(r, 1, samePass')
          BY <4>1 DEF Nth
        <4>3. UpTo(3, 0 + 1) = 1
          BY DEF UpTo
        <4> QED
          BY <2>2, <2>3, <2>4, <2>8, <4>1, <4>2, <4>3 DEF Queue
      <3>2. CASE ws'[r] # "open"
        <4>1. ~BothOpen' /\ in'[r] = <<>>
          BY <2>6, <3>2 DEF BothOpen
        <4> QED
          BY <2>2, <2>3, <2>4, <4>1 DEF Queue, UpTo
      <3> QED
        BY <3>1, <3>2
    <2>10. Queue(p)'
      <3>1. Reads(p)' => Reads(p)
        BY <2>3, <2>6 DEF Reads
      <3>2. Reads(p) => UpTo(3, Seen(p) + Len(in[p])) <= 1 /\ Len(in[p]) \in Nat
        BY <1>1, <2>2 DEF Queue, TypeOK
      <3>3. BothOpen' /\ Reads(p) => UpTo(3, Seen(p) + Len(in[p])) = 1
        BY <2>8, <3>2 DEF UpTo
      <3> QED
        BY <1>1, <2>2, <2>3, <2>6, <3>1, <3>3 DEF Queue
    <2> QED
      BY <1>1, <2>5, <2>6, <2>9, <2>10 DEF Order, HandshakeInv, Success
  <1> QED
    BY <1>2, <1>3 DEF DialServer

(* A function of package wormhole writes its next message.                 *)
LEMMA OrderSend ==
    ASSUME TypeOK, HandshakeInv, NEW r \in Role, SendMessage(r)
    PROVE  Order'
  <1> DEFINE p == Peer(r)
             type == Sends(Step(r))
             m == Msg(r, type)
  <1>1. p \in Role /\ p # r /\ Peer(p) = r /\ Role = {r, p} /\ Place(r) /\ Place(p) /\ Queue(r) /\ Queue(p)
    BY Sides DEF HandshakeInv
  <1>2. result[r] = "none" /\ Step(r) \in SendStep /\ Step(r) \in GoStep /\ UNCHANGED <<fn, samePass, ws>>
    BY DEF SendMessage, GoStep
  <1>3. CASE Return(r, "error") /\ UNCHANGED in
    BY <1>2, <1>3, OrderKept DEF Return, BothOpen, TypeOK
  <1>4. CASE Deliver(r, type) /\ Advance(r)
    <2>1. fn[r] \in GoFns /\ at[r] \in 1..Len(Steps(fn[r]))
      BY <1>1, <1>2, GoAt
    <2>2. /\ Step(r) \notin ReadStep /\ Step(r) # "select"
          /\ Seen(r)' = Seen(r) /\ Tell(r)' = Tell(r) + 1 /\ Seen(p)' = Seen(p) /\ Tell(p)' = Tell(p)
          /\ ~Failed(r) /\ (Failed(p)' <=> Failed(p))
      <3>1. Step(r) \notin ReadStep /\ Step(r) # "select"
        BY <1>2 DEF SendStep, ReadStep
      <3> QED
        BY <1>1, <1>2, <1>4, <3>1, GoMove
    <2>3. Tell(r) < 3 /\ (Step(r) = "sendAnswer" => Seen(r) = 3 /\ r = "joiner")
      <3>1. Tell(r) < 3
        BY <1>2, <2>1, GoSteps DEF Tell, Step
      <3>2. Step(r) = "sendAnswer" => fn[r] \in GoJoin
        BY <2>1, GoMessages DEF Step, GoFns
      <3>3. Step(r) = "sendAnswer" => Seen(r) = 3
        BY <2>1, <3>2, GoMessages DEF Step, Seen
      <3>4. fn[r] \in GoJoin => r = "joiner"
        BY Sides DEF Role, GoJoin, GoHost
      <3> QED
        BY <3>1, <3>2, <3>3, <3>4
    <2>4. Seen(p) \in 0..3 /\ Tell(p) \in 1..3 /\ Seen(r) \in 0..3 /\ Tell(r) \in 1..3
      BY <1>1, Levels
    <2>5. m \in Nth(p, Tell(r) + 1, samePass) /\ m \in Message
      <3>1. KeyOf(r) = IF samePass THEN "shared" ELSE Peer(p)
        BY <1>1 DEF KeyOf
      <3>5. /\ m = [type |-> type, key |-> m.key, num |-> m.num]
            /\ m.key = IF type \in Sealed THEN KeyOf(r) ELSE None
            /\ type # "cand" => m.num = 0
            /\ type \in {"pakeA", "pakeB", "offer", "answer"} => m \in Message
        BY MsgIs DEF Sealed
      <3> HIDE DEF m
      <3>2. CASE Step(r) \in {"sendA", "sendB"}
        <4>1. Tell(r) = 1
          BY <2>1, <3>2, GoMessages DEF Tell, Step
        <4>2. type = IF p = "host" THEN "pakeA" ELSE "pakeB"
          <5>1. (fn[r] \in GoHost => r = "host") /\ (fn[r] \in GoJoin => r = "joiner")
            BY Sides DEF Role, GoJoin, GoHost
          <5>2. (Step(r) = "sendA" => fn[r] \notin GoHost) /\ (Step(r) = "sendB" => fn[r] \notin GoJoin)
            BY <2>1, GoMessages DEF Step
          <5> QED
            BY <1>1, <2>1, <3>2, <5>1, <5>2 DEF Sends, Peer, GoFns, Role
        <4>3. m.key = None /\ m.num = 0 /\ type \in {"pakeA", "pakeB", "offer", "answer"}
          BY <3>5, <4>2 DEF Sealed
        <4> QED
          BY <3>5, <4>1, <4>2, <4>3 DEF Nth
      <3>3. CASE Step(r) \in {"sendOffer", "sendAnswer"}
        <4>1. Tell(r) = 2
          BY <2>1, <3>3, GoMessages DEF Tell, Step
        <4>2. type = IF p = "joiner" THEN "offer" ELSE "answer"
          <5>1. (fn[r] \in GoHost => r = "host") /\ (fn[r] \in GoJoin => r = "joiner")
            BY Sides DEF Role, GoJoin, GoHost
          <5>2. (Step(r) = "sendAnswer" => fn[r] \notin GoHost) /\ (Step(r) = "sendOffer" => fn[r] \notin GoJoin)
            BY <2>1, GoMessages DEF Step
          <5> QED
            BY <1>1, <2>1, <3>3, <5>1, <5>2 DEF Sends, Peer, GoFns, Role
        <4>3. m.key = KeyOf(r) /\ m.num = 0 /\ type \in {"pakeA", "pakeB", "offer", "answer"}
          BY <3>5, <4>2 DEF Sealed
        <4> QED
          BY <3>1, <3>5, <4>1, <4>2, <4>3 DEF Nth
      <3> QED
        BY <1>2, <3>2, <3>3 DEF SendStep
    <2>6. /\ in'[r] = in[r]
          /\ in'[p] = IF BothOpen THEN Append(in[p], m) ELSE in[p]
      BY ZenonT(40), <1>4, SentAt DEF Deliver, TypeOK
    <2>7. \A x \in Role : Reads(x)' => Reads(x)
      <3>1. fn[r] \notin WebFns
        BY <2>1, Sides
      <3> QED
        BY <1>1, <1>2, <1>4, <2>2, <3>1 DEF Reads, Advance, TypeOK
    <2>8. Queue(r)'
      BY <1>1, <1>2, <2>2, <2>6, <2>7, QueueKept DEF BothOpen
    <2>9. Queue(p)'
      <3> HIDE DEF m, p
      <3> QED
        BY <1>1, <1>2, <2>2, <2>3, <2>4, <2>5, <2>6, <2>7, QueueSent DEF BothOpen
    <2>10. Causal'
      <3>1. r = "joiner" /\ Tell(r)' = 3 => Seen(r) = 3
        <4>1. fn[r] \in GoHost => r = "host"
          BY Sides DEF Role, GoJoin, GoHost
        <4>2. Step(r) = "sendA" => Tell(r) = 1
          BY <2>1, GoMessages DEF Tell, Step
        <4>3. r = "joiner" => Step(r) \notin {"sendB", "sendOffer"}
          BY <2>1, <4>1, GoMessages DEF Step, GoFns
        <4> QED
          BY <1>2, <2>2, <2>3, <4>2, <4>3 DEF SendStep
      <3>2. Seen(r) <= Tell(p) /\ (Seen(r) = 3 => samePass) /\ (r = "joiner" => p = "host")
        BY DEF HandshakeInv, Causal, Peer
      <3> QED
        BY <1>1, <1>2, <2>2, <2>3, <2>4, <3>1, <3>2, CausalMove DEF HandshakeInv
    <2> QED
      BY <1>1, <1>4, <2>8, <2>9, <2>10 DEF Order, HandshakeInv, Success, Advance
  <1> QED
    BY <1>3, <1>4 DEF SendMessage

(* A function of package wormhole reads a message: it is the expected one, *)
(* or does not open.                                                       *)
LEMMA OrderRead ==
    ASSUME TypeOK, HandshakeInv, NEW r \in Role, ReadMessage(r)
    PROVE  Order'
  <1> DEFINE p == Peer(r)
             m == Head(in[r])
  <1>1. p \in Role /\ p # r /\ Peer(p) = r /\ Role = {r, p} /\ Place(r) /\ Place(p) /\ Queue(r) /\ Queue(p)
    BY Sides DEF HandshakeInv
  <1>2. /\ result[r] = "none" /\ Step(r) \in ReadStep /\ Step(r) \in GoStep /\ UNCHANGED <<fn, samePass>>
        /\ in[r] # <<>> /\ in' = [in EXCEPT ![r] = Tail(@)]
    BY DEF ReadMessage, GoStep
  <1>3. fn[r] \in GoFns /\ at[r] \in 1..Len(Steps(fn[r])) /\ Reads(r)
    BY <1>1, <1>2, GoAt, Sides DEF Reads
  <1>4. Seen(p) \in 0..3 /\ Tell(p) \in 1..3 /\ Seen(r) \in 0..3 /\ Tell(r) \in 1..3 /\ Seen(r) < 3
    <2>1. Seen(r) < 3
      BY <1>2, <1>3, GoSteps DEF Seen, Step
    <2> QED
      BY <1>1, <2>1, Levels
  <1>5. m \in Nth(r, Seen(r) + 1, samePass) /\ Seen(r) + 1 <= Tell(p)
    BY <1>2, <1>3, <1>4, HeadIs
  <1>6. in'[r] = Tail(in[r]) /\ in'[p] = in[p]
    BY <1>1, <1>2 DEF TypeOK
  <1>7. /\ Expects(Step(r)) \in Sealed <=> Seen(r) = 2
        /\ Expects(Step(r)) \in Sealed => (Opens(r, m) <=> samePass)
        /\ (Expects(Step(r)) \in Sealed => Opens(r, m)) => m.type = Expects(Step(r))
    <2>1. (fn[r] \in GoHost => r = "host") /\ (fn[r] \in GoJoin => r = "joiner")
      BY Sides DEF Role, GoJoin, GoHost
    <2>2. /\ Step(r) = "readInit" => Seen(r) = 0
          /\ Step(r) \in {"readA", "readB"} => Seen(r) = 1
          /\ Step(r) \in {"readOffer", "readAnswer"} => Seen(r) = 2
          /\ Step(r) \in {"readA", "readAnswer"} => r = "host"
          /\ Step(r) \in {"readB", "readOffer"} => r = "joiner"
      BY <1>3, <2>1, GoMessages DEF Step, Seen, GoFns
    <2>3. Expects(Step(r)) \in Sealed <=> Step(r) \in {"readOffer", "readAnswer"}
      BY <1>2 DEF ReadStep, Expects, Sealed
    <2>4. Seen(r) = 2 => (Opens(r, m) <=> samePass)
      <3>1. CASE Seen(r) = 2
        <4>1. m \in Nth(r, 3, samePass)
          BY <1>5, <3>1
        <4> HIDE DEF m
        <4> QED
          BY <4>1, Opening
      <3> QED
        BY <3>1
    <2>5. CASE Step(r) = "readInit"
      BY <1>5, <2>2, <2>3, <2>5 DEF Nth, Expects
    <2>6. CASE Step(r) \in {"readA", "readB"}
      <3>1. m \in Nth(r, 2, samePass)
        BY <1>5, <2>2, <2>6
      <3>2. m.type = IF r = "host" THEN "pakeA" ELSE "pakeB"
        BY <3>1 DEF Nth
      <3>3. Expects(Step(r)) = IF r = "host" THEN "pakeA" ELSE "pakeB"
        BY <2>2, <2>6 DEF Expects
      <3>4. Expects(Step(r)) \notin Sealed
        BY <3>3 DEF Sealed
      <3> QED
        BY <2>2, <2>6, <3>2, <3>3, <3>4
    <2>7. CASE Step(r) \in {"readOffer", "readAnswer"}
      <3>1. samePass => m.type = Expects(Step(r))
        <4>1. m \in Nth(r, 3, samePass)
          BY <1>5, <2>2, <2>7
        <4>2. samePass => m.type = IF r = "joiner" THEN "offer" ELSE "answer"
          BY <4>1 DEF Nth
        <4>3. Expects(Step(r)) = IF r = "joiner" THEN "offer" ELSE "answer"
          BY <2>2, <2>7 DEF Expects
        <4> QED
          BY <4>2, <4>3
      <3> QED
        BY <2>2, <2>3, <2>4, <2>7, <3>1
    <2> QED
      BY <1>2, <2>5, <2>6, <2>7 DEF ReadStep
  <1>8. BothOpen' => BothOpen
    <2>1. CloseWs(r, "badKey") => \A x \in Role : ws'[x] = "open" => ws[x] = "open"
      BY Closing
    <2> QED
      BY <2>1 DEF ReadMessage, BothOpen
  <1>9. CASE Return(r, "badKey") \/ Return(r, "error")
    <2>1. /\ Seen(r)' = Seen(r) /\ Tell(r)' = Tell(r) /\ Seen(p)' = Seen(p) /\ Tell(p)' = Tell(p)
          /\ result'[r] \in {"badKey", "error"} /\ result'[p] = result[p] /\ (Failed(r)' <=> Failed(r))
      BY <1>1, <1>2, <1>9 DEF Return, Seen, Tell, Failed, TypeOK
    <2>2. ~Reads(r)'
      BY <1>2, <1>3, <1>4, <2>1, Sides DEF Reads
    <2>3. Queue(p)'
      <3>1. Reads(p)' => Reads(p)
        BY <1>2, <1>9, <2>1 DEF Reads, Return
      <3> QED
        BY <1>1, <1>2, <1>6, <1>8, <2>1, <3>1, QueueKept
    <2>4. Causal'
      BY <1>2, <2>1, Sides DEF Causal, HandshakeInv, Role, Peer
    <2> QED
      BY <1>1, <2>1, <2>2, <2>3, <2>4 DEF Order, Queue, HandshakeInv, Success
  <1>10. CASE Advance(r) /\ (Expects(Step(r)) \in Sealed => Opens(r, m))
    <2>1. /\ Seen(r)' = Seen(r) + 1 /\ Tell(r)' = Tell(r) /\ Seen(p)' = Seen(p) /\ Tell(p)' = Tell(p)
          /\ \A x \in Role : Failed(x)' <=> Failed(x)
      <3>1. Step(r) \notin SendStep /\ Step(r) # "select"
        BY <1>2 DEF SendStep, ReadStep
      <3> QED
        BY <1>1, <1>2, <1>10, <3>1, GoMove
    <2>2. Queue(r)'
      BY <1>1, <1>2, <1>3, <1>4, <1>6, <1>8, <2>1, QueueRead
    <2>3. Queue(p)'
      <3>1. Reads(p)' => Reads(p)
        BY <1>1, <1>2, <1>10, <2>1 DEF Reads, Advance, TypeOK
      <3> QED
        BY <1>1, <1>2, <1>6, <1>8, <2>1, <3>1, QueueKept
    <2>4. Causal'
      <3>1. r = "joiner" /\ Tell(r) = 3 => Tell("host") = 3
        BY DEF HandshakeInv, Causal
      <3>2. Seen(r)' = 3 => samePass
        BY <1>4, <1>7, <1>10, <2>1
      <3> QED
        BY <1>1, <1>2, <1>4, <1>5, <2>1, <3>1, <3>2, CausalMove DEF HandshakeInv
    <2> QED
      BY <1>1, <1>10, <2>2, <2>3, <2>4 DEF Order, HandshakeInv, Success, Advance
  <1> QED
    BY <1>7, <1>9, <1>10 DEF ReadMessage

(* Candidates.                                                             *)
LEMMA OrderCandidate ==
    ASSUME TypeOK, HandshakeInv, NEW r \in Role, LocalCandidate(r) \/ RemoteCandidate(r)
    PROVE  Order'
  <1> DEFINE p == Peer(r)
             m == Msg(r, "cand")
  <1>1. p \in Role /\ p # r /\ Peer(p) = r /\ Role = {r, p} /\ Place(r) /\ Place(p) /\ Queue(r) /\ Queue(p)
    BY Sides DEF HandshakeInv
  <1>2. UNCHANGED <<fn, samePass, at, result, ws>>
    BY DEF LocalCandidate, RemoteCandidate
  <1>3. \A x \in Role : /\ Seen(x)' = Seen(x) /\ Tell(x)' = Tell(x) /\ (Reads(x)' => Reads(x))
                       /\ Seen(x) \in 0..3 /\ Tell(x) \in 1..3
                       /\ (Failed(x)' <=> Failed(x)) /\ (Failed(x) => Tell(x) = 2)
    BY <1>2, Levels DEF Seen, Tell, Reads, Failed, HandshakeInv
  <1>4. Causal' /\ (BothOpen' => BothOpen)
    BY <1>2, <1>3, Sides DEF Causal, HandshakeInv, Role, BothOpen
  <1>5. CASE LocalCandidate(r)
    <2>1. in'[r] = in[r] /\ (in'[p] = in[p] \/ in'[p] = IF BothOpen THEN Append(in[p], m) ELSE in[p])
      <3>1. "cand" \in Sealed /\ in \in [Role -> Seq(Message)]
        BY DEF Sealed, TypeOK
      <3> QED
        BY <1>5, <3>1, SentAt DEF LocalCandidate, Deliver
    <2>2. Tell(r) = 3
      BY <1>1, <1>5 DEF LocalCandidate, Place
    <2>3. m \in Nth(p, 4, samePass) /\ m \in Message
      <3>1. m \in Message /\ m.key = KeyOf(r) /\ m.type = "cand"
        BY <1>5, MsgIs DEF LocalCandidate, Sealed
      <3> HIDE DEF m
      <3> QED
        BY <1>1, <3>1 DEF Nth, KeyOf, Message
    <2>4. Queue(r)'
      BY <1>1, <1>2, <1>3, <1>4, <2>1, QueueKept
    <2>5. Queue(p)'
      <3> HIDE DEF m, p
      <3>1. CASE in'[p] = in[p]
        BY <1>1, <1>2, <1>3, <1>4, <3>1, QueueKept
      <3>2. CASE in'[p] = IF BothOpen THEN Append(in[p], m) ELSE in[p]
        <4>1. Tell(Peer(p)) = 3 /\ Tell(Peer(p))' = 3 /\ Tell(Peer(p)) + 1 = 4 /\ ~Failed(Peer(p))
          BY <1>1, <1>3, <2>2
        <4> QED
          BY <1>1, <1>2, <1>3, <1>4, <2>3, <3>2, <4>1, QueueSent
      <3> QED
        BY <2>1, <3>1, <3>2
    <2> QED
      BY <1>1, <1>2, <1>4, <2>4, <2>5 DEF Order, HandshakeInv, Success
  <1>6. CASE RemoteCandidate(r)
    <2>1. Seen(r) = 3 /\ Reads(r)
      BY <1>1, <1>6, Sides DEF RemoteCandidate, Place, Reads
    <2>2. in[r] # <<>> /\ in'[r] = Tail(in[r]) /\ in'[p] = in[p]
      BY <1>1, <1>6 DEF RemoteCandidate, TypeOK
    <2>3. Queue(r)'
      BY <1>1, <1>2, <1>3, <1>4, <2>1, <2>2, QueueRead
    <2>4. Queue(p)'
      BY <1>1, <1>2, <1>3, <1>4, <2>2, QueueKept
    <2> QED
      BY <1>1, <1>2, <1>4, <2>3, <2>4 DEF Order, HandshakeInv, Success
  <1> QED
    BY <1>5, <1>6

(* A page handles a message or a promise, and does not fail.               *)
LEMMA OrderPage ==
    ASSUME TypeOK, HandshakeInv, NEW r \in Role, fn[r] \in WebFns, at[r] # ErrorState,
           at[r] # FailedState, UNCHANGED <<fn, samePass>>, NEW n \in 1..6, Enter(r, n), NEW m \in Message,
           \A x \in Role : result'[x] # result[x] => x = r /\ result'[x] # "confused",
           BothOpen' => BothOpen,
           \/ /\ in[r] # <<>> /\ in'[r] = Tail(in[r])
              /\ Seen(r)' = Seen(r) + 1 \/ (Seen(r) = 3 /\ Seen(r)' = 3)
           \/ in'[r] = in[r] /\ Seen(r)' = Seen(r),
           \/ in'[Peer(r)] = in[Peer(r)] /\ Tell(r)' = Tell(r)
           \/ /\ in'[Peer(r)] = IF BothOpen THEN Append(in[Peer(r)], m) ELSE in[Peer(r)]
              /\ Tell(r)' = Tell(r) + 1 /\ m \in Nth(Peer(r), Tell(r) + 1, samePass),
           Seen(r)' = 3 => samePass, r = "joiner" /\ Tell(r)' = 3 => Tell("host") = 3
    PROVE  Order'
  <1> DEFINE p == Peer(r)
  <1>1. p \in Role /\ p # r /\ Peer(p) = r /\ Role = {r, p} /\ Place(r) /\ Place(p) /\ Queue(r) /\ Queue(p)
    BY Sides DEF HandshakeInv
  <1>2. /\ Seen(p)' = Seen(p) /\ Tell(p)' = Tell(p) /\ at'[r] \notin {ErrorState, FailedState} /\ at'[p] = at[p]
        /\ Seen(r)' \in 0..3 /\ Tell(r)' \in 1..3 /\ ~Failed(r) /\ (Failed(p)' <=> Failed(p)) /\ ~Failed(r)'
    <2>1. n \in 1..Len(Steps(fn[r])) /\ n \in 1..12 /\ n # ErrorState /\ n # FailedState /\ ~Failed(r)
      <3>1. at[r] \in 1..Len(Steps(fn[r]))
        BY <1>1, PageAt
      <3>2. Len(Steps(fn[r])) = 7
        BY <3>1, PageSteps
      <3> QED
        BY <3>2 DEF ErrorState, FailedState, Failed
    <2>2. /\ Seen(r)' = SeenAt(fn[r])[n] /\ Tell(r)' = TellAt(fn[r])[n] /\ at'[r] = n
          /\ Failed(r)' <=> n = FailedState
          /\ Seen(p)' = Seen(p) /\ Tell(p)' = Tell(p) /\ at'[p] = at[p] /\ (Failed(p)' <=> Failed(p))
      <3>1. /\ Seen(r)' = SeenAt(fn[r])[n] /\ Tell(r)' = TellAt(fn[r])[n] /\ at'[r] = n
            /\ Failed(r)' <=> n = FailedState
        BY <1>1, <2>1, PageMove
      <3>2. at'[p] = at[p]
        BY <1>1 DEF Enter, TypeOK
      <3> HIDE DEF p
      <3>3. Seen(p)' = Seen(p) /\ Tell(p)' = Tell(p) /\ (Failed(p)' <=> Failed(p))
        BY <1>1, <3>2, NoMove
      <3> QED
        BY <3>1, <3>2, <3>3
    <2>3. SeenAt(fn[r])[n] \in 0..3 /\ TellAt(fn[r])[n] \in 1..3
      BY <2>1, PageSteps
    <2> QED
      BY <2>1, <2>2, <2>3
  <1>3. Seen(p) \in 0..3 /\ Tell(p) \in 1..3 /\ Seen(r) \in 0..3 /\ Tell(r) \in 1..3
    BY <1>1, Levels
  <1>4. Reads(r) /\ (Reads(p)' => Reads(p))
    BY <1>1, <1>2 DEF Reads
  <1>5. Seen(r)' <= Tell(p)
    <2>1. Seen(r) <= Tell(p)
      BY DEF HandshakeInv, Causal
    <2>2. CASE in[r] # <<>> /\ Seen(r)' = Seen(r) + 1
      <3>1. Seen(r) < 3
        BY <1>2, <1>3, <2>2
      <3> QED
        BY <1>4, <2>2, <3>1, HeadIs
    <2> QED
      BY <1>3, <2>1, <2>2
  <1>6. Causal'
    BY <1>2, <1>3, <1>5, CausalMove DEF HandshakeInv
  <1>7. Queue(r)'
    <2>1. CASE in'[r] = in[r] /\ Seen(r)' = Seen(r)
      BY <1>1, <1>2, <1>4, <2>1, QueueKept
    <2>2. CASE in[r] # <<>> /\ in'[r] = Tail(in[r]) /\ (Seen(r)' = Seen(r) + 1 \/ (Seen(r) = 3 /\ Seen(r)' = 3))
      BY <1>1, <1>2, <1>3, <1>4, <2>2, QueueRead
    <2> QED
      BY <2>1, <2>2
  <1>8. Queue(p)'
    <2> HIDE DEF p
    <2>1. CASE in'[p] = in[p] /\ Tell(r)' = Tell(r)
      BY <1>1, <1>2, <1>4, <2>1, QueueKept
    <2>2. CASE /\ in'[p] = IF BothOpen THEN Append(in[p], m) ELSE in[p]
               /\ Tell(r)' = Tell(r) + 1 /\ m \in Nth(p, Tell(r) + 1, samePass)
      BY <1>1, <1>2, <1>3, <1>4, <2>2, QueueSent
    <2> QED
      BY <2>1, <2>2 DEF p
  <1> QED
    BY <1>1, <1>6, <1>7, <1>8 DEF Order, HandshakeInv, Success

(* What a page finds when it gets a message.                               *)
LEMMA PageGets ==
    ASSUME TypeOK, HandshakeInv, NEW r \in Role, NEW s, Gets(r, s), s # "failed"
    PROVE  /\ fn[r] \in WebFns /\ at[r] # ErrorState /\ at[r] # FailedState /\ Step(r) = s /\ in[r] # <<>>
           /\ at[r] \in 1..Len(Steps(fn[r])) /\ at[r] \in 1..6 /\ Reads(r)
           /\ Head(in[r]) \in Nth(r, Seen(r) + 1, samePass) /\ Head(in[r]) \in Message
           /\ Rest(r) \in [Role -> Seq(Message)] /\ Rest(r)[r] = Tail(in[r])
           /\ \A x \in Role : x # r => Rest(r)[x] = in[x]
           /\ Seen(r) < 3 => Seen(r) + 1 <= Tell(Peer(r))
  <1>1. fn[r] \in WebFns /\ at[r] # ErrorState /\ Step(r) = s /\ in[r] # <<>>
    BY DEF Gets
  <1>2. at[r] \in 1..Len(Steps(fn[r])) /\ at[r] \in 1..6 /\ at[r] # FailedState
    BY <1>1, PageAt DEF HandshakeInv
  <1>3. Reads(r)
    BY <1>1, <1>2 DEF Reads
  <1>4. Head(in[r]) \in Message /\ Rest(r) \in [Role -> Seq(Message)]
        /\ Rest(r)[r] = Tail(in[r]) /\ \A x \in Role : x # r => Rest(r)[x] = in[x]
    BY <1>1 DEF TypeOK, Rest
  <1> QED
    BY <1>1, <1>2, <1>3, <1>4, HeadIs

(* A page fails, or the browser rejects its promise.                       *)
LEMMA OrderFail ==
    ASSUME TypeOK, HandshakeInv, NEW r \in Role, fn[r] \in WebFns, at[r] \in 2..5,
           UNCHANGED <<fn, samePass, ws>>, Enter(r, FailedState), in'[Peer(r)] = in[Peer(r)],
           \A x \in Role : result'[x] # result[x] => x = r /\ result'[x] # "confused",
           Tell(r) <= 2, fn[r] = "Player1" => 2 <= Tell(Peer(r))
    PROVE  Order'
  <1> DEFINE p == Peer(r)
  <1>1. p \in Role /\ p # r /\ Peer(p) = r /\ Role = {r, p} /\ Place(r) /\ Place(p) /\ Queue(p)
    BY Sides DEF HandshakeInv
  <1>2. /\ Seen(r)' = (IF fn[r] = "Player1" THEN 2 ELSE 0) /\ Tell(r)' = 2 /\ Failed(r)'
        /\ Seen(p)' = Seen(p) /\ Tell(p)' = Tell(p) /\ at'[r] = FailedState /\ at'[p] = at[p]
    <2>1. /\ FailedState \in 1..12 /\ at[r] # ErrorState
          /\ SeenAt(fn[r])[7] = (IF fn[r] = "Player1" THEN 2 ELSE 0) /\ TellAt(fn[r])[7] = 2
      BY <1>1, PageAt, PageSteps DEF ErrorState, FailedState
    <2>2. /\ Seen(r)' = SeenAt(fn[r])[FailedState] /\ Tell(r)' = TellAt(fn[r])[FailedState]
          /\ at'[r] = FailedState /\ Failed(r)'
      BY <1>1, <2>1, PageMove
    <2>3. at'[p] = at[p]
      BY <1>1 DEF Enter, TypeOK
    <2>4. Seen(p)' = Seen(p) /\ Tell(p)' = Tell(p)
      <3> HIDE DEF p
      <3> QED
        BY <1>1, <2>3, NoMove
    <2> QED
      BY <2>1, <2>2, <2>3, <2>4 DEF FailedState
  <1>3. Seen(p) \in 0..3 /\ Tell(p) \in 1..3 /\ Seen(r) \in 0..3 /\ Tell(r) \in 1..3
    BY <1>1, Levels
  <1>4. Causal'
    <2>1. Tell(r)' >= Tell(r) /\ Tell(r)' # 3 /\ Seen(r)' # 3 /\ Seen(r)' \in 0..3 /\ Tell(r)' \in 1..3
      BY <1>2, <1>3
    <2>2. Seen(r)' <= Tell(p)
      BY <1>2, <1>3
    <2> QED
      BY <1>2, <1>3, <2>1, <2>2, CausalMove DEF HandshakeInv
  <1>5. Queue(r)'
    BY <1>2 DEF Queue, Reads
  <1>6. Queue(p)'
    <2> HIDE DEF p
    <2>1. Reads(p)' => Reads(p)
      BY <1>1, <1>2 DEF Reads
    <2>2. in[p] \in Seq(Message) /\ Len(in[p]) \in Nat
      BY <1>1 DEF TypeOK
    <2>3. Reads(p) => /\ \A i \in 1..Len(in[p]) : in[p][i] \in Nth(p, Seen(p) + i, samePass)
                      /\ UpTo(3, Seen(p) + Len(in[p])) <= Tell(r)
      BY <1>1 DEF Queue
    <2>4. in'[p] = in[p] /\ samePass' = samePass /\ Seen(p)' = Seen(p) /\ Tell(Peer(p))' = 2 /\ Failed(Peer(p))'
      BY <1>1, <1>2 DEF p
    <2>5. Reads(p) => UpTo(3, Seen(p) + Len(in[p])) <= 2
      <3>1. UpTo(3, Seen(p) + Len(in[p])) \in Nat
        BY <1>3, <2>2 DEF UpTo
      <3> QED
        BY <1>3, <2>3, <3>1
    <2> QED
      BY <2>1, <2>3, <2>4, <2>5 DEF Queue
  <1> QED
    BY <1>1, <1>4, <1>5, <1>6 DEF Order, HandshakeInv, Success

(* The first messages of a page.                                           *)
LEMMA OrderWebPake ==
    ASSUME TypeOK, HandshakeInv, NEW r \in Role, WebInit(r) \/ WebPake(r)
    PROVE  Order'
  <1> DEFINE p == Peer(r)
             type == IF Step(r) = "player2" THEN "pakeA" ELSE "pakeB"
             m == Msg(r, type)
             done == Enter(r, at[r] + 1) /\ UNCHANGED result
  <1>1. p \in Role /\ p # r /\ Role = {r, p} /\ Place(r)
    BY Sides DEF HandshakeInv
  <1>2. PICK s \in {"player1", "player2", "waitPakeA", "waitPakeB"} : Gets(r, s)
    BY DEF WebInit, WebPake
  <1>3. /\ fn[r] \in WebFns /\ at[r] # ErrorState /\ Step(r) = s /\ in[r] # <<>>
        /\ at[r] \in 1..Len(Steps(fn[r])) /\ Rest(r) \in [Role -> Seq(Message)]
        /\ Rest(r)[r] = Tail(in[r]) /\ Rest(r)[p] = in[p]
        /\ Seen(r) < 3 => Seen(r) + 1 <= Tell(p)
    BY <1>1, <1>2, PageGets
  <1>4. UNCHANGED <<fn, samePass, ws>> /\ at[r] \in 2..5 /\ at[r] + 1 \in 1..6
    <2>1. at[r] \in 2..5
      BY <1>1, <1>3, PageNext
    <2> QED
      BY <2>1 DEF WebInit, WebPake
  <1>5. /\ Seen(r) = SeenAt(fn[r])[at[r]] /\ Tell(r) = TellAt(fn[r])[at[r]]
        /\ done => Seen(r)' = SeenAt(fn[r])[at[r] + 1] /\ Tell(r)' = TellAt(fn[r])[at[r] + 1]
    <2>1. at[r] + 1 \in 1..12
      BY <1>4
    <2>2. Seen(r) = SeenAt(fn[r])[at[r]] /\ Tell(r) = TellAt(fn[r])[at[r]]
      BY DEF Seen, Tell
    <2> QED
      BY <1>1, <1>3, <1>4, <2>1, <2>2, PageMove
  <1>6. /\ s = "player1" => r = "host" /\ Seen(r) = 0 /\ Tell(r) = 1 /\ (done => Seen(r)' = 1 /\ Tell(r)' = 1)
        /\ s = "player2" => r = "joiner" /\ Seen(r) = 0 /\ Tell(r) = 1 /\ (done => Seen(r)' = 1 /\ Tell(r)' = 2)
        /\ s = "waitPakeA" => r = "host" /\ Seen(r) = 1 /\ Tell(r) = 1 /\ (done => Seen(r)' = 2 /\ Tell(r)' = 2)
        /\ s = "waitPakeB" => r = "joiner" /\ Seen(r) = 1 /\ Tell(r) = 2 /\ (done => Seen(r)' = 2 /\ Tell(r)' = 2)
    <2>1. (fn[r] = "Player1" => r = "host") /\ (fn[r] = "Player2" => r = "joiner")
      BY Sides DEF Role, GoHost, GoJoin
    <2>2. Steps(fn[r])[at[r]] = s
      BY <1>3 DEF Step
    <2> HIDE DEF done
    <2> QED
      BY <1>3, <1>5, <2>1, <2>2, PageTable
  <1>7. /\ \/ done /\ in' = IF s \in {"player2", "waitPakeA"} THEN Sent(Rest(r), r, type) ELSE Rest(r)
           \/ in' = Rest(r) /\ WebFail(r) /\ s # "player1"
        /\ s = "player2" => type = "pakeA"
        /\ s = "waitPakeA" => type = "pakeB"
    BY <1>3 DEF WebInit, WebPake, Gets
  <1>14. CASE in' = Rest(r) /\ WebFail(r) /\ s # "player1"
    <2>1. /\ Enter(r, FailedState) /\ in'[Peer(r)] = in[Peer(r)]
          /\ \A x \in Role : result'[x] # result[x] => x = r /\ result'[x] # "confused"
      BY <1>3, <1>14 DEF WebFail, Settle, TypeOK
    <2>2. Tell(r) <= 2 /\ (fn[r] = "Player1" => 2 <= Tell(Peer(r)))
      <3>1. fn[r] = "Player1" => s = "waitPakeA"
        <4>1. fn[r] = "Player1" => r = "host"
          BY Sides DEF Role, GoHost, GoJoin, GoFns, WebFns
        <4> QED
          BY <1>2, <1>6, <1>14, <4>1
      <3> QED
        BY <1>2, <1>3, <1>6, <1>14, <3>1
    <2> QED
      BY <1>3, <1>4, <2>1, <2>2, OrderFail
  <1>15. SUFFICES ASSUME done, in' = IF s \in {"player2", "waitPakeA"} THEN Sent(Rest(r), r, type) ELSE Rest(r)
                  PROVE  Order'
    BY <1>7, <1>14
  <1>8. /\ in'[r] = Tail(in[r])
        /\ in'[p] = IF s \in {"player2", "waitPakeA"}
                    THEN IF BothOpen THEN Append(in[p], m) ELSE in[p] ELSE in[p]
    <2> DEFINE q == Rest(r)
    <2> HIDE DEF q, type
    <2>1. q \in [Role -> Seq(Message)] /\ q[r] = Tail(in[r]) /\ q[p] = in[p]
      BY <1>3 DEF q
    <2>2. /\ Sent(q, r, type)[r] = q[r]
          /\ Sent(q, r, type)[p] = IF BothOpen THEN Append(q[p], m) ELSE q[p]
      BY <2>1, SentAt
    <2>3. in' = IF s \in {"player2", "waitPakeA"} THEN Sent(q, r, type) ELSE q
      BY <1>15 DEF q
    <2> QED
      BY <2>1, <2>2, <2>3
  <1>9. m \in Message /\ (s \in {"player2", "waitPakeA"} => m \in Nth(p, 2, samePass))
    <2>1. m = [type |-> type, key |-> None, num |-> 0]
      BY DEF Msg, Sealed
    <2>2. m \in Message
      BY MsgIs
    <2> QED
      BY <1>6, <1>7, <2>1, <2>2 DEF Nth, Peer
  <1>10. BothOpen' => BothOpen
    BY <1>4 DEF BothOpen
  <1>16. at[r] # FailedState
    BY <1>4 DEF FailedState
  <1> HIDE DEF m, type
  <1>11. CASE s \in {"player1", "waitPakeB"}
    BY <1>3, <1>4, <1>6, <1>8, <1>9, <1>10, <1>11, <1>15, <1>16, OrderPage
  <1>12. CASE s \in {"player2", "waitPakeA"}
    <2>1. Tell(r) + 1 = 2 /\ Tell(r)' = Tell(r) + 1 /\ Seen(r)' = Seen(r) + 1 /\ Seen(r)' # 3 /\ Tell(r)' # 3
      BY <1>6, <1>12, <1>15
    <2>2. m \in Nth(Peer(r), Tell(r) + 1, samePass)
      BY <1>9, <1>12, <2>1
    <2>3. in'[Peer(r)] = IF BothOpen THEN Append(in[Peer(r)], m) ELSE in[Peer(r)]
      BY <1>8, <1>12
    <2> QED
      BY <1>3, <1>4, <1>8, <1>9, <1>10, <1>15, <1>16, <2>1, <2>2, <2>3, OrderPage
  <1> QED
    BY <1>2, <1>11, <1>12

(* A page has made its offer or its answer, and sends it.                  *)
LEMMA OrderWebPromise ==
    ASSUME TypeOK, HandshakeInv, NEW r \in Role, WebPromise(r)
    PROVE  Order'
  <1> DEFINE p == Peer(r)
             s == Step(r)
             type == IF s = "localOffer" THEN "offer" ELSE "answer"
             m == Msg(r, type)
  <1>1. p \in Role /\ p # r /\ Peer(p) = r /\ Role = {r, p} /\ Place(r)
    BY Sides DEF HandshakeInv
  <1>2. /\ fn[r] \in WebFns /\ at[r] # ErrorState /\ s \in {"localOffer", "localAnswer"}
        /\ UNCHANGED <<fn, samePass, ws>> /\ Enter(r, at[r] + 1) /\ in' = Sent(in, r, type)
        /\ UNCHANGED result \/ Settle(r, "ok")
    BY DEF WebPromise, Deliver
  <1>3. at[r] \in 1..Len(Steps(fn[r])) /\ at[r] + 1 \in 1..6 /\ at[r] # FailedState
    <2>1. at[r] \in 2..5
      BY <1>1, <1>2, PageNext
    <2> QED
      BY <1>1, <1>2, <2>1, PageAt DEF FailedState
  <1>4. /\ Seen(r) = SeenAt(fn[r])[at[r]] /\ Tell(r) = TellAt(fn[r])[at[r]]
        /\ Seen(r)' = SeenAt(fn[r])[at[r] + 1] /\ Tell(r)' = TellAt(fn[r])[at[r] + 1]
    BY SMTT(20), <1>1, <1>2, <1>3, PageMove
  <1>5. /\ s = "localOffer" => r = "host" /\ Seen(r) = 2
        /\ s = "localAnswer" => r = "joiner" /\ Seen(r) = 3
        /\ Seen(r)' = Seen(r) /\ Tell(r) = 2 /\ Tell(r)' = 3
    <2>1. (fn[r] = "Player1" => r = "host") /\ (fn[r] = "Player2" => r = "joiner")
      BY Sides DEF Role, GoHost, GoJoin
    <2> QED
      BY <1>2, <1>3, <1>4, <2>1, PageTable DEF Step
  <1>6. (Seen(r) = 3 => samePass) /\ Seen(r) <= Tell(p) /\ Tell(p) \in 1..3
    BY <1>1, Levels DEF HandshakeInv, Causal
  <1>7. m \in Message /\ m \in Nth(p, 3, samePass)
    <2>1. m = [type |-> type, key |-> KeyOf(r), num |-> 0] /\ KeyOf(r) = IF samePass THEN "shared" ELSE Peer(p)
      BY <1>1 DEF Msg, Sealed, KeyOf
    <2>2. m \in Message
      BY MsgIs DEF Sealed
    <2>3. type = IF p = "joiner" THEN "offer" ELSE "answer"
      BY <1>2, <1>5 DEF Peer
    <2> QED
      BY <1>2, <1>5, <1>6, <2>1, <2>2, <2>3 DEF Nth
  <1>8. in'[r] = in[r] /\ in'[p] = IF BothOpen THEN Append(in[p], m) ELSE in[p]
    <2>1. in \in [Role -> Seq(Message)]
      BY DEF TypeOK
    <2> QED
      BY <1>2, <2>1, SentAt
  <1>9. /\ \A x \in Role : result'[x] # result[x] => x = r /\ result'[x] # "confused"
        /\ BothOpen' => BothOpen
    BY <1>2 DEF Settle, TypeOK, BothOpen
  <1>10. (r = "joiner" => Tell("host") = 3) /\ Tell(r) + 1 = 3 /\ Tell(r)' = Tell(r) + 1
    BY <1>1, <1>2, <1>5, <1>6 DEF Peer
  <1> HIDE DEF m, type, s
  <1>11. m \in Nth(Peer(r), Tell(r) + 1, samePass)
    BY <1>7, <1>10
  <1> QED
    BY <1>2, <1>3, <1>5, <1>6, <1>7, <1>8, <1>9, <1>10, <1>11, OrderPage

(* A page gets a candidate.                                                *)
LEMMA OrderWebCandidate ==
    ASSUME TypeOK, HandshakeInv, NEW r \in Role, WebCandidate(r)
    PROVE  /\ Order' /\ Seen(r) = 3 /\ Opens(r, Head(in[r])) /\ Head(in[r]).type = "cand"
           /\ UNCHANGED <<at, ws, result>> /\ in' = Rest(r)
  <1> DEFINE p == Peer(r)
             m == Head(in[r])
  <1>1. p \in Role /\ p # r /\ Role = {r, p} /\ Place(r)
    BY Sides DEF HandshakeInv
  <1>2. PICK s \in {"localAnswer", "candidates"} : Gets(r, s)
    BY DEF WebCandidate
  <1>3. /\ fn[r] \in WebFns /\ at[r] # ErrorState /\ Step(r) = s /\ in[r] # <<>>
        /\ at[r] \in 1..Len(Steps(fn[r])) /\ at[r] \in 1..6 /\ m \in Nth(r, Seen(r) + 1, samePass)
        /\ m \in Message /\ Rest(r)[r] = Tail(in[r]) /\ Rest(r)[p] = in[p] /\ at[r] # FailedState
    BY <1>1, <1>2, PageGets
  <1>4. Seen(r) = 3 /\ (s = "localAnswer" => Tell(r) = 2 /\ r = "joiner")
    <2>1. fn[r] = "Player2" => r = "joiner"
      BY Sides DEF Role, GoHost, GoJoin
    <2> QED
      BY <1>2, <1>3, <2>1, PageTable DEF Step, Seen, Tell
  <1>5. samePass /\ (r = "joiner" /\ Tell(r) = 3 => Tell("host") = 3)
    BY <1>4 DEF HandshakeInv, Causal
  <1>6. m \in Nth(r, 4, samePass)
    BY <1>3, <1>4
  <1> HIDE DEF m
  <1>7. Opens(r, m) /\ m.type = "cand"
    BY <1>5, <1>6, Opening DEF Nth
  <1>8. in' = Rest(r) /\ UNCHANGED <<fn, samePass, at, ws, result>>
    BY <1>3, <1>7 DEF WebCandidate, m
  <1>9. Enter(r, at[r]) /\ Seen(r)' = Seen(r) /\ Tell(r)' = Tell(r) /\ (BothOpen' => BothOpen)
    BY <1>8 DEF Enter, TypeOK, Seen, Tell, BothOpen
  <1>10. Order'
    BY <1>1, <1>3, <1>4, <1>5, <1>8, <1>9, OrderPage
  <1> QED
    BY <1>4, <1>7, <1>8, <1>10 DEF m

(* A page gets a description: never while it makes its offer, and if it    *)
(* opens it is the one that is expected.                                   *)
LEMMA PageDescription ==
    ASSUME TypeOK, HandshakeInv, NEW r \in Role, WebDescription(r)
    PROVE  /\ fn[r] \in WebFns /\ at[r] # ErrorState /\ in[r] # <<>> /\ Reads(r)
           /\ Step(r) = IF r = "host" THEN "waitAnswer" ELSE "waitOffer"
           /\ Seen(r) = 2 /\ Tell(Peer(r)) = 3 /\ (r = "host" => Tell(r) = 3) /\ (r = "joiner" => Tell(r) = 2)
           /\ at[r] \in 2..5 /\ at[r] + 1 \in 1..6 /\ Rest(r) \in [Role -> Seq(Message)]
           /\ Rest(r)[r] = Tail(in[r]) /\ Rest(r)[Peer(r)] = in[Peer(r)]
           /\ UNCHANGED <<fn, samePass>>
           /\ \/ /\ ~samePass /\ in' = Sent(Rest(r), r, "bye") /\ CloseWs(r, "badKey")
                 /\ Settle(r, "badKey") /\ Enter(r, ErrorState) /\ UNCHANGED remote
              \/ /\ samePass /\ in' = Rest(r) /\ UNCHANGED ws /\ Enter(r, at[r] + 1)
                 /\ UNCHANGED result \/ Settle(r, "ok")
                 /\ remote' \subseteq remote \cup {r} /\ (remote' # remote => at[r] = 5)
                 /\ Seen(r)' = 3 /\ Tell(r)' = Tell(r)
  <1> DEFINE m == Head(in[r])
  <1>1. Peer(r) \in Role /\ Peer(r) # r /\ Place(r) /\ Place(Peer(r))
    BY Sides DEF HandshakeInv
  <1>2. PICK s \in {"waitOffer", "waitAnswer", "localOffer"} : Gets(r, s)
    BY DEF WebDescription
  <1>3. /\ fn[r] \in WebFns /\ at[r] # ErrorState /\ Step(r) = s /\ in[r] # <<>> /\ Reads(r)
        /\ at[r] \in 1..Len(Steps(fn[r])) /\ m \in Nth(r, Seen(r) + 1, samePass)
        /\ Rest(r) \in [Role -> Seq(Message)] /\ Rest(r)[r] = Tail(in[r]) /\ Rest(r)[Peer(r)] = in[Peer(r)]
        /\ Seen(r) < 3 => Seen(r) + 1 <= Tell(Peer(r))
    BY <1>1, <1>2, PageGets
  <1>4. at[r] \in 2..5 /\ at[r] + 1 \in 1..Len(Steps(fn[r]))
    BY <1>1, <1>3, PageNext
  <1>5. /\ s = "localOffer" => r = "host" /\ Seen(r) = 2 /\ Tell(r) = 2
        /\ s = "waitOffer" => r = "joiner" /\ Seen(r) = 2 /\ Tell(r) = 2
        /\ s = "waitAnswer" => r = "host" /\ Seen(r) = 2 /\ Tell(r) = 3
        /\ s # "localOffer" => SeenAt(fn[r])[at[r] + 1] = 3 /\ TellAt(fn[r])[at[r] + 1] = Tell(r)
    <2>1. (fn[r] = "Player1" => r = "host") /\ (fn[r] = "Player2" => r = "joiner")
      BY Sides DEF Role, GoHost, GoJoin
    <2> QED
      BY <1>3, <2>1, PageTable DEF Step, Seen, Tell
  <1>6. Seen(r) = 2 /\ Tell(Peer(r)) = 3
    <2>1. Tell(Peer(r)) \in 1..3
      BY <1>1, Levels
    <2> QED
      BY <1>2, <1>3, <1>5, <2>1
  <1>7. s # "localOffer"
    BY <1>5, <1>6 DEF HandshakeInv, Causal, Peer
  <1>8. m \in Nth(r, 3, samePass)
    BY <1>3, <1>6
  <1>9. /\ Opens(r, m) <=> samePass
        /\ samePass => m.type = WebExpects(s) /\ m.type = IF s = "waitAnswer" THEN "answer" ELSE "offer"
    <2> HIDE DEF m
    <2>1. Opens(r, m) <=> samePass
      BY <1>8, Opening
    <2>2. samePass => m.type = IF r = "joiner" THEN "offer" ELSE "answer"
      BY <1>8 DEF Nth
    <2> QED
      BY <1>2, <1>5, <1>7, <2>1, <2>2 DEF WebExpects
  <1>10. CASE ~samePass
    BY <1>3, <1>7, <1>9, <1>10, <1>2, <1>5, <1>6, <1>4, PageSteps DEF WebDescription
  <1>11. CASE samePass
    <2>1. /\ in' = Rest(r) /\ UNCHANGED ws /\ Enter(r, at[r] + 1)
          /\ UNCHANGED result \/ Settle(r, "ok")
          /\ remote' \subseteq remote \cup {r} /\ (remote' # remote => s = "waitAnswer")
          /\ UNCHANGED <<fn, samePass>>
      BY <1>2, <1>3, <1>7, <1>9, <1>11 DEF WebDescription
    <2>4. s = "waitAnswer" => at[r] = 5
      BY <1>3, PageTable DEF Step
    <2>2. at'[r] = at[r] + 1
      BY <2>1 DEF Enter, TypeOK
    <2>3. Seen(r)' = 3 /\ Tell(r)' = Tell(r)
      BY <1>5, <1>7, <2>1, <2>2 DEF Seen, Tell
    <2> QED
      BY <1>2, <1>3, <1>4, <1>5, <1>6, <1>7, <1>11, <2>1, <2>3, <2>4
  <1> QED
    BY <1>10, <1>11 DEF TypeOK

LEMMA OrderWebDescription ==
    ASSUME TypeOK, HandshakeInv, NEW r \in Role, WebDescription(r)
    PROVE  Order'
  <1> DEFINE p == Peer(r)
             m == Msg(r, "bye")
  <1>1. p \in Role /\ p # r /\ Peer(p) = r /\ Role = {r, p} /\ Place(r) /\ Place(p) /\ Queue(r) /\ Queue(p)
    BY Sides DEF HandshakeInv
  <1>2. /\ fn[r] \in WebFns /\ at[r] # ErrorState /\ in[r] # <<>>
        /\ Seen(r) = 2 /\ Tell(p) = 3 /\ (r = "host" => Tell(r) = 3) /\ (r = "joiner" => Tell(r) = 2)
        /\ at[r] + 1 \in 1..6 /\ at[r] # FailedState /\ UNCHANGED <<fn, samePass>>
        /\ Rest(r) \in [Role -> Seq(Message)] /\ Rest(r)[r] = Tail(in[r]) /\ Rest(r)[p] = in[p]
    BY PageDescription DEF FailedState
  <1>3. CASE /\ samePass /\ in' = Rest(r) /\ UNCHANGED ws /\ Enter(r, at[r] + 1)
             /\ UNCHANGED result \/ Settle(r, "ok")
             /\ Seen(r)' = 3 /\ Tell(r)' = Tell(r)
    <2>1. /\ \A x \in Role : result'[x] # result[x] => x = r /\ result'[x] # "confused"
          /\ BothOpen' => BothOpen
      BY <1>3 DEF Settle, TypeOK, BothOpen
    <2>2. Head(in[r]) \in Message
      BY <1>2 DEF TypeOK
    <2>3. r = "joiner" /\ Tell(r)' = 3 => Tell("host") = 3
      BY <1>2, <1>3
    <2>4. in'[r] = Tail(in[r]) /\ in'[Peer(r)] = in[Peer(r)] /\ Seen(r)' = Seen(r) + 1
      BY <1>2, <1>3
    <2> QED
      BY <1>2, <1>3, <2>1, <2>2, <2>3, <2>4, OrderPage
  <1>4. CASE /\ ~samePass /\ in' = Sent(Rest(r), r, "bye") /\ CloseWs(r, "badKey")
             /\ Settle(r, "badKey") /\ Enter(r, ErrorState)
    <2>1. /\ Seen(r)' = 2 /\ Tell(r)' = 3 /\ Seen(p)' = Seen(p) /\ Tell(p)' = Tell(p)
          /\ at'[r] = ErrorState /\ at'[p] = at[p] /\ ~Failed(r) /\ ~Failed(r)'
      <3>1. ErrorState \in 1..12 /\ SeenAt(fn[r])[ErrorState] = 2 /\ TellAt(fn[r])[ErrorState] = 3
        BY <1>1, <1>2, PageAt, PageSteps DEF ErrorState
      <3>2. ~Failed(r) /\ ErrorState # FailedState
        BY <1>2 DEF Failed, ErrorState, FailedState
      <3>3. Seen(r)' = 2 /\ Tell(r)' = 3 /\ at'[r] = ErrorState
        BY <1>1, <1>2, <1>4, <3>1, PageMove
      <3>4. at'[p] = at[p]
        BY <1>1, <1>4 DEF Enter, TypeOK
      <3>5. Seen(p)' = Seen(p) /\ Tell(p)' = Tell(p)
        <4> HIDE DEF p
        <4> QED
          BY <1>1, <1>2, <3>4, NoMove
      <3>6. ~Failed(r)'
        BY <3>2, <3>3 DEF Failed
      <3> QED
        BY <3>2, <3>3, <3>4, <3>5, <3>6
    <2>2. ~BothOpen' /\ (ws'[r] = "closed")
      BY <1>4, Closing DEF BothOpen
    <2>3. Queue(r)'
      BY <1>2, <2>1 DEF Queue, Reads
    <2>4. Reads(p)' => Reads(p)
      BY <1>1, <1>2, <1>4, <2>1 DEF Reads, Settle, TypeOK
    <2>5. in'[p] = IF BothOpen THEN Append(in[p], m) ELSE in[p]
      <3> DEFINE q == Rest(r)
      <3> HIDE DEF q
      <3>1. q \in [Role -> Seq(Message)] /\ q[p] = in[p] /\ in' = Sent(q, r, "bye")
        BY <1>2, <1>4 DEF q
      <3>2. Sent(q, r, "bye")[p] = IF BothOpen THEN Append(q[p], m) ELSE q[p]
        BY <3>1, SentAt DEF Sealed
      <3> QED
        BY <3>1, <3>2
    <2>6. Queue(p)'
      <3>1. CASE r = "joiner"
        <4>1. m \in Message /\ m \in Nth(p, 3, samePass)
          <5>1. m = [type |-> "bye", key |-> KeyOf(r), num |-> 0]
            BY DEF Msg, Sealed
          <5>2. m \in Message
            BY MsgIs DEF Sealed
          <5> QED
            BY <1>1, <1>4, <3>1, <5>1, <5>2 DEF Nth, KeyOf, Peer
        <4>2. Tell(Peer(p)) = 2 /\ Tell(Peer(p))' = 3 /\ Tell(Peer(p)) + 1 = 3
          BY <1>1, <1>2, <2>1, <3>1
        <4>3. Seen(p) \in 0..3
          BY <1>1, Levels
        <4> HIDE DEF m, p
        <4>4. m \in Nth(p, Tell(Peer(p)) + 1, samePass)
          BY <4>1, <4>2
        <4> QED
          BY <1>1, <1>2, <2>1, <2>2, <2>4, <2>5, <4>1, <4>2, <4>3, <4>4, QueueSent
      <3>2. CASE r = "host"
        <4>1. ~BothOpen
          <5>1. p = "joiner"
            BY <3>2 DEF Peer
          <5>2. Seen(p) # 3
            BY <1>1, <1>4 DEF HandshakeInv, Causal
          <5>3. ws[p] = "closed"
            BY <1>1, <1>2, <5>1, <5>2, JoinLevels
          <5> QED
            BY <1>1, <5>3 DEF BothOpen
        <4>2. in'[p] = in[p]
          BY <2>5, <4>1
        <4>3. Tell(Peer(p))' = Tell(Peer(p))
          BY <1>1, <1>2, <2>1, <3>2
        <4> HIDE DEF p
        <4> QED
          BY <1>1, <1>2, <2>1, <2>2, <2>4, <4>2, <4>3, QueueKept
      <3> QED
        BY <3>1, <3>2 DEF Role
    <2>7. Causal'
      <3>1. Seen(p) \in 0..3 /\ (r = "joiner" => p = "host")
        BY <1>1, Levels DEF Peer
      <3>2. Tell(r) \in 1..3
        BY <1>1, Levels
      <3> QED
        BY <1>1, <1>2, <2>1, <3>1, <3>2, CausalMove DEF HandshakeInv
    <2>8. \A x \in Role : result'[x] # "confused"
      BY <1>4 DEF HandshakeInv, Success, Settle, TypeOK
    <2> QED
      BY <1>1, <2>3, <2>6, <2>7, <2>8 DEF Order
  <1> QED
    BY <1>3, <1>4, PageDescription

(* Every step keeps the order of the messages.                             *)
LEMMA NextOrder ==
    ASSUME TypeOK, HandshakeInv, [Next]_vars
    PROVE  Order'
  <1> USE DEF signal, peerconn
  <1>1. ASSUME NEW r \in Role, NEW code \in {"success", "failed", "lost", "badKey"}, CloseWs(r, code)
        PROVE  BothOpen' => BothOpen
    BY <1>1, Closing DEF BothOpen
  <1>2. ASSUME NEW r \in Role, NEW v \in {"ok", "error", "timedOut", "badKey"},
               result[r] = "none", Return(r, v) \/ Settle(r, v)
        PROVE  \A x \in Role : result'[x] # result[x] => result[x] = "none" /\ result'[x] # "confused"
    BY <1>2 DEF Return, Settle, TypeOK
  <1>3. ASSUME NEW r \in Role, GiveSlot(r) \/ StartWatch(r) PROVE Order'
    BY <1>3, OrderSilent
    DEF GiveSlot, StartWatch, At, GoStep, ReadStep, SendStep
  <1>4. ASSUME NEW r \in Role, SetDescription(r) \/ NewPeerConnection(r) PROVE Order'
    <2>1. CASE Advance(r)
      BY <1>4, <2>1, OrderSilent DEF SetDescription, NewPeerConnection, At, GoStep, ReadStep, SendStep
    <2>2. CASE Return(r, "error")
      <3>1. UNCHANGED <<fn, samePass, at, in>> /\ (BothOpen' => BothOpen) /\ result[r] = "none"
        BY <1>4, <2>2 DEF SetDescription, NewPeerConnection, Return, BothOpen, At
      <3> QED
        BY <1>2, <2>2, <3>1, OrderKept
    <2> QED
      BY <1>4, <2>1, <2>2 DEF SetDescription, NewPeerConnection
  <1>5. ASSUME NEW r \in Role, ReadFails(r) PROVE Order'
    <2>1. UNCHANGED <<fn, samePass, at, in>> /\ (BothOpen' => BothOpen) /\ result[r] = "none"
      BY <1>5 DEF ReadFails, Return, BothOpen
    <2>2. Return(r, "badKey") \/ Return(r, "error")
      BY <1>5 DEF ReadFails
    <2> QED
      BY <1>2, <2>1, <2>2, OrderKept
  <1>6. ASSUME NEW r \in Role, Select(r) PROVE Order'
    <2>1. /\ UNCHANGED <<fn, samePass, at, in>> /\ result[r] = "none"
          /\ Return(r, "ok") \/ Return(r, "error") \/ Return(r, "timedOut")
          /\ CloseWs(r, "success") \/ CloseWs(r, "failed") \/ UNCHANGED ws
      BY <1>6 DEF Select, Return, At
    <2>2. BothOpen' => BothOpen
      BY <1>1, <2>1 DEF BothOpen
    <2> QED
      BY <1>2, <2>1, <2>2, OrderKept
  <1>7. ASSUME NEW r \in Role, WatchEnds(r) \/ ChannelEvent(r) \/ CtxDone(r) \/ CancelPc(r) PROVE Order'
    <2>1. UNCHANGED <<fn, samePass, at, in, ws, result>>
      BY <1>7 DEF WatchEnds, ChannelEvent, CtxDone, CancelPc
    <2> QED
      BY <2>1, OrderKept DEF BothOpen
  <1>8. ASSUME NEW r \in Role, CancelWs(r) \/ Exit(r) \/ WebClose(r) PROVE Order'
    <2>1. /\ UNCHANGED <<fn, samePass, at, in, result>>
          /\ CloseWs(r, "success") \/ CloseWs(r, "failed") \/ CloseWs(r, "lost")
      BY <1>8 DEF CancelWs, Exit, WebClose
    <2>2. BothOpen' => BothOpen
      BY <1>1, <2>1
    <2> QED
      BY <2>1, <2>2, OrderKept
  <1>9. ASSUME NEW r \in Role, WebClosed(r) PROVE Order'
    <2>1. UNCHANGED <<fn, samePass, at, in, ws>> /\ result[r] = "none" /\ Settle(r, "error")
      BY <1>9 DEF WebClosed
    <2> QED
      BY <1>2, <2>1, OrderKept DEF BothOpen
  <1>10. CASE Connect \/ UNCHANGED vars
    <2>1. UNCHANGED <<fn, samePass, at, in, ws, result>>
      BY <1>10 DEF Connect, vars
    <2> QED
      BY <2>1, OrderKept DEF BothOpen
  <1>11. ASSUME NEW r \in Role, WebRejected(r) PROVE Order'
    <2>1. /\ fn[r] \in WebFns /\ at[r] # ErrorState /\ Step(r) \in {"localOffer", "localAnswer"}
          /\ UNCHANGED <<fn, samePass, ws, in, result>> /\ Enter(r, FailedState)
      BY <1>11 DEF WebRejected
    <2>2. Place(r) /\ Place(Peer(r)) /\ Peer(r) \in Role
      BY Sides DEF HandshakeInv
    <2>3. at[r] \in 2..5 /\ at[r] \in 1..Len(Steps(fn[r]))
      BY <2>1, <2>2, PageNext, PageAt
    <2>4. Tell(r) = 2 /\ (fn[r] = "Player1" => Seen(r) = 2)
      BY <2>1, <2>3, PageTable DEF Step, Seen, Tell
    <2>5. Tell(r) <= 2 /\ (fn[r] = "Player1" => 2 <= Tell(Peer(r)))
      BY <2>4 DEF HandshakeInv, Causal
    <2> QED
      BY <2>1, <2>3, <2>5, OrderFail
  <1> QED
    BY <1>11, <1>3, <1>4, <1>5, <1>6, <1>7, <1>8, <1>9, <1>10, OrderDial, OrderSend, OrderRead,
       OrderCandidate, OrderWebPake, OrderWebDescription, OrderWebPromise, OrderWebCandidate
    DEF Next, Main, Watcher, Canceller, WebSteps

-----------------------------------------------------------------------------
(* Where the sides can be.                                                 *)

(* What no step undoes, on a side x.                                       *)
Steady(x) ==
    /\ UNCHANGED fn
    /\ at["host"] > 2 => at'["host"] > 2
    /\ ws[x] = "closed" => ws'[x] = "closed"
    /\ ws[x] # "none" => ws'[x] # "none"
    /\ ws[x] = "none" => in'[x] = in[x]
    /\ result[x] # "none" => result'[x] # "none"
    /\ pc[x] # "none" => pc'[x] # "none"
    /\ pc'[x] = "closed" \/ cancel'[x] = "closePc"
           => pc[x] = "closed" \/ cancel[x] = "closePc" \/ ws'[x] = "closed"
    /\ \/ parked'[x] = parked[x] \/ parked'[x] = <<>>
       \/ \A i \in 1..Len(parked'[x]) : parked'[x][i].type = "cand"

(* x stays where it is.                                                    *)
Stays(x) ==
    /\ Steady(x) /\ at'[x] = at[x] /\ (ws[x] = "none" => ws'[x] = "none")
    /\ x \in remote' => x \in remote
    /\ x \in local' => x \in local
    /\ watch'[x] # "off" => watch[x] # "off"

(* x goes on to its next step.                                             *)
Moves(x) ==
    /\ Steady(x) /\ at'[x] = at[x] + 1 /\ at'[x] \in 1..Len(Steps(fn[x]))
    /\ at[x] \in 2..12
    /\ Seen(x)' \in 0..3 /\ Seen(x)' >= Seen(x) /\ Tell(x)' \in 1..3 /\ Tell(x)' >= Tell(x)
    /\ x \in remote' => (x \in remote \/ Seen(x)' = 3) /\ (fn[x] \in WebFns => at'[x] = 6)
    /\ x \in local' => x \in local \/ Tell(x)' = 3
    /\ watch'[x] # "off" => watch[x] # "off" \/ (fn[x] \in GoFns /\ Seen(x)' = 3 /\ pc'[x] # "none")
    /\ fn[x] \in GoFns /\ at[x] = PcAt(fn[x]) => pc'[x] # "none"

LEMMA PlaceStays ==
    ASSUME TypeOK, NEW x \in Role, Place(x), Stays(x)
    PROVE  Place(x)'
  <1>1. Seen(x)' = Seen(x) /\ Tell(x)' = Tell(x)
    BY NoMove DEF Stays, Steady
  <1>2. \A i \in 1..Len(parked'[x]) : parked'[x][i].type = "cand"
    BY DEF Stays, Steady, Place
  <1> QED
    BY <1>1, <1>2 DEF Place, Stays, Steady

LEMMA PlaceMoves ==
    ASSUME TypeOK, NEW x \in Role, Place(x), Moves(x)
    PROVE  Place(x)'
  <1>1. Seen(x) \in 0..3 /\ Tell(x) \in 1..3
    BY Levels
  <1>2. \A i \in 1..Len(parked'[x]) : parked'[x][i].type = "cand"
    BY DEF Moves, Steady, Place
  <1>3. /\ ws[x] # "none" /\ ws'[x] # "none" /\ at'[x] # 1 /\ at'[x] > 1 /\ at[x] > 1
    BY DEF Place, Moves, Steady
  <1>4. /\ x \in remote' => Seen(x)' = 3 /\ (fn'[x] \in WebFns => at'[x] = 6)
        /\ x \in local' => Tell(x)' = 3
    BY <1>1 DEF Place, Moves, Steady
  <1>5. watch'[x] # "off" => fn'[x] \in GoFns /\ Seen(x)' = 3 /\ pc'[x] # "none"
    BY <1>1 DEF Place, Moves, Steady
  <1>6. fn'[x] \in GoFns /\ at'[x] > PcAt(fn'[x]) => pc'[x] # "none"
    <2>1. PcAt(fn[x]) \in Nat
      BY DEF PcAt
    <2> QED
      BY <2>1 DEF Place, Moves, Steady
  <1> QED
    BY <1>2, <1>3, <1>4, <1>5, <1>6 DEF Place, Moves, Steady

(* A message written reaches nobody who is not connected.                  *)
LEMMA SentOpen ==
    ASSUME NEW r \in Role, NEW x \in Role, NEW q \in [Role -> Seq(Message)], NEW type,
           ws[x] = "none"
    PROVE  Sent(q, r, type)[x] = q[x]
  <1>1. Peer(r) \in Role
    BY Sides
  <1> QED
    BY <1>1 DEF Sent

(* The steps after which both are where they were.                         *)
LEMMA StaysSteps ==
    ASSUME TypeOK, HandshakeInv, NEW x \in Role, NEW r \in Role,
           \/ ReadFails(r) \/ WatchEnds(r) \/ ChannelEvent(r) \/ CtxDone(r)
           \/ CancelPc(r) \/ WebClosed(r)
           \/ Select(r) \/ CancelWs(r) \/ Exit(r) \/ WebClose(r)
           \/ LocalCandidate(r) \/ RemoteCandidate(r) \/ WebCandidate(r)
    PROVE  Stays(x)
  <1> USE DEF signal, peerconn, Stays, Steady
  <1>1. CASE ReadFails(r)
    BY <1>1 DEF ReadFails, Return, TypeOK
  <1>2. CASE WatchEnds(r)
    BY <1>2 DEF WatchEnds, TypeOK
  <1>3. CASE ChannelEvent(r) \/ CtxDone(r)
    BY <1>3 DEF ChannelEvent, CtxDone
  <1>4. CASE CancelPc(r)
    BY <1>4 DEF CancelPc, TypeOK
  <1>5. CASE WebClosed(r)
    BY <1>5 DEF WebClosed, Settle, TypeOK
  <1>6. ASSUME NEW code \in {"success", "failed", "lost", "badKey"}, CloseWs(r, code),
               ws[r] # "none"
        PROVE  (ws[x] = "closed" => ws'[x] = "closed") /\ (ws'[x] = "none" <=> ws[x] = "none")
               /\ ws'[r] = "closed"
    BY <1>6, Closing
  <1>7. CASE Select(r)
    <2>1. ws[r] # "none"
      <3>1. Place(r) /\ result[r] = "none" /\ Step(r) \in GoStep
        BY <1>7 DEF HandshakeInv, Select, At, GoStep
      <3> QED
        BY <3>1, GoAt DEF Place
    <2>2. (ws[x] = "closed" => ws'[x] = "closed") /\ (ws'[x] = "none" <=> ws[x] = "none")
      BY <1>6, <1>7, <2>1 DEF Select
    <2> QED
      BY <1>7, <2>2 DEF Select, Return, At, TypeOK
  <1>8. CASE CancelWs(r)
    <2>1. (ws[x] = "closed" => ws'[x] = "closed") /\ (ws'[x] = "none" <=> ws[x] = "none") /\ ws'[r] = "closed"
      BY <1>6, <1>8 DEF CancelWs
    <2> QED
      BY <1>8, <2>1 DEF CancelWs, TypeOK
  <1>9. CASE Exit(r)
    <2>1. (ws[x] = "closed" => ws'[x] = "closed") /\ (ws'[x] = "none" <=> ws[x] = "none") /\ ws'[r] = "closed"
      BY <1>6, <1>9 DEF Exit
    <2> QED
      BY <1>9, <2>1 DEF Exit, TypeOK
  <1>10. CASE WebClose(r)
    <2>1. (ws[x] = "closed" => ws'[x] = "closed") /\ (ws'[x] = "none" <=> ws[x] = "none") /\ ws'[r] = "closed"
      BY <1>6, <1>10 DEF WebClose
    <2> QED
      BY <1>10, <2>1 DEF WebClose
  <1>11. CASE LocalCandidate(r)
    <2>1. ws[x] = "none" => in'[x] = in[x]
      <3>1. in' = in \/ in' = Sent(in, r, "cand")
        BY <1>11 DEF LocalCandidate, Deliver
      <3>2. in \in [Role -> Seq(Message)]
        BY DEF TypeOK
      <3> QED
        BY <3>1, <3>2, SentOpen
    <2> QED
      BY <1>11, <2>1 DEF LocalCandidate
  <1>12. CASE RemoteCandidate(r)
    <2>1. ws[x] = "none" => in'[x] = in[x]
      BY <1>12 DEF RemoteCandidate, TypeOK, HandshakeInv, Place
    <2> QED
      BY <1>12, <2>1 DEF RemoteCandidate, TypeOK
  <1>13. CASE WebCandidate(r)
    <2>1. in[r] # <<>> /\ Head(in[r]).type = "cand" /\ UNCHANGED <<at, ws, result>> /\ in' = Rest(r)
      BY <1>13, OrderWebCandidate DEF WebCandidate, Gets
    <2>2. ws[x] = "none" => in'[x] = in[x]
      BY <2>1 DEF Rest, TypeOK, HandshakeInv, Place
    <2>3. \/ parked'[x] = parked[x]
          \/ \A i \in 1..Len(parked'[x]) : parked'[x][i].type = "cand"
      <3> DEFINE m == Head(in[r])
      <3>1. m \in Message /\ parked[r] \in Seq(Message)
        BY <2>1 DEF TypeOK
      <3>2. \A i \in 1..Len(parked[r]) : parked[r][i].type = "cand"
        BY DEF HandshakeInv, Place
      <3> HIDE DEF m
      <3>3. \A i \in 1..Len(Append(parked[r], m)) : Append(parked[r], m)[i].type = "cand"
        <4>1. m.type = "cand"
          BY <2>1 DEF m
        <4> QED
          BY <3>1, <3>2, <4>1
      <3>4. parked' = parked \/ parked' = [parked EXCEPT ![r] = Append(@, m)]
        BY <1>13 DEF WebCandidate, m
      <3> QED
        BY <3>3, <3>4 DEF TypeOK
    <2> QED
      BY <1>13, <2>1, <2>2, <2>3 DEF WebCandidate
  <1> QED
    BY <1>1, <1>2, <1>3, <1>4, <1>5, <1>7, <1>8, <1>9, <1>10, <1>11, <1>12, <1>13

(* The steps of package wormhole that move.                                *)
LEMMA GoPlace ==
    ASSUME TypeOK, HandshakeInv, NEW r \in Role, NEW x \in Role,
           \/ GiveSlot(r) \/ NewPeerConnection(r) \/ StartWatch(r)
           \/ SetDescription(r) \/ SendMessage(r) \/ ReadMessage(r)
    PROVE  Place(x)'
  <1> USE DEF signal, peerconn
  <1>1. Place(r) /\ Place(x) /\ result[r] = "none" /\ Step(r) \in GoStep /\ Step(r) # "select"
    BY DEF HandshakeInv, GiveSlot, NewPeerConnection, StartWatch, SetDescription, SendMessage,
           ReadMessage, At, GoStep, ReadStep, SendStep
  <1>2. fn[r] \in GoFns /\ at[r] \in 1..Len(Steps(fn[r])) /\ at[r] \in 2..12 /\ ws[r] # "none"
    BY <1>1, GoAt DEF Place
  <1>3. UNCHANGED fn /\ (Advance(r) \/ \E v : v # "none" /\ Return(r, v))
    BY DEF GiveSlot, NewPeerConnection, StartWatch, SetDescription, SendMessage, ReadMessage
  <1>4. CloseWs(r, "badKey") => /\ ws[x] = "closed" => ws'[x] = "closed"
                                /\ ws'[x] = "none" <=> ws[x] = "none"
    BY <1>2, Closing
  <1>5. Seen(r) \in 0..3 /\ Tell(r) \in 1..3
    BY <1>1, Levels
  <1>6. ASSUME Advance(r)
        PROVE  /\ at'[r] = at[r] + 1 /\ at'[r] \in 1..Len(Steps(fn[r])) /\ at'[r] > 2
               /\ Seen(r)' >= Seen(r) /\ Tell(r)' >= Tell(r) /\ Seen(r)' \in 0..3 /\ Tell(r)' \in 1..3
               /\ x # r => at'[x] = at[x]
    <2>1. /\ Seen(r)' = IF Step(r) \in ReadStep THEN Seen(r) + 1 ELSE Seen(r)
          /\ Tell(r)' = IF Step(r) \in SendStep THEN Tell(r) + 1 ELSE Tell(r)
          /\ at'[r] = at[r] + 1 /\ at'[r] \in 1..Len(Steps(fn[r])) /\ at'[r] > 2
          /\ x # r => at'[x] = at[x]
      BY <1>1, <1>3, <1>6, GoMove
    <2>2. (Step(r) \in ReadStep => Seen(r) < 3) /\ (Step(r) \in SendStep => Tell(r) < 3)
      BY <1>2, GoSteps DEF Step, Seen, Tell
    <2> QED
      BY <1>5, <2>1, <2>2
  <1>7. /\ Step(r) \in {"setRemote", "watch"} => Seen(r) = 3
        /\ Step(r) = "setLocal" => Tell(r) = 3
        /\ Step(r) = "newPC" <=> at[r] = PcAt(fn[r])
        /\ Step(r) = "watch" => pc[r] # "none"
    BY <1>1, <1>2, GoSteps DEF Step, Seen, Tell, Place
  <1>8. at["host"] > 2 => at'["host"] > 2
    BY <1>3, <1>6 DEF Advance, Return, TypeOK, Role
  <1>9. ws[x] = "none" => in'[x] = in[x]
    <2>1. CASE in' = in
      BY <2>1
    <2>2. CASE in' = Sent(in, r, Sends(Step(r)))
      <3>1. in \in [Role -> Seq(Message)]
        BY DEF TypeOK
      <3> QED
        BY <2>2, <3>1, SentOpen
    <2>3. CASE in' = [in EXCEPT ![r] = Tail(@)]
      BY <1>2, <2>3 DEF TypeOK
    <2> QED
      BY <2>1, <2>2, <2>3
      DEF GiveSlot, NewPeerConnection, StartWatch, SetDescription, SendMessage, ReadMessage, Deliver
  <1>10. /\ ws[x] = "closed" => ws'[x] = "closed"
         /\ ws'[x] = "none" <=> ws[x] = "none"
         /\ UNCHANGED <<parked, cancel>>
    BY <1>4 DEF GiveSlot, NewPeerConnection, StartWatch, SetDescription, SendMessage, ReadMessage
  <1>11. /\ pc[x] # "none" => pc'[x] # "none"
         /\ pc'[x] = "closed" => pc[x] = "closed"
         /\ Step(r) = "newPC" => pc'[r] # "none" \/ ~Advance(r)
    <2>1. CASE pc' = [pc EXCEPT ![r] = "new"]
      BY <2>1 DEF TypeOK
    <2>2. CASE UNCHANGED pc /\ Step(r) # "newPC"
      BY <2>2
    <2>3. CASE UNCHANGED pc /\ Return(r, "error")
      <3>1. ~Advance(r)
        BY <1>2, <2>3 DEF Advance, Return, TypeOK
      <3> QED
        BY <2>3, <3>1
    <2> QED
      BY <2>1, <2>2, <2>3
      DEF GiveSlot, NewPeerConnection, StartWatch, SetDescription, SendMessage, ReadMessage,
          At, ReadStep, SendStep
  <1>12. /\ local' \subseteq local \cup (IF Step(r) = "setLocal" THEN {r} ELSE {})
         /\ remote' \subseteq remote \cup (IF Step(r) = "setRemote" THEN {r} ELSE {})
         /\ watch' = watch \/ (Step(r) = "watch" /\ Advance(r) /\ watch' = [watch EXCEPT ![r] = "run"])
    BY DEF GiveSlot, NewPeerConnection, StartWatch, SetDescription, SendMessage, ReadMessage, At
  <1>13. result[x] # "none" => result'[x] # "none"
    BY <1>3 DEF Advance, Return, TypeOK
  <1>14. Steady(x)
    BY <1>3, <1>8, <1>9, <1>10, <1>11, <1>13 DEF Steady
  <1>15. CASE Advance(r)
    <2>1. CASE x = r
      <3>1. Moves(x)
        <4>1. fn[r] \notin WebFns
          BY <1>2, Sides
        <4> QED
          BY <1>1, <1>2, <1>5, <1>6, <1>7, <1>10, <1>11, <1>12, <1>14, <1>15, <2>1, <4>1 DEF Moves, TypeOK
      <3> QED
        BY <1>1, <3>1, PlaceMoves
    <2>2. CASE x # r
      <3>1. Stays(x)
        BY <1>6, <1>10, <1>12, <1>14, <1>15, <2>2 DEF Stays, TypeOK
      <3> QED
        BY <1>1, <3>1, PlaceStays
    <2> QED
      BY <2>1, <2>2
  <1>16. CASE ~Advance(r)
    <2>1. at' = at /\ UNCHANGED <<local, remote, watch>>
      BY <1>16 DEF GiveSlot, NewPeerConnection, StartWatch, SetDescription, SendMessage, ReadMessage, Return
    <2>2. Stays(x)
      BY <1>10, <1>14, <2>1 DEF Stays
    <2> QED
      BY <1>1, <2>2, PlaceStays
  <1> QED
    BY <1>15, <1>16

(* A side connects to the server.                                          *)
LEMMA DialPlace ==
    ASSUME TypeOK, HandshakeInv, NEW r \in Role, NEW x \in Role, DialServer(r)
    PROVE  Place(x)'
  <1> USE DEF signal, peerconn
  <1>1. Place(r) /\ Place(x) /\ at[r] = 1 /\ ws[r] = "none" /\ in[r] = <<>> /\ result[r] = "none"
    BY GoSteps, PageSteps, Sides DEF DialServer, At, Step, Place, HandshakeInv
  <1>2. UNCHANGED <<fn, samePass, peerconn, watch, parked, ctx, cancel>>
    BY DEF DialServer
  <1>3. CASE Return(r, "error") /\ UNCHANGED signal
    <2>1. Stays(x)
      BY <1>2, <1>3 DEF Stays, Steady, Return, TypeOK
    <2> QED
      BY <1>1, <2>1, PlaceStays
  <1>4. CASE Advance(r) /\ UNCHANGED result
    <2>1. /\ at'[r] = 2 /\ \A y \in Role : y # r => at'[y] = at[y] /\ ws'[y] = ws[y] /\ in'[y] = in[y]
          /\ ws'[r] # "none"
      BY <1>1, <1>4 DEF DialServer, Advance, Return, TypeOK
    <2>2. r = "joiner" => at["host"] > 2
      BY DEF DialServer
    <2>3. CASE x # r
      <3>1. at["host"] > 2 => at'["host"] > 2
        BY <1>1, <2>1 DEF Role
      <3>2. Stays(x)
        BY <1>2, <1>4, <2>1, <2>3, <3>1 DEF Stays, Steady
      <3> QED
        BY <1>1, <3>2, PlaceStays
    <2>4. CASE x = r
      <3>1. 2 \in 1..Len(Steps(fn[r])) /\ Seen(r)' = Seen(r) /\ Tell(r)' = Tell(r) /\ PcAt(fn[r]) > 2
        <4>1. fn[r] \in GoHost \cup GoJoin \cup {"Player1", "Player2"}
          BY Sides DEF GoFns, WebFns
        <4>2. /\ Seen(r) = SeenAt(fn[r])[1] /\ Seen(r)' = SeenAt(fn[r])[2]
              /\ Tell(r) = TellAt(fn[r])[1] /\ Tell(r)' = TellAt(fn[r])[2]
          BY <1>1, <1>2, <2>1 DEF Seen, Tell
        <4>3. 2 \in 1..Len(Steps(fn[r]))
          <5>1. fn[r] \in GoFns => 2 \in 1..Len(Steps(fn[r]))
            BY DEF Steps, NewSteps, NewCtxSteps, PrepareTunnelSteps, JoinSteps, JoinCtxSteps,
                   GoFns, GoHost, GoJoin
          <5>2. fn[r] \in WebFns => 2 \in 1..Len(Steps(fn[r]))
            BY DEF Steps, Player1Steps, Player2Steps, WebFns
          <5> QED
            BY <5>1, <5>2, Sides
        <4> QED
          BY <4>1, <4>2, <4>3 DEF SeenAt, TellAt, GoHost, GoJoin, PcAt
      <3>2. r = "joiner" => at'["host"] > 2
        BY <1>2, <2>1, <2>2 DEF Role
      <3>3. (watch[r] # "off" => Seen(r) = 3) /\ (r \in remote => Seen(r) = 3 /\ fn[r] \notin WebFns)
        BY <1>1 DEF Place
      <3>4. r \in local => Tell(r) = 3
        BY <1>1 DEF Place
      <3>5. pc'[r] # "closed" /\ cancel'[r] # "closePc" /\ UNCHANGED <<pc, parked, local, remote, watch>>
        BY <1>1, <1>2 DEF Place
      <3>6. watch[r] # "off" => fn[r] \in GoFns /\ pc[r] # "none"
        BY <1>1 DEF Place
      <3>7. \A i \in 1..Len(parked'[r]) : parked'[r][i].type = "cand"
        BY <1>1, <1>2 DEF Place
      <3>8. ~(at'[r] > PcAt(fn'[r]))
        BY <1>2, <2>1, <3>1 DEF PcAt
      <3> QED
        BY <1>2, <2>1, <2>4, <3>1, <3>2, <3>3, <3>4, <3>5, <3>6, <3>7, <3>8 DEF Place
    <2> QED
      BY <2>3, <2>4
  <1> QED
    BY <1>3, <1>4 DEF DialServer, Advance

(* The steps of a page that move.                                          *)
LEMMA PagePlace ==
    ASSUME TypeOK, HandshakeInv, NEW r \in Role, NEW x \in Role,
           WebInit(r) \/ WebPake(r) \/ WebPromise(r) \/ WebDescription(r) \/ WebRejected(r)
    PROVE  Place(x)'
  <1> USE DEF signal, peerconn
  <1>1. Place(r) /\ Place(x)
    BY DEF HandshakeInv
  <1>2. /\ fn[r] \in WebFns /\ at[r] # ErrorState /\ Step(r) \notin {"dial", "candidates", "failed"}
        /\ UNCHANGED <<fn, samePass, watch, cancel>>
    BY DEF WebInit, WebPake, WebPromise, WebDescription, WebRejected, Gets
  <1>3. /\ at[r] \in 1..Len(Steps(fn[r])) /\ at[r] \in 2..5 /\ at[r] + 1 \in 1..Len(Steps(fn[r]))
        /\ fn[r] \notin GoFns /\ ws[r] # "none" /\ at[r] + 1 \in 1..12
    BY <1>1, <1>2, PageAt, PageNext, Sides DEF Place
  <1>4. ASSUME NEW n \in 1..12, n > 2, Enter(r, n)
        PROVE  (at["host"] > 2 => at'["host"] > 2) /\ at'[r] = n /\ (x # r => at'[x] = at[x])
    BY <1>4 DEF Enter, TypeOK, Role
  <1>5. ASSUME NEW type, in' = Sent(in, r, type) \/ in' = Rest(r) \/ in' = Sent(Rest(r), r, type),
               in' # Sent(in, r, type) => in[r] # <<>>
        PROVE  ws[x] = "none" => in'[x] = in[x]
    <2>1. in \in [Role -> Seq(Message)]
      BY DEF TypeOK
    <2>2. CASE in' = Sent(in, r, type)
      BY <2>1, <2>2, SentOpen
    <2>3. CASE in[r] # <<>>
      <3> DEFINE q == Rest(r)
      <3>1. q \in [Role -> Seq(Message)] /\ (ws[x] = "none" => q[x] = in[x])
        BY <1>3, <2>1, <2>3 DEF Rest
      <3> HIDE DEF q
      <3>2. in' = Sent(in, r, type) \/ in' = q \/ in' = Sent(q, r, type)
        BY <1>5 DEF q
      <3>3. ws[x] = "none" => Sent(q, r, type)[x] = q[x] /\ Sent(in, r, type)[x] = in[x]
        BY <2>1, <3>1, SentOpen
      <3> QED
        BY <3>1, <3>2, <3>3
    <2> QED
      BY <1>5, <2>2, <2>3
  <1>6. ASSUME Enter(r, at[r] + 1), Steady(x), ws' = ws,
               x # r => (x \in remote' => x \in remote) /\ (x \in local' => x \in local),
               r \in remote' => r \in remote \/ (Seen(r)' = 3 /\ at[r] = 5),
               r \in local' => r \in local \/ Tell(r)' = 3
        PROVE  Place(x)'
    <2>1. at'[r] = at[r] + 1 /\ (x # r => at'[x] = at[x])
      BY SMTT(20), <1>3, <1>4, <1>6
    <2>2. CASE x # r
      <3>1. Stays(x)
        BY <1>2, <1>6, <2>1, <2>2 DEF Stays
      <3> QED
        BY <1>1, <3>1, PlaceStays
    <2>3. CASE x = r
      <3>1. /\ Seen(r)' \in 0..3 /\ Seen(r)' >= Seen(r) /\ Tell(r)' \in 1..3 /\ Tell(r)' >= Tell(r)
        <4>1. /\ Seen(r) = SeenAt(fn[r])[at[r]] /\ Tell(r) = TellAt(fn[r])[at[r]]
              /\ Seen(r)' = SeenAt(fn[r])[at[r] + 1] /\ Tell(r)' = TellAt(fn[r])[at[r] + 1]
          BY <1>1, <1>2, <1>3, <1>6, PageMove
        <4>2. fn[r] \in {"Player1", "Player2"}
          BY <1>2 DEF WebFns
        <4> QED
          BY SMTT(20), <1>3, <4>1, <4>2 DEF SeenAt, TellAt, GoHost, GoJoin
      <3>3. r \notin remote
        BY <1>1, <1>2, <1>3 DEF Place
      <3>2. Moves(x)
        BY <1>2, <1>3, <1>6, <2>1, <2>3, <3>1, <3>3 DEF Moves
      <3> QED
        BY <1>1, <3>2, PlaceMoves
    <2> QED
      BY <2>2, <2>3
  <1>11. ASSUME Enter(r, FailedState), Steady(x), UNCHANGED <<ws, local, remote>>, Tell(r) # 3
         PROVE  Place(x)'
    <2>1. FailedState \in 1..12 /\ FailedState > 2
      BY DEF FailedState
    <2>2. (at["host"] > 2 => at'["host"] > 2) /\ at'[r] = FailedState /\ (x # r => at'[x] = at[x])
      BY <1>4, <1>11, <2>1
    <2>3. CASE x # r
      <3>1. Stays(x)
        BY <1>2, <1>11, <2>2, <2>3 DEF Stays
      <3> QED
        BY <1>1, <3>1, PlaceStays
    <2>4. CASE x = r
      <3>1. r \notin remote' /\ r \notin local' /\ watch'[r] = "off" /\ ws'[r] # "none"
        BY <1>1, <1>2, <1>3, <1>11 DEF Place, TypeOK
      <3>2. at'[r] \in 1..Len(Steps(fn[r])) /\ at'[r] # 1 /\ at[r] > 1
        <4>1. Len(Steps(fn[r])) = 7
          BY <1>2, <1>3, PageSteps
        <4> QED
          BY <1>3, <2>2, <4>1 DEF FailedState
      <3>3. \A i \in 1..Len(parked'[r]) : parked'[r][i].type = "cand"
        BY <1>1, <1>11, <2>4 DEF Place, Steady
      <3>4. fn'[r] \notin GoFns /\ fn' = fn /\ (r = "joiner" => at'["host"] > 2)
        BY <1>1, <1>2, <1>3, <2>2, <3>2 DEF Place
      <3>5. pc'[r] = "closed" \/ cancel'[r] = "closePc" => ws'[r] = "closed"
        BY <1>1, <1>11, <2>4 DEF Place, Steady
      <3> QED
        BY <2>4, <3>1, <3>2, <3>3, <3>4, <3>5 DEF Place
    <2> QED
      BY <2>3, <2>4
  <1>7. CASE WebInit(r) \/ WebPake(r)
    <2>1. /\ \/ Enter(r, at[r] + 1) /\ UNCHANGED result
             \/ Enter(r, FailedState) /\ Settle(r, "error")
          /\ UNCHANGED <<ws, local, remote, parked>> /\ in[r] # <<>>
          /\ in' = Rest(r) \/ in' = Sent(Rest(r), r, "pakeA") \/ in' = Sent(Rest(r), r, "pakeB")
          /\ pc' = [pc EXCEPT ![r] = "new"] \/ UNCHANGED pc
      BY <1>7 DEF WebInit, WebPake, WebFail, Gets
    <2>2. ws[x] = "none" => in'[x] = in[x]
      BY <1>5, <2>1
    <2>3. at["host"] > 2 => at'["host"] > 2
      BY <1>3, <1>4, <2>1 DEF FailedState
    <2>4. Steady(x)
      BY <1>2, <2>1, <2>2, <2>3 DEF Steady, TypeOK, Settle
    <2>5. Tell(r) # 3
      <3>1. Step(r) \in {"player1", "player2", "waitPakeA", "waitPakeB"}
        BY <1>7 DEF WebInit, WebPake, Gets
      <3> QED
        BY <1>2, <1>3, <3>1, PageTable DEF Step, Tell
    <2> QED
      BY <1>6, <1>11, <2>1, <2>4, <2>5
  <1>12. CASE WebRejected(r)
    <2>1. Enter(r, FailedState) /\ UNCHANGED <<result, ws, local, remote, parked, in, pc>>
      BY <1>12 DEF WebRejected
    <2>2. at["host"] > 2 => at'["host"] > 2
      BY <1>4, <2>1 DEF FailedState
    <2>3. Steady(x)
      BY <1>2, <2>1, <2>2 DEF Steady
    <2>4. Tell(r) # 3
      <3>1. Step(r) \in {"localOffer", "localAnswer"}
        BY <1>12 DEF WebRejected
      <3> QED
        BY <1>2, <1>3, <3>1, PageTable DEF Step, Tell
    <2> QED
      BY <1>11, <2>1, <2>3, <2>4
  <1>8. CASE WebPromise(r)
    <2>1. /\ Enter(r, at[r] + 1) /\ UNCHANGED <<ws, pc>> /\ parked' = [parked EXCEPT ![r] = <<>>]
          /\ in' = Sent(in, r, "offer") \/ in' = Sent(in, r, "answer")
          /\ UNCHANGED result \/ Settle(r, "ok")
          /\ local' = local \cup {r}
          /\ UNCHANGED remote \/ (Step(r) = "localAnswer" /\ remote' = remote \cup {r})
      BY <1>8 DEF WebPromise, Deliver
    <2>2. ws[x] = "none" => in'[x] = in[x]
      BY <1>5, <2>1
    <2>3. at["host"] > 2 => at'["host"] > 2
      BY <1>3, <1>4, <2>1
    <2>4. Steady(x)
      BY <1>2, <2>1, <2>2, <2>3 DEF Steady, TypeOK, Settle
    <2>5. Tell(r)' = 3 /\ (Step(r) = "localAnswer" => Seen(r)' = 3 /\ at[r] = 5)
      <3>1. Seen(r)' = SeenAt(fn[r])[at[r] + 1] /\ Tell(r)' = TellAt(fn[r])[at[r] + 1]
        BY <1>1, <1>2, <1>3, <2>1, PageMove
      <3>2. Step(r) \in {"localOffer", "localAnswer"}
        BY <1>8 DEF WebPromise
      <3> QED
        BY <1>2, <1>3, <3>1, <3>2, PageTable DEF Step
    <2> QED
      BY <1>6, <2>1, <2>4, <2>5
  <1>9. CASE WebDescription(r) /\ samePass
    <2>1. /\ Enter(r, at[r] + 1) /\ UNCHANGED <<ws, pc, parked, local>> /\ in' = Rest(r) /\ in[r] # <<>>
          /\ UNCHANGED result \/ Settle(r, "ok")
          /\ remote' \subseteq remote \cup {r} /\ Seen(r)' = 3 /\ (remote' # remote => at[r] = 5)
      BY <1>9, PageDescription DEF WebDescription
    <2>2. ws[x] = "none" => in'[x] = in[x]
      BY <1>5, <2>1
    <2>3. at["host"] > 2 => at'["host"] > 2
      BY <1>3, <1>4, <2>1
    <2>4. Steady(x)
      BY <1>2, <2>1, <2>2, <2>3 DEF Steady, TypeOK, Settle
    <2> QED
      BY <1>6, <2>1, <2>4
  <1>10. CASE WebDescription(r) /\ ~samePass
    <2>1. /\ Enter(r, ErrorState) /\ UNCHANGED <<pc, parked, local, remote>> /\ in[r] # <<>>
          /\ in' = Sent(Rest(r), r, "bye") /\ CloseWs(r, "badKey") /\ Settle(r, "badKey")
      BY <1>10, PageDescription DEF WebDescription
    <2>2. ws[x] = "none" => in'[x] = in[x]
      BY <1>5, <2>1
    <2>3. (at["host"] > 2 => at'["host"] > 2) /\ at'[r] = 8 /\ (x # r => at'[x] = at[x])
      BY <1>4, <2>1 DEF ErrorState
    <2>4. /\ ws[x] = "closed" => ws'[x] = "closed"
          /\ ws'[x] = "none" <=> ws[x] = "none"
          /\ ws'[r] = "closed"
      BY <1>3, <2>1, Closing
    <2>5. Steady(x) /\ result'[r] # "none"
      BY <1>2, <2>1, <2>2, <2>3, <2>4 DEF Steady, TypeOK, Settle
    <2>6. CASE x # r
      <3>1. Stays(x)
        BY <1>2, <2>1, <2>3, <2>4, <2>5, <2>6 DEF Stays
      <3> QED
        BY <1>1, <3>1, PlaceStays
    <2>7. CASE x = r
      <3>1. Tell(r)' = 3 /\ r \notin remote' /\ (watch'[r] = "off") /\ ws'[r] # "none"
        <4>1. TellAt(fn[r])[8] = 3
          BY <1>2, <1>3, PageSteps
        <4>2. Seen(r) = 2
          BY <1>10, PageDescription
        <4> QED
          BY <1>1, <1>2, <1>3, <2>1, <2>3, <2>4, <4>1, <4>2 DEF Tell, Place, TypeOK
      <3>2. \A i \in 1..Len(parked'[x]) : parked'[x][i].type = "cand"
        BY <1>1, <2>1 DEF Place
      <3>3. fn'[r] \notin GoFns /\ fn'[r] \in WebFns /\ (r = "joiner" => at["host"] > 2)
        BY <1>1, <1>2, <1>3 DEF Place
      <3> QED
        BY <2>3, <2>4, <2>5, <2>7, <3>1, <3>2, <3>3 DEF Place, Steady, ErrorState
    <2> QED
      BY <2>6, <2>7
  <1> QED
    BY <1>7, <1>8, <1>9, <1>10, <1>12 DEF TypeOK

(* Every step keeps the places of both sides.                              *)
LEMMA NextPlace ==
    ASSUME TypeOK, HandshakeInv, [Next]_vars, NEW x \in Role
    PROVE  Place(x)'
  <1>1. Place(x)
    BY DEF HandshakeInv
  <1>2. Stays(x) => Place(x)'
    BY <1>1, PlaceStays
  <1>3. ASSUME NEW r \in Role,
               \/ ReadFails(r) \/ WatchEnds(r) \/ ChannelEvent(r) \/ CtxDone(r)
               \/ CancelPc(r) \/ WebClosed(r)
               \/ Select(r) \/ CancelWs(r) \/ Exit(r) \/ WebClose(r)
               \/ LocalCandidate(r) \/ RemoteCandidate(r) \/ WebCandidate(r)
        PROVE  Place(x)'
    <2>1. Stays(x)
      BY <1>3, StaysSteps
    <2> QED
      BY <1>2, <2>1
  <1>4. CASE \E r \in Role : Main(r)
    <2>1. PICK r \in Role : Main(r)
      BY <1>4
    <2> QED
      BY <1>3, <2>1, DialPlace, GoPlace DEF Main
  <1>5. CASE \E r \in Role : WebSteps(r)
    <2>1. PICK r \in Role : WebSteps(r)
      BY <1>5
    <2> QED
      BY <1>3, <2>1, PagePlace DEF WebSteps
  <1>6. CASE \E r \in Role : \/ Watcher(r) \/ Canceller(r) \/ LocalCandidate(r) \/ WebClose(r)
                             \/ ChannelEvent(r) \/ CtxDone(r) \/ Exit(r)
    BY <1>6, <1>3 DEF Watcher, Canceller
  <1>7. CASE Connect \/ UNCHANGED vars
    BY <1>2, <1>7 DEF Connect, vars, signal, peerconn, Stays, Steady
  <1> QED
    BY <1>4, <1>5, <1>6, <1>7 DEF Next

-----------------------------------------------------------------------------
(* Success.                                                                *)

(* Descriptions stay set, and a connection stays.                          *)
LEMMA Monotone ==
    ASSUME TypeOK, [Next]_vars
    PROVE  /\ local \subseteq local' /\ remote \subseteq remote' /\ (linked => linked')
           /\ linked' => linked \/ Connect
  <1> USE DEF signal, peerconn
  <1>1. CASE \E r \in Role : Main(r)
    BY <1>1 DEF Main, DialServer, GiveSlot, NewPeerConnection, SendMessage, ReadMessage, ReadFails,
           SetDescription, StartWatch, Select
  <1>2. CASE \E r \in Role : WebSteps(r)
    BY <1>2 DEF WebSteps, WebInit, WebPake, WebDescription, WebPromise, WebRejected, WebCandidate, WebClosed
  <1>3. CASE \E r \in Role : \/ Watcher(r) \/ Canceller(r) \/ LocalCandidate(r) \/ WebClose(r)
                             \/ ChannelEvent(r) \/ CtxDone(r) \/ Exit(r)
    BY <1>3 DEF Watcher, RemoteCandidate, WatchEnds, Canceller, CancelWs, CancelPc, LocalCandidate,
           WebClose, ChannelEvent, CtxDone, Exit
  <1>4. CASE Connect \/ UNCHANGED vars
    BY <1>4 DEF Connect, vars
  <1> QED
    BY <1>1, <1>2, <1>3, <1>4 DEF Next

(* Who succeeds, and who has an event of a data channel.                   *)
LEMMA NextSuccess ==
    ASSUME TypeOK, HandshakeInv, [Next]_vars
    PROVE  Success'
  <1> USE DEF signal, peerconn
  <1> DEFINE Fine == \A x \in Role : /\ event'[x] # "none" => event[x] # "none" \/ linked
                                     /\ result'[x] = "ok" /\ fn'[x] \notin WebFns
                                            => linked \/ (result[x] = "ok" /\ fn[x] \notin WebFns)
  <1>1. Success
    BY DEF HandshakeInv
  <1>2. local' \subseteq Role /\ remote' \subseteq Role
    BY NextType DEF TypeOK
  <1>3. local \subseteq local' /\ remote \subseteq remote' /\ (linked => linked')
    BY Monotone
  <1>4. linked' => local' = Role /\ remote' = Role
    <2>1. CASE linked
      BY <1>1, <1>2, <1>3, <2>1 DEF Success
    <2>2. CASE ~linked /\ linked'
      <3>1. Connect
        BY <2>2, Monotone
      <3> QED
        BY <3>1 DEF Connect
    <2> QED
      BY <2>1, <2>2
  <1>5. ASSUME NEW r \in Role, Main(r) PROVE Fine
    <2>1. CASE Select(r)
      BY <1>1, <2>1 DEF Select, Return, Success, TypeOK
    <2>2. CASE \/ DialServer(r) \/ GiveSlot(r) \/ NewPeerConnection(r) \/ SendMessage(r)
               \/ ReadMessage(r) \/ ReadFails(r) \/ SetDescription(r) \/ StartWatch(r)
      <3>1. UNCHANGED <<fn, event>> /\ (UNCHANGED result \/ \E v : v # "ok" /\ Return(r, v))
        BY <2>2 DEF DialServer, GiveSlot, NewPeerConnection, SendMessage, ReadMessage, ReadFails,
               SetDescription, StartWatch, Advance
      <3> QED
        BY <3>1 DEF Return, TypeOK
    <2> QED
      BY <1>5, <2>1, <2>2 DEF Main
  <1>6. ASSUME NEW r \in Role, WebSteps(r) PROVE Fine
    <2>1. /\ UNCHANGED <<fn, event>> /\ fn[r] \in WebFns
          /\ UNCHANGED result \/ \E v : Settle(r, v)
      BY <1>6 DEF WebSteps, WebInit, WebPake, WebFail, WebDescription, WebPromise, WebRejected,
             WebCandidate, WebClosed, Gets
    <2> QED
      BY <2>1 DEF Settle, TypeOK
  <1>7. ASSUME NEW r \in Role, \/ Watcher(r) \/ Canceller(r) \/ LocalCandidate(r) \/ WebClose(r)
                               \/ ChannelEvent(r) \/ CtxDone(r) \/ Exit(r)
        PROVE  Fine
    <2>1. CASE ChannelEvent(r)
      BY <2>1 DEF ChannelEvent
    <2>2. CASE Watcher(r) \/ Canceller(r) \/ LocalCandidate(r) \/ WebClose(r) \/ CtxDone(r) \/ Exit(r)
      <3>1. UNCHANGED <<fn, event, result>>
        BY <2>2 DEF Watcher, RemoteCandidate, WatchEnds, Canceller, CancelWs, CancelPc, LocalCandidate,
               WebClose, CtxDone, Exit
      <3> QED
        BY <3>1
    <2> QED
      BY <1>7, <2>1, <2>2
  <1>8. ASSUME Connect \/ UNCHANGED vars PROVE Fine
    BY <1>8 DEF Connect, vars
  <1>9. Fine
    BY <1>5, <1>6, <1>7, <1>8 DEF Next
  <1>10. \A x \in Role : result'[x] # "confused"
    BY NextOrder DEF Order
  <1> QED
    BY <1>1, <1>3, <1>4, <1>9, <1>10 DEF Success

-----------------------------------------------------------------------------
(* The theorems.                                                           *)

LEMMA InitInv == Init => TypeOK /\ HandshakeInv
  <1> SUFFICES ASSUME Init PROVE TypeOK /\ HandshakeInv
    OBVIOUS
  <1>1. TypeOK
    <2>1. PICK p \in Pairs : fn = [host |-> p[1], joiner |-> p[2]]
      BY DEF Init
    <2>2. <<fn["host"], fn["joiner"]>> = p
      BY <2>1, HandshakeAssumption
    <2>3. <<>> \in Seq(Message)
      OBVIOUS
    <2>4. 0 \in 0..MaxCand
      BY HandshakeAssumption
    <2>5. <<fn["host"], fn["joiner"]>> \in Pairs
      BY <2>1, <2>2
    <2>6. /\ in \in [Role -> Seq(Message)] /\ parked \in [Role -> Seq(Message)]
          /\ cands \in [Role -> 0..MaxCand]
      BY <2>3, <2>4 DEF Init
    <2>10. linked \in BOOLEAN /\ samePass \in BOOLEAN
      BY DEF Init
    <2>7. /\ at \in [Role -> 1..12]
          /\ local \subseteq Role /\ remote \subseteq Role /\ added \in [Role -> SUBSET (0..MaxCand)]
      BY DEF Init
    <2>8. /\ result \in [Role -> {"none", "ok", "badKey", "timedOut", "confused", "error"}]
          /\ ws \in [Role -> {"none", "open", "closed", "badKey", "peerHungUp", "refused"}]
          /\ pc \in [Role -> {"none", "new", "closed"}] /\ watch \in [Role -> {"off", "run", "end"}]
          /\ event \in [Role -> {"none", "open", "err", "taken"}]
      BY DEF Init
    <2>9. ctx \in [Role -> {"live", "done"}] /\ cancel \in [Role -> {"wait", "closePc", "over"}]
      BY DEF Init
    <2> QED
      BY <2>5, <2>6, <2>7, <2>8, <2>9, <2>10 DEF TypeOK
  <1>2. \A r \in Role : Seen(r) = 0 /\ Tell(r) = 1 /\ 1 \in 1..Len(Steps(fn[r])) /\ PcAt(fn[r]) > 1
    <2> TAKE r \in Role
    <2>1. at[r] = 1 /\ fn[r] \in GoFns \cup WebFns
      BY <1>1, Sides DEF Init
    <2>2. fn[r] \in GoHost \cup GoJoin \cup {"Player1", "Player2"}
      BY <2>1 DEF GoFns, WebFns
    <2>3. 1 \in 1..Len(Steps(fn[r]))
      <3>1. fn[r] \in GoFns => 1 \in 1..Len(Steps(fn[r]))
        BY DEF Steps, NewSteps, NewCtxSteps, PrepareTunnelSteps, JoinSteps, JoinCtxSteps,
               GoFns, GoHost, GoJoin
      <3>2. fn[r] \in WebFns => 1 \in 1..Len(Steps(fn[r]))
        BY DEF Steps, Player1Steps, Player2Steps, WebFns
      <3> QED
        BY <2>1, <3>1, <3>2
    <2> QED
      BY <2>1, <2>2, <2>3 DEF Seen, Tell, SeenAt, TellAt, GoHost, GoJoin, PcAt
  <1>3. Causal
    BY <1>2, Sides DEF Causal, Role
  <1>4. Success
    BY DEF Init, Success
  <1>5. ASSUME NEW r \in Role PROVE Queue(r)
    <2>1. in[r] = <<>> /\ ~BothOpen /\ Tell(Peer(r)) = 1 /\ Seen(r) = 0
      BY <1>2, Sides DEF Init, BothOpen
    <2> QED
      BY <2>1 DEF Queue, UpTo
  <1>6. ASSUME NEW r \in Role PROVE Place(r)
    <2>1. at[r] = 1 /\ at[r] \in 1..Len(Steps(fn[r])) /\ ~(at[r] > PcAt(fn[r]))
      BY <1>2 DEF Init, PcAt
    <2>2. Len(parked[r]) = 0
      BY DEF Init
    <2> QED
      BY <2>1, <2>2 DEF Init, Place
  <1> QED
    BY <1>1, <1>3, <1>4, <1>5, <1>6 DEF HandshakeInv

LEMMA Inductive == Spec => [](TypeOK /\ HandshakeInv)
  <1>1. TypeOK /\ HandshakeInv /\ [Next]_vars => (TypeOK /\ HandshakeInv)'
    <2> SUFFICES ASSUME TypeOK, HandshakeInv, [Next]_vars PROVE TypeOK' /\ HandshakeInv'
      OBVIOUS
    <2>1. TypeOK'
      BY NextType
    <2>2. Causal' /\ \A x \in Role : Queue(x)'
      BY NextOrder DEF Order
    <2>3. Success'
      BY NextSuccess
    <2>4. \A x \in Role : Place(x)'
      BY NextPlace
    <2> QED
      BY <2>1, <2>2, <2>3, <2>4 DEF HandshakeInv
  <1> QED
    BY <1>1, InitInv, PTL DEF Spec

(* The types of the handshake's state, for any number of candidates.       *)
THEOREM TypeCorrect == Spec => []TypeOK
  BY Inductive, PTL

(* A side takes the other's description only under the same password, and  *)
(* success of a function of package wormhole means that both sides set     *)
(* both descriptions.                                                      *)
THEOREM AuthenticatedHolds == Spec => []Authenticated
  <1>1. TypeOK /\ HandshakeInv => Authenticated
    BY DEF HandshakeInv, Place, Causal, Success, Authenticated
  <1> QED
    BY <1>1, Inductive, PTL

(* No side ever reads a message it does not expect at that step.           *)
THEOREM NeverConfusedHolds == Spec => []NeverConfused
  <1>1. TypeOK /\ HandshakeInv => NeverConfused
    <2> SUFFICES ASSUME TypeOK, HandshakeInv, NEW r \in Role, watch[r] = "run", NEW i \in 1..Len(in[r])
                 PROVE  in[r][i].type = "cand"
      BY DEF NeverConfused, HandshakeInv, Success, Place
    <2>1. Seen(r) = 3 /\ Reads(r)
      BY Sides DEF HandshakeInv, Place, Reads
    <2>2. in[r][i] \in Nth(r, 3 + i, samePass)
      BY <2>1 DEF HandshakeInv, Queue
    <2> DEFINE n == 3 + i
    <2>3. n # 1 /\ n # 2 /\ n # 3 /\ n > 3
      BY DEF TypeOK
    <2> HIDE DEF n
    <2>4. in[r][i] \in Nth(r, n, samePass)
      BY <2>2 DEF n
    <2> QED
      BY <2>3, <2>4 DEF Nth
  <1> QED
    BY <1>1, Inductive, PTL

-----------------------------------------------------------------------------
(* No candidate is lost.                                                   *)

OnWay(x, n) == Holds(in[x], n) \/ Holds(parked[x], n)

(* When the n-th candidate of the peer of x is to reach x.                 *)
Due(x, n) ==
    /\ samePass /\ n \in 1..cands[Peer(x)] /\ ctx[Peer(x)] = "live"
    /\ \A q \in Role : ws[q] = "open" /\ result[q] \in {"none", "ok"}

(* Candidates come after SetLocalDescription.                              *)
Gathered == \A r \in Role : cands[r] > 0 => r \in local

CandInv == Gathered /\ \A x \in Role, n \in Nat : Due(x, n) => OnWay(x, n) \/ n \in added[x]

(* A queue keeps its candidates when it grows, or loses another message.   *)
LEMMA CandSeq ==
    ASSUME NEW q \in Seq(Message), NEW m \in Message, NEW n
    PROVE  /\ Holds(q, n) => Holds(Append(q, m), n)
           /\ m.type = "cand" /\ m.num = n => Holds(Append(q, m), n)
           /\ q # <<>> /\ Holds(q, n) => Holds(Tail(q), n) \/ (Head(q).type = "cand" /\ Head(q).num = n)
  <1>1. /\ Len(q) \in Nat /\ Len(Append(q, m)) = Len(q) + 1
        /\ \A i \in 1..(Len(q) + 1) : Append(q, m)[i] = IF i = Len(q) + 1 THEN m ELSE q[i]
    OBVIOUS
  <1>2. Holds(q, n) => Holds(Append(q, m), n)
    BY <1>1 DEF Holds
  <1>3. m.type = "cand" /\ m.num = n => Holds(Append(q, m), n)
    BY <1>1 DEF Holds
  <1>4. ASSUME q # <<>>, ~(Head(q).type = "cand" /\ Head(q).num = n), Holds(q, n) PROVE Holds(Tail(q), n)
    <2>1. PICK i \in 1..Len(q) : q[i].type = "cand" /\ q[i].num = n
      BY <1>4 DEF Holds
    <2>2. Len(Tail(q)) = Len(q) - 1 /\ \A j \in 1..Len(Tail(q)) : Tail(q)[j] = q[j + 1]
      BY <1>4
    <2>3. i # 1
      BY <1>4, <2>1
    <2>4. i - 1 \in 1..Len(Tail(q)) /\ (i - 1) + 1 = i
      BY <1>1, <2>2, <2>3
    <2>5. Tail(q)[i - 1] = q[i]
      BY <2>2, <2>4
    <2> QED
      BY <2>1, <2>4, <2>5 DEF Holds
  <1> QED
    BY <1>2, <1>3, <1>4

(* Candidates are only gathered once the description is set.               *)
LEMMA GatheredKept ==
    ASSUME TypeOK, TypeOK', Gathered, [Next]_vars
    PROVE  Gathered'
  <1>1. local \subseteq local'
    BY Monotone
  <1>2. \A r \in Role : cands[r] \in Nat /\ cands'[r] \in Nat
    BY HandshakeAssumption DEF TypeOK
  <1>3. \A r \in Role : cands'[r] > cands[r] => r \in local
    <2>1. CASE \E r \in Role : LocalCandidate(r)
      BY <1>2, <2>1 DEF LocalCandidate, TypeOK
    <2>2. CASE UNCHANGED cands
      BY <1>2, <2>2
    <2>3. (\E r \in Role : LocalCandidate(r)) \/ UNCHANGED cands
      <3> USE DEF signal, peerconn
      <3>1. CASE \E r \in Role : Main(r)
        BY <3>1 DEF Main, DialServer, GiveSlot, NewPeerConnection, SendMessage, ReadMessage, ReadFails,
               SetDescription, StartWatch, Select
      <3>2. CASE \E r \in Role : WebSteps(r)
        BY <3>2 DEF WebSteps, WebInit, WebPake, WebDescription, WebPromise, WebRejected,
               WebCandidate, WebClosed
      <3>3. CASE \E r \in Role : \/ Watcher(r) \/ Canceller(r) \/ LocalCandidate(r) \/ WebClose(r)
                                 \/ ChannelEvent(r) \/ CtxDone(r) \/ Exit(r)
        BY <3>3 DEF Watcher, RemoteCandidate, WatchEnds, Canceller, CancelWs, CancelPc,
               WebClose, ChannelEvent, CtxDone, Exit
      <3>4. CASE Connect \/ UNCHANGED vars
        BY <3>4 DEF Connect, vars
      <3> QED
        BY <3>1, <3>2, <3>3, <3>4 DEF Next
    <2> QED
      BY <2>1, <2>2, <2>3
  <1> QED
    BY <1>1, <1>2, <1>3 DEF Gathered

(* A side connects before its peer has gathered candidates.                *)
LEMMA DialEarly ==
    ASSUME TypeOK, HandshakeInv, Gathered, NEW r \in Role, at[r] = 1
    PROVE  ~(cands[r] > 0) /\ ~(cands[Peer(r)] > 0)
  <1>1. /\ Peer(r) \in Role /\ Place(r) /\ Place(Peer(r)) /\ Place("host")
        /\ Peer(Peer(r)) = r
    BY Sides DEF HandshakeInv, Role
  <1>2. Tell(r) = 1 /\ Seen(r) = 0
    <2>1. Tell(r) = TellAt(fn[r])[1] /\ Seen(r) = SeenAt(fn[r])[1]
      BY DEF Tell, Seen
    <2>2. fn[r] \in GoHost \cup GoJoin \cup {"Player1", "Player2"}
      BY Sides DEF GoFns, WebFns
    <2> QED
      BY <2>1, <2>2 DEF TellAt, SeenAt, GoHost, GoJoin
  <1>3. /\ Seen(Peer(r)) <= 1
        /\ Tell("joiner") = 3 => Tell("host") = 3
    BY <1>1, <1>2 DEF HandshakeInv, Causal
  <1>4. Tell(Peer(r)) # 3
    <2>1. CASE Peer(r) = "host"
      <3>1. Seen("host") \in 0..3
        BY <1>1, Levels DEF Role
      <3> QED
        BY <1>1, <1>3, <2>1, <3>1, HostLevels
    <2>2. CASE Peer(r) = "joiner" /\ r = "host"
      BY <1>2, <1>3, <2>2
    <2> QED
      BY <1>1, <2>1, <2>2 DEF Peer, Role
  <1> QED
    BY <1>1, <1>2, <1>4 DEF Gathered, Place

(* A candidate becomes due for x only when the peer of x gathers it.       *)
LEMMA DueKept ==
    ASSUME TypeOK, HandshakeInv, Gathered, [Next]_vars, NEW x \in Role, NEW n \in Nat, Due(x, n)'
    PROVE  Due(x, n) \/ (LocalCandidate(Peer(x)) /\ n = cands[Peer(x)] + 1)
  <1> USE DEF signal, peerconn
  <1> DEFINE Same == /\ UNCHANGED <<samePass, cands>>
                     /\ \A q \in Role : /\ ctx'[q] = "live" => ctx[q] = "live"
                                        /\ ws'[q] = "open" => ws[q] = "open"
                                        /\ result[q] # "none" => result'[q] = result[q]
  <1>1. Peer(x) \in Role /\ Role = {x, Peer(x)}
    BY Sides
  <1>2. Same => Due(x, n)
    BY <1>1 DEF Due
  <1>3. ASSUME NEW r \in Role, NEW code \in {"success", "failed", "lost", "badKey"}, CloseWs(r, code)
        PROVE  \A q \in Role : ws'[q] = "open" => ws[q] = "open"
    BY <1>3, Closing
  <1>4. ASSUME NEW r \in Role, Main(r) PROVE Same \/ DialServer(r)
    <2>1. /\ UNCHANGED <<samePass, cands, ctx>> \/ DialServer(r)
          /\ UNCHANGED ws \/ (\E code \in {"success", "failed", "badKey"} : CloseWs(r, code)) \/ DialServer(r)
      BY <1>4 DEF Main, GiveSlot, NewPeerConnection, SendMessage, ReadMessage, ReadFails,
             SetDescription, StartWatch, Select
    <2>2. UNCHANGED result \/ (result[r] = "none" /\ \E v : Return(r, v))
      BY <1>4 DEF Main, DialServer, GiveSlot, NewPeerConnection, SendMessage, ReadMessage, ReadFails,
             SetDescription, StartWatch, Select, Advance, At
    <2>3. \A q \in Role : result[q] # "none" => result'[q] = result[q]
      BY <2>2 DEF Return, TypeOK
    <2> QED
      BY <1>3, <2>1, <2>3
  <1>5. ASSUME NEW r \in Role, WebSteps(r) PROVE Same
    <2>1. /\ UNCHANGED <<samePass, cands, ctx>> /\ (UNCHANGED ws \/ CloseWs(r, "badKey"))
          /\ UNCHANGED result \/ \E v : Settle(r, v)
      BY <1>5 DEF WebSteps, WebInit, WebPake, WebFail, WebDescription, WebPromise, WebRejected,
             WebCandidate, WebClosed
    <2>2. \A q \in Role : result[q] # "none" => result'[q] = result[q]
      BY <2>1 DEF Settle, TypeOK
    <2> QED
      BY <1>3, <2>1, <2>2
  <1>6. ASSUME NEW r \in Role, \/ Watcher(r) \/ Canceller(r) \/ WebClose(r)
                               \/ ChannelEvent(r) \/ CtxDone(r) \/ Exit(r)
        PROVE  Same
    <2>1. /\ UNCHANGED <<samePass, cands, result>>
          /\ UNCHANGED ws \/ \E code \in {"success", "failed", "lost"} : CloseWs(r, code)
          /\ UNCHANGED ctx \/ ctx' = [ctx EXCEPT ![r] = "done"]
      BY <1>6 DEF Watcher, RemoteCandidate, WatchEnds, Canceller, CancelWs, CancelPc,
             WebClose, ChannelEvent, CtxDone, Exit
    <2> QED
      BY <1>3, <2>1 DEF TypeOK
  <1>7. ASSUME Connect \/ UNCHANGED vars PROVE Same
    BY <1>7 DEF Connect, vars
  <1>8. ASSUME NEW r \in Role, DialServer(r) PROVE FALSE
    <2>1. at[r] = 1 /\ UNCHANGED cands
      BY <1>8, GoSteps, PageSteps, Sides DEF DialServer, At, Step, Place, HandshakeInv
    <2>2. cands[Peer(x)] > 0
      <3>1. n \in 1..cands[Peer(x)]
        BY <2>1 DEF Due
      <3>2. cands[Peer(x)] \in Nat
        BY <1>1, HandshakeAssumption DEF TypeOK
      <3> QED
        BY <3>1, <3>2
    <2> QED
      BY <1>1, <2>1, <2>2, DialEarly, Sides
  <1>10. ASSUME LocalCandidate(Peer(x)) PROVE Due(x, n) \/ n = cands[Peer(x)] + 1
    <2>1. UNCHANGED <<samePass, ctx, ws, result>> /\ cands'[Peer(x)] = cands[Peer(x)] + 1
      BY <1>1, <1>10 DEF LocalCandidate, TypeOK
    <2>2. n \in 1..(cands[Peer(x)] + 1) /\ cands[Peer(x)] \in Nat
      BY <1>1, <2>1, HandshakeAssumption DEF Due, TypeOK
    <2>3. n \in 1..cands[Peer(x)] \/ n = cands[Peer(x)] + 1
      BY <2>2
    <2> QED
      BY <2>1, <2>3 DEF Due
  <1>9. ASSUME LocalCandidate(x) PROVE Due(x, n)
    <2>1. UNCHANGED <<samePass, ctx, ws, result>> /\ cands'[Peer(x)] = cands[Peer(x)]
      BY <1>1, <1>9, Sides DEF LocalCandidate, TypeOK
    <2> QED
      BY <2>1 DEF Due
  <1> HIDE DEF Same
  <1> QED
    BY <1>1, <1>2, <1>4, <1>5, <1>6, <1>7, <1>8, <1>9, <1>10 DEF Next

(* A candidate that waits for x, or has been added, is not lost.           *)
Kept(x, n) == OnWay(x, n) \/ n \in added[x] => OnWay(x, n)' \/ n \in added'[x]

LEMMA KeptQueue ==
    ASSUME TypeOK, NEW x \in Role, NEW n, added[x] \subseteq added'[x], parked'[x] = parked[x],
           \/ in'[x] = in[x]
           \/ \E m \in Message : in'[x] = Append(in[x], m)
           \/ /\ in[x] # <<>> /\ in'[x] = Tail(in[x])
              /\ Head(in[x]).type = "cand" => Head(in[x]).num \in added'[x]
    PROVE  Kept(x, n)
  <1>1. in[x] \in Seq(Message)
    BY DEF TypeOK
  <1>2. CASE in'[x] = in[x]
    BY <1>2 DEF Kept, OnWay
  <1>3. CASE \E m \in Message : in'[x] = Append(in[x], m)
    <2>1. Holds(in[x], n) => Holds(in'[x], n)
      BY <1>1, <1>3, CandSeq
    <2> QED
      BY <2>1 DEF Kept, OnWay
  <1>4. CASE /\ in[x] # <<>> /\ in'[x] = Tail(in[x])
             /\ Head(in[x]).type = "cand" => Head(in[x]).num \in added'[x]
    <2>1. Head(in[x]) \in Message
      BY <1>1, <1>4
    <2>2. Holds(in[x], n) => Holds(in'[x], n) \/ (Head(in[x]).type = "cand" /\ Head(in[x]).num = n)
      BY <1>1, <1>4, <2>1, CandSeq
    <2>3. Holds(in[x], n) => Holds(in'[x], n) \/ n \in added'[x]
      BY <1>4, <2>2
    <2> QED
      BY <2>3 DEF Kept, OnWay
  <1> QED
    BY <1>2, <1>3, <1>4

(* Before the description there is no candidate.                           *)
LEMMA NotYet ==
    ASSUME TypeOK, HandshakeInv, NEW r \in Role, Reads(r), in[r] # <<>>, Seen(r) < 3
    PROVE  Head(in[r]).type # "cand"
  <1>1. Seen(r) + 1 \in 1..3
    BY Levels DEF HandshakeInv
  <1>2. Head(in[r]) \in Nth(r, Seen(r) + 1, samePass)
    BY HeadIs
  <1> DEFINE m == Head(in[r])
             n == Seen(r) + 1
  <1> HIDE DEF m, n
  <1>3. n \in 1..3 /\ m \in Nth(r, n, samePass)
    BY <1>1, <1>2 DEF m, n
  <1>4. n = 1 \/ n = 2 \/ n = 3
    BY <1>3
  <1>5. m.type # "cand"
    BY <1>3, <1>4 DEF Nth
  <1> QED
    BY <1>5 DEF m

LEMMA NextKept ==
    ASSUME TypeOK, HandshakeInv, [Next]_vars, NEW x \in Role, NEW n \in Nat, Due(x, n)
    PROVE  Kept(x, n)
  <1> USE DEF signal, peerconn
  <1>1. samePass /\ BothOpen /\ Peer(x) \in Role /\ Peer(x) # x /\ Role = {x, Peer(x)} /\ Peer(Peer(x)) = x
    BY Sides DEF Due, BothOpen
  <1>2. ASSUME NEW r \in Role, NEW type \in {"pakeA", "pakeB"} \cup Sealed, in' = Sent(in, r, type),
               type = "cand" => cands[r] < MaxCand,
               added[x] \subseteq added'[x], parked'[x] = parked[x]
        PROVE  Kept(x, n)
    <2> DEFINE m == Msg(r, type)
    <2>1. m \in Message
      BY <1>2, MsgIs
    <2>2. in'[r] = in[r] /\ in'[Peer(r)] = Append(in[Peer(r)], m)
      <3>1. in \in [Role -> Seq(Message)]
        BY DEF TypeOK
      <3> QED
        BY <1>1, <1>2, <3>1, SentAt
    <2> HIDE DEF m
    <2>3. r = x \/ Peer(r) = x
      BY <1>1
    <2>4. in'[x] = in[x] \/ in'[x] = Append(in[x], m)
      BY <2>2, <2>3
    <2> QED
      BY <1>2, <2>1, <2>4, KeptQueue
  <1>3. ASSUME NEW r \in Role, NEW type \in {"pakeA", "pakeB", "bye"},
               in' = Rest(r) \/ in' = Sent(Rest(r), r, type), in[r] # <<>>, Reads(r), Seen(r) < 3,
               added[x] \subseteq added'[x], parked'[x] = parked[x]
        PROVE  Kept(x, n)
    <2> DEFINE m == Msg(r, type)
               q == Rest(r)
    <2>1. m \in Message
      BY MsgIs DEF Sealed
    <2>2. q \in [Role -> Seq(Message)] /\ q[r] = Tail(in[r]) /\ \A y \in Role : y # r => q[y] = in[y]
      BY <1>3 DEF TypeOK, Rest
    <2> HIDE DEF m, q
    <2>3. in' = q \/ in' = Sent(q, r, type)
      BY <1>3 DEF q
    <2>4. Sent(q, r, type)[r] = q[r] /\ Sent(q, r, type)[Peer(r)] = Append(q[Peer(r)], m)
      <3>1. /\ Sent(q, r, type)[r] = q[r]
            /\ Sent(q, r, type)[Peer(r)] = IF BothOpen THEN Append(q[Peer(r)], m) ELSE q[Peer(r)]
        <4>1. q \in [Role -> Seq(Message)]
          BY <2>2
        <4> QED
          BY <4>1, SentAt DEF m
      <3> QED
        BY <1>1, <3>1
    <2>5. Head(in[r]).type # "cand"
      BY <1>3, NotYet
    <2>6. r = x \/ (Peer(r) = x /\ r # x)
      BY <1>1
    <2>7. CASE r = x
      <3>1. in'[x] = Tail(in[x])
        BY <2>2, <2>3, <2>4, <2>7
      <3> QED
        BY <1>3, <2>5, <2>7, <3>1, KeptQueue
    <2>8. CASE Peer(r) = x /\ r # x
      <3>1. in'[x] = in[x] \/ in'[x] = Append(in[x], m)
        BY <2>2, <2>3, <2>4, <2>8
      <3> QED
        BY <1>3, <2>1, <3>1, KeptQueue
    <2> QED
      BY <2>6, <2>7, <2>8
  <1>4. UNCHANGED <<in, parked, added>> => Kept(x, n)
    BY DEF Kept, OnWay
  <1>5. ASSUME NEW r \in Role, DialServer(r) PROVE FALSE
    <2>1. at[r] = 1 /\ Place(r)
      BY <1>5, GoSteps, PageSteps, Sides DEF DialServer, At, Step, Place, HandshakeInv
    <2> QED
      BY <1>1, <2>1 DEF Place, BothOpen
  <1>6. ASSUME NEW r \in Role, SendMessage(r) PROVE Kept(x, n)
    <2>1. Sends(Step(r)) \in {"pakeA", "pakeB"} \cup Sealed
      BY <1>6 DEF SendMessage, SendStep, Sends, Sealed
    <2>2. /\ UNCHANGED <<parked, added>>
          /\ UNCHANGED in \/ in' = Sent(in, r, Sends(Step(r)))
      BY <1>6 DEF SendMessage, Deliver
    <2>3. Sends(Step(r)) # "cand"
      BY <1>6 DEF SendMessage, SendStep, Sends
    <2> QED
      BY <1>2, <1>4, <2>1, <2>2, <2>3
  <1>7. ASSUME NEW r \in Role, ReadMessage(r) PROVE Kept(x, n)
    <2>1. /\ result[r] = "none" /\ Step(r) \in ReadStep /\ Step(r) \in GoStep /\ in[r] # <<>>
          /\ in' = Rest(r) /\ UNCHANGED <<parked, added>>
      BY <1>7 DEF ReadMessage, GoStep, Rest
    <2>2. fn[r] \in GoFns /\ at[r] \in 1..Len(Steps(fn[r]))
      BY <2>1, GoAt DEF HandshakeInv
    <2>3. Seen(r) < 3 /\ Reads(r)
      BY <2>1, <2>2, GoSteps, Sides DEF Seen, Step, Reads
    <2> QED
      BY <1>3, <2>1, <2>3
  <1>8. ASSUME NEW r \in Role, LocalCandidate(r) PROVE Kept(x, n)
    <2>1. UNCHANGED <<parked, added>> /\ (UNCHANGED in \/ in' = Sent(in, r, "cand")) /\ cands[r] < MaxCand
      BY <1>8 DEF LocalCandidate, Deliver
    <2> QED
      BY <1>2, <1>4, <2>1 DEF Sealed
  <1>9. ASSUME NEW r \in Role, RemoteCandidate(r) PROVE Kept(x, n)
    <2>1. CASE r # x
      <3>1. in'[x] = in[x] /\ parked' = parked /\ added[x] \subseteq added'[x]
        BY <1>9, <2>1 DEF RemoteCandidate, TypeOK
      <3> QED
        BY <3>1, KeptQueue
    <2>2. CASE r = x
      <3> DEFINE m == Head(in[x])
      <3>1. Place(x) /\ watch[x] = "run" /\ in[x] # <<>>
        BY <1>9, <2>2 DEF RemoteCandidate, HandshakeInv
      <3>2. Seen(x) = 3 /\ Reads(x) /\ pc[x] = "new"
        <4>1. pc[x] # "closed"
          BY <1>1, <3>1 DEF BothOpen, Place
        <4> QED
          BY <3>1, <4>1, Sides DEF Place, Reads, TypeOK
      <3>3. m \in Nth(x, 4, samePass)
        BY <3>1, <3>2, HeadIs
      <3> HIDE DEF m
      <3>4. Opens(x, m) /\ m.type = "cand"
        BY <1>1, <3>3, Opening DEF Nth
      <3>5. added' = [added EXCEPT ![x] = @ \cup {m.num}] /\ parked' = parked /\ in'[x] = Tail(in[x])
        BY <1>9, <2>2, <3>2, <3>4 DEF RemoteCandidate, m, TypeOK
      <3>6. added[x] \subseteq added'[x] /\ m.num \in added'[x]
        BY <3>5 DEF TypeOK
      <3> QED
        BY <3>1, <3>5, <3>6, KeptQueue DEF m
    <2> QED
      BY <2>1, <2>2
  <1>10. ASSUME NEW r \in Role, WebInit(r) \/ WebPake(r) PROVE Kept(x, n)
    <2>1. PICK s \in {"player1", "player2", "waitPakeA", "waitPakeB"} : Gets(r, s)
      BY <1>10 DEF WebInit, WebPake
    <2>2. fn[r] \in WebFns /\ Step(r) = s /\ in[r] # <<>> /\ at[r] \in 1..Len(Steps(fn[r])) /\ Reads(r)
      BY <2>1, PageGets
    <2>3. Seen(r) < 3
      BY <2>1, <2>2, PageTable DEF Seen, Step
    <2>4. /\ UNCHANGED <<parked, added>>
          /\ in' = Rest(r) \/ in' = Sent(Rest(r), r, "pakeA") \/ in' = Sent(Rest(r), r, "pakeB")
      BY <1>10 DEF WebInit, WebPake
    <2> QED
      BY <1>3, <2>2, <2>3, <2>4
  <1>11. ASSUME NEW r \in Role, WebDescription(r) PROVE Kept(x, n)
    <2>1. /\ in[r] # <<>> /\ Reads(r) /\ Seen(r) = 2 /\ UNCHANGED <<parked, added>>
          /\ in' = Rest(r) \/ in' = Sent(Rest(r), r, "bye")
      BY <1>11, PageDescription DEF WebDescription
    <2> QED
      BY <1>3, <2>1
  <1>12. ASSUME NEW r \in Role, WebPromise(r) PROVE Kept(x, n)
    <2>1. /\ added' = [added EXCEPT ![r] = @ \cup {parked[r][i].num : i \in 1..Len(parked[r])}]
          /\ parked' = [parked EXCEPT ![r] = <<>>]
          /\ in' = Sent(in, r, "offer") \/ in' = Sent(in, r, "answer")
      BY <1>12 DEF WebPromise, Deliver
    <2>2. added[x] \subseteq added'[x] /\ (Holds(parked[x], n) => parked'[x] = parked[x] \/ n \in added'[x])
      BY <2>1 DEF Holds, TypeOK
    <2>3. Holds(in[x], n) => Holds(in'[x], n)
      <3>1. PICK type \in {"offer", "answer"} : in' = Sent(in, r, type)
        BY <2>1
      <3> DEFINE m == Msg(r, type)
      <3>2. m \in Message /\ in \in [Role -> Seq(Message)] /\ Role = {r, Peer(r)}
        BY MsgIs, Sides DEF Sealed, TypeOK
      <3>3. in'[r] = in[r] /\ in'[Peer(r)] = Append(in[Peer(r)], m)
        BY <1>1, <3>1, <3>2, SentAt
      <3> HIDE DEF m
      <3>4. in'[x] = in[x] \/ in'[x] = Append(in[x], m)
        BY <3>2, <3>3
      <3>5. in[x] \in Seq(Message)
        BY <3>2
      <3>6. CASE in'[x] = Append(in[x], m)
        BY <3>2, <3>5, <3>6, CandSeq
      <3> QED
        BY <3>4, <3>6
    <2> QED
      BY <2>2, <2>3 DEF Kept, OnWay
  <1>13. ASSUME NEW r \in Role, WebCandidate(r) PROVE Kept(x, n)
    <2> DEFINE m == Head(in[r])
    <2>1. Opens(r, m) /\ m.type = "cand" /\ in' = Rest(r)
      BY <1>13, OrderWebCandidate
    <2>2. CASE r # x
      <3>1. in'[x] = in[x] /\ parked'[x] = parked[x] /\ added[x] \subseteq added'[x]
        BY <1>13, <2>1, <2>2 DEF WebCandidate, Rest, TypeOK
      <3> QED
        BY <3>1, KeptQueue
    <2>3. CASE r = x
      <3>1. in'[x] = Tail(in[x]) /\ in[x] # <<>> /\ m \in Message /\ parked[x] \in Seq(Message)
        BY <1>13, <2>1, <2>3 DEF WebCandidate, Gets, Rest, TypeOK
      <3>2. \/ parked' = [parked EXCEPT ![x] = Append(@, m)] /\ added' = added
            \/ parked' = parked /\ added' = [added EXCEPT ![x] = @ \cup {m.num}]
        BY <1>13, <2>1, <2>3 DEF WebCandidate
      <3> HIDE DEF m
      <3>3. CASE parked' = [parked EXCEPT ![x] = Append(@, m)] /\ added' = added
        <4>1. parked'[x] = Append(parked[x], m)
          BY <3>3 DEF TypeOK
        <4>2. /\ Holds(parked[x], n) => Holds(parked'[x], n)
              /\ m.type = "cand" /\ m.num = n => Holds(parked'[x], n)
          BY <3>1, <4>1, CandSeq
        <4>3. Holds(in[x], n) => Holds(in'[x], n) \/ (m.type = "cand" /\ m.num = n)
          BY <2>3, <3>1, CandSeq DEF m, TypeOK
        <4> QED
          BY <3>3, <4>2, <4>3 DEF Kept, OnWay
      <3>4. CASE parked' = parked /\ added' = [added EXCEPT ![x] = @ \cup {m.num}]
        <4>1. added[x] \subseteq added'[x] /\ m.num \in added'[x]
          BY <3>4 DEF TypeOK
        <4> QED
          BY <2>3, <3>1, <3>4, <4>1, KeptQueue DEF m
      <3> QED
        BY <3>2, <3>3, <3>4
    <2> QED
      BY <2>2, <2>3
  <1>14. ASSUME NEW r \in Role, Main(r) PROVE Kept(x, n)
    <2>1. \/ UNCHANGED <<in, parked, added>>
          \/ DialServer(r) \/ SendMessage(r) \/ ReadMessage(r)
      BY <1>14 DEF Main, GiveSlot, NewPeerConnection, ReadFails, SetDescription, StartWatch, Select
    <2> QED
      BY <1>4, <1>5, <1>6, <1>7, <2>1
  <1>15. ASSUME NEW r \in Role, WebSteps(r) PROVE Kept(x, n)
    <2>1. CASE WebClosed(r) \/ WebRejected(r)
      BY <1>4, <2>1 DEF WebClosed, WebRejected
    <2> QED
      BY <1>10, <1>11, <1>12, <1>13, <1>15, <2>1 DEF WebSteps
  <1>16. ASSUME NEW r \in Role, \/ Watcher(r) \/ Canceller(r) \/ WebClose(r)
                                \/ ChannelEvent(r) \/ CtxDone(r) \/ Exit(r)
         PROVE  Kept(x, n)
    <2>1. UNCHANGED <<in, parked, added>> \/ RemoteCandidate(r)
      BY <1>16 DEF Watcher, WatchEnds, Canceller, CancelWs, CancelPc, WebClose, ChannelEvent, CtxDone, Exit
    <2> QED
      BY <1>4, <1>9, <2>1
  <1>17. ASSUME Connect \/ UNCHANGED vars PROVE Kept(x, n)
    BY <1>4, <1>17 DEF Connect, vars
  <1> QED
    BY <1>8, <1>14, <1>15, <1>16, <1>17 DEF Next

(* A candidate that a side gathers for x is on its way to it.              *)
LEMMA Gathering ==
    ASSUME TypeOK, NEW x \in Role, NEW n \in Nat, LocalCandidate(Peer(x)), n = cands[Peer(x)] + 1, Due(x, n)'
    PROVE  OnWay(x, n)'
  <1> DEFINE p == Peer(x)
             m == Msg(p, "cand")
  <1>1. p \in Role /\ Peer(p) = x
    BY Sides
  <1>2. BothOpen /\ ctx[p] = "live"
    BY <1>1 DEF Due, LocalCandidate, BothOpen
  <1>3. in' = Sent(in, p, "cand")
    BY <1>2 DEF LocalCandidate, Cancelled, Deliver
  <1>4. in \in [Role -> Seq(Message)] /\ in[x] \in Seq(Message)
    BY <1>1 DEF TypeOK
  <1>5. in'[x] = Append(in[x], m)
    BY <1>1, <1>2, <1>3, <1>4, SentAt
  <1>6. m.type = "cand" /\ m.num = n /\ m \in Message
    BY <1>1, MsgIs DEF LocalCandidate, Sealed
  <1> HIDE DEF m
  <1> QED
    BY <1>4, <1>5, <1>6, CandSeq DEF OnWay

(* Between two connected sides with the same password no candidate at all  *)
(* is dropped: each of them is on its way, parked, or has been added.      *)
THEOREM NoCandidateLostHolds == Spec => []NoCandidateLost
  <1>1. Init => CandInv
    <2> SUFFICES ASSUME Init PROVE CandInv
      OBVIOUS
    <2>1. ASSUME NEW x \in Role, NEW n \in Nat PROVE ~Due(x, n)
      <3>1. cands[Peer(x)] = 0
        BY Sides DEF Init
      <3> QED
        BY <3>1 DEF Due
    <2> QED
      BY <2>1 DEF Init, CandInv, Gathered
  <1>2. TypeOK /\ HandshakeInv /\ CandInv /\ [Next]_vars => CandInv'
    <2> SUFFICES ASSUME TypeOK, HandshakeInv, CandInv, [Next]_vars PROVE CandInv'
      OBVIOUS
    <2>1. Gathered'
      BY NextType, GatheredKept DEF CandInv
    <2>2. ASSUME NEW x \in Role, NEW n \in Nat, Due(x, n)' PROVE OnWay(x, n)' \/ n \in added'[x]
      <3>1. CASE Due(x, n)
        BY <3>1, NextKept DEF Kept, CandInv
      <3>2. CASE LocalCandidate(Peer(x)) /\ n = cands[Peer(x)] + 1
        BY <2>2, <3>2, Gathering
      <3> QED
        BY <2>2, <3>1, <3>2, DueKept DEF CandInv
    <2> QED
      BY <2>1, <2>2 DEF CandInv
  <1>3. TypeOK /\ CandInv => NoCandidateLost
    <2> SUFFICES ASSUME TypeOK, CandInv, NEW r \in Role, samePass, ctx[Peer(r)] = "live",
                        \A q \in Role : ws[q] = "open" /\ result[q] \in {"none", "ok"},
                        NEW n \in 1..cands[Peer(r)]
                 PROVE  Holds(in[r], n) \/ Holds(parked[r], n) \/ n \in added[r]
      BY DEF NoCandidateLost
    <2>1. n \in Nat
      OBVIOUS
    <2> QED
      BY <2>1 DEF CandInv, Due, OnWay
  <1> QED
    BY <1>1, <1>2, <1>3, Inductive, PTL DEF Spec

=============================================================================
