------------------------ MODULE SignalServer_proofs ------------------------
(***************************************************************************)
(* Theorems about SignalServer for every set of clients and slots and any  *)
(* number of messages.                                                     *)
(***************************************************************************)
EXTENDS SignalProperties, TLAPS

-----------------------------------------------------------------------------
(* The inductive invariant.                                                *)

(* Where a rendezvous goroutine can be says what its connection is and has:*)
(* a peer only from "give" on, a channel from "joinInit" on.               *)
Stages ==
    \A h \in Client :
        /\ rz[h] \in {"book", "hostInit", "wait", "ping", "swap"} => h \in Hosts
        /\ rz[h] \in {"find", "joinInit", "recv", "give"} => h \notin Hosts
        /\ rz[h] \in {"joinInit", "recv", "give"} => sc[h] # None
        /\ rz[h] \in {"off", "book", "find"} => sc[h] = None
        /\ rz[h] = "find" => key[h] # None
        /\ rz[h] \notin {"give", "done"} => rconn[h] = None
        /\ rz[h] = "off" <=> ws[h] = "none"
        /\ rz[h] = "off" <=> loop[h] = "off"

(* A slot's channel is taken by one joiner, who has the number of the host *)
(* that made it, and only after that host has booked it.                   *)
Channels ==
    \A j \in Client : sc[j] # None =>
        /\ j \notin Hosts /\ key[j] = key[sc[j]]
        /\ rz[sc[j]] \notin {"off", "book"}
        /\ \A c \in Client : sc[c] = sc[j] => c = j

(* rconn is what came over that channel.                                   *)
Swapped ==
    \A h \in Client : rconn[h] # None =>
        IF h \in Hosts THEN sc[rconn[h]] = h ELSE rconn[h] = sc[h]

RendezvousInv == Stages /\ Channels /\ Swapped /\ ListedHostWaits

(* What a client has sent is what its read loop has still to read, behind  *)
(* what its peer has got; without a peer the loop has read nothing.        *)
Queued(h) ==
    /\ Len(toSrv[h]) <= sent[h]
    /\ \A i \in 1..Len(toSrv[h]) : toSrv[h][i] = sent[h] - Len(toSrv[h]) + i
    /\ ws[h] = "none" => sent[h] = 0
    /\ loop[h] # "exit" /\ rconn[h] = None => Len(toSrv[h]) = sent[h]
    /\ loop[h] # "exit" /\ rconn[h] # None =>
           Len(got[rconn[h]]) = sent[h] - Len(toSrv[h])

(* What a client got is numbered and comes from whoever has it as peer.    *)
Relayed(h) ==
    \A i \in 1..Len(got[h]) :
        got[h][i].n = i /\ got[h][i].from \in Client /\ rconn[got[h][i].from] = h

AllQueued == \A h \in Client : Queued(h)
AllRelayed == \A h \in Client : Relayed(h)
RelayInv == AllQueued /\ AllRelayed

-----------------------------------------------------------------------------
(* Types.                                                                  *)

(* What Append and Tail do to the messages a read loop has not read.       *)
LEMMA Queues ==
    ASSUME NEW S, NEW q \in Seq(S)
    PROVE  /\ \A n \in S : Append(q, n) \in Seq(S)
           /\ q # <<>> => Head(q) \in S /\ Tail(q) \in Seq(S)
  OBVIOUS

(* And where their elements are.                                           *)
LEMMA Places ==
    ASSUME NEW S, NEW q \in Seq(S)
    PROVE  /\ Len(q) \in Nat
           /\ \A n \in S :
                  /\ Len(Append(q, n)) = Len(q) + 1
                  /\ \A i \in 1..Len(q) + 1 :
                         Append(q, n)[i] = IF i = Len(q) + 1 THEN n ELSE q[i]
           /\ q # <<>> => /\ Len(q) > 0 /\ Head(q) = q[1] /\ Len(Tail(q)) = Len(q) - 1
                          /\ \A i \in 1..Len(q) - 1 : Tail(q)[i] = q[i + 1]
  OBVIOUS

(* A client keeps a status of the list, whoever closes its connection.     *)
LEMMA CloseType ==
    ASSUME TypeOK, NEW h \in Client, NEW code \in WsState, Close(h, code)
    PROVE  ws' \in [Client -> WsState]
  BY DEF TypeOK, Close

(* What moving a rendezvous goroutine and freeing a slot do to their types.*)
LEMMA GotoType ==
    ASSUME TypeOK, NEW h \in Client, NEW pc \in RzState, Goto(h, pc)
    PROVE  rz' \in [Client -> RzState]
  BY DEF TypeOK, Goto

LEMMA UnlistType ==
    ASSUME TypeOK, NEW h \in Client, Unlist(h)
    PROVE  slots' \in [Slot -> Hosts \cup {None}]
  BY DEF TypeOK, Unlist

(* The initial state has the types.                                        *)
LEMMA InitType == Init => TypeOK
  BY ServerAssumption DEF Init, TypeOK, RzState, WsState

(* Every step keeps the types.  That only hosts book is what Stages says.  *)
LEMMA NextType ==
    ASSUME TypeOK, Stages, [Next]_vars
    PROVE  TypeOK'
  <1> USE ServerAssumption DEF TypeOK, sockets
  <1>1. ASSUME NEW h \in Client, BookSlot(h) PROVE TypeOK'
    <2>1. ws' \in [Client -> WsState]
      BY <1>1, CloseType DEF BookSlot, WsState
    <2>2. h \in Hosts
      BY <1>1 DEF BookSlot, Stages
    <2>3. slots' \in [Slot -> Hosts \cup {None}] /\ key' \in [Client -> Slot \cup {None}]
      <3>1. CASE UNCHANGED <<slots, key>>
        BY <3>1
      <3>2. ASSUME NEW k \in Slot, slots' = [slots EXCEPT ![k] = h], key' = [key EXCEPT ![h] = k]
            PROVE  slots' \in [Slot -> Hosts \cup {None}] /\ key' \in [Client -> Slot \cup {None}]
        BY <2>2, <3>2
      <3> QED
        BY <1>1, <3>1, <3>2 DEF BookSlot
    <2>4. rz' \in [Client -> RzState]
      BY <1>1, GotoType DEF BookSlot, RzState
    <2> QED
      BY <1>1, <2>1, <2>3, <2>4 DEF BookSlot
  <1>2. ASSUME NEW h \in Client, HostInit(h) PROVE TypeOK'
    <2>1. rz' \in [Client -> RzState]
      BY <1>2, GotoType DEF HostInit, RzState
    <2> QED
      BY <1>2, <2>1, UnlistType DEF HostInit
  <1>3. ASSUME NEW h \in Client, HostTimesOut(h) PROVE TypeOK'
    <2>1. ws' \in [Client -> WsState]
      BY <1>3, CloseType DEF HostTimesOut, WsState
    <2>2. rz' \in [Client -> RzState]
      BY <1>3, GotoType DEF HostTimesOut, RzState
    <2> QED
      BY <1>3, <2>1, <2>2, UnlistType DEF HostTimesOut
  <1>4. ASSUME NEW h \in Client, HostPing(h) PROVE TypeOK'
    <2>1. rz' \in [Client -> RzState]
      BY <1>4, GotoType DEF HostPing, RzState
    <2> QED
      BY <1>4, <2>1 DEF HostPing
  <1>5. ASSUME NEW j \in Client, Meet(j) PROVE TypeOK'
    <2>1. rconn' \in [Client -> Client \cup {None}]
      BY <1>5 DEF Meet
    <2>2. rz' \in [Client -> RzState]
      BY <1>5 DEF Meet, RzState
    <2> QED
      BY <1>5, <2>1, <2>2 DEF Meet
  <1>6. ASSUME NEW j \in Client, Swap(j) PROVE TypeOK'
    <2>1. rz' \in [Client -> RzState]
      BY <1>6 DEF Swap, RzState
    <2> QED
      BY <1>6, <2>1 DEF Swap
  <1>7. ASSUME NEW j \in Client, FindSlot(j) PROVE TypeOK'
    <2>1. ws' \in [Client -> WsState]
      BY <1>7, CloseType DEF FindSlot, WsState
    <2>3. rz' \in [Client -> RzState]
      BY <1>7, GotoType DEF FindSlot, RzState
    <2>4. sc' \in [Client -> Hosts \cup {None}] /\ slots' \in [Slot -> Hosts \cup {None}]
      <3>1. CASE slots[key[j]] = None
        BY <1>7, <3>1 DEF FindSlot
      <3>2. CASE slots[key[j]] # None
        <4>1. key[j] \in Slot
          BY <1>7 DEF FindSlot, Stages
        <4>2. slots[key[j]] \in Hosts
          BY <3>2, <4>1
        <4> QED
          BY <1>7, <3>2, <4>2, UnlistType DEF FindSlot
      <3> QED
        BY <3>1, <3>2
    <2> QED
      BY <1>7, <2>1, <2>3, <2>4 DEF FindSlot
  <1>8. ASSUME NEW j \in Client, JoinInit(j) PROVE TypeOK'
    <2>1. rz' \in [Client -> RzState]
      BY <1>8, GotoType DEF JoinInit, RzState
    <2> QED
      BY <1>8, <2>1 DEF JoinInit
  <1>9. ASSUME NEW j \in Client, JoinTimesOut(j) PROVE TypeOK'
    <2>1. ws' \in [Client -> WsState]
      BY <1>9, CloseType DEF JoinTimesOut, WsState
    <2>2. rz' \in [Client -> RzState]
      BY <1>9, GotoType DEF JoinTimesOut, RzState
    <2> QED
      BY <1>9, <2>1, <2>2 DEF JoinTimesOut
  <1>10. ASSUME NEW h \in Client, ReadMessage(h) PROVE TypeOK'
    <2>1. Head(toSrv[h]) \in 1..MaxSend /\ Tail(toSrv[h]) \in Seq(1..MaxSend)
      BY <1>10, Queues DEF ReadMessage
    <2>2. toSrv' \in [Client -> Seq(1..MaxSend)] /\ loop' \in [Client -> {"off", "read", "exit"}]
      BY <1>10, <2>1 DEF ReadMessage
    <2>3. got' \in [Client -> Seq([from : Client, n : 1..MaxSend])]
      <3>1. [from |-> h, n |-> Head(toSrv[h])] \in [from : Client, n : 1..MaxSend]
        BY <2>1
      <3>2. CASE UNCHANGED got
        BY <3>2
      <3>3. CASE /\ rconn[h] # None
                 /\ got' = [got EXCEPT ![rconn[h]] = Append(@, [from |-> h, n |-> Head(toSrv[h])])]
        <4> DEFINE M == [from : Client, n : 1..MaxSend]
        <4>1. Append(got[rconn[h]], [from |-> h, n |-> Head(toSrv[h])]) \in Seq(M)
          BY <3>1, <3>3, Queues
        <4> HIDE DEF M
        <4>2. got \in [Client -> Seq(M)]
          BY DEF M
        <4>3. got' \in [Client -> Seq(M)]
          BY <3>3, <4>1, <4>2
        <4> QED
          BY <4>3 DEF M
      <3> QED
        BY <1>10, <3>2, <3>3 DEF ReadMessage
    <2> QED
      BY <1>10, <2>2, <2>3 DEF ReadMessage
  <1>11. ASSUME NEW h \in Client, ReadError(h) PROVE TypeOK'
    <2>1. ws' \in [Client -> WsState]
      BY <1>11 DEF ReadError, WsState
    <2> QED
      BY <1>11, <2>1 DEF ReadError
  <1>12. ASSUME NEW h \in Client, Connect(h) PROVE TypeOK'
    <2>1. rz' \in [Client -> RzState]
      BY <1>12, GotoType DEF Connect, RzState
    <2>2. ws' \in [Client -> WsState]
      BY <1>12 DEF Connect, WsState
    <2>3. key' \in [Client -> Slot \cup {None}]
      BY ZenonT(40), <1>12 DEF Connect
    <2>4. loop' \in [Client -> {"off", "read", "exit"}]
      BY <1>12 DEF Connect
    <2> QED
      BY <1>12, <2>1, <2>2, <2>3, <2>4 DEF Connect
  <1>13. ASSUME NEW h \in Client, Send(h) PROVE TypeOK'
    <2>1. sent[h] + 1 \in 1..MaxSend
      BY <1>13 DEF Send
    <2>2. Append(toSrv[h], sent[h] + 1) \in Seq(1..MaxSend)
      BY <2>1, Queues
    <2>3. toSrv' \in [Client -> Seq(1..MaxSend)]
      BY <1>13, <2>2 DEF Send
    <2>4. sent' \in [Client -> 0..MaxSend]
      BY <1>13 DEF Send
    <2> QED
      BY <1>13, <2>3, <2>4 DEF Send
  <1>14. ASSUME NEW h \in Client, HangUp(h) PROVE TypeOK'
    <2>1. PICK code \in WsState : ws' = [ws EXCEPT ![h] = code]
      BY <1>14 DEF HangUp, Goodbye, WsState
    <2>2. ws' \in [Client -> WsState]
      BY <2>1
    <2> QED
      BY <1>14, <2>2 DEF HangUp
  <1>15. ASSUME NEW h \in Client, SlotTimeout(h) PROVE TypeOK'
    BY <1>15 DEF SlotTimeout
  <1>16. CASE UNCHANGED vars
    BY <1>16 DEF vars
  <1> QED
    BY <1>1, <1>2, <1>3, <1>4, <1>5, <1>6, <1>7, <1>8, <1>9, <1>10, <1>11, <1>12, <1>13,
       <1>14, <1>15, <1>16 DEF Next, Rendezvous, ReadLoop

-----------------------------------------------------------------------------
(* The rendezvous.                                                         *)

(* Every step keeps where a goroutine is and what it has in agreement.     *)
LEMMA NextStages ==
    ASSUME TypeOK, Stages, [Next]_vars
    PROVE  Stages'
  <1> USE ServerAssumption DEF TypeOK, Stages, Goto, sockets
  <1>1. ASSUME NEW h \in Client, BookSlot(h) PROVE Stages'
    BY <1>1 DEF BookSlot, Close
  <1>2. ASSUME NEW h \in Client, HostInit(h) PROVE Stages'
    BY <1>2 DEF HostInit
  <1>3. ASSUME NEW h \in Client, HostTimesOut(h) PROVE Stages'
    BY <1>3 DEF HostTimesOut, Close
  <1>4. ASSUME NEW h \in Client, HostPing(h) PROVE Stages'
    BY <1>4 DEF HostPing
  <1>5. ASSUME NEW j \in Client, Meet(j) PROVE Stages'
    BY <1>5 DEF Meet
  <1>6. ASSUME NEW j \in Client, Swap(j) PROVE Stages'
    BY <1>6 DEF Swap
  <1>7. ASSUME NEW j \in Client, FindSlot(j) PROVE Stages'
    BY <1>7 DEF FindSlot, Close
  <1>8. ASSUME NEW j \in Client, JoinInit(j) PROVE Stages'
    BY <1>8 DEF JoinInit
  <1>9. ASSUME NEW j \in Client, JoinTimesOut(j) PROVE Stages'
    BY <1>9 DEF JoinTimesOut, Close
  <1>10. ASSUME NEW h \in Client, ReadMessage(h) PROVE Stages'
    BY <1>10 DEF ReadMessage
  <1>11. ASSUME NEW h \in Client, ReadError(h) PROVE Stages'
    BY <1>11 DEF ReadError
  <1>12. ASSUME NEW h \in Client, Connect(h) PROVE Stages'
    BY <1>12 DEF Connect
  <1>13. ASSUME NEW h \in Client, HangUp(h) PROVE Stages'
    BY <1>13 DEF HangUp, Goodbye
  <1>14. ASSUME NEW h \in Client, Send(h) \/ SlotTimeout(h) \/ UNCHANGED vars PROVE Stages'
    BY <1>14 DEF Send, SlotTimeout, vars
  <1> QED
    BY <1>1, <1>2, <1>3, <1>4, <1>5, <1>6, <1>7, <1>8, <1>9, <1>10, <1>11, <1>12, <1>13,
       <1>14 DEF Next, Rendezvous, ReadLoop

(* A channel stays with the joiner who took it: its host is booked before  *)
(* its slot is listed, and no longer listed once it is taken.              *)
LEMMA NextChannels ==
    ASSUME TypeOK, RendezvousInv, [Next]_vars
    PROVE  Channels'
  <1> USE ServerAssumption DEF TypeOK, RendezvousInv, Stages, Channels, Goto, sockets
  <1>1. ASSUME NEW h \in Client, BookSlot(h) PROVE Channels'
    BY <1>1 DEF BookSlot
  <1>2. ASSUME NEW h \in Client, Connect(h) PROVE Channels'
    BY <1>2 DEF Connect
  <1>3. ASSUME NEW j \in Client, FindSlot(j) PROVE Channels'
    <2>1. key[j] \in Slot /\ j \notin Hosts
      BY <1>3 DEF FindSlot
    <2>2. CASE slots[key[j]] = None
      BY <1>3, <2>2 DEF FindSlot
    <2>3. CASE slots[key[j]] # None
      <3> DEFINE h == slots[key[j]]
      <3>1. h \in Hosts /\ key[h] = key[j] /\ Waiting(h) /\ ~Taken(h)
        BY <2>1, <2>3 DEF ListedHostWaits
      <3>2. \A c \in Client : sc[c] # h
        BY <3>1 DEF Taken, Joiners
      <3>3. sc' = [sc EXCEPT ![j] = h] /\ rz' = [rz EXCEPT ![j] = "joinInit"] /\ key' = key
        BY <1>3, <2>3 DEF FindSlot
      <3> HIDE DEF h
      <3> QED
        BY <2>1, <3>1, <3>2, <3>3 DEF Waiting
    <2> QED
      BY <2>2, <2>3
  <1>4. ASSUME UNCHANGED <<sc, key>>, \A h \in Client : rz[h] \notin {"off", "book"} => rz'[h] \notin {"off", "book"}
        PROVE  Channels'
    BY <1>4
  <1>5. ASSUME NEW h \in Client, HostInit(h) \/ HostTimesOut(h) \/ HostPing(h) PROVE Channels'
    BY SMTT(20), <1>4, <1>5 DEF HostInit, HostTimesOut, HostPing
  <1>6. ASSUME NEW j \in Client, JoinInit(j) \/ JoinTimesOut(j) \/ Meet(j) \/ Swap(j) PROVE Channels'
    <2>1. sc[j] \in Client
      BY <1>6 DEF JoinInit, JoinTimesOut, Meet, Swap
    <2>2. UNCHANGED <<sc, key>>
      BY <1>6 DEF JoinInit, JoinTimesOut, Meet, Swap
    <2>3. \A h \in Client : rz[h] \notin {"off", "book"} => rz'[h] \notin {"off", "book"}
      <3>1. CASE JoinInit(j) \/ JoinTimesOut(j)
        BY <3>1 DEF JoinInit, JoinTimesOut
      <3>2. CASE Meet(j)
        BY <2>1, <3>2 DEF Meet
      <3>3. CASE Swap(j)
        BY <2>1, <3>3 DEF Swap
      <3> QED
        BY <1>6, <3>1, <3>2, <3>3
    <2> QED
      BY <1>4, <2>2, <2>3
  <1>7. ASSUME UNCHANGED <<sc, key, rz>> PROVE Channels'
    BY <1>7
  <1>8. ASSUME NEW h \in Client, ReadLoop(h) \/ Send(h) \/ HangUp(h) \/ SlotTimeout(h) PROVE Channels'
    BY <1>7, <1>8 DEF ReadLoop, ReadMessage, ReadError, Send, HangUp, SlotTimeout
  <1> QED
    BY <1>1, <1>2, <1>3, <1>5, <1>6, <1>7, <1>8 DEF Next, Rendezvous, vars

(* What comes over a channel is the connection of the other end.           *)
LEMMA NextSwapped ==
    ASSUME TypeOK, RendezvousInv, [Next]_vars
    PROVE  Swapped'
  <1> USE ServerAssumption DEF TypeOK, RendezvousInv, Stages, Channels, Swapped, Goto, sockets
  <1>1. ASSUME NEW j \in Client, FindSlot(j) PROVE Swapped'
    BY <1>1 DEF FindSlot
  <1>2. ASSUME NEW j \in Client, Meet(j) PROVE Swapped'
    BY <1>2 DEF Meet
  <1>3. ASSUME NEW j \in Client, Swap(j) PROVE Swapped'
    BY <1>3 DEF Swap
  <1>4. ASSUME UNCHANGED <<sc, rconn>> PROVE Swapped'
    BY <1>4
  <1>5. ASSUME NEW h \in Client,
               BookSlot(h) \/ HostInit(h) \/ HostTimesOut(h) \/ HostPing(h)
                   \/ JoinInit(h) \/ JoinTimesOut(h) \/ Connect(h)
        PROVE  Swapped'
    BY <1>4, <1>5 DEF BookSlot, HostInit, HostTimesOut, HostPing, JoinInit, JoinTimesOut, Connect
  <1>6. ASSUME NEW h \in Client, ReadLoop(h) \/ Send(h) \/ HangUp(h) \/ SlotTimeout(h) PROVE Swapped'
    BY <1>4, <1>6 DEF ReadLoop, ReadMessage, ReadError, Send, HangUp, SlotTimeout
  <1> QED
    BY <1>1, <1>2, <1>3, <1>4, <1>5, <1>6 DEF Next, Rendezvous, vars

(* A slot is listed by the host that waits on it, and freed by it alone.   *)
LEMMA NextListed ==
    ASSUME TypeOK, RendezvousInv, [Next]_vars
    PROVE  ListedHostWaits'
  <1> USE ServerAssumption DEF TypeOK, Goto, sockets
  <1> DEFINE Here == {"hostInit", "wait", "ping"}
             Listed(k) == slots[k] # None =>
                 /\ key[slots[k]] = k /\ rz[slots[k]] \in Here
                 /\ \A j \in Client \ Hosts : sc[j] # slots[k]
  <1>1. ListedHostWaits => \A k \in Slot : Listed(k)
    BY DEF ListedHostWaits, Waiting, Taken, Joiners
  <1>2. (\A k \in Slot : Listed(k)') => ListedHostWaits'
    BY DEF ListedHostWaits, Waiting, Taken, Joiners
  <1>3. SUFFICES ASSUME NEW k \in Slot PROVE Listed(k)'
    BY <1>2
  <1>4. Stages /\ Channels /\ \A c \in Slot : Listed(c)
    BY <1>1 DEF RendezvousInv
  <1>5. PICK o \in Hosts \cup {None} : o = slots[k]
    OBVIOUS
  <1>6. o # None => key[o] = k /\ rz[o] \in Here /\ \A j \in Client \ Hosts : sc[j] # o
    BY <1>4, <1>5
  <1>7. ASSUME \/ slots'[k] = None
               \/ /\ slots'[k] = o /\ UNCHANGED sc
                  /\ o # None => key'[o] = key[o] /\ rz'[o] \in Here
        PROVE  Listed(k)'
    BY <1>6, <1>7
  <1>8. ASSUME NEW h \in Client, BookSlot(h) PROVE Listed(k)'
    <2>1. h \in Hosts /\ o # h /\ \A j \in Client : sc[j] # h
      BY <1>4, <1>6, <1>8 DEF BookSlot, Stages, Channels
    <2>2. CASE UNCHANGED <<slots, key>>
      BY <1>5, <1>6, <1>7, <1>8, <2>1, <2>2 DEF BookSlot
    <2>3. ASSUME NEW c \in Slot, slots' = [slots EXCEPT ![c] = h], key' = [key EXCEPT ![h] = c],
                 rz' = [rz EXCEPT ![h] = "hostInit"]
          PROVE  Listed(k)'
      <3>1. CASE c = k
        BY <1>8, <2>1, <2>3, <3>1 DEF BookSlot
      <3>2. CASE c # k
        BY <1>5, <1>6, <1>7, <1>8, <2>1, <2>3, <3>2 DEF BookSlot
      <3> QED
        BY <3>1, <3>2
    <2> QED
      BY <1>8, <2>2, <2>3 DEF BookSlot
  <1>9. ASSUME NEW h \in Client, HostInit(h) \/ HostTimesOut(h) PROVE Listed(k)'
    <2>1. o = h => key[h] = k
      BY <1>6
    <2>2. CASE o = h
      BY <1>5, <1>7, <1>9, <2>1, <2>2 DEF HostInit, HostTimesOut, Unlist
    <2>3. CASE o # h
      BY <1>5, <1>6, <1>7, <1>9, <2>3 DEF HostInit, HostTimesOut, Unlist
    <2> QED
      BY <2>2, <2>3
  <1>10. ASSUME NEW h \in Client, HostPing(h) PROVE Listed(k)'
    BY <1>5, <1>6, <1>7, <1>10 DEF HostPing
  <1>11. ASSUME NEW j \in Client, Meet(j) \/ Swap(j) PROVE Listed(k)'
    <2>1. j \in Client \ Hosts /\ sc[j] # o
      BY <1>4, <1>6, <1>11 DEF Meet, Swap, Stages
    <2> QED
      BY <1>5, <1>6, <1>7, <1>11, <2>1 DEF Meet, Swap
  <1>12. ASSUME NEW j \in Client, FindSlot(j) PROVE Listed(k)'
    <2>1. key[j] \in Slot /\ j \notin Hosts /\ slots[key[j]] \in Hosts \cup {None}
      BY <1>4, <1>12 DEF FindSlot, Stages
    <2>2. CASE slots[key[j]] = None
      BY <1>5, <1>6, <1>7, <1>12, <2>1, <2>2 DEF FindSlot
    <2>3. CASE key[j] = k
      BY <1>7, <1>12, <2>3, <2>2 DEF FindSlot, Unlist
    <2>4. CASE slots[key[j]] # None /\ key[j] # k
      <3>1. o # None => slots[key[j]] # o
        BY <1>4, <1>6, <2>1, <2>4
      <3>2. slots'[k] = o /\ UNCHANGED key /\ rz' = [rz EXCEPT ![j] = "joinInit"]
            /\ sc' = [sc EXCEPT ![j] = slots[key[j]]]
        BY <1>5, <1>12, <2>4 DEF FindSlot, Unlist
      <3> QED
        BY <1>6, <2>1, <3>1, <3>2
    <2> QED
      BY <2>2, <2>3, <2>4
  <1>13. ASSUME NEW j \in Client, JoinInit(j) \/ JoinTimesOut(j) PROVE Listed(k)'
    BY <1>5, <1>6, <1>7, <1>13 DEF JoinInit, JoinTimesOut
  <1>14. ASSUME NEW h \in Client, Connect(h) PROVE Listed(k)'
    <2>1. rz[h] = "off"
      BY <1>4, <1>14 DEF Connect, Stages
    <2> QED
      BY <1>5, <1>6, <1>7, <1>14, <2>1 DEF Connect
  <1>15. ASSUME UNCHANGED <<slots, key, sc, rz>> PROVE Listed(k)'
    BY <1>5, <1>6, <1>7, <1>15
  <1>16. ASSUME NEW h \in Client, ReadLoop(h) \/ Send(h) \/ HangUp(h) \/ SlotTimeout(h)
         PROVE  Listed(k)'
    BY <1>15, <1>16 DEF ReadLoop, ReadMessage, ReadError, Send, HangUp, SlotTimeout
  <1> QED
    BY <1>8, <1>9, <1>10, <1>11, <1>12, <1>13, <1>14, <1>15, <1>16
    DEF Next, Rendezvous, vars

(* Pairing: the channel both ends met on has one joiner and one host.      *)
LEMMA Pairs == TypeOK /\ RendezvousInv => PairingSound
  <1> SUFFICES ASSUME TypeOK, RendezvousInv PROVE PairingSound
    OBVIOUS
  <1> USE ServerAssumption DEF TypeOK
  <1>1. Channels /\ Swapped
    BY DEF RendezvousInv
  <1>2. ASSUME NEW h \in Client, NEW j \in Client, rconn[h] = j
        PROVE  IF h \in Hosts THEN sc[j] = h /\ j \notin Hosts ELSE sc[h] = j /\ j \in Hosts
    BY <1>1, <1>2 DEF Channels, Swapped
  <1>3. ASSUME NEW h \in Client, NEW j \in Client, rconn[h] = j
        PROVE  key[h] = key[j] /\ (h \in Hosts <=> j \notin Hosts)
    BY <1>1, <1>2, <1>3 DEF Channels
  <1>4. ASSUME NEW h \in Client, NEW j \in Client, rconn[h] = j, NEW c \in Client, rconn[c] = j
        PROVE  c = h
    <2>1. CASE h \in Hosts
      <3>1. sc[j] = h /\ sc[j] = c
        BY <1>2, <1>4, <2>1
      <3> QED
        BY <3>1
    <2>2. CASE h \notin Hosts
      <3>1. sc[h] = j /\ sc[c] = j /\ j # None
        BY <1>2, <1>4, <2>2
      <3> QED
        BY <1>1, <3>1 DEF Channels
    <2> QED
      BY <2>1, <2>2
  <1>5. ASSUME NEW h \in Client, NEW j \in Client, rconn[h] = j, rconn[j] # None
        PROVE  rconn[j] = h
    <2>1. rconn[j] \in Client
      BY <1>5
    <2>2. CASE h \in Hosts
      BY <1>2, <1>5, <2>1, <2>2
    <2>3. CASE h \notin Hosts
      <3>1. sc[h] = j /\ sc[rconn[j]] = j /\ j # None
        BY <1>2, <1>5, <2>1, <2>3
      <3> QED
        BY <1>1, <2>1, <3>1 DEF Channels
    <2> QED
      BY <2>2, <2>3
  <1> QED
    BY <1>3, <1>4, <1>5 DEF PairingSound

-----------------------------------------------------------------------------
(* The relay.                                                              *)

(* Every step keeps what was sent equal to what was relayed and what is    *)
(* still to be read.                                                       *)
LEMMA NextRelay ==
    ASSUME TypeOK, RendezvousInv, PairingSound, PairingSound', RelayInv, [Next]_vars
    PROVE  RelayInv'
  <1> USE ServerAssumption DEF TypeOK, Goto, sockets, RelayInv
  <1>1. ASSUME UNCHANGED <<toSrv, sent, got, rconn>>,
               \A h \in Client : ws'[h] = "none" => ws[h] = "none",
               \A h \in Client : loop[h] = "exit" => loop'[h] = "exit"
        PROVE  RelayInv'
    BY <1>1 DEF AllQueued, AllRelayed, Queued, Relayed
  <1>2. ASSUME NEW h \in Client,
               BookSlot(h) \/ HostInit(h) \/ HostTimesOut(h) \/ HostPing(h) \/ FindSlot(h)
                   \/ JoinInit(h) \/ JoinTimesOut(h)
        PROVE  RelayInv'
    BY <1>1, <1>2
    DEF BookSlot, HostInit, HostTimesOut, HostPing, FindSlot, JoinInit, JoinTimesOut, Close
  <1>3. ASSUME NEW h \in Client, SlotTimeout(h) \/ Connect(h) \/ HangUp(h) PROVE RelayInv'
    <2>1. loop[h] = "exit" => ws[h] # "none"
      BY DEF RendezvousInv, Stages
    <2> QED
      BY ZenonT(40), <1>1, <1>3, <2>1 DEF SlotTimeout, Connect, HangUp, Goodbye
  <1>4. ASSUME NEW h \in Client, ReadError(h) PROVE RelayInv'
    <2>1. ws[h] # "none"
      BY <1>4 DEF ReadError, RendezvousInv, Stages
    <2> QED
      BY <1>1, <1>4, <2>1 DEF ReadError
  (* A connection that gets its peer has relayed nothing, nor has another  *)
  (* to the same peer.                                                     *)
  <1>5. ASSUME NEW p \in Client, NEW x \in Client, rconn[p] = None, rconn' = [rconn EXCEPT ![p] = x],
               UNCHANGED <<toSrv, sent, got, loop, ws>>
        PROVE  RelayInv'
    <2>1. \A c \in Client : rconn[c] # x
      BY <1>5 DEF PairingSound
    <2>2. Len(got[x]) = 0
      <3> SUFFICES ASSUME Len(got[x]) # 0 PROVE FALSE
        OBVIOUS
      <3>1. 1 \in 1..Len(got[x])
        OBVIOUS
      <3>2. got[x][1].from \in Client /\ rconn[got[x][1].from] = x
        BY <3>1 DEF AllRelayed, Relayed
      <3> QED
        BY <2>1, <3>2
    <2>3. AllQueued'
      BY <1>5, <2>2 DEF AllQueued, Queued
    <2>4. AllRelayed'
      <3> SUFFICES ASSUME NEW c \in Client PROVE Relayed(c)'
        BY DEF AllRelayed
      <3>1. Relayed(c)
        BY DEF AllRelayed
      <3>2. \A d \in Client : rconn[d] = c => rconn'[d] = c
        <4> SUFFICES ASSUME NEW d \in Client, rconn[d] = c PROVE rconn'[d] = c
          OBVIOUS
        <4>1. d # p
          BY <1>5
        <4> QED
          BY <1>5, <4>1
      <3> QED
        BY <1>5, <3>1, <3>2 DEF Relayed
    <2> QED
      BY <2>3, <2>4
  <1>6. ASSUME NEW j \in Client, Meet(j) PROVE RelayInv'
    BY <1>5, <1>6 DEF Meet, RendezvousInv, Stages
  <1>7. ASSUME NEW j \in Client, Swap(j) PROVE RelayInv'
    BY <1>5, <1>7 DEF Swap, RendezvousInv, Stages
  <1>8. ASSUME NEW h \in Client, Send(h) PROVE RelayInv'
    <2>1. AllQueued'
      <3> SUFFICES ASSUME NEW c \in Client PROVE Queued(c)'
        BY DEF AllQueued
      <3>1. Queued(c)
        BY DEF AllQueued
      <3>2. CASE c # h
        BY <1>8, <3>1, <3>2 DEF Send, Queued
      <3>3. CASE c = h
        <4> DEFINE q == toSrv[h]
                   n == sent[h]
        <4>1. toSrv'[h] = Append(q, n + 1) /\ sent'[h] = n + 1 /\ ws'[h] # "none"
          BY <1>8 DEF Send
        <4>2. /\ q \in Seq(1..MaxSend) /\ n \in Nat /\ n + 1 \in 1..MaxSend
              /\ Len(q) <= n /\ \A i \in 1..Len(q) : q[i] = n - Len(q) + i
          BY <1>8, <3>1, <3>3 DEF Queued, Send
        <4> DEFINE a == Append(q, n + 1)
        <4> HIDE DEF q, n
        <4>3. /\ Len(a) = Len(q) + 1 /\ Len(q) \in Nat
              /\ \A i \in 1..Len(q) + 1 : a[i] = IF i = Len(q) + 1 THEN n + 1 ELSE q[i]
          <5>1. q \in Seq(1..MaxSend) /\ n + 1 \in 1..MaxSend
            BY <4>2
          <5> QED
            BY SMTT(20), <5>1, Places
        <4> HIDE DEF a
        <4>4. ASSUME NEW i \in 1..Len(q) + 1 PROVE a[i] = (n + 1) - (Len(q) + 1) + i
          <5>1. CASE i = Len(q) + 1
            BY <4>2, <4>3, <5>1
          <5>2. CASE i # Len(q) + 1
            <6>1. i \in 1..Len(q) /\ a[i] = q[i]
              BY <4>3, <5>2
            <6>2. q[i] = n - Len(q) + i
              BY <4>2, <6>1
            <6> QED
              BY <4>2, <4>3, <6>1, <6>2
          <5> QED
            BY <5>1, <5>2
        <4>5. Len(toSrv'[h]) = Len(q) + 1
          BY <4>1, <4>3 DEF a
        <4>6. \A i \in 1..Len(toSrv'[h]) : toSrv'[h][i] = sent'[h] - Len(toSrv'[h]) + i
          BY <4>1, <4>4, <4>5 DEF a
        <4> QED
          BY SMTT(20), <1>8, <3>1, <3>3, <4>1, <4>2, <4>5, <4>6 DEF Send, Queued, q, n
      <3> QED
        BY <3>2, <3>3
    <2>2. UNCHANGED <<got, rconn>>
      BY <1>8 DEF Send
    <2>3. AllRelayed'
      BY <2>2 DEF AllRelayed, Relayed
    <2> QED
      BY <2>1, <2>3
  <1>9. ASSUME NEW h \in Client, ReadMessage(h) PROVE RelayInv'
    <2>1. AllQueued'
      <3> SUFFICES ASSUME NEW c \in Client PROVE Queued(c)'
        BY DEF AllQueued
      <3>1. Queued(c)
        BY DEF AllQueued
      <3>2. CASE c # h
        <4>1. rconn[c] # None => rconn[c] # rconn[h]
          BY <3>2 DEF PairingSound
        <4> QED
          BY <1>9, <3>1, <3>2, <4>1 DEF ReadMessage, Queued
      <3>3. CASE c = h
        <4> DEFINE q == toSrv[h]
                   n == sent[h]
        <4>1. /\ q \in Seq(1..MaxSend) /\ q # <<>> /\ n \in Nat
              /\ Len(q) <= n /\ \A i \in 1..Len(q) : q[i] = n - Len(q) + i
              /\ toSrv'[h] = Tail(q)
          BY <1>9, <3>1, <3>3 DEF Queued, ReadMessage
        <4>2. /\ Len(q) > 0 /\ Len(q) \in Nat /\ Len(Tail(q)) = Len(q) - 1
              /\ \A i \in 1..Len(q) - 1 : Tail(q)[i] = q[i + 1]
          BY <4>1, Places
        <4>3. \A i \in 1..Len(Tail(q)) : Tail(q)[i] = n - Len(Tail(q)) + i
          <5> HIDE DEF q, n
          <5> QED
            BY <4>1, <4>2
        <4>4. ASSUME loop'[h] # "exit" PROVE rconn[h] # None /\ Len(got'[rconn[h]]) = n - Len(Tail(q))
          <5>1. /\ loop[h] = "read" /\ rconn[h] \in Client
                /\ got' = [got EXCEPT ![rconn[h]] = Append(@, [from |-> h, n |-> Head(toSrv[h])])]
            BY <1>9, <4>4 DEF ReadMessage
          <5>2. Len(got[rconn[h]]) = n - Len(q)
            BY <3>1, <3>3, <5>1 DEF Queued
          <5>3. [from |-> h, n |-> Head(toSrv[h])] \in [from : Client, n : 1..MaxSend]
            BY <4>1, Queues
          <5>4. Len(got'[rconn[h]]) = Len(got[rconn[h]]) + 1
            BY <5>1, <5>3, Places
          <5> QED
            BY SMTT(20), <4>1, <4>2, <5>1, <5>2, <5>4
        <4> QED
          BY <1>9, <3>1, <3>3, <4>1, <4>2, <4>3, <4>4 DEF ReadMessage, Queued
      <3> QED
        BY <3>2, <3>3
    <2>2. AllRelayed'
      <3> SUFFICES ASSUME NEW c \in Client PROVE Relayed(c)'
        BY DEF AllRelayed
      <3>1. Relayed(c)
        BY DEF AllRelayed
      <3>2. CASE got'[c] = got[c]
        BY <1>9, <3>1, <3>2 DEF ReadMessage, Relayed
      <3>3. CASE rconn[h] = c /\ got' = [got EXCEPT ![rconn[h]] =
                                Append(@, [from |-> h, n |-> Head(toSrv[h])])]
        <4> DEFINE m == [from |-> h, n |-> Head(toSrv[h])]
        <4>1. CASE loop'[h] = "exit"
          BY <1>9, <3>1, <4>1 DEF ReadMessage, Relayed
        <4>2. CASE loop'[h] # "exit"
          <5>1. /\ c # None /\ loop[h] # "exit" /\ toSrv[h] # <<>>
                /\ got'[c] = Append(got[c], m) /\ UNCHANGED rconn
            BY <1>9, <3>3, <4>2 DEF ReadMessage
          <5>2. Len(got[c]) = sent[h] - Len(toSrv[h])
            BY <3>3, <5>1 DEF AllQueued, Queued
          <5>3. Head(toSrv[h]) = toSrv[h][1] /\ 1 \in 1..Len(toSrv[h])
            BY <5>1, Places
          <5>4. toSrv[h][1] = sent[h] - Len(toSrv[h]) + 1
            BY <5>3 DEF AllQueued, Queued
          <5>5. m.n = Len(got[c]) + 1 /\ m.from = h
            BY <5>2, <5>3, <5>4
          <5>6. m \in [from : Client, n : 1..MaxSend]
            BY <5>1, Queues
          <5>7. /\ Len(got'[c]) = Len(got[c]) + 1 /\ Len(got[c]) \in Nat
                /\ \A i \in 1..Len(got[c]) + 1 :
                       got'[c][i] = IF i = Len(got[c]) + 1 THEN m ELSE got[c][i]
            BY <5>1, <5>6, Places
          <5> HIDE DEF m
          <5> QED
            BY <3>1, <3>3, <5>1, <5>5, <5>7 DEF Relayed
        <4> QED
          BY <4>1, <4>2
      <3> QED
        BY <1>9, <3>2, <3>3 DEF ReadMessage
    <2> QED
      BY <2>1, <2>2
  <1>10. CASE UNCHANGED vars
    BY <1>1, <1>10 DEF vars
  <1> QED
    BY <1>2, <1>3, <1>4, <1>6, <1>7, <1>8, <1>9, <1>10 DEF Next, Rendezvous, ReadLoop

-----------------------------------------------------------------------------
(* The theorems.                                                           *)

(* The invariants together, inductive.                                     *)
LEMMA Inductive == Spec => [](TypeOK /\ RendezvousInv /\ RelayInv)
  <1>1. Init => TypeOK /\ RendezvousInv /\ RelayInv
    <2> SUFFICES ASSUME Init PROVE RendezvousInv /\ RelayInv
      BY InitType
    <2> USE ServerAssumption DEF Init
    <2>1. Stages /\ Channels /\ Swapped /\ ListedHostWaits
      BY DEF Stages, Channels, Swapped, ListedHostWaits
    <2>2. AllQueued /\ AllRelayed
      BY DEF AllQueued, AllRelayed, Queued, Relayed
    <2> QED
      BY <2>1, <2>2 DEF RendezvousInv, RelayInv
  <1>2. TypeOK /\ RendezvousInv /\ RelayInv /\ [Next]_vars => (TypeOK /\ RendezvousInv /\ RelayInv)'
    <2> SUFFICES ASSUME TypeOK, RendezvousInv, RelayInv, [Next]_vars
                 PROVE  TypeOK' /\ RendezvousInv' /\ RelayInv'
      OBVIOUS
    <2>1. Stages
      BY DEF RendezvousInv
    <2>2. TypeOK'
      BY <2>1, NextType
    <2>3. RendezvousInv'
      BY <2>1, NextStages, NextChannels, NextSwapped, NextListed DEF RendezvousInv
    <2>4. PairingSound /\ PairingSound'
      BY <2>2, <2>3, Pairs, PTL
    <2> QED
      BY <2>2, <2>3, <2>4, NextRelay
  <1> QED
    BY <1>1, <1>2, PTL DEF Spec

(* Every variable keeps its type.                                          *)
THEOREM TypeCorrect == Spec => []TypeOK
  BY Inductive, PTL

(* Connections are paired one to one, a host with a joiner of its slot.    *)
THEOREM PairingHolds == Spec => []PairingSound
  BY Inductive, Pairs, PTL

(* A listed slot is that of a host that waits and that nobody has taken.   *)
THEOREM ListedHolds == Spec => []ListedHostWaits
  <1>1. RendezvousInv => ListedHostWaits
    BY DEF RendezvousInv
  <1> QED
    BY <1>1, Inductive, PTL

(* What a client receives are its peer's first messages, in order.         *)
THEOREM RelayHolds == Spec => []RelayInOrder
  <1>1. TypeOK /\ RelayInv /\ PairingSound => RelayInOrder
    <2> SUFFICES ASSUME TypeOK, RelayInv, PairingSound, NEW h \in Client, NEW i \in 1..Len(got[h])
                 PROVE  got[h][i].n = i /\ got[h][i].from = got[h][1].from
      BY DEF RelayInOrder
    <2>1. 1 \in 1..Len(got[h])
      BY DEF TypeOK
    <2>2. Relayed(h)
      BY DEF RelayInv, AllRelayed
    <2>3. \A k \in 1..Len(got[h]) : got[h][k].from \in Client /\ rconn[got[h][k].from] = h
      BY <2>2 DEF Relayed
    <2>4. got[h][i].from = got[h][1].from
      BY <2>1, <2>3 DEF PairingSound
    <2> QED
      BY <2>2, <2>4 DEF Relayed
  <1> QED
    BY <1>1, Inductive, Pairs, PTL

=============================================================================
