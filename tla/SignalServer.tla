---------------------------- MODULE SignalServer ----------------------------
(***************************************************************************)
(* The rendezvous and relay of the signalling server, relay() in           *)
(* cmd/ww/server.go.  Every WebSocket connection has two goroutines: the   *)
(* rendezvous goroutine books or joins a slot and swaps connections with   *)
(* the other side over the slot's unbuffered channel; the read loop        *)
(* forwards what the client sends to rconn.  They share rconn without a    *)
(* lock.  A slot's channel is identified with the host that made it.       *)
(*                                                                         *)
(* Clients follow wormhole/dial.go: a joiner sends once it has the init    *)
(* message, a host once it has received something.                         *)
(***************************************************************************)
EXTENDS Naturals, Sequences, FiniteSets

CONSTANTS
    Client,      \* the WebSocket connections
    Hosts,       \* those that ask for a new slot; the others join one
    Slot,        \* the slot numbers freeslot can draw from
    MaxSend,     \* bound: messages a client sends
    Expiring,    \* the connections whose slotTimeout may pass
    Pinging,     \* the hosts that wait long enough to be pinged
    None

ASSUME ServerAssumption ==
    /\ Hosts \subseteq Client /\ Expiring \subseteq Client /\ Pinging \subseteq Hosts
    /\ MaxSend \in Nat
    /\ None \notin Client \cup Slot

VARIABLES
    slots,    \* slots.m: slot -> the host whose channel is listed
    key,      \* slotkey of a connection
    sc,       \* the channel a joiner took from slots.m, named by its host
    rz,       \* the rendezvous goroutine
    loop,     \* the read loop, i.e. the handler itself
    rconn,    \* the peer's connection
    expired,  \* connections whose slotTimeout has passed
    ws,       \* the WebSocket: open, or how it was first closed
    init,     \* clients that have received the init message
    toSrv,    \* messages from a client the read loop has not read
    sent,     \* how many messages a client has sent
    got       \* messages relayed to a client

sockets == <<expired, ws, init, toSrv, sent, got>>
vars == <<slots, key, sc, rz, loop, rconn, sockets>>

RzState == {"off", "book", "hostInit", "wait", "ping", "swap",
            "find", "joinInit", "recv", "give", "done"}
WsState == {"none", "open", "gone", "badKey", "failed", "success",
            "noSuchSlot", "noMoreSlots", "timedOut", "peerHungUp", "peerBadKey"}

Goodbye == {"badKey", "failed", "success"}  \* statuses a client closes with

(* The type of every variable.                                             *)
TypeOK ==
    /\ slots \in [Slot -> Hosts \cup {None}]
    /\ key \in [Client -> Slot \cup {None}]
    /\ sc \in [Client -> Hosts \cup {None}]
    /\ rz \in [Client -> RzState]
    /\ loop \in [Client -> {"off", "read", "exit"}]
    /\ rconn \in [Client -> Client \cup {None}]
    /\ expired \subseteq Client /\ init \subseteq Client
    /\ ws \in [Client -> WsState]
    /\ toSrv \in [Client -> Seq(1..MaxSend)] /\ sent \in [Client -> 0..MaxSend]
    /\ got \in [Client -> Seq([from: Client, n: 1..MaxSend])]

Init ==
    /\ slots = [k \in Slot |-> None]
    /\ key = [h \in Client |-> None] /\ sc = [h \in Client |-> None]
    /\ rz = [h \in Client |-> "off"] /\ loop = [h \in Client |-> "off"]
    /\ rconn = [h \in Client |-> None]
    /\ expired = {} /\ init = {}
    /\ ws = [h \in Client |-> "none"]
    /\ toSrv = [h \in Client |-> <<>>] /\ sent = [h \in Client |-> 0]
    /\ got = [h \in Client |-> <<>>]

-----------------------------------------------------------------------------
(* ctx of a handler is done after slotTimeout or once the handler returned.*)
Done(h) == h \in expired \/ loop[h] = "exit"

Goto(h, pc) == rz' = [rz EXCEPT ![h] = pc]

CloseUndefined(h, code) ==
    ws' = IF ws[h] = "open" THEN [ws EXCEPT ![h] = "undefined status"] ELSE ws

(* conn.Close: the first close decides the status.                         *)
Close(h, code) == ws' = IF ws[h] = "open" THEN [ws EXCEPT ![h] = code] ELSE ws

UnlistNothing(h) == UNCHANGED slots

(* delete(slots.m, slotkey), whoever is listed there.                      *)
Unlist(h) == slots' = [slots EXCEPT ![key[h]] = None]

-----------------------------------------------------------------------------
(* The rendezvous goroutine of a host.                                     *)

(* freeslot draws a bounded number of times: it finds some free number, or *)
(* gives up when it has drawn numbers in use only.                         *)
BookSlot(h) ==
    /\ rz[h] = "book"
    /\ \/ \E k \in Slot :
             /\ slots[k] = None
             /\ slots' = [slots EXCEPT ![k] = h]
             /\ key' = [key EXCEPT ![h] = k]
             /\ Goto(h, "hostInit") /\ UNCHANGED ws
       \/ /\ \E k \in Slot : slots[k] # None
          /\ Close(h, "noMoreSlots")
          /\ Goto(h, "done") /\ UNCHANGED <<slots, key>>
    /\ UNCHANGED <<sc, loop, rconn, expired, init, toSrv, sent, got>>

(* conn.Write of the init message, and its error path.                     *)
HostInit(h) ==
    /\ rz[h] = "hostInit"
    /\ \/ /\ ws[h] = "open" /\ ~Done(h)
          /\ init' = init \cup {h}
          /\ Goto(h, "wait") /\ UNCHANGED slots
       \/ /\ ws[h] # "open" \/ Done(h)
          /\ Unlist(h) /\ Goto(h, "done") /\ UNCHANGED init
    /\ UNCHANGED <<key, sc, loop, rconn, expired, ws, toSrv, sent, got>>

(* The select of the wait loop: ctx.Done.                                  *)
HostTimesOut(h) ==
    /\ rz[h] = "wait" /\ Done(h)
    /\ Unlist(h)
    /\ Close(h, "timedOut")
    /\ Goto(h, "done")
    /\ UNCHANGED <<key, sc, loop, rconn, expired, init, toSrv, sent, got>>

(* A Ping every 30 seconds; conn.Ping returns with the pong, when the      *)
(* connection is closed or when ctx is done.                               *)
HostPing(h) ==
    /\ \/ rz[h] = "wait" /\ h \in Pinging /\ ~Done(h) /\ Goto(h, "ping")
       \/ rz[h] = "ping" /\ Goto(h, "wait")
    /\ UNCHANGED <<slots, key, sc, loop, rconn, sockets>>

(* sc <- conn of the host meets rconn = <-sc of the joiner ...             *)
Meet(j) ==
    /\ rz[j] = "recv" /\ rz[sc[j]] = "wait"
    /\ rconn' = [rconn EXCEPT ![j] = sc[j]]
    /\ rz' = [rz EXCEPT ![j] = "give", ![sc[j]] = "swap"]
    /\ UNCHANGED <<slots, key, sc, loop, sockets>>

(* ... and sc <- conn of the joiner meets rconn = <-sc of the host.        *)
Swap(j) ==
    /\ rz[j] = "give" /\ rz[sc[j]] = "swap"
    /\ rconn' = [rconn EXCEPT ![sc[j]] = j]
    /\ rz' = [rz EXCEPT ![j] = "done", ![sc[j]] = "done"]
    /\ UNCHANGED <<slots, key, sc, loop, sockets>>

-----------------------------------------------------------------------------
(* The rendezvous goroutine of a joiner.                                   *)

FindNoDelete(j) ==
    /\ rz[j] = "find" /\ slots[key[j]] # None
    /\ sc' = [sc EXCEPT ![j] = slots[key[j]]] /\ Goto(j, "joinInit")
    /\ UNCHANGED <<slots, key, loop, rconn, sockets>>

FindSlot(j) ==
    /\ rz[j] = "find"
    /\ \/ /\ slots[key[j]] # None
          /\ sc' = [sc EXCEPT ![j] = slots[key[j]]]
          /\ Unlist(j) /\ Goto(j, "joinInit") /\ UNCHANGED ws
       \/ /\ slots[key[j]] = None
          /\ Close(j, "noSuchSlot")
          /\ Goto(j, "done") /\ UNCHANGED <<slots, sc>>
    /\ UNCHANGED <<key, loop, rconn, expired, init, toSrv, sent, got>>

JoinInit(j) ==
    /\ rz[j] = "joinInit"
    /\ \/ ws[j] = "open" /\ ~Done(j) /\ init' = init \cup {j} /\ Goto(j, "recv")
       \/ (ws[j] # "open" \/ Done(j)) /\ Goto(j, "done") /\ UNCHANGED init
    /\ UNCHANGED <<slots, key, sc, loop, rconn, expired, ws, toSrv, sent, got>>

(* The joiner's select takes ctx.Done and then still offers conn on sc.    *)
JoinTimesOut(j) ==
    /\ rz[j] = "recv" /\ Done(j)
    /\ Close(j, "timedOut")
    /\ Goto(j, "give")
    /\ UNCHANGED <<slots, key, sc, loop, rconn, expired, init, toSrv, sent, got>>

-----------------------------------------------------------------------------
(* The read loop.                                                          *)

ReadAndSkip(h) ==
    /\ loop[h] = "read" /\ toSrv[h] # <<>>
    /\ toSrv' = [toSrv EXCEPT ![h] = Tail(@)]
    /\ got' = IF rconn[h] = None THEN got
              ELSE [got EXCEPT ![rconn[h]] = Append(@, [from |-> h, n |-> Head(toSrv[h])])]
    /\ UNCHANGED loop
    /\ UNCHANGED <<slots, key, sc, rz, rconn, expired, ws, init, sent>>

(* A message: bail out without rconn, else forward it; the handler returns *)
(* if that fails.                                                          *)
ReadMessage(h) ==
    /\ loop[h] = "read" /\ toSrv[h] # <<>>
    /\ toSrv' = [toSrv EXCEPT ![h] = Tail(@)]
    /\ IF rconn[h] # None /\ ws[rconn[h]] = "open" /\ h \notin expired
       THEN /\ got' = [got EXCEPT ![rconn[h]] =
                          Append(@, [from |-> h, n |-> Head(toSrv[h])])]
            /\ UNCHANGED loop
       ELSE loop' = [loop EXCEPT ![h] = "exit"] /\ UNCHANGED got
    /\ UNCHANGED <<slots, key, sc, rz, rconn, expired, ws, init, sent>>

(* An error: the connection was closed, by whom ever, or ctx is done, which*)
(* also closes it.  A client's own close follows what it has sent; other   *)
(* closes may lose that.  What the peer is told depends on the status.     *)
ReadError(h) ==
    LET status == IF ws[h] = "open" THEN "gone" ELSE ws[h]
        code == IF status = "badKey" THEN "peerBadKey" ELSE "peerHungUp"
    IN  /\ loop[h] = "read"
        /\ \/ h \in expired
           \/ ws[h] # "open" /\ (toSrv[h] = <<>> \/ ws[h] \notin Goodbye)
        /\ loop' = [loop EXCEPT ![h] = "exit"]
        /\ ws' = [c \in Client |->
                     IF c = h THEN status
                     ELSE IF c = rconn[h] /\ ws[c] = "open" /\ status \notin {"failed", "success"}
                     THEN code ELSE ws[c]]
        /\ UNCHANGED <<slots, key, sc, rz, rconn, expired, init, toSrv, sent, got>>

-----------------------------------------------------------------------------
(* Clients, the network and time.                                          *)

Connect(h) ==
    /\ ws[h] = "none"
    /\ ws' = [ws EXCEPT ![h] = "open"]
    /\ loop' = [loop EXCEPT ![h] = "read"]
    /\ IF h \in Hosts
       THEN Goto(h, "book") /\ UNCHANGED key
       ELSE Goto(h, "find") /\ \E k \in Slot : key' = [key EXCEPT ![h] = k]
    /\ UNCHANGED <<slots, sc, rconn, expired, init, toSrv, sent, got>>

Send(h) ==
    /\ ws[h] = "open" /\ h \in init /\ sent[h] < MaxSend
    /\ h \in Hosts => got[h] # <<>>
    /\ sent' = [sent EXCEPT ![h] = @ + 1]
    /\ toSrv' = [toSrv EXCEPT ![h] = Append(@, sent[h] + 1)]
    /\ UNCHANGED <<slots, key, sc, rz, loop, rconn, expired, ws, init, got>>

(* The client closes its connection with a status or just goes away.  It   *)
(* fails at any time when its context is cancelled; the other statuses     *)
(* follow on a message.                                                    *)
HangUp(h) ==
    /\ ws[h] = "open"
    /\ \E code \in Goodbye \cup {"gone"} :
          /\ code \in Goodbye \ {"failed"} => got[h] # <<>>
          /\ ws' = [ws EXCEPT ![h] = code]
    /\ UNCHANGED <<slots, key, sc, rz, loop, rconn, expired, init, toSrv, sent, got>>

SlotTimeout(h) ==
    /\ h \in Expiring \ expired /\ ws[h] # "none"
    /\ expired' = expired \cup {h}
    /\ UNCHANGED <<slots, key, sc, rz, loop, rconn, ws, init, toSrv, sent, got>>

-----------------------------------------------------------------------------
Rendezvous(h) ==
    \/ BookSlot(h) \/ HostInit(h) \/ HostTimesOut(h) \/ HostPing(h)
    \/ FindSlot(h) \/ JoinInit(h) \/ JoinTimesOut(h) \/ Meet(h) \/ Swap(h)
ReadLoop(h) == ReadMessage(h) \/ ReadError(h)

Next == \E h \in Client : \/ Rendezvous(h) \/ ReadLoop(h)
                          \/ Connect(h) \/ Send(h) \/ HangUp(h) \/ SlotTimeout(h)

Spec == Init /\ [][Next]_vars
=============================================================================
