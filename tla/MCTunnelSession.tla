--------------------------- MODULE MCTunnelSession ---------------------------
(* Instances of TunnelSession for TLC. *)
EXTENDS TunnelProperties

OneWay == {"A"}
FarSide == {"B"}
NoSide == {}
AllSides == Side
NoWrite == {}
SecondWrite == {2}

(* A search directed at two connections: one is dialled and accepted after *)
(* the other, then both sides write to the first, then A closes the second *)
(* and the first, B the first and the second.                              *)
OneAfterTheOther ==
    /\ nextID["A"] = 2 => Cardinality(held) >= 2
    /\ \A c \in Conn : sent[c] > 0 => c.id = 1 /\ Cardinality(held) = 4
    /\ \A c \in Conn : call["close"][c] # "idle" =>
           \A s \in Side : \E w \in Conn : w.side = s /\ sent[w] > 0 /\ call["data"][w] # "send"
    /\ call["close"][DialEnd("A", 1)] # "idle" =>
           call["close"][DialEnd("A", 2)] \notin {"idle", "new", "send"}
    /\ call["close"][AcceptEnd("B", 2)] # "idle" =>
           call["close"][AcceptEnd("B", 1)] \notin {"idle", "new", "send"}
(* A search directed at sessions that stop.  One side calls Session.Close  *)
(* and the other one notices once nothing moves at the first any more: A,  *)
(* which writes a second time only to a listener that is closed; or B,     *)
(* which gets a second write only when it is stopping.  Or nobody calls it and the transport fails after a write,   *)
(* while both ends are being closed and A's writeLoop waits.               *)
NoClose == \A c \in Conn : call["close"][c] = "idle"
Written == sent[DialEnd("A", 1)]
Resting(s) == \/ sclose[s] = "done" \/ Undelivered(s) \/ WriterBlocked(s) \/ CloseWaits(s)
              \/ sclose[s] = "wait" /\ reader[s].pc = "deliver"
Stops(s) == NoClose /\ sclose[Peer(s)] = "idle" /\ (Stopped(Peer(s)) => Resting(s))
WriterStops == /\ Stops("A") /\ (Written <= 1 \/ "B" \notin serving)
               /\ up \/ sclose["A"] \in {"wait", "done"}
ReaderStops == /\ Stops("B")
               /\ Written <= 1 \/ Stopped("B")
               /\ up \/ sclose["B"] \in {"wait", "done"} \/ CloseWaits("B")
LinkFailsAmidCloses ==
    /\ \A s \in Side : sclose[s] = "idle" /\ (s \in serving \/ Stopped(s))
    /\ Written <= 1 /\ (NoClose \/ Written = 1)
    /\ up \/ /\ call["close"][DialEnd("A", 1)] # "idle"
             /\ call["close"][AcceptEnd("B", 1)] # "idle"
             /\ WriterBlocked("A")
StopScenarios == WriterStops \/ ReaderStops \/ LinkFailsAmidCloses
=============================================================================
