------------------------- MODULE TunnelProxy_proofs -------------------------
(***************************************************************************)
(* Theorems about TunnelProxy for any number of chunks and any windows.    *)
(***************************************************************************)
EXTENDS ProxyProperties, TLAPS

(* The chunks n + 1, n + 2 and so on.                                      *)
From(q, n) == \A i \in 1..Len(q) : q[i] = n + i

(* How many chunks io.Copy(b, a) has taken from the application.           *)
Taken(e) == IF copyIn[e].at = "write" THEN sent[e] + 1 ELSE sent[e]
(* How many chunks have reached the application of e or its socket.        *)
Arrived(e) == Len(recv[e]) + Len(down[e])
LastGot(e) == IF got[e] = <<>> THEN 0 ELSE got[e][Len(got[e])]

(* The chunks of the application of e go through the tunnel in order: the  *)
(* n-th write on the virtual connection carries chunk n.                   *)
Sending(e) ==
    /\ sent[e] = Len(payload[e])
    /\ From(payload[e], 0)
    /\ copyIn[e].at = "write" => copyIn[e].chunk = sent[e] + 1
    /\ Taken(e) + Len(up[e]) <= wrote[e] /\ wrote[e] <= MaxWrites[e]
    /\ e \notin closed /\ copyIn[e].at # "end" =>
           From(up[e], Taken(e)) /\ Taken(e) + Len(up[e]) = wrote[e]

(* What e has read from the virtual connection is what it has delivered,   *)
(* until its proxy has closed the local connection.                        *)
Receiving(e) ==
    /\ LastGot(e) <= sent[Other(e)]
    /\ copyOut[e].at = "write" => copyOut[e].chunk = LastGot(e) /\ LastGot(e) # 0
    /\ e \notin stopped =>
           /\ From(recv[e], 0) /\ From(down[e], Len(recv[e]))
           /\ e \notin closed /\ copyOut[e].at \in {"off", "read"} => LastGot(e) = Arrived(e)
           /\ e \notin closed /\ copyOut[e].at = "write" => LastGot(e) = Arrived(e) + 1

(* Who closes what: the local connection goes first.                       *)
Closing(e) ==
    /\ handler[e] \in {"idle", "dial"} => copyOut[e] = Off /\ copyIn[e] = Off
    /\ handler[e] = "closeB" => e \in closed
    /\ e \in hungUp => \/ e \in stopped \cup closed
                       \/ handler[e] = "end" /\ copyOut[e] = Off

ProxyInv == \A e \in Side : Sending(e) /\ Receiving(e) /\ Closing(e)
-----------------------------------------------------------------------------
(* A sequence of consecutive chunks when the next one is added ...         *)
LEMMA Added ==
    ASSUME NEW S, NEW q \in Seq(S), NEW n \in Nat, From(q, n), NEW m \in S, m = n + Len(q) + 1
    PROVE  From(Append(q, m), n) /\ Len(Append(q, m)) = Len(q) + 1
  <1>1. Len(q) \in Nat
    OBVIOUS
  <1>2. Len(Append(q, m)) = Len(q) + 1 /\ Append(q, m)[Len(q) + 1] = m
    OBVIOUS
  <1>3. ASSUME NEW i \in 1..Len(q) PROVE Append(q, m)[i] = n + i
    BY DEF From
  <1>4. ASSUME NEW i \in 1..Len(Append(q, m)) PROVE Append(q, m)[i] = n + i
    <2>1. i \in 1..Len(q) \/ i = Len(q) + 1
      BY <1>1, <1>2
    <2>2. CASE i = Len(q) + 1
      <3>1. Append(q, m)[i] = m /\ m = n + i
        BY <1>1, <1>2, <2>2
      <3> QED
        BY <3>1
    <2> QED
      BY <1>3, <2>1, <2>2
  <1> QED
    BY <1>2, <1>4 DEF From

(* ... and when the first one is taken.                                    *)
LEMMA FirstTaken ==
    ASSUME NEW S, NEW q \in Seq(S), NEW n \in Nat, From(q, n), q # <<>>
    PROVE  /\ Head(q) = n + 1 /\ From(Tail(q), n + 1)
           /\ Len(q) \in Nat /\ Len(Tail(q)) \in Nat /\ Len(Tail(q)) + 1 = Len(q)
           /\ Tail(q) \in Seq(S) /\ Head(q) \in S
  <1>1. /\ Len(q) \in Nat /\ Len(q) > 0 /\ Len(Tail(q)) \in Nat
        /\ Len(Tail(q)) + 1 = Len(q) /\ Tail(q) \in Seq(S) /\ Head(q) \in S
    OBVIOUS
  <1>2. Head(q) = q[1] /\ q[1] = n + 1
    BY <1>1 DEF From
  <1>3. ASSUME NEW i \in 1..Len(Tail(q)) PROVE Tail(q)[i] = (n + 1) + i
    <2>1. Tail(q)[i] = q[i + 1] /\ i + 1 \in 1..Len(q)
      BY <1>1
    <2>2. q[i + 1] = n + (i + 1)
      BY <2>1 DEF From
    <2> QED
      BY <2>1, <2>2
  <1> QED
    BY <1>1, <1>2, <1>3 DEF From

(* The other side, and the numbers that chunks have.                       *)
LEMMA Sides ==
    /\ \A e \in Side : Other(e) \in Side /\ Other(e) # e /\ Other(Other(e)) = e /\ Side = {e, Other(e)}
    /\ MaxWrites \in [Side -> Nat] /\ Window \in Nat
    /\ \A e \in Side, n \in Nat : n > 0 /\ n <= MaxWrites[e] => n \in Chunk
    /\ Chunk \subseteq Nat /\ 0 \notin Chunk
  BY ProxyAssumption DEF Side, Other, Chunk

(* Numbers of chunks are natural numbers.                                  *)
LEMMA Chunks ==
    ASSUME NEW n \in {0} \cup Chunk
    PROVE  n \in Nat
  <1>1. n \in Chunk => n \in Nat
    BY Sides
  <1> QED
    BY <1>1

(* The steps of the virtual connection.                                    *)
LEMMA TunnelSteps ==
    ASSUME NEW e \in Side
    PROVE  /\ Tunnel!Last(got[e]) = LastGot(e)
           /\ Tunnel!Write(e) => sent' = [sent EXCEPT ![e] = @ + 1] /\ UNCHANGED <<got, hungUp, shut, eof>>
           /\ Tunnel!Read(e) =>
                  /\ UNCHANGED <<sent, hungUp, shut, eof>>
                  /\ \E n \in LastGot(e) + 1 .. sent[Other(e)] :
                        /\ n = LastGot(e) + 1 \/ e \in hungUp
                        /\ got' = [got EXCEPT ![e] = Append(@, n)]
           /\ Tunnel!ReadEof(e) => eof' = eof \cup {e} /\ UNCHANGED <<sent, got, hungUp, shut>>
           /\ CloseTunnel(e) => /\ hungUp' = hungUp \cup {e} /\ shut' = shut \cup {e}
                                /\ UNCHANGED <<sent, got, eof>>
  BY DEF Tunnel!Last, LastGot, Tunnel!Write, Tunnel!Read, Tunnel!ReadEof, CloseTunnel, Tunnel!HangUp

(* The last write that was read and the chunks that arrived are numbers.   *)
LEMMA Numbers ==
    ASSUME TypeOK, NEW e \in Side
    PROVE  /\ got[e] \in Seq(Chunk) /\ LastGot(e) \in Nat
           /\ recv[e] \in Seq(Chunk) /\ down[e] \in Seq(Chunk)
           /\ Len(recv[e]) \in Nat /\ Len(down[e]) \in Nat /\ Arrived(e) \in Nat
  <1>1. got[e] \in Seq(Chunk) /\ recv[e] \in Seq(Chunk) /\ down[e] \in Seq(Chunk)
    BY DEF TypeOK
  <1>2. LastGot(e) \in Nat
    <2>1. CASE got[e] # <<>>
      <3>1. got[e][Len(got[e])] \in Chunk
        BY <1>1, <2>1
      <3> QED
        BY <2>1, <3>1, Sides DEF LastGot
    <2> QED
      BY <2>1 DEF LastGot
  <1>3. Len(recv[e]) \in Nat /\ Len(down[e]) \in Nat
    BY <1>1
  <1>4. Arrived(e) \in Nat
    <2> DEFINE a == Len(recv[e])
               b == Len(down[e])
    <2>1. Arrived(e) = a + b /\ a \in Nat /\ b \in Nat
      BY <1>3 DEF Arrived
    <2> HIDE DEF a, b
    <2> QED
      BY <2>1
  <1> QED
    BY <1>1, <1>2, <1>3, <1>4

(* What a read of the tunnel returns.                                      *)
LEMMA TunnelRead ==
    ASSUME TypeOK, ProxyInv, NEW e \in Side, Tunnel!Read(e)
    PROVE  /\ UNCHANGED <<sent, hungUp, shut, eof>>
           /\ LastGot(e)' \in Nat /\ LastGot(e)' > LastGot(e) /\ LastGot(e)' <= sent[Other(e)]
           /\ e \notin hungUp => LastGot(e)' = LastGot(e) + 1
           /\ got' = [got EXCEPT ![e] = Append(@, LastGot(e)')] /\ got' \in [Side -> Seq(Chunk)]
           /\ LastGot(e)' \in Chunk
           /\ payload[Other(e)][Tunnel!Last(got'[e])] = LastGot(e)'
  <1>1. got[e] \in Seq(Chunk) /\ LastGot(e) \in Nat
    BY Numbers
  <1>2. PICK n \in LastGot(e) + 1 .. sent[Other(e)] :
            /\ n = LastGot(e) + 1 \/ e \in hungUp
            /\ got' = [got EXCEPT ![e] = Append(@, n)]
    BY TunnelSteps
  <1>3. Other(e) \in Side /\ sent[Other(e)] \in Nat /\ sent[Other(e)] <= MaxWrites[Other(e)]
    BY Sides DEF TypeOK
  <1>4. n \in Nat /\ n > 0 /\ n <= sent[Other(e)] /\ n \in Chunk
    BY <1>1, <1>3, Sides
  <1>5. got'[e] = Append(got[e], n)
    BY <1>2 DEF TypeOK
  <1>6. LastGot(e)' = n /\ Tunnel!Last(got'[e]) = n
    BY <1>1, <1>4, <1>5 DEF LastGot, Tunnel!Last
  <1>7. got' \in [Side -> Seq(Chunk)]
    BY <1>1, <1>2, <1>4 DEF TypeOK
  <1>8. payload[Other(e)][n] = n
    <2>1. n \in 1..Len(payload[Other(e)]) /\ From(payload[Other(e)], 0)
      BY <1>3, <1>4 DEF ProxyInv, Sending
    <2> QED
      BY <1>4, <2>1 DEF From
  <1> QED
    BY <1>1, <1>2, <1>4, <1>6, <1>7, <1>8, TunnelSteps

-----------------------------------------------------------------------------
(* Each part of the invariant, step by step.                               *)

LEMMA SendingKept ==
    ASSUME TypeOK, NEW x \in Side, Sending(x), closed \subseteq closed',
           UNCHANGED <<sent[x], payload[x], wrote[x], copyIn[x]>>,
           up'[x] = up[x] \/ (x \in closed' /\ up'[x] = <<>>)
    PROVE  Sending(x)'
  <1>1. Taken(x)' = Taken(x) /\ Taken(x) \in Nat /\ up[x] \in Seq(Chunk)
    BY DEF Taken, TypeOK
  <1>2. CASE up'[x] = up[x]
    BY <1>1, <1>2 DEF Sending
  <1>3. CASE x \in closed' /\ up'[x] = <<>>
    <2>1. Len(up'[x]) = 0 /\ Len(up[x]) \in Nat
      BY <1>1, <1>3
    <2>2. wrote[x] \in Nat
      BY Chunks DEF TypeOK
    <2> QED
      BY <1>1, <1>3, <2>1, <2>2 DEF Sending
  <1> QED
    BY <1>2, <1>3

LEMMA NextSending ==
    ASSUME TypeOK, ProxyInv, [Next]_vars, NEW x \in Side
    PROVE  Sending(x)'
  <1> USE DEF tunnelVars, appVars
  <1>1. Sending(x) /\ Receiving(x) /\ Closing(x)
    BY DEF ProxyInv
  <1>2. /\ sent[x] \in Nat /\ wrote[x] \in Nat /\ up[x] \in Seq(Chunk) /\ payload[x] \in Seq(Chunk)
        /\ copyIn[x] \in CopyState /\ Len(up[x]) \in Nat /\ Len(payload[x]) \in Nat /\ Taken(x) \in Nat
    <2>1. sent[x] \in Nat /\ wrote[x] \in {0} \cup Chunk /\ up[x] \in Seq(Chunk) /\ payload[x] \in Seq(Chunk)
      BY DEF TypeOK
    <2>2. copyIn[x] \in CopyState
      BY DEF TypeOK
    <2>3. wrote[x] \in Nat
      BY <2>1, Chunks
    <2>4. Len(up[x]) \in Nat /\ Len(payload[x]) \in Nat
      BY <2>1
    <2> QED
      BY <2>1, <2>2, <2>3, <2>4 DEF Taken
  <1>3. ASSUME UNCHANGED <<sent, payload, wrote, copyIn, up>>, closed \subseteq closed' PROVE Sending(x)'
    BY <1>1, <1>3, SendingKept
  <1>4. ASSUME NEW e \in Side, AppWrite(e) PROVE Sending(x)'
    <2>1. /\ UNCHANGED <<sent, payload, copyIn, closed>> /\ wrote' = [wrote EXCEPT ![e] = @ + 1]
          /\ up' = IF e \in closed THEN up ELSE [up EXCEPT ![e] = Append(@, wrote[e] + 1)]
          /\ wrote[e] < MaxWrites[e] /\ MaxWrites[e] \in Nat
      BY <1>4, Sides DEF AppWrite
    <2>2. CASE e # x
      BY <1>1, <2>1, <2>2, SendingKept DEF TypeOK
    <2>3. CASE e = x
      <3>1. /\ wrote'[x] = wrote[x] + 1 /\ wrote[x] + 1 <= MaxWrites[x] /\ wrote[x] + 1 \in Chunk
            /\ up'[x] = IF x \in closed THEN up[x] ELSE Append(up[x], wrote[x] + 1)
            /\ Taken(x)' = Taken(x)
        BY <1>2, <2>1, <2>3, Sides DEF TypeOK, Taken
      <3>2. Len(up'[x]) = Len(up[x]) \/ Len(up'[x]) = Len(up[x]) + 1
        BY <1>2, <3>1
      <3>3. x \notin closed /\ copyIn[x].at # "end" =>
                From(up'[x], Taken(x)) /\ Taken(x) + Len(up'[x]) = wrote'[x]
        <4> SUFFICES ASSUME x \notin closed, copyIn[x].at # "end"
                     PROVE  From(up'[x], Taken(x)) /\ Taken(x) + Len(up'[x]) = wrote'[x]
          OBVIOUS
        <4>1. From(up[x], Taken(x)) /\ Taken(x) + Len(up[x]) = wrote[x]
          BY <1>1 DEF Sending
        <4> DEFINE t == Taken(x)
                   m == wrote[x] + 1
        <4>2. t \in Nat /\ From(up[x], t) /\ m \in Chunk /\ m = t + Len(up[x]) + 1 /\ up'[x] = Append(up[x], m)
          BY <1>2, <3>1, <4>1
        <4> HIDE DEF t, m
        <4>3. From(Append(up[x], m), t) /\ Len(Append(up[x], m)) = Len(up[x]) + 1
          BY <1>2, <4>2, Added
        <4>4. t + Len(up'[x]) = m
          BY <1>2, <4>2, <4>3
        <4> QED
          BY <3>1, <4>2, <4>3, <4>4 DEF t, m
      <3>4. Taken(x) + Len(up'[x]) <= wrote'[x]
        BY <1>1, <1>2, <3>1, <3>2 DEF Sending
      <3> QED
        BY <1>1, <2>1, <3>1, <3>3, <3>4 DEF Sending
    <2> QED
      BY <2>2, <2>3
  <1>5. ASSUME DialTunnel \/ DialServer PROVE Sending(x)'
    <2>1. /\ UNCHANGED <<sent, payload, wrote, up>> /\ closed \subseteq closed'
      BY <1>5, TunnelSteps DEF DialTunnel, DialServer, Side
    <2>2. copyIn'[x] = copyIn[x] \/ (copyIn[x] = Off /\ copyIn'[x] = Reading)
      <3>1. PICK e \in Side : copyIn' = copyIn \/ (handler[e] = "dial" /\ copyIn' = [copyIn EXCEPT ![e] = Reading])
        BY <1>5 DEF DialTunnel, DialServer, Side
      <3> QED
        BY <1>1, <3>1 DEF Closing, TypeOK
    <2>3. CASE copyIn[x] = Off /\ copyIn'[x] = Reading
      <3>1. /\ copyIn[x].at = "off" /\ copyIn'[x].at = "read" /\ Taken(x)' = Taken(x)
        BY <2>1, <2>3 DEF Taken, Off, Reading
      <3> QED
        BY <1>1, <2>1, <3>1 DEF Sending
    <2> QED
      BY <1>1, <2>1, <2>2, <2>3, SendingKept
  <1>6. ASSUME NEW e \in Side, CloseConns(e) PROVE Sending(x)'
    <2>1. /\ UNCHANGED <<sent, payload, wrote, copyIn>>
          /\ \/ UNCHANGED <<up, closed>>
             \/ closed' = closed \cup {e} /\ up' = [up EXCEPT ![e] = <<>>]
      BY <1>6, TunnelSteps DEF CloseConns, ProxyEnds, CloseLocal, CloseOther
    <2> QED
      BY <1>1, <2>1, SendingKept DEF TypeOK
  <1>7. ASSUME NEW e \in Side, ReadLocal(e) PROVE Sending(x)'
    <2>1. UNCHANGED <<sent, payload, wrote, closed>>
      BY <1>7 DEF ReadLocal
    <2>2. CASE e # x
      <3>1. copyIn'[x] = copyIn[x] /\ up'[x] = up[x]
        BY <1>7, <2>2 DEF ReadLocal, TypeOK
      <3> QED
        BY <1>1, <2>1, <3>1, SendingKept
    <2>3. CASE /\ e = x /\ e \notin closed /\ up[e] # <<>>
               /\ copyIn' = [copyIn EXCEPT ![e] = [at |-> "write", chunk |-> Head(up[e])]]
               /\ up' = [up EXCEPT ![e] = Tail(@)]
      <3>1. /\ copyIn'[x].at = "write" /\ copyIn'[x].chunk = Head(up[x]) /\ up'[x] = Tail(up[x])
            /\ copyIn[x].at = "read" /\ Taken(x) = sent[x] /\ Taken(x)' = sent[x] + 1
        BY <1>7, <2>1, <2>3 DEF ReadLocal, TypeOK, Taken
      <3>2. From(up[x], sent[x]) /\ sent[x] + Len(up[x]) = wrote[x] /\ up[x] # <<>>
        BY <1>1, <2>3, <3>1 DEF Sending
      <3>3. /\ Head(up[x]) = sent[x] + 1 /\ From(Tail(up[x]), sent[x] + 1)
            /\ Len(Tail(up[x])) + 1 = Len(up[x]) /\ Len(Tail(up[x])) \in Nat
        BY <1>2, <3>2, FirstTaken
      <3>4. Taken(x)' + Len(up'[x]) = wrote[x]
        BY <1>2, <3>1, <3>2, <3>3
      <3>5. /\ From(up'[x], Taken(x)') /\ Taken(x)' + Len(up'[x]) <= wrote[x]
            /\ copyIn'[x].chunk = sent[x] + 1
        BY <1>2, <3>1, <3>3, <3>4
      <3>6. sent'[x] = sent[x] /\ payload'[x] = payload[x] /\ wrote'[x] = wrote[x]
        BY <2>1
      <3> QED
        BY <1>1, <3>4, <3>5, <3>6 DEF Sending
    <2>4. CASE e = x /\ copyIn' = [copyIn EXCEPT ![e] = Ended] /\ UNCHANGED up
      <3>1. copyIn'[x].at = "end" /\ copyIn[x].at = "read" /\ Taken(x)' = Taken(x)
        BY <1>7, <2>1, <2>4 DEF ReadLocal, TypeOK, Ended, Taken
      <3> QED
        BY <1>1, <2>1, <2>4, <3>1 DEF Sending
    <2> QED
      BY <1>7, <2>2, <2>3, <2>4 DEF ReadLocal
  <1>8. ASSUME NEW e \in Side, WriteTunnel(e) PROVE Sending(x)'
    <2>1. UNCHANGED <<up, wrote, closed>> /\ copyIn[e].at = "write"
      BY <1>8 DEF WriteTunnel
    <2>2. CASE /\ Tunnel!Write(e) /\ payload' = [payload EXCEPT ![e] = Append(@, copyIn[e].chunk)]
               /\ copyIn' = [copyIn EXCEPT ![e] = Waiting]
      <3>1. sent' = [sent EXCEPT ![e] = @ + 1]
        BY <2>2, TunnelSteps
      <3>2. CASE e # x
        BY <1>1, <2>1, <2>2, <3>1, <3>2, SendingKept DEF TypeOK
      <3>3. CASE e = x
        <4>1. /\ sent'[x] = sent[x] + 1 /\ payload'[x] = Append(payload[x], copyIn[x].chunk)
              /\ copyIn'[x].at = "wait" /\ Taken(x)' = Taken(x)
          BY <2>1, <2>2, <3>1, <3>3 DEF TypeOK, Waiting, Taken
        <4>2. /\ copyIn[x].chunk = sent[x] + 1 /\ sent[x] = Len(payload[x]) /\ From(payload[x], 0)
          BY <1>1, <2>1, <3>3 DEF Sending
        <4>3. copyIn[x].chunk \in Chunk
          BY <1>2, <4>2 DEF CopyState
        <4> DEFINE c == copyIn[x].chunk
        <4>4. c = 0 + Len(payload[x]) + 1
          BY <1>2, <4>2
        <4> HIDE DEF c
        <4>5. From(Append(payload[x], c), 0) /\ Len(Append(payload[x], c)) = Len(payload[x]) + 1
          BY <1>2, <4>2, <4>3, <4>4, Added DEF c
        <4>6. From(payload'[x], 0) /\ sent'[x] = Len(payload'[x])
          BY <4>1, <4>2, <4>5 DEF c
        <4> QED
          BY <1>1, <2>1, <3>3, <4>1, <4>6 DEF Sending
      <3> QED
        BY <3>2, <3>3
    <2>3. CASE copyIn' = [copyIn EXCEPT ![e] = Ended] /\ UNCHANGED <<tunnelVars, payload>>
      <3>1. CASE e # x
        BY <1>1, <2>1, <2>3, <3>1, SendingKept DEF TypeOK
      <3>2. CASE e = x
        <4>1. copyIn'[x].at = "end" /\ Taken(x)' = sent[x] /\ Taken(x) = sent[x] + 1
          BY <2>1, <2>3, <3>2 DEF TypeOK, Ended, Taken
        <4>2. Taken(x)' + Len(up[x]) <= wrote[x]
          <5>1. sent[x] + 1 + Len(up[x]) <= wrote[x]
            BY <1>1, <4>1 DEF Sending
          <5> QED
            BY <1>2, <4>1, <5>1
        <4> QED
          BY <1>1, <2>1, <2>3, <4>1, <4>2 DEF Sending
      <3> QED
        BY <3>1, <3>2
    <2> QED
      BY <1>8, <2>2, <2>3 DEF WriteTunnel
  <1>9. ASSUME NEW e \in Side, CopyOut(e) \/ RemoteClose(e) \/ AppRead(e) \/ AppClose(e) \/ StopSession(e)
        PROVE  Sending(x)'
    <2>1. UNCHANGED <<sent, payload, wrote, copyIn, up, closed>>
      BY <1>9, TunnelSteps DEF CopyOut, ReadTunnel, WriteLocal, RemoteClose, Tunnel!HangUp, AppRead, AppClose, StopSession
    <2> QED
      BY <1>3, <2>1
  <1>10. ASSUME AcceptClient \/ AcceptTunnel \/ UNCHANGED vars PROVE Sending(x)'
    BY <1>3, <1>10 DEF AcceptClient, AcceptTunnel, vars
  <1>11. ASSUME NEW e \in Side, WriteReturns(e) PROVE Sending(x)'
    <2>1. UNCHANGED <<sent, payload, wrote, up, closed>>
      BY <1>11 DEF WriteReturns
    <2>2. CASE e # x
      <3>1. copyIn'[x] = copyIn[x]
        BY <1>11, <2>2 DEF WriteReturns, TypeOK
      <3> QED
        BY <1>1, <2>1, <3>1, SendingKept
    <2>3. CASE e = x
      <3>1. copyIn[x].at = "wait" /\ copyIn'[x].at \in {"read", "end"} /\ Taken(x)' = Taken(x)
        BY <1>11, <2>1, <2>3 DEF WriteReturns, TypeOK, Reading, Ended, Taken
      <3> QED
        BY <1>1, <2>1, <3>1 DEF Sending
    <2> QED
      BY <2>2, <2>3
  <1> QED
    BY <1>4, <1>5, <1>6, <1>7, <1>8, <1>9, <1>10, <1>11 DEF Next, Handling, CopyIn

LEMMA ReceivingKept ==
    ASSUME TypeOK, NEW x \in Side, Receiving(x), closed \subseteq closed', stopped \subseteq stopped',
           UNCHANGED <<got[x], copyOut[x], recv[x], down[x]>>,
           sent'[Other(x)] \in Nat, sent[Other(x)] <= sent'[Other(x)]
    PROVE  Receiving(x)'
  <1>1. LastGot(x)' = LastGot(x) /\ Arrived(x)' = Arrived(x)
    BY DEF LastGot, Arrived
  <1>2. sent[Other(x)] \in Nat
    BY Sides DEF TypeOK
  <1>3. LastGot(x) \in Nat
    BY Numbers
  <1>4. LastGot(x) <= sent'[Other(x)]
    BY <1>2, <1>3 DEF Receiving
  <1> QED
    BY <1>1, <1>4, Sides DEF Receiving

LEMMA NextReceiving ==
    ASSUME TypeOK, ProxyInv, [Next]_vars, NEW x \in Side
    PROVE  Receiving(x)'
  <1> USE DEF tunnelVars, appVars
  <1>1. Sending(x) /\ Receiving(x) /\ Closing(x) /\ Other(x) \in Side /\ sent[Other(x)] \in Nat
    BY Sides DEF ProxyInv, TypeOK
  <1>2. /\ got[x] \in Seq(Chunk) /\ recv[x] \in Seq(Chunk) /\ down[x] \in Seq(Chunk)
        /\ copyOut[x] \in CopyState /\ LastGot(x) \in Nat /\ Arrived(x) \in Nat
        /\ Len(recv[x]) \in Nat /\ Len(down[x]) \in Nat
    BY Numbers DEF TypeOK
  <1>3. ASSUME UNCHANGED <<sent, got, copyOut, recv, down>>, closed \subseteq closed', stopped \subseteq stopped'
        PROVE  Receiving(x)'
    BY <1>1, <1>3, ReceivingKept
  <1>4. ASSUME NEW e \in Side, AppRead(e) PROVE Receiving(x)'
    <2>1. UNCHANGED <<sent, got, copyOut, closed, stopped>>
      BY <1>4 DEF AppRead
    <2>2. CASE UNCHANGED <<recv, down>>
      BY <1>3, <2>1, <2>2
    <2>3. CASE /\ e # x /\ recv' = [recv EXCEPT ![e] = Append(@, Head(down[e]))]
               /\ down' = [down EXCEPT ![e] = Tail(@)]
      <3>1. recv'[x] = recv[x] /\ down'[x] = down[x]
        BY <2>3 DEF TypeOK
      <3> QED
        BY <1>1, <2>1, <3>1, ReceivingKept
    <2>4. CASE /\ e = x /\ down[e] # <<>> /\ recv' = [recv EXCEPT ![e] = Append(@, Head(down[e]))]
               /\ down' = [down EXCEPT ![e] = Tail(@)]
      <3>1. recv'[x] = Append(recv[x], Head(down[x])) /\ down'[x] = Tail(down[x]) /\ LastGot(x)' = LastGot(x)
        BY <2>1, <2>4 DEF TypeOK, LastGot
      <3>2. Head(down[x]) \in Chunk /\ Len(down'[x]) + 1 = Len(down[x]) /\ Len(down'[x]) \in Nat
        <4>1. down[x] # <<>>
          BY <2>4
        <4> QED
          BY <1>2, <3>1, <4>1
      <3>3. Len(recv'[x]) = Len(recv[x]) + 1
        BY <1>2, <3>1, <3>2
      <3>4. Arrived(x)' = Arrived(x)
        <4> DEFINE r == Len(recv[x])
                   d == Len(down[x])
                   s == Len(recv'[x])
                   t == Len(down'[x])
        <4>1. r \in Nat /\ d \in Nat /\ t \in Nat /\ s = r + 1 /\ t + 1 = d
          BY <1>2, <3>2, <3>3
        <4>2. Arrived(x) = r + d /\ Arrived(x)' = s + t
          BY DEF Arrived
        <4> HIDE DEF r, d, s, t
        <4> QED
          BY <4>1, <4>2
      <3>5. ASSUME x \notin stopped PROVE From(recv'[x], 0) /\ From(down'[x], Len(recv'[x]))
        <4>1. From(recv[x], 0) /\ From(down[x], Len(recv[x]))
          BY <1>1, <3>5 DEF Receiving
        <4>2. Head(down[x]) = Len(recv[x]) + 1 /\ From(Tail(down[x]), Len(recv[x]) + 1)
          BY <1>2, <2>4, <4>1, FirstTaken
        <4>3. Head(down[x]) = 0 + Len(recv[x]) + 1
          BY <1>2, <4>2
        <4>4. From(Append(recv[x], Head(down[x])), 0)
          BY <1>2, <3>2, <4>1, <4>3, Added
        <4> QED
          BY <3>1, <3>3, <4>2, <4>4
      <3> QED
        BY <1>1, <2>1, <3>1, <3>4, <3>5 DEF Receiving
    <2> QED
      BY <1>4, <2>2, <2>3, <2>4 DEF AppRead
  <1>5. ASSUME DialTunnel \/ DialServer PROVE Receiving(x)'
    <2>1. UNCHANGED <<sent, got, recv, down, stopped>> /\ closed \subseteq closed'
      BY <1>5, TunnelSteps DEF DialTunnel, DialServer, Side
    <2>2. copyOut'[x] = copyOut[x] \/ (copyOut[x] = Off /\ copyOut'[x] = Reading)
      <3>1. PICK e \in Side : copyOut' = copyOut \/ (handler[e] = "dial" /\ copyOut' = [copyOut EXCEPT ![e] = Reading])
        BY <1>5 DEF DialTunnel, DialServer, Side
      <3> QED
        BY <1>1, <3>1 DEF Closing, TypeOK
    <2>3. CASE copyOut[x] = Off /\ copyOut'[x] = Reading
      <3>1. /\ copyOut[x].at = "off" /\ copyOut'[x].at = "read"
            /\ LastGot(x)' = LastGot(x) /\ Arrived(x)' = Arrived(x)
        BY <2>1, <2>3 DEF LastGot, Arrived, Off, Reading
      <3> QED
        BY <1>1, <2>1, <3>1 DEF Receiving
    <2> QED
      BY <1>1, <2>1, <2>2, <2>3, ReceivingKept
  <1>6. ASSUME NEW e \in Side, ReadTunnel(e) PROVE Receiving(x)'
    <2>1. UNCHANGED <<sent, recv, down, closed, stopped>> /\ copyOut[e].at = "read"
      BY <1>6, TunnelSteps DEF ReadTunnel
    <2>2. CASE e # x
      <3>1. got'[x] = got[x] /\ copyOut'[x] = copyOut[x]
        BY <1>6, <2>2, TunnelSteps DEF ReadTunnel, TypeOK
      <3> QED
        BY <1>1, <2>1, <3>1, ReceivingKept
    <2>3. CASE /\ e = x /\ Tunnel!Read(e)
               /\ copyOut' = [copyOut EXCEPT ![e] =
                      [at |-> "write", chunk |-> payload[Other(e)][Tunnel!Last(got'[e])]]]
      <3>1. copyOut'[x] = [at |-> "write", chunk |-> payload[Other(x)][Tunnel!Last(got'[x])]]
        BY <2>3 DEF TypeOK
      <3>2. /\ copyOut'[x].at = "write" /\ copyOut'[x].chunk = LastGot(x)' /\ LastGot(x)' # 0
            /\ LastGot(x)' <= sent[Other(x)] /\ (x \notin hungUp => LastGot(x)' = LastGot(x) + 1)
        BY <1>2, <2>3, <3>1, TunnelRead
      <3>3. Arrived(x)' = Arrived(x)
        BY <2>1 DEF Arrived
      <3>4. ASSUME x \notin stopped, x \notin closed PROVE LastGot(x)' = Arrived(x) + 1
        <4>1. copyOut[x] # Off
          BY <2>1, <2>3 DEF Off
        <4>2. x \notin hungUp /\ LastGot(x) = Arrived(x)
          BY <1>1, <2>1, <2>3, <3>4, <4>1 DEF Closing, Receiving
        <4> QED
          BY <3>2, <4>2
      <3> QED
        BY <1>1, <2>1, <3>2, <3>3, <3>4, Sides DEF Receiving
    <2>4. CASE e = x /\ Tunnel!ReadEof(e) /\ copyOut' = [copyOut EXCEPT ![e] = Ended]
      <3>1. /\ copyOut'[x].at = "end" /\ got' = got
            /\ LastGot(x)' = LastGot(x) /\ Arrived(x)' = Arrived(x)
        BY <2>1, <2>4, TunnelSteps DEF TypeOK, Ended, LastGot, Arrived
      <3> QED
        BY <1>1, <2>1, <3>1 DEF Receiving
    <2> QED
      BY <1>6, <2>2, <2>3, <2>4 DEF ReadTunnel
  <1>7. ASSUME NEW e \in Side, WriteLocal(e) PROVE Receiving(x)'
    <2>1. UNCHANGED <<sent, got, recv, closed, stopped>> /\ copyOut[e].at = "write"
      BY <1>7 DEF WriteLocal
    <2>2. CASE e # x
      <3>1. down'[x] = down[x] /\ copyOut'[x] = copyOut[x]
        BY <1>7, <2>2 DEF WriteLocal, TypeOK
      <3> QED
        BY <1>1, <2>1, <3>1, ReceivingKept
    <2>3. CASE /\ e = x /\ e \notin closed /\ down' = [down EXCEPT ![e] = Append(@, copyOut[e].chunk)]
               /\ copyOut' = [copyOut EXCEPT ![e] = Reading]
      <3> DEFINE c == copyOut[x].chunk
      <3>1. c = LastGot(x) /\ LastGot(x) # 0 /\ c \in Chunk
        BY <1>1, <1>2, <2>1, <2>3 DEF Receiving, CopyState
      <3>2. down'[x] = Append(down[x], c) /\ copyOut'[x].at = "read" /\ LastGot(x)' = LastGot(x)
        BY <2>1, <2>3 DEF TypeOK, Reading, LastGot
      <3> HIDE DEF c
      <3>3. Len(down'[x]) = Len(down[x]) + 1
        BY <1>2, <3>1, <3>2
      <3>4. Arrived(x)' = Arrived(x) + 1
        <4> DEFINE r == Len(recv[x])
                   d == Len(down[x])
                   t == Len(down'[x])
        <4>1. r \in Nat /\ d \in Nat /\ t = d + 1
          BY <1>2, <3>3
        <4>2. Arrived(x) = r + d /\ Arrived(x)' = r + t
          BY <2>1 DEF Arrived
        <4> HIDE DEF r, d, t
        <4> QED
          BY <4>1, <4>2
      <3>5. ASSUME x \notin stopped PROVE LastGot(x) = Arrived(x) + 1 /\ From(down'[x], Len(recv[x]))
        <4>1. LastGot(x) = Arrived(x) + 1 /\ From(down[x], Len(recv[x]))
          BY <1>1, <2>1, <2>3, <3>5 DEF Receiving
        <4>2. c = Len(recv[x]) + Len(down[x]) + 1
          BY <1>2, <3>1, <4>1 DEF Arrived
        <4>3. From(Append(down[x], c), Len(recv[x]))
          BY <1>2, <3>1, <4>1, <4>2, Added
        <4> QED
          BY <3>2, <4>1, <4>3
      <3> QED
        BY <1>1, <2>1, <3>2, <3>4, <3>5 DEF Receiving
    <2>4. CASE e = x /\ copyOut' = [copyOut EXCEPT ![e] = Ended] /\ UNCHANGED down
      <3>1. copyOut'[x].at = "end" /\ LastGot(x)' = LastGot(x) /\ Arrived(x)' = Arrived(x)
        BY <2>1, <2>4 DEF TypeOK, Ended, LastGot, Arrived
      <3> QED
        BY <1>1, <2>1, <2>4, <3>1 DEF Receiving
    <2> QED
      BY <1>7, <2>2, <2>3, <2>4 DEF WriteLocal
  <1>8. ASSUME NEW e \in Side, WriteTunnel(e) PROVE Receiving(x)'
    <2>1. UNCHANGED <<got, copyOut, recv, down, closed, stopped>>
      BY <1>8, TunnelSteps DEF WriteTunnel
    <2>2. sent' = sent \/ sent' = [sent EXCEPT ![e] = @ + 1]
      BY <1>8, TunnelSteps DEF WriteTunnel
    <2>3. sent'[Other(x)] = sent[Other(x)] \/ sent'[Other(x)] = sent[Other(x)] + 1
      BY <1>1, <2>2 DEF TypeOK
    <2> QED
      BY <1>1, <2>1, <2>3, ReceivingKept
  <1>9. ASSUME NEW e \in Side,
               \/ ReadLocal(e) \/ WriteReturns(e) \/ CloseConns(e) \/ RemoteClose(e)
               \/ AppWrite(e) \/ AppClose(e) \/ StopSession(e)
        PROVE  Receiving(x)'
    <2>1. UNCHANGED <<sent, got, copyOut, recv, down>> /\ closed \subseteq closed' /\ stopped \subseteq stopped'
      BY <1>9, TunnelSteps DEF ReadLocal, WriteReturns, CloseConns, ProxyEnds, CloseLocal, CloseOther, RemoteClose,
         Tunnel!HangUp, AppWrite, AppClose, StopSession
    <2> QED
      BY <1>3, <2>1
  <1>10. ASSUME AcceptClient \/ AcceptTunnel \/ UNCHANGED vars PROVE Receiving(x)'
    BY <1>3, <1>10 DEF AcceptClient, AcceptTunnel, vars
  <1> QED
    BY <1>4, <1>5, <1>6, <1>7, <1>8, <1>9, <1>10 DEF Next, Handling, CopyIn, CopyOut

LEMMA NextClosing ==
    ASSUME TypeOK, ProxyInv, [Next]_vars, NEW x \in Side
    PROVE  Closing(x)'
  <1> USE DEF tunnelVars, appVars
  <1>1. Closing(x)
    BY DEF ProxyInv
  <1>2. ASSUME UNCHANGED <<handler, hungUp, closed, stopped>>,
               copyIn'[x] = copyIn[x] \/ copyIn[x] # Off, copyOut'[x] = copyOut[x] \/ copyOut[x] # Off
        PROVE  Closing(x)'
    BY <1>1, <1>2 DEF Closing
  <1>3. ASSUME UNCHANGED <<handler, hungUp, closed, stopped, copyIn, copyOut>> PROVE Closing(x)'
    BY <1>2, <1>3
  <1>4. ASSUME AcceptClient \/ AcceptTunnel PROVE Closing(x)'
    <2>1. UNCHANGED <<hungUp, closed, stopped, copyIn, copyOut>>
      BY <1>4 DEF AcceptClient, AcceptTunnel
    <2>2. handler'[x] = handler[x] \/ (handler[x] = "idle" /\ handler'[x] = "dial")
      BY <1>4 DEF AcceptClient, AcceptTunnel, TypeOK, Side
    <2> QED
      BY <1>1, <2>1, <2>2 DEF Closing
  <1>5. ASSUME DialTunnel PROVE Closing(x)'
    <2>1. UNCHANGED <<hungUp, stopped>> /\ handler["forward"] = "dial" /\ closed \subseteq closed'
      BY <1>5 DEF DialTunnel
    <2>2. CASE x # "forward"
      <3>1. /\ handler'[x] = handler[x] /\ copyIn'[x] = copyIn[x] /\ copyOut'[x] = copyOut[x]
            /\ (x \in closed' <=> x \in closed)
        BY <1>5, <2>2 DEF DialTunnel, TypeOK
      <3> QED
        BY <1>1, <2>1, <3>1 DEF Closing
    <2>3. CASE x = "forward"
      <3>1. handler'[x] = "proxy" \/ handler'[x] = "end"
        BY <1>5, <2>3 DEF DialTunnel, TypeOK
      <3>2. x \in hungUp => x \in stopped \cup closed
        BY <1>1, <2>1, <2>3 DEF Closing
      <3> QED
        BY <2>1, <3>1, <3>2 DEF Closing
    <2> QED
      BY <2>2, <2>3
  <1>6. ASSUME DialServer PROVE Closing(x)'
    <2>1. UNCHANGED <<stopped, closed>> /\ handler["serve"] = "dial"
      BY <1>6 DEF DialServer
    <2>2. CASE x # "serve"
      <3>1. /\ handler'[x] = handler[x] /\ copyIn'[x] = copyIn[x] /\ copyOut'[x] = copyOut[x]
            /\ (x \in hungUp' <=> x \in hungUp)
        BY <1>6, <2>2, TunnelSteps DEF DialServer, CloseTunnel, TypeOK
      <3> QED
        BY <1>1, <2>1, <3>1 DEF Closing
    <2>3. CASE x = "serve" /\ handler'[x] = "proxy" /\ UNCHANGED hungUp
      <3>1. x \in hungUp => x \in stopped \cup closed
        BY <1>1, <2>1, <2>3 DEF Closing
      <3> QED
        BY <2>1, <2>3, <3>1 DEF Closing
    <2>4. CASE x = "serve" /\ handler'[x] = "end" /\ UNCHANGED copyOut
      <3>1. copyOut[x] = Off
        BY <1>1, <2>1, <2>4 DEF Closing
      <3> QED
        BY <2>4, <3>1 DEF Closing
    <2> QED
      BY <1>6, <2>2, <2>3, <2>4 DEF DialServer, TypeOK, Side
  <1>7. ASSUME NEW e \in Side, CloseConns(e) PROVE Closing(x)'
    <2>1. UNCHANGED <<stopped, copyIn, copyOut>>
      BY <1>7 DEF CloseConns, ProxyEnds
    <2>2. CASE e # x
      <3>1. handler'[x] = handler[x] /\ (x \in hungUp' <=> x \in hungUp) /\ (x \in closed' <=> x \in closed)
        BY <1>7, <2>2, TunnelSteps DEF CloseConns, ProxyEnds, CloseLocal, CloseOther, TypeOK
      <3> QED
        BY <1>1, <2>1, <3>1 DEF Closing
    <2>3. CASE e = x /\ ProxyEnds(e, "proxy", "closeB") /\ CloseLocal(e)
      <3>1. handler'[x] = "closeB" /\ x \in closed'
        BY <2>3 DEF ProxyEnds, CloseLocal, TypeOK
      <3> QED
        BY <3>1 DEF Closing
    <2>4. CASE e = x /\ ProxyEnds(e, "closeB", "end") /\ CloseOther(e)
      <3>1. handler'[x] = "end" /\ x \in closed'
        BY <1>1, <2>4 DEF ProxyEnds, CloseOther, TypeOK, Closing
      <3> QED
        BY <3>1 DEF Closing
    <2> QED
      BY <1>7, <2>2, <2>3, <2>4 DEF CloseConns
  <1>8. ASSUME NEW e \in Side, CopyIn(e) PROVE Closing(x)'
    <2>1. UNCHANGED <<handler, hungUp, closed, stopped, copyOut>>
      BY <1>8, TunnelSteps DEF CopyIn, ReadLocal, WriteTunnel, WriteReturns
    <2>2. copyIn'[x] = copyIn[x] \/ copyIn[x] # Off
      BY <1>8 DEF CopyIn, ReadLocal, WriteTunnel, WriteReturns, Off, TypeOK
    <2> QED
      BY <1>2, <2>1, <2>2
  <1>9. ASSUME NEW e \in Side, ReadTunnel(e) \/ WriteLocal(e) PROVE Closing(x)'
    <2>1. UNCHANGED <<handler, hungUp, closed, stopped, copyIn>>
      BY <1>9, TunnelSteps DEF ReadTunnel, WriteLocal
    <2>2. copyOut'[x] = copyOut[x] \/ copyOut[x] # Off
      BY <1>9 DEF ReadTunnel, WriteLocal, Off, TypeOK
    <2> QED
      BY <1>2, <2>1, <2>2
  <1>10. ASSUME NEW e \in Side, StopSession(e) PROVE Closing(x)'
    <2>1. /\ UNCHANGED <<handler, closed, copyIn, copyOut>>
          /\ hungUp' = hungUp \cup {e} /\ stopped' = stopped \cup {e}
      BY <1>10, TunnelSteps DEF StopSession
    <2> QED
      BY <1>1, <2>1 DEF Closing
  <1>11. ASSUME NEW e \in Side, RemoteClose(e) \/ AppWrite(e) \/ AppRead(e) \/ AppClose(e) PROVE Closing(x)'
    BY <1>3, <1>11 DEF RemoteClose, AppWrite, AppRead, AppClose
  <1> QED
    BY <1>3, <1>4, <1>5, <1>6, <1>7, <1>8, <1>9, <1>10, <1>11 DEF Next, Handling, CopyOut, vars
-----------------------------------------------------------------------------
(* Every step keeps the types.  That a copy has a chunk of the application *)
(* in its hands, and no other, is part of the invariant.                   *)
LEMMA NextType ==
    ASSUME TypeOK, ProxyInv, [Next]_vars
    PROVE  TypeOK'
  <1> USE DEF tunnelVars, appVars
  <1>1. \A x \in Side : Sending(x)' /\ Sending(x) /\ Receiving(x)
    BY NextSending DEF ProxyInv
  <1>2. \A e \in Side, n \in Nat : n > 0 /\ n <= MaxWrites[e] => n \in Chunk
    BY Sides
  <1>3. UNCHANGED vars => TypeOK'
    BY DEF vars, TypeOK
  <1>4. ASSUME AcceptClient \/ AcceptTunnel PROVE TypeOK'
    <2>1. handler' \in [Side -> {"idle", "dial", "proxy", "closeB", "end"}]
      BY <1>4 DEF AcceptClient, AcceptTunnel, TypeOK, Side
    <2>2. UNCHANGED <<tunnelVars, payload, up, down, appVars, closed, copyIn, copyOut, done, stopped>>
      BY <1>4 DEF AcceptClient, AcceptTunnel
    <2> QED
      BY <2>1, <2>2 DEF TypeOK
  <1>5. ASSUME DialTunnel PROVE TypeOK'
    <2>1. Reading \in CopyState
      BY DEF Reading, CopyState
    <2> QED
      <3>1. handler' \in [Side -> {"idle", "dial", "proxy", "closeB", "end"}]
        BY <1>5 DEF DialTunnel, TypeOK, Side
      <3>2. copyIn' \in [Side -> CopyState]
        BY <1>5, <2>1 DEF DialTunnel, TypeOK, Side
      <3>3. copyOut' \in [Side -> CopyState]
        BY <1>5, <2>1 DEF DialTunnel, TypeOK, Side
      <3>4. UNCHANGED <<sent, got, eof, payload, up, down, appVars, done, stopped>>
        BY <1>5 DEF DialTunnel, Side
      <3>5. hungUp' \subseteq Side /\ shut' \subseteq Side /\ closed' \subseteq Side
        BY <1>5 DEF DialTunnel, TypeOK, Side
      <3> QED
        BY <3>1, <3>2, <3>3, <3>4, <3>5 DEF TypeOK
  <1>6. ASSUME DialServer PROVE TypeOK'
    <2>1. Reading \in CopyState
      BY DEF Reading, CopyState
    <2> QED
      <3>1. handler' \in [Side -> {"idle", "dial", "proxy", "closeB", "end"}]
        BY <1>6 DEF DialServer, TypeOK, Side
      <3>2. copyIn' \in [Side -> CopyState]
        BY <1>6, <2>1 DEF DialServer, TypeOK, Side
      <3>3. copyOut' \in [Side -> CopyState]
        BY <1>6, <2>1 DEF DialServer, TypeOK, Side
      <3>4. UNCHANGED <<sent, got, eof, payload, up, down, appVars, done, stopped>>
        BY <1>6, TunnelSteps DEF DialServer, Side
      <3>5. hungUp' \subseteq Side /\ shut' \subseteq Side /\ closed' \subseteq Side
        BY <1>6, TunnelSteps DEF DialServer, TypeOK, Side
      <3> QED
        BY <3>1, <3>2, <3>3, <3>4, <3>5 DEF TypeOK
  <1>7. ASSUME NEW e \in Side, CloseConns(e) PROVE TypeOK'
    <2>1. handler' \in [Side -> {"idle", "dial", "proxy", "closeB", "end"}]
      BY <1>7 DEF CloseConns, ProxyEnds, TypeOK
    <2>2. UNCHANGED <<sent, got, eof, payload, down, appVars, copyIn, copyOut, done, stopped>>
      BY <1>7, TunnelSteps DEF CloseConns, ProxyEnds, CloseLocal, CloseOther
    <2>3. hungUp' \subseteq Side /\ shut' \subseteq Side /\ closed' \subseteq Side
      BY <1>7, TunnelSteps DEF CloseConns, CloseLocal, CloseOther, TypeOK
    <2>4. up' \in [Side -> Seq(Chunk)]
      <3>1. up' = up \/ up' = [up EXCEPT ![e] = <<>>]
        BY <1>7 DEF CloseConns, CloseLocal, CloseOther
      <3>2. up \in [Side -> Seq(Chunk)] /\ <<>> \in Seq(Chunk)
        BY DEF TypeOK
      <3> QED
        BY <3>1, <3>2
    <2> QED
      BY <2>1, <2>2, <2>3, <2>4 DEF TypeOK
  <1>8. ASSUME NEW e \in Side, RemoteClose(e) \/ StopSession(e) PROVE TypeOK'
    BY <1>8, TunnelSteps DEF RemoteClose, Tunnel!HangUp, StopSession, TypeOK
  <1>9. ASSUME NEW e \in Side, AppWrite(e) PROVE TypeOK'
    <2>1. wrote[e] \in Nat /\ wrote[e] < MaxWrites[e] /\ MaxWrites[e] \in Nat
      BY <1>9, Sides, Chunks DEF AppWrite, TypeOK
    <2>2. wrote[e] + 1 \in Chunk
      BY <2>1, Sides
    <2> QED
      BY <1>9, <2>2 DEF AppWrite, TypeOK
  <1>10. ASSUME NEW e \in Side, AppRead(e) PROVE TypeOK'
    <2>1. down[e] \in Seq(Chunk) /\ recv[e] \in Seq(Chunk)
      BY DEF TypeOK
    <2>2. ASSUME down[e] # <<>>
          PROVE  Append(recv[e], Head(down[e])) \in Seq(Chunk) /\ Tail(down[e]) \in Seq(Chunk)
      BY <2>1, <2>2
    <2> QED
      <3>1. recv' \in [Side -> Seq(Chunk)] /\ down' \in [Side -> Seq(Chunk)]
        <4>1. CASE UNCHANGED <<recv, down>>
          BY <4>1 DEF TypeOK
        <4>2. CASE /\ down[e] # <<>> /\ recv' = [recv EXCEPT ![e] = Append(@, Head(down[e]))]
                   /\ down' = [down EXCEPT ![e] = Tail(@)]
          BY <2>2, <4>2 DEF TypeOK
        <4> QED
          BY <1>10, <4>1, <4>2 DEF AppRead
      <3>2. UNCHANGED <<tunnelVars, payload, up, fin, gone, wrote, closed, handler, copyIn, copyOut, done, stopped>>
        BY <1>10 DEF AppRead
      <3>3. ended' \subseteq Side
        BY <1>10 DEF AppRead, TypeOK
      <3> QED
        BY <3>1, <3>2, <3>3 DEF TypeOK
  <1>11. ASSUME NEW e \in Side, AppClose(e) PROVE TypeOK'
    BY <1>11 DEF AppClose, TypeOK
  <1>12. ASSUME NEW e \in Side, ReadLocal(e) PROVE TypeOK'
    <2>1. up[e] \in Seq(Chunk)
      BY DEF TypeOK
    <2>2. ASSUME up[e] # <<>>
          PROVE  [at |-> "write", chunk |-> Head(up[e])] \in CopyState /\ Tail(up[e]) \in Seq(Chunk)
      BY <2>1, <2>2 DEF CopyState
    <2>3. Ended \in CopyState
      BY DEF Ended, CopyState
    <2> QED
      <3>1. up' \in [Side -> Seq(Chunk)]
        BY <1>12, <2>2 DEF ReadLocal, TypeOK
      <3>2. copyIn' \in [Side -> CopyState]
        BY <1>12, <2>2, <2>3 DEF ReadLocal, TypeOK
      <3>3. UNCHANGED <<tunnelVars, payload, down, appVars, closed, handler, copyOut, stopped>>
        BY <1>12 DEF ReadLocal
      <3>4. done' \subseteq Side
        BY <1>12 DEF ReadLocal, TypeOK
      <3> QED
        BY <3>1, <3>2, <3>3, <3>4 DEF TypeOK
  <1>13. ASSUME NEW e \in Side, WriteTunnel(e) PROVE TypeOK'
    <2>1. sent[e] \in Nat /\ copyIn[e] \in CopyState /\ copyIn[e].at = "write"
      BY <1>13 DEF WriteTunnel, TypeOK
    <2>2. copyIn[e].chunk \in Chunk
      BY <1>1, <2>1 DEF Sending, CopyState
    <2>3. Waiting \in CopyState /\ Ended \in CopyState
      BY DEF Waiting, Ended, CopyState
    <2>4. sent' \in [Side -> Nat]
      <3>1. sent' = sent \/ sent' = [sent EXCEPT ![e] = @ + 1]
        BY <1>13, TunnelSteps DEF WriteTunnel
      <3> QED
        <4>1. sent \in [Side -> Nat] /\ sent[e] + 1 \in Nat
          BY <2>1 DEF TypeOK
        <4> QED
          BY <3>1, <4>1
    <2>5. ASSUME NEW x \in Side PROVE sent'[x] <= MaxWrites[x]
      <3> DEFINE s == sent'[x]
                 t == Taken(x)'
                 u == Len(up'[x])
                 w == wrote'[x]
                 m == MaxWrites[x]
      <3>1. s \in Nat /\ m \in Nat
        BY <2>4, Sides
      <3>2. t = s \/ t = s + 1
        BY DEF Taken
      <3>3. u \in Nat /\ w \in Nat
        <4>1. up'[x] \in Seq(Chunk) /\ wrote'[x] \in {0} \cup Chunk
          BY <1>13 DEF WriteTunnel, TypeOK
        <4>2. u \in Nat
          BY <4>1
        <4>3. w \in {0} \cup Chunk
          BY <4>1
        <4> HIDE DEF u, w
        <4> QED
          BY <4>2, <4>3, Chunks
      <3>4. t + u <= w /\ w <= m
        BY <1>1 DEF Sending
      <3> HIDE DEF s, t, u, w, m
      <3>5. s <= m
        BY <3>1, <3>2, <3>3, <3>4
      <3> QED
        BY <3>5 DEF s, m
    <2>6. payload' \in [Side -> Seq(Chunk)] /\ copyIn' \in [Side -> CopyState]
      <3>1. payload[e] \in Seq(Chunk)
        BY DEF TypeOK
      <3>2. Append(payload[e], copyIn[e].chunk) \in Seq(Chunk)
        BY <2>2, <3>1
      <3>3. payload' = payload \/ payload' = [payload EXCEPT ![e] = Append(@, copyIn[e].chunk)]
        BY <1>13 DEF WriteTunnel
      <3>4. payload' \in [Side -> Seq(Chunk)]
        BY <3>2, <3>3 DEF TypeOK
      <3>5. copyIn' \in [Side -> CopyState]
        BY <1>13, <2>3 DEF WriteTunnel, TypeOK
      <3> QED
        BY <3>4, <3>5
    <2>7. UNCHANGED <<got, hungUp, shut, eof, up, down, appVars, closed, handler, copyOut, stopped>> /\ done' \subseteq Side
      BY <1>13, TunnelSteps DEF WriteTunnel, TypeOK
    <2> QED
      BY <2>4, <2>5, <2>6, <2>7 DEF TypeOK
  <1>14. ASSUME NEW e \in Side, ReadTunnel(e) PROVE TypeOK'
    <2>1. CASE /\ Tunnel!Read(e) /\ UNCHANGED done
               /\ copyOut' = [copyOut EXCEPT ![e] =
                      [at |-> "write", chunk |-> payload[Other(e)][Tunnel!Last(got'[e])]]]
      <3>1. /\ UNCHANGED <<sent, hungUp, shut, eof>> /\ got' \in [Side -> Seq(Chunk)]
            /\ payload[Other(e)][Tunnel!Last(got'[e])] \in Chunk
        BY <2>1, TunnelRead
      <3>2. [at |-> "write", chunk |-> payload[Other(e)][Tunnel!Last(got'[e])]] \in CopyState
        BY <3>1 DEF CopyState
      <3> QED
        BY <1>14, <2>1, <3>1, <3>2 DEF ReadTunnel, TypeOK
    <2>2. CASE Tunnel!ReadEof(e) /\ copyOut' = [copyOut EXCEPT ![e] = Ended] /\ done' = done \cup {e}
      <3>1. Ended \in CopyState
        BY DEF Ended, CopyState
      <3> QED
        BY <1>14, <2>2, <3>1, TunnelSteps DEF ReadTunnel, TypeOK
    <2> QED
      BY <1>14, <2>1, <2>2 DEF ReadTunnel
  <1>15. ASSUME NEW e \in Side, WriteLocal(e) PROVE TypeOK'
    <2>1. copyOut[e] \in CopyState /\ copyOut[e].at = "write"
      BY <1>15 DEF WriteLocal, TypeOK
    <2>2. copyOut[e].chunk \in Chunk
      BY <1>1, <2>1 DEF Receiving, CopyState
    <2>3. Reading \in CopyState /\ Ended \in CopyState
      BY DEF Reading, Ended, CopyState
    <2> QED
      <3>1. down[e] \in Seq(Chunk)
        BY DEF TypeOK
      <3>2. Append(down[e], copyOut[e].chunk) \in Seq(Chunk)
        BY <2>2, <3>1
      <3>3. down' = down \/ down' = [down EXCEPT ![e] = Append(@, copyOut[e].chunk)]
        BY <1>15 DEF WriteLocal
      <3>4. down' \in [Side -> Seq(Chunk)]
        BY <3>2, <3>3 DEF TypeOK
      <3>5. copyOut' \in [Side -> CopyState]
        BY <1>15, <2>3 DEF WriteLocal, TypeOK
      <3>6. UNCHANGED <<tunnelVars, payload, up, appVars, closed, handler, copyIn, stopped>>
        BY <1>15 DEF WriteLocal
      <3>7. done' \subseteq Side
        BY <1>15 DEF WriteLocal, TypeOK
      <3> QED
        BY <3>4, <3>5, <3>6, <3>7 DEF TypeOK
  <1>16. ASSUME NEW e \in Side, WriteReturns(e) PROVE TypeOK'
    <2>1. Reading \in CopyState /\ Ended \in CopyState
      BY DEF Reading, Ended, CopyState
    <2>2. copyIn' \in [Side -> CopyState]
      BY <1>16, <2>1 DEF WriteReturns, TypeOK
    <2>3. UNCHANGED <<tunnelVars, payload, up, down, appVars, closed, handler, copyOut, stopped>> /\ done' \subseteq Side
      BY <1>16 DEF WriteReturns, TypeOK
    <2> QED
      BY <2>2, <2>3 DEF TypeOK
  <1> QED
    BY <1>3, <1>4, <1>5, <1>6, <1>7, <1>8, <1>9, <1>10, <1>11, <1>12, <1>13, <1>14, <1>15, <1>16
       DEF Next, Handling, CopyIn, CopyOut
-----------------------------------------------------------------------------
LEMMA InitInv == Init => TypeOK /\ ProxyInv
  <1> SUFFICES ASSUME Init PROVE TypeOK /\ ProxyInv
    OBVIOUS
  <1>1. ASSUME NEW e \in Side
        PROVE  /\ sent[e] = 0 /\ got[e] = <<>> /\ payload[e] = <<>> /\ up[e] = <<>> /\ down[e] = <<>>
               /\ wrote[e] = 0 /\ recv[e] = <<>> /\ handler[e] = "idle" /\ copyIn[e] = Off /\ copyOut[e] = Off
               /\ hungUp = {} /\ Off.at = "off" /\ MaxWrites[e] \in Nat
    BY Sides DEF Init, Tunnel!Init, Off
  <1>2. Len(<<>>) = 0 /\ \A n \in Nat : From(<<>>, n)
    BY DEF From
  <1>3. Off \in CopyState
    BY DEF Off, CopyState
  <1>4. TypeOK
    <2>1. sent \in [Side -> Nat] /\ \A e \in Side : sent[e] <= MaxWrites[e]
      <3>1. \A e \in Side : 0 <= MaxWrites[e]
        BY Sides
      <3> QED
        BY <3>1 DEF Init, Tunnel!Init
    <2> QED
      BY <1>3, <2>1 DEF Init, Tunnel!Init, TypeOK
  <1>5. ASSUME NEW e \in Side PROVE Sending(e) /\ Receiving(e) /\ Closing(e)
    <2>1. Taken(e) = 0 /\ LastGot(e) = 0 /\ Arrived(e) = 0 /\ sent[Other(e)] = 0
      <3>1. sent[Other(e)] = 0
        BY <1>1, Sides
      <3>2. Taken(e) = 0 /\ LastGot(e) = 0
        BY <1>1 DEF Taken, LastGot
      <3>3. Arrived(e) = 0 + 0
        BY <1>1, <1>2 DEF Arrived
      <3> QED
        BY <3>1, <3>2, <3>3
    <2>2. Sending(e)
      BY <1>1, <1>2, <2>1 DEF Sending
    <2>3. Receiving(e)
      BY <1>1, <1>2, <2>1 DEF Receiving
    <2> QED
      BY <1>1, <2>2, <2>3 DEF Closing
  <1> QED
    BY <1>4, <1>5 DEF ProxyInv

LEMMA Inductive == Spec => [](TypeOK /\ ProxyInv)
  <1>1. TypeOK /\ ProxyInv /\ [Next]_vars => (TypeOK /\ ProxyInv)'
    BY NextType, NextSending, NextReceiving, NextClosing DEF ProxyInv
  <1> QED
    BY InitInv, <1>1, PTL DEF Spec

(* Every state of Proxy and of the applications has its type: no copy ever *)
(* writes a chunk that no application wrote.                               *)
THEOREM TypeCorrect == Spec => []TypeOK
  BY Inductive, PTL

(* Whatever closes first, an application has read a prefix of what the     *)
(* other wrote: a.Close comes before b.Close, so that the reads of the     *)
(* virtual connection that skip what its own side gave up are never        *)
(* delivered.                                                              *)
THEOREM NoGapHolds == Spec => []NoGap
  <1>1. TypeOK /\ ProxyInv => NoGap
    <2> SUFFICES ASSUME TypeOK, ProxyInv, NEW e \in Side, e \notin stopped
                 PROVE  recv[e] \o down[e] = [i \in 1..Len(recv[e] \o down[e]) |-> i]
      BY DEF NoGap
    <2> DEFINE r == recv[e]
               d == down[e]
    <2>1. r \in Seq(Chunk) /\ d \in Seq(Chunk) /\ From(r, 0) /\ From(d, Len(r))
      BY DEF TypeOK, ProxyInv, Receiving
    <2> HIDE DEF r, d
    <2>2. r \o d \in Seq(Chunk) /\ Len(r) \in Nat /\ Len(d) \in Nat /\ Len(r \o d) = Len(r) + Len(d)
      BY <2>1
    <2>3. ASSUME NEW i \in 1..Len(r \o d) PROVE (r \o d)[i] = i
      <3>1. CASE i <= Len(r)
        <4>1. (r \o d)[i] = r[i] /\ i \in 1..Len(r) /\ r[i] = 0 + i
          BY <2>1, <2>2, <3>1 DEF From
        <4> QED
          BY <4>1
      <3>2. CASE i > Len(r)
        <4>1. (r \o d)[i] = d[i - Len(r)] /\ i - Len(r) \in 1..Len(d)
          BY <2>1, <2>2, <3>2
        <4>2. d[i - Len(r)] = Len(r) + (i - Len(r))
          BY <2>1, <4>1 DEF From
        <4> QED
          BY <2>2, <4>1, <4>2
      <3> QED
        BY <2>2, <3>1, <3>2
    <2> DEFINE q == r \o d
    <2>4. q \in Seq(Chunk) /\ \A i \in 1..Len(q) : q[i] = i
      BY <2>2, <2>3
    <2> HIDE DEF q
    <2>5. q = [i \in 1..Len(q) |-> i]
      <3>1. q = [i \in 1..Len(q) |-> q[i]]
        BY <2>4
      <3> QED
        BY <2>4, <3>1
    <2> QED
      BY <2>5 DEF q, r, d
  <1> QED
    BY <1>1, Inductive, PTL

=============================================================================
