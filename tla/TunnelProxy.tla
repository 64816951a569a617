---------------------------- MODULE TunnelProxy ----------------------------
(***************************************************************************)
(* Forward, Serve and Proxy of wormhole/tunnel/tunnel.go: a client         *)
(* connects to the listener of Forward, which dials a virtual connection;  *)
(* Serve accepts it and connects to a server; on both sides Proxy copies   *)
(* in both directions.                                                     *)
(*                                                                         *)
(* The virtual connection is VirtualStream, which TunnelSession is shown   *)
(* to implement: every step on it is an action of that specification.      *)
(* The local connections are TCP: a FIFO in each direction, that either    *)
(* application may also close for writing only.                            *)
(***************************************************************************)
EXTENDS Naturals, Sequences

CONSTANTS
    MaxWrites,  \* bound: chunks the application of each side writes
    Window,     \* chunks that a connection takes before a write blocks
    Stoppers    \* sides whose session may stop

Side == {"forward", "serve"}

ASSUME ProxyAssumption == MaxWrites \in [Side -> Nat] /\ Window \in Nat \ {0} /\ Stoppers \subseteq Side

Other(e) == IF e = "forward" THEN "serve" ELSE "forward"

VARIABLES
    sent, got, hungUp, shut, eof, \* the virtual connection
    payload, \* what each write on it carried
    up,      \* from the application of a side to its proxy
    down,    \* from the proxy to the application
    fin,     \* sides whose application has ended its direction
    gone,    \* sides whose application has closed its connection
    closed,  \* sides whose proxy has closed the local connection
    wrote,   \* number of chunks the application has written
    recv,    \* what it has read
    ended,   \* sides whose application has read EOF
    handler, \* the goroutine that Forward or Serve started for this client
    copyIn, copyOut, \* io.Copy(b, a) and io.Copy(a, b); a chunk is one being
                     \* written, 0 none
    done,    \* sides whose channel done is closed
    stopped  \* sides whose session has stopped

Tunnel == INSTANCE VirtualStream WITH End <- Side, Mate <- Other, Empty <- {}

tunnelVars == <<sent, got, hungUp, shut, eof>>
appVars == <<fin, gone, wrote, recv, ended>>
vars == <<tunnelVars, payload, up, down, appVars, closed, handler, copyIn, copyOut, done, stopped>>

Chunk == UNION {1..MaxWrites[e] : e \in Side}
CopyState == [at: {"off", "read", "write", "wait", "end"}, chunk: {0} \cup Chunk]
Off == [at |-> "off", chunk |-> 0]
Reading == [at |-> "read", chunk |-> 0]
Waiting == [at |-> "wait", chunk |-> 0]
Ended == [at |-> "end", chunk |-> 0]

TypeOK ==
    /\ sent \in [Side -> Nat] /\ (\A e \in Side : sent[e] <= MaxWrites[e])
    /\ got \in [Side -> Seq(Chunk)]
    /\ hungUp \subseteq Side /\ shut \subseteq Side /\ eof \subseteq Side
    /\ payload \in [Side -> Seq(Chunk)]
    /\ up \in [Side -> Seq(Chunk)] /\ down \in [Side -> Seq(Chunk)]
    /\ fin \subseteq Side /\ gone \subseteq fin /\ closed \subseteq Side
    /\ wrote \in [Side -> {0} \cup Chunk] /\ recv \in [Side -> Seq(Chunk)]
    /\ ended \subseteq Side
    /\ handler \in [Side -> {"idle", "dial", "proxy", "closeB", "end"}]
    /\ copyIn \in [Side -> CopyState] /\ copyOut \in [Side -> CopyState]
    /\ done \subseteq Side /\ stopped \subseteq Side

Init ==
    /\ Tunnel!Init
    /\ payload = [e \in Side |-> <<>>]
    /\ up = [e \in Side |-> <<>>] /\ down = [e \in Side |-> <<>>]
    /\ fin = {} /\ gone = {} /\ closed = {} /\ ended = {}
    /\ wrote = [e \in Side |-> 0] /\ recv = [e \in Side |-> <<>>]
    /\ handler = [e \in Side |-> "idle"]
    /\ copyIn = [e \in Side |-> Off] /\ copyOut = [e \in Side |-> Off]
    /\ done = {} /\ stopped = {}

-----------------------------------------------------------------------------
(* The applications: a client at "forward", a server at "serve", which has *)
(* a connection once its side has.                                         *)

Connected(e) == handler[e] # "idle" /\ (e = "serve" => copyIn[e] # Off)

AppWrite(e) ==
    /\ Connected(e) /\ e \notin fin /\ wrote[e] < MaxWrites[e] /\ Len(up[e]) < Window
    /\ wrote' = [wrote EXCEPT ![e] = @ + 1]
    /\ up' = IF e \in closed THEN up ELSE [up EXCEPT ![e] = Append(@, wrote[e] + 1)]
    /\ UNCHANGED <<tunnelVars, payload, down, fin, gone, recv, ended, closed, handler, copyIn,
                   copyOut, done, stopped>>

AppRead(e) ==
    /\ Connected(e) /\ e \notin gone \cup ended
    /\ \/ /\ down[e] # <<>>
          /\ recv' = [recv EXCEPT ![e] = Append(@, Head(down[e]))]
          /\ down' = [down EXCEPT ![e] = Tail(@)] /\ UNCHANGED ended
       \/ /\ down[e] = <<>> /\ e \in closed
          /\ ended' = ended \cup {e} /\ UNCHANGED <<recv, down>>
    /\ UNCHANGED <<tunnelVars, payload, up, fin, gone, wrote, closed, handler, copyIn, copyOut,
                   done, stopped>>

(* Close, or only shutdown of the writing direction.                       *)
AppClose(e) ==
    /\ Connected(e) /\ e \notin gone
    /\ fin' = fin \cup {e}
    /\ gone' \in {gone, gone \cup {e}} /\ <<fin', gone'>> # <<fin, gone>>
    /\ UNCHANGED <<tunnelVars, payload, up, down, wrote, recv, ended, closed, handler, copyIn,
                   copyOut, done, stopped>>

-----------------------------------------------------------------------------
(* The goroutine per connection of Forward and of Serve.                   *)

(* ln.Accept of Forward returns a client.                                  *)
AcceptClient ==
    /\ handler["forward"] = "idle" /\ "forward" \notin stopped
    /\ handler' = [handler EXCEPT !["forward"] = "dial"]
    /\ UNCHANGED <<tunnelVars, payload, up, down, appVars, closed, copyIn, copyOut, done, stopped>>

(* Serve has the other end once MsgOpen has arrived, which may be before   *)
(* Dial returns.                                                           *)
Opened == copyIn["forward"] # Off \/ handler["serve"] # "idle"

(* t.Dial succeeds, and Proxy starts its copies; or it fails and the       *)
(* client's connection is closed.                                          *)
DialTunnel ==
    /\ handler["forward"] = "dial"
    /\ \/ /\ "forward" \notin shut \/ Opened
          /\ handler' = [handler EXCEPT !["forward"] = "proxy"]
          /\ copyIn' = [copyIn EXCEPT !["forward"] = Reading]
          /\ copyOut' = [copyOut EXCEPT !["forward"] = Reading]
          /\ UNCHANGED closed
       \/ /\ "forward" \in stopped
          /\ handler' = [handler EXCEPT !["forward"] = "end"]
          /\ closed' = closed \cup {"forward"} /\ UNCHANGED <<copyIn, copyOut>>
    /\ UNCHANGED <<tunnelVars, payload, up, down, appVars, done, stopped>>

(* ln.Accept of Serve returns the other end.                               *)
AcceptTunnel ==
    /\ handler["serve"] = "idle" /\ "serve" \notin stopped
    /\ handler["forward"] = "dial" \/ copyIn["forward"] # Off
    /\ handler' = [handler EXCEPT !["serve"] = "dial"]
    /\ UNCHANGED <<tunnelVars, payload, up, down, appVars, closed, copyIn, copyOut, done, stopped>>

(* Close of the virtual connection; it does nothing on one that is shut.   *)
CloseTunnel(e) ==
    /\ hungUp' = hungUp \cup {e} /\ shut' = shut \cup {e}
    /\ Tunnel!HangUp

(* net.Dial to the server succeeds, or fails and tc is closed.             *)
DialServerOneWay ==
    /\ handler["serve"] = "dial"
    /\ handler' = [handler EXCEPT !["serve"] = "proxy"]
    /\ copyIn' = [copyIn EXCEPT !["serve"] = Reading]
    /\ UNCHANGED <<tunnelVars, copyOut, payload, up, down, appVars, closed, done, stopped>>
DialServer ==
    /\ handler["serve"] = "dial"
    /\ \/ /\ handler' = [handler EXCEPT !["serve"] = "proxy"]
          /\ copyIn' = [copyIn EXCEPT !["serve"] = Reading]
          /\ copyOut' = [copyOut EXCEPT !["serve"] = Reading]
          /\ UNCHANGED tunnelVars
       \/ /\ handler' = [handler EXCEPT !["serve"] = "end"]
          /\ CloseTunnel("serve") /\ UNCHANGED <<copyIn, copyOut>>
    /\ UNCHANGED <<payload, up, down, appVars, closed, done, stopped>>

(* The end of Proxy: <-done, a.Close(), b.Close().                         *)
CloseLocal(e) ==
    /\ closed' = closed \cup {e} /\ up' = [up EXCEPT ![e] = <<>>]
    /\ UNCHANGED tunnelVars
CloseOther(e) == CloseTunnel(e) /\ UNCHANGED <<closed, up>>

ProxyEnds(e, from, to) ==
    /\ handler[e] = from /\ e \in done
    /\ handler' = [handler EXCEPT ![e] = to]
    /\ UNCHANGED <<payload, down, appVars, copyIn, copyOut, done, stopped>>

CloseConnsSwapped(e) ==
    \/ ProxyEnds(e, "proxy", "closeB") /\ CloseOther(e)
    \/ ProxyEnds(e, "closeB", "end") /\ CloseLocal(e)
CloseConnsForgetful(e) == ProxyEnds(e, "proxy", "end") /\ CloseLocal(e)
CloseConns(e) ==
    \/ ProxyEnds(e, "proxy", "closeB") /\ CloseLocal(e)
    \/ ProxyEnds(e, "closeB", "end") /\ CloseOther(e)

-----------------------------------------------------------------------------
(* The copies of Proxy.  A copy ends at EOF or an error and closes done.   *)

(* io.Copy(b, a) reads from the local connection ...                       *)
ReadLocal(e) ==
    /\ copyIn[e].at = "read"
    /\ \/ /\ e \notin closed /\ up[e] # <<>>
          /\ copyIn' = [copyIn EXCEPT ![e] = [at |-> "write", chunk |-> Head(up[e])]]
          /\ up' = [up EXCEPT ![e] = Tail(@)] /\ UNCHANGED done
       \/ /\ e \in closed \/ (up[e] = <<>> /\ e \in fin)
          /\ copyIn' = [copyIn EXCEPT ![e] = Ended]
          /\ done' = done \cup {e} /\ UNCHANGED up
    /\ UNCHANGED <<tunnelVars, payload, down, appVars, closed, handler, copyOut, stopped>>

(* ... and writes to the tunnel: Write fails on an end that is shut, and   *)
(* otherwise queues the chunk ...                                          *)
WriteTunnelAgain(e) ==
    /\ copyIn[e].at = "write"
    /\ Tunnel!Write(e)
    /\ payload' = [payload EXCEPT ![e] = Append(@, copyIn[e].chunk)]
    /\ UNCHANGED <<copyIn, done, up, down, appVars, closed, handler, copyOut, stopped>>
WriteTunnel(e) ==
    /\ copyIn[e].at = "write"
    /\ \/ /\ Tunnel!Write(e)
          /\ payload' = [payload EXCEPT ![e] = Append(@, copyIn[e].chunk)]
          /\ copyIn' = [copyIn EXCEPT ![e] = Waiting] /\ UNCHANGED done
       \/ /\ e \in shut
          /\ copyIn' = [copyIn EXCEPT ![e] = Ended]
          /\ done' = done \cup {e} /\ UNCHANGED <<tunnelVars, payload>>
    /\ UNCHANGED <<up, down, appVars, closed, handler, copyOut, stopped>>

(* ... and waits while the buffers of the tunnel are full, whether or not  *)
(* its end is shut by now; only that the session stops ends this wait.     *)
Room(e) == sent[e] <= Tunnel!Last(got[Other(e)]) + Window \/ Other(e) \in shut
WriteReturns(e) ==
    /\ copyIn[e].at = "wait"
    /\ \/ Room(e) /\ copyIn' = [copyIn EXCEPT ![e] = Reading] /\ UNCHANGED done
       \/ /\ e \in stopped
          /\ copyIn' = [copyIn EXCEPT ![e] = Ended] /\ done' = done \cup {e}
    /\ UNCHANGED <<tunnelVars, payload, up, down, appVars, closed, handler, copyOut, stopped>>

(* io.Copy(a, b) reads from the tunnel ...                                 *)
ReadTunnel(e) ==
    /\ copyOut[e].at = "read"
    /\ \/ /\ Tunnel!Read(e)
          /\ copyOut' = [copyOut EXCEPT ![e] =
                 [at |-> "write", chunk |-> payload[Other(e)][Tunnel!Last(got'[e])]]]
          /\ UNCHANGED done
       \/ /\ Tunnel!ReadEof(e)
          /\ copyOut' = [copyOut EXCEPT ![e] = Ended]
          /\ done' = done \cup {e}
    /\ UNCHANGED <<payload, up, down, appVars, closed, handler, copyIn, stopped>>

(* ... and writes to the local connection.                                 *)
WriteLocal(e) ==
    /\ copyOut[e].at = "write"
    /\ \/ /\ e \notin closed \cup gone /\ Len(down[e]) < Window
          /\ down' = [down EXCEPT ![e] = Append(@, copyOut[e].chunk)]
          /\ copyOut' = [copyOut EXCEPT ![e] = Reading] /\ UNCHANGED done
       \/ /\ e \in closed \cup gone
          /\ copyOut' = [copyOut EXCEPT ![e] = Ended]
          /\ done' = done \cup {e} /\ UNCHANGED down
    /\ UNCHANGED <<tunnelVars, payload, up, appVars, closed, handler, copyIn, stopped>>

-----------------------------------------------------------------------------
(* The session below.                                                      *)

(* remoteClose: the mate's MsgClose has arrived.                           *)
RemoteClose(e) ==
    /\ Other(e) \in hungUp /\ e \notin shut /\ Opened
    /\ shut' = shut \cup {e} /\ hungUp' = hungUp
    /\ Tunnel!HangUp
    /\ UNCHANGED <<payload, up, down, appVars, closed, handler, copyIn, copyOut, done, stopped>>

(* The session of a side stops, and closes what it has open.               *)
StopSession(e) ==
    /\ e \in Stoppers \ stopped
    /\ stopped' = stopped \cup {e}
    /\ CloseTunnel(e)
    /\ UNCHANGED <<payload, up, down, appVars, closed, handler, copyIn, copyOut, done>>

CopyIn(e) == ReadLocal(e) \/ WriteTunnel(e) \/ WriteReturns(e)
CopyOut(e) == ReadTunnel(e) \/ WriteLocal(e)
Handling == AcceptClient \/ DialTunnel \/ AcceptTunnel \/ DialServer

Next ==
    \/ Handling
    \/ \E e \in Side : \/ CopyIn(e) \/ CopyOut(e) \/ CloseConns(e) \/ RemoteClose(e)
                       \/ AppWrite(e) \/ AppRead(e) \/ AppClose(e) \/ StopSession(e)

Spec == Init /\ [][Next]_vars
=============================================================================
