-------------------------- MODULE ProxyProperties --------------------------
(* What makes TunnelProxy correct. *)
EXTENDS TunnelProxy

(* What an application reads is what the other one wrote, in order and     *)
(* without a gap, also when it ends early.  The virtual connection may     *)
(* skip a chunk once its own side has closed it, but by then Proxy has     *)
(* closed the local connection (the order of a.Close and b.Close).  A      *)
(* session that stops gives no such order.                                 *)
NoGap ==
    \A e \in Side : e \in stopped \/ recv[e] \o down[e] = [i \in 1..Len(recv[e] \o down[e]) |-> i]

-----------------------------------------------------------------------------
(* Goroutines run, and applications keep reading; that a close reaches the *)
(* mate and that calls return is what CloseReachesMate and CallsReturn     *)
(* say of TunnelSession.  What Close sends waits, like a write, while the  *)
(* buffers are full: nothing makes it return or arrive until there is room.*)
Fairness ==
    /\ WF_vars(Handling)
    /\ \A e \in Side : /\ WF_vars(CopyIn(e)) /\ WF_vars(CopyOut(e)) /\ WF_vars(AppRead(e))
                      /\ WF_vars(CloseConns(e) /\ (handler[e] = "proxy" \/ Room(e) \/ e \in stopped))
                      /\ WF_vars(RemoteClose(e) /\ (Room(Other(e)) \/ Other(e) \in stopped))
FairSpec == Spec /\ Fairness

(* Nothing is left behind: when either application has ended its direction *)
(* both goroutines return with all copies ended, and an application that   *)
(* is still there reads EOF.  Half-closing is enough: Proxy does not wait  *)
(* for the other direction.                                                *)
TearsDown ==
    []<>(fin # {} =>
            \A x \in Side : \/ handler[x] = "idle"
                            \/ /\ handler[x] = "end"
                               /\ copyIn[x].at \in {"off", "end"} /\ copyOut[x].at \in {"off", "end"}
                               /\ Connected(x) => x \in gone \cup ended)

(* While nobody ends and no session stops, all that is written arrives.    *)
Delivered ==
    []<>(\/ fin # {} \/ hungUp # {}
         \/ \A e \in Side : Len(recv[Other(e)]) = wrote[e])
=============================================================================
