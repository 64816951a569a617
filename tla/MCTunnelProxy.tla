--------------------------- MODULE MCTunnelProxy ---------------------------
(* Instances of TunnelProxy for TLC. *)
EXTENDS ProxyProperties

(* The client writes two chunks, the server answers with one.              *)
Exchange == [e \in Side |-> IF e = "forward" THEN 2 ELSE 1]
=============================================================================
