------------------------ MODULE HandshakeProperties ------------------------
(* What makes Handshake correct. *)
EXTENDS Handshake

(* Authentication: a side takes the other's description, and so connects,  *)
(* only if both derived the same key; and a side of package wormhole whose *)
(* handshake succeeded has a peer that has its description and set its own *)
(* (readEncJSON and open of webwormhole.go, and the order of the steps).   *)
Authenticated ==
    /\ \A r \in Role : r \in remote => samePass
    /\ (\E r \in Role : result[r] = "ok" /\ fn[r] \notin WebFns) => local = Role /\ remote = Role

(* Nothing overtakes: what a side reads is what it expects at that step,   *)
(* though callbacks send candidates concurrently with offer and answer,    *)
(* and handleRemoteCandidates finds nothing but candidates.  A page meets  *)
(* no message in the states that wait for its own offer or its answer      *)
(* except a candidate in the latter.                                       *)
NeverConfused ==
    \A r \in Role :
        /\ result[r] # "confused"
        /\ watch[r] = "run" => \A i \in 1..Len(in[r]) : in[r][i].type = "cand"
        /\ \A i \in 1..Len(parked[r]) : parked[r][i].type = "cand"

(* Every candidate of a side whose peer is connected and has not failed is *)
(* on its way, waits for the answer that the page is making (the await in  *)
(* stateWaitForLocalAnswer), or has been added: none is dropped because it *)
(* came early, or because another came.                                    *)
Holds(q, n) == \E i \in 1..Len(q) : q[i].type = "cand" /\ q[i].num = n
NoCandidateLost ==
    \A r \in Role :
        (/\ samePass /\ ctx[Peer(r)] = "live"
         /\ \A q \in Role : ws[q] = "open" /\ result[q] \in {"none", "ok"})
            => \A n \in 1..cands[Peer(r)] :
                   Holds(in[r], n) \/ Holds(parked[r], n) \/ n \in added[r]

-----------------------------------------------------------------------------
(* The Go scheduler is weakly fair to every goroutine, the caller takes    *)
(* the slot, and the timer of the select fires.  Candidates, connectivity, *)
(* cancellation and exits are up to the environment.                       *)
FairSpec ==
    Spec /\ \A r \in Role : WF_vars(Main(r)) /\ WF_vars(Watcher(r)) /\ WF_vars(Canceller(r))
                             /\ WF_vars(WebSteps(r))

(* A side that waits for a message of a peer that did not get in, that was *)
(* cancelled, which the relay does not tell it about, or that has failed   *)
(* and left its WebSocket open: New and Join return most errors without    *)
(* closing it, the page rejects done without closing it, and a promise     *)
(* that is rejected does not even reject done.                             *)
SilentPeer(r) ==
    \/ ws[r] \in {"none", "refused"} \/ Cancelled(r)
    \/ ws[r] = "open" /\ result[r] \notin {"none", "ok"}
    \/ ws[r] = "open" /\ fn[r] \in WebFns /\ at[r] = FailedState

(* A page also waits for ever for a peer of which it is told that it has   *)
(* gone, and after a promise that was rejected.                            *)
Stranded(r) ==
    IF fn[r] \in WebFns
    THEN at[r] = FailedState \/ ws[r] = "peerHungUp" \/ SilentPeer(Peer(r))
    ELSE Step(r) # "select" /\ ~Cancelled(r) /\ SilentPeer(Peer(r))

(* Every handshake ends, by success, bad key, an error, time-out or        *)
(* cancellation: a side that has dialled and never returns is stranded for *)
(* ever from some time on.                                                 *)
HandshakeEnds ==
    \A r \in Role : <>[](at[r] = 1 \/ result[r] # "none" \/ Stranded(r))
=============================================================================
