-------------------------- MODULE SignalProperties --------------------------
(* What makes SignalServer correct. *)
EXTENDS SignalServer

Joiners == Client \ Hosts
Waiting(h) == rz[h] \in {"hostInit", "wait", "ping"}
Taken(h) == \E j \in Joiners : sc[j] = h

(* Connections are paired one to one, a host with a joiner of its slot:    *)
(* what both goroutines of both handlers do with slots.m, the channel and  *)
(* rconn never lets a third party in.                                      *)
PairingSound ==
    \A h, j \in Client : rconn[h] = j =>
        /\ key[h] = key[j] /\ (h \in Hosts <=> j \notin Hosts)
        /\ rconn[j] \in {None, h}
        /\ \A c \in Client \ {h} : rconn[c] # j

(* What a client receives are the first messages of its peer, in order and *)
(* without a gap, across the unsynchronised hand-over of rconn.            *)
RelayInOrder ==
    \A h \in Client : \A i \in 1..Len(got[h]) :
        got[h][i].n = i /\ got[h][i].from = got[h][1].from

(* A slot number is listed only while the host that booked it waits and    *)
(* nobody has taken it: a joiner that finds a slot finds its host there.   *)
ListedHostWaits ==
    \A k \in Slot : slots[k] # None =>
        key[slots[k]] = k /\ Waiting(slots[k]) /\ ~Taken(slots[k])

(* A joiner is told that nobody is on the slot only if no host that is     *)
(* still connected waits on it, other than for a joiner already under way. *)
NoSuchSlotIsTrue ==
    [][\A j \in Joiners : rz[j] = "find" /\ ws'[j] = "noSuchSlot" =>
          \A h \in Hosts :
              key[h] = key[j] /\ Waiting(h) /\ ws[h] = "open" /\ ~Done(h) =>
                  \E c \in Joiners : sc[c] = h /\ rz[c] \in {"joinInit", "recv"}]_vars

-----------------------------------------------------------------------------
(* The Go scheduler runs every goroutine that can run.                     *)
FairSpec == Spec /\ \A h \in Client : WF_vars(Rendezvous(h)) /\ WF_vars(ReadLoop(h))

(* slotTimeout bounds how long a connection holds its slot: afterwards its *)
(* handler returns, its rendezvous goroutine ends and its slot number is   *)
(* free, unless it is a joiner that timed out while its host was not ready *)
(* and now offers its connection on a channel nobody receives from.        *)
Over(h) == /\ loop[h] = "exit" /\ \A k \in Slot : slots[k] # h
           /\ \/ rz[h] = "done"
              \/ rz[h] = "give" /\ rconn[h] = None
TimeoutReleases == []<>(\A h \in expired : Over(h))
=============================================================================
