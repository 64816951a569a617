----------------------------- MODULE MCTransfer -----------------------------
(* Instances of Transfer for TLC. *)
EXTENDS TransferProperties

F(n) == [type |-> "file", size |-> n, long |-> FALSE]
T(l) == [type |-> "text", size |-> 0, long |-> l]
S(s, r, b, n, m) ==
    [s |-> s, r |-> r, batch |-> b, conns |-> n, told |-> [s |-> 1, r |-> m]]

(* Every sender with every receiver over one connection, and pages that    *)
(* connect again.                                                          *)
OneConnection ==
    {S(s, "ww", <<F(3), F(0)>>, 1, 1) : s \in SenderKind}
    \cup {S(s, "page", <<F(3)>>, 1, 1) : s \in SenderKind} \cup {S("ww", "pageSW", <<F(1), F(1)>>, 1, 1)}
    \cup {S("page", r, b, 1, 1) : r \in ReceiverKind, b \in {<<T(FALSE), F(2)>>, <<F(0), F(1)>>, <<T(TRUE)>>}}
Reconnection ==
    {S("page", "page", <<F(1), F(1)>>, 2, 2)}
AllScenarios == OneConnection \cup Reconnection
QueueScenario == {S("page", "page", <<F(1), F(1)>>, 2, 1)}
=============================================================================
