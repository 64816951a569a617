----------------------------- MODULE MCHandshake -----------------------------
(* Instances of Handshake for TLC. *)
EXTENDS HandshakeProperties

AllPairs == HostFns \X JoinFns
(* Two candidates in all, of one side or of both; one if the passwords    *)
(* differ, as only the host gets that far.  LocalCandidate, which          *)
(* this cuts, is under no fairness.                                        *)
FewCandidates == cands["host"] + cands["joiner"] <= (IF samePass THEN 2 ELSE 1)

=============================================================================
