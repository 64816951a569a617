---------------------------- MODULE VirtualStream ----------------------------
(***************************************************************************)
(* What the two ends of a virtual connection promise the goroutines that   *)
(* use them, without sessions, goroutines, channels or records: what is    *)
(* read at an end is what was written at its mate, in order, nothing twice *)
(* and nothing made up; nothing is skipped before its own side hangs up;   *)
(* an end is shut only after one of the two hung up, and reports EOF only  *)
(* when it is shut or at an empty write.                                   *)
(***************************************************************************)
EXTENDS Naturals, Sequences

CONSTANTS End, Mate(_),
          Empty         \* the writes that carry no byte

VARIABLES
    sent,   \* number of writes begun at an end; the n-th write writes n
    got,    \* what reads at an end have returned
    hungUp, \* ends whose side closed, refused or tore down the connection
    shut,   \* ends that are closed locally
    eof     \* ends whose reads report EOF

vars == <<sent, got, hungUp, shut, eof>>

Last(q) == IF q = <<>> THEN 0 ELSE q[Len(q)]

Init ==
    /\ sent = [e \in End |-> 0] /\ got = [e \in End |-> <<>>]
    /\ hungUp = {} /\ shut = {} /\ eof = {}

Write(e) ==
    /\ e \notin shut
    /\ sent' = [sent EXCEPT ![e] = @ + 1]
    /\ UNCHANGED <<got, hungUp, shut, eof>>

Read(e) ==
    /\ e \notin eof
    /\ \E n \in (Last(got[e]) + 1 .. sent[Mate(e)]) \ Empty :
          /\ n = Last(got[e]) + 1 \/ e \in hungUp
          /\ got' = [got EXCEPT ![e] = Append(@, n)]
    /\ UNCHANGED <<sent, hungUp, shut, eof>>

(* Some ends hang up; at most one end learns of it in the same step.       *)
HangUp ==
    /\ hungUp' \in SUBSET End /\ hungUp \subseteq hungUp'
    /\ \/ shut' = shut
       \/ \E e \in End : shut' = shut \cup {e} /\ {e, Mate(e)} \cap hungUp' # {}
    /\ UNCHANGED <<sent, got, eof>>

(* An empty write reads as EOF, and so does an end that is shut.           *)
ReadEof(e) ==
    /\ \/ e \in shut
       \/ Last(got[e]) + 1 \in Empty \cap (1..sent[Mate(e)])
    /\ eof' = eof \cup {e}
    /\ UNCHANGED <<sent, got, hungUp, shut>>

Next == HangUp \/ \E e \in End : Write(e) \/ Read(e) \/ ReadEof(e)

Spec == Init /\ [][Next]_vars
==============================================================================
