----------------------------- MODULE CodeWords -----------------------------
(***************************************************************************)
(* The codes that users read to each other: wordlist/wordlist.go and its   *)
(* callers newConn, PrepareTunnel, JoinTunnel and the web client.          *)
(*                                                                         *)
(* A code is the sequence of its parts, which the decoders get from        *)
(* strings.Fields whatever the separators were.  A part is a word, known   *)
(* by its index in the two lists, or a number, known by its digits.        *)
(***************************************************************************)
EXTENDS Integers, Sequences, SequencesExt

CONSTANTS
    Slots,      \* slots the signalling server gives out, of 21 bits at most
    Bytes,      \* bytes a generated pass is made of
    MaxLength   \* bound: length of a generated pass

ASSUME CodeAssumption ==
    Slots \subseteq Nat /\ (\A s \in Slots : s < 2 ^ 21) /\ Bytes \subseteq 0..255 /\ MaxLength \in Nat

-----------------------------------------------------------------------------
(* The word lists: 512 words each, all different within a list.  Twelve    *)
(* words are in both, at <<en, pgp>>.                                      *)
Shared == {<<18, 22>>, <<24, 28>>, <<34, 36>>, <<148, 182>>, <<293, 264>>, <<348, 308>>,
           <<428, 446>>, <<439, 452>>, <<453, 478>>, <<454, 475>>, <<464, 490>>, <<470, 494>>}

enWords(i) ==
    [en |-> i, pgp |-> IF \E p \in Shared : p[1] = i THEN (CHOOSE p \in Shared : p[1] = i)[2] ELSE -1,
     digits |-> <<>>]
pgpWords(i) ==
    [en |-> IF \E p \in Shared : p[2] = i THEN (CHOOSE p \in Shared : p[2] = i)[1] ELSE -1, pgp |-> i,
     digits |-> <<>>]
WordAt(list, i) == IF list = "en" THEN enWords(i) ELSE pgpWords(i)
indexOf(list, part) == part[list]

(* Words are paired: a byte has one for even and one for odd positions.    *)
Word(list, b, i) == WordAt(list, 2 * b + (i % 2))

WordBytesNoParity(list, parts) ==
    IF \A i \in DOMAIN parts : indexOf(list, parts[i]) >= 0
    THEN {[i \in DOMAIN parts |-> indexOf(list, parts[i]) \div 2]} ELSE {}
WordBytesNotHalved(list, parts) ==
    IF \A i \in DOMAIN parts : indexOf(list, parts[i]) >= 0 /\ indexOf(list, parts[i]) % 2 = (i - 1) % 2
    THEN {[i \in DOMAIN parts |-> indexOf(list, parts[i])]} ELSE {}

(* The bytes that words stand for; none if a word is unknown or has the    *)
(* wrong parity for its position.                                          *)
WordBytes(list, parts) ==
    IF \A i \in DOMAIN parts : indexOf(list, parts[i]) >= 0 /\ indexOf(list, parts[i]) % 2 = (i - 1) % 2
    THEN {[i \in DOMAIN parts |-> indexOf(list, parts[i]) \div 2]} ELSE {}

-----------------------------------------------------------------------------
(* Numbers: their digits, from the highest down, as Sprintf writes them    *)
(* with %d and %o, and their value, as Atoi and ParseInt read them.        *)

Digits(base, n) ==
    LET digits[k \in Nat] == IF k < base THEN <<k>> ELSE Append(digits[k \div base], k % base)
    IN  digits[n]

ValueOf(base, digits) ==
    LET value[k \in 0..Len(digits)] == IF k = 0 THEN 0 ELSE value[k - 1] * base + digits[k]
    IN  value[Len(digits)]

Number(base, n) == [en |-> -1, pgp |-> -1, digits |-> Digits(base, n)]

(* %03o                                                                    *)
Octal3(n) == [en |-> -1, pgp |-> -1, digits |-> <<n \div 64, (n \div 8) % 8, n % 8>>]

ParseInt(base, part) ==
    IF part.digits # <<>> /\ \A i \in DOMAIN part.digits : part.digits[i] < base
    THEN {ValueOf(base, part.digits)} ELSE {}

(* binary.PutUvarint and binary.Uvarint: seven bits a byte, low bits       *)
(* first, the eighth bit saying that more follow.  What does not fit in 64 *)
(* bits is refused, and what fits is converted to an int.                  *)
PutUvarint(s) ==
    LET digits == Digits(128, s)
        n == Len(digits)
    IN  [i \in 1..n |-> digits[n + 1 - i] + (IF i < n THEN 128 ELSE 0)]

Uvarint(buf) ==
    LET n == SelectInSeq(buf, LAMBDA b : b < 128)
        value == ValueOf(128, [i \in 1..n |-> buf[n + 1 - i] % 128])
    IN  IF n > 10 \/ (n = 10 /\ buf[n] > 1) THEN [slot |-> 0, n |-> 0]
        ELSE [slot |-> IF n = 10 /\ buf[n] = 1 THEN value - 2 ^ 64 ELSE value, n |-> n]

-----------------------------------------------------------------------------
(* The encodings.  Decoding yields the set of its one result, none if the  *)
(* code is refused.                                                        *)

EncodeVarintRestart(slot, pass) ==
    LET head == PutUvarint(slot)
    IN  [i \in DOMAIN head |-> Word("en", head[i], i - 1)] \o
        [i \in DOMAIN pass |-> Word("en", pass[i], i - 1)]
EncodeVarint(slot, pass) ==
    LET buf == PutUvarint(slot) \o pass IN [i \in DOMAIN buf |-> Word("en", buf[i], i - 1)]

DecodeVarintNoParity(parts) ==
    {[slot |-> Uvarint(buf).slot, pass |-> SubSeq(buf, Uvarint(buf).n + 1, Len(buf))] :
        buf \in {b \in WordBytesNoParity("en", parts) : Uvarint(b).n > 0}}
DecodeVarint(parts) ==
    {[slot |-> Uvarint(buf).slot, pass |-> SubSeq(buf, Uvarint(buf).n + 1, Len(buf))] :
        buf \in {b \in WordBytes("en", parts) : Uvarint(b).n > 0}}

EncodeMagic(list, slot, pass) ==
    <<Number(10, slot)>> \o [i \in DOMAIN pass |-> Word(list, pass[i], i - 1)]

DecodeMagic(list, parts) ==
    IF Len(parts) < 2 THEN {}
    ELSE {[slot |-> s, pass |-> p] : s \in ParseInt(10, parts[1]), p \in WordBytes(list, Tail(parts))}

(* Each byte with a ninth bit for the parity of its position.              *)
EncodeOctal(slot, pass) ==
    <<Number(8, slot)>> \o [i \in DOMAIN pass |-> Octal3(pass[i] + 256 * ((i - 1) % 2))]

DecodeOctal(parts) ==
    IF \/ Len(parts) < 2
       \/ \E i \in 2..Len(parts) : ~\E n \in ParseInt(8, parts[i]) : n < 2 ^ 15 /\ (n \div 256) % 2 = i % 2
    THEN {}
    ELSE {[slot |-> s, pass |-> [i \in 1..Len(parts) - 1 |-> (CHOOSE n \in ParseInt(8, parts[i + 1]) : TRUE) % 256]] :
             s \in ParseInt(8, parts[1])}

Encoding == {"varint", "magic", "pgp", "octal"}

EncodeAs(enc, slot, pass) ==
    IF pass = <<>> THEN <<>>
    ELSE CASE enc = "varint" -> EncodeVarint(slot, pass)
           [] enc = "magic" -> EncodeMagic("en", slot, pass)
           [] enc = "pgp" -> EncodeMagic("pgp", slot, pass)
           [] enc = "octal" -> EncodeOctal(slot, pass)

(* Decode: the first encoding that does not refuse the code.               *)
Decode(parts) ==
    LET tried == <<DecodeVarint(parts), DecodeMagic("en", parts), DecodeMagic("pgp", parts),
                   DecodeOctal(parts)>>
        first == SelectInSeq(tried, LAMBDA d : d # {})
    IN  IF first = 0 THEN {} ELSE tried[first]

-----------------------------------------------------------------------------
(* A host shows a code, a person types it at another client.               *)

VARIABLES
    stage,  \* "new", "shown", "typed", then what the client typed at does
    enc,    \* encoding of the code; this program shows "varint" only, the
            \* other ones are shown by clients it is compatible with
    host,   \* slot and pass of the host
    code,   \* the code shown, then the one typed
    slip,   \* the mistake made, and at which part
    joined  \* what the client that joins goes on with

vars == <<stage, enc, host, code, slip, joined>>

Secret == [slot: Int, pass: Seq(0..255)]
Exact == [kind |-> "none", at |-> 0]

TypeOK ==
    /\ stage \in {"new", "shown", "typed", "join", "refuse", "host"}
    /\ enc \in Encoding /\ host \in Secret
    /\ code \in Seq([en: -1..511, pgp: -1..511, digits: Seq(0..9)])
    /\ slip \in [kind: {"none", "swap", "drop", "repeat"}, at: Nat]
    /\ joined \in SUBSET Secret

Init ==
    /\ stage = "new" /\ code = <<>> /\ slip = Exact /\ joined = {}
    /\ enc \in Encoding
    /\ host \in [slot: Slots, pass: BoundedSeq(Bytes, MaxLength)]

(* printcode(wordlist.Encode(slot, pass)), with the slot the server gave   *)
(* and the random pass.                                                    *)
ShowCode ==
    /\ stage = "new" /\ stage' = "shown"
    /\ code' = EncodeAs(enc, host.slot, host.pass)
    /\ UNCHANGED <<enc, host, slip, joined>>

(* The code is typed as shown, or two parts change places, a part is left  *)
(* out or is typed twice.                                                  *)
TypeCode ==
    /\ stage = "shown" /\ stage' = "typed"
    /\ \/ UNCHANGED <<code, slip>>
       \/ \E i \in 1..Len(code) - 1 :
            /\ slip' = [kind |-> "swap", at |-> i]
            /\ code' = [code EXCEPT ![i] = code[i + 1], ![i + 1] = code[i]]
       \/ \E i \in DOMAIN code : slip' = [kind |-> "drop", at |-> i] /\ code' = RemoveAt(code, i)
       \/ \E i \in DOMAIN code :
            slip' = [kind |-> "repeat", at |-> i] /\ code' = InsertAt(code, i, code[i])
    /\ UNCHANGED <<enc, host, joined>>

(* newConn and PrepareTunnel: no code means a new wormhole.  A nil pass is *)
(* refused; the empty pass of a code that is all slot is not nil.          *)
JoinGo ==
    /\ stage = "typed"
    /\ stage' = IF code = <<>> THEN "host" ELSE IF Decode(code) = {} THEN "refuse" ELSE "join"
    /\ joined' = Decode(code)
    /\ UNCHANGED <<enc, host, code, slip>>

(* The web client goes by the length of the pass.                          *)
JoinWeb ==
    /\ stage = "typed"
    /\ joined' = {s \in Decode(code) : s.pass # <<>>}
    /\ stage' = IF code = <<>> THEN "host" ELSE IF joined' = {} THEN "refuse" ELSE "join"
    /\ UNCHANGED <<enc, host, code, slip>>

Next == ShowCode \/ TypeCode \/ JoinGo \/ JoinWeb

Spec == Init /\ [][Next]_vars

-----------------------------------------------------------------------------
(* A code typed as shown leads to the host's slot with the host's pass,    *)
(* whichever encoding it has and although all decoders are tried in turn.  *)
(* The exception is a PGP code of one word that is an even word of the     *)
(* English list too and is then read as another byte.                      *)
RoundTrip ==
    /\ stage \in {"join", "refuse"} /\ slip = Exact
    /\ enc = "pgp" => Len(host.pass) > 1 \/ pgpWords(2 * host.pass[1]).en % 2 # 0
    => joined = {host}

(* The parity of positions catches slips in the codes that this program    *)
(* shows: after a swap, a repetition or an omission anywhere but at the    *)
(* end, no decoder accepts the code.                                       *)
SlipsRefused ==
    /\ stage \in {"join", "refuse"} /\ enc = "varint"
    /\ slip.kind \in {"swap", "repeat"} \/ (slip.kind = "drop" /\ slip.at <= Len(code))
    => stage = "refuse"
=============================================================================
