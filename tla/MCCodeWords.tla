---------------------------- MODULE MCCodeWords ----------------------------
(* An instance of CodeWords for TLC. *)
EXTENDS CodeWords

(* Slots whose varints have one, two and three bytes, at the limits.       *)
SomeSlots == {0, 1, 127, 128, 300, 16384}

(* The limits, and bytes whose PGP word is also English: 11 alone (even in *)
(* both lists), 132 mural (odd in the English one), 237 unify (even in it).*)
SomeBytes == {0, 11, 132, 237, 255}
=============================================================================
