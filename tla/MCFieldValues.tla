---------------------------- MODULE MCFieldValues ----------------------------
(* Integers of 2 and 3 bits, decimals of up to 3 digits, short strings, and  *)
(* arrays of up to two of them.                                              *)
EXTENDS FieldValues

MCBounds    == {-1, 0, 1, None}
MCNumbers   == -3..3
MCDigits    == {0, 1, 9, 10, 120}
MCExponents == -2..1
MCStrings   == [length : 0..2, matches : BOOLEAN]
=============================================================================
