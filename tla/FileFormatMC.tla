---------------------------- MODULE FileFormatMC ----------------------------
(***************************************************************************)
(* An instance of FileFormat for TLC: digits to the base of three, and all *)
(* vectors of up to two bytes from a few.                                  *)
(***************************************************************************)
EXTENDS FileFormat, TLC

(* Two digits that differ, one digit only, none.                           *)
SomeBytes == {0, 2, 5}
MCVector ==
    {<<>>} \cup {<<b>> : b \in SomeBytes} \cup {<<b, c>> : b \in SomeBytes, c \in SomeBytes}
=============================================================================
