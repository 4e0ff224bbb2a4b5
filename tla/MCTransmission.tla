--------------------------- MODULE MCTransmission ---------------------------
(***************************************************************************)
(* The slave alone, with any characters at any time: the character with    *)
(* the address of this slave and another one.                              *)
(***************************************************************************)
EXTENDS Transmission

CONSTANTS addr, other, none

MCChar == {addr, other}
MCAddress(c) == c = addr
MCReply(c) == <<c>>
=============================================================================
