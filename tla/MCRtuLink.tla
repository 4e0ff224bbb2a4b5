----------------------------- MODULE MCRtuLink -----------------------------
(***************************************************************************)
(* Requests of one and three characters, replies of two.                   *)
(***************************************************************************)
EXTENDS RtuLink

CONSTANTS crackle, none

FrameChar == [id : 0 .. 1, index : 0 .. 2, kind : {"mine", "other", "reply"}]

MCChar == FrameChar \cup {crackle}

\* The first character of a frame is the address; a reply repeats it.
MCAddress(c) == c # crackle /\ c.index = 0 /\ c.kind # "other"

MCSent(r, i) == [id |-> r.id, index |-> i, kind |-> IF r.mine THEN "mine" ELSE "other"]

MCReply(c) == IF c = crackle THEN <<crackle>>
              ELSE [i \in 1 .. 2 |-> [id |-> c.id, index |-> i - 1, kind |-> "reply"]]

MCNoise == {crackle}
============================================================================
