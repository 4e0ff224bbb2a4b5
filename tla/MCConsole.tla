------------------------------ MODULE MCConsole ------------------------------
\* A command, one with a direction that is none and that does not fit, and the
\* name alone.
EXTENDS Console

Command(a, b, c, d) == <<Ch("name"), Num(a), Num(b), Ch("space"), Num(c), Num(d)>>

MCLines == {Command(1, 128, 0, 0), Command(1, 0, 9, 0) \o <<Num(2), Num(7)>>, <<Ch("name")>>}
==============================================================================
