------------------------------- MODULE MCPlant -------------------------------
\* Both lines are on, the first with a top and the second with a grinder at full
\* duty.  The operator may select the direction of a pin of line 2's oven, the
\* output of line 1's grinder, and the counter and the switch of line 1.
EXTENDS Tui

MCCoils     == {IOD + 3, PO + 9}
MCRegisters == {CounterAddress[1], SwitchAddress[1]}
MCEntries   == {5}
MCSettings  == {[f \in Field |-> IF f \in {Switch(1), Switch(2), Top(1), Oven(1), Grinder(2)}
                                 THEN 1 ELSE IF f = Oven(2) THEN 3 ELSE 0]}
MCSaved     == {}
==============================================================================
