--------------------------- MODULE MCRobotControl ---------------------------
\* Turning on the spot, fast and slowly, either way.
EXTENDS RobotControl

MCTilts == {<<9, -5>>, <<-2, 9>>}
=============================================================================
