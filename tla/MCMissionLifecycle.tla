--------------------------- MODULE MCMissionLifecycle ---------------------------
(***************************************************************************)
(* MissionLifecycle for TLC. The slots and containers are picked with      *)
(* CHOOSE, so no symmetry is declared.                                     *)
(***************************************************************************)
EXTENDS MissionLifecycle

CONSTANTS m1, m2, o1, o2, l1, l2, c1, c2

\* The instances of the runs.
OneMission  == {m1}
TwoMissions == {m1, m2}
OneObj      == {o1}
TwoObjs     == {o1, o2}
OneLoop     == {l1}
TwoLoops    == {l1, l2}
OneCont     == {c1}
TwoConts    == {c1, c2}
=============================================================================
