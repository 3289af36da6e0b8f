------------------------------ MODULE MCLvgTests ------------------------------
(* LvgTests for TLC: a node that makes two groups and one that makes one.    *)
EXTENDS LvgTests
CONSTANTS n0, n1, b0, b1, b2, b3
MCNodeOf == [b \in {b0, b1, b2, b3} |-> IF b = b0 THEN n0 ELSE n1]
MCId == [n \in {n0, n1} |-> IF n = n0 THEN 0 ELSE 1]
MCOldLvgs == {<<"e2e-lvg-", b0>>, <<"e2e-01-", b1>>}
MCCommand(mode, optional, keep, hv, missing) ==
  [mode |-> mode, skipOptional |-> optional, keepState |-> keep, hv |-> hv,
   missing |-> missing]
MCCommands ==
  {MCCommand("flat", TRUE, FALSE, FALSE, TRUE),
   MCCommand("flat", FALSE, FALSE, FALSE, TRUE),
   MCCommand("tree", FALSE, TRUE, TRUE, FALSE),
   MCCommand("parallel", FALSE, FALSE, TRUE, FALSE)}
MCParallel == {MCCommand("parallel", FALSE, FALSE, TRUE, FALSE)}
==============================================================================
