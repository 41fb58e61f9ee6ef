-------------------------------- MODULE MCWebUI --------------------------------
EXTENDS WebUI, TLC

CONSTANTS f1, f2, v1, v2, t1, t2

MCTabs == {t1, t2}
MCFirstFiles == [f \in Files |-> v1]
Symmetry == Permutations(MCTabs)
=============================================================================
