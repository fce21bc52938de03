------------------------------ MODULE MCSyncer ------------------------------
(***************************************************************************)
(* Syncer for TLC: the histories of configs the runs choose from.          *)
(***************************************************************************)
EXTENDS Syncer

ConfigRounds == 0..(MaxRound + ConfigRoundShift)

Cfg(numChains, ordering) == [numChains |-> numChains, ordering |-> ordering]

\* the same config in every round
GovSame == [r \in ConfigRounds |-> Cfg(2, 1)]

\* K or PhiRatio changes with round 1
GovOrderingChanges == [r \in ConfigRounds |-> Cfg(2, IF r = 0 THEN 1 ELSE 2)]

\* a second chain is added with round 1
GovChainAdded == [r \in ConfigRounds |-> Cfg(IF r = 0 THEN 1 ELSE 2, 1)]

AnyChange     == {GovSame, GovOrderingChanges, GovChainAdded}
NoChange      == {GovSame}

=============================================================================
