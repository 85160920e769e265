-------------------------- MODULE MCTreasuryPolicy --------------------------
(***************************************************************************)
(* A sentence about the operator's controls, checked against what          *)
(* src/src/StrategicTreasury.sol does: a mode change re-runs the maturity  *)
(* delay.                                                                  *)
(***************************************************************************)
EXTENDS StrategicTreasury

CONSTANTS s1, m1, m2

VARIABLE modeSetAt  \* history: strategy -> when its accounting mode last changed

TwoAssets == {<<s1, WETH, 1, NETTING>>, <<s1, VUX, 1, CLAIM>>}
Flow      == {<<WETH, 1>>}
NoInput   == {}

PolicyInit == Init /\ modeSetAt = [s \in Strategies |-> 0]

PolicyNext ==
  /\ Next
  /\ modeSetAt' = [s \in Strategies |->
       IF admissions'[s].mode # admissions[s].mode THEN now ELSE modeSetAt[s]]

PolicySpec == PolicyInit /\ [][PolicyNext]_<<vars, modeSetAt>>

-----------------------------------------------------------------------------
\* "Immutable while admitted; changing it requires remove + re-admit, which
\* re-runs the maturity delay": nothing is deployed under a mode before a full
\* delay has passed since the strategy got it.  The code restarts the delay of
\* the asset named in the re-admission only.
ModeChangeRerunsDelay ==
  [][\A s \in Strategies, a \in Assets :
       outstandingPrincipal'[s][a] > outstandingPrincipal[s][a]
         => now >= modeSetAt[s] + ADMISSION_DELAY]_<<vars, modeSetAt>>
=============================================================================
