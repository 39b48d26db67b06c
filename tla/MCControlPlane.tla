---------------------------- MODULE MCControlPlane ----------------------------
(***************************************************************************)
(* Configurations for checking ControlPlane, and what the documents say    *)
(* where the code does otherwise.                                          *)
(***************************************************************************)
EXTENDS ControlPlane, TLC

Config(stop, size, rest, text) ==
  [stop |-> stop, size |-> size, rest |-> rest, text |-> text]

Loose == Config(3, 2, 0, 0)
\* One is the first in another text, one is tighter, one is tighter but changes
\* more than risk.
FourConfigs ==
  {Loose, Config(3, 2, 0, 1), Config(1, 2, 0, 0), Config(2, 1, 1, 0)}
OneEdit == {Config(1, 2, 0, 0)}
NoEdits == {}
TwoFirms == {2, 4}

WorkerSymmetry == Permutations(Workers)

\* SPEC.md:216 (c): during an evaluation a configuration that becomes active
\* only reduces the risk of the one that was active.
RowsOnlyReduce ==
  [][InEvaluation /\ active # NoStrategy => Reduces(active, active')]_vars
==============================================================================
