---------------------------- MODULE KdmMasterMC ----------------------------
(* Instances of KdmMaster for TLC. *)
EXTENDS KdmMaster, TLC

\* Process ids are only compared.
PidSymmetry == Permutations(Pid)
=============================================================================
