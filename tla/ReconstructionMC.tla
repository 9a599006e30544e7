-------------------------- MODULE ReconstructionMC --------------------------
(* The virtual datasets of the sandbox: those of Tristan's files and those   *)
(* of Timepix's, one kind in a behaviour.                                    *)
EXTENDS VirtualDataset, Timepix

VARIABLE camera

(* Bound of the run: only one count is above one.                            *)
FewEvents == \A m \in Modules, s \in Slices : count[m][s] <= 1 \/ (m = 1 /\ s = 0)

NoTristan == count = [m \in Modules |-> [s \in Slices |-> 0]] /\ first = 0
NoTimepix ==
  /\ numFiles = 1 /\ ~hdf /\ stack = 0
  /\ sliceSize = ForFiles(Min(SliceSizes))

ReconstructionInit ==
  /\ Init /\ TimepixInit
  /\ \/ camera = "Tristan" /\ FewEvents /\ NoTimepix
     \/ camera = "Timepix" /\ NoTristan

ReconstructionNext ==
  \/ camera = "Tristan" /\ Next /\ UNCHANGED <<camera, timepixVars>>
  \/ camera = "Timepix" /\ TimepixNext /\ UNCHANGED <<camera, vars>>

ReconstructionSpec ==
  /\ ReconstructionInit /\ [][ReconstructionNext]_<<camera, vars, timepixVars>>
  /\ camera = "Timepix" => TimepixFairness

TwoByTwo == <<2, 2>>
=============================================================================
