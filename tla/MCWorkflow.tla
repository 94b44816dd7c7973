----------------------------- MODULE MCWorkflow -----------------------------
(* Small instances of Workflow for TLC.                                    *)
EXTENDS Workflow, TLC

(* Interchangeable identities.                                             *)
WorkerSymmetry == Permutations(Workers)
=============================================================================
