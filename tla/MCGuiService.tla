---------------------------- MODULE MCGuiService ----------------------------
(* Symmetry of the invocation names, for the safety runs.  The names of    *)
(* the processes are taken in order by the module itself.                  *)
EXTENDS GuiService, TLC

Symmetry == Permutations(StartClient) \cup Permutations(StopClient)
=============================================================================
