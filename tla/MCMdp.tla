------------------------------- MODULE MCMdp -------------------------------
(* Broker and workers with few requests and restarts.                      *)
EXTENDS Mdp

CONSTANTS w1, c1, world, mmi

OneWorker == {<<w1, world, DoNotWait>>}
=============================================================================
