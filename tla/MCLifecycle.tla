---------------------------- MODULE MCLifecycle ----------------------------
(***************************************************************************)
(* Lifecycle with a few interchangeable instances.                         *)
(***************************************************************************)
EXTENDS Lifecycle, TLC

\* Every call that the model lets fail.
AllFaults == {"mkdir", "pidfile", "chdir", "bind", "listen", "open", "flock", "manual",
              "drm", "auto"}

Symmetry == Permutations(Procs)
=============================================================================
