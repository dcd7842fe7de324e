-------------------------- MODULE MCNginxReleases --------------------------
(***************************************************************************)
(* Instances of NginxReleases for TLC: reloads are interchangeable.        *)
(***************************************************************************)
EXTENDS NginxReleases, TLC

MCSymmetry == Permutations(Reload)
=============================================================================
