---------------------------- MODULE MCConfigStore ----------------------------
(* ConfigStore with model values for the settings and the two odd files. *)
EXTENDS ConfigStore, TLC

\* The settings a client may ask for are interchangeable.
ValueSymmetry == Permutations(Values)
=============================================================================
