----------------------------- MODULE MCDataLoader -----------------------------
(***************************************************************************)
(* Model checking of DataLoader on small instances.                        *)
(***************************************************************************)
EXTENDS DataLoader, TLC

\* The keys are interchangeable, and so are the calls.
Symmetry == Permutations(Keys) \cup Permutations(Calls)

BothModes == Modes

NoToggle    == {}
BothToggles == {"typed", "all"}

=============================================================================
