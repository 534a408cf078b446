------------------------------- MODULE LaunchMC -------------------------------
(* Instances of Launch for TLC. *)
EXTENDS Launch

\* A small status, one that is 0 in 8 bits, a negative one.
SomeExitArgs == {4, 256, -1}

SomeTraps == {0, 7}

===============================================================================
