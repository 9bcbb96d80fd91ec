----------------------------- MODULE MCMulticore -----------------------------
(* Instances of Multicore for TLC. *)
EXTENDS Multicore

\* A core enables no line, core 0's, or both; for core 1 that is none, the other's, or both.
SomeEnables == {{}, {0}, {0, 1}}

=============================================================================
