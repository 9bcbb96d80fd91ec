-------------------------------- MODULE MCDma --------------------------------
(* Instances of Dma for TLC. *)
EXTENDS Dma

C(en, treq, chain, quiet) == [en |-> en, treq |-> treq, chain |-> chain, quiet |-> quiet]

\* A channel paced by the request, by the timer or by nothing, chained to the other or to itself,
\* loud or quiet, running or paused.
SomeCtrls ==
  {C(TRUE, 0, 0, FALSE), C(TRUE, Timer, 1, TRUE), C(TRUE, Permanent, 0, FALSE), C(FALSE, 0, 1, FALSE)}

=============================================================================
