------------------------------ MODULE Exchange -------------------------------
(***************************************************************************)
(* What an exchange of words with a device promises to the program that    *)
(* has set it up and waits for it: the answers come to memory in the order *)
(* of the words they answer, none missing and none twice, to the last one. *)
(***************************************************************************)
EXTENDS Integers, Sequences

CONSTANTS Length   \* the words of the exchange

VARIABLE got       \* the answers that are in memory

Init == got = <<>>

Answer == Len(got) < Length /\ got' = Append(got, Len(got) + 1)

\* No answer is out of place; and with fairness, none is missing.
Safety == Init /\ [][Answer]_got

Spec == Safety /\ WF_got(Answer)

=============================================================================
