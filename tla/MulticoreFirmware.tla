-------------------------- MODULE MulticoreFirmware --------------------------
(***************************************************************************)
(* Two programs on the chip of Multicore: core 0 resets core 1, launches   *)
(* it and exchanges words with it, the way the pico-sdk does              *)
(* (multicore_reset_core1, multicore_launch_core1, multicore_fifo calls), core *)
(* 1 answers each word with its successor (the program of                  *)
(* tests/test_core1_parity.py, with the SDK's blocking calls).  Each step  *)
(* is one instruction that reaches the SIO, the PSM or an event register,  *)
(* so a word may arrive between a core's look at FIFO_ST and its WFE.      *)
(***************************************************************************)
EXTENDS Multicore

CONSTANTS
  Messages,  \* the words core 0 sends, in order
  Returns,   \* whether core 1 returns to the boot ROM once it has answered them all
  Abandons   \* whether core 0 may reset core 1 with answers still to come

ASSUME FirmwareAssumption ==
  /\ Messages \in Seq(Words)
  /\ Returns \in BOOLEAN
  /\ Abandons \in BOOLEAN

VARIABLES
  pc0, pc1,  \* what each core executes next
  step,      \* how many words of the handshake core 0 has seen echoed
  sent,      \* how many messages core 0 has sent
  taken,     \* how many messages core 1 has answered
  word,      \* the word core 1 has read last
  got        \* the answers core 0 has received

program == <<pc0, pc1, step, sent, taken, word, got>>
allVars == <<vars, program>>

Handshaking == <<0, 0, 1, 2, 2, 2>>
Vld(c) == fifo[Other(c)] # <<>>
Rdy(c) == Len(fifo[c]) < FifoDepth

----------------------------------------------------------------------------
(* Core 0 *)

\* One instruction of core 0: it is at `from`, and goes on at `to`.
At0(from, to) == pc0 = from /\ pc0' = to

\* multicore_reset_core1: PROC1 forced off, let go, and the 0 popped (or left in the FIFO).
ResetCore1OfSdk ==
  /\ \/ At0("force_off", "let_go") /\ ForceOff(0)
     \/ At0("let_go", "look") /\ LetGo(0)
     \/ At0("let_go", "begin") /\ LetGo(0)
  /\ step' = 0
  /\ sent' = 0
  /\ taken' = 0
  /\ got' = <<>>
  /\ UNCHANGED <<pc1, word>>

\* multicore_launch_core1: the read FIFO is drained and a SEV executed before a 0.
Drain ==
  /\ \/ At0("begin", "push") /\ Handshaking[step + 1] # 0 /\ Awake(0) /\ UNCHANGED vars
     \/ At0("begin", "begin") /\ Handshaking[step + 1] = 0 /\ Vld(0) /\ FifoRead(0)
     \/ At0("begin", "push") /\ Handshaking[step + 1] = 0 /\ ~ Vld(0) /\ Sev(0)
  /\ UNCHANGED <<pc1, step, sent, taken, word, got>>

\* The next word of the handshake: the boot ROM answers at once.
Push ==
  /\ LET cmd == Handshaking[step + 1] IN
     \/ /\ At0("push", "push_sev")
        /\ BootRomAnswer(cmd)
        /\ UNCHANGED <<pc1, taken>>
     \/ /\ At0("push", "push_sev")
        /\ LaunchCore1(cmd)
        /\ pc1' = "look"
        /\ taken' = 0
  /\ UNCHANGED <<step, sent, word, got>>

\* multicore_fifo_push_blocking of a message, or on to an answer.
Talk ==
  /\ \/ /\ At0("talk", "push_sev")
        /\ sent < Len(Messages)
        /\ Rdy(0)
        /\ FifoWrite(0, Messages[sent + 1])
        /\ sent' = sent + 1
     \/ /\ At0("talk", "look")
        /\ Len(got) < sent
        /\ Awake(0)
        /\ UNCHANGED <<vars, sent>>
     \/ /\ At0("talk", "force_off")
        /\ Abandons \/ Len(got) = Len(Messages)
        /\ Awake(0)
        /\ UNCHANGED <<vars, sent>>
  /\ UNCHANGED <<pc1, step, taken, word, got>>

\* The SEV of multicore_fifo_push_blocking.
PushSev ==
  /\ IF step < 6 THEN At0("push_sev", "look") ELSE At0("push_sev", "talk")
  /\ Sev(0)
  /\ UNCHANGED <<pc1, step, sent, taken, word, got>>

\* multicore_fifo_pop_blocking: look at VLD, WFE if it is clear, look again.
Pop0 ==
  /\ \/ At0("look", IF Vld(0) THEN "pop" ELSE "wfe") /\ Awake(0) /\ UNCHANGED <<vars, step, got>>
     \/ At0("wfe", "look") /\ Wfe(0) /\ UNCHANGED <<step, got>>
     \/ /\ pc0 = "pop"
        /\ FifoRead(0)
        /\ LET response == Head(fifo[1]) IN
           IF launched /\ step = 6
           THEN /\ got' = Append(got, response)
                /\ pc0' = "talk"
                /\ UNCHANGED step
           ELSE /\ step' = IF heard = <<>> THEN 0  \* the 0 of multicore_reset_core1
                           ELSE IF response = Handshaking[step + 1] THEN step + 1 ELSE 0
                /\ pc0' = IF step' = 6 THEN "talk" ELSE "begin"
                /\ UNCHANGED got
  /\ UNCHANGED <<pc1, sent, taken, word>>

Core0 == ResetCore1OfSdk \/ Drain \/ Push \/ Talk \/ PushSev \/ Pop0

----------------------------------------------------------------------------
(* Core 1 *)

At1(from, to) == pc1 = from /\ pc1' = to

\* Pops a word, pushes its successor, for ever; or returns once all are answered.
Core1 ==
  /\ \/ At1("look", IF Vld(1) THEN "pop" ELSE "wfe") /\ Awake(1) /\ UNCHANGED <<vars, taken, word>>
     \/ At1("wfe", "look") /\ Wfe(1) /\ UNCHANGED <<taken, word>>
     \/ At1("pop", "push") /\ FifoRead(1) /\ word' = Head(fifo[0]) /\ UNCHANGED taken
     \/ At1("push", "sev") /\ Rdy(1) /\ FifoWrite(1, word + 1) /\ UNCHANGED <<taken, word>>
     \/ At1("sev", IF Returns /\ taken + 1 = Len(Messages) THEN "return" ELSE "look")
          /\ Sev(1) /\ taken' = taken + 1 /\ UNCHANGED word
     \/ At1("return", "look") /\ Park /\ UNCHANGED <<taken, word>>
  /\ UNCHANGED <<pc0, step, sent, got>>

----------------------------------------------------------------------------

FirmwareInit ==
  /\ Init
  /\ pc0 = "force_off"
  /\ pc1 = "look"
  /\ step = 0
  /\ sent = 0
  /\ taken = 0
  /\ word = 0
  /\ got = <<>>

FirmwareNext == Core0 \/ Core1

\* In each quantum the batch loop executes both cores, each as far as it is awake.
FirmwareSpec ==
  FirmwareInit /\ [][FirmwareNext]_allVars /\ WF_allVars(Core0) /\ WF_allVars(Core1)

----------------------------------------------------------------------------
(* Properties *)

\* The boot ROM answers such that a launch completes, whatever was left in the FIFO.
LaunchCompletes == (pc0 = "let_go") ~> running

\* Every exchange comes to its end: no core sleeps through the word it waits for, and the cores
\* never wait for each other.
ExchangeCompletes == []<>(pc0 = "force_off")

\* The answers are those of the messages, in their order: nothing left from the handshake or
\* from an earlier launch is taken for one.
AnswersInOrder == \A i \in DOMAIN got : got[i] = Messages[i] + 1

\* A core sleeps in its WFE with a word waiting only while the SEV that follows the word is
\* still to come: the event register closes the window between the look and the WFE.
NoLostWakeup ==
  /\ sleep[0] = "wfe" /\ Vld(0) => running /\ pc1 = "sev"
  /\ running /\ sleep[1] = "wfe" /\ Vld(1) => pc0 = "push_sev"

\* "the FIFOs are what the datasheet says" (docs/records/0104-second-core-seams-and-architecture.md,
\* D8): an answer that core 1 has pushed is received even if core 1 then returns to the boot ROM.
AnswersSurviveReturn == (taken = Len(Messages)) ~> (Len(got) = Len(Messages))

=============================================================================
