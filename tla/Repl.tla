-------------------------------- MODULE Repl ---------------------------------
(***************************************************************************)
(* Running code on the device through its one console                     *)
(* (device/mp_device.py, device/raw_repl.py, device/repl_runner.py, and    *)
(* the host side of the serial port, usb/cdc.py).  Each call enters the    *)
(* raw REPL, trying again until the banner comes, sends its source as fast *)
(* as a bounded FIFO takes it, and waits for the answer.  Calls take turns *)
(* under a lock, but what a call leaves behind - bytes on their way, alarms*)
(* of the clock - is not under it.                                         *)
(*                                                                         *)
(* The console is a stream of words: "^C" "^A" "^D" and those of a source; *)
(* the guest answers with whole banners, "OK"s and answers.  The two       *)
(* Ctrl-C's of the entry are one word, and stdout and stderr one answer.   *)
(* The guest is the firmware, outside the repository.                      *)
(***************************************************************************)
EXTENDS Integers, Sequences, SequencesExt

CONSTANTS
  Execs,      \* the calls, numbered from 1
  Length,     \* the words of a source
  ConsoleSize,\* the words that tx_fifo holds (512 bytes)
  PacketSize, \* the words that the guest takes at a time (64 bytes)
  MaxReplies, \* bound: the guest goes on only when no more than this is on its way to the host
  Timeouts,   \* whether calls have a timeout: FALSE, TRUE or either
  Lags        \* whether the guest may need longer than ENTER_RETRY_NANOS to answer: likewise

VARIABLE repl

ReplAssumption ==
  /\ Execs \subseteq Nat \ {0} /\ (\A e \in Execs : 1 .. e \subseteq Execs) /\ Length \in Nat \ {0}
  /\ ConsoleSize \in Nat \ {0} /\ PacketSize \in Nat \ {0} /\ MaxReplies \in Nat
  /\ Timeouts \subseteq BOOLEAN /\ Lags \subseteq BOOLEAN

Key(name) == <<name, 0, 0>>
CtrlA == Key("^A")
CtrlC == Key("^C")
CtrlD == Key("^D")
Source(e) == [i \in 1 .. Length |-> <<"code", e, i>>]

Reply(kind) == [kind |-> kind, code |-> <<>>, whole |-> TRUE]
Banner == Reply("banner")
Ok == Reply("OK")
Answer(code, whole) == [kind |-> "answer", code |-> code, whole |-> whole]
NoAnswer == Reply("none")
-----------------------------------------------------------------------------
(* The host: methods as functions of the state r. *)

Upto(s, n) == SubSeq(s, 1, IF Len(s) < n THEN Len(s) ELSE n)
After(s, n) == SubSeq(s, n + 1, Len(s))

\* send_serial_byte(), for each of words: a full FIFO takes no more.
SendSerial(r, words) ==
  [r EXCEPT !.tx_fifo = Upto(@ \o words, ConsoleSize), !.flush = @ \/ (r.parked /\ words # <<>>)]

SendEnterSequence(r) == SendSerial(r, <<CtrlC, CtrlA>>)

\* pump(): as much as the FIFO has room for.
Pumped(r, e) ==
  LET free == ConsoleSize - Len(r.tx_fifo)
  IN  [SendSerial(r, Upto(r.pending[e], free)) EXCEPT !.pending[e] = After(@, free)]

\* feed(): what runner e makes of a reply, after which on_result or on_error may end its call.
Fed(r, e, reply) ==
  CASE r.stage[e] = "await_prompt" /\ reply.kind = "banner" ->
         Pumped([r EXCEPT !.stage[e] = "await_ok", !.retry[e] = FALSE, !.pending[e] = @ \o Source(e) \o <<CtrlD>>], e)
    [] r.stage[e] = "await_ok" ->
         IF reply.kind = "OK" THEN [r EXCEPT !.stage[e] = "stdout"]
         ELSE [r EXCEPT !.stage[e] = "failed", !.done[e] = TRUE]
    [] r.stage[e] = "stdout" /\ reply.kind = "answer" ->
         [r EXCEPT !.stage[e] = "stderr", !.answer[e] = reply, !.done[e] = TRUE]
    [] OTHER -> r

\* runner.stop(); the pump's alarm finds that the call is done.
RunnerStopped(r, e) == [r EXCEPT !.wired = IF @ = e THEN 0 ELSE @, !.retry[e] = FALSE]
-----------------------------------------------------------------------------
(* The guest. *)

Emitted(r, reply) == [r EXCEPT !.replies = Append(@, reply)]
Interrupted(r) == Emitted([r EXCEPT !.guest = "raw", !.paste = <<>>], Answer(r.paste, FALSE))

\* A packet reaches the guest: while code runs a Ctrl-C stops it at once, and
\* a program of its own may or may not look at what is typed, or be stopped by it.
Received(r, packet) ==
  LET others == SelectSeq(packet, LAMBDA w : w # CtrlC)
      stops == CtrlC \in ToSet(packet)
  IN  CASE r.guest = "busy" ->
             {[r EXCEPT !.input = IF kept THEN @ \o others ELSE @, !.guest = IF ended THEN "friendly" ELSE @] :
                kept \in BOOLEAN, ended \in {FALSE, stops}}
        [] r.guest = "running" /\ stops -> {[Interrupted(r) EXCEPT !.input = @ \o others]}
        [] OTHER -> {[r EXCEPT !.input = @ \o packet]}

\* _complete_out_read().
OutRead(r) ==
  Received([r EXCEPT !.tx_fifo = After(@, PacketSize), !.parked = FALSE], Upto(r.tx_fifo, PacketSize))

\* A prompt takes the word; a source that is not pasted into the raw REPL does nothing.
Prompted(r, word) ==
  CASE word = CtrlA -> Emitted([r EXCEPT !.guest = "raw", !.paste = <<>>], Banner)
    [] r.guest = "raw" /\ word = CtrlC -> [r EXCEPT !.paste = <<>>]
    [] r.guest = "raw" /\ word = CtrlD -> Emitted([r EXCEPT !.guest = "running"], Ok)
    [] r.guest = "raw" /\ word[1] = "code" -> [r EXCEPT !.paste = Append(@, word)]
    [] OTHER -> r
-----------------------------------------------------------------------------
Init ==
  \E times_out \in Timeouts, lags \in Lags :
  repl = [times_out |-> times_out, lags |-> lags, exec |-> 0, stage |-> [e \in Execs |-> "new"], pending |-> [e \in Execs |-> <<>>],
          retry |-> [e \in Execs |-> FALSE], pump |-> [e \in Execs |-> FALSE], done |-> [e \in Execs |-> FALSE],
          answer |-> [e \in Execs |-> NoAnswer], wired |-> 0, over |-> {},
          tx_fifo |-> <<>>, parked |-> FALSE, flush |-> FALSE,
          guest |-> "busy", input |-> <<>>, paste |-> <<>>, replies |-> <<>>]

Started(r, e) ==
  SendEnterSequence([r EXCEPT !.exec = e, !.wired = e, !.stage[e] = "await_prompt", !.retry[e] = TRUE, !.pump[e] = TRUE])

\* _aexec() gets the lock: start() wires the runner, sends the entry sequence and arms both alarms.
Start == \E e \in Execs : repl.exec = 0 /\ repl.over = 1 .. e - 1 /\ repl' = Started(repl, e)

\* Nothing that was sent is going to bring a banner.
Unanswered(r) ==
  /\ CtrlA \notin ToSet(r.tx_fifo) \cup ToSet(r.input)
  /\ Banner \notin ToSet(r.replies)

\* The retry's alarm.
RetryEnter(e) ==
  /\ repl.retry[e] /\ (~ repl.lags => Unanswered(repl))
  /\ repl' = IF repl.stage[e] = "await_prompt" THEN SendEnterSequence(repl) ELSE [repl EXCEPT !.retry[e] = FALSE]

\* The pump's alarm, every millisecond until the call is done.
PumpUntilSent(e) ==
  /\ repl.pump[e]
  /\ repl' = IF repl.done[e] THEN [repl EXCEPT !.pump[e] = FALSE] ELSE Pumped(repl, e)

\* on_serial_data.
Deliver ==
  /\ repl.replies # <<>>
  /\ LET r == [repl EXCEPT !.replies = Tail(@)]
     IN  repl' = IF r.wired = 0 THEN r ELSE Fed(r, r.wired, Head(repl.replies))

\* wait_for() returns to _aexec(): the runner is stopped and the lock is free.
Finish ==
  /\ repl.exec # 0 /\ repl.done[repl.exec]
  /\ repl' = RunnerStopped([repl EXCEPT !.exec = 0, !.over = @ \cup {repl.exec}], repl.exec)
\* Or raises, and nothing is stopped.
TimeOut ==
  /\ repl.times_out /\ repl.exec # 0
  /\ repl' = [repl EXCEPT !.exec = 0, !.over = @ \cup {repl.exec}]

\* The guest's OUT endpoint waits for data: there is some, or the arm is parked.
ArmOut ==
  /\ repl.input = <<>> /\ ~ repl.parked
  /\ IF repl.tx_fifo = <<>> THEN repl' = [repl EXCEPT !.parked = TRUE] ELSE repl' \in OutRead(repl)
\* _flush_parked_reads().
FlushParked ==
  /\ repl.flush
  /\ LET r == [repl EXCEPT !.flush = FALSE]
     IN  IF r.parked /\ r.tx_fifo # <<>> THEN repl' \in OutRead(r) ELSE repl' = r

GuestReads ==
  /\ repl.guest \in {"friendly", "raw"} /\ repl.input # <<>> /\ Len(repl.replies) < MaxReplies
  /\ repl' = Prompted([repl EXCEPT !.input = Tail(@)], Head(repl.input))
GuestFinishes ==
  /\ Len(repl.replies) < MaxReplies
  /\ \/ repl.guest = "busy" /\ repl' = [repl EXCEPT !.guest = "friendly"]
     \/ repl.guest = "running" /\ repl' = Emitted([repl EXCEPT !.guest = "raw", !.paste = <<>>], Answer(repl.paste, TRUE))

Next ==
  \/ Start \/ Deliver \/ Finish \/ TimeOut \/ ArmOut \/ FlushParked \/ GuestReads \/ GuestFinishes
  \/ \E e \in Execs : RetryEnter(e) \/ PumpUntilSent(e)

Spec == Init /\ [][Next]_repl
-----------------------------------------------------------------------------
(* Properties. *)

ConsoleWords == {CtrlA, CtrlC, CtrlD} \cup {<<"code", e, i>> : e \in Execs, i \in 1 .. Length}
TypeOK ==
  /\ repl.exec \in Execs \cup {0} /\ repl.wired \in Execs \cup {0} /\ repl.over \subseteq Execs
  /\ \A e \in Execs : repl.stage[e] \in {"new", "await_prompt", "await_ok", "stdout", "stderr", "failed"}
  /\ repl.tx_fifo \in Seq(ConsoleWords) /\ Len(repl.tx_fifo) <= ConsoleSize
  /\ repl.guest \in {"busy", "friendly", "raw", "running"}

\* "Returns a Future resolving to its (stdout, stderr)" (exec_async): what a
\* call returns is the answer to its own source, whole and not cut off, however
\* its words, its retries and those of the calls before it met in the console.
ReturnsOwnAnswer(e) == repl.stage[e] = "stderr" => repl.answer[e] = Answer(Source(e), TRUE)
AnswersAreOwn == \A e \in Execs : ReturnsOwnAnswer(e)

\* That holds, and no call fails, as long as none times out and no retry
\* overtakes an answer.
PromptAnswersAreOwn ==
  ~ repl.times_out /\ ~ repl.lags => AnswersAreOwn /\ \A e \in Execs : repl.stage[e] # "failed"

\* A call that is not done has something under way that will bring it on: an
\* arm that found nothing is completed by the first byte that comes
\* (send_serial_byte), what did not fit is sent later (pump), an entry that
\* the guest did not hear is sent again (_retry_enter).
NothingWaits ==
  /\ repl.parked /\ repl.tx_fifo # <<>> => repl.flush
  /\ repl.exec # 0 /\ ~ repl.done[repl.exec] =>
       \/ repl.retry[repl.exec]
       \/ repl.pump[repl.exec] /\ repl.pending[repl.exec] # <<>>
       \/ repl.tx_fifo # <<>> \/ repl.input # <<>> \/ repl.replies # <<>> \/ repl.guest = "running"
=============================================================================
