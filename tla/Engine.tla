------------------------------- MODULE Engine -------------------------------
(***************************************************************************)
(* The life of a Simulator on its event loop (simulator.py): execute() as  *)
(* a task of that loop, started by start_execution() and ended by stop()   *)
(* or by a crash; blocking calls of several threads, which run the loop    *)
(* themselves, one at a time; wait_for(), which must not outlive the       *)
(* engine it waits on; and the shutdown request.                           *)
(*                                                                         *)
(* The loop's ready queue is kept in order, because the order decides what *)
(* a coroutine sees: a callback runs to its next await in one step, and a  *)
(* callback scheduled meanwhile goes to the end.  A batch of instructions  *)
(* is reduced to what it may do to the engine: set the event a waiter      *)
(* waits on, stop (on_break), raise, or none of these.  Why execute()      *)
(* sleeps for a time between two batches (the RUN pin is low, or a real    *)
(* reply is awaited) is left open.                                         *)
(***************************************************************************)
EXTENDS Integers, Sequences, SequencesExt

CONSTANTS
  Callers,      \* threads that make blocking calls of a wait_for()
  Hasty,        \* those of them that give a timeout
  Requesters,   \* threads that ask for a shutdown, each with a code of its own
  MaxStarts,    \* bound: calls of start_execution()
  NoOne         \* no thread, no code

ASSUME CallersAssumption ==
  IsFiniteSet(Callers) /\ Hasty \subseteq Callers /\ NoOne \notin Callers \cup Requesters
ASSUME StartsAssumption == MaxStarts \in Nat \ {0}

VARIABLES
  stopped,      \* Simulator.stopped
  failed,       \* engine_room_error is set
  task,         \* the execute() tasks, by number: how far each has come
  current,      \* _execute_task: the number of the last one created, 0 for None
  starts,       \* calls of start_execution() so far, those that a queued call will make included
  ready,        \* the loop's ready queue
  runner,       \* the thread inside run_until_complete(), the holder of _pump_lock
  call,         \* the blocking call of each caller
  request,      \* ShutdownRequest: whether the event is set, and the code
  asking,       \* how far each requester is in ShutdownRequest.request()
  main,         \* the thread in wait_for_shutdown()
  wanted        \* history: nothing has asked the engine to stop since it was last started

vars == <<stopped, failed, task, current, starts, ready, runner, call, request, asking, main, wanted>>
engine == <<stopped, failed, task, current, starts, wanted>>
threads == <<request, asking, main>>

Main == "main"
Verdicts == {"event", "crashed", "ended", "timeout"}
Leaving == {"returned", "raised", "exited", "interrupted", "refused"}

Start == [what |-> "start", of |-> 0]
Step(i) == [what |-> "step", of |-> i]
Begin(t) == [what |-> "begin", of |-> t]
Wake(t) == [what |-> "wake", of |-> t]

\* A thread is inside run_until_complete().
LoopRuns == runner # NoOne /\ (runner \in Callers => call[runner].at # "out")

Over(i) == task[i] \in {"ended", "crashed"}
Answered(t) == call[t].at \in Verdicts
Idle == [at |-> "out", boots |-> FALSE, watch |-> 0, set |-> FALSE]

-----------------------------------------------------------------------------

\* Tells execute() to stop, from any thread; the flag is all there is.
Stop ==
  /\ stopped' = TRUE
  /\ wanted' = FALSE
  /\ UNCHANGED <<failed, task, current, starts, ready, runner, call, request, asking, main>>

\* start_execution() only queues the creation of the task.
StartExecution ==
  /\ starts < MaxStarts
  /\ starts' = starts + 1
  /\ wanted' = TRUE
  /\ ready' = Append(ready, Start)
  /\ UNCHANGED <<stopped, failed, task, current, runner, call, request, asking, main>>

\* A blocking call of wait_for(), alone or, as _aconnect() does it, right after a start_execution().
Call(t, boots) ==
  /\ call[t].at = "out"
  /\ boots => starts < MaxStarts
  /\ starts' = IF boots THEN starts + 1 ELSE starts
  /\ call' = [call EXCEPT ![t] = [Idle EXCEPT !.at = "queued", !.boots = boots]]
  /\ ready' = Append(ready, Begin(t))
  /\ UNCHANGED <<stopped, failed, task, current, wanted, runner, request, asking, main>>

\* _pump_until(): a thread whose future is not done runs the loop if no other does.
TakePump(t) ==
  /\ call[t].at # "out" /\ ~Answered(t)
  /\ runner = NoOne
  /\ runner' = t
  /\ UNCHANGED <<engine, ready, call, threads>>

\* The answer is there, whoever ran the loop: the call returns, and lets go of the loop.
Return_KeepsPump(t) ==
  /\ Answered(t)
  /\ call' = [call EXCEPT ![t] = Idle]
  /\ UNCHANGED <<engine, ready, runner, threads>>
Return(t) ==
  /\ Answered(t)
  /\ call' = [call EXCEPT ![t] = Idle]
  /\ runner' = IF runner = t THEN NoOne ELSE runner
  /\ UNCHANGED <<engine, ready, threads>>

-----------------------------------------------------------------------------
\* One callback of the ready queue, in the thread that runs the loop.

Turn(callback) ==
  /\ LoopRuns
  /\ ready # <<>>
  /\ Head(ready) = callback

\* _start(): the task exists from here on, and takes its first step later.
Started ==
  /\ Turn(Start)
  /\ current' = current + 1
  /\ task' = [task EXCEPT ![current + 1] = "new"]
  /\ ready' = Append(Tail(ready), Step(current + 1))
  /\ UNCHANGED <<stopped, failed, starts, wanted, runner, call, threads>>

\* The waiters that a step of task i wakes: those whose event it sets, and, when it ends, those that watch it.
Woken_ByEvents(i, fired, over) == {t \in fired : call[t].at = "waiting"}
Woken(i, fired, over) ==
  {t \in Callers : call[t].at = "waiting" /\ (t \in fired \/ (over /\ call[t].watch = i))}

Told(fired, woken) ==
  [t \in Callers |-> [call[t] EXCEPT !.at = IF t \in woken THEN "woken" ELSE @,
                                     !.set = @ \/ t \in fired]]

\* What follows the wake-ups in the queue is `later`.
Step_(i, fired, to, later) ==
  LET over == to \in {"ended", "crashed"}
      woken == Woken(i, fired, over)
  IN  /\ task' = [task EXCEPT ![i] = to]
      /\ call' = Told(fired, woken)
      /\ ready' = Tail(ready) \o [n \in 1..Len(SetToSeq(woken)) |-> Wake(SetToSeq(woken)[n])] \o later

\* The task sees the flag, which its very first step clears before it looks.
Ends(i) ==
  /\ Turn(Step(i))
  /\ stopped /\ task[i] # "new"
  /\ Step_(i, {}, "ended", <<>>)
  /\ UNCHANGED <<stopped, failed, current, starts, wanted, runner, threads>>

GoesOn(i) == Turn(Step(i)) /\ (stopped => task[i] = "new")

\* A batch, and then a sleep(0), which goes through the queue, or a sleep of some length.
Batch(i, fired) ==
  /\ GoesOn(i)
  /\ \/ Step_(i, fired, "turning", <<Step(i)>>)
     \/ Step_(i, fired, "asleep", <<>>)
  /\ stopped' = FALSE
  /\ UNCHANGED <<failed, current, starts, wanted, runner, threads>>

\* on_break in the middle of a batch.
Break(i) ==
  /\ GoesOn(i)
  /\ Step_(i, {}, "turning", <<Step(i)>>)
  /\ stopped' = TRUE
  /\ wanted' = FALSE
  /\ UNCHANGED <<failed, current, starts, runner, threads>>

\* The batch raises: recorded, flagged, and raised again out of the task.
Crash_StillExecuting(i, fired) ==
  /\ GoesOn(i)
  /\ Step_(i, fired, "crashed", <<>>)
  /\ failed' = TRUE
  /\ stopped' = FALSE
  /\ wanted' = FALSE
  /\ UNCHANGED <<current, starts, runner, threads>>
Crash_Unrecorded(i, fired) ==
  /\ GoesOn(i)
  /\ Step_(i, fired, "crashed", <<>>)
  /\ stopped' = TRUE
  /\ wanted' = FALSE
  /\ UNCHANGED <<failed, current, starts, runner, threads>>
Crash(i, fired) ==
  /\ GoesOn(i)
  /\ Step_(i, fired, "crashed", <<>>)
  /\ failed' = TRUE
  /\ stopped' = TRUE
  /\ wanted' = FALSE
  /\ UNCHANGED <<current, starts, runner, threads>>

\* The loop's timers run only while a thread runs the loop.
SleepOver(i) ==
  /\ LoopRuns
  /\ task[i] = "asleep"
  /\ task' = [task EXCEPT ![i] = "turning"]
  /\ ready' = Append(ready, Step(i))
  /\ UNCHANGED <<stopped, failed, current, starts, wanted, runner, call, threads>>

\* wait_for() begins: it watches the task that _execute_task names now; one that is over answers at once.
Watching(t) ==
  LET over == current # 0 /\ Over(current)
  IN  /\ call' = [call EXCEPT ![t].at = IF over THEN "woken" ELSE "waiting",
                              ![t].watch = current]
      /\ ready' = Tail(ready) \o (IF call[t].boots THEN <<Start>> ELSE <<>>)
                              \o (IF over THEN <<Wake(t)>> ELSE <<>>)

Begins(t) ==
  /\ Turn(Begin(t))
  /\ Watching(t)
  /\ wanted' = (wanted \/ call[t].boots)
  /\ UNCHANGED <<stopped, failed, task, current, starts, runner, threads>>

\* The timeout of wait_for().
Expires(t) ==
  /\ LoopRuns
  /\ t \in Hasty
  /\ call[t].at = "waiting"
  /\ call' = [call EXCEPT ![t].at = "woken"]
  /\ ready' = Append(ready, Wake(t))
  /\ UNCHANGED <<engine, runner, threads>>

\* What wait_for() answers: the event first, then the end of the engine, told from engine_room_error.
Verdict(t) ==
  IF call[t].set THEN "event"
  ELSE IF call[t].watch # 0 /\ Over(call[t].watch)
  THEN IF failed THEN "crashed" ELSE "ended"
  ELSE "timeout"

Answers(t) ==
  /\ Turn(Wake(t))
  /\ call' = [call EXCEPT ![t].at = Verdict(t)]
  /\ ready' = Tail(ready)
  /\ UNCHANGED <<engine, runner, threads>>

-----------------------------------------------------------------------------
\* ShutdownRequest.request(), which looks at the event and then sets code and event.

Looks(r) ==
  /\ asking[r] = "no"
  /\ asking' = [asking EXCEPT ![r] = IF request.set THEN "done" ELSE "code"]
  /\ UNCHANGED <<engine, ready, runner, call, request, main>>

GivesCode(r) ==
  /\ asking[r] = "code"
  /\ request' = [request EXCEPT !.code = r]
  /\ asking' = [asking EXCEPT ![r] = "set"]
  /\ UNCHANGED <<engine, ready, runner, call, main>>

Sets(r) ==
  /\ asking[r] = "set"
  /\ request' = [request EXCEPT !.set = TRUE]
  /\ asking' = [asking EXCEPT ![r] = "done"]
  /\ UNCHANGED <<engine, ready, runner, call, main>>

-----------------------------------------------------------------------------
\* wait_for_shutdown(), in the thread that has nothing else to do.

NotMain == <<failed, task, current, starts, ready, call, request, asking>>

MainWaits ==
  /\ main.at = "away"
  /\ main' = [main EXCEPT !.at = "waiting"]
  /\ UNCHANGED <<NotMain, stopped, wanted, runner>>

Left_WhenStopped == stopped
Left == stopped \/ request.set

\* pump(0.1): refused while another thread runs the loop.
MainPumps ==
  /\ main.at = "waiting" /\ ~Left
  /\ main' = [main EXCEPT !.at = IF runner = NoOne THEN "locking" ELSE "refused"]
  /\ UNCHANGED <<NotMain, stopped, wanted, runner>>

MainLocks ==
  /\ main.at = "locking" /\ runner = NoOne
  /\ main' = [main EXCEPT !.at = "pumping"]
  /\ runner' = Main
  /\ UNCHANGED <<NotMain, stopped, wanted>>

MainUnlocks ==
  /\ main.at = "pumping"
  /\ main' = [main EXCEPT !.at = "waiting"]
  /\ runner' = NoOne
  /\ UNCHANGED <<NotMain, stopped, wanted>>

\* The loop of polls is over: a request first, then a crash, and otherwise it just returns.
MainLeaves ==
  /\ main.at = "waiting" /\ Left
  /\ main' = IF request.set THEN [at |-> "exited", code |-> request.code]
             ELSE IF failed THEN [main EXCEPT !.at = "raised"]
             ELSE [main EXCEPT !.at = "returned"]
  /\ stopped' = (stopped \/ request.set)
  /\ wanted' = (wanted /\ ~request.set)
  /\ UNCHANGED <<NotMain, runner>>

\* Ctrl+C in the polls.
MainInterrupted ==
  /\ main.at \in {"waiting", "locking", "pumping"}
  /\ main' = [main EXCEPT !.at = "interrupted"]
  /\ runner' = IF runner = Main THEN NoOne ELSE runner
  /\ stopped' = TRUE
  /\ wanted' = FALSE
  /\ UNCHANGED NotMain

-----------------------------------------------------------------------------

Init ==
  /\ stopped = TRUE
  /\ failed = FALSE
  /\ task = [i \in 1..MaxStarts |-> "none"]
  /\ current = 0
  /\ starts = 0
  /\ ready = <<>>
  /\ runner = NoOne
  /\ call = [t \in Callers |-> Idle]
  /\ request = [set |-> FALSE, code |-> NoOne]
  /\ asking = [r \in Requesters |-> "no"]
  /\ main = [at |-> "away", code |-> NoOne]
  /\ wanted = FALSE

Tasks == 1..MaxStarts

Execute == \E i \in Tasks :
  \/ Ends(i)
  \/ \E fired \in SUBSET Callers : Batch(i, fired) \/ Crash(i, fired)
  \/ Break(i)

Loop == Started \/ Execute \/ \E t \in Callers : Begins(t) \/ Answers(t)

MainGoes == MainPumps \/ MainLocks \/ MainUnlocks \/ MainLeaves

Next ==
  \/ Stop
  \/ StartExecution
  \/ \E t \in Callers, boots \in BOOLEAN : Call(t, boots)
  \/ \E t \in Callers : TakePump(t) \/ Return(t) \/ Expires(t)
  \/ Loop
  \/ \E i \in Tasks : SleepOver(i)
  \/ \E r \in Requesters : Looks(r) \/ GivesCode(r) \/ Sets(r)
  \/ MainWaits \/ MainGoes \/ MainInterrupted

\* The threads run.  A loop that is run again and again serves its queue and its timers: every
\* run_until_complete() makes at least one pass over the queue before it returns.
Fairness ==
  /\ SF_vars(Loop)
  /\ \A i \in Tasks : SF_vars(SleepOver(i))
  /\ \A t \in Callers : WF_vars(TakePump(t)) /\ WF_vars(Return(t))
  /\ \A r \in Requesters : WF_vars(GivesCode(r)) /\ WF_vars(Sets(r))
  /\ WF_vars(MainGoes)

Spec == Init /\ [][Next]_vars
FairSpec == Spec /\ Fairness

-----------------------------------------------------------------------------

TypeOK ==
  /\ stopped \in BOOLEAN /\ failed \in BOOLEAN /\ wanted \in BOOLEAN
  /\ task \in [Tasks -> {"none", "new", "turning", "asleep", "ended", "crashed"}]
  /\ starts \in 0..MaxStarts
  /\ current \in {i \in 0..starts : \A j \in Tasks : (task[j] = "none") = (j > i)}
  /\ runner \in Callers \cup {NoOne, Main}
  /\ call \in [Callers -> [at : {"out", "queued", "waiting", "woken"} \cup Verdicts,
                           boots : BOOLEAN, watch : 0..MaxStarts, set : BOOLEAN]]
  /\ request \in [set : BOOLEAN, code : Requesters \cup {NoOne}]
  /\ asking \in [Requesters -> {"no", "code", "set", "done"}]
  /\ main \in [at : {"away", "waiting", "locking", "pumping"} \cup Leaving,
               code : Requesters \cup {NoOne}]

\* Whoever polls `executing` may trust it: while it is TRUE an execute() task is there to run.
\* (simulator.py: without `self.stopped = True` after a crash the polls would wait for a batch that never comes.)
ExecutingMeansAlive == ~stopped => \E i \in Tasks : task[i] \in {"turning", "asleep"}

\* wait_for() never takes the crash of the engine it watched for a deliberate stop.
CrashIsNeverCalledAStop ==
  \A t \in Callers : call[t].at = "ended" => task[call[t].watch] # "crashed"

\* The process exits with a code that somebody asked for: the code is there before the event is.
ExitCodeWasAsked ==
  main.at = "exited" => main.code \in Requesters /\ asking[main.code] \in {"set", "done"}

\* A wait on an engine that has ended comes back to its thread, whichever thread runs the loop.
EndedWaitsReturn ==
  \A t \in Callers :
    (call[t].at = "waiting" /\ call[t].watch # 0 /\ (\E i \in Tasks : i = call[t].watch /\ Over(i)))
      ~> (call[t].at = "out")

\* Every call gets its turn, although the thread that ran the loop may have returned first (_pump_until()).
CallsAreServed == \A t \in Callers : (call[t].at = "queued" /\ ~call[t].boots) ~> (call[t].at # "queued")

\* A shutdown that was asked for ends wait_for_shutdown().
ShutdownIsHonoured == (request.set /\ main.at = "waiting") ~> (main.at \in Leaving)

-----------------------------------------------------------------------------
(***************************************************************************)
(* What comments and docstrings of the code say, and the code does not do. *)
(***************************************************************************)

\* stop(): "execute() notices it on its next loop iteration".
\* (As long as a thread runs the loop, that is.)
StopIsNoticed == ~wanted ~> (stopped \/ wanted \/ runner = NoOne)

\* BaseDevice.stop(): wait_for() "unblocks with a clear error the moment execute() actually ends, for any reason".
EndUnblocksEveryWait ==
  \A t \in Callers :
    (call[t].at = "waiting" /\ call[t].boots /\ current = starts /\ (\A i \in 1..current : Over(i)))
      ~> (call[t].at # "waiting")

\* wait_for(): an engine that "ends *without* crashing" is told distinctly from one that crashed.
StopIsNeverCalledACrash ==
  \A t \in Callers : call[t].at = "crashed" => task[call[t].watch] = "crashed"

\* wait_for(): _execute_task is "the live engine-room task".
OneEngine == \A i \in Tasks : task[i] \in {"turning", "asleep"} => i = current

\* ShutdownRequest: "First request wins".
FirstRequestWins == [][request.set => request'.code = request.code]_vars

\* wait_for_shutdown(): "nobody else runs the engine: this wait is what does".
WaitRunsTheEngine == main.at # "refused"

\* wait_for_shutdown(): "Blocks the calling thread until this simulator stops running".
WaitLastsTheRun == [][main'.at = "returned" /\ main.at # "returned" => ~wanted]_vars

=============================================================================
