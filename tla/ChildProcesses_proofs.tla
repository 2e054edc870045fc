------------------------ MODULE ChildProcesses_proofs ------------------------
(***************************************************************************)
(* Proofs about the daemon's child processes.  The CLI of a run            *)
(* (CliSession), for every stream, stderr and buffer and whether or not it *)
(* leaves processes behind: it is started once, a stopped run that waits   *)
(* for it keeps its reason, a success is a real one, and while the         *)
(* daemon's process lives, what the loop or a stop waits for has a timer   *)
(* or an exit that brings it about. The shells of the terminals            *)
(* (Terminals), for any number of them: no handler asks for an illegal     *)
(* transition, and a shell that survived its kill has the SIGKILL pending. *)
(* The panel (TerminalPanel), for any number of terminals, polls and       *)
(* chunks and any ring: it passes over no output that the ring still       *)
(* holds, unless another terminal's output strayed into it.                *)
(***************************************************************************)
EXTENDS CliSession, Terminals, TerminalPanel, WellFoundedInduction, TLAPS

\* A session whose CLI was started has an outcome before it is polled again.
Answered ==
  /\ spawned \in {0, 1}
  /\ spawned = 0 => loop.pc # "await"
  /\ spawned = 1 => loop.pc = "await" \/ s.result \/ s.failure # "none"

\* The steps of everybody but the loop.
Outside == \/ CancelRun \/ Shutdown \/ HostExits
           \/ CommandOfCli \/ CliExits \/ KillTimer \/ TimeoutTimer

LoopTyped == loop \in [pc: {"poll", "await", "backoff", "over"}, failures: Nat]

\* The initial state has started nothing.
LEMMA AnsweredInit == Init => LoopTyped /\ Answered
BY DEF Init, LoopTyped, Answered

\* A failure or a proposal to finish leaves a loop that is well formed and does
\* not wait for a child.
LEMMA ThrowsLoop ==
  ASSUME LoopTyped, NEW f, Throws(f)
  PROVE  LoopTyped' /\ loop'.pc # "await"
BY DEF Throws, finish, LoopTyped

LEMMA FinishesLoop ==
  ASSUME LoopTyped, Finishes
  PROVE  LoopTyped' /\ loop'.pc # "await"
BY DEF Finishes, finish, LoopTyped

\* The poll is the one place that starts the CLI, and it does so only without
\* an outcome.
LEMMA PollKeepsAnswered ==
  ASSUME LoopTyped, Answered, nextAction
  PROVE  LoopTyped' /\ Answered'
<1>0. loop.pc = "poll" BY DEF nextAction
<1>1. CASE ~sessions /\ Throws("TypeError") /\ UNCHANGED adapter
  <2>1. LoopTyped' /\ loop'.pc # "await" BY <1>1, ThrowsLoop
  <2> QED BY <2>1, <1>0, <1>1 DEF Answered, adapter
<1>2. CASE sessions /\ s.failure # "none" /\ Throws(s.failure) /\ UNCHANGED adapter
  <2>1. LoopTyped' /\ loop'.pc # "await" BY <1>2, ThrowsLoop
  <2> QED BY <2>1, <1>0, <1>2 DEF Answered, adapter
<1>3. CASE sessions /\ s.result /\ s.failure = "none" /\ Finishes /\ UNCHANGED adapter
  <2>1. LoopTyped' /\ loop'.pc # "await" BY <1>3, FinishesLoop
  <2> QED BY <2>1, <1>0, <1>3 DEF Answered, adapter
<1>4. CASE sessions /\ ~s.result /\ s.failure = "none" /\ Spawn
  <2>1. spawned = 0 BY <1>0, <1>4 DEF Answered
  <2> QED BY <2>1, <1>4 DEF Spawn, Answered, LoopTyped
<1> QED BY <1>1, <1>2, <1>3, <1>4 DEF nextAction

\* The close event records an outcome.
LEMMA CloseKeepsAnswered ==
  ASSUME LoopTyped, Answered, Closed
  PROVE  LoopTyped' /\ Answered'
<1>1. spawned' = 1 BY DEF Closed, Answered
<1>2. CASE Outcome = "none"
  <2>1. s' = [s EXCEPT !.result = TRUE] /\ Finishes BY <1>2 DEF Closed
  <2> QED BY <2>1, <1>1, FinishesLoop DEF Answered
<1>3. CASE Outcome # "none"
  <2>1. s' = [s EXCEPT !.failure = Outcome] /\ Throws(Outcome) BY <1>3 DEF Closed
  <2> QED BY <2>1, <1>1, <1>3, ThrowsLoop DEF Answered
<1> QED BY <1>2, <1>3

\* Stops, timers and the process group never touch what Answered speaks of,
\* except that a stopped or late session still has the outcome it had.
LEMMA OthersKeepAnswered ==
  ASSUME LoopTyped, Answered, Outside
  PROVE  LoopTyped' /\ Answered'
<1>1. loop' = loop /\ spawned' = spawned
  BY DEF Outside, CancelRun, Shutdown, StopRun, HostExits, adapter, stop, CommandOfCli, CliExits, KillTimer, TimeoutTimer
<1>2. s' = s \/ s' = [s EXCEPT !.timedOut = TRUE] \/ s' = [s EXCEPT !.cancelled = TRUE]
  BY DEF Outside, CancelRun, Shutdown, StopRun, HostExits, adapter, stop, CommandOfCli, CliExits, KillTimer, TimeoutTimer
<1>3. s'.result = s.result /\ s'.failure = s.failure
  <2>1. CASE s' = s BY <2>1
  <2>2. CASE s' = [s EXCEPT !.timedOut = TRUE] BY <2>2
  <2>3. CASE s' = [s EXCEPT !.cancelled = TRUE] BY <2>3
  <2> QED BY <1>2, <2>1, <2>2, <2>3
<1> QED BY <1>1, <1>3 DEF LoopTyped, Answered

\* After a backoff the loop polls again or is over.
LEMMA BackoffKeepsAnswered ==
  ASSUME LoopTyped, Answered, BackoffOver
  PROVE  LoopTyped' /\ Answered'
BY DEF BackoffOver, finish, adapter, LoopTyped, Answered

\* The CLI of a run is started at most once, whatever fails, times out or is
\* stopped.
THEOREM NeverRerunAlways == Spec => []NeverRerun
<1>1. LoopTyped /\ Answered /\ [Next]_vars => (LoopTyped /\ Answered)'
  <2> SUFFICES ASSUME LoopTyped, Answered, [Next]_vars PROVE (LoopTyped /\ Answered)'
    OBVIOUS
  <2>1. CASE nextAction BY <2>1, PollKeepsAnswered
  <2>2. CASE Closed BY <2>2, CloseKeepsAnswered
  <2>3. CASE BackoffOver BY <2>3, BackoffKeepsAnswered
  <2>4. CASE Outside BY <2>4, OthersKeepAnswered
  <2>5. CASE Over \/ UNCHANGED vars
    BY <2>5 DEF Over, vars, LoopTyped, Answered
  <2> QED BY <2>1, <2>2, <2>3, <2>4, <2>5 DEF Next, Outside
<1>2. Answered => NeverRerun BY DEF Answered, NeverRerun
<1> QED BY AnsweredInit, <1>1, <1>2, PTL DEF Spec

\* What a loop that waits for its child does to a run that is already FAILED: it
\* leaves it alone, a fatal failure provoked by the stop included.
THEOREM StopKeepsItsReasonAlways == Spec => StopKeepsItsReason
<1>1. [Next]_vars => [loop.pc = "await" /\ run.status = "FAILED" => run' = run]_vars
  <2> SUFFICES ASSUME Next, loop.pc = "await", run.status = "FAILED" PROVE run' = run
    OBVIOUS
  <2>1. ~nextAction /\ ~BackoffOver BY DEF nextAction, BackoffOver
  <2>2. ~StopRun("CANCELLED_BY_USER") /\ ~StopRun("SYSTEM_SHUTDOWN") BY DEF StopRun
  <2>3. CASE Closed BY <2>3 DEF Closed, Finishes, Throws
  <2>4. CASE Outside \/ Over
    BY <2>2, <2>4 DEF Outside, CancelRun, Shutdown, HostExits, CommandOfCli, CliExits, KillTimer, TimeoutTimer, Over, vars
  <2> QED BY <2>1, <2>3, <2>4 DEF Next, Outside
<1> QED BY <1>1, PTL DEF Spec, StopKeepsItsReason
-----------------------------------------------------------------------------
(* A success is real.                                                        *)

\* A nonempty set of positions has a last one.  The positions are counted from the
\* end, where the least of them is found by well-foundedness.
LEMMA LastPosition ==
  ASSUME NEW n \in Nat, NEW S \in SUBSET (1..n), S # {}
  PROVE  Max(S) \in S
<1> DEFINE T == {k \in Nat : n - k \in S}
<1>1. PICK i \in S : TRUE
  OBVIOUS
<1>2. n - i \in T /\ T \subseteq Nat
  <2>1. n - i \in Nat /\ n - (n - i) = i BY <1>1
  <2> QED BY <1>1, <2>1
<1>3. PICK k \in T : \A m \in T : ~(<<m, k>> \in OpToRel(<, Nat))
  BY <1>2, NatLessThanWellFounded, WFMin, Zenon
<1>4. \A m \in T : ~(m < k)
  BY <1>2, <1>3 DEF OpToRel
<1>5. n - k \in S /\ \A j \in S : n - k >= j
  <2>1. ASSUME NEW j \in S PROVE n - k >= j
    <3>1. n - j \in Nat /\ n - (n - j) = j OBVIOUS
    <3>2. ~(n - j < k) BY <1>4, <3>1
    <3> QED BY <3>1, <3>2
  <2> QED BY <2>1
<1> QED BY <1>5 DEF Max

\* parseStream reports no failure only if no line does.
LEMMA CleanStream ==
  ASSUME NEW lines \in Seq(Lines), parseStream(lines) = "none"
  PROVE  \A line \in Range(lines) : LineFailure(line) = "none"
<1> DEFINE failing == {i \in DOMAIN lines : LineFailure(lines[i]) # "none"}
<1>1. failing \in SUBSET (1..Len(lines)) /\ Len(lines) \in Nat
  OBVIOUS
<1>2. failing # {} => Max(failing) \in failing
  <2> HIDE DEF failing
  <2> QED BY <1>1, LastPosition
<1>3. failing = {}
  BY <1>2 DEF parseStream
<1> QED BY <1>3 DEF Range

\* What is kept of a stream is a stream.
LEMMA KeptStream ==
  ASSUME CliConstants, NEW printed \in Streams \cup {<<>>}
  PROVE  appendCapped(printed) \in Seq(Lines)
<1>1. printed \in Seq(Lines) /\ Capacity \in Nat \ {0}
  <2>1. CASE printed \in Streams BY <2>1 DEF CliConstants
  <2>2. CASE printed = <<>> BY <2>2 DEF CliConstants
  <2> QED BY <2>1, <2>2
<1>2. CASE Len(printed) > Capacity
  BY <1>1, <1>2 DEF appendCapped
<1>3. CASE ~(Len(printed) > Capacity)
  BY <1>1, <1>3 DEF appendCapped
<1> QED BY <1>2, <1>3

\* The shapes that the success of a run rests on.
SessionTyped ==
  /\ exit \in Exits \cup {Missing, Killed}
  /\ "pc" \in DOMAIN loop
  /\ {"result", "failure", "cancelled", "timedOut"} \subseteq DOMAIN s
  /\ s.result \in BOOLEAN /\ s.cancelled \in BOOLEAN /\ s.timedOut \in BOOLEAN

\* Once a result is recorded the loop is over, so nothing more happens to the
\* session: a child that has exited with 0 is not timed out, and a settled run
\* cannot be stopped.
SuccessInv ==
  /\ SessionTyped
  /\ s.result => loop.pc = "over"
  /\ run.status = "SUCCEEDED" => loop.pc = "over" /\ child = "exited"
  /\ SuccessIsReal

\* The child has closed: only a clean exit and a clean stream are a success.
LEMMA ClosedIsReal ==
  ASSUME CliConstants, SuccessInv, Closed
  PROVE  SuccessInv'
<1>1. loop.pc = "await" /\ child = "exited" /\ UNCHANGED <<child, exit>>
  BY DEF Closed
<1>2. run.status # "SUCCEEDED" /\ ~s.result
  BY <1>1 DEF SuccessInv
<1>3. CASE Outcome = "none"
  <2>1. s' = [s EXCEPT !.result = TRUE] /\ Finishes
    BY <1>3 DEF Closed
  <2>2. loop' = [loop EXCEPT !.pc = "over"] /\ loop'.pc = "over"
    BY <2>1 DEF Finishes, finish, SuccessInv, SessionTyped
  <2>3. ~s.cancelled /\ ~s.timedOut /\ exit.code = "0" /\ parseStream(appendCapped(exit.printed)) = "none"
    <3>1. ~s.cancelled /\ ~s.timedOut BY <1>3 DEF Outcome, SuccessInv, SessionTyped
    <3>2. exit.code = "0" BY <1>3, <3>1 DEF Outcome, Classify
    <3> QED BY <1>3, <3>1, <3>2 DEF Outcome
  <2>4. exit.printed \in Streams \cup {<<>>}
    BY DEF SuccessInv, SessionTyped, Exits, Missing, Killed
  <2>5. \A line \in Range(appendCapped(exit.printed)) : LineFailure(line) = "none"
    BY <2>3, <2>4, KeptStream, CleanStream
  <2>6. SessionTyped' /\ ~s'.cancelled /\ ~s'.timedOut
    BY <1>1, <2>1, <2>2, <2>3 DEF SuccessInv, SessionTyped
  <2> QED BY <1>1, <2>2, <2>3, <2>5, <2>6 DEF SuccessInv, SuccessIsReal
<1>4. CASE Outcome # "none"
  <2>1. s' = [s EXCEPT !.failure = Outcome] /\ Throws(Outcome)
    BY <1>4 DEF Closed
  <2>2. run'.status # "SUCCEEDED" BY <2>1, <1>2 DEF Throws, finish
  <2>3. "pc" \in DOMAIN loop'
    BY <2>1 DEF Throws, finish, SuccessInv, SessionTyped
  <2>4. SessionTyped' /\ ~s'.result
    BY <1>1, <1>2, <2>1, <2>3 DEF SuccessInv, SessionTyped
  <2> QED BY <2>2, <2>4 DEF SuccessInv, SuccessIsReal
<1> QED BY <1>3, <1>4

\* A poll finds no result, since the loop would be over: it cannot succeed.
LEMMA PollIsReal ==
  ASSUME SuccessInv, nextAction \/ BackoffOver
  PROVE  SuccessInv'
<1>1. loop.pc # "over" /\ ~s.result /\ run.status # "SUCCEEDED"
  BY DEF nextAction, BackoffOver, SuccessInv
<1>2. run'.status # "SUCCEEDED"
  BY <1>1 DEF nextAction, BackoffOver, Throws, Finishes, finish, Spawn
<1>3. s' = s /\ exit' \in {exit, Missing}
  BY DEF nextAction, BackoffOver, adapter, Spawn
<1>4. "pc" \in DOMAIN loop'
  BY DEF nextAction, BackoffOver, Throws, Finishes, finish, Spawn, SuccessInv, SessionTyped
<1> QED BY <1>1, <1>2, <1>3, <1>4 DEF SuccessInv, SessionTyped, SuccessIsReal

\* Timers, stops and the process group: after a success there is nothing left for
\* them to change.
LEMMA OthersAreReal ==
  ASSUME SuccessInv, Outside
  PROVE  SuccessInv'
<1>1. loop' = loop /\ (run.status = "SUCCEEDED" => run' = run) /\ (run'.status = "SUCCEEDED" => run' = run)
  <2>1. CASE \E reason : StopRun(reason)
    <3>1. run.status = "RUNNING" /\ run'.status = "FAILED" /\ loop' = loop BY <2>1 DEF StopRun
    <3> QED BY <3>1
  <2>2. CASE UNCHANGED <<loop, run>>
    BY <2>2
  <2> QED BY <2>1, <2>2 DEF Outside, CancelRun, Shutdown, HostExits, CommandOfCli, CliExits, KillTimer, TimeoutTimer
<1>2. exit' \in Exits \cup {Missing, Killed}
  BY DEF Outside, CancelRun, Shutdown, StopRun, HostExits, adapter, stop, CommandOfCli, CliExits, KillTimer, TimeoutTimer, SuccessInv, SessionTyped
<1>3. s' = s \/ s' = [s EXCEPT !.timedOut = TRUE] \/ s' = [s EXCEPT !.cancelled = TRUE]
  BY DEF Outside, CancelRun, Shutdown, StopRun, HostExits, adapter, stop, CommandOfCli, CliExits, KillTimer, TimeoutTimer
<1>4. SessionTyped' /\ s'.result = s.result
  <2>1. CASE s' = s BY <1>1, <2>1, <1>2 DEF SuccessInv, SessionTyped
  <2>2. CASE s' = [s EXCEPT !.timedOut = TRUE] BY <1>1, <2>2, <1>2 DEF SuccessInv, SessionTyped
  <2>3. CASE s' = [s EXCEPT !.cancelled = TRUE] BY <1>1, <2>3, <1>2 DEF SuccessInv, SessionTyped
  <2> QED BY <1>3, <2>1, <2>2, <2>3
<1>5. run.status = "SUCCEEDED" => s' = s /\ exit' = exit /\ child' = child
  <2> SUFFICES ASSUME run.status = "SUCCEEDED" PROVE s' = s /\ exit' = exit /\ child' = child
    OBVIOUS
  <2>1. child = "exited" /\ exit.code = "0" BY DEF SuccessInv, SuccessIsReal
  <2>2. ~StopRun("CANCELLED_BY_USER") /\ ~StopRun("SYSTEM_SHUTDOWN") BY DEF StopRun
  <2> QED BY <2>1, <2>2 DEF Outside, CancelRun, Shutdown, HostExits, adapter, CommandOfCli, CliExits, KillTimer, TimeoutTimer, Null
<1> QED BY <1>1, <1>4, <1>5 DEF SuccessInv, SuccessIsReal

\* A run is a success only if its CLI exited with 0, was neither stopped nor out
\* of time, and reported no error in what was kept of its output (nextAction,
\* parseStream).
THEOREM SuccessIsRealAlways == Spec => []SuccessIsReal
<1>1. Init => SuccessInv
  BY DEF Init, SuccessInv, SessionTyped, SuccessIsReal
<1>2. SuccessInv /\ [Next]_vars => SuccessInv'
  <2> SUFFICES ASSUME SuccessInv, [Next]_vars PROVE SuccessInv'
    OBVIOUS
  <2>1. CASE Closed BY <2>1, CliConstants, ClosedIsReal
  <2>2. CASE nextAction \/ BackoffOver BY <2>2, PollIsReal
  <2>3. CASE Outside BY <2>3, OthersAreReal
  <2>4. CASE Over \/ UNCHANGED vars
    BY <2>4 DEF Over, vars, SuccessInv, SessionTyped, SuccessIsReal
  <2> QED BY <2>1, <2>2, <2>3, <2>4 DEF Next, Outside
<1>3. SuccessInv => SuccessIsReal BY DEF SuccessInv
<1> QED BY <1>1, <1>2, <1>3, PTL DEF Spec

-----------------------------------------------------------------------------
(* A run on a CLI ends, and a stop reaches the process group: the part of     *)
(* RunSettles and StopKillsGroup that is safety.                              *)

\* While the daemon's process is there, whatever the loop still waits for is on its
\* way.  The close event needs the child and its group gone; a live child has a timer
\* that brings that about, and so has what an exited CLI left behind, unless CLIs do
\* leave something behind.  The loop backs off three times at most.
EndIsOwed ==
  /\ HostLives =>
       /\ loop.pc = "await" => \/ child = "exited" /\ ~kin
                               \/ child = "alive" /\ "timeout" \in timers
                               \/ "SIGKILL" \in timers
                               \/ child = "exited" /\ kin /\ Leftovers
       /\ s.cancelled /\ GroupLives => "SIGKILL" \in timers \/ (child = "exited" /\ kin /\ Leftovers)
  /\ loop.failures <= 3 /\ (loop.pc \in {"poll", "await"} => loop.failures < 3)

\* That invariant is inductive with what is known of a child: it has no exit code
\* while it lives, nothing but Leftovers outlives it without a SIGKILL to come, and
\* a stopped session is never polled for a new one.
GroupInv ==
  /\ LoopTyped
  /\ {"result", "failure", "cancelled", "timedOut"} \subseteq DOMAIN s
  /\ child \in {"none", "alive", "exited"} /\ kin \in BOOLEAN
  /\ child = "none" => ~kin /\ loop.pc # "await"
  /\ child = "alive" => exit.code = Null
  /\ HostLives /\ child = "exited" /\ kin => Leftovers \/ "SIGKILL" \in timers
  /\ s.cancelled => ~sessions /\ (HostLives /\ child = "alive" => "SIGKILL" \in timers)
  /\ EndIsOwed

\* A failure sends the loop into its backoff or ends it; so does a proposal to finish.
LEMMA ThrowsCounts ==
  ASSUME LoopTyped, NEW f, Throws(f), loop.failures < 3
  PROVE  loop'.pc \in {"backoff", "over"} /\ loop'.failures <= 3
BY DEF Throws, finish, LoopTyped

LEMMA FinishesCounts ==
  ASSUME LoopTyped, Finishes
  PROVE  loop'.pc = "over" /\ loop'.failures = loop.failures
BY DEF Finishes, finish, LoopTyped

\* A poll answers from what it has or starts the child and its time limit.
LEMMA PollOwes ==
  ASSUME GroupInv, nextAction
  PROVE  GroupInv'
<1>0. loop.pc = "poll" /\ loop.failures < 3 /\ host' = host
  BY DEF nextAction, GroupInv, EndIsOwed
<1>1. CASE (\E f : Throws(f)) /\ UNCHANGED adapter
  <2>1. LoopTyped' /\ loop'.pc \in {"backoff", "over"} /\ loop'.failures <= 3
    BY <1>0, <1>1, ThrowsLoop, ThrowsCounts DEF GroupInv
  <2> QED BY <1>0, <1>1, <2>1 DEF adapter, GroupInv, EndIsOwed, GroupLives, HostLives
<1>2. CASE Finishes /\ UNCHANGED adapter
  <2>1. LoopTyped' /\ loop'.pc = "over" /\ loop'.failures <= 3
    BY <1>0, <1>2, FinishesLoop, FinishesCounts DEF GroupInv, LoopTyped
  <2> QED BY <1>0, <1>2, <2>1 DEF adapter, GroupInv, EndIsOwed, GroupLives, HostLives
<1>3. CASE sessions /\ Spawn
  <2>1. LoopTyped' /\ loop'.pc = "await" /\ loop'.failures = loop.failures
    BY <1>3 DEF Spawn, GroupInv, LoopTyped
  <2>2. s' = s /\ ~s.cancelled
    BY <1>3 DEF Spawn, GroupInv
  <2>3. child' \in {"alive", "exited"} /\ exit'.code = Null /\ kin' = FALSE /\ "timeout" \in timers'
    BY <1>3 DEF Spawn, Missing
  <2> QED BY <1>0, <2>1, <2>2, <2>3 DEF GroupInv, EndIsOwed, GroupLives, HostLives
<1> QED BY <1>1, <1>2, <1>3 DEF nextAction

\* The close event: nothing of the group is left.
LEMMA ClosedOwes ==
  ASSUME GroupInv, Closed
  PROVE  GroupInv'
<1>0. /\ loop.failures < 3 /\ child = "exited" /\ ~kin /\ UNCHANGED <<sessions, child, exit, kin>>
      /\ "SIGKILL" \in timers => "SIGKILL" \in timers'
  BY DEF Closed, GroupInv, EndIsOwed
<1>1. LoopTyped' /\ loop'.pc \in {"backoff", "over"} /\ loop'.failures <= 3
  <2>1. CASE Finishes
    BY <1>0, <2>1, FinishesLoop, FinishesCounts DEF GroupInv, LoopTyped
  <2>2. CASE Throws(Outcome)
    BY <1>0, <2>2, ThrowsLoop, ThrowsCounts DEF GroupInv
  <2> QED BY <2>1, <2>2 DEF Closed
<1>2. /\ s'.cancelled = s.cancelled
      /\ {"result", "failure", "cancelled", "timedOut"} \subseteq DOMAIN s'
  <2>1. CASE s' = [s EXCEPT !.result = TRUE]
    BY <2>1 DEF GroupInv
  <2>2. CASE s' = [s EXCEPT !.failure = Outcome]
    BY <2>2 DEF GroupInv
  <2> QED BY <2>1, <2>2 DEF Closed
<1> QED BY <1>0, <1>1, <1>2 DEF GroupInv, EndIsOwed, GroupLives, HostLives

\* A stop marks the session and sets the timer for a child that lives.
LEMMA StopOwes ==
  ASSUME GroupInv, NEW reason, StopRun(reason), HostLives
  PROVE  GroupInv'
<1>1. /\ sessions' = FALSE /\ UNCHANGED <<child, exit, kin, loop>>
      /\ timers \subseteq timers'
      /\ child # "none" /\ exit.code = Null => "SIGKILL" \in timers'
  BY DEF StopRun, stop
<1>2. {"result", "failure", "cancelled", "timedOut"} \subseteq DOMAIN s'
  BY DEF StopRun, stop, GroupInv
<1> QED BY <1>1, <1>2 DEF GroupInv, EndIsOwed, LoopTyped, GroupLives

\* A run that is not RUNNING is left as it is by the shutdown; with the process all
\* that was owed is gone.
LEMMA HostOwes ==
  ASSUME GroupInv, Shutdown \/ HostExits
  PROVE  GroupInv'
<1>1. CASE Shutdown
  <2>1. HostLives /\ HostLives' BY <1>1 DEF Shutdown, HostLives
  <2>2. CASE UNCHANGED <<run, loop, adapter>>
    BY <2>1, <2>2 DEF adapter, GroupInv, EndIsOwed, LoopTyped, GroupLives
  <2> QED BY <1>1, <2>1, <2>2, StopOwes DEF Shutdown
<1>2. CASE HostExits
  <2>1. ~HostLives' /\ UNCHANGED <<sessions, s, child, exit, kin, loop>>
    BY <1>2 DEF HostExits, HostLives
  <2> QED BY <2>1 DEF GroupInv, EndIsOwed, LoopTyped, GroupLives, HostLives
<1> QED BY <1>1, <1>2

\* The group: what the CLI starts, and its exit.
LEMMA GroupOwes ==
  ASSUME GroupInv, CommandOfCli \/ CliExits
  PROVE  GroupInv'
<1>0. child = "alive" /\ UNCHANGED <<sessions, s, timers, loop, host>>
  BY DEF CommandOfCli, CliExits
<1>1. CASE CommandOfCli
  BY <1>0, <1>1 DEF CommandOfCli, GroupInv, EndIsOwed, LoopTyped, GroupLives, HostLives
<1>2. CASE CliExits
  <2>1. child' = "exited" /\ kin' \in BOOLEAN /\ (kin' => Leftovers \/ "SIGKILL" \in timers)
    BY <1>2 DEF CliExits, GroupInv
  <2> QED BY <1>0, <2>1 DEF GroupInv, EndIsOwed, LoopTyped, GroupLives, HostLives
<1> QED BY <1>1, <1>2

\* The timers: the time limit hands a live child over to the SIGKILL, and that ends
\* the whole group.
LEMMA TimersOwe ==
  ASSUME GroupInv, KillTimer \/ TimeoutTimer
  PROVE  GroupInv'
<1>1. CASE KillTimer
  <2>1. child' = "exited" /\ kin' = FALSE /\ UNCHANGED <<sessions, s, loop>>
    BY <1>1 DEF KillTimer
  <2> QED BY <2>1 DEF GroupInv, EndIsOwed, LoopTyped, GroupLives, HostLives
<1>2. CASE TimeoutTimer
  <2>0. UNCHANGED <<sessions, child, exit, kin, loop, host>>
    BY <1>2 DEF TimeoutTimer
  <2>1. /\ s'.cancelled = s.cancelled
        /\ {"result", "failure", "cancelled", "timedOut"} \subseteq DOMAIN s'
    <3>1. s' = s \/ s' = [s EXCEPT !.timedOut = TRUE]
      BY <1>2 DEF TimeoutTimer
    <3>2. CASE s' = [s EXCEPT !.timedOut = TRUE]
      BY <3>2 DEF GroupInv
    <3> QED BY <3>1, <3>2 DEF GroupInv
  <2>2. ("SIGKILL" \in timers => "SIGKILL" \in timers') /\ (child = "alive" => "SIGKILL" \in timers')
    BY <1>2 DEF TimeoutTimer
  <2> QED BY <2>0, <2>1, <2>2 DEF GroupInv, EndIsOwed, LoopTyped, GroupLives, HostLives
<1> QED BY <1>1, <1>2

\* A backoff ends the loop at the third failure and polls again before.
LEMMA BackoffOwes ==
  ASSUME GroupInv, BackoffOver
  PROVE  GroupInv'
<1>1. LoopTyped' /\ UNCHANGED <<adapter, host>> /\ loop'.failures = loop.failures
      /\ (loop'.pc = "over" \/ (loop'.pc = "poll" /\ loop.failures < 3))
  BY DEF BackoffOver, finish, GroupInv, LoopTyped
<1> QED BY <1>1 DEF adapter, GroupInv, EndIsOwed, GroupLives, HostLives

\* As long as the daemon's process is there, the loop never waits for a child that
\* nothing will end, and a stop, even one that races the exit of the CLI or its time
\* limit, leaves a SIGKILL pending as long as anything of the group lives (nextAction,
\* stop, killTree): the one exception are processes that outlive a CLI which exited by
\* itself.
THEOREM EndIsOwedAlways == Spec => []EndIsOwed
<1>1. Init => GroupInv
  <2> SUFFICES ASSUME Init PROVE GroupInv
    OBVIOUS
  <2>1. {"result", "failure", "cancelled", "timedOut"} \subseteq DOMAIN s /\ ~s.cancelled
    BY DEF Init
  <2>2. LoopTyped /\ loop.pc = "poll" /\ loop.failures = 0
    BY DEF Init, LoopTyped
  <2>3. child = "none" /\ ~kin /\ kin \in BOOLEAN
    BY DEF Init
  <2> QED BY <2>1, <2>2, <2>3 DEF GroupInv, EndIsOwed, GroupLives, HostLives
<1>2. GroupInv /\ [Next]_vars => GroupInv'
  <2> SUFFICES ASSUME GroupInv, [Next]_vars PROVE GroupInv'
    OBVIOUS
  <2>1. CASE Over \/ UNCHANGED vars
    BY <2>1 DEF Over, vars, GroupInv, EndIsOwed, LoopTyped, GroupLives, HostLives
  <2>2. CASE CancelRun
    BY <2>2, StopOwes DEF CancelRun, HostLives
  <2> QED BY <2>1, <2>2, PollOwes, ClosedOwes, HostOwes, GroupOwes, TimersOwe, BackoffOwes DEF Next
<1>3. GroupInv => EndIsOwed BY DEF GroupInv
<1> QED BY <1>1, <1>2, <1>3, PTL DEF Spec

-----------------------------------------------------------------------------
(* The terminals.                                                            *)

\* A shell that is gone ended somehow, and only a shell that was started is killed.
WellEnded(rec) ==
  /\ rec.proc = "gone" => rec.end # "none"
  /\ rec.timer => rec.proc # "none"

\* Every terminal is well ended, and no transition was refused.
TerminalInv ==
  /\ terminals \in Seq(Terminal)
  /\ \A t \in 1..Len(terminals) : WellEnded(terminals[t])
  /\ illegal = FALSE

\* No terminal is open yet.
LEMMA TerminalInit == TerminalsInit => TerminalInv
BY DEF TerminalsInit, TerminalInv

\* A step of one terminal.
LEMMA OneTerminalStep ==
  ASSUME TerminalInv, NEW t \in DOMAIN terminals, NEW rec \in Terminal,
         terminals' = [terminals EXCEPT ![t] = rec], illegal' = FALSE, WellEnded(rec)
  PROVE  TerminalInv'
<1>1. terminals \in Seq(Terminal) /\ t \in 1..Len(terminals)
  BY DEF TerminalInv
<1>2. terminals' \in Seq(Terminal) /\ Len(terminals') = Len(terminals)
  BY <1>1
<1>3. \A u \in 1..Len(terminals) : terminals'[u] = IF u = t THEN rec ELSE terminals[u]
  BY <1>1
<1> QED BY <1>2, <1>3 DEF TerminalInv

\* A step of all terminals at once.
LEMMA AllTerminalsStep ==
  ASSUME TerminalInv, illegal' = FALSE,
         terminals' \in Seq(Terminal), Len(terminals') = Len(terminals),
         \A t \in 1..Len(terminals) : WellEnded(terminals'[t])
  PROVE  TerminalInv'
BY DEF TerminalInv

\* Every terminal is what it is made of.
LEMMA EveryTerminal ==
  ASSUME TerminalInv, NEW t \in DOMAIN terminals
  PROVE  /\ terminals[t] \in Terminal /\ WellEnded(terminals[t])
         /\ terminals[t].status \in Statuses /\ terminals[t].proc \in {"none", "alive", "gone"}
         /\ terminals[t].end \in {"none", "code 0", "code 1", "signal"}
         /\ terminals[t].told \in BOOLEAN /\ terminals[t].timer \in BOOLEAN
<1>1. terminals[t] \in Terminal /\ WellEnded(terminals[t])
  BY DEF TerminalInv
<1> QED BY <1>1 DEF Terminal

\* A request is answered with a new terminal, through states that follow each other.
LEMMA CreateStep ==
  ASSUME TerminalInv, create
  PROVE  TerminalInv'
<1>1. PICK status \in Statuses, proc \in {"none", "alive"}, pty \in BOOLEAN :
        terminals' = Append(terminals, NewTerminal(status, proc, pty))
  BY TerminalConstants DEF create, TerminalConstants, Statuses
<1> DEFINE rec == NewTerminal(status, proc, pty)
<1>2. rec \in Terminal /\ WellEnded(rec)
  BY DEF NewTerminal, Terminal, WellEnded
<1>3. illegal' = FALSE
  <2>1. ~Refused("CREATED", "STARTING") /\ ~Refused("STARTING", "RUNNING") /\ ~Refused("STARTING", "FAILED")
    BY DEF Refused, Legal
  <2> QED BY <2>1 DEF create, TerminalInv
<1>4. terminals' = Append(terminals, rec)
  BY <1>1
<1> HIDE DEF rec
<1>5. /\ terminals' \in Seq(Terminal) /\ Len(terminals') = Len(terminals) + 1 /\ Len(terminals) \in Nat
      /\ \A t \in 1..Len(terminals) : terminals'[t] = terminals[t]
      /\ terminals'[Len(terminals) + 1] = rec
  BY <1>2, <1>4 DEF TerminalInv
<1>6. ASSUME NEW t \in 1..Len(terminals') PROVE WellEnded(terminals'[t])
  <2>1. CASE t \in 1..Len(terminals) BY <1>5, <2>1 DEF TerminalInv
  <2>2. CASE t = Len(terminals) + 1 BY <1>2, <1>5, <2>2
  <2> QED BY <1>5, <2>1, <2>2
<1> QED BY <1>3, <1>5, <1>6 DEF TerminalInv

\* The shell ends, on its own or by the timer that a kill has set.
LEMMA EndStep ==
  ASSUME TerminalInv, NEW t \in DOMAIN terminals, ShellEnds(t) \/ TerminalKillTimer(t)
  PROVE  TerminalInv'
<1> DEFINE old == terminals[t]
<1>0. old \in Terminal /\ WellEnded(old)
  BY EveryTerminal
<1>1. PICK end \in {"none", "code 0", "code 1", "signal"}, timer \in BOOLEAN :
        /\ end # "none"
        /\ terminals' = [terminals EXCEPT ![t] = [old EXCEPT !.proc = "gone", !.end = end, !.timer = timer]]
  <2>1. CASE ShellEnds(t)
    <3>1. PICK e \in {"code 0", "code 1", "signal"} :
            terminals' = [terminals EXCEPT ![t] = [old EXCEPT !.proc = "gone", !.end = e]]
      BY <2>1 DEF ShellEnds
    <3>2. [old EXCEPT !.proc = "gone", !.end = e] = [old EXCEPT !.proc = "gone", !.end = e, !.timer = old.timer]
      BY <1>0 DEF Terminal
    <3> QED BY <3>1, <3>2, EveryTerminal
  <2>2. CASE TerminalKillTimer(t)
    <3> DEFINE e == IF old.proc = "alive" THEN "signal" ELSE old.end
    <3>1. terminals' = [terminals EXCEPT ![t] = [old EXCEPT !.timer = FALSE, !.proc = "gone", !.end = e]]
      BY <2>2 DEF TerminalKillTimer
    <3>2. old.proc \in {"alive", "gone"} /\ e \in {"code 0", "code 1", "signal"}
      BY <2>2, EveryTerminal DEF TerminalKillTimer, WellEnded
    <3> HIDE DEF e
    <3>3. [old EXCEPT !.timer = FALSE, !.proc = "gone", !.end = e] = [old EXCEPT !.proc = "gone", !.end = e, !.timer = FALSE]
      BY <1>0 DEF Terminal
    <3> QED BY <3>1, <3>2, <3>3
  <2> QED BY <2>1, <2>2
<1> DEFINE new == [old EXCEPT !.proc = "gone", !.end = end, !.timer = timer]
<1>2. new \in Terminal /\ new.proc = "gone" /\ new.end = end
  BY <1>0, <1>1 DEF Terminal
<1>3. terminals' = [terminals EXCEPT ![t] = new] /\ illegal' = FALSE
  BY <1>1 DEF ShellEnds, TerminalKillTimer, TerminalInv
<1> HIDE DEF new
<1>4. WellEnded(new)
  BY <1>1, <1>2 DEF WellEnded
<1> QED BY <1>2, <1>3, <1>4, OneTerminalStep

\* The end of a shell is heard: a running terminal moves to one of the three ends,
\* which is legal, and one that was killed meanwhile stays as it is.
LEMMA HeardStep ==
  ASSUME TerminalInv, NEW t \in DOMAIN terminals, EndHandled(t)
  PROVE  TerminalInv'
<1> DEFINE old == terminals[t]
           heard == [old EXCEPT !.told = TRUE]
<1>0. old \in Terminal /\ WellEnded(old) /\ old.proc = "gone" /\ old.end \in {"code 0", "code 1", "signal"}
  BY EveryTerminal DEF EndHandled, WellEnded
<1>1. /\ heard.status = old.status /\ heard.end = old.end /\ heard \in Terminal
  BY <1>0 DEF Terminal
<1>2. PICK status \in Statuses :
        /\ illegal' = FALSE
        /\ terminals' = [terminals EXCEPT ![t] = [heard EXCEPT !.status = status]]
  <2>1. CASE heard.status = "RUNNING"
    <3> DEFINE to == CASE heard.end = "signal" -> "CANCELLED"
                       [] heard.end = "code 0" -> "EXITED"
                       [] heard.end = "code 1" -> "FAILED"
    <3>1. to \in Ended
      BY <1>0, <1>1 DEF Ended
    <3>2. transition(t, heard, to)
      BY <2>1 DEF EndHandled
    <3>3. Moved(heard.status, to) = to /\ ~Refused(heard.status, to) /\ to \in Statuses
      <4> HIDE DEF to, heard
      <4>1. Legal(heard.status, to) /\ to \in Statuses
        BY <2>1, <3>1 DEF Legal, Ended, Statuses
      <4> QED BY <4>1 DEF Moved, Refused
    <3> HIDE DEF to, heard
    <3>4. illegal' = FALSE
      BY <3>2, <3>3 DEF transition, TerminalInv
    <3>5. terminals' = [terminals EXCEPT ![t] = [heard EXCEPT !.status = to]]
      BY <3>2, <3>3 DEF transition
    <3> QED BY <3>3, <3>4, <3>5
  <2>2. CASE heard.status # "RUNNING"
    <3>1. terminals' = [terminals EXCEPT ![t] = heard] /\ illegal' = illegal
      BY <2>2 DEF EndHandled
    <3>2. heard = [heard EXCEPT !.status = old.status]
      BY <1>0 DEF Terminal
    <3>3. illegal' = FALSE
      BY <3>1 DEF TerminalInv
    <3> QED BY <3>1, <3>2, <3>3, EveryTerminal
  <2> QED BY <2>1, <2>2
<1> DEFINE new == [heard EXCEPT !.status = status]
<1>3. /\ new \in Terminal /\ new.proc = old.proc /\ new.end = old.end /\ new.timer = old.timer
  BY <1>0 DEF Terminal
<1>4. terminals' = [terminals EXCEPT ![t] = new]
  BY <1>2
<1> HIDE DEF new
<1>5. WellEnded(new)
  BY <1>0, <1>3 DEF WellEnded
<1> QED BY <1>2, <1>3, <1>4, <1>5, OneTerminalStep

\* A kill cancels what has not ended, which every state before the end allows.
LEMMA KilledStaysTerminal ==
  ASSUME NEW old \in Terminal, WellEnded(old)
  PROVE  KilledSession(old) \in Terminal /\ WellEnded(KilledSession(old)) /\ ~KillRefused(old)
<1>1. old.timer \in BOOLEAN /\ old.status \in Statuses
  BY DEF Terminal
<1>2. Legal(old.status, "CANCELLED") \/ old.status \in Ended
  BY <1>1 DEF Legal, Statuses, Ended
<1>3. PICK timer \in BOOLEAN, status \in Statuses :
        /\ KilledSession(old) = [old EXCEPT !.timer = timer, !.status = status]
        /\ timer => old.timer \/ old.proc = "alive"
  <2>1. Moved(old.status, "CANCELLED") \in Statuses
    BY <1>1 DEF Moved, Statuses
  <2> QED BY <1>1, <2>1 DEF KilledSession
<1> DEFINE new == [old EXCEPT !.timer = timer, !.status = status]
<1>4. new \in Terminal /\ new.proc = old.proc /\ new.end = old.end /\ new.timer = timer
  BY DEF Terminal
<1>5. WellEnded(new)
  <2> HIDE DEF new
  <2> QED BY <1>3, <1>4 DEF WellEnded
<1>6. ~KillRefused(old)
  BY <1>2 DEF KillRefused, Refused
<1> QED BY <1>3, <1>4, <1>5, <1>6

\* A user's kill, of one terminal.
LEMMA KillStep ==
  ASSUME TerminalInv, NEW t \in DOMAIN terminals, kill(t)
  PROVE  TerminalInv'
<1>1. /\ KilledSession(terminals[t]) \in Terminal /\ WellEnded(KilledSession(terminals[t]))
      /\ ~KillRefused(terminals[t])
  BY EveryTerminal, KilledStaysTerminal
<1>2. terminals' = [terminals EXCEPT ![t] = KilledSession(terminals[t])] /\ illegal' = FALSE
  BY <1>1 DEF kill, TerminalInv
<1> QED BY <1>1, <1>2, OneTerminalStep

\* All terminals at once are killed.
LEMMA ShutdownStep ==
  ASSUME TerminalInv, ShutdownKillsTerminals
  PROVE  TerminalInv'
<1>1. \A t \in 1..Len(terminals) : terminals[t] \in Terminal /\ WellEnded(terminals[t])
  BY DEF TerminalInv
<1>2. \A t \in 1..Len(terminals) : /\ KilledSession(terminals[t]) \in Terminal
                                   /\ WellEnded(KilledSession(terminals[t]))
                                   /\ ~KillRefused(terminals[t])
  BY <1>1, KilledStaysTerminal
<1>3. terminals' = [t \in 1..Len(terminals) |-> KilledSession(terminals[t])] /\ illegal' = FALSE
  <2>1. DOMAIN terminals = 1..Len(terminals)
    BY DEF TerminalInv
  <2> QED BY <1>2, <2>1 DEF ShutdownKillsTerminals, TerminalInv
<1>4. terminals' \in Seq(Terminal) /\ Len(terminals') = Len(terminals)
  BY <1>2, <1>3 DEF TerminalInv
<1> QED BY <1>2, <1>3, <1>4, AllTerminalsStep

\* The daemon is gone: its timers are.
LEMMA GoneStep ==
  ASSUME TerminalInv, DaemonGone, UNCHANGED illegal
  PROVE  TerminalInv'
<1> DEFINE still(t) == [terminals[t] EXCEPT !.timer = FALSE]
<1>1. terminals' = [t \in 1..Len(terminals) |-> still(t)] /\ illegal' = FALSE
  BY DEF DaemonGone, TerminalInv
<1>2. ASSUME NEW t \in 1..Len(terminals)
      PROVE  still(t) \in Terminal /\ WellEnded(still(t))
  <2>0. terminals[t] \in Terminal /\ WellEnded(terminals[t])
    BY DEF TerminalInv
  <2>1. /\ still(t) \in Terminal /\ still(t).proc = terminals[t].proc
        /\ still(t).end = terminals[t].end /\ still(t).timer = FALSE
    BY <2>0 DEF Terminal
  <2> HIDE DEF still
  <2> QED BY <2>0, <2>1 DEF WellEnded
<1> HIDE DEF still
<1>3. terminals' \in Seq(Terminal) /\ Len(terminals') = Len(terminals)
  BY <1>1, <1>2 DEF TerminalInv
<1> QED BY <1>1, <1>2, <1>3, AllTerminalsStep

-----------------------------------------------------------------------------

\* Every step preserves the invariant.
LEMMA TerminalNext == TerminalInv /\ [TerminalsNext]_terminalsVars => TerminalInv'
<1> SUFFICES ASSUME TerminalInv, [TerminalsNext]_terminalsVars PROVE TerminalInv'
  OBVIOUS
<1>1. CASE UNCHANGED <<terminals, illegal>>
  BY <1>1 DEF TerminalInv
<1>2. CASE RequestTerminal \/ SIGTERM \/ Stopped \/ UNCHANGED terminalsVars
  BY <1>1, <1>2 DEF RequestTerminal, SIGTERM, Stopped, terminalsVars
<1>3. CASE Exit \/ \E t \in DOMAIN terminals : SpawnError(t)
  BY <1>3, GoneStep DEF Exit, SpawnError
<1>4. CASE \E t \in DOMAIN terminals : ShellEnds(t) \/ EndHandled(t) \/ kill(t) \/ TerminalKillTimer(t)
  BY <1>4, EndStep, HeardStep, KillStep
<1> QED BY <1>2, <1>3, <1>4, CreateStep, ShutdownStep DEF TerminalsNext

\* The invariant holds of every reachable state.
LEMMA TerminalInvariant == TerminalsSpec => []TerminalInv
BY TerminalInit, TerminalNext, PTL DEF TerminalsSpec

\* Whatever kills, ends, failed starts and the shutdown do to a session, no handler
\* ever asks for a transition that the state machine refuses.
THEOREM TransitionsLegalAlways == TerminalsSpec => []TransitionsLegal
<1>1. TerminalInv => TransitionsLegal
  BY DEF TerminalInv, TransitionsLegal
<1> QED BY <1>1, TerminalInvariant, PTL

-----------------------------------------------------------------------------
(* A killed shell dies: the part of KilledShellDies that is safety.          *)

\* A piped shell that survived its kill has the SIGKILL pending, as long as there is a
\* daemon to send it.
Doomed(rec) == rec.proc = "alive" /\ ~rec.pty /\ rec.status = "CANCELLED" => rec.timer
KillIsPending == daemon # "exited" => \A t \in 1..Len(terminals) : Doomed(terminals[t])

\* A step of one terminal that leaves it doomed or out of danger.
LEMMA OneDoomed ==
  ASSUME TerminalInv, KillIsPending, NEW t \in DOMAIN terminals, NEW rec, Doomed(rec),
         terminals' = [terminals EXCEPT ![t] = rec], UNCHANGED daemon
  PROVE  KillIsPending'
<1>1. terminals \in Seq(Terminal) /\ t \in 1..Len(terminals) /\ DOMAIN terminals = 1..Len(terminals)
  BY DEF TerminalInv
<1>2. /\ Len(terminals') = Len(terminals)
      /\ \A u \in 1..Len(terminals) : terminals'[u] = IF u = t THEN rec ELSE terminals[u]
  <2>1. DOMAIN terminals' = 1..Len(terminals) BY <1>1
  <2>2. Len(terminals') = Len(terminals) BY <1>1, <2>1
  <2> QED BY <1>1, <2>2
<1> QED BY <1>2 DEF KillIsPending

\* A kill dooms the shell it finds alive, whatever the status was.
LEMMA KilledIsDoomed ==
  ASSUME NEW old \in Terminal
  PROVE  Doomed(KilledSession(old))
<1>1. old.timer \in BOOLEAN /\ old.pty \in BOOLEAN
  BY DEF Terminal
<1>2. /\ KilledSession(old).proc = old.proc /\ KilledSession(old).pty = old.pty
      /\ KilledSession(old).timer = (old.timer \/ (old.proc = "alive" /\ ~old.pty))
  BY DEF KilledSession, Terminal
<1> QED BY <1>1, <1>2 DEF Doomed

LEMMA ShellStepPending ==
  ASSUME TerminalInv, KillIsPending, NEW t \in DOMAIN terminals,
         ShellEnds(t) \/ EndHandled(t) \/ kill(t) \/ TerminalKillTimer(t)
  PROVE  KillIsPending'
<1> DEFINE old == terminals[t]
<1>0. old \in Terminal /\ UNCHANGED daemon
  BY EveryTerminal DEF ShellEnds, EndHandled, kill, TerminalKillTimer
<1>1. CASE ShellEnds(t) \/ TerminalKillTimer(t)
  <2>1. PICK new : terminals' = [terminals EXCEPT ![t] = new] /\ new.proc = "gone"
    <3>1. CASE ShellEnds(t)
      <4>1. PICK e : terminals' = [terminals EXCEPT ![t] = [old EXCEPT !.proc = "gone", !.end = e]]
        BY <3>1 DEF ShellEnds
      <4>2. [old EXCEPT !.proc = "gone", !.end = e].proc = "gone"
        BY <1>0 DEF Terminal
      <4> QED BY <4>1, <4>2
    <3>2. CASE TerminalKillTimer(t)
      <4>1. PICK e : terminals' = [terminals EXCEPT ![t] = [old EXCEPT !.timer = FALSE, !.proc = "gone", !.end = e]]
        BY <3>2 DEF TerminalKillTimer
      <4>2. [old EXCEPT !.timer = FALSE, !.proc = "gone", !.end = e].proc = "gone"
        BY <1>0 DEF Terminal
      <4> QED BY <4>1, <4>2
    <3> QED BY <1>1, <3>1, <3>2
  <2> QED BY <1>0, <2>1, OneDoomed DEF Doomed
<1>2. CASE EndHandled(t)
  <2>1. PICK new : terminals' = [terminals EXCEPT ![t] = new] /\ new.proc = "gone"
    <3> DEFINE heard == [old EXCEPT !.told = TRUE]
    <3>1. heard.proc = "gone" /\ heard \in Terminal
      BY <1>0, <1>2 DEF EndHandled, Terminal
    <3>2. \A status : [heard EXCEPT !.status = status].proc = "gone"
      BY <3>1 DEF Terminal
    <3>3. terminals' = [terminals EXCEPT ![t] = heard]
          \/ \E status : terminals' = [terminals EXCEPT ![t] = [heard EXCEPT !.status = status]]
      BY <1>2 DEF EndHandled, transition
    <3> QED BY <3>1, <3>2, <3>3
  <2> QED BY <1>0, <2>1, OneDoomed DEF Doomed
<1>3. CASE kill(t)
  BY <1>0, <1>3, KilledIsDoomed, OneDoomed DEF kill
<1> QED BY <1>1, <1>2, <1>3

LEMMA CreatePending ==
  ASSUME TerminalInv, KillIsPending, create
  PROVE  KillIsPending'
<1>1. PICK rec : terminals' = Append(terminals, rec) /\ rec.status # "CANCELLED"
  BY DEF create, NewTerminal
<1>2. terminals \in Seq(Terminal) /\ Doomed(rec) /\ UNCHANGED daemon /\ daemon # "exited"
  BY <1>1 DEF TerminalInv, create, Doomed, Live
<1>3. /\ Len(terminals') = Len(terminals) + 1
      /\ \A t \in 1..Len(terminals) : terminals'[t] = terminals[t]
      /\ terminals'[Len(terminals) + 1] = rec
  <2>1. terminals \in Seq(Terminal \cup {rec}) BY <1>2
  <2> QED BY <1>1, <2>1
<1>4. Len(terminals) \in Nat BY <1>2
<1> QED BY <1>2, <1>3, <1>4 DEF KillIsPending

LEMMA ShutdownPending ==
  ASSUME TerminalInv, ShutdownKillsTerminals
  PROVE  KillIsPending'
<1>1. terminals' = [t \in 1..Len(terminals) |-> KilledSession(terminals[t])]
  BY DEF ShutdownKillsTerminals, TerminalInv
<1>2. \A t \in 1..Len(terminals) : Doomed(terminals'[t])
  <2>1. \A t \in 1..Len(terminals) : terminals[t] \in Terminal BY DEF TerminalInv
  <2> QED BY <1>1, <2>1, KilledIsDoomed
<1>3. Len(terminals') = Len(terminals)
  BY <1>1 DEF TerminalInv
<1> QED BY <1>2, <1>3 DEF KillIsPending

\* Kills, ends and the shutdown may race as they like: no piped shell that a kill left
\* alive is without its SIGKILL while the daemon lives (TerminalService.kill, killAll).
\* A shell on a pty only gets the hangup, and the daemon's exit takes the timers with
\* it.
THEOREM KillIsPendingAlways == TerminalsSpec => []KillIsPending
<1>1. TerminalsInit => KillIsPending
  BY DEF TerminalsInit, KillIsPending
<1>2. TerminalInv /\ KillIsPending /\ [TerminalsNext]_terminalsVars => KillIsPending'
  <2> SUFFICES ASSUME TerminalInv, KillIsPending, [TerminalsNext]_terminalsVars PROVE KillIsPending'
    OBVIOUS
  <2>1. CASE UNCHANGED terminals /\ (daemon' = daemon \/ daemon = "up")
    BY <2>1 DEF KillIsPending
  <2>2. CASE RequestTerminal \/ SIGTERM \/ Stopped \/ UNCHANGED terminalsVars
    BY <2>1, <2>2 DEF RequestTerminal, SIGTERM, Stopped, terminalsVars
  <2>3. CASE Exit \/ \E t \in DOMAIN terminals : SpawnError(t)
    BY <2>3 DEF Exit, SpawnError, DaemonGone, KillIsPending
  <2> QED BY <2>2, <2>3, ShellStepPending, CreatePending, ShutdownPending DEF TerminalsNext
<1> QED BY <1>1, <1>2, TerminalInvariant, PTL DEF TerminalsSpec

-----------------------------------------------------------------------------
(* The panel.                                                                *)

Shells == [running: BOOLEAN, open: BOOLEAN, seq: Nat, ring: Seq(Nat)]

\* The chunks that the ring of a terminal holds.
Held(rec) == {rec.ring[i] : i \in DOMAIN rec.ring}

\* Up to number n, what is held was seen.
UpTo(n, seen, rec) == n <= rec.seq /\ \A k \in 1..n : k \in seen \/ k \notin Held(rec)

\* The panel has seen what it passed over, and so will it when it gets the answer
\* to any poll of the terminal it shows, whichever arrives first.
Covers(p, rec) ==
  /\ UpTo(p.latest, p.seen, rec)
  /\ \A a \in p.polls : a.of = p.shown => UpTo(a.output.latest, p.seen \cup a.output.chunks, rec)

\* Starts, kills and polls on their way are about terminals there are.  Nobody polls
\* or kills a terminal before it is shown, so no answer about it is on its way then.
Known(p, n) ==
  /\ p.shown \in 0..n /\ p.opened \subseteq 1..n /\ p.kills \subseteq 1..n
  /\ p.shown \notin p.opened /\ p.kills \cap p.opened = {}
  /\ \A a \in p.polls : a.of \in 1..n /\ a.of \notin p.opened

Numbered(p) ==
  /\ p.latest \in Nat
  /\ \A a \in p.polls : a.output.latest \in Nat

PanelInv ==
  /\ shells \in Seq(Shells)
  /\ {"shown", "running", "latest", "seen", "polls", "opened", "kills"} \subseteq DOMAIN panel
  /\ Numbered(panel) /\ Known(panel, Len(shells))
  /\ panel.shown # 0 /\ ~strayed => Covers(panel, shells[panel.shown])

\* The panel shows nothing yet.
LEMMA PanelStarts == PanelInit => PanelInv
BY DEF PanelInit, PanelInv, NewPanel, Numbered, Known

\* Whatever happens to a terminal, the ring only forgets, or holds later chunks.
Grows(old, new) ==
  /\ old.seq <= new.seq
  /\ \A n \in Held(new) : n \in Held(old) \/ n > old.seq

\* A panel that covers a terminal still does when the ring forgets or takes more.
LEMMA GrowthKeepsCovers ==
  ASSUME NEW p, Numbered(p), NEW old \in Shells, NEW new \in Shells,
         Grows(old, new), Covers(p, old)
  PROVE  Covers(p, new)
<1>1. old.seq \in Nat /\ new.seq \in Nat
  BY DEF Shells
<1>2. ASSUME NEW n \in Nat, NEW seen, UpTo(n, seen, old)
      PROVE  UpTo(n, seen, new)
  BY <1>1, <1>2 DEF UpTo, Grows
<1> QED BY <1>2 DEF Covers, Numbered

\* A step of one terminal under a panel that goes on as it was.
LEMMA OneShellStep ==
  ASSUME PanelInv, NEW t \in DOMAIN shells, NEW rec \in Shells, Grows(shells[t], rec),
         shells' = [shells EXCEPT ![t] = rec], panel' = panel, strayed' = strayed
  PROVE  PanelInv'
<1>1. shells \in Seq(Shells) /\ t \in 1..Len(shells)
  BY DEF PanelInv
<1>2. shells' \in Seq(Shells) /\ Len(shells') = Len(shells)
  BY <1>1
<1>3. ASSUME panel.shown # 0, ~strayed PROVE Covers(panel, shells'[panel.shown])
  <2>1. /\ panel.shown \in 1..Len(shells) /\ Covers(panel, shells[panel.shown]) /\ Numbered(panel)
        /\ shells[panel.shown] \in Shells
    BY <1>1, <1>3 DEF PanelInv, Known
  <2>2. CASE panel.shown = t
    <3>1. shells'[panel.shown] = rec BY <1>1, <2>2
    <3> QED BY <2>1, <2>2, <3>1, GrowthKeepsCovers
  <2>3. CASE panel.shown # t
    <3>1. shells'[panel.shown] = shells[panel.shown] BY <1>1, <2>1, <2>3
    <3> QED BY <2>1, <3>1
  <2> QED BY <2>2, <2>3
<1> QED BY <1>2, <1>3 DEF PanelInv

\* A shell prints: the ring takes the next chunk and may drop its oldest.
LEMMA OutputStep ==
  ASSUME PanelInv, NEW t \in DOMAIN shells, pushOutput(t)
  PROVE  PanelInv'
<1> DEFINE old == shells[t]
           seq == old.seq + 1
           longer == Append(old.ring, seq)
           ring == IF Len(longer) > RingLimit THEN Tail(longer) ELSE longer
           rec == [old EXCEPT !.seq = seq, !.ring = ring]
<1>1. old \in Shells /\ old.seq \in Nat /\ old.ring \in Seq(Nat) /\ seq \in Nat
  <2>1. old \in Shells BY DEF PanelInv
  <2> QED BY <2>1 DEF Shells
<1>2. /\ longer \in Seq(Nat) /\ longer # <<>>
      /\ \A i \in DOMAIN longer : longer[i] \in Held(old) \/ longer[i] = seq
  <2>0. \A S : \A r \in Seq(S), n \in S : /\ Append(r, n) \in Seq(S) /\ Append(r, n) # <<>>
                                         /\ Len(Append(r, n)) = Len(r) + 1
    OBVIOUS
  <2>1. longer \in Seq(Nat) /\ longer # <<>> /\ Len(longer) = Len(old.ring) + 1
    <3> HIDE DEF seq, old
    <3> QED BY <1>1, <2>0, Zenon
  <2>2. ASSUME NEW i \in 1..Len(longer) PROVE longer[i] \in Held(old) \/ longer[i] = seq
    <3>1. CASE i \in 1..Len(old.ring)
      <4>1. longer[i] = old.ring[i] BY <1>1, <3>1
      <4> QED BY <1>1, <3>1, <4>1 DEF Held
    <3>2. CASE i = Len(old.ring) + 1
      BY <1>1, <3>2
    <3> QED BY <1>1, <2>1, <3>1, <3>2
  <2>3. DOMAIN longer = 1..Len(longer)
    <3> HIDE DEF longer
    <3> QED BY <2>1
  <2> HIDE DEF longer, seq
  <2> QED BY <2>1, <2>2, <2>3
<1>3. ring \in Seq(Nat) /\ \A i \in DOMAIN ring : \E j \in DOMAIN longer : ring[i] = longer[j]
  <2> HIDE DEF longer
  <2>1. CASE Len(longer) > RingLimit
    <3>1. ring = Tail(longer) BY <2>1
    <3>2. Tail(longer) \in Seq(Nat) /\ \A i \in DOMAIN Tail(longer) : i + 1 \in DOMAIN longer /\ Tail(longer)[i] = longer[i + 1]
      BY <1>2
    <3> QED BY <3>1, <3>2
  <2>2. CASE ~(Len(longer) > RingLimit)
    BY <1>2, <2>2
  <2> QED BY <2>1, <2>2
<1>4. rec \in Shells /\ rec.seq = seq /\ rec.ring = ring
  <2> HIDE DEF ring, seq
  <2> QED BY <1>1, <1>3 DEF Shells
<1>5. Grows(old, rec)
  <2>1. old.seq <= seq /\ seq > old.seq
    BY <1>1
  <2>2. \A n \in Held(rec) : n \in Held(old) \/ n > old.seq
    <3> HIDE DEF rec, ring, longer, seq
    <3> QED BY <1>2, <1>3, <1>4, <2>1 DEF Held
  <2> HIDE DEF rec, seq
  <2> QED BY <1>4, <2>1, <2>2 DEF Grows
<1>6. shells' = [shells EXCEPT ![t] = rec] /\ panel' = panel /\ strayed' = strayed
  BY DEF pushOutput
<1> HIDE DEF rec
<1> QED BY <1>4, <1>5, <1>6, OneShellStep

\* A shell that is over, or killed, has printed what it has printed.
LEMMA QuietGrows ==
  ASSUME NEW old \in Shells, NEW running \in BOOLEAN, NEW open \in BOOLEAN
  PROVE  LET new == [old EXCEPT !.running = running, !.open = open]
         IN new \in Shells /\ Grows(old, new)
<1> DEFINE new == [old EXCEPT !.running = running, !.open = open]
<1>1. new \in Shells /\ new.seq = old.seq /\ new.ring = old.ring /\ old.seq \in Nat
  BY DEF Shells
<1> HIDE DEF new
<1>2. Grows(old, new)
  BY <1>1 DEF Grows, Held
<1> QED BY <1>1, <1>2 DEF new

LEMMA OverStep ==
  ASSUME PanelInv, NEW t \in DOMAIN shells, ShellOver(t)
  PROVE  PanelInv'
<1>1. shells[t] \in Shells /\ shells[t].open \in BOOLEAN
  <2>1. shells[t] \in Shells BY DEF PanelInv
  <2> QED BY <2>1 DEF Shells
<1>2. PICK open \in BOOLEAN :
        shells' = [shells EXCEPT ![t] = [shells[t] EXCEPT !.running = FALSE, !.open = open]]
  BY <1>1 DEF ShellOver
<1>3. panel' = panel /\ strayed' = strayed
  BY DEF ShellOver
<1> QED BY <1>1, <1>2, <1>3, QuietGrows, OneShellStep

\* A step of the panel alone.
LEMMA PanelStep ==
  ASSUME PanelInv, NEW p, panel' = p, shells' = shells,
         {"shown", "running", "latest", "seen", "polls", "opened", "kills"} \subseteq DOMAIN p,
         Numbered(p), Known(p, Len(shells)),
         p.shown # 0 /\ ~strayed' => Covers(p, shells[p.shown])
  PROVE  PanelInv'
BY DEF PanelInv

\* The kill button kills the terminal shown, whose start was answered.
LEMMA KillButtonStep ==
  ASSUME PanelInv, KillButton
  PROVE  PanelInv'
<1> DEFINE t == panel.shown
           p == [panel EXCEPT !.kills = @ \cup {t}]
           rec == [shells[t] EXCEPT !.running = FALSE]
<1>1. t \in 1..Len(shells) /\ shells[t] \in Shells /\ shells \in Seq(Shells)
  BY DEF KillButton, Alive, PanelInv, Known
<1>2. rec \in Shells /\ Grows(shells[t], rec)
  <2>1. shells[t].open \in BOOLEAN /\ rec = [shells[t] EXCEPT !.running = FALSE, !.open = shells[t].open]
    BY <1>1 DEF Shells
  <2> QED BY <1>1, <2>1, QuietGrows
<1>3. shells' = [shells EXCEPT ![t] = rec] /\ panel' = p /\ strayed' = strayed
  BY DEF KillButton
<1>4. /\ p.shown = panel.shown /\ p.latest = panel.latest /\ p.seen = panel.seen /\ p.polls = panel.polls
      /\ p.opened = panel.opened /\ p.kills = panel.kills \cup {t} /\ DOMAIN p = DOMAIN panel
  BY DEF PanelInv
<1>5. shells' \in Seq(Shells) /\ Len(shells') = Len(shells) /\ shells'[t] = rec
  <2> HIDE DEF rec
  <2> QED BY <1>1, <1>2, <1>3
<1> HIDE DEF p, rec
<1>6. ~strayed => Covers(p, rec)
  <2>1. ~strayed => Covers(panel, rec)
    BY <1>1, <1>2, GrowthKeepsCovers DEF PanelInv
  <2> QED BY <1>4, <2>1 DEF Covers
<1>7. Known(p, Len(shells)) /\ Numbered(p)
  BY <1>1, <1>4 DEF PanelInv, Known, Numbered
<1> QED BY <1>3, <1>4, <1>5, <1>6, <1>7 DEF PanelInv

\* A terminal is created: nothing is shown of it and nothing asked about it.
LEMMA OpenStep ==
  ASSUME PanelInv, OpenShell
  PROVE  PanelInv'
<1> DEFINE n == Len(shells)
           p == [panel EXCEPT !.opened = @ \cup {n + 1}]
<1>1. shells \in Seq(Shells) /\ n \in Nat /\ NewShell \in Shells
  BY DEF PanelInv, NewShell, Shells
<1>2. shells' = Append(shells, NewShell) /\ panel' = p /\ strayed' = strayed
  BY DEF OpenShell
<1>3. /\ shells' \in Seq(Shells) /\ Len(shells') = n + 1
      /\ \A t \in 1..n : shells'[t] = shells[t]
  BY <1>1, <1>2
<1>4. /\ p.shown = panel.shown /\ p.latest = panel.latest /\ p.seen = panel.seen /\ p.polls = panel.polls
      /\ p.opened = panel.opened \cup {n + 1} /\ p.kills = panel.kills /\ DOMAIN p = DOMAIN panel
  BY DEF PanelInv
<1> HIDE DEF p
<1>5. Known(p, n + 1) /\ Numbered(p)
  <2>1. Known(panel, n) /\ Numbered(panel) BY DEF PanelInv
  <2>2. \A k \in 0..n : k \in 0..(n + 1) /\ k # n + 1 BY <1>1
  <2>3. \A k \in 1..n : k \in 0..n /\ k \in 1..(n + 1) BY <1>1
  <2>4. n + 1 \in 1..(n + 1) BY <1>1
  <2> HIDE DEF n
  <2> QED BY <1>4, <2>1, <2>2, <2>3, <2>4 DEF Known, Numbered
<1>6. p.shown # 0 /\ ~strayed' => Covers(p, shells'[p.shown])
  <2> SUFFICES ASSUME panel.shown # 0, ~strayed PROVE Covers(p, shells'[panel.shown])
    BY <1>2, <1>4
  <2>1. panel.shown \in 1..n /\ Covers(panel, shells[panel.shown])
    BY <1>1 DEF PanelInv, Known
  <2> QED BY <1>3, <1>4, <2>1 DEF Covers
<1> QED BY <1>2, <1>3, <1>4, <1>5, <1>6 DEF PanelInv

\* The response to a start opens an empty panel; no answer about that terminal can
\* be on its way.
LEMMA StartAnsweredStep ==
  ASSUME PanelInv, NEW t \in DOMAIN shells, StartAnswered(t)
  PROVE  PanelInv'
<1> DEFINE p == [panel EXCEPT !.shown = t, !.running = TRUE, !.latest = 0, !.seen = {},
                              !.opened = @ \ {t}]
<1>1. t \in 1..Len(shells) /\ t \in panel.opened /\ shells[t] \in Shells
  BY DEF StartAnswered, PanelInv
<1>2. panel' = p /\ shells' = shells
  BY DEF StartAnswered
<1>3. /\ p.shown = t /\ p.latest = 0 /\ p.seen = {} /\ p.polls = panel.polls
      /\ p.opened = panel.opened \ {t} /\ p.kills = panel.kills /\ DOMAIN p = DOMAIN panel
  BY DEF PanelInv
<1> HIDE DEF p
<1>4. Known(p, Len(shells)) /\ Numbered(p)
  <2>1. Known(panel, Len(shells)) /\ Numbered(panel) /\ Len(shells) \in Nat BY DEF PanelInv
  <2>2. t \in 0..Len(shells) BY <1>1, <2>1
  <2> QED BY <1>1, <1>3, <2>1, <2>2 DEF Known, Numbered
<1>5. Covers(p, shells[t])
  <2>1. \A a \in p.polls : a.of # t
    BY <1>1, <1>3 DEF PanelInv, Known
  <2>2. UpTo(0, {}, shells[t])
    BY <1>1 DEF UpTo, Shells
  <2> QED BY <1>3, <2>1, <2>2 DEF Covers
<1> QED BY <1>2, <1>3, <1>4, <1>5, PanelStep DEF PanelInv

\* An answer to a poll is on its way: it holds all that the ring holds beyond what the
\* panel has, if it is about the terminal shown.
LEMMA AskStep ==
  ASSUME PanelInv, NEW t \in 1..Len(shells), t \notin panel.opened, NEW kills, kills \subseteq panel.kills,
         panel' = [panel EXCEPT !.kills = kills, !.polls = panel.polls \cup {Answer(t)}],
         shells' = shells, strayed' = strayed
  PROVE  PanelInv'
<1> DEFINE rec == shells[t]
           a == Answer(t)
           p == [panel EXCEPT !.kills = kills, !.polls = panel.polls \cup {a}]
<1>1. rec \in Shells /\ rec.seq \in Nat /\ panel.latest \in Nat
  <2>1. rec \in Shells /\ panel.latest \in Nat BY DEF PanelInv, Numbered
  <2> QED BY <2>1 DEF Shells
<1>2. a.of = t /\ a.output.latest = rec.seq /\ a.output.chunks = {n \in Held(rec) : n > panel.latest}
  BY DEF Answer, outputSince, Range, Held
<1>3. /\ p.shown = panel.shown /\ p.latest = panel.latest /\ p.seen = panel.seen
      /\ p.polls = panel.polls \cup {a}
      /\ p.opened = panel.opened /\ p.kills = kills /\ DOMAIN p = DOMAIN panel
  <2> HIDE DEF a
  <2> QED BY DEF PanelInv
<1>4. panel' = p
  OBVIOUS
<1> HIDE DEF a, p
<1>5. Known(p, Len(shells)) /\ Numbered(p)
  BY <1>1, <1>2, <1>3 DEF PanelInv, Known, Numbered
<1>6. ASSUME t = panel.shown, Covers(panel, rec)
      PROVE  UpTo(a.output.latest, panel.seen \cup a.output.chunks, rec)
  <2>1. ASSUME NEW k \in 1..rec.seq, k \in Held(rec) PROVE k \in panel.seen \cup a.output.chunks
    <3>1. CASE k > panel.latest BY <1>2, <2>1, <3>1
    <3>2. CASE ~(k > panel.latest)
      <4>1. k \in 1..panel.latest BY <1>1, <3>2
      <4> QED BY <1>6, <2>1, <4>1 DEF Covers, UpTo
    <3> QED BY <3>1, <3>2
  <2> QED BY <1>1, <1>2, <2>1 DEF UpTo
<1>7. panel.shown # 0 /\ ~strayed => Covers(p, shells[panel.shown])
  <2> SUFFICES ASSUME panel.shown # 0, ~strayed PROVE Covers(p, shells[panel.shown])
    OBVIOUS
  <2>1. Covers(panel, shells[panel.shown]) BY DEF PanelInv
  <2>2. UpTo(p.latest, p.seen, shells[panel.shown]) BY <1>3, <2>1 DEF Covers
  <2>3. ASSUME NEW b \in p.polls, b.of = p.shown
        PROVE  UpTo(b.output.latest, p.seen \cup b.output.chunks, shells[panel.shown])
    <3>1. CASE b \in panel.polls BY <1>3, <2>1, <2>3, <3>1 DEF Covers
    <3>2. CASE b = a
      <4>1. t = panel.shown BY <1>2, <1>3, <2>3, <3>2
      <4> QED BY <1>3, <1>6, <2>1, <3>2, <4>1
    <3> QED BY <1>3, <2>3, <3>1, <3>2
  <2> QED BY <2>2, <2>3 DEF Covers
<1> QED BY <1>3, <1>4, <1>5, <1>7, PanelStep DEF PanelInv

LEMMA PollStep ==
  ASSUME PanelInv, PollShown
  PROVE  PanelInv'
<1>1. panel.shown \in 1..Len(shells) /\ panel.shown \notin panel.opened
  BY DEF PollShown, Alive, PanelInv, Known
<1>2. panel' = [panel EXCEPT !.kills = panel.kills, !.polls = panel.polls \cup {Answer(panel.shown)}]
  BY DEF PollShown, PanelInv
<1> QED BY <1>1, <1>2, AskStep DEF PollShown, asks

LEMMA KillAnsweredStep ==
  ASSUME PanelInv, NEW t \in DOMAIN shells, KillAnswered(t)
  PROVE  PanelInv'
<1>1. t \in 1..Len(shells) /\ t \notin panel.opened
  BY DEF KillAnswered, PanelInv, Known
<1>2. panel' = [panel EXCEPT !.kills = panel.kills \ {t}, !.polls = panel.polls \cup {Answer(t)}]
  BY DEF KillAnswered
<1> QED BY <1>1, <1>2, AskStep DEF KillAnswered, asks

\* An answer arrives, before or after others that were asked for earlier; one about
\* another terminal either brings nothing or is taken for the one shown.
LEMMA AnswerStep ==
  ASSUME PanelInv, NEW a \in panel.polls, PollAnswered(a)
  PROVE  PanelInv'
<1> DEFINE latest == IF a.output.chunks = {} THEN panel.latest ELSE a.output.latest
           seen == IF a.of = panel.shown THEN panel.seen \cup a.output.chunks ELSE panel.seen
           p == [panel EXCEPT !.latest = latest, !.seen = seen, !.running = a.running,
                              !.polls = panel.polls \ {a}]
<1>1. panel' = p /\ shells' = shells
  BY DEF PollAnswered
<1>2. /\ p.shown = panel.shown /\ p.latest = latest /\ p.seen = seen /\ p.polls = panel.polls \ {a}
      /\ p.opened = panel.opened /\ p.kills = panel.kills /\ DOMAIN p = DOMAIN panel
  <2> HIDE DEF latest, seen
  <2> QED BY DEF PanelInv
<1> HIDE DEF p
<1>3. Known(p, Len(shells)) /\ Numbered(p)
  <2>1. Known(panel, Len(shells)) /\ Numbered(panel) BY DEF PanelInv
  <2> QED BY <1>2, <2>1 DEF Known, Numbered
<1>4. p.shown # 0 /\ ~strayed' => Covers(p, shells[p.shown])
  <2> SUFFICES ASSUME panel.shown # 0, ~strayed' PROVE Covers(p, shells[panel.shown])
    BY <1>2
  <2> DEFINE rec == shells[panel.shown]
  <2>1. ~strayed /\ (a.of = panel.shown \/ a.output.chunks = {})
    BY DEF PollAnswered
  <2>2. Covers(panel, rec) BY <2>1 DEF PanelInv
  <2>3. ASSUME NEW n, NEW s0, UpTo(n, s0, rec) PROVE UpTo(n, s0 \cup a.output.chunks, rec)
    BY <2>3 DEF UpTo
  <2>4. seen = panel.seen \cup a.output.chunks
    BY <2>1
  <2>5. UpTo(latest, seen, rec)
    <3>1. CASE a.output.chunks = {} BY <2>2, <2>4, <3>1 DEF Covers
    <3>2. CASE a.output.chunks # {} BY <2>1, <2>2, <2>4, <3>2 DEF Covers
    <3> QED BY <3>1, <3>2
  <2>6. ASSUME NEW b \in p.polls, b.of = panel.shown PROVE UpTo(b.output.latest, p.seen \cup b.output.chunks, rec)
    <3>1. UpTo(b.output.latest, (panel.seen \cup b.output.chunks) \cup a.output.chunks, rec)
      BY <1>2, <2>2, <2>3, <2>6 DEF Covers
    <3>2. (panel.seen \cup b.output.chunks) \cup a.output.chunks = p.seen \cup b.output.chunks
      BY <1>2, <2>4
    <3> QED BY <3>1, <3>2
  <2> HIDE DEF latest, seen, rec
  <2>7. Covers(p, rec) BY <1>2, <2>5, <2>6 DEF Covers
  <2> QED BY <2>7 DEF rec
<1> QED BY <1>1, <1>2, <1>3, <1>4, PanelStep DEF PanelInv

\* An answer that never comes.
LEMMA FailStep ==
  ASSUME PanelInv, NEW a \in panel.polls, PollFails(a)
  PROVE  PanelInv'
<1> DEFINE p == [panel EXCEPT !.polls = panel.polls \ {a}]
<1>1. panel' = p /\ shells' = shells /\ strayed' = strayed
  BY DEF PollFails
<1>2. /\ p.shown = panel.shown /\ p.latest = panel.latest /\ p.seen = panel.seen
      /\ p.polls = panel.polls \ {a} /\ p.opened = panel.opened /\ p.kills = panel.kills
      /\ DOMAIN p = DOMAIN panel
  BY DEF PanelInv
<1> HIDE DEF p
<1>3. Known(p, Len(shells)) /\ Numbered(p)
  BY <1>2 DEF PanelInv, Known, Numbered
<1>4. p.shown # 0 /\ ~strayed' => Covers(p, shells[p.shown])
  BY <1>1, <1>2 DEF PanelInv, Covers
<1> QED BY <1>1, <1>2, <1>3, <1>4, PanelStep DEF PanelInv

\* With any number of terminals and polls and any ring, whatever order the answers
\* arrive in and whichever are lost: as long as no output of another terminal strayed
\* into it, the panel has seen every chunk below the number it asks from that the ring
\* of the terminal it shows still holds.
THEOREM PanelMissesNothingAlways == PanelSpec => []PanelMissesNothing
<1>1. PanelInv /\ [PanelNext]_panelVars => PanelInv'
  <2> SUFFICES ASSUME PanelInv, [PanelNext]_panelVars PROVE PanelInv'
    OBVIOUS
  <2>1. CASE UNCHANGED <<shells, panel, strayed>>
    BY <2>1 DEF PanelInv
  <2>2. CASE start \/ StartFails \/ UNCHANGED panelVars
    BY <2>1, <2>2 DEF start, StartFails, panelVars
  <2>3. CASE \E t \in DOMAIN shells : pushOutput(t) \/ ShellOver(t) \/ StartAnswered(t) \/ KillAnswered(t)
    BY <2>3, OutputStep, OverStep, StartAnsweredStep, KillAnsweredStep
  <2>4. CASE \E a \in panel.polls : PollAnswered(a) \/ PollFails(a)
    BY <2>4, AnswerStep, FailStep
  <2> QED BY <2>2, <2>3, <2>4, OpenStep, KillButtonStep, PollStep DEF PanelNext
<1>2. PanelInv => PanelMissesNothing
  BY DEF PanelInv, PanelMissesNothing, Covers, UpTo, Held, Range
<1> QED BY <1>1, <1>2, PanelStarts, PTL DEF PanelSpec

=============================================================================
