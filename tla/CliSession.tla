----------------------------- MODULE CliSession -----------------------------
(***************************************************************************)
(* One run on a command-line runtime: the adapter's session and child       *)
(* process (cli-runtime-adapter.ts), polled by the orchestrator's loop      *)
(* (agent-orchestrator.ts) while the user may stop it, and the shutdown of   *)
(* the daemon (main.ts), which takes the adapter's timers with it.           *)
(*                                                                         *)
(* The child leads a process group; kin says that other members of the      *)
(* group live and hold its output open, which delays the close event.        *)
(***************************************************************************)
EXTENDS Naturals, Sequences, FiniteSetsExt, SequencesExt

CONSTANTS
  Kind,       \* "claude-code", "codex-cli" or "opencode"
  Streams,    \* what the CLI prints: sequences of lines
  Stderrs,    \* what it says on stderr, by the texts that are looked for
  Capacity,   \* bound: lines MAX_STREAM_BUFFER holds
  Leftovers   \* a CLI may exit while children of its own live on

Lines == {"session", "tool", "text", "result", "error", "noise"}
Texts == {"nothing", "enoent", "rate limit", "quota", "unauthorized", "model not found", "permission denied"}

ASSUME CliConstants ==
  /\ Kind \in {"claude-code", "codex-cli", "opencode"}
  /\ \A printed \in Streams : printed \in Seq(Lines)
  /\ Stderrs \subseteq Texts /\ Capacity \in Nat \ {0} /\ Leftovers \in BOOLEAN

VARIABLES
  sessions,  \* the adapter still has the session in its map
  s,         \* the session: result, failure, cancelled, timedOut
  child,     \* "none", "alive" or "exited"
  exit,      \* how it exited: code, signal, stderr and what it had printed
  kin,       \* other members of the process group live
  timers,    \* pending timers of the adapter: "timeout", "SIGKILL"
  loop,      \* executeLoop: where it is and its consecutive failures
  run,       \* the run's document: status and failureReason
  host,      \* the daemon's process: "up", "draining" or "exited"
  spawned    \* history: how often the CLI was started

adapter == <<sessions, s, child, exit, kin, timers, spawned>>
vars == <<sessions, s, child, exit, kin, timers, loop, run, host, spawned>>

Failures == {"none", "TIMEOUT", "RUNTIME_UNAVAILABLE", "RATE_LIMITED", "QUOTA_EXHAUSTED", "AUTH_EXPIRED",
             "MODEL_UNAVAILABLE", "CANCELLED", "POLICY_DENIED", "PROCESS_CRASH", "INVALID_OUTPUT", "UNKNOWN"}
Fatal == {"CANCELLED", "AUTH_EXPIRED", "RUNTIME_UNAVAILABLE"}

\* exitCode is null for a child that a signal killed or that never started.
Null == "null"
Exits == [code: {"0", "1", "124"}, signal: {"none"}, stderr: Stderrs, printed: Streams]
    \cup [code: {Null}, signal: {"SIGTERM", "SIGKILL"}, stderr: Stderrs, printed: Streams]
Missing == [code |-> Null, signal |-> "none", stderr |-> "nothing", printed |-> <<>>]

Init ==
  /\ sessions = TRUE
  /\ s = [result |-> FALSE, failure |-> "none", cancelled |-> FALSE, timedOut |-> FALSE]
  /\ child = "none" /\ exit = Missing /\ kin = FALSE /\ timers = {}
  /\ loop = [pc |-> "poll", failures |-> 0]
  /\ run = [status |-> "RUNNING", reason |-> "none"]
  /\ host = "up" /\ spawned = 0

\* The daemon's process: without it there is no loop, no adapter and no timer.
HostLives == host \in {"up", "draining"}

-----------------------------------------------------------------------------
(* What the adapter makes of the CLI's output and exit.                      *)

\* classifyCliFailure: stderr first, then the signal, then the code.
Classify(e) ==
  CASE e.stderr = "enoent" -> "RUNTIME_UNAVAILABLE"
    [] e.stderr = "rate limit" -> "RATE_LIMITED"
    [] e.stderr = "quota" -> "QUOTA_EXHAUSTED"
    [] e.stderr = "unauthorized" -> "AUTH_EXPIRED"
    [] e.stderr = "model not found" -> "MODEL_UNAVAILABLE"
    [] e.stderr \in {"nothing", "permission denied"} /\ e.signal # "none" -> "CANCELLED"
    [] e.stderr \in {"nothing", "permission denied"} /\ e.code = "124" -> "TIMEOUT"
    [] e.stderr = "permission denied" /\ e.signal = "none" /\ e.code # "124" -> "POLICY_DENIED"
    [] OTHER -> "PROCESS_CRASH"

\* appendCapped keeps the tail of the stream.
appendCapped(printed) ==
  SubSeq(printed, IF Len(printed) > Capacity THEN Len(printed) - Capacity + 1 ELSE 1, Len(printed))

\* The failure a line reports; opencode's parser knows none.
ClaudeFailure(line) == IF line = "error" THEN "INVALID_OUTPUT" ELSE "none"
CodexFailure(line) == IF line = "error" THEN "UNKNOWN" ELSE "none"
LineFailure(line) == CASE Kind = "claude-code" -> ClaudeFailure(line)
                       [] Kind = "codex-cli" -> CodexFailure(line)
                       [] OTHER -> "none"

\* mutant: an answer after the error makes up for it.
ForgivingParse(lines) ==
  LET after(f, line) == CASE LineFailure(line) # "none" -> LineFailure(line)
                          [] line \in {"text", "result", "noise"} -> "none"
                          [] OTHER -> f
  IN FoldLeft(after, "none", lines)

\* parseStream: the last failure stands, whatever the lines after it say.
parseStream(lines) ==
  LET failing == {i \in DOMAIN lines : LineFailure(lines[i]) # "none"}
  IN IF failing = {} THEN "none" ELSE LineFailure(lines[Max(failing)])

\* The failure that nextAction records when the child has closed.
Outcome ==
  CASE s.cancelled -> "CANCELLED"
    [] s.timedOut /\ ~s.cancelled -> "TIMEOUT"
    [] ~s.cancelled /\ ~s.timedOut /\ exit.code # "0" -> Classify(exit)
    [] OTHER -> parseStream(appendCapped(exit.printed))

-----------------------------------------------------------------------------
(* The loop of the orchestrator around a poll.                               *)

finish(status, reason) ==
  /\ run' = [status |-> status, reason |-> reason]
  /\ loop' = [loop EXCEPT !.pc = "over"]

\* A proposal to finish; a run that is settled stays as it is.
Finishes ==
  IF run.status \in {"FAILED", "SUCCEEDED"} THEN /\ loop' = [loop EXCEPT !.pc = "over"]
                                                 /\ UNCHANGED run
  ELSE finish("SUCCEEDED", "none")

\* mutant: a fatal failure is written without a look at the run.
FatalOverwrites(f) ==
  IF f \in Fatal THEN finish("FAILED", f)
  ELSE /\ loop' = [pc |-> "backoff", failures |-> loop.failures + 1] /\ UNCHANGED run

\* nextAction threw: fatal failures end the run, others wait for the backoff.
Throws(f) ==
  IF f \in Fatal
  THEN IF run.status \in {"FAILED", "SUCCEEDED"}
       THEN loop' = [loop EXCEPT !.pc = "over"] /\ UNCHANGED run
       ELSE finish("FAILED", f)
  ELSE /\ loop' = [pc |-> "backoff", failures |-> loop.failures + 1] /\ UNCHANGED run

BackoffOver ==
  /\ HostLives /\ loop.pc = "backoff"
  /\ \/ loop.failures >= 3 /\ finish("FAILED", "DEGRADED")
     \/ loop.failures < 3 /\ loop' = [loop EXCEPT !.pc = "poll"] /\ UNCHANGED run
  /\ UNCHANGED <<host, adapter>>

\* nextAction before the first result starts the CLI; a CLI that is not
\* installed answers with the error event alone.
Spawn ==
  /\ loop' = [loop EXCEPT !.pc = "await"]
  /\ spawned' = spawned + 1 /\ timers' = timers \cup {"timeout"}
  /\ child' \in {"alive", "exited"} /\ exit' = Missing /\ kin' = FALSE
  /\ UNCHANGED <<sessions, s, run>>

\* mutant: a recorded failure does not keep the next poll from a new child.
PollReruns ==
  /\ HostLives /\ loop.pc = "poll" /\ UNCHANGED host
  /\ \/ ~sessions /\ Throws("TypeError") /\ UNCHANGED adapter
     \/ sessions /\ s.result /\ Finishes /\ UNCHANGED adapter
     \/ sessions /\ ~s.result /\ Spawn

\* nextAction up to the close event.  Without its session - it was stopped
\* during the backoff - the poll throws what nobody classified.
nextAction ==
  /\ HostLives /\ loop.pc = "poll" /\ UNCHANGED host
  /\ \/ ~sessions /\ Throws("TypeError") /\ UNCHANGED adapter
     \/ sessions /\ s.failure # "none" /\ Throws(s.failure) /\ UNCHANGED adapter
     \/ sessions /\ s.result /\ s.failure = "none" /\ Finishes /\ UNCHANGED adapter
     \/ sessions /\ ~s.result /\ s.failure = "none" /\ Spawn

\* The close event: the child is gone and so is everyone who held its output.
Closed ==
  /\ HostLives /\ loop.pc = "await" /\ child = "exited" /\ ~kin
  /\ timers' = timers \ {"timeout"}
  /\ IF Outcome = "none" THEN s' = [s EXCEPT !.result = TRUE] /\ Finishes
     ELSE s' = [s EXCEPT !.failure = Outcome] /\ Throws(Outcome)
  /\ UNCHANGED <<sessions, child, exit, kin, host, spawned>>

-----------------------------------------------------------------------------
(* The process group and the adapter's timers.                               *)

\* The CLI starts a command of its own, or that command ends.
CommandOfCli ==
  /\ child = "alive" /\ kin' = ~kin
  /\ UNCHANGED <<sessions, s, child, exit, timers, loop, run, host, spawned>>

\* The CLI exits, on its own or at a SIGTERM; what it started may ignore that.
CliExits ==
  /\ child = "alive" /\ child' = "exited"
  /\ exit' \in {e \in Exits : e.signal # "SIGKILL"}
  /\ kin' \in {FALSE} \cup (IF Leftovers \/ "SIGKILL" \in timers THEN {kin} ELSE {})
  /\ UNCHANGED <<sessions, s, timers, loop, run, host, spawned>>

Killed == [code |-> Null, signal |-> "SIGKILL", stderr |-> "nothing", printed |-> <<>>]

\* mutant: only the CLI itself is killed.
KillsChild ==
  /\ HostLives /\ "SIGKILL" \in timers /\ timers' = timers \ {"SIGKILL"}
  /\ child' = "exited" /\ exit' = IF child = "alive" THEN Killed ELSE exit
  /\ UNCHANGED <<sessions, s, kin, loop, run, host, spawned>>

\* killTree(child, "SIGKILL"), five seconds after the SIGTERM.
KillTimer ==
  /\ HostLives /\ "SIGKILL" \in timers /\ timers' = timers \ {"SIGKILL"}
  /\ child' = "exited" /\ exit' = IF child = "alive" THEN Killed ELSE exit
  /\ kin' = FALSE
  /\ UNCHANGED <<sessions, s, loop, run, host, spawned>>

\* mutant: the timer asks whether the run was settled, not the child.
TimeoutOfRunning ==
  /\ HostLives /\ "timeout" \in timers
  /\ IF run.status = "RUNNING" /\ child = "exited"
     THEN s' = [s EXCEPT !.timedOut = TRUE] /\ timers' = (timers \ {"timeout"}) \cup {"SIGKILL"}
     ELSE timers' = timers \ {"timeout"} /\ UNCHANGED s
  /\ UNCHANGED <<sessions, child, exit, kin, loop, run, host, spawned>>

\* The time is over: a child with no exit code is terminated.
TimeoutTimer ==
  /\ HostLives /\ "timeout" \in timers
  /\ IF child = "alive" \/ exit.code = Null
     THEN s' = [s EXCEPT !.timedOut = TRUE] /\ timers' = (timers \ {"timeout"}) \cup {"SIGKILL"}
     ELSE timers' = timers \ {"timeout"} /\ UNCHANGED s
  /\ UNCHANGED <<sessions, child, exit, kin, loop, run, host, spawned>>

\* stop: the session is marked and forgotten; a child with no exit code is
\* terminated.  A stop before the first poll finds none.
stop ==
  /\ sessions' = FALSE
  /\ s' = [s EXCEPT !.cancelled = TRUE]
  /\ timers' = timers \cup (IF child # "none" /\ exit.code = Null THEN {"SIGKILL"} ELSE {})
  /\ UNCHANGED <<child, exit, kin, spawned>>

\* cancelRun and stopAllActive of a RUNNING run: stop does not await anything.
StopRun(reason) ==
  /\ run.status = "RUNNING" /\ sessions /\ stop
  /\ run' = [status |-> "FAILED", reason |-> reason]
  /\ UNCHANGED loop

\* The user's cancellation; the shutdown guard admits none during the drain.
CancelRun ==
  /\ host = "up" /\ UNCHANGED host
  /\ StopRun("CANCELLED_BY_USER")

-----------------------------------------------------------------------------
(* The end of the daemon's process.                                          *)

\* SIGTERM or SIGINT: a RUNNING run is stopped, any other is left as it is.
Shutdown ==
  /\ host = "up" /\ host' = "draining"
  /\ \/ StopRun("SYSTEM_SHUTDOWN")
     \/ run.status # "RUNNING" /\ UNCHANGED <<run, loop, adapter>>

\* process.exit: nothing in the shutdown waits for the adapter's timers, and the
\* server only for clients that still wait for an answer.
HostExits ==
  /\ host = "draining" /\ host' = "exited" /\ timers' = {}
  /\ UNCHANGED <<sessions, s, child, exit, kin, loop, run, spawned>>

-----------------------------------------------------------------------------

Over == (host = "exited" \/ (loop.pc = "over" /\ timers = {})) /\ UNCHANGED vars

Next ==
  \/ nextAction \/ Closed \/ BackoffOver \/ CancelRun \/ Shutdown \/ HostExits
  \/ CommandOfCli \/ CliExits \/ KillTimer \/ TimeoutTimer \/ Over

\* Timers expire and the loop goes on while the daemon's process is there; the CLI
\* itself owes nobody an exit, and nobody promises that the process lives on until
\* a timer expires.
Fairness ==
  /\ WF_vars(nextAction) /\ WF_vars(Closed) /\ WF_vars(BackoffOver)
  /\ WF_vars(KillTimer) /\ WF_vars(TimeoutTimer)

Spec == Init /\ [][Next]_vars /\ Fairness
-----------------------------------------------------------------------------

TypeOK ==
  /\ sessions \in BOOLEAN /\ kin \in BOOLEAN
  /\ s \in [result: BOOLEAN, failure: Failures, cancelled: BOOLEAN, timedOut: BOOLEAN]
  /\ child \in {"none", "alive", "exited"} /\ exit \in Exits \cup {Missing, Killed}
  /\ timers \subseteq {"timeout", "SIGKILL"}
  /\ loop \in [pc: {"poll", "await", "backoff", "over"}, failures: 0..3]
  /\ run \in [status: {"RUNNING", "FAILED", "SUCCEEDED"},
              reason: Failures \cup {"CANCELLED_BY_USER", "SYSTEM_SHUTDOWN", "DEGRADED"}]
  /\ host \in {"up", "draining", "exited"} /\ spawned \in Nat

\* "Repeat poll after completion: FINISH (or the same failure), never a re-run"
\* (cli-runtime-adapter.ts:349), through failures, backoffs and stops.
NeverRerun == spawned <= 1

\* A run is stored as a success only if the CLI exited with 0, nobody stopped it
\* or ran out of patience, and nothing it said that was kept was an error -
\* "without inventing success" (cli-runtime-parsing.spec.ts:91).
SuccessIsReal ==
  run.status = "SUCCEEDED" =>
    /\ exit.code = "0" /\ ~s.cancelled /\ ~s.timedOut
    /\ \A line \in Range(appendCapped(exit.printed)) : LineFailure(line) = "none"

\* "may have already finalized this run - never overwrite it"
\* (agent-orchestrator.ts:355): a stopped run is not given another reason by the
\* fatal failure its own stop provokes.
StopKeepsItsReason ==
  [][loop.pc = "await" /\ run.status = "FAILED" => run' = run]_vars

\* Every run on a CLI ends, unless the daemon does first: the time limit reaches a
\* CLI that never answers.
RunSettles == <>(loop.pc = "over" \/ host = "exited")

\* What is left of the CLI's process group.
GroupLives == child = "alive" \/ kin

\* "cancellation can kill CLI-spawned grandchildren too" (cli-runtime-adapter.ts:373),
\* "no orphaned grandchildren" (:513): after a stop nothing of the group is left,
\* unless the daemon is gone before its SIGKILL.
StopKillsGroup == s.cancelled ~> (~GroupLives \/ host = "exited")
=============================================================================
