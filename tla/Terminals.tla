------------------------------ MODULE Terminals ------------------------------
(***************************************************************************)
(* The integrated terminals (terminal-service.ts): shells owned by the       *)
(* daemon, and the shutdown that kills them (main.ts).  What they print, and  *)
(* who reads it, is in TerminalPanel.                                        *)
(***************************************************************************)
EXTENDS Naturals, Sequences

CONSTANTS
  MaxTerms,  \* bound: terminals ever opened
  HasPty     \* node-pty loads and can fork, as found out at the first use

ASSUME TerminalConstants == MaxTerms \in Nat \ {0} /\ HasPty \in BOOLEAN

VARIABLES
  terminals,  \* the map of the service, in the order of creation
  daemon,     \* "up", "draining", "closing" or "exited"
  requests,   \* POST /terminal requests that were admitted and not yet handled
  illegal     \* history: a transition was refused, and threw

terminalsVars == <<terminals, daemon, requests, illegal>>

Statuses == {"CREATED", "STARTING", "RUNNING", "EXITED", "FAILED", "CANCELLED"}
Ended == {"EXITED", "FAILED", "CANCELLED"}

\* proc is the shell's process, ended how it ended, told whether its end was
\* handled, timer a pending SIGKILL.
Terminal == [status: Statuses, pty: BOOLEAN, proc: {"none", "alive", "gone"},
             end: {"none", "code 0", "code 1", "signal"}, told: BOOLEAN, timer: BOOLEAN]

TerminalsInit ==
  /\ terminals = <<>> /\ daemon = "up" /\ requests = 0 /\ illegal = FALSE

Live == daemon \in {"up", "draining", "closing"}

-----------------------------------------------------------------------------
(* The state machine of a terminal: WAITING is never entered.                *)

Legal(from, to) ==
  CASE from = "CREATED" -> to \in {"STARTING", "CANCELLED", "FAILED"}
    [] from = "STARTING" -> to \in {"RUNNING", "FAILED", "CANCELLED"}
    [] from = "RUNNING" -> to \in Ended
    [] OTHER -> FALSE

\* transition: a move to where it is does nothing, an illegal one throws.
Moved(from, to) == IF Legal(from, to) THEN to ELSE from
Refused(from, to) == from # to /\ ~Legal(from, to)

transition(t, rec, to) ==
  /\ terminals' = [terminals EXCEPT ![t] = [rec EXCEPT !.status = Moved(@, to)]]
  /\ illegal' = (illegal \/ Refused(rec.status, to))

-----------------------------------------------------------------------------
(* The daemon's side.                                                        *)

\* The shutdown guard admits no request once the drain has begun.
RequestTerminal ==
  /\ daemon = "up" /\ Len(terminals) + requests < MaxTerms
  /\ requests' = requests + 1
  /\ UNCHANGED <<terminals, daemon, illegal>>

NewTerminal(status, proc, pty) ==
  [status |-> status, pty |-> pty, proc |-> proc, end |-> "none", told |-> status # "RUNNING",
   timer |-> FALSE]

\* create: CREATED, STARTING and RUNNING in one go, a pty for a user's terminal
\* if there is one and a piped shell else.  A spawn that throws leaves a pty's
\* session STARTING and a piped one FAILED; that a piped shell or its directory is
\* missing is only reported later.
create ==
  /\ Live /\ requests > 0 /\ requests' = requests - 1
  /\ \E pty \in {FALSE, HasPty} :
       \/ terminals' = Append(terminals, NewTerminal("RUNNING", "alive", pty))
       \/ terminals' = Append(terminals, NewTerminal(IF pty THEN "STARTING" ELSE "FAILED", "none", pty))
       \/ ~pty /\ terminals' = Append(terminals, NewTerminal("RUNNING", "none", pty))
  /\ illegal' = (illegal \/ Refused("CREATED", "STARTING") \/ \E to \in {"RUNNING", "FAILED"} : Refused("STARTING", to))
  /\ UNCHANGED daemon

\* The daemon's process is gone, and its timers with it.
DaemonGone ==
  /\ daemon' = "exited"
  /\ terminals' = [t \in DOMAIN terminals |-> [terminals[t] EXCEPT !.timer = FALSE]]

\* The error event of a shell that could not be started has no listener.
SpawnError(t) ==
  /\ Live /\ terminals[t].proc = "none" /\ ~terminals[t].told
  /\ DaemonGone
  /\ UNCHANGED <<requests, illegal>>

\* The shell ends, by itself or at a signal.
ShellEnds(t) ==
  /\ terminals[t].proc = "alive"
  /\ \E e \in {"code 0", "code 1", "signal"} :
       terminals' = [terminals EXCEPT ![t].proc = "gone", ![t].end = e]
  /\ UNCHANGED <<daemon, requests, illegal>>

\* mutant: the end is told to a session that was killed meanwhile, too.
UnguardedEnd(t) ==
  /\ Live /\ terminals[t].proc = "gone" /\ ~terminals[t].told
  /\ transition(t, [terminals[t] EXCEPT !.told = TRUE],
                CASE terminals[t].end = "signal" -> "CANCELLED"
                  [] terminals[t].end = "code 0" -> "EXITED"
                  [] terminals[t].end = "code 1" -> "FAILED")
  /\ UNCHANGED <<daemon, requests>>

\* The exit or close event of the shell.
EndHandled(t) ==
  /\ Live /\ terminals[t].proc = "gone" /\ ~terminals[t].told
  /\ LET heard == [terminals[t] EXCEPT !.told = TRUE]
     IN IF heard.status = "RUNNING"
        THEN transition(t, heard, CASE heard.end = "signal" -> "CANCELLED"
                                    [] heard.end = "code 0" -> "EXITED"
                                    [] heard.end = "code 1" -> "FAILED")
        ELSE terminals' = [terminals EXCEPT ![t] = heard] /\ UNCHANGED illegal
  /\ UNCHANGED <<daemon, requests>>

\* mutant: a shell that ignores SIGTERM is given up.
KilledGently(rec) == [rec EXCEPT !.status = IF @ \in Ended THEN @ ELSE "CANCELLED"]

\* What kill makes of a session: the hangup of a pty or the SIGTERM of a piped
\* shell, with a SIGKILL to follow, and CANCELLED unless it had ended.
KilledSession(rec) ==
  [rec EXCEPT !.timer = @ \/ (rec.proc = "alive" /\ ~rec.pty),
              !.status = IF @ \in Ended THEN @ ELSE Moved(@, "CANCELLED")]
KillRefused(rec) == rec.status \notin Ended /\ Refused(rec.status, "CANCELLED")

kill(t) ==
  /\ daemon = "up"
  /\ terminals' = [terminals EXCEPT ![t] = KilledSession(@)]
  /\ illegal' = (illegal \/ KillRefused(terminals[t]))
  /\ UNCHANGED <<daemon, requests>>

\* Three seconds later: a shell with no exit code is killed for good.
TerminalKillTimer(t) ==
  /\ Live /\ terminals[t].timer
  /\ terminals' = [terminals EXCEPT ![t].timer = FALSE, ![t].proc = "gone",
                                    ![t].end = IF terminals[t].proc = "alive" THEN "signal" ELSE @]
  /\ UNCHANGED <<daemon, requests, illegal>>

-----------------------------------------------------------------------------
(* The shutdown.                                                             *)

SIGTERM ==
  /\ daemon = "up" /\ daemon' = "draining"
  /\ UNCHANGED <<terminals, requests, illegal>>

\* The runs are drained: all terminals are killed, then the server closes.
ShutdownKillsTerminals ==
  /\ daemon = "draining" /\ daemon' = "closing"
  /\ terminals' = [t \in DOMAIN terminals |-> KilledSession(terminals[t])]
  /\ illegal' = (illegal \/ \E t \in DOMAIN terminals : KillRefused(terminals[t]))
  /\ UNCHANGED requests

\* The server has answered what it had admitted, and the process exits.
Exit ==
  /\ daemon = "closing" /\ requests = 0
  /\ DaemonGone
  /\ UNCHANGED <<requests, illegal>>

-----------------------------------------------------------------------------

Stopped == daemon = "exited" /\ UNCHANGED terminalsVars

TerminalsNext ==
  \/ RequestTerminal \/ create \/ SIGTERM \/ ShutdownKillsTerminals \/ Exit \/ Stopped
  \/ \E t \in DOMAIN terminals :
       \/ ShellEnds(t) \/ EndHandled(t) \/ SpawnError(t) \/ kill(t) \/ TerminalKillTimer(t)

\* The daemon handles what it admitted, its timers expire and events arrive; a
\* shell may ignore every signal but SIGKILL.
TerminalsFairness ==
  /\ WF_terminalsVars(create) /\ WF_terminalsVars(ShutdownKillsTerminals) /\ WF_terminalsVars(Exit)
  /\ \A t \in 1..MaxTerms :
       /\ WF_terminalsVars(t \in DOMAIN terminals /\ EndHandled(t))
       /\ WF_terminalsVars(t \in DOMAIN terminals /\ TerminalKillTimer(t))

TerminalsSpec == TerminalsInit /\ [][TerminalsNext]_terminalsVars /\ TerminalsFairness
-----------------------------------------------------------------------------

ShellLives(t) == t \in DOMAIN terminals /\ terminals[t].proc = "alive"

TerminalsTypeOK ==
  /\ terminals \in Seq(Terminal) /\ Len(terminals) <= MaxTerms
  /\ daemon \in {"up", "draining", "closing", "exited"}
  /\ requests \in 0..MaxTerms /\ illegal \in BOOLEAN

\* Kills, ends and the shutdown race, and no handler ever asks for a transition
\* the contract refuses: the refusal would be thrown into an event handler, where
\* nobody catches it.
TransitionsLegal == ~illegal

\* "Kill -> CANCELLED, no orphan process remains"
\* (workspace-conversation-contract.spec.ts:151): a killed piped shell is gone
\* before long, unless the daemon goes first.
KilledShellDies ==
  \A t \in 1..MaxTerms :
    (ShellLives(t) /\ terminals[t].status = "CANCELLED" /\ ~terminals[t].pty)
      ~> (~ShellLives(t) \/ daemon = "exited")
=============================================================================
