---------------------------- MODULE TerminalPanel ----------------------------
(***************************************************************************)
(* The terminal panel of the desktop (DevelopmentWorkspace.tsx): it opens    *)
(* terminals one after the other and polls the output of the one it shows,   *)
(* of which the service keeps a ring of the last chunks                      *)
(* (terminal-service.ts).  Of a terminal's life, which is in Terminals, what *)
(* remains is whether its status is RUNNING and whether output may come.     *)
(***************************************************************************)
EXTENDS Naturals, Sequences, FiniteSets, SequencesExt

CONSTANTS
  MaxStarts,  \* bound: terminals the panel asks for
  MaxOutput,  \* bound: chunks a terminal prints
  RingLimit,  \* RING_BUFFER_LIMIT
  MaxPolls    \* bound: polls in flight

ASSUME PanelConstants ==
  MaxStarts \in Nat /\ MaxOutput \in Nat /\ RingLimit \in Nat \ {0} /\ MaxPolls \in Nat

VARIABLES
  shells,   \* the terminals of the service, in the order of creation
  starts,   \* POST /terminal requests of the panel, not yet handled
  panel,    \* what the panel shows and what it waits for
  strayed   \* history: the panel took another terminal's output for the one it shows

panelVars == <<shells, starts, panel, strayed>>

\* After a kill a terminal no longer runs, but may print until its end is heard of.
NewShell == [running |-> TRUE, open |-> TRUE, seq |-> 0, ring |-> <<>>]

\* The panel shows the terminal of the last start that was answered, 0 before that;
\* running is the status it knows, latest its latestSeq, seen the chunks of that
\* terminal it printed.  On their way are answers to polls, and the responses to
\* starts and to kills.
NewPanel == [shown |-> 0, running |-> FALSE, latest |-> 0, seen |-> {},
             polls |-> {}, opened |-> {}, kills |-> {}]

PanelInit == shells = <<>> /\ starts = 0 /\ panel = NewPanel /\ strayed = FALSE

-----------------------------------------------------------------------------
(* The service.                                                              *)

\* create: the terminal is there when the response is sent.
OpenShell ==
  /\ starts > 0 /\ starts' = starts - 1
  /\ shells' = Append(shells, NewShell)
  /\ panel' = [panel EXCEPT !.opened = @ \cup {Len(shells) + 1}]
  /\ UNCHANGED strayed

\* The request is refused or the spawn throws: the panel shows the error.
StartFails ==
  /\ starts > 0 /\ starts' = starts - 1
  /\ UNCHANGED <<shells, panel, strayed>>

\* A chunk gets the next number, the ring keeps the last ones.
pushOutput(t) ==
  /\ shells[t].open /\ shells[t].seq < MaxOutput
  /\ LET seq == shells[t].seq + 1
         ring == Append(shells[t].ring, seq)
     IN shells' = [shells EXCEPT ![t].seq = seq,
                                 ![t].ring = IF Len(ring) > RingLimit THEN Tail(ring) ELSE ring]
  /\ UNCHANGED <<starts, panel, strayed>>

\* The end of the shell is heard of, or somebody else kills it.
ShellOver(t) ==
  /\ \E open \in {FALSE, shells[t].open} :
       shells' = [shells EXCEPT ![t].running = FALSE, ![t].open = open]
  /\ UNCHANGED <<starts, panel, strayed>>

\* mutant: the chunk after the last one seen is taken for seen.
OutputAfterNext(t, after) ==
  [chunks |-> {n \in Range(shells[t].ring) : n > after + 1}, latest |-> shells[t].seq]

outputSince(t, after) ==
  [chunks |-> {n \in Range(shells[t].ring) : n > after}, latest |-> shells[t].seq]

\* What the service answers, at once, to a poll that carries the panel's latestSeq.
Answer(t) == [of |-> t, output |-> outputSince(t, panel.latest), running |-> shells[t].running]

-----------------------------------------------------------------------------
(* The panel.  Responses arrive late, in any order, or never.                *)

Alive == panel.shown # 0 /\ panel.running

\* The start button is there until the response to a click says RUNNING.
start ==
  /\ ~Alive /\ Len(shells) + starts < MaxStarts
  /\ starts' = starts + 1
  /\ UNCHANGED <<shells, panel, strayed>>

\* The response opens the terminal with an empty output.
StartAnswered(t) ==
  /\ t \in panel.opened
  /\ panel' = [panel EXCEPT !.shown = t, !.running = TRUE, !.latest = 0, !.seen = {},
                            !.opened = @ \ {t}]
  /\ strayed' = FALSE
  /\ UNCHANGED <<shells, starts>>

\* The kill button of the terminal shown.
KillButton ==
  /\ Alive
  /\ shells' = [shells EXCEPT ![panel.shown].running = FALSE]
  /\ panel' = [panel EXCEPT !.kills = @ \cup {panel.shown}]
  /\ UNCHANGED <<starts, strayed>>

asks(t) ==
  /\ Cardinality(panel.polls) < MaxPolls
  /\ UNCHANGED <<shells, starts, strayed>>

\* A poll every half second while the terminal shown is not known to have ended.
PollShown ==
  /\ Alive /\ asks(panel.shown)
  /\ panel' = [panel EXCEPT !.polls = @ \cup {Answer(panel.shown)}]

\* The response to a kill polls the terminal that was killed, whatever is shown now.
KillAnswered(t) ==
  /\ t \in panel.kills /\ asks(t)
  /\ panel' = [panel EXCEPT !.kills = @ \ {t}, !.polls = @ \cup {Answer(t)}]

\* An answer arrives and is applied, whatever terminal it is about; without chunks
\* it only tells the status.
PollAnswered(a) ==
  /\ panel' = [panel EXCEPT !.latest = IF a.output.chunks = {} THEN @ ELSE a.output.latest,
                            !.seen = IF a.of = panel.shown THEN @ \cup a.output.chunks ELSE @,
                            !.running = a.running,
                            !.polls = @ \ {a}]
  /\ strayed' = (strayed \/ (a.of # panel.shown /\ a.output.chunks # {}))
  /\ UNCHANGED <<shells, starts>>

\* A poll that fails changes nothing.
PollFails(a) ==
  /\ panel' = [panel EXCEPT !.polls = @ \ {a}]
  /\ UNCHANGED <<shells, starts, strayed>>

-----------------------------------------------------------------------------

PanelNext ==
  \/ OpenShell \/ StartFails \/ start \/ KillButton \/ PollShown
  \/ \E t \in DOMAIN shells :
       pushOutput(t) \/ ShellOver(t) \/ StartAnswered(t) \/ KillAnswered(t)
  \/ \E a \in panel.polls : PollAnswered(a) \/ PollFails(a)

PanelSpec == PanelInit /\ [][PanelNext]_panelVars
-----------------------------------------------------------------------------

PanelTypeOK ==
  /\ \A t \in DOMAIN shells :
       /\ shells[t].running \in BOOLEAN /\ shells[t].open \in BOOLEAN
       /\ shells[t].seq \in 0..MaxOutput /\ Len(shells[t].ring) <= RingLimit
  /\ starts \in 0..MaxStarts /\ strayed \in BOOLEAN
  /\ panel.shown \in 0..Len(shells) /\ panel.running \in BOOLEAN
  /\ panel.seen \subseteq 1..MaxOutput /\ panel.latest \in 0..MaxOutput
  /\ panel.opened \cup panel.kills \subseteq DOMAIN shells

\* The panel never passes over output of the terminal it shows that the ring still
\* holds, in whatever order the answers to its polls arrive and whatever was started,
\* killed and polled before.  The exception is the answer about another terminal that
\* brings output: poll (DevelopmentWorkspace.tsx:275-276) takes it, and its latestSeq,
\* for the one shown.
PanelMissesNothing ==
  panel.shown # 0 /\ ~strayed =>
    \A n \in 1..panel.latest : n \in panel.seen \/ n \notin Range(shells[panel.shown].ring)
=============================================================================
