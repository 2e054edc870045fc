---------------------------- MODULE RunLifecycle ----------------------------
(***************************************************************************)
(* What the daemon promises for every agent run, whatever is cancelled,    *)
(* approved, answered, drained or crashes: one driver at a time takes it   *)
(* on, gets a fixed number of answers at most and leaves it parked or      *)
(* over; only a parked run is taken on again; what is over stays over.     *)
(* left[r] counts the answers the driver of r may still get.               *)
(***************************************************************************)
EXTENDS Naturals

CONSTANTS Runs, Answers
VARIABLES phase, left

Phases == {"none", "driven", "parked", "over", "stranded"}

Init == phase = [r \in Runs |-> "none"] /\ left = [r \in Runs |-> 0]

Drive(r) == /\ phase[r] \in {"none", "parked"}
            /\ phase' = [phase EXCEPT ![r] = "driven"]
            /\ left' = [left EXCEPT ![r] = Answers]
Work(r) == /\ phase[r] = "driven"
           /\ \E n \in 1..(left[r] - 1) : left' = [left EXCEPT ![r] = n]
           /\ UNCHANGED phase
Leave(r) == /\ phase[r] = "driven"
            /\ \E p \in {"parked", "over"} : phase' = [phase EXCEPT ![r] = p]
            /\ left' = [left EXCEPT ![r] = 0]

\* Nobody drives it, so it can be declared over.
End(r) == /\ phase[r] \in {"parked", "stranded"}
          /\ phase' = [phase EXCEPT ![r] = "over"]
          /\ UNCHANGED left

\* Drivers die with the process.  Some of what they drove is stranded: not over,
\* and nothing but End will happen to it.
Restart == /\ phase' \in [Runs -> Phases]
           /\ \A r \in Runs : IF phase[r] = "driven" THEN phase'[r] \in {"over", "stranded"}
                              ELSE phase'[r] = phase[r]
           /\ left' = [r \in Runs |-> 0]

Next == Restart \/ \E r \in Runs : Drive(r) \/ Work(r) \/ Leave(r) \/ End(r)

Spec == Init /\ [][Next]_<<phase, left>>
=============================================================================
