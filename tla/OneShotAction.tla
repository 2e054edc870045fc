--------------------------- MODULE OneShotAction ---------------------------
(***************************************************************************)
(* What the action gateway promises for every tool action an agent, the    *)
(* verifier or the user asks for: it runs at most once, a held action runs *)
(* only after it was granted, a refused action never runs, and nothing     *)
(* that was held or running survives the process.                          *)
(***************************************************************************)
CONSTANT Actions
VARIABLE phase

Phases == {"none", "held", "running", "over", "refused"}

Init == phase = [a \in Actions |-> "none"]

Submit(a) == /\ phase[a] = "none"
             /\ \E p \in {"held", "running", "refused"} : phase' = [phase EXCEPT ![a] = p]
Grant(a) == phase[a] = "held" /\ phase' = [phase EXCEPT ![a] = "running"]
Refuse(a) == phase[a] = "held" /\ phase' = [phase EXCEPT ![a] = "refused"]
Finish(a) == phase[a] = "running" /\ phase' = [phase EXCEPT ![a] = "over"]

Restart == phase' = [a \in Actions |-> CASE phase[a] = "held" -> "refused"
                                          [] phase[a] = "running" -> "over"
                                          [] OTHER -> phase[a]]

Next == Restart \/ \E a \in Actions : Submit(a) \/ Grant(a) \/ Refuse(a) \/ Finish(a)

Spec == Init /\ [][Next]_phase
=============================================================================
