----------------------------- MODULE Workflows -----------------------------
(***************************************************************************)
(* Composed workflows (workflow-composer-service.ts), and what their order   *)
(* and their validity mean.  A workflow is a sequence of steps, the entry    *)
(* first, and a sequence of edges, as the searches of the code go through    *)
(* them.                                                                     *)
(***************************************************************************)
EXTENDS Naturals, Sequences, FiniteSets, SequencesExt

Workflow(names) == {f \in [steps: Seq(names), edges: Seq(names \X names)] :
                      /\ f.steps # <<>>
                      /\ \A e \in Range(f.edges) : e \in Range(f.steps) \X Range(f.steps)}

\* The steps that a step waits for.
UpstreamOf(f, n) == {e[1] : e \in {d \in Range(f.edges) : d[2] = n}}

\* No step is listed twice, and each comes after all that it waits for.
UpstreamFirst(f, order) ==
  /\ order \in Seq(Range(f.steps))
  /\ \A i, j \in DOMAIN order : order[i] = order[j] => i = j
  /\ \A i \in DOMAIN order : \A n \in UpstreamOf(f, order[i]) :
       \E j \in DOMAIN order : j < i /\ order[j] = n

\* Steps of which each is followed by another one of them: there is a cycle.
Circular(f, S) ==
  /\ S # {}
  /\ \A n \in S : \E m \in S : <<n, m>> \in Range(f.edges)

Acyclic(f) == \A S \in SUBSET Range(f.steps) : ~Circular(f, S)

\* What the entry leads to is in every set that has the entry and is closed.
FromEntry(f) ==
  {n \in Range(f.steps) :
     \A S \in SUBSET Range(f.steps) :
       /\ Head(f.steps) \in S
       /\ \A e \in Range(f.edges) : e[1] \in S => e[2] \in S
       => n \in S}
=============================================================================
