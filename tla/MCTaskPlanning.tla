---------------------------- MODULE MCTaskPlanning ----------------------------
(* TLC instance of TaskPlanning: a chain composed backwards, a cycle its entry  *)
(* reaches and one it does not; decompositions that fit, that name an unknown   *)
(* objective and that name an unknown role.                                     *)
EXTENDS TaskPlanning, WorkflowSearch

MCNames == {"plan", "build", "test", "ship", "api", "ui", "schema"}

MCFlows == {
  [steps |-> <<"ship", "test", "build">>, edges |-> <<<<"build", "test">>, <<"test", "ship">>>>],
  [steps |-> <<"build", "test">>, edges |-> <<<<"build", "test">>, <<"test", "build">>>>],
  [steps |-> <<"plan", "build", "test">>, edges |-> <<<<"build", "test">>, <<"test", "build">>>>]}

Drafted(objective, known, wants) == [objective |-> objective, known |-> known, wants |-> wants]

MCDecompositions == {
  <<Drafted("api", TRUE, <<>>), Drafted("ui", TRUE, <<"api">>)>>,
  <<Drafted("api", TRUE, <<>>), Drafted("ui", TRUE, <<"schema">>)>>,
  <<Drafted("ui", TRUE, <<"api">>), Drafted("api", FALSE, <<>>)>>}

-----------------------------------------------------------------------------
(* The searches on every workflow of three steps and up to four edges: loops,   *)
(* repeated and opposite edges, forks and joins, cycles the entry leads to or   *)
(* not.                                                                         *)

Composed ==
  LET listed == <<"build", "test", "ship">>
      edges(n) == [1..n -> Range(listed) \X Range(listed)]
  IN {[steps |-> listed, edges |-> e] : e \in UNION {edges(n) : n \in 0..4}}

\* "Deterministic topo order" (project-service.ts:352): whatever is composed, a step
\* is planned once and after all it depends on, also before a cycle throws.
ASSUME OrderIsUpstreamFirst == \A f \in Composed : UpstreamFirst(f, TopoOrder(f))

\* "one task per STEP node" (project-service.ts:336): a workflow without a cycle is
\* planned as a whole, the steps its entry does not lead to included.
ASSUME OrderIsComplete ==
  \A f \in Composed : Acyclic(f) => Range(TopoOrder(f)) = Range(f.steps)

\* What validate means, though it says "graph is acyclic"
\* (workflow-composer-service.ts:93): the entry leads to no cycle.
ASSUME ValidIsAcyclicFromEntry ==
  \A f \in Composed : validate(f) <=> ~\E S \in SUBSET FromEntry(f) : Circular(f, S)
=============================================================================
