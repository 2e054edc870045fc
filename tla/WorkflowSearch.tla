--------------------------- MODULE WorkflowSearch ---------------------------
(***************************************************************************)
(* The depth-first search of validate (workflow-composer-service.ts) and of  *)
(* planTasksFromWorkflow (project-service.ts).                               *)
(***************************************************************************)
EXTENDS Workflows

\* done is the post-order, failed that a step was met while it was being visited.
RECURSIVE visit(_, _, _)
visit(next, n, st) ==
  IF st.failed \/ n \in Range(st.done) THEN st
  ELSE IF n \in st.visiting THEN [st EXCEPT !.failed = TRUE]
  ELSE LET below == FoldLeft(LAMBDA acc, m : visit(next, m, acc),
                             [st EXCEPT !.visiting = @ \cup {n}], next[n])
       IN IF below.failed THEN below
          ELSE [below EXCEPT !.visiting = @ \ {n}, !.done = Append(@, n)]

Unvisited == [visiting |-> {}, done |-> <<>>, failed |-> FALSE]

Downstream(f) == [n \in Range(f.steps) |->
  LET out == SelectSeq(f.edges, LAMBDA e : e[1] = n) IN [i \in DOMAIN out |-> out[i][2]]]

Upstream(f) == [n \in Range(f.steps) |->
  LET in == SelectSeq(f.edges, LAMBDA e : e[2] = n) IN [i \in DOMAIN in |-> in[i][1]]]

\* The order of planTasksFromWorkflow: upstream first, from every step, up to the
\* step that closes a cycle.
TopoOrder(f) == FoldLeft(LAMBDA acc, n : visit(Upstream(f), n, acc), Unvisited, f.steps).done

\* validate: only what the entry reaches is searched for cycles.
validate(f) == ~visit(Downstream(f), Head(f.steps), Unvisited).failed
=============================================================================
