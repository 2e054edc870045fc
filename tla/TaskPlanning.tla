---------------------------- MODULE TaskPlanning ----------------------------
(***************************************************************************)
(* How a project gets its tasks and in which order they may start: the      *)
(* workflows users compose (workflow-composer-service.ts), their binding to *)
(* projects, the plan made of a composed workflow (project-service.ts) or   *)
(* of the model's decomposition (task-planning-service.ts), and the         *)
(* dependency gate of executeTask.                                          *)
(*                                                                         *)
(* The searches that validate and order a composed workflow are constants   *)
(* here: WorkflowSearch defines them, and checks what is assumed of them.    *)
(***************************************************************************)
EXTENDS Workflows

CONSTANTS
  Projects,
  Names,           \* names of steps and objectives
  Flows,           \* what users compose
  Valid(_),        \* validate finds no fault with a workflow
  Order(_),        \* the steps the search of planTasksFromWorkflow gets through, in order
  Decompositions,  \* what the model answers: Seq([objective, known, wants: Seq(objective)])
  MaxWorkflows,    \* bound: workflow definitions ever created
  MaxTasks,        \* bound: no plan is begun beyond this many tasks
  MaxPlans         \* bound: planning calls

Draft == [objective: Names, known: BOOLEAN, wants: Seq(Names)]

\* What the depth-first searches return is checked in WorkflowSearch; here it is
\* all that is known of them.
ASSUME PlanningConstants ==
  /\ \A f \in Flows : f \in Workflow(Names) /\ Valid(f) \in BOOLEAN /\ UpstreamFirst(f, Order(f))
  /\ \A d \in Decompositions : d \in Seq(Draft) /\ d # <<>>
  /\ MaxWorkflows \in Nat /\ MaxTasks \in Nat /\ MaxPlans \in Nat

VARIABLES
  defs,      \* docs "workflow_definition", in the order of their creation
  binding,   \* docs "workflow_preset": the binding of each project
  tasks,     \* docs "task", in the order of their creation
  plans,     \* history: the plans begun, with the order each was to enforce
  calls      \* planDeliveryTasks coroutines

vars == <<defs, binding, tasks, plans, calls>>

NoBinding == [workflow |-> 0, active |-> FALSE]
TaskStates == {"READY", "RUNNING", "DONE", "BLOCKED"}

Init ==
  /\ defs = <<>>
  /\ binding = [p \in Projects |-> NoBinding]
  /\ tasks = <<>> /\ plans = <<>> /\ calls = {}

-----------------------------------------------------------------------------
(* Composed workflows and their bindings.                                    *)

create ==
  /\ Len(defs) < MaxWorkflows
  /\ \E f \in Flows : Valid(f) /\ defs' = Append(defs, [flow |-> f, archived |-> FALSE])
  /\ UNCHANGED <<binding, tasks, plans, calls>>

\* An updated definition is a new one under the old id: no longer archived.
update(id) ==
  /\ \E f \in Flows : Valid(f) /\ defs' = [defs EXCEPT ![id] = [flow |-> f, archived |-> FALSE]]
  /\ UNCHANGED <<binding, tasks, plans, calls>>

\* mutant: archive clears the binding of one project only.
ArchiveOne(id) ==
  /\ defs' = [defs EXCEPT ![id].archived = TRUE]
  /\ \E p \in Projects : binding' = [binding EXCEPT ![p].active = @ /\ binding[p].workflow # id]
  /\ UNCHANGED <<tasks, plans, calls>>

archive(id) ==
  /\ defs' = [defs EXCEPT ![id].archived = TRUE]
  /\ binding' = [p \in Projects |-> [binding[p] EXCEPT !.active = @ /\ binding[p].workflow # id]]
  /\ UNCHANGED <<tasks, plans, calls>>

applyToProject(p, id) ==
  /\ ~defs[id].archived /\ Valid(defs[id].flow)
  /\ binding' = [binding EXCEPT ![p] = [workflow |-> id, active |-> TRUE]]
  /\ UNCHANGED <<defs, tasks, plans, calls>>

clearForProject(p) ==
  /\ binding' = [binding EXCEPT ![p].active = FALSE]
  /\ UNCHANGED <<defs, tasks, plans, calls>>

activeWorkflowFor(p) ==
  IF binding[p].active /\ ~defs[binding[p].workflow].archived THEN {defs[binding[p].workflow].flow} ELSE {}

-----------------------------------------------------------------------------
(* Plans.                                                                    *)

\* planDeliveryTasks is past its gate and scans the repository.
planDeliveryTasks(p) ==
  /\ Len(plans) < MaxPlans /\ Len(tasks) <= MaxTasks
  /\ plans' = Append(plans, [project |-> p, composed |-> FALSE, upstream |-> {}])
  /\ calls' = calls \cup {[plan |-> Len(plans) + 1, pc |-> "scan"]}
  /\ UNCHANGED <<defs, binding, tasks>>

Task(plan, node) == [plan |-> plan, node |-> node, deps |-> {}, status |-> "READY"]

\* mutant: an edge counts only when its steps are listed in its order.
ForwardPlan(c, f) ==
  LET order == Order(f)
      at(n) == CHOOSE i \in DOMAIN order : order[i] = n
      before(n, m) == \E i, j \in DOMAIN f.steps : i < j /\ f.steps[i] = n /\ f.steps[j] = m
  IN /\ tasks' = tasks \o [i \in DOMAIN order |->
                   [Task(c.plan, order[i]) EXCEPT
                      !.deps = {Len(tasks) + at(n) : n \in {m \in UpstreamOf(f, order[i]) : before(m, order[i])}}]]
     /\ plans' = [plans EXCEPT ![c.plan].composed = TRUE, ![c.plan].upstream = Range(f.edges)]

\* mutant: the steps are planned as they are listed, those on a cycle too.
ListedPlan(c, f) ==
  LET at(n) == CHOOSE i \in DOMAIN f.steps : f.steps[i] = n
  IN /\ tasks' = tasks \o [i \in DOMAIN f.steps |->
                   [Task(c.plan, f.steps[i]) EXCEPT
                      !.deps = {Len(tasks) + at(n) : n \in UpstreamOf(f, f.steps[i])}]]
     /\ plans' = [plans EXCEPT ![c.plan].composed = TRUE, ![c.plan].upstream = Range(f.edges)]

\* One task per step, in order; a step on a cycle throws after what came before
\* it was stored.
planTasksFromWorkflow(c, f) ==
  LET order == Order(f)
      at(n) == CHOOSE i \in DOMAIN order : order[i] = n
  IN /\ tasks' = tasks \o [i \in DOMAIN order |->
                   [Task(c.plan, order[i]) EXCEPT
                      !.deps = {Len(tasks) + at(n) : n \in UpstreamOf(f, order[i])}]]
     /\ plans' = [plans EXCEPT ![c.plan].composed = TRUE, ![c.plan].upstream = Range(f.edges)]

\* The scan is over: a composed workflow is planned at once, else the model is asked.
Scanned(c) ==
  /\ c.pc = "scan"
  /\ LET composed == activeWorkflowFor(plans[c.plan].project)
     IN \/ /\ calls' = calls \ {c}
           /\ \E f \in composed : planTasksFromWorkflow(c, f)
        \/ /\ composed = {}
           /\ calls' = (calls \ {c}) \cup {[plan |-> c.plan, pc |-> "decompose"]}
           /\ UNCHANGED <<tasks, plans>>
  /\ UNCHANGED <<defs, binding>>

\* The drafts stored before an unknown owner role throws.
Stored(d) == LET unknown == {i \in DOMAIN d : ~d[i].known}
             IN IF unknown = {} THEN Len(d) ELSE (CHOOSE i \in unknown : \A j \in unknown : i <= j) - 1

\* The last draft of an objective is the one others depend on.
Named(d, objective) == {i \in DOMAIN d : d[i].objective = objective /\ \A j \in DOMAIN d :
                                           d[j].objective = objective => j <= i}

\* The first draft that names an objective nobody has; none if a role was unknown.
Dangling(d) == {i \in DOMAIN d : \E o \in Range(d[i].wants) : Named(d, o) = {}}
Resolved(d) == IF Stored(d) < Len(d) THEN 0
               ELSE IF Dangling(d) = {} THEN Len(d)
               ELSE (CHOOSE i \in Dangling(d) : \A j \in Dangling(d) : i <= j) - 1

\* planTasks: all drafts are stored READY, then their dependencies are; what an
\* error interrupts stays as it was stored.
planTasks(c) ==
  /\ c.pc = "decompose"
  /\ calls' = calls \ {c}
  /\ \E d \in Decompositions :
       /\ tasks' = tasks \o [i \in 1..Stored(d) |->
                     [Task(c.plan, d[i].objective) EXCEPT
                        !.deps = IF i > Resolved(d) THEN {}
                                 ELSE {Len(tasks) + j : j \in UNION {Named(d, o) : o \in Range(d[i].wants)}}]]
  /\ UNCHANGED <<defs, binding, plans>>

\* The provider throws, its answer is invalid, or the daemon restarts.
PlanLost(c) ==
  /\ calls' = calls \ {c}
  /\ UNCHANGED <<defs, binding, tasks, plans>>

-----------------------------------------------------------------------------
(* Execution, as far as the order goes.                                      *)

UpstreamDone(t) == \A d \in tasks[t].deps : tasks[d].status = "DONE"

\* executeTask behind its dependency gate.
executeTask(t) ==
  /\ tasks[t].status \in {"READY", "BLOCKED"} /\ UpstreamDone(t)
  /\ tasks' = [tasks EXCEPT ![t].status = "RUNNING"]
  /\ UNCHANGED <<defs, binding, plans, calls>>

\* Its run ended without success; or the task is verified, reviewed and complete,
\* which nobody asks of its status.
TaskSettles(t) ==
  /\ \E s \in {"DONE"} \cup {r \in {"READY"} : tasks[t].status = "RUNNING"} :
       tasks' = [tasks EXCEPT ![t].status = s]
  /\ UNCHANGED <<defs, binding, plans, calls>>

\* A pause, a requirement change or a late review takes a task back.
TaskBlocked(t) ==
  /\ tasks' = [tasks EXCEPT ![t].status = "BLOCKED"]
  /\ UNCHANGED <<defs, binding, plans, calls>>

-----------------------------------------------------------------------------

Next ==
  \/ create
  \/ \E id \in DOMAIN defs : update(id) \/ archive(id) \/ \E p \in Projects : applyToProject(p, id)
  \/ \E p \in Projects : clearForProject(p) \/ planDeliveryTasks(p)
  \/ \E c \in calls : Scanned(c) \/ planTasks(c) \/ PlanLost(c)
  \/ \E t \in DOMAIN tasks : executeTask(t) \/ TaskSettles(t) \/ TaskBlocked(t)

Spec == Init /\ [][Next]_vars
-----------------------------------------------------------------------------

TypeOK ==
  /\ \A id \in DOMAIN defs : defs[id] \in [flow: Flows, archived: BOOLEAN]
  /\ binding \in [Projects -> [workflow: 0..Len(defs), active: BOOLEAN]]
  /\ \A t \in DOMAIN tasks : /\ tasks[t].plan \in DOMAIN plans
                             /\ tasks[t].deps \subseteq DOMAIN tasks
                             /\ tasks[t].status \in TaskStates
  /\ \A n \in DOMAIN plans : plans[n].project \in Projects
  /\ \A c \in calls : c.plan \in DOMAIN plans /\ c.pc \in {"scan", "decompose"}

\* "the composed order is enforced by the engine, not advisory"
\* (project-service.ts:404): a task of a composed workflow starts only when every
\* step its workflow had upstream of it when it was planned is DONE - also after
\* the workflow was edited or archived and when the plan broke off.
ComposedOrderEnforced ==
  [][\A t \in DOMAIN tasks :
       plans[tasks[t].plan].composed /\ tasks[t].status # "RUNNING" /\ tasks'[t].status = "RUNNING"
       => \A e \in plans[tasks[t].plan].upstream : e[2] = tasks[t].node =>
            \E u \in DOMAIN tasks : /\ tasks[u].plan = tasks[t].plan /\ tasks[u].node = e[1]
                                    /\ tasks[u].status = "DONE"]_vars

\* A composed workflow never plans tasks that wait for each other: some task of
\* the plan can start or has, unless all are done - though validate accepts
\* workflows with cycles its entry does not reach.
ComposedPlanIsRunnable ==
  \A n \in DOMAIN plans :
    LET open == {t \in DOMAIN tasks : tasks[t].plan = n /\ tasks[t].status # "DONE"}
    IN plans[n].composed /\ open # {} => \E t \in open : UpstreamDone(t)

\* An active binding leads to a workflow that may be planned from, whatever
\* updates, archivals and bindings of other projects came before.
ActiveBindingUsable ==
  \A p \in Projects : binding[p].active => /\ activeWorkflowFor(p) # {}
                                           /\ \A f \in activeWorkflowFor(p) : Valid(f)

=============================================================================
