------------------------- MODULE TaskPlanning_proofs -------------------------
(***************************************************************************)
(* That the order of a composed workflow is enforced and never deadlocks its *)
(* plan, and that active bindings are usable: for every search that returns  *)
(* steps upstream first, all workflows, decompositions and bounds.           *)
(***************************************************************************)
EXTENDS TaskPlanning, WellFoundedInduction, TLAPS

\* What defs, bindings and plans are made of; every definition was validated.
PlanningTyped ==
  /\ defs \in Seq([flow: Flows, archived: BOOLEAN])
  /\ \A id \in DOMAIN defs : Valid(defs[id].flow)
  /\ binding \in [Projects -> [workflow: Nat, active: BOOLEAN]]
  /\ tasks \in Seq([plan: Nat, node: Names, deps: SUBSET Nat, status: TaskStates])
  /\ plans \in Seq([project: Projects, composed: BOOLEAN, upstream: SUBSET (Names \X Names)])
  /\ calls \subseteq [plan: Nat, pc: {"scan", "decompose"}]

\* A binding leads nowhere or to a definition, an active one to one that is not archived.
BindingsLead ==
  \A p \in Projects : /\ binding[p].workflow \in 0..Len(defs)
                      /\ binding[p].active => /\ binding[p].workflow \in DOMAIN defs
                                              /\ ~defs[binding[p].workflow].archived

\* A planning call is the only one of its plan, which has no tasks yet.
CallsPlanNothingYet ==
  \A c \in calls : /\ c.plan \in DOMAIN plans /\ ~plans[c.plan].composed
                   /\ \A t \in DOMAIN tasks : tasks[t].plan # c.plan
                   /\ \A b \in calls : b.plan = c.plan => b = c

\* The tasks of a composed plan wait for earlier tasks of the same plan, and for
\* one of each step that was upstream.
Wired(ts, ps, t) ==
  /\ \A d \in ts[t].deps : d < t /\ ts[d].plan = ts[t].plan
  /\ \A e \in ps[ts[t].plan].upstream : e[2] = ts[t].node => \E d \in ts[t].deps : ts[d].node = e[1]

TasksOrdered ==
  \A t \in DOMAIN tasks : /\ tasks[t].plan \in DOMAIN plans
                          /\ tasks[t].deps \subseteq DOMAIN tasks
                          /\ plans[tasks[t].plan].composed => Wired(tasks, plans, t)

PlanningInv == PlanningTyped /\ BindingsLead /\ CallsPlanNothingYet /\ TasksOrdered

-----------------------------------------------------------------------------

\* A set of numbers that is not empty has a least one.
LEMMA LeastNumber ==
  ASSUME NEW S \in SUBSET Nat, S # {}
  PROVE  \E i \in S : \A j \in S : i <= j
<1>1. PICK i \in S : \A j \in S : ~(<<j, i>> \in OpToRel(<, Nat))
  BY NatLessThanWellFounded, WFMin
<1>2. \A j \in S : ~(j < i)
  BY <1>1 DEF OpToRel
<1>3. \A j \in S : i <= j
  BY <1>2
<1>. QED BY <1>3

\* An element of a sequence, and a sequence with one element replaced.
LEMMA SeqUpdate ==
  ASSUME NEW S, NEW seq \in Seq(S), NEW i \in DOMAIN seq
  PROVE  /\ seq[i] \in S
         /\ \A e \in S : /\ [seq EXCEPT ![i] = e] \in Seq(S)
                        /\ Len([seq EXCEPT ![i] = e]) = Len(seq)
  OBVIOUS

\* The initial state satisfies the invariant.
LEMMA PlanningInit == Init => PlanningInv
<1>. SUFFICES ASSUME Init PROVE PlanningInv
  OBVIOUS
<1>1. PlanningTyped
  BY DEF Init, PlanningTyped, NoBinding
<1>2. BindingsLead
  BY DEF Init, BindingsLead, NoBinding
<1>3. CallsPlanNothingYet /\ TasksOrdered
  BY DEF Init, CallsPlanNothingYet, TasksOrdered
<1>. QED BY <1>1, <1>2, <1>3 DEF PlanningInv

\* An active binding leads to one workflow, which was found valid.
LEMMA ActiveIsUsable ==
  ASSUME PlanningInv, NEW p \in Projects
  PROVE  /\ binding[p].active => activeWorkflowFor(p) # {}
         /\ \A f \in activeWorkflowFor(p) : f \in Flows /\ Valid(f)
<1>1. binding[p].active => /\ binding[p].workflow \in DOMAIN defs
                           /\ ~defs[binding[p].workflow].archived
  BY DEF PlanningInv, BindingsLead
<1>2. \A id \in DOMAIN defs : defs[id].flow \in Flows /\ Valid(defs[id].flow)
  <2>1. ASSUME NEW id \in DOMAIN defs PROVE defs[id] \in [flow: Flows, archived: BOOLEAN]
    BY SeqUpdate DEF PlanningInv, PlanningTyped
  <2>. QED BY <2>1 DEF PlanningInv, PlanningTyped
<1>. QED BY <1>1, <1>2 DEF activeWorkflowFor

\* Composing and binding leave plans and tasks alone.
LEMMA PlansKept ==
  ASSUME PlanningInv, UNCHANGED <<tasks, plans, calls>>
  PROVE  CallsPlanNothingYet' /\ TasksOrdered'
<1>1. CallsPlanNothingYet'
  BY DEF PlanningInv, CallsPlanNothingYet
<1>2. TasksOrdered'
  BY DEF PlanningInv, TasksOrdered, Wired
<1>. QED BY <1>1, <1>2

\* A definition is added or replaced by a validated one that is not archived.
LEMMA DefinitionStep ==
  ASSUME PlanningInv, create \/ \E id \in DOMAIN defs : update(id)
  PROVE  PlanningInv'
<1>. UNCHANGED <<binding, tasks, plans, calls>>
  BY DEF create, update
<1>1. PICK f \in Flows : /\ Valid(f)
                         /\ \/ defs' = Append(defs, [flow |-> f, archived |-> FALSE])
                            \/ \E id \in DOMAIN defs : defs' = [defs EXCEPT ![id] = [flow |-> f, archived |-> FALSE]]
  BY DEF create, update
<1>2. defs \in Seq([flow: Flows, archived: BOOLEAN])
  BY DEF PlanningInv, PlanningTyped
<1>3. /\ defs' \in Seq([flow: Flows, archived: BOOLEAN])
      /\ Len(defs') >= Len(defs)
      /\ \A id \in DOMAIN defs' : \/ defs'[id] = [flow |-> f, archived |-> FALSE]
                                  \/ id \in DOMAIN defs /\ defs'[id] = defs[id]
  <2>1. CASE defs' = Append(defs, [flow |-> f, archived |-> FALSE])
    <3>1. [flow |-> f, archived |-> FALSE] \in [flow: Flows, archived: BOOLEAN]
      OBVIOUS
    <3>. QED BY <1>2, <2>1, <3>1
  <2>2. CASE \E id \in DOMAIN defs : defs' = [defs EXCEPT ![id] = [flow |-> f, archived |-> FALSE]]
    BY <1>2, <2>2
  <2>. QED BY <1>1, <2>1, <2>2
<1>4. \A id \in DOMAIN defs' : Valid(defs'[id].flow)
  <2>1. Valid([flow |-> f, archived |-> FALSE].flow)
    BY <1>1
  <2>. QED BY <1>3, <2>1 DEF PlanningInv, PlanningTyped
<1>5. PlanningTyped'
  BY <1>3, <1>4 DEF PlanningInv, PlanningTyped
<1>6. BindingsLead'
  <2>1. /\ Len(defs) \in Nat /\ Len(defs') \in Nat
        /\ DOMAIN defs = 1..Len(defs) /\ DOMAIN defs' = 1..Len(defs')
    BY <1>2, <1>3
  <2>2. ~[flow |-> f, archived |-> FALSE].archived
    OBVIOUS
  <2>3. \A id \in DOMAIN defs : /\ id \in DOMAIN defs'
                               /\ ~defs[id].archived => ~defs'[id].archived
    BY <1>3, <2>1, <2>2
  <2>4. 0..Len(defs) \subseteq 0..Len(defs')
    BY <1>3, <2>1
  <2>. QED BY <2>3, <2>4 DEF PlanningInv, BindingsLead
<1>. QED BY <1>5, <1>6, PlansKept DEF PlanningInv

\* Archiving a definition deactivates every binding to it.
LEMMA ArchiveStep ==
  ASSUME PlanningInv, NEW id \in DOMAIN defs, archive(id)
  PROVE  PlanningInv'
<1>. UNCHANGED <<tasks, plans, calls>>
  BY DEF archive
<1>1. defs \in Seq([flow: Flows, archived: BOOLEAN])
  BY DEF PlanningInv, PlanningTyped
<1>2. /\ defs' \in Seq([flow: Flows, archived: BOOLEAN]) /\ Len(defs') = Len(defs)
      /\ \A i \in DOMAIN defs' : /\ i \in DOMAIN defs /\ defs'[i].flow = defs[i].flow
                                 /\ i # id => defs'[i] = defs[i]
  <2>1. \A i \in DOMAIN defs : defs[i] \in [flow: Flows, archived: BOOLEAN]
    BY <1>1, SeqUpdate
  <2> DEFINE old == [defs[id] EXCEPT !.archived = TRUE]
  <2>5. old \in [flow: Flows, archived: BOOLEAN] /\ defs' = [defs EXCEPT ![id] = old]
    BY <2>1 DEF archive
  <2>. HIDE DEF old
  <2>2. defs' \in Seq([flow: Flows, archived: BOOLEAN]) /\ Len(defs') = Len(defs)
    BY <1>1, <2>5, SeqUpdate
  <2>3. DOMAIN defs' = DOMAIN defs /\ \A i \in DOMAIN defs : i # id => defs'[i] = defs[i]
    BY DEF archive
  <2>4. defs'[id].flow = defs[id].flow
    BY <2>1 DEF archive
  <2>. QED BY <2>2, <2>3, <2>4
<1>3. /\ binding' \in [Projects -> [workflow: Nat, active: BOOLEAN]]
      /\ \A p \in Projects : /\ binding'[p].workflow = binding[p].workflow
                             /\ binding'[p].active = (binding[p].active /\ binding[p].workflow # id)
  BY DEF archive, PlanningInv, PlanningTyped
<1>4. PlanningTyped'
  BY <1>2, <1>3 DEF PlanningInv, PlanningTyped
<1>5. BindingsLead'
  BY <1>1, <1>2, <1>3 DEF PlanningInv, BindingsLead
<1>. QED BY <1>4, <1>5, PlansKept DEF PlanningInv

\* A project is bound to a definition that is not archived, or unbound.
LEMMA BindingStep ==
  ASSUME PlanningInv, NEW p \in Projects,
         clearForProject(p) \/ \E id \in DOMAIN defs : applyToProject(p, id)
  PROVE  PlanningInv'
<1>. UNCHANGED <<defs, tasks, plans, calls>>
  BY DEF clearForProject, applyToProject
<1>1. defs \in Seq([flow: Flows, archived: BOOLEAN])
  BY DEF PlanningInv, PlanningTyped
<1>2. CASE clearForProject(p)
  <2>1. /\ binding' \in [Projects -> [workflow: Nat, active: BOOLEAN]]
        /\ \A q \in Projects : /\ binding'[q].workflow = binding[q].workflow
                               /\ binding'[q].active => binding[q].active
    BY <1>2 DEF clearForProject, PlanningInv, PlanningTyped
  <2>2. PlanningTyped' /\ BindingsLead'
    BY <2>1 DEF PlanningInv, PlanningTyped, BindingsLead
  <2>. QED BY <2>2, PlansKept DEF PlanningInv
<1>3. ASSUME NEW id \in DOMAIN defs, applyToProject(p, id)
      PROVE  PlanningInv'
  <2>1. id \in Nat /\ id \in 0..Len(defs)
    BY <1>1
  <2>2. /\ binding' \in [Projects -> [workflow: Nat, active: BOOLEAN]]
        /\ \A q \in Projects : binding'[q] = IF q = p THEN [workflow |-> id, active |-> TRUE] ELSE binding[q]
    BY <1>3, <2>1 DEF applyToProject, PlanningInv, PlanningTyped
  <2>3. PlanningTyped'
    BY <2>2 DEF PlanningInv, PlanningTyped
  <2>4. BindingsLead'
    BY <1>3, <2>1, <2>2 DEF applyToProject, PlanningInv, BindingsLead
  <2>. QED BY <2>3, <2>4, PlansKept DEF PlanningInv
<1>. QED BY <1>2, <1>3
-----------------------------------------------------------------------------

\* A plan is begun under a number no task has.
LEMMA BeginStep ==
  ASSUME PlanningInv, NEW p \in Projects, planDeliveryTasks(p)
  PROVE  PlanningInv'
<1>. UNCHANGED <<defs, binding, tasks>>
  BY DEF planDeliveryTasks
<1> DEFINE new == [project |-> p, composed |-> FALSE, upstream |-> {}]
<1> DEFINE call == [plan |-> Len(plans) + 1, pc |-> "scan"]
<1>1. /\ plans \in Seq([project: Projects, composed: BOOLEAN, upstream: SUBSET (Names \X Names)])
      /\ calls \subseteq [plan: Nat, pc: {"scan", "decompose"}]
  BY DEF PlanningInv, PlanningTyped
<1>2. /\ new \in [project: Projects, composed: BOOLEAN, upstream: SUBSET (Names \X Names)]
      /\ ~new.composed
  OBVIOUS
<1>3. call \in [plan: Nat, pc: {"scan", "decompose"}] /\ call.plan = Len(plans) + 1
  BY <1>1
<1>4. plans' = Append(plans, new) /\ calls' = calls \cup {call}
  BY DEF planDeliveryTasks
<1>. HIDE DEF new, call
<1>5. /\ plans' \in Seq([project: Projects, composed: BOOLEAN, upstream: SUBSET (Names \X Names)])
      /\ DOMAIN plans' = DOMAIN plans \cup {Len(plans) + 1}
      /\ Len(plans) + 1 \notin DOMAIN plans
      /\ \A n \in DOMAIN plans : plans'[n] = plans[n]
      /\ plans'[Len(plans) + 1] = new
  BY <1>1, <1>2, <1>4
<1>6. PlanningTyped'
  BY <1>1, <1>3, <1>4, <1>5 DEF PlanningInv, PlanningTyped
<1>7. BindingsLead'
  BY DEF PlanningInv, BindingsLead
<1>8. CallsPlanNothingYet'
  BY <1>2, <1>3, <1>4, <1>5 DEF PlanningInv, CallsPlanNothingYet, TasksOrdered
<1>9. TasksOrdered'
  BY <1>5 DEF PlanningInv, TasksOrdered, Wired
<1>. QED BY <1>6, <1>7, <1>8, <1>9 DEF PlanningInv

\* Tasks of one plan are stored after the others: c is over, and its plan may have
\* become that of a composed workflow with the given edges.
LEMMA PlanStored ==
  ASSUME PlanningInv, NEW c \in calls, UNCHANGED <<defs, binding>>, calls' = calls \ {c},
         NEW new \in Seq([plan: Nat, node: Names, deps: SUBSET Nat, status: TaskStates]),
         tasks' = tasks \o new,
         plans' \in Seq([project: Projects, composed: BOOLEAN, upstream: SUBSET (Names \X Names)]),
         DOMAIN plans' = DOMAIN plans,
         \A n \in DOMAIN plans : n # c.plan => plans'[n] = plans[n],
         \A i \in DOMAIN new : /\ new[i].plan = c.plan
                               /\ new[i].deps \subseteq (Len(tasks) + 1)..(Len(tasks) + Len(new)),
         plans'[c.plan].composed =>
           \A i \in DOMAIN new :
             /\ \A d \in new[i].deps : d < Len(tasks) + i
             /\ \A e \in plans'[c.plan].upstream : e[2] = new[i].node =>
                  \E d \in new[i].deps : new[d - Len(tasks)].node = e[1]
  PROVE  PlanningInv' /\ \A t \in DOMAIN tasks : tasks'[t] = tasks[t]
<1>1. tasks \in Seq([plan: Nat, node: Names, deps: SUBSET Nat, status: TaskStates])
  BY DEF PlanningInv, PlanningTyped
<1>2. /\ tasks' \in Seq([plan: Nat, node: Names, deps: SUBSET Nat, status: TaskStates])
      /\ DOMAIN tasks' = 1..(Len(tasks) + Len(new)) /\ DOMAIN tasks = 1..Len(tasks)
      /\ DOMAIN new = 1..Len(new) /\ Len(tasks) \in Nat /\ Len(new) \in Nat
      /\ \A t \in DOMAIN tasks : tasks'[t] = tasks[t]
      /\ \A i \in DOMAIN new : tasks'[Len(tasks) + i] = new[i]
  BY <1>1
<1>3. PlanningTyped'
  BY <1>2 DEF PlanningInv, PlanningTyped
<1>4. BindingsLead'
  BY DEF PlanningInv, BindingsLead
<1>5. \A t \in DOMAIN tasks' : \/ t \in DOMAIN tasks
                               \/ \E i \in DOMAIN new : t = Len(tasks) + i
  <2>1. \A t \in DOMAIN tasks' : t \notin DOMAIN tasks => t - Len(tasks) \in DOMAIN new
    BY <1>2
  <2>2. \A t \in DOMAIN tasks' : t = Len(tasks) + (t - Len(tasks))
    BY <1>2
  <2>. QED BY <2>1, <2>2
<1>6. CallsPlanNothingYet'
  <2>1. ASSUME NEW b \in calls' PROVE b \in calls /\ b.plan # c.plan
    BY <2>1 DEF PlanningInv, CallsPlanNothingYet
  <2>2. ASSUME NEW b \in calls', NEW t \in DOMAIN tasks' PROVE tasks'[t].plan # b.plan
    <3>1. CASE t \in DOMAIN tasks
      BY <1>2, <2>1, <3>1 DEF PlanningInv, CallsPlanNothingYet
    <3>2. CASE \E i \in DOMAIN new : t = Len(tasks) + i
      BY <1>2, <2>1, <3>2
    <3>. QED BY <1>5, <3>1, <3>2
  <2>. QED BY <2>1, <2>2 DEF PlanningInv, CallsPlanNothingYet
<1>7. ASSUME NEW t \in DOMAIN tasks
      PROVE  /\ tasks'[t].plan \in DOMAIN plans' /\ tasks'[t].deps \subseteq DOMAIN tasks'
             /\ plans'[tasks'[t].plan].composed => Wired(tasks', plans', t)
  <2>1. /\ tasks[t].plan \in DOMAIN plans /\ tasks[t].plan # c.plan
        /\ tasks[t].deps \subseteq DOMAIN tasks
        /\ plans[tasks[t].plan].composed => Wired(tasks, plans, t)
    BY DEF PlanningInv, CallsPlanNothingYet, TasksOrdered
  <2>2. tasks'[t] = tasks[t] /\ plans'[tasks[t].plan] = plans[tasks[t].plan]
    BY <1>2, <2>1
  <2>3. DOMAIN tasks \subseteq DOMAIN tasks'
    BY <1>2
  <2>4. ASSUME Wired(tasks, plans, t) PROVE Wired(tasks', plans', t)
    BY <1>2, <2>1, <2>2, <2>4 DEF Wired
  <2>. QED BY <2>1, <2>2, <2>3, <2>4
<1>8. ASSUME NEW i \in DOMAIN new
      PROVE  LET t == Len(tasks) + i
             IN /\ tasks'[t].plan \in DOMAIN plans' /\ tasks'[t].deps \subseteq DOMAIN tasks'
                /\ plans'[tasks'[t].plan].composed => Wired(tasks', plans', t)
  <2>1. tasks'[Len(tasks) + i] = new[i] /\ new[i].plan = c.plan
    BY <1>2
  <2>2. c.plan \in DOMAIN plans'
    BY DEF PlanningInv, CallsPlanNothingYet
  <2>3. new[i].deps \subseteq DOMAIN tasks'
    BY <1>2
  <2>4. ASSUME NEW d \in new[i].deps
        PROVE  d - Len(tasks) \in DOMAIN new /\ d = Len(tasks) + (d - Len(tasks))
    BY <1>2
  <2>5. \A d \in new[i].deps : /\ tasks'[d] = new[d - Len(tasks)]
                               /\ new[d - Len(tasks)].plan = c.plan
    BY <1>2, <2>4
  <2>6. ASSUME plans'[c.plan].composed PROVE Wired(tasks', plans', Len(tasks) + i)
    <3>1. \A d \in new[i].deps : d < Len(tasks) + i /\ tasks'[d].plan = c.plan
      BY <2>5, <2>6
    <3>2. \A e \in plans'[c.plan].upstream : e[2] = new[i].node =>
            \E d \in new[i].deps : tasks'[d].node = e[1]
      <4>1. ASSUME NEW e \in plans'[c.plan].upstream, e[2] = new[i].node
            PROVE  \E d \in new[i].deps : new[d - Len(tasks)].node = e[1]
        BY <2>6, <4>1
      <4>. QED BY <2>5, <4>1
    <3>. QED BY <2>1, <3>1, <3>2 DEF Wired
  <2>. QED BY <2>1, <2>2, <2>3, <2>6
<1>9. TasksOrdered'
  BY <1>5, <1>7, <1>8 DEF TasksOrdered
<1>. QED BY <1>2, <1>3, <1>4, <1>6, <1>9 DEF PlanningInv

\* A composed workflow is planned: order is upstream first, so the task of a step
\* that is waited for is found, and comes before.
LEMMA ComposeStep ==
  ASSUME PlanningInv, NEW c \in calls, NEW f \in Flows, UNCHANGED <<defs, binding>>,
         calls' = calls \ {c}, planTasksFromWorkflow(c, f)
  PROVE  PlanningInv' /\ \A t \in DOMAIN tasks : tasks'[t] = tasks[t]
<1> DEFINE order == Order(f)
<1> DEFINE at(n) == CHOOSE i \in DOMAIN order : order[i] = n
<1> DEFINE deps(i) == {Len(tasks) + at(n) : n \in UpstreamOf(f, order[i])}
<1> DEFINE new == [i \in DOMAIN order |-> [Task(c.plan, order[i]) EXCEPT !.deps = deps(i)]]
<1>1. tasks' = tasks \o new
  BY Zenon DEF planTasksFromWorkflow
<1>2. /\ f.steps \in Seq(Names) /\ f.edges \in Seq(Names \X Names)
      /\ order \in Seq(Range(f.steps))
      /\ \A i, j \in DOMAIN order : order[i] = order[j] => i = j
      /\ \A i \in DOMAIN order : \A n \in UpstreamOf(f, order[i]) :
           \E j \in DOMAIN order : j < i /\ order[j] = n
  BY PlanningConstants DEF UpstreamFirst, Workflow
<1>3. Range(f.steps) \subseteq Names /\ Range(f.edges) \subseteq Names \X Names
  BY <1>2 DEF Range
<1>4. DOMAIN order = 1..Len(order) /\ Len(order) \in Nat /\ \A i \in DOMAIN order : order[i] \in Names
  BY <1>2, <1>3
<1>5. Len(tasks) \in Nat /\ c.plan \in Nat /\ c.plan \in DOMAIN plans
  BY DEF PlanningInv, PlanningTyped, CallsPlanNothingYet
<1>. HIDE DEF order
<1>6. ASSUME NEW i \in DOMAIN order, NEW n \in UpstreamOf(f, order[i])
      PROVE  at(n) \in DOMAIN order /\ at(n) < i /\ order[at(n)] = n
  <2>1. PICK j \in DOMAIN order : j < i /\ order[j] = n
    BY <1>2
  <2>2. at(n) = j
    BY <1>2, <2>1
  <2>. QED BY <2>1, <2>2
<1>7. \A i \in DOMAIN order : \A d \in deps(i) :
        \E n \in UpstreamOf(f, order[i]) : d = Len(tasks) + at(n)
  OBVIOUS
<1>. HIDE DEF at
<1>8. \A i \in DOMAIN order : deps(i) \in SUBSET Nat /\ deps(i) \subseteq (Len(tasks) + 1)..(Len(tasks) + Len(order))
  BY <1>4, <1>5, <1>6, <1>7
<1>9. \A i \in DOMAIN order : \A d \in deps(i) : d < Len(tasks) + i
  BY <1>4, <1>5, <1>6, <1>7
<1>13. \A i \in DOMAIN order : \A n \in UpstreamOf(f, order[i]) : Len(tasks) + at(n) \in deps(i)
  OBVIOUS
<1>. HIDE DEF deps
<1>10. \A i \in DOMAIN order : \A e \in Range(f.edges) : e[2] = order[i] =>
         \E d \in deps(i) : d - Len(tasks) \in DOMAIN order /\ order[d - Len(tasks)] = e[1]
  <2>1. ASSUME NEW i \in DOMAIN order, NEW e \in Range(f.edges), e[2] = order[i]
        PROVE  \E d \in deps(i) : d - Len(tasks) \in DOMAIN order /\ order[d - Len(tasks)] = e[1]
    <3>1. e[1] \in UpstreamOf(f, order[i])
      BY <2>1 DEF UpstreamOf
    <3> DEFINE d == Len(tasks) + at(e[1])
    <3>2. d \in deps(i)
      BY <1>13, <3>1
    <3>3. at(e[1]) \in DOMAIN order /\ order[at(e[1])] = e[1]
      BY <1>6, <3>1
    <3>4. d - Len(tasks) = at(e[1])
      BY <1>4, <1>5, <3>3
    <3>. HIDE DEF d
    <3>. QED BY <3>2, <3>3, <3>4
  <2>. QED BY <2>1
<1>11. /\ new \in Seq([plan: Nat, node: Names, deps: SUBSET Nat, status: TaskStates])
       /\ DOMAIN new = DOMAIN order /\ Len(new) = Len(order)
       /\ \A i \in DOMAIN order : /\ new[i].plan = c.plan /\ new[i].node = order[i]
                                  /\ new[i].deps = deps(i)
  BY <1>4, <1>5, <1>8 DEF Task, TaskStates
<1>. HIDE DEF new
<1>12. /\ plans' \in Seq([project: Projects, composed: BOOLEAN, upstream: SUBSET (Names \X Names)])
       /\ DOMAIN plans' = DOMAIN plans
       /\ \A n \in DOMAIN plans : n # c.plan => plans'[n] = plans[n]
       /\ plans'[c.plan].upstream = Range(f.edges)
  <2> DEFINE plan == [plans[c.plan] EXCEPT !.composed = TRUE, !.upstream = Range(f.edges)]
  <2>0. plans \in Seq([project: Projects, composed: BOOLEAN, upstream: SUBSET (Names \X Names)])
    BY DEF PlanningInv, PlanningTyped
  <2>1. plans[c.plan] \in [project: Projects, composed: BOOLEAN, upstream: SUBSET (Names \X Names)]
    BY <1>5, <2>0, SeqUpdate
  <2>2. /\ plan \in [project: Projects, composed: BOOLEAN, upstream: SUBSET (Names \X Names)]
        /\ plan.upstream = Range(f.edges)
    BY <1>3, <2>1
  <2>3. plans' = [plans EXCEPT ![c.plan] = plan]
    BY DEF planTasksFromWorkflow
  <2>. HIDE DEF plan
  <2>4. plans' \in Seq([project: Projects, composed: BOOLEAN, upstream: SUBSET (Names \X Names)])
    BY <1>5, <2>0, <2>2, <2>3, SeqUpdate
  <2>. QED BY <1>5, <2>2, <2>3, <2>4
<1>14. \A i \in DOMAIN new : /\ new[i].plan = c.plan
                             /\ new[i].deps \subseteq (Len(tasks) + 1)..(Len(tasks) + Len(new))
  BY <1>8, <1>11
<1>15. \A i \in DOMAIN new :
         /\ \A d \in new[i].deps : d < Len(tasks) + i
         /\ \A e \in plans'[c.plan].upstream : e[2] = new[i].node =>
              \E d \in new[i].deps : new[d - Len(tasks)].node = e[1]
  <2>1. ASSUME NEW i \in DOMAIN order PROVE \A d \in new[i].deps : d < Len(tasks) + i
    BY <1>9, <1>11
  <2>2. ASSUME NEW i \in DOMAIN order, NEW e \in plans'[c.plan].upstream, e[2] = new[i].node
        PROVE  \E d \in new[i].deps : new[d - Len(tasks)].node = e[1]
    <3>1. PICK d \in deps(i) : d - Len(tasks) \in DOMAIN order /\ order[d - Len(tasks)] = e[1]
      BY <1>10, <1>11, <1>12, <2>2
    <3>2. new[d - Len(tasks)].node = e[1] /\ d \in new[i].deps
      BY <1>11, <3>1
    <3>. QED BY <3>2
  <2>. QED BY <1>11, <2>1, <2>2
<1>. QED BY <1>1, <1>11, <1>12, <1>14, <1>15, PlanStored

\* The drafts stored and resolved are a prefix of the answer.
LEMMA DraftsStored ==
  ASSUME NEW d \in Decompositions
  PROVE  /\ d \in Seq(Draft)
         /\ Stored(d) \in 0..Len(d)
         /\ Resolved(d) # 0 => Stored(d) = Len(d)
         /\ Resolved(d) \in 0..Len(d)
         /\ \A o : Named(d, o) \subseteq 1..Len(d)
<1>1. d \in Seq(Draft) /\ DOMAIN d = 1..Len(d) /\ Len(d) \in Nat
  BY PlanningConstants
<1>2. Stored(d) \in 0..Len(d)
  <2> DEFINE unknown == {i \in DOMAIN d : ~d[i].known}
  <2>1. CASE unknown = {}
    BY <1>1, <2>1 DEF Stored
  <2>2. CASE unknown # {}
    <3> DEFINE first == CHOOSE i \in unknown : \A j \in unknown : i <= j
    <3>1. Stored(d) = first - 1
      BY <2>2 DEF Stored
    <3>2. unknown \in SUBSET Nat /\ unknown \subseteq 1..Len(d)
      BY <1>1
    <3>. HIDE DEF unknown
    <3>3. first \in unknown
      BY <2>2, <3>2, LeastNumber
    <3>. HIDE DEF first
    <3>. QED BY <1>1, <3>1, <3>2, <3>3
  <2>. QED BY <2>1, <2>2
<1>3. Resolved(d) \in 0..Len(d)
  <2>1. CASE Dangling(d) = {}
    BY <1>1, <2>1 DEF Resolved
  <2>2. CASE Dangling(d) # {}
    <3> DEFINE first == CHOOSE i \in Dangling(d) : \A j \in Dangling(d) : i <= j
    <3>1. Dangling(d) \subseteq DOMAIN d
      BY DEF Dangling
    <3>2. first \in Dangling(d)
      BY <1>1, <2>2, <3>1, LeastNumber
    <3>3. Resolved(d) \in {0, first - 1}
      BY <2>2 DEF Resolved
    <3>. QED BY <1>1, <3>1, <3>2, <3>3
  <2>. QED BY <2>1, <2>2
<1>4. Resolved(d) # 0 => Stored(d) = Len(d)
  BY <1>1, <1>2 DEF Resolved
<1>5. \A o : Named(d, o) \subseteq 1..Len(d)
  BY <1>1 DEF Named
<1>. QED BY <1>1, <1>2, <1>3, <1>4, <1>5

\* A decomposition is stored: none of its plans is composed.
LEMMA DecomposeStep ==
  ASSUME PlanningInv, NEW c \in calls, planTasks(c)
  PROVE  PlanningInv' /\ \A t \in DOMAIN tasks : tasks'[t] = tasks[t]
<1>1. UNCHANGED <<defs, binding>> /\ calls' = calls \ {c} /\ plans' = plans
  BY DEF planTasks
<1> DEFINE deps(d, i) == IF i > Resolved(d) THEN {}
                         ELSE {Len(tasks) + j : j \in UNION {Named(d, o) : o \in Range(d[i].wants)}}
<1> DEFINE stored(d) == [i \in 1..Stored(d) |-> [Task(c.plan, d[i].objective) EXCEPT !.deps = deps(d, i)]]
<1>2. PICK d \in Decompositions : tasks' = tasks \o stored(d)
  BY Zenon DEF planTasks
<1>3. /\ Len(tasks) \in Nat /\ c.plan \in Nat /\ c.plan \in DOMAIN plans /\ ~plans[c.plan].composed
      /\ plans \in Seq([project: Projects, composed: BOOLEAN, upstream: SUBSET (Names \X Names)])
  BY DEF PlanningInv, PlanningTyped, CallsPlanNothingYet
<1>4. /\ d \in Seq(Draft) /\ Len(d) \in Nat /\ DOMAIN d = 1..Len(d)
      /\ Stored(d) \in 0..Len(d) /\ Resolved(d) \in 0..Len(d)
      /\ Resolved(d) # 0 => Stored(d) = Len(d)
      /\ \A o : Named(d, o) \subseteq 1..Len(d)
  BY DraftsStored
<1>5. \A i \in 1..Stored(d) : d[i].objective \in Names
  <2>1. ASSUME NEW i \in 1..Stored(d) PROVE d[i].objective \in Names
    <3>1. i \in DOMAIN d
      BY <1>4
    <3>2. d[i] \in Draft
      BY <1>4, <3>1, SeqUpdate
    <3>. QED BY <3>2 DEF Draft
  <2>. QED BY <2>1
<1>6. \A i \in 1..Stored(d) : deps(d, i) \subseteq (Len(tasks) + 1)..(Len(tasks) + Stored(d))
  <2>1. ASSUME NEW i \in 1..Stored(d), NEW e \in deps(d, i)
        PROVE  e \in (Len(tasks) + 1)..(Len(tasks) + Stored(d))
    <3>1. ~(i > Resolved(d))
      BY <2>1
    <3>2. Stored(d) = Len(d)
      BY <1>4, <3>1
    <3>3. PICK j \in UNION {Named(d, o) : o \in Range(d[i].wants)} : e = Len(tasks) + j
      BY <2>1, <3>1
    <3>4. j \in 1..Len(d)
      BY <1>4
    <3>. QED BY <1>3, <1>4, <3>2, <3>3, <3>4
  <2>. QED BY <2>1
<1>. HIDE DEF deps
<1>7. /\ stored(d) \in Seq([plan: Nat, node: Names, deps: SUBSET Nat, status: TaskStates])
      /\ DOMAIN stored(d) = 1..Stored(d) /\ Len(stored(d)) = Stored(d)
      /\ \A i \in 1..Stored(d) : stored(d)[i].plan = c.plan /\ stored(d)[i].deps = deps(d, i)
  <2>1. \A i \in 1..Stored(d) : deps(d, i) \in SUBSET Nat
    BY <1>3, <1>4, <1>6
  <2>2. Stored(d) \in Nat
    BY <1>4
  <2> DEFINE task(i) == [Task(c.plan, d[i].objective) EXCEPT !.deps = deps(d, i)]
  <2>3. \A i \in 1..Stored(d) : /\ task(i) \in [plan: Nat, node: Names, deps: SUBSET Nat, status: TaskStates]
                                /\ task(i).plan = c.plan /\ task(i).deps = deps(d, i)
    BY <1>3, <1>5, <2>1 DEF Task, TaskStates
  <2>4. stored(d) = [i \in 1..Stored(d) |-> task(i)]
    BY Zenon
  <2>. HIDE DEF task, stored
  <2>5. stored(d) \in [1..Stored(d) -> [plan: Nat, node: Names, deps: SUBSET Nat, status: TaskStates]]
    BY <2>3, <2>4
  <2>6. \A S : \A n \in Nat : \A seq \in [1..n -> S] : seq \in Seq(S) /\ DOMAIN seq = 1..n /\ Len(seq) = n
    OBVIOUS
  <2>7. \A i \in 1..Stored(d) : stored(d)[i] = task(i)
    BY <2>4
  <2>. QED BY <2>2, <2>3, <2>5, <2>6, <2>7
<1>. HIDE DEF stored
<1>8. \A i \in DOMAIN stored(d) : /\ stored(d)[i].plan = c.plan
                                  /\ stored(d)[i].deps \subseteq (Len(tasks) + 1)..(Len(tasks) + Len(stored(d)))
  BY <1>6, <1>7
<1>. QED BY <1>1, <1>2, <1>3, <1>7, <1>8, PlanStored

\* A scan that is over plans the active workflow or asks the model.
LEMMA ScannedStep ==
  ASSUME PlanningInv, NEW c \in calls, Scanned(c)
  PROVE  PlanningInv' /\ \A t \in DOMAIN tasks : tasks'[t] = tasks[t]
<1>1. UNCHANGED <<defs, binding>>
  BY DEF Scanned
<1>2. ASSUME calls' = calls \ {c}, NEW f \in activeWorkflowFor(plans[c.plan].project), planTasksFromWorkflow(c, f)
      PROVE  PlanningInv' /\ \A t \in DOMAIN tasks : tasks'[t] = tasks[t]
  <2>1. plans[c.plan].project \in Projects
    <3>1. c.plan \in DOMAIN plans
      BY DEF PlanningInv, CallsPlanNothingYet
    <3>2. plans \in Seq([project: Projects, composed: BOOLEAN, upstream: SUBSET (Names \X Names)])
      BY DEF PlanningInv, PlanningTyped
    <3>3. plans[c.plan] \in [project: Projects, composed: BOOLEAN, upstream: SUBSET (Names \X Names)]
      BY <3>1, <3>2, SeqUpdate
    <3>. QED BY <3>3
  <2>2. f \in Flows
    BY <1>2, <2>1, ActiveIsUsable
  <2>. QED BY <1>1, <1>2, <2>2, ComposeStep
<1>3. CASE /\ calls' = (calls \ {c}) \cup {[plan |-> c.plan, pc |-> "decompose"]}
           /\ UNCHANGED <<tasks, plans>>
  <2>1. PlanningTyped'
    BY <1>1, <1>3 DEF PlanningInv, PlanningTyped
  <2>2. BindingsLead' /\ TasksOrdered'
    BY <1>1, <1>3 DEF PlanningInv, BindingsLead, TasksOrdered, Wired
  <2>3. \A b \in calls' : (b \in calls /\ b.plan # c.plan) \/ (b = [plan |-> c.plan, pc |-> "decompose"])
    BY <1>3 DEF PlanningInv, CallsPlanNothingYet
  <2>4. CallsPlanNothingYet'
    <3>1. \A b \in calls' : \E a \in calls : a.plan = b.plan
      BY <2>3
    <3>2. \A a, b \in calls' : a.plan = b.plan => a = b
      BY <2>3 DEF PlanningInv, CallsPlanNothingYet
    <3>. QED BY <1>3, <3>1, <3>2 DEF PlanningInv, CallsPlanNothingYet
  <2>. QED BY <1>3, <2>1, <2>2, <2>4 DEF PlanningInv
<1>. QED BY <1>2, <1>3 DEF Scanned

\* A call that is lost leaves its plan without tasks.
LEMMA LostStep ==
  ASSUME PlanningInv, NEW c \in calls, PlanLost(c)
  PROVE  PlanningInv'
<1>. UNCHANGED <<defs, binding, tasks, plans>> /\ calls' = calls \ {c}
  BY DEF PlanLost
<1>1. PlanningTyped' /\ BindingsLead'
  BY DEF PlanningInv, PlanningTyped, BindingsLead
<1>2. CallsPlanNothingYet' /\ TasksOrdered'
  BY DEF PlanningInv, CallsPlanNothingYet, TasksOrdered, Wired
<1>. QED BY <1>1, <1>2 DEF PlanningInv

\* A task moves: its plan, step and dependencies stay.
LEMMA TaskStep ==
  ASSUME PlanningInv, NEW t \in DOMAIN tasks, executeTask(t) \/ TaskSettles(t) \/ TaskBlocked(t)
  PROVE  PlanningInv'
<1>. UNCHANGED <<defs, binding, plans, calls>>
  BY DEF executeTask, TaskSettles, TaskBlocked
<1>1. PICK status \in TaskStates : tasks' = [tasks EXCEPT ![t].status = status]
  BY DEF executeTask, TaskSettles, TaskBlocked, TaskStates
<1>2. tasks \in Seq([plan: Nat, node: Names, deps: SUBSET Nat, status: TaskStates])
  BY DEF PlanningInv, PlanningTyped
<1>3. /\ tasks' \in Seq([plan: Nat, node: Names, deps: SUBSET Nat, status: TaskStates])
      /\ DOMAIN tasks' = DOMAIN tasks
      /\ \A u \in DOMAIN tasks : /\ tasks'[u].plan = tasks[u].plan /\ tasks'[u].node = tasks[u].node
                                 /\ tasks'[u].deps = tasks[u].deps
  <2> DEFINE moved == [tasks[t] EXCEPT !.status = status]
  <2>1. tasks[t] \in [plan: Nat, node: Names, deps: SUBSET Nat, status: TaskStates]
    BY <1>2, SeqUpdate
  <2>2. /\ moved \in [plan: Nat, node: Names, deps: SUBSET Nat, status: TaskStates]
        /\ moved.plan = tasks[t].plan /\ moved.node = tasks[t].node /\ moved.deps = tasks[t].deps
    BY <2>1
  <2>3. tasks' = [tasks EXCEPT ![t] = moved]
    BY <1>1
  <2>. HIDE DEF moved
  <2>. QED BY <1>2, <2>2, <2>3, SeqUpdate
<1>4. PlanningTyped' /\ BindingsLead'
  BY <1>3 DEF PlanningInv, PlanningTyped, BindingsLead
<1>5. CallsPlanNothingYet'
  BY <1>3 DEF PlanningInv, CallsPlanNothingYet
<1>6. TasksOrdered'
  <2>1. ASSUME NEW u \in DOMAIN tasks, Wired(tasks, plans, u), tasks[u].deps \subseteq DOMAIN tasks
        PROVE  Wired(tasks', plans', u)
    BY <1>3, <2>1 DEF Wired
  <2>. QED BY <1>3, <2>1 DEF PlanningInv, TasksOrdered
<1>. QED BY <1>4, <1>5, <1>6 DEF PlanningInv

\* Every step preserves the invariant.
LEMMA PlanningNext == PlanningInv /\ [Next]_vars => PlanningInv'
<1>. SUFFICES ASSUME PlanningInv, [Next]_vars PROVE PlanningInv'
  OBVIOUS
<1>1. CASE create \/ \E id \in DOMAIN defs : update(id)
  BY <1>1, DefinitionStep
<1>2. CASE \E id \in DOMAIN defs : archive(id)
  BY <1>2, ArchiveStep
<1>3. CASE \E p \in Projects : clearForProject(p) \/ \E id \in DOMAIN defs : applyToProject(p, id)
  BY <1>3, BindingStep
<1>4. CASE \E p \in Projects : planDeliveryTasks(p)
  BY <1>4, BeginStep
<1>5. CASE \E c \in calls : Scanned(c)
  BY <1>5, ScannedStep
<1>6. CASE \E c \in calls : planTasks(c)
  BY <1>6, DecomposeStep
<1>7. CASE \E c \in calls : PlanLost(c)
  BY <1>7, LostStep
<1>8. CASE \E t \in DOMAIN tasks : executeTask(t) \/ TaskSettles(t) \/ TaskBlocked(t)
  BY <1>8, TaskStep
<1>9. CASE UNCHANGED vars
  <2>1. PlanningTyped' /\ BindingsLead'
    BY <1>9 DEF vars, PlanningInv, PlanningTyped, BindingsLead
  <2>2. CallsPlanNothingYet' /\ TasksOrdered'
    BY <1>9, PlansKept DEF vars
  <2>. QED BY <2>1, <2>2 DEF PlanningInv
<1>. QED BY <1>1, <1>2, <1>3, <1>4, <1>5, <1>6, <1>7, <1>8, <1>9 DEF Next

\* The invariant holds of every reachable state.
THEOREM PlanningInvariant == Spec => []PlanningInv
BY PlanningInit, PlanningNext, PTL DEF Spec

-----------------------------------------------------------------------------
(* What follows from it.                                                     *)

\* An active binding always leads to a workflow that was found valid and is not
\* archived (applyToProject, archive, update of workflow-composer-service.ts).
THEOREM BindingsUsable == Spec => []ActiveBindingUsable
<1>1. PlanningInv => ActiveBindingUsable
  BY ActiveIsUsable DEF ActiveBindingUsable
<1>. QED BY <1>1, PlanningInvariant, PTL

\* Of the tasks of a composed plan that are not DONE, the first waits for none:
\* a plan never blocks itself, though validate accepts workflows with cycles.
THEOREM ComposedPlansRun == Spec => []ComposedPlanIsRunnable
<1>1. ASSUME PlanningInv PROVE ComposedPlanIsRunnable
  <2>. SUFFICES ASSUME NEW n \in DOMAIN plans, plans[n].composed,
                       {t \in DOMAIN tasks : tasks[t].plan = n /\ tasks[t].status # "DONE"} # {}
                PROVE  \E t \in {u \in DOMAIN tasks : tasks[u].plan = n /\ tasks[u].status # "DONE"} : UpstreamDone(t)
    BY DEF ComposedPlanIsRunnable
  <2> DEFINE open == {t \in DOMAIN tasks : tasks[t].plan = n /\ tasks[t].status # "DONE"}
  <2>1. DOMAIN tasks \subseteq Nat
    BY <1>1 DEF PlanningInv, PlanningTyped
  <2>2. open \in SUBSET Nat /\ open # {}
    BY <2>1
  <2>3. PICK t \in open : \A u \in open : t <= u
    <3>. HIDE DEF open
    <3>. QED BY <2>2, LeastNumber
  <2>4. \A d \in tasks[t].deps : d \in DOMAIN tasks /\ d < t /\ tasks[d].plan = n
    BY <1>1, <2>3 DEF PlanningInv, TasksOrdered, Wired
  <2>5. \A d \in tasks[t].deps : d \notin open
    BY <2>1, <2>3, <2>4
  <2>6. UpstreamDone(t)
    BY <2>4, <2>5 DEF UpstreamDone
  <2>. QED BY <2>3, <2>6
<1>. QED BY <1>1, PlanningInvariant, PTL

\* A task of a composed workflow starts only when every step that was upstream of
\* it is DONE: planTasksFromWorkflow stored a dependency for each, and executeTask
\* asks them all.
THEOREM ComposedOrderHolds == Spec => ComposedOrderEnforced
<1>1. ASSUME PlanningInv, NEW t \in DOMAIN tasks, Next, tasks'[t].status = "RUNNING", tasks[t].status # "RUNNING"
      PROVE  executeTask(t)
  <2>1. \/ UNCHANGED tasks
        \/ \E c \in calls : Scanned(c) \/ planTasks(c)
        \/ \E u \in DOMAIN tasks : executeTask(u) \/ TaskSettles(u) \/ TaskBlocked(u)
    BY <1>1 DEF Next, create, update, archive, applyToProject, clearForProject, planDeliveryTasks, PlanLost
  <2>2. PICK u \in DOMAIN tasks : executeTask(u) \/ TaskSettles(u) \/ TaskBlocked(u)
    BY <1>1, <2>1, ScannedStep, DecomposeStep
  <2>3. u = t
    BY <1>1, <2>2 DEF executeTask, TaskSettles, TaskBlocked
  <2>4. tasks[t] \in [plan: Nat, node: Names, deps: SUBSET Nat, status: TaskStates]
    <3>1. tasks \in Seq([plan: Nat, node: Names, deps: SUBSET Nat, status: TaskStates])
      BY <1>1 DEF PlanningInv, PlanningTyped
    <3>. QED BY <1>1, <3>1, SeqUpdate
  <2>5. \A s \in {"DONE", "READY", "BLOCKED"} : tasks' # [tasks EXCEPT ![t].status = s]
    BY <1>1, <2>4
  <2>. QED BY <2>2, <2>3, <2>5 DEF TaskSettles, TaskBlocked
<1>2. ASSUME PlanningInv, NEW t \in DOMAIN tasks, plans[tasks[t].plan].composed, executeTask(t)
      PROVE  \A e \in plans[tasks[t].plan].upstream : e[2] = tasks[t].node =>
               \E u \in DOMAIN tasks : /\ tasks[u].plan = tasks[t].plan /\ tasks[u].node = e[1]
                                       /\ tasks[u].status = "DONE"
  <2>1. Wired(tasks, plans, t) /\ tasks[t].deps \subseteq DOMAIN tasks
    BY <1>2 DEF PlanningInv, TasksOrdered
  <2>2. \A d \in tasks[t].deps : tasks[d].status = "DONE"
    BY <1>2 DEF executeTask, UpstreamDone
  <2>. QED BY <2>1, <2>2 DEF Wired
<1>3. PlanningInv /\ [Next]_vars =>
        [\A t \in DOMAIN tasks :
           plans[tasks[t].plan].composed /\ tasks[t].status # "RUNNING" /\ tasks'[t].status = "RUNNING"
           => \A e \in plans[tasks[t].plan].upstream : e[2] = tasks[t].node =>
                \E u \in DOMAIN tasks : /\ tasks[u].plan = tasks[t].plan /\ tasks[u].node = e[1]
                                        /\ tasks[u].status = "DONE"]_vars
  BY <1>1, <1>2
<1>. QED BY <1>3, PlanningInvariant, PTL DEF Spec, ComposedOrderEnforced
=============================================================================
