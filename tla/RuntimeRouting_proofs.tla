------------------------ MODULE RuntimeRouting_proofs ------------------------
(***************************************************************************)
(* Proofs about RuntimeRouting for any projects, roles, runtimes, tools and *)
(* thresholds.  Only the breaker's part of the state matters, so the proof  *)
(* goes through what the steps do to the breaker of one runtime.            *)
(***************************************************************************)
EXTENDS RuntimeRouting, TLAPS

\* The breaker's types, and what links its maps.  A probe is counted when it is
\* marked, and only a breaker that is open counts probes.
BreakerInv ==
  /\ failures \in [Clis -> 0..failureThreshold]
  /\ openedAt \in [Clis -> {"closed", "hot", "cool"}]
  /\ probing \in [Clis -> BOOLEAN]
  /\ probes \in [Clis -> Nat]
  /\ BreakerAgrees
  /\ \A c \in Clis : probes[c] = IF probing[c] THEN 1 ELSE 0

\* A run that executes on a CLI recorded that CLI, so what it reports is
\* reported of a runtime that has a breaker.
ReportsOfItself ==
  /\ registered \subseteq Clis
  /\ \A role \in Roles : binding[role] # NoBinding => binding[role].runtime \in Runtimes
  /\ override \in [Projects -> [Roles -> Runtimes \cup {"none"}]]
  /\ run \in [Slots -> Run \cup {NoRun}]
  /\ \A i \in Slots : run[i] # NoRun => run[i].adapter \in {run[i].runtime, "mock-runtime"}

LEMMA InitBreaker ==
  ASSUME RoutingConstants, Init
  PROVE  BreakerInv
  BY SMT DEF RoutingConstants, Init, BreakerInv, BreakerAgrees

LEMMA FailureKeepsBreaker ==
  ASSUME RoutingConstants, BreakerInv, NEW c \in Clis, recordFailure(c)
  PROVE  BreakerInv'
<1>1. failureThreshold \in Nat /\ failureThreshold > 0
  BY DEF RoutingConstants
<1>2. CASE failures[c] + 1 >= failureThreshold /\ openedAt[c] = "closed"
  <2>0. Capped(failures[c] + 1) = failureThreshold
    BY <1>1, <1>2, SMT DEF Capped, BreakerInv
  <2>1. failures' = [failures EXCEPT ![c] = failureThreshold]
    BY <2>0 DEF recordFailure
  <2>2. /\ openedAt' = [openedAt EXCEPT ![c] = "hot"]
        /\ probing' = [probing EXCEPT ![c] = FALSE]
        /\ probes' = [probes EXCEPT ![c] = 0]
    BY <1>2 DEF recordFailure
  <2> QED BY <1>1, <2>1, <2>2, SMT DEF BreakerInv, BreakerAgrees
<1>3. CASE ~(failures[c] + 1 >= failureThreshold /\ openedAt[c] = "closed")
  <2>1. UNCHANGED <<openedAt, probing, probes>>
    BY <1>3 DEF recordFailure
  <2>2. failures' = [failures EXCEPT ![c] = Capped(failures[c] + 1)]
    BY DEF recordFailure
  <2>3. /\ Capped(failures[c] + 1) \in 0..failureThreshold
        /\ Capped(failures[c] + 1) = failureThreshold <=> openedAt[c] # "closed"
    BY <1>1, <1>3, SMT DEF Capped, BreakerInv, BreakerAgrees
  <2> HIDE DEF Capped
  <2> QED BY <1>1, <2>1, <2>2, <2>3, SMT DEF BreakerInv, BreakerAgrees
<1> QED BY <1>2, <1>3

LEMMA SuccessKeepsBreaker ==
  ASSUME RoutingConstants, BreakerInv, NEW c \in Clis, recordSuccess(c)
  PROVE  BreakerInv'
  BY SMT DEF RoutingConstants, recordSuccess, BreakerInv, BreakerAgrees

\* Only a runtime whose breaker is not open is let through.
LEMMA ProbeKeepsBreaker ==
  ASSUME RoutingConstants, BreakerInv, NEW c \in Clis, ~isOpen(c), LetThrough(c)
  PROVE  BreakerInv'
<1>1. CASE openedAt[c] = "closed"
  BY <1>1, SMT DEF RoutingConstants, LetThrough, BreakerInv, BreakerAgrees
<1>2. CASE openedAt[c] = "cool" /\ ~probing[c]
  <2>1. probes' = [probes EXCEPT ![c] = 1]
    <3>1. probes' = [probes EXCEPT ![c] = probes[c] + 1]
      BY <1>2 DEF LetThrough
    <3>2. probes[c] = 0
      BY <1>2 DEF BreakerInv
    <3> QED BY <3>1, <3>2
  <2>2. UNCHANGED <<failures, openedAt>>
    BY DEF LetThrough
  <2>3. (openedAt[c] = "cool") = TRUE
    BY <1>2
  <2>4. probing' = [probing EXCEPT ![c] = TRUE]
    BY <2>3, Zenon DEF LetThrough
  <2>5. /\ probing' \in [Clis -> BOOLEAN]
        /\ \A d \in Clis : probing'[d] = IF d = c THEN TRUE ELSE probing[d]
    BY <2>4 DEF BreakerInv
  <2>6. \A d \in Clis : probes'[d] = IF probing'[d] THEN 1 ELSE 0
    BY <2>1, <2>5 DEF BreakerInv
  <2>7. BreakerAgrees'
    BY <1>2, <2>2, <2>5 DEF BreakerInv, BreakerAgrees
  <2>8. probes' \in [Clis -> Nat]
    BY <2>1 DEF BreakerInv
  <2> QED BY <2>2, <2>5, <2>6, <2>7, <2>8 DEF BreakerInv
<1>3. openedAt[c] \in {"closed", "hot", "cool"}
  BY DEF BreakerInv
<1>4. ~(openedAt[c] = "hot") /\ ~(openedAt[c] = "cool" /\ probing[c])
  BY Zenon DEF isOpen
<1>5. openedAt[c] = "closed" \/ (openedAt[c] = "cool" /\ ~probing[c])
  BY <1>3, <1>4, Zenon
<1> QED BY <1>1, <1>2, <1>5

LEMMA CooldownKeepsBreaker ==
  ASSUME RoutingConstants, BreakerInv, NEW c \in Clis, CooldownOver(c)
  PROVE  BreakerInv'
  BY SMT DEF RoutingConstants, CooldownOver, BreakerInv, BreakerAgrees

LEMMA SameBreaker ==
  ASSUME BreakerInv, UNCHANGED breakerVars
  PROVE  BreakerInv'
  BY DEF breakerVars, BreakerInv, BreakerAgrees

LEMMA StartKeepsBreaker ==
  ASSUME RoutingConstants, BreakerInv, NEW p \in Projects, NEW role \in Roles, NEW arg \in Runtimes,
         NEW i \in Slots, startTaskRun(p, role, arg, i)
  PROVE  BreakerInv'
<1> DEFINE tried == chain(p, role, arg)
<1>1. PICK n \in DOMAIN tried :
        /\ usable(tried[n])
        /\ IF tried[n] \in Clis THEN LetThrough(tried[n]) ELSE UNCHANGED breakerVars
  BY DEF startTaskRun
<1>2. CASE tried[n] \in Clis
  <2>1. ~isOpen(tried[n]) /\ LetThrough(tried[n])
    BY <1>1, <1>2 DEF usable
  <2> HIDE DEF tried
  <2> QED BY <1>2, <2>1, ProbeKeepsBreaker
<1>3. CASE tried[n] \notin Clis
  BY <1>1, <1>3, SameBreaker
<1> QED BY <1>2, <1>3

LEMMA RestartKeepsBreaker ==
  ASSUME RoutingConstants, Restart
  PROVE  BreakerInv'
  BY SMT DEF RoutingConstants, Restart, BreakerInv, BreakerAgrees

LEMMA NextKeepsBreaker ==
  ASSUME RoutingConstants, ReportsOfItself, BreakerInv, Next
  PROVE  BreakerInv'
<1>1. CASE Compose
  <2>1. UNCHANGED breakerVars
    BY <1>1 DEF Compose, applyPreset, autoCompose, setOrgDefault, setBinding, setTaskOverride
  <2> QED BY <2>1, SameBreaker
<1>2. CASE Execute
  <2>1. CASE \E p \in Projects, role \in Roles, arg \in Runtimes, i \in Slots : startTaskRun(p, role, arg, i)
    BY <2>1, StartKeepsBreaker
  <2>2. ASSUME NEW i \in Slots, RuntimeFails(i)
        PROVE  BreakerInv'
    <3>1. run[i].adapter \in Clis /\ recordFailure(run[i].runtime)
      BY <2>2 DEF RuntimeFails
    <3>2. run[i].adapter # "mock-runtime" /\ run[i] # NoRun
      BY <2>2, <3>1 DEF RuntimeFails, Running, RoutingConstants
    <3>3. run[i].runtime \in Clis
      BY <3>1, <3>2 DEF ReportsOfItself
    <3> QED BY <3>1, <3>3, FailureKeepsBreaker
  <2>3. ASSUME NEW i \in Slots, Finishes(i)
        PROVE  BreakerInv'
    BY <2>3, SuccessKeepsBreaker, SameBreaker DEF Finishes
  <2>4. ASSUME NEW i \in Slots, EndsUnobserved(i) \/ Parks(i) \/ Resumes(i)
        PROVE  BreakerInv'
    BY <2>4, SameBreaker DEF EndsUnobserved, Parks, Resumes
  <2> QED BY <1>2, <2>1, <2>2, <2>3, <2>4 DEF Execute
<1>3. CASE DiscoveryOver \/ Rediscovery
  BY <1>3, SameBreaker DEF DiscoveryOver, Rediscovery
<1>4. CASE \E c \in Clis : CooldownOver(c)
  BY <1>4, CooldownKeepsBreaker
<1>5. CASE Restart
  BY <1>5, RestartKeepsBreaker
<1> QED BY <1>1, <1>2, <1>3, <1>4, <1>5 DEF Next

LEMMA NoRunIsNoRun ==
  /\ NoRun \notin Run
  /\ \A r \in Run : r # NoRun
  BY DEF NoRun, Run

LEMMA RoutedRuns ==
  ASSUME RoutingConstants, ReportsOfItself, NEW p \in Projects, NEW role \in Roles,
         NEW arg \in Runtimes, NEW i \in Slots, startTaskRun(p, role, arg, i)
  PROVE  ReportsOfItself'
<1> DEFINE tried == chain(p, role, arg)
<1>1. PICK n \in DOMAIN tried :
        run' = [run EXCEPT ![i] =
                  [state |-> "running", runtime |-> adapter(tried[n]), adapter |-> adapter(tried[n])]]
  BY DEF startTaskRun
<1>2. adapter(tried[n]) \in Runtimes
  BY DEF adapter, Runtimes, ReportsOfItself
<1>3. UNCHANGED <<registered, binding, override>>
  BY DEF startTaskRun, machineVars, teamVars
<1> DEFINE new == [state |-> "running", runtime |-> adapter(tried[n]), adapter |-> adapter(tried[n])]
<1>4. new \in Run
  BY <1>2 DEF Run
<1>5. new.adapter = new.runtime
  OBVIOUS
<1>6. run' = [run EXCEPT ![i] = new]
  BY <1>1
<1> HIDE DEF new, tried
<1> QED BY <1>3, <1>4, <1>5, <1>6 DEF ReportsOfItself

LEMMA NextKeepsRuns ==
  ASSUME RoutingConstants, ReportsOfItself, Next
  PROVE  ReportsOfItself'
<1>1. CASE Compose
  <2>1. UNCHANGED <<run, registered>>
    BY <1>1 DEF Compose, applyPreset, autoCompose, setOrgDefault, setBinding, setTaskOverride, machineVars
  <2>2. override' \in [Projects -> [Roles -> Runtimes \cup {"none"}]]
    BY <1>1 DEF Compose, applyPreset, autoCompose, setOrgDefault, setBinding, setTaskOverride, ReportsOfItself
  <2>3. ASSUME NEW role \in Roles, binding'[role] # NoBinding
        PROVE  binding'[role].runtime \in Runtimes
    <3>1. CASE \E p \in Projects : applyPreset(p)
      BY <2>3, <3>1 DEF applyPreset, Plain, ReportsOfItself
    <3>2. CASE \E p \in Projects : autoCompose(p)
      BY <2>3, <3>2 DEF autoCompose
    <3>3. CASE \E q \in Roles : setOrgDefault(q)
      BY <2>3, <3>3 DEF setOrgDefault, Plain, ReportsOfItself
    <3>4. CASE \E p \in Projects, q \in Roles : setBinding(p, q)
      BY <2>3, <3>4 DEF setBinding, ReportsOfItself
    <3>5. CASE \E p \in Projects, q \in Roles : setTaskOverride(p, q)
      BY <2>3, <3>5 DEF setTaskOverride, ReportsOfItself
    <3> QED BY <1>1, <3>1, <3>2, <3>3, <3>4, <3>5 DEF Compose
  <2> QED BY <2>1, <2>2, <2>3 DEF ReportsOfItself
<1>2. ASSUME NEW p \in Projects, NEW role \in Roles, NEW arg \in Runtimes, NEW i \in Slots,
             startTaskRun(p, role, arg, i)
      PROVE  ReportsOfItself'
  BY <1>2, RoutedRuns
<1>3. ASSUME NEW i \in Slots, RuntimeFails(i) \/ Finishes(i) \/ EndsUnobserved(i)
      PROVE  ReportsOfItself'
  <2>1. UNCHANGED <<registered, binding, override>> /\ (UNCHANGED run \/ End(i))
    BY <1>3 DEF RuntimeFails, Finishes, EndsUnobserved, machineVars, teamVars
  <2> QED BY <2>1 DEF End, ReportsOfItself
<1>4. ASSUME NEW i \in Slots, Parks(i)
      PROVE  ReportsOfItself'
  <2>1. run[i] \in Run
    BY <1>4 DEF Parks, Running, ReportsOfItself
  <2>2. /\ [run[i] EXCEPT !.state = "parked"] \in Run
        /\ [run[i] EXCEPT !.state = "parked"].adapter \in {[run[i] EXCEPT !.state = "parked"].runtime, "mock-runtime"}
    BY <1>4, <2>1 DEF Run, Parks, Running, ReportsOfItself
  <2>3. run' = [run EXCEPT ![i] = [run[i] EXCEPT !.state = "parked"]] /\ UNCHANGED <<registered, binding, override>>
    BY <1>4 DEF Parks, machineVars, teamVars
  <2> QED BY <2>2, <2>3 DEF ReportsOfItself
<1>5. ASSUME NEW i \in Slots, Resumes(i)
      PROVE  ReportsOfItself'
  <2> DEFINE new == [run[i] EXCEPT !.state = "running", !.adapter = adapter(run[i].runtime)]
  <2>1. run[i] \in Run
    BY <1>5 DEF Resumes, ReportsOfItself
  <2>2. adapter(run[i].runtime) \in {run[i].runtime, "mock-runtime"} /\ adapter(run[i].runtime) \in Runtimes
    BY <2>1 DEF adapter, Run, Runtimes
  <2>3. new \in Run /\ new.adapter \in {new.runtime, "mock-runtime"}
    BY <2>1, <2>2 DEF Run
  <2>4. run' = [run EXCEPT ![i] = new] /\ UNCHANGED <<registered, binding, override>>
    BY <1>5 DEF Resumes, machineVars, teamVars
  <2> QED BY <2>3, <2>4 DEF ReportsOfItself
<1>6. CASE DiscoveryOver \/ Rediscovery
  BY <1>6 DEF DiscoveryOver, Rediscovery, machineVars, teamVars, ReportsOfItself
<1>7. CASE \E c \in Clis : CooldownOver(c)
  BY <1>7 DEF CooldownOver, machineVars, teamVars, ReportsOfItself
<1>8. CASE Restart
  BY <1>8 DEF Restart, machineVars, teamVars, ReportsOfItself
<1> QED BY <1>1, <1>2, <1>3, <1>4, <1>5, <1>6, <1>7, <1>8 DEF Next, Execute

LEMMA InitRuns ==
  ASSUME RoutingConstants, Init
  PROVE  ReportsOfItself
  BY DEF Init, ReportsOfItself

LEMMA StutterKeepsRouting ==
  ASSUME BreakerInv, ReportsOfItself, UNCHANGED vars
  PROVE  BreakerInv' /\ ReportsOfItself'
<1>1. UNCHANGED breakerVars /\ UNCHANGED <<registered, binding, override, run>>
  BY DEF vars, machineVars, teamVars
<1> QED BY <1>1, SameBreaker DEF ReportsOfItself

THEOREM RoutingInvariant == Spec => [](BreakerInv /\ ReportsOfItself)
<1>1. Init => BreakerInv /\ ReportsOfItself
  BY RoutingConstants, InitBreaker, InitRuns
<1>2. BreakerInv /\ ReportsOfItself /\ [Next]_vars => (BreakerInv /\ ReportsOfItself)'
  BY RoutingConstants, NextKeepsBreaker, NextKeepsRuns, StutterKeepsRouting
<1> QED BY <1>1, <1>2, PTL DEF Spec

\* The breaker takes a runtime out of routing exactly when failureThreshold
\* failures in a row were seen, in every interleaving of any number of runs.
THEOREM BreakerAgreesAlways == Spec => []BreakerAgrees
<1>1. BreakerInv => BreakerAgrees
  BY DEF BreakerInv
<1> QED BY <1>1, RoutingInvariant, PTL

\* Between the opening of a breaker and its closing at most one start of any
\* project, role or override is routed to the runtime.
THEOREM OneProbeAlways == Spec => []OneProbe
<1>1. BreakerInv => OneProbe
  BY SMT DEF BreakerInv, OneProbe
<1> QED BY <1>1, RoutingInvariant, PTL
-----------------------------------------------------------------------------
(* The composed team.                                                        *)

\* The pool of a role offers what fits the role, if anything does, and the mock if
\* nothing does.
LEMMA PoolFits ==
  ASSUME NEW role \in Roles, NEW r \in pool(role)
  PROVE  \/ available(r) /\ capable(role, r)
         \/ role \in Unserved /\ r = "mock-runtime"
<1>1. CASE role \in Unserved
  <2>1. {x \in Runtimes : available(x) /\ capable(role, x)} = {}
    BY <1>1 DEF Unserved
  <2> QED BY <1>1, <2>1 DEF pool
<1>2. CASE role \notin Unserved
  <2>1. \E x \in Runtimes : available(x) /\ capable(role, x)
    BY <1>2 DEF Unserved
  <2>2. {x \in Runtimes : available(x) /\ capable(role, x)} # {}
    BY <2>1
  <2> QED BY <2>2 DEF pool
<1> QED BY <1>1, <1>2

\* A composed role mismatches only as the pool allows it to.
LEMMA ComposedMismatches ==
  ASSUME NEW p \in Projects, autoCompose(p), NEW role \in mismatches'
  PROVE  role \in Unserved /\ binding'[role].runtime = "mock-runtime"
<1>1. PICK chosen \in [Roles -> Runtimes] :
        /\ \A q \in Roles : chosen[q] \in pool(q)
        /\ binding' = [q \in Roles |->
             [scope |-> p, runtime |-> chosen[q], mode |-> "AUTO", fallbacks |-> spares(chosen[q])]]
  BY DEF autoCompose
<1>2. role \in Roles /\ ~(available(binding[role].runtime) /\ capable(role, binding[role].runtime))'
  BY DEF mismatches
<1>3. binding'[role].runtime = chosen[role] /\ chosen[role] \in pool(role)
  BY <1>1, <1>2
<1>4. ~(available(chosen[role]) /\ capable(role, chosen[role]))
  BY <1>2, <1>3 DEF autoCompose, machineVars, available, capable
<1> QED BY <1>2, <1>3, <1>4, PoolFits

\* Whatever tools the roles require, those of the user's own included, whatever the
\* last discovery has found and whatever the scores prefer: validate complains of a
\* composed team only where no available runtime has the tools of the role, and such
\* a role is on the mock (autoCompose, validate).
THEOREM ComposedTeamFits == Spec => AutoComposedTeamFits
<1>1. [Next]_vars => [(\E p \in Projects : autoCompose(p)) =>
                        \A role \in mismatches' : role \in Unserved /\ binding'[role].runtime = "mock-runtime"]_vars
  BY ComposedMismatches
<1> QED BY <1>1, PTL DEF Spec, AutoComposedTeamFits
=============================================================================
