--------------------------- MODULE RuntimeRouting ---------------------------
(***************************************************************************)
(* Which runtime an agent run executes on: the team composer's bindings    *)
(* and fallbacks, the runtimes discovery has found and registered, and the *)
(* circuit breaker that observes what the runs of a runtime come to.       *)
(*                                                                         *)
(* Bindings and overrides are documents; discovery, registry and breaker   *)
(* live in the process.  A start is one step from resolution to the run.   *)
(* The wiring passes no routing context (main.ts:208), so no routing rule  *)
(* is ever evaluated: a rule is data that nothing here reads.              *)
(***************************************************************************)
EXTENDS Naturals, FiniteSets, Sequences

CONSTANTS
  Projects,
  Roles,             \* roles, each the owner of one task of every project
  cliOrder,          \* the CLI runtimes, in the order of the catalog
  Tools,             \* capability keys
  capabilities,      \* [Runtimes -> SUBSET Tools]
  requires,          \* [Roles -> SUBSET Tools]
  failureThreshold,  \* config.breakerFailureThreshold
  MaxFallbacks,      \* bound: fallbacks of a binding set by hand
  MaxRuns            \* bound: runs alive or parked at one time

Clis == {cliOrder[i] : i \in DOMAIN cliOrder}
Runtimes == Clis \cup {"mock-runtime", "model-api-only"}
catalog == <<"mock-runtime", "model-api-only">> \o cliOrder

ASSUME RoutingConstants ==
  /\ cliOrder \in Seq(Clis) /\ Clis \cap {"mock-runtime", "model-api-only", "none"} = {}
  /\ "*" \notin Projects
  /\ capabilities \in [Runtimes -> SUBSET Tools]
  /\ requires \in [Roles -> SUBSET Tools]
  /\ failureThreshold \in Nat \ {0} /\ MaxFallbacks \in Nat /\ MaxRuns \in Nat \ {0}

VARIABLES
  discovered,   \* CLIs whose binary the last discovery found: what the catalog offers
  registered,   \* CLIs with an adapter in the registry
  discovering,  \* the boot's discoverRuntimes has not answered yet
  binding,      \* docs "team_binding": one document per role
  override,     \* docs "team_task_override", by project and owner role of the task
  failures, openedAt, probing,   \* the breaker, per CLI
  probes,       \* history: runs routed to a CLI since its breaker opened
  run           \* runs that have not ended

breakerVars == <<failures, openedAt, probing, probes>>
teamVars == <<binding, override>>
machineVars == <<discovered, registered, discovering>>
vars == <<machineVars, teamVars, breakerVars, run>>

Modes == {"LOCKED", "AUTO"}   \* PREFERRED degrades exactly as AUTO does
Binding == [scope: Projects \cup {"*"}, runtime: Runtimes, mode: Modes,
            fallbacks: Seq(Runtimes)]
NoBinding == [scope |-> "none"]

\* runtime is what the run recorded, adapter what it executes on.
Run == [state: {"running", "parked"}, runtime: Runtimes, adapter: Runtimes]
NoRun == [state |-> "none"]
Slots == 1..MaxRuns

Init ==
  /\ discovered = {} /\ registered = {} /\ discovering = TRUE
  /\ binding = [r \in Roles |-> NoBinding]
  /\ override = [p \in Projects |-> [r \in Roles |-> "none"]]
  /\ failures = [c \in Clis |-> 0] /\ openedAt = [c \in Clis |-> "closed"]
  /\ probing = [c \in Clis |-> FALSE] /\ probes = [c \in Clis |-> 0]
  /\ run = [i \in Slots |-> NoRun]

-----------------------------------------------------------------------------
(* The circuit breaker.  openedAt is "closed", "hot" while the cooldown      *)
(* lasts, "cool" after it.                                                   *)

Capped(n) == IF n < failureThreshold THEN n ELSE failureThreshold

\* mutant: the count starts anew once the threshold is reached.
ForgetfulFailure(c) ==
  /\ failures' = [failures EXCEPT ![c] = IF @ + 1 >= failureThreshold THEN 0 ELSE @ + 1]
  /\ IF failures[c] + 1 >= failureThreshold /\ openedAt[c] = "closed"
     THEN /\ openedAt' = [openedAt EXCEPT ![c] = "hot"]
          /\ probing' = [probing EXCEPT ![c] = FALSE]
          /\ probes' = [probes EXCEPT ![c] = 0]
     ELSE UNCHANGED <<openedAt, probing, probes>>

\* The count goes on growing; beyond the threshold nothing tells it apart.
recordFailure(c) ==
  /\ failures' = [failures EXCEPT ![c] = Capped(@ + 1)]
  /\ IF failures[c] + 1 >= failureThreshold /\ openedAt[c] = "closed"
     THEN /\ openedAt' = [openedAt EXCEPT ![c] = "hot"]
          /\ probing' = [probing EXCEPT ![c] = FALSE]
          /\ probes' = [probes EXCEPT ![c] = 0]
     ELSE UNCHANGED <<openedAt, probing, probes>>

recordSuccess(c) ==
  /\ failures' = [failures EXCEPT ![c] = 0]
  /\ openedAt' = [openedAt EXCEPT ![c] = "closed"]
  /\ probing' = [probing EXCEPT ![c] = FALSE]
  /\ probes' = [probes EXCEPT ![c] = 0]

isOpen(c) == openedAt[c] = "hot" \/ (openedAt[c] = "cool" /\ probing[c])

\* mutant: isOpen that lets a probe through without remembering it.
UnmarkedProbe(c) ==
  /\ probes' = IF openedAt[c] = "closed" THEN probes ELSE [probes EXCEPT ![c] = @ + 1]
  /\ UNCHANGED <<failures, openedAt, probing>>

\* What asking isOpen leaves behind when it answers no.
LetThrough(c) ==
  /\ probing' = [probing EXCEPT ![c] = openedAt[c] = "cool"]
  /\ probes' = IF openedAt[c] = "closed" THEN probes ELSE [probes EXCEPT ![c] = @ + 1]
  /\ UNCHANGED <<failures, openedAt>>

\* breakerCooldownMs have passed.
CooldownOver(c) ==
  /\ openedAt[c] = "hot"
  /\ openedAt' = [openedAt EXCEPT ![c] = "cool"]
  /\ UNCHANGED <<machineVars, teamVars, failures, probing, probes, run>>

-----------------------------------------------------------------------------
(* Discovery, catalog and registry.                                         *)

\* The boot's discovery answers: catalog and registry learn of the CLIs together.
DiscoveryOver ==
  /\ discovering
  /\ discovering' = FALSE
  /\ \E found \in SUBSET Clis : discovered' = found /\ registered' = registered \cup found
  /\ UNCHANGED <<teamVars, breakerVars, run>>

\* GET /api/runtimes/discover looks again and changes the catalog alone: a CLI that
\* was installed meanwhile is offered and has no adapter, one that is gone keeps it.
Rediscovery ==
  /\ \E found \in SUBSET Clis : discovered' = found
  /\ UNCHANGED <<registered, discovering, teamVars, breakerVars, run>>

available(r) == r \notin Clis \/ r \in discovered
capable(role, r) == requires[role] \subseteq capabilities[r]

\* AgentRuntimeRegistry.get: the mock stands in for what is not registered.
adapter(r) == IF r \in registered THEN r ELSE "mock-runtime"

-----------------------------------------------------------------------------
(* The team composer's documents.  The key of a binding is its role alone.  *)

Plain(scope, r) == [scope |-> scope, runtime |-> r, mode |-> "AUTO", fallbacks |-> <<>>]

setBinding(p, role) ==
  /\ \E r \in Runtimes, mode \in Modes, n \in 0..MaxFallbacks : \E spare \in [1..n -> Runtimes] :
       binding' = [binding EXCEPT ![role] =
                     [scope |-> p, runtime |-> r, mode |-> mode, fallbacks |-> spare]]
  /\ UNCHANGED <<machineVars, override, breakerVars, run>>

setOrgDefault(role) ==
  /\ \E r \in Runtimes : binding' = [binding EXCEPT ![role] = Plain("*", r)]
  /\ UNCHANGED <<machineVars, override, breakerVars, run>>

\* The presets bind some of the roles (restoring my_team is a series of setBinding).
applyPreset(p) ==
  /\ \E preset \in [Roles -> Runtimes \cup {"none"}] :
       binding' = [role \in Roles |-> IF preset[role] = "none" THEN binding[role]
                                      ELSE Plain(p, preset[role])]
  /\ UNCHANGED <<machineVars, override, breakerVars, run>>

setTaskOverride(p, role) ==
  /\ \E r \in Runtimes \cup {"none"} : override' = [override EXCEPT ![p][role] = r]
  /\ UNCHANGED <<machineVars, binding, breakerVars, run>>

\* The runtimes autoCompose scores for a role; the scores pick one of them.
CarelessPool(role) == {r \in Runtimes : available(r)}   \* mutant: ignores the tools
pool(role) ==
  LET fit == {r \in Runtimes : available(r) /\ capable(role, r)}
  IN IF fit # {} THEN fit ELSE {"mock-runtime"}

\* The first two other available runtimes of the catalog become the fallbacks.
spares(r) ==
  LET others == SelectSeq(catalog, LAMBDA x : available(x) /\ x # r)
  IN SubSeq(others, 1, IF Len(others) < 2 THEN Len(others) ELSE 2)

autoCompose(p) ==
  /\ \E chosen \in [Roles -> Runtimes] :
       /\ \A role \in Roles : chosen[role] \in pool(role)
       /\ binding' = [role \in Roles |->
            [scope |-> p, runtime |-> chosen[role], mode |-> "AUTO", fallbacks |-> spares(chosen[role])]]
  /\ UNCHANGED <<machineVars, override, breakerVars, run>>

BindingOf(p, role) == IF binding[role].scope \in {p, "*"} THEN binding[role] ELSE NoBinding

\* validate: roles bound to a runtime that is missing or lacks a tool.  It
\* looks bindings up by role, whatever their project.
mismatches ==
  {role \in Roles : /\ binding[role] # NoBinding
                    /\ ~(available(binding[role].runtime) /\ capable(role, binding[role].runtime))}

-----------------------------------------------------------------------------
(* resolveDetailed and startTaskRun.                                        *)

usable(r) == available(r) /\ (r \in Clis => ~isOpen(r))

Wanted(p, role, arg) == IF arg # "mock-runtime" THEN arg ELSE override[p][role]

\* The runtimes tried for a task, in order.  A run override or a task override
\* takes the place of the binding's runtime, its mode included.
chain(p, role, arg) ==
  LET b == BindingOf(p, role)
      spare == IF b = NoBinding THEN <<>> ELSE b.fallbacks
      wanted == Wanted(p, role, arg)
  IN IF wanted # "none" THEN <<wanted>> \o spare \o <<"mock-runtime">>
     ELSE IF b = NoBinding THEN <<"mock-runtime">>
     ELSE IF b.mode = "LOCKED" THEN <<b.runtime>>
     ELSE <<b.runtime>> \o spare \o <<"mock-runtime">>

\* The first usable runtime runs the task, or the mock if it has no adapter.
\* Nothing usable: LOCKED, and the start is refused.
startTaskRun(p, role, arg, i) ==
  LET tried == chain(p, role, arg)
      hits == {n \in DOMAIN tried : usable(tried[n])}
  IN /\ run[i] = NoRun
     /\ \E n \in hits :
          /\ \A m \in hits : n <= m
          /\ LET chosen == tried[n]
             IN /\ run' = [run EXCEPT ![i] =
                      [state |-> "running", runtime |-> adapter(chosen), adapter |-> adapter(chosen)]]
                /\ IF chosen \in Clis THEN LetThrough(chosen) ELSE UNCHANGED breakerVars
     /\ UNCHANGED <<machineVars, teamVars>>

-----------------------------------------------------------------------------
(* What the runs report.                                                    *)

Running(i) == run[i] # NoRun /\ run[i].state = "running"
End(i) == run' = [run EXCEPT ![i] = NoRun]

\* nextAction threw: the run goes on, or ends.  The mock never throws.
RuntimeFails(i) ==
  /\ Running(i) /\ run[i].adapter \in Clis
  /\ recordFailure(run[i].runtime)
  /\ UNCHANGED run \/ End(i)
  /\ UNCHANGED <<machineVars, teamVars>>

Finishes(i) ==
  /\ Running(i)
  /\ End(i)
  /\ IF run[i].runtime \in Clis THEN recordSuccess(run[i].runtime) ELSE UNCHANGED breakerVars
  /\ UNCHANGED <<machineVars, teamVars>>

\* Cancelled, drained, out of steps: the breaker hears nothing.
EndsUnobserved(i) ==
  /\ run[i] # NoRun
  /\ End(i)
  /\ UNCHANGED <<machineVars, teamVars, breakerVars>>

Parks(i) ==
  /\ Running(i)
  /\ run' = [run EXCEPT ![i].state = "parked"]
  /\ UNCHANGED <<machineVars, teamVars, breakerVars>>

\* resumeRun takes the recorded runtime without resolving again.
Resumes(i) ==
  /\ run[i] # NoRun /\ run[i].state = "parked"
  /\ run' = [run EXCEPT ![i].state = "running", ![i].adapter = adapter(run[i].runtime)]
  /\ UNCHANGED <<machineVars, teamVars, breakerVars>>

\* A new process: the breaker has seen nothing, the registry has only the mock.
Restart ==
  /\ discovered' = {} /\ registered' = {} /\ discovering' = TRUE
  /\ failures' = [c \in Clis |-> 0] /\ openedAt' = [c \in Clis |-> "closed"]
  /\ probing' = [c \in Clis |-> FALSE] /\ probes' = [c \in Clis |-> 0]
  /\ run' = [i \in Slots |-> IF Running(i) THEN NoRun ELSE run[i]]
  /\ UNCHANGED teamVars

-----------------------------------------------------------------------------

Compose ==
  \/ \E p \in Projects : applyPreset(p) \/ autoCompose(p)
  \/ \E role \in Roles : setOrgDefault(role)
  \/ \E p \in Projects, role \in Roles : setBinding(p, role) \/ setTaskOverride(p, role)

Execute ==
  \/ \E p \in Projects, role \in Roles, arg \in Runtimes, i \in Slots : startTaskRun(p, role, arg, i)
  \/ \E i \in Slots :
       RuntimeFails(i) \/ Finishes(i) \/ EndsUnobserved(i) \/ Parks(i) \/ Resumes(i)

Next == Compose \/ Execute \/ DiscoveryOver \/ Rediscovery \/ (\E c \in Clis : CooldownOver(c)) \/ Restart

Spec == Init /\ [][Next]_vars
-----------------------------------------------------------------------------

TypeOK ==
  /\ discovered \subseteq Clis /\ registered \subseteq Clis /\ discovering \in BOOLEAN
  /\ binding \in [Roles -> Binding \cup {NoBinding}]
  /\ override \in [Projects -> [Roles -> Runtimes \cup {"none"}]]
  /\ failures \in [Clis -> 0..failureThreshold]
  /\ openedAt \in [Clis -> {"closed", "hot", "cool"}]
  /\ probing \in [Clis -> BOOLEAN]
  /\ probes \in [Clis -> Nat]
  /\ run \in [Slots -> Run \cup {NoRun}]

\* The three maps of the breaker tell one story: a runtime is taken out of
\* routing exactly when enough failures in a row were seen, whatever runs report
\* in whatever order, and a probe is remembered only after the cooldown.
BreakerAgrees ==
  \A c \in Clis :
    /\ openedAt[c] # "closed" <=> failures[c] = failureThreshold
    /\ probing[c] => openedAt[c] = "cool"

\* "OPEN blocks traffic; after cooldown ONE probe is allowed" (circuit-breaker.ts:45):
\* from the moment a breaker opens until it closes at most one start of any
\* project, role or override is routed to the runtime.
OneProbe == \A c \in Clis : probes[c] <= 1

\* A role that has no available runtime with its tools.
Unserved == {role \in Roles : \A r \in Runtimes : ~(available(r) /\ capable(role, r))}

\* What autoCompose composes, validate accepts, whatever the last discovery has found:
\* it complains only of roles that no available runtime has the tools of - a role of
\* the user's own may ask for more than the mock has - and those are on the mock,
\* "mock fallback keeps work unblocked" (team-composer-service.ts:280).
AutoComposedTeamFits ==
  [][(\E p \in Projects : autoCompose(p)) =>
       \A role \in mismatches' : role \in Unserved /\ binding'[role].runtime = "mock-runtime"]_vars

=============================================================================
