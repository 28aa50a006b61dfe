------------------------------- MODULE Autostart -------------------------------
(***************************************************************************)
(* Manager.StartAutostart: the pass over the autostart services that runs  *)
(* once at boot, before the API is served.  It composes the sort of        *)
(* TopoSort with the start loop; awaitExit and its restarts, which         *)
(* ServiceManager models, run beside it and show here as services that go  *)
(* down and come up again.                                                 *)
(***************************************************************************)
EXTENDS TopoSort

CONSTANT MayCancel   \* may ctx be cancelled (main passes context.Background())

ASSUME CancelAssumption == MayCancel \in BOOLEAN

VARIABLES
  phase,     \* sort, loop, spawn, health, done, cycle, canceled
  next,      \* the index of the loop over order
  visit,     \* what the loop did with a service: none, skipped, failed, started
  settled,   \* the services whose health-check delay is over
  running,   \* Get(id): the services the Manager has
  canceled   \* ctx.Done() is closed

autoVars == <<phase, next, visit, settled, running, canceled>>
vars == <<topoVars, autoVars>>

AutoTypeOK ==
  /\ TopoTypeOK
  /\ phase \in {"sort", "loop", "spawn", "health", "done", "cycle", "canceled"}
  /\ next \in 1..(Len(Input) + 1)
  /\ visit \in [Node -> {"none", "skipped", "failed", "started"}]
  /\ settled \subseteq Node
  /\ running \subseteq Node
  /\ canceled \in BOOLEAN

\* ListServiceRecords gave the autostart services in Input order.  The Manager
\* that cmd/voltpanel boots has nothing running; StartAutostart itself allows
\* for one that does.
Init ==
  /\ TopoInit
  /\ phase = IF Node = {} THEN "done" ELSE "sort"
  /\ next = 1
  /\ visit = [n \in Node |-> "none"]
  /\ settled = {}
  /\ running \in {{}} \cup {{n} : n \in Node}
  /\ canceled = FALSE

Sort ==
  /\ phase = "sort"
  /\ TopoNext
  /\ UNCHANGED autoVars

SortedPartly ==                            \* mutant of Sorted
  /\ phase = "sort" /\ result # "sorting"
  /\ phase' = "loop"
  /\ UNCHANGED <<topoVars, next, visit, settled, running, canceled>>

\* A cycle aborts the pass with an error; nothing has been started.
Sorted ==
  /\ phase = "sort"
  /\ result # "sorting"
  /\ phase' = IF result = "ok" THEN "loop" ELSE "cycle"
  /\ UNCHANGED <<topoVars, next, visit, settled, running, canceled>>

Current == order[next]

\* The head of the loop: the end, a cancelled context, a running service.
LoopHead ==
  /\ phase = "loop"
  /\ \/ /\ next > Len(order)
        /\ phase' = "done"
        /\ UNCHANGED <<next, visit>>
     \/ /\ next <= Len(order) /\ canceled
        /\ phase' = "canceled"
        /\ UNCHANGED <<next, visit>>
     \/ /\ next <= Len(order) /\ ~canceled /\ Current \in running
        /\ visit' = [visit EXCEPT ![Current] = "skipped"]
        /\ next' = next + 1
        /\ UNCHANGED phase
     \/ /\ next <= Len(order) /\ ~canceled /\ Current \notin running
        /\ phase' = "spawn"
        /\ UNCHANGED <<next, visit>>
  /\ UNCHANGED <<topoVars, settled, running, canceled>>

StartOneHasty ==                           \* mutant of StartOne
  /\ phase = "spawn" /\ phase' = "loop"
  /\ visit' = [visit EXCEPT ![Current] = "started"]
  /\ running' = running \cup {Current}
  /\ next' = next + 1
  /\ UNCHANGED <<topoVars, settled, canceled>>
\* m.startProcess(svc, nil): an error is logged and the loop goes on.
StartOne ==
  /\ phase = "spawn"
  /\ \/ /\ visit' = [visit EXCEPT ![Current] = "started"]
        /\ running' = running \cup {Current}
        /\ phase' = "health"
        /\ UNCHANGED next
     \/ /\ visit' = [visit EXCEPT ![Current] = "failed"]
        /\ next' = next + 1
        /\ phase' = "loop"
        /\ UNCHANGED running
  /\ UNCHANGED <<topoVars, settled, canceled>>

HealthCheckWaits ==                        \* mutant of HealthCheck
  /\ phase = "health" /\ Current \in running /\ phase' = "loop"
  /\ settled' = settled \cup {Current}
  /\ next' = next + 1
  /\ UNCHANGED <<topoVars, visit, running, canceled>>

\* time.Sleep(HealthCheckDelay); a service that did not stay up is only logged.
HealthCheck ==
  /\ phase = "health"
  /\ settled' = settled \cup {Current}
  /\ next' = next + 1
  /\ phase' = "loop"
  /\ UNCHANGED <<topoVars, visit, running, canceled>>

\* awaitExit removes a service that exited, and may start it again.
Down == /\ \E n \in running : running' = running \ {n}
        /\ UNCHANGED <<topoVars, phase, next, visit, settled, canceled>>
Up   == /\ \E n \in Node \ running : visit[n] \in {"started", "skipped"} /\ running' = running \cup {n}
        /\ UNCHANGED <<topoVars, phase, next, visit, settled, canceled>>

Cancel == /\ MayCancel /\ ~canceled /\ canceled' = TRUE
          /\ UNCHANGED <<topoVars, phase, next, visit, settled, running>>

Pass == Sort \/ Sorted \/ LoopHead \/ StartOne \/ HealthCheck
Next == Pass \/ Down \/ Up \/ Cancel

\* The goroutine of the pass runs; its sleep ends.
Spec == Init /\ [][Next]_vars /\ WF_vars(Pass)

-----------------------------------------------------------------------------
(* Properties.                                                                *)

\* A service is started only when each autostart service it depends on has been
\* dealt with before it: started and given its whole health-check delay, found
\* running, or failed to start.  (A failed one does not hold up the others.)
DependenciesFirst ==
  \A n \in Node :
    visit[n] = "started" =>
      \A d \in DependsOn(n) \cap Node :
        \/ visit[d] \in {"skipped", "failed"}
        \/ visit[d] = "started" /\ d \in settled

\* With a dependency cycle anywhere the pass starts nothing at all.
NothingStartsOnCycle == ~Acyclic => \A n \in Node : visit[n] = "none"

\* The pass ends: the boot goes on to serve the API.
PassEnds == <>(phase \in {"done", "cycle", "canceled"})

=============================================================================
