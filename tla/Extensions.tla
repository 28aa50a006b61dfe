------------------------------ MODULE Extensions ------------------------------
(***************************************************************************)
(* internal/domain/extension.Repository with the providers.Registry it     *)
(* feeds, over the ExternalProviders of PluginHost: API goroutines that    *)
(* install, enable, disable and remove extensions, others that call the    *)
(* registered provider of a kind, and the daemon that dies and, at boot,   *)
(* loads the enabled extensions again.                                     *)
(*                                                                         *)
(* r.mu is held across the Close of an evicted provider, and nowhere else  *)
(* across a wait.                                                          *)
(***************************************************************************)
EXTENDS PluginHost

CONSTANTS
  Admin, User,   \* goroutines that manage extensions, and that call providers
  Ext,           \* rows of the table extensions (of kind "runtime")
  Kind,          \* provider names
  NameOf,        \* the name an extension declares in its handshake
  Builtin,       \* the kinds server.New registers, and their provider
  DbMayFail,     \* the choices for dbFails
  MayCrash       \* may the daemon die

ASSUME ExtAssumption ==
  /\ Thread = Admin \cup User /\ Admin \cap User = {}
  /\ Ext # {} /\ NameOf \in [Ext -> Kind]
  /\ Builtin \subseteq Kind /\ Kind \cap Instance = {}
  /\ DbMayFail \subseteq BOOLEAN /\ MayCrash \in BOOLEAN

VARIABLES
  row,        \* none, disabled, enabled, removed
  loaded,     \* r.loaded
  repoMu,     \* the goroutine that holds r.mu across a wait
  registry,   \* Registry.runtimes: kind -> provider (a built-in one is its kind)
  extOf,      \* the extension an instance was started for
  op, arg,    \* what an admin goroutine does, and to which extension
  todo,       \* the extensions LoadEnabled has still to load
  daemon,     \* down, boot, up
  met,        \* history: the extensions two admin goroutines were busy with at once
              \* since the daemon is there
  dbFails     \* may statements of the database fail (it never changes)

repoVars == <<row, loaded, repoMu, registry, extOf, op, arg, todo, daemon, met, dbFails>>
vars == <<hostVars, repoVars>>

AdminPC == {"idle", "evict", "evicted", "spawn", "failed", "store", "register", "enable",
            "recheck", "take", "unregister", "disable", "delete", "boot"}

TypeOK ==
  /\ HostTypeOK(AdminPC)
  /\ row \in [Ext -> {"none", "disabled", "enabled", "removed"}]
  /\ loaded \in [Ext -> Instance \cup {None}]
  /\ repoMu \in Admin \cup {None}
  /\ registry \in [Kind -> Instance \cup Builtin \cup {None}]
  /\ extOf \in [Instance -> Ext]
  /\ op \in [Admin -> {"none", "enable", "disable", "remove", "boot"}]
  /\ arg \in [Admin -> Ext]
  /\ todo \subseteq Ext
  /\ daemon \in {"down", "boot", "up"}
  /\ met \subseteq Ext /\ dbFails \in BOOLEAN

FreshRegistry == [k \in Kind |-> IF k \in Builtin THEN k ELSE None]

Init ==
  /\ HostInit
  /\ row = [e \in Ext |-> "none"]
  /\ loaded = [e \in Ext |-> None]
  /\ repoMu = None
  /\ registry = FreshRegistry
  /\ extOf = [i \in Instance |-> CHOOSE e \in Ext : TRUE]
  /\ op = [a \in Admin |-> "none"]
  /\ arg = [a \in Admin |-> CHOOSE e \in Ext : TRUE]
  /\ todo = {}
  /\ daemon = "up"
  /\ met = {} /\ dbFails \in DbMayFail

\* What a step of the repository leaves alone of a provider.
HostRest == <<proc, closed, mu, readers, on, after>>

\* An admin goroutine answers its request; at boot it goes on with the next
\* extension.
Answer(a) ==
  /\ Goto(a, IF op[a] = "boot" THEN "boot" ELSE "idle")
  /\ op' = [op EXCEPT ![a] = IF @ = "boot" THEN @ ELSE "none"]
  /\ on' = [on EXCEPT ![a] = None]
  /\ after' = [after EXCEPT ![a] = "idle"]

\* Nothing keeps two requests about one extension apart.
Busy(a, e) == pc[a] \notin {"idle", "boot"} /\ arg[a] = e
Meet(a, e) == met' = met \cup {f \in {e} : \E b \in Admin \ {a} : Busy(b, f)}

Continue(a, l) == Goto(a, l) /\ UNCHANGED <<op, on, after>>

-----------------------------------------------------------------------------
(* Requests.                                                                  *)

\* Install inserts a disabled row; the subprocess is not started.
Install(e) ==
  /\ daemon = "up" /\ row[e] = "none"
  /\ row' = [row EXCEPT ![e] = "disabled"]
  /\ UNCHANGED <<hostVars, loaded, repoMu, registry, extOf, op, arg, todo, daemon, met, dbFails>>

Exists(e) == row[e] \in {"disabled", "enabled"}

\* The Get that Enable, Disable and Remove begin with; Remove calls Disable first
\* for what it read as enabled.
Request(a, e, o) ==
  /\ daemon = "up" /\ pc[a] = "idle"
  /\ Exists(e)
  /\ op' = [op EXCEPT ![a] = o]
  /\ arg' = [arg EXCEPT ![a] = e] /\ Meet(a, e)
  /\ Goto(a, CASE o = "enable"  -> "evict"
               [] o = "disable" -> "take"
               [] o = "remove"  -> IF row[e] = "enabled" THEN "recheck" ELSE "delete")
  /\ UNCHANGED <<HostRest, row, loaded, repoMu, registry, extOf, todo, daemon, dbFails>>

\* A handler looks its provider up and calls it.
Use(u, k) ==
  /\ daemon = "up" /\ pc[u] = "idle"
  /\ registry[k] \in Instance
  /\ on' = [on EXCEPT ![u] = registry[k]]
  /\ after' = [after EXCEPT ![u] = "idle"]
  /\ Goto(u, "enter")
  /\ UNCHANGED <<proc, closed, mu, readers, repoVars>>

-----------------------------------------------------------------------------
(* loadAndRegister and Enable                                                 *)

EvictKeepsProcess(a) ==                    \* mutant of Evict
  /\ pc[a] = "evict" /\ repoMu = None
  /\ loaded' = [loaded EXCEPT ![arg[a]] = None]
  /\ Goto(a, "spawn")
  /\ UNCHANGED <<HostRest, row, repoMu, registry, extOf, op, arg, todo, daemon, met, dbFails>>

\* Under r.mu, a provider that is already loaded is closed ...
Evict(a) ==
  /\ pc[a] = "evict" /\ repoMu = None
  /\ \/ /\ loaded[arg[a]] = None
        /\ Goto(a, "spawn")
        /\ UNCHANGED <<on, after, repoMu>>
     \/ /\ loaded[arg[a]] # None
        /\ repoMu' = a
        /\ on' = [on EXCEPT ![a] = loaded[arg[a]]]
        /\ after' = [after EXCEPT ![a] = "evicted"]
        /\ Goto(a, "lock")
  /\ UNCHANGED <<proc, closed, mu, readers,
                 row, loaded, registry, extOf, op, arg, todo, daemon, met, dbFails>>

\* ... and deleted.
Evicted(a) ==
  /\ pc[a] = "evicted"
  /\ loaded' = [loaded EXCEPT ![arg[a]] = None]
  /\ repoMu' = None
  /\ Goto(a, "spawn")
  /\ UNCHANGED <<HostRest, row, registry, extOf, op, arg, todo, daemon, met, dbFails>>

NewInstance == CHOOSE i \in Instance : proc[i] = "none"

\* LoadExtension up to its handshake; the manifest or the start may fail.
Spawn(a) ==
  /\ pc[a] = "spawn"
  /\ \/ /\ \E i \in Instance : proc[i] = "none"
        /\ Launch(a, NewInstance)
        /\ after' = [after EXCEPT ![a] = "failed"]
        /\ extOf' = [extOf EXCEPT ![NewInstance] = arg[a]]
        /\ UNCHANGED op
     \/ /\ Answer(a)
        /\ UNCHANGED <<proc, closed, mu, readers, extOf>>
  /\ UNCHANGED <<row, loaded, repoMu, registry, arg, todo, daemon, met, dbFails>>

\* LoadExtension returned an error, having closed its subprocess.
LoadFailed(a) ==
  /\ pc[a] = "failed"
  /\ Answer(a)
  /\ UNCHANGED <<proc, closed, mu, readers,
                 row, loaded, repoMu, registry, extOf, arg, todo, daemon, met, dbFails>>

\* r.loaded[ext.ID] = ep, whatever was there.
Store(a) ==
  /\ pc[a] = "store" /\ repoMu = None
  /\ loaded' = [loaded EXCEPT ![arg[a]] = on[a]]
  /\ Goto(a, "register")
  /\ UNCHANGED <<HostRest, row, repoMu, registry, extOf, op, arg, todo, daemon, met, dbFails>>

RegisterAtRequest(a) ==                    \* mutant of Register
  /\ pc[a] = "register" /\ mu[on[a]] = None
  /\ registry' = IF op[a] = "boot" THEN registry
                 ELSE [registry EXCEPT ![NameOf[arg[a]]] = on[a]]
  /\ IF op[a] = "boot" THEN Answer(a) ELSE Continue(a, "enable")
  /\ UNCHANGED <<proc, closed, mu, readers,
                 row, loaded, repoMu, extOf, arg, todo, daemon, met, dbFails>>

\* RegisterRuntime under the name Kind() reads with e.mu held, whatever
\* provider the name had.
Register(a) ==
  /\ pc[a] = "register"
  /\ mu[on[a]] = None
  /\ registry' = [registry EXCEPT ![NameOf[arg[a]]] = on[a]]
  /\ IF op[a] = "boot" THEN Answer(a) ELSE Continue(a, "enable")
  /\ UNCHANGED <<proc, closed, mu, readers,
                 row, loaded, repoMu, extOf, arg, todo, daemon, met, dbFails>>

\* UPDATE ... SET enabled: a row that is gone stays gone.  The statement fails
\* with the database, or when the client has gone and its context is done.
SetEnabled(a, status) ==
  \/ /\ row' = IF Exists(arg[a]) THEN [row EXCEPT ![arg[a]] = status] ELSE row
     /\ IF op[a] = "remove" THEN Continue(a, "delete") ELSE Answer(a)
  \/ /\ dbFails
     /\ Answer(a)
     /\ UNCHANGED row

Enable(a) ==
  /\ pc[a] = "enable"
  /\ SetEnabled(a, "enabled")
  /\ UNCHANGED <<proc, closed, mu, readers,
                 loaded, repoMu, registry, extOf, arg, todo, daemon, met, dbFails>>

-----------------------------------------------------------------------------
(* Disable and Remove                                                         *)

\* The Get of the Disable that Remove calls.
Recheck(a) ==
  /\ pc[a] = "recheck"
  /\ \/ Exists(arg[a]) /\ Continue(a, "take")
     \/ ~Exists(arg[a]) /\ Answer(a)
     \/ dbFails /\ Answer(a)
  /\ UNCHANGED <<proc, closed, mu, readers,
                 row, loaded, repoMu, registry, extOf, arg, todo, daemon, met, dbFails>>

\* Under r.mu: the provider is taken out of r.loaded.
Take(a) ==
  /\ pc[a] = "take" /\ repoMu = None
  /\ loaded' = [loaded EXCEPT ![arg[a]] = None]
  /\ \/ /\ loaded[arg[a]] = None
        /\ Goto(a, "disable")
        /\ UNCHANGED <<on, after>>
     \/ /\ loaded[arg[a]] # None
        /\ on' = [on EXCEPT ![a] = loaded[arg[a]]]
        /\ after' = [after EXCEPT ![a] = "disable"]
        /\ Goto(a, "unregister")
  /\ UNCHANGED <<proc, closed, mu, readers,
                 row, repoMu, registry, extOf, op, arg, todo, daemon, met, dbFails>>

UnregisterOnly(a) ==                       \* mutant of Unregister
  /\ pc[a] = "unregister" /\ mu[on[a]] = None
  /\ registry' = [registry EXCEPT ![NameOf[arg[a]]] = None]
  /\ Goto(a, "disable")
  /\ UNCHANGED <<HostRest, row, loaded, repoMu, extOf, op, arg, todo, daemon, met, dbFails>>

\* UnregisterRuntime(ep.Kind()), whatever provider the name has; then ep.Close().
Unregister(a) ==
  /\ pc[a] = "unregister"
  /\ mu[on[a]] = None
  /\ registry' = [registry EXCEPT ![NameOf[arg[a]]] = None]
  /\ Goto(a, "lock")
  /\ UNCHANGED <<HostRest, row, loaded, repoMu, extOf, op, arg, todo, daemon, met, dbFails>>

Disable(a) ==
  /\ pc[a] = "disable"
  /\ SetEnabled(a, "disabled")
  /\ UNCHANGED <<proc, closed, mu, readers,
                 loaded, repoMu, registry, extOf, arg, todo, daemon, met, dbFails>>

\* DELETE FROM extensions
Delete(a) ==
  /\ pc[a] = "delete"
  /\ \/ row' = [row EXCEPT ![arg[a]] = "removed"]
     \/ dbFails /\ UNCHANGED row
  /\ Answer(a)
  /\ UNCHANGED <<proc, closed, mu, readers,
                 loaded, repoMu, registry, extOf, arg, todo, daemon, met, dbFails>>

-----------------------------------------------------------------------------
(* The daemon.                                                                *)

\* It dies: everything in memory is gone; the subprocesses are not its business
\* any more.
Crash ==
  /\ MayCrash /\ daemon # "down"
  /\ daemon' = "down"
  /\ proc' = [i \in Instance |-> IF proc[i] = "up" THEN "orphan" ELSE proc[i]]
  /\ mu' = [i \in Instance |-> None]
  /\ readers' = [i \in Instance |-> 0]
  /\ pc' = [t \in Thread |-> "idle"]
  /\ on' = [t \in Thread |-> None]
  /\ after' = [t \in Thread |-> "idle"]
  /\ loaded' = [e \in Ext |-> None]
  /\ repoMu' = None
  /\ registry' = FreshRegistry
  /\ op' = [a \in Admin |-> "none"]
  /\ todo' = {} /\ met' = {}
  /\ UNCHANGED <<closed, row, extOf, arg, dbFails>>

\* server.New: LoadEnabled before anything is served; a List that fails is logged.
Boot(a) ==
  /\ daemon = "down"
  /\ daemon' = "boot"
  /\ \/ todo' = {e \in Ext : row[e] = "enabled"}
     \/ dbFails /\ todo' = {}
  /\ op' = [op EXCEPT ![a] = "boot"]
  /\ Goto(a, "boot")
  /\ UNCHANGED <<HostRest, row, loaded, repoMu, registry, extOf, arg, met, dbFails>>

\* The loop of LoadEnabled: one failure is logged and skipped.
LoadNext(a) ==
  /\ pc[a] = "boot"
  /\ \/ /\ todo = {}
        /\ daemon' = "up"
        /\ op' = [op EXCEPT ![a] = "none"]
        /\ Goto(a, "idle")
        /\ UNCHANGED <<todo, arg, met>>
     \/ \E e \in todo :
          /\ todo' = todo \ {e}
          /\ arg' = [arg EXCEPT ![a] = e] /\ Meet(a, e)
          /\ Goto(a, "evict")
          /\ UNCHANGED <<daemon, op>>
  /\ UNCHANGED <<HostRest, row, loaded, repoMu, registry, extOf, dbFails>>

-----------------------------------------------------------------------------
AdminSteps(a) ==
  \/ Evict(a) \/ Evicted(a) \/ Spawn(a) \/ LoadFailed(a) \/ Store(a) \/ Register(a)
  \/ Enable(a) \/ Recheck(a) \/ Take(a) \/ Unregister(a) \/ Disable(a) \/ Delete(a) \/ LoadNext(a)

Next ==
  \/ \E e \in Ext : Install(e)
  \/ \E a \in Admin : \/ \E e \in Ext, o \in {"enable", "disable", "remove"} : Request(a, e, o)
                      \/ AdminSteps(a)
                      \/ Boot(a)
  \/ \E u \in User, k \in Kind : Use(u, k)
  \/ (\E t \in Thread : HostSteps(t)) /\ UNCHANGED repoVars
  \/ (\E i \in Instance : Subprocess(i)) /\ UNCHANGED repoVars
  \/ Crash

Spec == Init /\ [][Next]_vars

\* Goroutines that can run do and timers fire.  A goroutine that waits for a
\* mutex gets it when it is free again and again.  The subprocess owes nothing.
Fairness ==
  /\ \A a \in Admin : SF_vars(AdminSteps(a))
  /\ \A t \in Thread : SF_vars(OwnSteps(t) /\ UNCHANGED repoVars)

LiveSpec == Spec /\ Fairness

-----------------------------------------------------------------------------
(* Properties.                                                                *)

Works(t, i) == pc[t] # "idle" /\ on[t] = i

\* No subprocess is leaked: one that runs and was not killed is loaded, so that
\* Disable, Remove or the next Enable will find it, or an admin goroutine is
\* working on it.  A failed handshake leaves none behind, and neither does
\* enabling what is already enabled, whatever requests about other extensions
\* overlap with it.  (Two Enables that overlap on one extension may leak one.)
NothingLeaks ==
  \A i \in Instance :
    proc[i] = "up" /\ ~closed[i] /\ extOf[i] \notin met =>
      loaded[extOf[i]] = i \/ \E a \in Admin : Works(a, i)

\* A loaded provider is the one registered under its name, whether a request or the
\* boot loaded it and whatever happens to other extensions at the same time: while no
\* goroutine is busy with the extension, and it shares its name with no other.
LoadedIsRegistered ==
  \A e \in Ext \ met :
    /\ \A f \in Ext \ {e} : NameOf[f] # NameOf[e]
    /\ \A a \in Admin : ~Busy(a, e)
    /\ loaded[e] # None
    => registry[NameOf[e]] = loaded[e]

\* An extension that was removed has no running subprocess, also when others are
\* enabled, disabled and removed meanwhile.  (A database that fails may let Remove
\* take a running extension for a disabled one.)
RemovedIsStopped ==
  ~dbFails => \A i \in Instance :
    row[extOf[i]] = "removed" /\ extOf[i] \notin met /\ proc[i] = "up" => closed[i]

\* Every request is answered and every call returns, whatever the subprocess
\* does or leaves undone and whoever holds which mutex.
AllReturn == \A t \in Thread : pc[t] # "idle" ~> pc[t] = "idle"
=============================================================================
