------------------------------ MODULE PartsProofs ------------------------------
(***************************************************************************)
(* The parts that share no variable with each other, each for every value  *)
(* of its constants: the restart budget of RestartBudget, the daemon of    *)
(* Daemon, the versions and rows of RuntimeVersions, the stream of Hub.    *)
(***************************************************************************)
EXTENDS RestartBudget, RuntimeVersions, Daemon, Hub, FiniteSetTheorems, TLAPS

(* RestartBudget                                                             *)

USE BudgetConstants

LEMMA InitBudget == Init => BudgetInv
<1> SUFFICES ASSUME Init PROVE BudgetInv
  OBVIOUS
<1>1. IsFiniteSet({}) /\ Cardinality({}) = 0
  BY FS_EmptySet
<1>2. DOMAIN restarts = {} /\ restarts \in [{} -> Nat]
  BY DEF Init
<1>3. \A t : RestartsInside(t) = {}
  BY <1>2 DEF RestartsInside
<1>4. TypeOK
  BY <1>1, <1>2 DEF Init, TypeOK
<1> QED BY <1>1, <1>3, <1>4 DEF Init, BudgetInv, ListIsExact, Within, GivesUpForCause

LEMMA StartBudget == BudgetInv /\ FreshStart => BudgetInv'
<1> SUFFICES ASSUME BudgetInv, FreshStart PROVE BudgetInv'
  OBVIOUS
<1>1. IsFiniteSet({}) /\ Cardinality({}) = 0
  BY FS_EmptySet
<1>2. DOMAIN restarts' = {} /\ restarts' \in [{} -> Nat]
  BY DEF FreshStart
<1>3. \A t \in Nat : RestartsInside(t)' = {}
  BY <1>2 DEF RestartsInside
<1>4. TypeOK'
  BY <1>1, <1>2 DEF FreshStart, TypeOK, BudgetInv
<1>5. \A u \in Nat : Cardinality(RestartsInside(u)') <= MaxRestarts
  BY <1>1, <1>3
<1> QED
  BY <1>3, <1>4, <1>5 DEF FreshStart, BudgetInv, ListIsExact, Within, GivesUpForCause

\* The exit at t, pruned at p: what pruneRestartWindow keeps is what happened in
\* the window that ends at p.  A window that holds the exit at t and the decision
\* at p ends at p or later, so every restart in it is among what was kept; any
\* other window holds what it held.
LEMMA ExitBudget ==
  ASSUME BudgetInv, NEW d \in 1..Horizon, NEW lag \in 0..Horizon, Exit(d, lag)
  PROVE  BudgetInv'
<1>0. /\ now \in Nat /\ exits \subseteq Nat /\ restartTimes \subseteq exits
      /\ \A x \in exits : x <= now
      /\ DOMAIN restarts \subseteq exits /\ Window \in Nat
  BY DEF BudgetInv, TypeOK
<1> DEFINE t    == now + d
           p    == t + lag
           kept == pruneRestartWindow(restartTimes \cup {t}, p)
<1>1. /\ status = "running" /\ t \in Nat /\ p \in Nat /\ t > now /\ p >= t /\ now' = p
      /\ restartTimes' = kept /\ exits' = exits \cup {t}
      /\ \/ Cardinality(kept) > MaxRestarts /\ GiveUp
         \/ ~(Cardinality(kept) > MaxRestarts) /\ Restart(t, p)
         \/ RestartFails
  BY <1>0 DEF Exit
<1>2. kept = Within(exits', p)
  <2>1. Within(restartTimes, now) = Within(exits, now)
    BY <1>1 DEF BudgetInv, ListIsExact
  <2>2. \A x : x \in exits /\ x > p - Window => x \in restartTimes
    BY <1>0, <1>1, <2>1 DEF Within
  <2> QED BY <1>0, <1>1, <2>2 DEF pruneRestartWindow, Within
<1> HIDE DEF t, p, kept
<1>3. kept \subseteq exits' /\ t \in Nat /\ p \in Nat
  BY <1>1, <1>2 DEF Within
<1>4. IsFiniteSet(exits') /\ exits' \subseteq Nat
  <2>1. IsFiniteSet(exits \cup {t})
    BY FS_AddElement DEF BudgetInv, TypeOK
  <2> QED BY <1>1, <2>1 DEF BudgetInv, TypeOK
<1>5. IsFiniteSet(kept)
  BY <1>3, <1>4, FS_Subset
<1>6. restarts' \in [DOMAIN restarts' -> Nat] /\ DOMAIN restarts' \subseteq exits'
  BY <1>1 DEF BudgetInv, TypeOK, GiveUp, Restart, RestartFails
<1>7. TypeOK'
  BY <1>1, <1>3, <1>4, <1>5, <1>6 DEF BudgetInv, TypeOK, GiveUp, Restart, RestartFails
<1>8. \A x \in exits' : x <= now'
  BY <1>0, <1>1
<1>9. ListIsExact'
  BY <1>1, <1>2 DEF ListIsExact, Within
<1>10. ASSUME NEW u \in Nat PROVE Cardinality(RestartsInside(u)') <= MaxRestarts
  <2>1. CASE restarts' = restarts
    <3>1. RestartsInside(u)' = RestartsInside(u)
      BY <2>1 DEF RestartsInside
    <3> QED BY <3>1 DEF BudgetInv
  <2>2. CASE Restart(t, p) /\ u < p
    <3>1. t \notin DOMAIN restarts
      BY <1>0, <1>1
    <3>2. /\ DOMAIN restarts' = DOMAIN restarts \cup {t} /\ restarts'[t] = p
          /\ \A x \in DOMAIN restarts : restarts'[x] = restarts[x]
      BY <2>2, <3>1 DEF Restart
    <3>3. RestartsInside(u)' = RestartsInside(u)
      BY <1>1, <2>2, <3>2 DEF RestartsInside
    <3> QED BY <3>3 DEF BudgetInv
  <2>3. CASE Restart(t, p) /\ ~(Cardinality(kept) > MaxRestarts) /\ ~(u < p)
    <3>1. Cardinality(kept) <= MaxRestarts
      BY <1>5, <2>3, FS_CardinalityType
    <3>2. ASSUME NEW x \in RestartsInside(u)' PROVE x \in kept
      <4>1. x \in exits' /\ x \in Nat /\ x > u - Window
        BY <1>4, <1>6, <3>2 DEF RestartsInside
      <4>2. x > p - Window
        BY <1>3, <2>3, <4>1
      <4> QED BY <1>2, <4>1, <4>2 DEF Within
    <3>3. /\ Cardinality(RestartsInside(u)') <= Cardinality(kept)
          /\ IsFiniteSet(RestartsInside(u)')
      BY <1>5, <3>2, FS_Subset
    <3> QED BY <1>5, <3>1, <3>3, FS_CardinalityType
  <2>4. GiveUp \/ RestartFails => restarts' = restarts
    BY DEF GiveUp, RestartFails
  <2> QED BY <1>1, <1>3, <2>1, <2>2, <2>3, <2>4
<1>11. GivesUpForCause'
  <2>1. Inside(exits', p) = kept
    BY <1>1, <1>2, <1>8 DEF Inside, Within
  <2> QED BY <1>1, <2>1 DEF GivesUpForCause, GiveUp, Restart, RestartFails
<1>12. restartTimes' \subseteq exits'
  BY <1>1, <1>3
<1> QED BY <1>7, <1>8, <1>9, <1>10, <1>11, <1>12 DEF BudgetInv

LEMMA NextBudget == BudgetInv /\ [Next]_vars => BudgetInv'
<1> SUFFICES ASSUME BudgetInv, [Next]_vars PROVE BudgetInv'
  OBVIOUS
<1>1. CASE FreshStart
  BY <1>1, StartBudget
<1>2. CASE Stop
  BY <1>2 DEF Stop, BudgetInv, TypeOK, ListIsExact, Within, Inside, RestartsInside, GivesUpForCause
<1>3. ASSUME NEW d \in 1..Horizon, NEW lag \in 0..Horizon, Exit(d, lag) PROVE BudgetInv'
  BY <1>3, ExitBudget
<1>4. CASE UNCHANGED vars
  BY <1>4 DEF vars, BudgetInv, TypeOK, ListIsExact, Within, Inside, RestartsInside, GivesUpForCause
<1> QED BY <1>1, <1>2, <1>3, <1>4 DEF Next

\* No window holds more restarts, exit and decision, than the budget allows, whatever
\* the delay between awaitExit's and pruneRestartWindow's looks at the clock.
THEOREM BudgetTheorem == Spec => []BudgetHolds
<1>1. BudgetInv => BudgetHolds
  BY DEF BudgetInv, BudgetHolds
<1> QED BY <1>1, InitBudget, NextBudget, PTL DEF Spec

\* awaitExit gives up only when the budget was exceeded, and marks the service
\* failed otherwise only when a restart failed.
THEOREM GivesUpTheorem == Spec => []GivesUpForCause
<1>1. BudgetInv => GivesUpForCause
  BY DEF BudgetInv
<1> QED BY <1>1, InitBudget, NextBudget, PTL DEF Spec
HIDE BudgetConstants

-----------------------------------------------------------------------------
(* Daemon                                                                    *)

Simple    == bootFaults \subseteq {"kill", "fatal", "write"}
Active(p) == Alive(p) /\ boot[p] # "exit"
Works(p)  == Active(p) /\ ~(p \in unnamed /\ boot[p] = "serve")
Waits(t)  == cli[t].pc \in {"stop", "signal", "await"}

DaemonTypes ==
  /\ boot \in [Proc -> {"none", "serve", "return", "exit", "done", "gone"} \cup Booting]
  /\ handler \in [Proc -> {"off", "wait", "proxy", "http", "drain", "close", "end"}]
  /\ http \in [Proc -> {"nil", "set", "open", "closed"}]
  /\ DOMAIN port = Proc /\ DOMAIN token = Proc /\ DOMAIN cli = Cli
  /\ pidFile \in 0 .. MaxProc /\ launched \in 0 .. MaxProc
  /\ unsaved \subseteq Proc /\ unnamed \subseteq Proc
  /\ basePort \in {1, 2} /\ bootFaults \in BootFaultSets

Launched ==
  /\ \A p \in Proc : p > launched => boot[p] = "none"
  /\ pidFile # 0 => boot[pidFile] # "none"
  /\ \A t \in Cli :
       \/ cli[t] = Prompt \/ cli[t].pc = "relaunch"
       \/ Waits(t) /\ cli[t].pid \in Proc /\ boot[cli[t].pid] # "none"

Fresh(p)  == boot[p] \in {"none", "dirs", "load", "probe", "pid"}

\* A daemon whose writePIDFile failed is never signalled, nor is one before it.
Unnamed ==
  \A p \in Proc :
    p \in unnamed =>
         /\ handler[p] \in {"off", "wait", "end"}
         /\ boot[p] \in {"new", "autostart", "notify", "run", "listen", "serve", "gone"}
         /\ http[p] = "closed" => boot[p] = "gone"

NeverNamed ==
  \A p \in Proc :
    /\ Fresh(p) => p \notin unnamed /\ handler[p] = "off" /\ http[p] = "nil"
    /\ Fresh(p) \/ p \in unnamed =>
         pidFile # p /\ \A t \in Cli : Waits(t) => cli[t].pid # p

BootsUnmet ==
  /\ \A p \in Proc :
       /\ boot[p] \in ({"none"} \cup Booting) \ {"run", "listen"} => handler[p] = "off" /\ http[p] = "nil"
       /\ boot[p] = "run" => handler[p] = "wait" /\ http[p] = "nil"
       /\ boot[p] = "listen" => handler[p] = "wait" /\ http[p] = "set"
       /\ boot[p] = "serve" => \/ http[p] = "open" /\ handler[p] \in {"wait", "proxy", "http"}
                               \/ http[p] = "closed" /\ handler[p] # "off"
       /\ boot[p] \in {"return", "exit"} => handler[p] # "off"
       /\ boot[p] \in {"return", "exit", "done", "gone"} => http[p] = "closed"
  /\ \A t \in Cli : Waits(t) => boot[cli[t].pid] \notin Booting

OneDaemon ==
  /\ \A p, q \in Proc : Works(p) /\ Works(q) => p = q
  /\ \A t, u \in Cli : cli[t] # Prompt /\ cli[u] # Prompt => t = u
  /\ \A t \in Cli, p \in Proc :
       /\ cli[t].pc = "relaunch" => ~Works(p)
       /\ Waits(t) /\ Works(p) => cli[t].pid = p

FilesTellIt ==
  \A p \in Proc :
    /\ boot[p] \in {"new", "autostart", "notify", "run", "listen", "serve", "return"} /\ p \notin unnamed =>
         pidFile = p
    /\ boot[p] \in (Booting \ {"dirs"}) \cup {"serve"} => voltDir
    /\ boot[p] \in {"pid", "new", "autostart", "notify", "run", "listen", "serve"} =>
         /\ port[p] \in Nat \ {0}
         /\ p \notin unnamed \cup unsaved => config = [token |-> token[p], port |-> port[p]]

DaemonInv ==
  /\ DaemonTypes /\ Launched /\ Unnamed /\ NeverNamed
  /\ "early" \notin bootFaults => BootsUnmet
  /\ Simple => OneDaemon /\ FilesTellIt

USE ProcAssumption

LEMMA InitDaemon == DaemonInit => DaemonInv
<1> SUFFICES ASSUME DaemonInit PROVE DaemonInv
  OBVIOUS
<1>1. DaemonTypes
  BY DEF DaemonInit, DaemonTypes, Proc, Booting
<1>2. Launched /\ Unnamed /\ NeverNamed /\ BootsUnmet /\ OneDaemon /\ FilesTellIt
  BY DEF DaemonInit, Launched, Unnamed, NeverNamed, BootsUnmet, OneDaemon, FilesTellIt, Proc, Booting, Prompt,
         Waits, Active, Alive, Works
<1> QED BY <1>1, <1>2 DEF DaemonInv


\* Where one daemon at a time is at work, the others have nothing to do with the files.
LEMMA Alone ==
  ASSUME DaemonInv, Simple, NEW p \in Proc, Works(p)
  PROVE  \A q \in Proc : q # p =>
           boot[q] \in {"none", "exit", "done", "gone"} \/ (boot[q] = "serve" /\ q \in unnamed)
<1>1. ASSUME NEW q \in Proc, q # p
      PROVE  boot[q] \in {"none", "exit", "done", "gone"} \/ (boot[q] = "serve" /\ q \in unnamed)
  <2>1. ~Works(q)
    BY <1>1 DEF DaemonInv, OneDaemon
  <2> QED BY <2>1 DEF Works, Active, Alive
<1> QED BY <1>1

\* A process that ends leaves no trace but its files, and those are its own.
LEMMA VanishKeeps ==
  ASSUME DaemonInv, NEW p \in Proc, NEW l \in {"gone", "done"}, boot[p] # "none", Vanish(p, l),
         UNCHANGED <<port, token, lost, given, launched, cli>>, pidFile' \in {pidFile, 0},
         voltDir => voltDir', l = "done" => p \notin unnamed,
         UNCHANGED files \/ (Simple => Works(p))
  PROVE  DaemonInv'
<1>1. DaemonTypes'
  BY DEF Vanish, Step, given, lost, Proc, DaemonInv, DaemonTypes
<1>2. Launched'
  BY DEF Vanish, Step, given, Proc, DaemonInv, DaemonTypes, Launched, Waits, Prompt
<1>3. bootFaults' = bootFaults /\ (Simple' <=> Simple)
  BY DEF given, Simple
<1>4. "early" \notin bootFaults => BootsUnmet'
  BY DEF Vanish, Step, given, Proc, Booting, DaemonInv, DaemonTypes, Launched, BootsUnmet, Waits, Prompt
<1>5. Simple => OneDaemon'
  BY DEF Vanish, Step, lost, DaemonInv, DaemonTypes, OneDaemon, Works, Active, Alive, Waits
<1>6. Simple => FilesTellIt'
  <2>1. CASE UNCHANGED files
    BY <2>1 DEF Vanish, Step, files, lost, Booting, DaemonInv, DaemonTypes, FilesTellIt
  <2>2. CASE Simple => Works(p)
    BY <2>2, Alone DEF Vanish, Step, lost, DaemonInv, DaemonTypes, FilesTellIt, Booting
  <2> QED BY <2>1, <2>2
<1>7. Unnamed' /\ NeverNamed'
  BY DEF Vanish, Step, lost, DaemonInv, DaemonTypes, Unnamed, NeverNamed, Fresh, Waits, Proc
<1> QED BY <1>1, <1>2, <1>3, <1>4, <1>5, <1>6, <1>7 DEF DaemonInv

\* main, where it leaves the files alone.
LEMMA MainKeeps ==
  ASSUME DaemonInv, NEW p \in Proc,
         StartAutostartServices(p) \/ Notify(p) \/ Run(p) \/ RunReturns(p)
  PROVE  DaemonInv'
<1>1. DaemonTypes'
  BY DEF StartAutostartServices, Notify, Run, RunReturns, Step, files, lost, server, given, Booting, DaemonInv,
         DaemonTypes
<1>2. Launched'
  <2>1. /\ UNCHANGED <<launched, pidFile, cli>> /\ boot[p] # "none" /\ Launched /\ launched \in Nat
        /\ \A q \in Proc : (q # p => boot'[q] = boot[q]) /\ boot'[p] # "none"
    BY DEF StartAutostartServices, Notify, Run, RunReturns, Step, files, server, DaemonInv, DaemonTypes
  <2>2. \A q \in Proc : boot'[q] = "none" <=> boot[q] = "none"
    BY <2>1
  <2>3. pidFile # 0 => pidFile \in Proc
    BY DEF DaemonInv, DaemonTypes, Proc
  <2> QED BY <2>1, <2>2, <2>3 DEF Launched, Waits, Prompt
<1>3. bootFaults' = bootFaults /\ (Simple' <=> Simple)
  BY DEF StartAutostartServices, Notify, Run, RunReturns, given, Simple
<1>4. "early" \notin bootFaults => BootsUnmet'
  BY DEF StartAutostartServices, Notify, Run, RunReturns, Step, server, Booting, DaemonInv, DaemonTypes, Launched,
         BootsUnmet, Waits, Prompt
<1>5. Simple => OneDaemon'
  BY DEF StartAutostartServices, Notify, Run, RunReturns, Step, files, lost, DaemonInv, DaemonTypes, OneDaemon,
         Unnamed, Works, Active, Alive, Waits
<1>6. Simple => FilesTellIt'
  BY DEF StartAutostartServices, Notify, Run, RunReturns, Step, files, lost, server, DaemonInv, DaemonTypes,
         FilesTellIt, Booting
<1>7. Unnamed' /\ NeverNamed'
  BY DEF StartAutostartServices, Notify, Run, RunReturns, Step, files, lost, server, DaemonInv, DaemonTypes,
         Unnamed, NeverNamed, Fresh, Waits
<1> QED BY <1>1, <1>2, <1>3, <1>4, <1>5, <1>6, <1>7 DEF DaemonInv

\* main, where it touches files: it is the only one at work.
LEMMA FilesKeep ==
  ASSUME DaemonInv, NEW p \in Proc,
         (EnsureDirs(p) /\ ~Fatal(p)) \/ Probe(p) \/ writePIDFile(p) \/ removePIDFile(p)
  PROVE  DaemonInv'
<1>0. /\ \E l \in {"load", "pid", "new", "exit"} : boot' = [boot EXCEPT ![p] = l]
      /\ handler' = handler /\ http' = http /\ token' = token /\ DOMAIN port' = Proc
      /\ UNCHANGED <<given, launched, cli>> /\ boot[p] \in {"dirs", "probe", "pid", "return"}
      /\ pidFile' \in {pidFile, 0} \/ pidFile' = p
      /\ unsaved' \in {unsaved, unsaved \cup {p}} /\ unnamed' \in {unnamed, unnamed \cup {p}}
  BY DEF EnsureDirs, Probe, writePIDFile, removePIDFile, Step, lost, server, DaemonInv, DaemonTypes
<1>1. DaemonTypes'
  <2>1. pidFile' \in 0 .. MaxProc
    BY <1>0 DEF Proc, DaemonInv, DaemonTypes
  <2> QED BY <1>0, <2>1 DEF given, Booting, DaemonInv, DaemonTypes
<1>2. Launched'
  <2>1. \A q \in Proc : boot[q] = "none" <=> boot'[q] = "none"
    BY <1>0 DEF DaemonInv, DaemonTypes
  <2>2. pidFile' # 0 => boot'[pidFile'] # "none"
    BY <1>0, <2>1 DEF Proc, DaemonInv, DaemonTypes, Launched
  <2> QED BY <1>0, <2>1, <2>2 DEF DaemonInv, Launched, Waits
<1>3. bootFaults' = bootFaults /\ (Simple' <=> Simple)
  BY DEF EnsureDirs, Probe, writePIDFile, removePIDFile, given, Simple
<1>4. "early" \notin bootFaults => BootsUnmet'
  BY DEF EnsureDirs, Probe, writePIDFile, removePIDFile, Step, server, Booting, DaemonInv, DaemonTypes, Launched,
         BootsUnmet, Waits, Prompt
<1>5. /\ boot[p] \in {"dirs", "probe", "pid", "return"} /\ p \notin unnamed
      /\ boot'[p] \in {"load", "pid", "new", "exit"}
      /\ \A q \in Proc : q # p => boot'[q] = boot[q] /\ (q \in unnamed' <=> q \in unnamed)
      /\ cli' = cli
  BY DEF EnsureDirs, Probe, writePIDFile, removePIDFile, Step, lost, server, DaemonInv, DaemonTypes, Unnamed,
         NeverNamed, Fresh
<1>6. Simple => OneDaemon'
  BY <1>5 DEF DaemonInv, OneDaemon, Works, Active, Alive, Waits
<1>7. ASSUME Simple PROVE FilesTellIt'
  <2>0. Works(p)
    BY <1>5 DEF Works, Active, Alive
  <2>1. \A q \in Proc : q # p => \/ boot'[q] \in {"none", "exit", "done", "gone"}
                                 \/ boot'[q] = "serve" /\ q \in unnamed /\ q \in unnamed'
    BY <1>5, <1>7, <2>0, Alone
  <2>2. CASE (EnsureDirs(p) /\ ~Fatal(p)) \/ writePIDFile(p) \/ removePIDFile(p)
    BY <1>7, <2>1, <2>2 DEF EnsureDirs, writePIDFile, removePIDFile, Step, server, lost, DaemonInv, DaemonTypes,
                            FilesTellIt, Booting
  <2>3. CASE Probe(p)
    <3>1. basePort \in 1 .. 2
      BY DEF DaemonInv, DaemonTypes
    <3>2. basePort \in basePort .. (basePort + 19)
      BY <3>1
    <3>3. probePort \in basePort .. (basePort + 19)
      BY <3>2, Zenon DEF probePort
    <3>4. probePort \in Nat \ {0}
      BY <3>1, <3>3
    <3> HIDE DEF probePort
    <3>5. /\ boot'[p] = "pid" /\ port'[p] = probePort /\ token'[p] = token[p] /\ voltDir'
          /\ p \notin unsaved' => config' = [token |-> token[p], port |-> probePort]
          /\ \A q \in Proc : q # p => port'[q] = port[q]
          /\ voltDir' = voltDir
      BY <1>7, <2>3 DEF Probe, Step, DaemonInv, DaemonTypes, FilesTellIt, Booting
    <3> QED BY <1>5, <1>7, <2>1, <3>4, <3>5 DEF DaemonInv, FilesTellIt, Booting
  <2> QED BY <2>2, <2>3
<1>8. Unnamed'
  <2>1. p \in unnamed' => boot'[p] = "new" /\ boot[p] = "pid"
    BY <1>5 DEF EnsureDirs, Probe, writePIDFile, removePIDFile, Step, lost, DaemonInv, DaemonTypes
  <2>2. boot[p] = "pid" => handler[p] = "off" /\ http[p] = "nil"
    BY DEF DaemonInv, NeverNamed, Fresh
  <2> QED BY <1>0, <1>5, <2>1, <2>2 DEF DaemonInv, Unnamed
<1>9. NeverNamed'
  <2>1. Fresh(p)' => Fresh(p) /\ p \notin unnamed' /\ pidFile' \in {pidFile, 0}
    BY <1>5 DEF EnsureDirs, Probe, writePIDFile, removePIDFile, Step, lost, Fresh, DaemonInv, DaemonTypes
  <2>2. p \in unnamed' => Fresh(p) /\ pidFile' \in {pidFile, 0}
    BY <1>5 DEF EnsureDirs, Probe, writePIDFile, removePIDFile, lost, Fresh
  <2>3. \A q \in Proc : q # p => (Fresh(q)' <=> Fresh(q))
    BY <1>5 DEF Fresh
  <2> QED BY <1>0, <1>5, <2>1, <2>2, <2>3 DEF Proc, DaemonInv, NeverNamed, Waits
<1> QED BY <1>1, <1>2, <1>3, <1>4, <1>6, <1>7, <1>8, <1>9 DEF DaemonInv

\* A boot that cannot write, and one that finds a torn config.json.
LEMMA LoadConfigKeeps ==
  ASSUME DaemonInv, NEW p \in Proc, LoadConfig(p) \/ (EnsureDirs(p) /\ Fatal(p))
  PROVE  DaemonInv'
<1>1. CASE Fatal(p)
  BY <1>1, VanishKeeps DEF LoadConfig, EnsureDirs, Fatal, files, lost
<1>2. CASE LoadConfig(p) /\ Vanish(p, "gone") /\ UNCHANGED <<port, token, held, pidFile, voltDir, lost>>
  <2>1. boot[p] = "load" /\ UNCHANGED <<given, launched, cli>>
    BY <1>2 DEF LoadConfig
  <2>2. Simple => Works(p)
    BY <2>1 DEF Works, Active, Alive
  <2> QED BY <1>2, <2>1, <2>2, VanishKeeps
<1>3. CASE /\ LoadConfig(p)
           /\ config' = LoadOrInitConfig(config) /\ Step(p, "probe")
           /\ token' = [token EXCEPT ![p] = config'.token]
           /\ UNCHANGED <<handler, http, port, held, busy, pidFile, voltDir, lost>>
  <2>1. boot[p] = "load" /\ UNCHANGED <<given, launched, cli>>
    BY <1>3 DEF LoadConfig
  <2>2. DaemonTypes'
    BY <1>3, <2>1 DEF Step, given, lost, Booting, DaemonInv, DaemonTypes
  <2>3. Launched'
    BY <1>3, <2>1 DEF Step, given, DaemonInv, DaemonTypes, Launched, Proc, Waits, Prompt
  <2>4. bootFaults' = bootFaults /\ (Simple' <=> Simple)
    BY <2>1 DEF given, Simple
  <2>5. "early" \notin bootFaults => BootsUnmet'
    BY <1>3, <2>1 DEF Step, Booting, DaemonInv, DaemonTypes, Launched, BootsUnmet, Waits, Prompt
  <2>6. Simple => OneDaemon'
    BY <1>3, <2>1 DEF Step, lost, DaemonInv, DaemonTypes, OneDaemon, Works, Active, Alive, Waits
  <2>7. ASSUME Simple PROVE FilesTellIt'
    <3>1. \A q \in Proc : q # p => \/ boot'[q] \in {"none", "exit", "done", "gone"}
                                   \/ boot'[q] = "serve" /\ q \in unnamed
      BY <1>3, <2>1, <2>7, Alone DEF Step, DaemonInv, DaemonTypes, Works, Active, Alive
    <3> QED BY <1>3, <2>1, <2>7, <3>1 DEF Step, lost, DaemonInv, DaemonTypes, FilesTellIt, Booting
  <2>8. Unnamed' /\ NeverNamed'
    BY <1>3, <2>1 DEF Step, lost, DaemonInv, DaemonTypes, Unnamed, NeverNamed, Fresh, Waits
  <2> QED BY <2>2, <2>3, <2>4, <2>5, <2>6, <2>7, <2>8 DEF DaemonInv
<1> QED BY <1>1, <1>2, <1>3 DEF LoadConfig, Unwritten

\* The last step of a boot, and the one that may fail before it.
LEMMA ListenKeeps == ASSUME DaemonInv, NEW p \in Proc, New(p) \/ ListenAndServe(p) PROVE DaemonInv'
<1> DEFINE Dies  == Vanish(p, "gone") /\ boot[p] # "none" /\ UNCHANGED <<port, token, files, given, launched, cli>>
           Moves == /\ UNCHANGED <<handler, port, token, files, given, launched, cli>>
                    /\ \/ boot[p] = "new" /\ Step(p, "autostart") /\ http' = http
                       \/ boot[p] = "listen" /\ http[p] = "closed" /\ Step(p, "return") /\ http' = http
                       \/ boot[p] = "listen" /\ http[p] = "set" /\ Step(p, "serve")
                            /\ http' = [http EXCEPT ![p] = "open"]
<1>1. Dies \/ Moves
  BY DEF New, ListenAndServe, Fatal, server
<1>2. CASE Dies
  BY <1>2, VanishKeeps DEF files, lost
<1>3. CASE Moves
  <2>1. DaemonTypes'
    BY <1>3 DEF Step, files, lost, given, Booting, DaemonInv, DaemonTypes
  <2>2. Launched'
    BY <1>3 DEF Step, files, given, DaemonInv, DaemonTypes, Launched, Proc, Waits, Prompt
  <2>3. bootFaults' = bootFaults /\ (Simple' <=> Simple)
    BY <1>3 DEF given, Simple
  <2>4. "early" \notin bootFaults => BootsUnmet'
    BY <1>3 DEF Step, Booting, DaemonInv, DaemonTypes, Launched, BootsUnmet, Waits, Prompt
  <2>5. Simple => OneDaemon'
    BY <1>3 DEF Step, files, lost, DaemonInv, DaemonTypes, OneDaemon, Works, Active, Alive, Waits
  <2>6. Simple => FilesTellIt'
    BY <1>3 DEF Step, files, lost, DaemonInv, DaemonTypes, FilesTellIt, Booting
  <2>7. Unnamed' /\ NeverNamed'
    BY <1>3 DEF Step, files, lost, DaemonInv, DaemonTypes, Unnamed, NeverNamed, Fresh, Waits
  <2> QED BY <2>1, <2>2, <2>3, <2>4, <2>5, <2>6, <2>7 DEF DaemonInv
<1> QED BY <1>1, <1>2, <1>3

LEMMA EndKeeps == ASSUME DaemonInv, NEW p \in Proc, MainExits(p) \/ Kill(p) PROVE DaemonInv'
<1>1. /\ boot[p] # "none" /\ UNCHANGED <<port, token, lost, given, launched, cli>>
      /\ pidFile' \in {pidFile, 0} /\ (voltDir => voltDir')
  BY DEF MainExits, Kill, Alive, files
<1>2. Vanish(p, "gone") \/ (Vanish(p, "done") /\ boot[p] = "exit")
  <2>1. CASE MainExits(p)
    BY <2>1 DEF MainExits
  <2>2. CASE Kill(p)
    BY <2>2 DEF Kill
  <2> QED BY <2>1, <2>2
<1>3. boot[p] = "exit" => p \notin unnamed
  BY DEF DaemonInv, Unnamed
<1>4. UNCHANGED files \/ Works(p)
  BY DEF MainExits, Kill, Works, Active, Alive
<1> QED BY <1>1, <1>2, <1>3, <1>4, VanishKeeps

\* What leaves main, the files and the commands as they are.
LEMMA QuietKeeps ==
  ASSUME DaemonInv, NEW p \in Proc,
         Request(p) \/ Respond(p) \/ ShutdownProxy(p) \/ ShutdownHTTP(p) \/ Drained(p) \/ Close(p)
  PROVE  DaemonInv'
<1>1. /\ UNCHANGED <<boot, port, token, files, given, launched, cli>>
      /\ \/ UNCHANGED <<handler, http>>
         \/ /\ handler[p] # "off" /\ \E l \in {"drain", "close", "end"} : HandlerTo(p, l)
            /\ handler[p] # "http" => handler[p] \in {"drain", "close"} /\ http' = http
            /\ handler[p] = "http" =>
                 IF http[p] = "nil" THEN http' = http ELSE http' = [http EXCEPT ![p] = "closed"]
         \/ handler[p] = "proxy" /\ HandlerTo(p, "http") /\ http' = http
  BY DEF Request, Respond, ShutdownProxy, ShutdownHTTP, Drained, Close, HandlerTo, server
<1>2. DaemonTypes'
  BY <1>1 DEF HandlerTo, files, lost, given, DaemonInv, DaemonTypes
<1>3. "early" \notin bootFaults => BootsUnmet'
  BY <1>1 DEF HandlerTo, Booting, DaemonInv, DaemonTypes, BootsUnmet, Waits
<1>4. Launched' /\ (Simple => OneDaemon' /\ FilesTellIt')
  BY <1>1 DEF files, lost, DaemonInv, Launched, OneDaemon, FilesTellIt, Works, Active, Alive, Waits
<1>5. bootFaults' = bootFaults /\ (Simple' <=> Simple)
  BY <1>1 DEF given, Simple
<1>6. Unnamed' /\ NeverNamed'
  BY <1>1 DEF HandlerTo, files, lost, DaemonInv, DaemonTypes, Unnamed, NeverNamed, Fresh, Waits
<1> QED BY <1>2, <1>3, <1>4, <1>5, <1>6 DEF DaemonInv

\* A daemon is launched where none is at work.
LEMMA LaunchKeeps == ASSUME DaemonInv, NEW t \in Cli, start(t) \/ Relaunch(t) PROVE DaemonInv'
<1> DEFINE p == launched + 1
<1>1. /\ p \in Proc /\ boot[p] = "none" /\ launched' = p /\ Step(p, "dirs")
        /\ UNCHANGED <<handler, server, files, given>>
      /\ cli' = cli \/ cli' = [cli EXCEPT ![t] = Prompt]
  BY DEF start, Relaunch, Launch, CliTo, Prompt, Proc, DaemonInv, DaemonTypes, Launched
<1> HIDE DEF p
<1>2. DaemonTypes'
  BY <1>1 DEF Step, server, files, lost, given, Booting, Proc, DaemonInv, DaemonTypes
<1>3. Launched'
  <2>1. \A q \in Proc : q > launched' => boot'[q] = "none"
    BY <1>1 DEF p, Step, Proc, DaemonInv, DaemonTypes, Launched
  <2>2. (pidFile # 0 => boot[pidFile] # "none")'
    BY <1>1 DEF Step, Proc, files, DaemonInv, DaemonTypes, Launched
  <2>3. \A u \in Cli : \/ cli'[u] = Prompt \/ cli'[u].pc = "relaunch"
                       \/ Waits(u)' /\ cli'[u].pid \in Proc /\ boot'[cli'[u].pid] # "none"
    BY <1>1 DEF Step, Waits, Prompt, DaemonInv, DaemonTypes, Launched
  <2> QED BY <2>1, <2>2, <2>3 DEF Launched
<1>4. bootFaults' = bootFaults /\ (Simple' <=> Simple)
  BY <1>1 DEF given, Simple
<1>5. "early" \notin bootFaults => BootsUnmet'
  BY <1>1 DEF Step, server, Booting, Waits, Prompt, DaemonInv, DaemonTypes, Launched, BootsUnmet
<1>6. ASSUME Simple PROVE OneDaemon' /\ FilesTellIt'
  <2>1. (\A q \in Proc : ~Works(q)) /\ \A u \in Cli : cli'[u] = Prompt
    <3>1. CASE start(t)
      BY <1>6, <3>1 DEF start, Command, Simple, Works, Active
    <3>2. CASE Relaunch(t)
      BY <1>6, <3>2 DEF Relaunch, CliTo, DaemonInv, DaemonTypes, OneDaemon, Prompt
    <3> QED BY <3>1, <3>2
  <2>2. \A q \in Proc : q # p => ~Works(q)'
    BY <1>1, <2>1 DEF Works, Active, Alive, Step, files, lost, DaemonInv, DaemonTypes
  <2>3. OneDaemon'
    BY <2>1, <2>2 DEF OneDaemon, Waits, Prompt
  <2>4. FilesTellIt'
    BY <1>1, <1>6, <2>2 DEF FilesTellIt, Works, Active, Alive, Booting, Step, files, lost, server, DaemonInv,
                           DaemonTypes
  <2> QED BY <2>3, <2>4
<1>7. Unnamed' /\ NeverNamed'
  BY <1>1 DEF Step, files, lost, server, Prompt, DaemonInv, DaemonTypes, Unnamed, NeverNamed, Fresh, Waits
<1> QED BY <1>2, <1>3, <1>4, <1>5, <1>6, <1>7 DEF DaemonInv

\* What is read of daemon.pid when no daemon boots is a daemon that has booted, the
\* one at work if there is one.
LEMMA ReadPIDKeeps == ASSUME DaemonInv, NEW t \in Cli, cliStop(t) \/ cliRestart(t) PROVE DaemonInv'
<1>1. /\ Command(t) /\ UNCHANGED <<boot, handler, server, pidFile, given, launched>>
      /\ "early" \in bootFaults \/ \A p \in Proc : boot[p] \notin Booting
      /\ UNCHANGED lost /\ voltDir' = TRUE
      /\ \/ cli' = cli
         \/ pidFile = 0 /\ \E l \in {"prompt", "relaunch"} : cli' = [cli EXCEPT ![t] = [pc |-> l, pid |-> 0]]
         \/ pidFile # 0 /\ \E l \in {"stop", "signal"} : cli' = [cli EXCEPT ![t] = [pc |-> l, pid |-> pidFile]]
  BY DEF cliStop, cliRestart, ReadPID, CliTo
<1>2. DaemonTypes'
  BY <1>1 DEF server, given, lost, DaemonInv, DaemonTypes
<1>3. pidFile # 0 => pidFile \in Proc /\ boot[pidFile] # "none"
  BY DEF DaemonInv, DaemonTypes, Launched, Proc
<1>4. Launched'
  <2>1. ASSUME NEW u \in Cli
        PROVE  \/ cli'[u] = Prompt \/ cli'[u].pc = "relaunch"
               \/ Waits(u)' /\ cli'[u].pid \in Proc /\ boot'[cli'[u].pid] # "none"
    BY <1>1, <1>3 DEF DaemonInv, DaemonTypes, Launched, Waits, Prompt
  <2> QED BY <1>1, <2>1 DEF DaemonInv, DaemonTypes, Launched
<1>5. bootFaults' = bootFaults /\ (Simple' <=> Simple)
  BY <1>1 DEF given, Simple
<1>6. "early" \notin bootFaults => BootsUnmet'
  <2>1. ASSUME "early" \notin bootFaults, NEW u \in Cli, Waits(u)' PROVE boot'[cli'[u].pid] \notin Booting
    BY <1>1, <1>3, <2>1 DEF DaemonInv, DaemonTypes, BootsUnmet, Waits
  <2> QED BY <1>1, <2>1 DEF server, DaemonInv, BootsUnmet
<1>7. ASSUME Simple PROVE OneDaemon'
  <2>1. \A p \in Proc : Works(p) => boot[p] \in {"serve", "return"} /\ p \notin unnamed
    BY <1>1, <1>7 DEF Simple, Works, Active, Alive, Booting, DaemonInv, DaemonTypes, Unnamed
  <2>2. \A p \in Proc : Works(p) => pidFile = p
    BY <1>7, <2>1 DEF DaemonInv, FilesTellIt
  <2>3. \A u \in Cli : u # t => cli'[u] = Prompt
    BY <1>1, <1>7 DEF Command, Simple, DaemonInv, DaemonTypes
  <2>4. ASSUME NEW p \in Proc, Works(p)
        PROVE  /\ cli'[t].pc # "relaunch"
               /\ Waits(t)' => cli'[t].pid = p
    <3>1. pidFile = p /\ p # 0
      BY <2>2, <2>4 DEF Proc
    <3> QED BY <1>1, <3>1 DEF Command, Prompt, Waits, DaemonInv, DaemonTypes
  <2>5. \A p \in Proc : Works(p)' <=> Works(p)
    BY <1>1 DEF Works, Active, Alive, lost
  <2> QED BY <1>7, <2>3, <2>4, <2>5 DEF OneDaemon, DaemonInv, Waits, Prompt
<1>8. ASSUME Simple PROVE FilesTellIt'
  <2>1. ASSUME NEW p \in Proc, boot[p] = "serve" PROVE voltDir /\ port[p] \in Nat \ {0}
    BY <1>8, <2>1 DEF DaemonInv, FilesTellIt, Booting
  <2>2. ASSUME NEW p \in Proc, boot[p] = "serve", p \notin unnamed \cup unsaved
        PROVE  config' = config /\ config = [token |-> token[p], port |-> port[p]]
    <3>1. voltDir /\ port[p] # 0 /\ config = [token |-> token[p], port |-> port[p]]
      BY <1>8, <2>1, <2>2 DEF DaemonInv, FilesTellIt, Booting
    <3>2. migrateLegacyDir = {config}
      BY <3>1 DEF migrateLegacyDir
    <3>3. config # NoConfig /\ config # Legacy
      BY <3>1 DEF NoConfig, Legacy
    <3>4. LoadOrInitConfig(config) = config
      BY <3>3 DEF LoadOrInitConfig
    <3> QED BY <3>1, <3>2, <3>4 DEF cliStop, cliRestart, ReadPID
  <2>3. \A p \in Proc : boot[p] \notin Booting
    BY <1>1, <1>8 DEF Simple
  <2>4. \A p \in Proc : boot[p] \in {"serve", "return"} /\ p \notin unnamed => pidFile = p
    BY <1>8 DEF DaemonInv, FilesTellIt
  <2>5. UNCHANGED <<boot, port, token, pidFile, unsaved, unnamed>> /\ voltDir'
    BY <1>1 DEF server, lost
  <2> QED BY <2>1, <2>2, <2>3, <2>4, <2>5 DEF FilesTellIt, Booting
<1>9. Unnamed' /\ NeverNamed'
  <2>1. ASSUME NEW p \in Proc, Fresh(p) \/ p \in unnamed, NEW u \in Cli, Waits(u)' PROVE cli'[u].pid # p
    BY <1>1, <2>1 DEF DaemonInv, DaemonTypes, NeverNamed, Waits
  <2> QED BY <1>1, <2>1 DEF server, lost, DaemonInv, Unnamed, NeverNamed, Fresh
<1> QED BY <1>2, <1>4, <1>5, <1>6, <1>7, <1>8, <1>9 DEF DaemonInv

\* A signal never ends a daemon that has booted, so it moves its handler only.
LEMMA SignalKeeps == ASSUME DaemonInv, NEW t \in Cli, StopSignal(t) \/ RestartSignal(t) PROVE DaemonInv'
<1> DEFINE p == cli[t].pid
<1>1. /\ Waits(t) /\ p \in Proc /\ boot[p] # "none" /\ cli[t] # Prompt
      /\ cli' = [cli EXCEPT ![t] = Prompt] \/ cli' = [cli EXCEPT ![t] = [pc |-> "await", pid |-> p]]
      /\ UNCHANGED <<voltDir, config, lost, given, launched, port, token>>
      /\ pidFile' = pidFile \/ (pidFile' = 0 /\ ~Alive(p))
      /\ \/ handler[p] = "off" /\ Vanish(p, "gone")
         \/ handler[p] # "off" /\ HandlerTo(p, "proxy") /\ handler[p] = "wait" /\ UNCHANGED <<boot, http>>
         \/ UNCHANGED <<boot, handler, http>>
  BY DEF StopSignal, RestartSignal, Signal, CliTo, Waits, Prompt, files, server, DaemonInv, Launched
<1> HIDE DEF p
<1>2. DaemonTypes'
  <2>1. pidFile' \in 0 .. MaxProc
    BY <1>1 DEF DaemonInv, DaemonTypes
  <2>2. DOMAIN cli' = Cli
    BY <1>1 DEF DaemonInv, DaemonTypes
  <2> QED BY <1>1, <2>1, <2>2 DEF Vanish, Step, HandlerTo, lost, given, DaemonInv, DaemonTypes
<1>3. \A q \in Proc : boot'[q] = boot[q] \/ (q = p /\ boot'[q] = "gone")
  BY <1>1 DEF Vanish, Step, DaemonInv, DaemonTypes
<1>4. \A u \in Cli : u # t => cli'[u] = cli[u]
  BY <1>1 DEF DaemonInv, DaemonTypes
<1>5. cli'[t] = Prompt \/ (cli'[t] = [pc |-> "await", pid |-> p])
  BY <1>1 DEF DaemonInv, DaemonTypes
<1>6. Launched'
  <2>1. \A q \in Proc : q > launched' => boot'[q] = "none"
    BY <1>1, <1>3 DEF DaemonInv, Launched
  <2>2. (pidFile # 0 => boot[pidFile] # "none")'
    BY <1>1, <1>3 DEF Proc, DaemonInv, DaemonTypes, Launched
  <2>3. \A u \in Cli : \/ cli'[u] = Prompt \/ cli'[u].pc = "relaunch"
                       \/ Waits(u)' /\ cli'[u].pid \in Proc /\ boot'[cli'[u].pid] # "none"
    BY <1>1, <1>3, <1>4, <1>5 DEF Waits, DaemonInv, Launched
  <2> QED BY <2>1, <2>2, <2>3 DEF Launched
<1>7. bootFaults' = bootFaults /\ (Simple' <=> Simple)
  BY <1>1 DEF given, Simple
<1>8. "early" \notin bootFaults => BootsUnmet'
  <2>1. ASSUME "early" \notin bootFaults PROVE boot[p] \notin Booting
    BY <1>1, <2>1 DEF p, DaemonInv, BootsUnmet
  <2>2. "early" \notin bootFaults => \A u \in Cli : Waits(u)' => boot'[cli'[u].pid] \notin Booting
    BY <1>1, <1>3, <1>4, <1>5, <2>1 DEF Waits, Prompt, Booting, DaemonInv, BootsUnmet, Launched
  <2> QED BY <1>1, <2>1, <2>2 DEF Vanish, Step, HandlerTo, Booting, DaemonInv, DaemonTypes, BootsUnmet
<1>9. \A q \in Proc : Works(q)' => Works(q)
  BY <1>1, <1>3 DEF Works, Active, Alive, lost
<1>10. Simple => OneDaemon'
  <2>1. Simple => \A q \in Proc : Works(q) => p = q
    BY <1>1 DEF p, DaemonInv, OneDaemon
  <2>2. Simple => \A u \in Cli : u # t => cli[u] = Prompt
    BY <1>1 DEF DaemonInv, OneDaemon
  <2> QED BY <1>4, <1>5, <1>9, <2>1, <2>2 DEF OneDaemon, Waits, Prompt
<1>11. ASSUME Simple PROVE FilesTellIt'
  <2>1. pidFile' # pidFile => \A q \in Proc : ~Works(q)
    BY <1>1, <1>11 DEF p, Works, Active, DaemonInv, OneDaemon
  <2>2. \A q \in Proc : boot'[q] # "gone" => boot'[q] = boot[q]
    BY <1>3
  <2> QED BY <1>1, <1>9, <1>11, <2>1, <2>2 DEF DaemonInv, FilesTellIt, Works, Active, Alive, Booting, lost
<1>12. Unnamed' /\ NeverNamed'
  <2>1. p \notin unnamed /\ ~Fresh(p)
    BY <1>1 DEF p, DaemonInv, NeverNamed
  <2>2. ASSUME NEW q \in Proc, q # p PROVE boot'[q] = boot[q] /\ handler'[q] = handler[q] /\ http'[q] = http[q]
    BY <1>1, <2>2 DEF Vanish, Step, HandlerTo, DaemonInv, DaemonTypes
  <2>3. Unnamed'
    BY <1>1, <2>1, <2>2 DEF lost, DaemonInv, Unnamed
  <2>4. boot'[p] = boot[p] \/ boot'[p] = "gone"
    BY <1>1, <1>3
  <2>5. boot'[p] \notin {"none", "dirs", "load", "probe", "pid"}
    BY <2>1, <2>4 DEF Fresh
  <2>6. ASSUME NEW q \in Proc, Fresh(q)' \/ q \in unnamed PROVE pidFile' # q /\ q # p /\ (Fresh(q)' => Fresh(q))
    BY <1>1, <2>1, <2>2, <2>5, <2>6 DEF Fresh, Proc, DaemonInv, NeverNamed
  <2>7. ASSUME NEW q \in Proc, Fresh(q)' \/ q \in unnamed, NEW u \in Cli, Waits(u)' PROVE cli'[u].pid # q
    BY <1>1, <1>4, <1>5, <2>6, <2>7 DEF Waits, Prompt, DaemonInv, NeverNamed
  <2> QED BY <1>1, <2>2, <2>3, <2>6, <2>7 DEF lost, DaemonInv, NeverNamed
<1> QED BY <1>2, <1>6, <1>7, <1>8, <1>10, <1>11, <1>12 DEF DaemonInv

\* A restart that does not give up waiting finds the daemon gone, or past its files.
LEMMA AwaitKeeps == ASSUME DaemonInv, NEW t \in Cli, AwaitStopped(t) PROVE DaemonInv'
<1>1. /\ Waits(t) /\ cli[t] # Prompt /\ cli' = [cli EXCEPT ![t] = [pc |-> "relaunch", pid |-> 0]]
      /\ UNCHANGED <<boot, handler, server, files, given, launched>>
  BY DEF AwaitStopped, CliTo, Waits, Prompt
<1>2. DaemonTypes' /\ Launched'
  BY <1>1 DEF server, files, lost, given, Waits, DaemonInv, DaemonTypes, Launched
<1>3. "early" \notin bootFaults => BootsUnmet'
  BY <1>1 DEF server, Waits, DaemonInv, DaemonTypes, BootsUnmet
<1>4. ASSUME Simple PROVE OneDaemon'
  <2>1. \A p \in Proc : ~Works(p)
    <3> SUFFICES ASSUME NEW p \in Proc, Works(p) PROVE FALSE
      OBVIOUS
    <3>1. cli[t].pid = p /\ Alive(p) /\ p \notin unnamed
      BY <1>1, <1>4 DEF DaemonInv, OneDaemon, NeverNamed, Works, Active
    <3>2. pidFile = 0
      BY <1>4, <3>1 DEF AwaitStopped, Simple
    <3>3. boot[p] \in {"dirs", "load", "probe", "pid"}
      BY <1>4, <3>1, <3>2 DEF Proc, Works, Active, Alive, Booting, DaemonInv, DaemonTypes, FilesTellIt
    <3> QED BY <1>1, <1>4, <3>1, <3>3 DEF Simple, Booting, DaemonInv, BootsUnmet
  <2>2. \A u \in Cli : u # t => cli'[u] = Prompt
    BY <1>1, <1>4 DEF DaemonInv, DaemonTypes, OneDaemon
  <2>3. \A p \in Proc : ~Works(p)'
    BY <1>1, <2>1 DEF Works, Active, Alive, files, lost
  <2> QED BY <2>2, <2>3 DEF OneDaemon
<1>5. Simple => FilesTellIt'
  BY <1>1 DEF server, files, lost, DaemonInv, FilesTellIt
<1>6. bootFaults' = bootFaults /\ (Simple' <=> Simple)
  BY <1>1 DEF given, Simple
<1>7. Unnamed' /\ NeverNamed'
  BY <1>1 DEF server, files, lost, DaemonInv, DaemonTypes, Unnamed, NeverNamed, Fresh, Waits
<1> QED BY <1>2, <1>3, <1>4, <1>5, <1>6, <1>7 DEF DaemonInv

LEMMA NextDaemon == DaemonInv /\ [DaemonNext]_daemonVars => DaemonInv'
<1> SUFFICES ASSUME DaemonInv, [DaemonNext]_daemonVars PROVE DaemonInv'
  OBVIOUS
<1>1. CASE UNCHANGED daemonVars
  BY <1>1 DEF daemonVars, server, files, lost, given, DaemonInv, DaemonTypes, Launched, BootsUnmet, OneDaemon,
              FilesTellIt, Unnamed, NeverNamed, Fresh, Simple, Works, Active, Alive, Waits
<1>2. ASSUME NEW p \in Proc,
             \/ EnsureDirs(p) \/ LoadConfig(p) \/ Probe(p) \/ writePIDFile(p) \/ New(p)
             \/ StartAutostartServices(p) \/ Notify(p) \/ Run(p) \/ ListenAndServe(p)
             \/ Request(p) \/ Respond(p) \/ RunReturns(p) \/ removePIDFile(p) \/ MainExits(p)
             \/ ShutdownProxy(p) \/ ShutdownHTTP(p) \/ Drained(p) \/ Close(p) \/ Kill(p)
      PROVE  DaemonInv'
  <2>1. CASE EnsureDirs(p)
    <3>1. CASE Fatal(p)
      BY <2>1, <3>1, LoadConfigKeeps
    <3>2. CASE ~Fatal(p)
      BY <2>1, <3>2, FilesKeep
    <3> QED BY <3>1, <3>2
  <2>2. CASE Probe(p) \/ writePIDFile(p) \/ removePIDFile(p)
    BY <2>2, FilesKeep
  <2> QED BY <1>2, <2>1, <2>2, MainKeeps, LoadConfigKeeps, ListenKeeps, EndKeeps, QuietKeeps
<1>3. ASSUME NEW t \in Cli,
             \/ start(t) \/ cliStop(t) \/ cliRestart(t)
             \/ StopSignal(t) \/ RestartSignal(t) \/ AwaitStopped(t) \/ Relaunch(t)
      PROVE  DaemonInv'
  BY <1>3, LaunchKeeps, ReadPIDKeeps, SignalKeeps, AwaitKeeps
<1> QED BY <1>1, <1>2, <1>3 DEF DaemonNext

\* However often it was stopped, restarted, killed or failed to boot: a stop signal
\* reaches the daemon that serves, and daemon.pid and config.json name it unless its
\* own writePIDFile or SaveConfig failed.
THEOREM DaemonIsReachableTheorem == DaemonSpec => []DaemonIsReachable
<1>1. DaemonInv => DaemonIsReachable
  BY DEF DaemonInv, DaemonTypes, BootsUnmet, FilesTellIt, Simple, Booting, DaemonIsReachable
<1> QED BY <1>1, InitDaemon, NextDaemon, PTL DEF DaemonSpec
HIDE ProcAssumption

-----------------------------------------------------------------------------
(* RuntimeVersions                                                           *)

\* Who is at work on a version: in these steps v is a version, in the others it may be none.
AtWork == {"clear", "extract", "replace", "rename", "remove", "undefault", "write", "mark"}

Loc == [pc : {"idle", "list", "active", "persist"} \cup AtWork, v : Version \cup {NoVersion}, todo : SUBSET Files,
        managed : SUBSET Name, def : Version \cup {NoVersion}, active : Version \cup {NoVersion}]

Rows == [status : {"none", "installed", "missing"}, isDefault : BOOLEAN]

RtTypes ==
  /\ dir \in [Version -> SUBSET Files] /\ staging \in [Version -> SUBSET Files]
  /\ def \in Version \cup {NoVersion}
  /\ rtRows \in [Name -> Rows] /\ refused \in BOOLEAN /\ rtFaults \in RtFaultSets /\ rtLoc \in [Worker -> Loc]
  /\ \A w \in Worker : rtLoc[w].pc \in AtWork => rtLoc[w].v \in Version

\* Nobody but the one who is at work on a version changes it, and nothing fails on it.
Calm == rtFaults \cap {"sameVersion", "crash", "fs"} = {}

OneAtWork ==
  \A w, x \in Worker : rtLoc[w].v = rtLoc[x].v /\ rtLoc[w].v # NoVersion /\ ~RtAt(w, "idle")
    /\ ~RtAt(x, "idle") => w = x

\* A version as the step of w expects it.
AsExpected(w) ==
  LET l == rtLoc[w] IN
  l.v \in Version =>
    /\ dir[l.v] \in IF l.pc = "rename" THEN {{}} ELSE {{}, Files}
    /\ staging[l.v] = CASE l.pc = "extract" -> Files \ l.todo
                        [] l.pc \in {"replace", "rename"} -> Files
                        [] OTHER -> {}
    /\ l.pc = "extract" => l.todo # {}

VersionsInv ==
  /\ OneAtWork
  /\ \A w \in Worker : ~RtAt(w, "idle") => AsExpected(w)
  /\ \A v \in Version : ~Changing(v) => dir[v] \in {{}, Files} /\ staging[v] = {}

\* What the rows must say of status and mark, staging directories left out.
Listed(n)    == n[2] = "" /\ "bin" \in dir[n[1]]
IsActive(n)  == ActiveVersion # NoVersion /\ n = Named(ActiveVersion)
IsPath(n)    == PathVersion # NoVersion /\ n = Named(PathVersion)
StatusTells ==
  \A n \in Name : /\ Listed(n) \/ IsActive(n) => rtRows[n].status = "installed"
                  /\ rtRows[n].status = "installed" => Listed(n) \/ IsPath(n)
MarkTells ==
  ~refused => \A n \in Name : rtRows[n].status = "installed" => (rtRows[n].isDefault <=> IsActive(n))

\* One request at a time, and nothing fails: what the rows tell while it is at work.
RowsInv ==
  /\ \A w, x \in Worker : ~RtAt(w, "idle") /\ ~RtAt(x, "idle") => w = x
  /\ (\A w \in Worker : rtLoc[w].pc \in {"idle", "clear", "extract", "replace", "remove", "write", "mark"}) =>
       StatusTells
  /\ (\A w \in Worker : rtLoc[w].pc \in {"idle", "clear", "extract", "replace", "remove", "write"}) => MarkTells
  /\ \A w \in Worker :
       LET l == rtLoc[w] IN
       /\ l.pc = "write" => "bin" \in dir[l.v]
       /\ l.pc = "mark" => "bin" \in dir[l.v] /\ def = l.v
       /\ l.pc \in {"active", "persist"} => l.managed = ManagedVersions /\ l.def = def
       /\ l.pc = "persist" => l.active = ActiveVersion

RtInv ==
  /\ RtTypes
  /\ Calm => VersionsInv
  /\ rtFaults = {} => RowsInv

USE VersionAssumption
USE DEF table

LEMMA Idle == RtIdle \in Loc /\ RtIdle.pc = "idle" /\ RtIdle.v = NoVersion
BY DEF RtIdle, Loc, Files, Name

LEMMA InitRt == RtInit => RtInv
<1> SUFFICES ASSUME RtInit PROVE RtInv
  OBVIOUS
<1>1. RtTypes
  BY Idle DEF RtInit, RtTypes, Rows, AtWork
<1>2. VersionsInv
  BY DEF RtInit, VersionsInv, OneAtWork, RtAt, RtIdle
<1>3. \A n \in Name : ~Listed(n) /\ (IsActive(n) <=> IsPath(n))
  BY DEF RtInit, Listed, IsActive, IsPath, ActiveVersion, Name
<1>4. StatusTells /\ MarkTells
  BY <1>3 DEF RtInit, StatusTells, MarkTells, IsPath
<1>5. RowsInv
  BY <1>4 DEF RtInit, RowsInv, RtIdle, RtAt
<1> QED BY <1>1, <1>2, <1>5 DEF RtInv

\* The steps one goroutine takes on its own.
Begins(w) == \/ detectRuntimeKind(w)
             \/ \E v \in Version : installRuntimeVersion(w, v) \/ removeRuntimeVersion(w, v)
                                    \/ setDefaultRuntimeVersion(w, v)
Detects(w)  == ListManaged(w) \/ ReadActive(w) \/ Persist(w)
Installs(w) == ClearStaging(w) \/ Extract(w) \/ ReplaceOld(w) \/ Rename(w)
Sets(w)     == RemoveDir(w) \/ Undefault(w) \/ WriteDefault(w) \/ SetDefaultVersion(w)

\* The local variables of w change, and nobody else's: it goes to l, still about the same version.
Others(w)    == rtLoc' \in [Worker -> Loc] /\ \A x \in Worker : x # w => rtLoc'[x] = rtLoc[x]
Continues(w, l) == Others(w) /\ rtLoc'[w].pc = l /\ rtLoc'[w].v = rtLoc[w].v
Ends(w)      == Others(w) /\ rtLoc'[w] = RtIdle

Pcs == {"list", "active", "persist"} \cup AtWork

LEMMA LocWith ==
  /\ \A r \in Loc, l \in Pcs : [r EXCEPT !.pc = l] \in Loc
  /\ \A r \in Loc, l \in Pcs, d \in Version \cup {NoVersion} :
       [r EXCEPT !.pc = l, !.v = d] \in Loc /\ [r EXCEPT !.pc = l, !.active = d] \in Loc
  /\ \A r \in Loc, l \in Pcs, M \in SUBSET Name, d \in Version \cup {NoVersion} :
       [r EXCEPT !.pc = l, !.managed = M, !.def = d] \in Loc
  /\ \A r \in Loc, l \in Pcs, T \in SUBSET Files :
       [r EXCEPT !.pc = l, !.todo = T] \in Loc /\ [r EXCEPT !.todo = T, !.pc = l] \in Loc
<1>1. ASSUME NEW r \in Loc, NEW l \in Pcs PROVE [r EXCEPT !.pc = l] \in Loc
  BY DEF Loc, Pcs
<1>2. ASSUME NEW r \in Loc, NEW M \in SUBSET Name, NEW T \in SUBSET Files, NEW d \in Version \cup {NoVersion}
      PROVE  /\ [r EXCEPT !.v = d] \in Loc /\ [r EXCEPT !.active = d] \in Loc
             /\ [r EXCEPT !.managed = M] \in Loc /\ [r EXCEPT !.def = d] \in Loc /\ [r EXCEPT !.todo = T] \in Loc
  BY DEF Loc
<1> QED BY <1>1, <1>2

LEMMA LocFields ==
  /\ \A r \in Loc : \A l : LET q == [r EXCEPT !.pc = l] IN q.pc = l /\ q.v = r.v
  /\ \A r \in Loc : \A l, d : LET q == [r EXCEPT !.pc = l, !.v = d] IN q.pc = l /\ q.v = d
  /\ \A r \in Loc : \A l, M, d : LET q == [r EXCEPT !.pc = l, !.managed = M, !.def = d] IN
       q.pc = l /\ q.v = r.v /\ q.managed = M /\ q.def = d
  /\ \A r \in Loc : \A l, d : LET q == [r EXCEPT !.pc = l, !.active = d] IN
       q.pc = l /\ q.v = r.v /\ q.managed = r.managed /\ q.def = r.def /\ q.active = d
  /\ \A r \in Loc : \A l, T : LET q == [r EXCEPT !.pc = l, !.todo = T] IN q.pc = l /\ q.v = r.v /\ q.todo = T
  /\ \A r \in Loc : \A l, T : LET q == [r EXCEPT !.todo = T, !.pc = l] IN q.pc = l /\ q.v = r.v /\ q.todo = T
BY DEF Loc

LEMMA OneMoves ==
  ASSUME RtTypes, NEW w \in Worker, NEW r \in Loc, rtLoc' = [rtLoc EXCEPT ![w] = r]
  PROVE  Others(w) /\ rtLoc'[w] = r
BY DEF Others, RtTypes

LEMMA DoneMoves == ASSUME RtTypes, NEW w \in Worker, RtDone(w) PROVE Ends(w)
BY Idle, OneMoves DEF RtDone, Ends

LEMMA GotoMoves ==
  ASSUME RtTypes, NEW w \in Worker, NEW l \in Pcs, RtGoto(w, l)
  PROVE  Continues(w, l)
<1>1. rtLoc[w] \in Loc
  BY DEF RtTypes
<1>2. [rtLoc[w] EXCEPT !.pc = l] \in Loc
  BY <1>1, LocWith
<1>3. rtLoc' = [rtLoc EXCEPT ![w] = [rtLoc[w] EXCEPT !.pc = l]]
  BY DEF RtGoto
<1>4. Others(w) /\ rtLoc'[w] = [rtLoc[w] EXCEPT !.pc = l]
  BY <1>2, <1>3, OneMoves
<1> QED BY <1>1, <1>4, LocFields DEF Continues

\* A request begins when no other does, or when it may overlap with them.
LEMMA BeginMoves ==
  ASSUME RtTypes, NEW w \in Worker, Begins(w)
  PROVE  /\ \E l \in {"list", "clear", "remove", "write"}, v \in Version \cup {NoVersion} :
              /\ Others(w) /\ rtLoc'[w].pc = l /\ rtLoc'[w].v = v /\ RtArrive(w, l, v)
              /\ l # "list" => v \in Version
              /\ l = "write" => "bin" \in dir[v]
         /\ UNCHANGED <<disk, table, rtFaults>>
<1>1. PICK l \in {"list", "clear", "remove", "write"}, v \in Version \cup {NoVersion} :
        RtArrive(w, l, v) /\ (l # "list" => v \in Version) /\ (l = "write" => "bin" \in dir[v])
  BY DEF Begins, detectRuntimeKind, installRuntimeVersion, removeRuntimeVersion, setDefaultRuntimeVersion
<1>2. [RtIdle EXCEPT !.pc = l, !.v = v] \in Loc
  BY Idle DEF Loc, AtWork
<1>3. [RtIdle EXCEPT !.pc = l, !.v = v].pc = l /\ [RtIdle EXCEPT !.pc = l, !.v = v].v = v
  BY Idle, LocFields
<1>4. UNCHANGED <<disk, table, rtFaults>>
  BY DEF Begins, detectRuntimeKind, installRuntimeVersion, removeRuntimeVersion, setDefaultRuntimeVersion
<1>5. rtLoc' = [rtLoc EXCEPT ![w] = [RtIdle EXCEPT !.pc = l, !.v = v]]
  BY <1>1 DEF RtArrive
<1>6. Others(w) /\ rtLoc'[w] = [RtIdle EXCEPT !.pc = l, !.v = v]
  BY <1>2, <1>5, OneMoves
<1> QED BY <1>1, <1>3, <1>4, <1>6

LEMMA LocalMoves ==
  ASSUME RtTypes, NEW w \in Worker
  PROVE  /\ ListManaged(w) => Continues(w, "active") /\ rtLoc'[w].managed = ManagedVersions /\ rtLoc'[w].def = def
         /\ ReadActive(w)  => /\ Continues(w, "persist") /\ rtLoc'[w].active = ActiveVersion
                              /\ rtLoc'[w].managed = rtLoc[w].managed /\ rtLoc'[w].def = rtLoc[w].def
         /\ ClearStaging(w) => Continues(w, "extract") /\ rtLoc'[w].todo = Files
<1>1. /\ ManagedVersions \in SUBSET Name /\ ActiveVersion \in Version \cup {NoVersion}
      /\ def \in Version \cup {NoVersion} /\ rtLoc[w] \in Loc
  BY DEF ManagedVersions, ActiveVersion, RtTypes
<1> HIDE DEF ManagedVersions, ActiveVersion
<1>2. /\ [rtLoc[w] EXCEPT !.pc = "active", !.managed = ManagedVersions, !.def = def] \in Loc
      /\ [rtLoc[w] EXCEPT !.pc = "persist", !.active = ActiveVersion] \in Loc
      /\ [rtLoc[w] EXCEPT !.pc = "extract", !.todo = Files] \in Loc
  BY <1>1, LocWith DEF AtWork, Pcs
<1>3. ASSUME ListManaged(w)
      PROVE  Continues(w, "active") /\ rtLoc'[w].managed = ManagedVersions /\ rtLoc'[w].def = def
  <2> DEFINE r == [rtLoc[w] EXCEPT !.pc = "active", !.managed = ManagedVersions, !.def = def]
  <2>1. rtLoc' = [rtLoc EXCEPT ![w] = r]
    BY <1>3 DEF ListManaged, RtTypes
  <2>2. Others(w) /\ rtLoc'[w] = r
    BY <1>2, <2>1, OneMoves
  <2> QED BY <1>1, <2>2, LocFields DEF Continues
<1>4. ASSUME ReadActive(w)
      PROVE  /\ Continues(w, "persist") /\ rtLoc'[w].active = ActiveVersion
             /\ rtLoc'[w].managed = rtLoc[w].managed /\ rtLoc'[w].def = rtLoc[w].def
  <2> DEFINE r == [rtLoc[w] EXCEPT !.pc = "persist", !.active = ActiveVersion]
  <2>1. rtLoc' = [rtLoc EXCEPT ![w] = r]
    BY <1>4 DEF ReadActive, RtTypes
  <2>2. Others(w) /\ rtLoc'[w] = r
    BY <1>2, <2>1, OneMoves
  <2> QED BY <1>1, <2>2, LocFields DEF Continues
<1>5. ASSUME ClearStaging(w) PROVE Continues(w, "extract") /\ rtLoc'[w].todo = Files
  <2> DEFINE r == [rtLoc[w] EXCEPT !.pc = "extract", !.todo = Files]
  <2>1. rtLoc' = [rtLoc EXCEPT ![w] = r]
    BY <1>5 DEF ClearStaging, RtTypes
  <2>2. Others(w) /\ rtLoc'[w] = r
    BY <1>2, <2>1, OneMoves
  <2> QED BY <1>1, <2>2, LocFields DEF Continues
<1> QED BY <1>3, <1>4, <1>5

\* A file of the archive is there, or the extraction has failed.
LEMMA ExtractMoves ==
  ASSUME RtTypes, NEW w \in Worker, Extract(w)
  PROVE  \/ Ends(w) /\ staging' = [staging EXCEPT ![rtLoc[w].v] = {}]
         \/ \E f \in rtLoc[w].todo :
              /\ staging' = [staging EXCEPT ![rtLoc[w].v] = @ \cup {f}]
              /\ Continues(w, IF rtLoc[w].todo = {f} THEN "replace" ELSE "extract")
              /\ rtLoc'[w].todo = rtLoc[w].todo \ {f}
<1>1. CASE RtDone(w) /\ staging' = [staging EXCEPT ![rtLoc[w].v] = {}]
  BY <1>1, DoneMoves
<1>2. ASSUME NEW f \in rtLoc[w].todo,
             rtLoc' = [rtLoc EXCEPT ![w].todo = @ \ {f},
                 ![w].pc = IF rtLoc[w].todo = {f} THEN "replace" ELSE "extract"]
      PROVE  /\ Continues(w, IF rtLoc[w].todo = {f} THEN "replace" ELSE "extract")
             /\ rtLoc'[w].todo = rtLoc[w].todo \ {f}
  <2> DEFINE l == IF rtLoc[w].todo = {f} THEN "replace" ELSE "extract"
             T == rtLoc[w].todo \ {f}
  <2>1. rtLoc[w] \in Loc /\ T \in SUBSET Files /\ l \in Pcs
    BY DEF Loc, RtTypes, AtWork, Pcs
  <2>2. rtLoc' = [rtLoc EXCEPT ![w] = [rtLoc[w] EXCEPT !.todo = T, !.pc = l]]
    BY <1>2 DEF RtTypes
  <2> HIDE DEF l, T
  <2>3. [rtLoc[w] EXCEPT !.todo = T, !.pc = l] \in Loc
    BY <2>1, LocWith
  <2>4. Others(w) /\ rtLoc'[w] = [rtLoc[w] EXCEPT !.todo = T, !.pc = l]
    BY <2>2, <2>3, OneMoves
  <2>5. Continues(w, l) /\ rtLoc'[w].todo = T
    BY <2>1, <2>4, LocFields DEF Continues
  <2> QED BY <2>5 DEF l, T
<1> QED BY <1>1, <1>2 DEF Extract

LEMMA RowTypes ==
  ASSUME RtTypes
  PROVE  /\ \A found : (\A n \in DOMAIN found : found[n] \in BOOLEAN) => ReplaceDetected(found) \in [Name -> Rows]
         /\ \A v : [n \in Name |-> [rtRows[n] EXCEPT !.isDefault = (n = v)]] \in [Name -> Rows]
<1>1. ASSUME NEW r \in Rows, NEW b \in BOOLEAN
      PROVE  /\ [r EXCEPT !.isDefault = b] \in Rows /\ [status |-> "installed", isDefault |-> b] \in Rows
             /\ [r EXCEPT !.status = IF @ = "none" THEN "none" ELSE "missing"] \in Rows
  BY DEF Rows
<1> QED BY <1>1 DEF ReplaceDetected, RtTypes

LEMMA NextTypes ==
  ASSUME RtTypes, NEW w \in Worker, Begins(w) \/ Detects(w) \/ Installs(w) \/ Sets(w)
  PROVE  RtTypes'
<1> SUFFICES /\ Others(w) /\ (rtLoc'[w].pc \in AtWork => rtLoc'[w].v \in Version)
             /\ dir' \in [Version -> SUBSET Files] /\ staging' \in [Version -> SUBSET Files]
             /\ def' \in Version \cup {NoVersion} /\ rtRows' \in [Name -> Rows] /\ refused' \in BOOLEAN /\ rtFaults' = rtFaults
  BY DEF RtTypes, Others
<1>1. CASE Begins(w)
  BY <1>1, BeginMoves DEF disk, RtTypes, AtWork
<1>2. CASE Detects(w)
  <2>1. Others(w) /\ rtLoc'[w].pc \notin AtWork
    BY <1>2, LocalMoves, DoneMoves, Idle DEF Detects, Persist, Continues, Ends, AtWork, Pcs
  <2>2. UNCHANGED <<disk, rtFaults>> /\ rtRows' \in [Name -> Rows] /\ refused' \in BOOLEAN
    <3>1. ReplaceDetected(Detected(rtLoc[w].managed, rtLoc[w].def, rtLoc[w].active)) \in [Name -> Rows]
      BY RowTypes DEF Detected
    <3> QED BY <1>2, <3>1 DEF Detects, ListManaged, ReadActive, Persist, RtTypes
  <2> QED BY <2>1, <2>2 DEF disk, RtTypes
<1>3. CASE Installs(w)
  <2>1. rtLoc[w].v \in Version /\ UNCHANGED <<def, table, rtFaults>>
    BY <1>3 DEF Installs, ClearStaging, Extract, ReplaceOld, Rename, RtAt, RtTypes, AtWork
  <2>2. Others(w) /\ (rtLoc'[w].pc \in AtWork => rtLoc'[w].v \in Version)
    <3>1. CASE Extract(w)
      BY <2>1, <3>1, ExtractMoves, Idle DEF Continues, Ends, AtWork, Pcs
    <3>2. CASE ClearStaging(w) \/ ReplaceOld(w) \/ Rename(w)
      BY <2>1, <3>2, LocalMoves, GotoMoves, DoneMoves, Idle DEF ReplaceOld, Rename, Continues, Ends, AtWork, Pcs
    <3> QED BY <1>3, <3>1, <3>2 DEF Installs
  <2>3. dir' \in [Version -> SUBSET Files] /\ staging' \in [Version -> SUBSET Files]
    <3>1. CASE Extract(w)
      <4>1. rtLoc[w].todo \in SUBSET Files /\ dir' = dir
        BY <3>1 DEF Extract, RtTypes, Loc
      <4> QED BY <2>1, <3>1, <4>1, ExtractMoves DEF RtTypes
    <3>2. CASE ClearStaging(w) \/ ReplaceOld(w) \/ Rename(w)
      BY <2>1, <3>2 DEF ClearStaging, ReplaceOld, Rename, RtTypes
    <3> QED BY <1>3, <3>1, <3>2 DEF Installs
  <2> QED BY <2>1, <2>2, <2>3 DEF RtTypes
<1>4. CASE Sets(w)
  <2>1. rtLoc[w].v \in Version /\ UNCHANGED <<staging, rtFaults>>
    BY <1>4 DEF Sets, RemoveDir, Undefault, WriteDefault, SetDefaultVersion, RtAt, RtTypes, AtWork, disk
  <2>2. Others(w) /\ (rtLoc'[w].pc \in AtWork => rtLoc'[w].v \in Version)
    BY <1>4, <2>1, GotoMoves, DoneMoves, Idle
       DEF Sets, RemoveDir, Undefault, WriteDefault, SetDefaultVersion, Continues, Ends, AtWork, Pcs
  <2>3. dir' \in [Version -> SUBSET Files] /\ def' \in Version \cup {NoVersion}
    BY <1>4, <2>1 DEF Sets, RemoveDir, Undefault, WriteDefault, SetDefaultVersion, disk, RtTypes
  <2>4. rtRows' \in [Name -> Rows] /\ refused' \in BOOLEAN
    <3>1. \/ rtRows' = rtRows
          \/ rtRows' = [n \in Name |-> [rtRows[n] EXCEPT !.isDefault = (n = Named(rtLoc[w].v))]]
      BY <1>4 DEF Sets, RemoveDir, Undefault, WriteDefault, SetDefaultVersion
    <3>2. [n \in Name |-> [rtRows[n] EXCEPT !.isDefault = (n = Named(rtLoc[w].v))]] \in [Name -> Rows]
      BY RowTypes
    <3>3. refused' \in BOOLEAN
      BY <1>4 DEF Sets, RemoveDir, Undefault, WriteDefault, SetDefaultVersion, RtTypes
    <3> QED BY <3>1, <3>2, <3>3 DEF RtTypes
  <2> QED BY <2>1, <2>2, <2>3, <2>4 DEF RtTypes
<1> QED BY <1>1, <1>2, <1>3, <1>4

\* A goroutine at work changes its own version and nothing of the others'.
Aside(w) ==
  /\ Others(w) /\ ~RtAt(w, "idle") /\ rtFaults' = rtFaults
  /\ \A v \in Version : v # rtLoc[w].v => dir'[v] = dir[v] /\ staging'[v] = staging[v]

LEMMA AsideKeeps ==
  ASSUME RtInv, RtTypes', Calm, NEW w \in Worker, Aside(w),
         \/ /\ rtLoc'[w] = RtIdle
            /\ rtLoc[w].v \in Version => dir'[rtLoc[w].v] \in {{}, Files} /\ staging'[rtLoc[w].v] = {}
         \/ rtLoc'[w].v = rtLoc[w].v /\ AsExpected(w)' /\ ~RtAt(w, "idle")'
  PROVE  VersionsInv'
<1>1. OneAtWork'
  BY Idle DEF RtInv, VersionsInv, OneAtWork, RtAt, Aside, Others
<1>2. ASSUME NEW x \in Worker, ~RtAt(x, "idle")' PROVE AsExpected(x)'
  <2>1. CASE x # w
    <3>1. rtLoc'[x] = rtLoc[x] /\ ~RtAt(x, "idle") /\ AsExpected(x)
      BY <1>2, <2>1 DEF Aside, Others, RtAt, RtInv, VersionsInv
    <3>2. rtLoc[x].v \in Version => rtLoc[x].v # rtLoc[w].v
      BY <2>1, <3>1, VersionAssumption DEF RtInv, VersionsInv, OneAtWork, Aside
    <3> QED BY <3>1, <3>2 DEF AsExpected, Aside
  <2>2. CASE x = w
    BY <1>2, <2>2, Idle DEF RtAt
  <2> QED BY <2>1, <2>2
<1>3. ASSUME NEW v \in Version, ~Changing(v)' PROVE dir'[v] \in {{}, Files} /\ staging'[v] = {}
  <2>1. CASE v = rtLoc[w].v
    <3>1. rtLoc'[w] = RtIdle
      BY <1>3, <2>1 DEF Changing
    <3> QED BY <2>1, <3>1, Idle, VersionAssumption
  <2>2. CASE v # rtLoc[w].v
    <3>1. ~Changing(v)
      BY <1>3, <2>2 DEF Changing, Aside, Others, RtAt
    <3> QED BY <2>2, <3>1 DEF Aside, RtInv, VersionsInv
  <2> QED BY <2>1, <2>2
<1> QED BY <1>1, <1>2, <1>3 DEF VersionsInv

LEMMA BeginVersions == ASSUME RtInv, Calm, NEW w \in Worker, Begins(w) PROVE VersionsInv'
<1>1. PICK v \in Version \cup {NoVersion}, l \in {"list", "clear", "remove", "write"} :
        Others(w) /\ rtLoc'[w].pc = l /\ rtLoc'[w].v = v /\ RtArrive(w, l, v)
  BY BeginMoves DEF RtInv
<1>2. UNCHANGED <<dir, staging, rtFaults>>
  BY BeginMoves DEF RtInv, disk
<1>3. /\ RtAt(w, "idle") /\ (v = NoVersion \/ ~Changing(v))
      /\ \A x \in Worker : x # w => rtLoc'[x] = rtLoc[x]
  BY <1>1 DEF RtArrive, Calm, Others
<1>4. OneAtWork'
  BY <1>1, <1>3 DEF RtInv, VersionsInv, OneAtWork, RtAt, Changing
<1>5. AsExpected(w)'
  BY <1>1, <1>2, <1>3, VersionAssumption DEF AsExpected, RtInv, VersionsInv
<1>6. ASSUME NEW x \in Worker, ~RtAt(x, "idle")' PROVE AsExpected(x)'
  <2>1. CASE x # w
    <3>1. rtLoc'[x] = rtLoc[x] /\ AsExpected(x)
      BY <1>3, <1>6, <2>1 DEF RtAt, RtInv, VersionsInv
    <3> QED BY <1>2, <3>1 DEF AsExpected
  <2> QED BY <1>5, <2>1
<1>7. \A u \in Version : ~Changing(u)' => ~Changing(u)
  BY <1>3 DEF Changing, RtAt
<1> QED BY <1>2, <1>4, <1>6, <1>7 DEF RtInv, VersionsInv

LEMMA DetectVersions == ASSUME RtInv, RtTypes', Calm, NEW w \in Worker, Detects(w) PROVE VersionsInv'
<1>1. UNCHANGED <<dir, staging, rtFaults>> /\ rtLoc[w].pc \in {"list", "active", "persist"}
  BY DEF Detects, ListManaged, ReadActive, Persist, RtAt, disk
<1>2. Ends(w) \/ Continues(w, "active") \/ Continues(w, "persist")
  BY LocalMoves, DoneMoves DEF Detects, Persist, RtInv
<1>3. Aside(w) /\ AsExpected(w)
  BY <1>1, <1>2 DEF Aside, Continues, Ends, RtAt, RtInv, VersionsInv
<1> QED BY <1>1, <1>2, <1>3, AsideKeeps DEF AsExpected, Continues, Ends, RtAt

LEMMA InstallVersions == ASSUME RtInv, RtTypes', Calm, NEW w \in Worker, Installs(w) PROVE VersionsInv'
<1>1. /\ rtLoc[w].v \in Version /\ rtFaults' = rtFaults
        /\ rtLoc[w].pc \in {"clear", "extract", "replace", "rename"}
      /\ RtTypes /\ dir \in [Version -> SUBSET Files] /\ staging \in [Version -> SUBSET Files]
  BY DEF Installs, ClearStaging, Extract, ReplaceOld, Rename, RtAt, AtWork, RtInv, RtTypes
<1>2. AsExpected(w)
  BY <1>1 DEF RtInv, VersionsInv, RtAt
<1>3. CASE ClearStaging(w)
  <2>1. Continues(w, "extract") /\ rtLoc'[w].todo = Files
    BY <1>1, <1>3, LocalMoves
  <2>2. /\ Aside(w) /\ dir' = dir /\ staging'[rtLoc[w].v] = {} /\ rtLoc[w].pc = "clear"
    BY <1>1, <1>3, <2>1 DEF ClearStaging, Aside, Continues, RtAt
  <2>3. AsExpected(w)' /\ ~RtAt(w, "idle")'
    BY <1>1, <1>2, <2>1, <2>2 DEF AsExpected, Continues, RtAt, Files
  <2> QED BY <2>1, <2>2, <2>3, AsideKeeps DEF Continues
<1>4. CASE Extract(w)
  <2>1. dir' = dir /\ rtLoc[w].pc = "extract" /\ rtLoc[w].todo \in SUBSET Files
    BY <1>1, <1>4 DEF Extract, RtAt, RtTypes, Loc
  <2>2. CASE Ends(w) /\ staging' = [staging EXCEPT ![rtLoc[w].v] = {}]
    <3>1. Aside(w)
      BY <1>1, <2>1, <2>2 DEF Aside, Ends, RtAt
    <3> QED BY <1>1, <1>2, <2>1, <2>2, <3>1, AsideKeeps DEF AsExpected, Ends
  <2>3. ASSUME NEW f \in rtLoc[w].todo,
               staging' = [staging EXCEPT ![rtLoc[w].v] = @ \cup {f}],
               Continues(w, IF rtLoc[w].todo = {f} THEN "replace" ELSE "extract"),
               rtLoc'[w].todo = rtLoc[w].todo \ {f}
        PROVE  VersionsInv'
    <3>1. Aside(w)
      BY <1>1, <2>1, <2>3 DEF Aside, Continues, RtAt
    <3>2. staging'[rtLoc[w].v] = (Files \ rtLoc[w].todo) \cup {f}
      BY <1>1, <1>2, <2>1, <2>3 DEF AsExpected
    <3>3. staging'[rtLoc[w].v] = Files \ rtLoc'[w].todo
      BY <2>1, <2>3, <3>2
    <3>4. rtLoc[w].todo = {f} => rtLoc'[w].todo = {}
      BY <2>3
    <3>5. AsExpected(w)' /\ ~RtAt(w, "idle")'
      <4>1. /\ rtLoc'[w].pc = IF rtLoc[w].todo = {f} THEN "replace" ELSE "extract"
            /\ rtLoc'[w].v = rtLoc[w].v /\ dir'[rtLoc[w].v] \in {{}, Files}
        BY <1>1, <1>2, <2>1, <2>3 DEF AsExpected, Continues
      <4>2. rtLoc[w].todo # {f} => rtLoc'[w].todo # {}
        BY <2>3
      <4>3. rtLoc[w].todo = {f} => staging'[rtLoc[w].v] = Files
        BY <3>3, <3>4
      <4> QED BY <3>3, <4>1, <4>2, <4>3 DEF AsExpected, RtAt
    <3> QED BY <2>3, <3>1, <3>5, AsideKeeps DEF Continues
  <2> QED BY <1>1, <1>4, <2>2, <2>3, ExtractMoves
<1>5. CASE ReplaceOld(w)
  <2>1. Continues(w, "rename")
    BY <1>1, <1>5, GotoMoves DEF ReplaceOld, Pcs, AtWork
  <2>2. Aside(w) /\ dir'[rtLoc[w].v] = {} /\ staging' = staging /\ rtLoc[w].pc = "replace"
    BY <1>1, <1>5, <2>1 DEF ReplaceOld, Aside, Continues, RtAt, Calm
  <2>3. AsExpected(w)' /\ ~RtAt(w, "idle")'
    BY <1>1, <1>2, <2>1, <2>2 DEF AsExpected, Continues, RtAt
  <2> QED BY <2>1, <2>2, <2>3, AsideKeeps DEF Continues
<1>6. CASE Rename(w)
  <2>1. rtLoc[w].pc = "rename" /\ dir[rtLoc[w].v] = {} /\ staging[rtLoc[w].v] = Files /\ Files # {}
    BY <1>1, <1>2, <1>6 DEF Rename, RtAt, AsExpected, Files
  <2>2. RtGoto(w, "list") /\ dir' = [dir EXCEPT ![rtLoc[w].v] = Files]
          /\ staging' = [staging EXCEPT ![rtLoc[w].v] = {}]
    BY <1>6, <2>1 DEF Rename, Calm
  <2>3. Continues(w, "list")
    BY <1>1, <2>2, GotoMoves DEF Pcs
  <2>4. Aside(w)
    BY <1>1, <2>2, <2>3 DEF Aside, Continues, RtAt
  <2>5. AsExpected(w)' /\ ~RtAt(w, "idle")'
    BY <1>1, <2>2, <2>3 DEF AsExpected, Continues, RtAt
  <2> QED BY <2>3, <2>4, <2>5, AsideKeeps DEF Continues
<1> QED BY <1>3, <1>4, <1>5, <1>6 DEF Installs

LEMMA SetVersions == ASSUME RtInv, RtTypes', Calm, NEW w \in Worker, Sets(w) PROVE VersionsInv'
<1>1. /\ rtLoc[w].v \in Version /\ UNCHANGED <<staging, rtFaults>>
        /\ rtLoc[w].pc \in {"remove", "undefault", "write", "mark"}
      /\ RtTypes /\ dir \in [Version -> SUBSET Files]
  BY DEF Sets, RemoveDir, Undefault, WriteDefault, SetDefaultVersion, RtAt, AtWork, RtInv, RtTypes, disk
<1>2. Ends(w) \/ \E l \in {"undefault", "list", "mark"} : Continues(w, l)
  BY <1>1, GotoMoves, DoneMoves DEF Sets, RemoveDir, Undefault, WriteDefault, SetDefaultVersion, Pcs, AtWork
<1>3. dir' = dir \/ dir' = [dir EXCEPT ![rtLoc[w].v] = {}]
  BY DEF Sets, RemoveDir, Undefault, WriteDefault, SetDefaultVersion, disk, Calm
<1>4. Aside(w) /\ AsExpected(w)
  BY <1>1, <1>2, <1>3 DEF Aside, Continues, Ends, RtAt, RtInv, VersionsInv
<1>5. dir'[rtLoc[w].v] \in {{}, Files} /\ staging'[rtLoc[w].v] = {}
  BY <1>1, <1>3, <1>4 DEF AsExpected
<1>6. Ends(w) \/ (rtLoc'[w].v = rtLoc[w].v /\ AsExpected(w)' /\ ~RtAt(w, "idle")')
  BY <1>1, <1>2, <1>5 DEF AsExpected, Continues, RtAt
<1> QED BY <1>4, <1>5, <1>6, AsideKeeps DEF Ends

\* Where one request runs at a time, the others are at rest before and after its step.
Sole(w) == \A x \in Worker : x # w => RtAt(x, "idle") /\ RtAt(x, "idle")'

LEMMA SoleAtWork ==
  ASSUME RtInv, rtFaults = {}, NEW w \in Worker, Begins(w) \/ Detects(w) \/ Installs(w) \/ Sets(w)
  PROVE  /\ Sole(w) /\ Others(w) /\ rtFaults' = {}
         /\ ~Begins(w) => ~RtAt(w, "idle")
         /\ Begins(w) => RtAt(w, "idle")
<1>1. CASE Begins(w)
  BY <1>1, BeginMoves DEF RtArrive, RtQuiet, RtInv, Others, Sole, RtAt
<1>2. ASSUME Detects(w) \/ Installs(w) \/ Sets(w) PROVE ~RtAt(w, "idle") /\ rtFaults' = rtFaults
  BY <1>2 DEF Detects, ListManaged, ReadActive, Persist, Installs, ClearStaging, Extract, ReplaceOld, Rename,
              Sets, RemoveDir, Undefault, WriteDefault, SetDefaultVersion, RtAt
<1>3. ASSUME Detects(w) \/ Installs(w) \/ Sets(w) PROVE Others(w)
  <2>1. RtTypes
    BY DEF RtInv
  <2>2. CASE Detects(w)
    BY <2>1, <2>2, LocalMoves, DoneMoves DEF Detects, Persist, Continues, Ends
  <2>3. CASE Installs(w)
    BY <2>1, <2>3, LocalMoves, GotoMoves, DoneMoves, ExtractMoves DEF Installs, ReplaceOld, Rename, Continues,
               Ends, Pcs, AtWork
  <2>4. CASE Sets(w)
    BY <2>1, <2>4, GotoMoves, DoneMoves
       DEF Sets, RemoveDir, Undefault, WriteDefault, SetDefaultVersion, Continues, Ends, Pcs, AtWork
  <2> QED BY <1>3, <2>2, <2>3, <2>4
<1>4. ASSUME Detects(w) \/ Installs(w) \/ Sets(w) PROVE Sole(w)
  BY <1>2, <1>3, <1>4 DEF Sole, Others, RtAt, RtInv, RowsInv
<1>5. ~(Begins(w) /\ ~RtAt(w, "idle"))
  BY BeginMoves DEF RtArrive, RtInv
<1> QED BY <1>1, <1>2, <1>3, <1>4, <1>5

LEMMA NamedFacts == \A v : Named(v)[1] = v /\ Named(v)[2] = ""
BY DEF Named

\* What the invariant of the rows says of the one at work.
RowsFor(w) ==
  LET l == rtLoc[w] IN
  /\ l.pc \in {"idle", "clear", "extract", "replace", "remove", "write", "mark"} => StatusTells
  /\ l.pc \in {"idle", "clear", "extract", "replace", "remove", "write"} => MarkTells
  /\ l.pc = "write" => "bin" \in dir[l.v]
  /\ l.pc = "mark" => "bin" \in dir[l.v] /\ def = l.v
  /\ l.pc \in {"active", "persist"} => l.managed = ManagedVersions /\ l.def = def
  /\ l.pc = "persist" => l.active = ActiveVersion

LEMMA RowsBySole ==
  ASSUME NEW w \in Worker, Sole(w)
  PROVE  (RowsInv => RowsFor(w)) /\ (RowsFor(w)' => RowsInv')
<1>1. RowsInv => RowsFor(w)
  BY DEF Sole, RowsInv, RowsFor, RtAt
<1>2. ASSUME RowsFor(w)' PROVE RowsInv'
  <2>1. \A x, y \in Worker : ~RtAt(x, "idle")' /\ ~RtAt(y, "idle")' => x = y
    BY DEF Sole
  <2>2. \A x \in Worker : x # w => rtLoc'[x].pc = "idle"
    BY DEF Sole, RtAt
  <2> QED BY <1>2, <2>1, <2>2 DEF RowsInv, RowsFor
<1> QED BY <1>1, <1>2

\* Status and mark depend on the directories and the default only.
LEMMA RowsStay ==
  ASSUME UNCHANGED <<dir, def, table>>
  PROVE  /\ (StatusTells' <=> StatusTells) /\ (MarkTells' <=> MarkTells) /\ ActiveVersion' = ActiveVersion
         /\ staging' = staging => ManagedVersions' = ManagedVersions
<1>1. ActiveVersion' = ActiveVersion
  BY DEF ActiveVersion
<1>2. \A n : (Listed(n)' <=> Listed(n)) /\ (IsActive(n)' <=> IsActive(n))
  BY <1>1 DEF Listed, IsActive
<1>3. ASSUME staging' = staging PROVE ManagedVersions' = ManagedVersions
  BY <1>3 DEF ManagedVersions
<1> QED BY <1>1, <1>2, <1>3 DEF StatusTells, MarkTells, IsPath

LEMMA BeginRows == ASSUME RtInv, RtTypes', rtFaults = {}, NEW w \in Worker, Begins(w) PROVE RowsFor(w)'
<1>1. Sole(w) /\ RtAt(w, "idle")
  BY SoleAtWork
<1>2. StatusTells /\ MarkTells
  BY <1>1, RowsBySole DEF RtInv, RowsFor, RtAt
<1>3. PICK l \in {"list", "clear", "remove", "write"}, v \in Version \cup {NoVersion} :
        rtLoc'[w].pc = l /\ rtLoc'[w].v = v /\ (l = "write" => "bin" \in dir[v])
  BY BeginMoves DEF RtInv
<1>4. UNCHANGED <<dir, def, table>>
  BY BeginMoves DEF RtInv, disk
<1> QED BY <1>2, <1>3, <1>4, RowsStay DEF RowsFor

\* The one transaction that writes what was found: whatever the rows said before.
LEMMA PersistRows ==
  ASSUME RtTypes, \A v \in Version : staging[v] = {},
         rtRows' = ReplaceDetected(Detected(ManagedVersions, def, ActiveVersion)), UNCHANGED disk
  PROVE  StatusTells' /\ MarkTells'
<1> DEFINE all   == ManagedVersions \cup (IF ActiveVersion = NoVersion THEN {} ELSE {Named(ActiveVersion)})
           found == Detected(ManagedVersions, def, ActiveVersion)
<1>1. ActiveVersion' = ActiveVersion /\ ActiveVersion \in Version \cup {NoVersion}
  BY DEF ActiveVersion, disk, RtTypes
<1>2. \A n \in Name : (n \in ManagedVersions <=> Listed(n)) /\ (Listed(n)' <=> Listed(n))
        /\ (IsActive(n)' <=> IsActive(n))
  BY <1>1 DEF ManagedVersions, Listed, IsActive, disk, Name
<1>3. ASSUME NEW n \in Name
      PROVE  /\ n \in all <=> Listed(n) \/ IsActive(n)
             /\ n \in all => /\ rtRows'[n].status = "installed"
                             /\ rtRows'[n].isDefault <=> IsActive(n) \/ (def # NoVersion /\ n = Named(def))
             /\ n \notin all => rtRows'[n].status # "installed"
  <2>1. n \in all <=> Listed(n) \/ IsActive(n)
    BY <1>2 DEF IsActive
  <2>2. DOMAIN found = all
    BY DEF Detected
  <2>3. n \in all => found[n] = (IsActive(n) \/ (def # NoVersion /\ n = Named(def)))
    BY DEF Detected, IsActive
  <2>4. rtRows'[n] = IF n \in all THEN [status |-> "installed", isDefault |-> found[n]]
                     ELSE [rtRows[n] EXCEPT !.status = IF @ = "none" THEN "none" ELSE "missing"]
    BY <2>2 DEF ReplaceDetected
  <2>5. [rtRows[n] EXCEPT !.status = IF @ = "none" THEN "none" ELSE "missing"].status # "installed"
    BY DEF RtTypes, Rows
  <2> HIDE DEF all, found
  <2>6. n \in all => rtRows'[n].status = "installed" /\ rtRows'[n].isDefault = found[n]
    BY <2>4
  <2>7. n \notin all => rtRows'[n].status # "installed"
    BY <2>4, <2>5
  <2> QED BY <2>1, <2>3, <2>6, <2>7
<1>4. \A n \in Name : IsActive(n) => Listed(n) \/ IsPath(n)
  BY NamedFacts DEF IsActive, Listed, IsPath, ActiveVersion
<1>5. \A n \in Name : (Listed(n) \/ IsActive(n)) /\ def # NoVersion /\ n = Named(def) => IsActive(n)
  BY NamedFacts DEF IsActive, Listed, ActiveVersion
<1> QED BY <1>2, <1>3, <1>4, <1>5 DEF StatusTells, MarkTells, IsPath

LEMMA DetectRows == ASSUME RtInv, RtTypes', rtFaults = {}, NEW w \in Worker, Detects(w) PROVE RowsFor(w)'
<1>1. RowsFor(w) /\ RtTypes
  BY SoleAtWork, RowsBySole DEF RtInv
<1>2. CASE ListManaged(w)
  <2>1. UNCHANGED <<dir, def, table, staging>>
    BY <1>2 DEF ListManaged, disk
  <2> QED BY <1>1, <1>2, <2>1, LocalMoves, RowsStay DEF RowsFor, Continues
<1>3. CASE ReadActive(w)
  <2>1. UNCHANGED <<dir, def, table, staging>> /\ rtLoc[w].pc = "active"
    BY <1>3 DEF ReadActive, disk, RtAt
  <2> QED BY <1>1, <1>3, <2>1, LocalMoves, RowsStay DEF RowsFor, Continues
<1>4. CASE Persist(w)
  <2>1. rtLoc[w].pc = "persist" /\ UNCHANGED disk /\ rtLoc'[w].pc = "idle"
    BY <1>1, <1>4, DoneMoves, Idle DEF Persist, RtAt, Ends
  <2>2. rtRows' = ReplaceDetected(Detected(ManagedVersions, def, ActiveVersion))
    BY <1>1, <1>4, <2>1 DEF Persist, RowsFor
  <2>3. \A v \in Version : staging[v] = {}
    <3>1. VersionsInv /\ Sole(w)
      BY SoleAtWork DEF RtInv, Calm
    <3>2. AsExpected(w)
      BY <2>1, <3>1 DEF VersionsInv, RtAt
    <3> QED BY <2>1, <3>1, <3>2 DEF VersionsInv, AsExpected, Changing, Sole
  <2> QED BY <1>1, <2>1, <2>2, <2>3, PersistRows DEF RowsFor
<1> QED BY <1>2, <1>3, <1>4 DEF Detects

LEMMA InstallRows == ASSUME RtInv, RtTypes', rtFaults = {}, NEW w \in Worker, Installs(w) PROVE RowsFor(w)'
<1>1. RowsFor(w) /\ RtTypes
  BY SoleAtWork, RowsBySole DEF RtInv
<1>2. CASE ClearStaging(w) \/ Extract(w)
  <2>1. UNCHANGED <<dir, def, table>> /\ rtLoc[w].pc \in {"clear", "extract"}
    BY <1>2 DEF ClearStaging, Extract, RtAt
  <2>2. rtLoc'[w].pc \in {"idle", "extract", "replace"}
    BY <1>1, <1>2, LocalMoves, ExtractMoves, Idle DEF Continues, Ends
  <2> QED BY <1>1, <2>1, <2>2, RowsStay DEF RowsFor
<1>3. CASE ReplaceOld(w)
  BY <1>1, <1>3, GotoMoves DEF ReplaceOld, Continues, Pcs, AtWork, RowsFor
<1>4. CASE Rename(w)
  <2>1. rtLoc[w].pc = "rename" /\ rtLoc[w].v \in Version
    BY <1>1, <1>4 DEF Rename, RtAt, RtTypes, AtWork
  <2>2. dir[rtLoc[w].v] = {} /\ staging[rtLoc[w].v] = Files
    BY <2>1 DEF RtInv, Calm, VersionsInv, RtAt, AsExpected
  <2>3. RtGoto(w, "list")
    BY <1>4, <2>2 DEF Rename, Files
  <2> QED BY <1>1, <2>3, GotoMoves DEF Continues, Pcs, RowsFor
<1> QED BY <1>2, <1>3, <1>4 DEF Installs

LEMMA SetRows == ASSUME RtInv, RtTypes', rtFaults = {}, NEW w \in Worker, Sets(w) PROVE RowsFor(w)'
<1>1. RowsFor(w) /\ RtTypes
  BY SoleAtWork, RowsBySole DEF RtInv
<1>2. CASE RemoveDir(w) \/ Undefault(w)
  <2>1. RtGoto(w, "undefault") \/ RtGoto(w, "list")
    BY <1>2 DEF RemoveDir, Undefault
  <2> QED BY <1>1, <2>1, GotoMoves DEF Continues, Pcs, AtWork, RowsFor
<1>3. CASE WriteDefault(w)
  <2>1. /\ Continues(w, "mark") /\ rtLoc[w].pc = "write" /\ rtLoc[w].v \in Version /\ def' = rtLoc[w].v
        /\ UNCHANGED <<dir, table>>
    BY <1>1, <1>3, GotoMoves DEF WriteDefault, RtAt, RtTypes, Pcs, AtWork
  <2>2. StatusTells /\ "bin" \in dir[rtLoc[w].v]
    BY <1>1, <2>1 DEF RowsFor
  <2>3. ActiveVersion' = rtLoc[w].v
    BY <2>1, <2>2, VersionAssumption DEF ActiveVersion
  <2>4. \A n \in Name : (Listed(n)' <=> Listed(n)) /\ (IsActive(n)' => Listed(n))
    BY <2>1, <2>2, <2>3, NamedFacts DEF Listed, IsActive
  <2>5. StatusTells'
    BY <2>1, <2>2, <2>4 DEF StatusTells, IsPath
  <2> QED BY <2>1, <2>2, <2>5 DEF RowsFor, Continues
<1>4. CASE SetDefaultVersion(w)
  <2>1. rtLoc[w].pc = "mark" /\ rtLoc[w].v \in Version /\ UNCHANGED <<dir, def>> /\ rtLoc'[w].pc = "idle"
    BY <1>1, <1>4, DoneMoves, Idle DEF SetDefaultVersion, RtAt, RtTypes, AtWork, disk, Ends
  <2>2. StatusTells /\ "bin" \in dir[rtLoc[w].v] /\ def = rtLoc[w].v
    BY <1>1, <2>1 DEF RowsFor
  <2>3. CASE refused' = TRUE /\ rtRows' = rtRows
    <3>1. ActiveVersion' = ActiveVersion
      BY <2>1 DEF ActiveVersion
    <3>2. StatusTells'
      BY <2>1, <2>2, <2>3, <3>1 DEF StatusTells, Listed, IsActive, IsPath
    <3> QED BY <2>1, <2>3, <3>2 DEF RowsFor, MarkTells
  <2>4. CASE rtRows' = [n \in Name |-> [rtRows[n] EXCEPT !.isDefault = (n = Named(rtLoc[w].v))]]
    <3>1. \A n \in Name : rtRows'[n].status = rtRows[n].status /\ rtRows'[n].isDefault = (n = Named(rtLoc[w].v))
      BY <1>1, <2>4 DEF RtTypes, Rows
    <3>2. ActiveVersion = rtLoc[w].v /\ ActiveVersion' = ActiveVersion
      BY <2>1, <2>2, VersionAssumption DEF ActiveVersion
    <3>3. \A n \in Name : (Listed(n)' <=> Listed(n)) /\ (IsActive(n)' <=> n = Named(rtLoc[w].v))
            /\ (IsActive(n) <=> n = Named(rtLoc[w].v))
      BY <2>1, <3>2, VersionAssumption DEF Listed, IsActive
    <3>4. StatusTells' /\ MarkTells'
      BY <2>2, <3>1, <3>3 DEF StatusTells, MarkTells, IsPath
    <3> QED BY <2>1, <3>4 DEF RowsFor
  <2> QED BY <1>4, <2>3, <2>4 DEF SetDefaultVersion
<1> QED BY <1>2, <1>3, <1>4 DEF Sets

LEMMA NextRt == RtInv /\ [RtNext]_rtVars => RtInv'
<1> SUFFICES ASSUME RtInv, [RtNext]_rtVars PROVE RtInv'
  OBVIOUS
<1>1. CASE UNCHANGED rtVars
  <2>1. UNCHANGED <<dir, staging, def, table, rtLoc, rtFaults>>
    BY <1>1 DEF rtVars, disk
  <2>2. RtTypes' /\ (Calm' <=> Calm) /\ (Calm => VersionsInv')
    BY <2>1 DEF RtInv, RtTypes, Calm, VersionsInv, OneAtWork, AsExpected, Changing, RtAt
  <2>3. rtFaults = {} => RowsInv'
    BY <2>1, RowsStay DEF RtInv, RowsInv, RtAt
  <2> QED BY <2>1, <2>2, <2>3 DEF RtInv
<1>2. ASSUME NEW w \in Worker, Begins(w) \/ Detects(w) \/ Installs(w) \/ Sets(w) PROVE RtInv'
  <2>1. RtTypes'
    BY <1>2, NextTypes DEF RtInv
  <2>2. rtFaults' = rtFaults
    BY <1>2, BeginMoves DEF Detects, Installs, Sets, ListManaged, ReadActive, Persist, ClearStaging, Extract,
                            ReplaceOld, Rename, RemoveDir, Undefault, WriteDefault, SetDefaultVersion, RtInv
  <2>3. Calm => VersionsInv'
    BY <1>2, <2>1, BeginVersions, DetectVersions, InstallVersions, SetVersions
  <2>4. ASSUME rtFaults = {} PROVE RowsInv'
    <3>1. RowsFor(w)'
      BY <1>2, <2>1, <2>4, BeginRows, DetectRows, InstallRows, SetRows
    <3>2. Sole(w)
      BY <1>2, <2>4, SoleAtWork
    <3> QED BY <3>1, <3>2, RowsBySole
  <2> QED BY <2>1, <2>2, <2>3, <2>4 DEF RtInv, Calm
<1>3. CASE RtCrash
  <2>1. "crash" \in rtFaults /\ rtFaults' = rtFaults
    BY <1>3 DEF RtCrash
  <2>2. RtTypes'
    BY <1>3, Idle DEF RtCrash, RtInv, RtTypes, AtWork
  <2> QED BY <2>1, <2>2 DEF RtInv, Calm
<1> QED BY <1>1, <1>2, <1>3 DEF RtNext, Begins, Detects, Installs, Sets

LEMMA Runtimes == RtSpec => []RtInv
BY InitRt, NextRt, PTL DEF RtSpec

\* However installs, removals and detections of any number of versions overlap, as long
\* as no two are about one version and none dies on the way: a version nobody is changing
\* is there with all its files or not at all.
THEOREM VersionsAreCompleteTheorem == RtSpec => []VersionsAreComplete
<1>1. RtInv => VersionsAreComplete
  BY DEF RtInv, Calm, VersionsInv, VersionsAreComplete
<1> QED BY <1>1, Runtimes, PTL

\* Requests that come one at a time and do not fail leave rows that tell what is on disk
\* and which version is active.
THEOREM RowsTellDiskTheorem == RtSpec => []RowsTellDisk
<1>1. ASSUME RtInv, RtQuiet, rtFaults = {}, NEW n \in Name
      PROVE  /\ n \in ManagedVersions \/ IsActive(n) => rtRows[n].status = "installed"
             /\ rtRows[n].status = "installed" => /\ n \in ManagedVersions \/ IsPath(n)
                                                  /\ ~refused => (rtRows[n].isDefault <=> IsActive(n))
  <2>1. \A v \in Version : staging[v] = {}
    BY <1>1 DEF RtInv, Calm, VersionsInv, RtQuiet, Changing
  <2>2. n \in ManagedVersions <=> Listed(n)
    BY <2>1 DEF ManagedVersions, Listed, Name
  <2>3. StatusTells /\ MarkTells
    BY <1>1 DEF RtInv, RowsInv, RtQuiet, RtAt
  <2> QED BY <2>2, <2>3 DEF StatusTells, MarkTells
<1>2. RtInv => RowsTellDisk
  BY <1>1 DEF RowsTellDisk, IsActive, IsPath
<1> QED BY <1>2, Runtimes, PTL

HIDE DEF table
HIDE VersionAssumption

-----------------------------------------------------------------------------
(* Hub                                                                       *)

\* The number of the last message Run has taken out of the queue.
Taken == accepted - Len(broadcast)

\* The queue is the newest accepted messages; the one in hand came before them.
QueueIsNewest ==
  /\ accepted \in Nat /\ broadcast \in Seq(Nat) /\ Len(broadcast) <= accepted
  /\ \A i \in 1 .. Len(broadcast) : broadcast[i] = Taken + i
  /\ fan.msg # 0 => fan.msg = Taken

\* Run writes to clients only, and nobody joins or leaves meanwhile.
RunHasLock ==
  /\ fan \in [msg : Nat, locked : BOOLEAN, todo : SUBSET Conn]
  /\ fan.locked => mu = "run" /\ fan.msg # 0 /\ fan.todo \subseteq clients
  /\ ~fan.locked => fan.todo = {}

\* Who is registered, and who cannot have got anything yet.
ClientsAreReaders ==
  /\ conn \in [Conn -> {"none", "auth", "join", "reader", "leave", "refused", "done"}]
  /\ peer \in [Conn -> {"reads", "stalls", "lost"}]
  /\ clients \subseteq {c \in Conn : conn[c] \in {"reader", "leave"}}
  /\ \A c \in Conn : conn[c] \in {"none", "auth", "join", "refused"} => got[c] = <<>>

\* The message in hand is still to be written to c.
Pending(c) == fan.msg # 0 /\ (~fan.locked \/ c \in fan.todo)

LastOf(c) == got[c][Len(got[c])]

\* A client that can be written to has everything up to the last message taken,
\* or up to the one before while that one is on its way.
UpToDate ==
  /\ got \in [Conn -> Seq(Nat)]
  /\ \A c \in clients : peer[c] # "lost" /\ got[c] # <<>> =>
       LastOf(c) = IF Pending(c) THEN Taken - 1 ELSE Taken

NoGaps == \A c \in Conn : \A i \in 1 .. Len(got[c]) - 1 : got[c][i + 1] = got[c][i] + 1

HubInv == QueueIsNewest /\ RunHasLock /\ ClientsAreReaders /\ UpToDate /\ NoGaps

USE HubAssumption

LEMMA InitHub == HubInit => HubInv
BY DEF HubInit, Waiting, HubInv, QueueIsNewest, Taken, RunHasLock, ClientsAreReaders, UpToDate, NoGaps

LEMMA EmitKeeps == ASSUME HubInv, Emit PROVE HubInv'
<1>1. CASE Len(broadcast) < QueueSize /\ broadcast' = Append(broadcast, accepted + 1) /\ accepted' = accepted + 1
  <2>1. QueueIsNewest'
    BY <1>1 DEF Emit, HubInv, QueueIsNewest, Taken
  <2>2. Taken' = Taken
    BY <1>1 DEF HubInv, QueueIsNewest, Taken
  <2> QED BY <2>1, <2>2 DEF Emit, HubInv, RunHasLock, ClientsAreReaders, UpToDate, LastOf, Pending, NoGaps
<1>2. CASE UNCHANGED <<broadcast, accepted>>
  BY <1>2 DEF Emit, HubInv, QueueIsNewest, Taken, RunHasLock, ClientsAreReaders, UpToDate, LastOf, Pending, NoGaps
<1> QED BY <1>1, <1>2 DEF Emit

LEMMA ReceiveKeeps == ASSUME HubInv, Receive PROVE HubInv'
<1>1. /\ Len(broadcast) > 0 /\ Len(broadcast) \in Nat /\ Len(broadcast') = Len(broadcast) - 1
      /\ broadcast' \in Seq(Nat)
      /\ \A i \in 1 .. Len(broadcast') : broadcast'[i] = broadcast[i + 1]
      /\ Head(broadcast) = broadcast[1]
  BY DEF Receive, HubInv, QueueIsNewest
<1>2. Head(broadcast) = Taken + 1 /\ Taken \in Nat /\ Taken' = Taken + 1
  BY <1>1 DEF Receive, HubInv, QueueIsNewest, Taken
<1>3. /\ fan.msg = 0 /\ fan' = [msg |-> Taken + 1, locked |-> FALSE, todo |-> {}] /\ ~fan.locked
      /\ UNCHANGED <<accepted, mu, clients, conn, peer, got>>
  BY <1>2 DEF Receive, Waiting, HubInv, RunHasLock
<1>4. QueueIsNewest'
  BY <1>1, <1>2, <1>3 DEF HubInv, QueueIsNewest, Taken
<1>5. RunHasLock' /\ ClientsAreReaders' /\ NoGaps'
  BY <1>2, <1>3 DEF HubInv, RunHasLock, ClientsAreReaders, NoGaps
<1>6. UpToDate'
  <2>1. ASSUME NEW c \in clients, peer[c] # "lost", got[c] # <<>>
        PROVE LastOf(c)' = (IF Pending(c)' THEN Taken' - 1 ELSE Taken')
    <3>1. LastOf(c) = Taken /\ LastOf(c)' = LastOf(c)
      BY <1>3, <2>1 DEF HubInv, UpToDate, Pending, LastOf
    <3>2. Pending(c)'
      BY <1>2, <1>3 DEF Pending
    <3> QED BY <1>2, <3>1, <3>2
  <2> QED BY <1>3, <2>1 DEF HubInv, UpToDate
<1> QED BY <1>4, <1>5, <1>6 DEF HubInv

LEMMA RunKeeps == ASSUME HubInv, LockClients \/ Unlock PROVE HubInv'
<1>1. /\ UNCHANGED <<broadcast, accepted, clients, conn, peer, got>> /\ Taken' = Taken
  BY DEF LockClients, Unlock, Taken
<1>2. CASE LockClients
  <2>1. fan' = [msg |-> fan.msg, locked |-> TRUE, todo |-> clients] /\ mu' = "run" /\ fan.msg # 0 /\ ~fan.locked
    BY <1>2 DEF LockClients, HubInv, RunHasLock
  <2> QED BY <1>1, <2>1 DEF HubInv, QueueIsNewest, RunHasLock, ClientsAreReaders, UpToDate, LastOf, Pending, NoGaps
<1>3. CASE Unlock
  <2>1. fan' = [msg |-> 0, locked |-> FALSE, todo |-> {}] /\ fan.locked /\ fan.todo = {}
    BY <1>3 DEF Unlock, Waiting
  <2> QED BY <1>1, <2>1 DEF HubInv, QueueIsNewest, RunHasLock, ClientsAreReaders, UpToDate, LastOf, Pending, NoGaps
<1> QED BY <1>2, <1>3

LEMMA WriteKeeps == ASSUME HubInv, NEW c \in Conn, WriteMessage(c) PROVE HubInv'
<1>1. /\ UNCHANGED <<broadcast, accepted, mu, clients, conn, peer>> /\ Taken' = Taken
      /\ c \in fan.todo /\ peer[c] # "stalls" /\ fan.locked /\ c \in clients /\ fan.msg = Taken /\ fan.msg \in Nat
      /\ fan' = [msg |-> fan.msg, locked |-> TRUE, todo |-> fan.todo \ {c}]
  BY DEF WriteMessage, Taken, HubInv, RunHasLock, QueueIsNewest
<1>2. CASE peer[c] = "lost" /\ UNCHANGED got
  BY <1>1, <1>2 DEF HubInv, QueueIsNewest, RunHasLock, ClientsAreReaders, UpToDate, LastOf, Pending, NoGaps
<1>3. CASE peer[c] = "reads" /\ got' = [got EXCEPT ![c] = Append(@, fan.msg)]
  <2>1. /\ got' \in [Conn -> Seq(Nat)] /\ \A e \in Conn : e # c => got'[e] = got[e]
        /\ got[c] \in Seq(Nat) /\ got'[c] = Append(got[c], Taken)
    BY <1>1, <1>3 DEF HubInv, UpToDate
  <2>2. /\ Len(got[c]) \in Nat /\ Len(got'[c]) = Len(got[c]) + 1 /\ got'[c][Len(got'[c])] = Taken
        /\ \A i \in 1 .. Len(got[c]) : got'[c][i] = got[c][i]
    BY <1>1, <2>1
  <2>3. Len(got[c]) > 0 => got[c][Len(got[c])] = Taken - 1
    <3>1. Pending(c) /\ got[c] # <<>> => LastOf(c) = Taken - 1
      BY <1>1, <1>3 DEF HubInv, UpToDate
    <3>2. Pending(c)
      BY <1>1 DEF HubInv, RunHasLock, Pending
    <3>3. Len(got[c]) > 0 => got[c] # <<>>
      OBVIOUS
    <3> QED BY <3>1, <3>2, <3>3 DEF LastOf
  <2>4. QueueIsNewest' /\ RunHasLock' /\ ClientsAreReaders'
    BY <1>1, <2>1 DEF HubInv, QueueIsNewest, RunHasLock, ClientsAreReaders
  <2>5. UpToDate'
    BY <1>1, <2>1, <2>2 DEF HubInv, RunHasLock, ClientsAreReaders, UpToDate, LastOf, Pending
  <2>6. NoGaps'
    <3>1. \A i \in 1 .. Len(got'[c]) - 1 : got'[c][i + 1] = got'[c][i] + 1
      <4> SUFFICES ASSUME NEW i \in 1 .. Len(got[c]) PROVE got'[c][i + 1] = got'[c][i] + 1
        BY <2>2
      <4>1. CASE i = Len(got[c])
        <5>1. got[c][i] = Taken - 1 /\ got'[c][i] = got[c][i] /\ got'[c][i + 1] = Taken
          BY <2>2, <2>3, <4>1
        <5> QED BY <1>1, <5>1
      <4>2. CASE i # Len(got[c])
        BY <2>2, <4>2 DEF HubInv, NoGaps
      <4> QED BY <4>1, <4>2
    <3>2. ASSUME NEW e \in Conn, e # c PROVE \A i \in 1 .. Len(got'[e]) - 1 : got'[e][i + 1] = got'[e][i] + 1
      BY <2>1, <3>2 DEF HubInv, NoGaps
    <3> QED BY <3>1, <3>2 DEF NoGaps
  <2> QED BY <2>4, <2>5, <2>6 DEF HubInv
<1> QED BY <1>1, <1>2, <1>3 DEF WriteMessage, HubInv, ClientsAreReaders

LEMMA ConnKeeps ==
  ASSUME HubInv, NEW c \in Conn,
         \/ Upgrade(c) \/ authenticate(c) \/ Join(c) \/ ReadFails(c) \/ Leave(c) \/ PeerChanges(c)
  PROVE  HubInv'
<1>1. UNCHANGED <<broadcast, accepted, mu, fan, got>> /\ Taken' = Taken
  BY DEF Upgrade, authenticate, Join, ReadFails, Leave, PeerChanges, Taken
<1>2. QueueIsNewest' /\ NoGaps'
  BY <1>1 DEF HubInv, QueueIsNewest, NoGaps
<1>3. RunHasLock'
  BY <1>1 DEF Upgrade, authenticate, Join, ReadFails, Leave, PeerChanges, HubInv, RunHasLock
<1>4. ClientsAreReaders'
  BY <1>1 DEF Upgrade, authenticate, Join, ReadFails, Leave, PeerChanges, ConnTo, HubInv, ClientsAreReaders
<1>5. UpToDate'
  BY <1>1 DEF Upgrade, authenticate, Join, ReadFails, Leave, PeerChanges, HubInv, UpToDate, LastOf, Pending,
              ClientsAreReaders
<1> QED BY <1>2, <1>3, <1>4, <1>5 DEF HubInv

LEMMA NextHub == HubInv /\ [HubNext]_hubVars => HubInv'
<1> SUFFICES ASSUME HubInv, [HubNext]_hubVars PROVE HubInv'
  OBVIOUS
<1>1. CASE UNCHANGED hubVars
  BY <1>1 DEF hubVars, HubInv, QueueIsNewest, Taken, RunHasLock, ClientsAreReaders, UpToDate, LastOf, Pending,
              NoGaps
<1> QED BY <1>1, EmitKeeps, ReceiveKeeps, RunKeeps, WriteKeeps, ConnKeeps DEF HubNext

LEMMA Stream == HubSpec => []HubInv
BY InitHub, NextHub, PTL DEF HubSpec

\* What Run writes to a client is a run of the accepted messages, whatever the
\* capacity of the queue and however many connections join, stall and leave; a
\* client that stays has them all when the hub is at rest.
THEOREM StreamHasNoGapsTheorem == HubSpec => []StreamHasNoGaps
<1>1. HubInv => StreamHasNoGaps
  <2> SUFFICES ASSUME HubInv, NEW c \in Conn
               PROVE  /\ \A i \in 1 .. Len(got[c]) - 1 : got[c][i + 1] = got[c][i] + 1
                      /\ fan.msg = 0 /\ broadcast = <<>> /\ c \in clients /\ peer[c] # "lost" /\ got[c] # <<>>
                         => got[c][Len(got[c])] = accepted
                      /\ conn[c] \in {"auth", "join", "refused"} => got[c] = <<>>
    BY DEF StreamHasNoGaps
  <2>1. broadcast = <<>> => Taken = accepted
    BY DEF HubInv, QueueIsNewest, Taken
  <2> QED BY <2>1 DEF HubInv, NoGaps, UpToDate, LastOf, Pending, ClientsAreReaders
<1> QED BY <1>1, Stream, PTL
=============================================================================
