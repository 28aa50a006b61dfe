------------------------- MODULE ServiceManagerProofs -------------------------
(***************************************************************************)
(* Theorems about ServiceManager for every set of services, API goroutines *)
(* and processes, every restart policy and every budget.                   *)
(***************************************************************************)
EXTENDS ServiceManager, TLAPS

USE ServiceAssumption, ThreadAssumption, NoProcAssumption, PolicyAssumption,
    BudgetAssumption, SwitchAssumption

LEMMA AnyServiceType == AnyService \in Service
BY DEF AnyService

Places == ClientPC \cup AwaitPC

\* Moving a goroutine to a place of the code keeps pc within its type.
LEMMA GotoType ==
  ASSUME TypeOK, NEW t \in Thread, NEW l \in Places, Goto(t, l)
  PROVE  pc' \in [Thread -> Places]
BY DEF TypeOK, Goto, Places

LEMMA PlaceNames ==
  {"idle", "stop", "spawn", "install", "persist", "term", "select", "kill", "drain",
   "drainErr", "none", "wait", "lock", "stopped", "failed", "close", "end"} = Places
BY DEF Places, ClientPC, AwaitPC, Starting, Stopping

\* Persisting a row keeps the rows within their type.
LEMMA PersistType ==
  ASSUME TypeOK, NEW s \in Service, NEW p \in MayProc,
         NEW status \in {"none", "stopped", "running", "failed"}, Persist(s, status, p)
  PROVE  rec' \in [Service -> Record]
<1>1. [status |-> status, pid |-> p] \in Record
  BY DEF Record
<1> QED BY <1>1 DEF TypeOK, Persist

LEMMA InitType == Init => TypeOK
BY AnyServiceType
DEF Init, TypeOK, Record, MayProc, Thread, Result, ClientPC, AwaitPC, Starting, Stopping

LEMMA SvcArgType == TypeOK => \A t \in Thread : SvcArg(t) \in Service
BY DEF TypeOK, SvcArg, Thread

\* What Stop's lookup assigns.
LEMMA StopLookupType ==
  ASSUME TypeOK, NEW c \in Client, NEW s \in Service, NEW g \in BOOLEAN,
         StopLookup(c, s, g)
  PROVE  /\ stopRequested' \in [Proc -> BOOLEAN]
         /\ held' \in [Client -> MayProc]
         /\ pc' \in [Thread -> Places]
         /\ res' \in [Client -> Result]
<1>1. c \in Thread
  BY DEF Thread
<1>2. pc \in [Thread -> Places]
  BY DEF TypeOK, Places
<1>3. CASE procs[s] = NoProc
  BY <1>1, <1>2, <1>3, PlaceNames DEF StopLookup, TypeOK, Return, Goto, MayProc, Result
<1>4. CASE procs[s] # NoProc
  <2>1. procs[s] \in Proc
    BY <1>4 DEF TypeOK, MayProc
  <2>2. stopRequested' = [stopRequested EXCEPT ![procs[s]] = TRUE]
    BY <1>4 DEF StopLookup
  <2>3. held' = [held EXCEPT ![c] = procs[s]] /\ res' = [res EXCEPT ![c] = "none"]
    BY <1>4 DEF StopLookup
  <2>4. \E l \in Places : Goto(c, l)
    BY <1>4, PlaceNames DEF StopLookup
  <2>5. pc' \in [Thread -> Places]
    BY <2>4, <1>1, GotoType
  <2>6. stopRequested' \in [Proc -> BOOLEAN]
    BY <2>1, <2>2 DEF TypeOK
  <2> QED BY <2>1, <2>3, <2>5, <2>6 DEF TypeOK, MayProc, Result
<1> QED BY <1>3, <1>4

\* What a finished Stop assigns.
LEMMA StopReturnsType ==
  ASSUME TypeOK, NEW c \in Client, StopReturns(c)
  PROVE  pc' \in [Thread -> Places] /\ res' \in [Client -> Result]
<1>1. c \in Thread /\ pc \in [Thread -> Places]
  BY DEF Thread, TypeOK, Places
<1> QED BY <1>1, PlaceNames DEF StopReturns, TypeOK, Return, Goto, Result

LEMMA SignalType ==
  ASSUME TypeOK, NEW c \in Client, Signal(c)
  PROVE  killed' \in [Proc -> BOOLEAN]
BY DEF TypeOK, Signal, MayProc

LEMMA NextType == TypeOK /\ [Next]_vars => TypeOK'
<1> SUFFICES ASSUME TypeOK, [Next]_vars PROVE TypeOK'
  OBVIOUS
<1>0. /\ Client \subseteq Thread /\ Proc \subseteq Thread
      /\ Proc \subseteq MayProc /\ NoProc \in MayProc
      /\ pc \in [Thread -> Places]
  BY DEF Thread, MayProc, TypeOK, Places
<1>1. ASSUME NEW t \in Thread, Spawn(t) PROVE TypeOK'
  <2>1. PICK p \in Proc :
          /\ life[p] = "unborn"
          /\ life' = [life EXCEPT ![p] = "up"]
          /\ svcOf' = [svcOf EXCEPT ![p] = SvcArg(t)]
          /\ restarts' = [restarts EXCEPT ![p] = TimesArg(t)]
          /\ new' = [new EXCEPT ![t] = p]
    BY <1>1 DEF Spawn
  <2>2. TimesArg(t) \in 0..MaxRestarts
    BY DEF TypeOK, TimesArg, Thread
  <2>3. pc' \in [Thread -> Places]
    BY <1>1, GotoType, PlaceNames DEF Spawn
  <2> QED BY <1>1, <1>0, <2>1, <2>2, <2>3, SvcArgType DEF Spawn, TypeOK, Places
<1>2. ASSUME NEW t \in Thread, SpawnFails(t) PROVE TypeOK'
  BY <1>2, <1>0, PlaceNames DEF SpawnFails, TypeOK, Return, Goto, Result, Places, procVars
<1>3. ASSUME NEW t \in Thread, Install(t) PROVE TypeOK'
  <2>1. pc' \in [Thread -> Places]
    BY <1>3, GotoType, PlaceNames DEF Install
  <2> QED BY <1>3, <1>0, <2>1, SvcArgType DEF Install, TypeOK, Places, procVars
<1>4. ASSUME NEW t \in Thread, PersistRunning(t) PROVE TypeOK'
  <2>1. pc' \in [Thread -> Places]
    BY <1>4, <1>0, PlaceNames DEF PersistRunning
  <2>2. rec' \in [Service -> Record]
    BY <1>4, SvcArgType, PersistType DEF PersistRunning, TypeOK
  <2>3. res' \in [Client -> Result]
    BY <1>4 DEF PersistRunning, TypeOK, Result
  <2> QED BY <1>4, <1>0, <2>1, <2>2, <2>3 DEF PersistRunning, TypeOK, Places, procVars
<1>5. ASSUME NEW p \in Proc, Exit(p) PROVE TypeOK'
  BY <1>5 DEF Exit, TypeOK, threadVars
<1>6. ASSUME NEW p \in Proc, Wait(p) PROVE TypeOK'
  <2>1. pc' \in [Thread -> Places]
    BY <1>6, <1>0, GotoType, PlaceNames DEF Wait
  <2> QED BY <1>6, <2>1 DEF Wait, TypeOK, Places
<1>7. ASSUME NEW p \in Proc, AwaitLock(p) PROVE TypeOK'
  <2>1. \E l \in Places : Goto(p, l)
    BY <1>7, PlaceNames DEF AwaitLock
  <2>2. pc' \in [Thread -> Places]
    BY <1>0, <2>1, GotoType
  <2>3. times' \in [Proc -> 0..MaxRestarts]
    BY <1>7 DEF AwaitLock, Forget, OverBudget, Pruned, TypeOK
  <2>4. procs' \in [Service -> MayProc]
    BY <1>7, <1>0 DEF AwaitLock, Forget, TypeOK
  <2> QED BY <1>7, <2>2, <2>3, <2>4 DEF AwaitLock, TypeOK, Places, procVars
<1>8. ASSUME NEW p \in Proc, AwaitPersist(p) PROVE TypeOK'
  <2>1. pc' \in [Thread -> Places]
    BY <1>8, <1>0, GotoType, PlaceNames DEF AwaitPersist
  <2>2. svcOf[p] \in Service /\ pc[p] \in {"stopped", "failed"}
    BY <1>8 DEF AwaitPersist, TypeOK
  <2>3. rec' \in [Service -> Record]
    BY <1>8, <1>0, <2>2, PersistType DEF AwaitPersist
  <2> QED BY <1>8, <2>1, <2>3 DEF AwaitPersist, TypeOK, Places, procVars
<1>9. ASSUME NEW p \in Proc, AwaitClose(p) PROVE TypeOK'
  <2>1. pc' \in [Thread -> Places]
    BY <1>9, <1>0, GotoType, PlaceNames DEF AwaitClose
  <2> QED BY <1>9, <2>1 DEF AwaitClose, TypeOK, Places
<1>10. ASSUME NEW c \in Client, NEW s \in Service, Start(c, s) PROVE TypeOK'
  BY <1>10, <1>0, PlaceNames DEF Start, Call, Return, Goto, Result, TypeOK, Places, procVars
<1>11. ASSUME NEW c \in Client, NEW s \in Service, NEW g \in BOOLEAN, Stop(c, s, g)
       PROVE TypeOK'
  BY <1>11, StopLookupType DEF Stop, Call, TypeOK, Places
<1>12. ASSUME NEW c \in Client, NEW s \in Service, Restart(c, s) PROVE TypeOK'
  BY <1>12, <1>0, PlaceNames DEF Restart, Call, Return, Goto, Result, TypeOK, Places, procVars
<1>13. ASSUME NEW c \in Client, RestartStop(c) PROVE TypeOK'
  <2>1. arg[c] \in Service
    BY DEF TypeOK
  <2> QED BY <1>13, <2>1, StopLookupType DEF RestartStop, TypeOK, Places
<1>14. ASSUME NEW c \in Client, Terminate(c) PROVE TypeOK'
  <2>1. \E l \in Places : Goto(c, l)
    BY <1>14, PlaceNames DEF Terminate
  <2>2. pc' \in [Thread -> Places]
    BY <1>0, <2>1, GotoType
  <2>3. killed' \in [Proc -> BOOLEAN]
    BY <1>14, SignalType DEF Terminate, TypeOK
  <2> QED BY <1>14, <2>2, <2>3 DEF Terminate, TypeOK, Places
<1>15. ASSUME NEW c \in Client, StopSeesDone(c) PROVE TypeOK'
  BY <1>15, StopReturnsType DEF StopSeesDone, TypeOK, Places, procVars
<1>16. ASSUME NEW c \in Client, StopTimeout(c) PROVE TypeOK'
  <2>1. pc' \in [Thread -> Places]
    BY <1>16, <1>0, GotoType, PlaceNames DEF StopTimeout
  <2> QED BY <1>16, <2>1 DEF StopTimeout, TypeOK, Places, procVars
<1>17. ASSUME NEW c \in Client, Kill(c) PROVE TypeOK'
  <2>1. \E l \in Places : Goto(c, l)
    BY <1>17, PlaceNames DEF Kill
  <2>2. pc' \in [Thread -> Places]
    BY <1>0, <2>1, GotoType
  <2>3. killed' \in [Proc -> BOOLEAN]
    BY <1>17, SignalType DEF Kill, TypeOK
  <2> QED BY <1>17, <2>2, <2>3 DEF Kill, TypeOK, Places
<1>18. ASSUME NEW c \in Client, StopDrained(c) PROVE TypeOK'
  <2>1. StopReturns(c) => TypeOK'
    BY <1>18, StopReturnsType DEF StopDrained, TypeOK, Places, procVars
  <2>2. Return(c, "killErr") => TypeOK'
    BY <1>18, <1>0, PlaceNames DEF StopDrained, Return, Goto, Result, TypeOK, Places, procVars
  <2> QED BY <1>18, <2>1, <2>2 DEF StopDrained
<1>19. CASE UNCHANGED vars
  BY <1>19 DEF vars, procVars, threadVars, TypeOK
<1> QED
  BY <1>1, <1>2, <1>3, <1>4, <1>5, <1>6, <1>7, <1>8, <1>9, <1>10, <1>11, <1>12,
     <1>13, <1>14, <1>15, <1>16, <1>17, <1>18, <1>19
  DEF Next, StartProcess, AwaitExit, ApiCall, StopSteps

\* Type correctness: the table, the rows and the goroutines of the Manager stay
\* within their types.
THEOREM TypeCorrect == Spec => []TypeOK
BY InitType, NextType, PTL DEF Spec

-----------------------------------------------------------------------------
(* The supervision invariant.                                                 *)

LEMMA InitSupervision == Init => SupervisionInv
BY DEF Init, SupervisionInv, PcFits, SpawnedIsPrivate, UnbornIsUnknown, ProgressOrder,
       TableEntry, HeldIsMarked, StopWins, Announcing, Thread, ClientPC, AwaitPC,
       Starting, Stopping

LEMMA SpawnSupervision ==
  ASSUME TypeOK, SupervisionInv, NEW t \in Thread, Spawn(t)
  PROVE  SupervisionInv'
<1> USE DEF SupervisionInv
<1>1. PICK p \in Proc :
        /\ life[p] = "unborn"
        /\ life' = [life EXCEPT ![p] = "up"]
        /\ svcOf' = [svcOf EXCEPT ![p] = SvcArg(t)]
        /\ new' = [new EXCEPT ![t] = p]
  BY DEF Spawn
<1>2. pc[p] = "none" /\ ~stopRequested[p] /\ p # t /\ p \in Thread
  BY <1>1, ThreadAssumption DEF UnbornIsUnknown, Spawn, Thread
<1>3. /\ pc[t] = "spawn"
      /\ pc' = [pc EXCEPT ![t] = "install"]
      /\ UNCHANGED <<procs, stopRequested, done, held, arg>>
  BY DEF Spawn, Goto
<1>4. \A u \in Thread : u # t => Announcing(u) = Announcing(u)'
  BY <1>3 DEF Announcing, TypeOK
<1>5. SvcArg(t)' = SvcArg(t)
  BY <1>1, <1>2, <1>3 DEF SvcArg, TypeOK, Thread
<1>6. \A u \in Thread : Announcing(u) => SvcArg(u)' = SvcArg(u) /\ u # p
  BY <1>1, <1>2, <1>3 DEF SvcArg, TypeOK, Thread, Announcing
<1>7. SpawnedIsPrivate'
  BY <1>1, <1>2, <1>3, <1>4, <1>5, <1>6 DEF SpawnedIsPrivate, TypeOK, Announcing
<1>8. PcFits'
  BY <1>3 DEF PcFits, ClientPC, AwaitPC, Starting, TypeOK
<1>9. UnbornIsUnknown' /\ ProgressOrder'
  BY <1>1, <1>2, <1>3 DEF UnbornIsUnknown, ProgressOrder, TypeOK
<1>10. TableEntry'
  BY <1>1, <1>2, <1>3 DEF TableEntry, TypeOK, MayProc
<1>11. HeldIsMarked' /\ StopWins'
  BY <1>1, <1>2, <1>3 DEF HeldIsMarked, StopWins, TypeOK, Starting, Stopping, Thread
<1> QED BY <1>7, <1>8, <1>9, <1>10, <1>11

\* A step that moves an API goroutine, neither into nor out of the part of
\* startProcess where a process is unannounced, and not into Stop.
LEMMA ClientMove ==
  ASSUME TypeOK, SupervisionInv, NEW c \in Client, NEW l \in ClientPC, Goto(c, l),
         UNCHANGED <<procs, svcOf, life, stopRequested, done, new>>,
         \A u \in Thread : u # c => SvcArg(u)' = SvcArg(u),
         \A d \in Client : d # c => held'[d] = held[d],
         ~Announcing(c), l \notin {"install", "persist"},
         l \in Stopping => pc[c] \in Stopping /\ held'[c] = held[c]
  PROVE  SupervisionInv'
<1> USE DEF SupervisionInv
<1>1. /\ pc' = [pc EXCEPT ![c] = l]
      /\ c \in Thread /\ c \notin Proc
      /\ pc \in [Thread -> Places]
      /\ Client \subseteq Thread /\ Proc \subseteq Thread
      /\ \A p \in Proc : pc'[p] = pc[p]
  BY ThreadAssumption DEF Goto, Thread, TypeOK, Places
<1>2. \A u \in Thread : Announcing(u)' = Announcing(u)
  BY <1>1 DEF Announcing
<1>3. SpawnedIsPrivate'
  BY <1>1, <1>2 DEF SpawnedIsPrivate
<1>4. PcFits'
  BY <1>1 DEF PcFits
<1>5. UnbornIsUnknown' /\ ProgressOrder' /\ StopWins'
  BY <1>1 DEF UnbornIsUnknown, ProgressOrder, StopWins
<1>6. TableEntry'
  BY <1>1 DEF TableEntry, TypeOK, MayProc
<1>7. HeldIsMarked'
  BY <1>1 DEF HeldIsMarked
<1> QED BY <1>3, <1>4, <1>5, <1>6, <1>7

\* A step of an awaitExit that has reaped its process, taken with the process
\* out of the table afterwards.
LEMMA AwaiterMove ==
  ASSUME TypeOK, SupervisionInv, NEW p \in Proc,
         NEW l \in {"stopped", "failed", "close", "end", "spawn"}, Goto(p, l),
         UNCHANGED <<svcOf, life, stopRequested, arg, new, held>>,
         \A q \in Proc : q # p => done'[q] = done[q],
         done'[p] => l = "end",
         \A s \in Service : procs'[s] = procs[s] \/ procs'[s] = NoProc,
         \A s \in Service : procs'[s] # p,
         pc[p] \notin {"none", "wait", "install", "persist"},
         l \in {"failed", "spawn"} => ~stopRequested[p]
  PROVE  SupervisionInv'
<1> USE DEF SupervisionInv
<1>1. /\ pc' = [pc EXCEPT ![p] = l]
      /\ p \in Thread /\ p \notin Client
      /\ pc \in [Thread -> Places]
      /\ Client \subseteq Thread /\ Proc \subseteq Thread
      /\ \A c \in Client : pc'[c] = pc[c]
  BY ThreadAssumption DEF Goto, Thread, TypeOK, Places
<1>2. life[p] = "reaped"
  BY DEF ProgressOrder
<1>3. \A u \in Thread : Announcing(u)' = Announcing(u) /\ SvcArg(u)' = SvcArg(u)
  BY <1>1 DEF Announcing, SvcArg
<1>4. SpawnedIsPrivate'
  BY <1>1, <1>3 DEF SpawnedIsPrivate
<1>5. PcFits'
  BY <1>1 DEF PcFits, AwaitPC, Starting
<1>6. UnbornIsUnknown' /\ ProgressOrder' /\ StopWins'
  BY <1>1, <1>2 DEF UnbornIsUnknown, ProgressOrder, StopWins, Starting
<1>7. TableEntry'
  BY <1>1 DEF TableEntry, TypeOK, MayProc
<1>8. HeldIsMarked'
  BY <1>1 DEF HeldIsMarked
<1> QED BY <1>4, <1>5, <1>6, <1>7, <1>8

LEMMA InstallSupervision ==
  ASSUME TypeOK, SupervisionInv, NEW t \in Thread, Install(t)
  PROVE  SupervisionInv'
<1> USE DEF SupervisionInv
<1>1. /\ pc[t] = "install"
      /\ pc' = [pc EXCEPT ![t] = "persist"]
      /\ procs' = [procs EXCEPT ![SvcArg(t)] = new[t]]
      /\ UNCHANGED <<svcOf, life, stopRequested, done, arg, new, held>>
      /\ pc \in [Thread -> Places]
      /\ Client \subseteq Thread /\ Proc \subseteq Thread
  BY DEF Install, Goto, procVars, TypeOK, Places, Thread
<1>2. /\ new[t] \in Proc /\ pc[new[t]] = "none" /\ life[new[t]] # "unborn"
      /\ svcOf[new[t]] = SvcArg(t) /\ new[t] # t
  BY <1>1 DEF SpawnedIsPrivate, Announcing
<1>3. \A u \in Thread : Announcing(u)' = Announcing(u) /\ SvcArg(u)' = SvcArg(u)
  BY <1>1 DEF Announcing, SvcArg
<1>4. SpawnedIsPrivate'
  BY <1>1, <1>3 DEF SpawnedIsPrivate
<1>5. PcFits'
  BY <1>1 DEF PcFits, ClientPC, AwaitPC, Starting
<1>6. UnbornIsUnknown' /\ ProgressOrder' /\ StopWins'
  BY <1>1 DEF UnbornIsUnknown, ProgressOrder, StopWins, Starting
<1>7. TableEntry'
  BY <1>1, <1>2 DEF TableEntry, TypeOK, MayProc
<1>8. HeldIsMarked'
  BY <1>1 DEF HeldIsMarked, Stopping
<1> QED BY <1>4, <1>5, <1>6, <1>7, <1>8

LEMMA PersistRunningSupervision ==
  ASSUME TypeOK, SupervisionInv, NEW t \in Thread, PersistRunning(t)
  PROVE  SupervisionInv'
<1> USE DEF SupervisionInv
<1> DEFINE after == IF t \in Client THEN "idle" ELSE "close"
<1>1. /\ pc[t] = "persist"
      /\ pc' = [pc EXCEPT ![new[t]] = "wait", ![t] = after]
      /\ new' = [new EXCEPT ![t] = NoProc]
      /\ UNCHANGED <<procs, svcOf, life, stopRequested, done, arg, held>>
      /\ pc \in [Thread -> Places]
      /\ Client \subseteq Thread /\ Proc \subseteq Thread
  BY DEF PersistRunning, procVars, TypeOK, Places, Thread
<1>2. /\ new[t] \in Proc /\ pc[new[t]] = "none" /\ life[new[t]] # "unborn" /\ new[t] # t
      /\ \A u \in Thread : Announcing(u) /\ new[u] = new[t] => u = t
  BY <1>1 DEF SpawnedIsPrivate, Announcing
<1>3. /\ pc'[t] = after /\ pc'[new[t]] = "wait"
      /\ \A u \in Thread : u # t /\ u # new[t] => pc'[u] = pc[u] /\ new'[u] = new[u]
  BY <1>1, <1>2 DEF TypeOK
<1> HIDE DEF after
<1>4. after \in {"idle", "close"} /\ (t \in Client => after = "idle")
                                 /\ (t \in Proc => after = "close")
  BY ThreadAssumption DEF after
<1>5. \A u \in Thread : SvcArg(u)' = SvcArg(u)
  BY <1>1 DEF SvcArg
<1>6. \A u \in Thread : Announcing(u)' => Announcing(u) /\ u # t /\ u # new[t]
  BY <1>3, <1>4 DEF Announcing
<1>7. SpawnedIsPrivate'
  BY <1>1, <1>2, <1>3, <1>5, <1>6 DEF SpawnedIsPrivate
<1>8. PcFits'
  BY <1>1, <1>2, <1>3, <1>4, ThreadAssumption DEF PcFits, ClientPC, AwaitPC
<1>9. UnbornIsUnknown' /\ ProgressOrder'
  BY <1>1, <1>2, <1>3, <1>4 DEF UnbornIsUnknown, ProgressOrder
<1>10. StopWins'
  BY <1>1, <1>3, <1>4 DEF StopWins, Starting
<1>11. TableEntry'
  BY <1>1, <1>2, <1>3, <1>4 DEF TableEntry, TypeOK, MayProc
<1>12. HeldIsMarked'
  BY <1>1, <1>2, <1>3, <1>4, ThreadAssumption DEF HeldIsMarked, Stopping
<1> QED BY <1>7, <1>8, <1>9, <1>10, <1>11, <1>12

LEMMA ExitSupervision ==
  ASSUME TypeOK, SupervisionInv, NEW p \in Proc, Exit(p)
  PROVE  SupervisionInv'
<1> USE DEF SupervisionInv
<1>1. /\ life[p] = "up" /\ life' = [life EXCEPT ![p] = "exited"]
      /\ UNCHANGED <<pc, procs, svcOf, stopRequested, done, arg, new, held>>
  BY DEF Exit, threadVars
<1>2. \A u \in Thread : Announcing(u)' = Announcing(u) /\ SvcArg(u)' = SvcArg(u)
  BY <1>1 DEF Announcing, SvcArg
<1>3. SpawnedIsPrivate'
  BY <1>1, <1>2 DEF SpawnedIsPrivate, TypeOK
<1>4. PcFits' /\ HeldIsMarked' /\ StopWins'
  BY <1>1 DEF PcFits, HeldIsMarked, StopWins
<1>5. UnbornIsUnknown' /\ ProgressOrder' /\ TableEntry'
  BY <1>1 DEF UnbornIsUnknown, ProgressOrder, TableEntry, TypeOK, MayProc
<1> QED BY <1>3, <1>4, <1>5

LEMMA WaitSupervision ==
  ASSUME TypeOK, SupervisionInv, NEW p \in Proc, Wait(p)
  PROVE  SupervisionInv'
<1> USE DEF SupervisionInv
<1>1. /\ pc[p] = "wait"
      /\ pc' = [pc EXCEPT ![p] = "lock"]
      /\ life' = [life EXCEPT ![p] = "reaped"]
      /\ UNCHANGED <<procs, svcOf, stopRequested, done, arg, new, held>>
      /\ pc \in [Thread -> Places] /\ life \in [Proc -> {"unborn", "up", "exited", "reaped"}]
      /\ p \in Thread /\ Client \subseteq Thread /\ Proc \subseteq Thread /\ p \notin Client
  BY ThreadAssumption DEF Wait, Goto, TypeOK, Places, Thread
<1>2. \A u \in Thread : Announcing(u)' = Announcing(u) /\ SvcArg(u)' = SvcArg(u)
  BY <1>1 DEF Announcing, SvcArg
<1>3. SpawnedIsPrivate'
  BY <1>1, <1>2 DEF SpawnedIsPrivate
<1>4. PcFits'
  BY <1>1 DEF PcFits, AwaitPC
<1>5. HeldIsMarked' /\ StopWins'
  BY <1>1 DEF HeldIsMarked, StopWins, Starting
<1>6. UnbornIsUnknown' /\ ProgressOrder'
  BY <1>1 DEF UnbornIsUnknown, ProgressOrder
<1>7. TableEntry'
  BY <1>1 DEF TableEntry, TypeOK, MayProc
<1> QED BY <1>3, <1>4, <1>5, <1>6, <1>7

\* Stop's lookup marks only a process whose awaitExit is before its critical
\* section: this is what makes StopWins inductive.
LEMMA LookupSupervision ==
  ASSUME TypeOK, SupervisionInv, NEW c \in Client, NEW s \in Service, NEW g \in BOOLEAN,
         StopLookup(c, s, g), ~Announcing(c),
         UNCHANGED <<procs, svcOf, life, done, new>>,
         \A u \in Thread : u # c => SvcArg(u)' = SvcArg(u)
  PROVE  SupervisionInv'
<1> USE DEF SupervisionInv
<1>1. CASE procs[s] = NoProc
  <2>1. Goto(c, "idle") /\ held' = [held EXCEPT ![c] = NoProc] /\ UNCHANGED stopRequested
    BY <1>1 DEF StopLookup, Return
  <2>2. /\ pc' = [pc EXCEPT ![c] = "idle"]
        /\ c \in Thread /\ c \notin Proc
        /\ pc \in [Thread -> Places]
        /\ Client \subseteq Thread /\ Proc \subseteq Thread
        /\ \A p \in Proc : pc'[p] = pc[p]
    BY <2>1, ThreadAssumption DEF Goto, Thread, TypeOK, Places
  <2>3. \A u \in Thread : Announcing(u)' = Announcing(u)
    BY <2>2 DEF Announcing
  <2>4. SpawnedIsPrivate'
    BY <2>2, <2>3 DEF SpawnedIsPrivate
  <2>5. PcFits'
    BY <2>2 DEF PcFits, ClientPC
  <2>6. UnbornIsUnknown' /\ ProgressOrder' /\ StopWins'
    BY <2>1, <2>2 DEF UnbornIsUnknown, ProgressOrder, StopWins
  <2>7. TableEntry'
    BY <2>2 DEF TableEntry, TypeOK, MayProc
  <2>8. HeldIsMarked'
    BY <2>1, <2>2 DEF HeldIsMarked, TypeOK, Stopping
  <2> QED BY <2>4, <2>5, <2>6, <2>7, <2>8
<1>2. CASE procs[s] # NoProc
  <2> DEFINE p == procs[s]
             l == IF g THEN "term" ELSE "kill"
  <2>1. /\ p \in Proc /\ p \in Thread
        /\ life[p] # "unborn" /\ pc[p] \in {"none", "wait", "lock"}
    BY <1>2 DEF TypeOK, MayProc, TableEntry, Thread
  <2>2. /\ stopRequested' = [stopRequested EXCEPT ![p] = TRUE]
        /\ held' = [held EXCEPT ![c] = p]
        /\ pc' = [pc EXCEPT ![c] = l]
    BY <1>2 DEF StopLookup, Goto
  <2>3. l \in {"term", "kill"}
    OBVIOUS
  <2> HIDE DEF p, l
  <2>4. /\ c \in Thread /\ c \notin Proc
        /\ pc \in [Thread -> Places]
        /\ Client \subseteq Thread /\ Proc \subseteq Thread
        /\ \A q \in Proc : pc'[q] = pc[q]
    BY <2>2, ThreadAssumption DEF Thread, TypeOK, Places
  <2>5. \A u \in Thread : Announcing(u)' = Announcing(u)
    BY <2>2, <2>3, <2>4 DEF Announcing
  <2>6. SpawnedIsPrivate'
    BY <2>4, <2>5 DEF SpawnedIsPrivate
  <2>7. PcFits'
    BY <2>2, <2>3, <2>4 DEF PcFits, ClientPC, Stopping
  <2>8. UnbornIsUnknown' /\ ProgressOrder'
    BY <2>1, <2>2, <2>4 DEF UnbornIsUnknown, ProgressOrder, TypeOK
  <2>9. StopWins'
    BY <2>1, <2>2, <2>4 DEF StopWins, TypeOK, Starting
  <2>10. TableEntry'
    BY <2>4 DEF TableEntry, TypeOK, MayProc
  <2>11. HeldIsMarked'
    BY <2>1, <2>2, <2>3, <2>4 DEF HeldIsMarked, TypeOK
  <2> QED BY <2>6, <2>7, <2>8, <2>9, <2>10, <2>11
<1> QED BY <1>1, <1>2

\* A new call, and a step of Stop, are such moves.
LEMMA CallMove ==
  ASSUME TypeOK, SupervisionInv, NEW c \in Client, NEW s \in Service,
         NEW l \in {"idle", "stop", "spawn"}, pc[c] = "idle", Goto(c, l),
         arg' = [arg EXCEPT ![c] = s], held' = [held EXCEPT ![c] = NoProc],
         UNCHANGED <<procs, svcOf, life, stopRequested, done, new>>
  PROVE  SupervisionInv'
<1>1. \A u \in Thread : u # c => SvcArg(u)' = SvcArg(u)
  BY DEF SvcArg, TypeOK
<1>2. \A d \in Client : d # c => held'[d] = held[d]
  BY DEF TypeOK
<1> QED BY <1>1, <1>2, ClientMove DEF Announcing, ClientPC, Starting, Stopping

LEMMA StopMove ==
  ASSUME TypeOK, SupervisionInv, NEW c \in Client, pc[c] \in Stopping,
         NEW l \in Stopping \cup {"idle", "spawn"}, Goto(c, l),
         UNCHANGED <<procs, svcOf, life, stopRequested, done, arg, new, held>>
  PROVE  SupervisionInv'
<1>1. \A u \in Thread : u # c => SvcArg(u)' = SvcArg(u)
  BY DEF SvcArg
<1> QED BY <1>1, ClientMove DEF Announcing, ClientPC, Starting, Stopping

LEMMA NextSupervision == TypeOK /\ SupervisionInv /\ [Next]_vars => SupervisionInv'
<1> SUFFICES ASSUME TypeOK, SupervisionInv, [Next]_vars PROVE SupervisionInv'
  OBVIOUS
<1>0. /\ \A c \in Client : c \in Thread /\ c \notin Proc
      /\ \A p \in Proc : p \in Thread /\ p \notin Client
  BY ThreadAssumption DEF Thread
<1>1. ASSUME NEW t \in Thread, Spawn(t) PROVE SupervisionInv'
  BY <1>1, SpawnSupervision
<1>2. ASSUME NEW t \in Thread, SpawnFails(t) PROVE SupervisionInv'
  <2>1. CASE t \in Client
    BY <1>2, <2>1, ClientMove
    DEF SpawnFails, Return, ClientPC, Announcing, SvcArg, procVars, Stopping
  <2>2. CASE t \in Proc
    <3>1. \A s \in Service : procs[s] # t
      BY <1>2, <2>2 DEF SpawnFails, SupervisionInv, TableEntry, TypeOK, MayProc
    <3>2. ~stopRequested[t] /\ ~done[t]
      BY <1>2, <2>2 DEF SpawnFails, SupervisionInv, StopWins, ProgressOrder, Starting
    <3> QED BY <1>2, <1>0, <2>2, <3>1, <3>2, AwaiterMove DEF SpawnFails, procVars
  <2> QED BY <2>1, <2>2 DEF Thread
<1>3. ASSUME NEW t \in Thread, Install(t) PROVE SupervisionInv'
  BY <1>3, InstallSupervision
<1>4. ASSUME NEW t \in Thread, PersistRunning(t) PROVE SupervisionInv'
  BY <1>4, PersistRunningSupervision
<1>5. ASSUME NEW p \in Proc, Exit(p) PROVE SupervisionInv'
  BY <1>5, ExitSupervision
<1>6. ASSUME NEW p \in Proc, Wait(p) PROVE SupervisionInv'
  BY <1>6, WaitSupervision
<1>7. ASSUME NEW p \in Proc, AwaitLock(p) PROVE SupervisionInv'
  <2>1. PICK l \in {"stopped", "failed", "spawn"} :
          Goto(p, l) /\ (l \in {"failed", "spawn"} => ~stopRequested[p])
    BY <1>7 DEF AwaitLock, Deliberate
  <2>2. procs' = [procs EXCEPT ![svcOf[p]] = NoProc]
    BY <1>7 DEF AwaitLock, Forget
  <2>3. \A s \in Service : procs'[s] # p
    BY <2>2, NoProcAssumption DEF SupervisionInv, TableEntry, TypeOK, MayProc
  <2>4. \A s \in Service : procs'[s] = procs[s] \/ procs'[s] = NoProc
    BY <2>2 DEF TypeOK
  <2>5. UNCHANGED <<svcOf, life, stopRequested, done, arg, new, held>> /\ pc[p] = "lock"
    BY <1>7 DEF AwaitLock, procVars
  <2>6. ~done[p]
    BY <2>5 DEF SupervisionInv, ProgressOrder
  <2> QED BY <2>1, <2>3, <2>4, <2>5, <2>6, AwaiterMove
<1>8. ASSUME NEW p \in Proc, AwaitPersist(p) PROVE SupervisionInv'
  <2>1. /\ pc[p] \in {"stopped", "failed"} /\ Goto(p, "close")
        /\ UNCHANGED <<procs, svcOf, life, stopRequested, done, arg, new, held>>
    BY <1>8 DEF AwaitPersist, procVars
  <2>2. /\ ~done[p]
        /\ \A s \in Service : procs[s] # p
    BY <2>1 DEF SupervisionInv, ProgressOrder, TableEntry, TypeOK, MayProc
  <2> QED BY <2>1, <2>2, AwaiterMove
<1>9. ASSUME NEW p \in Proc, AwaitClose(p) PROVE SupervisionInv'
  <2>1. /\ pc[p] = "close" /\ Goto(p, "end")
        /\ done' = [done EXCEPT ![p] = TRUE]
        /\ UNCHANGED <<procs, svcOf, life, stopRequested, arg, new, held>>
    BY <1>9 DEF AwaitClose
  <2>2. /\ \A s \in Service : procs[s] # p
        /\ \A q \in Proc : q # p => done'[q] = done[q]
    BY <2>1 DEF SupervisionInv, TableEntry, TypeOK, MayProc
  <2> QED BY <2>1, <2>2, AwaiterMove
<1>10. ASSUME NEW c \in Client, NEW s \in Service, Start(c, s) PROVE SupervisionInv'
  <2>1. PICK l \in {"idle", "spawn"} : Goto(c, l)
    BY <1>10 DEF Start, Return
  <2>2. /\ pc[c] = "idle"
        /\ arg' = [arg EXCEPT ![c] = s] /\ held' = [held EXCEPT ![c] = NoProc]
        /\ UNCHANGED <<procs, svcOf, life, stopRequested, done, new>>
    BY <1>10 DEF Start, Call, procVars
  <2> QED BY <2>1, <2>2, CallMove
<1>11. ASSUME NEW c \in Client, NEW s \in Service, NEW g \in BOOLEAN, Stop(c, s, g)
       PROVE SupervisionInv'
  <2>1. /\ pc[c] = "idle" /\ StopLookup(c, s, g)
        /\ arg' = [arg EXCEPT ![c] = s]
        /\ UNCHANGED <<procs, svcOf, life, done, new>>
    BY <1>11 DEF Stop, Call
  <2>2. \A u \in Thread : u # c => SvcArg(u)' = SvcArg(u)
    BY <2>1 DEF SvcArg, TypeOK
  <2> QED BY <2>1, <2>2, LookupSupervision DEF Announcing
<1>12. ASSUME NEW c \in Client, NEW s \in Service, Restart(c, s) PROVE SupervisionInv'
  <2>1. PICK l \in {"idle", "stop", "spawn"} : Goto(c, l)
    BY <1>12 DEF Restart, Return
  <2>2. /\ pc[c] = "idle"
        /\ arg' = [arg EXCEPT ![c] = s] /\ held' = [held EXCEPT ![c] = NoProc]
        /\ UNCHANGED <<procs, svcOf, life, stopRequested, done, new>>
    BY <1>12 DEF Restart, Call, procVars
  <2> QED BY <2>1, <2>2, CallMove
<1>13. ASSUME NEW c \in Client, RestartStop(c) PROVE SupervisionInv'
  <2>1. /\ pc[c] = "stop" /\ StopLookup(c, arg[c], TRUE)
        /\ UNCHANGED <<procs, svcOf, life, done, arg, new>>
        /\ arg[c] \in Service
    BY <1>13 DEF RestartStop, TypeOK
  <2>2. \A u \in Thread : SvcArg(u)' = SvcArg(u)
    BY <2>1 DEF SvcArg
  <2> QED BY <2>1, <2>2, LookupSupervision DEF Announcing
<1>14. ASSUME NEW c \in Client, Terminate(c) PROVE SupervisionInv'
  <2>1. PICK l \in {"drainErr", "select"} : Goto(c, l)
    BY <1>14 DEF Terminate
  <2>2. pc[c] = "term" /\ UNCHANGED <<procs, svcOf, life, stopRequested, done, arg, new, held>>
    BY <1>14 DEF Terminate
  <2> QED BY <2>1, <2>2, StopMove DEF Stopping
<1>15. ASSUME NEW c \in Client, StopSeesDone(c) PROVE SupervisionInv'
  <2>1. PICK l \in {"idle", "spawn"} : Goto(c, l)
    BY <1>15 DEF StopSeesDone, StopReturns, Return
  <2>2. pc[c] = "select" /\ UNCHANGED <<procs, svcOf, life, stopRequested, done, arg, new, held>>
    BY <1>15 DEF StopSeesDone, procVars
  <2> QED BY <2>1, <2>2, StopMove DEF Stopping
<1>16. ASSUME NEW c \in Client, StopTimeout(c) PROVE SupervisionInv'
  BY <1>16, StopMove DEF StopTimeout, procVars, Stopping
<1>17. ASSUME NEW c \in Client, Kill(c) PROVE SupervisionInv'
  <2>1. PICK l \in {"drainErr", "drain"} : Goto(c, l)
    BY <1>17 DEF Kill
  <2>2. pc[c] = "kill" /\ UNCHANGED <<procs, svcOf, life, stopRequested, done, arg, new, held>>
    BY <1>17 DEF Kill
  <2> QED BY <2>1, <2>2, StopMove DEF Stopping
<1>18. ASSUME NEW c \in Client, StopDrained(c) PROVE SupervisionInv'
  <2>1. PICK l \in {"idle", "spawn"} : Goto(c, l)
    BY <1>18 DEF StopDrained, StopReturns, Return
  <2>2. /\ pc[c] \in {"drain", "drainErr"}
        /\ UNCHANGED <<procs, svcOf, life, stopRequested, done, arg, new, held>>
    BY <1>18 DEF StopDrained, procVars
  <2> QED BY <2>1, <2>2, StopMove DEF Stopping
<1>19. CASE UNCHANGED vars
  BY <1>19
  DEF vars, procVars, threadVars, SupervisionInv, PcFits, SpawnedIsPrivate, UnbornIsUnknown,
      ProgressOrder, TableEntry, HeldIsMarked, StopWins, Announcing, SvcArg
<1> QED
  BY <1>1, <1>2, <1>3, <1>4, <1>5, <1>6, <1>7, <1>8, <1>9, <1>10, <1>11, <1>12,
     <1>13, <1>14, <1>15, <1>16, <1>17, <1>18, <1>19
  DEF Next, StartProcess, AwaitExit, ApiCall, StopSteps

THEOREM Supervision == Spec => []SupervisionInv
BY InitType, NextType, InitSupervision, NextSupervision, PTL DEF Spec

\* Stop wins over the restart policy: a runningProc that Stop has marked is
\* never restarted and never recorded as failed by its awaitExit.
THEOREM StopWinsTheorem == Spec => []StopWins
<1>1. SupervisionInv => StopWins
  BY DEF SupervisionInv
<1> QED BY <1>1, Supervision, PTL

\* Every entry of m.procs has an awaitExit that will notice its exit.
THEOREM TableIsSupervisedTheorem == Spec => []TableIsSupervised
<1>1. TypeOK /\ SupervisionInv => TableIsSupervised
  BY DEF SupervisionInv, TableEntry, ProgressOrder, TableIsSupervised, TypeOK, MayProc
<1> QED BY <1>1, TypeCorrect, Supervision, PTL

-----------------------------------------------------------------------------
(* What Stop promises to its caller.                                          *)

\* A client that serves Stop never runs startProcess, and returns nil only after
\* done of the process it found was closed.
StopOutcome ==
  \A c \in Client :
    op[c] = "stop" =>
      /\ pc[c] \notin Starting \cup {"stop"}
      /\ pc[c] = "idle" /\ res[c] = "ok" => held[c] \in Proc /\ done[held[c]]

LEMMA NextStopOutcome ==
  TypeOK /\ SupervisionInv /\ StopOutcome /\ [Next]_vars => StopOutcome'
<1> SUFFICES ASSUME TypeOK, SupervisionInv, StopOutcome, [Next]_vars PROVE StopOutcome'
  OBVIOUS
<1>0. /\ \A c \in Client : c \in Thread /\ c \notin Proc
      /\ Client \subseteq Thread /\ Proc \subseteq Thread
      /\ pc \in [Thread -> Places]
  BY ThreadAssumption DEF Thread, TypeOK, Places
<1>1. ASSUME NEW t \in Thread, Spawn(t) \/ SpawnFails(t) \/ Install(t) PROVE StopOutcome'
  BY <1>1, <1>0 DEF Spawn, SpawnFails, Install, Goto, Return, StopOutcome, Starting,
                    procVars, TypeOK
<1>2. ASSUME NEW t \in Thread, PersistRunning(t) PROVE StopOutcome'
  <2>1. new[t] \in Proc /\ pc[t] = "persist"
    BY <1>2 DEF PersistRunning, SupervisionInv, SpawnedIsPrivate, Announcing
  <2>2. \A c \in Client : op[c] = "stop" => c # t /\ c # new[t]
    BY <1>0, <2>1 DEF StopOutcome, Starting
  <2>3. \A c \in Client : op[c] = "stop" => pc'[c] = pc[c] /\ res'[c] = res[c]
    BY <1>2, <1>0, <2>2 DEF PersistRunning, TypeOK
  <2> QED BY <1>2, <2>3 DEF PersistRunning, StopOutcome, procVars
<1>3. ASSUME NEW p \in Proc, Exit(p) PROVE StopOutcome'
  BY <1>3 DEF Exit, threadVars, StopOutcome
<1>4. ASSUME NEW p \in Proc, Wait(p) \/ AwaitLock(p) \/ AwaitPersist(p) PROVE StopOutcome'
  <2>1. UNCHANGED <<op, held, res, done>> /\ \E l \in Places : Goto(p, l)
    BY <1>4, PlaceNames DEF Wait, AwaitLock, AwaitPersist, procVars
  <2>2. \A c \in Client : pc'[c] = pc[c]
    BY <1>0, <2>1 DEF Goto
  <2> QED BY <2>1, <2>2 DEF StopOutcome
<1>5. ASSUME NEW p \in Proc, AwaitClose(p) PROVE StopOutcome'
  <2>1. /\ UNCHANGED <<op, held, res>> /\ Goto(p, "end")
        /\ done' = [done EXCEPT ![p] = TRUE]
    BY <1>5 DEF AwaitClose
  <2>2. \A c \in Client : pc'[c] = pc[c]
    BY <1>0, <2>1 DEF Goto
  <2> QED BY <2>1, <2>2 DEF StopOutcome, TypeOK
<1>6. ASSUME NEW c \in Client, NEW s \in Service, Start(c, s) \/ Restart(c, s)
      PROVE StopOutcome'
  BY <1>6, <1>0 DEF Start, Restart, Call, Goto, Return, StopOutcome, procVars, TypeOK
<1>7. ASSUME NEW c \in Client, NEW s \in Service, NEW g \in BOOLEAN, Stop(c, s, g)
      PROVE StopOutcome'
  BY <1>7, <1>0 DEF Stop, Call, StopLookup, Goto, Return, StopOutcome, TypeOK, Starting
<1>8. ASSUME NEW c \in Client, RestartStop(c) PROVE StopOutcome'
  BY <1>8, <1>0 DEF RestartStop, StopLookup, Goto, Return, StopOutcome, TypeOK
<1>9. ASSUME NEW c \in Client, Terminate(c) \/ Kill(c) \/ StopTimeout(c) PROVE StopOutcome'
  BY <1>9, <1>0 DEF Terminate, Kill, StopTimeout, Goto, StopOutcome, Starting, TypeOK, procVars
<1>10. ASSUME NEW c \in Client, StopSeesDone(c) \/ StopDrained(c) PROVE StopOutcome'
  <2>1. /\ UNCHANGED <<op, held, done>>
        /\ pc[c] \in Stopping /\ done[held[c]]
        /\ StopReturns(c) \/ Return(c, "killErr")
    BY <1>10 DEF StopSeesDone, StopDrained, procVars, Stopping
  <2>2. held[c] \in Proc
    BY <2>1 DEF SupervisionInv, HeldIsMarked
  <2> QED BY <2>1, <2>2, <1>0 DEF StopReturns, Return, Goto, StopOutcome, Starting, TypeOK
<1>11. CASE UNCHANGED vars
  BY <1>11 DEF vars, procVars, threadVars, StopOutcome
<1> QED
  BY <1>1, <1>2, <1>3, <1>4, <1>5, <1>6, <1>7, <1>8, <1>9, <1>10, <1>11
  DEF Next, StartProcess, AwaitExit, ApiCall, StopSteps

\* Stop is complete: when it returns nil, the process it found is reaped, its
\* awaitExit has finished and m.procs does not hold it any more.
THEOREM StopIsCompleteTheorem == Spec => []StopIsComplete
<1>1. Init => StopOutcome
  BY DEF Init, StopOutcome
<1>2. TypeOK /\ SupervisionInv /\ StopOutcome => StopIsComplete
  BY DEF TypeOK, SupervisionInv, StopOutcome, StopIsComplete, ProgressOrder, TableEntry,
         Tracked
<1> QED BY <1>1, <1>2, TypeCorrect, Supervision, NextStopOutcome, PTL DEF Spec

-----------------------------------------------------------------------------
(* What the rows of `services` say.                                           *)

\* A row that says running belongs to the service of the process it names, and
\* the awaitExit of that process has a write to come.
RunningRow ==
  \A s \in Service :
    rec[s].status = "running" =>
      /\ rec[s].pid \in Proc
      /\ svcOf[rec[s].pid] = s
      /\ pc[rec[s].pid] \in {"wait", "lock", "stopped", "failed"} \cup Starting

LEMMA NextRunningRow ==
  ASSUME ~StoreMayFail
  PROVE  TypeOK /\ SupervisionInv /\ RunningRow /\ [Next]_vars => RunningRow'
<1> SUFFICES ASSUME TypeOK, SupervisionInv, RunningRow, [Next]_vars PROVE RunningRow'
  OBVIOUS
<1>0. /\ \A c \in Client : c \in Thread /\ c \notin Proc
      /\ \A p \in Proc : p \in Thread /\ p \notin Client
      /\ pc \in [Thread -> Places]
  BY ThreadAssumption DEF Thread, TypeOK, Places
<1>1. ASSUME NEW c \in Client, UNCHANGED <<rec, svcOf>>,
             \A p \in Proc : pc'[p] = pc[p]
      PROVE RunningRow'
  BY <1>1 DEF RunningRow
<1>2. ASSUME NEW t \in Thread, Spawn(t) PROVE RunningRow'
  <2>1. PICK p \in Proc : life[p] = "unborn" /\ svcOf' = [svcOf EXCEPT ![p] = SvcArg(t)]
    BY <1>2 DEF Spawn
  <2>2. pc[p] = "none"
    BY <2>1 DEF SupervisionInv, UnbornIsUnknown
  <2> QED BY <1>2, <1>0, <2>1, <2>2 DEF Spawn, Goto, RunningRow, Starting, TypeOK
<1>3. ASSUME NEW t \in Thread, SpawnFails(t) \/ Install(t) PROVE RunningRow'
  BY <1>3, <1>0 DEF SpawnFails, Install, Goto, Return, RunningRow, Starting, procVars
<1>4. ASSUME NEW t \in Thread, PersistRunning(t) PROVE RunningRow'
  <2>1. /\ new[t] \in Proc /\ pc[t] = "persist" /\ pc[new[t]] = "none"
        /\ svcOf[new[t]] = SvcArg(t)
    BY <1>4 DEF PersistRunning, SupervisionInv, SpawnedIsPrivate, Announcing
  <2>2. /\ rec' = [rec EXCEPT ![SvcArg(t)] = [status |-> "running", pid |-> new[t]]]
        /\ UNCHANGED svcOf
    BY <1>4 DEF PersistRunning, Persist, procVars
  <2>3. SvcArg(t) \in Service
    BY SvcArgType
  <2>4. pc'[new[t]] = "wait" /\ \A p \in Proc : p # t /\ p # new[t] => pc'[p] = pc[p]
    BY <1>4, <1>0, <2>1 DEF PersistRunning
  <2>5. ASSUME NEW s \in Service, rec'[s].status = "running"
        PROVE  /\ rec'[s].pid \in Proc
               /\ svcOf'[rec'[s].pid] = s
               /\ pc'[rec'[s].pid] \in {"wait", "lock", "stopped", "failed"} \cup Starting
    <3>1. CASE s = SvcArg(t)
      BY <2>1, <2>2, <2>3, <2>4, <3>1 DEF TypeOK
    <3>2. CASE s # SvcArg(t)
      <4>1. rec'[s] = rec[s]
        BY <2>2, <3>2 DEF TypeOK
      <4>2. rec[s].pid # new[t]
        BY <2>1, <2>5, <4>1 DEF RunningRow, Starting
      <4>3. rec[s].pid # t
        BY <1>0, <2>5, <3>2, <4>1 DEF RunningRow, SvcArg
      <4> QED BY <2>2, <2>4, <2>5, <4>1, <4>2, <4>3 DEF RunningRow
    <3> QED BY <3>1, <3>2
  <2> QED BY <2>5 DEF RunningRow
<1>5. ASSUME NEW p \in Proc, Exit(p) PROVE RunningRow'
  BY <1>5 DEF Exit, threadVars, RunningRow
<1>6. ASSUME NEW p \in Proc, Wait(p) \/ AwaitLock(p) PROVE RunningRow'
  <2>1. UNCHANGED <<rec, svcOf>> /\ \E l \in {"lock", "stopped", "failed", "spawn"} : Goto(p, l)
    BY <1>6 DEF Wait, AwaitLock, procVars
  <2> QED BY <1>0, <2>1 DEF Goto, RunningRow, Starting
<1>7. ASSUME NEW p \in Proc, AwaitPersist(p) PROVE RunningRow'
  <2>1. /\ rec' = [rec EXCEPT ![svcOf[p]] = [status |-> pc[p], pid |-> NoProc]]
        /\ pc[p] \in {"stopped", "failed"} /\ pc' = [pc EXCEPT ![p] = "close"]
        /\ UNCHANGED svcOf
    BY <1>7 DEF AwaitPersist, Persist, Goto, procVars
  <2>2. ASSUME NEW s \in Service, rec'[s].status = "running"
        PROVE  s # svcOf[p] /\ rec'[s] = rec[s]
    BY <2>1, <2>2 DEF TypeOK
  <2> QED BY <1>0, <2>1, <2>2 DEF RunningRow
<1>8. ASSUME NEW p \in Proc, AwaitClose(p) PROVE RunningRow'
  BY <1>8, <1>0 DEF AwaitClose, Goto, RunningRow, Starting
<1>9. ASSUME NEW c \in Client, NEW s \in Service,
             Start(c, s) \/ Restart(c, s) \/ \E g \in BOOLEAN : Stop(c, s, g)
      PROVE RunningRow'
  <2>1. UNCHANGED <<rec, svcOf>> /\ \E l \in Places : Goto(c, l)
    BY <1>9, PlaceNames DEF Start, Restart, Stop, StopLookup, Return, procVars
  <2> QED BY <1>0, <1>1, <2>1 DEF Goto
<1>10. ASSUME NEW c \in Client, StopSteps(c) PROVE RunningRow'
  <2>1. UNCHANGED <<rec, svcOf>> /\ \E l \in Places : Goto(c, l)
    BY <1>10, PlaceNames DEF StopSteps, RestartStop, StopLookup, Terminate, StopSeesDone,
      StopTimeout, Kill, StopDrained, StopReturns, Return, procVars
  <2> QED BY <1>0, <1>1, <2>1 DEF Goto
<1>11. CASE UNCHANGED vars
  BY <1>11 DEF vars, procVars, threadVars, RunningRow
<1> QED
  BY <1>2, <1>3, <1>4, <1>5, <1>6, <1>7, <1>8, <1>9, <1>10, <1>11
  DEF Next, StartProcess, AwaitExit, ApiCall

\* With a store that does not fail, no row says running of a process whose
\* awaitExit has made its last write.
THEOREM RunningRowIsPendingTheorem ==
  ASSUME ~StoreMayFail
  PROVE  Spec => []RunningRowIsPending
<1>1. Init => RunningRow
  BY DEF Init, RunningRow
<1>2. RunningRow => RunningRowIsPending
  BY DEF RunningRow, RunningRowIsPending
<1> QED BY <1>1, <1>2, TypeCorrect, Supervision, NextRunningRow, PTL DEF Spec
=============================================================================
