---------------------------- MODULE ExtensionsProofs ----------------------------
(***************************************************************************)
(* Theorems about Extensions for any number of goroutines, extensions and  *)
(* subprocesses, with or without a failing database and the daemon's       *)
(* death: the lockstep of PluginHost first, then what the repository       *)
(* promises of an extension that no two requests were busy with at once.   *)
(***************************************************************************)
EXTENDS Extensions, TLAPS

\* Where a goroutine waits for a line, has a reader that may be its own, holds e.mu,
\* and works with a provider.
WaitPC   == {"await", "handshake"}
ReaderPC == WaitPC \cup {"close"}
HolderPC == ReaderPC \cup {"reap"}
KnownPC  == HostPC \cup {"store", "register", "unregister"}

OnKnown == \A t \in Thread : pc[t] \in KnownPC => on[t] \in Instance

LockHeld == \A t \in Thread : pc[t] \in HolderPC => mu[on[t]] = t

\* A reader that may still meet a request of another goroutine belongs to one that
\* holds the lock; every other provider with a reader is closed.
ReaderOwned ==
  \A i \in Instance : readers[i] > 0 =>
    proc[i] # "none" /\ (closed[i] \/ \E t \in Thread : on[t] = i /\ pc[t] \in ReaderPC)

WaiterReads == \A t \in Thread : pc[t] \in WaitPC => readers[on[t]] = 1

DownIsIdle == daemon = "down" => \A t \in Thread : pc[t] = "idle"

HostInv == TypeOK /\ OnKnown /\ LockHeld /\ ReaderOwned /\ WaiterReads /\ DownIsIdle /\ ReaderIsAlone

USE HostAssumption, ExtAssumption

LEMMA InitHost == Init => HostInv
<1> SUFFICES ASSUME Init PROVE HostInv
  OBVIOUS
<1>1. TypeOK
  BY DEF Init, HostInit, TypeOK, HostTypeOK, AdminPC, FreshRegistry
<1>2. OnKnown /\ LockHeld /\ ReaderOwned /\ WaiterReads /\ DownIsIdle /\ ReaderIsAlone
  BY DEF Init, HostInit, OnKnown, LockHeld, ReaderOwned, WaiterReads, DownIsIdle, ReaderIsAlone,
         WaitPC, ReaderPC, HolderPC, KnownPC, HostPC
<1> QED BY <1>1, <1>2 DEF HostInv

-----------------------------------------------------------------------------
(* Steps that leave the provider alone: of the repository, of a handler that  *)
(* comes or goes.                                                             *)

LEMMA Outside ==
  ASSUME HostInv, TypeOK', NEW t \in Thread, NEW l, UNCHANGED <<proc, closed, mu, readers>>,
         Goto(t, l), \A e \in Thread : e # t => on'[e] = on[e],
         pc[t] \notin HolderPC, l \notin HolderPC, l \in KnownPC => on'[t] \in Instance,
         daemon' = "down" => daemon = "down" /\ pc[t] # "idle"
  PROVE  HostInv'
<1>1. /\ \A e \in Thread : e # t => pc'[e] = pc[e]
      /\ pc'[t] = l
  BY DEF Goto, HostInv, TypeOK, HostTypeOK
<1>2. OnKnown' /\ DownIsIdle'
  BY <1>1 DEF HostInv, OnKnown, DownIsIdle
<1>3. LockHeld' /\ WaiterReads'
  BY <1>1 DEF HostInv, LockHeld, WaiterReads, HolderPC, ReaderPC
<1>4. ReaderOwned' /\ ReaderIsAlone'
  BY <1>1 DEF HostInv, ReaderOwned, ReaderIsAlone, HolderPC
<1> QED BY <1>2, <1>3, <1>4 DEF HostInv

LEMMA AnswerKeeps ==
  ASSUME HostInv, TypeOK', NEW a \in Admin, Answer(a), UNCHANGED <<proc, closed, mu, readers, daemon>>,
         pc[a] \notin HolderPC \cup {"idle"}
  PROVE  HostInv'
<1> DEFINE l == IF op[a] = "boot" THEN "boot" ELSE "idle"
<1>1. Goto(a, l) /\ l \in {"boot", "idle"} /\ \A e \in Thread : e # a => on'[e] = on[e]
  BY DEF Answer, HostInv, TypeOK, HostTypeOK
<1>2. l \notin HolderPC /\ l \notin KnownPC
  BY <1>1 DEF HolderPC, ReaderPC, WaitPC, KnownPC, HostPC
<1> HIDE DEF l
<1> QED BY <1>1, <1>2, Outside

LEMMA SetEnabledType ==
  ASSUME TypeOK, NEW a \in Admin, NEW s \in {"enabled", "disabled"}, SetEnabled(a, s)
  PROVE  /\ row' \in [Ext -> {"none", "disabled", "enabled", "removed"}]
         /\ op' \in [Admin -> {"none", "enable", "disable", "remove", "boot"}]
         /\ pc' \in [Thread -> HostPC \cup AdminPC]
         /\ on' \in [Thread -> Instance \cup {None}]
         /\ after' \in [Thread -> AdminPC]
<1>1. CASE Answer(a)
  BY <1>1 DEF SetEnabled, Answer, Goto, TypeOK, HostTypeOK, AdminPC
<1>2. CASE Continue(a, "delete")
  BY <1>2 DEF SetEnabled, Continue, Answer, Goto, TypeOK, HostTypeOK, AdminPC
<1> QED BY <1>1, <1>2 DEF SetEnabled

LEMMA AdminType ==
  ASSUME TypeOK, OnKnown, NEW a \in Admin, AdminSteps(a)
  PROVE  TypeOK'
<1>t. a \in Thread
  OBVIOUS
<1>1. CASE Evict(a)
  BY <1>1, <1>t DEF Evict, Goto, TypeOK, HostTypeOK, AdminPC, HostPC
<1>2. CASE Evicted(a)
  BY <1>2, <1>t DEF Evicted, HostRest, Goto, TypeOK, HostTypeOK, AdminPC
<1>3. CASE Spawn(a)
  <2>1. (\E i \in Instance : proc[i] = "none") => NewInstance \in Instance
    BY DEF NewInstance
  <2> QED BY <1>3, <1>t, <2>1 DEF Spawn, Launch, Lock, Answer, Goto, TypeOK, HostTypeOK, AdminPC, HostPC
<1>4. CASE LoadFailed(a)
  BY <1>4, <1>t DEF LoadFailed, Answer, Goto, TypeOK, HostTypeOK, AdminPC
<1>5. CASE Store(a)
  BY <1>5, <1>t DEF Store, HostRest, Goto, TypeOK, HostTypeOK, AdminPC, OnKnown, KnownPC
<1>6. CASE Register(a)
  BY <1>6, <1>t DEF Register, Answer, Continue, Goto, TypeOK, HostTypeOK, AdminPC, OnKnown, KnownPC
<1>7. CASE Enable(a)
  BY <1>7, <1>t, SetEnabledType DEF Enable, TypeOK, HostTypeOK
<1>8. CASE Recheck(a)
  BY <1>8, <1>t DEF Recheck, Answer, Continue, Goto, TypeOK, HostTypeOK, AdminPC
<1>9. CASE Take(a)
  BY <1>9, <1>t DEF Take, Goto, TypeOK, HostTypeOK, AdminPC
<1>10. CASE Unregister(a)
  BY <1>10, <1>t DEF Unregister, HostRest, Goto, TypeOK, HostTypeOK, AdminPC, HostPC
<1>11. CASE Disable(a)
  BY <1>11, <1>t, SetEnabledType DEF Disable, TypeOK, HostTypeOK
<1>12. CASE Delete(a)
  BY <1>12, <1>t DEF Delete, Answer, Goto, TypeOK, HostTypeOK, AdminPC
<1>13. CASE LoadNext(a)
  BY <1>13, <1>t DEF LoadNext, Meet, HostRest, Goto, TypeOK, HostTypeOK, AdminPC
<1> QED BY <1>1, <1>2, <1>3, <1>4, <1>5, <1>6, <1>7, <1>8, <1>9, <1>10, <1>11, <1>12, <1>13 DEF AdminSteps

LEMMA AdminKeeps ==
  ASSUME HostInv, NEW a \in Admin, AdminSteps(a)
  PROVE  HostInv'
<1>t. a \in Thread /\ TypeOK /\ OnKnown /\ TypeOK'
  BY AdminType DEF HostInv
<1>p. "spawn" \notin HolderPC /\ "failed" \notin HolderPC /\ "store" \notin HolderPC
      /\ "lock" \notin HolderPC /\ "register" \notin HolderPC /\ "enable" \notin HolderPC
      /\ "take" \notin HolderPC /\ "disable" \notin HolderPC /\ "unregister" \notin HolderPC
      /\ "delete" \notin HolderPC /\ "evict" \notin HolderPC /\ "evicted" \notin HolderPC
      /\ "idle" \notin HolderPC /\ "boot" \notin HolderPC /\ "recheck" \notin HolderPC
  BY DEF HolderPC, ReaderPC, WaitPC
<1>q. {"spawn", "enable", "take", "disable", "delete", "evict", "idle", "boot"} \cap KnownPC = {}
  BY DEF KnownPC, HostPC
<1>k. {"store", "register", "unregister", "lock"} \subseteq KnownPC
  BY DEF KnownPC, HostPC
<1>1. CASE Evict(a)
  <2>1. \/ Goto(a, "spawn") /\ UNCHANGED on
        \/ Goto(a, "lock") /\ on' = [on EXCEPT ![a] = loaded[arg[a]]] /\ loaded[arg[a]] \in Instance
    BY <1>1, <1>t DEF Evict, TypeOK
  <2>2. /\ pc[a] = "evict"
        /\ UNCHANGED <<proc, closed, mu, readers, daemon>> /\ on \in [Thread -> Instance \cup {None}]
    BY <1>1, <1>t DEF Evict, TypeOK, HostTypeOK
  <2> QED BY <1>p, <1>q, <1>t, <2>1, <2>2, Outside
<1>2. CASE Evicted(a)
  BY <1>2, <1>p, <1>q, <1>t, Outside DEF Evicted, HostRest
<1>3. CASE Spawn(a)
  <2>1. CASE Answer(a) /\ UNCHANGED <<proc, closed, mu, readers, extOf>>
    BY <1>3, <1>p, <1>t, <2>1, AnswerKeeps DEF Spawn
  <2>2. CASE (\E i \in Instance : proc[i] = "none") /\ Launch(a, NewInstance)
    <3> DEFINE i == NewInstance
    <3>1. i \in Instance
      BY <2>2 DEF NewInstance
    <3>2. /\ proc[i] = "none" /\ proc' = [proc EXCEPT ![i] = "up"]
          /\ mu[i] = None /\ mu' = [mu EXCEPT ![i] = a]
          /\ readers' = [readers EXCEPT ![i] = @ + 1]
          /\ on' = [on EXCEPT ![a] = i] /\ pc' = [pc EXCEPT ![a] = "handshake"]
          /\ UNCHANGED <<closed, daemon>> /\ pc[a] = "spawn"
      BY <1>3, <2>2 DEF Spawn, Launch, Lock, Goto
    <3> HIDE DEF i
    <3>3. readers[i] = 0 /\ readers'[i] = 1
      BY <1>t, <3>1, <3>2 DEF HostInv, ReaderOwned, TypeOK, HostTypeOK
    <3>4. \A e \in Thread : pc[e] \in HolderPC => on[e] \in Instance /\ on[e] # i
      BY <1>t, <3>1, <3>2 DEF HostInv, LockHeld, OnKnown, HolderPC, ReaderPC, WaitPC, KnownPC, HostPC
    <3>5. OnKnown' /\ LockHeld'
      BY <1>p, <1>t, <3>1, <3>2, <3>4 DEF HostInv, OnKnown, LockHeld, TypeOK, HostTypeOK
    <3>6. ReaderOwned'
      BY <1>p, <1>t, <3>1, <3>2, <3>3, <3>4 DEF HostInv, ReaderOwned, TypeOK, HostTypeOK, HolderPC,
         ReaderPC, WaitPC
    <3>7. WaiterReads'
      BY <1>p, <1>t, <3>1, <3>2, <3>3, <3>4 DEF HostInv, WaiterReads, TypeOK, HostTypeOK, HolderPC,
         ReaderPC, WaitPC
    <3>8. DownIsIdle' /\ ReaderIsAlone'
      BY <1>t, <3>1, <3>2, <3>3 DEF HostInv, DownIsIdle, ReaderIsAlone, TypeOK, HostTypeOK
    <3> QED BY <1>t, <3>5, <3>6, <3>7, <3>8 DEF HostInv
  <2> QED BY <1>3, <2>1, <2>2 DEF Spawn
<1>4. CASE LoadFailed(a)
  BY <1>4, <1>p, <1>t, AnswerKeeps DEF LoadFailed
<1>5. CASE Store(a)
  BY <1>5, <1>k, <1>p, <1>t, Outside DEF Store, HostRest, OnKnown
<1>6. CASE Register(a)
  BY <1>6, <1>p, <1>q, <1>t, AnswerKeeps, Outside DEF Register, Continue
<1>7. CASE Enable(a)
  BY <1>7, <1>p, <1>q, <1>t, AnswerKeeps, Outside DEF Enable, SetEnabled, Continue
<1>8. CASE Recheck(a)
  BY <1>8, <1>p, <1>q, <1>t, AnswerKeeps, Outside DEF Recheck, Continue
<1>9. CASE Take(a)
  <2>1. \/ Goto(a, "disable") /\ UNCHANGED on
        \/ Goto(a, "unregister") /\ on' = [on EXCEPT ![a] = loaded[arg[a]]] /\ loaded[arg[a]] \in Instance
    BY <1>9, <1>t DEF Take, TypeOK
  <2>2. /\ pc[a] = "take"
        /\ UNCHANGED <<proc, closed, mu, readers, daemon>> /\ on \in [Thread -> Instance \cup {None}]
    BY <1>9, <1>t DEF Take, TypeOK, HostTypeOK
  <2> QED BY <1>p, <1>q, <1>t, <2>1, <2>2, Outside
<1>10. CASE Unregister(a)
  BY <1>10, <1>k, <1>p, <1>t, Outside DEF Unregister, HostRest, OnKnown
<1>11. CASE Disable(a)
  BY <1>11, <1>p, <1>q, <1>t, AnswerKeeps, Outside DEF Disable, SetEnabled, Continue
<1>12. CASE Delete(a)
  BY <1>12, <1>p, <1>t, AnswerKeeps DEF Delete
<1>13. CASE LoadNext(a)
  <2>1. (Goto(a, "idle") \/ Goto(a, "evict")) /\ pc[a] = "boot" /\ UNCHANGED HostRest
        /\ (daemon' = "up" \/ daemon' = daemon)
    BY <1>13 DEF LoadNext
  <2> QED BY <1>p, <1>q, <1>t, <2>1, Outside DEF HostRest
<1> QED BY <1>1, <1>2, <1>3, <1>4, <1>5, <1>6, <1>7, <1>8, <1>9, <1>10, <1>11, <1>12, <1>13 DEF AdminSteps

-----------------------------------------------------------------------------
(* The goroutine in the package pluginhost                                    *)

LEMMA HostType ==
  ASSUME HostInv, NEW t \in Thread, HostSteps(t), UNCHANGED repoVars
  PROVE  TypeOK'
<1>t. TypeOK /\ pc[t] \in HostPC \cup AdminPC /\ after[t] \in AdminPC
  BY DEF HostInv, TypeOK, HostTypeOK
<1>r. \A i \in Instance : readers[i] \in Nat /\ readers[i] + 1 \in Nat
  BY <1>t DEF TypeOK, HostTypeOK
<1>1. CASE Ask(t)
  BY <1>1, <1>t, <1>r DEF Ask, Lock, Goto, repoVars, TypeOK, HostTypeOK, HostPC
<1>2. CASE Accept(t) \/ Reject(t)
  <2>1. on[t] \in Instance /\ readers[on[t]] = 1
    BY <1>2 DEF Accept, Reject, HostInv, OnKnown, WaiterReads, WaitPC, KnownPC, HostPC
  <2>2. readers' \in [Instance -> Nat]
    BY <1>2, <1>t, <2>1 DEF Accept, Reject, ReadLine, TypeOK, HostTypeOK
  <2> QED BY <1>2, <1>t, <2>2
          DEF Accept, Reject, Return, Unlock, Goto, repoVars, TypeOK, HostTypeOK, HostPC, AdminPC
<1>3. CASE Refuse(t) \/ Reap(t)
  BY <1>3, <1>t DEF Refuse, Reap, Return, Unlock, Goto, repoVars, TypeOK, HostTypeOK
<1>4. CASE WriteFails(t) \/ Timeout(t) \/ LockToClose(t)
  BY <1>4, <1>t DEF WriteFails, Timeout, LockToClose, Lock, Goto, repoVars, TypeOK, HostTypeOK, HostPC
<1>5. CASE CloseLocked(t)
  BY <1>5, <1>t DEF CloseLocked, Goto, repoVars, TypeOK, HostTypeOK, HostPC
<1> QED BY <1>1, <1>2, <1>3, <1>4, <1>5 DEF HostSteps, OwnSteps, Receive

\* After a call or a Close the goroutine is back in its own code, on the same
\* provider or on none.
LEMMA ReturnMoves ==
  ASSUME TypeOK, NEW t \in Thread, Return(t), on[t] \in Instance
  PROVE  /\ \A e \in Thread : e # t => pc'[e] = pc[e] /\ on'[e] = on[e]
         /\ pc'[t] = after[t] /\ pc'[t] \notin HolderPC
         /\ pc'[t] \in KnownPC => on'[t] = on[t]
BY DEF Return, Goto, TypeOK, HostTypeOK, AdminPC, HolderPC, ReaderPC, WaitPC, KnownPC, HostPC

LEMMA HostKeeps ==
  ASSUME HostInv, NEW t \in Thread, HostSteps(t), UNCHANGED repoVars
  PROVE  HostInv'
<1> DEFINE i == on[t]
<1>t. /\ TypeOK /\ TypeOK' /\ OnKnown /\ LockHeld /\ ReaderOwned /\ WaiterReads /\ DownIsIdle /\ ReaderIsAlone
      /\ UNCHANGED daemon
  BY HostType DEF HostInv, repoVars
<1>p. pc[t] \in HostPC /\ i \in Instance
  BY <1>t DEF HostSteps, OwnSteps, Receive, Refuse, Ask, WriteFails, Timeout, LockToClose, CloseLocked, Reap,
              Accept, Reject, HostPC, OnKnown, KnownPC
<1>d. daemon # "down"
  BY <1>p, <1>t DEF DownIsIdle, HostPC
\* Nobody else is at a place where it holds the lock of this provider.
<1>h. ASSUME mu[i] \in {None, t}
      PROVE  \A e \in Thread : e # t /\ pc[e] \in HolderPC => on[e] \in Instance /\ on[e] # i
  BY <1>h, <1>t DEF LockHeld, OnKnown, HolderPC, ReaderPC, WaitPC, KnownPC, HostPC
<1>o. ASSUME NEW l, Goto(t, l), UNCHANGED on
      PROVE  \A e \in Thread : on'[e] = on[e] /\ pc'[e] = IF e = t THEN l ELSE pc[e]
  BY <1>o, <1>t DEF Goto, TypeOK, HostTypeOK
\* Every change to the provider is under its lock.
<1>g. ASSUME mu[i] \in {None, t},
             \A j \in Instance : j # i => mu'[j] = mu[j] /\ readers'[j] = readers[j] /\ closed'[j] = closed[j],
             UNCHANGED proc,
             \A e \in Thread : e # t => pc'[e] = pc[e] /\ on'[e] = on[e],
             pc'[t] \in KnownPC => on'[t] = i,
             pc'[t] \in HolderPC => mu'[i] = t,
             pc'[t] \in WaitPC => readers'[i] = 1,
             readers'[i] <= 1,
             readers'[i] > 0 => proc[i] # "none" /\ (closed'[i] \/ (on'[t] = i /\ pc'[t] \in ReaderPC))
      PROVE  HostInv'
  <2>1. \A e \in Thread : e # t /\ pc[e] \in HolderPC => on[e] \in Instance /\ on[e] # i
    BY <1>g, <1>h
  <2>2. WaitPC \subseteq ReaderPC /\ ReaderPC \subseteq HolderPC /\ HolderPC \subseteq KnownPC
    BY DEF HolderPC, ReaderPC, WaitPC, KnownPC, HostPC
  <2>3. OnKnown' /\ DownIsIdle'
    BY <1>d, <1>g, <1>p, <1>t DEF OnKnown, DownIsIdle
  <2>4. LockHeld'
    BY <1>g, <1>t, <2>1, <2>2 DEF LockHeld
  <2>5. WaiterReads'
    BY <1>g, <1>t, <2>1, <2>2 DEF WaiterReads
  <2>6. ReaderIsAlone'
    BY <1>g, <1>t DEF ReaderIsAlone
  <2>7. ReaderOwned'
    <3> SUFFICES ASSUME NEW j \in Instance, readers'[j] > 0
                 PROVE  proc'[j] # "none" /\ (closed'[j] \/ \E e \in Thread : on'[e] = j /\ pc'[e] \in ReaderPC)
      BY DEF ReaderOwned
    <3>1. CASE j = i
      BY <1>g, <3>1
    <3>2. CASE j # i
      BY <1>g, <1>t, <3>2 DEF ReaderOwned
    <3> QED BY <3>1, <3>2
  <2> QED BY <1>t, <2>3, <2>4, <2>5, <2>6, <2>7 DEF HostInv
<1>n. readers[i] \in Nat /\ mu \in [Instance -> Thread \cup {None}] /\ readers \in [Instance -> Nat]
      /\ closed \in [Instance -> BOOLEAN]
  BY <1>p, <1>t DEF TypeOK, HostTypeOK
<1>1. CASE Refuse(t)
  <2>1. pc[t] = "enter" /\ mu[i] = None /\ Return(t) /\ closed[i] /\ UNCHANGED <<proc, closed, mu, readers>>
    BY <1>1 DEF Refuse
  <2> QED BY <1>g, <1>p, <1>t, <2>1, ReturnMoves DEF ReaderOwned, ReaderIsAlone, HolderPC, ReaderPC
<1>2. CASE Ask(t)
  <2>1. /\ mu[i] = None /\ mu' = [mu EXCEPT ![i] = t] /\ Goto(t, "await") /\ UNCHANGED <<proc, closed, on>>
        /\ readers' = [readers EXCEPT ![i] = @ + 1] /\ ~closed[i] /\ proc[i] = "up" /\ pc[t] = "enter"
    BY <1>2 DEF Ask, Lock
  <2>2. readers[i] = 0
    <3>1. ~ \E e \in Thread : on[e] = i /\ pc[e] \in ReaderPC
      BY <1>h, <2>1 DEF ReaderPC, HolderPC, WaitPC
    <3> QED BY <1>n, <1>p, <1>t, <2>1, <3>1 DEF ReaderOwned
  <2>3. "await" \in WaitPC /\ "await" \in ReaderPC
    BY DEF WaitPC, ReaderPC
  <2> QED BY <1>g, <1>n, <1>o, <1>p, <2>1, <2>2, <2>3
<1>3. CASE WriteFails(t)
  <2>1. /\ mu[i] = None /\ mu' = [mu EXCEPT ![i] = t] /\ Goto(t, "close") /\ UNCHANGED <<proc, closed, on, readers>>
    BY <1>3 DEF WriteFails, Lock
  <2>2. "close" \notin WaitPC /\ "close" \in ReaderPC
    BY DEF WaitPC, ReaderPC
  <2> QED BY <1>g, <1>n, <1>o, <1>p, <1>t, <2>1, <2>2 DEF ReaderOwned, ReaderIsAlone
<1>4. CASE Timeout(t)
  <2>1. Goto(t, "close") /\ UNCHANGED <<proc, closed, on, mu, readers>> /\ pc[t] \in WaitPC
    BY <1>4 DEF Timeout, WaitPC
  <2>2. "close" \notin WaitPC /\ "close" \in ReaderPC /\ mu[i] = t
    BY <1>t, <2>1 DEF WaitPC, ReaderPC, HolderPC, LockHeld
  <2> QED BY <1>g, <1>n, <1>o, <1>p, <1>t, <2>1, <2>2 DEF ReaderOwned, ReaderIsAlone
<1>5. CASE LockToClose(t)
  <2>1. /\ mu[i] = None /\ mu' = [mu EXCEPT ![i] = t] /\ Goto(t, "close") /\ UNCHANGED <<proc, closed, on, readers>>
    BY <1>5 DEF LockToClose, Lock
  <2>2. "close" \notin WaitPC /\ "close" \in ReaderPC
    BY DEF WaitPC, ReaderPC
  <2> QED BY <1>g, <1>n, <1>o, <1>p, <1>t, <2>1, <2>2 DEF ReaderOwned, ReaderIsAlone
<1>6. CASE CloseLocked(t)
  <2>1. Goto(t, "reap") /\ closed' = [closed EXCEPT ![i] = TRUE] /\ UNCHANGED <<proc, on, mu, readers>> /\ pc[t] = "close"
    BY <1>6 DEF CloseLocked
  <2>2. "reap" \notin WaitPC /\ mu[i] = t
    BY <1>t, <2>1 DEF WaitPC, ReaderPC, HolderPC, LockHeld
  <2> QED BY <1>g, <1>n, <1>o, <1>p, <1>t, <2>1, <2>2 DEF ReaderOwned, ReaderIsAlone
<1>7. CASE Reap(t)
  <2>1. pc[t] = "reap" /\ mu' = [mu EXCEPT ![i] = None] /\ Return(t) /\ UNCHANGED <<proc, closed, readers>>
    BY <1>7 DEF Reap, Unlock
  <2>2. mu[i] = t
    BY <1>t, <2>1 DEF HolderPC, LockHeld
  <2> QED BY <1>g, <1>h, <1>n, <1>p, <1>t, <2>1, <2>2, ReturnMoves
          DEF ReaderOwned, ReaderIsAlone, HolderPC, ReaderPC, WaitPC
<1>8. CASE Accept(t)
  <2>1. /\ pc[t] \in WaitPC /\ mu' = [mu EXCEPT ![i] = None] /\ UNCHANGED <<proc, closed>>
        /\ readers' = [readers EXCEPT ![i] = @ - 1]
        /\ Return(t) \/ (Goto(t, "store") /\ UNCHANGED on)
    BY <1>8 DEF Accept, ReadLine, Unlock, WaitPC
  <2>2. mu[i] = t /\ readers'[i] = 0
    BY <1>n, <1>p, <1>t, <2>1 DEF HolderPC, ReaderPC, LockHeld, WaiterReads
  <2>3. /\ \A e \in Thread : e # t => pc'[e] = pc[e] /\ on'[e] = on[e]
        /\ pc'[t] \notin HolderPC /\ (pc'[t] \in KnownPC => on'[t] = i)
    BY <1>o, <1>p, <1>t, <2>1, ReturnMoves DEF HolderPC, ReaderPC, WaitPC
  <2> QED BY <1>g, <1>n, <1>p, <2>1, <2>2, <2>3 DEF HolderPC, ReaderPC
<1>9. CASE Reject(t)
  <2>1. /\ pc[t] \in WaitPC /\ UNCHANGED <<proc, closed, mu, on>> /\ Goto(t, "close")
        /\ readers' = [readers EXCEPT ![i] = @ - 1]
    BY <1>9 DEF Reject, ReadLine, WaitPC
  <2>2. mu[i] = t /\ readers'[i] = 0 /\ "close" \notin WaitPC
    BY <1>n, <1>p, <1>t, <2>1 DEF HolderPC, ReaderPC, WaitPC, LockHeld, WaiterReads
  <2> QED BY <1>g, <1>n, <1>o, <1>p, <2>1, <2>2
<1> QED BY <1>1, <1>2, <1>3, <1>4, <1>5, <1>6, <1>7, <1>8, <1>9 DEF HostSteps, OwnSteps, Receive

-----------------------------------------------------------------------------
(* The subprocess, the handlers, the daemon                                   *)

LEMMA SubprocessKeeps ==
  ASSUME HostInv, NEW i \in Instance, Subprocess(i), UNCHANGED repoVars
  PROVE  HostInv'
<1>t. TypeOK /\ OnKnown /\ LockHeld /\ ReaderOwned /\ WaiterReads /\ DownIsIdle /\ ReaderIsAlone
  BY DEF HostInv
<1>1. CASE Die(i)
  BY <1>1, <1>t DEF Die, repoVars, HostInv, TypeOK, HostTypeOK, OnKnown, LockHeld, ReaderOwned, WaiterReads,
                    DownIsIdle, ReaderIsAlone
<1>2. CASE StrayRead(i)
  <2>1. readers' = [readers EXCEPT ![i] = @ - 1] /\ readers[i] = 1
        /\ UNCHANGED <<proc, closed, mu, pc, on, after>>
    BY <1>2, <1>t DEF StrayRead, ReadLine, ReaderIsAlone, TypeOK, HostTypeOK
  <2>2. readers' \in [Instance -> Nat] /\ readers'[i] = 0 /\ \A j \in Instance : j # i => readers'[j] = readers[j]
    BY <1>t, <2>1 DEF TypeOK, HostTypeOK
  <2>3. TypeOK' /\ OnKnown' /\ LockHeld' /\ DownIsIdle'
    BY <1>t, <2>1, <2>2 DEF repoVars, TypeOK, HostTypeOK, OnKnown, LockHeld, DownIsIdle
  <2>4. \A t \in Thread : pc[t] \in WaitPC => on[t] \in Instance /\ on[t] # i
    BY <1>2, <1>t DEF StrayRead, Waiting, WaitPC, OnKnown, KnownPC, HostPC
  <2>5. ReaderOwned' /\ WaiterReads' /\ ReaderIsAlone'
    BY <1>t, <2>1, <2>2, <2>4 DEF ReaderOwned, WaiterReads, ReaderIsAlone
  <2> QED BY <2>3, <2>5 DEF HostInv
<1> QED BY <1>1, <1>2 DEF Subprocess

LEMMA ArrivalKeeps ==
  ASSUME HostInv,
         \/ \E e \in Ext : Install(e)
         \/ \E a \in Admin, e \in Ext, o \in {"enable", "disable", "remove"} : Request(a, e, o)
         \/ \E a \in Admin : Boot(a)
         \/ \E u \in User, k \in Kind : Use(u, k)
  PROVE  HostInv'
<1>t. TypeOK /\ OnKnown /\ LockHeld /\ ReaderOwned /\ WaiterReads /\ DownIsIdle /\ ReaderIsAlone
  BY DEF HostInv
<1>p. {"idle", "evict", "take", "recheck", "delete", "boot", "enter"} \cap HolderPC = {}
      /\ {"idle", "evict", "take", "recheck", "delete", "boot"} \cap KnownPC = {}
  BY DEF HolderPC, ReaderPC, WaitPC, KnownPC, HostPC
<1>1. ASSUME NEW e \in Ext, Install(e) PROVE HostInv'
  BY <1>1, <1>t DEF Install, hostVars, HostInv, TypeOK, HostTypeOK, OnKnown, LockHeld, ReaderOwned, WaiterReads,
                    DownIsIdle, ReaderIsAlone
<1>2. ASSUME NEW a \in Admin, NEW e \in Ext, NEW o \in {"enable", "disable", "remove"}, Request(a, e, o)
      PROVE  HostInv'
  <2>1. \E l \in {"evict", "take", "recheck", "delete"} : Goto(a, l)
    BY <1>2 DEF Request
  <2>2. pc[a] = "idle" /\ daemon = "up" /\ UNCHANGED <<proc, closed, mu, readers, on, daemon>>
    BY <1>2 DEF Request, HostRest
  <2>3. TypeOK'
    BY <1>2, <1>t, <2>1 DEF Request, Meet, HostRest, Goto, TypeOK, HostTypeOK, AdminPC
  <2> QED BY <1>p, <1>t, <2>1, <2>2, <2>3, Outside
<1>3. ASSUME NEW a \in Admin, Boot(a) PROVE HostInv'
  <2>1. Goto(a, "boot") /\ UNCHANGED <<proc, closed, mu, readers, on>> /\ daemon' = "boot" /\ pc[a] = "idle"
    BY <1>3, <1>t DEF Boot, HostRest, DownIsIdle
  <2>2. TypeOK'
    BY <1>3, <1>t DEF Boot, HostRest, Goto, TypeOK, HostTypeOK, AdminPC
  <2> QED BY <1>p, <1>t, <2>1, <2>2, Outside
<1>4. ASSUME NEW u \in User, NEW k \in Kind, Use(u, k) PROVE HostInv'
  <2>1. Goto(u, "enter") /\ UNCHANGED <<proc, closed, mu, readers, daemon>> /\ daemon = "up" /\ pc[u] = "idle"
        /\ on' = [on EXCEPT ![u] = registry[k]] /\ registry[k] \in Instance
    BY <1>4 DEF Use, repoVars
  <2>2. TypeOK'
    BY <1>4, <1>t DEF Use, repoVars, Goto, TypeOK, HostTypeOK, HostPC, AdminPC
  <2>3. on'[u] \in Instance /\ \A e \in Thread : e # u => on'[e] = on[e]
    BY <1>t, <2>1 DEF TypeOK, HostTypeOK
  <2> QED BY <1>p, <1>t, <2>1, <2>2, <2>3, Outside
<1> QED BY <1>1, <1>2, <1>3, <1>4

LEMMA NextHost == HostInv /\ [Next]_vars => HostInv'
<1> SUFFICES ASSUME HostInv, [Next]_vars PROVE HostInv'
  OBVIOUS
<1>1. CASE Crash
  <2>1. TypeOK'
    BY <1>1 DEF Crash, HostInv, TypeOK, HostTypeOK, AdminPC, FreshRegistry
  <2>2. OnKnown' /\ LockHeld' /\ ReaderOwned' /\ WaiterReads' /\ DownIsIdle' /\ ReaderIsAlone'
    BY <1>1 DEF Crash, OnKnown, LockHeld, ReaderOwned, WaiterReads, DownIsIdle, ReaderIsAlone,
                HolderPC, ReaderPC, WaitPC, KnownPC, HostPC
  <2> QED BY <2>1, <2>2 DEF HostInv
<1>2. CASE UNCHANGED vars
  BY <1>2 DEF vars, hostVars, repoVars, HostInv, TypeOK, HostTypeOK, OnKnown, LockHeld, ReaderOwned, WaiterReads,
              DownIsIdle, ReaderIsAlone
<1> QED BY <1>1, <1>2, AdminKeeps, HostKeeps, SubprocessKeeps, ArrivalKeeps DEF Next

LEMMA Lockstep == Spec => []HostInv
BY InitHost, NextHost, PTL DEF Spec

\* The scanner of a provider has one reader at a time: pluginhost closes a provider
\* whose reader it gives up on before anyone can call it again.  This holds for any
\* number of goroutines, while extensions are enabled, disabled and removed by
\* overlapping requests and whenever the daemon dies.
THEOREM ReaderIsAloneTheorem == Spec => []ReaderIsAlone
<1>1. HostInv => ReaderIsAlone
  BY DEF HostInv
<1> QED BY <1>1, Lockstep, PTL

-----------------------------------------------------------------------------
(* What the repository promises of an extension that no two requests have been *)
(* busy with at once, however many goroutines manage the others.               *)

UniqueName(e) == \A f \in Ext \ {e} : NameOf[f] # NameOf[e]

\* Inside Close; and where the goroutine has a provider that it may have to close.
ClosingPC == {"lock", "close", "reap"}
WorkPC    == {"handshake", "store", "register", "enable", "unregister", "lock", "close"}

\* Which operation a goroutine performs, and what it returns to from a Close.
Path(a) ==
  /\ pc[a] \notin {"enter", "await"}
  /\ pc[a] = "idle" <=> op[a] = "none"
  /\ pc[a] = "boot" => op[a] = "boot"
  /\ pc[a] \in {"evict", "evicted", "spawn", "handshake", "failed", "store", "register"} =>
       op[a] \in {"enable", "boot"}
  /\ pc[a] = "enable" => op[a] = "enable"
  /\ pc[a] \in {"take", "unregister", "disable"} => op[a] \in {"disable", "remove"}
  /\ pc[a] \in {"recheck", "delete"} => op[a] = "remove"
  /\ pc[a] = "handshake" => after[a] = "failed"
  /\ pc[a] = "unregister" => after[a] = "disable"
  /\ pc[a] \in ClosingPC =>
       \/ after[a] \in {"evicted", "failed"} /\ op[a] \in {"enable", "boot"}
       \/ after[a] = "disable" /\ op[a] \in {"disable", "remove"}

\* It knows the provider it has to care for, and has done with any other.
Work(a) ==
  IF pc[a] \in WorkPC THEN on[a] \in Instance /\ extOf[on[a]] = arg[a] /\ proc[on[a]] # "none"
                      ELSE on[a] = None \/ closed[on[a]]

\* The extension at hand has no loaded provider; or it is the one at hand.
Unloaded(a) == \/ pc[a] \in {"spawn", "handshake", "failed", "store", "unregister", "disable"}
               \/ pc[a] \in ClosingPC /\ after[a] # "evicted"
Reloads(a)  == \/ pc[a] \in {"evicted", "register", "enable"}
               \/ pc[a] \in ClosingPC /\ after[a] = "evicted"

\* A goroutine that nobody meets has the extension for itself.
Own(a) ==
  arg[a] \notin met =>
    /\ Unloaded(a) => loaded[arg[a]] = None
    /\ Reloads(a) => loaded[arg[a]] = on[a]
    /\ ~dbFails =>
         /\ pc[a] \notin {"idle", "boot"} => Exists(arg[a]) /\ (op[a] = "boot" => row[arg[a]] = "enabled")
         /\ pc[a] = "delete" => loaded[arg[a]] = None

Alone == \A a, b \in Admin, e \in Ext : Busy(a, e) /\ Busy(b, e) /\ a # b => e \in met

\* Requests are served when the boot is done, which one goroutine does.
BootFits ==
  /\ daemon # "boot" => todo = {}
  /\ ~dbFails => todo \subseteq {e \in Ext : row[e] = "enabled"}
  /\ \A a \in Admin : /\ op[a] \in {"enable", "disable", "remove"} => daemon = "up"
                      /\ op[a] = "boot" => daemon = "boot"
  /\ \A a, b \in Admin : op[a] = "boot" /\ op[b] = "boot" => a = b

Loaded(e) == loaded[e] # None => loaded[e] \in Instance /\ proc[loaded[e]] # "none" /\ extOf[loaded[e]] = e

\* What is loaded is registered, and its row is enabled, but for the one who is about
\* to do so.
Tells(e) ==
  e \notin met /\ loaded[e] # None =>
    /\ UniqueName(e) => registry[NameOf[e]] = loaded[e] \/ \E a \in Admin : Busy(a, e) /\ pc[a] = "register"
    /\ ~dbFails => \/ row[e] = "enabled"
                   \/ \E a \in Admin : Busy(a, e) /\ op[a] = "enable" /\ pc[a] \in {"register", "enable"}

\* Who cares for a running subprocess.
Cared(i) ==
  proc[i] = "up" /\ ~closed[i] /\ extOf[i] \notin met =>
    loaded[extOf[i]] = i \/ \E a \in Admin : on[a] = i /\ pc[a] \in WorkPC

AdminInv ==
  /\ \A a \in Admin : Path(a) /\ Work(a) /\ Own(a)
  /\ \A e \in Ext : Loaded(e) /\ Tells(e)
  /\ \A i \in Instance : Cared(i)
  /\ Alone /\ BootFits

-----------------------------------------------------------------------------
(* A step of one goroutine within its request, and what it leaves alone       *)

Moves(a, e) ==
  /\ Busy(a, e) /\ UNCHANGED <<arg, met, dbFails, todo, daemon>>
  /\ \A b \in Admin \ {a} : pc'[b] = pc[b] /\ on'[b] = on[b] /\ after'[b] = after[b] /\ op'[b] = op[b]
  /\ op'[a] \in {op[a], "none"} /\ (op[a] = "boot" => row' = row)
  /\ \A f \in Ext \ {e} : loaded'[f] = loaded[f] /\ row'[f] = row[f]
  /\ \A k \in Kind : k # NameOf[e] => registry'[k] = registry[k]
  /\ \A i \in Instance : /\ closed[i] => closed'[i]
                         /\ proc[i] # "none" => proc'[i] # "none" /\ extOf'[i] = extOf[i]
                         /\ proc[i] # "up" /\ proc'[i] = "up" => extOf'[i] = e

\* Tells for the extension at hand, about which only this goroutine is busy.
Mine(a, e) ==
  e \notin met /\ loaded[e] # None =>
    /\ UniqueName(e) => registry[NameOf[e]] = loaded[e] \/ pc[a] = "register"
    /\ ~dbFails => row[e] = "enabled" \/ (op[a] = "enable" /\ pc[a] \in {"register", "enable"})

\* Of the subprocesses it has to do with it leaves none alone.
Keeps(a, e) ==
  \A i \in Instance :
    /\ proc'[i] = "up" /\ ~closed'[i] /\ e \notin met
    /\ loaded[e] = i \/ (on[a] = i /\ pc[a] \in WorkPC) \/ proc[i] # "up"
    => loaded'[e] = i \/ (on'[a] = i /\ pc'[a] \in WorkPC)

LEMMA Here ==
  ASSUME HostInv, AdminInv, NEW a \in Admin, NEW e \in Ext, Busy(a, e)
  PROVE  TypeOK /\ a \in Thread /\ Path(a) /\ Work(a) /\ Own(a) /\ Loaded(e) /\ Mine(a, e)
<1>1. e \notin met => \A b \in Admin : Busy(b, e) => b = a
  BY DEF AdminInv, Alone
<1>2. Tells(e) /\ TypeOK
  BY DEF AdminInv, HostInv
<1>3. Mine(a, e)
  BY <1>1, <1>2 DEF Tells, Mine
<1> QED BY <1>2, <1>3 DEF AdminInv

LEMMA Frame ==
  ASSUME HostInv, AdminInv, NEW a \in Admin, NEW e \in Ext, Moves(a, e),
         Path(a)', Work(a)', Own(a)', Loaded(e)', Mine(a, e)', Keeps(a, e)
  PROVE  AdminInv'
<1>t. TypeOK
  BY DEF HostInv
<1>1. ASSUME NEW b \in Admin, b # a PROVE Path(b)' /\ Work(b)' /\ Own(b)'
  <2>1. Path(b) /\ Work(b) /\ Own(b)
    BY DEF AdminInv
  <2>2. pc'[b] = pc[b] /\ on'[b] = on[b] /\ after'[b] = after[b] /\ op'[b] = op[b] /\ arg'[b] = arg[b]
    BY <1>1 DEF Moves
  <2>3. Path(b)'
    BY <2>1, <2>2 DEF Path
  <2>4. Work(b)'
    <3>1. on[b] \in Instance => /\ closed[on[b]] => closed'[on[b]]
                                /\ proc[on[b]] # "none" => proc'[on[b]] # "none" /\ extOf'[on[b]] = extOf[on[b]]
      BY DEF Moves
    <3>2. on[b] \in Instance \cup {None}
      BY <1>t DEF TypeOK, HostTypeOK
    <3> QED BY <2>1, <2>2, <3>1, <3>2 DEF Work
  <2>5. CASE arg[b] # e
    <3>1. arg[b] \in Ext /\ loaded'[arg[b]] = loaded[arg[b]] /\ row'[arg[b]] = row[arg[b]] /\ met' = met
          /\ dbFails' = dbFails
      BY <1>t, <2>5 DEF TypeOK, Moves
    <3>2. Own(b)'
      BY <2>1, <2>2, <3>1 DEF Own, Unloaded, Reloads, Exists
    <3> QED BY <2>3, <2>4, <3>2
  <2>6. CASE arg[b] = e /\ Busy(b, e)
    <3>1. e \in met /\ met' = met
      BY <1>1, <2>6 DEF Moves, AdminInv, Alone
    <3>2. Own(b)'
      BY <2>2, <2>6, <3>1 DEF Own
    <3> QED BY <2>3, <2>4, <3>2
  <2>7. CASE pc[b] \in {"idle", "boot"}
    <3>1. Own(b)'
      BY <2>2, <2>7 DEF Own, Unloaded, Reloads, ClosingPC
    <3> QED BY <2>3, <2>4, <3>1
  <2> QED BY <2>5, <2>6, <2>7 DEF Busy
<1>2. ASSUME NEW f \in Ext, f # e PROVE Loaded(f)' /\ Tells(f)'
  <2>1. Loaded(f) /\ Tells(f) /\ loaded'[f] = loaded[f] /\ row'[f] = row[f] /\ met' = met /\ dbFails' = dbFails
    BY <1>2 DEF AdminInv, Moves
  <2>2. Loaded(f)'
    BY <2>1 DEF Loaded, Moves
  <2>3. UniqueName(f) => registry'[NameOf[f]] = registry[NameOf[f]]
    BY <1>2 DEF UniqueName, Moves
  <2>4. \A b \in Admin : Busy(b, f) => b # a /\ Busy(b, f)' /\ pc'[b] = pc[b] /\ op'[b] = op[b]
    BY <1>2 DEF Moves, Busy
  <2>5. Tells(f)'
    BY <2>1, <2>3, <2>4 DEF Tells
  <2> QED BY <2>2, <2>5
<1>3. Tells(e)'
  <2>1. pc'[a] \in {"register", "enable"} => Busy(a, e)'
    BY DEF Moves, Busy
  <2> QED BY <2>1 DEF Mine, Tells
<1>4. ASSUME NEW i \in Instance PROVE Cared(i)'
  <2> SUFFICES ASSUME proc'[i] = "up", ~closed'[i], extOf'[i] \notin met
               PROVE  loaded'[extOf'[i]] = i \/ \E b \in Admin : on'[b] = i /\ pc'[b] \in WorkPC
    BY DEF Cared, Moves
  <2>0. (closed[i] => closed'[i]) /\ (proc[i] = "up" => extOf'[i] = extOf[i])
        /\ (proc[i] # "up" => extOf'[i] = e) /\ \A f \in Ext \ {e} : loaded'[f] = loaded[f]
    BY DEF Moves
  <2>k. e \notin met /\ (loaded[e] = i \/ (on[a] = i /\ pc[a] \in WorkPC) \/ proc[i] # "up") =>
          loaded'[e] = i \/ (on'[a] = i /\ pc'[a] \in WorkPC)
    BY DEF Keeps
  <2>1. CASE proc[i] # "up"
    BY <2>0, <2>1, <2>k
  <2>2. CASE proc[i] = "up" /\ loaded[extOf[i]] = i
    <3>1. extOf[i] \in Ext
      BY <1>t DEF TypeOK
    <3> QED BY <2>0, <2>2, <2>k, <3>1
  <2>3. CASE proc[i] = "up" /\ on[a] = i /\ pc[a] \in WorkPC
    <3>1. Work(a) /\ arg[a] = e
      BY DEF AdminInv, Moves, Busy
    <3> QED BY <2>0, <2>3, <2>k, <3>1 DEF Work
  <2>4. ASSUME NEW b \in Admin, b # a, on[b] = i, pc[b] \in WorkPC PROVE on'[b] = i /\ pc'[b] \in WorkPC
    BY <2>4 DEF Moves
  <2>5. Cared(i)
    BY DEF AdminInv
  <2> QED BY <2>0, <2>1, <2>2, <2>3, <2>4, <2>5 DEF Cared
<1>5. Alone'
  <2>1. \A b \in Admin, f \in Ext : Busy(b, f)' => Busy(b, f)
    BY DEF Moves, Busy
  <2> QED BY <2>1 DEF Alone, AdminInv, Moves
<1>6. BootFits'
  <2>1. BootFits /\ Path(a)
    BY DEF AdminInv
  <2>2. \A b \in Admin : op'[b] \in {op[b], "none"}
    BY DEF Moves
  <2>3. row' # row => todo = {}
    BY <1>t, <2>1 DEF BootFits, Path, Moves, Busy, TypeOK
  <2> QED BY <2>1, <2>2, <2>3 DEF BootFits, Moves
<1>7. Path(a)' /\ Work(a)' /\ Own(a)' /\ Loaded(e)'
  OBVIOUS
<1>8. \A b \in Admin : Path(b)' /\ Work(b)' /\ Own(b)'
  BY <1>1, <1>7
<1>9. \A f \in Ext : Loaded(f)' /\ Tells(f)'
  BY <1>2, <1>3, <1>7
<1> QED BY <1>4, <1>5, <1>6, <1>8, <1>9 DEF AdminInv

-----------------------------------------------------------------------------
(* loadAndRegister and Enable                                                 *)

LEMMA EvictKeeps ==
  ASSUME HostInv, AdminInv, NEW a \in Admin, NEW e \in Ext, arg[a] = e, Evict(a)
  PROVE  AdminInv'
<1>t. /\ TypeOK /\ a \in Thread /\ Path(a) /\ Work(a) /\ Own(a) /\ Loaded(e) /\ Mine(a, e)
      /\ arg[a] = e /\ Busy(a, e)
  BY Here DEF Evict, Busy
<1>m. Moves(a, e)
  BY <1>t DEF Evict, HostRest, Goto, TypeOK, HostTypeOK, Moves
<1>1. Path(a)'
  BY <1>t DEF Evict, HostRest, Goto, TypeOK, HostTypeOK, Path, ClosingPC
<1>2. Work(a)'
  BY <1>t DEF Evict, HostRest, Goto, TypeOK, HostTypeOK, Work, WorkPC, Loaded
<1>3. Own(a)' /\ Loaded(e)'
  BY <1>t DEF Evict, HostRest, Goto, TypeOK, HostTypeOK, Own, Unloaded, Reloads, ClosingPC, Exists, Loaded
<1>4. Mine(a, e)'
  BY <1>t DEF Evict, HostRest, Goto, TypeOK, HostTypeOK, Mine, UniqueName
<1>5. Keeps(a, e)
  BY <1>t DEF Evict, HostRest, Goto, TypeOK, HostTypeOK, Keeps, WorkPC
<1> QED BY <1>m, <1>1, <1>2, <1>3, <1>4, <1>5, Frame

LEMMA EvictedKeeps ==
  ASSUME HostInv, AdminInv, NEW a \in Admin, NEW e \in Ext, arg[a] = e, Evicted(a)
  PROVE  AdminInv'
<1>t. /\ TypeOK /\ a \in Thread /\ Path(a) /\ Work(a) /\ Own(a) /\ Loaded(e) /\ Mine(a, e)
      /\ arg[a] = e /\ Busy(a, e)
  BY Here DEF Evicted, Busy
<1>m. Moves(a, e)
  BY <1>t DEF Evicted, HostRest, Goto, TypeOK, HostTypeOK, Moves
<1>1. Path(a)'
  BY <1>t DEF Evicted, HostRest, Goto, TypeOK, HostTypeOK, Path, ClosingPC
<1>2. Work(a)'
  BY <1>t DEF Evicted, HostRest, Goto, TypeOK, HostTypeOK, Work, WorkPC
<1>3. Own(a)' /\ Loaded(e)'
  BY <1>t DEF Evicted, HostRest, Goto, TypeOK, HostTypeOK, Own, Unloaded, Reloads, ClosingPC, Exists, Loaded
<1>4. Mine(a, e)'
  BY <1>t DEF Evicted, HostRest, Goto, TypeOK, HostTypeOK, Mine, UniqueName
<1>5. Keeps(a, e)
  BY <1>t DEF Evicted, HostRest, Goto, TypeOK, HostTypeOK, Keeps, WorkPC, Work, Own, Unloaded, Reloads, ClosingPC
<1> QED BY <1>m, <1>1, <1>2, <1>3, <1>4, <1>5, Frame

LEMMA SpawnKeeps ==
  ASSUME HostInv, AdminInv, NEW a \in Admin, NEW e \in Ext, arg[a] = e, Spawn(a)
  PROVE  AdminInv'
<1>t. /\ TypeOK /\ a \in Thread /\ Path(a) /\ Work(a) /\ Own(a) /\ Loaded(e) /\ Mine(a, e)
      /\ arg[a] = e /\ Busy(a, e)
  BY Here DEF Spawn, Busy
\* A subprocess that was not started before, or none.
<1>n. \/ Answer(a) /\ UNCHANGED <<proc, extOf>>
      \/ \E i \in Instance :
           /\ proc[i] = "none" /\ proc' = [proc EXCEPT ![i] = "up"]
           /\ on' = [on EXCEPT ![a] = i] /\ Goto(a, "handshake") /\ UNCHANGED op
           /\ after' = [after EXCEPT ![a] = "failed"] /\ extOf' = [extOf EXCEPT ![i] = arg[a]]
  BY DEF Spawn, Launch, NewInstance
<1>s. pc[a] = "spawn" /\ UNCHANGED <<closed, row, loaded, registry, arg, todo, daemon, met, dbFails>>
  BY DEF Spawn, Launch
<1>m. Moves(a, e)
  BY <1>t, <1>n, <1>s DEF Goto, Answer, TypeOK, HostTypeOK, Moves
<1>1. Path(a)'
  BY <1>t, <1>n, <1>s DEF Goto, Answer, TypeOK, HostTypeOK, Path, ClosingPC
<1>2. Work(a)'
  BY <1>t, <1>n, <1>s DEF Goto, Answer, TypeOK, HostTypeOK, Work, WorkPC
<1>3. Own(a)' /\ Loaded(e)'
  BY <1>t, <1>n, <1>s DEF Goto, Answer, TypeOK, HostTypeOK, Own, Unloaded, Reloads, ClosingPC, Exists, Loaded
<1>4. Mine(a, e)'
  BY <1>t, <1>n, <1>s DEF Goto, Answer, TypeOK, HostTypeOK, Mine, UniqueName
<1>5. Keeps(a, e)
  BY <1>t, <1>n, <1>s DEF Goto, Answer, TypeOK, HostTypeOK, Keeps, WorkPC
<1> QED BY <1>m, <1>1, <1>2, <1>3, <1>4, <1>5, Frame

LEMMA LoadFailedKeeps ==
  ASSUME HostInv, AdminInv, NEW a \in Admin, NEW e \in Ext, arg[a] = e, LoadFailed(a)
  PROVE  AdminInv'
<1>t. /\ TypeOK /\ a \in Thread /\ Path(a) /\ Work(a) /\ Own(a) /\ Loaded(e) /\ Mine(a, e)
      /\ arg[a] = e /\ Busy(a, e)
  BY Here DEF LoadFailed, Busy
<1>m. Moves(a, e)
  BY <1>t DEF LoadFailed, HostRest, Goto, Answer, TypeOK, HostTypeOK, Moves
<1>1. Path(a)'
  BY <1>t DEF LoadFailed, HostRest, Goto, Answer, TypeOK, HostTypeOK, Path, ClosingPC
<1>2. Work(a)'
  BY <1>t DEF LoadFailed, HostRest, Goto, Answer, TypeOK, HostTypeOK, Work, WorkPC
<1>3. Own(a)' /\ Loaded(e)'
  BY <1>t DEF LoadFailed, HostRest, Goto, Answer, TypeOK, HostTypeOK, Own, Unloaded, Reloads, ClosingPC, Exists, Loaded
<1>4. Mine(a, e)'
  BY <1>t DEF LoadFailed, HostRest, Goto, Answer, TypeOK, HostTypeOK, Mine, UniqueName
<1>5. Keeps(a, e)
  BY <1>t DEF LoadFailed, HostRest, Goto, Answer, TypeOK, HostTypeOK, Keeps, WorkPC
<1> QED BY <1>m, <1>1, <1>2, <1>3, <1>4, <1>5, Frame

LEMMA StoreKeeps ==
  ASSUME HostInv, AdminInv, NEW a \in Admin, NEW e \in Ext, arg[a] = e, Store(a)
  PROVE  AdminInv'
<1>t. /\ TypeOK /\ a \in Thread /\ Path(a) /\ Work(a) /\ Own(a) /\ Loaded(e) /\ Mine(a, e)
      /\ arg[a] = e /\ Busy(a, e)
  BY Here DEF Store, Busy
<1>m. Moves(a, e)
  BY <1>t DEF Store, HostRest, Goto, TypeOK, HostTypeOK, Moves
<1>1. Path(a)'
  BY <1>t DEF Store, HostRest, Goto, TypeOK, HostTypeOK, Path, ClosingPC
<1>2. Work(a)'
  BY <1>t DEF Store, HostRest, Goto, TypeOK, HostTypeOK, Work, WorkPC
<1>3. Own(a)' /\ Loaded(e)'
  BY <1>t DEF Store, HostRest, Goto, TypeOK, HostTypeOK, Own, Unloaded, Reloads, ClosingPC, Exists, Loaded, Work, WorkPC
<1>4. Mine(a, e)'
  BY <1>t DEF Store, HostRest, Goto, TypeOK, HostTypeOK, Mine, UniqueName, Path, Own
<1>5. Keeps(a, e)
  BY <1>t DEF Store, HostRest, Goto, TypeOK, HostTypeOK, Keeps, WorkPC, Own, Unloaded, Reloads, ClosingPC
<1> QED BY <1>m, <1>1, <1>2, <1>3, <1>4, <1>5, Frame

LEMMA RegisterKeeps ==
  ASSUME HostInv, AdminInv, NEW a \in Admin, NEW e \in Ext, arg[a] = e, Register(a)
  PROVE  AdminInv'
<1>t. /\ TypeOK /\ a \in Thread /\ Path(a) /\ Work(a) /\ Own(a) /\ Loaded(e) /\ Mine(a, e)
      /\ arg[a] = e /\ Busy(a, e)
  BY Here DEF Register, Busy
<1>m. Moves(a, e)
  BY <1>t DEF Register, HostRest, Goto, Answer, Continue, TypeOK, HostTypeOK, Moves
<1>1. Path(a)'
  BY <1>t DEF Register, HostRest, Goto, Answer, Continue, TypeOK, HostTypeOK, Path, ClosingPC
<1>2. Work(a)'
  BY <1>t DEF Register, HostRest, Goto, Answer, Continue, TypeOK, HostTypeOK, Work, WorkPC
<1>3. Own(a)' /\ Loaded(e)'
  BY <1>t DEF Register, HostRest, Goto, Answer, Continue, TypeOK, HostTypeOK, Own, Unloaded, Reloads, ClosingPC, Exists, Loaded
<1>4. Mine(a, e)'
  BY <1>t DEF Register, HostRest, Goto, Answer, Continue, TypeOK, HostTypeOK, Mine, UniqueName, Own, Unloaded, Reloads, ClosingPC, Path
<1>5. Keeps(a, e)
  BY <1>t DEF Register, HostRest, Goto, Answer, Continue, TypeOK, HostTypeOK, Keeps, WorkPC, Own, Unloaded, Reloads, ClosingPC
<1> QED BY <1>m, <1>1, <1>2, <1>3, <1>4, <1>5, Frame

LEMMA EnableKeeps ==
  ASSUME HostInv, AdminInv, NEW a \in Admin, NEW e \in Ext, arg[a] = e, Enable(a)
  PROVE  AdminInv'
<1>t. /\ TypeOK /\ a \in Thread /\ Path(a) /\ Work(a) /\ Own(a) /\ Loaded(e) /\ Mine(a, e)
      /\ arg[a] = e /\ Busy(a, e)
  BY Here DEF Enable, Busy
<1>m. Moves(a, e)
  BY <1>t DEF Enable, HostRest, Goto, SetEnabled, Answer, Continue, TypeOK, HostTypeOK, Moves, Path
<1>1. Path(a)'
  BY <1>t DEF Enable, HostRest, Goto, SetEnabled, Answer, Continue, TypeOK, HostTypeOK, Path, ClosingPC
<1>2. Work(a)'
  BY <1>t DEF Enable, HostRest, Goto, SetEnabled, Answer, Continue, TypeOK, HostTypeOK, Work, WorkPC, Path
<1>3. Own(a)' /\ Loaded(e)'
  BY <1>t DEF Enable, HostRest, Goto, SetEnabled, Answer, Continue, TypeOK, HostTypeOK, Own, Unloaded, Reloads, ClosingPC, Exists, Loaded, Path
<1>4. Mine(a, e)'
  BY <1>t DEF Enable, HostRest, Goto, SetEnabled, Answer, Continue, TypeOK, HostTypeOK, Mine, UniqueName, Exists, Own, Path
<1>5. Keeps(a, e)
  BY <1>t DEF Enable, HostRest, Goto, SetEnabled, Answer, Continue, TypeOK, HostTypeOK, Keeps, WorkPC, Own, Unloaded, Reloads, ClosingPC
<1> QED BY <1>m, <1>1, <1>2, <1>3, <1>4, <1>5, Frame

-----------------------------------------------------------------------------
(* Disable and Remove                                                         *)

LEMMA RecheckKeeps ==
  ASSUME HostInv, AdminInv, NEW a \in Admin, NEW e \in Ext, arg[a] = e, Recheck(a)
  PROVE  AdminInv'
<1>t. /\ TypeOK /\ a \in Thread /\ Path(a) /\ Work(a) /\ Own(a) /\ Loaded(e) /\ Mine(a, e)
      /\ arg[a] = e /\ Busy(a, e)
  BY Here DEF Recheck, Busy
<1>m. Moves(a, e)
  BY <1>t DEF Recheck, HostRest, Goto, Answer, Continue, TypeOK, HostTypeOK, Moves
<1>1. Path(a)'
  BY <1>t DEF Recheck, HostRest, Goto, Answer, Continue, TypeOK, HostTypeOK, Path, ClosingPC
<1>2. Work(a)'
  BY <1>t DEF Recheck, HostRest, Goto, Answer, Continue, TypeOK, HostTypeOK, Work, WorkPC
<1>3. Own(a)' /\ Loaded(e)'
  BY <1>t DEF Recheck, HostRest, Goto, Answer, Continue, TypeOK, HostTypeOK, Own, Unloaded, Reloads, ClosingPC, Exists, Loaded
<1>4. Mine(a, e)'
  BY <1>t DEF Recheck, HostRest, Goto, Answer, Continue, TypeOK, HostTypeOK, Mine, UniqueName
<1>5. Keeps(a, e)
  BY <1>t DEF Recheck, HostRest, Goto, Answer, Continue, TypeOK, HostTypeOK, Keeps, WorkPC
<1> QED BY <1>m, <1>1, <1>2, <1>3, <1>4, <1>5, Frame

LEMMA TakeKeeps ==
  ASSUME HostInv, AdminInv, NEW a \in Admin, NEW e \in Ext, arg[a] = e, Take(a)
  PROVE  AdminInv'
<1>t. /\ TypeOK /\ a \in Thread /\ Path(a) /\ Work(a) /\ Own(a) /\ Loaded(e) /\ Mine(a, e)
      /\ arg[a] = e /\ Busy(a, e)
  BY Here DEF Take, Busy
<1>m. Moves(a, e)
  BY <1>t DEF Take, HostRest, Goto, TypeOK, HostTypeOK, Moves
<1>1. Path(a)'
  BY <1>t DEF Take, HostRest, Goto, TypeOK, HostTypeOK, Path, ClosingPC
<1>2. Work(a)'
  BY <1>t DEF Take, HostRest, Goto, TypeOK, HostTypeOK, Work, WorkPC, Loaded
<1>3. Own(a)' /\ Loaded(e)'
  BY <1>t DEF Take, HostRest, Goto, TypeOK, HostTypeOK, Own, Unloaded, Reloads, ClosingPC, Exists, Loaded, Path
<1>4. Mine(a, e)'
  BY <1>t DEF Take, HostRest, Goto, TypeOK, HostTypeOK, Mine, UniqueName
<1>5. Keeps(a, e)
  BY <1>t DEF Take, HostRest, Goto, TypeOK, HostTypeOK, Keeps, WorkPC, Loaded
<1> QED BY <1>m, <1>1, <1>2, <1>3, <1>4, <1>5, Frame

LEMMA UnregisterKeeps ==
  ASSUME HostInv, AdminInv, NEW a \in Admin, NEW e \in Ext, arg[a] = e, Unregister(a)
  PROVE  AdminInv'
<1>t. /\ TypeOK /\ a \in Thread /\ Path(a) /\ Work(a) /\ Own(a) /\ Loaded(e) /\ Mine(a, e)
      /\ arg[a] = e /\ Busy(a, e)
  BY Here DEF Unregister, Busy
<1>m. Moves(a, e)
  BY <1>t DEF Unregister, HostRest, Goto, TypeOK, HostTypeOK, Moves
<1>1. Path(a)'
  BY <1>t DEF Unregister, HostRest, Goto, TypeOK, HostTypeOK, Path, ClosingPC
<1>2. Work(a)'
  BY <1>t DEF Unregister, HostRest, Goto, TypeOK, HostTypeOK, Work, WorkPC
<1>3. Own(a)' /\ Loaded(e)'
  BY <1>t DEF Unregister, HostRest, Goto, TypeOK, HostTypeOK, Own, Unloaded, Reloads, ClosingPC, Exists, Loaded, Path
<1>4. Mine(a, e)'
  BY <1>t DEF Unregister, HostRest, Goto, TypeOK, HostTypeOK, Mine, UniqueName, Own, Unloaded, Reloads, ClosingPC
<1>5. Keeps(a, e)
  BY <1>t DEF Unregister, HostRest, Goto, TypeOK, HostTypeOK, Keeps, WorkPC
<1> QED BY <1>m, <1>1, <1>2, <1>3, <1>4, <1>5, Frame

LEMMA DisableKeeps ==
  ASSUME HostInv, AdminInv, NEW a \in Admin, NEW e \in Ext, arg[a] = e, Disable(a)
  PROVE  AdminInv'
<1>t. /\ TypeOK /\ a \in Thread /\ Path(a) /\ Work(a) /\ Own(a) /\ Loaded(e) /\ Mine(a, e)
      /\ arg[a] = e /\ Busy(a, e)
  BY Here DEF Disable, Busy
<1>m. Moves(a, e)
  BY <1>t DEF Disable, HostRest, Goto, SetEnabled, Answer, Continue, TypeOK, HostTypeOK, Moves, Path
<1>1. Path(a)'
  BY <1>t DEF Disable, HostRest, Goto, SetEnabled, Answer, Continue, TypeOK, HostTypeOK, Path, ClosingPC
<1>2. Work(a)'
  BY <1>t DEF Disable, HostRest, Goto, SetEnabled, Answer, Continue, TypeOK, HostTypeOK, Work, WorkPC
<1>3. Own(a)' /\ Loaded(e)'
  BY <1>t DEF Disable, HostRest, Goto, SetEnabled, Answer, Continue, TypeOK, HostTypeOK, Own, Unloaded, Reloads, ClosingPC, Exists, Loaded, Path
<1>4. Mine(a, e)'
  BY <1>t DEF Disable, HostRest, Goto, SetEnabled, Answer, Continue, TypeOK, HostTypeOK, Mine, UniqueName, Own, Unloaded, Reloads, ClosingPC
<1>5. Keeps(a, e)
  BY <1>t DEF Disable, HostRest, Goto, SetEnabled, Answer, Continue, TypeOK, HostTypeOK, Keeps, WorkPC
<1> QED BY <1>m, <1>1, <1>2, <1>3, <1>4, <1>5, Frame

LEMMA DeleteKeeps ==
  ASSUME HostInv, AdminInv, NEW a \in Admin, NEW e \in Ext, arg[a] = e, Delete(a)
  PROVE  AdminInv'
<1>t. /\ TypeOK /\ a \in Thread /\ Path(a) /\ Work(a) /\ Own(a) /\ Loaded(e) /\ Mine(a, e)
      /\ arg[a] = e /\ Busy(a, e)
  BY Here DEF Delete, Busy
<1>m. Moves(a, e)
  BY <1>t DEF Delete, HostRest, Goto, Answer, TypeOK, HostTypeOK, Moves, Path
<1>1. Path(a)'
  BY <1>t DEF Delete, HostRest, Goto, Answer, TypeOK, HostTypeOK, Path, ClosingPC
<1>2. Work(a)'
  BY <1>t DEF Delete, HostRest, Goto, Answer, TypeOK, HostTypeOK, Work, WorkPC
<1>3. Own(a)' /\ Loaded(e)'
  BY <1>t DEF Delete, HostRest, Goto, Answer, TypeOK, HostTypeOK, Own, Unloaded, Reloads, ClosingPC, Exists, Loaded, Path
<1>4. Mine(a, e)'
  BY <1>t DEF Delete, HostRest, Goto, Answer, TypeOK, HostTypeOK, Mine, UniqueName, Own
<1>5. Keeps(a, e)
  BY <1>t DEF Delete, HostRest, Goto, Answer, TypeOK, HostTypeOK, Keeps, WorkPC
<1> QED BY <1>m, <1>1, <1>2, <1>3, <1>4, <1>5, Frame

-----------------------------------------------------------------------------
(* The package pluginhost, the boot, and everyone else                        *)

\* What the goroutine does inside the package: it closes what it started, loaded or
\* took, and returns.
LEMMA CloseMoves ==
  ASSUME TypeOK, NEW a \in Admin, Path(a), HostSteps(a)
  PROVE  /\ \/ pc[a] = "handshake" /\ Goto(a, "store") /\ UNCHANGED <<closed, on>>
            \/ pc[a] = "handshake" /\ Goto(a, "close") /\ UNCHANGED <<closed, on>>
            \/ pc[a] = "lock" /\ Goto(a, "close") /\ UNCHANGED <<closed, on>>
            \/ /\ pc[a] = "close" /\ Goto(a, "reap")
               /\ closed' = [closed EXCEPT ![on[a]] = TRUE] /\ UNCHANGED on
            \/ /\ pc[a] = "reap" /\ Goto(a, after[a]) /\ UNCHANGED closed
               /\ on' = [on EXCEPT ![a] = IF after[a] = "idle" THEN None ELSE @]
         /\ UNCHANGED <<proc, after>>
<1>1. pc[a] \notin {"enter", "await"}
  BY DEF Path
<1>2. CASE Receive(a)
  BY <1>1, <1>2 DEF Receive, Accept, Reject
<1>3. CASE OwnSteps(a)
  BY <1>1, <1>3 DEF OwnSteps, Refuse, Ask, WriteFails, Timeout, LockToClose, CloseLocked, Reap, Return
<1> QED BY <1>2, <1>3 DEF HostSteps

LEMMA CloseKeeps ==
  ASSUME HostInv, AdminInv, NEW a \in Admin, NEW e \in Ext, arg[a] = e, HostSteps(a), UNCHANGED repoVars
  PROVE  AdminInv'
<1>t. /\ TypeOK /\ a \in Thread /\ Path(a) /\ Work(a) /\ Own(a) /\ Loaded(e) /\ Mine(a, e)
      /\ arg[a] = e /\ Busy(a, e)
  BY Here DEF HostSteps, OwnSteps, Receive, Refuse, Ask, WriteFails, Timeout, LockToClose, CloseLocked, Reap,
                Accept, Reject, Busy
<1>c. /\ \/ pc[a] = "handshake" /\ Goto(a, "store") /\ UNCHANGED <<closed, on>>
         \/ pc[a] = "handshake" /\ Goto(a, "close") /\ UNCHANGED <<closed, on>>
         \/ pc[a] = "lock" /\ Goto(a, "close") /\ UNCHANGED <<closed, on>>
         \/ /\ pc[a] = "close" /\ Goto(a, "reap")
            /\ closed' = [closed EXCEPT ![on[a]] = TRUE] /\ UNCHANGED on
         \/ /\ pc[a] = "reap" /\ Goto(a, after[a]) /\ UNCHANGED closed
            /\ on' = [on EXCEPT ![a] = IF after[a] = "idle" THEN None ELSE @]
      /\ UNCHANGED <<proc, after, repoVars>>
  BY <1>t, CloseMoves
<1>m. Moves(a, e)
  BY <1>t, <1>c DEF Goto, repoVars, TypeOK, HostTypeOK, Moves
<1>1. Path(a)'
  BY <1>t, <1>c DEF Goto, repoVars, TypeOK, HostTypeOK, Path, ClosingPC
<1>2. Work(a)'
  BY <1>t, <1>c DEF Goto, repoVars, TypeOK, HostTypeOK, Work, WorkPC, Path, ClosingPC
<1>3. Own(a)' /\ Loaded(e)'
  BY <1>t, <1>c DEF Goto, repoVars, TypeOK, HostTypeOK, Own, Unloaded, Reloads, ClosingPC, Exists, Loaded, Path
<1>4. Mine(a, e)'
  BY <1>t, <1>c DEF Goto, repoVars, TypeOK, HostTypeOK, Mine, UniqueName, Path
<1>5. Keeps(a, e)
  BY <1>t, <1>c DEF Goto, repoVars, TypeOK, HostTypeOK, Keeps, WorkPC
<1> QED BY <1>m, <1>1, <1>2, <1>3, <1>4, <1>5, Frame

\* A goroutine takes up an extension: a request, or the next one at boot.
Takes(a, e) ==
  /\ pc[a] \in {"idle", "boot"} /\ arg' = [arg EXCEPT ![a] = e] /\ Meet(a, e)
  /\ \A b \in Admin \ {a} : pc'[b] = pc[b] /\ op'[b] = op[b]
  /\ UNCHANGED <<proc, closed, on, after, row, loaded, registry, extOf, daemon, dbFails>>

LEMMA TakesKeeps ==
  ASSUME HostInv, AdminInv, NEW a \in Admin, NEW e \in Ext, Takes(a, e),
         pc'[a] \notin {"idle", "boot"}, pc'[a] \notin WorkPC, Path(a)', Own(a)', BootFits'
  PROVE  AdminInv'
<1>t. TypeOK /\ arg'[a] = e /\ \A b \in Admin \ {a} : arg'[b] = arg[b]
  BY DEF HostInv, TypeOK, Takes
<1>1. met \subseteq met' /\ \A b \in Admin \ {a} : Busy(b, e) => e \in met'
  BY DEF Takes, Meet
<1>2. ASSUME NEW b \in Admin, b # a PROVE Path(b)' /\ Work(b)' /\ Own(b)'
  <2>1. Path(b) /\ Work(b) /\ Own(b)
    BY DEF AdminInv
  <2> QED BY <1>1, <1>2, <1>t, <2>1 DEF Takes, Path, Work, Own, Unloaded, Reloads, Exists
<1>3. Work(a)'
  <2>1. Work(a) /\ pc[a] \notin WorkPC
    BY DEF AdminInv, Takes, WorkPC
  <2> QED BY <2>1 DEF Work, Takes
<1>4. ASSUME NEW f \in Ext PROVE Loaded(f)' /\ Tells(f)'
  <2>1. Loaded(f) /\ Tells(f)
    BY DEF AdminInv
  <2>2. \A b \in Admin : Busy(b, f) => b # a /\ Busy(b, f)' /\ pc'[b] = pc[b] /\ op'[b] = op[b]
    BY <1>t DEF Takes, Busy
  <2> QED BY <1>1, <2>1, <2>2 DEF Loaded, Tells, Takes
<1>5. ASSUME NEW i \in Instance PROVE Cared(i)'
  <2>1. Cared(i)
    BY DEF AdminInv
  <2>2. \A b \in Admin : pc[b] \in WorkPC => pc'[b] = pc[b] /\ on'[b] = on[b]
    BY DEF Takes, WorkPC
  <2> QED BY <1>1, <2>1, <2>2 DEF Cared, Takes
<1>6. Alone'
  <2> SUFFICES ASSUME NEW b \in Admin, NEW c \in Admin, NEW f \in Ext, Busy(b, f)', Busy(c, f)', b # c
               PROVE  f \in met'
    BY DEF Alone
  <2>1. \A d \in Admin \ {a} : Busy(d, f)' => Busy(d, f)
    BY <1>t DEF Takes, Busy
  <2>2. Busy(a, f)' => f = e
    BY <1>t DEF Busy
  <2>3. Alone
    BY DEF AdminInv
  <2> QED BY <1>1, <2>1, <2>2, <2>3 DEF Alone
<1>7. \A b \in Admin : Path(b)' /\ Work(b)' /\ Own(b)'
  BY <1>2, <1>3
<1> QED BY <1>4, <1>5, <1>6, <1>7 DEF AdminInv

LEMMA RequestKeeps ==
  ASSUME HostInv, AdminInv, NEW a \in Admin, NEW e \in Ext, NEW o \in {"enable", "disable", "remove"},
         Request(a, e, o)
  PROVE  AdminInv'
<1>t. TypeOK /\ a \in Thread /\ Path(a) /\ BootFits /\ Tells(e) /\ pc[a] = "idle" /\ daemon = "up" /\ Exists(e)
  BY DEF HostInv, AdminInv, Request
<1>1. Takes(a, e)
  BY <1>t DEF Request, HostRest, Goto, TypeOK, HostTypeOK, Takes
<1>2. pc'[a] \in {"evict", "take", "recheck", "delete"} /\ op'[a] = o /\ arg'[a] = e
      /\ (pc'[a] = "delete" => row[e] # "enabled")
  BY <1>t DEF Request, HostRest, Goto, TypeOK, HostTypeOK
<1>3. Path(a)'
  BY <1>t DEF Request, HostRest, Goto, TypeOK, HostTypeOK, Path, ClosingPC
<1>4. Own(a)'
  <2>1. e \notin met' => \A b \in Admin : ~Busy(b, e)
    BY <1>t DEF Request, Meet, Busy
  <2>2. e \notin met' => e \notin met
    BY DEF Request, Meet
  <2>3. e \notin met' /\ ~dbFails /\ loaded[e] # None => row[e] = "enabled"
    BY <1>t, <2>1, <2>2 DEF Tells
  <2> QED BY <1>1, <1>2, <1>t, <2>3 DEF Takes, Own, Unloaded, Reloads, ClosingPC, Exists
<1>5. BootFits'
  BY <1>t DEF Request, HostRest, TypeOK, BootFits
<1> QED BY <1>1, <1>2, <1>3, <1>4, <1>5, TakesKeeps DEF WorkPC

\* Steps of others: they may only close a provider, and a subprocess may die.
LEMMA OthersKeep ==
  ASSUME HostInv, AdminInv, UNCHANGED <<row, loaded, registry, extOf, arg, met, dbFails>>, BootFits',
         \A a \in Admin : /\ on'[a] = on[a] /\ after'[a] = after[a]
                          /\ \/ pc'[a] = pc[a] /\ op'[a] = op[a]
                             \/ pc[a] \in {"idle", "boot"} /\ pc'[a] \in {"idle", "boot"} /\ Path(a)',
         \A i \in Instance : /\ closed[i] => closed'[i]
                             /\ proc'[i] = "up" => proc[i] = "up"
                             /\ proc[i] # "none" => proc'[i] # "none"
  PROVE  AdminInv'
<1>t. TypeOK
  BY DEF HostInv
<1>1. \A a \in Admin, e \in Ext : Busy(a, e)' => Busy(a, e)
  BY DEF Busy
<1>2. \A a \in Admin, e \in Ext : Busy(a, e) => Busy(a, e)' /\ pc'[a] = pc[a] /\ op'[a] = op[a]
  BY DEF Busy
<1>3. ASSUME NEW a \in Admin PROVE Path(a)' /\ Work(a)' /\ Own(a)'
  <2>1. Path(a) /\ Work(a) /\ Own(a) /\ on[a] \in Instance \cup {None}
    BY <1>t DEF AdminInv, TypeOK, HostTypeOK
  <2>2. Path(a)'
    BY <2>1 DEF Path
  <2>3. Work(a)'
    BY <2>1 DEF Work, WorkPC
  <2>4. Own(a)'
    BY <2>1 DEF Own, Unloaded, Reloads, ClosingPC, Exists
  <2> QED BY <2>2, <2>3, <2>4
<1>4. ASSUME NEW e \in Ext PROVE Loaded(e)' /\ Tells(e)'
  <2>1. Loaded(e) /\ Tells(e)
    BY DEF AdminInv
  <2> QED BY <1>2, <2>1 DEF Loaded, Tells
<1>5. ASSUME NEW i \in Instance PROVE Cared(i)'
  <2>1. Cared(i)
    BY DEF AdminInv
  <2>2. \A a \in Admin : pc[a] \in WorkPC => pc'[a] = pc[a]
    BY DEF WorkPC
  <2> QED BY <2>1, <2>2 DEF Cared
<1>6. Alone'
  BY <1>1 DEF Alone, AdminInv
<1> QED BY <1>3, <1>4, <1>5, <1>6 DEF AdminInv

LEMMA BootKeeps == ASSUME HostInv, AdminInv, NEW a \in Admin, Boot(a) PROVE AdminInv'
<1>t. /\ TypeOK /\ DownIsIdle /\ a \in Thread /\ daemon = "down" /\ BootFits
      /\ \A b \in Admin : Path(b) /\ pc[b] = "idle"
  BY DEF HostInv, AdminInv, Boot, DownIsIdle
<1>1. \A b \in Admin : op[b] = "none"
  BY <1>t DEF Path
<1>2. BootFits'
  BY <1>1, <1>t DEF Boot, HostRest, TypeOK, BootFits
<1>3. Path(a)' /\ pc'[a] = "boot"
  BY <1>t DEF Boot, HostRest, Goto, TypeOK, HostTypeOK, Path, ClosingPC
<1>4. \A b \in Admin : b # a => pc'[b] = pc[b] /\ op'[b] = op[b]
  BY <1>t DEF Boot, Goto, TypeOK, HostTypeOK
<1> QED BY <1>2, <1>3, <1>4, <1>t, OthersKeep DEF Boot, HostRest

\* The next extension that was enabled, or the daemon is up.
LEMMA LoadNextKeeps == ASSUME HostInv, AdminInv, NEW a \in Admin, LoadNext(a) PROVE AdminInv'
<1>t. TypeOK /\ a \in Thread /\ BootFits /\ Path(a) /\ pc[a] = "boot" /\ op[a] = "boot" /\ daemon = "boot"
  BY DEF HostInv, AdminInv, LoadNext, Path, BootFits
<1>0. /\ \A b \in Admin : b # a => op[b] = "none"
      /\ \A b \in Admin : b # a => pc'[b] = pc[b] /\ op'[b] = op[b]
  <2>1. ASSUME NEW b \in Admin, b # a PROVE op[b] = "none"
    BY <1>t, <2>1 DEF BootFits, TypeOK
  <2>2. \A b \in Admin : b # a => pc'[b] = pc[b] /\ op'[b] = op[b]
    BY <1>t DEF LoadNext, Goto, TypeOK, HostTypeOK
  <2> QED BY <2>1, <2>2
<1>1. CASE todo = {} /\ daemon' = "up" /\ op' = [op EXCEPT ![a] = "none"] /\ Goto(a, "idle")
           /\ UNCHANGED <<todo, arg, met>>
  <2>1. BootFits'
    BY <1>0, <1>1, <1>t DEF LoadNext, HostRest, TypeOK, BootFits
  <2>2. Path(a)' /\ pc'[a] = "idle"
    BY <1>1, <1>t DEF LoadNext, HostRest, Goto, TypeOK, HostTypeOK, Path, ClosingPC
  <2> QED BY <1>0, <1>1, <1>t, <2>1, <2>2, OthersKeep DEF LoadNext, HostRest
<1>2. ASSUME NEW e \in todo, todo' = todo \ {e}, arg' = [arg EXCEPT ![a] = e], Meet(a, e), Goto(a, "evict"),
             UNCHANGED <<daemon, op>>
      PROVE  AdminInv'
  <2>t. e \in Ext /\ arg'[a] = e /\ pc'[a] = "evict" /\ (~dbFails => row[e] = "enabled")
    BY <1>2, <1>t DEF Goto, TypeOK, HostTypeOK, BootFits
  <2>1. Takes(a, e)
    BY <1>0, <1>2, <1>t DEF LoadNext, HostRest, Takes
  <2>2. Path(a)'
    BY <1>2, <1>t, <2>t DEF Path, ClosingPC
  <2>3. Own(a)'
    BY <2>1, <2>t DEF Takes, Own, Unloaded, Reloads, ClosingPC, Exists
  <2>4. BootFits'
    BY <1>2, <1>t DEF LoadNext, HostRest, BootFits
  <2> QED BY <2>1, <2>2, <2>3, <2>4, <2>t, TakesKeeps DEF WorkPC
<1> QED BY <1>1, <1>2 DEF LoadNext

LEMMA CallsKeep ==
  ASSUME HostInv, AdminInv,
         \/ \E u \in User, k \in Kind : Use(u, k)
         \/ (\E u \in User : HostSteps(u)) /\ UNCHANGED repoVars
         \/ (\E i \in Instance : Subprocess(i)) /\ UNCHANGED repoVars
         \/ UNCHANGED vars
  PROVE  AdminInv'
<1>t. TypeOK /\ UNCHANGED repoVars
  BY DEF HostInv, Use, vars
<1>b. BootFits' /\ UNCHANGED <<row, loaded, registry, extOf, arg, met, dbFails, op>>
  BY <1>t DEF AdminInv, BootFits, repoVars
<1>1. ASSUME NEW u \in User, NEW k \in Kind, Use(u, k) PROVE AdminInv'
  BY <1>1, <1>b, <1>t, OthersKeep DEF Use, Goto, TypeOK, HostTypeOK
<1>2. ASSUME NEW u \in User, HostSteps(u) PROVE AdminInv'
  <2>1. /\ \A a \in Admin : pc'[a] = pc[a] /\ on'[a] = on[a] /\ after'[a] = after[a]
        /\ UNCHANGED proc
    BY <1>2, <1>t DEF HostSteps, OwnSteps, Receive, Refuse, Ask, WriteFails, Timeout, LockToClose,
       CloseLocked, Reap, Accept, Reject, Return, Goto, TypeOK, HostTypeOK
  <2>2. \A i \in Instance : closed[i] => closed'[i]
    BY <1>2, <1>t DEF HostSteps, OwnSteps, Receive, Refuse, Ask, WriteFails, Timeout, LockToClose,
       CloseLocked, Reap, Accept, Reject, TypeOK, HostTypeOK
  <2> QED BY <1>b, <2>1, <2>2, OthersKeep
<1>3. ASSUME NEW i \in Instance, Subprocess(i) PROVE AdminInv'
  BY <1>3, <1>b, <1>t, OthersKeep DEF Subprocess, Die, StrayRead, TypeOK, HostTypeOK
<1>4. CASE UNCHANGED vars
  BY <1>4, <1>b, OthersKeep DEF vars, hostVars
<1> QED BY <1>1, <1>2, <1>3, <1>4

LEMMA InstallKeeps == ASSUME HostInv, AdminInv, NEW e \in Ext, Install(e) PROVE AdminInv'
<1>t. TypeOK /\ row[e] = "none" /\ UNCHANGED <<pc, op, on, after, arg, loaded, registry, proc, closed, extOf,
        met, dbFails, todo, daemon>> /\ \A f \in Ext : row[f] # "none" => row'[f] = row[f]
  BY DEF Install, hostVars, HostInv, TypeOK
<1>1. \A a \in Admin : Path(a)' /\ Work(a)'
  BY <1>t DEF AdminInv, Path, Work
<1>2. ASSUME NEW a \in Admin PROVE Own(a)'
  <2>1. Own(a) /\ arg[a] \in Ext
    BY <1>t DEF AdminInv, TypeOK
  <2> QED BY <1>t, <2>1 DEF Own, Unloaded, Reloads, Exists
<1>3. \A f \in Ext : Loaded(f)' /\ Tells(f)'
  BY <1>t DEF AdminInv, Loaded, Tells, Busy
<1>4. (\A i \in Instance : Cared(i)') /\ Alone'
  BY <1>t DEF AdminInv, Cared, Alone, Busy
<1>5. BootFits'
  BY <1>t DEF AdminInv, BootFits
<1> QED BY <1>1, <1>2, <1>3, <1>4, <1>5 DEF AdminInv

LEMMA NextAdmin == HostInv /\ AdminInv /\ [Next]_vars => AdminInv'
<1> SUFFICES ASSUME HostInv, AdminInv, [Next]_vars PROVE AdminInv'
  OBVIOUS
<1>2. CASE Crash
  <2>1. \A a \in Admin : Path(a)' /\ Work(a)' /\ Own(a)'
    BY <1>2 DEF Crash, Path, ClosingPC, Work, WorkPC, Own, Unloaded, Reloads, HostInv, TypeOK, HostTypeOK
  <2>2. \A e \in Ext : Loaded(e)' /\ Tells(e)'
    BY <1>2 DEF Crash, Loaded, Tells
  <2>3. (\A i \in Instance : Cared(i)') /\ Alone' /\ BootFits'
    BY <1>2 DEF Crash, Cared, Alone, Busy, BootFits
  <2> QED BY <2>1, <2>2, <2>3 DEF AdminInv
<1>3. ASSUME NEW a \in Admin, AdminSteps(a) PROVE AdminInv'
  <2>1. arg[a] \in Ext
    BY DEF HostInv, TypeOK
  <2> QED BY <1>3, <2>1, EvictKeeps, EvictedKeeps, SpawnKeeps, LoadFailedKeeps, StoreKeeps, RegisterKeeps,
     EnableKeeps, RecheckKeeps, TakeKeeps, UnregisterKeeps, DisableKeeps, DeleteKeeps, LoadNextKeeps DEF AdminSteps
<1>4. ASSUME NEW t \in Thread, HostSteps(t), UNCHANGED repoVars PROVE AdminInv'
  <2>1. t \in Admin => arg[t] \in Ext
    BY DEF HostInv, TypeOK
  <2> QED BY <1>4, <2>1, CloseKeeps, CallsKeep
<1> QED BY <1>2, <1>3, <1>4, CallsKeep, RequestKeeps, BootKeeps, InstallKeeps DEF Next

LEMMA InitAdmin == Init => AdminInv
<1> SUFFICES ASSUME Init PROVE AdminInv
  OBVIOUS
<1>1. \A a \in Admin : Path(a) /\ Work(a) /\ Own(a)
  BY DEF Init, HostInit, Path, ClosingPC, Work, WorkPC, Own, Unloaded, Reloads
<1>2. (\A e \in Ext : Loaded(e) /\ Tells(e)) /\ \A i \in Instance : Cared(i)
  BY DEF Init, HostInit, Loaded, Tells, Cared
<1>3. Alone /\ BootFits
  BY DEF Init, HostInit, Alone, Busy, BootFits
<1> QED BY <1>1, <1>2, <1>3 DEF AdminInv

LEMMA Management == Spec => []AdminInv
<1>1. HostInv /\ AdminInv /\ [Next]_vars => AdminInv'
  BY NextAdmin
<1> QED BY <1>1, InitAdmin, Lockstep, PTL DEF Spec

\* No subprocess is leaked, whatever start, handshake or statement fails and however
\* many goroutines manage extensions: one that runs is in Repository.loaded, where
\* Disable, Remove or the next Enable finds it, or a goroutine works on it, unless two
\* requests have been busy with its extension at once.
THEOREM NothingLeaksTheorem == Spec => []NothingLeaks
<1>1. AdminInv => NothingLeaks
  BY DEF AdminInv, Cared, NothingLeaks, Works, WorkPC
<1> QED BY <1>1, Management, PTL

\* What the Repository has loaded for an extension nobody is busy with is what the
\* Registry answers with for its name, when no other extension declares it and no two
\* requests have been busy with the extension at once.
THEOREM LoadedIsRegisteredTheorem == Spec => []LoadedIsRegistered
<1>1. AdminInv => LoadedIsRegistered
  BY DEF AdminInv, Tells, UniqueName, LoadedIsRegistered
<1> QED BY <1>1, Management, PTL

\* What Remove has removed does not run: with a database that does not fail, the row
\* it reads tells whether there is a subprocess to stop, also after a boot and with
\* other extensions managed at the same time.
THEOREM RemovedIsStoppedTheorem == Spec => []RemovedIsStopped
<1>1. HostInv /\ AdminInv => RemovedIsStopped
  <2> SUFFICES ASSUME HostInv, AdminInv, ~dbFails, NEW i \in Instance, row[extOf[i]] = "removed",
                      proc[i] = "up", ~closed[i], extOf[i] \notin met
               PROVE  FALSE
    BY DEF RemovedIsStopped
  <2>t. extOf[i] \in Ext /\ Cared(i)
    BY DEF HostInv, TypeOK, AdminInv
  <2>1. ASSUME NEW a \in Admin, arg[a] = extOf[i], pc[a] \notin {"idle", "boot"} PROVE FALSE
    BY <2>1 DEF AdminInv, Own, Exists
  <2>2. CASE loaded[extOf[i]] = i
    BY <2>1, <2>2, <2>t DEF AdminInv, Tells, Busy
  <2>3. ASSUME NEW a \in Admin, on[a] = i, pc[a] \in WorkPC PROVE FALSE
    <3>1. Work(a)
      BY DEF AdminInv
    <3> QED BY <2>1, <2>3, <3>1 DEF Work, WorkPC
  <2> QED BY <2>2, <2>3, <2>t DEF Cared
<1> QED BY <1>1, Management, Lockstep, PTL

=============================================================================
