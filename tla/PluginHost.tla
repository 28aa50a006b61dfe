------------------------------ MODULE PluginHost ------------------------------
(***************************************************************************)
(* internal/pluginhost: ExternalProvider, a subprocess that answers one    *)
(* request at a time over its stdin and stdout, and the goroutines that    *)
(* load, call and close it under e.mu.  The subprocess is not trusted: it  *)
(* may write any line, close a pipe, fall silent or die at any time, so    *)
(* what a reader meets is chosen freely: the line that was expected, or    *)
(* one of the many things that make the caller close the provider.         *)
(*                                                                         *)
(* readLineLocked reads in a goroutine of its own.  When the caller gives  *)
(* up waiting, that goroutine stays behind in scanner.Scan.                *)
(***************************************************************************)
EXTENDS Naturals

CONSTANTS
  Thread,      \* goroutines that use the package
  Instance,    \* ExternalProviders (bounds the number of subprocesses)
  None         \* no goroutine, no instance

ASSUME HostAssumption == None \notin Thread \cup Instance

VARIABLES
  proc,      \* the subprocess: none, up, dead; orphan when its daemon has died
  closed,    \* e.closed
  mu,        \* the goroutine that holds e.mu
  readers,   \* goroutines in scanner.Scan
  pc,        \* what a goroutine does next
  on,        \* the ExternalProvider it works with
  after      \* where it goes on after a call or a Close

hostVars == <<proc, closed, mu, readers, pc, on, after>>

\* call waits for e.mu (enter) and for its answer (await); LoadExtension waits
\* for the handshake; Close waits for e.mu (lock); closeLocked marks and kills
\* (close) and waits for the subprocess to be reaped (reap).
HostPC == {"enter", "await", "handshake", "lock", "close", "reap"}

HostTypeOK(otherPC) ==
  /\ proc \in [Instance -> {"none", "up", "dead", "orphan"}]
  /\ closed \in [Instance -> BOOLEAN]
  /\ mu \in [Instance -> Thread \cup {None}]
  /\ readers \in [Instance -> Nat]
  /\ pc \in [Thread -> HostPC \cup otherPC]
  /\ on \in [Thread -> Instance \cup {None}]
  /\ after \in [Thread -> otherPC]

HostInit ==
  /\ proc = [i \in Instance |-> "none"]
  /\ closed = [i \in Instance |-> FALSE]
  /\ mu = [i \in Instance |-> None]
  /\ readers = [i \in Instance |-> 0]
  /\ pc = [t \in Thread |-> "idle"]
  /\ on = [t \in Thread |-> None]
  /\ after = [t \in Thread |-> "idle"]

Goto(t, l) == pc' = [pc EXCEPT ![t] = l]

\* A call or a Close returns to the goroutine's own code (a handler that has
\* answered is done with the provider).
Return(t) ==
  /\ Goto(t, after[t])
  /\ on' = [on EXCEPT ![t] = IF after[t] = "idle" THEN None ELSE @]

Lock(t, i) == mu[i] = None /\ mu' = [mu EXCEPT ![i] = t]
Unlock(i)  == mu' = [mu EXCEPT ![i] = None]

-----------------------------------------------------------------------------
(* LoadExtension and call                                                     *)

\* LoadExtension has started i and reads its handshake under e.mu, which nobody
\* else knows yet.
Launch(t, i) ==
  /\ proc[i] = "none"
  /\ proc' = [proc EXCEPT ![i] = "up"]
  /\ Lock(t, i)
  /\ readers' = [readers EXCEPT ![i] = @ + 1]
  /\ on' = [on EXCEPT ![t] = i]
  /\ Goto(t, "handshake")
  /\ UNCHANGED closed

\* A provider that is closed refuses the call.
Refuse(t) ==
  /\ pc[t] = "enter" /\ mu[on[t]] = None
  /\ closed[on[t]]
  /\ Return(t)
  /\ UNCHANGED <<proc, closed, mu, readers, after>>

\* The request is written and a reader started ...
Ask(t) ==
  /\ pc[t] = "enter" /\ Lock(t, on[t])
  /\ ~closed[on[t]] /\ proc[on[t]] = "up"
  /\ readers' = [readers EXCEPT ![on[t]] = @ + 1]
  /\ Goto(t, "await")
  /\ UNCHANGED <<proc, closed, on, after>>

\* ... or the write fails: the subprocess died or closed its stdin.
WriteFails(t) ==
  /\ pc[t] = "enter" /\ Lock(t, on[t])
  /\ ~closed[on[t]]
  /\ Goto(t, "close")
  /\ UNCHANGED <<proc, closed, readers, on, after>>

ReadLine(i) == readers' = [readers EXCEPT ![i] = @ - 1]

\* The response with the request's ID, or a handshake of a supported version.
Accept(t) ==
  /\ \/ pc[t] = "await" /\ Return(t)
     \/ pc[t] = "handshake" /\ Goto(t, "store") /\ UNCHANGED on
  /\ ReadLine(on[t])
  /\ Unlock(on[t])
  /\ UNCHANGED <<proc, closed, after>>

\* End of file (cmd.Wait closes the pipe, unread lines and all), a line beyond
\* the scanner's limit, one that is no JSON, another version or another ID.
Reject(t) ==
  /\ pc[t] \in {"await", "handshake"}
  /\ ReadLine(on[t])
  /\ Goto(t, "close")
  /\ UNCHANGED <<proc, closed, mu, on, after>>

TimeoutKeepsOpen(t) ==                     \* mutant of Timeout
  /\ pc[t] \in {"await", "handshake"}
  /\ Unlock(on[t])
  /\ Return(t)
  /\ UNCHANGED <<proc, closed, readers, after>>

TimeoutOfCalls(t) ==                       \* mutant of Timeout
  /\ pc[t] = "await"
  /\ Goto(t, "close")
  /\ UNCHANGED <<proc, closed, mu, readers, on, after>>

\* The timer or the request's context ends the wait; the reader stays behind.
Timeout(t) ==
  /\ pc[t] \in {"await", "handshake"}
  /\ Goto(t, "close")
  /\ UNCHANGED <<proc, closed, mu, readers, on, after>>

-----------------------------------------------------------------------------
(* Close                                                                      *)

LockToClose(t) ==
  /\ pc[t] = "lock"
  /\ Lock(t, on[t])
  /\ Goto(t, "close")
  /\ UNCHANGED <<proc, closed, readers, on, after>>

\* closeLocked: nothing when already closed; else the flag, then SIGKILL.
CloseLocked(t) ==
  /\ pc[t] = "close"
  /\ closed' = [closed EXCEPT ![on[t]] = TRUE]
  /\ Goto(t, "reap")
  /\ UNCHANGED <<proc, mu, readers, on, after>>

\* e.done is closed or two seconds are over; the deferred unlock.
Reap(t) ==
  /\ pc[t] = "reap"
  /\ Unlock(on[t])
  /\ Return(t)
  /\ UNCHANGED <<proc, closed, readers, after>>

-----------------------------------------------------------------------------
(* The subprocess, and the readers that were left behind.                     *)

Die(i) ==
  /\ proc[i] = "up"
  /\ proc' = [proc EXCEPT ![i] = "dead"]
  /\ UNCHANGED <<closed, mu, readers, pc, on, after>>

Waiting(i) == {t \in Thread : on[t] = i /\ pc[t] \in {"await", "handshake"}}

\* A reader nobody waits for swallows a late line or meets the end of the file.
StrayRead(i) ==
  /\ readers[i] > 0 /\ Waiting(i) = {}
  /\ ReadLine(i)
  /\ UNCHANGED <<proc, closed, mu, pc, on, after>>

\* What a goroutine does by itself, and what takes a subprocess that writes.
OwnSteps(t)  == \/ Refuse(t) \/ Ask(t) \/ WriteFails(t) \/ Timeout(t)
                \/ LockToClose(t) \/ CloseLocked(t) \/ Reap(t)
Receive(t)   == Accept(t) \/ Reject(t)
HostSteps(t) == OwnSteps(t) \/ Receive(t)

Subprocess(i) == Die(i) \/ StrayRead(i)

-----------------------------------------------------------------------------
(* Properties.                                                                *)

\* "Strict request/response lockstep": the scanner of a provider is read by one
\* goroutine at a time, although a reader that was given up on lives on, and
\* while a call waits that reader is its own, not one left behind by an earlier
\* call that would swallow its answer.
ReaderIsAlone == \A i \in Instance : readers[i] <= 1

=============================================================================
