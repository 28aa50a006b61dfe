-------------------------------- MODULE Daemon --------------------------------
(***************************************************************************)
(* The daemon process from cmd/voltpanel/main.go to its end, with          *)
(* internal/server (New, Run, Shutdown, Close), the files it shares with   *)
(* the commands of cli.go (config.json, daemon.pid) and those commands.    *)
(* Two goroutines of a daemon matter: main, and the one that waits for a   *)
(* stop signal.  A PID is never used again.                                *)
(***************************************************************************)
EXTENDS Naturals

CONSTANTS
  MaxProc,        \* daemons launched in a behaviour
  Cli,            \* terminals
  BootFaultSets

ASSUME ProcAssumption == MaxProc \in Nat \ {0}

\* second: a daemon is launched although one is there, commands overlap; early: a
\* command meets a daemon that is still booting; timeout: a restart stops waiting for
\* a daemon that is still there; kill: a process dies anywhere; fatal: a boot fails;
\* write: a write or a removal of a file fails.
ASSUME BootFaults == BootFaultSets \subseteq SUBSET {"second", "early", "timeout", "kill", "fatal", "write"}

VARIABLES
  boot,      \* Proc -> where main is
  handler,   \* Proc -> where the signal goroutine is
  http,      \* Proc -> s.http: "nil", "set", "open" (listening), "closed"
  port,      \* Proc -> the port that was probed
  token,     \* Proc -> the token it asks for
  held,      \* the daemons whose extensions and pools Close has not stopped
  busy,      \* the daemons with a request in flight
  pidFile,   \* daemon.pid, 0 without it
  voltDir,   \* ~/.volt exists
  config,    \* config.json: NoConfig, Legacy, Torn, or [token, port]
  unsaved,   \* history: the daemons whose port SaveConfig failed to save
  unnamed,   \* history: the daemons whose writePIDFile failed
  legacy,    \* an older configuration directory exists (never changes)
  basePort,  \* the first port somebody else does not hold (never changes)
  launched,  \* how many daemons were launched
  cli,       \* each terminal's step and the PID it read
  bootFaults \* the faults of this behaviour (never changes)

lost       == <<unsaved, unnamed>>
files      == <<pidFile, voltDir, config, lost>>
server     == <<http, port, token, held, busy>>
given      == <<legacy, basePort, bootFaults>>
daemonVars == <<boot, handler, server, files, given, launched, cli>>

Proc     == 1 .. MaxProc
Booting  == {"dirs", "load", "probe", "pid", "new", "autostart", "notify", "run", "listen"}
Prompt   == [pc |-> "prompt", pid |-> 0]
NoConfig == [token |-> 0, port |-> 0]
Torn     == [token |-> 0, port |-> 1]
Legacy   == [token |-> 1, port |-> 0]   \* of a release without session secrets

DaemonTypeOK ==
  /\ boot \in [Proc -> {"none", "serve", "return", "exit", "done", "gone"} \cup Booting]
  /\ handler \in [Proc -> {"off", "wait", "proxy", "http", "drain", "close", "end"}]
  /\ http \in [Proc -> {"nil", "set", "open", "closed"}]
  /\ pidFile \in 0 .. MaxProc /\ launched \in 0 .. MaxProc
  /\ unsaved \subseteq Proc /\ unnamed \subseteq Proc
  /\ bootFaults \in BootFaultSets

\* A fresh machine, or one with a directory of an earlier release.
DaemonInit ==
  /\ boot = [p \in Proc |-> "none"] /\ handler = [p \in Proc |-> "off"]
  /\ http = [p \in Proc |-> "nil"] /\ port = [p \in Proc |-> 0] /\ token = [p \in Proc |-> 0]
  /\ held = {} /\ busy = {}
  /\ pidFile = 0 /\ voltDir = FALSE /\ config = NoConfig
  /\ unsaved = {} /\ unnamed = {}
  /\ legacy \in BOOLEAN /\ basePort \in {1, 2} /\ bootFaults \in BootFaultSets
  /\ launched = 0 /\ cli = [t \in Cli |-> Prompt]

Alive(p)   == boot[p] \notin {"none", "done", "gone"}
Step(p, l) == boot' = [boot EXCEPT ![p] = l]

\* The process ends; what it listened to is free again, what it started is not gone.
Vanish(p, l) ==
  /\ Step(p, l)
  /\ handler' = [handler EXCEPT ![p] = "end"] /\ http' = [http EXCEPT ![p] = "closed"]
  /\ busy' = busy \ {p}

\* log.Fatalf: deferred calls do not run, so the PID file stays.
Fatal(p) == Vanish(p, "gone") /\ UNCHANGED <<port, token, held, files>>

-----------------------------------------------------------------------------
(* The files                                                                  *)

WriteFails == "write" \in bootFaults

\* What a failing write of config.json may leave: nothing is done, or os.WriteFile
\* has truncated the file.
Unwritten == {c \in {config, Torn} : WriteFails}

\* The older config.json is taken over when ~/.volt does not exist yet, and only
\* then; a failure is only logged.
migrateLegacyDir ==
  IF ~voltDir /\ legacy THEN {Legacy} \cup Unwritten ELSE {config}

\* LoadOrInitConfig: a file that is there is used, one without a session secret is
\* written again; a torn one is an error.
LoadOrInitConfig(c) ==
  CASE c = NoConfig -> [token |-> 2, port |-> 1]
    [] c = Legacy   -> [token |-> 1, port |-> 1]
    [] OTHER        -> c

\* The first of twenty ports from the base on nobody listens to, else the base; it is
\* free again at once.
probePort ==
  LET Free(x) == \A p \in Proc : http[p] = "open" => port[p] # x
      First(x) == Free(x) /\ \A y \in basePort .. (x - 1) : ~Free(y)
  IN  IF \E x \in basePort .. (basePort + 19) : First(x)
        THEN CHOOSE x \in basePort .. (basePort + 19) : First(x)
        ELSE basePort

-----------------------------------------------------------------------------
(* main                                                                       *)

EnsureDirs(p) ==
  /\ boot[p] = "dirs"
  /\ \/ /\ Step(p, "load")
        /\ voltDir' = TRUE /\ config' \in migrateLegacyDir
        /\ UNCHANGED <<handler, server, pidFile, lost>>
     \/ WriteFails /\ Fatal(p)
  /\ UNCHANGED <<given, launched, cli>>

LoadConfig(p) ==
  /\ boot[p] = "load"
  /\ \/ config = Torn /\ Fatal(p)
     \/ /\ config # Torn /\ config' = LoadOrInitConfig(config) /\ Step(p, "probe")
        /\ token' = [token EXCEPT ![p] = config'.token]
        /\ UNCHANGED <<handler, http, port, held, busy, pidFile, voltDir, lost>>
     \/ /\ config # LoadOrInitConfig(config) /\ config' \in Unwritten
        /\ Vanish(p, "gone")
        /\ UNCHANGED <<port, token, held, pidFile, voltDir, lost>>
  /\ UNCHANGED <<given, launched, cli>>

\* SaveConfig of what was loaded, with the port; its error is ignored.
Probe(p) ==
  /\ boot[p] = "probe" /\ Step(p, "pid")
  /\ port' = [port EXCEPT ![p] = probePort]
  /\ \/ config' = [token |-> token[p], port |-> probePort] /\ UNCHANGED unsaved
     \/ config' \in Unwritten /\ unsaved' = unsaved \cup {p}
  /\ UNCHANGED <<handler, http, token, held, busy, pidFile, voltDir, unnamed, given, launched, cli>>

\* A failure is only logged: the file is as it was, or truncated.
writePIDFile(p) ==
  /\ boot[p] = "pid" /\ Step(p, "new")
  /\ \/ pidFile' = p /\ UNCHANGED unnamed
     \/ WriteFails /\ pidFile' \in {pidFile, 0} /\ unnamed' = unnamed \cup {p}
  /\ UNCHANGED <<handler, server, voltDir, config, unsaved, given, launched, cli>>

\* server.New: the enabled extensions are started; it may fail before or after.
New(p) ==
  /\ boot[p] = "new"
  /\ \/ /\ held' = held \cup {p} /\ Step(p, "autostart")
        /\ UNCHANGED <<handler, http, port, token, busy, files>>
     \/ /\ "fatal" \in bootFaults
        /\ Vanish(p, "gone") /\ held' \in {held, held \cup {p}}
        /\ UNCHANGED <<port, token, files>>
  /\ UNCHANGED <<given, launched, cli>>

\* An error of it is only logged.  Autostart is a module of its own.
StartAutostartServices(p) ==
  /\ boot[p] = "autostart" /\ Step(p, "notify")
  /\ UNCHANGED <<handler, server, files, given, launched, cli>>

Notify(p) ==
  /\ boot[p] = "notify" /\ Step(p, "run")
  /\ handler' = [handler EXCEPT ![p] = "wait"]
  /\ UNCHANGED <<server, files, given, launched, cli>>

\* Run makes the two servers; then it listens.
Run(p) ==
  /\ boot[p] = "run" /\ Step(p, "listen")
  /\ http' = [http EXCEPT ![p] = "set"]
  /\ UNCHANGED <<handler, port, token, held, busy, files, given, launched, cli>>

\* ListenAndServe: returns when it was shut down before, fails when the port is taken.
ListenAndServe(p) ==
  /\ boot[p] = "listen"
  /\ \/ /\ http[p] = "closed" /\ Step(p, "return")
        /\ UNCHANGED <<handler, server, files>>
     \/ /\ http[p] = "set" /\ \A q \in Proc : http[q] = "open" => port[q] # port[p]
        /\ Step(p, "serve") /\ http' = [http EXCEPT ![p] = "open"]
        /\ UNCHANGED <<handler, port, token, held, busy, files>>
     \/ /\ http[p] = "set" /\ ("fatal" \in bootFaults \/ \E q \in Proc : http[q] = "open" /\ port[q] = port[p])
        /\ Fatal(p)
  /\ UNCHANGED <<given, launched, cli>>

Request(p) ==
  /\ http[p] = "open" /\ p \notin busy /\ busy' = busy \cup {p}
  /\ UNCHANGED <<boot, handler, http, port, token, held, files, given, launched, cli>>

Respond(p) ==
  /\ p \in busy /\ busy' = busy \ {p}
  /\ UNCHANGED <<boot, handler, http, port, token, held, files, given, launched, cli>>

\* Run returns as soon as Shutdown has closed the listener.
RunReturns(p) ==
  /\ boot[p] = "serve" /\ http[p] = "closed" /\ Step(p, "return")
  /\ UNCHANGED <<handler, server, files, given, launched, cli>>

\* The deferred call: whatever PID the file holds by now.  Its error is ignored.
removePIDFile(p) ==
  /\ boot[p] = "return" /\ Step(p, "exit")
  /\ pidFile' = 0 \/ (WriteFails /\ UNCHANGED pidFile)
  /\ UNCHANGED <<handler, server, voltDir, config, lost, given, launched, cli>>

MainExits(p) ==
  /\ boot[p] = "exit" /\ Vanish(p, "done")
  /\ UNCHANGED <<port, token, held, files, given, launched, cli>>

-----------------------------------------------------------------------------
(* The signal goroutine                                                       *)

HandlerTo(p, l) == handler' = [handler EXCEPT ![p] = l]

ShutdownProxy(p) ==
  /\ handler[p] = "proxy" /\ HandlerTo(p, "http")
  /\ UNCHANGED <<boot, server, files, given, launched, cli>>

\* Without a server yet there is nothing to shut down.
ShutdownHTTP(p) ==
  /\ handler[p] = "http"
  /\ IF http[p] = "nil" THEN HandlerTo(p, "close") /\ UNCHANGED http
     ELSE HandlerTo(p, "drain") /\ http' = [http EXCEPT ![p] = "closed"]
  /\ UNCHANGED <<boot, port, token, held, busy, files, given, launched, cli>>

\* The requests in flight are done, or the ten seconds are over.
Drained(p) ==
  /\ handler[p] = "drain" /\ HandlerTo(p, "close")
  /\ p \notin busy \/ "timeout" \in bootFaults
  /\ UNCHANGED <<boot, server, files, given, launched, cli>>

Close(p) ==
  /\ handler[p] = "close" /\ HandlerTo(p, "end")
  /\ held' = held \ {p}
  /\ UNCHANGED <<boot, http, port, token, busy, files, given, launched, cli>>

\* SIGTERM: before Notify it ends the process, once the goroutine has been through it
\* is lost.
Signal(p) ==
  \/ /\ Alive(p) /\ handler[p] = "off" /\ Vanish(p, "gone")
     /\ UNCHANGED <<port, token, held>>
  \/ /\ Alive(p) /\ handler[p] = "wait" /\ HandlerTo(p, "proxy")
     /\ UNCHANGED <<boot, server>>
  \/ /\ ~Alive(p) \/ handler[p] \notin {"off", "wait"}
     /\ UNCHANGED <<boot, handler, server>>

\* A kill in the middle of a write leaves part of it: an empty ~/.volt, which is
\* never filled from the older directory again, a torn config.json, or a PID file
\* without a number, which readPID takes for none.
Kill(p) ==
  /\ "kill" \in bootFaults /\ Alive(p) /\ Vanish(p, "gone")
  /\ \/ UNCHANGED files
     \/ /\ boot[p] = "dirs" /\ ~voltDir /\ legacy
        /\ voltDir' = TRUE /\ config' \in {config, Torn} /\ UNCHANGED <<pidFile, lost>>
     \/ /\ boot[p] = "probe" \/ (boot[p] = "load" /\ config # LoadOrInitConfig(config))
        /\ config' = Torn /\ UNCHANGED <<pidFile, voltDir, lost>>
     \/ boot[p] = "pid" /\ pidFile' = 0 /\ UNCHANGED <<voltDir, config, lost>>
  /\ UNCHANGED <<port, token, held, given, launched, cli>>

-----------------------------------------------------------------------------
(* The commands                                                               *)

Launch ==
  /\ launched < MaxProc /\ launched' = launched + 1
  /\ Step(launched + 1, "dirs")

CliTo(t, l, p) == cli' = [cli EXCEPT ![t] = [pc |-> l, pid |-> p]]

Command(t) ==
  /\ cli[t] = Prompt
  /\ "second" \in bootFaults \/ \A u \in Cli : cli[u] = Prompt

start(t) ==
  /\ Command(t) /\ ("second" \in bootFaults \/ \A p \in Proc : ~Alive(p))
  /\ Launch
  /\ UNCHANGED <<handler, server, files, given, cli>>

\* readRunningConfig, which may be the first to make the directory and the file, and
\* fails on a torn one or when it cannot write; then readPID.
ReadPID(t, l, none) ==
  /\ Command(t) /\ ("early" \in bootFaults \/ \A p \in Proc : boot[p] \notin Booting)
  /\ voltDir' = TRUE
  /\ \E c \in migrateLegacyDir :
       \/ /\ config' = LoadOrInitConfig(c)
          /\ CASE c = Torn -> UNCHANGED cli
               [] c # Torn /\ pidFile = 0 -> CliTo(t, none, 0)
               [] OTHER -> CliTo(t, l, pidFile)
       \/ WriteFails /\ c # LoadOrInitConfig(c) /\ config' \in {c, Torn} /\ UNCHANGED cli
  /\ UNCHANGED <<boot, handler, server, pidFile, lost, given, launched>>

cliStop(t)    == ReadPID(t, "stop", "prompt")
cliRestart(t) == ReadPID(t, "signal", "relaunch")

\* When there is no such process the file is removed, whatever it holds by now.
StopSignal(t) ==
  /\ cli[t].pc = "stop" /\ CliTo(t, "prompt", 0)
  /\ Signal(cli[t].pid)
  /\ \/ Alive(cli[t].pid) /\ UNCHANGED pidFile
     \/ ~Alive(cli[t].pid) /\ (pidFile' = 0 \/ (WriteFails /\ UNCHANGED pidFile))
  /\ UNCHANGED <<voltDir, config, lost, given, launched>>

RestartSignal(t) ==
  /\ cli[t].pc = "signal" /\ CliTo(t, "await", cli[t].pid)
  /\ Signal(cli[t].pid)
  /\ UNCHANGED <<files, given, launched>>

AwaitNothing(t) ==                         \* mutant of AwaitStopped
  /\ cli[t].pc = "await" /\ CliTo(t, "relaunch", 0)
  /\ UNCHANGED <<boot, handler, server, files, given, launched>>

\* Fifty looks in five seconds at whether the file is gone.
AwaitStopped(t) ==
  /\ cli[t].pc = "await" /\ CliTo(t, "relaunch", 0)
  /\ pidFile = 0 \/ ~Alive(cli[t].pid) \/ "timeout" \in bootFaults
  /\ UNCHANGED <<boot, handler, server, files, given, launched>>

Relaunch(t) ==
  /\ cli[t].pc = "relaunch" /\ CliTo(t, "prompt", 0)
  /\ Launch
  /\ UNCHANGED <<handler, server, files, given>>

DaemonNext ==
  \/ \E p \in Proc :
       \/ EnsureDirs(p) \/ LoadConfig(p) \/ Probe(p) \/ writePIDFile(p) \/ New(p)
       \/ StartAutostartServices(p) \/ Notify(p) \/ Run(p) \/ ListenAndServe(p)
       \/ Request(p) \/ Respond(p) \/ RunReturns(p) \/ removePIDFile(p) \/ MainExits(p)
       \/ ShutdownProxy(p) \/ ShutdownHTTP(p) \/ Drained(p) \/ Close(p) \/ Kill(p)
  \/ \E t \in Cli :
       \/ start(t) \/ cliStop(t) \/ cliRestart(t)
       \/ StopSignal(t) \/ RestartSignal(t) \/ AwaitStopped(t) \/ Relaunch(t)

DaemonSpec == DaemonInit /\ [][DaemonNext]_daemonVars

-----------------------------------------------------------------------------
(* Properties                                                                 *)

\* However often it was stopped, restarted, killed or failed to boot before: unless a
\* command meets a daemon that is still booting, a stop signal reaches every daemon
\* that serves.  When commands also come one at a time and none gives up waiting for a
\* daemon that ends, a daemon that serves is the one daemon.pid names unless its own
\* write of that file failed, and then config.json has its port and token unless its
\* own SaveConfig failed; what failed for another daemon, before or beside it, or
\* while a file was removed, takes neither from it.
DaemonIsReachable ==
  \A p \in Proc : http[p] = "open" =>
    /\ "early" \notin bootFaults => handler[p] \in {"wait", "proxy", "http"}
    /\ bootFaults \subseteq {"kill", "fatal", "write"} /\ p \notin unnamed =>
         /\ pidFile = p
         /\ p \notin unsaved => config = [token |-> token[p], port |-> port[p]]

\* A daemon whose main has returned has stopped its extensions and closed its pools:
\* "Close releases resources that outlive a single request but must stop when the
\* daemon does".
ClosedWhenGone == \A p \in Proc : boot[p] = "done" => p \notin held
=============================================================================
