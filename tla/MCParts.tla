-------------------------------- MODULE MCParts --------------------------------
(* The instance of the five parts that work on their own, for TLC.  They share *)
(* no variable, so a behaviour moves one of them and the others stay in one    *)
(* initial state.                                                              *)
EXTENDS RestartBudget, DbPools, RuntimeVersions, Daemon, Hub, TLC

CONSTANTS s1, d1, i1

VARIABLE part

partsVars == <<vars, poolsAll, rtVars, daemonVars, hubVars, part>>

MCKindOf == (s1 :> "server") @@ (d1 :> "connection") @@ (i1 :> "integration")

MCFaultSets     == {{}, {"overlap"}, {"overlap", "crash", "db", "keychain"}, {"overlap", "firstUse", "unreadable"}}
MCRtFaultSets   == {{}, {"overlap"}, {"crash", "fs"}, {"db"}}
MCBootFaultSets == {{}, {"kill", "fatal"}, {"early"}, {"timeout"}, {"write"}}

\* Where a daemon may be met too early, or waited for too briefly, two are enough.
FewDaemons == bootFaults \cap {"early", "timeout"} # {} => launched' <= 2

\* Where writes fail, no request is in flight, and the first port is free.
NoRequest == "write" \in bootFaults => busy' = {} /\ basePort = 1

\* Where requests overlap and fail, they are about one owner.
OneOwner ==
  faults \cap {"db", "unreadable"} # {} => Cardinality({o \in Owner : row'[o] # "new"}) <= 1

\* What is interrupted or cannot be removed is not the version on PATH.
OffPath == rtFaults \cap {"crash", "fs"} # {} => \A w \in Worker : rtLoc'[w].v # PathVersion

\* A change of the default is refused where requests come one at a time: the rows are
\* not looked at elsewhere.
Refusals == rtFaults # {} => ~refused'

PartsInit ==
  /\ Init /\ SecretsInit /\ PoolsInit /\ RtInit /\ DaemonInit /\ HubInit
  /\ part \in {"budget", "secrets", "runtimes", "daemon", "hub"}
  /\ part # "secrets" => faults = {} /\ keyFile = 1
  /\ part # "runtimes" => rtFaults = {}
  /\ part # "daemon" => bootFaults = {} /\ legacy /\ basePort = 1

PartsNext ==
  \/ part = "budget" /\ Next /\ UNCHANGED <<poolsAll, rtVars, daemonVars, hubVars, part>>
  \/ part = "secrets" /\ PoolsNext /\ OneOwner /\ UNCHANGED <<vars, rtVars, daemonVars, hubVars, part>>
  \/ part = "runtimes" /\ RtNext /\ OffPath /\ Refusals
     /\ UNCHANGED <<vars, poolsAll, daemonVars, hubVars, part>>
  \/ part = "daemon" /\ DaemonNext /\ FewDaemons /\ NoRequest
     /\ UNCHANGED <<vars, poolsAll, rtVars, hubVars, part>>
  \/ part = "hub" /\ HubNext /\ UNCHANGED <<vars, poolsAll, rtVars, daemonVars, part>>

PartsSpec == PartsInit /\ [][PartsNext]_partsVars

Symmetry == Permutations(Caller) \cup Permutations(Worker)
=============================================================================
