-------------------------------- MODULE DbPools --------------------------------
(***************************************************************************)
(* The connection pools of internal/providers/dbadmin over the secrets and *)
(* rows of Secrets: a table under a mutex, looked at and filled in two     *)
(* critical sections with the password, the dial and the ping in between.  *)
(***************************************************************************)
EXTENDS Secrets

CONSTANTS
  MaxDatabase,  \* databases of a server, the default one included
  MaxPool       \* bounds the number of pools ever opened

ASSUME PoolsAssumption == MaxDatabase \in Nat \ {0} /\ MaxPool \in Nat

VARIABLES
  pools,   \* p.pools: <<connection, database>> -> pool, 0 for none
  open,    \* the pools that are not closed
  made     \* how many were opened

Database == 1 .. MaxDatabase
PoolKey  == Owner \X Database

poolVars == <<pools, open, made>>

PoolsTypeOK ==
  /\ pools \in [PoolKey -> 0 .. MaxPool] /\ open \in SUBSET (1 .. MaxPool) /\ made \in 0 .. MaxPool

PoolsInit == pools = [k \in PoolKey |-> 0] /\ open = {} /\ made = 0

KeyOf(c) == <<loc[c].o, loc[c].db>>

\* An operation opens its database so many times, one after the other.
Ask(c, o, d, rounds) ==
  /\ KindOf[o] = "connection"
  /\ Arrive(c, [Idle EXCEPT !.pc = "getConn", !.op = "get", !.o = o, !.db = d, !.rounds = rounds])
  /\ UNCHANGED <<store, faults, poolVars>>

DefaultDatabase == 1

TestConnection(c, o)  == Ask(c, o, DefaultDatabase, 1)
ListDatabases(c, o)   == Ask(c, o, DefaultDatabase, 1)
ListTables(c, o, d)   == Ask(c, o, d, 1)
\* Both check the name against ListTables first, which opens the database by itself.
ListColumns(c, o, d)  == Ask(c, o, d, 2)
BrowseTable(c, o, d)  == Ask(c, o, d, 2)
RunQuery(c, o, d)     == Ask(c, o, d, 1)

\* open: the row is read again each time.
GetConn(c) ==
  /\ At(c, "getConn")
  /\ IF There(loc[c].o) THEN loc' = [loc EXCEPT ![c].pc = "look", ![c].ref = RefOf(loc[c].o)] ELSE Done(c)
  /\ UNCHANGED <<store, faults, poolVars>>

Look(c) ==
  /\ At(c, "look")
  /\ loc' = [loc EXCEPT ![c].pool = pools[KeyOf(c)],
                        ![c].pc = IF pools[KeyOf(c)] # 0 THEN "ask" ELSE IF loc[c].ref THEN "lookup" ELSE "ready"]
  /\ UNCHANGED <<store, faults, poolVars>>

DialLeaks(c) ==                            \* mutant of Dial
  /\ At(c, "ready") /\ KindOf[loc[c].o] = "connection" /\ made < MaxPool
  /\ made' = made + 1 /\ open' = open \cup {made + 1}
  /\ loc' = [loc EXCEPT ![c].pc = "store", ![c].pool = made + 1] \/ Done(c)
  /\ UNCHANGED <<store, faults, pools>>

\* sql.Open and a ping; a pool that does not answer is closed at once.
Dial(c) ==
  /\ At(c, "ready") /\ KindOf[loc[c].o] = "connection"
  /\ \/ /\ made < MaxPool /\ made' = made + 1 /\ open' = open \cup {made + 1}
        /\ loc' = [loc EXCEPT ![c].pc = "store", ![c].pool = made + 1]
     \/ Done(c) /\ UNCHANGED <<open, made>>
  /\ UNCHANGED <<store, faults, pools>>

\* Whatever is in the table by now is replaced.
Store(c) ==
  /\ At(c, "store")
  /\ pools' = [pools EXCEPT ![KeyOf(c)] = loc[c].pool]
  /\ Goto(c, "ask")
  /\ UNCHANGED <<store, faults, open, made>>

\* The query; it fails for certain on a pool that was closed meanwhile.
Query(c) ==
  /\ At(c, "ask")
  /\ \/ /\ loc[c].pool \in open /\ loc[c].rounds > 1
        /\ loc' = [loc EXCEPT ![c].pc = "getConn", ![c].rounds = @ - 1, ![c].key = 0, ![c].blob = 0, ![c].pool = 0]
     \/ Done(c)
  /\ UNCHANGED <<store, faults, poolVars>>

\* Closed and dropped in one critical section.
Drop(K) ==
  /\ open' = open \ {pools[k] : k \in K}
  /\ pools' = [k \in PoolKey |-> IF k \in K THEN 0 ELSE pools[k]]

Evict(c) ==
  /\ At(c, "evict")
  /\ Drop({loc[c].o} \X Database)
  /\ Done(c)
  /\ UNCHANGED <<store, faults, made>>

\* The daemon's Close; requests under way go on until the process ends.
CloseAll ==
  /\ Drop(PoolKey)
  /\ UNCHANGED <<store, loc, faults, made>>

Crash ==
  /\ "crash" \in faults
  /\ loc' = [c \in Caller |-> Idle]
  /\ pools' = [k \in PoolKey |-> 0] /\ open' = {}
  /\ UNCHANGED <<store, faults, made>>

PoolsNext ==
  \/ SecretsNext /\ UNCHANGED poolVars
  \/ \E c \in Caller :
       \/ \E o \in Owner : TestConnection(c, o) \/ ListDatabases(c, o)
       \/ \E o \in Owner, d \in Database : \/ ListTables(c, o, d) \/ ListColumns(c, o, d)
                                           \/ BrowseTable(c, o, d) \/ RunQuery(c, o, d)
       \/ GetConn(c) \/ Look(c) \/ Dial(c) \/ Store(c) \/ Query(c) \/ Evict(c)
  \/ CloseAll
  \/ Crash

poolsAll  == <<store, loc, faults, poolVars>>
PoolsSpec == SecretsInit /\ PoolsInit /\ [][PoolsNext]_poolsAll

-----------------------------------------------------------------------------
(* Properties                                                                 *)

\* A pool that can be had from the table is not closed, whatever opens, evictions
\* and shutdowns overlap; and with one request at a time every open pool is in the
\* table under a connection that is still there.
PoolsAreOwned ==
  /\ \A k \in PoolKey : pools[k] # 0 => pools[k] \in open
  /\ Quiet /\ "overlap" \notin faults =>
       \A p \in open : \E k \in PoolKey : pools[k] = p /\ There(k[1])
=============================================================================
