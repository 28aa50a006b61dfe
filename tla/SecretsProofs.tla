----------------------------- MODULE SecretsProofs -----------------------------
(***************************************************************************)
(* Theorems about Secrets as DbPools composes it (PoolsSpec), for any      *)
(* number of API goroutines, owning rows, keys and pools, under every set  *)
(* of faults.                                                              *)
(***************************************************************************)
EXTENDS DbPools, TLAPS

PutPlace    == {"put", "loadKey", "truncate", "writeKey", "insert", "create", "forget", "forgetRow"}
DeletePlace == {"deleteRow", "forget", "forgetRow", "evict"}
GetPlace    == {"lookup", "loadKey", "truncate", "writeKey", "decrypt", "ready", "getConn", "look", "ask", "store"}

PoolPlace   == {"getConn", "look", "ask", "store"}
Places      == {"idle"} \cup PutPlace \cup DeletePlace \cup GetPlace

LocRec == [pc : Places, op : {"none", "put", "get", "delete"},
           o : Owner \cup {Idle.o}, backend : {"none", "keychain", "blob"}, key : 0 .. MaxKey, blob : 0 .. MaxKey,
           ref : BOOLEAN, db : 0 .. MaxDatabase, rounds : 0 .. 2, pool : 0 .. MaxPool]

Typed == SecretsTypeOK /\ PoolsTypeOK /\ loc \in [Caller -> LocRec]

\* A request for a pool is one of a connection, and names a database.
HasDatabase(r) ==
  /\ r.pc \in PoolPlace => KindOf[r.o] = "connection"
  /\ KindOf[r.o] = "connection" => r.db \in Database

\* A goroutine is at a place its handler has.
PcFits ==
  \A c \in Caller : loc[c].pc # "idle" =>
    /\ loc[c].o \in Owner
    /\ \/ loc[c].op = "put" /\ loc[c].pc \in PutPlace
       \/ loc[c].op = "delete" /\ loc[c].pc \in DeletePlace
       \/ loc[c].op = "get" /\ loc[c].pc \in GetPlace /\ HasDatabase(loc[c])

OneAtATime ==
  "overlap" \notin faults => \A c \in Caller, e \in Caller : loc[c].pc # "idle" /\ loc[e].pc # "idle" => c = e

Putting(c)    == loc[c].pc # "idle" /\ loc[c].op = "put"
Forgetting(c) == loc[c].pc \in {"forget", "forgetRow"}

\* A creation has its ID to itself until the row is there.
PutIsPrivate ==
  /\ \A c \in Caller : Putting(c) => row[loc[c].o] = "used"
  /\ \A c \in Caller, e \in Caller : Putting(c) /\ Putting(e) /\ loc[c].o = loc[e].o => c = e

\* What a creation has stored so far.
PutStores ==
  \A c \in Caller : Putting(c) =>
    /\ loc[c].pc \in {"loadKey", "truncate", "writeKey"} => loc[c].backend = "blob"
    /\ loc[c].pc = "insert" =>
         loc[c].backend # "none" /\ (loc[c].backend = "keychain" => loc[c].o \in item)
    /\ loc[c].pc = "create" /\ loc[c].backend # "none" =>
         /\ sec[loc[c].o].backend # "none"
         /\ sec[loc[c].o].backend = "keychain" => loc[c].o \in item

\* A deletion works on a row that was there; what it forgets is a secret without a row.
DeleteIsLate ==
  \A c \in Caller : loc[c].pc # "idle" /\ loc[c].op = "delete" =>
    /\ row[loc[c].o] \in {"plain", "secret", "gone"}
    /\ Forgetting(c) => row[loc[c].o] = "gone"

StoredInv == Typed /\ PcFits /\ OneAtATime /\ PutIsPrivate /\ PutStores /\ DeleteIsLate /\ RefIsStored

\* A first use has the store to itself; afterwards nobody writes the key file, and
\* whatever was encrypted is encrypted under its key.
KeyIsSettled ==
  faults \cap {"firstUse", "unreadable"} = {} =>
    /\ keyFile = 0 => /\ faults \cap {"overlap", "crash"} = {}
                      /\ \A o \in Owner : sec[o].backend # "blob"
                      /\ \A c \in Caller : loc[c].pc = "insert" => loc[c].backend # "blob"
    /\ keyFile # 0 => /\ \A o \in Owner : sec[o].backend = "blob" => sec[o].key = keyFile
                      /\ \A c \in Caller : loc[c].pc \notin {"truncate", "writeKey"}
                      /\ \A c \in Caller : loc[c].pc = "insert" /\ loc[c].backend = "blob" => loc[c].key = keyFile
    /\ \A c \in Caller : loc[c].pc \in {"truncate", "writeKey"} => loc[c].key # 0

NoFault == faults \cap {"crash", "db", "keychain"} = {}

\* Whose secret it is: a row's, or that of a request still under way.
Keeps(c)  == Forgetting(c) \/ (loc[c].pc = "create" /\ loc[c].backend # "none")
Stores(c) == loc[c].pc = "insert" /\ loc[c].backend = "keychain"
SecretIsOwned ==
  NoFault =>
    /\ \A o \in Owner : sec[o].backend # "none" => RefOf(o) \/ \E c \in Caller : loc[c].o = o /\ Keeps(c)
    /\ \A o \in Owner : o \in item => sec[o].backend = "keychain" \/ \E c \in Caller : loc[c].o = o /\ Stores(c)
    /\ \A c \in Caller : loc[c].pc = "deleteRow" => loc[c].ref = RefOf(loc[c].o) \/ row[loc[c].o] = "gone"
    /\ \A c \in Caller : loc[c].pc = "forgetRow" => loc[c].o \notin item

SecretInv == StoredInv /\ KeyIsSettled /\ SecretIsOwned

USE SecretsAssumption, SecretsFaults, PoolsAssumption

Others(c) == \A e \in Caller : e # c => loc'[e] = loc[e]

LEMMA PlacesFacts ==
  Places = {"idle", "put", "loadKey", "truncate", "writeKey", "insert", "create", "forget", "forgetRow",
            "deleteRow", "evict", "lookup", "decrypt", "ready", "getConn", "look", "ask", "store"}
BY DEF Places, PutPlace, DeletePlace, GetPlace

LEMMA IdleFacts == Idle \in LocRec /\ Idle.pc = "idle"
BY PlacesFacts DEF Idle, LocRec

\* The copies that a step changes stay in their types.
LEMMA RefRec ==
  ASSUME NEW r \in LocRec, NEW l \in Places, NEW b \in BOOLEAN
  PROVE  [r EXCEPT !.pc = l, !.ref = b] \in LocRec
BY DEF LocRec

LEMMA PoolRec ==
  ASSUME NEW r \in LocRec, NEW l \in Places, NEW p \in 0 .. MaxPool
  PROVE  [r EXCEPT !.pc = l, !.pool = p] \in LocRec
BY DEF LocRec

LEMMA KeyRec ==
  ASSUME NEW r \in LocRec, NEW l \in Places, NEW k \in 0 .. MaxKey
  PROVE  [r EXCEPT !.pc = l, !.key = k] \in LocRec
BY DEF LocRec

LEMMA BackendRec ==
  ASSUME NEW r \in LocRec, NEW l \in Places, NEW b \in {"keychain", "blob"}
  PROVE  [r EXCEPT !.pc = l, !.backend = b] \in LocRec
BY DEF LocRec

LEMMA ArriveRec ==
  ASSUME NEW r \in LocRec, NEW l \in Places, NEW o \in Owner, NEW m \in {"put", "get", "delete"}
  PROVE  /\ [r EXCEPT !.pc = l, !.op = m, !.o = o] \in LocRec
         /\ \A b \in BOOLEAN : [r EXCEPT !.pc = l, !.op = m, !.o = o, !.ref = b] \in LocRec
BY DEF LocRec

LEMMA AskRec ==
  ASSUME NEW r \in LocRec, NEW l \in Places, NEW o \in Owner, NEW d \in 0 .. MaxDatabase, NEW n \in 0 .. 2
  PROVE  [r EXCEPT !.pc = l, !.op = "get", !.o = o, !.db = d, !.rounds = n] \in LocRec
BY DEF LocRec

LEMMA RoundRec ==
  ASSUME NEW r \in LocRec, NEW l \in Places, NEW n \in 0 .. 2
  PROVE  [r EXCEPT !.pc = l, !.rounds = n, !.key = 0, !.blob = 0, !.pool = 0] \in LocRec
<1>1. 0 \in 0 .. MaxKey /\ 0 \in 0 .. MaxPool
  OBVIOUS
<1> QED BY <1>1 DEF LocRec

LEMMA DropType ==
  ASSUME NEW K \in SUBSET PoolKey, PoolsTypeOK, Drop(K), UNCHANGED made
  PROVE  PoolsTypeOK'
<1>1. \A k \in PoolKey : pools'[k] \in 0 .. MaxPool
  BY DEF PoolsTypeOK, Drop
<1>2. pools' = [k \in PoolKey |-> pools'[k]]
  BY DEF Drop
<1>3. pools' \in [PoolKey -> 0 .. MaxPool]
  BY <1>1, <1>2
<1> QED BY <1>3 DEF PoolsTypeOK, Drop

LEMMA InitSecret == SecretsInit /\ PoolsInit => SecretInv
<1> SUFFICES ASSUME SecretsInit, PoolsInit PROVE SecretInv
  OBVIOUS
<1>0. /\ \A c \in Caller : loc[c].pc = "idle"
      /\ \A o \in Owner : row[o] = "new" /\ sec[o].backend = "none"
      /\ item = {}
  BY IdleFacts DEF SecretsInit, NoSecret
<1>1. Typed
  <2>1. SecretsTypeOK
    BY DEF SecretsInit, SecretsTypeOK, NoSecret
  <2>2. PoolsTypeOK
    BY DEF PoolsInit, PoolsTypeOK
  <2>3. loc \in [Caller -> LocRec]
    BY IdleFacts DEF SecretsInit
  <2> QED BY <2>1, <2>2, <2>3 DEF Typed
<1>2. PcFits /\ OneAtATime /\ PutIsPrivate /\ PutStores /\ DeleteIsLate /\ RefIsStored
  BY <1>0 DEF PcFits, OneAtATime, PutIsPrivate, PutStores, Putting, DeleteIsLate, RefIsStored, RefOf
<1>3. KeyIsSettled
  BY <1>0 DEF KeyIsSettled, SecretsInit
<1>4. SecretIsOwned
  BY <1>0 DEF SecretIsOwned
<1> QED BY <1>1, <1>2, <1>3, <1>4 DEF SecretInv, StoredInv

-----------------------------------------------------------------------------
(* What a step does to the copies of its handler.                             *)

LEMMA GotoMoves ==
  ASSUME loc \in [Caller -> LocRec], NEW c \in Caller, NEW l \in Places, Goto(c, l)
  PROVE  /\ loc' \in [Caller -> LocRec] /\ Others(c)
         /\ loc'[c].pc = l /\ loc'[c].op = loc[c].op /\ loc'[c].o = loc[c].o
         /\ loc'[c].backend = loc[c].backend /\ loc'[c].key = loc[c].key /\ loc'[c].ref = loc[c].ref
         /\ loc'[c].db = loc[c].db
<1>1. [loc[c] EXCEPT !.pc = l] \in LocRec
  BY DEF LocRec
<1>2. loc' = [loc EXCEPT ![c] = [loc[c] EXCEPT !.pc = l]]
  BY DEF Goto
<1> QED BY <1>1, <1>2 DEF Others, LocRec

LEMMA DoneMoves ==
  ASSUME loc \in [Caller -> LocRec], NEW c \in Caller, Done(c)
  PROVE  loc' \in [Caller -> LocRec] /\ Others(c) /\ loc'[c].pc = "idle"
BY IdleFacts DEF Done, Others

LEMMA ArriveMoves ==
  ASSUME loc \in [Caller -> LocRec], NEW c \in Caller, NEW r \in LocRec, Arrive(c, r)
  PROVE  /\ loc' \in [Caller -> LocRec] /\ Others(c)
         /\ loc[c].pc = "idle" /\ loc'[c] = r /\ ("overlap" \in faults \/ Quiet)
BY DEF Arrive, At, Others

LEMMA OneStays ==
  ASSUME OneAtATime, NEW c \in Caller, Others(c), UNCHANGED faults,
         loc[c].pc # "idle" \/ loc'[c].pc = "idle" \/ "overlap" \in faults \/ Quiet
  PROVE  OneAtATime'
BY DEF OneAtATime, Others, Quiet, At

\* A step that only reads.
LEMMA ReadKeeps ==
  ASSUME SecretInv, Typed', NEW c \in Caller, Others(c), UNCHANGED <<store, faults>>,
         loc[c].pc = "idle" \/ loc[c].op = "get" \/ loc[c].pc = "evict",
         \/ loc'[c].pc = "idle"
         \/ /\ loc'[c].op = "get" /\ loc'[c].pc \in GetPlace \ {"truncate", "writeKey"} /\ loc'[c].o \in Owner
            /\ HasDatabase(loc'[c])
            /\ loc[c].pc # "idle" \/ "overlap" \in faults \/ Quiet
  PROVE  SecretInv'
<1>0. /\ UNCHANGED <<keyFile, keys, item, sec, row, faults>> 
      /\ ~Putting(c) /\ ~Forgetting(c) /\ loc[c].pc # "deleteRow"
      /\ loc'[c].pc \in {"idle"} \cup (GetPlace \ {"truncate", "writeKey"})
      /\ loc'[c].pc # "idle" => loc'[c].op = "get"
  BY DEF store, SecretInv, StoredInv, PcFits, Putting, Forgetting, PutPlace, DeletePlace, GetPlace
<1>1. PcFits'
  BY DEF SecretInv, StoredInv, PcFits, Others
<1>2. OneAtATime'
  BY OneStays DEF SecretInv, StoredInv
<1>3. PutIsPrivate' /\ PutStores' /\ DeleteIsLate'
  BY <1>0 DEF SecretInv, StoredInv, PutIsPrivate, PutStores, Putting, DeleteIsLate, Forgetting, Others
<1>4. RefIsStored'
  BY <1>0 DEF SecretInv, StoredInv, RefIsStored, RefOf
<1>5. KeyIsSettled'
  BY <1>0 DEF SecretInv, KeyIsSettled, Others, GetPlace
<1>6. SecretIsOwned'
  <2>1. \A e \in Caller : loc'[e] # loc[e] => ~Keeps(e) /\ ~Stores(e)
    BY <1>0 DEF SecretInv, StoredInv, PcFits, Keeps, Stores, Others, Putting, PutPlace, DeletePlace, GetPlace
  <2> QED BY <1>0, <2>1 DEF SecretInv, SecretIsOwned, NoFault, Keeps, Stores, Forgetting, RefOf, Others, GetPlace
<1> QED BY <1>1, <1>2, <1>3, <1>4, <1>5, <1>6 DEF SecretInv, StoredInv

-----------------------------------------------------------------------------
(* The readers                                                                *)

LEMMA FetchType ==
  ASSUME NEW o \in Owner
  PROVE  Fetch(o) \in LocRec /\ Fetch(o).pc \in {"lookup", "ready"} /\ Fetch(o).op = "get" /\ Fetch(o).o = o
<1> DEFINE l == IF row[o] = "secret" THEN "lookup" ELSE "ready"
<1>1. l \in {"lookup", "ready"} /\ l \in Places /\ "get" \in {"none", "put", "get", "delete"}
  BY PlacesFacts
<1>2. Fetch(o) = [Idle EXCEPT !.pc = l, !.op = "get", !.o = o]
  BY DEF Fetch
<1> HIDE DEF l
<1>3. [Idle EXCEPT !.pc = l, !.op = "get", !.o = o] \in LocRec
  BY <1>1, IdleFacts, ArriveRec
<1> QED BY <1>1, <1>2, <1>3, IdleFacts DEF LocRec

\* The two ways such a step leaves its handler's copies.
LEMMA RecKeeps ==
  ASSUME SecretInv, NEW c \in Caller, NEW r \in LocRec, loc' = [loc EXCEPT ![c] = r],
         UNCHANGED <<store, faults>>, PoolsTypeOK',
         (loc[c].pc = "idle" /\ ("overlap" \in faults \/ Quiet)) \/ (loc[c].pc # "idle" /\ loc[c].op = "get"),
         r.pc \in GetPlace \ {"truncate", "writeKey"}, r.op = "get", r.o \in Owner, HasDatabase(r)
  PROVE  SecretInv'
<1>1. loc' \in [Caller -> LocRec] /\ Others(c) /\ loc'[c] = r
  BY DEF SecretInv, StoredInv, Typed, Others
<1>2. Typed'
  BY <1>1 DEF SecretInv, StoredInv, Typed, SecretsTypeOK, store
<1> QED BY <1>1, <1>2, ReadKeeps

LEMMA LeaveKeeps ==
  ASSUME SecretInv, NEW c \in Caller, Done(c), UNCHANGED <<store, faults>>, PoolsTypeOK',
         loc[c].op = "get" \/ loc[c].pc = "evict"
  PROVE  SecretInv'
<1>1. loc' \in [Caller -> LocRec] /\ Others(c) /\ loc'[c].pc = "idle"
  BY DoneMoves DEF SecretInv, StoredInv, Typed
<1>2. Typed'
  BY <1>1 DEF SecretInv, StoredInv, Typed, SecretsTypeOK, store
<1> QED BY <1>1, <1>2, ReadKeeps

\* Of the steps that only read, the ones in Secrets.
LEMMA ReaderKeeps ==
  ASSUME SecretInv, NEW c \in Caller, UNCHANGED poolVars,
         \/ \E o \in Owner : ServerCommand(c, o) \/ ServerFiles(c, o) \/ GitRequest(c, o)
         \/ Lookup(c) \/ Decrypt(c) \/ Act(c)
  PROVE  SecretInv'
<1>t. loc \in [Caller -> LocRec] /\ loc[c] \in LocRec /\ PcFits /\ SecretsTypeOK /\ PoolsTypeOK'
  BY DEF SecretInv, StoredInv, Typed, PoolsTypeOK, poolVars
<1>0. UNCHANGED <<store, faults>>
  BY DEF ServerCommand, ServerFiles, GitRequest, Lookup, Decrypt, Act
<1>1. ASSUME NEW o \in Owner, ServerCommand(c, o) \/ ServerFiles(c, o) \/ GitRequest(c, o) PROVE SecretInv'
  <2>1. Arrive(c, Fetch(o)) /\ KindOf[o] # "connection"
    BY <1>1 DEF ServerCommand, ServerFiles, GitRequest, githubClientFor
  <2>2. /\ loc[c].pc = "idle" /\ loc' = [loc EXCEPT ![c] = Fetch(o)]
        /\ "overlap" \in faults \/ Quiet
    BY <2>1 DEF Arrive, At
  <2>3. HasDatabase(Fetch(o))
    <3>1. Fetch(o).pc \in {"lookup", "ready"} /\ Fetch(o).o = o
      BY FetchType
    <3> HIDE DEF Fetch
    <3> QED BY <2>1, <3>1 DEF HasDatabase, PoolPlace
  <2> DEFINE r == Fetch(o)
  <2>4. r \in LocRec /\ r.pc \in GetPlace \ {"truncate", "writeKey"} /\ r.op = "get" /\ r.o \in Owner
    BY FetchType DEF GetPlace
  <2>5. loc' = [loc EXCEPT ![c] = r] /\ HasDatabase(r)
    BY <2>2, <2>3
  <2> HIDE DEF r
  <2> QED BY <1>0, <1>t, <2>2, <2>4, <2>5, RecKeeps
<1>2. loc[c].pc \in {"lookup", "decrypt", "ready"} =>
        loc[c].op = "get" /\ loc[c].o \in Owner /\ HasDatabase(loc[c])
  BY <1>t DEF PcFits, PutPlace, DeletePlace
<1>3. ASSUME NEW l \in {"ready", "loadKey"}, NEW k \in 0 .. MaxKey, loc[c].pc \in {"lookup", "decrypt", "ready"},
             loc' = [loc EXCEPT ![c] = [loc[c] EXCEPT !.pc = l, !.blob = k]]
      PROVE  SecretInv'
  <2> DEFINE r == [loc[c] EXCEPT !.pc = l, !.blob = k]
  <2>1. r \in LocRec /\ r.pc = l /\ r.op = loc[c].op /\ r.o = loc[c].o /\ r.db = loc[c].db
    BY <1>t, <1>3, PlacesFacts DEF LocRec
  <2>2. loc' = [loc EXCEPT ![c] = r]
    BY <1>3
  <2> HIDE DEF r
  <2>3. HasDatabase(r)
    BY <1>2, <1>3, <2>1 DEF HasDatabase, PoolPlace
  <2> QED BY <1>0, <1>t, <1>2, <1>3, <2>1, <2>2, <2>3, RecKeeps DEF GetPlace
<1>4. ASSUME Goto(c, "ready"), loc[c].pc \in {"lookup", "decrypt"} PROVE SecretInv'
  <2>1. [loc[c] EXCEPT !.pc = "ready", !.blob = loc[c].blob] = [loc[c] EXCEPT !.pc = "ready"]
    BY <1>t DEF LocRec
  <2>2. loc[c].blob \in 0 .. MaxKey
    BY <1>t DEF LocRec
  <2> QED BY <1>3, <1>4, <2>1, <2>2 DEF Goto
<1>5. ASSUME Done(c), loc[c].pc \in {"lookup", "decrypt", "ready"} PROVE SecretInv'
  BY <1>0, <1>t, <1>2, <1>5, LeaveKeeps
<1>6. CASE Lookup(c)
  <2>1. loc[c].pc = "lookup"
    BY <1>6 DEF Lookup, At
  <2>2. sec[loc[c].o].key \in 0 .. MaxKey
    BY <1>t, <1>2, <2>1 DEF SecretsTypeOK
  <2>3. \/ Goto(c, "ready") \/ Done(c)
        \/ loc' = [loc EXCEPT ![c] = [loc[c] EXCEPT !.pc = "loadKey", !.blob = sec[loc[c].o].key]]
    BY <1>6, <1>t DEF Lookup
  <2> QED BY <1>3, <1>4, <1>5, <2>1, <2>2, <2>3
<1>7. CASE Decrypt(c)
  BY <1>4, <1>5, <1>7 DEF Decrypt, At
<1>8. CASE Act(c)
  BY <1>5, <1>8 DEF Act, At
<1> QED BY <1>1, <1>6, <1>7, <1>8

LEMMA AskKeeps ==
  ASSUME SecretInv, NEW c \in Caller, NEW o \in Owner, NEW d \in Database, NEW rounds \in {1, 2},
         Ask(c, o, d, rounds)
  PROVE  SecretInv'
<1> DEFINE r == [Idle EXCEPT !.pc = "getConn", !.op = "get", !.o = o, !.db = d, !.rounds = rounds]
<1>1. r \in LocRec /\ r.op = "get" /\ r.pc = "getConn" /\ r.o = o /\ r.db = d
  <2>1. r \in LocRec
    <3>1. d \in 0 .. MaxDatabase /\ rounds \in 0 .. 2
      BY DEF Database
    <3>2. "getConn" \in Places
      BY PlacesFacts
    <3> QED BY <3>1, <3>2, IdleFacts, AskRec
  <2> QED BY <2>1, IdleFacts DEF LocRec
<1>2. /\ Arrive(c, r) /\ KindOf[o] = "connection" /\ UNCHANGED <<store, faults, poolVars>>
  BY DEF Ask
<1> HIDE DEF r
<1>3. /\ loc[c].pc = "idle" /\ loc' = [loc EXCEPT ![c] = r] /\ ("overlap" \in faults \/ Quiet)
  BY <1>2 DEF Arrive, At
<1>4. HasDatabase(r) /\ PoolsTypeOK'
  BY <1>1, <1>2 DEF HasDatabase, SecretInv, StoredInv, Typed, PoolsTypeOK, poolVars
<1> QED BY <1>1, <1>2, <1>3, <1>4, RecKeeps DEF GetPlace

\* ... and those of DbPools.
LEMMA PoolStepKeeps ==
  ASSUME SecretInv, NEW c \in Caller,
         GetConn(c) \/ Look(c) \/ Dial(c) \/ Store(c) \/ Query(c) \/ Evict(c)
  PROVE  SecretInv'
<1>t. loc \in [Caller -> LocRec] /\ loc[c] \in LocRec /\ PcFits /\ SecretsTypeOK /\ PoolsTypeOK
  BY DEF SecretInv, StoredInv, Typed
<1>0. UNCHANGED <<store, faults>>
  BY DEF GetConn, Look, Dial, Store, Query, Evict
<1>1. loc[c].pc \in {"getConn", "look", "ready", "store", "ask", "evict"}
  BY DEF GetConn, Look, Dial, Store, Query, Evict, At
<1>2. /\ loc[c].o \in Owner /\ (loc[c].op = "get" \/ loc[c].pc = "evict")
      /\ loc[c].pc # "evict" => HasDatabase(loc[c])
      /\ loc[c].pc \in {"getConn", "look", "store", "ask"} \/ Dial(c) =>
           KindOf[loc[c].o] = "connection" /\ loc[c].db \in Database
  BY <1>1, <1>t DEF PcFits, PutPlace, DeletePlace, HasDatabase, PoolPlace, Dial, At
<1>3. ASSUME NEW r \in LocRec, loc' = [loc EXCEPT ![c] = r], PoolsTypeOK',
             r.op = loc[c].op, r.o = loc[c].o, r.db = loc[c].db, loc[c].pc # "evict",
             r.pc \in GetPlace \ {"truncate", "writeKey"}, loc[c].pc # "ready" \/ Dial(c)
      PROVE  SecretInv'
  <2>1. HasDatabase(r)
    BY <1>1, <1>2, <1>3 DEF HasDatabase
  <2> QED BY <1>0, <1>1, <1>2, <1>3, <2>1, RecKeeps
<1>4. ASSUME Done(c), PoolsTypeOK' PROVE SecretInv'
  BY <1>0, <1>2, <1>4, LeaveKeeps
<1>5. UNCHANGED poolVars => PoolsTypeOK'
  BY <1>t DEF PoolsTypeOK, poolVars
<1>6. CASE GetConn(c)
  <2>1. ASSUME NEW b \in BOOLEAN, b = RefOf(loc[c].o),
          loc' = [loc EXCEPT ![c] = [loc[c] EXCEPT !.pc = "look", !.ref = b]]
        PROVE  SecretInv'
    <3> DEFINE r == [loc[c] EXCEPT !.pc = "look", !.ref = b]
    <3>1. r \in LocRec
      BY <1>t, RefRec, PlacesFacts
    <3>2. r.op = loc[c].op /\ r.o = loc[c].o /\ r.db = loc[c].db /\ r.pc = "look"
      BY <1>t DEF LocRec
    <3>3. loc' = [loc EXCEPT ![c] = r]
      BY <2>1
    <3> HIDE DEF r
    <3> QED BY <1>3, <1>5, <1>6, <3>1, <3>2, <3>3 DEF GetPlace, GetConn, At
  <2>2. \/ Done(c)
        \/ loc' = [loc EXCEPT ![c] = [loc[c] EXCEPT !.pc = "look", !.ref = RefOf(loc[c].o)]]
    BY <1>6, <1>t DEF GetConn
  <2>3. RefOf(loc[c].o) \in BOOLEAN
    BY DEF RefOf
  <2> QED BY <1>4, <1>5, <1>6, <2>1, <2>2, <2>3 DEF GetConn
<1>7. CASE Look(c)
  <2>1. ASSUME NEW l \in {"ask", "lookup", "ready"}, NEW p \in 0 .. MaxPool,
               loc' = [loc EXCEPT ![c] = [loc[c] EXCEPT !.pool = p, !.pc = l]]
        PROVE  SecretInv'
    <3> DEFINE r == [loc[c] EXCEPT !.pool = p, !.pc = l]
    <3>1. r \in LocRec /\ r.op = loc[c].op /\ r.o = loc[c].o /\ r.db = loc[c].db /\ r.pc = l
      BY <1>t, <2>1, PlacesFacts DEF LocRec
    <3>2. loc' = [loc EXCEPT ![c] = r]
      BY <2>1
    <3> HIDE DEF r
    <3> QED BY <1>3, <1>5, <1>7, <3>1, <3>2 DEF GetPlace, Look, At
  <2>2. pools[KeyOf(c)] \in 0 .. MaxPool
    BY <1>2, <1>7, <1>t DEF Look, At, KeyOf, PoolKey, PoolsTypeOK
  <2>3. \E l \in {"ask", "lookup", "ready"} :
          loc' = [loc EXCEPT ![c] = [loc[c] EXCEPT !.pool = pools[KeyOf(c)], !.pc = l]]
    BY <1>7, <1>t DEF Look
  <2> QED BY <2>1, <2>2, <2>3
<1>8. CASE Dial(c)
  <2>1. CASE Done(c) /\ UNCHANGED <<open, made>>
    BY <1>4, <1>8, <1>t, <2>1 DEF Dial, PoolsTypeOK
  <2>2. CASE /\ made < MaxPool /\ made' = made + 1 /\ open' = open \cup {made + 1}
             /\ loc' = [loc EXCEPT ![c].pc = "store", ![c].pool = made + 1]
    <3> DEFINE r == [loc[c] EXCEPT !.pc = "store", !.pool = made + 1]
    <3>1. made + 1 \in 1 .. MaxPool /\ PoolsTypeOK'
      BY <1>8, <1>t, <2>2 DEF Dial, PoolsTypeOK
    <3>2. r \in LocRec /\ r.op = loc[c].op /\ r.o = loc[c].o /\ r.db = loc[c].db /\ r.pc = "store"
      <4>1. r \in LocRec
        <5>1. made + 1 \in 0 .. MaxPool /\ "store" \in Places
          BY <3>1, PlacesFacts
        <5> QED BY <1>t, <5>1, PoolRec
      <4> QED BY <1>t, <4>1 DEF LocRec
    <3>3. loc' = [loc EXCEPT ![c] = r]
      BY <2>2
    <3> HIDE DEF r
    <3> QED BY <1>3, <1>8, <3>1, <3>2, <3>3 DEF GetPlace, Dial, At
  <2> QED BY <1>8, <2>1, <2>2 DEF Dial
<1>9. CASE Store(c)
  <2> DEFINE r == [loc[c] EXCEPT !.pc = "ask"]
  <2>1. PoolsTypeOK'
    BY <1>9, <1>t DEF Store, PoolsTypeOK, LocRec
  <2>2. r \in LocRec /\ r.op = loc[c].op /\ r.o = loc[c].o /\ r.db = loc[c].db /\ r.pc = "ask"
    BY <1>t, PlacesFacts DEF LocRec
  <2>3. loc' = [loc EXCEPT ![c] = r] /\ loc[c].pc = "store"
    BY <1>9 DEF Store, Goto, At
  <2> HIDE DEF r
  <2> QED BY <1>3, <2>1, <2>2, <2>3 DEF GetPlace
<1>10. CASE Query(c)
  <2> DEFINE r == [loc[c] EXCEPT !.pc = "getConn", !.rounds = @ - 1, !.key = 0, !.blob = 0, !.pool = 0]
  <2>1. /\ Done(c) \/ (loc[c].rounds > 1 /\ loc' = [loc EXCEPT ![c] = r])
        /\ UNCHANGED poolVars /\ loc[c].pc = "ask"
    BY <1>10, <1>t DEF Query, At
  <2>2. loc[c].rounds > 1 =>
          r \in LocRec /\ r.op = loc[c].op /\ r.o = loc[c].o /\ r.db = loc[c].db /\ r.pc = "getConn"
    <3> SUFFICES ASSUME loc[c].rounds > 1
                 PROVE  r \in LocRec /\ r.op = loc[c].op /\ r.o = loc[c].o /\ r.db = loc[c].db /\ r.pc = "getConn"
      OBVIOUS
    <3>1. loc[c].rounds - 1 \in 0 .. 2
      <4>1. loc[c].rounds \in 0 .. 2
        BY <1>t DEF LocRec
      <4> QED BY <4>1
    <3>2. r \in LocRec
      BY <1>t, <3>1, PlacesFacts, RoundRec
    <3> QED BY <1>t, <3>2 DEF LocRec
  <2> HIDE DEF r
  <2> QED BY <1>3, <1>4, <1>5, <2>1, <2>2 DEF GetPlace
<1>11. CASE Evict(c)
  <2>1. PoolsTypeOK'
    <3>1. {loc[c].o} \X Database \in SUBSET PoolKey
      BY <1>2 DEF PoolKey
    <3> QED BY <1>11, <1>t, <3>1, DropType DEF Evict
  <2> QED BY <1>4, <1>11, <2>1 DEF Evict
<1> QED BY <1>6, <1>7, <1>8, <1>9, <1>10, <1>11


-----------------------------------------------------------------------------
(* The writers                                                                *)

\* The ID of a creation is nobody else's to create or delete.
LEMMA Alone ==
  ASSUME StoredInv, NEW c \in Caller, NEW e \in Caller, Putting(c),
         loc[e].pc # "idle", loc[e].op \in {"put", "delete"}, loc[e].o = loc[c].o
  PROVE  e = c
BY DEF StoredInv, PutIsPrivate, DeleteIsLate, Putting

LEMMA StoreStutters ==
  ASSUME SecretInv, UNCHANGED <<store, loc, faults>>, PoolsTypeOK'
  PROVE  SecretInv'
<1>1. UNCHANGED <<keyFile, keys, item, sec, row, loc, faults>>
  BY DEF store
<1>2. Typed' /\ PcFits' /\ OneAtATime'
  BY <1>1 DEF SecretInv, StoredInv, Typed, SecretsTypeOK, PcFits, OneAtATime
<1>3. PutIsPrivate' /\ PutStores' /\ DeleteIsLate' /\ RefIsStored'
  BY <1>1 DEF SecretInv, StoredInv, PutIsPrivate, PutStores, Putting, DeleteIsLate, Forgetting, RefIsStored, RefOf
<1>4. KeyIsSettled' /\ SecretIsOwned'
  BY <1>1 DEF SecretInv, KeyIsSettled, SecretIsOwned, NoFault, Keeps, Stores, Forgetting, RefOf
<1> QED BY <1>2, <1>3, <1>4 DEF SecretInv, StoredInv

LEMMA CreateBegins ==
  ASSUME SecretInv, NEW c \in Caller, NEW o \in Owner, NEW secret \in BOOLEAN,
         BeginCreate(c, o, secret), UNCHANGED poolVars
  PROVE  SecretInv'
<1> DEFINE l == IF secret THEN "put" ELSE "create"
           r == [Idle EXCEPT !.pc = l, !.op = "put", !.o = o]
<1>t. /\ loc \in [Caller -> LocRec] /\ SecretsTypeOK /\ PoolsTypeOK
      /\ PcFits /\ OneAtATime /\ PutIsPrivate /\ PutStores /\ DeleteIsLate /\ RefIsStored
  BY DEF SecretInv, StoredInv, Typed
<1>l. l \in {"put", "create"} /\ l \in Places
  BY PlacesFacts
<1>b. /\ row[o] = "new" /\ row' = [row EXCEPT ![o] = "used"] /\ Arrive(c, r)
      /\ UNCHANGED <<keyFile, keys, item, sec, faults, poolVars>>
  BY DEF BeginCreate
<1> HIDE DEF l
<1>r. r \in LocRec /\ r.pc = l /\ r.op = "put" /\ r.o = o /\ r.backend = "none"
  <2>1. r \in LocRec
    BY <1>l, IdleFacts, ArriveRec
  <2> QED BY <2>1, IdleFacts DEF LocRec, Idle
<1> HIDE DEF r
<1>m. /\ loc' \in [Caller -> LocRec] /\ Others(c) /\ loc'[c] = r
      /\ loc[c].pc = "idle" /\ ("overlap" \in faults \/ Quiet)
  BY <1>b, <1>r, <1>t, ArriveMoves
<1>1. Typed'
  BY <1>b, <1>m, <1>t DEF Typed, SecretsTypeOK, PoolsTypeOK, poolVars
<1>2. PcFits' /\ OneAtATime'
  <2>1. OneAtATime'
    BY <1>b, <1>m, <1>t, OneStays
  <2> QED BY <1>l, <1>m, <1>r, <1>t, <2>1 DEF PcFits, Others, PutPlace
<1>3. PutIsPrivate'
  BY <1>b, <1>m, <1>r, <1>t DEF PutIsPrivate, PcFits, Putting, Others, SecretsTypeOK
<1>4. PutStores'
  BY <1>b, <1>l, <1>m, <1>r, <1>t DEF PutStores, Putting, Others
<1>5. DeleteIsLate'
  BY <1>b, <1>l, <1>m, <1>r, <1>t DEF DeleteIsLate, PcFits, Forgetting, Others, SecretsTypeOK
<1>6. RefIsStored'
  BY <1>b, <1>t DEF RefIsStored, RefOf, SecretsTypeOK
<1>7. KeyIsSettled'
  BY <1>b, <1>l, <1>m, <1>r DEF SecretInv, KeyIsSettled, Others
<1>8. SecretIsOwned'
  <2>1. \A e \in Caller : (Keeps(e) => Keeps(e)') /\ (Stores(e) => Stores(e)')
          /\ (loc'[e].o = loc[e].o \/ loc[e].pc = "idle")
    BY <1>m DEF Keeps, Stores, Forgetting, Others
  <2>2. \A q \in Owner : RefOf(q)' = RefOf(q)
    BY <1>b, <1>t DEF RefOf, SecretsTypeOK
  <2>3. \A e \in Caller : loc'[e].pc \in {"deleteRow", "forgetRow"} => loc'[e] = loc[e]
    BY <1>l, <1>m, <1>r DEF Others
  <2>4. \A e \in Caller : loc[e].pc = "deleteRow" => loc[e].o \in Owner /\ loc[e].o # o
    BY <1>b, <1>t DEF DeleteIsLate, PcFits, PutPlace, GetPlace
  <2>5. \A e \in Caller : loc[e].pc = "idle" => ~Keeps(e) /\ ~Stores(e)
    BY DEF Keeps, Stores, Forgetting
  <2> SUFFICES ASSUME NoFault, SecretIsOwned PROVE SecretIsOwned'
    BY <1>b DEF SecretInv, SecretIsOwned, NoFault
  <2>6. \A q \in Owner : sec'[q].backend # "none" => RefOf(q)' \/ \E e \in Caller : loc'[e].o = q /\ Keeps(e)'
    BY <1>b, <2>1, <2>2, <2>5 DEF SecretIsOwned
  <2>7. \A q \in Owner : q \in item' => sec'[q].backend = "keychain" \/ \E e \in Caller : loc'[e].o = q
          /\ Stores(e)'
    BY <1>b, <2>1, <2>5 DEF SecretIsOwned
  <2>8. \A e \in Caller : loc'[e].pc = "deleteRow" =>
          (loc[e].ref = RefOf(loc[e].o) \/ row[loc[e].o] = "gone")'
    BY <1>b, <1>t, <2>2, <2>3, <2>4 DEF SecretIsOwned, SecretsTypeOK
  <2>9. \A e \in Caller : loc'[e].pc = "forgetRow" => loc'[e].o \notin item'
    BY <1>b, <2>3 DEF SecretIsOwned
  <2> QED BY <2>6, <2>7, <2>8, <2>9 DEF SecretIsOwned
<1> QED BY <1>1, <1>2, <1>3, <1>4, <1>5, <1>6, <1>7, <1>8 DEF SecretInv, StoredInv

LEMMA DeleteBegins ==
  ASSUME SecretInv, NEW c \in Caller, NEW o \in Owner, UNCHANGED poolVars,
         deleteServer(c, o) \/ deleteDBConnection(c, o) \/ deleteIntegration(c, o)
  PROVE  SecretInv'
<1>t. /\ loc \in [Caller -> LocRec] /\ SecretsTypeOK /\ PoolsTypeOK
      /\ PcFits /\ OneAtATime /\ PutIsPrivate /\ PutStores /\ DeleteIsLate /\ RefIsStored
  BY DEF SecretInv, StoredInv, Typed
<1>p. PICK ref \in BOOLEAN : BeginDelete(c, o, ref) /\ (ref = RefOf(o) \/ "db" \in faults)
  BY DEF deleteServer, deleteDBConnection, deleteIntegration, NotRead, RefOf
<1> DEFINE r == [Idle EXCEPT !.pc = "deleteRow", !.op = "delete", !.o = o, !.ref = ref]
<1>b. There(o) /\ Arrive(c, r) /\ UNCHANGED <<store, faults, poolVars>>
  BY <1>p DEF BeginDelete
<1>r. r \in LocRec /\ r.pc = "deleteRow" /\ r.op = "delete" /\ r.o = o /\ r.ref = ref
  <2>1. r \in LocRec
    BY PlacesFacts, IdleFacts, ArriveRec
  <2> QED BY <2>1, IdleFacts DEF LocRec
<1> HIDE DEF r
<1>m. /\ loc' \in [Caller -> LocRec] /\ Others(c) /\ loc'[c] = r
      /\ loc[c].pc = "idle" /\ ("overlap" \in faults \/ Quiet)
  BY <1>b, <1>r, <1>t, ArriveMoves
<1>u. UNCHANGED <<keyFile, keys, item, sec, row, faults>>
  BY <1>b DEF store
<1>1. Typed'
  BY <1>b, <1>m, <1>t, <1>u DEF Typed, SecretsTypeOK, PoolsTypeOK, poolVars
<1>2. PcFits' /\ OneAtATime'
  <2>1. OneAtATime'
    BY <1>m, <1>t, <1>u, OneStays
  <2> QED BY <1>m, <1>r, <1>t, <2>1 DEF PcFits, Others, DeletePlace
<1>3. PutIsPrivate' /\ PutStores' /\ RefIsStored'
  BY <1>m, <1>r, <1>t, <1>u DEF PutIsPrivate, PutStores, Putting, RefIsStored, RefOf, Others
<1>4. DeleteIsLate'
  BY <1>b, <1>m, <1>r, <1>t, <1>u DEF DeleteIsLate, Forgetting, Others, There
<1>5. KeyIsSettled'
  BY <1>m, <1>r, <1>u DEF SecretInv, KeyIsSettled, Others
<1>6. SecretIsOwned'
  BY <1>m, <1>p, <1>r, <1>u DEF SecretInv, SecretIsOwned, NoFault, Keeps, Stores, Forgetting, RefOf, Others
<1> QED BY <1>1, <1>2, <1>3, <1>4, <1>5, <1>6 DEF SecretInv, StoredInv

\* What the writers' lemmas start from.
LEMMA Opened ==
  ASSUME SecretInv
  PROVE  /\ loc \in [Caller -> LocRec] /\ SecretsTypeOK /\ PoolsTypeOK
         /\ PcFits /\ OneAtATime /\ PutIsPrivate /\ PutStores /\ DeleteIsLate /\ RefIsStored
BY DEF SecretInv, StoredInv, Typed

LEMMA PutKeeps ==
  ASSUME SecretInv, NEW c \in Caller, Put(c), UNCHANGED poolVars
  PROVE  SecretInv'
<1> DEFINE l == loc[c]
           a == [l EXCEPT !.pc = "insert", !.backend = "keychain"]
           b == [l EXCEPT !.pc = "loadKey", !.backend = "blob"]
<1>t. /\ loc \in [Caller -> LocRec] /\ SecretsTypeOK /\ PoolsTypeOK /\ l \in LocRec
      /\ PcFits /\ OneAtATime /\ PutIsPrivate /\ PutStores /\ DeleteIsLate /\ RefIsStored
  BY Opened
<1>b. /\ l.pc = "put" /\ UNCHANGED <<keyFile, keys, sec, row, faults>>
      /\ \/ item' = item \cup {l.o} /\ loc' = [loc EXCEPT ![c] = a]
         \/ item' = item /\ loc' = [loc EXCEPT ![c] = b]
  BY <1>t DEF Put, At
<1>r. /\ a \in LocRec /\ a.pc = "insert" /\ a.backend = "keychain" /\ a.op = l.op /\ a.o = l.o /\ a.ref = l.ref
      /\ b \in LocRec /\ b.pc = "loadKey" /\ b.backend = "blob" /\ b.op = l.op /\ b.o = l.o /\ b.ref = l.ref
  <2>1. a \in LocRec /\ b \in LocRec
    BY <1>t, PlacesFacts, BackendRec
  <2> QED BY <1>t, <2>1 DEF LocRec
<1>p. l.op = "put" /\ l.o \in Owner /\ Putting(c) /\ row[l.o] = "used"
  BY <1>b, <1>t DEF PcFits, PutIsPrivate, Putting, DeletePlace, GetPlace
<1> HIDE DEF a, b
<1>m. /\ loc' \in [Caller -> LocRec] /\ Others(c) /\ loc'[c].op = "put" /\ loc'[c].o = l.o
      /\ loc'[c].pc \in {"insert", "loadKey"}
      /\ loc'[c].pc = "insert" => loc'[c].backend = "keychain" /\ item' = item \cup {l.o}
      /\ loc'[c].pc = "loadKey" => loc'[c].backend = "blob" /\ item' = item
  BY <1>b, <1>p, <1>r, <1>t DEF Others
<1>1. Typed'
  BY <1>b, <1>m, <1>p, <1>t DEF Typed, SecretsTypeOK, PoolsTypeOK, poolVars
<1>2. PcFits' /\ OneAtATime'
  <2>1. OneAtATime'
    BY <1>b, <1>m, <1>t, OneStays
  <2> QED BY <1>m, <1>p, <1>t, <2>1 DEF PcFits, Others, PutPlace
<1>3. PutIsPrivate'
  BY <1>b, <1>m, <1>p, <1>t DEF PutIsPrivate, Putting, Others
<1>4. PutStores'
  BY <1>b, <1>m, <1>p, <1>t DEF PutStores, Putting, Others
<1>5. DeleteIsLate'
  BY <1>b, <1>m, <1>p, <1>t DEF DeleteIsLate, Forgetting, Others
<1>6. RefIsStored'
  BY <1>b, <1>m, <1>t DEF RefIsStored, RefOf
<1>7. KeyIsSettled'
  BY <1>b, <1>m DEF SecretInv, KeyIsSettled, Others
<1>8. SecretIsOwned'
  <2>1. \A e \in Caller : loc[e].pc = "forgetRow" => loc[e].o # l.o
    <3>1. \A e \in Caller : loc[e].pc = "forgetRow" => loc[e].op \in {"put", "delete"}
      BY <1>t DEF PcFits, GetPlace
    <3> QED BY <1>b, <1>p, <3>1, Alone DEF SecretInv
  <2> QED BY <1>b, <1>m, <1>p, <2>1 DEF SecretInv, SecretIsOwned, NoFault, Keeps, Stores, Forgetting, RefOf, Others
<1> QED BY <1>1, <1>2, <1>3, <1>4, <1>5, <1>6, <1>7, <1>8 DEF SecretInv, StoredInv

LEMMA InsertKeeps ==
  ASSUME SecretInv, NEW c \in Caller, InsertSecret(c), UNCHANGED poolVars
  PROVE  SecretInv'
<1> DEFINE l == loc[c]
<1>t. /\ loc \in [Caller -> LocRec] /\ SecretsTypeOK /\ PoolsTypeOK /\ l \in LocRec
      /\ PcFits /\ OneAtATime /\ PutIsPrivate /\ PutStores /\ DeleteIsLate /\ RefIsStored
  BY Opened
<1>p. l.pc = "insert" /\ l.op = "put" /\ l.o \in Owner /\ Putting(c) /\ row[l.o] = "used"
  BY <1>t DEF InsertSecret, At, PcFits, PutIsPrivate, Putting, DeletePlace, GetPlace
<1>i. l.backend \in {"keychain", "blob"} /\ l.key \in 0 .. MaxKey /\ (l.backend = "keychain" => l.o \in item)
  BY <1>p, <1>t DEF PutStores, LocRec
<1>u. UNCHANGED <<keyFile, keys, row, faults>>
  BY DEF InsertSecret
<1>a. CASE sec' = [sec EXCEPT ![l.o] = [backend |-> l.backend, key |-> l.key]] /\ Goto(c, "create")
        /\ UNCHANGED item
  <2>m. /\ loc' \in [Caller -> LocRec] /\ Others(c) /\ loc'[c].pc = "create" /\ loc'[c].op = l.op
          /\ loc'[c].o = l.o
        /\ loc'[c].backend = l.backend
    BY <1>a, <1>t, GotoMoves, PlacesFacts
  <2>s. /\ sec' \in [Owner -> [backend : {"none", "keychain", "blob"}, key : 0 .. MaxKey]]
        /\ sec'[l.o].backend = l.backend /\ sec'[l.o].key = l.key
        /\ \A o \in Owner : o # l.o => sec'[o] = sec[o]
    BY <1>a, <1>i, <1>p, <1>t DEF SecretsTypeOK
  <2>1. Typed'
    BY <1>a, <1>t, <1>u, <2>m, <2>s DEF Typed, SecretsTypeOK, PoolsTypeOK, poolVars
  <2>2. PcFits' /\ OneAtATime'
    <3>1. OneAtATime'
      BY <1>p, <1>t, <1>u, <2>m, OneStays
    <3> QED BY <1>p, <1>t, <2>m, <3>1 DEF PcFits, Others, PutPlace
  <2>3. PutIsPrivate' /\ DeleteIsLate'
    BY <1>p, <1>t, <1>u, <2>m DEF PutIsPrivate, Putting, DeleteIsLate, Forgetting, Others
  <2>4. PutStores'
    <3>1. \A e \in Caller : Putting(e) /\ e # c => loc[e].o # l.o
      BY <1>p, <1>t DEF PutIsPrivate
    <3>2. \A e \in Caller : Putting(e) => loc[e].o \in Owner
      BY <1>t DEF PcFits, Putting
    <3> QED BY <1>a, <1>i, <1>p, <1>t, <2>m, <2>s, <3>1, <3>2 DEF PutStores, Putting, Others
  <2>5. RefIsStored'
    BY <1>a, <1>p, <1>t, <1>u, <2>s DEF RefIsStored, RefOf
  <2>6. KeyIsSettled'
    BY <1>i, <1>p, <1>u, <2>m, <2>s DEF SecretInv, KeyIsSettled, Others
  <2>7. SecretIsOwned'
    <3>1. \A e \in Caller : Keeps(e) => e # c /\ loc[e].o # l.o
      <4>1. \A e \in Caller : Keeps(e) => loc[e].pc # "idle" /\ loc[e].op \in {"put", "delete"}
              /\ loc[e].pc # "insert"
        BY <1>t DEF PcFits, Keeps, Forgetting, GetPlace
      <4> QED BY <1>p, <4>1, Alone DEF SecretInv
    <3>2. \A e \in Caller : Stores(e) /\ e # c => loc[e].o # l.o
      BY <1>p, <1>t DEF PutIsPrivate, PcFits, Stores, Putting, DeletePlace, GetPlace
    <3>3. NoFault /\ l.o \in item => l.backend = "keychain"
      BY <1>p, <1>i, <3>1, <3>2 DEF SecretInv, SecretIsOwned, NoFault, Stores, RefOf
    <3> QED BY <1>a, <1>i, <1>p, <1>u, <2>m, <2>s, <3>1, <3>2, <3>3
            DEF SecretInv, SecretIsOwned, NoFault, Keeps, Stores, Forgetting, RefOf, Others
  <2> QED BY <2>1, <2>2, <2>3, <2>4, <2>5, <2>6, <2>7 DEF SecretInv, StoredInv
<1>b. CASE /\ "db" \in faults /\ Done(c) /\ UNCHANGED sec
           /\ item' = item \ {l.o} \/ ("keychain" \in faults /\ UNCHANGED item)
  <2>m. loc' \in [Caller -> LocRec] /\ Others(c) /\ loc'[c].pc = "idle"
    BY <1>b, <1>t, DoneMoves
  <2>i. item' \subseteq item /\ item \ {l.o} \subseteq item'
    BY <1>b
  <2>1. Typed'
    BY <1>b, <1>t, <1>u, <2>m, <2>i DEF Typed, SecretsTypeOK, PoolsTypeOK, poolVars
  <2>2. PcFits' /\ OneAtATime'
    <3>1. OneAtATime'
      BY <1>p, <1>t, <1>u, <2>m, OneStays
    <3> QED BY <1>t, <2>m, <3>1 DEF PcFits, Others
  <2>3. PutIsPrivate' /\ DeleteIsLate'
    BY <1>t, <1>u, <2>m DEF PutIsPrivate, Putting, DeleteIsLate, Forgetting, Others
  <2>4. PutStores'
    <3>1. \A e \in Caller : Putting(e) /\ e # c => loc[e].o # l.o
      BY <1>p, <1>t DEF PutIsPrivate
    <3> QED BY <1>b, <1>t, <2>i, <2>m, <3>1 DEF PutStores, Putting, Others
  <2>5. RefIsStored'
    BY <1>b, <1>p, <1>t, <1>u, <2>i DEF RefIsStored, RefOf
  <2>6. KeyIsSettled'
    BY <1>b, <1>u, <2>m DEF SecretInv, KeyIsSettled, Others
  <2>7. SecretIsOwned'
    BY <1>b, <1>u DEF SecretIsOwned, NoFault
  <2> QED BY <2>1, <2>2, <2>3, <2>4, <2>5, <2>6, <2>7 DEF SecretInv, StoredInv
<1> QED BY <1>a, <1>b DEF InsertSecret

LEMMA CreateKeeps ==
  ASSUME SecretInv, NEW c \in Caller, CreateRow(c), UNCHANGED poolVars
  PROVE  SecretInv'
<1> DEFINE l == loc[c]
<1>t. /\ loc \in [Caller -> LocRec] /\ SecretsTypeOK /\ PoolsTypeOK /\ l \in LocRec
      /\ PcFits /\ OneAtATime /\ PutIsPrivate /\ PutStores /\ DeleteIsLate /\ RefIsStored
  BY Opened
<1>p. l.pc = "create" /\ l.op = "put" /\ l.o \in Owner /\ Putting(c) /\ row[l.o] = "used"
  BY <1>t DEF CreateRow, At, PcFits, PutIsPrivate, Putting, DeletePlace, GetPlace
<1>u. UNCHANGED <<keyFile, keys, item, sec, faults>>
  BY DEF CreateRow
\* Another goroutine has no business with this ID.
<1>o. \A e \in Caller : loc[e].pc # "idle" /\ loc[e].op \in {"put", "delete"} /\ e # c => loc[e].o # l.o
  BY <1>p, Alone DEF SecretInv
<1>k. \A e \in Caller : Keeps(e) \/ Stores(e) \/ loc[e].pc \in {"deleteRow", "forgetRow"} =>
        loc[e].pc # "idle" /\ loc[e].op \in {"put", "delete"}
  BY <1>t DEF PcFits, Keeps, Stores, Forgetting, GetPlace
<1>n. NoFault => (l.backend = "none" => sec[l.o].backend = "none")
  BY <1>k, <1>o, <1>p DEF SecretInv, SecretIsOwned, NoFault, Keeps, Forgetting, RefOf
<1>a. CASE row' = [row EXCEPT ![l.o] = IF l.backend = "none" THEN "plain" ELSE "secret"] /\ Done(c)
  <2>m. loc' \in [Caller -> LocRec] /\ Others(c) /\ loc'[c].pc = "idle"
    BY <1>a, <1>t, DoneMoves
  <2>r. /\ row' \in [Owner -> {"new", "used", "plain", "secret", "gone"}]
        /\ row'[l.o] = (IF l.backend = "none" THEN "plain" ELSE "secret")
        /\ \A o \in Owner : o # l.o => row'[o] = row[o]
    BY <1>a, <1>p, <1>t DEF SecretsTypeOK
  <2>1. Typed'
    BY <1>t, <1>u, <2>m, <2>r DEF Typed, SecretsTypeOK, PoolsTypeOK, poolVars
  <2>2. PcFits' /\ OneAtATime'
    <3>1. OneAtATime'
      BY <1>p, <1>t, <1>u, <2>m, OneStays
    <3> QED BY <1>t, <2>m, <3>1 DEF PcFits, Others
  <2>3. PutIsPrivate' /\ DeleteIsLate'
    <3>1. \A e \in Caller : loc[e].pc # "idle" => loc[e].o \in Owner
      BY <1>t DEF PcFits
    <3> QED BY <1>o, <1>t, <1>u, <2>m, <2>r, <3>1 DEF PutIsPrivate, Putting, DeleteIsLate, Forgetting, Others
  <2>4. PutStores'
    BY <1>t, <1>u, <2>m DEF PutStores, Putting, Others
  <2>5. RefIsStored'
    BY <1>p, <1>t, <1>u, <2>r DEF RefIsStored, RefOf, PutStores
  <2>6. KeyIsSettled'
    BY <1>u, <2>m DEF SecretInv, KeyIsSettled, Others
  <2>7. SecretIsOwned'
    <3>1. \A e \in Caller : loc[e].pc # "idle" => loc[e].o \in Owner
      BY <1>t DEF PcFits
    <3> QED BY <1>k, <1>n, <1>o, <1>p, <1>u, <2>m, <2>r, <3>1
            DEF SecretInv, SecretIsOwned, NoFault, Keeps, Stores, Forgetting, RefOf, Others
  <2> QED BY <2>1, <2>2, <2>3, <2>4, <2>5, <2>6, <2>7 DEF SecretInv, StoredInv
<1>b. CASE (IF l.backend = "none" THEN Done(c) ELSE Goto(c, "forget")) /\ UNCHANGED row
  <2>m. /\ loc' \in [Caller -> LocRec] /\ Others(c) /\ loc'[c].pc \in {"idle", "forget"}
        /\ loc'[c].pc = "forget" => loc'[c].op = "put" /\ loc'[c].o = l.o
        /\ loc'[c].pc = "idle" => l.backend = "none"
    BY <1>b, <1>p, <1>t, DoneMoves, GotoMoves, PlacesFacts
  <2>1. Typed'
    BY <1>b, <1>t, <1>u, <2>m DEF Typed, SecretsTypeOK, PoolsTypeOK, poolVars
  <2>2. PcFits' /\ OneAtATime'
    <3>1. OneAtATime'
      BY <1>p, <1>t, <1>u, <2>m, OneStays
    <3> QED BY <1>p, <1>t, <2>m, <3>1 DEF PcFits, Others, PutPlace
  <2>3. PutIsPrivate' /\ DeleteIsLate' /\ PutStores' /\ RefIsStored'
    BY <1>b, <1>p, <1>t, <1>u, <2>m
       DEF PutIsPrivate, Putting, DeleteIsLate, PutStores, Forgetting, RefIsStored, RefOf, Others
  <2>6. KeyIsSettled'
    BY <1>u, <2>m DEF SecretInv, KeyIsSettled, Others
  <2>7. SecretIsOwned'
    BY <1>b, <1>n, <1>p, <1>u, <2>m
       DEF SecretInv, SecretIsOwned, NoFault, Keeps, Stores, Forgetting, RefOf, Others
  <2> QED BY <2>1, <2>2, <2>3, <2>6, <2>7 DEF SecretInv, StoredInv
<1> QED BY <1>a, <1>b DEF CreateRow

-----------------------------------------------------------------------------
(* The key file                                                               *)

\* A goroutine at the key file, its copies moved on, and nothing else but the file.
LEMMA KeyMoves ==
  ASSUME SecretInv, NEW c \in Caller, UNCHANGED <<item, sec, row, faults, poolVars>>,
         keyFile' \in 0 .. MaxKey, keys' \in 0 .. MaxKey,
         loc[c].pc \in {"loadKey", "truncate", "writeKey"},
         loc' \in [Caller -> LocRec], Others(c),
         \/ loc'[c].pc = "idle"
         \/ /\ loc'[c].op = loc[c].op /\ loc'[c].o = loc[c].o /\ loc'[c].db = loc[c].db
            /\ loc'[c].backend = loc[c].backend
            /\ loc'[c].pc \in {"truncate", "writeKey", AfterKey(c)},
         KeyIsSettled'
  PROVE  SecretInv'
<1>t. /\ loc \in [Caller -> LocRec] /\ SecretsTypeOK /\ PoolsTypeOK
      /\ PcFits /\ OneAtATime /\ PutIsPrivate /\ PutStores /\ DeleteIsLate /\ RefIsStored
  BY Opened
<1>p. loc[c].op \in {"put", "get"} /\ loc[c].o \in Owner
  BY <1>t DEF PcFits, DeletePlace
<1>l. /\ loc'[c].pc \in {"idle", "truncate", "writeKey", "insert", "decrypt"}
      /\ loc'[c].pc = "insert" => loc[c].op = "put"
      /\ loc'[c].pc = "decrypt" => loc[c].op = "get"
  BY <1>p DEF AfterKey
<1>1. Typed'
  BY <1>t DEF Typed, SecretsTypeOK, PoolsTypeOK, poolVars
<1>2. PcFits'
  <2>1. loc'[c].pc # "idle" /\ loc[c].op = "get" => HasDatabase(loc'[c])
    BY <1>l, <1>t DEF PcFits, HasDatabase, PoolPlace
  <2> QED BY <1>l, <1>p, <1>t, <2>1 DEF PcFits, Others, PutPlace, GetPlace
<1>3. OneAtATime'
  BY <1>t, OneStays
<1>4. PutIsPrivate' /\ PutStores' /\ DeleteIsLate'
  BY <1>l, <1>p, <1>t DEF PutIsPrivate, PutStores, Putting, DeleteIsLate, Forgetting, Others
<1>5. RefIsStored'
  BY <1>t DEF RefIsStored, RefOf
<1>6. SecretIsOwned'
  <2>1. loc[c].op = "put" /\ loc[c].pc # "idle" => loc[c].backend = "blob"
    BY <1>t DEF PutStores, Putting
  <2>2. ~Keeps(c) /\ ~Stores(c) /\ ~Keeps(c)' /\ ~Stores(c)'
    BY <1>l, <2>1 DEF Keeps, Stores, Forgetting
  <2> QED BY <1>l, <2>2 DEF SecretInv, SecretIsOwned, NoFault, Keeps, Stores, Forgetting, RefOf, Others
<1> QED BY <1>1, <1>2, <1>3, <1>4, <1>5, <1>6 DEF SecretInv, StoredInv

LEMMA LoadKeeps ==
  ASSUME SecretInv, NEW c \in Caller, loadOrCreateKey(c), UNCHANGED poolVars
  PROVE  SecretInv'
<1> DEFINE l == loc[c]
<1>t. loc \in [Caller -> LocRec] /\ SecretsTypeOK /\ PcFits /\ l \in LocRec
  BY Opened
<1>u. l.pc = "loadKey" /\ UNCHANGED <<keyFile, item, sec, row, faults>>
  BY DEF loadOrCreateKey, At
<1>k. AfterKey(c) \in {"insert", "decrypt"}
  BY DEF AfterKey
<1>1. ASSUME NEW q \in {"insert", "decrypt", "truncate"}, NEW k \in 0 .. MaxKey,
             q = "truncate" \/ q = AfterKey(c), keys' \in 0 .. MaxKey,
             loc' = [loc EXCEPT ![c] = [l EXCEPT !.pc = q, !.key = k]],
             \/ q # "truncate" /\ keyFile # 0 /\ k = keyFile
             \/ q = "truncate" /\ (keyFile = 0 \/ "unreadable" \in faults) /\ k # 0
      PROVE  SecretInv'
  <2> DEFINE r == [l EXCEPT !.pc = q, !.key = k]
  <2>r. r \in LocRec /\ r.pc = q /\ r.key = k /\ r.op = l.op /\ r.o = l.o /\ r.db = l.db /\ r.backend = l.backend
    <3>1. r \in LocRec
      BY <1>t, PlacesFacts, KeyRec
    <3> QED BY <1>t, <3>1 DEF LocRec
  <2>l. loc' = [loc EXCEPT ![c] = r]
    BY <1>1
  <2> HIDE DEF r
  <2>m. loc' \in [Caller -> LocRec] /\ Others(c) /\ loc'[c] = r
    BY <1>t, <2>l, <2>r DEF Others
  <2>k. KeyIsSettled'
    BY <1>1, <1>u, <2>m, <2>r DEF SecretInv, KeyIsSettled, Others
  <2>f. keyFile' \in 0 .. MaxKey
    BY <1>t, <1>u DEF SecretsTypeOK
  <2> QED BY <1>1, <1>u, <2>f, <2>k, <2>m, <2>r, KeyMoves
<1>2. ASSUME Done(c), UNCHANGED keys PROVE SecretInv'
  <2>m. loc' \in [Caller -> LocRec] /\ Others(c) /\ loc'[c].pc = "idle"
    BY <1>2, <1>t, DoneMoves
  <2>k. KeyIsSettled'
    BY <1>u, <2>m DEF SecretInv, KeyIsSettled, Others
  <2>f. keyFile' \in 0 .. MaxKey /\ keys' \in 0 .. MaxKey
    BY <1>2, <1>t, <1>u DEF SecretsTypeOK
  <2> QED BY <1>u, <2>f, <2>k, <2>m, KeyMoves
<1>3. CASE keyFile # 0 /\ loc' = [loc EXCEPT ![c].pc = AfterKey(c), ![c].key = keyFile] /\ UNCHANGED keys
  <2>1. loc' = [loc EXCEPT ![c] = [l EXCEPT !.pc = AfterKey(c), !.key = keyFile]]
    BY <1>3
  <2>2. keyFile \in 0 .. MaxKey /\ keys' \in 0 .. MaxKey
    BY <1>3, <1>t DEF SecretsTypeOK
  <2> QED BY <1>1, <1>3, <1>k, <2>1, <2>2
<1>4. CASE /\ keyFile = 0 \/ "unreadable" \in faults
           /\ keys < MaxKey /\ keys' = keys + 1
           /\ loc' = [loc EXCEPT ![c].pc = "truncate", ![c].key = keys + 1]
  <2>1. keys + 1 \in 0 .. MaxKey /\ keys + 1 # 0
    BY <1>4, <1>t DEF SecretsTypeOK
  <2>2. loc' = [loc EXCEPT ![c] = [l EXCEPT !.pc = "truncate", !.key = keys + 1]]
    BY <1>4
  <2>3. keys' \in 0 .. MaxKey
    BY <1>4, <2>1
  <2> QED BY <1>1, <1>4, <2>1, <2>2, <2>3
<1> QED BY <1>2, <1>3, <1>4 DEF loadOrCreateKey

LEMMA TruncateKeeps ==
  ASSUME SecretInv, NEW c \in Caller, Truncate(c), UNCHANGED poolVars
  PROVE  SecretInv'
<1>t. loc \in [Caller -> LocRec] /\ SecretsTypeOK
  BY Opened
<1>u. loc[c].pc = "truncate" /\ UNCHANGED <<keys, item, sec, row, faults>> /\ keyFile' \in {0, keyFile}
  BY DEF Truncate, At
<1>m. /\ loc' \in [Caller -> LocRec] /\ Others(c)
      /\ \/ loc'[c].pc = "idle"
         \/ /\ loc'[c].op = loc[c].op /\ loc'[c].o = loc[c].o /\ loc'[c].db = loc[c].db
            /\ loc'[c].backend = loc[c].backend /\ loc'[c].pc = "writeKey" /\ loc'[c].key = loc[c].key
  BY <1>t, DoneMoves, GotoMoves, PlacesFacts DEF Truncate
<1>k. KeyIsSettled'
  BY <1>m, <1>u DEF SecretInv, KeyIsSettled, Others
<1>f. keyFile' \in 0 .. MaxKey /\ keys' \in 0 .. MaxKey
  BY <1>t, <1>u DEF SecretsTypeOK
<1> QED BY <1>f, <1>k, <1>m, <1>u, KeyMoves

LEMMA WriteKeeps ==
  ASSUME SecretInv, NEW c \in Caller, WriteKey(c), UNCHANGED poolVars
  PROVE  SecretInv'
<1>t. loc \in [Caller -> LocRec] /\ SecretsTypeOK /\ OneAtATime /\ loc[c] \in LocRec
  BY Opened
<1>u. loc[c].pc = "writeKey" /\ UNCHANGED <<keys, item, sec, row, faults>>
  BY DEF WriteKey, At
<1>k. AfterKey(c) \in {"insert", "decrypt"}
  BY DEF AfterKey
<1>m. /\ loc' \in [Caller -> LocRec] /\ Others(c)
      /\ \/ loc'[c].pc = "idle" /\ keyFile' = 0
         \/ /\ loc'[c].op = loc[c].op /\ loc'[c].o = loc[c].o /\ loc'[c].db = loc[c].db
            /\ loc'[c].backend = loc[c].backend /\ loc'[c].pc = AfterKey(c) /\ loc'[c].key = loc[c].key
            /\ keyFile' = loc[c].key
  BY <1>k, <1>t, DoneMoves, GotoMoves, PlacesFacts DEF WriteKey
\* Without the faults this is a first use, which has the store to itself.
<1>s. faults \cap {"firstUse", "unreadable"} = {} =>
        keyFile = 0 /\ loc[c].key # 0 /\ \A e \in Caller : e # c => loc[e].pc = "idle"
  BY <1>t, <1>u DEF SecretInv, KeyIsSettled, OneAtATime
<1>k2. KeyIsSettled'
  BY <1>k, <1>m, <1>s, <1>u DEF SecretInv, KeyIsSettled, Others
<1>f. keyFile' \in 0 .. MaxKey /\ keys' \in 0 .. MaxKey
  <2>1. loc[c].key \in 0 .. MaxKey /\ 0 \in 0 .. MaxKey
    BY <1>t DEF LocRec
  <2> QED BY <1>m, <1>t, <1>u, <2>1 DEF SecretsTypeOK
<1> QED BY <1>f, <1>k2, <1>m, <1>u, KeyMoves

-----------------------------------------------------------------------------
(* Deleting                                                                   *)

LEMMA AfterForgetMoves ==
  ASSUME loc \in [Caller -> LocRec], NEW c \in Caller, AfterForget(c)
  PROVE  /\ loc' \in [Caller -> LocRec] /\ Others(c) /\ loc'[c].pc \in {"idle", "evict"}
         /\ loc'[c].pc = "evict" => loc[c].op = "delete" /\ loc'[c].op = "delete" /\ loc'[c].o = loc[c].o
BY DoneMoves, GotoMoves, PlacesFacts DEF AfterForget

LEMMA DeleteKeeps ==
  ASSUME SecretInv, NEW c \in Caller, DeleteRow(c), UNCHANGED poolVars
  PROVE  SecretInv'
<1> DEFINE l == loc[c]
<1>t. /\ loc \in [Caller -> LocRec] /\ SecretsTypeOK /\ PoolsTypeOK /\ l \in LocRec
      /\ PcFits /\ OneAtATime /\ PutIsPrivate /\ PutStores /\ DeleteIsLate /\ RefIsStored
  BY Opened
<1>p. l.pc = "deleteRow" /\ l.op = "delete" /\ l.o \in Owner
  BY <1>t DEF DeleteRow, At, PcFits, PutPlace, GetPlace
<1>u. UNCHANGED <<keyFile, keys, item, sec, faults>>
  BY DEF DeleteRow
<1>a. CASE /\ There(l.o) /\ row' = [row EXCEPT ![l.o] = "gone"]
           /\ IF l.ref THEN Goto(c, "forget") ELSE AfterForget(c)
  <2>m. /\ loc' \in [Caller -> LocRec] /\ Others(c) /\ loc'[c].pc \in {"idle", "evict", "forget"}
        /\ loc'[c].pc # "idle" => loc'[c].op = "delete" /\ loc'[c].o = l.o
        /\ l.ref => loc'[c].pc = "forget"
    BY <1>a, <1>p, <1>t, GotoMoves, AfterForgetMoves, PlacesFacts
  <2>r. /\ row' \in [Owner -> {"new", "used", "plain", "secret", "gone"}]
        /\ row'[l.o] = "gone" /\ row[l.o] \in {"plain", "secret"}
        /\ \A o \in Owner : o # l.o => row'[o] = row[o]
    BY <1>a, <1>p, <1>t DEF SecretsTypeOK, There
  <2>o. \A e \in Caller : loc[e].pc # "idle" => loc[e].o \in Owner
    BY <1>t DEF PcFits
  <2>1. Typed'
    BY <1>t, <1>u, <2>m, <2>r DEF Typed, SecretsTypeOK, PoolsTypeOK, poolVars
  <2>2. PcFits' /\ OneAtATime'
    <3>1. OneAtATime'
      BY <1>p, <1>t, <1>u, <2>m, OneStays
    <3> QED BY <1>p, <1>t, <2>m, <3>1 DEF PcFits, Others, DeletePlace
  <2>3. PutIsPrivate' /\ PutStores'
    BY <1>t, <1>u, <2>m, <2>o, <2>r DEF PutIsPrivate, PutStores, Putting, Others
  <2>4. DeleteIsLate'
    BY <1>p, <1>t, <2>m, <2>o, <2>r DEF DeleteIsLate, Forgetting, Others
  <2>5. RefIsStored'
    BY <1>t, <1>u, <2>r DEF RefIsStored, RefOf
  <2>6. KeyIsSettled'
    BY <1>u, <2>m DEF SecretInv, KeyIsSettled, Others
  <2>7. SecretIsOwned'
    <3>1. NoFault => l.ref = RefOf(l.o)
      BY <1>p, <2>r DEF SecretInv, SecretIsOwned, RefOf
    <3>2. ~Keeps(c) /\ ~Stores(c)
      BY <1>p DEF Keeps, Stores, Forgetting
    <3>3. \A e \in Caller : /\ Keeps(e) => Keeps(e)' /\ loc'[e].o = loc[e].o
                            /\ Stores(e) => Stores(e)' /\ loc'[e].o = loc[e].o
      BY <2>m, <3>2 DEF Keeps, Stores, Forgetting, Others
    <3>4. \A o \in Owner : o # l.o => RefOf(o)' = RefOf(o)
      BY <2>r DEF RefOf
    <3>5. RefOf(l.o) => l.ref = TRUE \/ ~NoFault
      BY <3>1
    <3> SUFFICES ASSUME NoFault, SecretIsOwned PROVE SecretIsOwned'
      BY <1>u DEF SecretInv, SecretIsOwned, NoFault
    <3>6. \A q \in Owner : sec'[q].backend # "none" => RefOf(q)' \/ \E e \in Caller : loc'[e].o = q /\ Keeps(e)'
      <4>1. RefOf(l.o) => loc'[c].o = l.o /\ Keeps(c)'
        BY <2>m, <3>5 DEF Keeps, Forgetting
      <4>2. \A q \in Owner : sec[q].backend # "none" => RefOf(q) \/ \E e \in Caller : loc[e].o = q /\ Keeps(e)
        BY DEF SecretIsOwned
      <4> QED BY <1>p, <1>u, <3>3, <3>4, <4>1, <4>2
    <3>7. \A q \in Owner : q \in item' => sec'[q].backend = "keychain" \/ \E e \in Caller : loc'[e].o = q
            /\ Stores(e)'
      <4>1. \A q \in Owner : q \in item => sec[q].backend = "keychain" \/ \E e \in Caller : loc[e].o = q
              /\ Stores(e)
        BY DEF SecretIsOwned
      <4> QED BY <1>u, <3>3, <4>1
    <3>8. \A e \in Caller : (loc[e].pc = "deleteRow")' => (loc[e].ref = RefOf(loc[e].o) \/ row[loc[e].o] = "gone")'
      BY <2>m, <2>o, <2>r, <3>4 DEF SecretIsOwned, Others
    <3>9. \A e \in Caller : (loc[e].pc = "forgetRow")' => (loc[e].o \notin item)'
      BY <1>u, <2>m DEF SecretIsOwned, Others
    <3> QED BY <3>6, <3>7, <3>8, <3>9 DEF SecretIsOwned
  <2> QED BY <2>1, <2>2, <2>3, <2>4, <2>5, <2>6, <2>7 DEF SecretInv, StoredInv
<1>b. CASE Done(c) /\ UNCHANGED row
  <2>m. loc' \in [Caller -> LocRec] /\ Others(c) /\ loc'[c].pc = "idle"
    BY <1>b, <1>t, DoneMoves
  <2>1. Typed'
    BY <1>b, <1>t, <1>u, <2>m DEF Typed, SecretsTypeOK, PoolsTypeOK, poolVars
  <2>2. PcFits' /\ OneAtATime'
    <3>1. OneAtATime'
      BY <1>p, <1>t, <1>u, <2>m, OneStays
    <3> QED BY <1>t, <2>m, <3>1 DEF PcFits, Others
  <2>3. PutIsPrivate' /\ PutStores' /\ DeleteIsLate' /\ RefIsStored'
    BY <1>b, <1>t, <1>u, <2>m
       DEF PutIsPrivate, PutStores, Putting, DeleteIsLate, Forgetting, RefIsStored, RefOf, Others
  <2>6. KeyIsSettled'
    BY <1>u, <2>m DEF SecretInv, KeyIsSettled, Others
  <2>7. SecretIsOwned'
    BY <1>b, <1>p, <1>u, <2>m DEF SecretInv, SecretIsOwned, NoFault, Keeps, Stores, Forgetting, RefOf, Others
  <2> QED BY <2>1, <2>2, <2>3, <2>6, <2>7 DEF SecretInv, StoredInv
<1> QED BY <1>a, <1>b DEF DeleteRow

\* Whoever forgets a secret has its row, which refers to none, to itself or knows it gone.
LEMMA ForgetsAlone ==
  ASSUME SecretInv, NEW c \in Caller, Forgetting(c)
  PROVE  /\ loc[c].o \in Owner /\ loc[c].op \in {"put", "delete"}
         /\ row[loc[c].o] \in {"used", "gone"}
         /\ loc[c].op = "delete" => row[loc[c].o] = "gone"
         /\ \A e \in Caller : Putting(e) /\ e # c => loc[e].o # loc[c].o
<1>t. PcFits /\ PutIsPrivate /\ DeleteIsLate
  BY Opened
<1>1. loc[c].pc # "idle" /\ loc[c].o \in Owner /\ loc[c].op \in {"put", "delete"}
  BY <1>t DEF PcFits, Forgetting, GetPlace
<1>2. \A e \in Caller : Putting(e) /\ e # c => loc[e].o # loc[c].o
  BY <1>1, Alone DEF SecretInv
<1> QED BY <1>1, <1>2, <1>t DEF PutIsPrivate, DeleteIsLate, Putting

LEMMA ItemKeeps ==
  ASSUME SecretInv, NEW c \in Caller, ForgetItem(c), UNCHANGED poolVars
  PROVE  SecretInv'
<1> DEFINE l == loc[c]
<1>t. /\ loc \in [Caller -> LocRec] /\ SecretsTypeOK /\ PoolsTypeOK /\ l \in LocRec
      /\ PcFits /\ OneAtATime /\ PutIsPrivate /\ PutStores /\ DeleteIsLate /\ RefIsStored
  BY Opened
<1>u. l.pc = "forget" /\ UNCHANGED <<keyFile, keys, sec, row, faults>>
  BY DEF ForgetItem, At
<1>f. /\ l.o \in Owner /\ l.op \in {"put", "delete"} /\ row[l.o] \in {"used", "gone"}
      /\ l.op = "delete" => row[l.o] = "gone"
      /\ \A e \in Caller : Putting(e) /\ e # c => loc[e].o # l.o
  BY <1>u, ForgetsAlone DEF Forgetting
<1>m. /\ loc' \in [Caller -> LocRec] /\ Others(c)
      /\ \/ /\ loc'[c].pc = "forgetRow" /\ loc'[c].op = l.op /\ loc'[c].o = l.o
            /\ item' = item \ {l.o} \/ ("keychain" \in faults /\ item' = item)
         \/ /\ sec[l.o].backend = "none" \/ "db" \in faults
            /\ item' = item /\ loc'[c].pc \in {"idle", "evict"}
            /\ loc'[c].pc = "evict" => l.op = "delete" /\ loc'[c].op = "delete" /\ loc'[c].o = l.o
  BY <1>t, GotoMoves, AfterForgetMoves, PlacesFacts DEF ForgetItem
<1>i. item' \subseteq item /\ item \ {l.o} \subseteq item'
  BY <1>m
<1>1. Typed'
  BY <1>i, <1>m, <1>t, <1>u DEF Typed, SecretsTypeOK, PoolsTypeOK, poolVars
<1>2. PcFits' /\ OneAtATime'
  <2>1. OneAtATime'
    BY <1>m, <1>t, <1>u, OneStays
  <2> QED BY <1>f, <1>m, <1>t, <2>1 DEF PcFits, Others, DeletePlace, PutPlace
<1>3. PutIsPrivate' /\ DeleteIsLate'
  BY <1>f, <1>m, <1>t, <1>u DEF PutIsPrivate, Putting, DeleteIsLate, Forgetting, Others
<1>4. PutStores'
  BY <1>f, <1>i, <1>m, <1>t, <1>u DEF PutStores, Putting, Others
<1>5. RefIsStored'
  BY <1>f, <1>i, <1>t, <1>u DEF RefIsStored, RefOf
<1>6. KeyIsSettled'
  BY <1>m, <1>u DEF SecretInv, KeyIsSettled, Others
<1>7. SecretIsOwned'
  BY <1>m, <1>u DEF SecretInv, SecretIsOwned, NoFault, Keeps, Stores, Forgetting, RefOf, Others
<1> QED BY <1>1, <1>2, <1>3, <1>4, <1>5, <1>6, <1>7 DEF SecretInv, StoredInv

LEMMA RowKeeps ==
  ASSUME SecretInv, NEW c \in Caller, ForgetRow(c), UNCHANGED poolVars
  PROVE  SecretInv'
<1> DEFINE l == loc[c]
<1>t. /\ loc \in [Caller -> LocRec] /\ SecretsTypeOK /\ PoolsTypeOK /\ l \in LocRec
      /\ PcFits /\ OneAtATime /\ PutIsPrivate /\ PutStores /\ DeleteIsLate /\ RefIsStored
  BY Opened
<1>u. l.pc = "forgetRow" /\ UNCHANGED <<keyFile, keys, item, row, faults>>
  BY DEF ForgetRow, At
<1>f. /\ l.o \in Owner /\ l.op \in {"put", "delete"} /\ row[l.o] \in {"used", "gone"}
      /\ l.op = "delete" => row[l.o] = "gone"
      /\ \A e \in Caller : Putting(e) /\ e # c => loc[e].o # l.o
  BY <1>u, ForgetsAlone DEF Forgetting
<1>m. /\ loc' \in [Caller -> LocRec] /\ Others(c) /\ loc'[c].pc \in {"idle", "evict"}
      /\ loc'[c].pc = "evict" => l.op = "delete" /\ loc'[c].op = "delete" /\ loc'[c].o = l.o
  BY <1>t, AfterForgetMoves DEF ForgetRow
<1>s. /\ sec' \in [Owner -> [backend : {"none", "keychain", "blob"}, key : 0 .. MaxKey]]
      /\ sec'[l.o].backend = "none" \/ ("db" \in faults /\ sec' = sec)
      /\ \A o \in Owner : o # l.o => sec'[o] = sec[o]
      /\ \A o \in Owner : sec'[o].backend # "none" => sec'[o] = sec[o]
  <2>1. NoSecret \in [backend : {"none", "keychain", "blob"}, key : 0 .. MaxKey] /\ NoSecret.backend = "none"
    BY DEF NoSecret
  <2> QED BY <1>f, <1>t, <2>1 DEF ForgetRow, SecretsTypeOK
<1>o. \A e \in Caller : loc[e].pc # "idle" => loc[e].o \in Owner
  BY <1>t DEF PcFits
<1>1. Typed'
  BY <1>m, <1>s, <1>t, <1>u DEF Typed, SecretsTypeOK, PoolsTypeOK, poolVars
<1>2. PcFits' /\ OneAtATime'
  <2>1. OneAtATime'
    BY <1>m, <1>t, <1>u, OneStays
  <2> QED BY <1>f, <1>m, <1>t, <2>1 DEF PcFits, Others, DeletePlace
<1>3. PutIsPrivate' /\ DeleteIsLate'
  BY <1>f, <1>m, <1>t, <1>u DEF PutIsPrivate, Putting, DeleteIsLate, Forgetting, Others
<1>4. PutStores'
  BY <1>f, <1>m, <1>o, <1>s, <1>t, <1>u DEF PutStores, Putting, Others
<1>5. RefIsStored'
  BY <1>f, <1>s, <1>t, <1>u DEF RefIsStored, RefOf
<1>6. KeyIsSettled'
  BY <1>m, <1>s, <1>u DEF SecretInv, KeyIsSettled, Others
<1>7. SecretIsOwned'
  BY <1>f, <1>m, <1>o, <1>s, <1>u DEF SecretInv, SecretIsOwned, NoFault, Keeps, Stores, Forgetting, RefOf, Others
<1> QED BY <1>1, <1>2, <1>3, <1>4, <1>5, <1>6, <1>7 DEF SecretInv, StoredInv

-----------------------------------------------------------------------------
(* The daemon, and the theorems                                               *)

LEMMA CrashKeeps ==
  ASSUME SecretInv, Crash
  PROVE  SecretInv'
<1>t. SecretsTypeOK /\ PoolsTypeOK /\ RefIsStored
  BY Opened
<1>u. UNCHANGED <<keyFile, keys, item, sec, row, faults, made>> /\ "crash" \in faults
  BY DEF Crash, store
<1>m. loc' \in [Caller -> LocRec] /\ \A c \in Caller : loc'[c].pc = "idle"
  BY IdleFacts DEF Crash
<1>1. Typed'
  BY <1>m, <1>t, <1>u DEF Typed, SecretsTypeOK, PoolsTypeOK, Crash
<1>2. PcFits' /\ OneAtATime' /\ PutIsPrivate' /\ PutStores' /\ DeleteIsLate'
  BY <1>m DEF PcFits, OneAtATime, PutIsPrivate, PutStores, Putting, DeleteIsLate
<1>3. RefIsStored'
  BY <1>t, <1>u DEF RefIsStored, RefOf
<1>4. KeyIsSettled' /\ SecretIsOwned'
  BY <1>m, <1>u DEF SecretInv, KeyIsSettled, SecretIsOwned, NoFault
<1> QED BY <1>1, <1>2, <1>3, <1>4 DEF SecretInv, StoredInv

LEMMA NextSecret == SecretInv /\ [PoolsNext]_poolsAll => SecretInv'
<1> SUFFICES ASSUME SecretInv, [PoolsNext]_poolsAll PROVE SecretInv'
  OBVIOUS
<1>t. PoolsTypeOK
  BY Opened
<1>1. CASE SecretsNext /\ UNCHANGED poolVars
  <2> SUFFICES ASSUME NEW c \in Caller,
                      \/ \E o \in Owner :
                           \/ createServer(c, o) \/ createDBConnection(c, o) \/ createIntegration(c, o)
                           \/ ServerCommand(c, o) \/ ServerFiles(c, o) \/ GitRequest(c, o)
                           \/ deleteServer(c, o) \/ deleteDBConnection(c, o) \/ deleteIntegration(c, o)
                      \/ Put(c) \/ InsertSecret(c) \/ CreateRow(c) \/ loadOrCreateKey(c)
                      \/ Truncate(c) \/ WriteKey(c) \/ Lookup(c) \/ Decrypt(c) \/ Act(c)
                      \/ DeleteRow(c) \/ ForgetItem(c) \/ ForgetRow(c)
               PROVE  SecretInv'
    BY <1>1 DEF SecretsNext
  <2>1. ASSUME NEW o \in Owner, createServer(c, o) \/ createDBConnection(c, o) \/ createIntegration(c, o)
        PROVE  SecretInv'
    <3>1. BeginCreate(c, o, TRUE) \/ BeginCreate(c, o, FALSE)
      BY <2>1 DEF createServer, createDBConnection, createIntegration
    <3> QED BY <1>1, <3>1, CreateBegins
  <2>2. ASSUME NEW o \in Owner, deleteServer(c, o) \/ deleteDBConnection(c, o) \/ deleteIntegration(c, o)
        PROVE  SecretInv'
    BY <1>1, <2>2, DeleteBegins
  <2>3. CASE Put(c) \/ InsertSecret(c) \/ CreateRow(c)
    BY <1>1, <2>3, PutKeeps, InsertKeeps, CreateKeeps
  <2>4. CASE loadOrCreateKey(c) \/ Truncate(c) \/ WriteKey(c)
    BY <1>1, <2>4, LoadKeeps, TruncateKeeps, WriteKeeps
  <2>5. CASE DeleteRow(c) \/ ForgetItem(c) \/ ForgetRow(c)
    BY <1>1, <2>5, DeleteKeeps, ItemKeeps, RowKeeps
  <2> QED BY <1>1, <2>1, <2>2, <2>3, <2>4, <2>5, ReaderKeeps
<1>2. ASSUME NEW c \in Caller, NEW o \in Owner, NEW d \in Database,
             \/ TestConnection(c, o) \/ ListDatabases(c, o) \/ ListTables(c, o, d)
             \/ ListColumns(c, o, d) \/ BrowseTable(c, o, d) \/ RunQuery(c, o, d)
      PROVE  SecretInv'
  <2>1. DefaultDatabase \in Database
    BY DEF DefaultDatabase, Database
  <2>2. \E e \in Database, n \in {1, 2} : Ask(c, o, e, n)
    BY <1>2, <2>1 DEF TestConnection, ListDatabases, ListTables, ListColumns, BrowseTable, RunQuery
  <2> QED BY <2>2, AskKeeps
<1>3. ASSUME NEW c \in Caller, GetConn(c) \/ Look(c) \/ Dial(c) \/ Store(c) \/ Query(c) \/ Evict(c)
      PROVE  SecretInv'
  BY <1>3, PoolStepKeeps
<1>4. CASE CloseAll
  <2>1. PoolsTypeOK'
    BY <1>4, <1>t, DropType DEF CloseAll
  <2> QED BY <1>4, <2>1, StoreStutters DEF CloseAll
<1>5. CASE Crash
  BY <1>5, CrashKeeps
<1>6. CASE UNCHANGED poolsAll
  <2>1. PoolsTypeOK'
    BY <1>6, <1>t DEF poolsAll, poolVars, PoolsTypeOK
  <2> QED BY <1>6, <2>1, StoreStutters DEF poolsAll
<1>7. DefaultDatabase \in Database
  BY DEF DefaultDatabase, Database
<1> QED BY <1>1, <1>2, <1>3, <1>4, <1>5, <1>6, <1>7 DEF PoolsNext

LEMMA Stored == PoolsSpec => []SecretInv
BY InitSecret, NextSecret, PTL DEF PoolsSpec

\* A row that refers to a secret has it, in the table and in the keychain, whatever
\* overlaps, fails or dies: the create handlers store the secret before the row and
\* the delete handlers delete it after.
THEOREM RefIsStoredTheorem == PoolsSpec => []RefIsStored
<1>1. SecretInv => RefIsStored
  BY DEF SecretInv, StoredInv
<1> QED BY <1>1, Stored, PTL

\* Unless the first use overlaps another request or dies, or a good key file cannot
\* be read, loadOrCreateKey never replaces a key that encrypted a row's secret.
THEOREM BlobsStayReadableTheorem == PoolsSpec => []BlobsStayReadable
<1>1. SecretInv => BlobsStayReadable
  BY DEF SecretInv, KeyIsSettled, BlobsStayReadable
<1> QED BY <1>1, Stored, PTL

\* Without a crash or a failing statement, the create and delete handlers leave no
\* secret without its row and no keychain item without its secret, however many
\* requests overlapped.
THEOREM NothingOrphanedTheorem == PoolsSpec => []NothingOrphaned
<1>1. SecretInv => NothingOrphaned
  <2>1. Quiet => \A c \in Caller : ~Keeps(c) /\ ~Stores(c)
    BY DEF Quiet, At, Keeps, Stores, Forgetting
  <2> QED BY <2>1 DEF SecretInv, SecretIsOwned, NoFault, NothingOrphaned
<1> QED BY <1>1, Stored, PTL

-----------------------------------------------------------------------------
(* The pools                                                                  *)

Opening(c) ==
  /\ loc[c].op = "get" /\ KindOf[loc[c].o] = "connection"
  /\ loc[c].pc \in {"look", "lookup", "loadKey", "truncate", "writeKey", "decrypt", "ready", "store"}
Deleting(c, o) == loc[c].pc \in {"forget", "forgetRow", "evict"} /\ loc[c].op = "delete" /\ loc[c].o = o
Stray(c, p)    == loc[c].pc = "store" /\ loc[c].pool = p

\* No pool is in two places: in the table it is under one key, and a request that is
\* about to store one is its only holder.
PoolsAreApart ==
  /\ open \subseteq 1 .. made
  /\ \A k \in PoolKey : pools[k] # 0 => pools[k] \in open /\ KindOf[k[1]] = "connection"
  /\ \A k \in PoolKey, m \in PoolKey : pools[k] # 0 /\ pools[k] = pools[m] => k = m
  /\ \A c \in Caller : loc[c].pc = "store" => loc[c].pool \in open /\ \A k \in PoolKey : pools[k] # loc[c].pool
  /\ \A c \in Caller, e \in Caller : loc[c].pc = "store" /\ Stray(e, loc[c].pool) => c = e

\* One request at a time: while a pool is opened its row stays and its place in the
\* table stays free, and an open pool is that request's, or in the table under a row
\* that is there or whose deletion has yet to evict it.
PoolsAreKept ==
  "overlap" \notin faults =>
    /\ \A c \in Caller : Opening(c) => There(loc[c].o) /\ (loc[c].pc # "look" => pools[KeyOf(c)] = 0)
    /\ \A p \in open : \/ \E k \in PoolKey : pools[k] = p /\ (There(k[1]) \/ \E c \in Caller : Deleting(c, k[1]))
                       \/ \E c \in Caller : Stray(c, p)

PoolInv == PoolsAreApart /\ PoolsAreKept

LEMMA InitPool == SecretsInit /\ PoolsInit => PoolInv
BY IdleFacts DEF SecretsInit, PoolsInit, PoolInv, PoolsAreApart, PoolsAreKept, Opening

\* What a step of the handlers in Secrets means to the pools: it neither opens nor
\* stores one, and a row goes only under a deletion that is to evict its pools.
Aside(c) ==
  /\ Others(c) /\ UNCHANGED faults
  /\ loc[c].pc # "store" /\ loc'[c].pc # "store"
  /\ \A o \in Owner : KindOf[o] = "connection" /\ There(o) => There(o)' \/ Deleting(c, o)'
  /\ \A o \in Owner : KindOf[o] = "connection" /\ Deleting(c, o) => Deleting(c, o)'
  /\ Opening(c)' => /\ Opening(c) /\ loc[c].pc # "look" /\ UNCHANGED row
                    /\ loc'[c].o = loc[c].o /\ loc'[c].db = loc[c].db

LEMMA AsideKeeps ==
  ASSUME SecretInv, SecretInv', PoolInv, NEW c \in Caller, Aside(c), UNCHANGED poolVars
  PROVE  PoolInv'
<1>u. UNCHANGED <<pools, open, made, faults>>
  BY DEF poolVars, Aside
<1>0. \A e \in Caller : loc[e].pc = "store" \/ loc'[e].pc = "store" => loc'[e] = loc[e]
  BY DEF Aside, Others
<1>1. PoolsAreApart'
  BY <1>0, <1>u DEF PoolInv, PoolsAreApart, Stray
<1>2. PoolsAreKept'
  <2> SUFFICES ASSUME "overlap" \notin faults PROVE PoolsAreKept'
    BY <1>u DEF PoolsAreKept
  <2>a. /\ \A e \in Caller : Opening(e) => There(loc[e].o) /\ (loc[e].pc # "look" => pools[KeyOf(e)] = 0)
        /\ \A p \in open :
             \/ \E k \in PoolKey : pools[k] = p /\ (There(k[1]) \/ \E e \in Caller : Deleting(e, k[1]))
             \/ \E e \in Caller : Stray(e, p)
    BY DEF PoolInv, PoolsAreKept
  <2>1. ASSUME NEW e \in Caller, Opening(e)'
        PROVE  (There(loc[e].o) /\ (loc[e].pc # "look" => pools[KeyOf(e)] = 0))'
    <3>1. CASE e = c
      <4>1. Opening(c)'
        BY <2>1, <3>1
      <4>2. /\ Opening(c) /\ loc[c].pc # "look" /\ UNCHANGED row
            /\ loc'[c].o = loc[c].o /\ loc'[c].db = loc[c].db
        BY <4>1 DEF Aside
      <4>3. There(loc[c].o) /\ pools[KeyOf(c)] = 0
        BY <2>a, <4>2
      <4> QED BY <1>u, <3>1, <4>2, <4>3 DEF KeyOf, There
    <3>2. CASE e # c
      <4>1. loc'[e] = loc[e] /\ Opening(e) /\ loc[e].pc # "idle"
        BY <2>1, <3>2 DEF Aside, Others, Opening
      <4>2. loc[c].pc = "idle" /\ loc'[c].pc = "idle"
        <5>1. OneAtATime /\ OneAtATime'
          BY DEF SecretInv, StoredInv
        <5> QED BY <3>2, <4>1, <5>1 DEF OneAtATime, Aside
      <4>3. loc[e].o \in Owner /\ KindOf[loc[e].o] = "connection"
        BY <4>1 DEF SecretInv, StoredInv, PcFits, Opening
      <4> QED BY <1>u, <2>a, <4>1, <4>2, <4>3 DEF Aside, Deleting, KeyOf
    <3> QED BY <3>1, <3>2
  <2>2. ASSUME NEW p \in open
        PROVE  (\/ \E k \in PoolKey : pools[k] = p /\ (There(k[1]) \/ \E e \in Caller : Deleting(e, k[1]))
                \/ \E e \in Caller : Stray(e, p))'
    <3>1. CASE \E e \in Caller : Stray(e, p)
      BY <1>0, <3>1 DEF Stray
    <3>2. ASSUME NEW k \in PoolKey, pools[k] = p, There(k[1]) \/ \E e \in Caller : Deleting(e, k[1])
          PROVE  (There(k[1]) \/ \E e \in Caller : Deleting(e, k[1]))'
      <4>1. k[1] \in Owner /\ KindOf[k[1]] = "connection"
        BY <3>2 DEF PoolKey, PoolInv, PoolsAreApart
      <4>2. ASSUME NEW e \in Caller, Deleting(e, k[1]) PROVE \E x \in Caller : Deleting(x, k[1])'
        BY <4>1, <4>2 DEF Aside, Others, Deleting
      <4> QED BY <3>2, <4>1, <4>2 DEF Aside
    <3> QED BY <1>u, <2>a, <3>1, <3>2
  <2> QED BY <1>u, <2>1, <2>2 DEF PoolsAreKept
<1> QED BY <1>1, <1>2 DEF PoolInv

LEMMA SecretsAside ==
  ASSUME SecretInv, NEW c \in Caller,
         \/ \E o \in Owner :
              \/ createServer(c, o) \/ createDBConnection(c, o) \/ createIntegration(c, o)
              \/ ServerCommand(c, o) \/ ServerFiles(c, o) \/ GitRequest(c, o)
              \/ deleteServer(c, o) \/ deleteDBConnection(c, o) \/ deleteIntegration(c, o)
         \/ Put(c) \/ InsertSecret(c) \/ CreateRow(c) \/ loadOrCreateKey(c) \/ Truncate(c) \/ WriteKey(c)
         \/ Lookup(c) \/ Decrypt(c) \/ Act(c) \/ DeleteRow(c) \/ ForgetItem(c) \/ ForgetRow(c)
  PROVE  Aside(c)
<1>t. /\ loc \in [Caller -> LocRec] /\ loc[c] \in LocRec /\ SecretsTypeOK /\ PcFits /\ DeleteIsLate /\ PutIsPrivate
  BY Opened
<1>d. ASSUME Done(c), UNCHANGED <<row, faults>>, loc[c].pc = "deleteRow"
      PROVE  Aside(c)
  BY <1>d, <1>t, DoneMoves DEF Aside, Opening, Deleting, There
<1>1. ASSUME NEW o \in Owner, createServer(c, o) \/ createDBConnection(c, o) \/ createIntegration(c, o)
      PROVE  Aside(c)
  <2>1. PICK secret \in BOOLEAN : BeginCreate(c, o, secret)
    BY <1>1 DEF createServer, createDBConnection, createIntegration
  <2>2. /\ Others(c) /\ UNCHANGED faults /\ loc[c].pc = "idle" /\ row' = [row EXCEPT ![o] = "used"]
          /\ row[o] = "new"
        /\ loc'[c].op = "put" /\ loc'[c].pc \in {"put", "create"}
    BY <1>t, <2>1 DEF BeginCreate, Arrive, At, Others, Idle
  <2> QED BY <1>t, <2>2 DEF Aside, Opening, Deleting, There, SecretsTypeOK
<1>2. ASSUME NEW o \in Owner, ServerCommand(c, o) \/ ServerFiles(c, o) \/ GitRequest(c, o)
      PROVE  Aside(c)
  <2>1. Arrive(c, Fetch(o)) /\ KindOf[o] # "connection" /\ UNCHANGED <<row, faults>>
    BY <1>2 DEF ServerCommand, ServerFiles, GitRequest, githubClientFor, store
  <2>2. /\ Others(c) /\ loc[c].pc = "idle" /\ loc'[c].op = "get" /\ loc'[c].o = o
          /\ loc'[c].pc \in {"lookup", "ready"}
    <3>1. Fetch(o) \in LocRec /\ Fetch(o).pc \in {"lookup", "ready"} /\ Fetch(o).op = "get" /\ Fetch(o).o = o
      BY FetchType
    <3> HIDE DEF Fetch
    <3> QED BY <1>t, <2>1, <3>1, ArriveMoves
  <2> QED BY <1>t, <2>1, <2>2 DEF Aside, Opening, Deleting, There
<1>3. ASSUME NEW o \in Owner, deleteServer(c, o) \/ deleteDBConnection(c, o) \/ deleteIntegration(c, o)
      PROVE  Aside(c)
  <2>1. PICK ref \in BOOLEAN : BeginDelete(c, o, ref)
    BY <1>3 DEF deleteServer, deleteDBConnection, deleteIntegration, NotRead, RefOf
  <2>2. /\ Others(c) /\ UNCHANGED <<row, faults>> /\ loc[c].pc = "idle"
        /\ loc'[c].op = "delete" /\ loc'[c].pc = "deleteRow"
    BY <1>t, <2>1 DEF BeginDelete, Arrive, At, Others, Idle, store
  <2> QED BY <1>t, <2>2 DEF Aside, Opening, Deleting, There
\* The steps of a creation, and those that are over.
<1>4. ASSUME Put(c) \/ InsertSecret(c) PROVE Aside(c)
  <2>1. /\ loc[c].op = "put" /\ loc[c].pc \in {"put", "insert"} /\ UNCHANGED <<row, faults>>
    BY <1>4, <1>t DEF Put, InsertSecret, At, PcFits, DeletePlace, GetPlace
  <2>2. Others(c) /\ (loc'[c].pc = "idle" \/ (loc'[c].op = "put"
          /\ loc'[c].pc \in {"insert", "loadKey", "create"}))
    <3>1. CASE Put(c)
      BY <1>t, <2>1, <3>1 DEF Put, Others, LocRec
    <3>2. CASE InsertSecret(c)
      <4>1. Goto(c, "create") \/ Done(c)
        BY <3>2 DEF InsertSecret
      <4> QED BY <1>t, <2>1, <4>1, DoneMoves, GotoMoves, PlacesFacts
    <3> QED BY <1>4, <3>1, <3>2
  <2> QED BY <1>t, <2>1, <2>2 DEF Aside, Opening, Deleting, There
<1>5. ASSUME CreateRow(c) PROVE Aside(c)
  <2>1. loc[c].op = "put" /\ loc[c].pc = "create" /\ row[loc[c].o] = "used" /\ UNCHANGED faults
    BY <1>5, <1>t DEF CreateRow, At, PcFits, DeletePlace, GetPlace, PutIsPrivate, Putting
  <2>2. Others(c) /\ (loc'[c].pc = "idle" \/ (loc'[c].op = "put" /\ loc'[c].pc = "forget"))
    BY <1>5, <1>t, <2>1, DoneMoves, GotoMoves, PlacesFacts DEF CreateRow
  <2>3. \A o \in Owner : There(o) => There(o)'
    BY <1>5, <1>t, <2>1 DEF CreateRow, There, SecretsTypeOK
  <2> QED BY <1>t, <2>1, <2>2, <2>3 DEF Aside, Opening, Deleting
<1>6. ASSUME loadOrCreateKey(c) \/ Truncate(c) \/ WriteKey(c) PROVE Aside(c)
  <2>1. /\ loc[c].op \in {"put", "get"} /\ loc[c].pc \in {"loadKey", "truncate", "writeKey"}
          /\ UNCHANGED <<row, faults>>
    BY <1>6, <1>t DEF loadOrCreateKey, Truncate, WriteKey, At, PcFits, DeletePlace
  <2>2. /\ Others(c)
        /\ \/ loc'[c].pc = "idle"
           \/ /\ loc'[c].op = loc[c].op /\ loc'[c].o = loc[c].o /\ loc'[c].db = loc[c].db
              /\ loc'[c].pc \in {"truncate", "writeKey", "insert", "decrypt"}
    <3>1. AfterKey(c) \in {"insert", "decrypt"}
      BY DEF AfterKey
    <3>2. CASE loadOrCreateKey(c)
      BY <1>t, <3>1, <3>2, DoneMoves DEF loadOrCreateKey, Others, LocRec
    <3>3. CASE Truncate(c) \/ WriteKey(c)
      BY <1>t, <3>1, <3>3, DoneMoves, GotoMoves, PlacesFacts DEF Truncate, WriteKey
    <3> QED BY <1>6, <3>2, <3>3
  <2> QED BY <1>t, <2>1, <2>2 DEF Aside, Opening, Deleting, There
<1>7. ASSUME Lookup(c) \/ Decrypt(c) \/ Act(c) PROVE Aside(c)
  <2>1. /\ loc[c].op = "get" /\ loc[c].pc \in {"lookup", "decrypt", "ready"} /\ UNCHANGED <<row, faults>>
    BY <1>7, <1>t DEF Lookup, Decrypt, Act, At, PcFits, PutPlace, DeletePlace, store
  <2>2. /\ Others(c)
        /\ \/ loc'[c].pc = "idle"
           \/ /\ loc'[c].op = loc[c].op /\ loc'[c].o = loc[c].o /\ loc'[c].db = loc[c].db
              /\ loc'[c].pc \in {"loadKey", "ready"}
    <3>1. CASE loc' = [loc EXCEPT ![c].pc = "loadKey", ![c].blob = sec[loc[c].o].key]
      BY <1>t, <3>1 DEF Others, LocRec
    <3>2. CASE Goto(c, "ready") \/ Done(c)
      BY <1>t, <3>2, DoneMoves, GotoMoves, PlacesFacts
    <3> QED BY <1>7, <3>1, <3>2 DEF Lookup, Decrypt, Act
  <2> QED BY <1>t, <2>1, <2>2 DEF Aside, Opening, Deleting, There
\* The steps of a deletion.
<1>8. ASSUME DeleteRow(c) PROVE Aside(c)
  <2>1. loc[c].op = "delete" /\ loc[c].pc = "deleteRow" /\ loc[c].o \in Owner /\ UNCHANGED faults
    BY <1>8, <1>t DEF DeleteRow, At, PcFits, PutPlace, GetPlace
  <2>2. CASE Done(c) /\ UNCHANGED row
    BY <1>d, <2>1, <2>2 DEF Deleting
  <2>3. CASE /\ row' = [row EXCEPT ![loc[c].o] = "gone"]
             /\ IF loc[c].ref THEN Goto(c, "forget") ELSE AfterForget(c)
    <3>1. /\ Others(c)
          /\ \/ loc'[c].pc = "idle" /\ KindOf[loc[c].o] # "connection"
             \/ loc'[c].op = "delete" /\ loc'[c].o = loc[c].o /\ loc'[c].pc \in {"forget", "evict"}
      BY <1>t, <2>1, <2>3, DoneMoves, GotoMoves, PlacesFacts DEF AfterForget
    <3> QED BY <1>t, <2>1, <2>3, <3>1 DEF Aside, Opening, Deleting, There, SecretsTypeOK
  <2> QED BY <1>8, <2>2, <2>3 DEF DeleteRow
<1>9. ASSUME ForgetItem(c) \/ ForgetRow(c) PROVE Aside(c)
  <2>1. /\ loc[c].op \in {"put", "delete"} /\ loc[c].pc \in {"forget", "forgetRow"} /\ UNCHANGED <<row, faults>>
    BY <1>9, <1>t DEF ForgetItem, ForgetRow, At, PcFits, GetPlace
  <2>2. /\ Others(c)
        /\ \/ loc'[c].pc = "idle" /\ ~(loc[c].op = "delete" /\ KindOf[loc[c].o] = "connection")
           \/ loc'[c].op = loc[c].op /\ loc'[c].o = loc[c].o /\ loc'[c].pc \in {"forgetRow", "evict"}
    BY <1>9, <1>t, <2>1, DoneMoves, GotoMoves, PlacesFacts DEF ForgetItem, ForgetRow, AfterForget
  <2> QED BY <1>t, <2>1, <2>2 DEF Aside, Opening, Deleting, There
<1> QED BY <1>1, <1>2, <1>3, <1>4, <1>5, <1>6, <1>7, <1>8, <1>9

LEMMA PoolFields ==
  ASSUME SecretInv, NEW c \in Caller, loc[c].pc \in {"getConn", "look", "ask", "store"}
  PROVE  loc[c].op = "get" /\ loc[c].o \in Owner /\ KindOf[loc[c].o] = "connection" /\ KeyOf(c) \in PoolKey
BY DEF SecretInv, StoredInv, PcFits, PutPlace, DeletePlace, HasDatabase, PoolPlace, KeyOf, PoolKey

\* A request that leaves the pools alone and takes no pool to store.
LEMMA PoolsStay ==
  ASSUME SecretInv, SecretInv', PoolInv, NEW c \in Caller, Others(c), UNCHANGED <<row, faults, poolVars>>,
         loc[c].pc # "store", loc'[c].pc # "store",
         \A o \in Owner : ~Deleting(c, o),
         Opening(c)' /\ "overlap" \notin faults =>
           There(loc'[c].o) /\ (loc'[c].pc # "look" => pools[KeyOf(c)'] = 0)
  PROVE  PoolInv'
<1>u. UNCHANGED <<pools, open, made, faults, row>>
  BY DEF poolVars
<1>0. \A e \in Caller : loc[e].pc = "store" \/ loc'[e].pc = "store" => loc'[e] = loc[e]
  BY DEF Others
<1>1. PoolsAreApart'
  BY <1>0, <1>u DEF PoolInv, PoolsAreApart, Stray
<1>2. \A e \in Caller : Opening(e)' => (There(loc[e].o) /\ (loc[e].pc # "look" => pools[KeyOf(e)] = 0))'
                        \/ "overlap" \in faults
  <2> SUFFICES ASSUME NEW e \in Caller, Opening(e)', "overlap" \notin faults
               PROVE  (There(loc[e].o) /\ (loc[e].pc # "look" => pools[KeyOf(e)] = 0))'
    OBVIOUS
  <2>1. CASE e = c
    <3>1. Opening(c)'
      BY <2>1
    <3>2. There(loc'[c].o) /\ (loc'[c].pc # "look" => pools[KeyOf(c)'] = 0)
      BY <3>1
    <3> QED BY <1>u, <2>1, <3>2 DEF There, KeyOf
  <2>2. CASE e # c
    <3>1. loc'[e] = loc[e] /\ Opening(e)
      BY <2>2 DEF Others, Opening
    <3> QED BY <1>u, <3>1 DEF PoolInv, PoolsAreKept, There, KeyOf
  <2> QED BY <2>1, <2>2
<1>3. \A e \in Caller, o \in Owner : Deleting(e, o) => Deleting(e, o)'
  BY DEF Others, Deleting
<1>4. \A e \in Caller, p \in open : Stray(e, p) => Stray(e, p)'
  BY <1>0 DEF Stray
<1>5. \A k \in PoolKey : k[1] \in Owner
  BY DEF PoolKey
<1>6. PoolsAreKept'
  <2> SUFFICES ASSUME "overlap" \notin faults PROVE PoolsAreKept'
    BY <1>u DEF PoolsAreKept
  <2>1. ASSUME NEW p \in open
        PROVE  (\/ \E k \in PoolKey : pools[k] = p /\ (There(k[1]) \/ \E e \in Caller : Deleting(e, k[1]))
                \/ \E e \in Caller : Stray(e, p))'
    <3>1. \/ \E k \in PoolKey : pools[k] = p /\ (There(k[1]) \/ \E e \in Caller : Deleting(e, k[1]))
          \/ \E e \in Caller : Stray(e, p)
      BY DEF PoolInv, PoolsAreKept
    <3>2. ASSUME NEW k \in PoolKey, pools[k] = p, There(k[1]) \/ \E e \in Caller : Deleting(e, k[1])
          PROVE  (There(k[1]) \/ \E e \in Caller : Deleting(e, k[1]))'
      BY <1>3, <1>5, <1>u, <3>2 DEF There
    <3> QED BY <1>4, <1>u, <3>1, <3>2
  <2> QED BY <1>2, <1>u, <2>1 DEF PoolsAreKept
<1> QED BY <1>1, <1>6 DEF PoolInv

\* What a request that opens a pool knows.
LEMMA OpeningKnows ==
  ASSUME PoolInv, "overlap" \notin faults, NEW c \in Caller, Opening(c)
  PROVE  There(loc[c].o) /\ (loc[c].pc # "look" => pools[KeyOf(c)] = 0)
BY DEF PoolInv, PoolsAreKept

LEMMA ReadPoolKeeps ==
  ASSUME SecretInv, SecretInv', PoolInv, NEW c \in Caller, GetConn(c) \/ Look(c) \/ Query(c)
  PROVE  PoolInv'
<1>t. loc \in [Caller -> LocRec] /\ loc[c] \in LocRec
  BY Opened
<1>f. loc[c].op = "get" /\ loc[c].o \in Owner /\ KindOf[loc[c].o] = "connection"
  BY PoolFields DEF GetConn, Look, Query, At
<1>u. /\ UNCHANGED <<row, faults, poolVars>> /\ loc[c].pc \in {"getConn", "look", "ask"}
      /\ \A o \in Owner : ~Deleting(c, o)
  BY DEF GetConn, Look, Query, At, store, Deleting
<1>1. CASE Done(c)
  BY <1>1, <1>t, <1>u, DoneMoves, PoolsStay DEF Opening
<1>2. CASE GetConn(c) /\ ~Done(c)
  <2>1. There(loc[c].o) /\ Others(c) /\ loc'[c].pc = "look" /\ loc'[c].o = loc[c].o
    BY <1>2, <1>t DEF GetConn, Others, LocRec
  <2> QED BY <1>u, <2>1, PoolsStay
<1>3. CASE Look(c)
  <2>1. /\ Others(c) /\ loc'[c].o = loc[c].o /\ loc'[c].db = loc[c].db /\ loc[c].pc = "look"
        /\ loc'[c].pc = IF pools[KeyOf(c)] # 0 THEN "ask" ELSE IF loc[c].ref THEN "lookup" ELSE "ready"
    BY <1>3, <1>t DEF Look, At, Others, LocRec
  <2>2. Opening(c) /\ KeyOf(c)' = KeyOf(c) /\ loc'[c].pc # "store"
    BY <1>f, <2>1 DEF Opening, KeyOf
  <2>3. Opening(c)' => pools[KeyOf(c)] = 0
    BY <2>1 DEF Opening
  <2>4. "overlap" \notin faults => There(loc[c].o)
    BY <2>2, OpeningKnows
  <2> QED BY <1>u, <2>1, <2>2, <2>3, <2>4, PoolsStay
<1>4. CASE Query(c) /\ ~Done(c)
  <2>1. Others(c) /\ loc'[c].pc = "getConn"
    BY <1>4, <1>t DEF Query, Others, LocRec
  <2> QED BY <1>u, <2>1, PoolsStay DEF Opening
<1> QED BY <1>1, <1>2, <1>3, <1>4

LEMMA AskPoolKeeps ==
  ASSUME SecretInv, SecretInv', PoolInv, NEW c \in Caller, NEW o \in Owner, NEW d, NEW n, Ask(c, o, d, n)
  PROVE  PoolInv'
<1>1. loc \in [Caller -> LocRec]
  BY Opened
<1>2. /\ Others(c) /\ loc[c].pc = "idle" /\ loc'[c].pc = "getConn" /\ UNCHANGED <<row, faults, poolVars>>
  BY <1>1 DEF Ask, Arrive, At, Others, Idle, store
<1> QED BY <1>2, PoolsStay DEF Opening, Deleting

\* A pool that is opened is nobody else's; the place it is meant for is free.
LEMMA DialKeeps ==
  ASSUME SecretInv, SecretInv', PoolInv, NEW c \in Caller, Dial(c)
  PROVE  PoolInv'
<1>t. loc \in [Caller -> LocRec] /\ loc[c] \in LocRec /\ PcFits /\ PoolsTypeOK
  BY Opened
<1>f. loc[c].pc = "ready" /\ loc[c].op = "get" /\ loc[c].o \in Owner /\ KindOf[loc[c].o] = "connection"
        /\ Opening(c)
  BY <1>t DEF Dial, At, PcFits, PutPlace, DeletePlace, Opening
<1>u. UNCHANGED <<row, faults, pools>>
  BY DEF Dial, store
<1>1. CASE Done(c) /\ UNCHANGED <<open, made>>
  BY <1>1, <1>f, <1>t, <1>u, DoneMoves, PoolsStay DEF Opening, Deleting, poolVars
<1>2. CASE /\ made' = made + 1 /\ open' = open \cup {made + 1}
           /\ loc' = [loc EXCEPT ![c].pc = "store", ![c].pool = made + 1]
  <2>m. /\ Others(c) /\ loc'[c].pc = "store" /\ loc'[c].pool = made + 1
        /\ loc'[c].o = loc[c].o /\ loc'[c].db = loc[c].db
    BY <1>2, <1>t DEF Others, LocRec
  <2>1. made \in Nat /\ made + 1 \notin open /\ (\A k \in PoolKey : pools[k] # made + 1)
    BY <1>t DEF PoolsTypeOK, PoolInv, PoolsAreApart
  <2>2. PoolsAreApart'
    <3>1. open' \subseteq 1 .. made'
      BY <1>2, <2>1 DEF PoolInv, PoolsAreApart
    <3>2. /\ \A k \in PoolKey : pools'[k] # 0 => pools'[k] \in open' /\ KindOf[k[1]] = "connection"
          /\ \A k \in PoolKey, m \in PoolKey : pools'[k] # 0 /\ pools'[k] = pools'[m] => k = m
      BY <1>2, <1>u DEF PoolInv, PoolsAreApart
    <3>3. \A e \in Caller : loc'[e].pc = "store" =>
            loc'[e].pool \in open' /\ \A k \in PoolKey : pools'[k] # loc'[e].pool
      <4>1. \A e \in Caller : loc[e].pc = "store" =>
              loc[e].pool \in open' /\ \A k \in PoolKey : pools'[k] # loc[e].pool
        BY <1>2, <1>u DEF PoolInv, PoolsAreApart
      <4>2. loc'[c].pool \in open' /\ \A k \in PoolKey : pools'[k] # loc'[c].pool
        <5>1. open' = open \cup {made + 1} /\ loc'[c].pool = made + 1 /\ pools' = pools
          BY <1>2, <1>u, <2>m
        <5> QED BY <2>1, <5>1
      <4> QED BY <2>m, <4>1, <4>2 DEF Others
    <3>4. \A e \in Caller : e # c /\ loc'[e].pc = "store" => loc[e].pc = "store" /\ loc'[e].pool # made + 1
      BY <2>m, <2>1 DEF PoolInv, PoolsAreApart, Others
    <3>5. \A e \in Caller, x \in Caller : loc'[e].pc = "store" /\ Stray(x, loc[e].pool)' => e = x
      BY <2>m, <3>4 DEF PoolInv, PoolsAreApart, Others, Stray
    <3> QED BY <3>1, <3>2, <3>3, <3>5 DEF PoolsAreApart
  <2>3. ASSUME "overlap" \notin faults PROVE PoolsAreKept'
    <3>1. ASSUME NEW e \in Caller, Opening(e)'
          PROVE  (There(loc[e].o) /\ (loc[e].pc # "look" => pools[KeyOf(e)] = 0))'
      <4>1. CASE e = c
        BY <1>f, <1>u, <2>3, <2>m, <4>1, OpeningKnows DEF There, KeyOf
      <4>2. CASE e # c
        <5>1. loc'[e] = loc[e] /\ Opening(e)
          BY <2>m, <3>1, <4>2 DEF Others, Opening
        <5> QED BY <1>u, <2>3, <5>1, OpeningKnows DEF There, KeyOf
      <4> QED BY <4>1, <4>2
    <3>2. ASSUME NEW p \in open'
          PROVE  (\/ \E k \in PoolKey : pools[k] = p /\ (There(k[1]) \/ \E e \in Caller : Deleting(e, k[1]))
                  \/ \E e \in Caller : Stray(e, p))'
      <4>1. CASE p = made + 1
        BY <2>m, <4>1 DEF Stray
      <4>2. CASE p \in open
        <5>1. \A e \in Caller : Stray(e, p) => Stray(e, p)'
          BY <1>f, <2>m DEF Stray, Others
        <5>2. \A e \in Caller, o \in Owner : Deleting(e, o) => Deleting(e, o)'
          BY <1>f, <2>m DEF Deleting, Others
        <5>3. \A k \in PoolKey : k[1] \in Owner
          BY DEF PoolKey
        <5> QED BY <1>u, <2>3, <4>2, <5>1, <5>2, <5>3 DEF PoolInv, PoolsAreKept, There
      <4> QED BY <1>2, <3>2, <4>1, <4>2
    <3> QED BY <3>1, <3>2 DEF PoolsAreKept
  <2> QED BY <1>u, <2>2, <2>3 DEF PoolInv, PoolsAreKept
<1> QED BY <1>1, <1>2 DEF Dial

LEMMA StoreKeeps ==
  ASSUME SecretInv, SecretInv', PoolInv, NEW c \in Caller, Store(c)
  PROVE  PoolInv'
<1>t. loc \in [Caller -> LocRec] /\ loc[c] \in LocRec /\ PoolsTypeOK
  BY Opened
<1>f. loc[c].pc = "store" /\ loc[c].op = "get" /\ KeyOf(c) \in PoolKey /\ KindOf[loc[c].o] = "connection"
  BY PoolFields DEF Store, At
<1> DEFINE q == loc[c].pool
           x == KeyOf(c)
<1>u. UNCHANGED <<row, faults, open, made>> /\ pools' = [pools EXCEPT ![x] = q]
  BY DEF Store, store
<1>m. Others(c) /\ loc'[c].pc = "ask"
  BY <1>t, GotoMoves, PlacesFacts DEF Store
<1>p. pools'[x] = q /\ \A k \in PoolKey : k # x => pools'[k] = pools[k]
  BY <1>f, <1>t, <1>u DEF PoolsTypeOK
<1>q. q \in open /\ (\A k \in PoolKey : pools[k] # q) /\ x[1] = loc[c].o
  BY <1>f DEF PoolInv, PoolsAreApart, KeyOf
<1> HIDE DEF q, x
<1>1. PoolsAreApart'
  <2>1. \A k \in PoolKey : pools'[k] # 0 => pools'[k] \in open' /\ KindOf[k[1]] = "connection"
    BY <1>f, <1>p, <1>q, <1>u DEF PoolInv, PoolsAreApart
  <2>2. \A k \in PoolKey, m \in PoolKey : pools'[k] # 0 /\ pools'[k] = pools'[m] => k = m
    BY <1>p, <1>q DEF PoolInv, PoolsAreApart
  <2>3. \A e \in Caller : loc'[e].pc = "store" => e # c /\ loc'[e] = loc[e] /\ loc[e].pool # q
    BY <1>f, <1>m DEF PoolInv, PoolsAreApart, Others, Stray, q
  <2>4. \A e \in Caller : loc'[e].pc = "store" =>
          loc'[e].pool \in open' /\ \A k \in PoolKey : pools'[k] # loc'[e].pool
    BY <1>f, <1>p, <1>u, <2>3 DEF PoolInv, PoolsAreApart
  <2>5. \A e \in Caller, y \in Caller : loc'[e].pc = "store" /\ Stray(y, loc[e].pool)' => e = y
    BY <2>3 DEF PoolInv, PoolsAreApart, Stray
  <2> QED BY <1>u, <2>1, <2>2, <2>4, <2>5 DEF PoolInv, PoolsAreApart
<1>2. ASSUME "overlap" \notin faults PROVE PoolsAreKept'
  <2>1. Opening(c) /\ OneAtATime
    BY <1>f, Opened DEF Opening
  <2>2. There(loc[c].o) /\ pools[x] = 0
    BY <1>2, <1>f, <2>1, OpeningKnows DEF x
  <2>3. \A e \in Caller : ~Opening(e)'
    BY <1>2, <1>f, <1>m, <2>1 DEF OneAtATime, Others, Opening
  <2>4. ASSUME NEW p \in open
        PROVE  (\/ \E k \in PoolKey : pools[k] = p /\ (There(k[1]) \/ \E e \in Caller : Deleting(e, k[1]))
                \/ \E e \in Caller : Stray(e, p))'
    <3>1. CASE p = q
      BY <1>f, <1>p, <1>q, <1>u, <2>2, <3>1 DEF There, x
    <3>2. CASE p # q
      <4>1. p # 0 /\ \A e \in Caller : Stray(e, p) => Stray(e, p)'
        <5>1. p # 0
          BY <1>t DEF PoolsTypeOK
        <5> QED BY <1>m, <3>2, <5>1 DEF Stray, Others, q
      <4>2. \A e \in Caller, o \in Owner : Deleting(e, o) => Deleting(e, o)'
        BY <1>f, <1>m DEF Deleting, Others
      <4>3. \A k \in PoolKey : k[1] \in Owner /\ (pools[k] = p => pools'[k] = p)
        BY <1>p, <2>2, <4>1 DEF PoolKey
      <4>4. \/ \E k \in PoolKey : pools[k] = p /\ (There(k[1]) \/ \E e \in Caller : Deleting(e, k[1]))
            \/ \E e \in Caller : Stray(e, p)
        BY <1>2 DEF PoolInv, PoolsAreKept
      <4> QED BY <1>u, <4>1, <4>2, <4>3, <4>4 DEF There
    <3> QED BY <3>1, <3>2
  <2> QED BY <1>u, <2>3, <2>4 DEF PoolsAreKept
<1> QED BY <1>1, <1>2, <1>u DEF PoolInv, PoolsAreKept

\* Pools that are closed go from the table in the same step, so those that stay keep
\* their keys; the owner of a pool that stays is none of those whose pools were dropped.
LEMMA DropKeeps ==
  ASSUME SecretInv, PoolInv, NEW K \in SUBSET PoolKey, Drop(K), UNCHANGED <<row, faults, made>>,
         \A e \in Caller : loc'[e] = loc[e] \/ (loc'[e].pc = "idle" /\ loc[e].pc = "evict"),
         \A e \in Caller, k \in PoolKey : loc'[e] # loc[e] /\ Deleting(e, k[1]) => k \in K
  PROVE  PoolInv'
<1>t. PoolsTypeOK
  BY Opened
<1>u. /\ \A p : p \in open' <=> p \in open /\ \A k \in K : pools[k] # p
      /\ \A k \in PoolKey : pools'[k] = IF k \in K THEN 0 ELSE pools[k]
  BY DEF Drop
<1>0. \A e \in Caller : loc[e].pc = "store" \/ loc'[e].pc = "store" => loc'[e] = loc[e]
  OBVIOUS
<1>1. PoolsAreApart'
  <2>1. open' \subseteq 1 .. made'
    BY <1>u DEF PoolInv, PoolsAreApart
  <2>2. \A k \in PoolKey, m \in PoolKey : pools'[k] # 0 /\ pools'[k] = pools'[m] => k = m
    BY <1>u DEF PoolInv, PoolsAreApart
  <2>3. \A k \in PoolKey : pools'[k] # 0 => pools'[k] \in open' /\ KindOf[k[1]] = "connection"
    BY <1>u DEF PoolInv, PoolsAreApart
  <2>4. \A e \in Caller : loc'[e].pc = "store" =>
          loc'[e].pool \in open' /\ \A k \in PoolKey : pools'[k] # loc'[e].pool
    <3> SUFFICES ASSUME NEW e \in Caller, loc'[e].pc = "store"
                 PROVE  loc'[e].pool \in open' /\ \A k \in PoolKey : pools'[k] # loc'[e].pool
      OBVIOUS
    <3>1. loc'[e] = loc[e] /\ loc[e].pool \in open /\ \A k \in PoolKey : pools[k] # loc[e].pool
      BY <1>0 DEF PoolInv, PoolsAreApart
    <3>2. loc[e].pool # 0
      BY <1>t, <3>1 DEF PoolsTypeOK
    <3> QED BY <1>u, <3>1, <3>2
  <2>5. \A e \in Caller, y \in Caller : loc'[e].pc = "store" /\ Stray(y, loc[e].pool)' => e = y
    BY <1>0 DEF PoolInv, PoolsAreApart, Stray
  <2> QED BY <2>1, <2>2, <2>3, <2>4, <2>5 DEF PoolsAreApart
<1>2. ASSUME "overlap" \notin faults PROVE PoolsAreKept'
  <2>1. ASSUME NEW e \in Caller, Opening(e)'
        PROVE  (There(loc[e].o) /\ (loc[e].pc # "look" => pools[KeyOf(e)] = 0))'
    <3>1. loc'[e] = loc[e] /\ Opening(e)
      BY <2>1 DEF Opening
    <3>2. KeyOf(e) \in PoolKey
      BY <3>1, Opened DEF PcFits, PutPlace, DeletePlace, HasDatabase, Opening, KeyOf, PoolKey
    <3>3. There(loc[e].o) /\ (loc[e].pc # "look" => pools[KeyOf(e)] = 0)
      BY <1>2, <3>1, OpeningKnows
    <3> QED BY <1>u, <3>1, <3>2, <3>3 DEF There, KeyOf
  <2>2. ASSUME NEW p \in open'
        PROVE  (\/ \E k \in PoolKey : pools[k] = p /\ (There(k[1]) \/ \E e \in Caller : Deleting(e, k[1]))
                \/ \E e \in Caller : Stray(e, p))'
    <3>1. p \in open /\ \A k \in K : pools[k] # p
      BY <1>u, <2>2
    <3>2. CASE \E e \in Caller : Stray(e, p)
      BY <1>0, <3>2 DEF Stray
    <3>3. ASSUME NEW k \in PoolKey, pools[k] = p, There(k[1]) \/ \E e \in Caller : Deleting(e, k[1])
          PROVE  \E m \in PoolKey : (pools[m] = p /\ (There(m[1]) \/ \E e \in Caller : Deleting(e, m[1])))'
      <4>1. k \notin K /\ pools'[k] = p
        BY <1>u, <3>1, <3>3
      <4>2. CASE There(k[1])
        BY <4>1, <4>2 DEF There
      <4>3. ASSUME NEW e \in Caller, Deleting(e, k[1]) PROVE Deleting(e, k[1])'
        BY <4>1, <4>3 DEF Deleting
      <4> QED BY <3>3, <4>1, <4>2, <4>3
    <3> QED BY <1>2, <3>1, <3>2, <3>3 DEF PoolInv, PoolsAreKept
  <2> QED BY <2>1, <2>2 DEF PoolsAreKept
<1> QED BY <1>1, <1>2 DEF PoolInv, PoolsAreKept

LEMMA EvictKeeps ==
  ASSUME SecretInv, PoolInv, NEW c \in Caller, Evict(c)
  PROVE  PoolInv'
<1>1. loc \in [Caller -> LocRec] /\ PcFits
  BY Opened
<1>2. /\ Drop({loc[c].o} \X Database) /\ UNCHANGED <<row, faults, made>> /\ loc[c].pc = "evict"
      /\ Others(c) /\ loc'[c].pc = "idle"
  BY <1>1, DoneMoves DEF Evict, At, store
<1>3. {loc[c].o} \X Database \in SUBSET PoolKey
  BY <1>1, <1>2 DEF PcFits, PoolKey
<1>4. \A e \in Caller, k \in PoolKey : loc'[e] # loc[e] /\ Deleting(e, k[1]) => k \in {loc[c].o} \X Database
  BY <1>2 DEF Others, Deleting, PoolKey
<1> QED BY <1>2, <1>3, <1>4, DropKeeps DEF Others

LEMMA DieKeeps == ASSUME Crash PROVE PoolInv'
BY IdleFacts DEF Crash, PoolInv, PoolsAreApart, PoolsAreKept, Opening

LEMMA NextPool == SecretInv /\ SecretInv' /\ PoolInv /\ [PoolsNext]_poolsAll => PoolInv'
<1> SUFFICES ASSUME SecretInv, SecretInv', PoolInv, [PoolsNext]_poolsAll PROVE PoolInv'
  OBVIOUS
<1>1. CASE SecretsNext /\ UNCHANGED poolVars
  <2>1. \E c \in Caller : Aside(c)
    BY <1>1, SecretsAside DEF SecretsNext
  <2> QED BY <1>1, <2>1, AsideKeeps
<1>2. ASSUME NEW c \in Caller, NEW o \in Owner, NEW d \in Database,
             \/ TestConnection(c, o) \/ ListDatabases(c, o) \/ ListTables(c, o, d)
             \/ ListColumns(c, o, d) \/ BrowseTable(c, o, d) \/ RunQuery(c, o, d)
      PROVE  PoolInv'
  BY <1>2, AskPoolKeeps DEF TestConnection, ListDatabases, ListTables, ListColumns, BrowseTable, RunQuery
<1>3. ASSUME NEW c \in Caller, GetConn(c) \/ Look(c) \/ Query(c) PROVE PoolInv'
  BY <1>3, ReadPoolKeeps
<1>4. ASSUME NEW c \in Caller, Dial(c) \/ Store(c) \/ Evict(c) PROVE PoolInv'
  BY <1>4, DialKeeps, StoreKeeps, EvictKeeps
<1>5. CASE CloseAll
  <2>1. UNCHANGED <<row, loc, faults, made>> /\ Drop(PoolKey) /\ PoolKey \in SUBSET PoolKey
    BY <1>5 DEF CloseAll, store
  <2> QED BY <2>1, DropKeeps
<1>6. CASE Crash
  BY <1>6, DieKeeps
<1>7. CASE UNCHANGED poolsAll
  BY <1>7 DEF poolsAll, poolVars, store, PoolInv, PoolsAreApart, PoolsAreKept, Opening, Deleting, Stray, There,
              KeyOf
<1>8. DefaultDatabase \in Database
  BY DEF DefaultDatabase, Database
<1> QED BY <1>1, <1>2, <1>3, <1>4, <1>5, <1>6, <1>7, <1>8 DEF PoolsNext

\* A pool in the table of internal/providers/dbadmin is open, whatever opens,
\* evictions and shutdowns overlap; and when requests come one at a time every open
\* pool is in the table under a connection whose row is there: a deleted connection
\* leaves no pool behind, however its deletion, the dial before it or the key it
\* needed failed, and for any number of databases and pools.
THEOREM PoolsAreOwnedTheorem == PoolsSpec => []PoolsAreOwned
<1>1. PoolInv => PoolsAreOwned
  <2>1. Quiet => \A c \in Caller : ~Stray(c, loc[c].pool) /\ \A o : ~Deleting(c, o)
    BY DEF Quiet, At, Stray, Deleting
  <2>2. Quiet => \A c \in Caller : \A p : ~Stray(c, p)
    BY DEF Quiet, At, Stray
  <2> QED BY <2>1, <2>2 DEF PoolInv, PoolsAreApart, PoolsAreKept, PoolsAreOwned
<1>2. PoolsSpec => []PoolInv
  BY InitPool, NextPool, Stored, PTL DEF PoolsSpec
<1> QED BY <1>1, <1>2, PTL
=============================================================================
