-------------------------------- MODULE Secrets --------------------------------
(***************************************************************************)
(* The secret store of internal/security/secrets.go and the rows that own  *)
(* a secret: servers, database connections, integrations.  A secret is a   *)
(* row of its own plus an item of the OS keychain or, where that fails, a  *)
(* blob under the key of a local file.  The owner's row, the secret's row, *)
(* the item and the key file are written one by one, by handlers that run  *)
(* at the same time.                                                       *)
(***************************************************************************)
EXTENDS Naturals, Sequences, FiniteSets

CONSTANTS
  Caller,      \* API goroutines
  Owner,       \* IDs of owning rows; the secret's ID goes with it
  KindOf,      \* Owner -> "server", "connection" or "integration"
  MaxKey,      \* bounds the number of keys ever generated
  MaxOwners,   \* bounds the number of IDs ever given out
  FaultSets

ASSUME SecretsAssumption ==
  /\ KindOf \in [Owner -> {"server", "connection", "integration"}] 
  /\ MaxKey \in Nat \ {0} /\ MaxOwners \in Nat

\* overlap: requests run at the same time; crash: the daemon dies; db: a statement
\* fails; keychain: deleting an item fails; unreadable: a good key file cannot be
\* read at some time; firstUse: no key file yet although requests overlap or die.
ASSUME SecretsFaults ==
  FaultSets \subseteq SUBSET {"overlap", "crash", "db", "keychain", "unreadable", "firstUse"}

VARIABLES
  keyFile,  \* the key in secret.key; 0 without the file or with a torn one
  keys,     \* how many keys were generated
  item,     \* the owners with an item in the OS keychain
  sec,      \* table secrets: Owner -> [backend, key]
  row,      \* the owner's row: "new" (no such ID yet), "used" (ID given out),
            \* "plain", "secret" (with a secret_ref), "gone"
  loc,      \* each goroutine's step and local variables
  faults    \* the faults of this behaviour (never changes)

store == <<keyFile, keys, item, sec, row>>

NoSecret == [backend |-> "none", key |-> 0]
Idle     == [pc |-> "idle", op |-> "none", o |-> CHOOSE o \in Owner : TRUE, backend |-> "none", key |-> 0,
             blob |-> 0, ref |-> FALSE, db |-> 0, rounds |-> 0, pool |-> 0]

SecretsTypeOK ==
  /\ keyFile \in 0 .. MaxKey /\ keys \in 0 .. MaxKey
  /\ item \in SUBSET Owner
  /\ sec \in [Owner -> [backend : {"none", "keychain", "blob"}, key : 0 .. MaxKey]]
  /\ row \in [Owner -> {"new", "used", "plain", "secret", "gone"}]
  /\ faults \in FaultSets

SecretsInit ==
  /\ faults \in FaultSets
  /\ keyFile \in IF faults \cap {"overlap", "crash"} = {} \/ "firstUse" \in faults THEN {0, 1} ELSE {1}
  /\ keys = keyFile
  /\ item = {}
  /\ sec = [o \in Owner |-> NoSecret]
  /\ row = [o \in Owner |-> "new"]
  /\ loc = [c \in Caller |-> Idle]

At(c, l)   == loc[c].pc = l
Goto(c, l) == loc' = [loc EXCEPT ![c].pc = l]
Done(c)    == loc' = [loc EXCEPT ![c] = Idle]
Quiet      == \A c \in Caller : At(c, "idle")
There(o)   == row[o] \in {"plain", "secret"}

Arrive(c, r) ==
  /\ At(c, "idle") /\ ("overlap" \in faults \/ Quiet)
  /\ loc' = [loc EXCEPT ![c] = r]

-----------------------------------------------------------------------------
(* The three create handlers                                                  *)

\* An ID is made up; the secret, if the request carries one, is stored first.
BeginCreate(c, o, secret) ==
  /\ row[o] = "new" /\ Cardinality({q \in Owner : row[q] # "new"}) < MaxOwners
  /\ Arrive(c, [Idle EXCEPT !.pc = IF secret THEN "put" ELSE "create", !.op = "put", !.o = o])
  /\ row' = [row EXCEPT ![o] = "used"]
  /\ UNCHANGED <<keyFile, keys, item, sec, faults>>

createServer(c, o)       == KindOf[o] = "server" /\ \E key \in BOOLEAN : BeginCreate(c, o, key)
createDBConnection(c, o) == KindOf[o] = "connection" /\ \E password \in BOOLEAN : BeginCreate(c, o, password)
\* A token the Git host does not accept ends the request before anything is stored.
createIntegration(c, o)  == KindOf[o] = "integration" /\ BeginCreate(c, o, TRUE)

\* Put: the keychain, else the encrypted blob.
Put(c) ==
  /\ At(c, "put")
  /\ \/ item' = item \cup {loc[c].o} /\ loc' = [loc EXCEPT ![c].pc = "insert", ![c].backend = "keychain"]
     \/ loc' = [loc EXCEPT ![c].pc = "loadKey", ![c].backend = "blob"] /\ UNCHANGED item
  /\ UNCHANGED <<keyFile, keys, sec, row, faults>>

\* INSERT INTO secrets; when it fails the item is taken back, as far as that works.
InsertSecret(c) ==
  LET l == loc[c] IN
  /\ At(c, "insert")
  /\ \/ sec' = [sec EXCEPT ![l.o] = [backend |-> l.backend, key |-> l.key]] /\ Goto(c, "create") /\ UNCHANGED item
     \/ /\ "db" \in faults /\ Done(c) /\ UNCHANGED sec
        /\ item' = item \ {l.o} \/ ("keychain" \in faults /\ UNCHANGED item)
  /\ UNCHANGED <<keyFile, keys, row, faults>>

CreateKeepsSecret(c) ==                    \* mutant of CreateRow
  LET l == loc[c] IN
  /\ At(c, "create")
  /\ \/ row' = [row EXCEPT ![l.o] = IF l.backend = "none" THEN "plain" ELSE "secret"]
     \/ UNCHANGED row
  /\ Done(c)
  /\ UNCHANGED <<keyFile, keys, item, sec, faults>>

\* The owner's row; a request that does not validate fails here, and its secret is
\* deleted again.
CreateRow(c) ==
  LET l == loc[c] IN
  /\ At(c, "create")
  /\ \/ row' = [row EXCEPT ![l.o] = IF l.backend = "none" THEN "plain" ELSE "secret"] /\ Done(c)
     \/ /\ IF l.backend = "none" THEN Done(c) ELSE Goto(c, "forget")
        /\ UNCHANGED row
  /\ UNCHANGED <<keyFile, keys, item, sec, faults>>

-----------------------------------------------------------------------------
(* The key file                                                               *)

AfterKey(c) == IF loc[c].op = "put" THEN "insert" ELSE "decrypt"

LoadKeyAnew(c) ==                          \* mutant of loadOrCreateKey
  /\ At(c, "loadKey")
  /\ keys < MaxKey /\ keys' = keys + 1
  /\ loc' = [loc EXCEPT ![c].pc = "truncate", ![c].key = keys + 1]
  /\ UNCHANGED <<keyFile, item, sec, row, faults>>

\* A file that holds a key is used; otherwise a new key is generated, also for the
\* decryption of what an older key encrypted.
loadOrCreateKey(c) ==
  /\ At(c, "loadKey")
  /\ \/ /\ keyFile # 0
        /\ loc' = [loc EXCEPT ![c].pc = AfterKey(c), ![c].key = keyFile]
        /\ UNCHANGED keys
     \/ /\ keyFile = 0 \/ "unreadable" \in faults
        /\ \/ /\ keys < MaxKey /\ keys' = keys + 1
              /\ loc' = [loc EXCEPT ![c].pc = "truncate", ![c].key = keys + 1]
           \/ Done(c) /\ UNCHANGED keys
  /\ UNCHANGED <<keyFile, item, sec, row, faults>>

\* os.WriteFile: the file is truncated, then written.
Truncate(c) ==
  /\ At(c, "truncate")
  /\ \/ keyFile' = 0 /\ Goto(c, "writeKey")
     \/ Done(c) /\ UNCHANGED keyFile
  /\ UNCHANGED <<keys, item, sec, row, faults>>

WriteKey(c) ==
  /\ At(c, "writeKey")
  /\ \/ keyFile' = loc[c].key /\ Goto(c, AfterKey(c))
     \/ keyFile' = 0 /\ Done(c)
  /\ UNCHANGED <<keys, item, sec, row, faults>>

-----------------------------------------------------------------------------
(* Reading a secret                                                           *)

\* A handler has read the owner's row and connects to what it stands for: with the
\* agent or without a password, or with the secret.
Fetch(o) == [Idle EXCEPT !.pc = IF row[o] = "secret" THEN "lookup" ELSE "ready", !.op = "get", !.o = o]

\* test, metrics and exec of a server: one connection each.
ServerCommand(c, o) ==
  /\ KindOf[o] = "server" /\ There(o)
  /\ Arrive(c, Fetch(o))
  /\ UNCHANGED <<store, faults>>

\* ... and list, read and write of its files.
ServerFiles(c, o) == ServerCommand(c, o)

githubClientFor(c, o) == There(o) /\ Arrive(c, Fetch(o))

\* The repositories, the branches and a clone.
GitRequest(c, o) ==
  /\ KindOf[o] = "integration" /\ githubClientFor(c, o)
  /\ UNCHANGED <<store, faults>>

Lookup(c) ==
  LET s == sec[loc[c].o] IN
  /\ At(c, "lookup")
  /\ \/ s.backend = "keychain" /\ loc[c].o \in item /\ Goto(c, "ready")
     \/ s.backend = "blob" /\ loc' = [loc EXCEPT ![c].pc = "loadKey", ![c].blob = s.key]
     \/ (s.backend = "none" \/ (s.backend = "keychain" /\ loc[c].o \notin item) \/ "db" \in faults) /\ Done(c)
  /\ UNCHANGED <<store, faults>>

\* gcm.Open fails under another key.
Decrypt(c) ==
  /\ At(c, "decrypt")
  /\ IF loc[c].blob = loc[c].key THEN Goto(c, "ready") ELSE Done(c)
  /\ UNCHANGED <<store, faults>>

\* The remote host or the Git host answers or does not; at most the time of the last
\* connection is recorded.
Act(c) ==
  /\ At(c, "ready") /\ KindOf[loc[c].o] # "connection"
  /\ Done(c)
  /\ UNCHANGED <<store, faults>>

-----------------------------------------------------------------------------
(* The three delete handlers                                                  *)

\* The row is read for its secret_ref.  deleteIntegration ends when that fails; the
\* other two go on and know of no secret.
BeginDelete(c, o, ref) ==
  /\ There(o)
  /\ Arrive(c, [Idle EXCEPT !.pc = "deleteRow", !.op = "delete", !.o = o, !.ref = ref])
  /\ UNCHANGED <<store, faults>>

RefOf(o) == row[o] = "secret"
NotRead  == IF "db" \in faults THEN {FALSE} ELSE {}

deleteServer(c, o)       == KindOf[o] = "server" /\ \E ref \in {RefOf(o)} \cup NotRead : BeginDelete(c, o, ref)
deleteDBConnection(c, o) == KindOf[o] = "connection" /\ \E ref \in {RefOf(o)} \cup NotRead : BeginDelete(c, o, ref)
deleteIntegration(c, o)  == KindOf[o] = "integration" /\ BeginDelete(c, o, RefOf(o))

\* What follows the secret's deletion: the pools of a connection.
AfterForget(c) == IF loc[c].op = "delete" /\ KindOf[loc[c].o] = "connection" THEN Goto(c, "evict") ELSE Done(c)

SecretFirst(c) ==                          \* mutant of DeleteRow
  LET l == loc[c] IN
  /\ At(c, "deleteRow")
  /\ \/ There(l.o) /\ sec[l.o] # NoSecret /\ sec' = [sec EXCEPT ![l.o] = NoSecret] /\ UNCHANGED <<row, loc>>
     \/ /\ There(l.o) /\ row' = [row EXCEPT ![l.o] = "gone"]
        /\ (IF l.ref THEN Goto(c, "forget") ELSE AfterForget(c)) /\ UNCHANGED sec
  /\ UNCHANGED <<keyFile, keys, item, faults>>

\* DELETE of the owner's row: refused while deployments or targets refer to it, and
\* without effect when another request was faster.
DeleteRow(c) ==
  LET l == loc[c] IN
  /\ At(c, "deleteRow")
  /\ \/ /\ There(l.o) /\ row' = [row EXCEPT ![l.o] = "gone"]
        /\ IF l.ref THEN Goto(c, "forget") ELSE AfterForget(c)
     \/ Done(c) /\ UNCHANGED row
  /\ UNCHANGED <<keyFile, keys, item, sec, faults>>

\* SecretStore.Delete, whose error the handlers ignore: the item, then the row.
ForgetItem(c) ==
  LET o == loc[c].o IN
  /\ At(c, "forget")
  /\ \/ /\ sec[o].backend # "none"
        /\ item' = item \ {o} \/ ("keychain" \in faults /\ UNCHANGED item)
        /\ Goto(c, "forgetRow")
     \/ (sec[o].backend = "none" \/ "db" \in faults) /\ AfterForget(c) /\ UNCHANGED item
  /\ UNCHANGED <<keyFile, keys, sec, row, faults>>

ForgetRow(c) ==
  /\ At(c, "forgetRow")
  /\ AfterForget(c)
  /\ sec' = [sec EXCEPT ![loc[c].o] = NoSecret] \/ ("db" \in faults /\ UNCHANGED sec)
  /\ UNCHANGED <<keyFile, keys, item, row, faults>>

SecretsNext ==
  \E c \in Caller :
    \/ \E o \in Owner : \/ createServer(c, o) \/ createDBConnection(c, o) \/ createIntegration(c, o)
                        \/ ServerCommand(c, o) \/ ServerFiles(c, o) \/ GitRequest(c, o)
                        \/ deleteServer(c, o) \/ deleteDBConnection(c, o) \/ deleteIntegration(c, o)
    \/ Put(c) \/ InsertSecret(c) \/ CreateRow(c) \/ loadOrCreateKey(c) \/ Truncate(c) \/ WriteKey(c)
    \/ Lookup(c) \/ Decrypt(c) \/ Act(c) \/ DeleteRow(c) \/ ForgetItem(c) \/ ForgetRow(c)

-----------------------------------------------------------------------------
(* Properties                                                                 *)

\* Whatever overlaps, fails or dies: a row that refers to a secret has it, in the
\* table and in the keychain.  The secret is stored before the row and deleted after.
RefIsStored ==
  \A o \in Owner : RefOf(o) => /\ sec[o].backend # "none"
                               /\ sec[o].backend = "keychain" => o \in item

\* Once the key file is there it stays as it is, so every blob of a row can be
\* decrypted: also when requests overlap or the daemon dies, and on a first use that
\* has the store to itself.
BlobsStayReadable ==
  faults \cap {"firstUse", "unreadable"} = {} =>
    \A o \in Owner : RefOf(o) /\ sec[o].backend = "blob" => sec[o].key = keyFile

\* When no request is under way and nothing failed, every secret has its owner: also
\* after creations that were refused and deletions that overlapped.
NothingOrphaned ==
  Quiet /\ faults \cap {"crash", "db", "keychain"} = {} =>
    \A o \in Owner : /\ sec[o].backend # "none" => RefOf(o)
                     /\ o \in item => sec[o].backend = "keychain"
=============================================================================
