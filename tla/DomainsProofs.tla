------------------------------ MODULE DomainsProofs ------------------------------
(***************************************************************************)
(* Theorems about the two halves of a project's domain: LocalCA for any    *)
(* number of API goroutines, certificates, domains and keys, where a       *)
(* daemon may die and a disk fill up anywhere; and DomainBinding for any   *)
(* number of requests, projects, domains, host names and ports, under      *)
(* every set of faults.  The two keep no state in common.                  *)
(***************************************************************************)
EXTENDS DomainBinding, LocalCA, TLAPS

-----------------------------------------------------------------------------
(* LocalCA                                                                    *)

CAKey  == disk[<<"key", CA>>]
CACert == disk[<<"cert", CA>>]

\* The root certificate is written after its key and never again.
RootIsWhole == CACert \in Key => CAKey = CACert

\* What a new root still has to write.
RootWrites ==
  \/ todo = <<>> /\ Loads
  \/ \E k \in Key : /\ CACert \notin Key
                    /\ \/ todo = <<Put("key", CA, k), Put("cert", CA, k)>>
                       \/ todo = <<Put("cert", CA, k)>> /\ CAKey = k

\* What signLeaf and writeMeta still have to write for certificate i.
LeafWrites(i) ==
  /\ Loads
  /\ \/ /\ disk[<<"meta", i>>] # "revoked"
        /\ \E k \in Key : /\ signer[k] = CAKey
                          /\ \/ todo = <<Put("key", i, k), Put("cert", i, k), Put("meta", i, "valid")>>
                             \/ todo = <<Put("cert", i, k), Put("meta", i, "valid")>>
     \/ /\ disk[<<"meta", i>>] # "revoked" /\ disk[<<"cert", i>>] # "absent"
        /\ todo = <<Put("meta", i, "valid")>>
     \/ /\ disk[<<"meta", i>>] # "absent" /\ disk[<<"cert", i>>] # "absent"
        /\ todo = <<>>

\* What Revoke still has to write.
RevokeWrites(i) ==
  \/ /\ disk[<<"cert", i>>] # "absent"
     /\ \/ todo = <<Put("key", i, "absent"), Put("meta", i, "revoked")>>
        \/ todo = <<Put("meta", i, "revoked")>> /\ disk[<<"key", i>>] = "absent"
  \/ todo = <<>>

\* The holder of the lock is at one of these places, and nobody else writes.
LockInv ==
  IF mu = Nobody THEN todo = <<>> /\ \A c \in Client : job[c].op \in {"idle", "install", "insert", "enable"}
  ELSE /\ mu \in Client
       /\ \A c \in Client : c # mu => job[c].op \in {"idle", "install", "insert", "enable"}
       /\ \/ job[mu].op \in {"ensure", "trust", "issue"} /\ job[mu].id = Nobody /\ RootWrites
          \/ job[mu].op \in {"sign", "renew"} /\ job[mu].id \in CertId /\ LeafWrites(job[mu].id)
          \/ job[mu].op = "revoke" /\ job[mu].id \in CertId /\ RevokeWrites(job[mu].id)

\* A certificate's meta file is written after the certificate, which stays.
MetaIsLast == \A i \in CertId : disk[<<"meta", i>>] # "absent" => disk[<<"cert", i>>] # "absent"

\* A goroutine that makes a certificate has its ID to itself, and the ID no row yet.
IdIsNew ==
  \A c \in Client : job[c].op \in {"sign", "insert"} =>
    /\ job[c].id \in CertId /\ certRow[job[c].id] = Nobody
    /\ \A e \in Client : e # c /\ job[e].op \in {"sign", "insert"} => job[e].id # job[c].id

\* What it has written is there, and its row once it enables SSL.
RowIsReady ==
  \A c \in Client :
    /\ job[c].op = "insert" =>
         disk[<<"cert", job[c].id>>] # "absent" /\ disk[<<"meta", job[c].id>>] # "absent"
    /\ job[c].op = "enable" => job[c].id \in CertId /\ job[c].dom \in CertDomain /\ certRow[job[c].id] = job[c].dom

CAInv ==
  /\ CATypeOK /\ RootIsWhole /\ LockInv /\ MetaIsLast /\ IdIsNew /\ RowIsReady
  /\ OneRoot /\ RevokedHasNoKey /\ RowHasFiles

USE CAAssumption

Write == [file : File, data : {"absent", "valid", "revoked"} \cup Key]
Task  == [op : {"idle", "ensure", "issue", "sign", "renew", "revoke", "trust", "install", "insert", "enable"},
          id : CertId \cup {Nobody}, dom : CertDomain \cup {Nobody}]

\* CATypeOK with its sets of records under a name.
Typed == /\ disk \in [File -> {"absent", "partial", "valid", "revoked"} \cup Key]
         /\ signer \in [Key -> Key \cup {Nobody}] /\ store \in Key \cup {Nobody}
         /\ mu \in Client \cup {Nobody} /\ todo \in Seq(Write) /\ job \in [Client -> Task]
         /\ certRow \in [CertId -> CertDomain \cup {Nobody}]
         /\ domRow \in SUBSET CertDomain /\ sslOn \in SUBSET CertDomain

LEMMA Types == (CATypeOK => Typed) /\ (Typed' => CATypeOK')
BY DEF CATypeOK, Typed, Write, Task

LEMMA InitCA == CAInit => CAInv
<1> SUFFICES ASSUME CAInit PROVE CAInv
  OBVIOUS
<1>1. CATypeOK
  BY DEF CAInit, CATypeOK, Free
<1>2. \A f \in File : disk[f] = "absent"
  BY DEF CAInit
<1>3. RootIsWhole /\ MetaIsLast /\ OneRoot /\ RevokedHasNoKey /\ RowHasFiles
  BY <1>2 DEF CAInit, RootIsWhole, CACert, CAKey, MetaIsLast, OneRoot, Loads, RevokedHasNoKey, RowHasFiles, File
<1>4. LockInv /\ IdIsNew /\ RowIsReady
  BY DEF CAInit, LockInv, IdIsNew, RowIsReady, Free
<1> QED BY <1>1, <1>3, <1>4 DEF CAInv

LEMMA PutFields ==
  ASSUME NEW kind, NEW x, NEW v
  PROVE  Put(kind, x, v).file = <<kind, x>> /\ Put(kind, x, v).data = v
BY DEF Put

\* The invariant but for the types and the lock.
FilesInv == RootIsWhole /\ MetaIsLast /\ IdIsNew /\ RowIsReady /\ OneRoot /\ RevokedHasNoKey /\ RowHasFiles

\* One file of a certificate is changed.
LEMMA LeafFile ==
  ASSUME CAInv, NEW i \in CertId, NEW kind \in {"key", "cert", "meta"},
         NEW v \in {"absent", "partial", "valid", "revoked"} \cup Key,
         disk' = [disk EXCEPT ![<<kind, i>>] = v],
         UNCHANGED <<signer, store, job, rows>>,
         kind = "key" \/ v # "absent",
         kind = "key" /\ v # "absent" => disk[<<"meta", i>>] # "revoked",
         kind = "cert" /\ v \in Key => Loads /\ signer[v] = CAKey,
         kind = "meta" => disk[<<"cert", i>>] # "absent",
         kind = "meta" /\ v = "revoked" => disk[<<"key", i>>] = "absent"
  PROVE  FilesInv'
<1>1. \A f \in File : disk'[f] = IF f = <<kind, i>> THEN v ELSE disk[f]
  BY DEF CAInv, CATypeOK, File
<1>2. CAKey' = CAKey /\ CACert' = CACert /\ Loads' = Loads
  BY <1>1 DEF CAKey, CACert, Loads, File
<1>3. RootIsWhole'
  BY <1>2 DEF CAInv, RootIsWhole
<1>4. MetaIsLast'
  BY <1>1 DEF CAInv, MetaIsLast, File
<1>5. IdIsNew'
  BY DEF CAInv, IdIsNew, rows
<1>6. RowIsReady'
  <2>1. \A j \in CertId : /\ disk[<<"cert", j>>] # "absent" => disk'[<<"cert", j>>] # "absent"
                          /\ disk[<<"meta", j>>] # "absent" => disk'[<<"meta", j>>] # "absent"
    BY <1>1 DEF File
  <2> QED BY <2>1 DEF CAInv, RowIsReady, IdIsNew, rows
<1>7. OneRoot'
  <2>1. \A j \in CertId : disk'[<<"cert", j>>] \in Key => Loads /\ signer[disk'[<<"cert", j>>]] = CAKey
    BY <1>1 DEF CAInv, OneRoot, CAKey, File
  <2> QED BY <1>2, <2>1 DEF CAInv, OneRoot, CAKey, CACert
<1>8. RevokedHasNoKey'
  BY <1>1 DEF CAInv, RevokedHasNoKey, File
<1>9. RowHasFiles'
  BY <1>1 DEF CAInv, RowHasFiles, rows, File
<1> QED BY <1>3, <1>4, <1>5, <1>6, <1>7, <1>8, <1>9 DEF FilesInv

\* One file of a root that is not there yet is changed.
LEMMA RootFile ==
  ASSUME CAInv, NEW kind \in {"key", "cert"}, NEW v \in Key \cup {"partial"}, CACert \notin Key,
         disk' = [disk EXCEPT ![<<kind, CA>>] = v],
         UNCHANGED <<signer, store, job, rows>>,
         kind = "cert" /\ v \in Key => CAKey = v
  PROVE  FilesInv'
<1>1. \A f \in File : disk'[f] = IF f = <<kind, CA>> THEN v ELSE disk[f]
  BY DEF CAInv, CATypeOK, File
<1>2. \A j \in CertId : /\ disk'[<<"key", j>>] = disk[<<"key", j>>]
                        /\ disk'[<<"cert", j>>] = disk[<<"cert", j>>]
                        /\ disk'[<<"meta", j>>] = disk[<<"meta", j>>]
  BY <1>1 DEF File
<1>3. /\ kind = "key" => CAKey' = v /\ CACert' = CACert
      /\ kind = "cert" => CACert' = v /\ CAKey' = CAKey
  BY <1>1 DEF CAKey, CACert, File
<1>4. RootIsWhole'
  BY <1>3 DEF RootIsWhole
<1>5. MetaIsLast' /\ IdIsNew' /\ RowIsReady' /\ RevokedHasNoKey' /\ RowHasFiles'
  BY <1>2 DEF CAInv, MetaIsLast, IdIsNew, RowIsReady, RevokedHasNoKey, RowHasFiles, rows
<1>6. OneRoot'
  <2>1. store = Nobody /\ \A j \in CertId : disk[<<"cert", j>>] \notin Key
    BY DEF CAInv, OneRoot, Loads, CACert
  <2> QED BY <1>2, <1>4, <2>1 DEF OneRoot, Loads, RootIsWhole, CAKey, CACert
<1> QED BY <1>4, <1>5, <1>6 DEF FilesInv

LEMMA FilesStay ==
  ASSUME CAInv, UNCHANGED <<disk, certRow, domRow, sslOn, store>>,
         \A k \in Key : signer[k] # Nobody => signer'[k] = signer[k],
         \A c \in Client : job'[c].op \in {"sign", "insert", "enable"} => job'[c] = job[c]
  PROVE  FilesInv'
<1>1. Loads' = Loads /\ CAKey' = CAKey /\ CACert' = CACert
  BY DEF Loads, CAKey, CACert
<1>2. RootIsWhole' /\ MetaIsLast' /\ RevokedHasNoKey' /\ RowHasFiles'
  BY <1>1 DEF CAInv, RootIsWhole, MetaIsLast, RevokedHasNoKey, RowHasFiles
<1>3. IdIsNew' /\ RowIsReady'
  BY DEF CAInv, IdIsNew, RowIsReady
<1>4. OneRoot'
  <2>1. \A j \in CertId : disk[<<"cert", j>>] \in Key => signer[disk[<<"cert", j>>]] # Nobody
    BY DEF CAInv, OneRoot, Loads
  <2> QED BY <1>1, <2>1 DEF CAInv, OneRoot, CAKey
<1> QED BY <1>2, <1>3, <1>4 DEF FilesInv

\* Where the holder of the lock can be while it has something to write.
LEMMA Pending ==
  ASSUME CAInv, NEW c \in Client, mu = c, todo # <<>>
  PROVE  \/ /\ job[c].op \in {"ensure", "trust", "issue"} /\ job[c].id = Nobody /\ CACert \notin Key
            /\ \E k \in Key : \/ todo = <<Put("key", CA, k), Put("cert", CA, k)>>
                              \/ todo = <<Put("cert", CA, k)>> /\ CAKey = k
         \/ /\ job[c].op \in {"sign", "renew"} /\ job[c].id \in CertId /\ todo # <<>> /\ LeafWrites(job[c].id)
         \/ /\ job[c].op = "revoke" /\ job[c].id \in CertId /\ todo # <<>> /\ RevokeWrites(job[c].id)
BY DEF CAInv, LockInv, RootWrites

LEMMA NewKeyIsNew ==
  ASSUME MayNewKey
  PROVE  NewKey \in Key /\ signer[NewKey] = Nobody
BY DEF NewKey, MayNewKey

LEMMA RootBegins ==
  ASSUME CAInv, NEW c \in Client, EnsureCA(c), disk' = disk
  PROVE  /\ todo' \in Seq(Write) /\ signer' \in [Key -> Key \cup {Nobody}]
         /\ \A k \in Key : signer[k] # Nobody => signer'[k] = signer[k]
         /\ RootWrites'
<1>1. CASE Loads
  BY <1>1 DEF EnsureCA, RootWrites, Loads, CAInv, CATypeOK, Write
<1>2. CASE ~Loads
  <2> DEFINE k == NewKey
  <2>1. /\ k \in Key /\ signer[k] = Nobody /\ signer' = [signer EXCEPT ![k] = k]
        /\ todo' = <<Put("key", CA, k), Put("cert", CA, k)>>
    BY <1>2, NewKeyIsNew DEF EnsureCA
  <2> HIDE DEF k
  <2>2. CACert' \notin Key
    BY <1>2 DEF CACert, CAInv, RootIsWhole, CAKey, Loads
  <2>3. Put("key", CA, k) \in Write /\ Put("cert", CA, k) \in Write
    BY <2>1 DEF Put, Write, File
  <2> QED BY <2>1, <2>2, <2>3 DEF RootWrites, CAInv, CATypeOK
<1> QED BY <1>1, <1>2

LEMMA LeafBegins ==
  ASSUME CAInv, NEW i \in CertId, SignLeaf(i), disk' = disk, Loads, disk[<<"meta", i>>] # "revoked"
  PROVE  /\ todo' \in Seq(Write) /\ signer' \in [Key -> Key \cup {Nobody}]
         /\ \A k \in Key : signer[k] # Nobody => signer'[k] = signer[k]
         /\ LeafWrites(i)'
<1> DEFINE k == NewKey
<1>1. /\ k \in Key /\ signer[k] = Nobody /\ signer' = [signer EXCEPT ![k] = CAKey]
      /\ todo' = <<Put("key", i, k), Put("cert", i, k), Put("meta", i, "valid")>>
  BY NewKeyIsNew DEF SignLeaf, CAKey
<1> HIDE DEF k
<1>2. CAKey \in Key /\ CAKey' = CAKey /\ Loads'
  BY DEF Loads, CAKey
<1>3. Put("key", i, k) \in Write /\ Put("cert", i, k) \in Write /\ Put("meta", i, "valid") \in Write
  BY <1>1 DEF Put, Write, File
<1>4. LeafWrites(i)'
  BY <1>1, <1>2 DEF LeafWrites, CAInv, CATypeOK, Put
<1> QED BY <1>1, <1>2, <1>3, <1>4 DEF CAInv, CATypeOK

LEMMA LockForRootKeeps ==
  ASSUME CAInv, NEW c \in Client, NEW op \in {"ensure", "trust", "issue"}, NEW d \in CertDomain \cup {Nobody},
         LockForRoot(c, op, d)
  PROVE  CAInv'
<1>0. /\ mu = Nobody /\ mu' = c /\ job' = [job EXCEPT ![c] = [op |-> op, id |-> Nobody, dom |-> d]]
      /\ EnsureCA(c) /\ UNCHANGED <<disk, store, rows>>
  BY DEF LockForRoot
<1>1. CATypeOK'
  BY <1>0, RootBegins, Types DEF CAInv, Typed, Task, rows
<1>2. LockInv'
  BY <1>0, RootBegins DEF CAInv, LockInv, CATypeOK
<1>3. FilesInv'
  BY <1>0, RootBegins, FilesStay DEF CAInv, CATypeOK, rows
<1> QED BY <1>1, <1>2, <1>3 DEF CAInv, FilesInv

LEMMA IssueKeeps ==
  ASSUME CAInv, NEW c \in Client, Issue(c)
  PROVE  CAInv'
<1>0. mu = c /\ job[c].op = "issue" /\ todo = <<>> /\ UNCHANGED <<disk, store, rows>> /\ Loads
  BY DEF Issue, CAInv, LockInv, RootWrites, Put
<1>1. CASE Unlock /\ Done(c) /\ UNCHANGED signer
  <2>1. CATypeOK'
    BY <1>0, <1>1, Types DEF CAInv, Typed, Task, Unlock, Done, Free, rows
  <2>2. LockInv'
    BY <1>0, <1>1 DEF CAInv, LockInv, CATypeOK, Unlock, Done, Free
  <2>3. FilesInv'
    BY <1>0, <1>1, FilesStay DEF CAInv, CATypeOK, rows, Done, Free
  <2> QED BY <2>1, <2>2, <2>3 DEF CAInv, FilesInv
<1>2. ASSUME NEW i \in CertId, ~Used(i), SignLeaf(i), UNCHANGED mu,
             job' = [job EXCEPT ![c].op = "sign", ![c].id = i]
      PROVE  CAInv'
  <2>1. disk[<<"cert", i>>] = "absent" /\ disk[<<"meta", i>>] = "absent" /\ certRow[i] = Nobody
    BY <1>2 DEF Used, CAInv, MetaIsLast, RowHasFiles
  <2>2. /\ job'[c].op = "sign" /\ job'[c].id = i
        /\ \A e \in Client : e # c => job'[e] = job[e] /\ job[e].id # i
    BY <1>2, Types DEF Used, CAInv, Typed, Task
  <2>3. CATypeOK'
    <3>1. [job[c] EXCEPT !.op = "sign", !.id = i] \in Task
      <4>1. job[c] \in Task
        BY Types DEF CAInv, Typed
      <4> QED BY <4>1 DEF Task
    <3>2. job' \in [Client -> Task]
      BY <1>2, <3>1, Types DEF CAInv, Typed
    <3> QED BY <1>0, <1>2, <2>1, <3>2, LeafBegins, Types DEF CAInv, Typed, rows
  <2>4. LockInv'
    BY <1>0, <1>2, <2>1, <2>2, LeafBegins DEF CAInv, LockInv, CATypeOK
  <2>5. RootIsWhole' /\ MetaIsLast' /\ OneRoot' /\ RevokedHasNoKey' /\ RowHasFiles'
    <3>1. Loads' = Loads /\ CAKey' = CAKey /\ CACert' = CACert
      BY <1>0 DEF Loads, CAKey, CACert
    <3>2. RootIsWhole' /\ MetaIsLast' /\ RevokedHasNoKey' /\ RowHasFiles'
      BY <1>0, <3>1 DEF CAInv, RootIsWhole, MetaIsLast, RevokedHasNoKey, RowHasFiles, rows
    <3>3. OneRoot'
      <4>1. \A j \in CertId : disk[<<"cert", j>>] \in Key => signer[disk[<<"cert", j>>]] # Nobody
        BY DEF CAInv, OneRoot, Loads
      <4> QED BY <1>0, <1>2, <2>1, <3>1, <4>1, LeafBegins DEF CAInv, OneRoot, CAKey
    <3> QED BY <3>2, <3>3
  <2>6. IdIsNew' /\ RowIsReady'
    BY <1>0, <2>1, <2>2 DEF CAInv, IdIsNew, RowIsReady, rows
  <2> QED BY <2>3, <2>4, <2>5, <2>6 DEF CAInv
<1>3. \/ Unlock /\ Done(c) /\ UNCHANGED signer
      \/ \E i \in CertId : /\ ~Used(i) /\ SignLeaf(i) /\ UNCHANGED mu
                           /\ job' = [job EXCEPT ![c].op = "sign", ![c].id = i]
  BY DEF Issue
<1> QED BY <1>1, <1>2, <1>3

LEMMA RenewKeeps ==
  ASSUME CAInv, NEW c \in Client, NEW i \in CertId, Renew(c, i)
  PROVE  CAInv'
<1>0. /\ mu = Nobody /\ mu' = c /\ job' = [job EXCEPT ![c] = [op |-> "renew", id |-> i, dom |-> Nobody]]
      /\ SignLeaf(i) /\ Loads /\ disk[<<"meta", i>>] = "valid" /\ UNCHANGED <<disk, store, rows>>
  BY DEF Renew
<1>1. CATypeOK'
  BY <1>0, LeafBegins, Types DEF CAInv, Typed, Task, rows
<1>2. LockInv'
  BY <1>0, LeafBegins DEF CAInv, LockInv, CATypeOK
<1>3. FilesInv'
  BY <1>0, LeafBegins, FilesStay DEF CAInv, CATypeOK, rows
<1> QED BY <1>1, <1>2, <1>3 DEF CAInv, FilesInv

LEMMA RevokeKeeps ==
  ASSUME CAInv, NEW c \in Client, NEW i \in CertId, Revoke(c, i)
  PROVE  CAInv'
<1>0. /\ mu = Nobody /\ mu' = c /\ job' = [job EXCEPT ![c] = [op |-> "revoke", id |-> i, dom |-> Nobody]]
      /\ todo' = <<Put("key", i, "absent"), Put("meta", i, "revoked")>>
      /\ disk[<<"meta", i>>] = "valid" /\ UNCHANGED <<disk, signer, store, rows>>
  BY DEF Revoke, RevokeLeaf
<1>1. CATypeOK'
  <2>1. Put("key", i, "absent") \in Write /\ Put("meta", i, "revoked") \in Write
    BY DEF Put, Write, File
  <2> QED BY <1>0, <2>1, Types DEF CAInv, Typed, Task, rows
<1>2. LockInv'
  <2>1. RevokeWrites(i)'
    BY <1>0 DEF CAInv, MetaIsLast, RevokeWrites
  <2> QED BY <1>0, <2>1 DEF CAInv, LockInv, CATypeOK
<1>3. FilesInv'
  BY <1>0, FilesStay DEF CAInv, CATypeOK, rows
<1> QED BY <1>1, <1>2, <1>3 DEF CAInv, FilesInv

LEMMA TruncateKeeps ==
  ASSUME CAInv, NEW c \in Client, Truncate(c)
  PROVE  CAInv'
<1>0. /\ mu = c /\ todo # <<>> /\ Head(todo).data # "absent"
      /\ disk' = [disk EXCEPT ![Head(todo).file] = "partial"]
      /\ UNCHANGED <<signer, store, mu, todo, job, rows>>
  BY DEF Truncate
<1>1. CATypeOK'
  BY <1>0, Types DEF CAInv, Typed, rows
<1>3. CASE /\ job[c].op \in {"ensure", "trust", "issue"} /\ job[c].id = Nobody /\ CACert \notin Key
           /\ \E k \in Key : \/ todo = <<Put("key", CA, k), Put("cert", CA, k)>>
                             \/ todo = <<Put("cert", CA, k)>> /\ CAKey = k
  <2>1. ASSUME NEW k \in Key, todo = <<Put("key", CA, k), Put("cert", CA, k)>>
        PROVE  FilesInv' /\ RootWrites'
    <3>0. Head(todo).file = <<"key", CA>>
      BY <2>1, PutFields
    <3>1. disk' = [disk EXCEPT ![<<"key", CA>>] = "partial"]
      BY <1>0, <3>0
    <3>2. FilesInv'
      BY <1>0, <1>3, <3>1, RootFile
    <3>3. CACert' \notin Key
      BY <1>3, <3>1 DEF CACert, CAInv, CATypeOK, File
    <3> QED BY <1>0, <2>1, <3>2, <3>3 DEF RootWrites, Put
  <2>2. ASSUME NEW k \in Key, todo = <<Put("cert", CA, k)>>, CAKey = k
        PROVE  FilesInv' /\ RootWrites'
    <3>0. Head(todo).file = <<"cert", CA>>
      BY <2>2, PutFields
    <3>1. disk' = [disk EXCEPT ![<<"cert", CA>>] = "partial"]
      BY <1>0, <3>0
    <3>2. FilesInv'
      BY <1>0, <1>3, <3>1, RootFile
    <3>3. CACert' \notin Key /\ CAKey' = k
      BY <2>2, <3>1 DEF CACert, CAKey, CAInv, CATypeOK, File
    <3> QED BY <1>0, <2>2, <3>2, <3>3 DEF RootWrites, Put
  <2>3. FilesInv' /\ RootWrites'
    BY <1>3, <2>1, <2>2
  <2>4. LockInv'
    BY <1>0, <1>3, <2>3 DEF CAInv, LockInv, CATypeOK
  <2> QED BY <1>1, <2>3, <2>4 DEF CAInv, FilesInv
<1>4. ASSUME NEW i \in CertId, i = job[c].id, job[c].op \in {"sign", "renew"}, LeafWrites(i) PROVE CAInv'
  <2>2. ASSUME NEW k \in Key, signer[k] = CAKey, disk[<<"meta", i>>] # "revoked",
               todo = <<Put("key", i, k), Put("cert", i, k), Put("meta", i, "valid")>>
        PROVE  FilesInv' /\ LeafWrites(i)'
    <3>0. Head(todo).file = <<"key", i>>
      BY <2>2, PutFields
    <3>1. disk' = [disk EXCEPT ![<<"key", i>>] = "partial"]
      BY <1>0, <3>0
    <3>2. CAKey' = CAKey /\ Loads' /\ disk'[<<"meta", i>>] # "revoked"
      BY <1>4, <2>2, <3>1 DEF CAKey, Loads, LeafWrites, CAInv, CATypeOK, File
    <3>3. FilesInv'
      BY <1>0, <2>2, <3>1, LeafFile
    <3> QED BY <1>0, <2>2, <3>1, <3>2, <3>3 DEF LeafWrites
  <2>3. ASSUME NEW k \in Key, signer[k] = CAKey, disk[<<"meta", i>>] # "revoked",
               todo = <<Put("cert", i, k), Put("meta", i, "valid")>>
        PROVE  FilesInv' /\ LeafWrites(i)'
    <3>0. Head(todo).file = <<"cert", i>>
      BY <2>3, PutFields
    <3>1. disk' = [disk EXCEPT ![<<"cert", i>>] = "partial"]
      BY <1>0, <3>0
    <3>2. CAKey' = CAKey /\ Loads' /\ disk'[<<"meta", i>>] # "revoked"
      BY <1>4, <2>3, <3>1 DEF CAKey, Loads, LeafWrites, CAInv, CATypeOK, File
    <3>3. FilesInv'
      BY <1>0, <2>3, <3>1, LeafFile
    <3> QED BY <1>0, <2>3, <3>1, <3>2, <3>3 DEF LeafWrites
  <2>4. ASSUME disk[<<"meta", i>>] # "revoked", disk[<<"cert", i>>] # "absent", todo = <<Put("meta", i, "valid")>>
        PROVE  FilesInv' /\ LeafWrites(i)'
    <3>0. Head(todo).file = <<"meta", i>>
      BY <2>4, PutFields
    <3>1. disk' = [disk EXCEPT ![<<"meta", i>>] = "partial"]
      BY <1>0, <3>0
    <3>2. Loads' /\ disk'[<<"meta", i>>] # "revoked" /\ disk'[<<"cert", i>>] # "absent"
      BY <1>4, <2>4, <3>1 DEF Loads, LeafWrites, CAInv, CATypeOK, File
    <3>3. FilesInv'
      BY <1>0, <2>4, <3>1, LeafFile
    <3> QED BY <1>0, <2>4, <3>1, <3>2, <3>3 DEF LeafWrites
  <2>5. FilesInv' /\ LeafWrites(i)'
    BY <1>0, <1>4, <2>2, <2>3, <2>4 DEF LeafWrites
  <2>6. LockInv'
    BY <1>0, <1>4, <2>5 DEF CAInv, LockInv, CATypeOK
  <2> QED BY <1>1, <2>5, <2>6 DEF CAInv, FilesInv
<1>5. ASSUME NEW i \in CertId, i = job[c].id, job[c].op = "revoke", RevokeWrites(i) PROVE CAInv'
  <2>1. /\ todo = <<Put("meta", i, "revoked")>> /\ disk[<<"cert", i>>] # "absent"
        /\ disk[<<"key", i>>] = "absent"
    BY <1>0, <1>5 DEF RevokeWrites, Put
  <2>0. Head(todo).file = <<"meta", i>>
    BY <2>1, PutFields
  <2>2. disk' = [disk EXCEPT ![<<"meta", i>>] = "partial"]
    BY <1>0, <2>0
  <2>3. FilesInv'
    BY <1>0, <1>5, <2>1, <2>2, LeafFile
  <2>4. disk'[<<"cert", i>>] # "absent" /\ disk'[<<"key", i>>] = "absent"
    BY <1>5, <2>1, <2>2 DEF CAInv, CATypeOK, File
  <2>5. RevokeWrites(i)'
    BY <1>0, <2>1, <2>4 DEF RevokeWrites
  <2>6. LockInv'
    BY <1>0, <1>5, <2>5 DEF CAInv, LockInv, CATypeOK
  <2> QED BY <1>1, <2>3, <2>6 DEF CAInv, FilesInv
<1> QED BY <1>0, <1>3, <1>4, <1>5, Pending

LEMMA FillKeeps ==
  ASSUME CAInv, NEW c \in Client, Fill(c)
  PROVE  CAInv'
<1>0. /\ mu = c /\ todo # <<>> /\ todo' = Tail(todo)
      /\ disk' = [disk EXCEPT ![Head(todo).file] = Head(todo).data]
      /\ UNCHANGED <<signer, store, mu, job, rows>>
  BY DEF Fill
<1>1. CATypeOK'
  <2>1. todo \in Seq(Write) /\ todo # <<>>
    BY <1>0, Types DEF CAInv, Typed
  <2>2. Head(todo) \in Write /\ Tail(todo) \in Seq(Write)
    BY <2>1
  <2>3. Head(todo).data \in {"absent", "partial", "valid", "revoked"} \cup Key
    BY <2>2 DEF Write
  <2> QED BY <1>0, <2>2, <2>3, Types DEF CAInv, Typed, rows
<1>2. CASE /\ job[c].op \in {"ensure", "trust", "issue"} /\ job[c].id = Nobody /\ CACert \notin Key
           /\ \E k \in Key : \/ todo = <<Put("key", CA, k), Put("cert", CA, k)>>
                             \/ todo = <<Put("cert", CA, k)>> /\ CAKey = k
  <2>1. ASSUME NEW k \in Key, todo = <<Put("key", CA, k), Put("cert", CA, k)>>
        PROVE  FilesInv' /\ RootWrites'
    <3>0. Head(todo).file = <<"key", CA>> /\ Head(todo).data = k /\ Tail(todo) = <<Put("cert", CA, k)>>
      BY <2>1, PutFields
    <3>1. disk' = [disk EXCEPT ![<<"key", CA>>] = k] /\ todo' = <<Put("cert", CA, k)>>
      BY <1>0, <3>0
    <3>2. FilesInv'
      BY <1>0, <1>2, <3>1, RootFile
    <3>3. CACert' \notin Key /\ CAKey' = k
      BY <1>2, <3>1 DEF CACert, CAKey, CAInv, CATypeOK, File
    <3> QED BY <3>1, <3>2, <3>3 DEF RootWrites
  <2>2. ASSUME NEW k \in Key, todo = <<Put("cert", CA, k)>>, CAKey = k
        PROVE  FilesInv' /\ RootWrites'
    <3>0. Head(todo).file = <<"cert", CA>> /\ Head(todo).data = k /\ Tail(todo) = <<>>
      BY <2>2, PutFields
    <3>1. disk' = [disk EXCEPT ![<<"cert", CA>>] = k] /\ todo' = <<>>
      BY <1>0, <3>0
    <3>2. FilesInv'
      BY <1>0, <1>2, <2>2, <3>1, RootFile
    <3>3. Loads'
      BY <2>2, <3>1 DEF Loads, CAKey, CAInv, CATypeOK, File
    <3> QED BY <3>1, <3>2, <3>3 DEF RootWrites
  <2>3. FilesInv' /\ RootWrites'
    BY <1>2, <2>1, <2>2
  <2>4. LockInv'
    BY <1>0, <1>2, <2>3 DEF CAInv, LockInv, CATypeOK
  <2> QED BY <1>1, <2>3, <2>4 DEF CAInv, FilesInv
<1>3. ASSUME NEW i \in CertId, i = job[c].id, job[c].op \in {"sign", "renew"}, LeafWrites(i) PROVE CAInv'
  <2>2. ASSUME NEW k \in Key, signer[k] = CAKey, disk[<<"meta", i>>] # "revoked",
               todo = <<Put("key", i, k), Put("cert", i, k), Put("meta", i, "valid")>>
        PROVE  FilesInv' /\ LeafWrites(i)'
    <3>0. Head(todo).file = <<"key", i>> /\ Head(todo).data = k /\ Tail(todo) = <<Put("cert", i, k), Put("meta", i, "valid")>>
      BY <2>2, PutFields
    <3>1. disk' = [disk EXCEPT ![<<"key", i>>] = k] /\ todo' = <<Put("cert", i, k), Put("meta", i, "valid")>>
      BY <1>0, <3>0
    <3>2. CAKey' = CAKey /\ Loads' /\ disk'[<<"meta", i>>] # "revoked"
      BY <1>3, <2>2, <3>1 DEF CAKey, Loads, LeafWrites, CAInv, CATypeOK, File
    <3>3. FilesInv'
      BY <1>0, <2>2, <3>1, LeafFile
    <3> QED BY <1>0, <2>2, <3>1, <3>2, <3>3 DEF LeafWrites
  <2>3. ASSUME NEW k \in Key, signer[k] = CAKey, disk[<<"meta", i>>] # "revoked",
               todo = <<Put("cert", i, k), Put("meta", i, "valid")>>
        PROVE  FilesInv' /\ LeafWrites(i)'
    <3>0. Head(todo).file = <<"cert", i>> /\ Head(todo).data = k /\ Tail(todo) = <<Put("meta", i, "valid")>>
      BY <2>3, PutFields
    <3>1. disk' = [disk EXCEPT ![<<"cert", i>>] = k] /\ todo' = <<Put("meta", i, "valid")>>
      BY <1>0, <3>0
    <3>2. Loads' /\ disk'[<<"meta", i>>] # "revoked" /\ disk'[<<"cert", i>>] # "absent"
      BY <1>3, <2>3, <3>1 DEF Loads, LeafWrites, CAInv, CATypeOK, File
    <3>3. FilesInv'
      <4>1. Loads /\ k \in {"absent", "partial", "valid", "revoked"} \cup Key /\ UNCHANGED <<signer, store, job, rows>>
        BY <1>0, <1>3 DEF LeafWrites
      <4> QED BY <2>3, <3>1, <4>1, LeafFile
    <3> QED BY <1>0, <2>3, <3>1, <3>2, <3>3 DEF LeafWrites
  <2>4. ASSUME disk[<<"meta", i>>] # "revoked", disk[<<"cert", i>>] # "absent", todo = <<Put("meta", i, "valid")>>
        PROVE  FilesInv' /\ LeafWrites(i)'
    <3>0. Head(todo).file = <<"meta", i>> /\ Head(todo).data = "valid" /\ Tail(todo) = <<>>
      BY <2>4, PutFields
    <3>1. disk' = [disk EXCEPT ![<<"meta", i>>] = "valid"] /\ todo' = <<>>
      BY <1>0, <3>0
    <3>2. Loads' /\ disk'[<<"meta", i>>] # "absent" /\ disk'[<<"cert", i>>] # "absent"
      BY <1>3, <2>4, <3>1 DEF Loads, LeafWrites, CAInv, CATypeOK, File
    <3>3. FilesInv'
      BY <1>0, <2>4, <3>1, LeafFile
    <3> QED BY <3>1, <3>2, <3>3 DEF LeafWrites
  <2>5. FilesInv' /\ LeafWrites(i)'
    BY <1>0, <1>3, <2>2, <2>3, <2>4 DEF LeafWrites
  <2>6. LockInv'
    BY <1>0, <1>3, <2>5 DEF CAInv, LockInv, CATypeOK
  <2> QED BY <1>1, <2>5, <2>6 DEF CAInv, FilesInv
<1>4. ASSUME NEW i \in CertId, i = job[c].id, job[c].op = "revoke", RevokeWrites(i) PROVE CAInv'
  <2>1. CASE todo = <<Put("key", i, "absent"), Put("meta", i, "revoked")>> /\ disk[<<"cert", i>>] # "absent"
    <3>0. Head(todo).file = <<"key", i>> /\ Head(todo).data = "absent" /\ Tail(todo) = <<Put("meta", i, "revoked")>>
      BY <2>1, PutFields
    <3>1. disk' = [disk EXCEPT ![<<"key", i>>] = "absent"] /\ todo' = <<Put("meta", i, "revoked")>>
      BY <1>0, <3>0
    <3>2. disk'[<<"cert", i>>] # "absent" /\ disk'[<<"key", i>>] = "absent"
      BY <2>1, <3>1 DEF CAInv, CATypeOK, File
    <3>3. FilesInv'
      BY <1>0, <3>1, LeafFile
    <3>4. RevokeWrites(i)'
      BY <3>1, <3>2 DEF RevokeWrites
    <3>5. LockInv'
      BY <1>0, <1>4, <3>4 DEF CAInv, LockInv, CATypeOK
    <3> QED BY <1>1, <3>3, <3>5 DEF CAInv, FilesInv
  <2>2. CASE /\ todo = <<Put("meta", i, "revoked")>> /\ disk[<<"cert", i>>] # "absent"
             /\ disk[<<"key", i>>] = "absent"
    <3>0. Head(todo).file = <<"meta", i>> /\ Head(todo).data = "revoked" /\ Tail(todo) = <<>>
      BY <2>2, PutFields
    <3>1. disk' = [disk EXCEPT ![<<"meta", i>>] = "revoked"] /\ todo' = <<>>
      BY <1>0, <3>0
    <3>3. FilesInv'
      BY <1>0, <2>2, <3>1, LeafFile
    <3>4. RevokeWrites(i)'
      BY <3>1 DEF RevokeWrites
    <3>5. LockInv'
      BY <1>0, <1>4, <3>4 DEF CAInv, LockInv, CATypeOK
    <3> QED BY <1>1, <3>3, <3>5 DEF CAInv, FilesInv
  <2> QED BY <1>0, <1>4, <2>1, <2>2 DEF RevokeWrites
<1> QED BY <1>0, <1>2, <1>3, <1>4, Pending

\* An operation that ends, in whatever way, gives up the lock and its list.
LEMMA UnlockKeeps ==
  ASSUME CAInv, NEW c \in Client, mu = c, Unlock, UNCHANGED <<disk, signer, store, rows>>,
         \/ Done(c)
         \/ Become(c, "install") /\ job[c].op = "trust"
         \/ Become(c, "insert") /\ job[c].op = "sign" /\ todo = <<>>
  PROVE  CAInv'
<1>0. UNCHANGED <<certRow, domRow, sslOn>>
  BY DEF rows
<1>1. CATypeOK'
  <2>1. job' \in [Client -> Task]
    <3>1. Free \in Task /\ [job[c] EXCEPT !.op = "install"] \in Task /\ [job[c] EXCEPT !.op = "insert"] \in Task
      BY Types DEF CAInv, Typed, Task, Free
    <3> QED BY <3>1, Types DEF CAInv, Typed, Done, Become
  <2> QED BY <1>0, <2>1, Types DEF CAInv, Typed, Unlock
<1>2. /\ job'[c].op \in {"idle", "install", "insert"}
      /\ job'[c].op = "insert" => job[c].op = "sign" /\ todo = <<>> /\ job'[c].id = job[c].id
      /\ \A e \in Client : e # c => job'[e] = job[e]
  BY Types DEF CAInv, Typed, Task, Done, Become, Free
<1>3. LockInv'
  BY <1>2 DEF CAInv, LockInv, CATypeOK, Unlock
<1>4. RootIsWhole' /\ MetaIsLast' /\ OneRoot' /\ RevokedHasNoKey' /\ RowHasFiles'
  BY <1>0 DEF CAInv, RootIsWhole, CAKey, CACert, MetaIsLast, OneRoot, Loads, RevokedHasNoKey, RowHasFiles
<1>5. IdIsNew'
  BY <1>0, <1>2 DEF CAInv, IdIsNew
<1>6. RowIsReady'
  <2>1. job'[c].op = "insert" => LeafWrites(job[c].id) /\ todo = <<>>
    BY <1>2 DEF CAInv, LockInv
  <2>2. job'[c].op = "insert" => disk[<<"cert", job[c].id>>] # "absent" /\ disk[<<"meta", job[c].id>>] # "absent"
    BY <2>1 DEF LeafWrites, Put
  <2> QED BY <1>0, <1>2, <2>2 DEF CAInv, RowIsReady
<1> QED BY <1>1, <1>3, <1>4, <1>5, <1>6 DEF CAInv

LEMMA FinishKeeps ==
  ASSUME CAInv, NEW c \in Client, WriteFails(c) \/ Finish(c)
  PROVE  CAInv'
BY UnlockKeeps DEF WriteFails, Finish

LEMMA InstallKeeps ==
  ASSUME CAInv, NEW c \in Client, Install(c)
  PROVE  CAInv'
<1>0. /\ job[c].op = "install" /\ job' = [job EXCEPT ![c] = Free] /\ Free \in Task /\ Free.op = "idle"
      /\ UNCHANGED <<signer, mu, todo, certRow, domRow, sslOn>>
  BY DEF Install, Done, rows, Free, Task
<1>1. \/ /\ CACert \in Key /\ store' = CACert
         /\ disk' = [disk EXCEPT ![<<"meta", CA>>] = "valid"]
      \/ UNCHANGED <<store, disk>>
  BY DEF Install, CACert
<1>2. \A f \in File : f # <<"meta", CA>> => disk'[f] = disk[f]
  BY <1>1 DEF CAInv, CATypeOK
<1>3. /\ \A i \in CertId : /\ disk'[<<"key", i>>] = disk[<<"key", i>>]
                           /\ disk'[<<"cert", i>>] = disk[<<"cert", i>>]
                           /\ disk'[<<"meta", i>>] = disk[<<"meta", i>>]
      /\ CAKey' = CAKey /\ CACert' = CACert /\ Loads' = Loads
  BY <1>2 DEF CAKey, CACert, Loads, File
<1>4. CATypeOK'
  BY <1>0, <1>1, Types DEF CAInv, Typed, CACert
<1>5. LockInv'
  <2>1. mu # c
    BY <1>0 DEF CAInv, LockInv
  <2>2. \A e \in Client : e # c => job'[e] = job[e]
    BY <1>0
  <2>3. RootWrites => RootWrites'
    BY <1>0, <1>3 DEF RootWrites
  <2>4. \A i \in CertId : (LeafWrites(i) => LeafWrites(i)') /\ (RevokeWrites(i) => RevokeWrites(i)')
    BY <1>0, <1>3 DEF LeafWrites, RevokeWrites
  <2> QED BY <1>0, <2>1, <2>2, <2>3, <2>4 DEF CAInv, LockInv, CATypeOK
<1>6. RootIsWhole' /\ MetaIsLast' /\ RevokedHasNoKey' /\ RowHasFiles'
  BY <1>0, <1>3 DEF CAInv, RootIsWhole, MetaIsLast, RevokedHasNoKey, RowHasFiles
<1>7. IdIsNew' /\ RowIsReady'
  <2>1. job'[c].op = "idle" /\ \A e \in Client : e # c => job'[e] = job[e]
    BY <1>0 DEF CAInv, CATypeOK
  <2>2. \A i \in CertId : /\ disk[<<"cert", i>>] # "absent" => disk'[<<"cert", i>>] # "absent"
                          /\ disk[<<"meta", i>>] # "absent" => disk'[<<"meta", i>>] # "absent"
    BY <1>3
  <2> QED BY <1>0, <2>1, <2>2 DEF CAInv, IdIsNew, RowIsReady
<1>8. OneRoot'
  BY <1>0, <1>1, <1>3 DEF CAInv, OneRoot, RootIsWhole, CAKey, CACert, Loads
<1> QED BY <1>4, <1>5, <1>6, <1>7, <1>8 DEF CAInv

\* The tables change, the files do not.
LEMMA RowsMove ==
  ASSUME CAInv, UNCHANGED <<disk, signer, store, mu, todo>>,
         \A c \in Client : \/ job'[c] = job[c]
                           \/ job[c].op \in {"insert", "enable"} /\ job'[c].op \in {"idle", "enable"}
  PROVE  LockInv' /\ RootIsWhole' /\ MetaIsLast' /\ OneRoot' /\ RevokedHasNoKey'
<1>1. RootWrites = RootWrites'
  BY DEF RootWrites, Loads, CAKey, CACert
<1>2. \A i \in CertId : LeafWrites(i) = LeafWrites(i)' /\ RevokeWrites(i) = RevokeWrites(i)'
  BY DEF LeafWrites, RevokeWrites, Loads, CAKey
<1>3. LockInv'
  BY <1>1, <1>2 DEF CAInv, LockInv
<1>4. RootIsWhole' /\ MetaIsLast' /\ OneRoot' /\ RevokedHasNoKey'
  BY DEF CAInv, RootIsWhole, CAKey, CACert, MetaIsLast, OneRoot, Loads, RevokedHasNoKey
<1> QED BY <1>3, <1>4

LEMMA InsertRowKeeps ==
  ASSUME CAInv, NEW c \in Client, InsertRow(c)
  PROVE  CAInv'
<1>0. /\ job[c].op = "insert" /\ job[c].id \in CertId /\ certRow[job[c].id] = Nobody
      /\ disk[<<"cert", job[c].id>>] # "absent" /\ disk[<<"meta", job[c].id>>] # "absent"
      /\ UNCHANGED <<disk, signer, store, mu, todo, domRow, sslOn>>
  BY DEF InsertRow, CAInv, IdIsNew, RowIsReady
<1>1. CASE job[c].dom \notin domRow
  <2>1. job' = [job EXCEPT ![c] = Free] /\ UNCHANGED certRow /\ Free \in Task /\ Free.op = "idle"
    BY <1>1 DEF InsertRow, Done, Free, Task
  <2>2. CATypeOK'
    BY <1>0, <2>1, Types DEF CAInv, Typed
  <2>3. LockInv' /\ RootIsWhole' /\ MetaIsLast' /\ OneRoot' /\ RevokedHasNoKey'
    BY <1>0, <2>1, RowsMove DEF CAInv, CATypeOK
  <2>4. IdIsNew' /\ RowIsReady' /\ RowHasFiles'
    BY <1>0, <2>1 DEF CAInv, CATypeOK, IdIsNew, RowIsReady, RowHasFiles
  <2> QED BY <2>2, <2>3, <2>4 DEF CAInv
<1>2. CASE job[c].dom \in domRow
  <2>1. /\ job' = [job EXCEPT ![c] = [job[c] EXCEPT !.op = "enable"]]
        /\ certRow' = [certRow EXCEPT ![job[c].id] = job[c].dom]
    BY <1>2 DEF InsertRow, Become
  <2>2. [job[c] EXCEPT !.op = "enable"] \in Task
    BY Types DEF CAInv, Typed, Task
  <2>3. /\ job'[c].op = "enable" /\ job'[c].id = job[c].id /\ job'[c].dom = job[c].dom
        /\ \A e \in Client : e # c => job'[e] = job[e]
    BY <2>1, Types DEF CAInv, Typed, Task
  <2>4. job[c].dom \in CertDomain /\ job[c].dom # Nobody
    BY <1>2, Types DEF CAInv, Typed
  <2>5. /\ certRow'[job[c].id] = job[c].dom
        /\ \A i \in CertId : i # job[c].id => certRow'[i] = certRow[i]
    BY <1>0, <2>1, Types DEF CAInv, Typed
  <2>6. CATypeOK'
    BY <1>0, <2>1, <2>2, <2>4, Types DEF CAInv, Typed
  <2>7. LockInv' /\ RootIsWhole' /\ MetaIsLast' /\ OneRoot' /\ RevokedHasNoKey'
    BY <1>0, <2>3, RowsMove
  <2>8. IdIsNew'
    BY <1>0, <2>3, <2>5 DEF CAInv, IdIsNew
  <2>9. RowIsReady'
    BY <1>0, <2>3, <2>4, <2>5 DEF CAInv, RowIsReady
  <2>10. RowHasFiles'
    BY <1>0, <1>2, <2>5 DEF CAInv, CATypeOK, RowHasFiles
  <2> QED BY <2>6, <2>7, <2>8, <2>9, <2>10 DEF CAInv
<1> QED BY <1>1, <1>2

LEMMA EnableSSLKeeps ==
  ASSUME CAInv, NEW c \in Client, EnableSSL(c)
  PROVE  CAInv'
<1>1. /\ job[c].op = "enable" /\ sslOn' = sslOn \cup {job[c].dom}
      /\ job' = [job EXCEPT ![c] = Free] /\ Free \in Task /\ Free.op = "idle"
      /\ UNCHANGED <<disk, signer, store, mu, todo, certRow, domRow>>
  BY DEF EnableSSL, Done, Free, Task
<1>2. job[c].id \in CertId /\ job[c].dom \in CertDomain /\ certRow[job[c].id] = job[c].dom
  BY <1>1 DEF CAInv, RowIsReady
<1>3. CATypeOK'
  BY <1>1, <1>2, Types DEF CAInv, Typed
<1>4. LockInv' /\ RootIsWhole' /\ MetaIsLast' /\ OneRoot' /\ RevokedHasNoKey'
  BY <1>1, RowsMove DEF CAInv, CATypeOK
<1>5. IdIsNew' /\ RowIsReady'
  BY <1>1 DEF CAInv, CATypeOK, IdIsNew, RowIsReady
<1>6. RowHasFiles'
  BY <1>1, <1>2 DEF CAInv, RowHasFiles
<1> QED BY <1>3, <1>4, <1>5, <1>6 DEF CAInv

LEMMA DropDomainKeeps ==
  ASSUME CAInv, NEW d \in CertDomain, DropDomain(d)
  PROVE  CAInv'
<1>1. /\ domRow' = domRow \ {d} /\ (\A i \in CertId : certRow[i] # d)
      /\ UNCHANGED <<disk, signer, store, mu, todo, job, certRow, sslOn>>
  BY DEF DropDomain
<1>2. CATypeOK'
  BY <1>1, Types DEF CAInv, Typed
<1>3. LockInv' /\ RootIsWhole' /\ MetaIsLast' /\ OneRoot' /\ RevokedHasNoKey'
  BY <1>1, RowsMove
<1>4. IdIsNew' /\ RowIsReady' /\ RowHasFiles'
  BY <1>1 DEF CAInv, IdIsNew, RowIsReady, RowHasFiles
<1> QED BY <1>2, <1>3, <1>4 DEF CAInv

LEMMA DieKeeps ==
  ASSUME CAInv, Die
  PROVE  CAInv'
<1>1. /\ mu' = Nobody /\ todo' = <<>> /\ job' = [c \in Client |-> Free] /\ Free \in Task /\ Free.op = "idle"
      /\ UNCHANGED <<disk, signer, store, certRow, domRow, sslOn>>
  BY DEF Die, Unlock, Free, Task, rows
<1>2. CATypeOK'
  BY <1>1, Types DEF CAInv, Typed
<1>3. LockInv'
  BY <1>1 DEF LockInv
<1>4. FilesInv'
  BY <1>1, FilesStay DEF CAInv, CATypeOK
<1> QED BY <1>2, <1>3, <1>4 DEF CAInv, FilesInv

LEMMA NextCA == CAInv /\ [CANext]_caVars => CAInv'
<1> SUFFICES ASSUME CAInv, [CANext]_caVars PROVE CAInv'
  OBVIOUS
<1>1. ASSUME NEW c \in Client, ensureCA(c) \/ trustCA(c) \/ \E d \in CertDomain : issueCertificate(c, d)
      PROVE  CAInv'
  BY <1>1, LockForRootKeeps DEF ensureCA, trustCA, issueCertificate
<1>2. ASSUME NEW c \in Client, NEW i \in CertId, Renew(c, i) \/ Revoke(c, i) PROVE CAInv'
  BY <1>2, RenewKeeps, RevokeKeeps
<1>3. ASSUME NEW c \in Client, Issue(c) \/ Truncate(c) \/ Fill(c) \/ WriteFails(c) \/ Finish(c) PROVE CAInv'
  BY <1>3, IssueKeeps, TruncateKeeps, FillKeeps, FinishKeeps
<1>4. ASSUME NEW c \in Client, Install(c) \/ InsertRow(c) \/ EnableSSL(c) PROVE CAInv'
  BY <1>4, InstallKeeps, InsertRowKeeps, EnableSSLKeeps
<1>5. CASE (\E d \in CertDomain : DropDomain(d)) \/ Die
  BY <1>5, DropDomainKeeps, DieKeeps
<1>6. CASE UNCHANGED caVars
  <2>1. UNCHANGED <<disk, signer, store, mu, todo, job, certRow, domRow, sslOn>>
    BY <1>6 DEF caVars
  <2>2. CATypeOK'
    BY <2>1, Types DEF CAInv, Typed
  <2>3. LockInv' /\ RootIsWhole' /\ MetaIsLast' /\ OneRoot' /\ RevokedHasNoKey'
    BY <2>1, RowsMove
  <2>4. IdIsNew' /\ RowIsReady' /\ RowHasFiles'
    BY <2>1 DEF CAInv, IdIsNew, RowIsReady, RowHasFiles
  <2> QED BY <2>2, <2>3, <2>4 DEF CAInv
<1> QED BY <1>1, <1>2, <1>3, <1>4, <1>5, <1>6 DEF CANext

LEMMA Authority == CASpec => []CAInv
BY InitCA, NextCA, PTL DEF CASpec

\* There is one root for ever, wherever a daemon died or a disk was full while it
\* was made: every certificate on disk is signed by it and it is what is trusted.
THEOREM OneRootTheorem == CASpec => []OneRoot
<1>1. CAInv => OneRoot
  BY DEF CAInv
<1> QED BY <1>1, Authority, PTL

\* A certificate marked revoked has no key left.
THEOREM RevokedHasNoKeyTheorem == CASpec => []RevokedHasNoKey
<1>1. CAInv => RevokedHasNoKey
  BY DEF CAInv
<1> QED BY <1>1, Authority, PTL

\* A row of certificates has its files and its domain, a domain with ssl_enabled
\* has such a row, however many requests overlap.
THEOREM RowHasFilesTheorem == CASpec => []RowHasFiles
<1>1. CAInv => RowHasFiles
  BY DEF CAInv
<1> QED BY <1>1, Authority, PTL

HIDE CAAssumption

-----------------------------------------------------------------------------
(* DomainBinding                                                              *)

USE BindingAssumption, BindingFaults

DomRec == [st : {"new", "row", "gone"}, host : Host \cup {None},
           project : Project \cup {None}, port : Text \cup {None}]
ReqRec == [pc : Label, p : Project \cup {None}, d : Dom \cup {None}, h : Host \cup {None},
           port : Text \cup {None}, own : BOOLEAN, list : SUBSET Dom]
SvcRec == [own : BOOLEAN, port : Text \cup {None}]
Lines  == [Line -> {"none", "volt", "moved", "foreign"}]

-----------------------------------------------------------------------------
(* Types                                                                      *)

LEMMA IdleType == Idle \in ReqRec
BY DEF Idle, ReqRec, Label

\* Moving a handler on keeps its copies within their types.
LEMMA GotoType ==
  ASSUME req \in [Caller -> ReqRec], NEW c \in Caller, NEW l \in Label, Goto(c, l)
  PROVE  req' \in [Caller -> ReqRec]
<1>1. [req[c] EXCEPT !.pc = l] \in ReqRec
  BY DEF ReqRec
<1> QED BY <1>1 DEF Goto

LEMMA AnswerType ==
  ASSUME req \in [Caller -> ReqRec], NEW c \in Caller, Answer(c)
  PROVE  req' \in [Caller -> ReqRec]
BY IdleType DEF Answer

LEMMA BeginType ==
  ASSUME req \in [Caller -> ReqRec], NEW c \in Caller, NEW r \in ReqRec, Begin(c, r)
  PROVE  req' \in [Caller -> ReqRec]
BY DEF Begin

LEMMA SetPortType ==
  ASSUME dom \in [Dom -> DomRec], NEW d, NEW x \in Text \cup {None}, SetPort(d, x)
  PROVE  dom' \in [Dom -> DomRec]
<1>1. CASE d \in Rows
  <2>1. d \in Dom
    BY <1>1 DEF Rows
  <2>2. [dom[d] EXCEPT !.port = x] \in DomRec
    BY <2>1 DEF DomRec
  <2> QED BY <1>1, <2>1, <2>2 DEF SetPort
<1>2. CASE d \notin Rows
  BY <1>2 DEF SetPort
<1> QED BY <1>1, <1>2

LEMMA DeleteType ==
  ASSUME dom \in [Dom -> DomRec], NEW d, DeleteDomainRow(d)
  PROVE  dom' \in [Dom -> DomRec]
<1>1. CASE d \in Rows
  <2>1. d \in Dom
    BY <1>1 DEF Rows
  <2>2. [dom[d] EXCEPT !.st = "gone"] \in DomRec
    BY <2>1 DEF DomRec
  <2> QED BY <1>1, <2>1, <2>2 DEF DeleteDomainRow
<1>2. CASE d \notin Rows
  BY <1>2 DEF DeleteDomainRow
<1> QED BY <1>1, <1>2

LEMMA PersistType ==
  ASSUME svcRow \in [Project -> SvcRec \cup {None}], NEW p, NEW own \in BOOLEAN, NEW x \in Text \cup {None},
         Persist(p, own, x)
  PROVE  svcRow' \in [Project -> SvcRec \cup {None}]
<1>1. [own |-> own, port |-> x] \in SvcRec
  BY DEF SvcRec
<1> QED BY <1>1 DEF Persist

\* The part of the types the argument needs.
Shape ==
  /\ dom \in [Dom -> DomRec]
  /\ svcRow \in [Project -> SvcRec \cup {None}]
  /\ hosts \in Lines /\ copy \in Lines
  /\ live \in [Project -> Text \cup {None}] /\ exiting \in [Project -> Text \cup {None}]
  /\ req \in [Caller -> ReqRec]
  /\ \A c \in Caller : req[c].pc = "svRestart" => req[c].p \in Project

LEMMA InitShape == Init => Shape
<1>1. NewDom \in DomRec
  BY DEF NewDom, DomRec
<1>2. Blank \in Lines
  BY DEF Blank, Lines
<1> QED BY <1>1, <1>2, IdleType DEF Init, Shape, Idle, Lines

\* What the three ways to move a handler leave alone.
LEMMA GotoMoves ==
  ASSUME Shape, NEW c \in Caller, NEW l, Goto(c, l)
  PROVE  /\ req'[c].pc = l /\ req'[c].d = req[c].d /\ req'[c].h = req[c].h
         /\ \A e \in Caller : e # c => req'[e] = req[e]
<1>1. req[c] \in ReqRec
  BY DEF Shape
<1> QED BY <1>1 DEF Goto, Shape, ReqRec

LEMMA AnswerMoves ==
  ASSUME Shape, NEW c \in Caller, Answer(c)
  PROVE  req'[c].pc = "idle" /\ \A e \in Caller : e # c => req'[e] = req[e]
BY DEF Answer, Shape, Idle

LEMMA BeginMoves ==
  ASSUME Shape, NEW c \in Caller, NEW r, Begin(c, r)
  PROVE  req'[c] = r /\ \A e \in Caller : e # c => req'[e] = req[e]
BY DEF Begin, Shape

\* The steps that enter a process or take one out.
LEMMA ManagerShape ==
  ASSUME Shape, NEW c \in Caller,
         StartService(c) \/ PersistStart(c) \/ StopOfStop(c) \/ StopOfDelete(c) \/ RestartLooks(c)
  PROVE  /\ req' \in [Caller -> ReqRec] /\ req'[c].pc # "svRestart"
         /\ \A e \in Caller : e # c => req'[e] = req[e]
         /\ svcRow' \in [Project -> SvcRec \cup {None}]
         /\ live' \in [Project -> Text \cup {None}] /\ exiting' \in [Project -> Text \cup {None}]
         /\ dom' = dom /\ hosts' = hosts /\ copy' = copy
<1>t. /\ req \in [Caller -> ReqRec] /\ req[c] \in ReqRec
      /\ live \in [Project -> Text \cup {None}] /\ exiting \in [Project -> Text \cup {None}]
      /\ svcRow \in [Project -> SvcRec \cup {None}]
      /\ req[c].port \in Text \cup {None} /\ req[c].own \in BOOLEAN /\ req[c].p \in Project \cup {None}
  BY DEF Shape, ReqRec
<1>0. ASSUME NEW p \in Project, StopService(p)
      PROVE  svcRow' \in [Project -> SvcRec \cup {None}] /\ live' \in [Project -> Text \cup {None}]
  <2>1. live[p] \in Text \cup {None} /\ (p \notin anon) \in BOOLEAN
    BY <1>t
  <2> QED BY <1>0, <1>t, <2>1, PersistType DEF StopService
<1>e. ASSUME NEW p, p \notin Project, StopService(p)
      PROVE  svcRow' = svcRow /\ live' = live
  BY <1>e, <1>t DEF StopService, Persist
<1>1. CASE StartService(c)
  <2>1. req' \in [Caller -> ReqRec] /\ req'[c].pc # "svRestart" /\ \A e \in Caller : e # c => req'[e] = req[e]
    BY <1>1, <1>t, GotoType, AnswerType, GotoMoves, AnswerMoves DEF StartService, Label
  <2>2. live' \in [Project -> Text \cup {None}]
    BY <1>1, <1>t DEF StartService, Enter
  <2> QED BY <1>1, <1>t, <2>1, <2>2 DEF StartService, tables, file
<1>2. CASE PersistStart(c)
  <2>1. req' \in [Caller -> ReqRec] /\ req'[c].pc # "svRestart" /\ \A e \in Caller : e # c => req'[e] = req[e]
    BY <1>2, <1>t, GotoType, AnswerType, GotoMoves, AnswerMoves DEF PersistStart, Label
  <2>2. svcRow' \in [Project -> SvcRec \cup {None}]
    BY <1>2, <1>t, PersistType DEF PersistStart
  <2> QED BY <1>2, <1>t, <2>1, <2>2 DEF PersistStart, file, manager
<1>3. CASE StopOfStop(c)
  <2>1. req' \in [Caller -> ReqRec] /\ req'[c].pc # "svRestart" /\ \A e \in Caller : e # c => req'[e] = req[e]
    BY <1>3, <1>t, GotoType, AnswerType, GotoMoves, AnswerMoves DEF StopOfStop, Label
  <2>2. svcRow' \in [Project -> SvcRec \cup {None}] /\ live' \in [Project -> Text \cup {None}]
    BY <1>3, <1>t, <1>0, <1>e DEF StopOfStop
  <2> QED BY <1>3, <1>t, <2>1, <2>2 DEF StopOfStop, file
<1>4. CASE StopOfDelete(c)
  <2>1. req' \in [Caller -> ReqRec] /\ req'[c].pc # "svRestart" /\ \A e \in Caller : e # c => req'[e] = req[e]
    BY <1>4, <1>t, GotoType, GotoMoves DEF StopOfDelete, Label
  <2>2. svcRow' \in [Project -> SvcRec \cup {None}] /\ live' \in [Project -> Text \cup {None}]
    BY <1>4, <1>t, <1>0, <1>e DEF StopOfDelete
  <2> QED BY <1>4, <1>t, <2>1, <2>2 DEF StopOfDelete, file
<1>5. CASE RestartLooks(c)
  <2>1. PICK p \in Project : p = req[c].p
    BY <1>5 DEF RestartLooks, Shape, At
  <2>2. svcRow' \in [Project -> SvcRec \cup {None}] /\ live' \in [Project -> Text \cup {None}]
    BY <1>5, <1>t, <1>0, <2>1 DEF RestartLooks
  <2>3. CASE Answer(c)
    <3>1. req' \in [Caller -> ReqRec] /\ req'[c].pc = "idle" /\ \A e \in Caller : e # c => req'[e] = req[e]
      BY <1>t, <2>3, AnswerType, AnswerMoves
    <3> QED BY <1>5, <1>t, <2>2, <3>1 DEF RestartLooks, file
  <2>4. CASE ~Answer(c)
    <3>1. PICK x \in Text \cup {None}, own \in BOOLEAN :
            req' = [req EXCEPT ![c] = [req[c] EXCEPT !.pc = "svLaunch", !.port = x, !.own = own]]
      <4>1. live[p] \in Text \cup {None} /\ (p \notin anon) \in BOOLEAN
        BY <1>t
      <4>2. svcRow[p] # None => svcRow[p].port \in Text \cup {None} /\ svcRow[p].own \in BOOLEAN
        BY <1>t DEF SvcRec
      <4>3. \/ req' = [req EXCEPT ![c].pc = "svLaunch", ![c].port = live[p], ![c].own = p \notin anon]
            \/ /\ svcRow[p] # None
               /\ req' = [req EXCEPT ![c].pc = "svLaunch", ![c].port = svcRow[p].port, ![c].own = svcRow[p].own]
        BY <1>5, <2>1, <2>4 DEF RestartLooks
      <4>4. CASE req' = [req EXCEPT ![c].pc = "svLaunch", ![c].port = live[p], ![c].own = p \notin anon]
        BY <1>t, <4>1, <4>4
      <4>5. CASE /\ svcRow[p] # None
                 /\ req' = [req EXCEPT ![c].pc = "svLaunch", ![c].port = svcRow[p].port, ![c].own = svcRow[p].own]
        BY <1>t, <4>2, <4>5
      <4> QED BY <4>3, <4>4, <4>5
    <3>2. [req[c] EXCEPT !.pc = "svLaunch", !.port = x, !.own = own] \in ReqRec
      BY <1>t DEF ReqRec, Label
    <3>3. [req[c] EXCEPT !.pc = "svLaunch", !.port = x, !.own = own].pc = "svLaunch"
      BY <1>t DEF ReqRec
    <3>4. req' \in [Caller -> ReqRec] /\ req'[c].pc = "svLaunch" /\ \A e \in Caller : e # c => req'[e] = req[e]
      BY <1>t, <3>1, <3>2, <3>3
    <3> QED BY <1>5, <1>t, <2>2, <3>4 DEF RestartLooks, file
  <2> QED BY <2>3, <2>4
<1> QED BY <1>1, <1>2, <1>3, <1>4, <1>5

\* The steps on the hosts file.
LEMMA HostsShape ==
  ASSUME Shape, NEW c \in Caller, HostsAdd(c) \/ HostsRemove(c) \/ HostsTruncate(c) \/ HostsFill(c)
  PROVE  /\ req' \in [Caller -> ReqRec] /\ req'[c].pc # "svRestart"
         /\ \A e \in Caller : e # c => req'[e] = req[e]
         /\ hosts' \in Lines /\ copy' \in Lines
         /\ dom' = dom /\ svcRow' = svcRow /\ live' = live /\ exiting' = exiting
<1>t. req \in [Caller -> ReqRec] /\ hosts \in Lines /\ copy \in Lines /\ Blank \in Lines
  BY DEF Shape, Blank, Lines
<1>1. CASE HostsAdd(c) \/ HostsRemove(c)
  <2>1. req' \in [Caller -> ReqRec] /\ req'[c].pc # "svRestart" /\ \A e \in Caller : e # c => req'[e] = req[e]
    BY <1>1, <1>t, GotoType, AnswerType, GotoMoves, AnswerMoves DEF HostsAdd, HostsRemove, Label
  <2> QED BY <1>1, <1>t, <2>1 DEF HostsAdd, HostsRemove, tables, manager
<1>2. CASE HostsTruncate(c)
  <2>1. req' \in [Caller -> ReqRec] /\ req'[c].pc # "svRestart" /\ \A e \in Caller : e # c => req'[e] = req[e]
    BY <1>2, <1>t, GotoType, AnswerType, GotoMoves, AnswerMoves DEF HostsTruncate, HostsWriteFails, Label
  <2> QED BY <1>2, <1>t, <2>1 DEF HostsTruncate, HostsWriteFails, tables, manager
<1>3. CASE HostsFill(c)
  <2>1. req' \in [Caller -> ReqRec] /\ req'[c].pc # "svRestart" /\ \A e \in Caller : e # c => req'[e] = req[e]
    BY <1>3, <1>t, GotoType, AnswerType, GotoMoves, AnswerMoves DEF HostsFill, HostsWriteFails, Label
  <2> DEFINE lines == [copy EXCEPT ![Fold[req[c].h]] = IF At(c, "cdFill") THEN "volt" ELSE "none"]
  <2>2. lines \in Lines
    BY <1>t DEF Lines
  <2>3. /\ \/ hosts' = lines
           \/ \E some \in SUBSET Line : hosts' = [l \in Line |-> IF l \in some THEN lines[l] ELSE "none"]
        /\ copy' = Blank
    BY <1>3 DEF HostsFill, HostsWriteFails
  <2> HIDE DEF lines
  <2>4. hosts' \in Lines
    BY <2>2, <2>3 DEF Lines
  <2> QED BY <1>3, <1>t, <2>1, <2>3, <2>4 DEF HostsFill, tables, manager
<1> QED BY <1>1, <1>2, <1>3

LEMMA HandlerShape ==
  ASSUME Shape, NEW c \in Caller, Handler(c)
  PROVE  Shape'
<1>t. /\ dom \in [Dom -> DomRec] /\ req \in [Caller -> ReqRec] /\ req[c] \in ReqRec
      /\ svcRow \in [Project -> SvcRec \cup {None}]
  BY DEF Shape
<1>k. ASSUME dom' \in [Dom -> DomRec], svcRow' \in [Project -> SvcRec \cup {None}], UNCHANGED <<hosts, copy>>,
             UNCHANGED <<live, exiting>>, req' \in [Caller -> ReqRec], req'[c].pc # "svRestart",
             \A e \in Caller : e # c => req'[e] = req[e]
      PROVE  Shape'
  BY <1>k DEF Shape
<1>r. ASSUME NEW r \in ReqRec, req' = [req EXCEPT ![c] = r], r.pc # "svRestart"
      PROVE  /\ req' \in [Caller -> ReqRec] /\ req'[c].pc # "svRestart"
             /\ \A e \in Caller : e # c => req'[e] = req[e]
  BY <1>r, <1>t
<1>g. ASSUME NEW l \in Label, Goto(c, l), l # "svRestart"
      PROVE  /\ req' \in [Caller -> ReqRec] /\ req'[c].pc # "svRestart"
             /\ \A e \in Caller : e # c => req'[e] = req[e]
  BY <1>g, <1>t, GotoType, GotoMoves
<1>a. ASSUME Answer(c)
      PROVE  /\ req' \in [Caller -> ReqRec] /\ req'[c].pc # "svRestart"
             /\ \A e \in Caller : e # c => req'[e] = req[e]
  BY <1>a, <1>t, AnswerType, AnswerMoves
<1>1. CASE SyncList(c)
  <2> DEFINE r == [req[c] EXCEPT !.pc = "syncSet", !.list = BoundTo(req[c].p)]
  <2>1. BoundTo(req[c].p) \in SUBSET Dom
    BY DEF BoundTo, Rows
  <2>2. r \in ReqRec /\ r.pc # "svRestart"
    <3>1. r \in ReqRec
      BY <1>t, <2>1 DEF ReqRec, Label
    <3>2. r.pc # "svRestart"
      BY <1>t DEF ReqRec
    <3> QED BY <3>1, <3>2
  <2>3. req' = [req EXCEPT ![c] = r]
    BY <1>1, <1>t DEF SyncList
  <2> HIDE DEF r
  <2> QED BY <1>1, <1>t, <1>k, <1>r, <2>2, <2>3 DEF SyncList, tables, file, manager
<1>2. CASE SyncSet(c)
  <2> DEFINE d == CHOOSE d \in req[c].list : TRUE
             skip == [req[c] EXCEPT !.list = @ \ {d}]
             set  == [req[c] EXCEPT !.pc = "syncPort", !.d = d, !.list = @ \ {d}]
  <2>0. dom' \in [Dom -> DomRec] /\ UNCHANGED <<svcRow, hosts, copy, live, exiting>>
    BY <1>2, <1>t DEF SyncSet, tables, file, manager
  <2>1. CASE req[c].list = {}
    BY <1>2, <1>t, <1>k, <1>a, <2>0, <2>1 DEF SyncSet
  <2>2. CASE req[c].list # {}
    <3>1. d \in req[c].list /\ d \in Dom
      BY <2>2, <1>t DEF ReqRec
    <3>2. skip \in ReqRec /\ skip.pc = req[c].pc
      BY <1>t DEF ReqRec
    <3>3. set \in ReqRec /\ set.pc = "syncPort"
      BY <1>t, <3>1 DEF ReqRec, Label
    <3>4. (req' = [req EXCEPT ![c] = skip] \/ req' = [req EXCEPT ![c] = set]) /\ req[c].pc = "syncSet"
      BY <1>2, <2>2, <1>t DEF SyncSet, At
    <3> HIDE DEF skip, set
    <3> QED BY <1>t, <1>k, <1>r, <2>0, <3>2, <3>3, <3>4
  <2> QED BY <2>1, <2>2
<1>3. CASE SyncPort(c)
  <2> DEFINE r == [req[c] EXCEPT !.pc = "syncSet", !.d = None]
  <2>0. req[c].port \in Text \cup {None}
    BY <1>t DEF ReqRec
  <2>1. dom' \in [Dom -> DomRec]
    BY <1>3, <1>t, <2>0, SetPortType DEF SyncPort
  <2>2. r \in ReqRec /\ r.pc # "svRestart"
    <3>1. r \in ReqRec
      BY <1>t DEF ReqRec, Label
    <3>2. r.pc # "svRestart"
      BY <1>t DEF ReqRec
    <3> QED BY <3>1, <3>2
  <2>3. req' = [req EXCEPT ![c] = r]
    BY <1>3, <1>t DEF SyncPort
  <2> HIDE DEF r
  <2> QED BY <1>3, <1>t, <1>k, <1>r, <2>1, <2>2, <2>3 DEF SyncPort, file, manager
<1>4. CASE StartService(c) \/ PersistStart(c) \/ StopOfStop(c) \/ StopOfDelete(c) \/ RestartLooks(c)
  BY <1>4, ManagerShape DEF Shape
<1>5. CASE HostsAdd(c) \/ HostsRemove(c) \/ HostsTruncate(c) \/ HostsFill(c)
  BY <1>5, HostsShape DEF Shape
<1>6. CASE DeleteRecords(c)
  <2>1. svcRow' \in [Project -> SvcRec \cup {None}]
    <3>1. CASE req[c].p \in Project
      <4>1. PICK x \in SvcRec \cup {None} : svcRow' = svcRow \/ svcRow' = [svcRow EXCEPT ![req[c].p] = x]
        BY <1>6, <1>t, <3>1 DEF DeleteRecords
      <4> QED BY <1>t, <4>1
    <3>2. CASE req[c].p \notin Project
      BY <1>6, <1>t, <3>2 DEF DeleteRecords
    <3> QED BY <3>1, <3>2
  <2> QED BY <1>6, <1>t, <1>k, <1>g, <2>1 DEF DeleteRecords, file, manager, Label
<1>7. CASE DeleteLooks(c) \/ DomainRoute(c) \/ CreateRoute(c)
  <2>1. UNCHANGED <<dom, svcRow, hosts, copy, live, exiting>>
    BY <1>7 DEF DeleteLooks, DomainRoute, CreateRoute, tables, file, manager
  <2>2. Goto(c, "dpRecords") \/ Goto(c, "dpStop") \/ Goto(c, "ddDelete") \/ Goto(c, "cdPort") \/ Answer(c)
    BY <1>7 DEF DeleteLooks, DomainRoute, CreateRoute
  <2> QED BY <1>t, <1>k, <1>g, <1>a, <2>1, <2>2 DEF Label
<1>8. CASE DeleteList(c)
  <2> DEFINE r == [req[c] EXCEPT !.pc = "dpRemove", !.list = BoundTo(req[c].p)]
  <2>1. BoundTo(req[c].p) \in SUBSET Dom
    BY DEF BoundTo, Rows
  <2>2. r \in ReqRec /\ r.pc # "svRestart"
    <3>1. r \in ReqRec
      BY <1>t, <2>1 DEF ReqRec, Label
    <3>2. r.pc # "svRestart"
      BY <1>t DEF ReqRec
    <3> QED BY <3>1, <3>2
  <2>3. req' = [req EXCEPT ![c] = r]
    BY <1>8, <1>t DEF DeleteList
  <2> HIDE DEF r
  <2> QED BY <1>8, <1>t, <1>k, <1>r, <2>2, <2>3 DEF DeleteList, tables, file, manager
<1>9. CASE DeleteRoute(c)
  <2> DEFINE d == CHOOSE d \in req[c].list : TRUE
             r == [req[c] EXCEPT !.pc = "dpClear", !.d = d, !.list = @ \ {d}]
  <2>0. UNCHANGED <<dom, svcRow, hosts, copy, live, exiting>>
    BY <1>9 DEF DeleteRoute, tables, file, manager
  <2>1. CASE req[c].list = {}
    BY <1>9, <1>t, <1>k, <1>g, <2>0, <2>1 DEF DeleteRoute, Label
  <2>2. CASE req[c].list # {}
    <3>1. d \in req[c].list /\ d \in Dom
      BY <2>2, <1>t DEF ReqRec
    <3>2. r \in ReqRec /\ r.pc # "svRestart"
      <4>1. r \in ReqRec
        BY <1>t, <3>1 DEF ReqRec, Label
      <4>2. r.pc # "svRestart"
        BY <1>t DEF ReqRec
      <4> QED BY <4>1, <4>2
    <3>3. req' = [req EXCEPT ![c] = r]
      BY <1>9, <2>2, <1>t DEF DeleteRoute
    <3> HIDE DEF r
    <3> QED BY <1>t, <1>k, <1>r, <2>0, <3>2, <3>3
  <2> QED BY <2>1, <2>2
<1>10. CASE ClearProject(c)
  <2>1. ASSUME NEW e \in Dom
        PROVE  [dom[e] EXCEPT !.project = None, !.port = None] \in DomRec
    <3>1. dom[e] \in DomRec
      BY <1>t
    <3> QED BY <3>1 DEF DomRec
  <2> DEFINE r == [req[c] EXCEPT !.pc = "dpRemove", !.d = None]
  <2>2. dom' \in [Dom -> DomRec]
    <3>1. CASE req[c].d \in Dom
      <4>1. \/ dom' = [dom EXCEPT ![req[c].d] = [dom[req[c].d] EXCEPT !.project = None, !.port = None]]
            \/ dom' = [dom EXCEPT ![req[c].d] = dom[req[c].d]]
            \/ dom' = dom
        BY <1>10, <1>t, <3>1 DEF ClearProject
      <4> QED BY <4>1, <1>t, <2>1, <3>1
    <3>2. CASE req[c].d \notin Dom
      BY <1>10, <1>t, <3>2 DEF ClearProject
    <3> QED BY <3>1, <3>2
  <2>3. r \in ReqRec /\ r.pc # "svRestart"
    <3>1. r \in ReqRec
      BY <1>t DEF ReqRec, Label
    <3>2. r.pc # "svRestart"
      BY <1>t DEF ReqRec
    <3> QED BY <3>1, <3>2
  <2>4. req' = [req EXCEPT ![c] = r]
    BY <1>10, <1>t DEF ClearProject
  <2> HIDE DEF r
  <2> QED BY <1>10, <1>t, <1>k, <1>r, <2>2, <2>3, <2>4 DEF ClearProject, file, manager
<1>11. CASE DeleteRow(c) \/ SetSSLEnabled(c)
  BY <1>11, <1>t, <1>k, <1>a DEF DeleteRow, SetSSLEnabled, file, manager
<1>12. CASE InsertDomain(c)
  <2>1. CASE Answer(c) /\ UNCHANGED dom
    BY <1>12, <2>1, <1>t, <1>k, <1>a DEF InsertDomain, file, manager
  <2>2. CASE ~(Answer(c) /\ UNCHANGED dom)
    <3>1. PICK d \in Dom : /\ req[c].p \in Project \cup {None}
                           /\ dom' = [dom EXCEPT ![d] = [st |-> "row", host |-> req[c].h,
                                                         project |-> req[c].p, port |-> None]]
                           /\ req' = [req EXCEPT ![c] = [req[c] EXCEPT !.pc = "cdAdd", !.d = d]]
      BY <1>12, <2>2, <1>t DEF InsertDomain, ProjectRows
    <3>2. [st |-> "row", host |-> req[c].h, project |-> req[c].p, port |-> None] \in DomRec
      BY <3>1, <1>t DEF DomRec, ReqRec
    <3> DEFINE r == [req[c] EXCEPT !.pc = "cdAdd", !.d = d]
    <3>3. r \in ReqRec /\ r.pc # "svRestart"
      <4>1. r \in ReqRec
        BY <1>t DEF ReqRec, Label
      <4>2. r.pc # "svRestart"
        BY <1>t DEF ReqRec
      <4> QED BY <4>1, <4>2
    <3>4. dom' \in [Dom -> DomRec] /\ req' = [req EXCEPT ![c] = r]
      BY <1>t, <3>1, <3>2
    <3> HIDE DEF r
    <3> QED BY <1>12, <1>t, <1>k, <1>r, <3>3, <3>4 DEF InsertDomain, file, manager
  <2> QED BY <2>1, <2>2
<1>13. CASE Rollback(c) \/ DomainRow(c)
  <2>1. dom' \in [Dom -> DomRec]
    BY <1>13, <1>t, DeleteType DEF Rollback, DomainRow
  <2> QED BY <1>13, <1>t, <1>k, <1>a, <2>1 DEF Rollback, DomainRow, file, manager
<1>14. CASE CreateLooks(c)
  <2>0. UNCHANGED <<dom, svcRow, hosts, copy, live, exiting>>
    BY <1>14 DEF CreateLooks, tables, file, manager
  <2>1. CASE Answer(c)
    BY <2>0, <2>1, <1>t, <1>k, <1>a
  <2>2. CASE ~Answer(c)
    <3> DEFINE r == [req[c] EXCEPT !.pc = "cdSet", !.port = live[req[c].p]]
    <3>1. /\ req[c].p \in Project
          /\ req' = [req EXCEPT ![c] = r]
      BY <1>14, <2>2, <1>t DEF CreateLooks
    <3>2. live[req[c].p] \in Text \cup {None}
      BY <3>1 DEF Shape
    <3>3. r \in ReqRec /\ r.pc # "svRestart"
      <4>1. r \in ReqRec
        BY <1>t, <3>2 DEF ReqRec, Label
      <4>2. r.pc # "svRestart"
        BY <1>t DEF ReqRec
      <4> QED BY <4>1, <4>2
    <3> HIDE DEF r
    <3> QED BY <1>t, <1>k, <1>r, <2>0, <3>1, <3>3
  <2> QED BY <2>1, <2>2
<1>15. CASE CreatePort(c)
  <2>0. req[c].port \in Text \cup {None}
    BY <1>t DEF ReqRec
  <2>1. dom' \in [Dom -> DomRec]
    BY <1>15, <1>t, <2>0, SetPortType DEF CreatePort
  <2> QED BY <1>15, <1>t, <1>k, <1>a, <2>1 DEF CreatePort, file, manager
<1>16. CASE InsertCertificate(c)
  <2>1. Goto(c, "icEnable") \/ Answer(c)
    BY <1>16 DEF InsertCertificate
  <2> QED BY <1>16, <1>t, <1>k, <1>g, <1>a, <2>1 DEF InsertCertificate, file, manager, Label
<1> QED
  BY <1>1, <1>2, <1>3, <1>4, <1>5, <1>6, <1>7, <1>8, <1>9, <1>10, <1>11, <1>12, <1>13,
     <1>14, <1>15, <1>16 DEF Handler

\* What a request that has just been accepted starts with.
Fresh(r) ==
  /\ r \in ReqRec
  /\ \/ /\ r.pc \in {"stStop", "dpGet", "spStart"} /\ r.p \in Project
        /\ r.pc = "stStop" => r.port = None
        /\ r.pc = "spStart" => r.port \in Port
     \/ r.pc \in {"svStart", "svStop", "svRestart"} /\ r.p \in Project /\ "api" \in faults
     \/ r.pc = "cdInsert" /\ r.h \in Host /\ (Plain(r.h) \/ "spelling" \in faults)
     \/ r.pc = "ddRemove" /\ r.d \in Rows /\ r.h = dom[r.d].host
     \/ r.pc = "icInsert" /\ r.d \in Rows

LEMMA RequestBegins ==
  ASSUME Shape, NEW c \in Caller, Request(c)
  PROVE  \E r : Fresh(r) /\ Begin(c, r) /\ UNCHANGED <<tables, file, route, manager, faults>>
<1> DEFINE Begun == \E r : Fresh(r) /\ Begin(c, r) /\ UNCHANGED <<tables, file, route, manager, faults>>
<1>1. ASSUME NEW p \in Project, StopProject(c, p) \/ DeleteProject(c, p) PROVE Begun
  <2>1. ASSUME NEW l \in {"stStop", "dpGet"} PROVE Fresh([Idle EXCEPT !.pc = l, !.p = p])
    BY DEF Fresh, Idle, ReqRec, Label
  <2> QED BY <1>1, <2>1 DEF StopProject, DeleteProject
<1>2. ASSUME NEW p \in Project, ServiceRequest(c, p) PROVE Begun
  <2>0. "api" \in faults
    BY <1>2 DEF ServiceRequest
  <2>1. ASSUME NEW l \in {"svStop", "svRestart"} PROVE Fresh([Idle EXCEPT !.pc = l, !.p = p])
    BY <2>0 DEF Fresh, Idle, ReqRec, Label
  <2>2. ASSUME NEW x \in Text PROVE Fresh([Idle EXCEPT !.pc = "svStart", !.p = p, !.port = x, !.own = FALSE])
    BY <2>0 DEF Fresh, Idle, ReqRec, Label
  <2> QED BY <1>2, <2>1, <2>2 DEF ServiceRequest
<1>3. ASSUME NEW p \in Project, NEW x \in Port, StartProject(c, p, x) PROVE Begun
  <2>1. Fresh([Idle EXCEPT !.pc = "spStart", !.p = p, !.port = x])
    BY DEF Fresh, Idle, ReqRec, Label, Text
  <2> QED BY <1>3, <2>1 DEF StartProject
<1>4. ASSUME NEW h \in Host, NEW p \in Project \cup {None}, CreateDomain(c, h, p) PROVE Begun
  <2>1. Plain(h) \/ "spelling" \in faults
    BY <1>4 DEF CreateDomain
  <2>2. Fresh([Idle EXCEPT !.pc = "cdInsert", !.h = h, !.p = p])
    <3>1. PICK r : r = [Idle EXCEPT !.pc = "cdInsert", !.h = h, !.p = p]
      OBVIOUS
    <3>2. r \in ReqRec /\ r.pc = "cdInsert" /\ r.h = h
      BY <3>1 DEF Idle, ReqRec, Label
    <3>3. Fresh(r)
      BY <2>1, <3>2 DEF Fresh, Plain
    <3> QED BY <3>1, <3>3
  <2> QED BY <1>4, <2>2 DEF CreateDomain
<1>5. ASSUME NEW d \in Dom, DeleteDomain(c, d) \/ IssueCertificate(c, d) PROVE Begun
  <2>0. d \in Rows /\ dom[d].host \in Host \cup {None}
    BY <1>5 DEF DeleteDomain, IssueCertificate, Shape, DomRec
  <2>1. /\ Fresh([Idle EXCEPT !.pc = "ddRemove", !.d = d, !.h = dom[d].host])
        /\ Fresh([Idle EXCEPT !.pc = "icInsert", !.d = d])
    BY <2>0 DEF Fresh, Idle, ReqRec, Label
  <2> QED BY <1>5, <2>1 DEF DeleteDomain, IssueCertificate
<1> QED BY <1>1, <1>2, <1>3, <1>4, <1>5 DEF Request

LEMMA RequestShape ==
  ASSUME Shape, NEW c \in Caller, Request(c)
  PROVE  Shape'
<1>t. req \in [Caller -> ReqRec]
  BY DEF Shape
<1>1. PICK r : Fresh(r) /\ Begin(c, r) /\ UNCHANGED <<tables, file, route, manager, faults>>
  BY RequestBegins
<1>2. r \in ReqRec /\ (r.pc = "svRestart" => r.p \in Project)
  BY <1>1 DEF Fresh
<1>3. req' \in [Caller -> ReqRec] /\ req'[c] = r /\ \A e \in Caller : e # c => req'[e] = req[e]
  BY <1>1, <1>2, <1>t, BeginType, BeginMoves
<1> QED BY <1>1, <1>2, <1>3 DEF Shape, tables, file, manager

LEMMA NextShape == Shape /\ [Next]_vars => Shape'
<1> SUFFICES ASSUME Shape, [Next]_vars PROVE Shape'
  OBVIOUS
<1>1. ASSUME NEW c \in Caller, Request(c) \/ Handler(c) PROVE Shape'
  BY <1>1, RequestShape, HandlerShape
<1>2. ASSUME NEW p \in Project, CreateProject(p) PROVE Shape'
  BY <1>2 DEF CreateProject, Shape, file, manager
<1>3. ASSUME NEW p \in Project, Exit(p) \/ Restart(p) PROVE Shape'
  <2>1. live[p] \in Text \cup {None} /\ exiting[p] \in Text \cup {None} /\ (p \notin anon) \in BOOLEAN
    BY DEF Shape
  <2>2. svcRow' \in [Project -> SvcRec \cup {None}]
    BY <1>3, <2>1, PersistType DEF Exit, Restart, Shape
  <2>3. live' \in [Project -> Text \cup {None}] /\ exiting' \in [Project -> Text \cup {None}]
    BY <1>3, <2>1 DEF Exit, Restart, Enter, Shape
  <2> QED BY <1>3, <2>2, <2>3 DEF Exit, Restart, Shape, file
<1>4. ASSUME NEW l \in Line, EditHosts(l) PROVE Shape'
  BY <1>4 DEF EditHosts, Shape, Lines, tables, manager
<1>5. CASE Crash
  BY <1>5, IdleType DEF Crash, Shape, tables, Idle, Lines, Blank
<1>6. CASE UNCHANGED vars
  BY <1>6 DEF vars, Shape, tables, file, manager
<1> QED BY <1>1, <1>2, <1>3, <1>4, <1>5, <1>6 DEF Next

-----------------------------------------------------------------------------
(* The hosts file while it is read and written again                          *)

Filling == {"cdFill", "ddFill"}

\* Provider.mu has one holder.
OneRewrites == \A c, e \in Caller : req[c].pc \in Rewriting /\ req[e].pc \in Rewriting => c = e

\* What Add and Remove found of their own line, and what nobody holds.
CopyFits ==
  /\ \A c \in Caller : /\ req[c].pc \in {"cdWrite", "cdFill"} => copy[Fold[req[c].h]] \in {"none", "moved"}
                       /\ req[c].pc \in {"ddWrite", "ddFill"} => copy[Fold[req[c].h]] \in Managed
  /\ ~Locked => copy = Blank

\* A saved line is in the file, or, where the file is being written, in the copy.
SavedSomewhere ==
  /\ saved \in [Line -> {"no", "yes", "late"}]
  /\ torn = {} => \A l \in Line : saved[l] = "yes" =>
       /\ Locked => copy[l] = "foreign"
       /\ (\A c \in Caller : req[c].pc \notin Filling) => hosts[l] = "foreign"

FileInv == OneRewrites /\ CopyFits /\ SavedSomewhere

LEMMA InitFile == Init => FileInv
<1> SUFFICES ASSUME Init PROVE FileInv
  OBVIOUS
<1>1. \A c \in Caller : req[c].pc = "idle"
  BY DEF Init, Idle
<1>2. /\ \A l \in Line : saved[l] = "yes" => hosts[l] = "foreign"
      /\ saved \in [Line -> {"no", "yes", "late"}]
  BY DEF Init
<1>3. copy = Blank
  BY DEF Init
<1> QED BY <1>1, <1>2, <1>3 DEF FileInv, OneRewrites, CopyFits, SavedSomewhere, Locked, Rewriting, Filling

\* A step away from the file.
LEMMA FileFrame ==
  ASSUME FileInv, UNCHANGED file,
         \A e \in Caller : req'[e] = req[e] \/ (req[e].pc \notin Rewriting /\ req'[e].pc \notin Rewriting)
  PROVE  FileInv'
<1>1. Locked' <=> Locked
  BY DEF Locked
<1>2. OneRewrites'
  BY DEF FileInv, OneRewrites
<1>3. CopyFits'
  BY <1>1 DEF FileInv, CopyFits, file, Rewriting, Managed, Blank, Line
<1>4. SavedSomewhere'
  <2>1. (\A c \in Caller : req'[c].pc \notin Filling) => \A c \in Caller : req[c].pc \notin Filling
    BY DEF Filling, Rewriting
  <2> QED BY <1>1, <2>1 DEF FileInv, SavedSomewhere, file, Filling
<1> QED BY <1>2, <1>3, <1>4 DEF FileInv

\* Somebody reads the file, and begins a rewrite or does not.
LEMMA FileRead ==
  ASSUME Shape, FileInv, NEW c \in Caller, HostsAdd(c) \/ HostsRemove(c)
  PROVE  FileInv'
<1>0. /\ ~Locked /\ req[c].pc \notin Rewriting /\ UNCHANGED <<hosts, saved, torn>>
      /\ \A e \in Caller : req[e].pc \notin Rewriting
  BY DEF HostsAdd, HostsRemove, At, Rewriting, Locked
<1>1. CASE UNCHANGED copy /\ (Goto(c, "cdLive") \/ Goto(c, "cdRollback") \/ Answer(c))
  <2>1. req'[c].pc \notin Rewriting /\ \A e \in Caller : e # c => req'[e] = req[e]
    BY <1>1, GotoMoves, AnswerMoves DEF Rewriting
  <2> QED BY <1>0, <1>1, <2>1, FileFrame DEF file
<1>2. CASE /\ copy' = hosts
           /\ \/ Goto(c, "cdWrite") /\ hosts[Fold[req[c].h]] \in {"none", "moved"}
              \/ Goto(c, "ddWrite") /\ hosts[Fold[req[c].h]] \in Managed
  <2>1. /\ \A e \in Caller : e # c => req'[e].pc \notin Rewriting
        /\ req'[c].h = req[c].h /\ req'[c].pc \in {"cdWrite", "ddWrite"}
        /\ req'[c].pc = "cdWrite" => hosts[Fold[req[c].h]] \in {"none", "moved"}
        /\ req'[c].pc = "ddWrite" => hosts[Fold[req[c].h]] \in Managed
    BY <1>0, <1>2, GotoMoves
  <2>2. Locked'
    BY <2>1 DEF Locked, Rewriting
  <2>3. OneRewrites'
    BY <2>1 DEF OneRewrites
  <2>4. CopyFits'
    BY <1>2, <2>1, <2>2 DEF CopyFits, Rewriting, Managed
  <2>5. SavedSomewhere'
    <3>1. \A e \in Caller : req[e].pc \notin Filling
      BY <1>0 DEF Filling, Rewriting
    <3> QED BY <1>0, <1>2, <3>1 DEF FileInv, SavedSomewhere
  <2> QED BY <2>3, <2>4, <2>5 DEF FileInv
<1> QED BY <1>1, <1>2 DEF HostsAdd, HostsRemove

\* The holder of the mutex gives it back without a copy.
LEMMA FileReleased ==
  ASSUME Shape, FileInv, NEW c \in Caller, req[c].pc \in Rewriting, copy' = Blank,
         req'[c].pc \notin Rewriting, \A e \in Caller : e # c => req'[e] = req[e],
         UNCHANGED saved, torn' = {} => \A l \in Line : saved[l] = "yes" => hosts'[l] = "foreign"
  PROVE  FileInv'
<1>1. \A e \in Caller : req'[e].pc \notin Rewriting
  BY DEF FileInv, OneRewrites
<1>2. ~Locked'
  BY <1>1 DEF Locked, Rewriting
<1>3. OneRewrites' /\ CopyFits'
  BY <1>1, <1>2 DEF OneRewrites, CopyFits, Rewriting, Blank, Line, Managed
<1>4. SavedSomewhere'
  BY <1>2 DEF FileInv, SavedSomewhere
<1> QED BY <1>3, <1>4 DEF FileInv

LEMMA FileTruncated ==
  ASSUME Shape, FileInv, NEW c \in Caller, HostsTruncate(c)
  PROVE  FileInv'
<1>0. /\ req[c].pc \in {"cdWrite", "ddWrite"} /\ req[c].pc \in Rewriting /\ UNCHANGED <<saved, torn>>
      /\ Locked /\ \A e \in Caller : e # c => req[e].pc \notin Rewriting
  BY DEF HostsTruncate, Rewriting, Locked, FileInv, OneRewrites
<1>1. CASE HostsWriteFails(c) /\ UNCHANGED hosts
  <2>1. copy' = Blank /\ req'[c].pc \notin Rewriting /\ \A e \in Caller : e # c => req'[e] = req[e]
    BY <1>1, GotoMoves, AnswerMoves DEF HostsWriteFails, Rewriting
  <2>2. \A e \in Caller : req[e].pc \notin Filling
    BY <1>0 DEF Filling, Rewriting
  <2>3. torn = {} => \A l \in Line : saved[l] = "yes" => hosts[l] = "foreign"
    BY <2>2 DEF FileInv, SavedSomewhere
  <2> QED BY <1>0, <1>1, <2>1, <2>3, FileReleased
<1>2. CASE /\ hosts' = Blank /\ UNCHANGED copy
           /\ Goto(c, IF At(c, "cdWrite") THEN "cdFill" ELSE "ddFill")
  <2>1. /\ req'[c].pc = (IF At(c, "cdWrite") THEN "cdFill" ELSE "ddFill") /\ req'[c].h = req[c].h
        /\ \A e \in Caller : e # c => req'[e] = req[e]
    BY <1>2, GotoMoves
  <2>2. \/ req[c].pc = "cdWrite" /\ req'[c].pc = "cdFill"
        \/ req[c].pc = "ddWrite" /\ req'[c].pc = "ddFill"
    BY <1>0, <2>1 DEF At
  <2>3. Locked' /\ req'[c].pc \in Filling
    BY <2>2 DEF Locked, Rewriting, Filling
  <2>4. OneRewrites'
    BY <1>0, <2>1 DEF OneRewrites
  <2>5. CopyFits'
    BY <1>0, <1>2, <2>1, <2>2, <2>3 DEF FileInv, CopyFits, Rewriting, Managed
  <2>6. SavedSomewhere'
    BY <1>0, <1>2, <2>3 DEF FileInv, SavedSomewhere
  <2> QED BY <2>4, <2>5, <2>6 DEF FileInv
<1> QED BY <1>1, <1>2 DEF HostsTruncate

LEMMA FileFilled ==
  ASSUME Shape, FileInv, NEW c \in Caller, HostsFill(c)
  PROVE  FileInv'
<1>0. /\ req[c].pc \in {"cdFill", "ddFill"} /\ req[c].pc \in Rewriting /\ UNCHANGED saved
      /\ Locked /\ copy \in Lines
  BY DEF HostsFill, Rewriting, Locked, Shape
<1>1. copy' = Blank /\ req'[c].pc \notin Rewriting /\ \A e \in Caller : e # c => req'[e] = req[e]
  BY GotoMoves, AnswerMoves DEF HostsFill, HostsWriteFails, Rewriting
<1>2. torn' = {} => \A l \in Line : saved[l] = "yes" => hosts'[l] = "foreign"
  <2> SUFFICES ASSUME torn' = {}, NEW l \in Line, saved[l] = "yes"
               PROVE  hosts'[l] = "foreign"
    OBVIOUS
  <2> DEFINE x == IF At(c, "cdFill") THEN "volt" ELSE "none"
  <2>1. torn = {} /\ hosts' = [copy EXCEPT ![Fold[req[c].h]] = x]
    BY DEF HostsFill
  <2>2. copy[l] = "foreign"
    BY <1>0, <2>1 DEF FileInv, SavedSomewhere
  <2>3. l # Fold[req[c].h]
    BY <1>0, <2>2 DEF FileInv, CopyFits, Managed
  <2> HIDE DEF x
  <2> QED BY <1>0, <2>1, <2>2, <2>3 DEF Lines
<1> QED BY <1>0, <1>1, <1>2, FileReleased

\* The labels at which a handler works on a domain and on its line.
Adding   == {"cdAdd", "cdWrite", "cdFill"}
Dooming  == {"cdRollback", "ddRoute", "ddDelete"}
Working  == Adding \cup Dooming \cup {"ddRemove", "ddWrite", "ddFill"}
Critical == Working \cup {"cdInsert"}

\* The steps of a handler that insert or delete no row of a domain and do not touch
\* the hosts file.
Aside(c) ==
  \/ SyncList(c) \/ SyncSet(c) \/ SyncPort(c)
  \/ StartService(c) \/ PersistStart(c) \/ StopOfStop(c) \/ RestartLooks(c)
  \/ DeleteLooks(c) \/ StopOfDelete(c) \/ DeleteRecords(c) \/ DeleteList(c)
  \/ DeleteRoute(c) \/ ClearProject(c) \/ DeleteRow(c)
  \/ CreateLooks(c) \/ CreateRoute(c) \/ CreatePort(c)
  \/ InsertCertificate(c) \/ SetSSLEnabled(c)

LEMMA AsideMoves ==
  ASSUME Shape, NEW c \in Caller, Aside(c)
  PROVE  /\ UNCHANGED <<file, faults>>
         /\ req[c].pc \notin Critical /\ req'[c].pc \notin Critical
         /\ \A e \in Caller : e # c => req'[e] = req[e]
<1>t. req \in [Caller -> ReqRec] /\ req[c] \in ReqRec
  BY DEF Shape
<1>c. Critical = {"cdInsert", "cdAdd", "cdWrite", "cdFill", "cdRollback",
                  "ddRemove", "ddWrite", "ddFill", "ddRoute", "ddDelete"}
  BY DEF Critical, Working, Adding, Dooming
<1>1. UNCHANGED <<file, faults>>
  BY DEF Aside, SyncList, SyncSet, SyncPort, StartService, PersistStart, StopOfStop, RestartLooks,
         DeleteLooks, StopOfDelete, DeleteRecords, DeleteList, DeleteRoute, ClearProject, DeleteRow,
         CreateLooks, CreateRoute, CreatePort, InsertCertificate, SetSSLEnabled
<1>2. req[c].pc \notin Critical
  BY <1>c
  DEF Aside, SyncList, SyncSet, SyncPort, StartService, PersistStart, StopOfStop, RestartLooks,
      DeleteLooks, StopOfDelete, DeleteRecords, DeleteList, DeleteRoute, ClearProject, DeleteRow,
      CreateLooks, CreateRoute, CreatePort, InsertCertificate, SetSSLEnabled, At
<1>3. \A e \in Caller : e # c => req'[e] = req[e]
  BY <1>t
  DEF Aside, SyncList, SyncSet, SyncPort, StartService, PersistStart, StopOfStop, RestartLooks,
      DeleteLooks, StopOfDelete, DeleteRecords, DeleteList, DeleteRoute, ClearProject, DeleteRow,
      CreateLooks, CreateRoute, CreatePort, InsertCertificate, SetSSLEnabled, Goto, Answer
<1>4. req'[c].pc \notin Critical
  <2>1. CASE \/ PersistStart(c) \/ StartService(c) \/ StopOfStop(c) \/ InsertCertificate(c) \/ DeleteRow(c)
             \/ SetSSLEnabled(c) \/ CreatePort(c) \/ DeleteLooks(c) \/ StopOfDelete(c)
             \/ DeleteRecords(c) \/ CreateRoute(c)
    <3>1. \/ Answer(c) \/ Goto(c, "spPersist") \/ Goto(c, "svPersist") \/ Goto(c, "syncList")
          \/ Goto(c, "icEnable") \/ Goto(c, "dpRecords") \/ Goto(c, "dpStop") \/ Goto(c, "dpList")
          \/ Goto(c, "cdPort")
      BY <2>1
      DEF PersistStart, StartService, StopOfStop, InsertCertificate, DeleteRow, SetSSLEnabled, CreatePort,
          DeleteLooks, StopOfDelete, DeleteRecords, CreateRoute
    <3> QED BY <1>c, <3>1, GotoMoves, AnswerMoves
  <2>2. CASE SyncList(c) \/ DeleteList(c) \/ SyncPort(c) \/ ClearProject(c)
    BY <1>c, <2>2, <1>t DEF SyncList, DeleteList, SyncPort, ClearProject, ReqRec
  <2>3. CASE SyncSet(c)
    <3>1. CASE req[c].list = {}
      BY <1>c, <2>3, <3>1, AnswerMoves DEF SyncSet
    <3>2. CASE req[c].list # {}
      <4> DEFINE d == CHOOSE d \in req[c].list : TRUE
                 skip == [req[c] EXCEPT !.list = @ \ {d}]
                 set  == [req[c] EXCEPT !.pc = "syncPort", !.d = d, !.list = @ \ {d}]
      <4>1. req' = [req EXCEPT ![c] = skip] \/ req' = [req EXCEPT ![c] = set]
        BY <2>3, <3>2 DEF SyncSet
      <4>2. skip.pc = req[c].pc /\ set.pc = "syncPort"
        BY <1>t DEF ReqRec
      <4> HIDE DEF skip, set
      <4> QED BY <4>1, <4>2, <1>t, <1>2, <1>c
    <3> QED BY <3>1, <3>2
  <2>4. CASE DeleteRoute(c)
    <3>1. CASE req[c].list = {}
      BY <1>c, <2>4, <3>1, GotoMoves DEF DeleteRoute
    <3>2. CASE req[c].list # {}
      <4> DEFINE d   == CHOOSE d \in req[c].list : TRUE
                 clr == [req[c] EXCEPT !.pc = "dpClear", !.d = d, !.list = @ \ {d}]
      <4>1. req' = [req EXCEPT ![c] = clr]
        BY <2>4, <3>2 DEF DeleteRoute
      <4>2. clr.pc = "dpClear"
        BY <1>t DEF ReqRec
      <4> HIDE DEF clr
      <4> QED BY <4>1, <4>2, <1>t, <1>c
    <3> QED BY <3>1, <3>2
  <2>5. CASE CreateLooks(c) \/ RestartLooks(c)
    <3>1. CASE Answer(c)
      BY <1>c, <3>1, AnswerMoves
    <3>2. CASE ~Answer(c) /\ CreateLooks(c)
      BY <1>c, <3>2, <1>t DEF CreateLooks, ReqRec
    <3>3. CASE ~Answer(c) /\ RestartLooks(c)
      BY <1>c, <3>3, <1>t DEF RestartLooks, ReqRec
    <3> QED BY <2>5, <3>1, <3>2, <3>3
  <2> QED BY <2>1, <2>2, <2>3, <2>4, <2>5 DEF Aside
<1> QED BY <1>1, <1>2, <1>3, <1>4

\* The steps of a handler that do not touch the hosts file.
LEMMA FileElsewhere ==
  ASSUME Shape, NEW c \in Caller, Aside(c) \/ InsertDomain(c) \/ Rollback(c) \/ DomainRoute(c) \/ DomainRow(c)
  PROVE  /\ UNCHANGED file
         /\ req[c].pc \notin Rewriting /\ req'[c].pc \notin Rewriting
         /\ \A e \in Caller : e # c => req'[e] = req[e]
<1>t. req \in [Caller -> ReqRec] /\ req[c] \in ReqRec
  BY DEF Shape
<1>1. CASE Aside(c)
  BY <1>1, AsideMoves DEF Critical, Working, Adding, Rewriting
<1>2. CASE Rollback(c) \/ DomainRoute(c) \/ DomainRow(c)
  <2>1. UNCHANGED file /\ req[c].pc \notin Rewriting /\ (Answer(c) \/ Goto(c, "ddDelete"))
    BY <1>2 DEF Rollback, DomainRoute, DomainRow, At, Rewriting
  <2> QED BY <2>1, GotoMoves, AnswerMoves DEF Rewriting
<1>3. CASE InsertDomain(c)
  <2>1. UNCHANGED file /\ req[c].pc \notin Rewriting
    BY <1>3 DEF InsertDomain, At, Rewriting
  <2>2. CASE Answer(c)
    BY <2>1, <2>2, AnswerMoves DEF Rewriting
  <2>3. CASE ~Answer(c)
    <3>1. PICK d : req' = [req EXCEPT ![c].pc = "cdAdd", ![c].d = d]
      BY <1>3, <2>3 DEF InsertDomain
    <3>2. req'[c].pc = "cdAdd" /\ \A e \in Caller : e # c => req'[e] = req[e]
      BY <1>t, <3>1 DEF ReqRec
    <3> QED BY <2>1, <3>2 DEF Rewriting
  <2> QED BY <2>2, <2>3
<1> QED BY <1>1, <1>2, <1>3

LEMMA NextFile == Shape /\ FileInv /\ [Next]_vars => FileInv'
<1> SUFFICES ASSUME Shape, FileInv, [Next]_vars PROVE FileInv'
  OBVIOUS
<1>1. ASSUME NEW c \in Caller, Request(c) PROVE FileInv'
  <2>1. PICK r : Fresh(r) /\ Begin(c, r) /\ UNCHANGED file
    BY <1>1, RequestBegins
  <2>2. req'[c] = r /\ \A e \in Caller : e # c => req'[e] = req[e]
    BY <2>1, BeginMoves
  <2>3. r.pc \notin Rewriting /\ req[c].pc \notin Rewriting
    BY <2>1 DEF Fresh, Begin, At, Rewriting
  <2> QED BY <2>1, <2>2, <2>3, FileFrame
<1>2. ASSUME NEW c \in Caller, Handler(c) PROVE FileInv'
  <2>1. CASE HostsAdd(c) \/ HostsRemove(c) \/ HostsTruncate(c) \/ HostsFill(c)
    BY <2>1, FileRead, FileTruncated, FileFilled
  <2>2. CASE Aside(c) \/ InsertDomain(c) \/ Rollback(c) \/ DomainRoute(c) \/ DomainRow(c)
    <3>1. /\ UNCHANGED file
          /\ req[c].pc \notin Rewriting /\ req'[c].pc \notin Rewriting
          /\ \A e \in Caller : e # c => req'[e] = req[e]
      BY <2>2, FileElsewhere
    <3> QED BY <3>1, FileFrame
  <2> QED BY <1>2, <2>1, <2>2 DEF Handler, Aside
<1>3. ASSUME NEW p \in Project, CreateProject(p) \/ Exit(p) \/ Restart(p) PROVE FileInv'
  <2>1. UNCHANGED <<file, req>>
    BY <1>3 DEF CreateProject, Exit, Restart
  <2> QED BY <2>1, FileFrame
<1>4. ASSUME NEW l \in Line, EditHosts(l) PROVE FileInv'
  <2>1. UNCHANGED <<req, copy, torn>> /\ (Locked' <=> Locked)
    BY <1>4 DEF EditHosts, Locked
  <2>2. OneRewrites' /\ CopyFits'
    BY <2>1 DEF FileInv, OneRewrites, CopyFits, Rewriting, Managed, Blank, Line
  <2>3. SavedSomewhere'
    <3>1. ~Locked => \A c \in Caller : req[c].pc \notin Filling
      BY DEF Locked, Rewriting, Filling
    <3>2. CASE hosts[l] = "volt" /\ hosts' = [hosts EXCEPT ![l] = "moved"] /\ UNCHANGED saved
      BY <2>1, <3>2 DEF FileInv, SavedSomewhere, Shape, Lines
    <3>3. CASE /\ hosts[l] = "none" /\ hosts' = [hosts EXCEPT ![l] = "foreign"]
               /\ saved' = [saved EXCEPT ![l] = IF Locked THEN "late" ELSE "yes"]
      <4>1. /\ saved' \in [Line -> {"no", "yes", "late"}]
            /\ \A m \in Line : m # l => saved'[m] = saved[m] /\ hosts'[m] = hosts[m]
            /\ hosts'[l] = "foreign" /\ (Locked => saved'[l] = "late")
        BY <3>3 DEF FileInv, SavedSomewhere, Shape, Lines
      <4> QED BY <2>1, <4>1 DEF FileInv, SavedSomewhere
    <3> QED BY <1>4, <3>2, <3>3 DEF EditHosts
  <2> QED BY <2>2, <2>3 DEF FileInv
<1>5. CASE Crash
  <2>1. (\A c \in Caller : req'[c].pc = "idle") /\ copy' = Blank /\ UNCHANGED <<hosts, saved>>
    BY <1>5 DEF Crash, Idle
  <2>2. OneRewrites' /\ CopyFits'
    BY <2>1 DEF OneRewrites, CopyFits, Rewriting
  <2>3. SavedSomewhere'
    <3>1. torn' = {} => torn = {} /\ \A c \in Caller : req[c].pc \notin Filling
      BY <1>5 DEF Crash, Filling
    <3>2. ~Locked'
      BY <2>1 DEF Locked, Rewriting
    <3> QED BY <2>1, <3>1, <3>2 DEF FileInv, SavedSomewhere
  <2> QED BY <2>2, <2>3 DEF FileInv
<1>6. CASE UNCHANGED vars
  <2>1. UNCHANGED <<file, req>>
    BY <1>6 DEF vars
  <2> QED BY <2>1, FileFrame
<1> QED BY <1>1, <1>2, <1>3, <1>4, <1>5, <1>6 DEF Next

\* A line its owner has saved is there again after every rewrite that is carried
\* through: what is being written then was read before, by the only one who writes,
\* and only volt's own line is different.
THEOREM ForeignIsKeptTheorem == Spec => []ForeignIsKept
<1>1. Init => Shape /\ FileInv
  BY InitShape, InitFile
<1>2. Shape /\ FileInv /\ [Next]_vars => (Shape /\ FileInv)'
  BY NextShape, NextFile
<1>3. FileInv => ForeignIsKept
  BY DEF FileInv, SavedSomewhere, ForeignIsKept, Locked, Filling, Rewriting
<1> QED BY <1>1, <1>2, <1>3, PTL DEF Spec

-----------------------------------------------------------------------------
(* Every line of ours has a row                                               *)

\* A domain has a host name, from the request on ...
NameGiven ==
  /\ \A c \in Caller : req[c].pc = "cdInsert" => req[c].h \in Host
  /\ \A d \in Dom : dom[d].st # "new" => dom[d].host \in Host

\* ... typed as the proxy and the hosts file keep it, where all are.
NamePlain ==
  "spelling" \notin faults =>
    /\ \A c \in Caller : req[c].pc = "cdInsert" => Plain(req[c].h)
    /\ \A d \in Dom : dom[d].st # "new" => Plain(dom[d].host)

\* A host name as it was typed has one row.
OneRow == \A d, e \in Dom :
            dom[d].st = "row" /\ dom[e].st = "row" /\ dom[d].host = dom[e].host => d = e

\* A handler knows a row that was there, under its host name.
RowKnown ==
  \A c \in Caller : req[c].pc \in Working =>
    /\ req[c].d \in Dom /\ req[c].h \in Host
    /\ dom[req[c].d].st # "new" /\ dom[req[c].d].host = req[c].h

NamesInv == NameGiven /\ NamePlain /\ OneRow /\ RowKnown

\* What needs a row of its own for line l: the line itself ({}), in the file or in the
\* copy that is about to be written, and each handler that is about to write it.
Held(l)   == hosts[l] \in Managed \/ copy[l] \in Managed
Claims(l) == {x \in SUBSET Caller :
                \/ x = {} /\ Held(l)
                \/ \E c \in Caller : x = {c} /\ req[c].pc \in Adding /\ Fold[req[c].h] = l}

\* The rows of line l that no handler is about to delete.
Doomed(d) == \E c \in Caller : req[c].pc \in Dooming /\ req[c].d = d
Spare(l)   == {d \in Rows : Fold[dom[d].host] = l /\ ~Doomed(d)}

\* There are enough.
Embeds(T, S) == \E f \in [T -> S] : \A x, y \in T : f[x] = f[y] => x = y
Enough == "failed" \notin torn => \A l \in Line : Embeds(Claims(l), Spare(l))

EntryInv == Shape /\ FileInv /\ NamesInv /\ Enough

\* Fewer claims on more rows.
LEMMA Fewer ==
  ASSUME NEW T, NEW S, NEW U, NEW R, Embeds(T, S), U \subseteq T, S \subseteq R
  PROVE  Embeds(U, R)
<1>1. PICK f \in [T -> S] : \A x, y \in T : f[x] = f[y] => x = y
  BY DEF Embeds
<1> DEFINE g == [x \in U |-> f[x]]
<1>2. g \in [U -> R]
  OBVIOUS
<1>3. \A x, y \in U : g[x] = g[y] => x = y
  BY <1>1
<1> QED BY <1>2, <1>3 DEF Embeds

\* A claim is given up, and with it any row: who has that row takes the other one.
LEMMA OneLess ==
  ASSUME NEW T, NEW S, NEW x \in T, NEW d \in Dom, NEW U, NEW R,
         Embeds(T, S), U \subseteq T \ {x}, S \ {d} \subseteq R
  PROVE  Embeds(U, R)
<1>1. PICK f \in [T -> S] : \A y, z \in T : f[y] = f[z] => y = z
  BY DEF Embeds
<1> DEFINE g == [y \in U |-> IF f[y] = d THEN f[x] ELSE f[y]]
<1>2. ASSUME NEW y \in U PROVE g[y] \in S \ {d} /\ y \in T /\ f[y] # f[x]
  BY <1>1
<1>3. g \in [U -> R]
  BY <1>2
<1>4. ASSUME NEW y \in U, NEW z \in U, g[y] = g[z] PROVE y = z
  BY <1>1, <1>2, <1>4
<1> QED BY <1>3, <1>4 DEF Embeds

\* A claim and a row more.
LEMMA OneMore ==
  ASSUME NEW T, NEW S, NEW x, NEW d, d \notin S, NEW U, NEW R, x \in U,
         Embeds(T, S), U \subseteq T \cup {x}, S \cup {d} \subseteq R
  PROVE  Embeds(U, R)
<1>1. PICK f \in [T -> S] : \A y, z \in T : f[y] = f[z] => y = z
  BY DEF Embeds
<1> DEFINE g == [y \in U |-> IF y = x THEN d ELSE f[y]]
<1>2. g \in [U -> R]
  OBVIOUS
<1>3. ASSUME NEW y \in U, NEW z \in U, g[y] = g[z] PROVE y = z
  <2>1. y # x => y \in T /\ f[y] \in S
    OBVIOUS
  <2>2. z # x => z \in T /\ f[z] \in S
    OBVIOUS
  <2> QED BY <1>1, <1>3, <2>1, <2>2
<1> QED BY <1>2, <1>3 DEF Embeds

\* A claim becomes another one.
LEMMA OneElse ==
  ASSUME NEW T, NEW S, NEW x \in T, NEW U, NEW R, NEW y \in U,
         Embeds(T, S), U \subseteq (T \ {x}) \cup {y}, S \subseteq R
  PROVE  Embeds(U, R)
<1>1. PICK f \in [T -> S] : \A w, z \in T : f[w] = f[z] => w = z
  BY DEF Embeds
<1>2. CASE y \in T \ {x}
  BY <1>2, Fewer
<1>3. CASE y \notin T \ {x}
  <2> DEFINE g == [z \in U |-> IF z = y THEN f[x] ELSE f[z]]
  <2>1. ASSUME NEW z \in U PROVE g[z] \in S /\ (z # y => z \in T /\ z # x)
    BY <1>1
  <2>2. g \in [U -> R]
    BY <2>1
  <2>3. ASSUME NEW w \in U, NEW z \in U, g[w] = g[z] PROVE w = z
    BY <1>1, <2>1, <2>3
  <2> QED BY <2>2, <2>3 DEF Embeds
<1> QED BY <1>2, <1>3

LEMMA InitEntry == Init => EntryInv
<1> SUFFICES ASSUME Init PROVE EntryInv
  OBVIOUS
<1>1. Shape /\ FileInv
  BY InitShape, InitFile
<1>2. \A c \in Caller : req[c].pc = "idle"
  BY DEF Init, Idle
<1>3. \A d \in Dom : dom[d].st = "new"
  BY DEF Init, NewDom
<1>4. NamesInv
  BY <1>2, <1>3 DEF NamesInv, NameGiven, NamePlain, OneRow, RowKnown, Working, Adding, Dooming
<1>5. ASSUME NEW l \in Line PROVE Embeds(Claims(l), Spare(l))
  <2>1. hosts[l] \notin Managed /\ copy[l] \notin Managed
    BY DEF Init, Managed, Blank
  <2>2. Claims(l) = {}
    BY <1>2, <2>1 DEF Claims, Held, Adding
  <2>3. [x \in {} |-> x] \in [{} -> Spare(l)]
    OBVIOUS
  <2> QED BY <2>2, <2>3 DEF Embeds
<1> QED BY <1>1, <1>4, <1>5 DEF EntryInv, Enough

\* Steps that insert no row and bring no handler to one that it did not know.
LEMMA NamesKept ==
  ASSUME NamesInv, faults' = faults,
         \A d \in Dom : /\ dom'[d].host = dom[d].host
                        /\ dom'[d].st = dom[d].st \/ (dom[d].st = "row" /\ dom'[d].st = "gone"),
         \A c \in Caller : req'[c].pc \in Critical =>
           /\ req'[c].d = req[c].d /\ req'[c].h = req[c].h
           /\ IF req'[c].pc = "cdInsert" THEN req[c].pc = "cdInsert" ELSE req[c].pc \in Working
  PROVE  NamesInv'
<1>1. \A c \in Caller : /\ req'[c].pc = "cdInsert" => req[c].pc = "cdInsert" /\ req'[c].h = req[c].h
                        /\ req'[c].pc \in Working =>
                             req[c].pc \in Working /\ req'[c].d = req[c].d /\ req'[c].h = req[c].h
  BY DEF Critical, Working, Adding, Dooming
<1>2. NameGiven' /\ NamePlain'
  BY <1>1 DEF NamesInv, NameGiven, NamePlain, Plain
<1>3. OneRow'
  BY DEF NamesInv, OneRow
<1>4. RowKnown'
  BY <1>1 DEF NamesInv, RowKnown
<1> QED BY <1>2, <1>3, <1>4 DEF NamesInv

\* Steps that raise no claim and doom no row.
LEMMA EnoughKept ==
  ASSUME Enough, "failed" \in torn => "failed" \in torn',
         \A d \in Dom : dom[d].st = "row" => (dom'[d].st = "row" /\ dom'[d].host = dom[d].host) \/ Doomed(d),
         \A l \in Line : Held(l)' => Held(l),
         \A c \in Caller : /\ req'[c].pc \in Adding => req[c].pc \in Adding /\ req'[c].h = req[c].h
                           /\ req'[c].pc \in Dooming => req[c].pc \in Dooming /\ req'[c].d = req[c].d
  PROVE  Enough'
<1> SUFFICES ASSUME "failed" \notin torn', NEW l \in Line PROVE Embeds(Claims(l)', Spare(l)')
  BY DEF Enough
<1>1. Embeds(Claims(l), Spare(l))
  BY DEF Enough
<1>2. Claims(l)' \subseteq Claims(l)
  BY DEF Claims
<1>3. \A d : Doomed(d)' => Doomed(d)
  BY DEF Doomed
<1>4. Spare(l) \subseteq Spare(l)'
  BY <1>3 DEF Spare, Rows
<1> QED BY <1>1, <1>2, <1>4, Fewer

\* A step that leaves rows and host names alone and writes no line, and a handler that goes on
\* to the next step of the same kind or to none of those of interest.
LEMMA Harmless ==
  ASSUME EntryInv, Shape', FileInv', faults' = faults, torn' = torn,
         \A l \in Line : Held(l)' => Held(l),
         \A d \in Dom : dom'[d].st = dom[d].st /\ dom'[d].host = dom[d].host,
         \A c \in Caller :
           \/ req'[c] = req[c] \/ req'[c].pc \notin Critical
           \/ /\ req'[c].d = req[c].d /\ req'[c].h = req[c].h
              /\ \/ req[c].pc \in Adding /\ req'[c].pc \in Adding
                 \/ req[c].pc \in Dooming /\ req'[c].pc \in Dooming
                 \/ req[c].pc \in Working /\ req'[c].pc \in Working \ (Adding \cup Dooming)
  PROVE  EntryInv'
<1>1. NamesInv'
  <2>1. \A c \in Caller : req'[c].pc \in Critical =>
           /\ req'[c].d = req[c].d /\ req'[c].h = req[c].h
           /\ IF req'[c].pc = "cdInsert" THEN req[c].pc = "cdInsert" ELSE req[c].pc \in Working
    BY DEF Critical, Working, Adding, Dooming
  <2> QED BY <2>1, NamesKept DEF EntryInv
<1>2. Enough'
  <2>1. \A c \in Caller : /\ req'[c].pc \in Adding => req[c].pc \in Adding /\ req'[c].h = req[c].h
                          /\ req'[c].pc \in Dooming => req[c].pc \in Dooming /\ req'[c].d = req[c].d
    BY DEF Critical, Working, Adding, Dooming
  <2> QED BY <2>1, EnoughKept DEF EntryInv
<1> QED BY <1>1, <1>2 DEF EntryInv

\* A request begins: it knows the name or the row it is about.
LEMMA RequestEntry ==
  ASSUME EntryInv, Shape', FileInv', NEW c \in Caller, Request(c)
  PROVE  EntryInv'
<1>t. Shape
  BY DEF EntryInv
<1>1. PICK r : Fresh(r) /\ Begin(c, r) /\ UNCHANGED <<tables, file, route, manager, faults>>
  BY <1>t, RequestBegins
<1>2. /\ req'[c] = r /\ \A e \in Caller : e # c => req'[e] = req[e]
      /\ UNCHANGED <<dom, hosts, copy, torn, faults>>
  BY <1>1, <1>t, BeginMoves DEF tables, file
<1>3. /\ r.pc \notin Adding \cup Dooming
      /\ r.pc = "cdInsert" => r.h \in Host /\ (Plain(r.h) \/ "spelling" \in faults)
      /\ r.pc \in Working => r.pc = "ddRemove" /\ r.d \in Rows /\ r.h = dom[r.d].host
  BY <1>1 DEF Fresh, Working, Adding, Dooming
<1>4. NamesInv'
  <2>1. NameGiven' /\ OneRow'
    BY <1>2, <1>3 DEF EntryInv, NamesInv, NameGiven, OneRow
  <2>2. NamePlain'
    BY <1>2, <1>3 DEF EntryInv, NamesInv, NamePlain, Plain
  <2>3. RowKnown'
    <3>1. r.pc \in Working => r.d \in Dom /\ r.h \in Host /\ dom[r.d].st # "new" /\ dom[r.d].host = r.h
      BY <1>3 DEF EntryInv, NamesInv, NameGiven, Rows
    <3> QED BY <1>2, <3>1 DEF EntryInv, NamesInv, RowKnown
  <2> QED BY <2>1, <2>2, <2>3 DEF NamesInv
<1>5. Enough'
  <2>1. \A e \in Caller : /\ req'[e].pc \in Adding => req[e].pc \in Adding /\ req'[e].h = req[e].h
                          /\ req'[e].pc \in Dooming => req[e].pc \in Dooming /\ req'[e].d = req[e].d
    BY <1>2, <1>3
  <2>2. \A l \in Line : Held(l)' => Held(l)
    BY <1>2 DEF Held, Managed
  <2> QED BY <1>2, <2>1, <2>2, EnoughKept DEF EntryInv
<1> QED BY <1>4, <1>5 DEF EntryInv

\* The row is new and nobody is about to delete it: its inserter may claim it.
LEMMA InsertDomainEntry ==
  ASSUME EntryInv, Shape', FileInv', NEW c \in Caller, InsertDomain(c)
  PROVE  EntryInv'
<1>t. req \in [Caller -> ReqRec] /\ req[c] \in ReqRec /\ dom \in [Dom -> DomRec] /\ Shape
  BY DEF EntryInv, Shape
<1>f. UNCHANGED <<hosts, copy, torn, faults>> /\ req[c].pc = "cdInsert"
  BY DEF InsertDomain, file, At
<1>1. CASE Answer(c) /\ UNCHANGED dom
  <2>1. \A e \in Caller : req'[e] = req[e] \/ req'[e].pc \notin Critical
    BY <1>1, <1>t, AnswerMoves DEF Critical, Working, Adding, Dooming
  <2>2. \A l \in Line : Held(l)' => Held(l)
    BY <1>f DEF Held, Managed
  <2> QED BY <1>1, <1>f, <2>1, <2>2, Harmless
<1>2. CASE ~(Answer(c) /\ UNCHANGED dom)
  <2>1. PICK d \in Dom :
          /\ dom[d].st = "new" /\ ~Taken(req[c].h)
          /\ dom' = [dom EXCEPT ![d] = [st |-> "row", host |-> req[c].h, project |-> req[c].p, port |-> None]]
          /\ req' = [req EXCEPT ![c] = [req[c] EXCEPT !.pc = "cdAdd", !.d = d]]
    BY <1>2, <1>t DEF InsertDomain
  <2>2. /\ req'[c].pc = "cdAdd" /\ req'[c].d = d /\ req'[c].h = req[c].h
        /\ \A e \in Caller : e # c => req'[e] = req[e]
    BY <2>1, <1>t DEF ReqRec
  <2>3. /\ dom'[d].st = "row" /\ dom'[d].host = req[c].h
        /\ \A e \in Dom : e # d => dom'[e] = dom[e]
    BY <2>1, <1>t
  <2>4. req[c].h \in Host /\ ("spelling" \notin faults => Plain(req[c].h))
    BY <1>f DEF EntryInv, NamesInv, NameGiven, NamePlain
  <2>5. \A e \in Dom : dom[e].st = "row" => dom[e].host # req[c].h
    BY <2>1 DEF Taken, Rows
  <2>6. NamesInv'
    <3>1. NameGiven' /\ NamePlain'
      BY <1>f, <2>2, <2>3, <2>4 DEF EntryInv, NamesInv, NameGiven, NamePlain, Plain
    <3>2. OneRow'
      BY <2>3, <2>5 DEF EntryInv, NamesInv, OneRow
    <3>3. RowKnown'
      BY <2>1, <2>2, <2>3, <2>4 DEF EntryInv, NamesInv, RowKnown
    <3> QED BY <3>1, <3>2, <3>3 DEF NamesInv
  <2>7. Enough'
    <3> SUFFICES ASSUME "failed" \notin torn', NEW l \in Line PROVE Embeds(Claims(l)', Spare(l)')
      BY DEF Enough
    <3>1. Embeds(Claims(l), Spare(l))
      BY <1>f DEF EntryInv, Enough
    <3>2. \A e \in Caller : req'[e].pc \in Dooming => e # c /\ req[e].pc \in Dooming /\ req'[e].d = req[e].d
      BY <2>2 DEF Dooming
    <3>3. ~Doomed(d)' /\ \A e : Doomed(e)' => Doomed(e)
      <4>1. \A e \in Caller : req[e].pc \in Dooming => req[e].d # d
        BY <2>1 DEF EntryInv, NamesInv, RowKnown, Working
      <4> QED BY <3>2, <4>1 DEF Doomed
    <3>4. Held(l)' <=> Held(l)
      BY <1>f DEF Held, Managed
    <3>5. Spare(l) \subseteq Spare(l)' /\ d \notin Spare(l)
      BY <2>1, <2>3, <3>3 DEF Spare, Rows
    <3>6. CASE Fold[req[c].h] = l
      <4>0. {c} \in Claims(l)'
        BY <2>2, <3>6 DEF Claims, Adding
      <4>1. Claims(l)' \subseteq Claims(l) \cup {{c}}
        BY <2>2, <3>4 DEF Claims
      <4>2. d \in Spare(l)'
        BY <2>3, <3>3, <3>6 DEF Spare, Rows
      <4>3. Spare(l) \cup {d} \subseteq Spare(l)'
        BY <3>5, <4>2
      <4> DEFINE T == Claims(l)
                 S == Spare(l)
                 U == Claims(l)'
                 R == Spare(l)'
                 x == {c}
      <4>4. Embeds(T, S) /\ d \notin S /\ x \in U /\ U \subseteq T \cup {x} /\ S \cup {d} \subseteq R
        BY <3>1, <3>5, <4>0, <4>1, <4>3
      <4> HIDE DEF T, S, U, R, x
      <4>5. Embeds(U, R)
        BY <4>4, OneMore
      <4> QED BY <4>5 DEF U, R
    <3>7. CASE Fold[req[c].h] # l
      <4>1. Claims(l)' \subseteq Claims(l)
        BY <2>2, <3>4, <3>7 DEF Claims
      <4> QED BY <3>1, <3>5, <4>1, Fewer
    <3> QED BY <3>6, <3>7
  <2> QED BY <2>6, <2>7 DEF EntryInv
<1> QED BY <1>1, <1>2

\* Request c gives its claim up, and dooms the row it has inserted.
LEMMA GivesUp ==
  ASSUME EntryInv, Shape', FileInv', NEW c \in Caller, req[c].pc \in Adding, Goto(c, "cdRollback"),
         UNCHANGED <<dom, hosts, torn, faults>>, \A l \in Line : Held(l)' => Held(l)
  PROVE  EntryInv'
<1>1. /\ req'[c].pc = "cdRollback" /\ req'[c].d = req[c].d /\ req'[c].h = req[c].h
      /\ \A e \in Caller : e # c => req'[e] = req[e]
  BY GotoMoves DEF EntryInv
<1>2. NamesInv'
  <2>1. \A e \in Caller : req'[e].pc \in Critical =>
           /\ req'[e].d = req[e].d /\ req'[e].h = req[e].h
           /\ IF req'[e].pc = "cdInsert" THEN req[e].pc = "cdInsert" ELSE req[e].pc \in Working
    BY <1>1 DEF Critical, Working
  <2> QED BY <2>1, NamesKept DEF EntryInv
<1>3. Enough'
  <2> SUFFICES ASSUME "failed" \notin torn', NEW l \in Line PROVE Embeds(Claims(l)', Spare(l)')
    BY DEF Enough
  <2>1. Embeds(Claims(l), Spare(l))
    BY DEF EntryInv, Enough
  <2>2. Claims(l)' \subseteq Claims(l) \ {{c}}
    <3>1. \A e \in Caller : req'[e].pc \in Adding => e # c
      BY <1>1 DEF Adding
    <3>2. \A e \in Caller : {e} = {c} => e = c
      OBVIOUS
    <3> QED BY <1>1, <3>1, <3>2 DEF Claims
  <2>3. Spare(l) \ {req[c].d} \subseteq Spare(l)'
    BY <1>1 DEF Spare, Rows, Doomed
  <2>4. CASE Fold[req[c].h] = l
    <3>1. {c} \in Claims(l)
      BY <2>4 DEF Claims
    <3> DEFINE T == Claims(l)
               S == Spare(l)
               U == Claims(l)'
               R == Spare(l)'
               x == {c}
               d == req[c].d
    <3>2. d \in Dom
      BY DEF EntryInv, NamesInv, RowKnown, Working
    <3>3. x \in T /\ d \in Dom /\ Embeds(T, S) /\ U \subseteq T \ {x} /\ S \ {d} \subseteq R
      BY <2>1, <2>2, <2>3, <3>1, <3>2
    <3> HIDE DEF T, S, U, R, x, d
    <3>4. Embeds(U, R)
      BY <3>3, OneLess
    <3> QED BY <3>4 DEF U, R
  <2>5. CASE Fold[req[c].h] # l
    <3>1. req[c].d \notin Spare(l)
      BY <2>5 DEF Spare, EntryInv, NamesInv, RowKnown, Working
    <3> QED BY <2>1, <2>2, <2>3, <3>1, Fewer
  <2> QED BY <2>4, <2>5
<1> QED BY <1>2, <1>3 DEF EntryInv

LEMMA HostsAddEntry ==
  ASSUME EntryInv, Shape', FileInv', NEW c \in Caller, HostsAdd(c)
  PROVE  EntryInv'
<1>t. Shape /\ req[c].pc = "cdAdd" /\ ~Locked /\ UNCHANGED <<dom, hosts, torn, faults>>
  BY DEF EntryInv, HostsAdd, At, tables
<1>0. (copy' = hosts \/ copy' = copy) /\ \A l \in Line : Held(l)' => Held(l)
  BY <1>t DEF HostsAdd, Held, Managed
<1>1. CASE Goto(c, "cdWrite") \/ Goto(c, "cdLive")
  <2>1. \A e \in Caller :
           \/ req'[e] = req[e] \/ req'[e].pc \notin Critical
           \/ /\ req'[e].d = req[e].d /\ req'[e].h = req[e].h
              /\ req[e].pc \in Adding /\ req'[e].pc \in Adding
    BY <1>t, <1>1, GotoMoves DEF Critical, Working, Adding, Dooming
  <2> QED BY <1>t, <1>0, <2>1, Harmless
<1>2. CASE Goto(c, "cdRollback")
  BY <1>t, <1>0, <1>2, GivesUp DEF Adding
<1> QED BY <1>1, <1>2 DEF HostsAdd

LEMMA HostsRemoveEntry ==
  ASSUME EntryInv, Shape', FileInv', NEW c \in Caller, HostsRemove(c)
  PROVE  EntryInv'
<1>t. Shape /\ req[c].pc = "ddRemove" /\ UNCHANGED <<dom, hosts, torn, faults>>
  BY DEF EntryInv, HostsRemove, At, tables
<1>0. (copy' = hosts \/ copy' = copy) /\ \A l \in Line : Held(l)' => Held(l)
  BY <1>t DEF HostsRemove, Held, Managed
<1>1. Goto(c, "ddWrite") \/ Answer(c)
  BY DEF HostsRemove
<1>2. \A e \in Caller :
           \/ req'[e] = req[e] \/ req'[e].pc \notin Critical
           \/ /\ req'[e].d = req[e].d /\ req'[e].h = req[e].h
              /\ req[e].pc \in Working /\ req'[e].pc \in Working \ (Adding \cup Dooming)
  BY <1>t, <1>1, GotoMoves, AnswerMoves DEF Critical, Working, Adding, Dooming
<1> QED BY <1>t, <1>0, <1>2, Harmless

LEMMA HostsTruncateEntry ==
  ASSUME EntryInv, Shape', FileInv', NEW c \in Caller, HostsTruncate(c)
  PROVE  EntryInv'
<1>t. Shape /\ req[c].pc \in {"cdWrite", "ddWrite"} /\ UNCHANGED <<dom, torn, faults>>
  BY DEF EntryInv, HostsTruncate, tables
<1>0. \A l \in Line : Held(l)' => Held(l)
  <2>1. (hosts' = hosts \/ hosts' = Blank) /\ (copy' = copy \/ copy' = Blank)
    BY DEF HostsTruncate, HostsWriteFails
  <2> QED BY <2>1 DEF Held, Managed, Blank
<1>1. CASE Goto(c, "cdRollback") /\ req[c].pc = "cdWrite" /\ UNCHANGED hosts
  BY <1>t, <1>0, <1>1, GivesUp DEF Adding
<1>2. CASE \/ Goto(c, "cdFill") /\ req[c].pc = "cdWrite"
           \/ Goto(c, "ddFill") /\ req[c].pc = "ddWrite"
           \/ Answer(c)
  <2>1. \A e \in Caller :
           \/ req'[e] = req[e] \/ req'[e].pc \notin Critical
           \/ /\ req'[e].d = req[e].d /\ req'[e].h = req[e].h
              /\ \/ req[e].pc \in Adding /\ req'[e].pc \in Adding
                 \/ req[e].pc \in Working /\ req'[e].pc \in Working \ (Adding \cup Dooming)
    BY <1>t, <1>2, GotoMoves, AnswerMoves DEF Critical, Working, Adding, Dooming
  <2> QED BY <1>t, <1>0, <2>1, Harmless
<1> QED BY <1>t, <1>1, <1>2 DEF HostsTruncate, HostsWriteFails, At

\* The line is written: the claim of its writer is now the claim of the line.
LEMMA HostsFillAdds ==
  ASSUME EntryInv, Shape', FileInv', NEW c \in Caller, req[c].pc = "cdFill",
         hosts' = [copy EXCEPT ![Fold[req[c].h]] = "volt"], copy' = Blank, Goto(c, "cdLive"),
         UNCHANGED <<dom, torn, faults>>
  PROVE  EntryInv'
<1>t. Shape /\ req[c].h \in Host
  BY DEF EntryInv, NamesInv, RowKnown, Working, Adding
<1>1. /\ req'[c].pc = "cdLive" /\ \A e \in Caller : e # c => req'[e] = req[e]
  BY <1>t, GotoMoves
<1>2. NamesInv'
  <2>1. \A e \in Caller : req'[e].pc \in Critical =>
           /\ req'[e].d = req[e].d /\ req'[e].h = req[e].h
           /\ IF req'[e].pc = "cdInsert" THEN req[e].pc = "cdInsert" ELSE req[e].pc \in Working
    BY <1>1 DEF Critical, Working, Adding, Dooming
  <2> QED BY <2>1, NamesKept DEF EntryInv
<1>3. Enough'
  <2> SUFFICES ASSUME "failed" \notin torn', NEW l \in Line PROVE Embeds(Claims(l)', Spare(l)')
    BY DEF Enough
  <2>1. Embeds(Claims(l), Spare(l))
    BY DEF EntryInv, Enough
  <2>2. Spare(l) \subseteq Spare(l)'
    BY <1>1 DEF Spare, Rows, Doomed, Dooming
  <2>3. l # Fold[req[c].h] => (Held(l)' => Held(l))
    BY <1>t DEF Held, Shape, Lines, Blank, Managed
  <2>4. \A e \in Caller : req'[e].pc \in Adding => e # c /\ req'[e] = req[e]
    BY <1>1 DEF Adding
  <2>5. CASE l = Fold[req[c].h]
    <3> DEFINE T == Claims(l)
               S == Spare(l)
               U == Claims(l)'
               R == Spare(l)'
               x == {c}
               y == {}
    <3>1. x \in T /\ U \subseteq (T \ {x}) \cup {y}
      <4>1. \A e \in Caller : {e} = {c} => e = c
        OBVIOUS
      <4> QED BY <2>4, <2>5, <4>1 DEF Claims, Adding
    <3>2. y \in U
      BY <1>t, <2>5 DEF Claims, Held, Shape, Lines, Managed
    <3>3. x \in T /\ Embeds(T, S) /\ U \subseteq (T \ {x}) \cup {y} /\ S \subseteq R /\ y \in U
      BY <2>1, <2>2, <3>1, <3>2
    <3> HIDE DEF T, S, U, R, x, y
    <3>4. Embeds(U, R)
      BY <3>3, OneElse
    <3> QED BY <3>4 DEF U, R
  <2>6. CASE l # Fold[req[c].h]
    <3>1. Claims(l)' \subseteq Claims(l)
      BY <2>3, <2>4, <2>6 DEF Claims
    <3> QED BY <2>1, <2>2, <3>1, Fewer
  <2> QED BY <2>5, <2>6
<1> QED BY <1>2, <1>3 DEF EntryInv

\* The line is taken out: its claim is given up, and with it the row of the remover.
LEMMA HostsFillRemoves ==
  ASSUME EntryInv, Shape', FileInv', NEW c \in Caller, req[c].pc = "ddFill",
         hosts' = [copy EXCEPT ![Fold[req[c].h]] = "none"], copy' = Blank, Goto(c, "ddRoute"),
         UNCHANGED <<dom, torn, faults>>
  PROVE  EntryInv'
<1>t. /\ Shape /\ req[c].h \in Host /\ req[c].d \in Dom /\ Fold[dom[req[c].d].host] = Fold[req[c].h]
      /\ copy[Fold[req[c].h]] \in Managed
  BY DEF EntryInv, NamesInv, RowKnown, Working, FileInv, CopyFits
<1>1. /\ req'[c].pc = "ddRoute" /\ req'[c].d = req[c].d /\ req'[c].h = req[c].h
      /\ \A e \in Caller : e # c => req'[e] = req[e]
  BY <1>t, GotoMoves
<1>2. NamesInv'
  <2>1. \A e \in Caller : req'[e].pc \in Critical =>
           /\ req'[e].d = req[e].d /\ req'[e].h = req[e].h
           /\ IF req'[e].pc = "cdInsert" THEN req[e].pc = "cdInsert" ELSE req[e].pc \in Working
    BY <1>1 DEF Critical, Working, Adding, Dooming
  <2> QED BY <2>1, NamesKept DEF EntryInv
<1>3. Enough'
  <2> SUFFICES ASSUME "failed" \notin torn', NEW l \in Line PROVE Embeds(Claims(l)', Spare(l)')
    BY DEF Enough
  <2>1. Embeds(Claims(l), Spare(l))
    BY DEF EntryInv, Enough
  <2>2. Spare(l) \ {req[c].d} \subseteq Spare(l)'
    BY <1>1 DEF Spare, Rows, Doomed
  <2>3. Held(l)' => Held(l) /\ l # Fold[req[c].h]
    BY <1>t DEF Held, Shape, Lines, Blank, Managed
  <2>4. \A e \in Caller : req'[e].pc \in Adding => req[e].pc \in Adding /\ req'[e] = req[e]
    BY <1>1 DEF Adding
  <2>5. CASE l = Fold[req[c].h]
    <3> DEFINE T == Claims(l)
               S == Spare(l)
               U == Claims(l)'
               R == Spare(l)'
               x == {}
               d == req[c].d
    <3>1. x \in T
      BY <1>t, <2>5 DEF Claims, Held
    <3>2. U \subseteq T \ {x}
      BY <2>3, <2>4, <2>5 DEF Claims
    <3>3. x \in T /\ d \in Dom /\ Embeds(T, S) /\ U \subseteq T \ {x} /\ S \ {d} \subseteq R
      BY <1>t, <2>1, <2>2, <3>1, <3>2
    <3> HIDE DEF T, S, U, R, x, d
    <3>4. Embeds(U, R)
      BY <3>3, OneLess
    <3> QED BY <3>4 DEF U, R
  <2>6. CASE l # Fold[req[c].h]
    <3>1. Claims(l)' \subseteq Claims(l)
      BY <2>3, <2>4 DEF Claims
    <3>2. req[c].d \notin Spare(l)
      BY <1>t, <2>6 DEF Spare
    <3>3. Spare(l) \subseteq Spare(l)'
      BY <2>2, <3>2
    <3> QED BY <2>1, <3>1, <3>3, Fewer
  <2> QED BY <2>5, <2>6
<1> QED BY <1>2, <1>3 DEF EntryInv

LEMMA HostsFillEntry ==
  ASSUME EntryInv, Shape', FileInv', NEW c \in Caller, HostsFill(c)
  PROVE  EntryInv'
<1>t. Shape /\ req[c].pc \in {"cdFill", "ddFill"} /\ UNCHANGED <<dom, faults>>
  BY DEF EntryInv, HostsFill, tables
<1>1. CASE HostsWriteFails(c) /\ torn' = torn \cup {"failed"}
  <2>1. \A e \in Caller : req'[e].pc \in Critical =>
           /\ req'[e].d = req[e].d /\ req'[e].h = req[e].h
           /\ IF req'[e].pc = "cdInsert" THEN req[e].pc = "cdInsert" ELSE req[e].pc \in Working
    BY <1>t, <1>1, GotoMoves, AnswerMoves DEF HostsWriteFails, Critical, Working, Adding, Dooming
  <2>2. NamesInv'
    BY <1>t, <2>1, NamesKept DEF EntryInv
  <2> QED BY <1>1, <2>2 DEF EntryInv, Enough
<1>2. CASE ~(HostsWriteFails(c) /\ torn' = torn \cup {"failed"})
  <2>1. /\ hosts' = [copy EXCEPT ![Fold[req[c].h]] = IF At(c, "cdFill") THEN "volt" ELSE "none"]
        /\ copy' = Blank /\ UNCHANGED torn
        /\ Goto(c, IF At(c, "cdFill") THEN "cdLive" ELSE "ddRoute")
    BY <1>2 DEF HostsFill
  <2>2. CASE req[c].pc = "cdFill"
    BY <1>t, <2>1, <2>2, HostsFillAdds DEF At
  <2>3. CASE req[c].pc = "ddFill"
    BY <1>t, <2>1, <2>3, HostsFillRemoves DEF At
  <2> QED BY <1>t, <2>2, <2>3
<1> QED BY <1>1, <1>2

\* A row that is deleted is one its handler has doomed.
LEMMA DeleteEntry ==
  ASSUME EntryInv, Shape', FileInv', NEW c \in Caller, Rollback(c) \/ DomainRow(c)
  PROVE  EntryInv'
<1>t. /\ Shape /\ req[c].pc \in Dooming /\ UNCHANGED <<file, faults>> /\ Answer(c)
      /\ dom \in [Dom -> DomRec] /\ DeleteDomainRow(req[c].d)
  BY DEF EntryInv, Rollback, DomainRow, At, Dooming, Shape
<1>1. req'[c].pc = "idle" /\ \A e \in Caller : e # c => req'[e] = req[e]
  BY <1>t, AnswerMoves
<1>2. \A e \in Dom : /\ dom'[e].host = dom[e].host
                     /\ \/ dom'[e].st = dom[e].st
                        \/ e = req[c].d /\ dom[e].st = "row" /\ dom'[e].st = "gone"
  <2>1. ASSUME req[c].d \in Rows, dom' = [dom EXCEPT ![req[c].d].st = "gone"]
        PROVE  \A e \in Dom : /\ dom'[e].host = dom[e].host
                              /\ \/ dom'[e].st = dom[e].st
                                 \/ e = req[c].d /\ dom[e].st = "row" /\ dom'[e].st = "gone"
    <3>1. req[c].d \in Dom /\ dom[req[c].d].st = "row"
      BY <2>1 DEF Rows
    <3> PICK d \in Dom : d = req[c].d
      BY <3>1
    <3>2. dom[d] \in DomRec
      BY <1>t
    <3> QED BY <1>t, <2>1, <3>1, <3>2 DEF DomRec
  <2>2. CASE dom' = dom
    BY <2>2
  <2> QED BY <1>t, <2>1, <2>2 DEF DeleteDomainRow
<1>3. NamesInv'
  <2>1. \A e \in Caller : req'[e].pc \in Critical =>
           /\ req'[e].d = req[e].d /\ req'[e].h = req[e].h
           /\ IF req'[e].pc = "cdInsert" THEN req[e].pc = "cdInsert" ELSE req[e].pc \in Working
    BY <1>1 DEF Critical, Working, Adding, Dooming
  <2> QED BY <1>t, <1>2, <2>1, NamesKept DEF EntryInv
<1>4. Enough'
  <2>1. \A d \in Dom : dom[d].st = "row" => (dom'[d].st = "row" /\ dom'[d].host = dom[d].host) \/ Doomed(d)
    BY <1>t, <1>2 DEF Doomed
  <2>2. \A l \in Line : Held(l)' => Held(l)
    BY <1>t DEF Held, file, Managed
  <2>3. \A e \in Caller : /\ req'[e].pc \in Adding => req[e].pc \in Adding /\ req'[e].h = req[e].h
                          /\ req'[e].pc \in Dooming => req[e].pc \in Dooming /\ req'[e].d = req[e].d
    BY <1>1 DEF Adding, Dooming
  <2>4. Enough /\ torn' = torn
    BY <1>t DEF EntryInv, file
  <2> QED BY <2>1, <2>2, <2>3, <2>4, EnoughKept
<1> QED BY <1>3, <1>4 DEF EntryInv

LEMMA DomainRouteEntry ==
  ASSUME EntryInv, Shape', FileInv', NEW c \in Caller, DomainRoute(c)
  PROVE  EntryInv'
<1>t. Shape /\ req[c].pc = "ddRoute" /\ UNCHANGED <<dom, file, faults>> /\ Goto(c, "ddDelete")
  BY DEF EntryInv, DomainRoute, At, tables
<1>1. \A e \in Caller :
           \/ req'[e] = req[e]
           \/ /\ req'[e].d = req[e].d /\ req'[e].h = req[e].h
              /\ req[e].pc \in Dooming /\ req'[e].pc \in Dooming
  BY <1>t, GotoMoves DEF Dooming
<1>2. \A l \in Line : Held(l)' => Held(l)
  BY <1>t DEF Held, file, Managed
<1>3. torn' = torn /\ dom' = dom /\ faults' = faults
  BY <1>t DEF file
<1> QED BY <1>1, <1>2, <1>3, Harmless

\* The other steps change ports and projects of rows, if anything of them.
LEMMA AsideRows ==
  ASSUME Shape, NEW c \in Caller, Aside(c)
  PROVE  \A d \in Dom : dom'[d].st = dom[d].st /\ dom'[d].host = dom[d].host
<1>t. dom \in [Dom -> DomRec]
  BY DEF Shape
<1>1. CASE SyncPort(c) \/ CreatePort(c)
  <2>1. CASE SetPort(req[c].d, req[c].port)
    <3>1. CASE req[c].d \in Rows
      <4> PICK d \in Dom : d = req[c].d
        BY <3>1 DEF Rows
      <4>1. dom[d] \in DomRec /\ dom' = [dom EXCEPT ![d].port = req[c].port]
        BY <1>t, <2>1, <3>1 DEF SetPort
      <4> QED BY <1>t, <4>1 DEF DomRec
    <3>2. CASE req[c].d \notin Rows
      BY <2>1, <3>2 DEF SetPort
    <3> QED BY <3>1, <3>2
  <2>2. CASE dom' = dom
    BY <2>2
  <2> QED BY <1>1, <2>1, <2>2 DEF SyncPort, CreatePort
<1>2. CASE ClearProject(c)
  <2>1. CASE dom' = dom
    BY <2>1
  <2>2. CASE dom' # dom
    <3>1. req[c].d \in Dom
      BY <1>2, <1>t, <2>2 DEF ClearProject
    <3> PICK d \in Dom : d = req[c].d
      BY <3>1
    <3>2. dom[d] \in DomRec
      BY <1>t
    <3>3. \/ dom' = [dom EXCEPT ![d] = [dom[d] EXCEPT !.project = None, !.port = None]]
          \/ dom' = [dom EXCEPT ![d] = dom[d]]
      BY <1>2, <1>t, <2>2 DEF ClearProject
    <3>4. PICK r : /\ r.st = dom[d].st /\ r.host = dom[d].host
                   /\ dom' = [dom EXCEPT ![d] = r]
      BY <3>2, <3>3 DEF DomRec
    <3> QED BY <1>t, <3>4
  <2> QED BY <2>1, <2>2
<1>3. CASE ~(SyncPort(c) \/ CreatePort(c) \/ ClearProject(c))
  <2>1. dom' = dom
    BY <1>3
    DEF Aside, SyncList, SyncSet, StartService, PersistStart, StopOfStop, RestartLooks,
        DeleteLooks, StopOfDelete, DeleteRecords, DeleteList, DeleteRoute, DeleteRow,
        CreateLooks, CreateRoute, InsertCertificate, SetSSLEnabled, tables
  <2> QED BY <2>1
<1> QED BY <1>1, <1>2, <1>3

LEMMA AsideEntry ==
  ASSUME EntryInv, Shape', FileInv', NEW c \in Caller, Aside(c)
  PROVE  EntryInv'
<1>1. /\ UNCHANGED <<file, faults>> /\ req'[c].pc \notin Critical
      /\ \A e \in Caller : e # c => req'[e] = req[e]
  BY AsideMoves DEF EntryInv
<1>2. \A d \in Dom : dom'[d].st = dom[d].st /\ dom'[d].host = dom[d].host
  BY AsideRows DEF EntryInv
<1>3. torn' = torn /\ faults' = faults /\ \A l \in Line : Held(l)' => Held(l)
  BY <1>1 DEF Held, file, Managed
<1>4. \A e \in Caller : req'[e] = req[e] \/ req'[e].pc \notin Critical
  BY <1>1
<1> QED BY <1>2, <1>3, <1>4, Harmless

LEMMA NextEntry == EntryInv /\ [Next]_vars => EntryInv'
<1> SUFFICES ASSUME EntryInv, [Next]_vars PROVE EntryInv'
  OBVIOUS
<1>0. Shape' /\ FileInv'
  BY NextShape, NextFile DEF EntryInv
<1>1. ASSUME NEW c \in Caller, Request(c) \/ Handler(c) PROVE EntryInv'
  BY <1>0, <1>1, RequestEntry, InsertDomainEntry, HostsAddEntry, HostsRemoveEntry, HostsTruncateEntry,
     HostsFillEntry, DeleteEntry, DomainRouteEntry, AsideEntry DEF Handler, Aside
<1>2. ASSUME UNCHANGED <<dom, copy, torn, req, faults>>, \A l \in Line : Held(l)' => Held(l)
      PROVE  EntryInv'
  BY <1>0, <1>2, Harmless
<1>3. ASSUME NEW p \in Project, CreateProject(p) \/ Exit(p) \/ Restart(p) PROVE EntryInv'
  <2>1. UNCHANGED <<dom, hosts, copy, torn, req, faults>>
    BY <1>3 DEF CreateProject, Exit, Restart, file
  <2> QED BY <1>2, <2>1 DEF Held, Managed
<1>4. ASSUME NEW l \in Line, EditHosts(l) PROVE EntryInv'
  <2>1. UNCHANGED <<dom, copy, torn, req, faults>>
    BY <1>4 DEF EditHosts, tables
  <2>2. \A m \in Line : Held(m)' => Held(m)
    <3>1. hosts \in Lines
      BY DEF EntryInv, Shape
    <3> QED BY <1>4, <2>1, <3>1 DEF EditHosts, Held, Managed, Lines
  <2> QED BY <1>2, <2>1, <2>2
<1>5. CASE Crash
  <2>1. /\ UNCHANGED <<dom, hosts, faults>> /\ copy' = Blank
        /\ \A e \in Caller : req'[e].pc = "idle"
        /\ "failed" \in torn => "failed" \in torn'
    BY <1>5 DEF Crash, tables, Idle
  <2>2. \A l \in Line : Held(l)' => Held(l)
    BY <2>1 DEF Held, Managed, Blank
  <2>3. NamesInv'
    BY <2>1, NamesKept DEF EntryInv, Critical, Working, Adding, Dooming
  <2>4. Enough'
    BY <2>1, <2>2, EnoughKept DEF EntryInv, Adding, Dooming
  <2> QED BY <1>0, <2>3, <2>4 DEF EntryInv
<1>6. CASE UNCHANGED vars
  <2>1. UNCHANGED <<dom, hosts, copy, torn, req, faults>>
    BY <1>6 DEF vars, tables, file
  <2> QED BY <1>2, <2>1 DEF Held, Managed
<1> QED BY <1>1, <1>3, <1>4, <1>5, <1>6 DEF Next

\* A line of ours has a row, whatever happens short of a rewrite that fails half-way:
\* the rows of its name that no handler is about to delete are at least as many as
\* the line and the handlers that are about to write it.
THEOREM EntryHasRowTheorem == Spec => []EntryHasRow
<1>1. Init => EntryInv
  BY InitEntry
<1>2. EntryInv /\ [Next]_vars => EntryInv'
  BY NextEntry
<1>3. EntryInv => EntryHasRow
  <2> SUFFICES ASSUME EntryInv, "failed" \notin torn, NEW l \in Line, hosts[l] \in Managed
               PROVE  \E d \in Rows : Fold[dom[d].host] = l
    BY DEF EntryHasRow
  <2>1. PICK f \in [Claims(l) -> Spare(l)] : \A x, y \in Claims(l) : f[x] = f[y] => x = y
    BY DEF EntryInv, Enough, Embeds
  <2>2. {} \in Claims(l)
    BY DEF Claims, Held
  <2>3. f[{}] \in Spare(l)
    BY <2>1, <2>2
  <2> QED BY <2>3 DEF Spare
<1> QED BY <1>1, <1>2, <1>3, PTL DEF Spec

-----------------------------------------------------------------------------
(* Where the routes lead                                                      *)

\* The faults under which PortTellsRoute and RoutesAreExact are claimed.
Serial == faults \cap {"overlap", "write"} = {}
Calm   == Serial /\ faults \cap {"exit", "api", "spelling"} = {}

Syncing    == {"spPersist", "syncList", "syncSet", "syncPort"}
Unbinding  == {"dpRecords", "dpList", "dpRemove", "dpClear"}
ForProject == {"spStart", "stStop", "dpGet", "dpStop"} \cup Syncing \cup Unbinding
WithList   == {"syncSet", "syncPort", "dpRemove", "dpClear"}
Behind     == {"svStart", "svPersist", "svStop", "svRestart", "svLaunch"}
Unrouted   == {"cdAdd", "cdWrite", "cdFill", "cdRollback", "cdLive", "cdSet"}
Inserted   == Unrouted \cup {"cdPort"}
Deleting   == {"ddRemove", "ddWrite", "ddFill", "ddRoute", "ddDelete"}

\* One request at a time.
Alone == \A c \in Caller, e \in Caller : c # e => At(c, "idle") \/ At(e, "idle")

\* What a request knows of the rows it works on, and of the routes of the one at hand.
Fits(c) ==
  LET r == req[c] IN
  /\ r.pc \in ForProject \cup {"cdSet", "cdPort"} => r.p \in Project
  /\ r.pc = "stStop" => r.port = None
  /\ r.pc = "spStart" => r.port \in Port
  /\ r.pc \in Syncing => r.port \in Port \cup {None}
  /\ r.pc \in WithList => r.list \subseteq BoundTo(r.p)
  /\ r.pc = "syncPort" => r.d \in BoundTo(r.p) /\ route[Lower[dom[r.d].host]] = r.port
  /\ r.pc = "dpClear" => r.d \in BoundTo(r.p) \ r.list /\ route[Lower[dom[r.d].host]] = None
  /\ r.pc \in Inserted => r.d \in Rows /\ dom[r.d].host = r.h /\ dom[r.d].project = r.p
  /\ r.pc \in Unrouted => dom[r.d].port = None
  /\ r.pc = "cdSet" => r.port \in Port \cup {Odd}
  /\ r.pc = "cdPort" => r.port \in Port /\ route[Lower[r.h]] = r.port
  /\ r.pc \in Deleting => r.d \in Rows
  /\ r.pc = "ddDelete" => route[Lower[r.h]] = None
  /\ r.pc \in Behind => "api" \in faults

\* Request c has yet to report the port it has routed domain d to.
WillReport(c, d) == req[c].pc \in {"syncPort", "cdPort"} /\ req[c].d = d

\* A route to a port is the one a row of its host reports, or c will report it.
Reports(c) ==
  \A k \in RouteKey : route[k] \in Port =>
    \E d \in Rows : /\ Lower[dom[d].host] = k /\ dom[d].project # None
                    /\ dom[d].port = route[k] \/ WillReport(c, d)

\* Where nothing happens behind the back of the requests, what they know of the
\* process, of the route that is not set yet and of the hosts file ...
Serves(c) ==
  LET r == req[c] IN
  /\ r.pc \in Syncing \cup {"cdSet", "cdPort"} => live[r.p] = r.port
  /\ r.pc \in Unbinding => live[r.p] = None
  /\ r.pc \in Unrouted => route[Lower[r.h]] = None
  /\ r.pc \in Dooming => hosts[Fold[r.h]] \notin Managed /\ copy[Fold[r.h]] \notin Managed

\* ... and what runs is a port, and nothing else is routed.
Settled ==
  /\ \A p \in Project : exiting[p] = None /\ live[p] \in Port \cup {None}
  /\ \A k \in RouteKey : route[k] \in Port \cup {None}

\* The route of a domain is right ...
Right(d) == route[Lower[dom[d].host]] = IF dom[d].project = None THEN None ELSE live[dom[d].project]

\* ... or its deletion was cut short by its certificate ...
Cut(d) == /\ d \in cert /\ route[Lower[dom[d].host]] = None
          /\ hosts[Fold[dom[d].host]] \notin Managed /\ copy[Fold[dom[d].host]] \notin Managed

\* ... or request c will still come to it.
Awaits(c, d) ==
  LET r == req[c] IN
  \/ r.pc \in {"spPersist", "syncList", "dpRecords", "dpList"} /\ dom[d].project = r.p
  \/ r.pc \in WithList /\ d \in r.list
  \/ r.pc \in Unrouted \cup {"ddDelete"} /\ d = r.d

Routes(c) == \A d \in Rows : Right(d) \/ Cut(d) \/ Awaits(c, d)

RouteType == route \in [RouteKey -> Text \cup {None}]

\* The same of whichever request there is.
Reported == \A k \in RouteKey : route[k] \in Port =>
              \E d \in Rows : /\ Lower[dom[d].host] = k /\ dom[d].project # None
                              /\ dom[d].port = route[k] \/ \E c \in Caller : WillReport(c, d)
Routed   == \A d \in Rows : Right(d) \/ Cut(d) \/ \E c \in Caller : Awaits(c, d)

RoutesInv ==
  /\ EntryInv /\ RouteType
  /\ Serial => Alone /\ Reported /\ \A c \in Caller : Fits(c)
  /\ Calm => Settled /\ Routed /\ \A c \in Caller : Serves(c)

\* What a step of request c starts from, and what it keeps.
Ready(c) == EntryInv /\ RouteType /\ Fits(c) /\ Reports(c)
Keeps(c) == /\ Fits(c)' /\ Reports(c)'
            /\ Calm /\ Settled /\ Serves(c) /\ Routes(c) => Serves(c)' /\ Routes(c)'

USE DEF Syncing, Unbinding, ForProject, WithList, Behind, Unrouted, Inserted, Deleting

LEMMA RowNames ==
  ASSUME EntryInv, NEW d \in Rows
  PROVE  /\ d \in Dom /\ dom[d].st = "row" /\ dom[d] \in DomRec
         /\ dom[d].host \in Host /\ Lower[dom[d].host] \in RouteKey /\ Fold[dom[d].host] \in Line
BY DEF Rows, EntryInv, NamesInv, NameGiven, Shape, RouteKey, Line

\* Where names are typed as the proxy and the hosts file keep them, no two rows
\* share a route or a line.
LEMMA OwnNames ==
  ASSUME EntryInv, Calm, NEW d \in Rows, NEW e \in Rows, d # e
  PROVE  Lower[dom[d].host] # Lower[dom[e].host] /\ Fold[dom[d].host] # Fold[dom[e].host]
<1>1. d \in Dom /\ e \in Dom /\ dom[d].st = "row" /\ dom[e].st = "row"
  BY DEF Rows
<1>2. Plain(dom[d].host) /\ Plain(dom[e].host)
  BY <1>1 DEF EntryInv, NamesInv, NamePlain, Calm
<1>3. dom[d].host # dom[e].host
  BY <1>1 DEF EntryInv, NamesInv, OneRow
<1> QED BY <1>2, <1>3 DEF Plain

\* The fields of a request that goes on or ends.
LEMMA GoesOn ==
  ASSUME Shape, NEW c \in Caller, NEW l, Goto(c, l)
  PROVE  /\ req'[c].pc = l /\ req'[c].p = req[c].p /\ req'[c].d = req[c].d
         /\ req'[c].h = req[c].h /\ req'[c].port = req[c].port /\ req'[c].list = req[c].list
<1>1. req[c] \in ReqRec
  BY DEF Shape
<1> QED BY <1>1 DEF Goto, Shape, ReqRec

LEMMA Ends ==
  ASSUME Shape, NEW c \in Caller, Answer(c)
  PROVE  req'[c].pc = "idle"
BY AnswerMoves

\* An idle request knows nothing and is awaited by nobody.
LEMMA IdleFits ==
  ASSUME NEW c \in Caller, req[c].pc = "idle"
  PROVE  Fits(c) /\ Serves(c) /\ \A d : ~Awaits(c, d) /\ ~WillReport(c, d)
BY DEF Fits, Serves, Awaits, WillReport, Dooming

LEMMA EndsFits ==
  ASSUME Shape, NEW c \in Caller, Answer(c)
  PROVE  Fits(c)' /\ Serves(c)'
BY Ends DEF Fits, Serves, Dooming

\* A step that changes neither rows, routes, processes nor lines, and perhaps adds a
\* certificate.
LEMMA MovesOn ==
  ASSUME NEW c \in Caller, Ready(c), Fits(c)', UNCHANGED <<dom, route, live, hosts, copy>>, cert \subseteq cert',
         req[c].pc \notin {"syncPort", "cdPort"},
         Calm /\ Settled /\ Serves(c) =>
           Serves(c)' /\ \A d \in Rows : Awaits(c, d) => Right(d) \/ Cut(d) \/ Awaits(c, d)'
  PROVE  Keeps(c)
<1>1. Reports(c)'
  BY DEF Ready, Reports, WillReport, Rows
<1>2. ASSUME Calm, Settled, Serves(c), Routes(c) PROVE Serves(c)' /\ Routes(c)'
  <2>1. \A d \in Rows : (Right(d) => Right(d)') /\ (Cut(d) => Cut(d)')
    BY DEF Right, Cut, Managed
  <2>2. \A d \in Rows : Right(d) \/ Cut(d) \/ Awaits(c, d)'
    BY <1>2 DEF Routes
  <2>3. Rows' = Rows
    BY DEF Rows
  <2>4. Routes(c)'
    BY <2>1, <2>2, <2>3 DEF Routes
  <2> QED BY <1>2, <2>4
<1> QED BY <1>1, <1>2 DEF Keeps

\* A step that leaves rows and routes alone keeps what is reported.
LEMMA ReportsStay ==
  ASSUME NEW c \in Caller, Ready(c), UNCHANGED <<dom, route>>, req[c].pc \notin {"syncPort", "cdPort"}
  PROVE  Reports(c)'
BY DEF Ready, Reports, WillReport, Rows

\* Requests that have just been accepted.
LEMMA RequestRoutes ==
  ASSUME NEW c \in Caller, Ready(c), Request(c)
  PROVE  Keeps(c)
<1>t. Shape
  BY DEF Ready, EntryInv
<1>1. PICK r : Fresh(r) /\ Begin(c, r) /\ UNCHANGED <<tables, file, route, manager, faults>>
  BY <1>t, RequestBegins
<1>2. /\ req[c].pc = "idle" /\ req'[c] = r
      /\ UNCHANGED <<dom, route, live, hosts, copy, cert, faults>>
  BY <1>t, <1>1, BeginMoves DEF Begin, At, tables, file, manager
<1>3. \A d \in Rows : ~Awaits(c, d)
  BY <1>2, IdleFits
<1>4. Rows' = Rows
  BY <1>2 DEF Rows
<1>5. Fits(c)'
  BY <1>1, <1>2, <1>4 DEF Fits, Fresh
<1>6. Serves(c)'
  BY <1>1, <1>2 DEF Serves, Fresh, Dooming
<1> QED BY <1>2, <1>3, <1>5, <1>6, MovesOn

\* syncProjectProxyRoutes: the list is read, then each of its domains is routed and
\* its port reported.
LEMMA SyncListRoutes ==
  ASSUME NEW c \in Caller, Ready(c), SyncList(c)
  PROVE  Keeps(c)
<1>t. Shape /\ req[c] \in ReqRec /\ req[c].pc = "syncList"
  BY DEF Ready, EntryInv, Shape, SyncList, At
<1>1. /\ req'[c].pc = "syncSet" /\ req'[c].p = req[c].p /\ req'[c].port = req[c].port
      /\ req'[c].list = BoundTo(req[c].p)
      /\ UNCHANGED <<dom, route, live, hosts, copy, cert>>
  BY <1>t DEF SyncList, Shape, ReqRec, tables, manager, file
<1>2. Fits(c)'
  BY <1>t, <1>1 DEF Ready, Fits, BoundTo, Rows
<1>3. \A d \in Rows : Awaits(c, d) => Awaits(c, d)'
  BY <1>t, <1>1 DEF Awaits, BoundTo
<1>4. Serves(c) => Serves(c)'
  BY <1>t, <1>1 DEF Serves, Dooming
<1> QED BY <1>t, <1>1, <1>2, <1>3, <1>4, MovesOn

\* The route of d is set or removed: what the other routes say stays true.
LEMMA OneRoute ==
  ASSUME EntryInv, RouteType, NEW d \in Rows, NEW x, route' = [route EXCEPT ![Lower[dom[d].host]] = x],
         UNCHANGED <<dom, live, hosts, copy, cert>>
  PROVE  /\ route'[Lower[dom[d].host]] = x
         /\ \A k \in RouteKey : k # Lower[dom[d].host] => route'[k] = route[k]
         /\ Calm => \A e \in Rows : e # d => (Right(e) => Right(e)') /\ (Cut(e) => Cut(e)')
<1>1. \A e \in Rows : Lower[dom[e].host] \in RouteKey
  BY RowNames
<1>2. route'[Lower[dom[d].host]] = x /\ \A k \in RouteKey : k # Lower[dom[d].host] => route'[k] = route[k]
  BY <1>1 DEF RouteType
<1>3. ASSUME Calm, NEW e \in Rows, e # d PROVE (Right(e) => Right(e)') /\ (Cut(e) => Cut(e)')
  <2>1. Lower[dom[e].host] # Lower[dom[d].host]
    BY <1>3, OwnNames
  <2>2. route'[Lower[dom[e].host]] = route[Lower[dom[e].host]]
    BY <1>1, <1>2, <2>1
  <2> QED BY <2>2 DEF Right, Cut, Managed
<1> QED BY <1>2, <1>3

LEMMA SyncSetRoutes ==
  ASSUME NEW c \in Caller, Ready(c), SyncSet(c)
  PROVE  Keeps(c)
<1>t. /\ Shape /\ req[c] \in ReqRec /\ req[c].pc = "syncSet" /\ req[c].p \in Project
      /\ req[c].port \in Port \cup {None}
  BY DEF Ready, Fits, EntryInv, Shape, SyncSet, At
<1>f. UNCHANGED <<dom, live, hosts, copy, cert>>
  BY DEF SyncSet, tables, manager, file
<1>1. CASE req[c].list = {}
  <2>1. Answer(c) /\ UNCHANGED route
    BY <1>1 DEF SyncSet
  <2>2. \A d : ~Awaits(c, d)
    BY <1>t, <1>1 DEF Awaits
  <2> QED BY <1>t, <1>f, <2>1, <2>2, EndsFits, MovesOn
<1>2. CASE req[c].list # {}
  <2>1. PICK d \in req[c].list :
          /\ route' = [route EXCEPT ![Lower[dom[d].host]] = req[c].port]
          /\ req' = IF req[c].port = None
                    THEN [req EXCEPT ![c].list = @ \ {d}]
                    ELSE [req EXCEPT ![c].pc = "syncPort", ![c].d = d, ![c].list = @ \ {d}]
    BY <1>2 DEF SyncSet
  <2>2. /\ req'[c].p = req[c].p /\ req'[c].port = req[c].port
        /\ req'[c].list = req[c].list \ {d}
        /\ IF req[c].port = None THEN req'[c].pc = "syncSet" ELSE req'[c].pc = "syncPort" /\ req'[c].d = d
    BY <1>t, <2>1 DEF Shape, ReqRec
  <2>3. req[c].list \subseteq BoundTo(req[c].p) /\ d \in BoundTo(req[c].p)
    BY <1>t, <2>1 DEF Ready, Fits
  <2>4. d \in Rows /\ dom[d].project = req[c].p /\ req[c].p # None
    BY <1>t, <2>3 DEF BoundTo
  <2>5. /\ route'[Lower[dom[d].host]] = req[c].port
        /\ \A k \in RouteKey : k # Lower[dom[d].host] => route'[k] = route[k]
        /\ Calm => \A e \in Rows : e # d => (Right(e) => Right(e)') /\ (Cut(e) => Cut(e)')
    BY <1>f, <2>1, <2>4, OneRoute DEF Ready
  <2>6. Fits(c)'
    <3>1. BoundTo(req[c].p)' = BoundTo(req[c].p) /\ d \in BoundTo(req[c].p)
      BY <1>f, <2>2, <2>3 DEF BoundTo, Rows
    <3> QED BY <1>t, <1>f, <2>2, <2>3, <2>5, <3>1 DEF Fits, BoundTo, Rows
  <2>7. Reports(c)'
    <3> SUFFICES ASSUME NEW k \in RouteKey, route'[k] \in Port
                 PROVE  \E e \in Rows : /\ Lower[dom[e].host] = k /\ dom[e].project # None
                                        /\ dom[e].port = route'[k] \/ WillReport(c, e)'
      BY <1>f DEF Reports, Rows, WillReport
    <3>1. CASE k = Lower[dom[d].host]
      <4>1. WillReport(c, d)'
        BY <2>2, <2>5, <3>1 DEF WillReport
      <4> QED BY <2>4, <3>1, <4>1
    <3>2. CASE k # Lower[dom[d].host]
      BY <1>t, <2>5, <3>2 DEF Ready, Reports, WillReport
    <3> QED BY <3>1, <3>2
  <2>8. ASSUME Calm, Serves(c), Routes(c) PROVE Serves(c)' /\ Routes(c)'
    <3>1. live[req[c].p] = req[c].port
      BY <1>t, <2>8 DEF Serves
    <3>2. Serves(c)'
      BY <1>f, <2>2, <3>1 DEF Serves, Dooming
    <3>3. Right(d)'
      BY <1>f, <2>4, <2>5, <3>1 DEF Right
    <3>4. \A e \in Rows : e # d /\ Awaits(c, e) => Awaits(c, e)'
      BY <1>t, <2>2 DEF Awaits
    <3>5. \A e \in Rows : Right(e)' \/ Cut(e)' \/ Awaits(c, e)'
      BY <2>5, <2>8, <3>3, <3>4 DEF Routes
    <3>6. Rows' = Rows
      BY <1>f DEF Rows
    <3> QED BY <3>2, <3>5, <3>6 DEF Routes
  <2> QED BY <2>6, <2>7, <2>8 DEF Keeps
<1> QED BY <1>1, <1>2

\* The row of d reports the port: nothing else of the tables changes.
LEMMA PortReported ==
  ASSUME EntryInv, NEW d \in Rows, NEW x, SetPort(d, x), UNCHANGED <<route, live, hosts, copy, cert>>
  PROVE  /\ dom'[d].port = x /\ Rows' = Rows
         /\ \A e \in Rows : e # d => dom'[e] = dom[e]
         /\ \A e \in Rows : /\ dom'[e].host = dom[e].host /\ dom'[e].project = dom[e].project
                            /\ dom'[e].st = dom[e].st
                            /\ Right(e) => Right(e)'
                            /\ Cut(e) => Cut(e)'
<1>1. dom \in [Dom -> DomRec] /\ d \in Dom /\ dom[d] \in DomRec
  BY DEF EntryInv, Shape, Rows
<1>2. dom' = [dom EXCEPT ![d] = [dom[d] EXCEPT !.port = x]]
  BY DEF SetPort
<1>3. /\ dom'[d].port = x /\ dom'[d].host = dom[d].host /\ dom'[d].project = dom[d].project
      /\ dom'[d].st = dom[d].st
  BY <1>1, <1>2 DEF DomRec
<1>4. \A e \in Dom : e # d => dom'[e] = dom[e]
  BY <1>1, <1>2
<1>5. \A e \in Dom : /\ dom'[e].host = dom[e].host /\ dom'[e].project = dom[e].project
                     /\ dom'[e].st = dom[e].st
  BY <1>3, <1>4
<1>6. Rows' = Rows
  BY <1>5 DEF Rows
<1>7. \A e \in Rows : (Right(e) => Right(e)') /\ (Cut(e) => Cut(e)')
  BY <1>5 DEF Right, Cut, Managed, Rows
<1>8. \A e \in Rows : e \in Dom
  BY DEF Rows
<1> QED BY <1>3, <1>4, <1>5, <1>6, <1>7, <1>8

\* Routes and rows agree again once the port of the routed domain is reported.
LEMMA ReportRoutes ==
  ASSUME NEW c \in Caller, Ready(c), NEW d \in Rows, d = req[c].d,
         route[Lower[dom[d].host]] = req[c].port, dom[d].project # None,
         SetPort(d, req[c].port), UNCHANGED <<route, live, hosts, copy, cert>>,
         req'[c].pc \notin {"syncPort", "cdPort"}
  PROVE  Reports(c)'
<1>1. /\ dom'[d].port = req[c].port /\ Rows' = Rows
      /\ \A e \in Rows : e # d => dom'[e] = dom[e]
      /\ \A e \in Rows : /\ dom'[e].host = dom[e].host /\ dom'[e].project = dom[e].project
  BY PortReported DEF Ready
<1> SUFFICES ASSUME NEW k \in RouteKey, route[k] \in Port
             PROVE  \E e \in Rows : Lower[dom'[e].host] = k /\ dom'[e].project # None /\ dom'[e].port = route[k]
  BY <1>1 DEF Reports, WillReport
<1>2. PICK e \in Rows : /\ Lower[dom[e].host] = k /\ dom[e].project # None
                        /\ dom[e].port = route[k] \/ e = d
  BY DEF Ready, Reports, WillReport
<1>3. CASE e = d
  BY <1>1, <1>2, <1>3
<1>4. CASE e # d
  BY <1>1, <1>2, <1>4
<1> QED BY <1>3, <1>4

LEMMA SyncPortRoutes ==
  ASSUME NEW c \in Caller, Ready(c), Serial, SyncPort(c)
  PROVE  Keeps(c)
<1>t. Shape /\ req[c] \in ReqRec /\ req[c].pc = "syncPort"
  BY DEF Ready, EntryInv, Shape, SyncPort, At
<1>1. /\ req'[c].pc = "syncSet" /\ req'[c].p = req[c].p /\ req'[c].port = req[c].port
      /\ req'[c].list = req[c].list
  BY <1>t DEF SyncPort, Shape, ReqRec
<1>2. /\ req[c].d \in BoundTo(req[c].p) /\ route[Lower[dom[req[c].d].host]] = req[c].port
      /\ req[c].d \in Rows /\ req[c].list \subseteq BoundTo(req[c].p) /\ req[c].p \in Project
      /\ req[c].port \in Port \cup {None} /\ dom[req[c].d].project # None
  BY <1>t DEF Ready, Fits, BoundTo
<1>3. SetPort(req[c].d, req[c].port) /\ UNCHANGED <<route, live, hosts, copy, cert>>
  BY DEF SyncPort, Serial, manager, file
<1>4. /\ Rows' = Rows
      /\ \A e \in Rows : /\ dom'[e].project = dom[e].project
                         /\ Right(e) => Right(e)'
                         /\ Cut(e) => Cut(e)'
  BY <1>2, <1>3, PortReported DEF Ready
<1>5. Fits(c)'
  BY <1>1, <1>2, <1>4 DEF Fits, BoundTo
<1>6. Reports(c)'
  <2> PICK d \in Rows : d = req[c].d
    BY <1>2
  <2> QED BY <1>1, <1>2, <1>3, ReportRoutes
<1>7. ASSUME Serves(c), Routes(c) PROVE Serves(c)' /\ Routes(c)'
  <2>1. Serves(c)'
    BY <1>t, <1>1, <1>3, <1>7 DEF Serves, Dooming
  <2>2. \A e \in Rows : Awaits(c, e) => Awaits(c, e)'
    BY <1>t, <1>1, <1>4 DEF Awaits
  <2> QED BY <1>4, <1>7, <2>1, <2>2 DEF Routes
<1> QED BY <1>5, <1>6, <1>7 DEF Keeps

\* What is done behind the back of a project changes no row and no route.
LEMMA BehindRoutes ==
  ASSUME NEW c \in Caller, Ready(c), UNCHANGED <<dom, route, faults>>,
         req[c].pc \in Behind, req'[c].pc \in Behind \cup {"idle"}
  PROVE  Keeps(c)
<1>1. "api" \in faults
  BY DEF Ready, Fits
<1>2. Fits(c)'
  BY <1>1 DEF Fits
<1>3. Reports(c)'
  BY ReportsStay
<1> QED BY <1>1, <1>2, <1>3 DEF Keeps, Calm

\* startProject: between the start of the process and the routing of the last domain
\* the list of the project's domains is still to be worked through.
LEMMA StartServiceRoutes ==
  ASSUME NEW c \in Caller, Ready(c), StartService(c)
  PROVE  Keeps(c)
<1>t. Shape /\ req[c] \in ReqRec /\ req[c].pc \in {"spStart", "svStart", "svLaunch"}
  BY DEF Ready, EntryInv, Shape, StartService, At
<1>f. UNCHANGED <<dom, route, hosts, copy, cert, faults>>
  BY DEF StartService, tables, file
<1>1. CASE Answer(c) /\ UNCHANGED live /\ req[c].pc = "spStart"
  <2>1. \A d : ~Awaits(c, d)
    BY <1>1 DEF Awaits
  <2> QED BY <1>t, <1>f, <1>1, <2>1, EndsFits, MovesOn
<1>2. CASE req[c].pc = "spStart" /\ ~(Answer(c) /\ UNCHANGED live)
  <2>0. req[c].p \in Project /\ req[c].port \in Port /\ \A d : ~Awaits(c, d)
    BY <1>2 DEF Ready, Fits, Awaits
  <2>1. /\ live' = [live EXCEPT ![req[c].p] = req[c].port]
        /\ Goto(c, "spPersist")
    BY <1>2 DEF StartService, Enter, At
  <2>2. req'[c].pc = "spPersist" /\ req'[c].p = req[c].p /\ req'[c].port = req[c].port
    BY <1>t, <2>1, GoesOn
  <2>3. Fits(c)'
    BY <2>0, <2>2 DEF Fits
  <2>4. Reports(c)'
    BY <1>2, <1>f, ReportsStay
  <2>5. ASSUME Routes(c) PROVE Serves(c)' /\ Routes(c)'
    <3>1. Serves(c)'
      BY <1>t, <2>0, <2>1, <2>2 DEF Serves, Shape, Dooming
    <3>2. \A d \in Rows : (Cut(d) => Cut(d)') /\ (dom[d].project = req[c].p => Awaits(c, d)')
      BY <1>f, <2>2 DEF Cut, Managed, Awaits
    <3>3. \A d \in Rows : dom[d].project # req[c].p /\ Right(d) => Right(d)'
      <4>1. \A p \in Project : p # req[c].p => live'[p] = live[p]
        BY <1>t, <2>1 DEF Shape
      <4>2. \A d \in Rows : dom[d].project \in Project \cup {None}
        BY <1>t DEF Rows, Shape, DomRec
      <4> QED BY <1>f, <4>1, <4>2 DEF Right
    <3>4. Rows' = Rows
      BY <1>f DEF Rows
    <3> QED BY <2>0, <2>5, <3>1, <3>2, <3>3, <3>4 DEF Routes
  <2> QED BY <2>3, <2>4, <2>5 DEF Keeps
<1>3. CASE req[c].pc # "spStart"
  <2>1. Answer(c) \/ Goto(c, "svPersist")
    BY <1>3 DEF StartService, At
  <2>2. req'[c].pc \in {"idle", "svPersist"}
    BY <1>t, <2>1, GoesOn, Ends
  <2> QED BY <1>t, <1>f, <1>3, <2>2, BehindRoutes
<1> QED BY <1>1, <1>2, <1>3

LEMMA PersistStartRoutes ==
  ASSUME NEW c \in Caller, Ready(c), PersistStart(c)
  PROVE  Keeps(c)
<1>t. Shape /\ req[c].pc \in {"spPersist", "svPersist"}
  BY DEF Ready, EntryInv, PersistStart, At
<1>f. UNCHANGED <<dom, route, live, hosts, copy, cert, faults>>
  BY DEF PersistStart, manager, file
<1>1. CASE req[c].pc = "spPersist"
  <2>1. req'[c].pc = "syncList" /\ req'[c].p = req[c].p /\ req'[c].port = req[c].port
    BY <1>t, <1>1, GoesOn DEF PersistStart, At
  <2>2. Fits(c)' /\ (Serves(c) => Serves(c)')
    BY <1>1, <1>f, <2>1 DEF Ready, Fits, Serves, Dooming
  <2>3. \A d \in Rows : Awaits(c, d) => Awaits(c, d)'
    BY <1>1, <1>f, <2>1 DEF Awaits
  <2> QED BY <1>1, <1>f, <2>1, <2>2, <2>3, MovesOn
<1>2. CASE req[c].pc = "svPersist"
  <2>1. req'[c].pc = "idle"
    BY <1>t, <1>2, Ends DEF PersistStart, At
  <2> QED BY <1>2, <1>f, <2>1, BehindRoutes
<1> QED BY <1>t, <1>1, <1>2

\* The process of project p ends on request: the routes of other projects stay right.
LEMMA ServiceStops ==
  ASSUME Shape, NEW p \in Project, StopService(p), UNCHANGED <<dom, route, hosts, copy, cert>>
  PROVE  /\ live'[p] = None /\ Rows' = Rows
         /\ \A d \in Rows : /\ Cut(d) => Cut(d)'
                            /\ dom[d].project # p /\ Right(d) => Right(d)'
<1>1. live'[p] = None /\ \A q \in Project : q # p => live'[q] = live[q]
  BY DEF StopService, Shape
<1>2. \A d \in Rows : dom[d].project \in Project \cup {None}
  BY DEF Rows, Shape, DomRec
<1>3. \A d \in Rows : dom[d].project # p /\ Right(d) => Right(d)'
  BY <1>1, <1>2 DEF Right
<1>4. \A d \in Rows : Cut(d) => Cut(d)'
  BY DEF Cut, Managed
<1>5. Rows' = Rows
  BY DEF Rows
<1> QED BY <1>1, <1>3, <1>4, <1>5

LEMMA StopOfStopRoutes ==
  ASSUME NEW c \in Caller, Ready(c), StopOfStop(c)
  PROVE  Keeps(c)
<1>t. Shape /\ req[c].pc \in {"stStop", "svStop"}
  BY DEF Ready, EntryInv, StopOfStop, At
<1>f. UNCHANGED <<dom, route, hosts, copy, cert, faults>>
  BY DEF StopOfStop, file
<1>1. CASE req[c].pc = "stStop" /\ live[req[c].p] = None
  <2>1. Answer(c) /\ UNCHANGED live
    BY <1>1 DEF StopOfStop
  <2>2. \A d : ~Awaits(c, d)
    BY <1>1 DEF Awaits
  <2> QED BY <1>t, <1>f, <1>1, <2>1, <2>2, EndsFits, MovesOn
<1>2. CASE req[c].pc = "stStop" /\ live[req[c].p] # None
  <2>0. req[c].p \in Project /\ req[c].port = None /\ \A d : ~Awaits(c, d)
    BY <1>2 DEF Ready, Fits, Awaits
  <2>1. /\ StopService(req[c].p)
        /\ Goto(c, "syncList") \/ ("exit" \in faults /\ Answer(c))
    BY <1>2 DEF StopOfStop, At
  <2>2. Fits(c)'
    <3>1. \/ req'[c].pc = "idle"
          \/ req'[c].pc = "syncList" /\ req'[c].p = req[c].p /\ req'[c].port = req[c].port
      BY <1>t, <2>1, GoesOn, Ends
    <3> QED BY <2>0, <3>1 DEF Fits
  <2>3. Reports(c)'
    BY <1>2, <1>f, ReportsStay
  <2>4. ASSUME Calm, Routes(c) PROVE Serves(c)' /\ Routes(c)'
    <3>1. req'[c].pc = "syncList" /\ req'[c].p = req[c].p /\ req'[c].port = req[c].port
      BY <1>t, <2>1, <2>4, GoesOn DEF Calm
    <3>2. \A d \in Rows : dom[d].project = req[c].p => Awaits(c, d)'
      BY <1>f, <3>1 DEF Awaits
    <3> PICK p \in Project : p = req[c].p
      BY <2>0
    <3>3. /\ live'[p] = None /\ Rows' = Rows
          /\ \A d \in Rows : /\ Cut(d) => Cut(d)'
                             /\ dom[d].project # p /\ Right(d) => Right(d)'
      BY <1>t, <1>f, <2>1, ServiceStops
    <3> QED BY <2>0, <2>4, <3>1, <3>2, <3>3 DEF Serves, Routes, Dooming
  <2> QED BY <2>2, <2>3, <2>4 DEF Keeps
<1>3. CASE req[c].pc = "svStop"
  <2>1. Answer(c)
    BY <1>3 DEF StopOfStop, At
  <2> QED BY <1>t, <1>3, <1>f, <2>1, Ends, BehindRoutes
<1> QED BY <1>t, <1>1, <1>2, <1>3

LEMMA RestartLooksRoutes ==
  ASSUME NEW c \in Caller, Ready(c), RestartLooks(c)
  PROVE  Keeps(c)
<1>t. Shape /\ req[c] \in ReqRec /\ req[c].pc = "svRestart"
  BY DEF Ready, EntryInv, Shape, RestartLooks, At
<1>1. UNCHANGED <<dom, route, faults>>
  BY DEF RestartLooks
<1>2. req'[c].pc \in {"idle", "svLaunch"}
  <2>1. CASE Answer(c)
    BY <1>t, <2>1, Ends
  <2>2. CASE ~Answer(c)
    BY <1>t, <2>2 DEF RestartLooks, Shape, ReqRec
  <2> QED BY <2>1, <2>2
<1> QED BY <1>t, <1>1, <1>2, BehindRoutes

\* deleteProject: the process is stopped, then the route of each bound domain removed
\* and the domain unbound.
LEMMA DeleteLooksRoutes ==
  ASSUME NEW c \in Caller, Ready(c), DeleteLooks(c)
  PROVE  Keeps(c)
<1>t. Shape /\ req[c].pc = "dpGet" /\ req[c].p \in Project
  BY DEF Ready, Fits, EntryInv, DeleteLooks, At
<1>1. /\ req'[c].pc = IF live[req[c].p] = None THEN "dpRecords" ELSE "dpStop"
      /\ req'[c].p = req[c].p
      /\ UNCHANGED <<dom, route, live, hosts, copy, cert>>
  BY <1>t, GoesOn DEF DeleteLooks, tables, manager, file
<1>2. Fits(c)' /\ Serves(c)'
  BY <1>t, <1>1 DEF Fits, Serves, Dooming
<1>3. \A d : ~Awaits(c, d)
  BY <1>t DEF Awaits
<1> QED BY <1>t, <1>1, <1>2, <1>3, MovesOn

LEMMA StopOfDeleteRoutes ==
  ASSUME NEW c \in Caller, Ready(c), StopOfDelete(c)
  PROVE  Keeps(c)
<1>t. Shape /\ req[c].pc = "dpStop" /\ req[c].p \in Project
  BY DEF Ready, Fits, EntryInv, StopOfDelete, At
<1>f. UNCHANGED <<dom, route, hosts, copy, cert>> /\ req'[c].pc = "dpRecords" /\ req'[c].p = req[c].p
  BY <1>t, GoesOn DEF StopOfDelete, file
<1>0. \A d : ~Awaits(c, d)
  BY <1>t DEF Awaits
<1>1. Fits(c)'
  BY <1>t, <1>f DEF Fits
<1>2. CASE live[req[c].p] = None
  <2>1. UNCHANGED live
    BY <1>2 DEF StopOfDelete
  <2>2. Serves(c)'
    BY <1>2, <1>f, <2>1 DEF Serves, Dooming
  <2> QED BY <1>t, <1>f, <1>0, <1>1, <2>1, <2>2, MovesOn
<1>3. CASE live[req[c].p] # None
  <2> PICK p \in Project : p = req[c].p
    BY <1>t
  <2>1. StopService(p)
    BY <1>3 DEF StopOfDelete
  <2>2. Reports(c)'
    BY <1>t, <1>f, ReportsStay
  <2>3. ASSUME Routes(c) PROVE Serves(c)' /\ Routes(c)'
    <3>1. \A d \in Rows : dom[d].project = p => Awaits(c, d)'
      BY <1>f DEF Awaits
    <3>2. /\ live'[p] = None /\ Rows' = Rows
          /\ \A d \in Rows : /\ Cut(d) => Cut(d)'
                             /\ dom[d].project # p /\ Right(d) => Right(d)'
      BY <1>t, <1>f, <2>1, ServiceStops
    <3> QED BY <1>f, <1>0, <2>3, <3>1, <3>2 DEF Serves, Routes, Dooming
  <2> QED BY <1>1, <2>2, <2>3 DEF Keeps
<1> QED BY <1>2, <1>3

LEMMA DeleteRecordsRoutes ==
  ASSUME NEW c \in Caller, Ready(c), DeleteRecords(c)
  PROVE  Keeps(c)
<1>t. Shape /\ req[c].pc = "dpRecords"
  BY DEF Ready, EntryInv, DeleteRecords, At
<1>1. /\ req'[c].pc = "dpList" /\ req'[c].p = req[c].p
      /\ UNCHANGED <<dom, route, live, hosts, copy, cert>>
  BY <1>t, GoesOn DEF DeleteRecords, manager, file
<1>2. Fits(c)' /\ (Serves(c) => Serves(c)')
  BY <1>t, <1>1 DEF Ready, Fits, Serves, Dooming
<1>3. \A d \in Rows : Awaits(c, d) => Awaits(c, d)'
  BY <1>t, <1>1 DEF Awaits
<1> QED BY <1>t, <1>1, <1>2, <1>3, MovesOn

LEMMA DeleteListRoutes ==
  ASSUME NEW c \in Caller, Ready(c), DeleteList(c)
  PROVE  Keeps(c)
<1>t. Shape /\ req[c] \in ReqRec /\ req[c].pc = "dpList"
  BY DEF Ready, EntryInv, Shape, DeleteList, At
<1>1. /\ req'[c].pc = "dpRemove" /\ req'[c].p = req[c].p
      /\ req'[c].list = BoundTo(req[c].p)
      /\ UNCHANGED <<dom, route, live, hosts, copy, cert>>
  BY <1>t DEF DeleteList, Shape, ReqRec, tables, manager, file
<1>2. Fits(c)'
  BY <1>t, <1>1 DEF Ready, Fits, BoundTo, Rows
<1>3. \A d \in Rows : Awaits(c, d) => Awaits(c, d)'
  BY <1>t, <1>1 DEF Awaits, BoundTo
<1>4. Serves(c) => Serves(c)'
  BY <1>t, <1>1 DEF Serves, Dooming
<1> QED BY <1>t, <1>1, <1>2, <1>3, <1>4, MovesOn

LEMMA DeleteRouteRoutes ==
  ASSUME NEW c \in Caller, Ready(c), DeleteRoute(c)
  PROVE  Keeps(c)
<1>t. Shape /\ req[c] \in ReqRec /\ req[c].pc = "dpRemove" /\ req[c].p \in Project
  BY DEF Ready, Fits, EntryInv, Shape, DeleteRoute, At
<1>f. UNCHANGED <<dom, live, hosts, copy, cert>>
  BY DEF DeleteRoute, tables, manager, file
<1>1. CASE req[c].list = {}
  <2>1. UNCHANGED route /\ req'[c].pc = "dpDelete" /\ req'[c].p = req[c].p
    BY <1>t, <1>1, GoesOn DEF DeleteRoute
  <2>2. \A d : ~Awaits(c, d)
    BY <1>t, <1>1 DEF Awaits
  <2>3. Fits(c)' /\ Serves(c)'
    BY <2>1 DEF Fits, Serves, Dooming
  <2> QED BY <1>t, <1>f, <2>1, <2>2, <2>3, MovesOn
<1>2. CASE req[c].list # {}
  <2>1. PICK d \in req[c].list :
          /\ route' = [route EXCEPT ![Lower[dom[d].host]] = None]
          /\ req' = [req EXCEPT ![c].pc = "dpClear", ![c].d = d, ![c].list = @ \ {d}]
    BY <1>2 DEF DeleteRoute
  <2>2. /\ req'[c].p = req[c].p /\ req'[c].list = req[c].list \ {d}
        /\ req'[c].pc = "dpClear" /\ req'[c].d = d
    BY <1>t, <2>1 DEF Shape, ReqRec
  <2>3. req[c].list \subseteq BoundTo(req[c].p) /\ d \in BoundTo(req[c].p)
    BY <1>t, <2>1 DEF Ready, Fits
  <2>4. d \in Rows /\ dom[d].project = req[c].p
    BY <1>t, <2>3 DEF BoundTo
  <2>5. /\ route'[Lower[dom[d].host]] = None
        /\ \A k \in RouteKey : k # Lower[dom[d].host] => route'[k] = route[k]
        /\ Calm => \A e \in Rows : e # d => (Right(e) => Right(e)') /\ (Cut(e) => Cut(e)')
    BY <1>f, <2>1, <2>4, OneRoute DEF Ready
  <2>6. Fits(c)'
    <3>1. BoundTo(req[c].p)' = BoundTo(req[c].p)
      BY <1>f, <2>2 DEF BoundTo, Rows
    <3> QED BY <1>t, <1>f, <2>2, <2>3, <2>5, <3>1 DEF Fits
  <2>7. Reports(c)'
    BY <1>t, <1>f, <2>5 DEF Ready, Reports, WillReport, Rows
  <2>8. ASSUME Calm, Serves(c), Routes(c) PROVE Serves(c)' /\ Routes(c)'
    <3>1. live[req[c].p] = None
      BY <1>t, <2>8 DEF Serves
    <3>2. Serves(c)'
      BY <1>f, <2>2, <3>1 DEF Serves, Dooming
    <3>3. Right(d)'
      BY <1>f, <2>4, <2>5, <3>1 DEF Right
    <3>4. \A e \in Rows : e # d /\ Awaits(c, e) => Awaits(c, e)'
      BY <1>t, <2>2 DEF Awaits
    <3>5. \A e \in Rows : Right(e)' \/ Cut(e)' \/ Awaits(c, e)'
      BY <2>5, <2>8, <3>3, <3>4 DEF Routes
    <3>6. Rows' = Rows
      BY <1>f DEF Rows
    <3> QED BY <3>2, <3>5, <3>6 DEF Routes
  <2> QED BY <2>6, <2>7, <2>8 DEF Keeps
<1> QED BY <1>1, <1>2

\* The route of the domain is gone when the domain is unbound.
LEMMA ClearProjectRoutes ==
  ASSUME NEW c \in Caller, Ready(c), Serial, ClearProject(c)
  PROVE  Keeps(c)
<1>t. /\ Shape /\ req[c] \in ReqRec /\ req[c].pc = "dpClear" /\ req[c].p \in Project
      /\ dom \in [Dom -> DomRec]
  BY DEF Ready, Fits, EntryInv, Shape, ClearProject, At
<1>d. PICK d, p : d = req[c].d /\ p = req[c].p
  OBVIOUS
<1>1. /\ d \in BoundTo(p) /\ d \in Rows /\ d \in Dom /\ dom[d].st = "row" /\ dom[d] \in DomRec
      /\ route[Lower[dom[d].host]] = None /\ d \notin req[c].list /\ req[c].list \subseteq BoundTo(p)
  BY <1>t, <1>d DEF Ready, Fits, BoundTo, Rows
<1>2. dom' = [dom EXCEPT ![d] = [dom[d] EXCEPT !.project = None, !.port = None]]
  BY <1>t, <1>d, <1>1 DEF ClearProject, Serial
<1>3. UNCHANGED <<route, live, hosts, copy, cert>>
  BY DEF ClearProject, manager, file
<1>4. /\ dom'[d].project = None /\ dom'[d].host = dom[d].host /\ dom'[d].st = "row"
      /\ \A e \in Dom : e # d => dom'[e] = dom[e]
  BY <1>1, <1>2, <1>t DEF DomRec
<1>5. Rows' = Rows
  BY <1>1, <1>4 DEF Rows
<1>6. /\ req'[c].pc = "dpRemove" /\ req'[c].p = req[c].p /\ req'[c].list = req[c].list
  BY <1>t DEF ClearProject, Shape, ReqRec
<1>7. Fits(c)'
  <2>1. \A e \in req[c].list : e \in Rows /\ e # d /\ e \in Dom /\ dom[e].project = p
    BY <1>1 DEF BoundTo, Rows
  <2>2. req[c].list \subseteq BoundTo(p)'
    <3>1. \A e \in req[c].list : e \in Rows' /\ dom'[e].project = p
      BY <1>4, <1>5, <2>1
    <3> QED BY <3>1 DEF BoundTo
  <2> QED BY <1>t, <1>d, <1>6, <2>2 DEF Fits
<1>8. Reports(c)'
  <2> SUFFICES ASSUME NEW k \in RouteKey, route[k] \in Port
               PROVE  \E e \in Rows : /\ Lower[dom'[e].host] = k /\ dom'[e].project # None
                                      /\ dom'[e].port = route[k]
    BY <1>3, <1>5, <1>6 DEF Reports, WillReport
  <2>1. PICK e \in Rows : Lower[dom[e].host] = k /\ dom[e].project # None /\ dom[e].port = route[k]
    BY <1>t DEF Ready, Reports, WillReport
  <2>2. e # d /\ e \in Dom
    BY <1>1, <2>1 DEF Rows
  <2> QED BY <1>4, <2>1, <2>2
<1>9. ASSUME Serves(c), Routes(c) PROVE Serves(c)' /\ Routes(c)'
  <2>1. Serves(c)'
    BY <1>t, <1>3, <1>6, <1>9 DEF Serves, Dooming
  <2>2. Right(d)'
    BY <1>1, <1>3, <1>4 DEF Right
  <2>3. \A e \in Rows : e # d => /\ Right(e) => Right(e)'
                                 /\ Cut(e) => Cut(e)'
                                 /\ Awaits(c, e) => Awaits(c, e)'
    <3>1. \A e \in Rows : e # d => dom'[e] = dom[e]
      BY <1>4 DEF Rows
    <3>2. \A e \in Rows : Awaits(c, e) => Awaits(c, e)'
      BY <1>t, <1>6 DEF Awaits
    <3> QED BY <1>3, <3>1, <3>2 DEF Right, Cut, Managed
  <2> QED BY <1>5, <1>9, <2>1, <2>2, <2>3 DEF Routes
<1> QED BY <1>7, <1>8, <1>9 DEF Keeps

LEMMA DeleteRowRoutes ==
  ASSUME NEW c \in Caller, Ready(c), DeleteRow(c)
  PROVE  Keeps(c)
<1>t. Shape /\ req[c].pc = "dpDelete"
  BY DEF Ready, EntryInv, DeleteRow, At
<1>1. Answer(c) /\ UNCHANGED <<dom, route, live, hosts, copy, cert>>
  BY DEF DeleteRow, manager, file
<1>2. \A d : ~Awaits(c, d)
  BY <1>t DEF Awaits
<1> QED BY <1>t, <1>1, <1>2, EndsFits, MovesOn

\* createDomain: until its route is set the new domain has none.
LEMMA InsertDomainRoutes ==
  ASSUME NEW c \in Caller, Ready(c), InsertDomain(c)
  PROVE  Keeps(c)
<1>t. Shape /\ req[c] \in ReqRec /\ req[c].pc = "cdInsert" /\ req[c].h \in Host /\ dom \in [Dom -> DomRec]
  BY DEF Ready, EntryInv, NamesInv, NameGiven, Shape, InsertDomain, At
<1>f. UNCHANGED <<route, live, hosts, copy, cert>>
  BY DEF InsertDomain, manager, file
<1>0. \A d : ~Awaits(c, d)
  BY <1>t DEF Awaits
<1>1. CASE Answer(c) /\ UNCHANGED dom
  BY <1>t, <1>f, <1>0, <1>1, EndsFits, MovesOn
<1>2. CASE ~(Answer(c) /\ UNCHANGED dom)
  <2>0. PICK d : d = (CHOOSE e \in Dom : dom[e].st = "new")
    OBVIOUS
  <2>1. /\ d \in Dom /\ dom[d].st = "new" /\ ~Taken(req[c].h)
        /\ dom' = [dom EXCEPT ![d] = [st |-> "row", host |-> req[c].h, project |-> req[c].p, port |-> None]]
        /\ req' = [req EXCEPT ![c].pc = "cdAdd", ![c].d = d]
    BY <1>2, <2>0 DEF InsertDomain
  <2>2. req'[c].pc = "cdAdd" /\ req'[c].d = d /\ req'[c].h = req[c].h /\ req'[c].p = req[c].p
    BY <2>1, <1>t DEF ReqRec, Shape
  <2>3. /\ dom'[d].st = "row" /\ dom'[d].host = req[c].h /\ dom'[d].project = req[c].p
        /\ dom'[d].port = None /\ \A e \in Dom : e # d => dom'[e] = dom[e]
    BY <2>1, <1>t
  <2>4. Rows' = Rows \cup {d} /\ d \notin Rows
    BY <2>1, <2>3 DEF Rows
  <2>5. \A e \in Rows : dom'[e] = dom[e]
    BY <2>3, <2>4 DEF Rows
  <2>7. Fits(c)'
    BY <1>f, <2>2, <2>3, <2>4 DEF Fits
  <2>8. Reports(c)'
    <3> SUFFICES ASSUME NEW k \in RouteKey, route[k] \in Port
                 PROVE  \E e \in Rows : /\ Lower[dom'[e].host] = k /\ dom'[e].project # None
                                        /\ dom'[e].port = route[k]
      BY <1>f, <2>4 DEF Reports
    <3>1. PICK e \in Rows : Lower[dom[e].host] = k /\ dom[e].project # None /\ dom[e].port = route[k]
      BY <1>t DEF Ready, Reports, WillReport
    <3> QED BY <2>5, <3>1
  <2>9. ASSUME Calm, Settled, Routes(c) PROVE Serves(c)' /\ Routes(c)'
    <3>1. route[Lower[req[c].h]] = None
      <4>1. Plain(req[c].h) /\ Lower[req[c].h] \in RouteKey
        BY <1>t, <2>9 DEF Ready, EntryInv, NamesInv, NamePlain, Calm, RouteKey
      <4>2. ASSUME NEW e \in Rows PROVE Lower[dom[e].host] # Lower[req[c].h]
        <5>1. e \in Dom /\ dom[e].st = "row"
          BY DEF Rows
        <5>2. Plain(dom[e].host)
          BY <2>9, <5>1 DEF Ready, EntryInv, NamesInv, NamePlain, Calm
        <5>3. dom[e].host # req[c].h
          BY <2>1 DEF Taken
        <5> QED BY <4>1, <5>2, <5>3 DEF Plain
      <4> QED BY <2>9, <4>1, <4>2 DEF Ready, Reports, Settled
    <3>2. Serves(c)'
      BY <1>f, <2>2, <3>1 DEF Serves, Dooming
    <3>3. Awaits(c, d)'
      BY <2>2 DEF Awaits
    <3>4. \A e \in Rows : (Right(e) => Right(e)') /\ (Cut(e) => Cut(e)')
      BY <1>f, <2>5 DEF Right, Cut, Managed
    <3> QED BY <1>0, <2>4, <2>9, <3>2, <3>3, <3>4 DEF Routes
  <2> QED BY <2>7, <2>8, <2>9 DEF Keeps
<1> QED BY <1>1, <1>2

\* A step in the rewriting of the hosts file.
LEMMA LineRoutes ==
  ASSUME NEW c \in Caller, Ready(c), Fits(c)', UNCHANGED <<dom, route, live, cert>>,
         req[c].pc \notin {"syncPort", "cdPort"},
         Calm /\ Serves(c) =>
           Serves(c)' /\ \A d \in Rows : Cut(d) \/ Awaits(c, d) => Cut(d)' \/ Awaits(c, d)'
  PROVE  Keeps(c)
<1>1. Reports(c)'
  BY ReportsStay
<1>2. ASSUME Calm, Serves(c), Routes(c) PROVE Routes(c)'
  <2>1. \A d \in Rows : Right(d) => Right(d)'
    BY DEF Right
  <2>2. Rows' = Rows
    BY DEF Rows
  <2> QED BY <1>2, <2>1, <2>2 DEF Routes
<1> QED BY <1>1, <1>2 DEF Keeps

LEMMA HostsAddRoutes ==
  ASSUME NEW c \in Caller, Ready(c), Serial, HostsAdd(c)
  PROVE  Keeps(c)
<1>t. Shape /\ req[c].pc = "cdAdd" /\ ~Locked
  BY DEF Ready, EntryInv, HostsAdd, At
<1>d. PICK d \in Rows : /\ d = req[c].d /\ dom[d].host = req[c].h /\ dom[d].project = req[c].p
                        /\ dom[d].port = None
  BY <1>t DEF Ready, Fits
<1>f. UNCHANGED <<dom, route, live, cert, hosts>> /\ (copy' = hosts \/ copy' = copy) /\ Rows' = Rows
  BY DEF HostsAdd, tables, manager, Rows
<1>1. /\ req'[c].pc \in {"cdWrite", "cdLive", "cdRollback"} /\ req'[c].p = req[c].p /\ req'[c].d = d
      /\ req'[c].h = req[c].h
      /\ req'[c].pc = "cdRollback" => hosts[Fold[req[c].h]] = "foreign" /\ copy' = copy
  <2>1. /\ Goto(c, "cdWrite") \/ Goto(c, "cdLive") \/ Goto(c, "cdRollback")
        /\ \/ Goto(c, "cdWrite") \/ Goto(c, "cdLive")
           \/ hosts[Fold[req[c].h]] = "foreign" /\ copy' = copy
    BY DEF HostsAdd, Serial
  <2> QED BY <1>t, <1>d, <2>1, GoesOn
<1>2. Fits(c)'
  BY <1>d, <1>f, <1>1 DEF Fits
<1>3. ASSUME Serves(c) PROVE Serves(c)'
  <2>1. route[Lower[req[c].h]] = None
    BY <1>t, <1>3 DEF Serves
  <2>2. copy = Blank /\ Fold[req[c].h] \in Line
    BY <1>t, <1>d, RowNames DEF Ready, EntryInv, FileInv, CopyFits
  <2>3. req'[c].pc = "cdRollback" => hosts[Fold[req[c].h]] \notin Managed /\ copy'[Fold[req[c].h]] \notin Managed
    BY <1>1, <2>2 DEF Managed, Blank
  <2> QED BY <1>1, <1>f, <2>1, <2>3 DEF Serves, Dooming, Managed
<1>4. \A e \in Rows : (Cut(e) => Cut(e)') /\ (Awaits(c, e) => Awaits(c, e)')
  BY <1>t, <1>d, <1>f, <1>1 DEF Cut, Managed, Awaits
<1> QED BY <1>t, <1>f, <1>2, <1>3, <1>4, LineRoutes

LEMMA HostsTruncateRoutes ==
  ASSUME NEW c \in Caller, Ready(c), Serial, HostsTruncate(c)
  PROVE  Keeps(c)
<1>t. Shape /\ req[c].pc \in {"cdWrite", "ddWrite"}
  BY DEF Ready, EntryInv, HostsTruncate
<1>f. UNCHANGED <<dom, route, live, cert, copy>> /\ hosts' = Blank /\ Rows' = Rows
  BY DEF HostsTruncate, Serial, tables, manager, Rows
<1>1. /\ req'[c].p = req[c].p /\ req'[c].d = req[c].d /\ req'[c].h = req[c].h
      /\ \/ req[c].pc = "cdWrite" /\ req'[c].pc = "cdFill"
         \/ req[c].pc = "ddWrite" /\ req'[c].pc = "ddFill"
  BY <1>t, GoesOn DEF HostsTruncate, Serial, At
<1>2. Fits(c)'
  BY <1>f, <1>1 DEF Ready, Fits
<1>3. Serves(c) => Serves(c)'
  BY <1>f, <1>1 DEF Serves, Dooming
<1>4. ASSUME NEW e \in Rows PROVE (Cut(e) => Cut(e)') /\ (Awaits(c, e) => Awaits(c, e)')
  <2>1. Fold[dom[e].host] \in Line
    BY RowNames DEF Ready
  <2>2. Blank[Fold[dom[e].host]] \notin Managed
    BY <2>1 DEF Blank, Managed
  <2>3. Cut(e) => Cut(e)'
    BY <1>f, <2>2 DEF Cut, Managed
  <2> QED BY <1>1, <2>3 DEF Awaits
<1> QED BY <1>t, <1>f, <1>2, <1>3, <1>4, LineRoutes

LEMMA HostsFillRoutes ==
  ASSUME NEW c \in Caller, Ready(c), Serial, HostsFill(c)
  PROVE  Keeps(c)
<1>t. Shape /\ req[c].pc \in {"cdFill", "ddFill"} /\ copy \in Lines
  BY DEF Ready, EntryInv, HostsFill, Shape
<1>d. PICK d \in Rows : d = req[c].d /\ dom[d].host = req[c].h
  BY <1>t DEF Ready, Fits, EntryInv, NamesInv, RowKnown, Working
<1>l. Fold[dom[d].host] \in Line
  BY RowNames DEF Ready
<1>f. UNCHANGED <<dom, route, live, cert>> /\ copy' = Blank /\ Rows' = Rows
  BY DEF HostsFill, Serial, tables, manager, Rows
<1>1. /\ req'[c].p = req[c].p /\ req'[c].d = req[c].d /\ req'[c].h = req[c].h
      /\ \/ /\ req[c].pc = "cdFill" /\ req'[c].pc = "cdLive"
            /\ hosts' = [copy EXCEPT ![Fold[dom[d].host]] = "volt"]
         \/ /\ req[c].pc = "ddFill" /\ req'[c].pc = "ddRoute"
            /\ hosts' = [copy EXCEPT ![Fold[dom[d].host]] = "none"]
  BY <1>t, <1>d, GoesOn DEF HostsFill, Serial, At
<1>2. Fits(c)'
  BY <1>f, <1>1 DEF Ready, Fits
<1>3. ASSUME Serves(c) PROVE Serves(c)'
  <2>1. req'[c].pc = "ddRoute" => hosts'[Fold[req[c].h]] = "none"
    BY <1>t, <1>d, <1>l, <1>1 DEF Lines
  <2>2. copy'[Fold[req[c].h]] = "none"
    BY <1>d, <1>l, <1>f DEF Blank
  <2> QED BY <1>f, <1>1, <1>3, <2>1, <2>2 DEF Serves, Dooming, Managed
<1>4. ASSUME Calm, NEW e \in Rows PROVE Cut(e) \/ Awaits(c, e) => Cut(e)' \/ Awaits(c, e)'
  <2>1. Awaits(c, e) => Awaits(c, e)'
    BY <1>1 DEF Awaits
  <2>2. CASE e = d
    <3>1. Cut(e) => req[c].pc = "cdFill"
      BY <1>t, <1>d, <2>2 DEF Cut, Ready, EntryInv, FileInv, CopyFits
    <3>2. req[c].pc = "cdFill" => Awaits(c, e)'
      BY <1>d, <1>1, <2>2 DEF Awaits
    <3> QED BY <2>1, <3>1, <3>2
  <2>3. CASE e # d
    <3>1. Fold[dom[e].host] # Fold[dom[d].host] /\ Fold[dom[e].host] \in Line
      BY <1>4, <2>3, OwnNames, RowNames DEF Ready
    <3>2. hosts'[Fold[dom[e].host]] = copy[Fold[dom[e].host]] /\ copy'[Fold[dom[e].host]] = "none"
      BY <1>t, <1>f, <1>1, <3>1 DEF Lines, Blank
    <3> QED BY <1>f, <2>1, <3>2 DEF Cut, Managed
  <2> QED BY <2>2, <2>3
<1> QED BY <1>t, <1>f, <1>2, <1>3, <1>4, LineRoutes

\* The row goes: no route to a port was reported by it, and its own leads nowhere.
LEMMA DeletedRoutes ==
  ASSUME NEW c \in Caller, Ready(c), Serial, NEW d \in Rows, d = req[c].d, dom[d].host = req[c].h,
         dom[d].port = None \/ route[Lower[dom[d].host]] = None,
         Calm /\ Serves(c) => route[Lower[dom[d].host]] = None,
         req[c].pc \in {"cdRollback", "ddDelete"},
         DeleteDomainRow(d), Answer(c), UNCHANGED <<route, live, hosts, copy, cert>>
  PROVE  Keeps(c)
<1>t. Shape /\ dom \in [Dom -> DomRec] /\ d \in Dom /\ dom[d] \in DomRec
  BY DEF Ready, EntryInv, Shape, Rows
<1>0. Fits(c)' /\ Serves(c)'
  BY <1>t, EndsFits
<1>1. \A e : Awaits(c, e) <=> e = d
  BY DEF Awaits
<1>2. CASE d \in cert
  <2>1. UNCHANGED dom
    BY <1>2 DEF DeleteDomainRow
  <2>2. Calm /\ Serves(c) => Cut(d)
    BY <1>2 DEF Serves, Dooming, Cut
  <2> QED BY <1>0, <1>1, <2>1, <2>2, MovesOn
<1>3. CASE d \notin cert
  <2>1. dom' = [dom EXCEPT ![d] = [dom[d] EXCEPT !.st = "gone"]]
    BY <1>3 DEF DeleteDomainRow, Serial
  <2>2. dom'[d].st = "gone" /\ \A e \in Dom : e # d => dom'[e] = dom[e]
    BY <1>t, <2>1 DEF DomRec
  <2>3. Rows' = Rows \ {d} /\ \A e \in Rows : e # d => dom'[e] = dom[e]
    BY <2>2 DEF Rows
  <2>4. Reports(c)'
    <3> SUFFICES ASSUME NEW k \in RouteKey, route[k] \in Port
                 PROVE  \E e \in Rows' : /\ Lower[dom'[e].host] = k /\ dom'[e].project # None
                                         /\ dom'[e].port = route[k]
      BY DEF Reports
    <3>1. PICK e \in Rows : Lower[dom[e].host] = k /\ dom[e].project # None /\ dom[e].port = route[k]
      BY DEF Ready, Reports, WillReport
    <3>2. e # d
      BY <3>1
    <3> QED BY <2>3, <3>1, <3>2
  <2>5. ASSUME Routes(c) PROVE Routes(c)'
    <3>1. \A e \in Rows : e # d => (Right(e) => Right(e)') /\ (Cut(e) => Cut(e)')
      BY <2>3 DEF Right, Cut, Managed
    <3> QED BY <1>1, <2>3, <2>5, <3>1 DEF Routes
  <2> QED BY <1>0, <2>4, <2>5 DEF Keeps
<1> QED BY <1>2, <1>3

LEMMA RollbackRoutes ==
  ASSUME NEW c \in Caller, Ready(c), Serial, Rollback(c)
  PROVE  Keeps(c)
<1>1. /\ req[c].pc = "cdRollback" /\ Answer(c) /\ DeleteDomainRow(req[c].d)
      /\ UNCHANGED <<route, live, hosts, copy, cert>>
  BY DEF Rollback, At, manager, file
<1>2. req[c].d \in Rows /\ dom[req[c].d].host = req[c].h /\ dom[req[c].d].port = None
  BY <1>1 DEF Ready, Fits
<1>3. Serves(c) => route[Lower[req[c].h]] = None
  BY <1>1 DEF Serves
<1> QED BY <1>1, <1>2, <1>3, DeletedRoutes

\* createDomain looks for the process and its port once the line is written.
LEMMA CreateLooksRoutes ==
  ASSUME NEW c \in Caller, Ready(c), CreateLooks(c)
  PROVE  Keeps(c)
<1>t. /\ Shape /\ req[c] \in ReqRec /\ req[c].pc = "cdLive" /\ req[c].p \in Project \cup {None}
  BY DEF Ready, EntryInv, Shape, CreateLooks, At, ReqRec
<1>d. PICK d \in Rows : /\ d = req[c].d /\ dom[d].host = req[c].h
                        /\ dom[d].project = req[c].p /\ dom[d].port = None
  BY <1>t DEF Ready, Fits
<1>f. UNCHANGED <<dom, route, live, hosts, copy, cert>>
  BY DEF CreateLooks, tables, manager, file
<1>0. \A e : Awaits(c, e) => e = d
  BY <1>t, <1>d DEF Awaits
<1>1. CASE \E p \in Project : p = req[c].p /\ live[p] \notin {None, NoPort}
  <2>1. /\ req'[c].pc = "cdSet" /\ req'[c].p = req[c].p /\ req'[c].d = d /\ req'[c].h = req[c].h
        /\ req'[c].port = live[req[c].p]
    BY <1>t, <1>d, <1>1 DEF CreateLooks, Shape, ReqRec
  <2>2. live[req[c].p] \in Port \cup {Odd}
    BY <1>t, <1>1 DEF Shape, Text
  <2>3. Fits(c)'
    BY <1>d, <1>f, <1>1, <2>1, <2>2 DEF Fits, Rows
  <2>4. Serves(c) => Serves(c)'
    BY <1>t, <1>f, <2>1 DEF Serves, Dooming
  <2>5. Awaits(c, d)'
    BY <2>1 DEF Awaits
  <2> QED BY <1>t, <1>f, <1>0, <2>3, <2>4, <2>5, MovesOn
<1>2. CASE ~(\E p \in Project : p = req[c].p /\ live[p] \notin {None, NoPort})
  <2>1. Answer(c)
    BY <1>2 DEF CreateLooks
  <2>2. Calm /\ Settled /\ Serves(c) => Right(d)
    BY <1>t, <1>d, <1>2 DEF Right, Serves, Settled
  <2> QED BY <1>t, <1>f, <1>0, <2>1, <2>2, EndsFits, MovesOn
<1> QED BY <1>1, <1>2

LEMMA CreateRouteRoutes ==
  ASSUME NEW c \in Caller, Ready(c), CreateRoute(c)
  PROVE  Keeps(c)
<1>t. Shape /\ req[c].pc = "cdSet" /\ req[c].p \in Project /\ req[c].port \in Port \cup {Odd}
  BY DEF Ready, Fits, EntryInv, CreateRoute, At
<1>d. PICK d \in Rows : d = req[c].d /\ dom[d].host = req[c].h /\ dom[d].project = req[c].p
  BY <1>t DEF Ready, Fits
<1>f. UNCHANGED <<dom, live, hosts, copy, cert>> /\ Rows' = Rows
  BY DEF CreateRoute, tables, manager, file, Rows
<1>1. IF req[c].port = Odd THEN req'[c].pc = "idle"
      ELSE /\ req'[c].pc = "cdPort" /\ req'[c].p = req[c].p /\ req'[c].d = d /\ req'[c].h = req[c].h
           /\ req'[c].port = req[c].port
  BY <1>t, <1>d, GoesOn, Ends DEF CreateRoute
<1>2. /\ route'[Lower[dom[d].host]] = req[c].port
      /\ \A k \in RouteKey : k # Lower[dom[d].host] => route'[k] = route[k]
      /\ Calm => \A e \in Rows : e # d => (Right(e) => Right(e)') /\ (Cut(e) => Cut(e)')
  <2>1. EntryInv /\ RouteType /\ route' = [route EXCEPT ![Lower[dom[d].host]] = req[c].port]
    BY <1>d DEF CreateRoute, Ready
  <2> QED BY <1>f, <2>1, OneRoute
<1>4. Fits(c)'
  BY <1>t, <1>d, <1>f, <1>1, <1>2 DEF Fits
<1>5. Reports(c)'
  <2> SUFFICES ASSUME NEW k \in RouteKey, route'[k] \in Port
               PROVE  \E e \in Rows : /\ Lower[dom[e].host] = k /\ dom[e].project # None
                                      /\ dom[e].port = route'[k] \/ WillReport(c, e)'
    BY <1>f DEF Reports, WillReport
  <2>1. CASE k = Lower[dom[d].host]
    <3>1. WillReport(c, d)'
      BY <1>1, <1>2, <2>1 DEF WillReport
    <3> QED BY <1>t, <1>d, <2>1, <3>1
  <2>2. CASE k # Lower[dom[d].host]
    BY <1>t, <1>2, <2>2 DEF Ready, Reports, WillReport
  <2> QED BY <2>1, <2>2
<1>6. ASSUME Calm, Settled, Serves(c), Routes(c) PROVE Serves(c)' /\ Routes(c)'
  <2>1. live[req[c].p] = req[c].port
    BY <1>t, <1>6 DEF Serves
  <2>2. Serves(c)'
    BY <1>f, <1>1, <2>1 DEF Serves, Dooming
  <2>3. Right(d)'
    BY <1>t, <1>d, <1>f, <1>2, <2>1 DEF Right
  <2>4. \A e : Awaits(c, e) => e = d
    BY <1>t, <1>d DEF Awaits
  <2> QED BY <1>f, <1>2, <1>6, <2>2, <2>3, <2>4 DEF Routes
<1> QED BY <1>4, <1>5, <1>6 DEF Keeps

LEMMA CreatePortRoutes ==
  ASSUME NEW c \in Caller, Ready(c), Serial, CreatePort(c)
  PROVE  Keeps(c)
<1>t. Shape /\ req[c].pc = "cdPort"
  BY DEF Ready, EntryInv, CreatePort, At
<1>d. PICK d \in Rows : /\ d = req[c].d /\ route[Lower[dom[d].host]] = req[c].port
                        /\ dom[d].project # None
  BY <1>t DEF Ready, Fits
<1>1. SetPort(d, req[c].port) /\ Answer(c) /\ UNCHANGED <<route, live, hosts, copy, cert>>
  BY <1>d DEF CreatePort, Serial, manager, file
<1>2. Fits(c)' /\ Serves(c)' /\ req'[c].pc = "idle"
  BY <1>t, <1>1, EndsFits, Ends
<1>3. Reports(c)'
  BY <1>d, <1>1, <1>2, ReportRoutes
<1>4. \A e : ~Awaits(c, e)
  BY <1>t DEF Awaits
<1>5. ASSUME Routes(c) PROVE Routes(c)'
  BY <1>1, <1>4, <1>5, PortReported DEF Ready, Routes
<1> QED BY <1>2, <1>3, <1>5 DEF Keeps

\* deleteDomain: the line goes, then the route, then the row.
LEMMA HostsRemoveRoutes ==
  ASSUME NEW c \in Caller, Ready(c), HostsRemove(c)
  PROVE  Keeps(c)
<1>t. Shape /\ req[c].pc = "ddRemove" /\ ~Locked /\ req[c].d \in Rows
  BY DEF Ready, EntryInv, HostsRemove, At, Fits
<1>f. /\ UNCHANGED <<dom, route, live, cert, hosts>> /\ Rows' = Rows
      /\ copy' = hosts \/ copy' = copy
  BY DEF HostsRemove, tables, manager, Rows
<1>1. req'[c].pc = "idle" \/ (req'[c].pc = "ddWrite" /\ req'[c].d = req[c].d)
  BY <1>t, GoesOn, Ends DEF HostsRemove
<1>2. Fits(c)'
  BY <1>t, <1>f, <1>1 DEF Fits
<1>3. Serves(c)'
  BY <1>1 DEF Serves, Dooming
<1>4. \A e \in Rows : (Cut(e) => Cut(e)') /\ ~Awaits(c, e)
  BY <1>t, <1>f DEF Cut, Managed, Awaits
<1> QED BY <1>t, <1>f, <1>2, <1>3, <1>4, LineRoutes

LEMMA DomainRouteRoutes ==
  ASSUME NEW c \in Caller, Ready(c), DomainRoute(c)
  PROVE  Keeps(c)
<1>t. Shape /\ req[c].pc = "ddRoute"
  BY DEF Ready, EntryInv, DomainRoute, At
<1>d. PICK d \in Rows : d = req[c].d /\ dom[d].host = req[c].h
  BY <1>t DEF Ready, Fits, EntryInv, NamesInv, RowKnown, Working, Dooming
<1>f. UNCHANGED <<dom, live, hosts, copy, cert>> /\ Rows' = Rows
  BY DEF DomainRoute, tables, manager, file, Rows
<1>1. req'[c].pc = "ddDelete" /\ req'[c].d = d /\ req'[c].h = dom[d].host
  BY <1>t, <1>d, GoesOn DEF DomainRoute
<1>2. /\ route'[Lower[dom[d].host]] = None
      /\ \A k \in RouteKey : k # Lower[dom[d].host] => route'[k] = route[k]
      /\ Calm => \A e \in Rows : e # d => (Right(e) => Right(e)') /\ (Cut(e) => Cut(e)')
  <2>1. EntryInv /\ RouteType /\ route' = [route EXCEPT ![Lower[dom[d].host]] = None]
    BY <1>d DEF DomainRoute, Ready
  <2> QED BY <1>f, <2>1, OneRoute
<1>4. Fits(c)'
  BY <1>1, <1>2, <1>f DEF Fits
<1>5. Reports(c)'
  BY <1>t, <1>f, <1>2 DEF Ready, Reports, WillReport
<1>6. ASSUME Calm, Serves(c), Routes(c) PROVE Serves(c)' /\ Routes(c)'
  <2>1. Serves(c)'
    BY <1>t, <1>d, <1>f, <1>1, <1>6 DEF Serves, Managed, Dooming
  <2>2. Awaits(c, d)'
    BY <1>1 DEF Awaits
  <2>3. \A e : ~Awaits(c, e)
    BY <1>t DEF Awaits
  <2> QED BY <1>2, <1>f, <1>6, <2>1, <2>2, <2>3 DEF Routes
<1> QED BY <1>4, <1>5, <1>6 DEF Keeps

LEMMA DomainRowRoutes ==
  ASSUME NEW c \in Caller, Ready(c), Serial, DomainRow(c)
  PROVE  Keeps(c)
<1>1. /\ req[c].pc = "ddDelete" /\ Answer(c) /\ DeleteDomainRow(req[c].d)
      /\ UNCHANGED <<route, live, hosts, copy, cert>>
  BY DEF DomainRow, At, manager, file
<1>2. req[c].d \in Rows /\ dom[req[c].d].host = req[c].h /\ route[Lower[req[c].h]] = None
  BY <1>1 DEF Ready, Fits, EntryInv, NamesInv, RowKnown, Working, Dooming
<1> QED BY <1>1, <1>2, DeletedRoutes

LEMMA CertificateRoutes ==
  ASSUME NEW c \in Caller, Ready(c), InsertCertificate(c) \/ SetSSLEnabled(c)
  PROVE  Keeps(c)
<1>t. Shape /\ req[c].pc \in {"icInsert", "icEnable"}
  BY DEF Ready, EntryInv, InsertCertificate, SetSSLEnabled, At
<1>1. UNCHANGED <<dom, route, live, hosts, copy>> /\ cert \subseteq cert'
  BY DEF InsertCertificate, SetSSLEnabled, manager, file
<1>2. req'[c].pc \in {"icEnable", "idle"}
  BY <1>t, GoesOn, Ends DEF InsertCertificate, SetSSLEnabled
<1>3. Fits(c)' /\ Serves(c)'
  BY <1>2 DEF Fits, Serves, Dooming
<1>4. \A d : ~Awaits(c, d)
  BY <1>t DEF Awaits
<1> QED BY <1>t, <1>1, <1>3, <1>4, MovesOn

LEMMA HandlerRoutes ==
  ASSUME NEW c \in Caller, Ready(c), Serial, Handler(c)
  PROVE  Keeps(c)
BY SyncListRoutes, SyncSetRoutes, SyncPortRoutes, StartServiceRoutes, PersistStartRoutes, StopOfStopRoutes,
   RestartLooksRoutes, DeleteLooksRoutes, StopOfDeleteRoutes, DeleteRecordsRoutes, DeleteListRoutes,
   DeleteRouteRoutes, ClearProjectRoutes, DeleteRowRoutes, InsertDomainRoutes, HostsAddRoutes,
   RollbackRoutes, CreateLooksRoutes, CreateRouteRoutes, CreatePortRoutes, HostsRemoveRoutes,
   HostsTruncateRoutes, HostsFillRoutes, DomainRouteRoutes, DomainRowRoutes, CertificateRoutes
DEF Handler

\* The routing table stays a table of what a process may have as its PORT.
LEMMA NextRouteType ==
  ASSUME RouteType, Shape, [Next]_vars
  PROVE  RouteType'
<1>1. ASSUME NEW c \in Caller, SyncSet(c) \/ DeleteRoute(c) \/ CreateRoute(c) \/ DomainRoute(c)
      PROVE  RouteType'
  <2>1. req[c].port \in Text \cup {None}
    BY DEF Shape, ReqRec
  <2>2. CASE SyncSet(c) \/ DeleteRoute(c)
    BY <2>1, <2>2 DEF SyncSet, DeleteRoute, RouteType
  <2>3. CASE CreateRoute(c) \/ DomainRoute(c)
    BY <2>1, <2>3 DEF CreateRoute, DomainRoute, RouteType
  <2> QED BY <1>1, <2>2, <2>3
<1>2. ASSUME NEW c \in Caller, Handler(c), ~SyncSet(c), ~DeleteRoute(c), ~CreateRoute(c), ~DomainRoute(c)
      PROVE  UNCHANGED route
  BY <1>2
  DEF Handler, SyncList, SyncPort, StartService, PersistStart, StopOfStop, RestartLooks, DeleteLooks,
      StopOfDelete, DeleteRecords, DeleteList, ClearProject, DeleteRow, InsertDomain, HostsAdd, HostsTruncate,
      HostsFill, Rollback, CreateLooks, CreatePort, HostsRemove, DomainRow, InsertCertificate, SetSSLEnabled
<1>3. ASSUME NEW c \in Caller, Request(c) PROVE UNCHANGED route
  BY <1>3, RequestBegins
<1>4. ASSUME NEW p \in Project, CreateProject(p) \/ Exit(p) \/ Restart(p) PROVE UNCHANGED route
  BY <1>4 DEF CreateProject, Exit, Restart
<1>5. ASSUME NEW l \in Line, EditHosts(l) PROVE UNCHANGED route
  BY <1>5 DEF EditHosts
<1>6. CASE Crash \/ UNCHANGED vars
  BY <1>6 DEF Crash, vars, RouteType
<1> QED BY <1>1, <1>2, <1>3, <1>4, <1>5, <1>6 DEF Next, RouteType

LEMMA FaultsStay == Shape /\ [Next]_vars => faults' = faults
<1> SUFFICES ASSUME Shape, [Next]_vars PROVE faults' = faults
  OBVIOUS
<1>1. ASSUME NEW c \in Caller, Request(c) PROVE faults' = faults
  BY <1>1, RequestBegins
<1>2. ASSUME NEW c \in Caller, Handler(c) PROVE faults' = faults
  BY <1>2, AsideMoves
  DEF Handler, Aside, InsertDomain, HostsAdd, HostsRemove, HostsTruncate, HostsFill, Rollback, DomainRoute,
      DomainRow
<1>3. ASSUME NEW p \in Project, CreateProject(p) \/ Exit(p) \/ Restart(p) PROVE faults' = faults
  BY <1>3 DEF CreateProject, Exit, Restart
<1>4. ASSUME NEW l \in Line, EditHosts(l) PROVE faults' = faults
  BY <1>4 DEF EditHosts
<1>5. CASE Crash \/ UNCHANGED vars
  BY <1>5 DEF Crash, vars
<1> QED BY <1>1, <1>2, <1>3, <1>4, <1>5 DEF Next

\* A step of a handler is a step of its own request, and exits are not its business.
LEMMA HandlerAlone ==
  ASSUME Shape, NEW c \in Caller, Handler(c)
  PROVE  /\ req[c].pc # "idle" /\ exiting' = exiting
         /\ \A e \in Caller : e # c => req'[e] = req[e]
<1>1. req[c].pc # "idle" /\ exiting' = exiting
  BY DEF Handler, SyncList, SyncSet, SyncPort, StartService, PersistStart, StopOfStop, RestartLooks,
         DeleteLooks, StopOfDelete, DeleteRecords, DeleteList, DeleteRoute, ClearProject, DeleteRow,
         InsertDomain, HostsAdd, HostsTruncate, HostsFill, Rollback, CreateLooks, CreateRoute, CreatePort,
         HostsRemove, DomainRoute, DomainRow, InsertCertificate, SetSSLEnabled, At, manager
<1>2. CASE HostsAdd(c) \/ HostsRemove(c) \/ HostsTruncate(c) \/ HostsFill(c)
  BY <1>1, <1>2, HostsShape
<1>3. CASE ~(HostsAdd(c) \/ HostsRemove(c) \/ HostsTruncate(c) \/ HostsFill(c))
  BY <1>1, <1>3, FileElsewhere DEF Handler, Aside
<1> QED BY <1>1, <1>2, <1>3

\* A step of request c finds the others idle.
LEMMA OthersIdle ==
  ASSUME RoutesInv, Serial, NEW c \in Caller, Request(c) \/ Handler(c)
  PROVE  /\ \A e \in Caller : e # c => req[e].pc = "idle" /\ req'[e] = req[e]
         /\ exiting' = exiting
<1>t. Shape /\ Alone
  BY DEF RoutesInv, EntryInv
<1>1. CASE Request(c)
  <2>1. PICK r : Begin(c, r) /\ UNCHANGED <<tables, file, route, manager, faults>>
    BY <1>1, <1>t, RequestBegins
  <2>2. \A e \in Caller : req[e].pc = "idle"
    BY <2>1 DEF Begin, At, Serial
  <2> QED BY <1>t, <2>1, <2>2, BeginMoves DEF manager
<1>2. CASE Handler(c)
  BY <1>t, <1>2, HandlerAlone DEF Alone, At
<1> QED BY <1>1, <1>2

\* Where nothing happens behind the back of the requests, what runs has a port, and
\* what is routed is one.
LEMMA SettledStays ==
  ASSUME Shape, RouteType, NEW c \in Caller, Calm, Settled, Fits(c), Serves(c), Request(c) \/ Handler(c),
         exiting' = exiting
  PROVE  Settled'
<1>1. ASSUME UNCHANGED <<live, route>> PROVE Settled'
  BY <1>1 DEF Settled
<1>2. CASE Request(c)
  <2>1. UNCHANGED <<live, route>>
    BY <1>2, RequestBegins DEF manager
  <2> QED BY <1>1, <2>1
<1>3. CASE StartService(c)
  <2>1. req[c].pc = "spStart" /\ req[c].port \in Port
    BY <1>3 DEF StartService, Fits, Calm
  <2>2. live' = live \/ live' = [live EXCEPT ![req[c].p] = req[c].port]
    BY <1>3 DEF StartService, Enter
  <2>3. \A p \in Project : live'[p] \in Port \cup {None}
    BY <2>1, <2>2 DEF Settled, Shape
  <2>4. route' = route
    BY <1>3 DEF StartService
  <2> QED BY <2>3, <2>4 DEF Settled
<1>4. CASE StopOfStop(c) \/ StopOfDelete(c) \/ RestartLooks(c)
  <2>1. live' = live \/ live' = [live EXCEPT ![req[c].p] = None]
    BY <1>4 DEF StopOfStop, StopOfDelete, RestartLooks, StopService
  <2>2. \A p \in Project : live'[p] \in Port \cup {None}
    BY <2>1 DEF Settled, Shape
  <2>3. route' = route
    BY <1>4 DEF StopOfStop, StopOfDelete, RestartLooks
  <2> QED BY <2>2, <2>3 DEF Settled
<1>5. CASE SyncSet(c) \/ CreateRoute(c) \/ DeleteRoute(c) \/ DomainRoute(c)
  <2>1. /\ SyncSet(c) => req[c].port \in Port \cup {None}
        /\ CreateRoute(c) => req[c].port \in Port \cup {None}
    <3>1. CreateRoute(c) => req[c].p \in Project /\ live[req[c].p] = req[c].port
      BY DEF CreateRoute, At, Fits, Serves
    <3> QED BY <3>1 DEF SyncSet, At, Fits, Settled
  <2>2. PICK x \in Port \cup {None} : route' = route \/ \E k : route' = [route EXCEPT ![k] = x]
    BY <1>5, <2>1 DEF SyncSet, CreateRoute, DeleteRoute, DomainRoute
  <2>3. \A k \in RouteKey : route'[k] \in Port \cup {None}
    BY <2>2 DEF Settled, RouteType
  <2>4. live' = live
    BY <1>5 DEF SyncSet, CreateRoute, DeleteRoute, DomainRoute, manager
  <2> QED BY <2>3, <2>4 DEF Settled
<1>6. CASE /\ Handler(c)
           /\ ~(StartService(c) \/ StopOfStop(c) \/ StopOfDelete(c) \/ RestartLooks(c))
           /\ ~(SyncSet(c) \/ CreateRoute(c) \/ DeleteRoute(c) \/ DomainRoute(c))
  <2>1. UNCHANGED <<live, route>>
    BY <1>6
    DEF Handler, SyncList, SyncPort, PersistStart, DeleteLooks, DeleteRecords, DeleteList, ClearProject,
        DeleteRow, InsertDomain, HostsAdd, HostsTruncate, HostsFill, Rollback, CreateLooks, CreatePort,
        HostsRemove, DomainRow, InsertCertificate, SetSSLEnabled, manager
  <2> QED BY <1>1, <2>1
<1> QED BY <1>2, <1>3, <1>4, <1>5, <1>6

LEMMA InitRoutes == Init => RoutesInv
<1> SUFFICES ASSUME Init PROVE RoutesInv
  OBVIOUS
<1>1. EntryInv
  BY InitEntry
<1>2. \A c \in Caller : req[c].pc = "idle"
  BY DEF Init, Idle
<1>3. /\ RouteType /\ \A k \in RouteKey : route[k] = None
      /\ Rows = {} /\ Settled
  BY DEF Init, RouteType, Rows, NewDom, Settled
<1>4. Alone /\ Reported /\ Routed /\ \A c \in Caller : Fits(c) /\ Serves(c)
  BY <1>2, <1>3, IdleFits DEF Alone, At, Reported, Routed
<1> QED BY <1>1, <1>3, <1>4 DEF RoutesInv

\* The request that moves keeps what it knows, and only it has anything to report or
\* to route.
LEMMA RequestsKeepRoutes ==
  ASSUME RoutesInv, EntryInv', RouteType', faults' = faults, NEW c \in Caller, Request(c) \/ Handler(c)
  PROVE  RoutesInv'
<1>1. ASSUME Serial
      PROVE  /\ Alone' /\ Reported' /\ \A e \in Caller : Fits(e)'
             /\ Calm => Settled' /\ Routed' /\ \A e \in Caller : Serves(e)'
  <2>1. /\ \A e \in Caller : e # c => req[e].pc = "idle" /\ req'[e] = req[e]
        /\ exiting' = exiting
    BY <1>1, OthersIdle
  <2>2. \A e \in Caller : e # c => \A d : ~WillReport(e, d) /\ ~Awaits(e, d)
    BY <2>1, IdleFits
  <2>3. Reports(c)
    BY <1>1, <2>2 DEF RoutesInv, Reported, Reports
  <2>4. Calm => Settled /\ Serves(c) /\ Routes(c)
    BY <2>2 DEF RoutesInv, Routed, Routes
  <2>5. Ready(c)
    BY <1>1, <2>3 DEF RoutesInv, Ready
  <2>6. Keeps(c)
    BY <1>1, <2>5, RequestRoutes, HandlerRoutes
  <2>7. Alone'
    BY <2>1 DEF Alone, At
  <2>8. Reported'
    BY <2>6 DEF Keeps, Reports, Reported
  <2>9. \A e \in Caller : e # c => Fits(e)' /\ Serves(e)'
    <3>1. \A e \in Caller : e # c => req'[e].pc = "idle"
      BY <2>1
    <3> QED BY <3>1 DEF Fits, Serves, Dooming
  <2>10. ASSUME Calm
         PROVE  Settled' /\ Routed' /\ \A e \in Caller : Serves(e)'
    <3>1. Serves(c)' /\ Routes(c)'
      BY <2>4, <2>6, <2>10 DEF Keeps
    <3>2. Routed'
      BY <3>1 DEF Routes, Routed
    <3>3. Settled'
      BY <2>1, <2>4, <2>5, <2>10, SettledStays DEF Ready, EntryInv
    <3> QED BY <2>9, <3>1, <3>2, <3>3
  <2> QED BY <2>6, <2>7, <2>8, <2>9, <2>10 DEF Keeps
<1>2. (Serial' <=> Serial) /\ (Calm' <=> Calm) /\ (Calm => Serial)
  BY DEF Serial, Calm
<1> QED BY <1>1, <1>2 DEF RoutesInv

\* What happens around the requests: an exit and a restart are not part of a calm
\* behaviour, an edit of the hosts file takes no line of ours away and adds none.
LEMMA SurroundingsKeepRoutes ==
  ASSUME RoutesInv, EntryInv', RouteType', faults' = faults,
         UNCHANGED <<dom, route, req, cert, copy>>,
         \A l \in Line : hosts'[l] \in Managed => hosts[l] \in Managed,
         Calm => UNCHANGED <<live, exiting>>
  PROVE  RoutesInv'
<1>1. (Serial' <=> Serial) /\ (Calm' <=> Calm) /\ (Calm => Serial) /\ Rows' = Rows
  BY DEF Serial, Calm, Rows
<1>2. Serial => Alone' /\ Reported' /\ \A c \in Caller : Fits(c)'
  <2>1. \A p : BoundTo(p)' = BoundTo(p)
    BY <1>1 DEF BoundTo
  <2>2. ASSUME NEW c \in Caller, Fits(c) PROVE Fits(c)'
    BY <1>1, <2>1, <2>2 DEF Fits
  <2>3. Reported => Reported'
    BY <1>1 DEF Reported, WillReport
  <2> QED BY <2>2, <2>3 DEF RoutesInv, Alone, At
<1>3. ASSUME Calm
      PROVE  Settled' /\ Routed' /\ \A c \in Caller : Serves(c)'
  <2>1. \A c \in Caller : req[c].pc \in Dooming => Fold[req[c].h] \in Line
    BY DEF RoutesInv, EntryInv, NamesInv, RowKnown, Working, Line
  <2>2. \A c \in Caller : Serves(c)'
    BY <1>3, <2>1 DEF RoutesInv, Serves, Managed
  <2>3. \A d \in Rows : Fold[dom[d].host] \in Line
    BY RowNames DEF RoutesInv
  <2>4. \A d \in Rows : (Right(d) => Right(d)') /\ (Cut(d) => Cut(d)')
    BY <1>3, <2>3 DEF Right, Cut, Managed
  <2>5. \A c \in Caller, d \in Rows : Awaits(c, d) => Awaits(c, d)'
    BY DEF Awaits
  <2>6. Routed'
    BY <1>1, <1>3, <2>4, <2>5 DEF RoutesInv, Routed
  <2>7. Settled'
    BY <1>3 DEF RoutesInv, Settled
  <2> QED BY <2>2, <2>6, <2>7
<1> QED BY <1>1, <1>2, <1>3 DEF RoutesInv

LEMMA NextRoutes == RoutesInv /\ [Next]_vars => RoutesInv'
<1> SUFFICES ASSUME RoutesInv, [Next]_vars PROVE RoutesInv'
  OBVIOUS
<1>t. EntryInv' /\ RouteType' /\ faults' = faults /\ Shape
  BY NextEntry, NextRouteType, FaultsStay DEF RoutesInv, EntryInv
<1>1. ASSUME NEW c \in Caller, Request(c) \/ Handler(c) PROVE RoutesInv'
  BY <1>1, <1>t, RequestsKeepRoutes
<1>2. ASSUME NEW p \in Project, CreateProject(p) \/ Exit(p) \/ Restart(p) PROVE RoutesInv'
  <2>1. UNCHANGED <<dom, route, req, cert, hosts, copy>>
    BY <1>2 DEF CreateProject, Exit, Restart, file
  <2>2. Calm => UNCHANGED <<live, exiting>>
    BY <1>2 DEF CreateProject, Exit, Restart, manager, RoutesInv, Settled, Calm
  <2> QED BY <1>t, <2>1, <2>2, SurroundingsKeepRoutes DEF Managed
<1>3. ASSUME NEW l \in Line, EditHosts(l) PROVE RoutesInv'
  <2>1. UNCHANGED <<dom, route, req, cert, copy, live, exiting>>
    BY <1>3 DEF EditHosts, tables, manager
  <2>2. \A m \in Line : hosts'[m] \in Managed => hosts[m] \in Managed
    BY <1>3, <1>t DEF EditHosts, Shape, Lines, Managed
  <2> QED BY <1>t, <2>1, <2>2, SurroundingsKeepRoutes
<1>4. CASE Crash
  <2>1. /\ \A c \in Caller : req'[c].pc = "idle"
        /\ \A k \in RouteKey : route'[k] = None
        /\ \A p \in Project : live'[p] = None /\ exiting'[p] = None
    BY <1>4 DEF Crash, Idle
  <2>2. \A d \in Rows' : Lower[dom'[d].host] \in RouteKey /\ dom'[d].project \in Project \cup {None}
    BY <1>t DEF EntryInv, NamesInv, NameGiven, Rows, Shape, DomRec, RouteKey
  <2>3. Alone' /\ Reported' /\ Settled' /\ \A c \in Caller : Fits(c)' /\ Serves(c)'
    BY <2>1 DEF Alone, At, Reported, Settled, Fits, Serves, Dooming
  <2>4. Routed'
    BY <2>1, <2>2 DEF Routed, Right
  <2> QED BY <1>t, <2>3, <2>4 DEF RoutesInv
<1>5. CASE UNCHANGED vars
  <2>1. UNCHANGED <<dom, route, req, cert, hosts, copy, live, exiting>>
    BY <1>5 DEF vars, tables, file, manager
  <2> QED BY <1>t, <2>1, SurroundingsKeepRoutes DEF Managed
<1> QED BY <1>1, <1>2, <1>3, <1>4, <1>5 DEF Next

\* With exits and restarts anywhere between the steps of a handler, services started
\* and stopped behind the back of their projects and two spellings of one name, a
\* route to a port between two requests is the one a row of its host reports.
THEOREM PortTellsRouteTheorem == Spec => []PortTellsRoute
<1>1. RoutesInv => PortTellsRoute
  <2> SUFFICES ASSUME RoutesInv, Quiet, Serial, NEW k \in RouteKey, route[k] \in Port
               PROVE  \E d \in Rows : /\ Lower[dom[d].host] = k /\ dom[d].project # None
                                      /\ dom[d].port = route[k]
    BY DEF PortTellsRoute, Serial
  <2>1. \A c \in Caller, d \in Dom : ~WillReport(c, d)
    BY DEF Quiet, At, WillReport
  <2> QED BY <2>1 DEF RoutesInv, Reported, Rows
<1>2. Init => RoutesInv
  BY InitRoutes
<1>3. RoutesInv /\ [Next]_vars => RoutesInv'
  BY NextRoutes
<1> QED BY <1>1, <1>2, <1>3, PTL DEF Spec

\* Between two requests the routing table is what the rows and the running services
\* say: a domain bound to a running project leads to its port, every other host
\* nowhere; the exception is a domain whose certificate cut its deletion short.
THEOREM RoutesAreExactTheorem == Spec => []RoutesAreExact
<1>1. RoutesInv => RoutesAreExact
  <2> SUFFICES ASSUME RoutesInv, Quiet, Calm, NEW k \in RouteKey
               PROVE  LET bound == {d \in Rows : Lower[dom[d].host] = k /\ dom[d].project # None}
                          ports == {live[dom[d].project] : d \in bound}
                      IN  \/ route[k] \in ports \cup (IF bound = {} THEN {None} ELSE {})
                          \/ route[k] = None /\ \E d \in bound \cap cert : hosts[Fold[dom[d].host]] \notin Managed
    BY DEF RoutesAreExact, Serial, Calm
  <2> DEFINE bound == {d \in Rows : Lower[dom[d].host] = k /\ dom[d].project # None}
  <2>1. \A d \in Rows : Right(d) \/ Cut(d)
    BY DEF RoutesInv, Routed, Quiet, At, Awaits
  <2>2. CASE bound = {}
    <3>1. \A c \in Caller, d \in Dom : ~WillReport(c, d)
      BY DEF Quiet, At, WillReport
    <3>2. route[k] \notin Port
      BY <2>2, <3>1 DEF RoutesInv, Reported, Calm
    <3>3. route[k] = None
      BY <3>2 DEF RoutesInv, Settled
    <3> QED BY <2>2, <3>3
  <2>3. ASSUME NEW d \in bound
        PROVE  \/ route[k] = live[dom[d].project]
               \/ d \in cert /\ hosts[Fold[dom[d].host]] \notin Managed /\ route[k] = None
    BY <2>1 DEF Right, Cut
  <2> QED BY <2>2, <2>3
<1>2. Init => RoutesInv
  BY InitRoutes
<1>3. RoutesInv /\ [Next]_vars => RoutesInv'
  BY NextRoutes
<1> QED BY <1>1, <1>2, <1>3, PTL DEF Spec

=============================================================================
