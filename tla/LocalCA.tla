-------------------------------- MODULE LocalCA --------------------------------
(***************************************************************************)
(* The local certificate authority of internal/providers/ssl/localca and   *)
(* the handlers of internal/api/v1/ssl.go: which files are written in      *)
(* which order, what a daemon that dies (or a disk that is full) in the    *)
(* middle leaves behind, and the rows that refer to the files.             *)
(*                                                                         *)
(* Provider.mu is held over a whole operation, so an operation is a list   *)
(* of file writes that is fixed when its phase begins.  os.WriteFile       *)
(* empties the file and then fills it: two steps.  Cryptography is         *)
(* reduced to which key a certificate carries and which key signed it.     *)
(***************************************************************************)
EXTENDS Sequences

CONSTANTS
  Client,     \* API goroutines
  CertId,     \* certificate IDs
  CertDomain, \* rows of domains
  Key,        \* key pairs (bounds how often a key is generated)
  CA,         \* the root: its files lie beside those of the certificates
  Nobody      \* no key, no client, NULL

ASSUME CAAssumption ==
  /\ CA \notin CertId /\ Nobody \notin Key \cup Client \cup CertDomain
  /\ Key \cap {"absent", "partial", "valid", "revoked"} = {}

VARIABLES
  disk,     \* <<kind, id>> -> "absent", "partial", a key, "valid", "revoked"
  signer,   \* the key that signed the certificate of a key; Nobody: not generated
  store,    \* the root certificate the operating system trusts
  mu,       \* who holds Provider.mu
  todo,     \* the writes its operation still has to do
  job,      \* what each goroutine does: [op, id, dom]
  certRow,  \* certificates: the domain_id of each row, Nobody without a row
  domRow,   \* the rows of domains
  sslOn     \* the domains with ssl_enabled = 1

caVars == <<disk, signer, store, mu, todo, job, certRow, domRow, sslOn>>

File == {"key", "cert", "meta"} \X (CertId \cup {CA})
Free == [op |-> "idle", id |-> Nobody, dom |-> Nobody]

CATypeOK ==
  /\ disk \in [File -> {"absent", "partial", "valid", "revoked"} \cup Key]
  /\ signer \in [Key -> Key \cup {Nobody}]
  /\ store \in Key \cup {Nobody}
  /\ mu \in Client \cup {Nobody}
  /\ todo \in Seq([file : File, data : {"absent", "valid", "revoked"} \cup Key])
  /\ job \in [Client -> [op : {"idle", "ensure", "issue", "sign", "renew", "revoke", "trust", "install",
                               "insert", "enable"},
                         id : CertId \cup {Nobody}, dom : CertDomain \cup {Nobody}]]
  /\ certRow \in [CertId -> CertDomain \cup {Nobody}]
  /\ domRow \in SUBSET CertDomain /\ sslOn \in SUBSET CertDomain

CAInit ==
  /\ disk = [f \in File |-> "absent"]
  /\ signer = [k \in Key |-> Nobody]
  /\ store = Nobody /\ mu = Nobody /\ todo = <<>>
  /\ job = [c \in Client |-> Free]
  /\ certRow = [i \in CertId |-> Nobody]
  /\ domRow = CertDomain /\ sslOn = {}

rows == <<certRow, domRow, sslOn>>

Put(kind, id, data) == [file |-> <<kind, id>>, data |-> data]
Become(c, op)       == job' = [job EXCEPT ![c].op = op]
Done(c)             == job' = [job EXCEPT ![c] = Free]
Unlock              == mu' = Nobody /\ todo' = <<>>

NewKey    == CHOOSE k \in Key : signer[k] = Nobody
MayNewKey == \E k \in Key : signer[k] = Nobody

\* loadCA: both files are there and parse.
Loads == disk[<<"cert", CA>>] \in Key /\ disk[<<"key", CA>>] \in Key

EnsureAnew(c) ==                           \* mutant of EnsureCA
  /\ MayNewKey
  /\ signer' = [signer EXCEPT ![NewKey] = NewKey]
  /\ todo' = <<Put("key", CA, NewKey), Put("cert", CA, NewKey)>>

\* ensureCALocked: nothing to do, or a new root, its key first.
EnsureCA(c) ==
  IF Loads THEN todo' = <<>> /\ UNCHANGED signer
  ELSE /\ MayNewKey
       /\ signer' = [signer EXCEPT ![NewKey] = NewKey]
       /\ todo' = <<Put("key", CA, NewKey), Put("cert", CA, NewKey)>>

\* signLeaf and writeMeta for the certificate id; CreateCertificate refuses a
\* signing key that is not the one of the root certificate.
SignLeaf(id) ==
  /\ disk[<<"key", CA>>] = disk[<<"cert", CA>>]
  /\ MayNewKey
  /\ signer' = [signer EXCEPT ![NewKey] = disk[<<"key", CA>>]]
  /\ todo' = <<Put("key", id, NewKey), Put("cert", id, NewKey), Put("meta", id, "valid")>>

RevokeMarksFirst(id) ==                    \* mutant of RevokeLeaf
  todo' = <<Put("meta", id, "revoked"), Put("key", id, "absent")>>

\* Revoke: the key is destroyed before the file says so.
RevokeLeaf(id) == todo' = <<Put("key", id, "absent"), Put("meta", id, "revoked")>>

-----------------------------------------------------------------------------
(* An operation takes the lock and fixes what it writes.                      *)

\* EnsureCA, IssueCertificate and TrustCA begin alike.
LockForRoot(c, op, d) ==
  /\ mu = Nobody /\ job[c].op = "idle"
  /\ EnsureCA(c)
  /\ mu' = c
  /\ job' = [job EXCEPT ![c] = [op |-> op, id |-> Nobody, dom |-> d]]
  /\ UNCHANGED <<disk, store, rows>>

ensureCA(c)            == LockForRoot(c, "ensure", Nobody)
trustCA(c)             == LockForRoot(c, "trust", Nobody)
issueCertificate(c, d) == d \in domRow /\ LockForRoot(c, "issue", d)

Used(i) == \/ disk[<<"key", i>>] # "absent" \/ disk[<<"cert", i>>] # "absent"
           \/ \E c \in Client : job[c].id = i

\* The second phase of IssueCertificate, under the same lock: a new ID.
Issue(c) ==
  /\ mu = c /\ job[c].op = "issue" /\ todo = <<>>
  /\ \/ /\ \E i \in CertId : ~Used(i)
        /\ LET i == CHOOSE i \in CertId : ~Used(i)
           IN  SignLeaf(i) /\ job' = [job EXCEPT ![c].op = "sign", ![c].id = i]
        /\ UNCHANGED mu
     \/ Unlock /\ Done(c) /\ UNCHANGED signer          \* an error
  /\ UNCHANGED <<disk, store, rows>>

\* Renew: a certificate whose meta file can be read and is not revoked.
Renew(c, i) ==
  /\ mu = Nobody /\ job[c].op = "idle"
  /\ disk[<<"meta", i>>] = "valid" /\ Loads
  /\ SignLeaf(i)
  /\ mu' = c /\ job' = [job EXCEPT ![c] = [op |-> "renew", id |-> i, dom |-> Nobody]]
  /\ UNCHANGED <<disk, store, rows>>

Revoke(c, i) ==
  /\ mu = Nobody /\ job[c].op = "idle"
  /\ disk[<<"meta", i>>] = "valid"
  /\ RevokeLeaf(i)
  /\ mu' = c /\ job' = [job EXCEPT ![c] = [op |-> "revoke", id |-> i, dom |-> Nobody]]
  /\ UNCHANGED <<disk, signer, store, rows>>

-----------------------------------------------------------------------------
(* os.WriteFile and os.Remove                                                 *)

\* The file is opened with O_TRUNC ...
Truncate(c) ==
  /\ mu = c /\ todo # <<>>
  /\ LET w == Head(todo)
     IN  /\ w.data # "absent" /\ disk[w.file] # "partial"
         /\ disk' = [disk EXCEPT ![w.file] = "partial"]
  /\ UNCHANGED <<signer, store, mu, todo, job, rows>>

\* ... and filled.  Removing a file is one step.
Fill(c) ==
  /\ mu = c /\ todo # <<>>
  /\ LET w == Head(todo)
     IN  /\ w.data = "absent" \/ disk[w.file] = "partial"
         /\ disk' = [disk EXCEPT ![w.file] = w.data]
  /\ todo' = Tail(todo)
  /\ UNCHANGED <<signer, store, mu, job, rows>>

WriteErrorIgnored(c) ==                    \* mutant of WriteFails
  /\ mu = c /\ todo # <<>>
  /\ Unlock
  /\ IF job[c].op = "sign" THEN Become(c, "insert") ELSE Done(c)
  /\ UNCHANGED <<disk, signer, store, rows>>

\* The disk is full: the operation returns the error.
WriteFails(c) ==
  /\ mu = c /\ todo # <<>>
  /\ Unlock /\ Done(c)
  /\ UNCHANGED <<disk, signer, store, rows>>

\* All is written and the lock is free; what the caller does next.
Finish(c) ==
  /\ mu = c /\ todo = <<>> /\ job[c].op # "issue"
  /\ Unlock
  /\ CASE job[c].op = "trust" -> Become(c, "install")
       [] job[c].op = "sign"  -> Become(c, "insert")
       [] OTHER               -> Done(c)
  /\ UNCHANGED <<disk, signer, store, rows>>

-----------------------------------------------------------------------------
(* After the provider has returned                                            *)

\* TrustCA runs the command of the operating system on ca-cert.pem without the
\* lock, then writes the marker file.
Install(c) ==
  /\ job[c].op = "install"
  /\ \/ /\ disk[<<"cert", CA>>] \in Key
        /\ store' = disk[<<"cert", CA>>]
        /\ disk' = [disk EXCEPT ![<<"meta", CA>>] = "valid"]
     \/ UNCHANGED <<store, disk>>
  /\ Done(c)
  /\ UNCHANGED <<signer, mu, todo, rows>>

\* CreateCertificate: domain_id is a foreign key.
InsertRow(c) ==
  /\ job[c].op = "insert"
  /\ IF job[c].dom \in domRow
     THEN certRow' = [certRow EXCEPT ![job[c].id] = job[c].dom] /\ Become(c, "enable")
     ELSE Done(c) /\ UNCHANGED certRow
  /\ UNCHANGED <<disk, signer, store, mu, todo, domRow, sslOn>>

EnableSSL(c) ==
  /\ job[c].op = "enable"
  /\ sslOn' = sslOn \cup {job[c].dom}
  /\ Done(c)
  /\ UNCHANGED <<disk, signer, store, mu, todo, certRow, domRow>>

\* deleteDomain reaches DELETE FROM domains (DomainBinding has the handler).
DropDomain(d) ==
  /\ d \in domRow /\ \A i \in CertId : certRow[i] # d
  /\ domRow' = domRow \ {d}
  /\ UNCHANGED <<disk, signer, store, mu, todo, job, certRow, sslOn>>

\* The daemon dies and starts again: files, rows and the trust store stay.
Die ==
  /\ Unlock
  /\ job' = [c \in Client |-> Free]
  /\ UNCHANGED <<disk, signer, store, rows>>

CANext ==
  \/ \E c \in Client :
       \/ ensureCA(c) \/ trustCA(c)
       \/ \E d \in CertDomain : issueCertificate(c, d)
       \/ \E i \in CertId : Renew(c, i) \/ Revoke(c, i)
       \/ Issue(c) \/ Truncate(c) \/ Fill(c) \/ WriteFails(c) \/ Finish(c)
       \/ Install(c) \/ InsertRow(c) \/ EnableSSL(c)
  \/ \E d \in CertDomain : DropDomain(d)
  \/ Die

CASpec == CAInit /\ [][CANext]_caVars

-----------------------------------------------------------------------------
(* Properties                                                                 *)

\* There is one root for ever, wherever the daemon died while it made it: every
\* leaf certificate on disk is signed by the key that lies there beside the
\* certificate of the same root, and what the operating system was told to trust
\* is that root.  It rests on loadCA taking a half-written file for none, on
\* ensureCALocked replacing both files or neither, and on one lock around it all.
OneRoot ==
  /\ \A i \in CertId : disk[<<"cert", i>>] \in Key =>
       Loads /\ signer[disk[<<"cert", i>>]] = disk[<<"key", CA>>]
  /\ store # Nobody => Loads /\ store = disk[<<"cert", CA>>]
  /\ Loads => disk[<<"key", CA>>] = disk[<<"cert", CA>>]

\* A certificate marked revoked has no key left, whatever Renew, Revoke and the
\* death of the daemon came to pass before ("destroys certID's private key (so it
\* can never be used to terminate TLS again)").
RevokedHasNoKey ==
  \A i \in CertId : disk[<<"meta", i>>] = "revoked" => disk[<<"key", i>>] = "absent"

\* A row of certificates has its files, a domain with ssl_enabled has such a row,
\* and a domain that is gone has none: issueCertificate writes files, row and flag
\* in this order, and the domain may be deleted before the row is there.
RowHasFiles ==
  /\ \A i \in CertId : certRow[i] # Nobody =>
       /\ disk[<<"cert", i>>] # "absent" /\ disk[<<"meta", i>>] # "absent"
       /\ certRow[i] \in domRow
  /\ \A d \in sslOn : \E i \in CertId : certRow[i] = d
=============================================================================
