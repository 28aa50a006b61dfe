----------------------------- MODULE DomainBinding -----------------------------
(***************************************************************************)
(* Projects, domains and the reverse proxy: the handlers of                *)
(* internal/api/v1/projects.go and domains.go (and the row side of         *)
(* ssl.go), which keep four places in step: the tables projects, domains,  *)
(* certificates and services, the hosts file, the routing table of the     *)
(* proxy, and the service table of the Service Manager.  Nothing locks the *)
(* four together: an action is one statement, one critical section or one  *)
(* read or write of the hosts file, and the handlers of several requests   *)
(* interleave, as do exits and restarts of the projects' processes, edits  *)
(* of the hosts file by its owner, and the death of the daemon.            *)
(*                                                                         *)
(* A host name is compared in three ways: UNIQUE(hostname) as it was typed *)
(* (a row keeps it so), the proxy in lower case (Lower), and the hosts     *)
(* file without regard to case or to blanks around it (Fold).              *)
(***************************************************************************)
EXTENDS FiniteSets

CONSTANTS
  Caller,       \* API goroutines
  Project, Dom, \* IDs of projects and domains (bound their number)
  Host,         \* host names as requests spell them
  Lower, Fold,  \* Host -> the key of its route; Host -> its name in the hosts file
  Port,         \* local ports
  NoPort, Odd,  \* the PORT of a service started without one, or with no number
  None,         \* NULL, no route, no process
  FaultSets     \* the sets of faults a behaviour may be exposed to

ASSUME BindingAssumption ==
  /\ None \notin Project \cup Dom \cup Host \cup Port \cup {NoPort, Odd}
  /\ {NoPort, Odd} \cap Port = {} /\ NoPort # Odd
  /\ \A g, h \in Host : Lower[g] = Lower[h] => Fold[g] = Fold[h]

\* overlap: requests run at the same time; exit: a process exits by itself;
\* write: a statement or the hosts file cannot be written; edit: somebody edits
\* the hosts file; crash: the daemon dies; api: the services of projects are also
\* started, stopped and restarted through /services; spelling: host names are not
\* always typed as the proxy and the hosts file keep them.
Fault == {"overlap", "exit", "write", "edit", "crash", "api", "spelling"}

ASSUME BindingFaults == FaultSets \subseteq SUBSET Fault

VARIABLES
  proj,      \* projects: "new" (an ID not used yet), "row", "gone"
  dom,       \* domains: [st, host, project, port]
  cert,      \* the domains a row of certificates refers to
  ssl,       \* the domains with ssl_enabled = 1
  svcRow,    \* the row "project:" + id of services: [own, port], None without one;
             \* own: its project_id is the project
  hosts,     \* the hosts file: "none", "volt", "moved" (ours, another IP), "foreign"
  copy,      \* the lines Add or Remove has read and is about to write back
  route,     \* Router.targets
  live,      \* Manager.procs["project:" + id]: the PORT of its process
  anon,      \* the live services without a ProjectID
  exiting,   \* the PORT of a process that has exited and is to be restarted
  req,       \* the request of each goroutine
  saved,     \* (history) whether the owner of the hosts file has saved a line of her
             \* own: "no", "yes", "late" (while it was being rewritten)
  torn,      \* (history) how rewrites of the hosts file were cut short
  faults     \* the faults of this behaviour (never changes)

tables == <<proj, dom, cert, ssl, svcRow>>
file == <<hosts, copy, saved, torn>>
manager == <<live, anon, exiting>>
vars == <<tables, file, route, manager, req, faults>>

Line == {Fold[h] : h \in Host}
RouteKey  == {Lower[h] : h \in Host}
Text == Port \cup {NoPort, Odd}                            \* PORT as the process has it

Idle    == [pc |-> "idle", p |-> None, d |-> None, h |-> None, port |-> None, own |-> TRUE, list |-> {}]
NewDom  == [st |-> "new", host |-> None, project |-> None, port |-> None]
Label   == {"idle", "dpGet", "dpStop", "dpRecords", "dpList", "dpRemove", "dpClear", "dpDelete",
            "spStart", "spPersist", "stStop", "syncList", "syncSet", "syncPort",
            "svStart", "svPersist", "svStop", "svRestart", "svLaunch",
            "cdInsert", "cdAdd", "cdWrite", "cdFill", "cdRollback", "cdLive", "cdSet", "cdPort",
            "ddRemove", "ddWrite", "ddFill", "ddRoute", "ddDelete", "icInsert", "icEnable"}

TypeOK ==
  /\ proj \in [Project -> {"new", "row", "gone"}]
  /\ dom \in [Dom -> [st : {"new", "row", "gone"}, host : Host \cup {None},
                      project : Project \cup {None}, port : Port \cup {None}]]
  /\ cert \in SUBSET Dom /\ ssl \in SUBSET Dom
  /\ svcRow \in [Project -> [own : BOOLEAN, port : Text] \cup {None}]
  /\ hosts \in [Line -> {"none", "volt", "moved", "foreign"}]
  /\ copy \in [Line -> {"none", "volt", "moved", "foreign"}]
  /\ saved \in [Line -> {"no", "yes", "late"}] /\ torn \in SUBSET {"died", "failed"}
  /\ route \in [RouteKey -> Port \cup {None, Odd}]
  /\ live \in [Project -> Text \cup {None}] /\ exiting \in [Project -> Text \cup {None}]
  /\ anon \in SUBSET Project
  /\ req \in [Caller -> [pc : Label, p : Project \cup {None}, d : Dom \cup {None}, h : Host \cup {None},
                         port : Text \cup {None}, own : BOOLEAN, list : SUBSET Dom]]
  /\ faults \in FaultSets

Blank == [l \in Line |-> "none"]                           \* a file without lines

Init ==
  /\ proj = [p \in Project |-> "new"]
  /\ dom = [d \in Dom |-> NewDom]
  /\ cert = {} /\ ssl = {} /\ svcRow = [p \in Project |-> None]
  /\ hosts \in [Line -> {"none", "foreign"}] /\ copy = Blank
  /\ saved = [l \in Line |-> IF hosts[l] = "foreign" THEN "yes" ELSE "no"] /\ torn = {}
  /\ route = [k \in RouteKey |-> None]
  /\ live = [p \in Project |-> None] /\ anon = {} /\ exiting = [p \in Project |-> None]
  /\ req = [c \in Caller |-> Idle]
  /\ faults \in FaultSets

Goto(c, l) == req' = [req EXCEPT ![c].pc = l]
Answer(c)  == req' = [req EXCEPT ![c] = Idle]
At(c, l)   == req[c].pc = l

\* A request arrives; without the fault "overlap" only when no other runs.
Begin(c, r) ==
  /\ At(c, "idle")
  /\ "overlap" \in faults \/ \A e \in Caller : At(e, "idle")
  /\ req' = [req EXCEPT ![c] = r]

-----------------------------------------------------------------------------
(* The repositories.                                                         *)

ProjectRows == {p \in Project : proj[p] = "row"}
Rows        == {d \in Dom : dom[d].st = "row"}
Taken(h)    == \E d \in Rows : dom[d].host = h            \* UNIQUE (hostname), as typed
BoundTo(p)  == {d \in Rows : dom[d].project = p}          \* ListDomainsForProject
Managed     == {"volt", "moved"}                          \* lines with volt's marker

\* The service row refers to the project.
Refers(p) == svcRow[p] # None /\ svcRow[p].own

\* Manager.persist of a service with or without a ProjectID.  services.project_id is
\* a foreign key, so a row cannot be written for a project that is gone; an error
\* is only logged.
Persist(p, own, x) ==
  \/ /\ own => proj[p] = "row"
     /\ svcRow' = [svcRow EXCEPT ![p] = [own |-> own, port |-> x]]
  \/ /\ (own /\ proj[p] # "row") \/ "write" \in faults
     /\ UNCHANGED svcRow

\* SetPort names the row by its ID; it fails, unnoticed, when the row is gone.
SetPort(d, x) == dom' = IF d \in Rows THEN [dom EXCEPT ![d].port = x] ELSE dom

\* projects.Create, after the look at the path and the detection of its kind.
CreateProject(p) ==
  /\ \A c \in Caller : "overlap" \in faults \/ At(c, "idle")
  /\ proj[p] = "new"
  /\ proj' = [proj EXCEPT ![p] = "row"]
  /\ UNCHANGED <<dom, cert, ssl, svcRow, file, route, manager, req, faults>>

-----------------------------------------------------------------------------
(* syncProjectProxyRoutes(id, addr): addr is "" when req[c].port is None.     *)

SyncList(c) ==
  /\ At(c, "syncList")
  /\ req' = [req EXCEPT ![c].pc = "syncSet", ![c].list = BoundTo(req[c].p)]
  /\ UNCHANGED <<tables, file, route, manager, faults>>

\* Proxy.Remove or Proxy.Set of the next domain of the list.
SyncSet(c) ==
  /\ At(c, "syncSet")
  /\ IF req[c].list = {} THEN Answer(c) /\ UNCHANGED route ELSE
     LET d == CHOOSE d \in req[c].list : TRUE
     IN  /\ route' = [route EXCEPT ![Lower[dom[d].host]] = req[c].port]
         /\ req' = IF req[c].port = None
                   THEN [req EXCEPT ![c].list = @ \ {d}]
                   ELSE [req EXCEPT ![c].pc = "syncPort", ![c].d = d, ![c].list = @ \ {d}]
  /\ UNCHANGED <<tables, file, manager, faults>>

SyncPort(c) ==
  /\ At(c, "syncPort")
  /\ SetPort(req[c].d, req[c].port) \/ ("write" \in faults /\ UNCHANGED dom)
  /\ req' = [req EXCEPT ![c].pc = "syncSet", ![c].d = None]
  /\ UNCHANGED <<proj, cert, ssl, svcRow, file, route, manager, faults>>

-----------------------------------------------------------------------------
(* startProject, stopProject, and startService, stopService, restartService    *)
(* of /services with the ID of a project's service                            *)

\* A port nobody listens on: allocateFreePort.
FreePort(x) == \A q \in Project : live[q] # x

StartProject(c, p, x) ==
  /\ proj[p] = "row" /\ live[p] = None /\ FreePort(x)
  /\ Begin(c, [Idle EXCEPT !.pc = "spStart", !.p = p, !.port = x])
  /\ UNCHANGED <<tables, file, route, manager, faults>>

\* A request to /services brings its own environment, hence any PORT, and names no
\* project.
ServiceRequest(c, p) ==
  /\ "api" \in faults /\ proj[p] # "new"
  /\ \/ Begin(c, [Idle EXCEPT !.pc = "svStop", !.p = p])
     \/ Begin(c, [Idle EXCEPT !.pc = "svRestart", !.p = p])
     \/ \E x \in Text : Begin(c, [Idle EXCEPT !.pc = "svStart", !.p = p, !.port = x, !.own = FALSE])
  /\ UNCHANGED <<tables, file, route, manager, faults>>

\* The process is entered into the table of the Manager.
Enter(p, own, x) ==
  /\ live' = [live EXCEPT ![p] = x]
  /\ anon' = IF own THEN anon \ {p} ELSE anon \cup {p}

\* Manager.Start: refused when the service has appeared meanwhile, or the command
\* does not start.  restartService calls startProcess, which does not look.
StartService(c) ==
  /\ req[c].pc \in {"spStart", "svStart", "svLaunch"}
  /\ \/ /\ At(c, "svLaunch") \/ live[req[c].p] = None
        /\ Enter(req[c].p, req[c].own, req[c].port)
        /\ Goto(c, IF At(c, "spStart") THEN "spPersist" ELSE "svPersist")
     \/ Answer(c) /\ UNCHANGED <<live, anon>>
  /\ UNCHANGED <<tables, file, route, exiting, faults>>

\* Only startProject goes on to the routes.
PersistStart(c) ==
  /\ req[c].pc \in {"spPersist", "svPersist"}
  /\ Persist(req[c].p, req[c].own, req[c].port)
  /\ IF At(c, "spPersist") THEN Goto(c, "syncList") ELSE Answer(c)
  /\ UNCHANGED <<proj, dom, cert, ssl, file, route, manager, faults>>

StopProject(c, p) ==
  /\ proj[p] # "new"
  /\ Begin(c, [Idle EXCEPT !.pc = "stStop", !.p = p])
  /\ UNCHANGED <<tables, file, route, manager, faults>>

\* Manager.Stop of a running service: the entry is gone when it returns.
StopService(p) ==
  /\ live' = [live EXCEPT ![p] = None] /\ anon' = anon \ {p}
  /\ Persist(p, p \notin anon, live[p])

\* Stop returns an error when there is no entry, or when the process had exited
\* before the signal reached it; stopProject then leaves the routes alone.
\* stopService never looks at them.
StopOfStop(c) ==
  /\ req[c].pc \in {"stStop", "svStop"}
  /\ \/ live[req[c].p] = None /\ Answer(c) /\ UNCHANGED <<live, anon, svcRow>>
     \/ /\ live[req[c].p] # None
        /\ StopService(req[c].p)
        /\ \/ At(c, "stStop") /\ Goto(c, "syncList")
           \/ (At(c, "svStop") \/ "exit" \in faults) /\ Answer(c)
  /\ UNCHANGED <<proj, dom, cert, ssl, file, route, exiting, faults>>

\* Manager.Restart: the service as it runs, which is stopped first, or as its row
\* has it.
RestartLooks(c) ==
  /\ At(c, "svRestart")
  /\ LET p == req[c].p IN
     \/ /\ live[p] # None
        /\ StopService(p)
        /\ \/ req' = [req EXCEPT ![c].pc = "svLaunch", ![c].port = live[p], ![c].own = p \notin anon]
           \/ "exit" \in faults /\ Answer(c)
     \/ /\ live[p] = None /\ svcRow[p] # None
        /\ req' = [req EXCEPT ![c].pc = "svLaunch", ![c].port = svcRow[p].port, ![c].own = svcRow[p].own]
        /\ UNCHANGED <<live, anon, svcRow>>
     \/ live[p] = None /\ svcRow[p] = None /\ Answer(c) /\ UNCHANGED <<live, anon, svcRow>>
  /\ UNCHANGED <<proj, dom, cert, ssl, file, route, exiting, faults>>

-----------------------------------------------------------------------------
(* deleteProject                                                              *)

DeleteProject(c, p) ==
  /\ proj[p] # "new"
  /\ Begin(c, [Idle EXCEPT !.pc = "dpGet", !.p = p])
  /\ UNCHANGED <<tables, file, route, manager, faults>>

\* d.Mgr.Get
DeleteLooks(c) ==
  /\ At(c, "dpGet")
  /\ Goto(c, IF live[req[c].p] = None THEN "dpRecords" ELSE "dpStop")
  /\ UNCHANGED <<tables, file, route, manager, faults>>

\* Its error is ignored here.
StopOfDelete(c) ==
  /\ At(c, "dpStop")
  /\ IF live[req[c].p] = None THEN UNCHANGED <<live, anon, svcRow>> ELSE StopService(req[c].p)
  /\ Goto(c, "dpRecords")
  /\ UNCHANGED <<proj, dom, cert, ssl, file, route, exiting, faults>>

\* DELETE FROM services WHERE project_id = ?
DeleteRecords(c) ==
  /\ At(c, "dpRecords")
  /\ \/ svcRow' = [svcRow EXCEPT ![req[c].p] = IF Refers(req[c].p) THEN None ELSE @]
     \/ "write" \in faults /\ UNCHANGED svcRow
  /\ Goto(c, "dpList")
  /\ UNCHANGED <<proj, dom, cert, ssl, file, route, manager, faults>>

DeleteList(c) ==
  /\ At(c, "dpList")
  /\ req' = [req EXCEPT ![c].pc = "dpRemove", ![c].list = BoundTo(req[c].p)]
  /\ UNCHANGED <<tables, file, route, manager, faults>>

DeleteKeepsRoute(c) ==                     \* mutant of DeleteRoute
  /\ At(c, "dpRemove")
  /\ IF req[c].list = {} THEN Goto(c, "dpDelete") ELSE
     LET d == CHOOSE d \in req[c].list : TRUE
     IN  req' = [req EXCEPT ![c].pc = "dpClear", ![c].d = d, ![c].list = @ \ {d}]
  /\ UNCHANGED <<tables, file, route, manager, faults>>

\* Proxy.Remove of the next bound domain
DeleteRoute(c) ==
  /\ At(c, "dpRemove")
  /\ IF req[c].list = {} THEN Goto(c, "dpDelete") /\ UNCHANGED route ELSE
     LET d == CHOOSE d \in req[c].list : TRUE
     IN  /\ route' = [route EXCEPT ![Lower[dom[d].host]] = None]
         /\ req' = [req EXCEPT ![c].pc = "dpClear", ![c].d = d, ![c].list = @ \ {d}]
  /\ UNCHANGED <<tables, file, manager, faults>>

ClearProject(c) ==
  /\ At(c, "dpClear")
  /\ \/ dom' = [dom EXCEPT ![req[c].d] = IF @.st = "row" THEN [@ EXCEPT !.project = None, !.port = None]
                                                         ELSE @]
     \/ "write" \in faults /\ UNCHANGED dom
  /\ req' = [req EXCEPT ![c].pc = "dpRemove", ![c].d = None]
  /\ UNCHANGED <<proj, cert, ssl, svcRow, file, route, manager, faults>>

\* DELETE FROM projects: refused while a service, a domain, or (not modelled
\* here) a deployment or a pipeline refers to the row.
DeleteRow(c) ==
  /\ At(c, "dpDelete")
  /\ LET p == req[c].p IN
     \/ /\ ~Refers(p) /\ BoundTo(p) = {}
        /\ proj' = [proj EXCEPT ![p] = "gone"]
     \/ UNCHANGED proj
  /\ Answer(c)
  /\ UNCHANGED <<dom, cert, ssl, svcRow, file, route, manager, faults>>

-----------------------------------------------------------------------------
(* createDomain                                                               *)

\* Add and Remove hold Provider.mu until they have written.
Rewriting == {"cdWrite", "cdFill", "ddWrite", "ddFill"}
Locked    == \E c \in Caller : req[c].pc \in Rewriting

\* Provider.Conflicts: a line with this host that is not ours, or not 127.0.0.1.
Conflicts(h) == hosts[Fold[h]] \in {"foreign", "moved"}

\* A name that is its own key and its own name in the hosts file.
Plain(h) == Lower[h] = h /\ Fold[h] = h

CreateDomain(c, h, p) ==
  /\ ~Locked /\ ~Conflicts(h)
  /\ Plain(h) \/ "spelling" \in faults
  /\ p \in Project => proj[p] # "new"
  /\ Begin(c, [Idle EXCEPT !.pc = "cdInsert", !.h = h, !.p = p])
  /\ UNCHANGED <<tables, file, route, manager, faults>>

\* INSERT INTO domains: a fresh ID; UNIQUE (hostname); project_id is NULL or the
\* ID of an existing row.  A port the client asks for is not told apart from none.
InsertDomain(c) ==
  /\ At(c, "cdInsert")
  /\ LET r == req[c]
         d == CHOOSE d \in Dom : dom[d].st = "new"
     IN  \/ /\ ~Taken(r.h) /\ r.p \in ProjectRows \cup {None}
            /\ \E e \in Dom : dom[e].st = "new"
            /\ dom' = [dom EXCEPT ![d] = [st |-> "row", host |-> r.h, project |-> r.p, port |-> None]]
            /\ req' = [req EXCEPT ![c].pc = "cdAdd", ![c].d = d]
         \/ Answer(c) /\ UNCHANGED dom
  /\ UNCHANGED <<proj, cert, ssl, svcRow, file, route, manager, faults>>

HostsAddBlindly(c) ==                      \* mutant of HostsAdd
  /\ At(c, "cdAdd") /\ ~Locked
  /\ copy' = hosts /\ Goto(c, "cdWrite")
  /\ UNCHANGED <<tables, hosts, saved, torn, route, manager, faults>>

\* Provider.Add up to its write: refuses a foreign line, leaves a line of ours as it
\* is, is about to correct its IP or to append one.
HostsAdd(c) ==
  /\ At(c, "cdAdd") /\ ~Locked
  /\ LET line == hosts[Fold[req[c].h]] IN
     \/ line \in {"none", "moved"} /\ copy' = hosts /\ Goto(c, "cdWrite")
     \/ line = "volt" /\ UNCHANGED copy /\ Goto(c, "cdLive")
     \/ /\ line = "foreign" \/ "write" \in faults
        /\ UNCHANGED copy /\ Goto(c, "cdRollback")
  /\ UNCHANGED <<tables, hosts, saved, torn, route, manager, faults>>

\* Provider.write returned an error: the mutex is released.
HostsWriteFails(c) ==
  /\ copy' = Blank
  /\ IF req[c].pc \in {"cdWrite", "cdFill"} THEN Goto(c, "cdRollback") ELSE Answer(c)

\* os.WriteFile opens the file with O_TRUNC ...
HostsTruncate(c) ==
  /\ req[c].pc \in {"cdWrite", "ddWrite"}
  /\ \/ /\ hosts' = Blank /\ UNCHANGED copy
        /\ Goto(c, IF At(c, "cdWrite") THEN "cdFill" ELSE "ddFill")
     \/ "write" \in faults /\ HostsWriteFails(c) /\ UNCHANGED hosts
  /\ UNCHANGED <<tables, saved, torn, route, manager, faults>>

\* ... and then writes the lines as they were read, and changed, over whatever was
\* saved meanwhile; a disk that is full takes some of them, or all (Close fails).
HostsFill(c) ==
  /\ req[c].pc \in {"cdFill", "ddFill"}
  /\ LET lines == [copy EXCEPT ![Fold[req[c].h]] = IF At(c, "cdFill") THEN "volt" ELSE "none"] IN
     \/ /\ hosts' = lines /\ copy' = Blank /\ UNCHANGED torn
        /\ Goto(c, IF At(c, "cdFill") THEN "cdLive" ELSE "ddRoute")
     \/ /\ "write" \in faults /\ HostsWriteFails(c) /\ torn' = torn \cup {"failed"}
        /\ \E some \in SUBSET Line : hosts' = [l \in Line |-> IF l \in some THEN lines[l] ELSE "none"]
  /\ UNCHANGED <<tables, saved, route, manager, faults>>

\* DELETE FROM domains WHERE id = ?: refused while a certificate refers to it.
DeleteDomainRow(d) ==
  IF d \in Rows /\ d \notin cert
  THEN dom' = [dom EXCEPT ![d].st = "gone"] \/ ("write" \in faults /\ UNCHANGED dom)
  ELSE UNCHANGED dom

Rollback(c) ==
  /\ At(c, "cdRollback")
  /\ DeleteDomainRow(req[c].d)
  /\ Answer(c)
  /\ UNCHANGED <<proj, cert, ssl, svcRow, file, route, manager, faults>>

\* d.Mgr.Get of the project's service, and its PORT if it has one
CreateLooks(c) ==
  /\ At(c, "cdLive")
  /\ IF \E p \in Project : p = req[c].p /\ live[p] \notin {None, NoPort}
     THEN req' = [req EXCEPT ![c].pc = "cdSet", ![c].port = live[req[c].p]]
     ELSE Answer(c)
  /\ UNCHANGED <<tables, file, route, manager, faults>>

\* Proxy.Set; a PORT that is no number is not reported.
CreateRoute(c) ==
  /\ At(c, "cdSet")
  /\ route' = [route EXCEPT ![Lower[req[c].h]] = req[c].port]
  /\ IF req[c].port = Odd THEN Answer(c) ELSE Goto(c, "cdPort")
  /\ UNCHANGED <<tables, file, manager, faults>>

CreateForgetsPort(c) ==                    \* mutant of CreatePort
  At(c, "cdPort") /\ Answer(c) /\ UNCHANGED <<tables, file, route, manager, faults>>

CreatePort(c) ==
  /\ At(c, "cdPort")
  /\ SetPort(req[c].d, req[c].port) \/ ("write" \in faults /\ UNCHANGED dom)
  /\ Answer(c)
  /\ UNCHANGED <<proj, cert, ssl, svcRow, file, route, manager, faults>>

-----------------------------------------------------------------------------
(* deleteDomain                                                               *)

\* GetDomain: the ID and the host name are the handler's copies from here on.
DeleteDomain(c, d) ==
  /\ d \in Rows
  /\ Begin(c, [Idle EXCEPT !.pc = "ddRemove", !.d = d, !.h = dom[d].host])
  /\ UNCHANGED <<tables, file, route, manager, faults>>

HostsRemoveBestEffort(c) ==                \* mutant of HostsRemove
  /\ At(c, "ddRemove") /\ ~Locked
  /\ \/ hosts[Fold[req[c].h]] \in Managed /\ copy' = hosts /\ Goto(c, "ddWrite")
     \/ /\ hosts[Fold[req[c].h]] \notin Managed \/ "write" \in faults
        /\ UNCHANGED copy /\ Goto(c, "ddRoute")
  /\ UNCHANGED <<tables, hosts, saved, torn, route, manager, faults>>

\* Provider.Remove up to its write: only a line of ours; ErrNotFound ends the handler.
HostsRemove(c) ==
  /\ At(c, "ddRemove") /\ ~Locked
  /\ \/ /\ hosts[Fold[req[c].h]] \in Managed
        /\ copy' = hosts /\ Goto(c, "ddWrite")
     \/ /\ hosts[Fold[req[c].h]] \notin Managed \/ "write" \in faults
        /\ UNCHANGED copy /\ Answer(c)
  /\ UNCHANGED <<tables, hosts, saved, torn, route, manager, faults>>

DomainRoute(c) ==
  /\ At(c, "ddRoute")
  /\ route' = [route EXCEPT ![Lower[req[c].h]] = None]
  /\ Goto(c, "ddDelete")
  /\ UNCHANGED <<tables, file, manager, faults>>

DomainRow(c) ==
  /\ At(c, "ddDelete")
  /\ DeleteDomainRow(req[c].d)
  /\ Answer(c)
  /\ UNCHANGED <<proj, cert, ssl, svcRow, file, route, manager, faults>>

-----------------------------------------------------------------------------
(* issueCertificate: its rows (LocalCA has the files)                         *)

IssueCertificate(c, d) ==
  /\ d \in Rows
  /\ Begin(c, [Idle EXCEPT !.pc = "icInsert", !.d = d])
  /\ UNCHANGED <<tables, file, route, manager, faults>>

\* CreateCertificate: certificates.domain_id is a foreign key.
InsertCertificate(c) ==
  /\ At(c, "icInsert")
  /\ \/ /\ req[c].d \in Rows
        /\ cert' = cert \cup {req[c].d}
        /\ Goto(c, "icEnable")
     \/ /\ req[c].d \notin Rows \/ "write" \in faults
        /\ Answer(c)
        /\ UNCHANGED cert
  /\ UNCHANGED <<proj, dom, ssl, svcRow, file, route, manager, faults>>

SetSSLEnabled(c) ==
  /\ At(c, "icEnable")
  /\ ssl' = ssl \cup {req[c].d} \/ ("write" \in faults /\ UNCHANGED ssl)
  /\ Answer(c)
  /\ UNCHANGED <<proj, dom, cert, svcRow, file, route, manager, faults>>

-----------------------------------------------------------------------------
(* The surroundings of the handlers                                           *)

\* awaitExit after an exit nobody asked for: the entry is gone, and the policy
\* on-failure restarts the process or not (it ended well, or the budget is spent).
\* What was started through /services has the policy "no".
Exit(p) ==
  /\ "exit" \in faults /\ live[p] # None /\ exiting[p] = None
  /\ live' = [live EXCEPT ![p] = None] /\ anon' = anon \ {p}
  /\ \/ p \notin anon /\ exiting' = [exiting EXCEPT ![p] = live[p]] /\ UNCHANGED svcRow
     \/ Persist(p, p \notin anon, live[p]) /\ UNCHANGED exiting
  /\ UNCHANGED <<proj, dom, cert, ssl, file, route, req, faults>>

\* startProcess with the same environment, hence the same PORT; or it fails.
Restart(p) ==
  /\ exiting[p] # None
  /\ Enter(p, TRUE, exiting[p]) \/ UNCHANGED <<live, anon>>
  /\ exiting' = [exiting EXCEPT ![p] = None]
  /\ Persist(p, TRUE, exiting[p])
  /\ UNCHANGED <<proj, dom, cert, ssl, file, route, req, faults>>

\* The owner of the machine saves the file in place: with a line of her own more, or
\* with another IP for ours.
EditHosts(l) ==
  /\ "edit" \in faults
  /\ \/ /\ hosts[l] = "none" /\ hosts' = [hosts EXCEPT ![l] = "foreign"]
        /\ saved' = [saved EXCEPT ![l] = IF Locked THEN "late" ELSE "yes"]
     \/ hosts[l] = "volt" /\ hosts' = [hosts EXCEPT ![l] = "moved"] /\ UNCHANGED saved
  /\ UNCHANGED <<tables, copy, torn, route, manager, req, faults>>

\* The daemon dies and starts again: tables and files stay, memory does not.
Crash ==
  /\ "crash" \in faults
  /\ copy' = Blank
  /\ torn' = torn \cup {w \in {"died"} : \E c \in Caller : req[c].pc \in {"cdFill", "ddFill"}}
  /\ route' = [k \in RouteKey |-> None]
  /\ live' = [p \in Project |-> None] /\ anon' = {} /\ exiting' = [p \in Project |-> None]
  /\ req' = [c \in Caller |-> Idle]
  /\ UNCHANGED <<tables, hosts, saved, faults>>

Handler(c) ==
  \/ SyncList(c) \/ SyncSet(c) \/ SyncPort(c)
  \/ StartService(c) \/ PersistStart(c) \/ StopOfStop(c) \/ RestartLooks(c)
  \/ DeleteLooks(c) \/ StopOfDelete(c) \/ DeleteRecords(c) \/ DeleteList(c)
  \/ DeleteRoute(c) \/ ClearProject(c) \/ DeleteRow(c)
  \/ InsertDomain(c) \/ HostsAdd(c) \/ Rollback(c)
  \/ CreateLooks(c) \/ CreateRoute(c) \/ CreatePort(c)
  \/ HostsRemove(c) \/ HostsTruncate(c) \/ HostsFill(c) \/ DomainRoute(c) \/ DomainRow(c)
  \/ InsertCertificate(c) \/ SetSSLEnabled(c)

Request(c) ==
  \/ \E p \in Project : StopProject(c, p) \/ DeleteProject(c, p) \/ ServiceRequest(c, p)
  \/ \E p \in Project, x \in Port : StartProject(c, p, x)
  \/ \E h \in Host, p \in Project \cup {None} : CreateDomain(c, h, p)
  \/ \E d \in Dom : DeleteDomain(c, d) \/ IssueCertificate(c, d)

Next ==
  \/ \E c \in Caller : Request(c) \/ Handler(c)
  \/ \E p \in Project : CreateProject(p) \/ Exit(p) \/ Restart(p)
  \/ \E l \in Line : EditHosts(l)
  \/ Crash

Spec == Init /\ [][Next]_vars

-----------------------------------------------------------------------------
(* Properties                                                                 *)

\* A line volt wrote into the hosts file always belongs to a registered domain,
\* whatever requests overlap, however they spell the name, and wherever the daemon
\* dies: nobody is left with a line that no domain of the panel can remove.  It
\* rests on createDomain inserting the row first and deleteDomain deleting it last.
\* The one way out is a rewrite that reports an error and has written the line.
EntryHasRow ==
  "failed" \notin torn =>
    \A l \in Line : hosts[l] \in Managed => \E d \in Rows : Fold[dom[d].host] = l

\* A line the owner of the file has saved is there again after every rewrite that
\* is carried through, although createDomain looks for conflicts long before it
\* writes, the file is empty for a while, and requests, edits and deaths of the
\* daemon come in between.
ForeignIsKept ==
  ~Locked /\ torn = {} => \A l \in Line : saved[l] = "yes" => hosts[l] = "foreign"

Quiet == \A c \in Caller : At(c, "idle")

\* Where requests come one at a time, processes do not exit by themselves, statements
\* do not fail, nobody goes to the service of a project behind its back and names are
\* spelled in one way, the routing table between two requests is exactly what the
\* rows and the running services say: a domain bound to a running project leads to
\* the port of that project, every other host leads nowhere.  The one exception is
\* a domain whose certificate made its deletion fail half-way.
RoutesAreExact ==
  Quiet /\ faults \cap {"overlap", "exit", "write", "api", "spelling"} = {} =>
    \A k \in RouteKey :
      LET bound == {d \in Rows : Lower[dom[d].host] = k /\ dom[d].project # None}
          ports == {live[dom[d].project] : d \in bound}
      IN  \/ route[k] \in ports \cup (IF bound = {} THEN {None} ELSE {})
          \/ route[k] = None /\ \E d \in bound \cap cert : hosts[Fold[dom[d].host]] \notin Managed

\* Also with exits and restarts between the steps of a handler, with services started
\* and stopped behind the back of their projects and with two spellings of one name,
\* a route to a port between two requests is the one a row of its host reports:
\* SetPort is there "so the port this domain reports reflects where it's really
\* being proxied to".
PortTellsRoute ==
  Quiet /\ faults \cap {"overlap", "write"} = {} =>
    \A k \in RouteKey : route[k] \in Port =>
      \E d \in Rows : Lower[dom[d].host] = k /\ dom[d].project # None /\ dom[d].port = route[k]
=============================================================================
