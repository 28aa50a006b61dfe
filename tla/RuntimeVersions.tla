---------------------------- MODULE RuntimeVersions ----------------------------
(***************************************************************************)
(* Node.js versions: the directories the installer of internal/providers/  *)
(* runtime/node manages, its default file, and the rows of                 *)
(* internal/domain/runtime that detection writes, under the handlers of    *)
(* internal/api/v1/runtimes.go.                                            *)
(*                                                                         *)
(* A directory is the set of files in it: the binary and the rest.  The    *)
(* pattern for a version is not anchored, so "<version>.tmp" matches it.   *)
(***************************************************************************)
EXTENDS Naturals

CONSTANTS
  Worker,       \* API goroutines
  Version,
  NoVersion,
  PathVersion,  \* what `node` on PATH is, or NoVersion
  RtFaultSets

ASSUME VersionAssumption == NoVersion \notin Version /\ PathVersion \in Version \cup {NoVersion}

\* overlap: requests run at the same time; sameVersion: also requests about one
\* version; crash: the daemon dies; fs: a removal or a rename fails; db: a
\* statement fails.
ASSUME RtFaults == RtFaultSets \subseteq SUBSET {"overlap", "sameVersion", "crash", "fs", "db"}

VARIABLES
  dir,       \* Version -> files of <version>
  staging,   \* Version -> files of <version>.tmp
  def,       \* default.txt
  rtRows,    \* runtime_versions: name -> [status, isDefault]
  refused,   \* the last change of the default was answered with an error, and no
             \* detection has been stored since
  rtLoc,     \* each goroutine's step and local variables
  rtFaults   \* the faults of this behaviour (never changes)

disk   == <<dir, staging, def>>
table  == <<rtRows, refused>>
rtVars == <<disk, table, rtLoc, rtFaults>>

Files   == {"bin", "rest"}
Name    == Version \X {"", ".tmp"}
Named(v) == <<v, "">>
RtIdle  == [pc |-> "idle", v |-> NoVersion, todo |-> {}, managed |-> {},
            def |-> NoVersion, active |-> NoVersion]

RtTypeOK ==
  /\ dir \in [Version -> SUBSET Files] /\ staging \in [Version -> SUBSET Files]
  /\ def \in Version \cup {NoVersion}
  /\ rtRows \in [Name -> [status : {"none", "installed", "missing"}, isDefault : BOOLEAN]]
  /\ refused \in BOOLEAN /\ rtFaults \in RtFaultSets

-----------------------------------------------------------------------------
(* Detection                                                                  *)

\* ManagedVersions: what looks like a version and has the binary.
ManagedVersions == {n \in Name : "bin" \in IF n[2] = "" THEN dir[n[1]] ELSE staging[n[1]]}

\* ActiveVersion: the default, if it has the binary, else `node` on PATH.
ActiveVersion == IF def # NoVersion /\ "bin" \in dir[def] THEN def ELSE PathVersion

\* DetectInstalled: the active version first, marked default; the others as listed.
Detected(managed, d, active) ==
  LET all == managed \cup (IF active = NoVersion THEN {} ELSE {Named(active)}) IN
  [n \in all |-> (active # NoVersion /\ n = Named(active)) \/ (d # NoVersion /\ n = Named(d))]

ReplaceForgets(found) ==                   \* mutant of ReplaceDetected
  [n \in Name |-> IF n \in DOMAIN found THEN [status |-> "installed", isDefault |-> found[n] \/ rtRows[n].isDefault]
                  ELSE [rtRows[n] EXCEPT !.status = IF @ = "none" THEN "none" ELSE "missing"]]

\* ReplaceDetected, one transaction: what is not found is missing and keeps its mark.
ReplaceDetected(found) ==
  [n \in Name |-> IF n \in DOMAIN found THEN [status |-> "installed", isDefault |-> found[n]]
                  ELSE [rtRows[n] EXCEPT !.status = IF @ = "none" THEN "none" ELSE "missing"]]

\* Nothing is installed yet and the first listing has been made.
RtInit ==
  /\ dir = [v \in Version |-> {}] /\ staging = [v \in Version |-> {}] /\ def = NoVersion
  /\ rtRows = [n \in Name |-> IF PathVersion # NoVersion /\ n = Named(PathVersion)
                              THEN [status |-> "installed", isDefault |-> TRUE]
                              ELSE [status |-> "none", isDefault |-> FALSE]]
  /\ rtLoc = [w \in Worker |-> RtIdle]
  /\ refused = FALSE /\ rtFaults \in RtFaultSets

RtAt(w, l)   == rtLoc[w].pc = l
RtGoto(w, l) == rtLoc' = [rtLoc EXCEPT ![w].pc = l]
RtDone(w)    == rtLoc' = [rtLoc EXCEPT ![w] = RtIdle]
RtQuiet      == \A w \in Worker : RtAt(w, "idle")
Changing(v)  == \E w \in Worker : rtLoc[w].v = v /\ ~RtAt(w, "idle")

RtArrive(w, l, v) ==
  /\ RtAt(w, "idle") /\ ("overlap" \in rtFaults \/ RtQuiet)
  /\ v = NoVersion \/ "sameVersion" \in rtFaults \/ ~Changing(v)
  /\ rtLoc' = [rtLoc EXCEPT ![w] = [RtIdle EXCEPT !.pc = l, !.v = v]]

\* listRuntimes and detectRuntimeKind.
detectRuntimeKind(w) ==
  /\ RtArrive(w, "list", NoVersion)
  /\ UNCHANGED <<disk, table, rtFaults>>

\* The directory and the default file are read; then the default file once more.
ListManaged(w) ==
  /\ RtAt(w, "list")
  /\ rtLoc' = [rtLoc EXCEPT ![w].pc = "active", ![w].managed = ManagedVersions, ![w].def = def]
  /\ UNCHANGED <<disk, table, rtFaults>>

ReadActive(w) ==
  /\ RtAt(w, "active")
  /\ rtLoc' = [rtLoc EXCEPT ![w].pc = "persist", ![w].active = ActiveVersion]
  /\ UNCHANGED <<disk, table, rtFaults>>

Persist(w) ==
  LET l == rtLoc[w] IN
  /\ RtAt(w, "persist")
  /\ RtDone(w)
  /\ \/ rtRows' = ReplaceDetected(Detected(l.managed, l.def, l.active)) /\ refused' = FALSE
     \/ "db" \in rtFaults /\ UNCHANGED table
  /\ UNCHANGED <<disk, rtFaults>>

-----------------------------------------------------------------------------
(* Install                                                                    *)

\* The archive is downloaded and its checksum verified, or that is the end of it.
installRuntimeVersion(w, v) ==
  /\ RtArrive(w, "clear", v)
  /\ UNCHANGED <<disk, table, rtFaults>>

ClearStaging(w) ==
  /\ RtAt(w, "clear")
  /\ staging' = [staging EXCEPT ![rtLoc[w].v] = {}]
  /\ rtLoc' = [rtLoc EXCEPT ![w].pc = "extract", ![w].todo = Files]
  /\ UNCHANGED <<dir, def, table, rtFaults>>

\* extractTarGz, extractZip: file by file, in the order of the archive; an error
\* removes the directory.
Extract(w) ==
  LET v == rtLoc[w].v IN
  /\ RtAt(w, "extract")
  /\ \/ \E f \in rtLoc[w].todo :
          /\ staging' = [staging EXCEPT ![v] = @ \cup {f}]
          /\ rtLoc' = [rtLoc EXCEPT ![w].todo = @ \ {f}, ![w].pc = IF rtLoc[w].todo = {f} THEN "replace" ELSE "extract"]
     \/ staging' = [staging EXCEPT ![v] = {}] /\ RtDone(w)
  /\ UNCHANGED <<dir, def, table, rtFaults>>

\* RemoveAll of what is there; its error is ignored.
ReplaceOld(w) ==
  /\ RtAt(w, "replace")
  /\ \/ dir' = [dir EXCEPT ![rtLoc[w].v] = {}]
     \/ "fs" \in rtFaults /\ \E F \in SUBSET dir[rtLoc[w].v] : dir' = [dir EXCEPT ![rtLoc[w].v] = F]
  /\ RtGoto(w, "rename")
  /\ UNCHANGED <<staging, def, table, rtFaults>>

RenamePartial(w) ==                        \* mutant of Rename
  LET v == rtLoc[w].v IN
  /\ RtAt(w, "rename")
  /\ \E F \in SUBSET staging[v] : dir' = [dir EXCEPT ![v] = F]
  /\ staging' = [staging EXCEPT ![v] = {}]
  /\ RtGoto(w, "list")
  /\ UNCHANGED <<def, table, rtFaults>>

\* Rename: needs the source and no files at the destination; otherwise the staging
\* directory is removed and nothing is detected.
Rename(w) ==
  LET v == rtLoc[w].v IN
  /\ RtAt(w, "rename")
  /\ staging' = [staging EXCEPT ![v] = {}]
  /\ \/ /\ staging[v] # {} /\ dir[v] = {}
        /\ dir' = [dir EXCEPT ![v] = staging[v]]
        /\ RtGoto(w, "list")
     \/ /\ staging[v] = {} \/ dir[v] # {} \/ "fs" \in rtFaults
        /\ RtDone(w) /\ UNCHANGED dir
  /\ UNCHANGED <<def, table, rtFaults>>

-----------------------------------------------------------------------------
(* Remove and SetDefault                                                      *)

removeRuntimeVersion(w, v) ==
  /\ dir[v] # {}
  /\ RtArrive(w, "remove", v)
  /\ UNCHANGED <<disk, table, rtFaults>>

RemoveDir(w) ==
  LET v == rtLoc[w].v IN
  /\ RtAt(w, "remove")
  /\ \/ dir' = [dir EXCEPT ![v] = {}] /\ RtGoto(w, "undefault")
     \/ "fs" \in rtFaults /\ (\E F \in SUBSET dir[v] : dir' = [dir EXCEPT ![v] = F]) /\ RtDone(w)
  /\ UNCHANGED <<staging, def, table, rtFaults>>

\* The default file goes if it names what was removed.
Undefault(w) ==
  /\ RtAt(w, "undefault")
  /\ def' = IF def = rtLoc[w].v THEN NoVersion ELSE def
  /\ RtGoto(w, "list")
  /\ UNCHANGED <<dir, staging, table, rtFaults>>

setDefaultRuntimeVersion(w, v) ==
  /\ "bin" \in dir[v]
  /\ RtArrive(w, "write", v)
  /\ UNCHANGED <<disk, table, rtFaults>>

\* A temporary file renamed over the default file.
WriteDefault(w) ==
  /\ RtAt(w, "write")
  /\ def' = rtLoc[w].v
  /\ RtGoto(w, "mark")
  /\ UNCHANGED <<dir, staging, table, rtFaults>>

\* SetDefaultVersion, one transaction; an unknown version changes nothing.  The
\* installer has dropped the leading "v" of the version, if the request wrote one;
\* the rows are looked up as the request wrote it, and none has such a name.
SetDefaultVersion(w) ==
  LET v == Named(rtLoc[w].v) IN
  \E spelled \in {"plain", "leading v"} :
    LET known == spelled = "plain" /\ rtRows[v].status # "none" IN
    /\ RtAt(w, "mark")
    /\ RtDone(w)
    /\ \/ /\ known
          /\ rtRows' = [n \in Name |-> [rtRows[n] EXCEPT !.isDefault = (n = v)]]
          /\ refused' = FALSE
       \/ (~known \/ "db" \in rtFaults) /\ refused' = TRUE /\ UNCHANGED rtRows
    /\ UNCHANGED <<disk, rtFaults>>

\* A removal that was under way may have got anywhere.
RtCrash ==
  /\ "crash" \in rtFaults
  /\ rtLoc' = [w \in Worker |-> RtIdle]
  /\ \E d \in [Version -> SUBSET Files] :
       /\ \A v \in Version : IF \E w \in Worker : rtLoc[w].v = v /\ rtLoc[w].pc \in {"replace", "remove"}
                             THEN d[v] \subseteq dir[v] ELSE d[v] = dir[v]
       /\ dir' = d
  /\ UNCHANGED <<staging, def, table, rtFaults>>

RtNext ==
  \/ \E w \in Worker :
       \/ detectRuntimeKind(w) \/ ListManaged(w) \/ ReadActive(w) \/ Persist(w)
       \/ \E v \in Version : installRuntimeVersion(w, v) \/ removeRuntimeVersion(w, v) \/ setDefaultRuntimeVersion(w, v)
       \/ ClearStaging(w) \/ Extract(w) \/ ReplaceOld(w) \/ Rename(w)
       \/ RemoveDir(w) \/ Undefault(w) \/ WriteDefault(w) \/ SetDefaultVersion(w)
  \/ RtCrash

RtSpec == RtInit /\ [][RtNext]_rtVars

-----------------------------------------------------------------------------
(* Properties                                                                 *)

\* After requests that came one at a time and met no failure the rows tell what is
\* on disk: what is active or managed is installed, nothing else is but the `node` on
\* PATH, and the one default among them is the version that is active, also after
\* reinstalls and removals of it.  The last part does not hold after a change of the
\* default that was refused when default.txt had been switched, until the next
\* detection.
RowsTellDisk ==
  RtQuiet /\ rtFaults = {} =>
    \A n \in Name :
      LET active == ActiveVersion # NoVersion /\ n = Named(ActiveVersion)
          path   == PathVersion # NoVersion /\ n = Named(PathVersion)
      IN  /\ n \in ManagedVersions \/ active => rtRows[n].status = "installed"
          /\ rtRows[n].status = "installed" => /\ n \in ManagedVersions \/ path
                                               /\ ~refused => (rtRows[n].isDefault <=> active)

\* However installs, removals, detections and failures overlap: as long as no two
\* change the same version, and none of them dies or cannot remove what it must, a
\* version that nobody is changing is there with all its files or not at all.
VersionsAreComplete ==
  rtFaults \cap {"sameVersion", "crash", "fs"} = {} =>
    \A v \in Version : ~Changing(v) => dir[v] \in {{}, Files} /\ staging[v] = {}

\* "a failed/interrupted install never leaves a half-extracted directory that
\* ManagedVersions would mistake for a real one".
PartialIsNotListed ==
  RtQuiet => \A n \in ManagedVersions : (IF n[2] = "" THEN dir[n[1]] ELSE staging[n[1]]) = Files /\ n[2] = ""
=============================================================================
