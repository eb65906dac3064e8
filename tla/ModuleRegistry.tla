---------------------------- MODULE ModuleRegistry ----------------------------
(***************************************************************************)
(* ModuleRegistry (module_registry.cpp): the table of known modules, the   *)
(* scan of the modules directories that fills and prunes it, the other     *)
(* ways in, and the membership edges each reports to the state observer.   *)
(* Every public operation runs under m_mutex, so it is one step, except    *)
(* the scan (the sink may be installed while it runs) and the embedded     *)
(* registration (which reports after unlocking).  The snapshot reads the   *)
(* table under that lock and numbers its listing without it.               *)
(***************************************************************************)
EXTENDS Naturals, FiniteSets

CONSTANTS
    Names,          \* package and module names
    Valid,          \* those isValidModuleName accepts
    Manifests,      \* what a package may hold: [kind, core, asserts, deps, opt]
    EmbeddedDeps,   \* the dependencies an embedded image's manifest lists
    MaxDisk,        \* bound: installs and uninstalls
    MaxLoads        \* bound: loads begun

Kinds == {"plugin", "bare", "web"}
Edges == SUBSET Names

ASSUME RegistryAssumption ==
    /\ Valid \subseteq Names
    /\ Manifests \subseteq [kind : Kinds, core : BOOLEAN, asserts : Names,
                            deps : Edges, opt : Edges]
    /\ EmbeddedDeps \in Edges
    /\ MaxDisk \in Nat /\ MaxLoads \in Nat

VARIABLES
    disk,       \* package name -> the set holding its manifest, or {}
    info,       \* m_modules: known name -> ModuleInfo
    scan,       \* discoverInstalledModules: [on, before] (before = knownBefore)
    job,        \* name -> where a load or unload of it stands
    crashed,    \* names the asio thread has marked unloaded and not yet reported
    announce,   \* embedded names inserted and not yet reported
    sink,       \* the observer has a sink
    synced,     \* modules_state is up and has taken its snapshot
    listing,    \* buildSnapshotListing: [on, states], read and not yet numbered
    feed,       \* name -> the state a consumer of snapshot and edges holds
    overtaken,  \* history: discoveries the listing lacks and outranks
    diskOps, loads

bounds == <<diskOps, loads>>
observer == <<sink, synced, listing, feed, overtaken>>
vars == <<disk, info, scan, job, crashed, announce, sink, synced, listing, feed,
          overtaken, bounds>>

Jobs == {"idle", "checked", "inFlight", "marked", "stopped"}
States == {"absent", "unloaded", "loading", "loaded", "error"}

\* Where an artifact comes from: a package's directory, the host's own bundle,
\* a file the host named, or nowhere (an entry operator[] made up).
Pkg(p) == <<"package", p>>
Paths == {Pkg(p) : p \in Names} \cup {<<"bundle">>, <<"file">>, <<>>}

Entries ==
    [path : Paths, embedded : BOOLEAN, loaded : BOOLEAN, stamped : BOOLEAN,
     deps : Edges, opt : Edges, dependents : Edges, optDependents : Edges]

\* A default-constructed ModuleInfo.
Fresh ==
    [path |-> <<>>, embedded |-> FALSE, loaded |-> FALSE, stamped |-> FALSE,
     deps |-> {}, opt |-> {}, dependents |-> {}, optDependents |-> {}]

known == DOMAIN info
NotScanning == [on |-> FALSE, before |-> {}]

\* modules_state goes away, and what it held with it.
Forgotten == [n \in Names |-> "absent"]
NotListing == [on |-> FALSE, states |-> Forgotten]

Init ==
    /\ disk = [p \in Names |-> {}]
    /\ info = [n \in {} |-> Fresh]
    /\ scan = NotScanning
    /\ job = [n \in Names |-> "idle"]
    /\ crashed = {} /\ announce = {}
    /\ sink = FALSE /\ synced = FALSE /\ listing = NotListing
    /\ feed = Forgotten /\ overtaken = {}
    /\ diskOps = 0 /\ loads = 0

-----------------------------------------------------------------------------
(* The table.                                                              *)

\* m_modules[n]: the entry, made on the spot if there is none.
At(tbl, n) == IF n \in DOMAIN tbl THEN tbl[n] ELSE Fresh

Put(tbl, n, e) == [k \in DOMAIN tbl \cup {n} |-> IF k = n THEN e ELSE tbl[k]]

\* Mutant of Recompute: the old inverse edges are not dropped first.
RecomputeKeeps(tbl) ==
    [n \in DOMAIN tbl |->
        [tbl[n] EXCEPT !.dependents = @ \cup {d \in DOMAIN tbl : n \in tbl[d].deps},
                       !.optDependents = @ \cup {d \in DOMAIN tbl : n \in tbl[d].opt}]]

\* recomputeDependentsLocked: invert both edge sets over the known modules.
Recompute(tbl) ==
    [n \in DOMAIN tbl |->
        [tbl[n] EXCEPT !.dependents = {d \in DOMAIN tbl : n \in tbl[d].deps},
                       !.optDependents = {d \in DOMAIN tbl : n \in tbl[d].opt}]]

\* The upsert arms rewrite an entry in place: loaded, the load stamp and the
\* embedded flag stay.
Upsert(tbl, n, path, m) ==
    [At(tbl, n) EXCEPT !.path = path, !.deps = m.deps, !.opt = m.opt]

\* ModuleStateObserver::record for the names of S. Without a sink it is dropped;
\* before the listing is numbered its seq is the lower, so the listing wins.
Tell(S, s) == IF synced THEN [n \in Names |-> IF n \in S THEN s ELSE feed[n]] ELSE feed

\* ...for good, if the listing was read before the module was there; the next
\* record of the module is news again.
Overtaken(S) ==
    IF listing.on THEN overtaken \cup {n \in S : listing.states[n] = "absent"}
                  ELSE overtaken \ S

Record(S, s) == feed' = Tell(S, s) /\ overtaken' = Overtaken(S)

-----------------------------------------------------------------------------
(* Discovery.                                                              *)

Unlocked == ~scan.on

\* Packages come and go on disk.
Install(p, m) ==
    /\ diskOps < MaxDisk /\ disk[p] # {m}
    /\ disk' = [disk EXCEPT ![p] = {m}]
    /\ diskOps' = diskOps + 1
    /\ UNCHANGED <<info, scan, job, crashed, announce, observer, loads>>

Uninstall(p) ==
    /\ diskOps < MaxDisk /\ disk[p] # {}
    /\ disk' = [disk EXCEPT ![p] = {}]
    /\ diskOps' = diskOps + 1
    /\ UNCHANGED <<info, scan, job, crashed, announce, observer, loads>>

\* The lock is taken and membership sampled, if anybody is listening.
DiscoverBegins ==
    /\ Unlocked
    /\ scan' = [on |-> TRUE, before |-> IF sink THEN known ELSE {}]
    /\ UNCHANGED <<disk, info, job, crashed, announce, observer, bounds>>

\* The package is a module (a core package, or a page of any type), its name is
\* an identifier, and a plugin's embedded name is the package's.
Accepted(p, m) ==
    /\ m.core \/ m.kind = "web"
    /\ p \in Valid
    /\ m.kind = "plugin" => m.asserts = p

\* The name an accepted package registers under.
RegisteredName(p, m) == IF m.kind = "plugin" THEN m.asserts ELSE p

Scanned == UNION {{<<p, m>> : m \in {x \in disk[p] : Accepted(p, x)}} : p \in Names}
ScannedNames == {RegisteredName(s[1], s[2]) : s \in Scanned}

\* The table after the upsert loop.
Upserted ==
    [n \in known \cup ScannedNames |->
        IF n \in ScannedNames
        THEN LET s == CHOOSE s \in Scanned : RegisteredName(s[1], s[2]) = n
             IN Upsert(info, n, Pkg(s[1]), s[2])
        ELSE info[n]]

\* What a scan takes away: not on disk, not running, not embedded.
Pruned ==
    {n \in known \ ScannedNames : ~Upserted[n].loaded /\ ~Upserted[n].embedded}

\* Upsert, prune, report what left and what entered, invert the edges.
DiscoverEnds ==
    /\ scan.on
    /\ scan' = NotScanning
    /\ info' = Recompute([n \in (known \cup ScannedNames) \ Pruned |-> Upserted[n]])
    /\ feed' = [n \in Names |->
                  IF synced /\ n \in ScannedNames \ scan.before THEN "unloaded"
                  ELSE IF synced /\ n \in Pruned THEN "absent" ELSE feed[n]]
    /\ overtaken' = Overtaken((ScannedNames \ scan.before) \cup Pruned)
    /\ UNCHANGED <<disk, job, crashed, announce, sink, synced, listing, bounds>>

\* processModule: the raw host API registers a plugin under the name it asserts.
ProcessModule(m) ==
    /\ Unlocked /\ m.kind = "plugin" /\ m.asserts \in Valid
    /\ info' = Recompute(Put(info, m.asserts, Upsert(info, m.asserts, <<"file">>, m)))
    /\ Record({m.asserts} \ known, "unloaded")
    /\ UNCHANGED <<disk, scan, job, crashed, announce, sink, synced, listing, bounds>>

\* addEmbeddedBareModule: insert under the lock...
AddEmbedded(n) ==
    /\ Unlocked /\ n \in Valid /\ n \notin announce
    /\ info' = Recompute(Put(info, n, [At(info, n) EXCEPT
                  !.path = <<"bundle">>, !.embedded = TRUE,
                  !.deps = EmbeddedDeps \ {n}, !.opt = {}]))
    /\ announce' = announce \cup ({n} \ known)
    /\ UNCHANGED <<disk, scan, job, crashed, observer, bounds>>

\* Mutant of AnnounceEmbedded: the discovery edge is forgotten.
AnnounceNothing(n) ==
    /\ n \in announce
    /\ announce' = announce \ {n}
    /\ UNCHANGED <<disk, info, scan, job, crashed, observer, bounds>>

\* ...and report once it is released.
AnnounceEmbedded(n) ==
    /\ n \in announce
    /\ announce' = announce \ {n}
    /\ Record({n}, "unloaded")
    /\ UNCHANGED <<disk, info, scan, job, crashed, sink, synced, listing, bounds>>

-----------------------------------------------------------------------------
(* The manager's use of the table (loadModuleInternal and its peers).      *)

SetJob(n, j) == job' = [job EXCEPT ![n] = j]

\* isKnown, and the loaded check under the module's lock.
LoadChecks(n) ==
    /\ Unlocked /\ job[n] = "idle" /\ loads < MaxLoads
    /\ n \in known /\ ~info[n].loaded
    /\ SetJob(n, "checked")
    /\ loads' = loads + 1
    /\ UNCHANGED <<disk, info, scan, crashed, announce, observer, diskOps>>

LoadBegins(n) ==
    /\ job[n] = "checked"
    /\ SetJob(n, "inFlight")
    /\ Record({n}, "loading")
    /\ UNCHANGED <<disk, info, scan, crashed, announce, sink, synced, listing, bounds>>

\* markLoaded goes through operator[] too.
MarkLoaded(n) ==
    /\ Unlocked /\ job[n] = "inFlight"
    /\ SetJob(n, "marked")
    /\ info' = Put(info, n, [At(info, n) EXCEPT !.loaded = TRUE, !.stamped = TRUE])
    /\ UNCHANGED <<disk, scan, crashed, announce, observer, bounds>>

LoadReports(n) ==
    /\ job[n] = "marked"
    /\ SetJob(n, "idle")
    /\ Record({n}, "loaded")
    /\ UNCHANGED <<disk, info, scan, crashed, announce, sink, synced, listing, bounds>>

LoadFails(n) ==
    /\ job[n] \in {"checked", "inFlight"}
    /\ SetJob(n, "idle")
    /\ Record({n}, "error")
    /\ UNCHANGED <<disk, info, scan, crashed, announce, sink, synced, listing, bounds>>

\* markUnloaded: nothing for a name the table lost.
Unmarked(n) == [info EXCEPT ![n].loaded = FALSE, ![n].stamped = FALSE]

UnloadMarks(n) ==
    /\ Unlocked /\ job[n] = "idle" /\ n \in known /\ info[n].loaded
    /\ SetJob(n, "stopped")
    /\ info' = Unmarked(n)
    /\ UNCHANGED <<disk, scan, crashed, announce, observer, bounds>>

UnloadReports(n) ==
    /\ job[n] = "stopped"
    /\ SetJob(n, "idle")
    /\ Record({n}, "unloaded")
    /\ UNCHANGED <<disk, info, scan, crashed, announce, sink, synced, listing, bounds>>

\* onTerminated on the asio thread, which takes none of the manager's locks.
CrashMarks(n) ==
    /\ Unlocked /\ n \in known /\ info[n].loaded /\ n \notin crashed
    /\ crashed' = crashed \cup {n}
    /\ info' = Unmarked(n)
    /\ UNCHANGED <<disk, scan, job, announce, observer, bounds>>

CrashReports(n) ==
    /\ n \in crashed
    /\ crashed' = crashed \ {n}
    /\ Record({n}, "error")
    /\ UNCHANGED <<disk, info, scan, job, announce, sink, synced, listing, bounds>>

\* terminateAll and clear hold the fleet exclusively, so no load or unload is in
\* progress; they take modules_state down with the rest, and a listing that was
\* being put together has nobody left to go to.
NoJobs == \A n \in Names : job[n] = "idle"
ConsumerGone ==
    /\ synced' = FALSE /\ feed' = Forgotten
    /\ listing' = NotListing /\ overtaken' = {}

TerminateAll ==
    /\ Unlocked /\ NoJobs /\ \E n \in known : info[n].loaded
    /\ info' = [n \in known |-> [info[n] EXCEPT !.loaded = FALSE]]
    /\ ConsumerGone
    /\ UNCHANGED <<disk, scan, job, crashed, announce, sink, bounds>>

Clear ==
    /\ Unlocked /\ NoJobs /\ known # {}
    /\ info' = [n \in {} |-> Fresh]
    /\ ConsumerGone
    /\ UNCHANGED <<disk, scan, job, crashed, announce, sink, bounds>>

\* modules_state comes up: the sink first, the snapshot of the table later.
InstallSink ==
    /\ ~sink
    /\ sink' = TRUE
    /\ UNCHANGED <<disk, info, scan, job, crashed, announce, synced, listing, feed, overtaken, bounds>>

\* allModulesInfo, under the registry lock...
SnapshotReads ==
    /\ Unlocked /\ sink /\ ~synced /\ ~listing.on
    /\ listing' = [on |-> TRUE,
                   states |-> [n \in Names |->
                       IF n \notin known THEN "absent"
                       ELSE IF info[n].loaded THEN "loaded" ELSE "unloaded"]]
    /\ overtaken' = {}
    /\ UNCHANGED <<disk, info, scan, job, crashed, announce, sink, synced, feed, bounds>>

\* ...then a seq for every record, the highest for the listing itself, and
\* apply_snapshot. modules_state drops what the listing lacks, and whatever has a
\* lower seq than the listing counts as dropped here: it is whenever modules_state
\* had heard of the module before and so leaves a tombstone for it.
SnapshotNumbers ==
    /\ listing.on
    /\ listing' = NotListing
    /\ synced' = TRUE /\ feed' = listing.states
    /\ UNCHANGED <<disk, info, scan, job, crashed, announce, sink, overtaken, bounds>>

RemoveSink ==
    /\ sink
    /\ sink' = FALSE /\ ConsumerGone
    /\ UNCHANGED <<disk, info, scan, job, crashed, announce, bounds>>

Next ==
    \/ \E p \in Names : Uninstall(p) \/ \E m \in Manifests : Install(p, m)
    \/ DiscoverBegins \/ DiscoverEnds
    \/ \E m \in Manifests : ProcessModule(m)
    \/ \E n \in Names : AddEmbedded(n) \/ AnnounceEmbedded(n)
    \/ \E n \in Names : LoadChecks(n) \/ LoadBegins(n) \/ MarkLoaded(n)
                          \/ LoadReports(n) \/ LoadFails(n)
    \/ \E n \in Names : UnloadMarks(n) \/ UnloadReports(n)
    \/ \E n \in Names : CrashMarks(n) \/ CrashReports(n)
    \/ TerminateAll \/ Clear
    \/ InstallSink \/ SnapshotReads \/ SnapshotNumbers \/ RemoveSink

Spec == Init /\ [][Next]_vars

-----------------------------------------------------------------------------
(* Properties.                                                             *)

\* The table, the disk and the feed hold values of their types (ModuleInfo).
TypeOK ==
    /\ disk \in [Names -> {{}} \cup {{m} : m \in Manifests}]
    /\ known \subseteq Valid
    /\ info \in [known -> Entries]
    /\ scan \in [on : BOOLEAN, before : SUBSET Names]
    /\ job \in [Names -> Jobs]
    /\ crashed \subseteq Names /\ announce \subseteq Names
    /\ sink \in BOOLEAN /\ synced \in BOOLEAN
    /\ listing \in [on : BOOLEAN, states : [Names -> {"absent", "unloaded", "loaded"}]]
    /\ feed \in [Names -> States] /\ overtaken \subseteq Names
    /\ diskOps \in 0..MaxDisk /\ loads \in 0..MaxLoads

\* The known modules that require n, and those that can use it.
Requiring(n) == {d \in known : n \in info[d].deps}
Using(n) == {d \in known : n \in info[d].opt}

\* The derived reverse edges are the inverse of the declared ones, after every
\* scan, registration and load mark (recomputeDependentsLocked). An entry that
\* markLoaded had to make up, because a scan pruned the module whose load was in
\* flight, has no path and may lack some until the next scan; it has none too many.
DependentsExact ==
    \A n \in known :
        /\ info[n].dependents \subseteq Requiring(n)
        /\ info[n].optDependents \subseteq Using(n)
        /\ info[n].path # <<>> => /\ info[n].dependents = Requiring(n)
                                 /\ info[n].optDependents = Using(n)

\* Nothing is being reported.
Reported == Unlocked /\ NoJobs /\ crashed = {} /\ announce = {}

\* A consumer that has its snapshot never misses a module the host knows: every
\* way into the table reports its edge, whichever other operation it crosses. The
\* exception is a module discovered between the reading of the snapshot and its
\* numbering (buildSnapshotListing), until something else is recorded of it.
KnownIsVisible ==
    synced /\ Reported => \A n \in known \ overtaken : feed[n] # "absent"
=============================================================================
