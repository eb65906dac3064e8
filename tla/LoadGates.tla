------------------------------- MODULE LoadGates -------------------------------
(***************************************************************************)
(* What loadModuleInternal (module_manager.cpp) asks before it launches a  *)
(* module: the container policy, the protocol gate (protocol_gate.h), the  *)
(* dependency gate (dependency_gate.cpp), the choice of a loader           *)
(* (module_loader_registry.cpp), and the protocol gate the in-process      *)
(* container asks again of the image itself.                               *)
(*                                                                         *)
(* Each question reads something else at another moment: the path, the     *)
(* format, the dependency entries and every installed version are separate *)
(* locked calls on the registry, the stamp and the image are read from     *)
(* disk, and the policy is an unlocked global. Packages are reinstalled    *)
(* and the directories rescanned in between. Records to the feed, load     *)
(* attempts and locks other than the module's are ModuleLifecycle's.       *)
(***************************************************************************)
EXTENDS Naturals, Sequences, FiniteSets

CONSTANTS
    Modules,
    Exempt,         \* kPolicyExempt: the runtime's own modules
    Threads,        \* threads that load
    Packages,       \* module -> what may be installed of it: [path, version, major, deps]
    Installed,      \* module -> the package on disk at the start
    HostMajor,      \* LOGOS_PROTOCOL_VERSION_MAJOR
    MaxInstalls,    \* bound: reinstalls and uninstalls
    MaxPolicies     \* bound: policies set

Formats == {"qt-plugin", "bare", "web"}
Policies == {"auto", "inproc", "subprocess", "web"}

\* A package's main file: its kind is read off the path (looksLikeBareModule,
\* looksLikeWebModule). "" is no file.
Paths == {"", "plugin.so", "image.so", "index.html"}

\* A stamp that is absent or does not parse is major -1.
Legacy == 0 - 1

\* A dependency entry. range is "none" (empty), "unparseable", or "range" with
\* the versions that satisfy it; version 0 is the empty string.
DependencyEntries ==
    [name : Modules, malformed : BOOLEAN, range : {"none", "unparseable", "range"},
     accepts : SUBSET Nat]

\* Nothing installed; also what the registry answers for a name it does not know.
NoPackage == [path |-> "", version |-> 0, major |-> Legacy, deps |-> <<>>]

\* What a manifest and its main file say of a package.
PackageRecords ==
    [path : Paths, version : Nat, major : Nat \cup {Legacy}, deps : Seq(DependencyEntries)]

ASSUME GatesAssumption ==
    /\ Exempt \subseteq Modules
    /\ \A m \in Modules : /\ Packages[m] \subseteq PackageRecords
                          /\ \A p \in Packages[m] : p.path # ""
    /\ Installed \in [Modules -> PackageRecords]
    /\ \A m \in Modules : Installed[m] \in Packages[m] \cup {NoPackage}
    /\ HostMajor \in Nat /\ MaxInstalls \in Nat /\ MaxPolicies \in Nat

VARIABLES
    disk,       \* module -> the package in the modules directory
    table,      \* module -> what the registry's last scan recorded
    policy,     \* containerPolicyValue()
    loaders,    \* the formats ModuleLoaderRegistry has a loader for
    load,       \* thread -> the load it is in
    mapped,     \* module -> the image this process keeps mapped for its path
    inst,       \* loaded module -> [pkg (the code that runs), found (on disk), under]
    outdated,   \* history: modules whose grounds changed since their load began
    installs, policies

bounds == <<installs, policies>>
gatesVars == <<disk, table, policy, loaders, load, mapped, inst, outdated, bounds>>

Idle == [pc |-> "idle"]
Running == DOMAIN inst
Without(f, m) == [k \in DOMAIN f \ {m} |-> f[k]]

GatesInit ==
    /\ disk = Installed /\ table = Installed
    /\ policy = "auto"
    /\ loaders \in {Formats, Formats \ {"qt-plugin"}}
    /\ load = [t \in Threads |-> Idle]
    /\ mapped = [m \in Modules |-> NoPackage]
    /\ inst = [m \in {} |-> NoPackage]
    /\ outdated = {} /\ installs = 0 /\ policies = 0

-----------------------------------------------------------------------------
(* The decisions.                                                          *)

\* The registry's format for a path; a descriptor says qt-plugin for none.
FormatOf(path) ==
    CASE path = "image.so"   -> "bare"
      [] path = "index.html" -> "web"
      [] OTHER               -> "qt-plugin"

\* containerPolicyMismatch
ContainerPolicyMismatch(p, m, format) ==
    /\ m \notin Exempt
    /\ \/ p = "inproc" /\ format # "bare"
       \/ p = "subprocess" /\ format # "qt-plugin"
       \/ p = "web" /\ format # "web"

\* evaluateProtocolGate
ProtocolRefuses(major) == major >= 0 /\ major # HostMajor

\* extractMetadata(path), the stamp in it: only a plugin carries one.
StampAt(m, path) ==
    IF path = "plugin.so" /\ disk[m].path = path THEN disk[m].major ELSE Legacy

\* Mutant of EntryRefused: a dependency without a readable version passes.
EntryRefusedIfKnown(e) ==
    \/ e.malformed
    \/ /\ e.range # "none"
       /\ \/ e.range = "unparseable"
          \/ /\ table[e.name].version # 0
             /\ table[e.name].version \notin e.accepts

\* evaluateDependencyGate, one turn of its loop.
EntryRefused(e) ==
    \/ e.malformed
    \/ /\ e.range # "none"
       /\ \/ e.range = "unparseable"
          \/ table[e.name].version = 0
          \/ table[e.name].version \notin e.accepts

-----------------------------------------------------------------------------
(* A load.                                                                 *)

At(t, pc) == load[t].pc = pc
Locked(m) == \E t \in Threads : load[t].pc # "idle" /\ load[t].mod = m
Goes(t, r) == load' = [load EXCEPT ![t] = r]
Refused(t) == Goes(t, Idle)

OnlyLoadMoves == UNCHANGED <<disk, table, policy, loaders, mapped, inst, outdated, bounds>>

\* isKnown, the module's lock, isLoaded, then modulePath. The grounds of this
\* load are good unless the registry is already behind the disk.
LoadBegins(t, m) ==
    /\ At(t, "idle") /\ ~Locked(m)
    /\ table[m].path # "" /\ m \notin Running
    /\ Goes(t, [pc |-> "format", mod |-> m, path |-> table[m].path])
    /\ outdated' = IF table[m] = disk[m] THEN outdated \ {m} ELSE outdated \cup {m}
    /\ UNCHANGED <<disk, table, policy, loaders, mapped, inst, bounds>>

\* moduleFormat, and the policy's answer for it.
PolicyRefuses(t) ==
    /\ At(t, "format")
    /\ ContainerPolicyMismatch(policy, load[t].mod, FormatOf(table[load[t].mod].path))
    /\ Refused(t)
    /\ OnlyLoadMoves

PolicyPasses(t) ==
    LET format == FormatOf(table[load[t].mod].path)
    IN  /\ At(t, "format")
        /\ ~ContainerPolicyMismatch(policy, load[t].mod, format)
        /\ Goes(t, [pc |-> "protocol", mod |-> load[t].mod, path |-> load[t].path,
                    format |-> format, under |-> policy])
        /\ OnlyLoadMoves

\* The protocol gate; dependencyGateFor then reads the entries.
ProtocolGate(t) ==
    LET l == load[t]
    IN  /\ At(t, "protocol")
        /\ IF ProtocolRefuses(StampAt(l.mod, l.path))
           THEN Refused(t)
           ELSE Goes(t, [pc |-> "entries", mod |-> l.mod, path |-> l.path,
                         format |-> l.format, under |-> l.under])
        /\ OnlyLoadMoves

ReadEntries(t) ==
    LET l == load[t]
    IN  /\ At(t, "entries")
        /\ Goes(t, [pc |-> "deps", mod |-> l.mod, path |-> l.path, format |-> l.format,
                    under |-> l.under, deps |-> table[l.mod].deps])
        /\ OnlyLoadMoves

\* One entry: its installed version is read, and the walk stops at the first
\* that refuses.
GateRefuses(t) ==
    /\ At(t, "deps") /\ load[t].deps # <<>>
    /\ EntryRefused(Head(load[t].deps))
    /\ Refused(t)
    /\ OnlyLoadMoves

GateContinues(t) ==
    /\ At(t, "deps") /\ load[t].deps # <<>>
    /\ ~EntryRefused(Head(load[t].deps))
    /\ Goes(t, [load[t] EXCEPT !.deps = Tail(@)])
    /\ OnlyLoadMoves

\* ModuleLoaderRegistry::select: no registered loader claims the format.
NoLoader(t) ==
    /\ At(t, "deps") /\ load[t].deps = <<>>
    /\ load[t].format \notin loaders
    /\ Refused(t)
    /\ OnlyLoadMoves

\* What a launch runs: the package on disk, but of a bare module the image that was
\* first opened at the path, which is never unmapped (closeBareModule).
CodeOf(l) ==
    IF l.format = "bare" /\ mapped[l.mod] # NoPackage THEN mapped[l.mod] ELSE disk[l.mod]

\* openBareModule finds the file and gives the loader its path.
Opens(l) == l.format = "bare" /\ FormatOf(l.path) = "bare" /\ disk[l.mod].path = l.path

Retains(l) == mapped' = [mapped EXCEPT ![l.mod] = CodeOf(l)]

\* The loader is launched and does not come up: the file is gone or is not what
\* the loader runs, or it fails of itself. An image may be retained by then; one
\* that turns out not to be a module is given back.
LaunchFails(t) ==
    /\ At(t, "deps") /\ load[t].deps = <<>>
    /\ load[t].format \in loaders
    /\ Refused(t)
    /\ \/ mapped' = mapped
       \/ Opens(load[t]) /\ Retains(load[t])
    /\ UNCHANGED <<disk, table, policy, loaders, inst, outdated, bounds>>

\* Mutant of BareCompatible: the stamp gate is taken to have asked already.
BareAlreadyAsked(pkg) == TRUE

\* bareModuleProtocolCompatible, asked of the image InProcContainer opened.
BareCompatible(pkg) == ~ProtocolRefuses(pkg.major)

\* CompositeModuleLoader::load on the path, which has to hold a file, up to
\* markLoaded.
Launches(t) ==
    LET l == load[t]
        new == [pkg |-> CodeOf(l), found |-> disk[l.mod], under |-> l.under]
    IN  /\ At(t, "deps") /\ l.deps = <<>>
        /\ l.format \in loaders
        /\ disk[l.mod].path = l.path /\ FormatOf(l.path) = l.format
        /\ IF l.format = "bare" THEN BareCompatible(CodeOf(l)) /\ Retains(l)
                                ELSE mapped' = mapped
        /\ inst' = [m \in Running \cup {l.mod} |-> IF m = l.mod THEN new ELSE inst[m]]
        /\ Goes(t, Idle)
        /\ UNCHANGED <<disk, table, policy, loaders, outdated, bounds>>

-----------------------------------------------------------------------------
(* What changes under it.                                                  *)

\* An unload or a death.
Stops(m) ==
    /\ m \in Running /\ ~Locked(m)
    /\ inst' = Without(inst, m)
    /\ UNCHANGED <<disk, table, policy, loaders, load, mapped, outdated, bounds>>

\* The modules judged on what is known of m: m, and what depends on it.
Grounded(m) ==
    {m} \cup {k \in Modules : \E i \in DOMAIN disk[k].deps : disk[k].deps[i].name = m}

\* The package manager puts another package, or none, where m was.
Install(m, pkg) ==
    /\ installs < MaxInstalls /\ disk[m] # pkg
    /\ disk' = [disk EXCEPT ![m] = pkg]
    /\ outdated' = outdated \cup Grounded(m)
    /\ installs' = installs + 1
    /\ UNCHANGED <<table, policy, loaders, load, mapped, inst, policies>>

\* discoverInstalledModules: the entry of a module that is loaded outlives its
\* files.
Scanned(m) == IF disk[m] = NoPackage /\ m \in Running THEN table[m] ELSE disk[m]

Rescan ==
    /\ table' = [m \in Modules |-> Scanned(m)]
    /\ outdated' = outdated \cup UNION {Grounded(m) : m \in {k \in Modules : table'[k] # table[k]}}
    /\ UNCHANGED <<disk, policy, loaders, load, mapped, inst, bounds>>

\* setContainerPolicy; a value it does not know leaves the policy.
SetContainerPolicy(p) ==
    /\ policies < MaxPolicies /\ policy # p
    /\ policy' = p
    /\ policies' = policies + 1
    /\ UNCHANGED <<disk, table, loaders, load, mapped, inst, outdated, installs>>

Loading(t) ==
    \/ \E m \in Modules : LoadBegins(t, m)
    \/ PolicyRefuses(t) \/ PolicyPasses(t)
    \/ ProtocolGate(t)
    \/ ReadEntries(t) \/ GateRefuses(t) \/ GateContinues(t)
    \/ NoLoader(t) \/ LaunchFails(t) \/ Launches(t)

GatesNext ==
    \/ \E t \in Threads : Loading(t)
    \/ \E m \in Modules : Stops(m)
    \/ \E m \in Modules : \E pkg \in Packages[m] \cup {NoPackage} : Install(m, pkg)
    \/ Rescan
    \/ \E p \in Policies : SetContainerPolicy(p)

GatesSpec == GatesInit /\ [][GatesNext]_gatesVars

-----------------------------------------------------------------------------
(* Properties.                                                             *)

\* The container each policy asks for runs this format.
Demands == [inproc |-> "bare", subprocess |-> "qt-plugin", web |-> "web"]

(* What runs is of the kind the policy it was judged under demands, even when
   a rescan changed the module's kind between the read of its path and the
   read of its format: such a pair is launched by a loader that cannot run the
   file. And it speaks this host's protocol major or carries no stamp: always
   for an image, be it one kept mapped from an earlier load, because the open
   image is asked, and for a plugin unless a package it was judged on, its own
   or a dependency's, was replaced since its load began. *)
AdmittedOnly ==
    \A m \in Running :
        LET pkg == inst[m].pkg
            under == inst[m].under
        IN  /\ \/ m \in Exempt \/ under = "auto"
               \/ FormatOf(pkg.path) = Demands[under]
            /\ \/ FormatOf(pkg.path) = "web"
               \/ FormatOf(pkg.path) = "qt-plugin" /\ m \in outdated
               \/ pkg.major \in {Legacy, HostMajor}

\* It runs an image of an earlier package, kept mapped.
Retained(m) == inst[m].pkg # inst[m].found

(* A module runs only if every constraint it declares can be read and is met by
   what the registry has, and two modules that run together satisfy the
   constraint the one declares on the other: the walk of the dependency gate
   over registry reads that other operations interleave with comes to what the
   declared constraints say. The gate judges versions the registry recorded and
   is never asked again, so a module whose package, or whose dependency's
   package, has changed since its load began is left out; and it does not ask
   what code answers for a version, so a dependency that runs a retained image
   is. *)
DependenciesInRange ==
    \A m \in Running \ outdated : \A i \in DOMAIN inst[m].found.deps :
        LET e == inst[m].found.deps[i]
        IN  /\ ~e.malformed /\ e.range # "unparseable"
            /\ e.range = "range" =>
                   /\ table[e.name].version \in e.accepts
                   /\ (e.name \in Running \ outdated /\ ~Retained(e.name)) =>
                          inst[e.name].pkg.version \in e.accepts

=============================================================================
