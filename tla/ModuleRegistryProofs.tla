------------------------- MODULE ModuleRegistryProofs -------------------------
(***************************************************************************)
(* Safety of ModuleRegistry for any names, manifests and bounds.           *)
(*                                                                         *)
(* DependentsExact is inductive once entries are known to be ModuleInfo    *)
(* records: every step that changes an edge inverts the edges again, the   *)
(* others touch the load flags or add an entry without edges or a path.    *)
(* That a known module is visible is stated for quiet moments only and so  *)
(* says nothing of the steps between: the invariant says who still owes    *)
(* the consumer the news of a module that is known and not yet reported,   *)
(* and the same of a listing that has been read and not yet numbered.      *)
(***************************************************************************)
EXTENDS ModuleRegistry, TLAPS

\* A scan samples membership under the lock, and nothing leaves the table while
\* the lock is held; a load began with a known name, so with a valid one.
Sampled ==
    /\ scan.on => scan.before \subseteq known
    /\ \A n \in Names : job[n] # "idle" => n \in Valid

\* A module the consumer has not heard of, or will not hear of from the listing
\* under way, is about to be reported by the embedded registration or by the load
\* that put it into the table, or was discovered behind the listing's back.
Reporting(n) == n \in announce \/ job[n] = "marked" \/ n \in overtaken

Owed ==
    /\ synced => \A n \in known : feed[n] # "absent" \/ Reporting(n)
    /\ listing.on => \A n \in known : listing.states[n] # "absent" \/ Reporting(n)
    /\ synced => ~listing.on

IInv == TypeOK /\ Sampled /\ DependentsExact /\ Owed

\* The upsert arms write the path and the edges of an entry.
LEMMA UpsertEntry ==
    ASSUME NEW tbl, \A n \in DOMAIN tbl : tbl[n] \in Entries,
           NEW n, NEW path \in Paths, NEW m \in Manifests
    PROVE  Upsert(tbl, n, path, m) \in Entries
<1>1. Fresh \in Entries
  BY DEF Fresh, Entries, Paths, Edges
<1>2. At(tbl, n) \in Entries
  BY <1>1 DEF At
<1>3. m.deps \in Edges /\ m.opt \in Edges
  BY RegistryAssumption
<1> QED
  BY <1>2, <1>3 DEF Upsert, Entries

\* recomputeDependentsLocked leaves the exact inverse, whatever table it is given.
LEMMA RecomputeSound ==
    ASSUME NEW tbl, DOMAIN tbl \subseteq Valid,
           \A n \in DOMAIN tbl : tbl[n] \in Entries, info' = Recompute(tbl)
    PROVE  DependentsExact' /\ known' = DOMAIN tbl /\ info' \in [known' -> Entries]
<1> DEFINE D(n) == {d \in DOMAIN tbl : n \in tbl[d].deps}
           O(n) == {d \in DOMAIN tbl : n \in tbl[d].opt}
<1>1. known' = DOMAIN tbl
  BY DEF Recompute, known
<1>2. ASSUME NEW n \in DOMAIN tbl
      PROVE  /\ info'[n] \in Entries /\ info'[n].deps = tbl[n].deps
             /\ info'[n].opt = tbl[n].opt
             /\ info'[n].dependents = D(n) /\ info'[n].optDependents = O(n)
  <2>1. D(n) \in Edges /\ O(n) \in Edges
    BY RegistryAssumption DEF Edges
  <2>2. info'[n] = [tbl[n] EXCEPT !.dependents = D(n), !.optDependents = O(n)]
    BY DEF Recompute
  <2>3. tbl[n] \in Entries
    OBVIOUS
  <2> HIDE DEF D, O
  <2> QED
    BY <2>1, <2>2, <2>3 DEF Entries
<1>3. DependentsExact'
  <2>1. \A n \in DOMAIN tbl : Requiring(n)' = D(n) /\ Using(n)' = O(n)
    BY <1>1, <1>2 DEF Requiring, Using
  <2> QED
    BY <1>1, <1>2, <2>1 DEF DependentsExact
<1>4. info' \in [known' -> Entries]
  <2>1. info' = [n \in known' |-> info'[n]]
    BY <1>1 DEF Recompute
  <2> QED
    BY <1>1, <1>2, <2>1
<1> QED
  BY <1>1, <1>3, <1>4

\* Load flags say nothing of edges: markLoaded and its peers leave an entry's
\* four edge sets as they are.
LEMMA FlagsOnly ==
    ASSUME NEW e \in Entries, NEW l \in BOOLEAN, NEW t \in BOOLEAN
    PROVE  LET x == [e EXCEPT !.loaded = l, !.stamped = t]
           IN  /\ x \in Entries /\ x.path = e.path
               /\ x.deps = e.deps /\ x.opt = e.opt
               /\ x.dependents = e.dependents /\ x.optDependents = e.optDependents
  BY DEF Entries

\* A step that keeps the edges of every known module, and adds at most entries
\* without edges or a path, keeps the inverse.
LEMMA EdgesKept ==
    ASSUME DependentsExact, known \subseteq known',
           \A n \in known : /\ info'[n].path = info[n].path
                            /\ info'[n].deps = info[n].deps
                            /\ info'[n].opt = info[n].opt
                            /\ info'[n].dependents = info[n].dependents
                            /\ info'[n].optDependents = info[n].optDependents,
           \A n \in known' \ known : /\ info'[n].path = <<>>
                                     /\ info'[n].deps = {} /\ info'[n].opt = {}
                                     /\ info'[n].dependents = {}
                                     /\ info'[n].optDependents = {}
    PROVE  DependentsExact'
<1>1. \A n : Requiring(n)' = Requiring(n) /\ Using(n)' = Using(n)
  BY DEF Requiring, Using
<1>2. \A n \in known' \ known : {} \subseteq Requiring(n)' /\ {} \subseteq Using(n)'
  OBVIOUS
<1> QED
  BY <1>1, <1>2 DEF DependentsExact

\* What a scan finds is valid, and comes with a manifest of its package.
LEMMA ScannedValid ==
    ASSUME TypeOK
    PROVE  /\ ScannedNames \subseteq Valid
           /\ \A n \in ScannedNames : \E s \in Scanned : RegisteredName(s[1], s[2]) = n
           /\ \A s \in Scanned : s[1] \in Names /\ s[2] \in Manifests
<1>1. \A s \in Scanned : s[1] \in Names /\ s[2] \in Manifests /\ Accepted(s[1], s[2])
  BY DEF Scanned, TypeOK
<1>2. \A s \in Scanned : RegisteredName(s[1], s[2]) \in Valid
  BY <1>1 DEF Accepted, RegisteredName
<1> QED
  BY <1>1, <1>2 DEF ScannedNames

\* The table after the upsert loop holds ModuleInfo records.
LEMMA UpsertedEntries ==
    ASSUME TypeOK
    PROVE  \A n \in known \cup ScannedNames : Upserted[n] \in Entries
<1> SUFFICES ASSUME NEW n \in known \cup ScannedNames PROVE Upserted[n] \in Entries
  OBVIOUS
<1>1. CASE n \in ScannedNames
  <2> DEFINE s == CHOOSE s \in Scanned : RegisteredName(s[1], s[2]) = n
  <2>1. s \in Scanned /\ s[1] \in Names /\ s[2] \in Manifests
    BY <1>1, ScannedValid
  <2>2. Upserted[n] = Upsert(info, n, Pkg(s[1]), s[2])
    BY <1>1 DEF Upserted
  <2>3. Pkg(s[1]) \in Paths
    BY <2>1 DEF Pkg, Paths
  <2> HIDE DEF s
  <2> QED
    BY <2>1, <2>2, <2>3, UpsertEntry DEF TypeOK, known
<1>2. CASE n \notin ScannedNames
  BY <1>2 DEF Upserted, TypeOK
<1> QED
  BY <1>1, <1>2

\* An empty table, nothing reported and nobody listening.
LEMMA InitIInv == Init => IInv
<1> SUFFICES ASSUME Init PROVE IInv
  OBVIOUS
<1> USE RegistryAssumption DEF Init, NotScanning, NotListing, Forgotten
<1>1. known = {}
  BY DEF known
<1>2. sink \in BOOLEAN /\ synced \in BOOLEAN /\ scan.on \in BOOLEAN
  OBVIOUS
<1>3. TypeOK
  BY <1>1, <1>2 DEF TypeOK, Jobs, States
<1>4. Sampled /\ DependentsExact /\ Owed
  BY <1>1 DEF Sampled, DependentsExact, Owed
<1> QED
  BY <1>3, <1>4 DEF IInv

\* The table alone: valid names, ModuleInfo records, a sound inverse.
Table == known \subseteq Valid /\ info \in [known -> Entries] /\ DependentsExact

\* A step that leaves the table alone leaves it in order.
LEMMA SameTable == TypeOK /\ DependentsExact /\ info' = info => Table'
  BY DEF Table, TypeOK, DependentsExact, Requiring, Using, known

\* m_modules[n] is a ModuleInfo whether or not n was there.
LEMMA AtEntry == TypeOK => \A n : At(info, n) \in Entries
<1>1. Fresh \in Entries
  BY DEF Fresh, Entries, Paths, Edges
<1> QED
  BY <1>1 DEF At, TypeOK, known

\* An entry written through operator[] and the edges inverted.
LEMMA PutRecomputed ==
    ASSUME TypeOK, NEW n \in Valid, NEW e \in Entries, info' = Recompute(Put(info, n, e))
    PROVE  Table' /\ known' = known \cup {n}
<1> DEFINE tbl == Put(info, n, e)
<1>1. DOMAIN tbl = known \cup {n} /\ \A k \in DOMAIN tbl : tbl[k] \in Entries
  BY DEF Put, known, TypeOK
<1>2. DOMAIN tbl \subseteq Valid
  BY <1>1 DEF TypeOK
<1>3. info' = Recompute(tbl)
  OBVIOUS
<1> HIDE DEF tbl
<1> QED
  BY <1>1, <1>2, <1>3, RecomputeSound DEF Table

\* markUnloaded drops two flags of one entry.
LEMMA UnmarkedTable ==
    ASSUME TypeOK, DependentsExact, NEW n \in known, info' = Unmarked(n)
    PROVE  Table' /\ known' = known
<1> DEFINE e == [info[n] EXCEPT !.loaded = FALSE, !.stamped = FALSE]
<1>1. info[n] \in Entries
  BY DEF TypeOK
<1>2. /\ e \in Entries /\ e.path = info[n].path
      /\ e.deps = info[n].deps /\ e.opt = info[n].opt
      /\ e.dependents = info[n].dependents /\ e.optDependents = info[n].optDependents
  BY <1>1, FlagsOnly
<1>3. info' = [info EXCEPT ![n] = e]
  BY <1>1 DEF Unmarked, TypeOK, Entries
<1> HIDE DEF e
<1>4. known' = known /\ info'[n] = e /\ \A k \in known \ {n} : info'[k] = info[k]
  BY <1>3 DEF known, TypeOK
<1>5. DependentsExact'
  BY <1>2, <1>4, EdgesKept
<1>6. info' \in [known' -> Entries]
  BY <1>2, <1>3, <1>4 DEF TypeOK
<1> QED
  BY <1>4, <1>5, <1>6 DEF Table, TypeOK

\* Every operation leaves the table in order.
LEMMA TableStep == TypeOK /\ Sampled /\ DependentsExact /\ [Next]_vars => Table'
<1> SUFFICES ASSUME TypeOK, Sampled, DependentsExact, [Next]_vars
             PROVE  Table'
  OBVIOUS
<1> USE RegistryAssumption
<1>1. ASSUME NEW p \in Names, Uninstall(p) PROVE Table'
  BY <1>1, SameTable DEF Uninstall
<1>2. ASSUME NEW p \in Names, NEW m \in Manifests, Install(p, m) PROVE Table'
  BY <1>2, SameTable DEF Install
<1>3. ASSUME DiscoverBegins PROVE Table'
  BY <1>3, SameTable DEF DiscoverBegins
<1>4. ASSUME DiscoverEnds PROVE Table'
  <2> DEFINE tbl == [n \in (known \cup ScannedNames) \ Pruned |-> Upserted[n]]
  <2>1. DOMAIN tbl \subseteq Valid
    BY ScannedValid DEF TypeOK
  <2>2. \A n \in DOMAIN tbl : tbl[n] \in Entries
    BY UpsertedEntries
  <2>3. info' = Recompute(tbl)
    BY <1>4 DEF DiscoverEnds
  <2> HIDE DEF tbl
  <2> QED
    BY <2>1, <2>2, <2>3, RecomputeSound DEF Table
<1>5. ASSUME NEW m \in Manifests, ProcessModule(m) PROVE Table'
  <2> DEFINE e == Upsert(info, m.asserts, <<"file">>, m)
  <2>1. m.asserts \in Valid /\ info' = Recompute(Put(info, m.asserts, e))
    BY <1>5 DEF ProcessModule
  <2>2. e \in Entries
    <3>1. <<"file">> \in Paths
      BY DEF Paths
    <3>2. \A n \in DOMAIN info : info[n] \in Entries
      BY DEF TypeOK, known
    <3> QED
      BY <3>1, <3>2, UpsertEntry
  <2> HIDE DEF e
  <2> QED
    BY <2>1, <2>2, PutRecomputed
<1>6. ASSUME NEW n \in Names, AddEmbedded(n) PROVE Table'
  <2> DEFINE e == [At(info, n) EXCEPT !.path = <<"bundle">>, !.embedded = TRUE,
                                      !.deps = EmbeddedDeps \ {n}, !.opt = {}]
  <2>1. n \in Valid /\ info' = Recompute(Put(info, n, e))
    BY <1>6 DEF AddEmbedded
  <2>2. e \in Entries
    <3>1. At(info, n) \in Entries
      BY AtEntry
    <3>2. <<"bundle">> \in Paths /\ EmbeddedDeps \ {n} \in Edges /\ {} \in Edges
      BY RegistryAssumption DEF Paths, Edges
    <3> QED
      BY <3>1, <3>2 DEF Entries
  <2> HIDE DEF e
  <2> QED
    BY <2>1, <2>2, PutRecomputed
<1>7. ASSUME NEW n \in Names, AnnounceEmbedded(n) PROVE Table'
  BY <1>7, SameTable DEF AnnounceEmbedded
<1>8. ASSUME NEW n \in Names, LoadChecks(n) PROVE Table'
  BY <1>8, SameTable DEF LoadChecks
<1>9. ASSUME NEW n \in Names, LoadBegins(n) PROVE Table'
  BY <1>9, SameTable DEF LoadBegins
<1>10. ASSUME NEW n \in Names, MarkLoaded(n) PROVE Table'
  <2> DEFINE e == [At(info, n) EXCEPT !.loaded = TRUE, !.stamped = TRUE]
  <2>1. n \in Valid /\ info' = Put(info, n, e)
    BY <1>10 DEF MarkLoaded, Sampled
  <2>2. At(info, n) \in Entries
    BY AtEntry
  <2>3. /\ e \in Entries /\ e.path = At(info, n).path
        /\ e.deps = At(info, n).deps /\ e.opt = At(info, n).opt
        /\ e.dependents = At(info, n).dependents
        /\ e.optDependents = At(info, n).optDependents
    BY <2>2, FlagsOnly
  <2> HIDE DEF e
  <2>4. known' = known \cup {n} /\ info'[n] = e /\ \A k \in known \ {n} : info'[k] = info[k]
    BY <2>1 DEF Put, known
  <2>5. /\ n \in known => At(info, n) = info[n]
        /\ n \notin known => /\ At(info, n).path = <<>>
                             /\ At(info, n).deps = {} /\ At(info, n).opt = {}
                             /\ At(info, n).dependents = {}
                             /\ At(info, n).optDependents = {}
    BY DEF At, Fresh, known
  <2>6. DependentsExact'
    BY <2>3, <2>4, <2>5, EdgesKept
  <2>7. info' \in [known' -> Entries]
    BY <2>1, <2>3 DEF Put, known, TypeOK
  <2> QED
    BY <2>1, <2>4, <2>6, <2>7 DEF Table, TypeOK
<1>11. ASSUME NEW n \in Names, LoadReports(n) PROVE Table'
  BY <1>11, SameTable DEF LoadReports
<1>12. ASSUME NEW n \in Names, LoadFails(n) PROVE Table'
  BY <1>12, SameTable DEF LoadFails
<1>13. ASSUME NEW n \in Names, UnloadMarks(n) PROVE Table'
  <2>1. n \in known /\ info' = Unmarked(n)
    BY <1>13 DEF UnloadMarks
  <2> QED
    BY <2>1, UnmarkedTable
<1>14. ASSUME NEW n \in Names, UnloadReports(n) PROVE Table'
  BY <1>14, SameTable DEF UnloadReports
<1>15. ASSUME NEW n \in Names, CrashMarks(n) PROVE Table'
  <2>1. n \in known /\ info' = Unmarked(n)
    BY <1>15 DEF CrashMarks
  <2> QED
    BY <2>1, UnmarkedTable
<1>16. ASSUME NEW n \in Names, CrashReports(n) PROVE Table'
  BY <1>16, SameTable DEF CrashReports
<1>17. ASSUME TerminateAll PROVE Table'
  <2>1. info' = [n \in known |-> [info[n] EXCEPT !.loaded = FALSE]]
    BY <1>17 DEF TerminateAll
  <2>2. known' = known
    BY <2>1 DEF known
  <2>3. ASSUME NEW n \in known
        PROVE  /\ info'[n] \in Entries
               /\ info'[n].path = info[n].path
               /\ info'[n].deps = info[n].deps /\ info'[n].opt = info[n].opt
               /\ info'[n].dependents = info[n].dependents
               /\ info'[n].optDependents = info[n].optDependents
    <3>1. info[n] \in Entries
      BY DEF TypeOK
    <3>2. info'[n] = [info[n] EXCEPT !.loaded = FALSE]
      BY <2>1
    <3> QED
      BY <3>1, <3>2 DEF Entries
  <2>4. DependentsExact'
    BY <2>2, <2>3, EdgesKept
  <2> QED
    BY <2>1, <2>2, <2>3, <2>4 DEF Table, TypeOK
<1>18. ASSUME Clear PROVE Table'
  <2>1. info' = [n \in {} |-> Fresh]
    BY <1>18 DEF Clear
  <2>2. known' = {} /\ info' \in [known' -> Entries]
    BY <2>1 DEF known
  <2> QED
    BY <2>2 DEF Table, DependentsExact
<1>19. ASSUME InstallSink PROVE Table'
  BY <1>19, SameTable DEF InstallSink
<1>20. ASSUME SnapshotReads PROVE Table'
  BY <1>20, SameTable DEF SnapshotReads
<1>21. ASSUME SnapshotNumbers PROVE Table'
  BY <1>21, SameTable DEF SnapshotNumbers
<1>22. ASSUME RemoveSink PROVE Table'
  BY <1>22, SameTable DEF RemoveSink
<1>23. CASE UNCHANGED vars
  BY <1>23, SameTable DEF vars
<1> QED
  BY <1>1, <1>2, <1>3, <1>4, <1>5, <1>6, <1>7, <1>8, <1>9, <1>10, <1>11,
     <1>12, <1>13, <1>14, <1>15, <1>16, <1>17, <1>18, <1>19, <1>20, <1>21,
     <1>22, <1>23
  DEF Next

\* Every operation of the registry keeps the table and the feed in their types.
LEMMA TypeStep == TypeOK /\ Table' /\ [Next]_vars => TypeOK'
<1> SUFFICES ASSUME TypeOK, Table', [Next]_vars
             PROVE  TypeOK'
  OBVIOUS
<1> USE RegistryAssumption
<1> USE DEF TypeOK, Table, Jobs, States, SetJob, Tell, Record, Overtaken, NotScanning,
            NotListing, Forgotten, ConsumerGone, observer, bounds
<1>1. ASSUME NEW p \in Names, Uninstall(p) PROVE TypeOK'
  BY <1>1 DEF Uninstall
<1>2. ASSUME NEW p \in Names, NEW m \in Manifests, Install(p, m) PROVE TypeOK'
  BY <1>2 DEF Install
<1>3. ASSUME DiscoverBegins PROVE TypeOK'
  BY <1>3 DEF DiscoverBegins
<1>4. ASSUME DiscoverEnds PROVE TypeOK'
  <2>1. ScannedNames \subseteq Names /\ Pruned \subseteq Names
    BY ScannedValid DEF Pruned
  <2>2. overtaken' \subseteq Names
    BY <1>4, <2>1 DEF DiscoverEnds
  <2> QED
    BY <1>4, <2>2 DEF DiscoverEnds
<1>5. ASSUME NEW m \in Manifests, ProcessModule(m) PROVE TypeOK'
  BY <1>5 DEF ProcessModule
<1>6. ASSUME NEW n \in Names, AddEmbedded(n) PROVE TypeOK'
  BY <1>6 DEF AddEmbedded
<1>7. ASSUME NEW n \in Names, AnnounceEmbedded(n) PROVE TypeOK'
  BY <1>7 DEF AnnounceEmbedded
<1>8. ASSUME NEW n \in Names, LoadChecks(n) PROVE TypeOK'
  BY <1>8 DEF LoadChecks
<1>9. ASSUME NEW n \in Names, LoadBegins(n) PROVE TypeOK'
  BY <1>9 DEF LoadBegins
<1>10. ASSUME NEW n \in Names, MarkLoaded(n) PROVE TypeOK'
  BY <1>10 DEF MarkLoaded
<1>11. ASSUME NEW n \in Names, LoadReports(n) PROVE TypeOK'
  BY <1>11 DEF LoadReports
<1>12. ASSUME NEW n \in Names, LoadFails(n) PROVE TypeOK'
  BY <1>12 DEF LoadFails
<1>13. ASSUME NEW n \in Names, UnloadMarks(n) PROVE TypeOK'
  BY <1>13 DEF UnloadMarks
<1>14. ASSUME NEW n \in Names, UnloadReports(n) PROVE TypeOK'
  BY <1>14 DEF UnloadReports
<1>15. ASSUME NEW n \in Names, CrashMarks(n) PROVE TypeOK'
  BY <1>15 DEF CrashMarks
<1>16. ASSUME NEW n \in Names, CrashReports(n) PROVE TypeOK'
  BY <1>16 DEF CrashReports
<1>17. ASSUME TerminateAll PROVE TypeOK'
  BY <1>17 DEF TerminateAll
<1>18. ASSUME Clear PROVE TypeOK'
  BY <1>18 DEF Clear
<1>19. ASSUME InstallSink PROVE TypeOK'
  BY <1>19 DEF InstallSink
<1>20. ASSUME SnapshotReads PROVE TypeOK'
  BY <1>20 DEF SnapshotReads
<1>21. ASSUME SnapshotNumbers PROVE TypeOK'
  BY <1>21 DEF SnapshotNumbers
<1>22. ASSUME RemoveSink PROVE TypeOK'
  BY <1>22 DEF RemoveSink
<1>23. CASE UNCHANGED vars
  BY <1>23 DEF vars
<1> QED
  BY <1>1, <1>2, <1>3, <1>4, <1>5, <1>6, <1>7, <1>8, <1>9, <1>10, <1>11,
     <1>12, <1>13, <1>14, <1>15, <1>16, <1>17, <1>18, <1>19, <1>20, <1>21,
     <1>22, <1>23
  DEF Next

\* Nothing leaves the table while a scan holds the lock.
LEMMA SampledStep == TypeOK /\ Table' /\ Sampled /\ [Next]_vars => Sampled'
<1> SUFFICES ASSUME TypeOK, Table', Sampled, [Next]_vars
             PROVE  Sampled'
  OBVIOUS
<1> USE RegistryAssumption
<1> USE DEF TypeOK, Sampled, SetJob, NotScanning, Unlocked, known, observer, bounds
<1>1. ASSUME NEW p \in Names, Uninstall(p) PROVE Sampled'
  BY <1>1 DEF Uninstall
<1>2. ASSUME NEW p \in Names, NEW m \in Manifests, Install(p, m) PROVE Sampled'
  BY <1>2 DEF Install
<1>3. ASSUME DiscoverBegins PROVE Sampled'
  BY <1>3 DEF DiscoverBegins
<1>4. ASSUME DiscoverEnds PROVE Sampled'
  BY <1>4 DEF DiscoverEnds
<1>5. ASSUME NEW m \in Manifests, ProcessModule(m) PROVE Sampled'
  BY <1>5 DEF ProcessModule
<1>6. ASSUME NEW n \in Names, AddEmbedded(n) PROVE Sampled'
  BY <1>6 DEF AddEmbedded
<1>7. ASSUME NEW n \in Names, AnnounceEmbedded(n) PROVE Sampled'
  BY <1>7 DEF AnnounceEmbedded
<1>8. ASSUME NEW n \in Names, LoadChecks(n) PROVE Sampled'
  BY <1>8 DEF LoadChecks
<1>9. ASSUME NEW n \in Names, LoadBegins(n) PROVE Sampled'
  BY <1>9 DEF LoadBegins
<1>10. ASSUME NEW n \in Names, MarkLoaded(n) PROVE Sampled'
  BY <1>10 DEF MarkLoaded
<1>11. ASSUME NEW n \in Names, LoadReports(n) PROVE Sampled'
  BY <1>11 DEF LoadReports
<1>12. ASSUME NEW n \in Names, LoadFails(n) PROVE Sampled'
  BY <1>12 DEF LoadFails
<1>13. ASSUME NEW n \in Names, UnloadMarks(n) PROVE Sampled'
  BY <1>13 DEF UnloadMarks
<1>14. ASSUME NEW n \in Names, UnloadReports(n) PROVE Sampled'
  BY <1>14 DEF UnloadReports
<1>15. ASSUME NEW n \in Names, CrashMarks(n) PROVE Sampled'
  BY <1>15 DEF CrashMarks
<1>16. ASSUME NEW n \in Names, CrashReports(n) PROVE Sampled'
  BY <1>16 DEF CrashReports
<1>17. ASSUME TerminateAll PROVE Sampled'
  BY <1>17 DEF TerminateAll
<1>18. ASSUME Clear PROVE Sampled'
  BY <1>18 DEF Clear
<1>19. ASSUME InstallSink PROVE Sampled'
  BY <1>19 DEF InstallSink
<1>20. ASSUME SnapshotReads PROVE Sampled'
  BY <1>20 DEF SnapshotReads
<1>21. ASSUME SnapshotNumbers PROVE Sampled'
  BY <1>21 DEF SnapshotNumbers
<1>22. ASSUME RemoveSink PROVE Sampled'
  BY <1>22 DEF RemoveSink
<1>23. CASE UNCHANGED vars
  BY <1>23 DEF vars
<1> QED
  BY <1>1, <1>2, <1>3, <1>4, <1>5, <1>6, <1>7, <1>8, <1>9, <1>10, <1>11,
     <1>12, <1>13, <1>14, <1>15, <1>16, <1>17, <1>18, <1>19, <1>20, <1>21,
     <1>22, <1>23
  DEF Next

\* Every way into the table reports, or owes the report.
LEMMA OwedStep == TypeOK /\ Table' /\ Sampled /\ Owed /\ [Next]_vars => Owed'
<1> SUFFICES ASSUME TypeOK, Table', Sampled, Owed, [Next]_vars
             PROVE  Owed'
  OBVIOUS
<1> USE RegistryAssumption
<1> USE DEF TypeOK, Sampled, Owed, Reporting, SetJob, Tell, Record, Overtaken, NotListing,
            ConsumerGone, Unlocked, known, observer, bounds
<1>1. ASSUME NEW p \in Names, Uninstall(p) PROVE Owed'
  BY <1>1 DEF Uninstall
<1>2. ASSUME NEW p \in Names, NEW m \in Manifests, Install(p, m) PROVE Owed'
  BY <1>2 DEF Install
<1>3. ASSUME DiscoverBegins PROVE Owed'
  BY <1>3 DEF DiscoverBegins
<1>4. ASSUME DiscoverEnds PROVE Owed'
  <2>1. known' = (known \cup ScannedNames) \ Pruned
    BY <1>4 DEF DiscoverEnds, Recompute
  <2>2. \A n \in ScannedNames : n \notin Pruned
    BY DEF Pruned
  <2>3. known' \subseteq Names /\ UNCHANGED <<announce, job, synced>> /\ scan.on
    BY <1>4 DEF DiscoverEnds, Table
  <2>4. \A n \in Names : feed'[n] = IF synced /\ n \in ScannedNames \ scan.before THEN "unloaded"
                                    ELSE IF synced /\ n \in Pruned THEN "absent" ELSE feed[n]
    BY <1>4 DEF DiscoverEnds
  <2>5. \A n : n \in overtaken' <=>
           IF listing.on
           THEN \/ n \in overtaken
                \/ /\ n \in (ScannedNames \ scan.before) \cup Pruned
                   /\ listing.states[n] = "absent"
           ELSE n \in overtaken /\ n \notin (ScannedNames \ scan.before) \cup Pruned
    BY <1>4 DEF DiscoverEnds
  <2>6. scan.before \subseteq known /\ listing' = listing
    BY <1>4 DEF DiscoverEnds
  <2>7. CASE listing.on
    <3>1. ~synced
      BY <2>7
    <3>2. ASSUME NEW n \in known' PROVE listing.states[n] # "absent" \/ Reporting(n)'
      <4>1. CASE n \in known
        BY <2>3, <2>5, <2>7, <4>1
      <4>2. CASE n \notin known
        BY <2>1, <2>5, <2>6, <2>7, <4>2
      <4> QED
        BY <4>1, <4>2
    <3> QED
      BY <2>3, <2>6, <3>1, <3>2
  <2>8. CASE ~listing.on
    BY <2>1, <2>2, <2>3, <2>4, <2>5, <2>6, <2>8
  <2> QED
    BY <2>7, <2>8
<1>5. ASSUME NEW m \in Manifests, ProcessModule(m) PROVE Owed'
  <2>1. known' = known \cup {m.asserts}
    BY <1>5 DEF ProcessModule, Recompute, Put
  <2> QED
    BY <1>5, <2>1 DEF ProcessModule
<1>6. ASSUME NEW n \in Names, AddEmbedded(n) PROVE Owed'
  <2>1. known' = known \cup {n}
    BY <1>6 DEF AddEmbedded, Recompute, Put
  <2> QED
    BY <1>6, <2>1 DEF AddEmbedded
<1>7. ASSUME NEW n \in Names, AnnounceEmbedded(n) PROVE Owed'
  BY <1>7 DEF AnnounceEmbedded
<1>8. ASSUME NEW n \in Names, LoadChecks(n) PROVE Owed'
  BY <1>8 DEF LoadChecks
<1>9. ASSUME NEW n \in Names, LoadBegins(n) PROVE Owed'
  BY <1>9 DEF LoadBegins
<1>10. ASSUME NEW n \in Names, MarkLoaded(n) PROVE Owed'
  <2>1. known' = known \cup {n}
    BY <1>10 DEF MarkLoaded, Put
  <2> QED
    BY <1>10, <2>1 DEF MarkLoaded
<1>11. ASSUME NEW n \in Names, LoadReports(n) PROVE Owed'
  BY <1>11 DEF LoadReports
<1>12. ASSUME NEW n \in Names, LoadFails(n) PROVE Owed'
  BY <1>12 DEF LoadFails
<1>13. ASSUME NEW n \in Names, UnloadMarks(n) PROVE Owed'
  <2>1. known' = known
    BY <1>13 DEF UnloadMarks, Unmarked
  <2> QED
    BY <1>13, <2>1 DEF UnloadMarks
<1>14. ASSUME NEW n \in Names, UnloadReports(n) PROVE Owed'
  BY <1>14 DEF UnloadReports
<1>15. ASSUME NEW n \in Names, CrashMarks(n) PROVE Owed'
  <2>1. known' = known
    BY <1>15 DEF CrashMarks, Unmarked
  <2> QED
    BY <1>15, <2>1 DEF CrashMarks
<1>16. ASSUME NEW n \in Names, CrashReports(n) PROVE Owed'
  BY <1>16 DEF CrashReports
<1>17. ASSUME TerminateAll PROVE Owed'
  BY <1>17 DEF TerminateAll
<1>18. ASSUME Clear PROVE Owed'
  BY <1>18 DEF Clear
<1>19. ASSUME InstallSink PROVE Owed'
  BY <1>19 DEF InstallSink
<1>20. ASSUME SnapshotReads PROVE Owed'
  BY <1>20 DEF SnapshotReads
<1>21. ASSUME SnapshotNumbers PROVE Owed'
  BY <1>21 DEF SnapshotNumbers
<1>22. ASSUME RemoveSink PROVE Owed'
  BY <1>22 DEF RemoveSink
<1>23. CASE UNCHANGED vars
  BY <1>23 DEF vars
<1> QED
  BY <1>1, <1>2, <1>3, <1>4, <1>5, <1>6, <1>7, <1>8, <1>9, <1>10, <1>11,
     <1>12, <1>13, <1>14, <1>15, <1>16, <1>17, <1>18, <1>19, <1>20, <1>21,
     <1>22, <1>23
  DEF Next

\* The registry keeps the invariant in every behaviour.
THEOREM InductiveInvariant == Spec => []IInv
<1>1. IInv /\ [Next]_vars => IInv'
  BY TableStep, TypeStep, SampledStep, OwedStep DEF IInv, Table
<1> QED
  BY InitIInv, <1>1, PTL DEF Spec

\* The table, the disk and the feed keep their types.
THEOREM TypeCorrect == Spec => []TypeOK
<1>1. IInv => TypeOK
  BY DEF IInv
<1> QED
  BY InductiveInvariant, <1>1, PTL

\* moduleDependents names exactly the known modules that declare the edge, after
\* any sequence of scans, registrations, loads and clears; of an entry a load made
\* up after a scan had pruned it, no module too many.
THEOREM DependentsAreExact == Spec => []DependentsExact
<1>1. IInv => DependentsExact
  BY DEF IInv
<1> QED
  BY InductiveInvariant, <1>1, PTL

\* With nothing left to report, a consumer of the feed has heard of every module
\* in the table, whichever way it came in, unless it came between the reading of
\* the snapshot and its numbering.
THEOREM KnownModulesVisible == Spec => []KnownIsVisible
<1>1. IInv => KnownIsVisible
  BY RegistryAssumption DEF IInv, Owed, Reporting, KnownIsVisible, Reported, NoJobs, TypeOK
<1> QED
  BY InductiveInvariant, <1>1, PTL
=============================================================================
