--------------------------- MODULE StateFeedProofs ---------------------------
(***************************************************************************)
(* Safety of StateFeed for any modules, threads and bounds.                *)
(*                                                                         *)
(* The properties speak of moments of rest. Between them the invariant     *)
(* says where the newest record of each module is: in the buffer, in a     *)
(* batch a thread has taken, on the owner's queue, in a snapshot under way *)
(* or with modules_state; and that whatever else is under way is older.    *)
(***************************************************************************)
EXTENDS StateFeed, WellFoundedInduction, TLAPS

\* A thread inside an operation holds a module.
Placed ==
    \A t \in Threads :
        /\ pc[t] \in {"commit", "doomed", "record", "arm", "unload", "terminate",
                      "unloaded", "exited", "crash"} => cur[t] \in Modules
        /\ pc[t] # "dispatch" => batch[t] = <<>>

\* A watch of the entry's present epoch has fired only if the present object is up.
Watched ==
    \A w \in watches : w.mod \notin outlived =>
        /\ w.epoch <= reg[w.mod].epoch
        /\ w.epoch = reg[w.mod].epoch /\ reg[w.mod].loaded /\ w.fired => objUp[w.mod]

\* With a sink, whoever filled the buffer has its flush before it.
Flushing ==
    sink /\ pending # <<>> =>
        \E t \in Threads : pc[t] \notin {"idle", "dispatch", "stamp", "apply"}

\* A modules_state that is up has its sink, which nobody is about to clear, and
\* waits for its snapshot at first.
Listening ==
    /\ consumer # "down" => sink
    /\ consumer = "loaded" => snapArmed
    /\ Disabling => consumer = "down"

\* A record of m under way: the last one stamped, or an older one.
Current(m, r) ==
    r.seq <= last[m].seq /\ (r.seq = last[m].seq => r.state = last[m].state)
AllCurrent(recs) == \A i \in DOMAIN recs : Current(recs[i].mod, recs[i])

Stamped ==
    /\ \A m \in Modules : last[m].seq <= seq /\ Current(m, NoRecord) /\ Current(m, store[m])
    /\ pc[Owner] = "apply" => \A m \in Modules : Current(m, snap[m])
    /\ AllCurrent(pending)
    /\ \A t \in Threads : AllCurrent(batch[t])
    /\ \A i \in DOMAIN posted : AllCurrent(posted[i])

\* Where the last record of m is while modules_state does not have it.
Carries(recs, m) == \E i \in DOMAIN recs : recs[i].mod = m /\ recs[i].seq = last[m].seq
Carried(m) ==
    \/ Carries(pending, m)
    \/ \E t \in Threads : Carries(batch[t], m)
    \/ \E i \in DOMAIN posted : Carries(posted[i], m)
Located(m) ==
    \/ store[m] = last[m]
    \/ pc[Owner] = "stamp"
    \/ pc[Owner] = "apply" /\ snap[m] = last[m]
    \/ Carried(m)
Underway == consumer = "ready" /\ ~snapArmed => \A m \in Modules : Located(m)

IInv ==
    /\ TypeOK /\ Placed /\ Watched /\ ReadyMeansPublished
    /\ Flushing /\ Listening /\ Stamped /\ Underway

-----------------------------------------------------------------------------
(* Records.                                                                *)

\* NoRecord and the empty store are of their types.
LEMMA EmptyTyped == NoRecord \in Records /\ Empty \in [Modules -> Records]
  BY DEF NoRecord, Empty, Records

\* What Append adds.
LEMMA AppendEnds ==
    ASSUME NEW S, NEW q \in Seq(S), NEW x \in S
    PROVE  /\ Append(q, x) \in Seq(S)
           /\ DOMAIN Append(q, x) = DOMAIN q \cup {Len(q) + 1}
           /\ Append(q, x)[Len(q) + 1] = x
           /\ \A i \in DOMAIN q : Append(q, x)[i] = q[i]
  OBVIOUS

\* What Tail leaves: all but the first, each one place up.
LEMMA TailShifts ==
    ASSUME NEW S, NEW q \in Seq(S), q # << >>
    PROVE  /\ Head(q) = q[1] /\ 1 \in DOMAIN q
           /\ Tail(q) \in Seq(S)
           /\ \A i \in DOMAIN Tail(q) : i + 1 \in DOMAIN q /\ Tail(q)[i] = q[i + 1]
           /\ \A i \in DOMAIN q : i # 1 => i - 1 \in DOMAIN Tail(q) /\ Tail(q)[i - 1] = q[i]
<1>1. Len(q) \in Nat /\ Len(q) > 0 /\ DOMAIN q = 1..Len(q) /\ Head(q) = q[1]
  OBVIOUS
<1>2. Tail(q) \in Seq(S) /\ Len(Tail(q)) = Len(q) - 1
  OBVIOUS
<1>3. DOMAIN Tail(q) = 1..(Len(q) - 1)
  BY <1>2
<1>4. \A i \in 1..(Len(q) - 1) : Tail(q)[i] = q[i + 1]
  OBVIOUS
<1> QED
  BY <1>1, <1>2, <1>3, <1>4

\* The records of a batch.
LEMMA BatchTyped ==
    ASSUME NEW q \in Seq(Events)
    PROVE  \A i \in DOMAIN q : q[i] \in Events /\ q[i].seq \in Nat /\ q[i].mod \in Modules
<1>1. \A i \in DOMAIN q : q[i] \in Events
  OBVIOUS
<1> QED
  BY <1>1 DEF Events

\* record buffers one event with a fresh seq, or nothing.
LEMMA RecordTyped ==
    ASSUME TypeOK, NEW m \in Modules, NEW s \in States, Record(m, s)
    PROVE  /\ seq' \in Nat /\ pending' \in Seq(Events) /\ sink' = sink
           /\ last' \in [Modules -> Records]
<1>1. CASE sink
  <2>1. [mod |-> m, state |-> s, seq |-> seq + 1] \in Events
    BY DEF TypeOK, Events
  <2>2. [seq |-> seq + 1, state |-> s] \in Records
    BY DEF TypeOK, Records
  <2>3. pending' \in Seq(Events)
    <3>1. PICK y \in Events : pending' = Append(pending, y)
      BY <1>1, <2>1 DEF Record
    <3>2. pending \in Seq(Events)
      BY DEF TypeOK
    <3> QED
      BY <3>1, <3>2, AppendEnds
  <2>4. last' \in [Modules -> Records]
    BY <1>1, <2>2 DEF TypeOK, Record
  <2> QED
    BY <1>1, <2>3, <2>4 DEF TypeOK, Record
<1>2. CASE ~sink
  BY <1>2 DEF TypeOK, Record, obsVars
<1> QED
  BY <1>1, <1>2

\* A set of records with bounded seqs has a newest one.
LEMMA NewestExists ==
    ASSUME NEW A \in SUBSET Records, A # {}, NEW n \in Nat, \A q \in A : q.seq <= n
    PROVE  \E r \in A : \A q \in A : q.seq <= r.seq
<1> DEFINE R == OpToRel(<, Nat)
           D == {n - q.seq : q \in A}
<1>1. D \subseteq Nat /\ D # {}
  BY DEF Records
<1>2. IsWellFoundedOn(R, Nat) /\ \A x, y \in Nat : y < x => <<y, x>> \in R
  BY NatLessThanWellFounded DEF OpToRel
<1> HIDE DEF R
<1>3. PICK d \in D : \A e \in D : d <= e
  <2>1. PICK d \in D : \A e \in D : ~(<<e, d>> \in R)
    BY <1>1, <1>2, WFMin
  <2>2. \A e \in D : e \in Nat /\ d \in Nat /\ ~(e < d)
    BY <1>1, <1>2, <2>1
  <2> HIDE DEF D
  <2>3. \A e \in D : d <= e
    BY <2>2
  <2> QED
    BY <2>3
<1>4. PICK r \in A : d = n - r.seq
  OBVIOUS
<1>5. ASSUME NEW q \in A PROVE q.seq <= r.seq
  <2>1. n - r.seq <= n - q.seq
    BY <1>3, <1>4
  <2>2. q.seq \in Nat /\ r.seq \in Nat
    BY DEF Records
  <2> QED
    BY <2>1, <2>2
<1> QED
  BY <1>5

\* What modules_state keeps of current records is current, and is the last one if
\* that was among them or already there.
LEMMA AppliedKeepsNewest ==
    ASSUME TypeOK, Stamped, NEW recs \in Seq(Events), AllCurrent(recs)
    PROVE  /\ Applied(store, recs) \in [Modules -> Records]
           /\ \A m \in Modules :
                 /\ Current(m, Applied(store, recs)[m])
                 /\ Carries(recs, m) \/ store[m] = last[m] => Applied(store, recs)[m] = last[m]
<1> SUFFICES ASSUME NEW m \in Modules
             PROVE  /\ Applied(store, recs)[m] \in Records
                    /\ Current(m, Applied(store, recs)[m])
                    /\ Carries(recs, m) \/ store[m] = last[m] =>
                          Applied(store, recs)[m] = last[m]
  BY DEF Applied
<1> DEFINE mine == {j \in DOMAIN recs : recs[j].mod = m}
           all == {store[m]} \cup {[seq |-> recs[i].seq, state |-> recs[i].state] : i \in mine}
           r == CHOOSE x \in all : \A q \in all : q.seq <= x.seq
<1>1. Applied(store, recs)[m] = r
  BY DEF Applied
<1>2. \A i \in DOMAIN recs : recs[i] \in Events
  OBVIOUS
<1>3. store[m] \in Records /\ last[m] \in Records
  BY DEF TypeOK
<1>4. all \subseteq Records
  BY <1>2, <1>3 DEF Events, Records
<1>5. \A q \in all : Current(m, q)
  BY DEF Stamped, AllCurrent, Current
<1>6. last[m].seq \in Nat /\ \A q \in all : q.seq <= last[m].seq
  BY <1>3, <1>5 DEF Current, Records
<1>7. \E x \in all : \A q \in all : q.seq <= x.seq
  <2>1. all # {} /\ all \in SUBSET Records
    BY <1>4
  <2> HIDE DEF all
  <2> QED
    BY <1>6, <2>1, NewestExists
<1>8. r \in all /\ \A q \in all : q.seq <= r.seq
  BY <1>7
<1>9. ASSUME Carries(recs, m) \/ store[m] = last[m] PROVE r = last[m]
  <2>1. \E q \in all : q.seq = last[m].seq
    <3>1. CASE store[m] = last[m]
      BY <3>1
    <3>2. ASSUME NEW i \in mine, recs[i].seq = last[m].seq
          PROVE  \E q \in all : q.seq = last[m].seq
      <4>1. [seq |-> recs[i].seq, state |-> recs[i].state] \in all
        OBVIOUS
      <4>2. [seq |-> recs[i].seq, state |-> recs[i].state].seq = last[m].seq
        BY <3>2
      <4> HIDE DEF all
      <4> QED
        BY <4>1, <4>2
    <3> QED
      BY <1>9, <3>1, <3>2 DEF Carries
  <2> HIDE DEF all, r
  <2>2. r.seq = last[m].seq
    BY <1>3, <1>4, <1>6, <1>8, <2>1 DEF Records
  <2>3. r.state = last[m].state
    BY <1>5, <1>8, <2>2 DEF Current
  <2> QED
    BY <1>3, <1>4, <1>8, <2>2, <2>3 DEF Records
<1> HIDE DEF all, r
<1> QED
  BY <1>1, <1>4, <1>5, <1>8, <1>9

\* Every step keeps the types.
LEMMA TypeStep == TypeOK /\ Placed /\ Stamped /\ [Next]_vars => TypeOK'
<1> SUFFICES ASSUME TypeOK, Placed, Stamped, [Next]_vars
             PROVE  TypeOK'
  OBVIOUS
<1> USE FeedAssumption
<1> USE DEF threadVars, obsVars, consVars, bounds, Goto, MarkUnloaded,
            FleetOperation
<1>1. ASSUME NEW t \in Threads, NEW m \in Modules, LoadBegins(t, m) PROVE TypeOK'
  <2>1. m \in Modules /\ "loading" \in States /\ Record(m, "loading")
    BY <1>1 DEF LoadBegins, Placed, States
  <2>2. /\ seq' \in Nat /\ pending' \in Seq(Events) /\ sink' = sink
        /\ last' \in [Modules -> Records]
    BY <2>1, RecordTyped
  <2> QED
    BY <1>1, <2>2 DEF LoadBegins, TypeOK
<1>2. ASSUME NEW t \in Threads, NEW m \in Modules, UnloadBegins(t, m) PROVE TypeOK'
  <2>1. m \in Modules /\ "stopping" \in States /\ Record(m, "stopping")
    BY <1>2 DEF UnloadBegins, Placed, States
  <2>2. /\ seq' \in Nat /\ pending' \in Seq(Events) /\ sink' = sink
        /\ last' \in [Modules -> Records]
    BY <2>1, RecordTyped
  <2> QED
    BY <1>2, <2>2 DEF UnloadBegins, TypeOK
<1>3. ASSUME NEW t \in Threads, LoadCommits(t) PROVE TypeOK'
  BY <1>3 DEF LoadCommits, TypeOK, Placed, Entries
<1>4. ASSUME NEW t \in Threads, LoadFails(t) PROVE TypeOK'
  <2>1. cur[t] \in Modules /\ "error" \in States /\ Record(cur[t], "error")
    BY <1>4 DEF LoadFails, Placed, States
  <2>2. /\ seq' \in Nat /\ pending' \in Seq(Events) /\ sink' = sink
        /\ last' \in [Modules -> Records]
    BY <2>1, RecordTyped
  <2> QED
    BY <1>4, <2>2 DEF LoadFails, TypeOK
<1>5. ASSUME NEW t \in Threads, LoadRecords(t) PROVE TypeOK'
  <2>1. cur[t] \in Modules /\ "loaded" \in States /\ Record(cur[t], "loaded")
    BY <1>5 DEF LoadRecords, Placed, States
  <2>2. /\ seq' \in Nat /\ pending' \in Seq(Events) /\ sink' = sink
        /\ last' \in [Modules -> Records]
    BY <2>1, RecordTyped
  <2> QED
    BY <1>5, <2>2 DEF LoadRecords, TypeOK
<1>6. ASSUME NEW t \in Threads, ArmWatch(t) PROVE TypeOK'
  <2>1. cur[t] \in Modules
    BY <1>6 DEF ArmWatch, Placed
  <2>2. reg' \in [Modules -> Entries]
    <3>1. \A x \in {"unknown", "no", "yes"} : [reg[cur[t]] EXCEPT !.published = x] \in Entries
      BY <2>1, ZenonT(60) DEF TypeOK, Entries
    <3>2. reg[cur[t]].published \in {"unknown", "no", "yes"}
      BY <2>1 DEF TypeOK, Entries
    <3>3. reg' = reg \/ \E x \in {"unknown", "no", "yes"} :
              reg' = [reg EXCEPT ![cur[t]] = [reg[cur[t]] EXCEPT !.published = x]]
      BY <1>6, <3>2 DEF ArmWatch
    <3>4. reg \in [Modules -> Entries]
      BY DEF TypeOK
    <3> QED
      BY <2>1, <3>1, <3>3, <3>4
  <2>3. watches' \subseteq Watches
    BY <1>6, <2>1 DEF ArmWatch, TypeOK, Watches, Entries
  <2> QED
    BY <1>6, <2>2, <2>3 DEF ArmWatch, TypeOK
<1>7. ASSUME NEW t \in Threads, UnloadMarks(t) PROVE TypeOK'
  BY <1>7 DEF UnloadMarks, TypeOK, Placed, Entries
<1>8. ASSUME NEW t \in Threads, UnloadRecords(t) PROVE TypeOK'
  <2>1. cur[t] \in Modules /\ "unloaded" \in States
    BY <1>8 DEF UnloadRecords, Placed, States
  <2>2. /\ seq' \in Nat /\ pending' \in Seq(Events) /\ sink' = sink
        /\ last' \in [Modules -> Records]
    <3>1. CASE cur[t] \in expected
      BY <1>8, <2>1, <3>1, RecordTyped DEF UnloadRecords
    <3>2. CASE cur[t] \notin expected
      BY <1>8, <3>2 DEF UnloadRecords, TypeOK
    <3> QED
      BY <3>1, <3>2
  <2> QED
    BY <1>8, <2>2 DEF UnloadRecords, TypeOK
<1>9. ASSUME NEW t \in Threads, FlushTakes(t) PROVE TypeOK'
  BY <1>9 DEF FlushTakes, TypeOK, Placed, Entries
<1>10. ASSUME NEW t \in Threads, FlushEmpty(t) PROVE TypeOK'
  BY <1>10 DEF FlushEmpty, TypeOK, Placed, Entries
<1>11. ASSUME NEW t \in Threads, FlushDispatches(t) PROVE TypeOK'
  <2>1. batch[t] \in Seq(Events) /\ AllCurrent(batch[t])
    BY DEF TypeOK, Stamped
  <2>2. store' \in [Modules -> Records]
    BY <1>11, <2>1, AppliedKeepsNewest DEF FlushDispatches, Deliver, TypeOK
  <2>3. posted' \in Seq(Seq(Events))
    <3>1. PICK y \in Seq(Events) : posted' = posted \/ posted' = Append(posted, y)
      BY <1>11, <2>1 DEF FlushDispatches
    <3>2. posted \in Seq(Seq(Events))
      BY DEF TypeOK
    <3> DEFINE B == Seq(Events)
    <3> HIDE DEF B
    <3>3. posted \in Seq(B) /\ y \in B
      BY <3>1, <3>2 DEF B
    <3>4. posted' \in Seq(B)
      BY <3>1, <3>3, AppendEnds
    <3> QED
      BY <3>4 DEF B
  <2>4. batch' \in [Threads -> Seq(Events)]
    BY <1>11 DEF FlushDispatches, TypeOK
  <2> QED
    BY <1>11, <2>2, <2>3, <2>4 DEF FlushDispatches, TypeOK
<1>12. ASSUME NEW m \in Modules, Publishes(m) PROVE TypeOK'
  <2>1. \A w \in Watches : [w EXCEPT !.fired = @ \/ w.mod = m] \in Watches
    BY DEF Watches
  <2>2. watches' \subseteq Watches
    BY <1>12, <2>1 DEF Publishes, TypeOK
  <2> QED
    BY <1>12, <2>2 DEF Publishes, TypeOK
<1>13. ASSUME Crashes PROVE TypeOK'
  BY <1>13 DEF Crashes, TypeOK, Placed, Entries
<1>14. ASSUME CrashRecords PROVE TypeOK'
  <2>1. PICK v \in States : Record(cur[Asio], v)
    BY <1>14 DEF CrashRecords, States
  <2>3. cur[Asio] \in Modules
    BY <1>14 DEF CrashRecords, Placed
  <2>2. /\ seq' \in Nat /\ pending' \in Seq(Events) /\ sink' = sink
        /\ last' \in [Modules -> Records]
    BY <2>1, <2>3, RecordTyped
  <2> QED
    BY <1>14, <2>2 DEF CrashRecords, TypeOK
<1>15. ASSUME NEW w \in watches, WatchRuns(w) PROVE TypeOK'
  <2>1. w.mod \in Modules /\ "ready" \in States
    BY DEF TypeOK, States, Watches
  <2>2. /\ seq' \in Nat /\ pending' \in Seq(Events) /\ sink' \in BOOLEAN
        /\ last' \in [Modules -> Records]
    BY <1>15, <2>1, RecordTyped DEF WatchRuns, TypeOK
  <2>3. watches' \subseteq watches
    BY <1>15 DEF WatchRuns
  <2>4. [reg[w.mod] EXCEPT !.published = "yes"] \in Entries
    BY <2>1, ZenonT(60) DEF TypeOK, Entries
  <2>5. reg' = reg \/ reg' = [reg EXCEPT ![w.mod] = [reg[w.mod] EXCEPT !.published = "yes"]]
    BY <1>15 DEF WatchRuns
  <2>6. reg' \in [Modules -> Entries]
    BY <2>1, <2>4, <2>5 DEF TypeOK
  <2> QED
    BY <1>15, <2>2, <2>3, <2>6 DEF WatchRuns, TypeOK
<1>16. ASSUME OwnerSends PROVE TypeOK'
  <2>1. Head(posted) = posted[1] /\ 1 \in DOMAIN posted /\ posted' \in Seq(Seq(Events))
    <3>1. posted \in Seq(Seq(Events)) /\ posted # << >> /\ posted' = Tail(posted)
      BY <1>16 DEF OwnerSends, TypeOK
    <3> QED
      BY <3>1, TailShifts
  <2>2. Head(posted) \in Seq(Events) /\ AllCurrent(Head(posted))
    BY <2>1 DEF TypeOK, Stamped
  <2>3. store' \in [Modules -> Records]
    BY <1>16, <2>2, AppliedKeepsNewest DEF OwnerSends, Deliver, TypeOK
  <2> QED
    BY <1>16, <2>1, <2>3 DEF OwnerSends, TypeOK
<1>17. ASSUME TerminateAll PROVE TypeOK'
  BY <1>17, EmptyTyped, ZenonT(60) DEF TerminateAll, TypeOK, Entries
<1>18. ASSUME ClearAndDiscover PROVE TypeOK'
  <2>1. Down \in Entries /\ outlived' \subseteq Modules
    BY <1>18 DEF ClearAndDiscover, TypeOK, Down, Entries, Watches
  <2> QED
    BY <1>18, <2>1, EmptyTyped DEF ClearAndDiscover, TypeOK
<1>19. ASSUME NEW t \in Threads, ConsumerLoads(t) PROVE TypeOK'
  BY <1>19 DEF ConsumerLoads, TypeOK, Placed, Entries
<1>20. ASSUME NEW t \in Threads, ConsumerUnloads(t) PROVE TypeOK'
  BY <1>20, EmptyTyped DEF ConsumerUnloads, TypeOK
<1>21. ASSUME ConsumerPublishes PROVE TypeOK'
  BY <1>21 DEF ConsumerPublishes, TypeOK, Placed, Entries
<1>22. ASSUME ConsumerDies PROVE TypeOK'
  BY <1>22, EmptyTyped DEF ConsumerDies, TypeOK
<1>23. ASSUME SnapshotReads PROVE TypeOK'
  <2>1. snap' \in [Modules -> Records]
    BY <1>23 DEF SnapshotReads, Records, States, Listed
  <2> QED
    BY <1>23, <2>1 DEF SnapshotReads, TypeOK
<1>24. ASSUME SnapshotStamps PROVE TypeOK'
  <2>s. seq + 1 \in Nat
    BY DEF TypeOK
  <2>1. \A r \in Records : [r EXCEPT !.seq = seq + 1] \in Records
    BY <2>s DEF Records
  <2>2. snap' \in [Modules -> Records] /\ last' = snap' /\ seq' \in Nat
    BY <1>24, <2>1 DEF SnapshotStamps, TypeOK
  <2> QED
    BY <1>24, <2>2 DEF SnapshotStamps, TypeOK
<1>25. ASSUME SnapshotApplies PROVE TypeOK'
  <2>1. store' \in [Modules -> Records] /\ snap' \in [Modules -> Records]
    BY <1>25, EmptyTyped DEF SnapshotApplies, TypeOK
  <2> QED
    BY <1>25, <2>1 DEF SnapshotApplies, TypeOK
<1>26. ASSUME NEW t \in Threads, UnloadRefused(t) PROVE TypeOK'
  <2>1. cur[t] \in Modules /\ "loaded" \in States /\ Record(cur[t], "loaded")
    BY <1>26 DEF UnloadRefused, Placed, States
  <2>2. /\ seq' \in Nat /\ pending' \in Seq(Events) /\ sink' = sink
        /\ last' \in [Modules -> Records]
    BY <2>1, RecordTyped
  <2> QED
    BY <1>26, <2>2 DEF UnloadRefused, TypeOK
<1>27. ASSUME NEW t \in Threads, UnloadAnnounces(t) PROVE TypeOK'
  BY <1>27 DEF UnloadAnnounces, TypeOK, Placed, Entries
<1>28. ASSUME NEW m \in Modules, Exits(m) PROVE TypeOK'
  BY <1>28 DEF Exits, TypeOK, Placed, Entries
<1>29. ASSUME NEW t \in Threads, LoadTakesExit(t) PROVE TypeOK'
  BY <1>29 DEF LoadTakesExit, TypeOK, Placed, Entries
<1>30. ASSUME NEW t \in Threads, SinkCleared(t) PROVE TypeOK'
  BY <1>30 DEF SinkCleared, TypeOK, Placed, Entries
<1>31. ASSUME Finished PROVE TypeOK'
  BY <1>31 DEF Finished, vars, TypeOK
<1>32. CASE UNCHANGED vars
  BY <1>32 DEF vars, TypeOK
<1> QED
  BY <1>1, <1>2, <1>3, <1>4, <1>5, <1>6, <1>7, <1>8, <1>9, <1>10, <1>11,
     <1>12, <1>13, <1>14, <1>15, <1>16, <1>17, <1>18, <1>19, <1>20, <1>21,
     <1>22, <1>23, <1>24, <1>25, <1>26, <1>27, <1>28, <1>29, <1>30,
     <1>31, <1>32
  DEF Next, ThreadStep

\* A thread names its module for as long as it works on it, and keeps a batch only
\* until it has handed it over.
LEMMA PlacedStep == TypeOK /\ Placed /\ [Next]_vars => Placed'
<1> SUFFICES ASSUME TypeOK, Placed, [Next]_vars
             PROVE  Placed'
  OBVIOUS
<1> USE FeedAssumption
<1> USE DEF threadVars, obsVars, consVars, bounds, Goto, MarkUnloaded,
            FleetOperation, Placed, TypeOK
<1>1. ASSUME NEW t \in Threads, NEW m \in Modules, LoadBegins(t, m) PROVE Placed'
  BY <1>1 DEF LoadBegins
<1>2. ASSUME NEW t \in Threads, NEW m \in Modules, UnloadBegins(t, m) PROVE Placed'
  BY <1>2 DEF UnloadBegins
<1>3. ASSUME NEW t \in Threads, LoadCommits(t) PROVE Placed'
  BY <1>3 DEF LoadCommits
<1>4. ASSUME NEW t \in Threads, LoadFails(t) PROVE Placed'
  BY <1>4 DEF LoadFails
<1>5. ASSUME NEW t \in Threads, LoadRecords(t) PROVE Placed'
  BY <1>5 DEF LoadRecords
<1>6. ASSUME NEW t \in Threads, ArmWatch(t) PROVE Placed'
  BY <1>6 DEF ArmWatch
<1>7. ASSUME NEW t \in Threads, UnloadMarks(t) PROVE Placed'
  BY <1>7 DEF UnloadMarks
<1>8. ASSUME NEW t \in Threads, UnloadRecords(t) PROVE Placed'
  BY <1>8 DEF UnloadRecords
<1>9. ASSUME NEW t \in Threads, FlushTakes(t) PROVE Placed'
  BY <1>9 DEF FlushTakes
<1>10. ASSUME NEW t \in Threads, FlushEmpty(t) PROVE Placed'
  BY <1>10 DEF FlushEmpty
<1>11. ASSUME NEW t \in Threads, FlushDispatches(t) PROVE Placed'
  BY <1>11 DEF FlushDispatches
<1>12. ASSUME NEW m \in Modules, Publishes(m) PROVE Placed'
  BY <1>12 DEF Publishes
<1>13. ASSUME Crashes PROVE Placed'
  BY <1>13 DEF Crashes
<1>14. ASSUME CrashRecords PROVE Placed'
  BY <1>14 DEF CrashRecords
<1>15. ASSUME NEW w \in watches, WatchRuns(w) PROVE Placed'
  BY <1>15 DEF WatchRuns
<1>16. ASSUME OwnerSends PROVE Placed'
  BY <1>16 DEF OwnerSends
<1>17. ASSUME TerminateAll PROVE Placed'
  BY <1>17 DEF TerminateAll
<1>18. ASSUME ClearAndDiscover PROVE Placed'
  BY <1>18 DEF ClearAndDiscover
<1>19. ASSUME NEW t \in Threads, ConsumerLoads(t) PROVE Placed'
  BY <1>19 DEF ConsumerLoads
<1>20. ASSUME NEW t \in Threads, ConsumerUnloads(t) PROVE Placed'
  BY <1>20 DEF ConsumerUnloads
<1>21. ASSUME ConsumerPublishes PROVE Placed'
  BY <1>21 DEF ConsumerPublishes
<1>22. ASSUME ConsumerDies PROVE Placed'
  BY <1>22 DEF ConsumerDies
<1>23. ASSUME SnapshotReads PROVE Placed'
  BY <1>23 DEF SnapshotReads
<1>24. ASSUME SnapshotStamps PROVE Placed'
  BY <1>24 DEF SnapshotStamps
<1>25. ASSUME SnapshotApplies PROVE Placed'
  BY <1>25 DEF SnapshotApplies
<1>26. ASSUME NEW t \in Threads, UnloadRefused(t) PROVE Placed'
  BY <1>26 DEF UnloadRefused
<1>27. ASSUME NEW t \in Threads, UnloadAnnounces(t) PROVE Placed'
  BY <1>27 DEF UnloadAnnounces
<1>28. ASSUME NEW m \in Modules, Exits(m) PROVE Placed'
  BY <1>28 DEF Exits
<1>29. ASSUME NEW t \in Threads, LoadTakesExit(t) PROVE Placed'
  BY <1>29 DEF LoadTakesExit
<1>30. ASSUME NEW t \in Threads, SinkCleared(t) PROVE Placed'
  BY <1>30 DEF SinkCleared
<1>31. ASSUME Finished PROVE Placed'
  BY <1>31 DEF Finished, vars
<1>32. CASE UNCHANGED vars
  BY <1>32 DEF vars
<1> QED
  BY <1>1, <1>2, <1>3, <1>4, <1>5, <1>6, <1>7, <1>8, <1>9, <1>10, <1>11,
     <1>12, <1>13, <1>14, <1>15, <1>16, <1>17, <1>18, <1>19, <1>20, <1>21,
     <1>22, <1>23, <1>24, <1>25, <1>26, <1>27, <1>28, <1>29, <1>30,
     <1>31, <1>32
  DEF Next, ThreadStep

-----------------------------------------------------------------------------
(* Readiness.                                                              *)

Readiness == Watched /\ ReadyMeansPublished

\* markPublished and its like change one field of one entry.
LEMMA EntryMarked ==
    ASSUME NEW f \in [Modules -> Entries], NEW c \in Modules, NEW v, NEW g,
           g = [f EXCEPT ![c].published = v]
    PROVE  /\ \A x \in Modules :
                 /\ g[x].loaded = f[x].loaded /\ g[x].epoch = f[x].epoch
                 /\ x # c => g[x] = f[x]
           /\ g[c].published = v
<1>1. f[c] \in Entries /\ g[c] = [f[c] EXCEPT !.published = v]
  OBVIOUS
<1>2. g[c].loaded = f[c].loaded /\ g[c].epoch = f[c].epoch /\ g[c].published = v
  BY <1>1 DEF Entries
<1>3. \A x \in Modules : x # c => g[x] = f[x]
  OBVIOUS
<1> QED
  BY <1>2, <1>3

\* What touches neither entries, objects nor watches.
LEMMA WatchedKept ==
    ASSUME Readiness, UNCHANGED <<reg, objUp, watches, outlived>>
    PROVE  Readiness'
  BY DEF Readiness, Watched, ReadyMeansPublished

\* No step fires a watch of the present epoch without its object, and only such a
\* watch marks an entry published.
LEMMA ReadinessStep == TypeOK /\ Placed /\ Readiness /\ [Next]_vars => Readiness'
<1> SUFFICES ASSUME TypeOK, Placed, Readiness, [Next]_vars
             PROVE  Readiness'
  OBVIOUS
<1> USE FeedAssumption
<1> USE DEF threadVars, obsVars, consVars, bounds, Goto, MarkUnloaded,
            FleetOperation
<1>1. ASSUME NEW t \in Threads, NEW m \in Modules, LoadBegins(t, m) PROVE Readiness'
  BY <1>1, WatchedKept DEF LoadBegins
<1>2. ASSUME NEW t \in Threads, NEW m \in Modules, UnloadBegins(t, m) PROVE Readiness'
  BY <1>2, WatchedKept DEF UnloadBegins
<1>3. ASSUME NEW t \in Threads, LoadCommits(t) PROVE Readiness'
  <2>1. cur[t] \in Modules
    BY <1>3 DEF LoadCommits, Placed
  <2>2. /\ \A x \in Modules \ {cur[t]} : reg'[x] = reg[x] /\ objUp'[x] = objUp[x]
        /\ reg'[cur[t]].published = "unknown" /\ reg'[cur[t]].epoch = reg[cur[t]].epoch + 1
    BY <1>3, <2>1 DEF LoadCommits, TypeOK
  <2>3. UNCHANGED <<watches, outlived>>
    BY <1>3 DEF LoadCommits
  <2>4. Watched'
    <3> SUFFICES ASSUME NEW w \in watches, w.mod \notin outlived
                 PROVE  /\ w.epoch <= reg'[w.mod].epoch
                        /\ w.epoch = reg'[w.mod].epoch /\ reg'[w.mod].loaded /\ w.fired => objUp'[w.mod]
      BY <2>3 DEF Watched
    <3>1. w.mod \in Modules /\ w.epoch \in Nat /\ reg[w.mod].epoch \in Nat
      BY DEF TypeOK, Watches, Entries
    <3>2. w.epoch <= reg[w.mod].epoch
      BY DEF Readiness, Watched
    <3> QED
      BY <2>2, <3>1, <3>2 DEF Readiness, Watched
  <2>5. ReadyMeansPublished'
    BY <2>2, <2>3 DEF Readiness, ReadyMeansPublished
  <2> QED
    BY <2>4, <2>5 DEF Readiness
<1>4. ASSUME NEW t \in Threads, LoadFails(t) PROVE Readiness'
  BY <1>4, WatchedKept DEF LoadFails
<1>5. ASSUME NEW t \in Threads, LoadRecords(t) PROVE Readiness'
  BY <1>5, WatchedKept DEF LoadRecords
<1>6. ASSUME NEW t \in Threads, ArmWatch(t) PROVE Readiness'
  <2>1. cur[t] \in Modules
    BY <1>6 DEF ArmWatch, Placed
  <2>2. \A x \in Modules : /\ reg'[x].loaded = reg[x].loaded /\ reg'[x].epoch = reg[x].epoch
                           /\ reg'[x].published = "yes" => reg[x].published = "yes"
    <3>1. PICK v : reg' = reg \/ (v # "yes" /\ reg' = [reg EXCEPT ![cur[t]].published = v])
                   \/ (v = reg[cur[t]].published /\ reg' = [reg EXCEPT ![cur[t]].published = v])
      BY <1>6 DEF ArmWatch
    <3>2. reg \in [Modules -> Entries]
      BY DEF TypeOK
    <3>3. CASE reg' = reg
      BY <3>3
    <3>4. CASE reg' = [reg EXCEPT ![cur[t]].published = v]
      <4>1. /\ \A x \in Modules : /\ reg'[x].loaded = reg[x].loaded /\ reg'[x].epoch = reg[x].epoch
                                  /\ x # cur[t] => reg'[x] = reg[x]
            /\ reg'[cur[t]].published = v
        BY <2>1, <3>2, <3>4, EntryMarked
      <4> QED
        BY <3>1, <4>1
    <3> QED
      BY <3>1, <3>3, <3>4
  <2>3. UNCHANGED <<objUp, outlived>>
    BY <1>6 DEF ArmWatch
  <2>4. Watched'
    <3> SUFFICES ASSUME NEW w \in watches', w.mod \notin outlived
                 PROVE  /\ w.epoch <= reg[w.mod].epoch
                        /\ w.epoch = reg[w.mod].epoch /\ reg[w.mod].loaded /\ w.fired => objUp[w.mod]
      <4>1. \A w \in watches' : w.mod \in Modules
        BY <1>6, <2>1 DEF ArmWatch, TypeOK, Watches
      <4> QED
        BY <2>2, <2>3, <4>1 DEF Watched
    <3>1. CASE w \in watches
      BY <3>1 DEF Readiness, Watched
    <3>2. CASE w \notin watches
      <4>1. w = [mod |-> cur[t], epoch |-> reg[cur[t]].epoch, fired |-> objUp[cur[t]]]
        BY <1>6, <3>2 DEF ArmWatch
      <4>2. reg[cur[t]].epoch \in Nat
        BY <2>1 DEF TypeOK, Entries
      <4> QED
        BY <4>1, <4>2
    <3> QED
      BY <3>1, <3>2
  <2>5. ReadyMeansPublished'
    BY <2>2, <2>3 DEF Readiness, ReadyMeansPublished
  <2> QED
    BY <2>4, <2>5 DEF Readiness
<1>7. ASSUME NEW t \in Threads, UnloadMarks(t) PROVE Readiness'
  <2>1. cur[t] \in Modules
    BY <1>7 DEF UnloadMarks, Placed
  <2>2. /\ \A x \in Modules \ {cur[t]} : reg'[x] = reg[x] /\ objUp'[x] = objUp[x]
        /\ ~reg'[cur[t]].loaded /\ reg'[cur[t]].epoch = reg[cur[t]].epoch
    BY <1>7, <2>1 DEF UnloadMarks, TypeOK
  <2>3. UNCHANGED <<watches, outlived>>
    BY <1>7 DEF UnloadMarks
  <2>4. Watched'
    BY <2>2, <2>3 DEF Readiness, Watched, TypeOK, Watches
  <2>5. ReadyMeansPublished'
    BY <2>2, <2>3 DEF Readiness, ReadyMeansPublished
  <2> QED
    BY <2>4, <2>5 DEF Readiness
<1>8. ASSUME NEW t \in Threads, UnloadRecords(t) PROVE Readiness'
  BY <1>8, WatchedKept DEF UnloadRecords
<1>9. ASSUME NEW t \in Threads, FlushTakes(t) PROVE Readiness'
  BY <1>9, WatchedKept DEF FlushTakes
<1>10. ASSUME NEW t \in Threads, FlushEmpty(t) PROVE Readiness'
  BY <1>10, WatchedKept DEF FlushEmpty
<1>11. ASSUME NEW t \in Threads, FlushDispatches(t) PROVE Readiness'
  BY <1>11, WatchedKept DEF FlushDispatches
<1>12. ASSUME NEW m \in Modules, Publishes(m) PROVE Readiness'
  <2>1. objUp'[m] /\ \A x \in Modules : objUp[x] => objUp'[x]
    BY <1>12 DEF Publishes, TypeOK
  <2>2. UNCHANGED <<reg, outlived>>
    BY <1>12 DEF Publishes
  <2>3. ASSUME NEW v \in watches'
        PROVE  \E w \in watches : v.mod = w.mod /\ v.epoch = w.epoch /\ (v.fired => w.fired \/ w.mod = m)
    <3>1. PICK w \in watches : v = [w EXCEPT !.fired = @ \/ w.mod = m]
      BY <1>12, <2>3 DEF Publishes
    <3>2. w \in Watches
      BY DEF TypeOK
    <3> QED
      BY <3>1, <3>2 DEF Watches
  <2>4. Watched'
    <3> SUFFICES ASSUME NEW v \in watches', v.mod \notin outlived
                 PROVE  /\ v.epoch <= reg[v.mod].epoch
                        /\ v.epoch = reg[v.mod].epoch /\ reg[v.mod].loaded /\ v.fired => objUp'[v.mod]
      BY <2>2 DEF Watched
    <3>1. PICK w \in watches : v.mod = w.mod /\ v.epoch = w.epoch /\ (v.fired => w.fired \/ w.mod = m)
      BY <2>3
    <3>2. w.mod \in Modules
      BY DEF TypeOK, Watches
    <3> QED
      BY <2>1, <3>1, <3>2 DEF Readiness, Watched
  <2>5. ReadyMeansPublished'
    BY <2>1, <2>2 DEF Readiness, ReadyMeansPublished
  <2> QED
    BY <2>4, <2>5 DEF Readiness
<1>13. ASSUME Crashes PROVE Readiness'
  <2>1. cur[Asio] \in Modules
    BY <1>13 DEF Crashes, Placed
  <2>2. /\ \A x \in Modules \ {cur[Asio]} : reg'[x] = reg[x] /\ objUp'[x] = objUp[x]
        /\ ~reg'[cur[Asio]].loaded /\ reg'[cur[Asio]].epoch = reg[cur[Asio]].epoch
    BY <1>13, <2>1 DEF Crashes, TypeOK
  <2>3. UNCHANGED <<watches, outlived>>
    BY <1>13 DEF Crashes
  <2>4. Watched'
    BY <2>2, <2>3 DEF Readiness, Watched, TypeOK, Watches
  <2>5. ReadyMeansPublished'
    BY <2>2, <2>3 DEF Readiness, ReadyMeansPublished
  <2> QED
    BY <2>4, <2>5 DEF Readiness
<1>14. ASSUME CrashRecords PROVE Readiness'
  BY <1>14, WatchedKept DEF CrashRecords
<1>15. ASSUME NEW w \in watches, WatchRuns(w) PROVE Readiness'
  <2>1. w.mod \in Modules
    BY DEF TypeOK, Watches
  <2>2. \A x \in Modules : reg'[x].loaded = reg[x].loaded /\ reg'[x].epoch = reg[x].epoch
    <3>1. reg' = reg \/ reg' = [reg EXCEPT ![w.mod].published = "yes"]
      BY <1>15 DEF WatchRuns
    <3>2. reg \in [Modules -> Entries]
      BY DEF TypeOK
    <3>3. CASE reg' = [reg EXCEPT ![w.mod].published = "yes"]
      BY <2>1, <3>2, <3>3, EntryMarked
    <3> QED
      BY <3>1, <3>3
  <2>3. UNCHANGED <<objUp, outlived>> /\ watches' \subseteq watches
    BY <1>15 DEF WatchRuns
  <2>4. Watched'
    <3>1. \A v \in watches' : v.mod \in Modules
      BY <2>3 DEF TypeOK, Watches
    <3> QED
      BY <2>2, <2>3, <3>1 DEF Readiness, Watched
  <2>5. ReadyMeansPublished'
    <3>1. CASE MarksPublished(w)
      <4>1. w.fired /\ w.epoch = reg[w.mod].epoch /\ reg[w.mod].loaded
        BY <1>15, <3>1 DEF WatchRuns, MarksPublished
      <4>2. w.mod \notin outlived => objUp[w.mod]
        BY <4>1 DEF Readiness, Watched
      <4>3. \A x \in Modules \ {w.mod} : reg'[x] = reg[x]
        BY <1>15, <3>1 DEF WatchRuns, TypeOK
      <4> QED
        BY <2>3, <4>2, <4>3 DEF Readiness, ReadyMeansPublished
    <3>2. CASE ~MarksPublished(w)
      BY <1>15, <2>3, <3>2 DEF WatchRuns, Readiness, ReadyMeansPublished
    <3> QED
      BY <3>1, <3>2
  <2> QED
    BY <2>4, <2>5 DEF Readiness
<1>16. ASSUME OwnerSends PROVE Readiness'
  BY <1>16, WatchedKept DEF OwnerSends
<1>17. ASSUME TerminateAll PROVE Readiness'
  <2>1. \A x \in Modules : ~reg'[x].loaded /\ reg'[x].epoch = reg[x].epoch
    BY <1>17 DEF TerminateAll, TypeOK, Entries
  <2>2. UNCHANGED <<watches, outlived>>
    BY <1>17 DEF TerminateAll
  <2> QED
    BY <2>1, <2>2 DEF Readiness, Watched, ReadyMeansPublished, TypeOK, Watches
<1>18. ASSUME ClearAndDiscover PROVE Readiness'
  <2>1. \A x \in Modules : ~reg'[x].loaded
    BY <1>18 DEF ClearAndDiscover, Down
  <2>2. \A w \in watches' : w.mod \in outlived'
    BY <1>18 DEF ClearAndDiscover
  <2> QED
    BY <2>1, <2>2 DEF Readiness, Watched, ReadyMeansPublished
<1>19. ASSUME NEW t \in Threads, ConsumerLoads(t) PROVE Readiness'
  BY <1>19, WatchedKept DEF ConsumerLoads
<1>20. ASSUME NEW t \in Threads, ConsumerUnloads(t) PROVE Readiness'
  BY <1>20, WatchedKept DEF ConsumerUnloads
<1>21. ASSUME ConsumerPublishes PROVE Readiness'
  BY <1>21, WatchedKept DEF ConsumerPublishes
<1>22. ASSUME ConsumerDies PROVE Readiness'
  BY <1>22, WatchedKept DEF ConsumerDies
<1>23. ASSUME SnapshotReads PROVE Readiness'
  BY <1>23, WatchedKept DEF SnapshotReads
<1>24. ASSUME SnapshotStamps PROVE Readiness'
  BY <1>24, WatchedKept DEF SnapshotStamps
<1>25. ASSUME SnapshotApplies PROVE Readiness'
  BY <1>25, WatchedKept DEF SnapshotApplies
<1>26. ASSUME NEW t \in Threads, UnloadRefused(t) PROVE Readiness'
  BY <1>26, WatchedKept DEF UnloadRefused
<1>27. ASSUME NEW t \in Threads, UnloadAnnounces(t) PROVE Readiness'
  BY <1>27, WatchedKept DEF UnloadAnnounces
<1>28. ASSUME NEW m \in Modules, Exits(m) PROVE Readiness'
  BY <1>28, WatchedKept DEF Exits
<1>29. ASSUME NEW t \in Threads, LoadTakesExit(t) PROVE Readiness'
  <2>1. cur[t] \in Modules
    BY <1>29 DEF LoadTakesExit, Placed
  <2>2. /\ \A x \in Modules \ {cur[t]} : reg'[x] = reg[x] /\ objUp'[x] = objUp[x]
        /\ ~reg'[cur[t]].loaded /\ reg'[cur[t]].epoch = reg[cur[t]].epoch
    BY <1>29, <2>1 DEF LoadTakesExit, TypeOK
  <2>3. UNCHANGED <<watches, outlived>>
    BY <1>29 DEF LoadTakesExit
  <2>4. Watched'
    BY <2>2, <2>3 DEF Readiness, Watched, TypeOK, Watches
  <2>5. ReadyMeansPublished'
    BY <2>2, <2>3 DEF Readiness, ReadyMeansPublished
  <2> QED
    BY <2>4, <2>5 DEF Readiness
<1>30. ASSUME NEW t \in Threads, SinkCleared(t) PROVE Readiness'
  BY <1>30, WatchedKept DEF SinkCleared
<1>31. ASSUME Finished PROVE Readiness'
  BY <1>31, WatchedKept DEF Finished, vars
<1>32. CASE UNCHANGED vars
  BY <1>32, WatchedKept DEF vars
<1> QED
  BY <1>1, <1>2, <1>3, <1>4, <1>5, <1>6, <1>7, <1>8, <1>9, <1>10, <1>11,
     <1>12, <1>13, <1>14, <1>15, <1>16, <1>17, <1>18, <1>19, <1>20, <1>21,
     <1>22, <1>23, <1>24, <1>25, <1>26, <1>27, <1>28, <1>29, <1>30,
     <1>31, <1>32
  DEF Next, ThreadStep

-----------------------------------------------------------------------------
(* Flushes.                                                                *)

\* Whoever records has its flush still before it.
LEMMA FlushingStep == TypeOK /\ Flushing /\ [Next]_vars => Flushing'
<1> SUFFICES ASSUME TypeOK, Flushing, [Next]_vars
             PROVE  Flushing'
  OBVIOUS
<1> USE FeedAssumption
<1> USE DEF threadVars, obsVars, consVars, bounds, Goto, MarkUnloaded,
            FleetOperation
<1>1. ASSUME NEW t \in Threads, NEW m \in Modules, LoadBegins(t, m) PROVE Flushing'
  <2>1. t \in Threads /\ pc'[t] \notin {"idle", "dispatch", "stamp", "apply"}
    BY <1>1 DEF LoadBegins, TypeOK
  <2> QED
    BY <2>1 DEF Flushing
<1>2. ASSUME NEW t \in Threads, NEW m \in Modules, UnloadBegins(t, m) PROVE Flushing'
  <2>1. t \in Threads /\ pc'[t] \notin {"idle", "dispatch", "stamp", "apply"}
    BY <1>2 DEF UnloadBegins, TypeOK
  <2> QED
    BY <2>1 DEF Flushing
<1>3. ASSUME NEW t \in Threads, LoadCommits(t) PROVE Flushing'
  <2>1. t \in Threads /\ pc'[t] \notin {"idle", "dispatch", "stamp", "apply"}
    BY <1>3 DEF LoadCommits, TypeOK
  <2> QED
    BY <2>1 DEF Flushing
<1>4. ASSUME NEW t \in Threads, LoadFails(t) PROVE Flushing'
  <2>1. t \in Threads /\ pc'[t] \notin {"idle", "dispatch", "stamp", "apply"}
    BY <1>4 DEF LoadFails, TypeOK
  <2> QED
    BY <2>1 DEF Flushing
<1>5. ASSUME NEW t \in Threads, LoadRecords(t) PROVE Flushing'
  <2>1. t \in Threads /\ pc'[t] \notin {"idle", "dispatch", "stamp", "apply"}
    BY <1>5 DEF LoadRecords, TypeOK
  <2> QED
    BY <2>1 DEF Flushing
<1>6. ASSUME NEW t \in Threads, ArmWatch(t) PROVE Flushing'
  <2>1. t \in Threads /\ pc'[t] \notin {"idle", "dispatch", "stamp", "apply"}
    BY <1>6 DEF ArmWatch, TypeOK
  <2> QED
    BY <2>1 DEF Flushing
<1>7. ASSUME NEW t \in Threads, UnloadMarks(t) PROVE Flushing'
  <2>1. t \in Threads /\ pc'[t] \notin {"idle", "dispatch", "stamp", "apply"}
    BY <1>7 DEF UnloadMarks, TypeOK
  <2> QED
    BY <2>1 DEF Flushing
<1>8. ASSUME NEW t \in Threads, UnloadRecords(t) PROVE Flushing'
  <2>1. t \in Threads /\ pc'[t] \notin {"idle", "dispatch", "stamp", "apply"}
    BY <1>8 DEF UnloadRecords, TypeOK
  <2> QED
    BY <2>1 DEF Flushing
<1>9. ASSUME NEW t \in Threads, FlushTakes(t) PROVE Flushing'
  BY <1>9 DEF FlushTakes, Flushing
<1>10. ASSUME NEW t \in Threads, FlushEmpty(t) PROVE Flushing'
  BY <1>10 DEF FlushEmpty, Flushing
<1>11. ASSUME NEW t \in Threads, FlushDispatches(t) PROVE Flushing'
  <2>1. UNCHANGED <<sink, pending>>
    BY <1>11 DEF FlushDispatches
  <2>2. \A u \in Threads : pc[u] \notin {"idle", "dispatch", "stamp", "apply"} => pc'[u] = pc[u]
    BY <1>11 DEF FlushDispatches, TypeOK
  <2> QED
    BY <2>1, <2>2 DEF Flushing
<1>12. ASSUME NEW m \in Modules, Publishes(m) PROVE Flushing'
  <2>1. UNCHANGED <<sink, pending>>
    BY <1>12 DEF Publishes
  <2>2. \A u \in Threads : pc[u] \notin {"idle", "dispatch", "stamp", "apply"} => pc'[u] = pc[u]
    BY <1>12 DEF Publishes, TypeOK
  <2> QED
    BY <2>1, <2>2 DEF Flushing
<1>13. ASSUME Crashes PROVE Flushing'
  <2>1. Asio \in Threads /\ pc'[Asio] \notin {"idle", "dispatch", "stamp", "apply"}
    BY <1>13 DEF Crashes, TypeOK
  <2> QED
    BY <2>1 DEF Flushing
<1>14. ASSUME CrashRecords PROVE Flushing'
  <2>1. Asio \in Threads /\ pc'[Asio] \notin {"idle", "dispatch", "stamp", "apply"}
    BY <1>14 DEF CrashRecords, TypeOK
  <2> QED
    BY <2>1 DEF Flushing
<1>15. ASSUME NEW w \in watches, WatchRuns(w) PROVE Flushing'
  <2>1. CASE MarksPublished(w)
    <3>1. Owner \in Threads /\ pc'[Owner] = "flush"
      BY <1>15, <2>1 DEF WatchRuns, TypeOK
    <3> QED
      BY <3>1 DEF Flushing
  <2>2. CASE ~MarksPublished(w)
    BY <1>15, <2>2 DEF WatchRuns, Flushing
  <2> QED
    BY <2>1, <2>2
<1>16. ASSUME OwnerSends PROVE Flushing'
  <2>1. UNCHANGED <<sink, pending>>
    BY <1>16 DEF OwnerSends
  <2>2. \A u \in Threads : pc[u] \notin {"idle", "dispatch", "stamp", "apply"} => pc'[u] = pc[u]
    BY <1>16 DEF OwnerSends, TypeOK
  <2> QED
    BY <2>1, <2>2 DEF Flushing
<1>17. ASSUME TerminateAll PROVE Flushing'
  <2>1. UNCHANGED <<sink, pending>>
    BY <1>17 DEF TerminateAll
  <2>2. \A u \in Threads : pc[u] \notin {"idle", "dispatch", "stamp", "apply"} => pc'[u] = pc[u]
    BY <1>17 DEF TerminateAll, TypeOK
  <2> QED
    BY <2>1, <2>2 DEF Flushing
<1>18. ASSUME ClearAndDiscover PROVE Flushing'
  <2>1. UNCHANGED <<sink, pending>>
    BY <1>18 DEF ClearAndDiscover
  <2>2. \A u \in Threads : pc[u] \notin {"idle", "dispatch", "stamp", "apply"} => pc'[u] = pc[u]
    BY <1>18 DEF ClearAndDiscover, TypeOK
  <2> QED
    BY <2>1, <2>2 DEF Flushing
<1>19. ASSUME NEW t \in Threads, ConsumerLoads(t) PROVE Flushing'
  <2>1. t \in Threads /\ pc'[t] \notin {"idle", "dispatch", "stamp", "apply"}
    BY <1>19 DEF ConsumerLoads, TypeOK
  <2> QED
    BY <2>1 DEF Flushing
<1>20. ASSUME NEW t \in Threads, ConsumerUnloads(t) PROVE Flushing'
  <2>1. t \in Threads /\ pc'[t] \notin {"idle", "dispatch", "stamp", "apply"}
    BY <1>20 DEF ConsumerUnloads, TypeOK
  <2> QED
    BY <2>1 DEF Flushing
<1>21. ASSUME ConsumerPublishes PROVE Flushing'
  <2>1. UNCHANGED <<sink, pending>>
    BY <1>21 DEF ConsumerPublishes
  <2>2. \A u \in Threads : pc[u] \notin {"idle", "dispatch", "stamp", "apply"} => pc'[u] = pc[u]
    BY <1>21 DEF ConsumerPublishes, TypeOK
  <2> QED
    BY <2>1, <2>2 DEF Flushing
<1>22. ASSUME ConsumerDies PROVE Flushing'
  <2>1. Asio \in Threads /\ pc'[Asio] \notin {"idle", "dispatch", "stamp", "apply"}
    BY <1>22 DEF ConsumerDies, TypeOK
  <2> QED
    BY <2>1 DEF Flushing
<1>23. ASSUME SnapshotReads PROVE Flushing'
  <2>1. UNCHANGED <<sink, pending>>
    BY <1>23 DEF SnapshotReads
  <2>2. \A u \in Threads : pc[u] \notin {"idle", "dispatch", "stamp", "apply"} => pc'[u] = pc[u]
    BY <1>23 DEF SnapshotReads, TypeOK
  <2> QED
    BY <2>1, <2>2 DEF Flushing
<1>24. ASSUME SnapshotStamps PROVE Flushing'
  <2>1. UNCHANGED <<sink, pending>>
    BY <1>24 DEF SnapshotStamps
  <2>2. \A u \in Threads : pc[u] \notin {"idle", "dispatch", "stamp", "apply"} => pc'[u] = pc[u]
    BY <1>24 DEF SnapshotStamps, TypeOK
  <2> QED
    BY <2>1, <2>2 DEF Flushing
<1>25. ASSUME SnapshotApplies PROVE Flushing'
  <2>1. UNCHANGED <<sink, pending>>
    BY <1>25 DEF SnapshotApplies
  <2>2. \A u \in Threads : pc[u] \notin {"idle", "dispatch", "stamp", "apply"} => pc'[u] = pc[u]
    BY <1>25 DEF SnapshotApplies, TypeOK
  <2> QED
    BY <2>1, <2>2 DEF Flushing
<1>26. ASSUME NEW t \in Threads, UnloadRefused(t) PROVE Flushing'
  <2>1. t \in Threads /\ pc'[t] \notin {"idle", "dispatch", "stamp", "apply"}
    BY <1>26 DEF UnloadRefused, TypeOK
  <2> QED
    BY <2>1 DEF Flushing
<1>27. ASSUME NEW t \in Threads, UnloadAnnounces(t) PROVE Flushing'
  <2>1. t \in Threads /\ pc'[t] \notin {"idle", "dispatch", "stamp", "apply"}
    BY <1>27 DEF UnloadAnnounces, TypeOK
  <2> QED
    BY <2>1 DEF Flushing
<1>28. ASSUME NEW m \in Modules, Exits(m) PROVE Flushing'
  <2>1. Asio \in Threads /\ pc'[Asio] \notin {"idle", "dispatch", "stamp", "apply"}
    BY <1>28 DEF Exits, TypeOK
  <2> QED
    BY <2>1 DEF Flushing
<1>29. ASSUME NEW t \in Threads, LoadTakesExit(t) PROVE Flushing'
  <2>1. t \in Threads /\ pc'[t] \notin {"idle", "dispatch", "stamp", "apply"}
    BY <1>29 DEF LoadTakesExit, TypeOK
  <2> QED
    BY <2>1 DEF Flushing
<1>30. ASSUME NEW t \in Threads, SinkCleared(t) PROVE Flushing'
  <2>1. t \in Threads /\ pc'[t] \notin {"idle", "dispatch", "stamp", "apply"}
    BY <1>30 DEF SinkCleared, TypeOK
  <2> QED
    BY <2>1 DEF Flushing
<1>31. ASSUME Finished PROVE Flushing'
  <2>1. UNCHANGED <<sink, pending>>
    BY <1>31 DEF Finished, vars
  <2>2. \A u \in Threads : pc[u] \notin {"idle", "dispatch", "stamp", "apply"} => pc'[u] = pc[u]
    BY <1>31 DEF Finished, vars, TypeOK
  <2> QED
    BY <2>1, <2>2 DEF Flushing
<1>32. CASE UNCHANGED vars
  <2>1. UNCHANGED <<sink, pending>>
    BY <1>32 DEF vars
  <2>2. \A u \in Threads : pc[u] \notin {"idle", "dispatch", "stamp", "apply"} => pc'[u] = pc[u]
    BY <1>32 DEF vars, TypeOK
  <2> QED
    BY <2>1, <2>2 DEF Flushing
<1> QED
  BY <1>1, <1>2, <1>3, <1>4, <1>5, <1>6, <1>7, <1>8, <1>9, <1>10, <1>11,
     <1>12, <1>13, <1>14, <1>15, <1>16, <1>17, <1>18, <1>19, <1>20, <1>21,
     <1>22, <1>23, <1>24, <1>25, <1>26, <1>27, <1>28, <1>29, <1>30,
     <1>31, <1>32
  DEF Next, ThreadStep

\* enableModulesStateFeed sets the sink and arms the snapshot in one step.
LEMMA ListeningStep == TypeOK /\ Listening /\ [Next]_vars => Listening'
<1> SUFFICES ASSUME TypeOK, Listening, [Next]_vars
             PROVE  Listening'
  OBVIOUS
<1> USE FeedAssumption
<1> USE DEF threadVars, obsVars, consVars, bounds, Goto, MarkUnloaded,
            FleetOperation, Listening, TypeOK, Record, Disabling
<1>1. ASSUME NEW t \in Threads, NEW m \in Modules, LoadBegins(t, m) PROVE Listening'
  BY <1>1 DEF LoadBegins
<1>2. ASSUME NEW t \in Threads, NEW m \in Modules, UnloadBegins(t, m) PROVE Listening'
  BY <1>2 DEF UnloadBegins
<1>3. ASSUME NEW t \in Threads, LoadCommits(t) PROVE Listening'
  BY <1>3 DEF LoadCommits
<1>4. ASSUME NEW t \in Threads, LoadFails(t) PROVE Listening'
  BY <1>4 DEF LoadFails
<1>5. ASSUME NEW t \in Threads, LoadRecords(t) PROVE Listening'
  BY <1>5 DEF LoadRecords
<1>6. ASSUME NEW t \in Threads, ArmWatch(t) PROVE Listening'
  BY <1>6 DEF ArmWatch
<1>7. ASSUME NEW t \in Threads, UnloadMarks(t) PROVE Listening'
  BY <1>7 DEF UnloadMarks
<1>8. ASSUME NEW t \in Threads, UnloadRecords(t) PROVE Listening'
  BY <1>8 DEF UnloadRecords
<1>9. ASSUME NEW t \in Threads, FlushTakes(t) PROVE Listening'
  BY <1>9 DEF FlushTakes
<1>10. ASSUME NEW t \in Threads, FlushEmpty(t) PROVE Listening'
  BY <1>10 DEF FlushEmpty
<1>11. ASSUME NEW t \in Threads, FlushDispatches(t) PROVE Listening'
  BY <1>11 DEF FlushDispatches
<1>12. ASSUME NEW m \in Modules, Publishes(m) PROVE Listening'
  BY <1>12 DEF Publishes
<1>13. ASSUME Crashes PROVE Listening'
  BY <1>13 DEF Crashes
<1>14. ASSUME CrashRecords PROVE Listening'
  BY <1>14 DEF CrashRecords
<1>15. ASSUME NEW w \in watches, WatchRuns(w) PROVE Listening'
  BY <1>15 DEF WatchRuns
<1>16. ASSUME OwnerSends PROVE Listening'
  BY <1>16 DEF OwnerSends
<1>17. ASSUME TerminateAll PROVE Listening'
  BY <1>17 DEF TerminateAll
<1>18. ASSUME ClearAndDiscover PROVE Listening'
  BY <1>18 DEF ClearAndDiscover
<1>19. ASSUME NEW t \in Threads, ConsumerLoads(t) PROVE Listening'
  BY <1>19 DEF ConsumerLoads
<1>20. ASSUME NEW t \in Threads, ConsumerUnloads(t) PROVE Listening'
  BY <1>20 DEF ConsumerUnloads
<1>21. ASSUME ConsumerPublishes PROVE Listening'
  BY <1>21 DEF ConsumerPublishes
<1>22. ASSUME ConsumerDies PROVE Listening'
  BY <1>22 DEF ConsumerDies
<1>23. ASSUME SnapshotReads PROVE Listening'
  BY <1>23 DEF SnapshotReads
<1>24. ASSUME SnapshotStamps PROVE Listening'
  BY <1>24 DEF SnapshotStamps
<1>25. ASSUME SnapshotApplies PROVE Listening'
  BY <1>25 DEF SnapshotApplies
<1>26. ASSUME NEW t \in Threads, UnloadRefused(t) PROVE Listening'
  BY <1>26 DEF UnloadRefused
<1>27. ASSUME NEW t \in Threads, UnloadAnnounces(t) PROVE Listening'
  BY <1>27 DEF UnloadAnnounces
<1>28. ASSUME NEW m \in Modules, Exits(m) PROVE Listening'
  BY <1>28 DEF Exits
<1>29. ASSUME NEW t \in Threads, LoadTakesExit(t) PROVE Listening'
  BY <1>29 DEF LoadTakesExit
<1>30. ASSUME NEW t \in Threads, SinkCleared(t) PROVE Listening'
  BY <1>30 DEF SinkCleared
<1>31. ASSUME Finished PROVE Listening'
  BY <1>31 DEF Finished, vars
<1>32. CASE UNCHANGED vars
  BY <1>32 DEF vars
<1> QED
  BY <1>1, <1>2, <1>3, <1>4, <1>5, <1>6, <1>7, <1>8, <1>9, <1>10, <1>11,
     <1>12, <1>13, <1>14, <1>15, <1>16, <1>17, <1>18, <1>19, <1>20, <1>21,
     <1>22, <1>23, <1>24, <1>25, <1>26, <1>27, <1>28, <1>29, <1>30,
     <1>31, <1>32
  DEF Next, ThreadStep

-----------------------------------------------------------------------------
(* Records under way.                                                      *)

\* A seq drawn from the counter is newer than every record under way.
LEMMA StaysCurrent ==
    ASSUME TypeOK, Stamped, NEW x \in Modules, last'[x] = last[x] \/ last'[x].seq = seq + 1,
           NEW n \in Nat, NEW v, n <= last[x].seq, n = last[x].seq => v = last[x].state
    PROVE  n <= last'[x].seq /\ (n = last'[x].seq => v = last'[x].state)
<1>1. last[x].seq \in Nat /\ seq \in Nat /\ last[x].seq <= seq
  BY DEF TypeOK, Records, Stamped
<1> QED
  BY <1>1

\* What stamps nothing, delivers nothing and moves no batch.
LEMMA StampedKept ==
    ASSUME Stamped, UNCHANGED <<seq, last, pending, batch, posted, store, snap>>,
           pc'[Owner] = "apply" => pc[Owner] = "apply"
    PROVE  Stamped'
  BY DEF Stamped, AllCurrent, Current

\* The same for where the last records are.
LEMMA UnderwayKept ==
    ASSUME Underway, UNCHANGED <<last, pending, batch, posted, store, snap>>,
           consumer' = "ready" /\ ~snapArmed' => consumer = "ready" /\ ~snapArmed,
           pc[Owner] \in {"stamp", "apply"} => pc'[Owner] = pc[Owner]
    PROVE  Underway'
  BY DEF Underway, Located, Carried, Carries

\* record keeps the record under way current ...
LEMMA RecordStamped ==
    ASSUME TypeOK, Stamped, NEW m \in Modules, NEW s \in States, Record(m, s),
           UNCHANGED <<batch, posted, store, snap>>,
           pc'[Owner] = "apply" => pc[Owner] = "apply"
    PROVE  Stamped'
<1>1. CASE ~sink
  BY <1>1, StampedKept DEF Record, obsVars
<1>2. CASE sink
  <2>n. PICK n : n = Len(pending) + 1
    OBVIOUS
  <2>y. PICK y : y = [mod |-> m, state |-> s, seq |-> seq + 1]
    OBVIOUS
  <2>1. seq \in Nat /\ pending \in Seq(Events) /\ last \in [Modules -> Records]
    BY DEF TypeOK
  <2>2. /\ y \in Events /\ y.mod = m /\ y.seq = seq + 1 /\ y.state = s
    BY <2>1, <2>y DEF Events
  <2>3. pending' = Append(pending, y) /\ seq' = seq + 1
    BY <1>2, <2>y DEF Record
  <2>4. DOMAIN pending' = DOMAIN pending \cup {n} /\ pending'[n] = y
        /\ \A i \in DOMAIN pending : pending'[i] = pending[i]
    BY <2>1, <2>2, <2>3, <2>n, AppendEnds
  <2>5. /\ last'[m].seq = seq + 1 /\ last'[m].state = s
        /\ \A x \in Modules \ {m} : last'[x] = last[x]
    BY <1>2, <2>1 DEF Record
  <2>6. \A x \in Modules : last'[x] = last[x] \/ last'[x].seq = seq + 1
    BY <2>5
  <2>7. \A x \in Modules : last'[x].seq <= seq' /\ Current(x, NoRecord)' /\ Current(x, store[x])'
    <3>1. ASSUME NEW x \in Modules PROVE last'[x].seq <= seq'
      <4>1. last[x].seq <= seq /\ last[x].seq \in Nat
        BY <2>1 DEF Stamped, Records
      <4> QED
        BY <2>1, <2>3, <2>5, <4>1
    <3>2. ASSUME NEW x \in Modules PROVE Current(x, NoRecord)'
      <4>1. NoRecord.seq \in Nat /\ Current(x, NoRecord)
        BY DEF NoRecord, Stamped
      <4> QED
        BY <2>6, <4>1, StaysCurrent DEF Current
    <3>3. ASSUME NEW x \in Modules PROVE Current(x, store[x])'
      <4>1. store[x].seq \in Nat /\ Current(x, store[x])
        BY DEF TypeOK, Records, Stamped
      <4> QED
        BY <2>6, <4>1, StaysCurrent DEF Current
    <3> QED
      BY <3>1, <3>2, <3>3
  <2>8. ASSUME pc'[Owner] = "apply", NEW x \in Modules PROVE Current(x, snap[x])'
    <3>1. snap[x].seq \in Nat /\ Current(x, snap[x])
      BY <2>8 DEF TypeOK, Records, Stamped
    <3> QED
      BY <2>6, <3>1, StaysCurrent DEF Current
  <2>9. AllCurrent(pending)'
    <3> SUFFICES ASSUME NEW i \in DOMAIN pending'
                 PROVE  /\ pending'[i].seq <= last'[pending'[i].mod].seq
                        /\ pending'[i].seq = last'[pending'[i].mod].seq =>
                              pending'[i].state = last'[pending'[i].mod].state
      BY DEF AllCurrent, Current
    <3>1. CASE i = n
      BY <2>1, <2>2, <2>4, <2>5, <3>1
    <3>2. CASE i \in DOMAIN pending
      <4>1. pending[i].seq \in Nat /\ pending[i].mod \in Modules /\ Current(pending[i].mod, pending[i])
        BY <2>1, <3>2, BatchTyped DEF Stamped, AllCurrent
      <4> QED
        BY <2>4, <2>6, <3>2, <4>1, StaysCurrent DEF Current
    <3> QED
      BY <2>4, <3>1, <3>2
  <2>10. ASSUME NEW t \in Threads PROVE AllCurrent(batch[t])'
    <3> SUFFICES ASSUME NEW i \in DOMAIN batch[t]
                 PROVE  /\ batch[t][i].seq <= last'[batch[t][i].mod].seq
                        /\ batch[t][i].seq = last'[batch[t][i].mod].seq =>
                              batch[t][i].state = last'[batch[t][i].mod].state
      BY DEF AllCurrent, Current
    <3>1. batch[t] \in Seq(Events)
      BY DEF TypeOK
    <3>2. batch[t][i].seq \in Nat /\ batch[t][i].mod \in Modules
      BY <3>1, BatchTyped
    <3>3. Current(batch[t][i].mod, batch[t][i])
      BY DEF Stamped, AllCurrent
    <3> QED
      BY <2>6, <3>2, <3>3, StaysCurrent DEF Current
  <2>11. ASSUME NEW l \in DOMAIN posted PROVE AllCurrent(posted[l])'
    <3> SUFFICES ASSUME NEW i \in DOMAIN posted[l]
                 PROVE  /\ posted[l][i].seq <= last'[posted[l][i].mod].seq
                        /\ posted[l][i].seq = last'[posted[l][i].mod].seq =>
                              posted[l][i].state = last'[posted[l][i].mod].state
      BY DEF AllCurrent, Current
    <3>1. posted[l] \in Seq(Events)
      BY DEF TypeOK
    <3>2. posted[l][i].seq \in Nat /\ posted[l][i].mod \in Modules
      BY <3>1, BatchTyped
    <3>3. Current(posted[l][i].mod, posted[l][i])
      BY DEF Stamped, AllCurrent
    <3> QED
      BY <2>6, <3>2, <3>3, StaysCurrent DEF Current
  <2> QED
    BY <2>7, <2>8, <2>9, <2>10, <2>11 DEF Stamped
<1> QED
  BY <1>1, <1>2

\* ... and the new one is in the buffer.
LEMMA RecordUnderway ==
    ASSUME TypeOK, Underway, NEW m \in Modules, NEW s \in States, Record(m, s),
           UNCHANGED <<batch, posted, store, snap, consumer, snapArmed>>,
           pc[Owner] \in {"stamp", "apply"} => pc'[Owner] = pc[Owner]
    PROVE  Underway'
<1>1. CASE ~sink
  BY <1>1, UnderwayKept DEF Record, obsVars
<1>2. CASE sink
  <2>n. PICK n : n = Len(pending) + 1
    OBVIOUS
  <2>y. PICK y : y = [mod |-> m, state |-> s, seq |-> seq + 1]
    OBVIOUS
  <2>1. seq \in Nat /\ pending \in Seq(Events) /\ last \in [Modules -> Records]
    BY DEF TypeOK
  <2>2. y \in Events /\ y.mod = m /\ y.seq = seq + 1
    BY <2>1, <2>y DEF Events
  <2>3. pending' = Append(pending, y)
    BY <1>2, <2>y DEF Record
  <2>4. DOMAIN pending' = DOMAIN pending \cup {n} /\ pending'[n] = y
        /\ \A i \in DOMAIN pending : pending'[i] = pending[i]
    BY <2>1, <2>2, <2>3, <2>n, AppendEnds
  <2>5. last'[m].seq = seq + 1 /\ \A x \in Modules \ {m} : last'[x] = last[x]
    BY <1>2, <2>1 DEF Record
  <2> SUFFICES ASSUME consumer = "ready", ~snapArmed, NEW x \in Modules PROVE Located(x)'
    BY DEF Underway
  <2>6. CASE x = m
    BY <2>2, <2>4, <2>5, <2>6 DEF Located, Carried, Carries
  <2>7. CASE x # m
    <3>1. Located(x) /\ last'[x] = last[x]
      BY <2>5, <2>7 DEF Underway
    <3>2. Carries(pending, x) => Carries(pending, x)'
      BY <2>4, <3>1 DEF Carries
    <3>3. Carried(x) => Carried(x)'
      BY <3>1, <3>2 DEF Carried, Carries
    <3> QED
      BY <3>1, <3>3 DEF Located
  <2> QED
    BY <2>6, <2>7
<1> QED
  BY <1>1, <1>2

\* Whatever a step moves, nothing under way is newer than the last record stamped.
LEMMA StampedStep == TypeOK /\ Placed /\ Stamped /\ [Next]_vars => Stamped'
<1> SUFFICES ASSUME TypeOK, Placed, Stamped, [Next]_vars
             PROVE  Stamped'
  OBVIOUS
<1> USE FeedAssumption
<1> USE DEF threadVars, obsVars, consVars, bounds, Goto, MarkUnloaded,
            FleetOperation
<1>1. ASSUME NEW t \in Threads, NEW m \in Modules, LoadBegins(t, m) PROVE Stamped'
  <2>1. m \in Modules /\ "loading" \in States /\ Record(m, "loading")
    BY <1>1 DEF LoadBegins, Placed, States
  <2>2. pc'[Owner] = "apply" => pc[Owner] = "apply"
    BY <1>1 DEF LoadBegins, TypeOK
  <2> QED
    BY <1>1, <2>1, <2>2, RecordStamped DEF LoadBegins
<1>2. ASSUME NEW t \in Threads, NEW m \in Modules, UnloadBegins(t, m) PROVE Stamped'
  <2>1. m \in Modules /\ "stopping" \in States /\ Record(m, "stopping")
    BY <1>2 DEF UnloadBegins, Placed, States
  <2>2. pc'[Owner] = "apply" => pc[Owner] = "apply"
    BY <1>2 DEF UnloadBegins, TypeOK
  <2> QED
    BY <1>2, <2>1, <2>2, RecordStamped DEF UnloadBegins
<1>3. ASSUME NEW t \in Threads, LoadCommits(t) PROVE Stamped'
  BY <1>3, StampedKept DEF LoadCommits, TypeOK
<1>4. ASSUME NEW t \in Threads, LoadFails(t) PROVE Stamped'
  <2>1. cur[t] \in Modules /\ "error" \in States /\ Record(cur[t], "error")
    BY <1>4 DEF LoadFails, Placed, States
  <2>2. pc'[Owner] = "apply" => pc[Owner] = "apply"
    BY <1>4 DEF LoadFails, TypeOK
  <2> QED
    BY <1>4, <2>1, <2>2, RecordStamped DEF LoadFails
<1>5. ASSUME NEW t \in Threads, LoadRecords(t) PROVE Stamped'
  <2>1. cur[t] \in Modules /\ "loaded" \in States /\ Record(cur[t], "loaded")
    BY <1>5 DEF LoadRecords, Placed, States
  <2>2. pc'[Owner] = "apply" => pc[Owner] = "apply"
    BY <1>5 DEF LoadRecords, TypeOK
  <2> QED
    BY <1>5, <2>1, <2>2, RecordStamped DEF LoadRecords
<1>6. ASSUME NEW t \in Threads, ArmWatch(t) PROVE Stamped'
  BY <1>6, StampedKept DEF ArmWatch, TypeOK
<1>7. ASSUME NEW t \in Threads, UnloadMarks(t) PROVE Stamped'
  BY <1>7, StampedKept DEF UnloadMarks, TypeOK
<1>8. ASSUME NEW t \in Threads, UnloadRecords(t) PROVE Stamped'
  <2>1. cur[t] \in Modules /\ "unloaded" \in States
    BY <1>8 DEF UnloadRecords, Placed, States
  <2>2. pc'[Owner] = "apply" => pc[Owner] = "apply"
    BY <1>8 DEF UnloadRecords, TypeOK
  <2>3. CASE cur[t] \in expected
    BY <1>8, <2>1, <2>2, <2>3, RecordStamped DEF UnloadRecords
  <2>4. CASE cur[t] \notin expected
    BY <1>8, <2>2, <2>4, StampedKept DEF UnloadRecords
  <2> QED
    BY <2>3, <2>4
<1>9. ASSUME NEW t \in Threads, FlushTakes(t) PROVE Stamped'
  <2>1. batch'[t] = pending /\ \A u \in Threads \ {t} : batch'[u] = batch[u]
    BY <1>9 DEF FlushTakes, TypeOK
  <2>2. pending' = <<>> /\ UNCHANGED <<last, seq, store, snap, posted>>
    BY <1>9 DEF FlushTakes
  <2>3. pc'[Owner] = "apply" => pc[Owner] = "apply"
    BY <1>9 DEF FlushTakes, TypeOK
  <2>4. \A u \in Threads : AllCurrent(batch[u])'
    BY <2>1, <2>2 DEF Stamped, AllCurrent, Current
  <2>5. AllCurrent(pending)'
    BY <2>2 DEF AllCurrent
  <2>6. \A i \in DOMAIN posted' : AllCurrent(posted[i])'
    BY <2>2 DEF Stamped, AllCurrent, Current
  <2> QED
    BY <2>2, <2>3, <2>4, <2>5, <2>6 DEF Stamped, Current
<1>10. ASSUME NEW t \in Threads, FlushEmpty(t) PROVE Stamped'
  BY <1>10, StampedKept DEF FlushEmpty, TypeOK
<1>11. ASSUME NEW t \in Threads, FlushDispatches(t) PROVE Stamped'
  <2>1. batch[t] \in Seq(Events) /\ AllCurrent(batch[t])
    BY DEF TypeOK, Stamped
  <2>2. UNCHANGED <<last, seq, pending, snap>> /\ (pc'[Owner] = "apply" => pc[Owner] = "apply")
    BY <1>11 DEF FlushDispatches, TypeOK
  <2>3. \A u \in Threads : batch'[u] = <<>> \/ batch'[u] = batch[u]
    BY <1>11 DEF FlushDispatches, TypeOK
  <2>4. \A u \in Threads : AllCurrent(batch[u])'
    BY <2>2, <2>3 DEF Stamped, AllCurrent, Current
  <2>5. \A m \in Modules : Current(m, store[m])'
    <3>1. \A m \in Modules : store'[m] = store[m] \/ store'[m] = Applied(store, batch[t])[m]
      BY <1>11 DEF FlushDispatches, Deliver
    <3>2. \A m \in Modules : Current(m, Applied(store, batch[t])[m]) /\ Current(m, store[m])
      BY <2>1, AppliedKeepsNewest DEF Stamped
    <3> QED
      BY <2>2, <3>1, <3>2 DEF Current
  <2>6. \A i \in DOMAIN posted' : AllCurrent(posted[i])'
    <3>1. \A i \in DOMAIN posted' : posted'[i] = batch[t] \/ (i \in DOMAIN posted /\ posted'[i] = posted[i])
      <4>1. posted' = posted \/ posted' = Append(posted, batch[t])
        BY <1>11 DEF FlushDispatches
      <4>2. posted \in Seq(Seq(Events))
        BY DEF TypeOK
      <4> QED
        BY <4>1, <4>2
    <3> QED
      BY <2>1, <2>2, <3>1 DEF Stamped, AllCurrent, Current
  <2>7. AllCurrent(pending)'
    BY <2>2 DEF Stamped, AllCurrent, Current
  <2> QED
    BY <2>2, <2>4, <2>5, <2>6, <2>7 DEF Stamped, Current
<1>12. ASSUME NEW m \in Modules, Publishes(m) PROVE Stamped'
  BY <1>12, StampedKept DEF Publishes, TypeOK
<1>13. ASSUME Crashes PROVE Stamped'
  BY <1>13, StampedKept DEF Crashes, TypeOK
<1>14. ASSUME CrashRecords PROVE Stamped'
  <2>1. PICK v \in States : Record(cur[Asio], v)
    BY <1>14 DEF CrashRecords, States
  <2>3. cur[Asio] \in Modules
    BY <1>14 DEF CrashRecords, Placed
  <2>2. pc'[Owner] = "apply" => pc[Owner] = "apply"
    BY <1>14 DEF CrashRecords, TypeOK
  <2> QED
    BY <1>14, <2>1, <2>2, <2>3, RecordStamped DEF CrashRecords
<1>15. ASSUME NEW w \in watches, WatchRuns(w) PROVE Stamped'
  <2>1. w.mod \in Modules /\ "ready" \in States
    BY DEF TypeOK, States, Watches
  <2>2. pc'[Owner] = "apply" => pc[Owner] = "apply"
    BY <1>15 DEF WatchRuns, TypeOK
  <2>3. CASE MarksPublished(w)
    BY <1>15, <2>1, <2>2, <2>3, RecordStamped DEF WatchRuns
  <2>4. CASE ~MarksPublished(w)
    BY <1>15, <2>4, StampedKept DEF WatchRuns
  <2> QED
    BY <2>3, <2>4
<1>16. ASSUME OwnerSends PROVE Stamped'
  <2>1. /\ Head(posted) = posted[1] /\ 1 \in DOMAIN posted
        /\ \A i \in DOMAIN posted' : i + 1 \in DOMAIN posted /\ posted'[i] = posted[i + 1]
    <3>1. posted \in Seq(Seq(Events)) /\ posted # << >> /\ posted' = Tail(posted)
      BY <1>16 DEF OwnerSends, TypeOK
    <3> QED
      BY <3>1, TailShifts
  <2>2. Head(posted) \in Seq(Events) /\ AllCurrent(Head(posted))
    BY <2>1 DEF TypeOK, Stamped
  <2>3. UNCHANGED <<last, seq, pending, snap, batch, pc>>
    BY <1>16 DEF OwnerSends
  <2>4. \A m \in Modules : Current(m, store[m])'
    <3>1. \A m \in Modules : store'[m] = store[m] \/ store'[m] = Applied(store, Head(posted))[m]
      BY <1>16 DEF OwnerSends, Deliver
    <3>2. \A m \in Modules : Current(m, Applied(store, Head(posted))[m]) /\ Current(m, store[m])
      BY <2>2, AppliedKeepsNewest DEF Stamped
    <3> QED
      BY <2>3, <3>1, <3>2 DEF Current
  <2>5. \A i \in DOMAIN posted' : AllCurrent(posted[i])'
    BY <2>1, <2>3 DEF Stamped, AllCurrent, Current
  <2>6. AllCurrent(pending)' /\ \A u \in Threads : AllCurrent(batch[u])'
    BY <2>3 DEF Stamped, AllCurrent, Current
  <2> QED
    BY <2>3, <2>4, <2>5, <2>6 DEF Stamped, Current
<1>17. ASSUME TerminateAll PROVE Stamped'
  <2>1. UNCHANGED <<last, seq, pending, snap, batch, posted>> /\ store' = Empty
    BY <1>17 DEF TerminateAll
  <2>2. pc'[Owner] = "apply" => pc[Owner] = "apply"
    BY <1>17 DEF TerminateAll, TypeOK
  <2>3. \A m \in Modules : Current(m, store[m])'
    BY <2>1 DEF Stamped, Current, Empty
  <2>4. /\ AllCurrent(pending)' /\ \A u \in Threads : AllCurrent(batch[u])'
        /\ \A i \in DOMAIN posted' : AllCurrent(posted[i])'
    BY <2>1 DEF Stamped, AllCurrent, Current
  <2> QED
    BY <2>1, <2>2, <2>3, <2>4 DEF Stamped, Current
<1>18. ASSUME ClearAndDiscover PROVE Stamped'
  <2>1. UNCHANGED <<last, seq, pending, snap, batch, posted>> /\ store' = Empty
    BY <1>18 DEF ClearAndDiscover
  <2>2. pc'[Owner] = "apply" => pc[Owner] = "apply"
    BY <1>18 DEF ClearAndDiscover, TypeOK
  <2>3. \A m \in Modules : Current(m, store[m])'
    BY <2>1 DEF Stamped, Current, Empty
  <2>4. /\ AllCurrent(pending)' /\ \A u \in Threads : AllCurrent(batch[u])'
        /\ \A i \in DOMAIN posted' : AllCurrent(posted[i])'
    BY <2>1 DEF Stamped, AllCurrent, Current
  <2> QED
    BY <2>1, <2>2, <2>3, <2>4 DEF Stamped, Current
<1>19. ASSUME NEW t \in Threads, ConsumerLoads(t) PROVE Stamped'
  BY <1>19, StampedKept DEF ConsumerLoads, TypeOK
<1>20. ASSUME NEW t \in Threads, ConsumerUnloads(t) PROVE Stamped'
  <2>1. UNCHANGED <<last, seq, pending, snap, batch, posted>> /\ store' = Empty
    BY <1>20 DEF ConsumerUnloads
  <2>2. pc'[Owner] = "apply" => pc[Owner] = "apply"
    BY <1>20 DEF ConsumerUnloads, TypeOK
  <2>3. \A m \in Modules : Current(m, store[m])'
    BY <2>1 DEF Stamped, Current, Empty
  <2>4. /\ AllCurrent(pending)' /\ \A u \in Threads : AllCurrent(batch[u])'
        /\ \A i \in DOMAIN posted' : AllCurrent(posted[i])'
    BY <2>1 DEF Stamped, AllCurrent, Current
  <2> QED
    BY <2>1, <2>2, <2>3, <2>4 DEF Stamped, Current
<1>21. ASSUME ConsumerPublishes PROVE Stamped'
  BY <1>21, StampedKept DEF ConsumerPublishes, TypeOK
<1>22. ASSUME ConsumerDies PROVE Stamped'
  <2>1. UNCHANGED <<last, seq, pending, snap, batch, posted>> /\ store' = Empty
    BY <1>22 DEF ConsumerDies
  <2>2. pc'[Owner] = "apply" => pc[Owner] = "apply"
    BY <1>22 DEF ConsumerDies, TypeOK
  <2>3. \A m \in Modules : Current(m, store[m])'
    BY <2>1 DEF Stamped, Current, Empty
  <2>4. /\ AllCurrent(pending)' /\ \A u \in Threads : AllCurrent(batch[u])'
        /\ \A i \in DOMAIN posted' : AllCurrent(posted[i])'
    BY <2>1 DEF Stamped, AllCurrent, Current
  <2> QED
    BY <2>1, <2>2, <2>3, <2>4 DEF Stamped, Current
<1>23. ASSUME SnapshotReads PROVE Stamped'
  <2>1. UNCHANGED <<last, seq, pending, store, batch, posted>> /\ pc'[Owner] = "stamp"
    BY <1>23 DEF SnapshotReads, TypeOK
  <2>2. /\ AllCurrent(pending)' /\ \A u \in Threads : AllCurrent(batch[u])'
        /\ \A i \in DOMAIN posted' : AllCurrent(posted[i])'
    BY <2>1 DEF Stamped, AllCurrent, Current
  <2> QED
    BY <2>1, <2>2 DEF Stamped, Current
<1>24. ASSUME SnapshotStamps PROVE Stamped'
  <2>1. UNCHANGED <<pending, store, batch, posted>> /\ last' = snap' /\ seq' = seq + 1
    BY <1>24 DEF SnapshotStamps
  <2>2. \A x \in Modules : last'[x].seq = seq + 1
    BY <1>24 DEF SnapshotStamps, TypeOK, Records
  <2>3. seq \in Nat /\ \A x \in Modules : last[x].seq \in Nat /\ last[x].seq <= seq
    BY DEF TypeOK, Records, Stamped
  <2>4. \A x \in Modules, k \in Nat : k <= last[x].seq => k < last'[x].seq
    BY <2>2, <2>3
  <2>5. ASSUME NEW x \in Modules
        PROVE  last'[x].seq <= seq' /\ Current(x, NoRecord)' /\ Current(x, store[x])' /\ Current(x, snap[x])'
    <3>1. NoRecord.seq \in Nat /\ store[x].seq \in Nat /\ Current(x, NoRecord) /\ Current(x, store[x])
      BY DEF NoRecord, Stamped, TypeOK, Records
    <3> QED
      BY <2>1, <2>2, <2>3, <2>4, <3>1 DEF Current
  <2>6. AllCurrent(pending)'
    <3>1. pending \in Seq(Events)
      BY DEF TypeOK
    <3>2. \A i \in DOMAIN pending : pending[i].seq \in Nat /\ pending[i].mod \in Modules
      BY <3>1, BatchTyped
    <3> QED
      BY <2>1, <2>2, <2>3, <2>4, <3>2 DEF Stamped, AllCurrent, Current
  <2>7. \A u \in Threads : AllCurrent(batch[u])'
    <3>1. \A u \in Threads : batch[u] \in Seq(Events)
      BY DEF TypeOK
    <3>2. \A u \in Threads : \A i \in DOMAIN batch[u] :
              batch[u][i].seq \in Nat /\ batch[u][i].mod \in Modules
      BY <3>1, BatchTyped
    <3> QED
      BY <2>1, <2>2, <2>3, <2>4, <3>2 DEF Stamped, AllCurrent, Current
  <2>8. \A l \in DOMAIN posted : AllCurrent(posted[l])'
    <3>1. \A l \in DOMAIN posted : posted[l] \in Seq(Events)
      BY DEF TypeOK
    <3>2. \A l \in DOMAIN posted : \A i \in DOMAIN posted[l] :
              posted[l][i].seq \in Nat /\ posted[l][i].mod \in Modules
      BY <3>1, BatchTyped
    <3> QED
      BY <2>1, <2>2, <2>3, <2>4, <3>2 DEF Stamped, AllCurrent, Current
  <2> QED
    BY <2>1, <2>5, <2>6, <2>7, <2>8 DEF Stamped
<1>25. ASSUME SnapshotApplies PROVE Stamped'
  <2>1. UNCHANGED <<last, seq, pending, batch, posted>> /\ pc'[Owner] = "idle"
    BY <1>25 DEF SnapshotApplies, TypeOK
  <2>2. \A m \in Modules : Current(m, store[m]) /\ Current(m, snap[m])
    BY <1>25 DEF SnapshotApplies, Stamped
  <2>3. \A m \in Modules : store'[m] = store[m] \/ store'[m] = snap[m]
    BY <1>25 DEF SnapshotApplies
  <2>4. \A m \in Modules : Current(m, store[m])'
    BY <2>1, <2>2, <2>3 DEF Current
  <2>5. /\ AllCurrent(pending)' /\ \A u \in Threads : AllCurrent(batch[u])'
        /\ \A i \in DOMAIN posted' : AllCurrent(posted[i])'
    BY <2>1 DEF Stamped, AllCurrent, Current
  <2> QED
    BY <2>1, <2>4, <2>5 DEF Stamped, Current
<1>26. ASSUME NEW t \in Threads, UnloadRefused(t) PROVE Stamped'
  <2>1. cur[t] \in Modules /\ "loaded" \in States /\ Record(cur[t], "loaded")
    BY <1>26 DEF UnloadRefused, Placed, States
  <2>2. pc'[Owner] = "apply" => pc[Owner] = "apply"
    BY <1>26 DEF UnloadRefused, TypeOK
  <2> QED
    BY <1>26, <2>1, <2>2, RecordStamped DEF UnloadRefused
<1>27. ASSUME NEW t \in Threads, UnloadAnnounces(t) PROVE Stamped'
  BY <1>27, StampedKept DEF UnloadAnnounces, TypeOK
<1>28. ASSUME NEW m \in Modules, Exits(m) PROVE Stamped'
  BY <1>28, StampedKept DEF Exits, TypeOK
<1>29. ASSUME NEW t \in Threads, LoadTakesExit(t) PROVE Stamped'
  BY <1>29, StampedKept DEF LoadTakesExit, TypeOK
<1>30. ASSUME NEW t \in Threads, SinkCleared(t) PROVE Stamped'
  BY <1>30, StampedKept DEF SinkCleared, TypeOK
<1>31. ASSUME Finished PROVE Stamped'
  BY <1>31, StampedKept DEF Finished, vars
<1>32. CASE UNCHANGED vars
  BY <1>32, StampedKept DEF vars
<1> QED
  BY <1>1, <1>2, <1>3, <1>4, <1>5, <1>6, <1>7, <1>8, <1>9, <1>10, <1>11,
     <1>12, <1>13, <1>14, <1>15, <1>16, <1>17, <1>18, <1>19, <1>20, <1>21,
     <1>22, <1>23, <1>24, <1>25, <1>26, <1>27, <1>28, <1>29, <1>30,
     <1>31, <1>32
  DEF Next, ThreadStep

\* The last record of a module is lost only with modules_state itself.
LEMMA UnderwayStep ==
    TypeOK /\ Placed /\ Listening /\ Stamped /\ Underway /\ [Next]_vars => Underway'
<1> SUFFICES ASSUME TypeOK, Placed, Listening, Stamped, Underway, [Next]_vars
             PROVE  Underway'
  OBVIOUS
<1> USE FeedAssumption
<1> USE DEF threadVars, obsVars, consVars, bounds, Goto, MarkUnloaded,
            FleetOperation
<1>1. ASSUME NEW t \in Threads, NEW m \in Modules, LoadBegins(t, m) PROVE Underway'
  <2>1. m \in Modules /\ "loading" \in States /\ Record(m, "loading")
    BY <1>1 DEF LoadBegins, Placed, States
  <2>2. pc[Owner] \in {"stamp", "apply"} => pc'[Owner] = pc[Owner]
    BY <1>1 DEF LoadBegins, TypeOK
  <2> QED
    BY <1>1, <2>1, <2>2, RecordUnderway DEF LoadBegins
<1>2. ASSUME NEW t \in Threads, NEW m \in Modules, UnloadBegins(t, m) PROVE Underway'
  <2>1. m \in Modules /\ "stopping" \in States /\ Record(m, "stopping")
    BY <1>2 DEF UnloadBegins, Placed, States
  <2>2. pc[Owner] \in {"stamp", "apply"} => pc'[Owner] = pc[Owner]
    BY <1>2 DEF UnloadBegins, TypeOK
  <2> QED
    BY <1>2, <2>1, <2>2, RecordUnderway DEF UnloadBegins
<1>3. ASSUME NEW t \in Threads, LoadCommits(t) PROVE Underway'
  BY <1>3, UnderwayKept DEF LoadCommits, TypeOK
<1>4. ASSUME NEW t \in Threads, LoadFails(t) PROVE Underway'
  <2>1. cur[t] \in Modules /\ "error" \in States /\ Record(cur[t], "error")
    BY <1>4 DEF LoadFails, Placed, States
  <2>2. pc[Owner] \in {"stamp", "apply"} => pc'[Owner] = pc[Owner]
    BY <1>4 DEF LoadFails, TypeOK
  <2> QED
    BY <1>4, <2>1, <2>2, RecordUnderway DEF LoadFails
<1>5. ASSUME NEW t \in Threads, LoadRecords(t) PROVE Underway'
  <2>1. cur[t] \in Modules /\ "loaded" \in States /\ Record(cur[t], "loaded")
    BY <1>5 DEF LoadRecords, Placed, States
  <2>2. pc[Owner] \in {"stamp", "apply"} => pc'[Owner] = pc[Owner]
    BY <1>5 DEF LoadRecords, TypeOK
  <2> QED
    BY <1>5, <2>1, <2>2, RecordUnderway DEF LoadRecords
<1>6. ASSUME NEW t \in Threads, ArmWatch(t) PROVE Underway'
  BY <1>6, UnderwayKept DEF ArmWatch, TypeOK
<1>7. ASSUME NEW t \in Threads, UnloadMarks(t) PROVE Underway'
  BY <1>7, UnderwayKept DEF UnloadMarks, TypeOK
<1>8. ASSUME NEW t \in Threads, UnloadRecords(t) PROVE Underway'
  <2>1. cur[t] \in Modules /\ "unloaded" \in States
    BY <1>8 DEF UnloadRecords, Placed, States
  <2>2. pc[Owner] \in {"stamp", "apply"} => pc'[Owner] = pc[Owner]
    BY <1>8 DEF UnloadRecords, TypeOK
  <2>3. CASE cur[t] \in expected
    BY <1>8, <2>1, <2>2, <2>3, RecordUnderway DEF UnloadRecords
  <2>4. CASE cur[t] \notin expected
    BY <1>8, <2>2, <2>4, UnderwayKept DEF UnloadRecords
  <2> QED
    BY <2>3, <2>4
<1>9. ASSUME NEW t \in Threads, FlushTakes(t) PROVE Underway'
  <2>1. batch'[t] = pending /\ batch[t] = <<>> /\ \A u \in Threads \ {t} : batch'[u] = batch[u]
    BY <1>9 DEF FlushTakes, TypeOK, Placed
  <2>2. UNCHANGED <<last, store, snap, posted, consumer, snapArmed>>
    BY <1>9 DEF FlushTakes
  <2>3. pc[Owner] \in {"stamp", "apply"} => pc'[Owner] = pc[Owner]
    BY <1>9 DEF FlushTakes, TypeOK
  <2>4. ASSUME NEW m \in Modules, Carried(m) PROVE Carried(m)'
    <3>1. CASE Carries(pending, m)
      BY <2>1, <2>2, <3>1 DEF Carried, Carries
    <3>2. CASE \E u \in Threads : Carries(batch[u], m)
      <4>1. PICK u \in Threads : Carries(batch[u], m)
        BY <3>2
      <4>2. u # t
        BY <2>1, <4>1 DEF Carries
      <4> QED
        BY <2>1, <2>2, <4>1, <4>2 DEF Carried, Carries
    <3>3. CASE \E i \in DOMAIN posted : Carries(posted[i], m)
      BY <2>2, <3>3 DEF Carried, Carries
    <3> QED
      BY <2>4, <3>1, <3>2, <3>3 DEF Carried
  <2> QED
    BY <2>2, <2>3, <2>4 DEF Underway, Located
<1>10. ASSUME NEW t \in Threads, FlushEmpty(t) PROVE Underway'
  BY <1>10, UnderwayKept DEF FlushEmpty, TypeOK
<1>11. ASSUME NEW t \in Threads, FlushDispatches(t) PROVE Underway'
  <2>1. batch[t] \in Seq(Events) /\ AllCurrent(batch[t])
    BY DEF TypeOK, Stamped
  <2>2. UNCHANGED <<last, pending, snap, consumer, snapArmed>>
    BY <1>11 DEF FlushDispatches
  <2>3. pc[Owner] \in {"stamp", "apply"} => pc'[Owner] = pc[Owner]
    BY <1>11 DEF FlushDispatches, TypeOK
  <2>4. \A u \in Threads \ {t} : batch'[u] = batch[u]
    BY <1>11 DEF FlushDispatches, TypeOK
  <2> SUFFICES ASSUME consumer = "ready", ~snapArmed, NEW m \in Modules PROVE Located(m)'
    BY <2>2 DEF Underway
  <2>5. CASE t = Owner
    <3>1. store' = Applied(store, batch[t]) /\ posted' = posted
      BY <1>11, <2>5 DEF FlushDispatches, Deliver
    <3>2. Carries(batch[t], m) \/ store[m] = last[m] => store'[m] = last[m]
      BY <2>1, <3>1, AppliedKeepsNewest
    <3>3. Carried(m) => Carries(batch[t], m) \/ Carried(m)'
      BY <2>2, <2>4, <3>1 DEF Carried, Carries
    <3> QED
      BY <2>2, <2>3, <3>2, <3>3 DEF Underway, Located
  <2>6. CASE t # Owner
    <3>n. PICK n : n = Len(posted) + 1
      OBVIOUS
    <3>1. store' = store /\ posted' = Append(posted, batch[t])
      BY <1>11, <2>6 DEF FlushDispatches
    <3>2. /\ n \in DOMAIN posted' /\ posted'[n] = batch[t]
          /\ \A i \in DOMAIN posted : i \in DOMAIN posted' /\ posted'[i] = posted[i]
      <4>1. posted \in Seq(Seq(Events))
        BY DEF TypeOK
      <4> QED
        BY <2>1, <3>1, <3>n, <4>1
    <3>3. Carries(batch[t], m) => Carried(m)'
      BY <2>2, <3>2 DEF Carried, Carries
    <3>4. Carried(m) => Carries(batch[t], m) \/ Carried(m)'
      BY <2>2, <2>4, <3>2 DEF Carried, Carries
    <3> QED
      BY <2>2, <2>3, <3>1, <3>3, <3>4 DEF Underway, Located
  <2> QED
    BY <2>5, <2>6
<1>12. ASSUME NEW m \in Modules, Publishes(m) PROVE Underway'
  BY <1>12, UnderwayKept DEF Publishes, TypeOK
<1>13. ASSUME Crashes PROVE Underway'
  BY <1>13, UnderwayKept DEF Crashes, TypeOK
<1>14. ASSUME CrashRecords PROVE Underway'
  <2>1. PICK v \in States : Record(cur[Asio], v)
    BY <1>14 DEF CrashRecords, States
  <2>3. cur[Asio] \in Modules
    BY <1>14 DEF CrashRecords, Placed
  <2>2. pc[Owner] \in {"stamp", "apply"} => pc'[Owner] = pc[Owner]
    BY <1>14 DEF CrashRecords, TypeOK
  <2> QED
    BY <1>14, <2>1, <2>2, <2>3, RecordUnderway DEF CrashRecords
<1>15. ASSUME NEW w \in watches, WatchRuns(w) PROVE Underway'
  <2>1. w.mod \in Modules /\ "ready" \in States
    BY DEF TypeOK, States, Watches
  <2>2. pc[Owner] \in {"stamp", "apply"} => pc'[Owner] = pc[Owner]
    BY <1>15 DEF WatchRuns, TypeOK
  <2>3. CASE MarksPublished(w)
    BY <1>15, <2>1, <2>2, <2>3, RecordUnderway DEF WatchRuns
  <2>4. CASE ~MarksPublished(w)
    BY <1>15, <2>4, UnderwayKept DEF WatchRuns
  <2> QED
    BY <2>3, <2>4
<1>16. ASSUME OwnerSends PROVE Underway'
  <2>1. /\ Head(posted) = posted[1] /\ 1 \in DOMAIN posted
        /\ \A i \in DOMAIN posted : i # 1 => i - 1 \in DOMAIN posted' /\ posted'[i - 1] = posted[i]
    <3>1. posted \in Seq(Seq(Events)) /\ posted # << >> /\ posted' = Tail(posted)
      BY <1>16 DEF OwnerSends, TypeOK
    <3> QED
      BY <3>1, TailShifts
  <2>2. Head(posted) \in Seq(Events) /\ AllCurrent(Head(posted))
    BY <2>1 DEF TypeOK, Stamped
  <2>3. UNCHANGED <<last, pending, snap, batch, pc, consumer, snapArmed>>
    BY <1>16 DEF OwnerSends
  <2> SUFFICES ASSUME consumer = "ready", ~snapArmed, NEW m \in Modules PROVE Located(m)'
    BY <2>3 DEF Underway
  <2>4. store' = Applied(store, Head(posted))
    BY <1>16 DEF OwnerSends, Deliver
  <2>5. Carries(posted[1], m) \/ store[m] = last[m] => store'[m] = last[m]
    BY <2>1, <2>2, <2>4, AppliedKeepsNewest
  <2>6. Carried(m) => Carries(posted[1], m) \/ Carried(m)'
    BY <2>1, <2>3 DEF Carried, Carries
  <2> QED
    BY <2>3, <2>5, <2>6 DEF Underway, Located
<1>17. ASSUME TerminateAll PROVE Underway'
  BY <1>17 DEF TerminateAll, Underway
<1>18. ASSUME ClearAndDiscover PROVE Underway'
  BY <1>18 DEF ClearAndDiscover, Underway
<1>19. ASSUME NEW t \in Threads, ConsumerLoads(t) PROVE Underway'
  BY <1>19 DEF ConsumerLoads, Underway
<1>20. ASSUME NEW t \in Threads, ConsumerUnloads(t) PROVE Underway'
  BY <1>20 DEF ConsumerUnloads, Underway
<1>21. ASSUME ConsumerPublishes PROVE Underway'
  BY <1>21 DEF ConsumerPublishes, Listening, Underway
<1>22. ASSUME ConsumerDies PROVE Underway'
  BY <1>22 DEF ConsumerDies, Underway
<1>23. ASSUME SnapshotReads PROVE Underway'
  <2>1. pc'[Owner] = "stamp"
    BY <1>23 DEF SnapshotReads, TypeOK
  <2> QED
    BY <2>1 DEF Underway, Located
<1>24. ASSUME SnapshotStamps PROVE Underway'
  <2>1. pc'[Owner] = "apply" /\ last' = snap'
    BY <1>24 DEF SnapshotStamps, TypeOK
  <2> QED
    BY <2>1 DEF Underway, Located
<1>25. ASSUME SnapshotApplies PROVE Underway'
  <2>1. UNCHANGED <<last, pending, batch, posted, consumer, snapArmed>>
    BY <1>25 DEF SnapshotApplies
  <2> SUFFICES ASSUME consumer = "ready", ~snapArmed, NEW m \in Modules PROVE Located(m)'
    BY <2>1 DEF Underway
  <2>2. store'[m] = IF snap[m].seq > store[m].seq THEN snap[m] ELSE store[m]
    BY <1>25 DEF SnapshotApplies
  <2>3. snap[m] \in Records /\ store[m] \in Records /\ last[m] \in Records
    BY DEF TypeOK
  <2>4. Current(m, store[m]) /\ Current(m, snap[m])
    BY <1>25 DEF SnapshotApplies, Stamped
  <2>5. CASE Carried(m)
    BY <2>1, <2>5 DEF Located, Carried, Carries
  <2>6. CASE ~Carried(m)
    <3>1. store[m] = last[m] \/ snap[m] = last[m]
      BY <1>25, <2>6 DEF SnapshotApplies, Underway, Located
    <3>2. store'[m] = last[m]
      <4>1. CASE snap[m] = last[m] /\ snap[m].seq > store[m].seq
        BY <2>2, <4>1
      <4>2. CASE snap[m] = last[m] /\ ~(snap[m].seq > store[m].seq)
        <5>1. store[m].seq = last[m].seq
          BY <2>3, <2>4, <4>2 DEF Current, Records
        <5>2. store[m] = last[m]
          BY <2>3, <2>4, <5>1 DEF Current, Records
        <5> QED
          BY <2>2, <4>2, <5>2
      <4>3. CASE snap[m] # last[m]
        <5>1. store[m] = last[m] /\ ~(snap[m].seq > store[m].seq)
          BY <2>3, <2>4, <3>1, <4>3 DEF Current, Records
        <5> QED
          BY <2>2, <5>1
      <4> QED
        BY <4>1, <4>2, <4>3
    <3> QED
      BY <2>1, <3>2 DEF Located
  <2> QED
    BY <2>5, <2>6
<1>26. ASSUME NEW t \in Threads, UnloadRefused(t) PROVE Underway'
  <2>1. cur[t] \in Modules /\ "loaded" \in States /\ Record(cur[t], "loaded")
    BY <1>26 DEF UnloadRefused, Placed, States
  <2>2. pc[Owner] \in {"stamp", "apply"} => pc'[Owner] = pc[Owner]
    BY <1>26 DEF UnloadRefused, TypeOK
  <2> QED
    BY <1>26, <2>1, <2>2, RecordUnderway DEF UnloadRefused
<1>27. ASSUME NEW t \in Threads, UnloadAnnounces(t) PROVE Underway'
  BY <1>27, UnderwayKept DEF UnloadAnnounces, TypeOK
<1>28. ASSUME NEW m \in Modules, Exits(m) PROVE Underway'
  BY <1>28, UnderwayKept DEF Exits, TypeOK
<1>29. ASSUME NEW t \in Threads, LoadTakesExit(t) PROVE Underway'
  BY <1>29, UnderwayKept DEF LoadTakesExit, TypeOK
<1>30. ASSUME NEW t \in Threads, SinkCleared(t) PROVE Underway'
  BY <1>30, UnderwayKept DEF SinkCleared, TypeOK
<1>31. ASSUME Finished PROVE Underway'
  BY <1>31, UnderwayKept DEF Finished, vars
<1>32. CASE UNCHANGED vars
  BY <1>32, UnderwayKept DEF vars
<1> QED
  BY <1>1, <1>2, <1>3, <1>4, <1>5, <1>6, <1>7, <1>8, <1>9, <1>10, <1>11,
     <1>12, <1>13, <1>14, <1>15, <1>16, <1>17, <1>18, <1>19, <1>20, <1>21,
     <1>22, <1>23, <1>24, <1>25, <1>26, <1>27, <1>28, <1>29, <1>30,
     <1>31, <1>32
  DEF Next, ThreadStep

-----------------------------------------------------------------------------
(* The theorems.                                                           *)

\* At the start nothing is loaded and nothing was recorded.
LEMMA InitIInv == Init => IInv
<1> SUFFICES ASSUME Init PROVE IInv
  OBVIOUS
<1> USE FeedAssumption
<1>1. TypeOK
  <2>1. Down \in Entries /\ <<>> \in Seq(Events) /\ <<>> \in Seq(Seq(Events))
    BY DEF Down, Entries
  <2>2. reg \in [Modules -> Entries] /\ pending \in Seq(Events) /\ posted \in Seq(Seq(Events))
    BY <2>1 DEF Init
  <2>3. batch \in [Threads -> Seq(Events)]
    BY <2>1 DEF Init
  <2>4. snap \in [Modules -> Records] /\ store \in [Modules -> Records] /\ last \in [Modules -> Records]
    BY EmptyTyped DEF Init
  <2>5. loads \in 0..MaxLoads /\ consumers \in 0..MaxConsumers /\ seq \in Nat
    BY DEF Init
  <2>6. cur \in [Threads -> Modules \cup {None}] /\ objUp \in [Modules -> BOOLEAN]
    BY DEF Init
  <2>7. pc \in [Threads -> {"idle"}]
    BY DEF Init
  <2> QED
    BY <2>2, <2>3, <2>4, <2>5, <2>6, <2>7 DEF Init, TypeOK
<1>2. Placed /\ Watched /\ Flushing /\ Listening /\ Underway
  BY DEF Init, Placed, Watched, Flushing, Listening, Disabling, Underway
<1>3. ReadyMeansPublished
  BY DEF Init, ReadyMeansPublished, Down
<1>4. Stamped
  <2>1. \A m \in Modules : last[m] = NoRecord /\ store[m] = NoRecord
    BY DEF Init, Empty
  <2>2. \A m \in Modules : last[m].seq <= seq /\ Current(m, NoRecord) /\ Current(m, store[m])
    <3>1. NoRecord.seq = 0 /\ seq = 0
      BY DEF NoRecord, Init
    <3>2. \A m \in Modules : last[m].seq = 0 /\ store[m].seq = 0 /\ store[m].state = last[m].state
                             /\ NoRecord.state = last[m].state
      BY <2>1, <3>1
    <3>3. ASSUME NEW m \in Modules PROVE last[m].seq <= seq
      BY <3>1, <3>2
    <3>4. ASSUME NEW m \in Modules PROVE Current(m, NoRecord)
      BY <3>1, <3>2 DEF Current
    <3>5. ASSUME NEW m \in Modules PROVE Current(m, store[m])
      BY <3>2 DEF Current
    <3> QED
      BY <3>3, <3>4, <3>5
  <2>3. AllCurrent(pending) /\ \A t \in Threads : AllCurrent(batch[t])
    BY DEF Init, AllCurrent
  <2> QED
    BY <2>2, <2>3 DEF Init, Stamped
<1> QED
  BY <1>1, <1>2, <1>3, <1>4 DEF IInv

\* The invariant holds in every reachable state.
THEOREM InductiveInvariant == Spec => []IInv
<1>1. IInv /\ [Next]_vars => IInv'
  BY TypeStep, PlacedStep, ReadinessStep, FlushingStep, ListeningStep, StampedStep,
     UnderwayStep DEF IInv, Readiness
<1> QED
  BY <1>1, InitIInv, PTL DEF Spec

\* Every variable of the feed keeps its type.
THEOREM TypeCorrect == Spec => []TypeOK
<1>1. IInv => TypeOK
  BY DEF IInv
<1> QED
  BY <1>1, InductiveInvariant, PTL

\* markPublished marks a loaded module only while its own object is up, for any
\* number of loads and however late the owner runs a watch (armReadinessWatch).
THEOREM ReadyIsPublished == Spec => []ReadyMeansPublished
<1>1. IInv => ReadyMeansPublished
  BY DEF IInv
<1> QED
  BY <1>1, InductiveInvariant, PTL

\* With a sink no transition stays in the buffer once every thread is back
\* (ScopedModuleStateFlush).
THEOREM NothingIsStranded == Spec => []NothingStranded
<1>1. ASSUME IInv PROVE NothingStranded
  <2>1. Flushing
    BY <1>1 DEF IInv
  <2> QED
    BY <2>1 DEF NothingStranded, Idle, Flushing
<1> QED
  BY <1>1, InductiveInvariant, PTL

\* modules_state holds the newest record of every module once nothing is under
\* way, whatever the order in which batches and snapshots reached it.
THEOREM ConsumerConverges == Spec => []ConsumerHoldsLast
<1>1. ASSUME IInv PROVE ConsumerHoldsLast
  <2> SUFFICES ASSUME Idle, consumer = "ready", ~snapArmed, NEW m \in Modules
               PROVE  store[m] = last[m]
    BY DEF ConsumerHoldsLast
  <2>1. pc[Owner] = "idle" /\ posted = <<>>
    BY FeedAssumption DEF Idle
  <2>2. \A t \in Threads : batch[t] = <<>>
    BY <1>1 DEF Idle, IInv, Placed
  <2>3. pending = <<>>
    BY <1>1 DEF Idle, IInv, Listening, Flushing
  <2>4. ~Carried(m)
    BY <2>1, <2>2, <2>3 DEF Carried, Carries
  <2> QED
    BY <1>1, <2>1, <2>4 DEF IInv, Underway, Located
<1> QED
  BY <1>1, InductiveInvariant, PTL

====
