--------------------------- MODULE ModuleContract ---------------------------
(***************************************************************************)
(* What the module manager promises of a module's life, without threads,   *)
(* locks, containers or callbacks: the specification that ModuleLifecycle  *)
(* implements.                                                             *)
(*                                                                         *)
(*   down      not listed as loaded and nobody is loading it               *)
(*   starting  inside one load attempt                                     *)
(*   up        listed as loaded, and its process or image is there         *)
(*   lost      still listed as loaded, but what ran it is gone             *)
(***************************************************************************)
CONSTANT Modules

VARIABLE status

States == {"down", "starting", "up", "lost"}

Init == status = [m \in Modules |-> "down"]

Moves(m, from, to) ==
    /\ status[m] = from
    /\ status' = [status EXCEPT ![m] = to]

Begin(m) == Moves(m, "down", "starting")

\* A module may die before its load is committed and be listed for a moment.
Commit(m) == Moves(m, "starting", "up") \/ Moves(m, "starting", "lost")

Fail(m) == Moves(m, "starting", "down")

\* It exits on its own, or a teardown terminates it.
Stop(m) == Moves(m, "up", "lost")

\* The listing follows.
Notice(m) == Moves(m, "lost", "down")

\* A container that reports the end of a module itself: one step.
Unload(m) == Moves(m, "up", "down")

\* terminateAll and clear move every module at once, each one only downwards,
\* and never while a load is in progress anywhere.
TeardownMoves == {<<"up", "lost">>, <<"up", "down">>, <<"lost", "down">>}

Fleet ==
    /\ \A m \in Modules : status[m] # "starting"
    /\ status' \in [Modules -> States]
    /\ \A m \in Modules :
          status'[m] = status[m] \/ <<status[m], status'[m]>> \in TeardownMoves

Next ==
    \/ \E m \in Modules : Begin(m) \/ Commit(m) \/ Fail(m)
    \/ \E m \in Modules : Stop(m) \/ Notice(m) \/ Unload(m)
    \/ Fleet

Spec == Init /\ [][Next]_status

\* Neither a load nor a death stays undecided.
Progress ==
    \A m \in Modules :
        /\ status[m] = "starting" ~> status[m] # "starting"
        /\ status[m] = "lost" ~> status[m] = "down"

FairSpec == Spec /\ Progress
=============================================================================
