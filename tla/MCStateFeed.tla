----------------------------- MODULE MCStateFeed -----------------------------
(***************************************************************************)
(* Small instances of StateFeed: one observed module, the owner thread     *)
(* and the asio thread.                                                    *)
(***************************************************************************)
EXTENDS StateFeed, FiniteSets

Seqs(recs) == {recs[i].seq : i \in DOMAIN recs}

\* A state with its sequence numbers replaced by their ranks. Only their order
\* matters, and the next number stamped is larger than all of them, so states with
\* one view have the same behaviours.
MCView ==
    LET used == Seqs(pending) \cup Seqs(snap) \cup Seqs(store) \cup Seqs(last)
                \cup UNION {Seqs(batch[t]) : t \in Threads}
                \cup UNION {Seqs(posted[i]) : i \in DOMAIN posted}
        rank == [n \in used |-> Cardinality({k \in used : 0 < k /\ k <= n})]
        Renumbered(recs) == [i \in DOMAIN recs |-> [recs[i] EXCEPT !.seq = rank[@]]]
    IN  <<pc, cur, reg, objUp, watches, expected, sink, consumer, snapArmed, bounds,
          Renumbered(pending), Renumbered(snap), Renumbered(store), Renumbered(last),
          [t \in Threads |-> Renumbered(batch[t])],
          [i \in DOMAIN posted |-> Renumbered(posted[i])]>>
=============================================================================
