---------------------------- MODULE MCAutoImport ----------------------------
(* Small instances of AutoImport.                                           *)
EXTENDS AutoImport, TLC

Alike == Permutations(Dirs) \cup Permutations(Arms)

\* Bound: at most two of these at once, beside a watch scan: a batch, requests
\* under way, a scan of the owner's, armings.
TwoAtOnce ==
  Cardinality({c \in Callers : caller[c].pc # "idle"})
    + Cardinality({h \in Holders : holder[h].pc # "idle"})
    + Cardinality({a \in Arms : arm[a].pc # "none"})
    + Cardinality({i \in 1..2 : <<batch.pc # "idle", run.pc # "none" /\ run.kind # "watch">>[i]}) <= 2

\* Bound: while an arming that failed has left something unwatched, no request is
\* under way.
WatchedForRequests == uncovered => \A c \in Callers : caller[c].pc = "idle"
=============================================================================
