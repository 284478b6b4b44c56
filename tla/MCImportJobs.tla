---------------------------- MODULE MCImportJobs ----------------------------
(***************************************************************************)
(* Small instances of ImportJobs: which events of the environment happen,  *)
(* and how often.                                                          *)
(***************************************************************************)
EXTENDS ImportJobs, TLC

Each(events) == [e \in Events |-> IF e \in events THEN 1 ELSE 0]

\* Scans and force rescans in a row, beside a restart.
Rescans ==
  [staged |-> {"probe", "thumbnail"},
   budget |-> [Each({"churn", "crash"}) EXCEPT !["force"] = 2, !["scan"] = 2]]

\* The owner retries and edits beside a force rescan.
Requests ==
  [staged |-> {"probe", "thumbnail"},
   budget |-> Each({"churn", "retry", "edit", "scan", "force"})]

\* Locations come and go, folders are unplugged.
Locations ==
  [staged |-> {"thumbnail"}, budget |-> [Each({"park"}) EXCEPT !["churn"] = 4]]

\* Two videos whose stages wait for each other's.
Waits ==
  [staged |-> {"thumbnail", "seek_thumbnail"}, budget |-> [Each({"park"}) EXCEPT !["churn"] = 2]]

\* A published preview is lost beside scans.
PreviewLost ==
  [staged |-> {"preview"},
   budget |-> Each({"churn", "lose", "force", "scan"})]

\* A published sprite, or preview, is lost beside a force rescan.
Losses ==
  [staged |-> {"seek_thumbnail", "preview", "fingerprint"},
   budget |-> [Each({"churn", "lose", "force"}) EXCEPT !["scan"] = 2]]

\* A whole import settles beside a restart.
Settling ==
  [staged |-> {"probe", "thumbnail", "seek_thumbnail", "fingerprint"},
   budget |-> Each({"churn", "crash"})]

\* A probe is retried while the preview of an earlier one waits.
Probes ==
  [staged |-> {"probe", "preview"},
   budget |-> [Each({"churn", "scan", "force", "retry"}) EXCEPT !["scan"] = 2]]

Interrupted == {Rescans, Requests, Locations}
\* Bound: one location where locations are not what a scenario is about.
OneLocation == "probe" \in staged => \A v \in Videos : loc[v] \subseteq {1}

Progressing == {Waits, PreviewLost, Settling}
LossesOnly == {Losses}
Repairs == {Probes, Losses}
=============================================================================
