-------------------------- MODULE MCDownloadWorker --------------------------
(***************************************************************************)
(* Small instances of DownloadWorker: which video a row is for, and which  *)
(* channel lists a video.                                                  *)
(***************************************************************************)
EXTENDS DownloadWorker

CONSTANTS ch1, v1, v2, j1

OneChannel == [v \in Videos |-> ch1]

\* The first row is v1's, every other row is v2's.
MCVideoOf == [j \in Jobs |-> IF j = j1 THEN v1 ELSE v2]

\* Every row is v1's.
SameVideo == [j \in Jobs |-> v1]
=============================================================================
