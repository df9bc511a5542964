--------------------------- MODULE MCReleaseCache ---------------------------
(***************************************************************************)
(* A small instance of ReleaseCache for TLC: two runs and two cache roots   *)
(* that share the default download root.                                    *)
(***************************************************************************)
EXTENDS ReleaseCache
CONSTANTS p1, p2, c1, c2, radar
OneAsset == <<"tar">>

\* Runs of the other cache root are followed through their download; the rest of them
\* touches their own cache root only.
OthersOnlyDownload == \A p \in Procs :
  run[p] # None /\ run[p].cache # DefaultCache => pc[p] \in Downloading
=============================================================================
