------------------------- MODULE MCOfflineDownloads -------------------------
(* Instances of OfflineDownloads for TLC.                                  *)
EXTENDS OfflineDownloads

CONSTANTS t1, t2, ada, grace
=============================================================================
