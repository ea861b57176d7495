---------------------------- MODULE MCDownloads ----------------------------
(* One WaitForEvent(DownloadEvent) and one download. *)
EXTENDS Downloads
=============================================================================
