--------------------------- MODULE MCElkConnection ---------------------------
(***************************************************************************)
(* Small instances of ElkConnection for TLC.  Two reply types tell a       *)
(* matching frame from another one; the resync is one awaited write and    *)
(* one that has no reply.                                                  *)
(***************************************************************************)
EXTENDS ElkConnection

MCReplies   == {"AS", "VN"}
MCSyncBatch == <<"VN", None>>
=============================================================================
