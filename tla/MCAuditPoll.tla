---------------------------- MODULE MCAuditPoll ----------------------------
(* Instances of AuditPoll for TLC; the .cfg files choose the constants. *)
EXTENDS AuditPollInvariant
=============================================================================
