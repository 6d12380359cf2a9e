------------------------------ MODULE MCSyncJobs ------------------------------
(* Small instances of SyncJobs for TLC.                                    *)
EXTENDS SyncJobs, TLC

CONSTANTS alice, a1, c1

OneUsersJobs == (a1 :> alice @@ c1 :> alice)
OneUsersKinds == (a1 :> "assignments" @@ c1 :> "courses")

(* What goes wrong together: a slow or killed run while Moodle changes;    *)
(* refusals by the school and manual syncs; and each way a credential is   *)
(* replaced, by a login, a PATCH or the operator, against a running job.   *)
SyncMixes ==
  {{"stall", "change"}, {"crash", "ours"}, {"stall", "ours"}, {"stall", "device"},
   {"school", "upload", "window", "run_now"}, {"revoke", "patch", "portal", "policy"}}

RunSymmetry == Permutations(Runs)
=============================================================================
