----------------------- MODULE MCNotificationDispatch -----------------------
(* NotificationDispatch on small instances; the jobs are interchangeable. *)
EXTENDS NotificationDispatch, TLC

JobSymmetry == Permutations(Jobs)
=============================================================================
