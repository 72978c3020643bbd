----------------------- MODULE MCNotificationHandler -----------------------
(* NotificationHandler on small instances: the senders are interchangeable. *)
EXTENDS NotificationHandler, TLC

Symmetric == Permutations(Senders \ Slow)
=============================================================================
