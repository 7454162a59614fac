------------------------ MODULE MCNotificationQueue ------------------------
(* TLC instances of NotificationQueue. *)
EXTENDS NotificationQueue, TLC

Symmetry ==
  Permutations(Events) \cup Permutations(Handlers) \cup Permutations(Publishers)
=============================================================================
