------------------------ MODULE MCNotificationOutbox ------------------------
(***************************************************************************)
(* Small instances of NotificationOutbox for TLC.                          *)
(***************************************************************************)
EXTENDS NotificationOutbox, TLC

CONSTANTS n1, s1, q1, w1, w2

Symmetry == Permutations(Worker)
=============================================================================
