------------------------- MODULE MCNotificationOutbox -------------------------
(***************************************************************************)
(* Two channels and two workers; a job has two attempts.                   *)
(***************************************************************************)
EXTENDS NotificationOutbox

CONSTANTS email, webhook, w1, w2
=============================================================================
