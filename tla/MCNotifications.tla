--------------------------- MODULE MCNotifications ---------------------------
(* Two notifications that share the worker. *)
EXTENDS Notifications
=============================================================================
