------------------------------- MODULE MCSentry -------------------------------
(* Sentry on small instances. *)
EXTENDS Sentry
================================================================================
