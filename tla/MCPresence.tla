----------------------------- MODULE MCPresence -----------------------------
(* One device's sockets and the server that watches them, as TLC runs them:  *)
(* the constants are in PresenceLinks.cfg.                                 *)
EXTENDS Presence
=============================================================================
