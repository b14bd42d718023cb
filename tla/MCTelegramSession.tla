------------------------- MODULE MCTelegramSession -------------------------
(* Two logins, a renewal, a rotation, a logout and a failed write. *)
EXTENDS TelegramSession
=============================================================================
