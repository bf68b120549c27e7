----------------------------- MODULE MCTGSocket -----------------------------
(* Small instance of TGSocket: empty and two-unit bodies, a header that can   *)
(* arrive in two reads, and a kernel buffer smaller than one message.          *)
EXTENDS TGSocket

MCSizes == {0, 2}
=============================================================================
