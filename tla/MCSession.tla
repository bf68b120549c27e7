------------------------------ MODULE MCSession ------------------------------
(* One session, with at most one stray connection of any kind.  *)
EXTENDS Session

MCStrayKinds == {"garbage", "hangup", "silent"}
==============================================================================
