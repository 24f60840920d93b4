------------------------------- MODULE MCNews -------------------------------
(***************************************************************************)
(* Watchers with every kind of watcher, one trouble (a rejected call or a  *)
(* broken connection), one message between Redis and the gateway, and two  *)
(* requests at work at once.                                               *)
(***************************************************************************)
EXTENDS Watchers, TLC
=============================================================================
