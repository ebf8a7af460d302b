----------------------------- MODULE MCRemoteSave -----------------------------
(* Two edits, one or two foreign changes, every failure at every request.  *)
EXTENDS RemoteSave
===============================================================================
