-------------------------- MODULE MCServerLifecycle --------------------------
(* ServerLifecycle on small instances. *)
EXTENDS ServerLifecycle

CONSTANTS main, health
OneListener    == {main}
TwoListeners   == {main, health}
HttpOnly       == {"http"}
BothTransports == {"http", "stdio"}
FirstBad       == {1}
NoneBad        == {}
===============================================================================
