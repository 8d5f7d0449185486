----------------------------- MODULE MCToolCatalog -----------------------------
(* ToolCatalog on small instances. *)
EXTENDS ToolCatalog

CONSTANTS alice, bob, loop, query, app
OneClient   == {alice}
TwoClients  == {alice, bob}
OneOp       == {query}
NoOps       == {}
OneAppTool  == {app}
================================================================================
