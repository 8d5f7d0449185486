--------------------------- MODULE MCSchemaSources ---------------------------
(* SchemaSources on a small instance. *)
EXTENDS SchemaSources

AllSources == {"schema", "manifest", "platform", "file"}
SecondHasNone == {2}
==============================================================================
