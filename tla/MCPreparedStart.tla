--------------------------- MODULE MCPreparedStart ---------------------------
(* PreparedStart on small sets of keys; see the .cfg files.                  *)
EXTENDS PreparedStart
==============================================================================
