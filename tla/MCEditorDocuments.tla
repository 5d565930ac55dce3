------------------------- MODULE MCEditorDocuments -------------------------
EXTENDS EditorDocuments
=============================================================================
