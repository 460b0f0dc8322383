------------------------ MODULE MCWorkspaceLifecycle ------------------------
EXTENDS WorkspaceLifecycle
=============================================================================
