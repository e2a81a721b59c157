---------------------------- MODULE MCWorkspace ----------------------------
\* Instances of Workspace for TLC; the values are all in the .cfg files.
EXTENDS Workspace
=============================================================================
