-------------------------- MODULE MCIssueProgress --------------------------
\* Instances of IssueProgress for TLC: of Lifecycle, as in MCLifecycle.
EXTENDS IssueProgress, MCLifecycle

\* A gate passes, fails, or passes for what nobody has authenticated.
MCRuns == {<<TRUE, TRUE>>, <<FALSE, TRUE>>, <<TRUE, FALSE>>}
=============================================================================
