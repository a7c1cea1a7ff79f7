-------------------------- MODULE MCSlowDiskChecker --------------------------
EXTENDS SlowDiskChecker

\* The host passes the same thresholds on every enableDiskCheck: 2 for
\* the sequential rings, 1 for the random ring.
MCThresholds == {<<2, 1>>}
=============================================================================
