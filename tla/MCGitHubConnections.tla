------------------------ MODULE MCGitHubConnections ------------------------
EXTENDS GitHubConnections, TLC

CONSTANTS t1, t2

\* Everything happens in one tab; from the other, which does not show the session, the
\* user only connects again, or gives that up.
MCDoes == (t1 :> {"watch", "connect", "sign-out", "submit"}) @@ (t2 :> {"connect", "reload"})
MCSymmetry == Permutations(Session)
=============================================================================
