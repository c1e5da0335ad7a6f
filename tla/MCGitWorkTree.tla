---------------------------- MODULE MCGitWorkTree ----------------------------
(* Two callers, which may execute any of the steps, one after the other.   *)
EXTENDS GitWorkTree
==============================================================================
