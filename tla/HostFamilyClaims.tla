-------------------------- MODULE HostFamilyClaims --------------------------
(***************************************************************************)
(* What comments and docstrings of the file host code say of it and the    *)
(* code does not keep: runs refute it, and the README tells how.           *)
(***************************************************************************)
EXTENDS MCHostFamily

\* _run_family_retry_scan: a retry row blocked on a winner without md5 is
\* flipped to pending by "the poller ... alongside any other waiters once md5
\* lands".  A poller is only scheduled when somebody is already waiting at the
\* time the winner settles, so the row may wait with no poller ever to come.
RetryIsReleased ==
    Quiet => \A h \in Hosts : HeadIs(h, {"blocked"}) => ~rows[<<h, 0>>].dedupOnly

\* constants.py, of a family: "only the highest-priority member performs a full
\* upload".  A worker that retries by itself announces a failure all the same;
\* the coordinator promotes the next member, and both upload.
SinglePrimary == NoneHasIt => Cardinality(Uploaders) <= 1
=============================================================================
