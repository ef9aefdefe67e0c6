------------------------------ MODULE MCClock -------------------------------
(***************************************************************************)
(* The clocks of the msm8909 with two clients, which use the names of one  *)
(* peripheral at a time.                                                   *)
(***************************************************************************)
EXTENDS ClockTree

T8 == INSTANCE Msm8909Clock
ClkLookup == T8!msm_clocks_msm8909
ClkNames == DOMAIN ClkLookup
ClkSources == T8!SourceClocks
ClkVotes == T8!VoteClocks
ClkBranches == T8!BranchClocks
ClkRoots == T8!RootClocks
ClkParent == T8!parent
ClkTable == T8!freq_tbl
ClkMnd == T8!MndRoots
ClkGroups == T8!NameGroups

\* A root that was given a rate runs within a part in a thousand of it, but
\* for the entries of the table that are wrong in themselves (clock_lib2.c
\* 107-192, msm8909-clock.c 128-647).
RunsAtAskedRate ==
    \A r \in ClkRoots :
        LET khz == tree.current[r]
            off == T8!RootRate(tree.hw[r]) - khz
        IN  khz # 0 /\ ~T8!Misprogrammed(r, khz) => 1000 * off <= khz /\ -1000 * off <= khz
=============================================================================
