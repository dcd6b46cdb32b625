----------------------------- MODULE MCPlatform ------------------------------
(***************************************************************************)
(* A small instance of the services around jobs.  They have no state in    *)
(* common, so that each is explored by itself: focus chooses the one that  *)
(* runs, and the others stay as they start.                                *)
(***************************************************************************)
EXTENDS TenantMembership, TenantOnboarding, AwsAccounts, WorkflowOrchestration,
        GovernanceConvergence, ExecutionApi, TLC

CONSTANTS s1, u1, u2, i1, c1, c2, t1, t2, a1, w1

VARIABLE focus

platformVars ==
  <<membershipVars, onboardingVars, accountVars, workflowVars, convergenceVars, vars>>

PlatformInit ==
  /\ focus \in {"membership", "onboarding", "accounts", "workflow", "governance", "execution"}
  /\ MembershipInit /\ OnboardingInit /\ AwsAccountsInit /\ WorkflowInit /\ ConvergenceInit /\ Init

MembershipStep ==
  /\ focus = "membership" /\ MembershipNext
  /\ UNCHANGED <<focus, onboardingVars, accountVars, workflowVars, convergenceVars, vars>>

OnboardingStep ==
  /\ focus = "onboarding" /\ OnboardingNext
  /\ UNCHANGED <<focus, membershipVars, accountVars, workflowVars, convergenceVars, vars>>

AccountsStep ==
  /\ focus = "accounts" /\ AwsAccountsNext
  /\ UNCHANGED <<focus, membershipVars, onboardingVars, workflowVars, convergenceVars, vars>>

WorkflowStep ==
  /\ focus = "workflow" /\ WorkflowNext
  /\ UNCHANGED <<focus, membershipVars, onboardingVars, accountVars, convergenceVars, vars>>

GovernanceStep ==
  /\ focus = "governance" /\ ConvergenceNext
  /\ UNCHANGED <<focus, membershipVars, onboardingVars, accountVars, workflowVars, vars>>

ExecutionStep ==
  /\ focus = "execution" /\ Next
  /\ UNCHANGED <<focus, membershipVars, onboardingVars, accountVars, workflowVars, convergenceVars>>

PlatformNext ==
  MembershipStep \/ OnboardingStep \/ AccountsStep \/ WorkflowStep \/ GovernanceStep
  \/ ExecutionStep

PlatformSpec == PlatformInit /\ [][PlatformNext]_<<focus, platformVars>>

Symmetry == Permutations({u1, u2}) \union Permutations({c1, c2})

\* A write under a version that its row has left behind is refused: of a call that is about
\* to make one only the invitation counts, and whose it is.
WillBeRefused(c) ==
  /\ At(c, "write") /\ ~VersionMatches(c)
  /\ members[calls[c].user].version > calls[c].version

CallsView ==
  [c \in MembershipCalls |->
     IF WillBeRefused(c) THEN [NoCall EXCEPT !.pc = "write", !.user = calls[c].user, !.inv = calls[c].inv]
                         ELSE calls[c]]

\* What TLC tells states apart by: the state of the one service that is explored.  The rest is
\* the same in all states of one focus; states that are taken for one have the same future.
View ==
  CASE focus = "membership" ->
         <<focus, members, memberIndex, bootstrapMarker, invitations, abandoned, CallsView>>
    [] focus = "onboarding" -> <<focus, onboardingVars>>
    [] focus = "accounts" -> <<focus, accountVars>>
    [] focus = "workflow" -> <<focus, workflowVars>>
    [] focus = "governance" -> <<focus, convergenceVars>>
    [] focus = "execution" -> <<focus, vars>>

\* Of the service that is explored: the others stay as they start, which is how they start
\* when they are explored.  That of the execution API stands by itself.
PlatformTypeOK ==
  /\ focus = "membership" => MembershipTypeOK
  /\ focus = "onboarding" => OnboardingTypeOK
  /\ focus = "accounts" => AccountsTypeOK
  /\ focus = "workflow" => WorkflowTypeOK
  /\ focus = "governance" => ConvergenceTypeOK
==============================================================================
