---------------------------- MODULE CampaignMC ----------------------------
(* Instances of Campaign for TLC. *)
EXTENDS Campaign, TLC

Symmetric == Permutations(Proc)

-----------------------------------------------------------------------------
(* What the documents and the comments of campaign-service say. *)

\* current-state.md: the saga reserves "before send", "settling on actuals".  A
\* campaign that is COMPLETED, with no batch and no event on its way, holds no
\* parked budget.
SettledWhenDone ==
  status = "COMPLETED" /\ Quiet /\ billingEvents = {}
    /\ (\A b \in Batch : jobs[b] \notin {"waiting", "active"})
  => budget # "parked"
=============================================================================
