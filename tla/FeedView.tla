------------------------------- MODULE FeedView -------------------------------
(***************************************************************************)
(* The controls of the recovery feed: the pills, the drop-downs, the search*)
(* box and the sortable headers, each a piece of React state, over the     *)
(* sandbox's decisions.                                                    *)
(***************************************************************************)
EXTENDS DecisionScreens, FiniteSets

CONSTANT SearchTerms   \* what may be in the search box; "" when it is empty

VARIABLE view   \* [status, action, policy, search, sortBy, order]

StatusFilters ==
  {"ALL", "RECOVERED", "ACTION_PENDING", "RECOVERY_ELIGIBLE", "STOPPED", "FAILED"}
Fields == {"time", "amount", "erv"}

Init ==
  view = [status |-> "ALL", action |-> "ALL", policy |-> "ALL", search |-> "",
          sortBy |-> "time", order |-> "desc"]

StatusPill(status) == status \in StatusFilters /\ view' = [view EXCEPT !.status = status]
HumanReviewPill == view' = [view EXCEPT !.status = "ALL", !.policy = "HUMAN_REVIEW"]
ActionDropdown(action) == view' = [view EXCEPT !.action = action]
PolicyDropdown(result) == view' = [view EXCEPT !.policy = result]
Search(term) == view' = [view EXCEPT !.search = term]

\* The header of the field sorted by turns the order round; another one sorts descending.
toggleSort(field) ==
  view' = IF view.sortBy = field
            THEN [view EXCEPT !.order = IF @ = "asc" THEN "desc" ELSE "asc"]
            ELSE [view EXCEPT !.sortBy = field, !.order = "desc"]

Next ==
  \/ \E status \in StatusFilters : StatusPill(status)
  \/ HumanReviewPill
  \/ \E action \in CandidateActionType \cup {"ALL"} : ActionDropdown(action)
  \/ \E result \in PolicyCheckResult \cup {"ALL"} : PolicyDropdown(result)
  \/ \E term \in SearchTerms : Search(term)
  \/ \E field \in Fields : toggleSort(field)

Spec == Init /\ [][Next]_view

Rows == filteredDecisions(MOCK_DECISIONS, view)

\* With no other filter, the rows a pill leaves are as many as the pill says, and no
\* pill says more than "All Events" does (RecoveryFeedView.tsx counts and filters).
PillsCount ==
  LET n == counts(MOCK_DECISIONS)
      free == view.action = "ALL" /\ view.search = ""
  IN /\ free /\ view.policy = "ALL" =>
          Len(Rows) = CASE view.status = "ALL" -> n.all
                        [] view.status = "RECOVERED" -> n.recovered
                        [] view.status = "ACTION_PENDING" -> n.pending
                        [] view.status = "STOPPED" -> n.stopped
                        [] OTHER -> Len(Rows)
     /\ free /\ view.policy = "HUMAN_REVIEW" /\ view.status = "ALL" => Len(Rows) = n.humanReview
     /\ n.recovered + n.pending + n.stopped <= n.all
=============================================================================
