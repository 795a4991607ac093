---------------------------- MODULE PolicyCases ----------------------------
(***************************************************************************)
(* The decision plane on its own: one payment event arrives with a         *)
(* merchant row, the platform row, facts, candidates and their ERVs, and   *)
(* Process decides it.  What Recovery exercises on a few diagnoses is      *)
(* checked here over the product of the boundaries of every rule.          *)
(***************************************************************************)
EXTENDS Policy

CONSTANTS Merchants, Platforms, Situations, CandidateLists, ErvTables

ASSUME InputAssumption ==
  /\ Merchants \subseteq MerchantRow /\ Platforms \subseteq PlatformRow
  /\ Situations \subseteq EventFacts
  /\ CandidateLists \subseteq Seq(Action) /\ ErvTables \subseteq [Action -> Int]

VARIABLES input, decision

vars == <<input, decision>>

Undecided == [state |-> "FAILED"]

Init ==
  /\ input \in [m : Merchants, p : Platforms, f : Situations,
                candidates : CandidateLists, erv : ErvTables]
  /\ decision = Undecided

resolved(i) == ResolveMerchantPolicy(i.m, i.p)

Process ==
  /\ decision = Undecided
  /\ decision' = Decide(input.candidates, input.erv, input.f, resolved(input))
  /\ UNCHANGED input

Spec == Init /\ [][Process]_vars

-----------------------------------------------------------------------------
(* Properties.                                                             *)

Dispatches == decision.state = "ACTION_SELECTED"

\* A cap of 0 is no cap.
Below(n, cap) == cap <= 0 \/ n < cap

\* What the platform row demands of an action, whatever the merchant's row.
WithinPlatform(a, f, p) ==
  /\ ~f.kill /\ ~f.globalKill /\ f.cause # "fraud_suspected"
  /\ Below(f.actionsToday, p.maxDailyCap)
  /\ a # "notify" => /\ f.confidence >= p.confidenceFloor
                     /\ Below(f.amount - 1, p.maxAmountCeiling)
  /\ IsRetry(a) => /\ Below(EffectiveAttempts(f), p.maxRetriesCeiling)
                   /\ f.hasPriorRetry => f.sinceRetry >= p.minCooldown

\* A merchant can only tighten safety: no merchant row, its zeroes and its low
\* floors included, gets an action dispatched that the platform row forbids.
PlatformHolds == Dispatches => WithinPlatform(decision.action, input.f, input.p)

\* The merchant's own limits bind too: clamping never replaces a tighter value
\* by the platform's looser one.
MerchantHolds ==
  LET m == input.m  f == input.f  a == decision.action IN
  Dispatches =>
    /\ input.erv[a] > m.minERV
    /\ Below(f.actionsToday, m.dailyCap)
    /\ a # "notify" => f.confidence >= m.confidenceFloor /\ Below(f.amount - 1, m.amountCeiling)
    /\ IsRetry(a) => /\ EffectiveAttempts(f) < m.maxRetries
                     /\ f.hasPriorRetry => f.sinceRetry >= m.cooldown

\* The precedence of the selection: the best ALLOWed intervention, the earlier
\* candidate among equals; else the human a hard-stop gate asked for; else
\* nothing.  Only the first of the three is dispatched.
BestAllowedWins ==
  LET c     == input.candidates
      verdict(a) == Evaluate(a, input.erv[a], input.f, resolved(input))
      real  == {i \in DOMAIN c : c[i] # "no_action" /\ verdict(c[i]) = "ALLOW"}
      human == {i \in DOMAIN c : verdict(c[i]) = "HUMAN_REVIEW"}
  IN decision # Undecided =>
     IF real # {}
       THEN \E i \in real : /\ decision.action = c[i] /\ Dispatches
                            /\ \A j \in real : \/ input.erv[c[i]] > input.erv[c[j]]
                                               \/ input.erv[c[i]] = input.erv[c[j]] /\ i <= j
       ELSE /\ decision.state = "STOPPED"
            /\ decision.action = IF human # {} THEN "escalate" ELSE "no_action"

\* A fraud diagnosis, or an amount above the ceiling with nothing gentler
\* ALLOWed, reaches a human whenever escalation is among the candidates, and
\* nothing else does: the kill switches and the confidence floor outrank the
\* routing of the amount gate.
HumansSeeHardStops ==
  LET f == input.f  r == resolved(input)
      over == r.amountCeiling > 0 /\ f.amount > r.amountCeiling
  IN decision # Undecided =>
     (decision.verdict = "HUMAN_REVIEW" <=>
        /\ "escalate" \in ToSet(input.candidates)
        /\ ~f.kill /\ ~f.globalKill
        /\ \/ f.cause = "fraud_suspected"
           \/ over /\ f.confidence >= r.confidenceFloor /\ ~Dispatches)
=============================================================================
