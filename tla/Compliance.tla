----------------------------- MODULE Compliance -----------------------------
(***************************************************************************)
(* What to do about a member who stopped qualifying                        *)
(* (app/domain/compliance.py), and what carrying the decision out does to  *)
(* the membership row (MembershipMonitor._apply).  Time is counted in      *)
(* days; NoTime is a NULL timestamp.                                       *)
(*                                                                         *)
(* A membership row `m` has at least the fields                            *)
(*   status, since (joined_at or created_at), warnings, lastWarning,       *)
(*   revokedAt, link                                                       *)
(* and a policy the fields max_warnings, warning_interval, grace.          *)
(***************************************************************************)
EXTENDS Eligibility

NoTime == -1
NoLink == 0

Statuses == {"ABSENT", "PENDING", "INVITED", "ACTIVE", "SUSPENDED",
             "EXPIRED", "REVOKED"}

\* _MONITORED, and the statuses MembershipMonitor.run lists.
Monitored == {"INVITED", "ACTIVE", "SUSPENDED"}

Actions == {"NONE", "WARN", "REVOKE", "RESTORE"}

\* A failing member is left alone until onboarding grace has passed ...
InGrace(m, policy, now) == now < m.since + policy.grace

\* Mutant: the spacing of warnings is forgotten.
BugNeverTooSoon(m, policy, now) == FALSE

\* ... and, once warned, until the warning interval has passed.
TooSoon(m, policy, now) ==
  m.lastWarning # NoTime /\ now < m.lastWarning + policy.warning_interval

\* Mutant: the cap is one warning too high.
BugOneTooMany(m, reason, policy, now) ==
  IF m.status \notin Monitored \/ reason = "PROVIDER_UNAVAILABLE" THEN "NONE"
  ELSE IF reason = "ELIGIBLE" THEN IF m.warnings > 0 THEN "RESTORE" ELSE "NONE"
  ELSE IF InGrace(m, policy, now) \/ TooSoon(m, policy, now) THEN "NONE"
  ELSE IF m.warnings > policy.max_warnings THEN "REVOKE" ELSE "WARN"

decide_compliance(m, reason, policy, now) ==
  IF m.status \notin Monitored THEN "NONE"
  ELSE IF reason = "PROVIDER_UNAVAILABLE" THEN "NONE"
  ELSE IF reason = "ELIGIBLE"
       THEN IF m.warnings > 0 \/ m.status = "SUSPENDED" THEN "RESTORE" ELSE "NONE"
  ELSE IF InGrace(m, policy, now) \/ TooSoon(m, policy, now) THEN "NONE"
  ELSE IF m.warnings >= policy.max_warnings THEN "REVOKE" ELSE "WARN"

\* Mutant: a removal leaves the invite link on the row.
BugKeepsLink(m, action, now) ==
  CASE action = "NONE"    -> m
    [] action = "RESTORE" -> [m EXCEPT !.warnings = 0, !.lastWarning = NoTime]
    [] action = "WARN"    -> [m EXCEPT !.warnings = m.warnings + 1, !.lastWarning = now]
    [] action = "REVOKE"  -> [m EXCEPT !.status = "REVOKED", !.revokedAt = now]

\* Mutant: a recovery clears the count and leaves the time of the last warning.
BugKeepsWarningTime(m, action, now) ==
  CASE action = "NONE"    -> m
    [] action = "RESTORE" -> [m EXCEPT !.warnings = 0]
    [] action = "WARN"    -> [m EXCEPT !.warnings = m.warnings + 1, !.lastWarning = now]
    [] action = "REVOKE"  ->
         [m EXCEPT !.status = "REVOKED", !.revokedAt = now, !.link = NoLink]

\* The row _apply leaves behind for each decision.
ApplyDecision(m, action, now) ==
  CASE action = "NONE"    -> m
    [] action = "RESTORE" ->
         [m EXCEPT !.warnings = 0, !.lastWarning = NoTime,
                   !.status = IF m.status = "SUSPENDED" THEN "ACTIVE" ELSE m.status]
    [] action = "WARN"    ->
         [m EXCEPT !.warnings = m.warnings + 1, !.lastWarning = now]
    [] action = "REVOKE"  ->
         [m EXCEPT !.status = "REVOKED", !.revokedAt = now, !.link = NoLink]
=============================================================================
