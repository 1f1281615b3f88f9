-------------------------- MODULE MembershipCourse --------------------------
(***************************************************************************)
(* What the product promises one member of one channel, with the database, *)
(* the transactions and the messages taken away: the member is admitted    *)
(* with an invite link, each compliance pass applies the decision of       *)
(* decide_compliance to the row as it stands, and a member who was removed *)
(* may come back.  MembershipMonitor implements this specification when a  *)
(* single instance runs the sweep.                                         *)
(***************************************************************************)
EXTENDS Compliance

CONSTANTS Grace,            \* config.compliance_grace_period_days
          MaxWarnings,      \* CompliancePolicy.max_warnings
          WarningInterval,  \* CompliancePolicy.warning_interval_days
          Links,            \* the invite links there are
          MaxDay            \* the clock stops here

ASSUME CourseAssumption ==
  /\ Grace \in Nat
  /\ MaxWarnings \in Nat
  /\ WarningInterval \in Nat
  /\ MaxDay \in Nat
  /\ NoLink \notin Links

VARIABLES now,  \* today
          row   \* the membership row

vars == <<now, row>>

Policy == [max_warnings |-> MaxWarnings, warning_interval |-> WarningInterval,
           grace |-> Grace]

Day == 0..MaxDay

Row == [status : Statuses, since : Day \cup {NoTime}, warnings : Nat,
        lastWarning : Day \cup {NoTime}, revokedAt : Day \cup {NoTime},
        link : Links \cup {NoLink}]

\* TypeOK: the clock is within its bound and the row has its columns.
TypeOK == now \in Day /\ row \in Row

Init == /\ now = 0
        /\ row = [status |-> "ABSENT", since |-> NoTime, warnings |-> 0,
                  lastWarning |-> NoTime, revokedAt |-> NoTime, link |-> NoLink]

\* submit_uid accepts somebody who has no membership yet.
Admit == /\ row.status = "ABSENT"
         /\ \E l \in Links :
              row' = [row EXCEPT !.status = "INVITED", !.since = now, !.link = l]
         /\ UNCHANGED now

\* submit_uid accepts a member who had been removed: the count starts over,
\* the row and the day it was created stay.
Readmit == /\ row.status = "REVOKED"
           /\ \E l \in Links :
                row' = [row EXCEPT !.status = "INVITED", !.warnings = 0,
                                   !.lastWarning = NoTime, !.revokedAt = NoTime,
                                   !.link = l]
           /\ UNCHANGED now

\* submit_uid once more for a member whose link has gone stale.
Reissue == /\ row.status = "INVITED"
           /\ \E l \in Links : row' = [row EXCEPT !.link = l]
           /\ UNCHANGED now

\* One compliance pass, begun on day t, that found `reason`.
Pass(reason, t) ==
  /\ row.status # "ABSENT"
  /\ row' = ApplyDecision(row, decide_compliance(row, reason, Policy, t), t)
  /\ UNCHANGED now

Tick == now < MaxDay /\ now' = now + 1 /\ UNCHANGED row

Next == \/ Admit \/ Readmit \/ Reissue \/ Tick
        \/ \E reason \in Reasons, t \in 0..now : Pass(reason, t)

Spec == Init /\ [][Next]_vars

-----------------------------------------------------------------------------
\* compliance.py, "warnings are spaced, counted, and capped": whatever the
\* exchange answers and whenever the passes run, nobody is removed before the
\* onboarding grace and one full warning interval per warning have gone by.
FullCourse ==
  row.status = "REVOKED" =>
    row.revokedAt >= row.since + Grace + MaxWarnings * WarningInterval

\* The cap: no pass counts a warning beyond the last one allowed.
Capped == row.warnings <= MaxWarnings

\* invite_service.py, BUG-01: recorded as invited exactly when a link is recorded.
InvitedIffLinked == (row.status = "INVITED") <=> (row.link # NoLink)

\* The n-th counted warning was sent no earlier than n-1 intervals after the
\* grace ended: what FullCourse needs to be inductive.
Spaced ==
  row.warnings > 0 =>
    row.lastWarning >= row.since + Grace + (row.warnings - 1) * WarningInterval

\* The statuses this repository's code writes, and the fields that go with them.
Shape ==
  /\ row.status \in {"ABSENT", "INVITED", "REVOKED"}
  /\ row.status # "ABSENT" => row.since \in Day
  /\ row.status = "ABSENT" => row.warnings = 0
  /\ row.warnings > 0 <=> row.lastWarning # NoTime

\* The inductive invariant: every fact above together, about the row that the
\* admissions and passes of submit_uid and _apply leave behind.
CourseInv == TypeOK /\ Shape /\ Capped /\ InvitedIffLinked /\ Spaced /\ FullCourse
=============================================================================
