----------------------- MODULE MembershipCourse_proofs -----------------------
(***************************************************************************)
(* CourseInv is inductive, for every grace, warning cap and interval and   *)
(* however long the clock runs; FullCourse, Capped and InvitedIffLinked    *)
(* are conjuncts of it.                                                    *)
(***************************************************************************)
EXTENDS MembershipCourse, TLAPS

\* One more interval after n-1 intervals makes n: the arithmetic behind spacing.
LEMMA OneMoreInterval ==
  ASSUME NEW n \in Int, NEW d \in Int
  PROVE  (n - 1) * d + d = n * d
  OBVIOUS

\* decide_compliance answers with one of the four actions, and acts against a
\* member only after the grace and, once warned, the interval; it removes only
\* at the cap and warns only below it.
LEMMA DecisionFacts ==
  ASSUME CourseInv, NEW reason \in Reasons, NEW t \in Day,
         NEW action, action = decide_compliance(row, reason, Policy, t)
  PROVE  /\ action \in Actions
         /\ action \in {"WARN", "REVOKE"} =>
              /\ t >= row.since + Grace
              /\ row.lastWarning # NoTime => t >= row.lastWarning + WarningInterval
         /\ action = "WARN" => row.warnings < MaxWarnings
         /\ action = "REVOKE" => row.warnings >= MaxWarnings
         /\ action # "NONE" => row.status = "INVITED"
  <1>1. /\ row.warnings \in Nat /\ MaxWarnings \in Nat
        /\ row.since \in Int /\ row.lastWarning \in Int
        /\ Grace \in Nat /\ WarningInterval \in Nat /\ t \in Int
    BY CourseAssumption DEF CourseInv, TypeOK, Row, Day, NoTime
  <1>2. row.status \in {"ABSENT", "INVITED", "REVOKED"}
    BY DEF CourseInv, Shape
  <1> QED
    BY <1>1, <1>2 DEF decide_compliance, Policy, InGrace, TooSoon, Monitored, Actions

\* The initial state, nobody admitted yet, satisfies the invariant.
LEMMA InitCourse == Init => CourseInv
  BY CourseAssumption
  DEF Init, CourseInv, TypeOK, Row, Day, Statuses, Shape, Capped,
      InvitedIffLinked, Spaced, FullCourse, NoTime, NoLink

\* A compliance pass keeps the invariant: one case per action of _apply.
LEMMA PassCourse ==
  ASSUME CourseInv, NEW reason \in Reasons, NEW t \in 0..now, Pass(reason, t)
  PROVE  CourseInv'
  <1> DEFINE action == decide_compliance(row, reason, Policy, t)
  <1>1. t \in Day /\ now' \in Day
    BY CourseAssumption DEF CourseInv, TypeOK, Day, Pass
  <1>2. /\ row \in Row /\ row.warnings \in Nat /\ row.since \in Int
        /\ row.lastWarning \in Int /\ row.revokedAt \in Int
        /\ MaxWarnings \in Nat /\ Grace \in Nat /\ WarningInterval \in Nat
        /\ t \in Int /\ t # NoTime
    BY <1>1, CourseAssumption DEF CourseInv, TypeOK, Row, Day, NoTime
  <1>3. /\ action \in Actions
        /\ action \in {"WARN", "REVOKE"} =>
             /\ t >= row.since + Grace
             /\ row.lastWarning # NoTime => t >= row.lastWarning + WarningInterval
        /\ action = "WARN" => row.warnings < MaxWarnings
        /\ action = "REVOKE" => row.warnings >= MaxWarnings
        /\ action # "NONE" => row.status = "INVITED"
    BY <1>1, DecisionFacts
  <1>4. row' = ApplyDecision(row, action, t)
    BY DEF Pass
  <1> HIDE DEF action
  <1>5. CASE action = "NONE"
    <2>1. row' = row
      BY <1>4, <1>5 DEF ApplyDecision
    <2> QED
      BY <1>1, <2>1 DEF CourseInv, TypeOK, Shape, Capped, InvitedIffLinked, Spaced, FullCourse
  <1>6. CASE action = "RESTORE"
    <2>1. row' = [row EXCEPT !.warnings = 0, !.lastWarning = NoTime, !.status = row.status]
      BY <1>3, <1>4, <1>6 DEF ApplyDecision
    <2>2. /\ row' \in Row /\ row'.warnings = 0 /\ row'.lastWarning = NoTime
          /\ row'.status = row.status /\ row'.since = row.since
          /\ row'.revokedAt = row.revokedAt /\ row'.link = row.link
      BY <1>2, <2>1 DEF Row
    <2> QED
      BY <1>1, <1>2, <2>2 DEF CourseInv, TypeOK, Shape, Capped, InvitedIffLinked, Spaced, FullCourse
  <1>7. CASE action = "WARN"
    <2>1. row' = [row EXCEPT !.warnings = row.warnings + 1, !.lastWarning = t]
      BY <1>4, <1>7 DEF ApplyDecision
    <2>2. /\ row' \in Row /\ row'.warnings = row.warnings + 1 /\ row'.lastWarning = t
          /\ row'.status = row.status /\ row'.since = row.since
          /\ row'.revokedAt = row.revokedAt /\ row'.link = row.link
      <3>1. row.warnings + 1 \in Nat /\ t \in Day \cup {NoTime}
        BY <1>1, <1>2
      <3> QED
        BY <1>2, <2>1, <3>1 DEF Row
    <2>3. Spaced'
      <3>1. CASE row.warnings = 0
        BY <1>2, <1>3, <1>7, <2>2, <3>1 DEF Spaced
      <3>2. CASE row.warnings > 0
        <4>1. row.lastWarning >= row.since + Grace + (row.warnings - 1) * WarningInterval
          BY <3>2 DEF CourseInv, Spaced
        <4>2. row.lastWarning # NoTime
          BY <3>2 DEF CourseInv, Shape
        <4>3. t >= row.since + Grace + ((row.warnings - 1) * WarningInterval + WarningInterval)
          BY <1>2, <1>3, <1>7, <4>1, <4>2
        <4>4. (row.warnings - 1) * WarningInterval + WarningInterval
                = row.warnings * WarningInterval
          BY <1>2, OneMoreInterval
        <4>5. (row.warnings + 1) - 1 = row.warnings
          BY <1>2
        <4> QED
          BY <2>2, <4>3, <4>4, <4>5 DEF Spaced
      <3> QED
        BY <1>2, <3>1, <3>2
    <2>4. Shape' /\ Capped' /\ InvitedIffLinked'
      BY <1>2, <1>3, <1>7, <2>2 DEF CourseInv, Shape, Capped, InvitedIffLinked
    <2>5. FullCourse'
      BY <1>3, <1>7, <2>2 DEF FullCourse
    <2> QED
      BY <1>1, <2>2, <2>3, <2>4, <2>5 DEF CourseInv, TypeOK
  <1>8. CASE action = "REVOKE"
    <2>1. row' = [row EXCEPT !.status = "REVOKED", !.revokedAt = t, !.link = NoLink]
      BY <1>4, <1>8 DEF ApplyDecision
    <2>2. /\ row' \in Row /\ row'.warnings = row.warnings /\ row'.lastWarning = row.lastWarning
          /\ row'.status = "REVOKED" /\ row'.since = row.since
          /\ row'.revokedAt = t /\ row'.link = NoLink
      BY <1>1, <1>2, <2>1 DEF Row, Statuses
    <2>3. row.warnings = MaxWarnings
      BY <1>2, <1>3, <1>8 DEF CourseInv, Capped
    <2>4. t >= row.since + Grace + MaxWarnings * WarningInterval
      <3>1. CASE row.warnings = 0
        BY <1>2, <1>3, <1>8, <2>3, <3>1
      <3>2. CASE row.warnings > 0
        <4>1. row.lastWarning >= row.since + Grace + (row.warnings - 1) * WarningInterval
          BY <3>2 DEF CourseInv, Spaced
        <4>2. row.lastWarning # NoTime
          BY <3>2 DEF CourseInv, Shape
        <4>3. t >= row.since + Grace + ((row.warnings - 1) * WarningInterval + WarningInterval)
          BY <1>2, <1>3, <1>8, <4>1, <4>2
        <4>4. (row.warnings - 1) * WarningInterval + WarningInterval
                = row.warnings * WarningInterval
          BY <1>2, OneMoreInterval
        <4> QED
          BY <2>3, <4>3, <4>4
      <3> QED
        BY <1>2, <3>1, <3>2
    <2> QED
      BY <1>1, <1>3, <1>8, <2>2, <2>4
      DEF CourseInv, TypeOK, Shape, Capped, InvitedIffLinked, Spaced, FullCourse
  <1> QED
    BY <1>3, <1>5, <1>6, <1>7, <1>8 DEF Actions

\* Every step keeps the invariant: admissions, passes and the passing of days.
LEMMA NextCourse == CourseInv /\ [Next]_vars => CourseInv'
  <1> SUFFICES ASSUME CourseInv, [Next]_vars PROVE CourseInv'
    OBVIOUS
  <1>0. /\ MaxWarnings \in Nat /\ Grace \in Nat /\ WarningInterval \in Nat /\ MaxDay \in Nat
        /\ NoLink \notin Links /\ now \in Day /\ row \in Row
    BY CourseAssumption DEF CourseInv, TypeOK
  <1>1. CASE Admit
    <2>1. PICK l \in Links :
            row' = [row EXCEPT !.status = "INVITED", !.since = now, !.link = l]
      BY <1>1 DEF Admit
    <2>2. /\ row' \in Row /\ row'.warnings = 0 /\ row'.lastWarning = row.lastWarning
          /\ row'.status = "INVITED" /\ row'.since = now /\ row'.link = l /\ l # NoLink
      BY <1>0, <1>1, <2>1 DEF Row, Statuses, Admit, CourseInv, Shape
    <2> QED
      BY <1>0, <1>1, <2>2
      DEF CourseInv, TypeOK, Shape, Capped, InvitedIffLinked, Spaced, FullCourse, Admit
  <1>2. CASE Readmit
    <2>1. PICK l \in Links :
            row' = [row EXCEPT !.status = "INVITED", !.warnings = 0,
                               !.lastWarning = NoTime, !.revokedAt = NoTime, !.link = l]
      BY <1>2 DEF Readmit
    <2>2. /\ row' \in Row /\ row'.warnings = 0 /\ row'.lastWarning = NoTime
          /\ row'.status = "INVITED" /\ row'.since = row.since /\ row'.link = l /\ l # NoLink
      BY <1>0, <2>1 DEF Row, Statuses
    <2> QED
      BY <1>0, <1>2, <2>2
      DEF CourseInv, TypeOK, Shape, Capped, InvitedIffLinked, Spaced, FullCourse, Readmit
  <1>3. CASE Reissue
    <2>1. PICK l \in Links : row' = [row EXCEPT !.link = l]
      BY <1>3 DEF Reissue
    <2>2. /\ row' \in Row /\ row'.warnings = row.warnings /\ row'.lastWarning = row.lastWarning
          /\ row'.status = row.status /\ row'.since = row.since /\ row'.link = l /\ l # NoLink
      BY <1>0, <2>1 DEF Row
    <2> QED
      BY <1>0, <1>3, <2>2
      DEF CourseInv, TypeOK, Shape, Capped, InvitedIffLinked, Spaced, FullCourse, Reissue
  <1>4. CASE Tick
    <2>1. now' \in Day /\ row' = row
      BY <1>0, <1>4 DEF Tick, Day
    <2> QED
      BY <2>1 DEF CourseInv, TypeOK, Shape, Capped, InvitedIffLinked, Spaced, FullCourse
  <1>5. CASE \E reason \in Reasons, t \in 0..now : Pass(reason, t)
    BY <1>5, PassCourse
  <1>6. CASE UNCHANGED vars
    BY <1>6 DEF vars, CourseInv, TypeOK, Shape, Capped, InvitedIffLinked, Spaced, FullCourse
  <1> QED
    BY <1>1, <1>2, <1>3, <1>4, <1>5, <1>6 DEF Next

\* The inductive invariant holds in every reachable state of the course.
THEOREM CourseInvariant == Spec => []CourseInv
  BY InitCourse, NextCourse, PTL DEF Spec

\* Nobody is ever removed before the grace and every warning interval have gone
\* by, for every grace, cap and interval (compliance.py, "warnings are spaced,
\* counted, and capped").
THEOREM NobodyRemovedEarly == Spec => []FullCourse
  <1>1. CourseInv => FullCourse
    BY DEF CourseInv
  <1> QED
    BY <1>1, CourseInvariant, PTL

\* A member is recorded as invited exactly while a link is recorded.
THEOREM InvitedExactlyWithLink == Spec => []InvitedIffLinked
  <1>1. CourseInv => InvitedIffLinked
    BY DEF CourseInv
  <1> QED
    BY <1>1, CourseInvariant, PTL

\* No pass counts a warning beyond the cap.
THEOREM WarningsAreCapped == Spec => []Capped
  <1>1. CourseInv => Capped
    BY DEF CourseInv
  <1> QED
    BY <1>1, CourseInvariant, PTL
=============================================================================
