--------------------------- MODULE VipStore_proofs ---------------------------
(***************************************************************************)
(* What the operators on the shared rows return: facts about VipStore that *)
(* the proofs about the sweeps and about onboarding rest on.               *)
(***************************************************************************)
EXTENDS VipStore, TLAPS

-----------------------------------------------------------------------------
(* Rows. *)

\* An UPDATE of the changed columns leaves a well-formed membership row.
LEMMA MergeType ==
  ASSUME NEW cur \in MemberRow, NEW seen \in MemberRow, NEW new \in MemberRow
  PROVE  Merge(cur, seen, new) \in MemberRow
  <1> DEFINE columns == {"status", "link", "issuedAt", "since", "warnings",
                         "lastWarning", "revokedAt"}
             pick(f) == IF new[f] # seen[f] THEN new[f] ELSE cur[f]
  <1>1. DOMAIN cur = columns
    BY DEF MemberRow
  <1>2. Merge(cur, seen, new) = [f \in columns |-> pick(f)]
    BY <1>1 DEF Merge
  <1>3. /\ pick("status") \in Statuses
        /\ pick("link") \in 0..MaxLinks
        /\ pick("issuedAt") \in Day \cup {NoTime}
        /\ pick("since") \in Day \cup {NoTime}
        /\ pick("warnings") \in Nat
        /\ pick("lastWarning") \in Day \cup {NoTime}
        /\ pick("revokedAt") \in Day \cup {NoTime}
    BY DEF MemberRow
  <1> HIDE DEF pick
  <1>4. [f \in columns |-> pick(f)]
          = [status |-> pick("status"), link |-> pick("link"),
             issuedAt |-> pick("issuedAt"), since |-> pick("since"),
             warnings |-> pick("warnings"), lastWarning |-> pick("lastWarning"),
             revokedAt |-> pick("revokedAt")]
    OBVIOUS
  <1> QED
    BY <1>2, <1>3, <1>4 DEF MemberRow

\* When nobody has written the row since it was read, an UPDATE leaves the row as
\* the session has it.
LEMMA MergeSame ==
  ASSUME NEW cur \in MemberRow, NEW new \in MemberRow
  PROVE  Merge(cur, cur, new) = new
  BY DEF Merge, MemberRow

\* The row nobody has inserted yet is well formed.
LEMMA AbsentRowType == AbsentRow \in MemberRow
  BY StoreAssumption DEF AbsentRow, MemberRow, Statuses, NoLink, NoTime

\* _apply leaves a well-formed row, whatever was decided.
LEMMA ApplyDecisionType ==
  ASSUME NEW m \in MemberRow, NEW action \in Actions, NEW t \in Day
  PROVE  ApplyDecision(m, action, t) \in MemberRow
  <1>1. m.warnings + 1 \in Nat /\ 0 \in Nat
    BY DEF MemberRow
  <1>2. NoLink \in 0..MaxLinks
    BY StoreAssumption DEF NoLink
  <1>3. CASE action = "NONE"
    BY <1>3 DEF ApplyDecision
  <1>4. CASE action = "RESTORE"
    <2>1. (IF m.status = "SUSPENDED" THEN "ACTIVE" ELSE m.status) \in Statuses
      BY DEF MemberRow, Statuses
    <2> QED
      BY <1>1, <1>4, <2>1 DEF ApplyDecision, MemberRow
  <1>5. CASE action = "WARN"
    <2>1. ApplyDecision(m, action, t)
            = [m EXCEPT !.warnings = m.warnings + 1, !.lastWarning = t]
      BY <1>5 DEF ApplyDecision
    <2> QED
      BY <1>1, <2>1 DEF MemberRow
  <1>6. CASE action = "REVOKE"
    BY <1>2, <1>6 DEF ApplyDecision, MemberRow, Statuses
  <1> QED
    BY <1>3, <1>4, <1>5, <1>6 DEF Actions

\* A row that has at most got another link since it was read.
Settled(m, s) ==
  /\ m.status = s.status /\ m.since = s.since /\ m.warnings = s.warnings
  /\ m.lastWarning = s.lastWarning /\ m.revokedAt = s.revokedAt

\* A session that changed nothing writes nothing.
LEMMA MergeNothing ==
  ASSUME NEW cur \in MemberRow, NEW seen
  PROVE  Merge(cur, seen, seen) = cur
  BY DEF Merge, MemberRow

\* A decision taken on a row that has since got at most another link is written
\* as if it had been taken on the row as it is now.
LEMMA MergeDecision ==
  ASSUME NEW cur \in MemberRow, NEW seen \in MemberRow, Settled(cur, seen), seen.link # NoLink,
         NEW action \in Actions, NEW t \in Day
  PROVE  Merge(cur, seen, ApplyDecision(seen, action, t)) = ApplyDecision(cur, action, t)
  <1> DEFINE columns == {"status", "link", "issuedAt", "since", "warnings",
                         "lastWarning", "revokedAt"}
             new == ApplyDecision(seen, action, t)
             pick(f) == IF new[f] # seen[f] THEN new[f] ELSE cur[f]
             row == ApplyDecision(cur, action, t)
  <1>1. new \in MemberRow /\ row \in MemberRow
    BY ApplyDecisionType
  <1>2. Merge(cur, seen, new) = [f \in columns |-> pick(f)]
    BY DEF Merge, MemberRow
  <1>3. \A f \in columns : pick(f) = row[f]
    <2>1. CASE action = "NONE"
      BY <2>1 DEF ApplyDecision
    <2>2. CASE action = "RESTORE"
      BY <2>2 DEF ApplyDecision, Settled, MemberRow
    <2>3. CASE action = "WARN"
      BY <2>3 DEF ApplyDecision, Settled, MemberRow
    <2>4. CASE action = "REVOKE"
      BY <2>4 DEF ApplyDecision, Settled, MemberRow
    <2> QED
      BY <2>1, <2>2, <2>3, <2>4 DEF Actions
  <1>4. row = [f \in columns |-> row[f]]
    BY <1>1 DEF MemberRow
  <1> HIDE DEF pick, row
  <1>5. [f \in columns |-> pick(f)] = [f \in columns |-> row[f]]
    BY <1>3
  <1> QED
    BY <1>2, <1>4, <1>5 DEF row

\* _ensure_membership and InviteService.issue leave well-formed rows.
LEMMA AdmissionType ==
  ASSUME NEW m \in MemberRow, NEW t \in Day, NEW link \in 0..MaxLinks
  PROVE  /\ EnsuredMember(m, t) \in MemberRow
         /\ IssuedMember(m, link, t) \in MemberRow
         /\ IssuedMember(EnsuredMember(m, t), link, t) \in MemberRow
  <1>1. EnsuredMember(m, t) \in MemberRow
    BY DEF EnsuredMember, MemberRow, Statuses
  <1>2. ASSUME NEW r \in MemberRow PROVE IssuedMember(r, link, t) \in MemberRow
    <2>1. (IF r.status = "ACTIVE" THEN "ACTIVE" ELSE "INVITED") \in Statuses
      BY DEF Statuses
    <2> QED
      BY <2>1 DEF IssuedMember, MemberRow
  <1> QED
    BY <1>1, <1>2

\* submit_uid leaves a well-formed account and subscription.
LEMMA AccountType ==
  ASSUME NEW a \in AccountRow, NEW u \in Users, NEW market \in Markets,
         NEW reason \in Reasons
  PROVE  CheckedAccount(a, u, market, reason) \in AccountRow
  BY DEF CheckedAccount, AccountRow, Reasons, Faults

LEMMA SubType ==
  ASSUME NEW s \in SubRow
  PROVE  EnsuredSub(s) \in SubRow
  BY DEF EnsuredSub, SubRow

-----------------------------------------------------------------------------
(* The store. *)

\* Nobody is known yet, and everything has its type.
LEMMA StoreInitType ==
  ASSUME NEW periods, StoreInit(periods)
  PROVE  StoreTypeOK(periods)
  <1>1. now \in Day
    BY StoreAssumption DEF StoreInit, Day
  <1>2. accounts \in [Uids -> AccountRow]
    <2>1. (CHOOSE m \in Markets : TRUE) \in Markets
      BY StoreAssumption
    <2> QED
      BY <2>1 DEF StoreInit, AccountRow
  <1>3. subs \in [Keys -> SubRow] /\ members \in [Keys -> MemberRow]
    BY AbsentRowType DEF StoreInit, SubRow
  <1>4. links \in Seq(Link) /\ Len(links) <= MaxLinks /\ held \subseteq 1..MaxLinks
    BY StoreAssumption DEF StoreInit
  <1>5. chat \in [Keys -> Standings]
    BY DEF StoreInit, Standings
  <1>6. locks \in [RowsOf(periods) -> Procs \cup {NoOne}]
    BY DEF StoreInit
  <1> QED
    BY <1>1, <1>2, <1>3, <1>4, <1>5, <1>6 DEF StoreTypeOK

\* Taking and releasing row locks leaves a lock table.
LEMMA LockType ==
  ASSUME NEW p \in Procs, NEW rows, NEW periods,
         locks \in [RowsOf(periods) -> Procs \cup {NoOne}]
  PROVE  /\ Locked(p, rows) \in [RowsOf(periods) -> Procs \cup {NoOne}]
         /\ Released(p) \in [RowsOf(periods) -> Procs \cup {NoOne}]
  BY DEF Locked, Released

\* A link that was minted is for some key and expires some day.
LEMMA LinkType ==
  ASSUME NEW ls \in Seq(Link), NEW l \in 1..Len(ls)
  PROVE  ls[l] \in Link /\ ls[l].key \in Keys /\ ls[l].expires \in Nat
  <1>1. ls[l] \in Link
    OBVIOUS
  <1> QED
    BY <1>1 DEF Link

\* A new link is appended to those minted before.
LEMMA MintType ==
  ASSUME NEW periods, StoreTypeOK(periods), NEW k \in Keys, Mint(k, now)
  PROVE  /\ links' \in Seq(Link) /\ Len(links') <= MaxLinks
         /\ Len(links') = Len(links) + 1
         /\ Len(links) + 1 \in 0..MaxLinks /\ Len(links) + 1 \in 1..MaxLinks
  <1>1. now + InviteTtl \in Nat
    BY StoreAssumption DEF StoreTypeOK, Day
  <1>2. [key |-> k, expires |-> now + InviteTtl, used |-> FALSE] \in Link
    BY <1>1 DEF Link
  <1>3. links \in Seq(Link) /\ Len(links) \in Nat /\ Len(links) < MaxLinks /\ MaxLinks \in Nat
    BY StoreAssumption DEF StoreTypeOK, Mint
  <1> QED
    BY <1>2, <1>3 DEF Mint

\* evaluate_referral names one of the reasons.
LEMMA ReasonType ==
  ASSUME NEW check, NEW rules, NEW trading
  PROVE  evaluate_referral(check, rules, trading) \in Reasons
  BY DEF evaluate_referral, Reasons

\* Following a link and the passing of a day keep the types.
LEMMA WorldStoreType ==
  ASSUME NEW periods, StoreTypeOK(periods),
         Tick \/ \E k \in Keys, l \in 1..Len(links) : Join(k, l)
  PROVE  StoreTypeOK(periods)'
  <1>1. CASE Tick
    <2>1. now' \in Day
      BY <1>1, StoreAssumption DEF Tick, StoreTypeOK, Day
    <2> QED
      BY <1>1, <2>1 DEF Tick, StoreTypeOK
  <1>2. CASE \E k \in Keys, l \in 1..Len(links) : Join(k, l)
    <2>1. PICK k \in Keys, l \in 1..Len(links) : Join(k, l)
      BY <1>2
    <2>2. chat' \in [Keys -> Standings]
      BY <2>1 DEF Join, StoreTypeOK, Standings
    <2>3. links' \in Seq(Link) /\ Len(links') = Len(links)
      <3>1. links \in Seq(Link) /\ l \in DOMAIN links /\ links[l] \in Link
        BY <2>1 DEF StoreTypeOK
      <3>2. links' = [links EXCEPT ![l] = [links[l] EXCEPT !.used = TRUE]]
        BY <2>1 DEF Join
      <3>3. [links[l] EXCEPT !.used = TRUE] \in Link
        BY <3>1 DEF Link
      <3> QED
        BY <3>1, <3>2, <3>3
    <2> QED
      BY <2>1, <2>2, <2>3 DEF Join, StoreTypeOK
  <1> QED
    BY <1>1, <1>2
=============================================================================
