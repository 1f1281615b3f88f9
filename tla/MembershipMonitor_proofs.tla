---------------------- MODULE MembershipMonitor_proofs ----------------------
(***************************************************************************)
(* Type correctness of the sweep, and the exclusiveness of the period      *)
(* claim, for any number of instances, users, accounts and markets.        *)
(***************************************************************************)
EXTENDS MembershipMonitor, VipStore_proofs

-----------------------------------------------------------------------------
(* What a sweep's operators return. *)

\* decide_compliance names one of the four actions.
LEMMA DecisionType ==
  ASSUME NEW i, NEW k, NEW uid, NEW check
  PROVE  Decision(i, k, uid, check) \in Actions
  BY DEF Decision, decide_compliance, Actions

\* Every sweep's period is one of the periods, and its job row a lockable row.
LEMMA PeriodType ==
  ASSUME TypeOK, NEW i \in Instances
  PROVE  /\ sweep[i] \in Sweep /\ sweep[i].moment \in Day
         /\ PeriodOf(i) \in Periods
         /\ JobRow(i) \in RowsOf(Periods)
         /\ i \in Procs
  <1>1. sweep[i] \in Sweep /\ sweep[i].moment \in Day
    BY DEF TypeOK, Sweep
  <1>2. PeriodOf(i) \in Periods
    BY <1>1 DEF PeriodOf, Periods
  <1>3. i \in Procs
    BY MonitorAssumption
  <1> QED
    BY <1>1, <1>2, <1>3 DEF JobRow, RowsOf

\* An instance that has nothing under way is well formed.
LEMMA IdleType == Idle \in Sweep
  BY AbsentRowType, StoreAssumption DEF Idle, Sweep, Day

-----------------------------------------------------------------------------
(* Type correctness. *)

\* The initial state is well formed.
LEMMA InitType == Init => TypeOK
  <1> SUFFICES ASSUME Init PROVE TypeOK
    OBVIOUS
  <1>1. StoreTypeOK(Periods)
    BY StoreInitType DEF Init
  <1>2. /\ jobs \in [Periods -> {"NONE", "SUCCEEDED"}]
        /\ sweep \in [Instances -> Sweep]
        /\ notices \in [Keys -> [Periods -> 0..MaxNotices]]
        /\ told \in [Keys -> SUBSET Periods]
        /\ aborted \subseteq Periods
        /\ warned \in [Keys -> Nat]
    BY IdleType, MonitorAssumption DEF Init
  <1> QED
    BY <1>1, <1>2 DEF TypeOK

\* Firing, claiming and standing down keep the types.
LEMMA ClaimStepType ==
  ASSUME TypeOK, NEW i \in Instances, StartSweep(i) \/ Claim(i) \/ StandDown(i)
  PROVE  TypeOK'
  <1>0. /\ sweep[i] \in Sweep /\ i \in Procs /\ members \in [Keys -> MemberRow]
        /\ now \in Day /\ sweep \in [Instances -> Sweep]
        /\ locks \in [RowsOf(Periods) -> Procs \cup {NoOne}]
    BY PeriodType DEF TypeOK, StoreTypeOK
  <1>1. CASE StartSweep(i)
    <2>1. sweep' \in [Instances -> Sweep]
      BY <1>0, <1>1 DEF StartSweep, Sweep
    <2> QED
      BY <1>1, <2>1 DEF StartSweep, storeVars, TypeOK, StoreTypeOK
  <1>2. CASE Claim(i)
    <2>1. sweep' \in [Instances -> Sweep]
      BY <1>0, <1>2 DEF Claim, Sweep
    <2>2. locks' \in [RowsOf(Periods) -> Procs \cup {NoOne}]
      BY <1>0, <1>2, LockType DEF Claim
    <2> QED
      BY <1>2, <2>1, <2>2 DEF Claim, TypeOK, StoreTypeOK
  <1>3. CASE StandDown(i)
    <2>1. sweep' \in [Instances -> Sweep]
      BY <1>0, <1>3, IdleType DEF StandDown
    <2> QED
      BY <1>3, <2>1 DEF StandDown, storeVars, TypeOK, StoreTypeOK
  <1> QED
    BY <1>1, <1>2, <1>3

\* The Telegram calls of one member keep the types of what they touch.
LEMMA CalledType ==
  ASSUME TypeOK, NEW i \in Instances, NEW k \in Keys, NEW target, NEW action, NEW n,
         Called(i, k, target, action, n)
  PROVE  /\ chat' \in [Keys -> Standings]
         /\ notices' \in [Keys -> [Periods -> 0..MaxNotices]]
         /\ told' \in [Keys -> SUBSET Periods]
  <1>0. /\ chat \in [Keys -> Standings] /\ PeriodOf(i) \in Periods
        /\ notices \in [Keys -> [Periods -> 0..MaxNotices]] /\ MaxNotices \in Nat
        /\ told \in [Keys -> SUBSET Periods]
    BY PeriodType, MonitorAssumption DEF TypeOK, StoreTypeOK
  <1> DEFINE done == {CallsOf(action)[j] : j \in 1..n}
             after == IF "unban" \in done THEN "out"
                      ELSE IF "ban" \in done THEN "banned" ELSE chat[target]
             count == IF "send" \in done /\ notices[k][PeriodOf(i)] < MaxNotices
                      THEN notices[k][PeriodOf(i)] + 1 ELSE notices[k][PeriodOf(i)]
  <1>1. chat' = [chat EXCEPT ![target] = after]
    BY DEF Called
  <1>2. notices' = [notices EXCEPT ![k] = [notices[k] EXCEPT ![PeriodOf(i)] = count]]
    BY DEF Called
  <1>3. target \in Keys => after \in Standings
    BY <1>0 DEF Standings
  <1>4. count \in 0..MaxNotices
    BY <1>0
  <1> HIDE DEF after, count
  <1>5. told' \in [Keys -> SUBSET Periods]
    BY <1>0 DEF Called
  <1> QED
    BY <1>0, <1>1, <1>2, <1>3, <1>4, <1>5

\* Working on one member keeps the types.
LEMMA ProcessType ==
  ASSUME TypeOK, NEW i \in Instances, NEW k \in Keys, NEW uid \in Uids,
         NEW check \in Checks, ProcessMember(i, k, uid, check)
  PROVE  TypeOK'
  <1> DEFINE action == Decision(i, k, uid, check)
             target == Target(k, uid)
             s == sweep[i]
             ended == IF action = "REVOKE" /\ subs[target].n > 0
                      THEN s.ended \cup {target} ELSE s.ended
             shots == IF check.answered THEN s.shots \cup {uid} ELSE s.shots
             row == ApplyDecision(s.new[k], action, s.moment)
  <1>0. /\ s \in Sweep /\ s.moment \in Day /\ i \in Procs
        /\ sweep \in [Instances -> Sweep] /\ accounts \in [Uids -> AccountRow]
        /\ locks \in [RowsOf(Periods) -> Procs \cup {NoOne}]
    BY PeriodType DEF TypeOK, StoreTypeOK
  <1>1. action \in Actions
    BY DecisionType
  <1>2. target \in Keys
    BY <1>0 DEF Target, Keys, AccountRow
  <1>3. row \in MemberRow
    BY <1>0, <1>1, ApplyDecisionType DEF Sweep
  <1>4. /\ chat' \in [Keys -> Standings] /\ notices' \in [Keys -> [Periods -> 0..MaxNotices]]
        /\ told' \in [Keys -> SUBSET Periods]
    BY CalledType DEF ProcessMember
  <1>5. locks' \in [RowsOf(Periods) -> Procs \cup {NoOne}]
    BY <1>0, LockType DEF ProcessMember
  <1>6. sweep' = [sweep EXCEPT ![i] =
           [s EXCEPT !.todo = s.todo \ {k}, !.new = [s.new EXCEPT ![k] = row],
                     !.ended = ended, !.shots = shots]]
    BY DEF ProcessMember
  <1>7. ended \in SUBSET Keys /\ shots \in SUBSET Uids /\ s.todo \ {k} \in SUBSET Keys
    BY <1>0, <1>2 DEF Sweep
  <1>8. [s.new EXCEPT ![k] = row] \in [Keys -> MemberRow]
    BY <1>0, <1>3 DEF Sweep
  <1>9. UNCHANGED <<now, accounts, subs, members, links, held, jobs, aborted, warned>>
    BY DEF ProcessMember
  <1> HIDE DEF row, ended, shots, s
  <1>10. sweep' \in [Instances -> Sweep]
    BY <1>0, <1>6, <1>7, <1>8 DEF Sweep
  <1> QED
    BY <1>4, <1>5, <1>9, <1>10 DEF TypeOK, StoreTypeOK

\* A rollback keeps the types.
LEMMA RollbackType ==
  ASSUME TypeOK, NEW i \in Instances, Rollback(i),
         chat' \in [Keys -> Standings],
         notices' \in [Keys -> [Periods -> 0..MaxNotices]],
         told' \in [Keys -> SUBSET Periods]
  PROVE  TypeOK'
  <1>0. /\ PeriodOf(i) \in Periods /\ i \in Procs /\ sweep \in [Instances -> Sweep]
        /\ locks \in [RowsOf(Periods) -> Procs \cup {NoOne}]
    BY PeriodType DEF TypeOK, StoreTypeOK
  <1>1. sweep' \in [Instances -> Sweep]
    BY <1>0, IdleType DEF Rollback
  <1>2. locks' \in [RowsOf(Periods) -> Procs \cup {NoOne}]
    BY <1>0, LockType DEF Rollback
  <1>3. aborted' \subseteq Periods
    BY <1>0 DEF Rollback, TypeOK
  <1> QED
    BY <1>1, <1>2, <1>3 DEF Rollback, TypeOK, StoreTypeOK

\* The commit keeps the types.
LEMMA FinishType ==
  ASSUME TypeOK, NEW i \in Instances, FinishSweep(i)
  PROVE  TypeOK'
  <1>0. /\ PeriodOf(i) \in Periods /\ i \in Procs /\ sweep \in [Instances -> Sweep]
        /\ sweep[i] \in Sweep /\ members \in [Keys -> MemberRow]
        /\ locks \in [RowsOf(Periods) -> Procs \cup {NoOne}]
        /\ warned \in [Keys -> Nat] /\ subs \in [Keys -> SubRow]
        /\ jobs \in [Periods -> {"NONE", "SUCCEEDED"}]
    BY PeriodType DEF TypeOK, StoreTypeOK
  <1>1. members' \in [Keys -> MemberRow]
    <2>1. ASSUME NEW k \in Keys
          PROVE  Merge(members[k], sweep[i].seen[k], sweep[i].new[k]) \in MemberRow
      BY <1>0, MergeType DEF Sweep
    <2> QED
      BY <2>1 DEF FinishSweep
  <1>2. subs' \in [Keys -> SubRow]
    BY <1>0 DEF FinishSweep, SubRow
  <1>3. jobs' \in [Periods -> {"NONE", "SUCCEEDED"}]
    BY <1>0 DEF FinishSweep
  <1>4. locks' \in [RowsOf(Periods) -> Procs \cup {NoOne}]
    BY <1>0, LockType DEF FinishSweep
  <1>5. sweep' \in [Instances -> Sweep]
    BY <1>0, IdleType DEF FinishSweep
  <1>6. warned' \in [Keys -> Nat]
    BY <1>0 DEF FinishSweep
  <1> QED
    BY <1>1, <1>2, <1>3, <1>4, <1>5, <1>6 DEF FinishSweep, TypeOK, StoreTypeOK

\* Onboarding keeps the types.
LEMMA EnrolType ==
  ASSUME TypeOK, NEW u \in Users, NEW market \in Markets, NEW uid \in Uids,
         NEW check \in Checks, Enrol(u, market, uid, check)
  PROVE  TypeOK'
  <1> DEFINE k == <<u, market>>
             reason == evaluate_referral(check, Programs[market], FALSE)
             row == EnsuredMember(members[k], now)
             link == Len(links) + 1
  <1>0. /\ k \in Keys /\ now \in Day /\ members \in [Keys -> MemberRow]
        /\ accounts \in [Uids -> AccountRow] /\ subs \in [Keys -> SubRow]
        /\ links \in Seq(Link) /\ Len(links) <= MaxLinks /\ Len(links) \in Nat
        /\ held \subseteq 1..MaxLinks /\ MaxLinks \in Nat
        /\ warned \in [Keys -> Nat]
    BY StoreAssumption DEF TypeOK, StoreTypeOK, Keys
  <1>1. reason \in Reasons
    BY ReasonType
  <1>2. accounts' \in [Uids -> AccountRow]
    BY <1>0, <1>1, AccountType DEF Enrol
  <1>3. UNCHANGED <<now, chat, locks, jobs, sweep, notices, told, aborted>>
    BY DEF Enrol
  <1>4. row \in MemberRow
    BY <1>0, AdmissionType, StoreAssumption DEF NoLink
  <1>5. CASE reason # "ELIGIBLE"
    <2>1. UNCHANGED <<subs, members, links, held, warned>>
      BY <1>5 DEF Enrol
    <2> QED
      BY <1>2, <1>3, <2>1 DEF TypeOK, StoreTypeOK
  <1>6. CASE reason = "ELIGIBLE"
    <2>1. /\ subs' = [subs EXCEPT ![k] = EnsuredSub(subs[k])]
          /\ held' = held \cup {members'[k].link}
      BY <1>6 DEF Enrol
    <2>2. \/ LiveLink(row, now) /\ links' = links /\ members' = [members EXCEPT ![k] = row]
          \/ Mint(k, now) /\ members' = [members EXCEPT ![k] = IssuedMember(row, link, now)]
      BY <1>6 DEF Enrol
    <2>3. warned' = warned \/ warned' = [warned EXCEPT ![k] = 0]
      BY <1>6 DEF Enrol
    <2>4. link \in 0..MaxLinks => IssuedMember(row, link, now) \in MemberRow
      BY <1>0, AdmissionType
    <2>5. IssuedMember(row, link, now).link = link
      BY <1>4 DEF IssuedMember, MemberRow
    <2>6. LiveLink(row, now) => row.link \in 1..MaxLinks
      BY <1>4, <1>0 DEF LiveLink, MemberRow, NoLink
    <2>7. Mint(k, now) => /\ links' \in Seq(Link) /\ Len(links') <= MaxLinks
                          /\ link \in 1..MaxLinks
      BY <1>0, MintType DEF TypeOK
    <2> DEFINE issued == IssuedMember(row, link, now)
    <2> HIDE DEF k, row, issued
    <2>8. subs' \in [Keys -> SubRow]
      BY <1>0, <2>1, SubType
    <2>9. /\ members' \in [Keys -> MemberRow]
          /\ links' \in Seq(Link) /\ Len(links') <= MaxLinks
          /\ held' \subseteq 1..MaxLinks
      <3>1. CASE LiveLink(row, now) /\ links' = links /\ members' = [members EXCEPT ![k] = row]
        BY <1>0, <1>4, <2>1, <2>6, <3>1
      <3>2. CASE Mint(k, now) /\ members' = [members EXCEPT ![k] = issued]
        <4>1. issued \in MemberRow /\ issued.link \in 1..MaxLinks
          BY <1>0, <2>4, <2>5, <2>7, <3>2 DEF issued
        <4>2. members' \in [Keys -> MemberRow] /\ members'[k] = issued
          BY <1>0, <3>2, <4>1
        <4> QED
          BY <1>0, <2>1, <2>7, <3>2, <4>1, <4>2
      <3> QED
        BY <2>2, <3>1, <3>2 DEF issued
    <2>10. warned' \in [Keys -> Nat]
      <3>1. warned \in [Keys -> Nat] /\ 0 \in Nat
        BY <1>0
      <3> QED
        BY <2>3, <3>1
    <2> QED
      BY <1>2, <1>3, <2>8, <2>9, <2>10 DEF TypeOK, StoreTypeOK
  <1> QED
    BY <1>5, <1>6

\* Following a link and the passing of a day keep the types.
LEMMA WorldType ==
  ASSUME TypeOK, JoinChannel \/ DayPasses
  PROVE  TypeOK'
  <1>1. StoreTypeOK(Periods)'
    BY WorldStoreType DEF TypeOK, JoinChannel, DayPasses
  <1> QED
    BY <1>1 DEF JoinChannel, DayPasses, monitorVars, TypeOK

\* A sweep that Telegram or the database fails, and a crash, keep the types.
LEMMA FailureType ==
  ASSUME TypeOK, NEW i \in Instances, Rollback(i),
         \/ UNCHANGED <<chat, notices, told>>
         \/ \E k \in Keys : \E target, action, n : Called(i, k, target, action, n)
  PROVE  TypeOK'
  <1>1. /\ chat' \in [Keys -> Standings]
        /\ notices' \in [Keys -> [Periods -> 0..MaxNotices]]
        /\ told' \in [Keys -> SUBSET Periods]
    BY CalledType DEF TypeOK, StoreTypeOK
  <1> QED
    BY <1>1, RollbackType

\* A failing Telegram call is a rollback after some of the calls.
LEMMA TelegramFailsType ==
  ASSUME TypeOK, NEW i \in Instances, NEW k \in Keys, NEW uid \in Uids, NEW check \in Checks,
         TelegramFails(i, k, uid, check)
  PROVE  TypeOK'
  <1>1. PICK n \in 0..Len(CallsOf(Decision(i, k, uid, check))) :
          Called(i, k, Target(k, uid), Decision(i, k, uid, check), n)
    BY DEF TelegramFails
  <1>2. Rollback(i)
    BY DEF TelegramFails
  <1> QED
    BY <1>1, <1>2, FailureType

\* Every step keeps the types.
LEMMA NextType == TypeOK /\ [Next]_vars => TypeOK'
  <1> SUFFICES ASSUME TypeOK, [Next]_vars PROVE TypeOK'
    OBVIOUS
  <1>1. CASE UNCHANGED vars
    BY <1>1 DEF vars, storeVars, monitorVars, TypeOK, StoreTypeOK
  <1>2. ASSUME NEW i \in Instances, StartSweep(i) \/ Claim(i) \/ StandDown(i)
        PROVE  TypeOK'
    BY <1>2, ClaimStepType
  <1>3. ASSUME NEW i \in Instances, Crash(i) \/ DeadlockVictim(i)
        PROVE  TypeOK'
    <2>1. Rollback(i) /\ UNCHANGED <<chat, notices, told>>
      BY <1>3 DEF Crash, DeadlockVictim
    <2> QED
      BY <2>1, FailureType
  <1>4. ASSUME NEW i \in Instances, NEW k \in Keys, NEW uid \in Uids, NEW check \in Checks,
               \/ ProcessMember(i, k, uid, check) \/ SnapshotClash(i, k, uid, check)
               \/ TelegramFails(i, k, uid, check)
        PROVE  TypeOK'
    <2>1. CASE ProcessMember(i, k, uid, check)
      BY <2>1, ProcessType
    <2>2. CASE SnapshotClash(i, k, uid, check)
      <3>1. Rollback(i) /\ UNCHANGED <<chat, notices, told>>
        BY <2>2 DEF SnapshotClash
      <3> QED
        BY <3>1, FailureType
    <2>3. CASE TelegramFails(i, k, uid, check)
      BY <2>3, TelegramFailsType
    <2> QED
      BY <1>4, <2>1, <2>2, <2>3
  <1>5. ASSUME NEW i \in Instances, FinishSweep(i) PROVE TypeOK'
    BY <1>5, FinishType
  <1>6. ASSUME NEW u \in Users, NEW m \in Markets, NEW uid \in Uids, NEW check \in Checks,
               Enrol(u, m, uid, check)
        PROVE  TypeOK'
    BY <1>6, EnrolType
  <1>7. CASE JoinChannel \/ DayPasses
    BY <1>7, WorldType
  <1> QED
    BY <1>1, <1>2, <1>3, <1>4, <1>5, <1>6, <1>7 DEF Next, Advance

\* Every reachable state of the sweeps, however many instances run them and
\* whatever fails, is well formed: no handler writes a column a value of the
\* wrong kind, and no counter or link number leaves its range.
THEOREM TypesHold == Spec => []TypeOK
  <1> QED
    BY InitType, NextType, PTL DEF Spec

-----------------------------------------------------------------------------
(* The period claim is exclusive. *)

\* The owner of a lock is one transaction: two sweeps that hold the keys of
\* their job rows work on different periods.
LEMMA ClaimsDiffer ==
  ASSUME HoldsClaim, NEW i \in Instances, NEW j \in Instances, i # j,
         Running(i), Running(j)
  PROVE  PeriodOf(i) # PeriodOf(j)
  BY DEF HoldsClaim, JobRow

\* An instance whose own transaction does not move goes on holding its claim as
\* long as its job row stays locked and its period uncommitted.
LEMMA OthersKeepClaim ==
  ASSUME HoldsClaim, NEW i \in Instances,
         \A j \in Instances \ {i} : sweep'[j] = sweep[j],
         \A j \in Instances \ {i} : Running(j) =>
            locks'[JobRow(j)] = j /\ jobs'[PeriodOf(j)] = "NONE",
         Running(i)' => locks'[JobRow(i)'] = i /\ jobs'[PeriodOf(i)'] = "NONE"
  PROVE  HoldsClaim'
  <1> SUFFICES ASSUME NEW j \in Instances, Running(j)'
               PROVE  locks'[JobRow(j)'] = j /\ jobs'[PeriodOf(j)'] = "NONE"
    BY DEF HoldsClaim
  <1>1. CASE j = i
    BY <1>1
  <1>2. CASE j # i
    <2>1. Running(j) /\ JobRow(j)' = JobRow(j) /\ PeriodOf(j)' = PeriodOf(j)
      BY <1>2 DEF Running, JobRow, PeriodOf
    <2> QED
      BY <1>2, <2>1
  <1> QED
    BY <1>1, <1>2

\* A claim is granted only while nobody holds the key.
LEMMA ClaimKeepsClaims ==
  ASSUME ClaimInv, NEW i \in Instances, Claim(i)
  PROVE  HoldsClaim'
  <1>0. /\ HoldsClaim /\ TypeOK /\ JobRow(i) \in RowsOf(Periods)
        /\ sweep \in [Instances -> Sweep] /\ sweep[i] \in Sweep
        /\ DOMAIN locks = RowsOf(Periods)
    BY PeriodType DEF ClaimInv, TypeOK, StoreTypeOK
  <1>1. sweep'[i].moment = sweep[i].moment
    BY <1>0 DEF Claim, Sweep
  <1>2. JobRow(i)' = JobRow(i) /\ PeriodOf(i)' = PeriodOf(i)
    BY <1>1 DEF JobRow, PeriodOf
  <1>3. locks'[JobRow(i)] = i /\ jobs'[PeriodOf(i)] = "NONE"
    BY <1>0 DEF Claim, Locked
  <1>4. \A j \in Instances \ {i} : sweep'[j] = sweep[j]
    BY <1>0 DEF Claim
  <1>5. ASSUME NEW j \in Instances \ {i}, Running(j)
        PROVE  locks'[JobRow(j)] = j /\ jobs'[PeriodOf(j)] = "NONE"
    <2>1. locks[JobRow(j)] = j /\ jobs[PeriodOf(j)] = "NONE" /\ j # NoOne
      BY <1>0, <1>5, MonitorAssumption, StoreAssumption DEF HoldsClaim
    <2>2. locks[JobRow(i)] \in {NoOne, i}
      BY DEF Claim, Free
    <2>3. JobRow(j) # JobRow(i)
      BY <1>5, <2>1, <2>2
    <2>4. JobRow(j) \in DOMAIN locks
      BY <1>0, PeriodType
    <2>5. locks' = Locked(i, {JobRow(i)}) /\ jobs' = jobs
      BY DEF Claim
    <2> QED
      BY <2>1, <2>3, <2>4, <2>5 DEF Locked
  <1> QED
    BY <1>0, <1>2, <1>3, <1>4, <1>5, OthersKeepClaim

\* Working on a member locks no job row.
LEMMA ProcessKeepsClaims ==
  ASSUME ClaimInv, NEW i \in Instances, NEW k \in Keys, NEW uid \in Uids,
         NEW check \in Checks, ProcessMember(i, k, uid, check)
  PROVE  HoldsClaim'
  <1> DEFINE rows == RowsWritten(i, k, uid, Decision(i, k, uid, check))
  <1>0. /\ HoldsClaim /\ TypeOK /\ sweep \in [Instances -> Sweep] /\ sweep[i] \in Sweep
        /\ DOMAIN locks = RowsOf(Periods)
    BY PeriodType DEF ClaimInv, TypeOK, StoreTypeOK
  <1>1. Running(i) /\ locks' = Locked(i, rows) /\ jobs' = jobs
    BY DEF ProcessMember, CanProcess
  <1>2. \A j \in Instances : JobRow(j) \notin rows
    BY DEF JobRow, RowsWritten
  <1>3. \A j \in Instances : locks'[JobRow(j)] = locks[JobRow(j)]
    BY <1>0, <1>1, <1>2, PeriodType DEF Locked
  <1>4. sweep'[i].moment = sweep[i].moment /\ \A j \in Instances \ {i} : sweep'[j] = sweep[j]
    BY <1>0 DEF ProcessMember, Sweep
  <1>5. JobRow(i)' = JobRow(i) /\ PeriodOf(i)' = PeriodOf(i)
    BY <1>4 DEF JobRow, PeriodOf
  <1>6. \A j \in Instances : Running(j) =>
          locks'[JobRow(j)] = j /\ jobs'[PeriodOf(j)] = "NONE"
    BY <1>0, <1>1, <1>3 DEF HoldsClaim
  <1> QED
    BY <1>0, <1>1, <1>4, <1>5, <1>6, OthersKeepClaim

\* A transaction that ends releases its own locks and nobody else's.
LEMMA ReleaseKeepsLocks ==
  ASSUME ClaimInv, NEW i \in Instances, NEW j \in Instances \ {i}, Running(j)
  PROVE  Released(i)[JobRow(j)] = j
  <1>1. JobRow(j) \in DOMAIN locks
    BY PeriodType DEF ClaimInv, TypeOK, StoreTypeOK
  <1>2. locks[JobRow(j)] = j
    BY DEF ClaimInv, HoldsClaim
  <1> QED
    BY <1>1, <1>2 DEF Released

\* Whether it is rolled back or committed, a sweep that ends leaves the others
\* their claims.
LEMMA EndKeepsClaims ==
  ASSUME ClaimInv, NEW i \in Instances, Rollback(i) \/ FinishSweep(i)
  PROVE  HoldsClaim'
  <1>0. HoldsClaim /\ TypeOK /\ sweep \in [Instances -> Sweep]
        /\ jobs \in [Periods -> {"NONE", "SUCCEEDED"}] /\ PeriodOf(i) \in Periods
    BY PeriodType DEF ClaimInv, TypeOK
  <1>1. locks' = Released(i) /\ sweep' = [sweep EXCEPT ![i] = Idle]
    BY DEF Rollback, FinishSweep
  <1>2. ~Running(i)' /\ \A j \in Instances \ {i} : sweep'[j] = sweep[j]
    BY <1>0, <1>1 DEF Running, Idle
  <1>3. ASSUME NEW j \in Instances \ {i}, Running(j)
        PROVE  locks'[JobRow(j)] = j /\ jobs'[PeriodOf(j)] = "NONE"
    <2>1. locks'[JobRow(j)] = j
      BY <1>1, <1>3, ReleaseKeepsLocks
    <2>2. jobs[PeriodOf(j)] = "NONE"
      BY <1>0, <1>3 DEF HoldsClaim
    <2>3. CASE Rollback(i)
      BY <2>1, <2>2, <2>3 DEF Rollback
    <2>4. CASE FinishSweep(i)
      <3>1. Running(i) /\ jobs' = [jobs EXCEPT ![PeriodOf(i)] = "SUCCEEDED"]
        BY <2>4 DEF FinishSweep
      <3>2. PeriodOf(j) # PeriodOf(i)
        BY <1>0, <1>3, <3>1, ClaimsDiffer
      <3>3. PeriodOf(j) \in Periods
        BY <1>0, PeriodType
      <3> QED
        BY <1>0, <2>1, <2>2, <3>1, <3>2, <3>3
    <2> QED
      BY <2>3, <2>4
  <1> QED
    BY <1>0, <1>2, <1>3, OthersKeepClaim

\* Every step preserves the inductive invariant.
LEMMA NextClaim == ClaimInv /\ [Next]_vars => ClaimInv'
  <1> SUFFICES ASSUME ClaimInv, [Next]_vars PROVE HoldsClaim'
    BY NextType DEF ClaimInv
  <1>0. HoldsClaim /\ TypeOK
    BY DEF ClaimInv
  <1>1. ASSUME UNCHANGED <<sweep, locks, jobs>> PROVE HoldsClaim'
    BY <1>0, <1>1 DEF HoldsClaim, Running, JobRow, PeriodOf
  <1>2. ASSUME NEW i \in Instances, StartSweep(i) \/ StandDown(i) PROVE HoldsClaim'
    <2>1. locks' = locks /\ jobs' = jobs
      BY <1>2 DEF StartSweep, StandDown, storeVars
    <2>2. ~Running(i)' /\ \A j \in Instances \ {i} : sweep'[j] = sweep[j]
      <3>1. sweep \in [Instances -> Sweep] /\ sweep[i] \in Sweep
        BY <1>0, PeriodType DEF TypeOK
      <3>2. CASE StartSweep(i)
        BY <3>1, <3>2 DEF StartSweep, Running, Sweep
      <3>3. CASE StandDown(i)
        BY <3>1, <3>3 DEF StandDown, Running, Idle
      <3> QED
        BY <1>2, <3>2, <3>3
    <2>3. \A j \in Instances : Running(j) =>
            locks'[JobRow(j)] = j /\ jobs'[PeriodOf(j)] = "NONE"
      BY <1>0, <2>1 DEF HoldsClaim
    <2> QED
      BY <1>0, <2>2, <2>3, OthersKeepClaim
  <1>3. ASSUME NEW i \in Instances, Claim(i) PROVE HoldsClaim'
    BY <1>3, ClaimKeepsClaims
  <1>4. ASSUME NEW i \in Instances, Rollback(i) \/ FinishSweep(i) PROVE HoldsClaim'
    BY <1>4, EndKeepsClaims
  <1>5. ASSUME NEW i \in Instances, Crash(i) \/ DeadlockVictim(i) PROVE HoldsClaim'
    BY <1>4, <1>5 DEF Crash, DeadlockVictim
  <1>6. ASSUME NEW i \in Instances, NEW k \in Keys, NEW uid \in Uids, NEW check \in Checks,
               \/ ProcessMember(i, k, uid, check) \/ SnapshotClash(i, k, uid, check)
               \/ TelegramFails(i, k, uid, check)
        PROVE  HoldsClaim'
    <2>1. CASE ProcessMember(i, k, uid, check)
      BY <2>1, ProcessKeepsClaims
    <2>2. CASE SnapshotClash(i, k, uid, check) \/ TelegramFails(i, k, uid, check)
      BY <1>4, <2>2 DEF SnapshotClash, TelegramFails
    <2> QED
      BY <1>6, <2>1, <2>2
  <1>7. ASSUME NEW u \in Users, NEW m \in Markets, NEW uid \in Uids, NEW check \in Checks,
               Enrol(u, m, uid, check)
        PROVE  HoldsClaim'
    <2>1. UNCHANGED <<sweep, locks, jobs>>
      BY <1>7 DEF Enrol
    <2> QED
      BY <1>1, <2>1
  <1>8. CASE JoinChannel \/ DayPasses \/ UNCHANGED vars
    <2>1. UNCHANGED <<sweep, locks, jobs>>
      BY <1>8 DEF JoinChannel, Join, DayPasses, Tick, vars, storeVars, monitorVars
    <2> QED
      BY <1>1, <2>1
  <1> QED
    BY <1>2, <1>3, <1>4, <1>5, <1>6, <1>7, <1>8 DEF Next, Advance

\* Whoever works on a period holds the key of its job row and finds no committed
\* job row there.
THEOREM ClaimInvariant == Spec => []ClaimInv
  <1>1. Init => ClaimInv
    <2> SUFFICES ASSUME Init PROVE HoldsClaim
      BY InitType DEF ClaimInv
    <2> QED
      BY DEF Init, HoldsClaim, Running, Idle
  <1> QED
    BY <1>1, NextClaim, PTL DEF Spec

\* period_lock.py, "exactly once across every instance": however many instances
\* fire, fail, crash and retry, a period is worked on by at most one sweep at a
\* time and never again once a sweep of it is committed.
THEOREM OneSweepPerPeriod == Spec => []ClaimIsExclusive
  <1>1. ClaimInv => ClaimIsExclusive
    <2> SUFFICES ASSUME ClaimInv, NEW i \in Instances, Running(i)
                 PROVE  /\ jobs[PeriodOf(i)] = "NONE"
                        /\ \A j \in Instances \ {i} : Running(j) => PeriodOf(j) # PeriodOf(i)
      BY DEF ClaimIsExclusive
    <2>1. jobs[PeriodOf(i)] = "NONE"
      BY DEF ClaimInv, HoldsClaim
    <2>2. ASSUME NEW j \in Instances \ {i}, Running(j) PROVE PeriodOf(j) # PeriodOf(i)
      BY <2>2, ClaimsDiffer DEF ClaimInv
    <2> QED
      BY <2>1, <2>2
  <1> QED
    BY <1>1, ClaimInvariant, PTL
=============================================================================
