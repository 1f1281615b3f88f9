---------------------- MODULE ReferralOnboarding_proofs ----------------------
(***************************************************************************)
(* Onboarding, for any number of users, accounts, markets and updates in   *)
(* progress at once: type correctness; one exchange account never backs    *)
(* two people; as long as no user sends two different UIDs, a membership   *)
(* has its link and its one subscription; and, if the account also is of   *)
(* the membership's market, the subscription says what the membership says.*)
(***************************************************************************)
EXTENDS ReferralOnboarding, VipStore_proofs, FiniteSetTheorems

\* The stages of an update that has a transaction open.
Open == {"naming", "asking", "verifying", "enrolling", "joining", "issuing", "saving"}

\* What an update has got by the stage it is in.
Staged(q) ==
  /\ q.stage \in Open => q.user \in Users /\ q.market \in Markets /\ q.uid \in Uids
  /\ q.stage \in Open \ {"naming"} => q.account \in AccountRow
  /\ q.stage \notin Open => q.user = NoOne
  /\ q.stage \in {"saving", "replying"} => q.link \in 1..MaxLinks

TypeInv == TypeOK /\ \A w \in Hooks : Staged(hook[w])

-----------------------------------------------------------------------------
(* Type correctness. *)

\* What the invariant says of one update, in the terms the steps need.
LEMMA HookFacts ==
  ASSUME TypeInv, NEW w \in Hooks
  PROVE  /\ hook[w] \in Hook /\ hook \in [Hooks -> Hook] /\ Staged(hook[w])
         /\ w \in Procs /\ w # NoOne
         /\ hook[w].stage \in Open =>
              /\ KeyOf(w) \in Keys /\ hook[w].user \in Users /\ hook[w].market \in Markets
              /\ hook[w].uid \in Uids
              /\ UserRow(w) \in RowsOf({}) /\ AccountRowOf(w) \in RowsOf({})
              /\ SubRowOf(w) \in RowsOf({}) /\ MemberRowOf(w) \in RowsOf({})
  <1>1. /\ hook[w] \in Hook /\ hook \in [Hooks -> Hook] /\ Staged(hook[w])
        /\ w \in Procs /\ w # NoOne
    BY OnboardingAssumption, StoreAssumption DEF TypeInv, TypeOK
  <1>2. ASSUME hook[w].stage \in Open
        PROVE  /\ KeyOf(w) \in Keys /\ hook[w].user \in Users /\ hook[w].market \in Markets
               /\ hook[w].uid \in Uids
    BY <1>1, <1>2 DEF Staged, KeyOf, Keys
  <1>3. ASSUME hook[w].stage \in Open
        PROVE  /\ UserRow(w) \in RowsOf({}) /\ AccountRowOf(w) \in RowsOf({})
               /\ SubRowOf(w) \in RowsOf({}) /\ MemberRowOf(w) \in RowsOf({})
    BY <1>2, <1>3 DEF UserRow, AccountRowOf, SubRowOf, MemberRowOf, RowsOf
  <1> QED
    BY <1>1, <1>2, <1>3

\* No update in progress is a well-formed record.
LEMMA IdleType == Idle \in Hook /\ Staged(Idle)
  BY AbsentRowType, StoreAssumption
  DEF Idle, Hook, Staged, Stages, Open, Reasons, NoLink

\* One update moves to a well-formed record and the rest of the store stays well
\* formed.
LEMMA HookStep ==
  ASSUME TypeInv, StoreTypeOK({})', users' \subseteq Users, backing' \in [Keys -> SUBSET Uids],
         NEW w \in Hooks, NEW q \in Hook, Staged(q), hook' = [hook EXCEPT ![w] = q]
  PROVE  TypeInv'
  BY DEF TypeInv, TypeOK

\* A transaction that is rolled back leaves the types.
LEMMA FailType ==
  ASSUME TypeInv, NEW w \in Hooks, Fail(w),
         links' \in Seq(Link) /\ Len(links') <= MaxLinks
  PROVE  TypeInv'
  <1>1. locks' \in [RowsOf({}) -> Procs \cup {NoOne}]
    BY LockType, HookFacts DEF Fail, TypeInv, TypeOK, StoreTypeOK
  <1>2. StoreTypeOK({})' /\ users' \subseteq Users /\ backing' \in [Keys -> SUBSET Uids]
    BY <1>1 DEF Fail, TypeInv, TypeOK, StoreTypeOK
  <1> QED
    BY <1>2, IdleType, HookStep DEF Fail

\* An update arrives; the sender is looked up, and the account.
LEMMA ArrivalType ==
  ASSUME TypeInv, NEW w \in Hooks,
         \/ \E u \in Users, m \in Markets, uid \in Uids : Receive(w, u, m, uid)
         \/ InsertUser(w) \/ KnownUser(w)
  PROVE  TypeInv'
  <1>0. /\ hook[w] \in Hook /\ hook \in [Hooks -> Hook] /\ Staged(hook[w]) /\ w \in Procs
        /\ StoreTypeOK({}) /\ users \subseteq Users /\ backing \in [Keys -> SUBSET Uids]
        /\ accounts \in [Uids -> AccountRow]
        /\ locks \in [RowsOf({}) -> Procs \cup {NoOne}]
    BY HookFacts DEF TypeInv, TypeOK, StoreTypeOK
  <1>1. ASSUME NEW u \in Users, NEW m \in Markets, NEW uid \in Uids, Receive(w, u, m, uid)
        PROVE  TypeInv'
    <2> DEFINE q == [Idle EXCEPT !.user = u, !.market = m, !.uid = uid,
                                 !.fresh = u \notin users, !.stage = "naming"]
    <2>1. q \in Hook /\ Staged(q)
      BY IdleType DEF Idle, Hook, Staged, Stages, Open
    <2>2. hook' = [hook EXCEPT ![w] = q] /\ UNCHANGED <<storeVars, users, backing>>
      BY <1>1 DEF Receive
    <2>3. StoreTypeOK({})'
      BY <1>0, <2>2 DEF StoreTypeOK, storeVars
    <2> HIDE DEF q
    <2> QED
      BY <1>0, <2>1, <2>2, <2>3, HookStep
  <1> DEFINE q == [hook[w] EXCEPT !.stage = "asking", !.account = accounts[hook[w].uid]]
  <1>2. ASSUME hook[w].stage = "naming" PROVE q \in Hook /\ Staged(q)
    <2>1. hook[w].uid \in Uids /\ accounts[hook[w].uid] \in AccountRow
      BY <1>0, <1>2 DEF Staged, Open
    <2> QED
      BY <1>0, <1>2, <2>1 DEF Hook, Staged, Stages, Open
  <1>3. CASE KnownUser(w)
    <2>1. /\ hook[w].stage = "naming" /\ hook' = [hook EXCEPT ![w] = q]
          /\ UNCHANGED <<storeVars, users, backing>>
      BY <1>0, <1>3 DEF KnownUser
    <2>2. StoreTypeOK({})'
      BY <1>0, <2>1 DEF StoreTypeOK, storeVars
    <2> HIDE DEF q
    <2> QED
      BY <1>0, <1>2, <2>1, <2>2, HookStep
  <1>4. CASE InsertUser(w)
    <2>1. CASE hook[w].user \in users
      BY <1>0, <1>4, <2>1, FailType DEF InsertUser, StoreTypeOK
    <2>2. CASE hook[w].user \notin users
      <3>1. /\ hook[w].stage = "naming" /\ hook' = [hook EXCEPT ![w] = q]
            /\ locks' = Locked(w, {UserRow(w)})
            /\ UNCHANGED <<now, accounts, subs, members, links, held, chat, users, backing>>
        BY <1>0, <1>4, <2>2 DEF InsertUser
      <3>2. StoreTypeOK({})'
        BY <1>0, <3>1, LockType DEF StoreTypeOK
      <3> HIDE DEF q
      <3> QED
        BY <1>0, <1>2, <3>1, <3>2, HookStep
    <2> QED
      BY <2>1, <2>2
  <1> QED
    BY <1>1, <1>3, <1>4

\* The account as a commit leaves it is well formed.
LEMMA AccountAfterType ==
  ASSUME TypeInv, NEW w \in Hooks, hook[w].stage \in Open \ {"naming"}
  PROVE  /\ AccountAfter(w) \in AccountRow
         /\ hook[w].account.owner \in {NoOne, hook[w].user} /\
            (hook[w].account.owner = hook[w].user => accounts[hook[w].uid].owner = hook[w].user)
              => AccountAfter(w).owner = hook[w].user
  <1> DEFINE h == hook[w]
             cur == accounts[h.uid]
             new == CheckedAccount(h.account, h.user, h.market, h.reason)
             pick(f) == IF new[f] # h.account[f] THEN new[f] ELSE cur[f]
             columns == {"owner", "market", "status"}
  <1>1. /\ h \in Hook /\ h.account \in AccountRow /\ h.user \in Users /\ h.market \in Markets
        /\ h.uid \in Uids /\ h.reason \in Reasons
    BY HookFacts DEF Staged, Hook
  <1>2. cur \in AccountRow
    BY <1>1 DEF TypeInv, TypeOK, StoreTypeOK
  <1>3. new \in AccountRow /\ new.owner = h.user
    BY <1>1, AccountType DEF CheckedAccount
  <1>4. AccountAfter(w) = [f \in columns |-> pick(f)]
    BY <1>2 DEF AccountAfter, Merge, AccountRow
  <1>5. /\ pick("owner") \in Users \cup {NoOne} /\ pick("market") \in Markets
        /\ pick("status") \in {"UNVERIFIED", "VERIFIED", "REJECTED"}
    BY <1>1, <1>2, <1>3 DEF AccountRow
  <1>6. h.account.owner \in {NoOne, h.user} /\ (h.account.owner = h.user => cur.owner = h.user)
          => pick("owner") = h.user
    BY <1>3
  <1> HIDE DEF pick, new, cur
  <1>7. [f \in columns |-> pick(f)]
          = [owner |-> pick("owner"), market |-> pick("market"), status |-> pick("status")]
    OBVIOUS
  <1> QED
    BY <1>4, <1>5, <1>6, <1>7 DEF AccountRow, cur

\* The sender of an ended update is recorded, and its locks go.
LEMMA CommitType ==
  ASSUME TypeInv, NEW w \in Hooks, hook[w].stage \in Open, CommitUser(w)
  PROVE  users' \subseteq Users /\ locks' \in [RowsOf({}) -> Procs \cup {NoOne}]
  <1>1. hook[w].user \in Users /\ w \in Procs
    BY HookFacts
  <1> QED
    BY <1>1, LockType DEF CommitUser, TypeInv, TypeOK, StoreTypeOK

\* The UID is somebody else's, or the exchange is asked about it.
LEMMA AskType ==
  ASSUME TypeInv, NEW w \in Hooks, Claimed(w) \/ \E check \in Checks : Ask(w, check)
  PROVE  TypeInv'
  <1>0. /\ hook[w] \in Hook /\ hook \in [Hooks -> Hook] /\ Staged(hook[w]) /\ w \in Procs
        /\ StoreTypeOK({}) /\ users \subseteq Users /\ backing \in [Keys -> SUBSET Uids]
    BY HookFacts DEF TypeInv, TypeOK
  <1>1. CASE Claimed(w)
    <2>1. /\ hook[w].stage \in Open /\ CommitUser(w) /\ hook' = [hook EXCEPT ![w] = Idle]
          /\ UNCHANGED <<now, accounts, subs, members, links, held, chat, backing>>
      BY <1>1 DEF Claimed, Open
    <2>2. users' \subseteq Users /\ locks' \in [RowsOf({}) -> Procs \cup {NoOne}]
      BY <2>1, CommitType
    <2>3. StoreTypeOK({})'
      BY <1>0, <2>1, <2>2 DEF StoreTypeOK
    <2> QED
      BY <1>0, <2>1, <2>2, <2>3, IdleType, HookStep
  <1>2. ASSUME NEW check \in Checks, Ask(w, check) PROVE TypeInv'
    <2> DEFINE r == evaluate_referral(check, Programs[hook[w].market], FALSE)
               q == [hook[w] EXCEPT !.stage = "verifying", !.reason = r]
    <2>1. r \in Reasons
      BY ReasonType
    <2>2. hook[w].stage = "asking" /\ hook' = [hook EXCEPT ![w] = q]
          /\ UNCHANGED <<storeVars, users, backing>>
      BY <1>0, <1>2 DEF Ask
    <2> HIDE DEF r
    <2>3. q \in Hook /\ Staged(q)
      BY <1>0, <2>1, <2>2 DEF Hook, Staged, Stages, Open
    <2>4. StoreTypeOK({})'
      BY <1>0, <2>2 DEF StoreTypeOK, storeVars
    <2> HIDE DEF q
    <2> QED
      BY <1>0, <2>2, <2>3, <2>4, HookStep
  <1> QED
    BY <1>1, <1>2

\* A step that only moves an update from one open stage to the next, and may take
\* locks.
LEMMA MoveType ==
  ASSUME TypeInv, NEW w \in Hooks, NEW q \in Hook, Staged(q), hook' = [hook EXCEPT ![w] = q],
         locks' \in [RowsOf({}) -> Procs \cup {NoOne}],
         UNCHANGED <<now, accounts, subs, members, links, held, chat, users, backing>>
  PROVE  TypeInv'
  <1>1. StoreTypeOK({})' /\ users' \subseteq Users /\ backing' \in [Keys -> SUBSET Uids]
    BY DEF TypeInv, TypeOK, StoreTypeOK
  <1> QED
    BY <1>1, HookStep

\* The account row is written.
LEMMA VerifyType ==
  ASSUME TypeInv, NEW w \in Hooks, Verify(w)
  PROVE  TypeInv'
  <1>0. /\ hook[w] \in Hook /\ hook \in [Hooks -> Hook] /\ Staged(hook[w]) /\ w \in Procs
        /\ StoreTypeOK({}) /\ users \subseteq Users /\ backing \in [Keys -> SUBSET Uids]
        /\ hook[w].stage = "verifying" /\ hook[w].stage \in Open \ {"naming"}
        /\ hook[w].uid \in Uids
    BY HookFacts DEF TypeInv, TypeOK, Verify, Open
  <1>1. CASE Taken(w)
    BY <1>0, <1>1, FailType DEF Verify, StoreTypeOK
  <1>2. CASE ~Taken(w) /\ hook[w].reason # "ELIGIBLE"
    <2>1. /\ accounts' = [accounts EXCEPT ![hook[w].uid] = AccountAfter(w)]
          /\ CommitUser(w) /\ hook' = [hook EXCEPT ![w] = Idle]
          /\ UNCHANGED <<now, subs, members, links, held, chat, backing>>
      BY <1>2 DEF Verify
    <2>2. users' \subseteq Users /\ locks' \in [RowsOf({}) -> Procs \cup {NoOne}]
      BY <1>0, <2>1, CommitType
    <2>3. AccountAfter(w) \in AccountRow
      BY <1>0, AccountAfterType
    <2>4. accounts' \in [Uids -> AccountRow]
      BY <1>0, <2>1, <2>3 DEF StoreTypeOK
    <2>5. StoreTypeOK({})'
      BY <1>0, <2>1, <2>2, <2>4 DEF StoreTypeOK
    <2> QED
      BY <1>0, <2>1, <2>2, <2>5, IdleType, HookStep
  <1>3. CASE ~Taken(w) /\ hook[w].reason = "ELIGIBLE"
    <2> DEFINE p == SubPlan(subs[KeyOf(w)])
               q == [hook[w] EXCEPT !.stage = "enrolling", !.sub = p]
    <2>1. p \in {"kept", "revived", "inserted"}
      BY DEF SubPlan
    <2>2. /\ hook' = [hook EXCEPT ![w] = q] /\ locks' = Locked(w, {AccountRowOf(w)})
          /\ UNCHANGED <<now, accounts, subs, members, links, held, chat, users, backing>>
      BY <1>0, <1>3 DEF Verify
    <2> HIDE DEF p
    <2>3. q \in Hook /\ Staged(q)
      BY <1>0, <2>1 DEF Hook, Staged, Stages, Open
    <2>4. locks' \in [RowsOf({}) -> Procs \cup {NoOne}]
      BY <1>0, <2>2, LockType DEF StoreTypeOK
    <2> HIDE DEF q
    <2> QED
      BY <2>2, <2>3, <2>4, MoveType
  <1> QED
    BY <1>1, <1>2, <1>3

\* The subscription and the membership are looked for; the membership is
\* inserted; a live link is found.
LEMMA EnrolType ==
  ASSUME TypeInv, NEW w \in Hooks, Entitle(w) \/ InsertMember(w) \/ Reuse(w)
  PROVE  TypeInv'
  <1>0. /\ hook[w] \in Hook /\ hook \in [Hooks -> Hook] /\ Staged(hook[w]) /\ w \in Procs
        /\ StoreTypeOK({}) /\ users \subseteq Users /\ backing \in [Keys -> SUBSET Uids]
        /\ hook[w].stage \in Open /\ KeyOf(w) \in Keys
    BY HookFacts DEF TypeInv, TypeOK, Entitle, InsertMember, Reuse, Open
  <1>1. CASE Entitle(w)
    <2> DEFINE row == members[KeyOf(w)]
               rows == IF hook[w].sub = "revived" THEN {SubRowOf(w)} ELSE {}
               s == IF row.status = "ABSENT" THEN "joining" ELSE "issuing"
               q == [hook[w] EXCEPT !.stage = s, !.seen = row, !.new = EnsuredMember(row, now)]
    <2>1. row \in MemberRow /\ now \in Day
      BY <1>0 DEF StoreTypeOK
    <2>2. EnsuredMember(row, now) \in MemberRow
      BY <2>1, AdmissionType, StoreAssumption DEF NoLink
    <2>3. /\ hook' = [hook EXCEPT ![w] = q] /\ locks' = Locked(w, rows)
          /\ hook[w].stage = "enrolling"
          /\ UNCHANGED <<now, accounts, subs, members, links, held, chat, users, backing>>
      BY <1>0, <1>1 DEF Entitle
    <2>4. locks' \in [RowsOf({}) -> Procs \cup {NoOne}]
      BY <1>0, <2>3, LockType DEF StoreTypeOK
    <2>5. s \in {"joining", "issuing"}
      OBVIOUS
    <2> HIDE DEF row, rows, s
    <2>6. q \in Hook /\ Staged(q)
      BY <1>0, <2>1, <2>2, <2>3, <2>5 DEF Hook, Staged, Stages, Open
    <2> HIDE DEF q
    <2> QED
      BY <2>3, <2>4, <2>6, MoveType
  <1>2. CASE InsertMember(w)
    <2>1. CASE members[KeyOf(w)].status # "ABSENT"
      BY <1>0, <1>2, <2>1, FailType DEF InsertMember, StoreTypeOK
    <2>2. CASE members[KeyOf(w)].status = "ABSENT"
      <3> DEFINE q == [hook[w] EXCEPT !.stage = "issuing"]
      <3>1. /\ hook' = [hook EXCEPT ![w] = q] /\ locks' = Locked(w, {MemberRowOf(w)})
            /\ hook[w].stage = "joining"
            /\ UNCHANGED <<now, accounts, subs, members, links, held, chat, users, backing>>
        BY <1>0, <1>2, <2>2 DEF InsertMember
      <3>2. q \in Hook /\ Staged(q)
        BY <1>0, <3>1 DEF Hook, Staged, Stages, Open
      <3>3. locks' \in [RowsOf({}) -> Procs \cup {NoOne}]
        BY <1>0, <3>1, LockType DEF StoreTypeOK
      <3> HIDE DEF q
      <3> QED
        BY <3>1, <3>2, <3>3, MoveType
    <2> QED
      BY <2>1, <2>2
  <1>3. CASE Reuse(w)
    <2> DEFINE q == [hook[w] EXCEPT !.stage = "saving", !.link = hook[w].new.link]
    <2>1. /\ hook' = [hook EXCEPT ![w] = q] /\ hook[w].stage = "issuing"
          /\ UNCHANGED <<storeVars, users, backing>>
      BY <1>0, <1>3 DEF Reuse
    <2>2. hook[w].new.link \in 1..MaxLinks /\ hook[w].new.link \in 0..MaxLinks
      <3>1. hook[w].new.link \in 0..MaxLinks
        BY <1>0 DEF Hook, MemberRow
      <3>2. hook[w].new.link # 0
        BY <1>3 DEF Reuse, LiveLink, NoLink
      <3> QED
        BY <3>1, <3>2, StoreAssumption
    <2>3. q \in Hook /\ Staged(q)
      <3> DEFINE l == hook[w].new.link
      <3>1. l \in 1..MaxLinks /\ l \in 0..MaxLinks
        BY <2>2
      <3> HIDE DEF l
      <3>2. [hook[w] EXCEPT !.stage = "saving", !.link = l] \in Hook
        BY <1>0, <3>1 DEF Hook, Stages
      <3>3. Staged([hook[w] EXCEPT !.stage = "saving", !.link = l])
        BY <1>0, <2>1, <3>1 DEF Hook, Staged, Open
      <3> QED
        BY <3>2, <3>3 DEF l
    <2>4. locks' \in [RowsOf({}) -> Procs \cup {NoOne}]
      BY <1>0, <2>1 DEF StoreTypeOK, storeVars
    <2> HIDE DEF q
    <2> QED
      BY <2>1, <2>3, <2>4, MoveType DEF storeVars
  <1> QED
    BY <1>1, <1>2, <1>3

\* Telegram is asked for a link.
LEMMA IssueType ==
  ASSUME TypeInv, NEW w \in Hooks, Issue(w) \/ IssueFails(w)
  PROVE  TypeInv'
  <1>0. /\ hook[w] \in Hook /\ hook \in [Hooks -> Hook] /\ Staged(hook[w]) /\ w \in Procs
        /\ StoreTypeOK({}) /\ users \subseteq Users /\ backing \in [Keys -> SUBSET Uids]
        /\ hook[w].stage \in Open /\ KeyOf(w) \in Keys
    BY HookFacts DEF TypeInv, TypeOK, Issue, IssueFails, Open
  <1>1. CASE Issue(w)
    <2> DEFINE link == Len(links) + 1
               new == IssuedMember(hook[w].new, link, now)
               q == [hook[w] EXCEPT !.stage = "saving", !.link = link, !.new = new]
    <2>1. /\ links' \in Seq(Link) /\ Len(links') <= MaxLinks /\ link \in 0..MaxLinks
      BY <1>0, <1>1, MintType DEF Issue
    <2>2. link \in 1..MaxLinks
      BY <1>0, <2>1, StoreAssumption DEF StoreTypeOK
    <2>3. new \in MemberRow
      BY <1>0, <2>1, AdmissionType DEF Hook, StoreTypeOK
    <2>4. /\ hook' = [hook EXCEPT ![w] = q] /\ hook[w].stage = "issuing"
          /\ UNCHANGED <<now, accounts, subs, members, held, chat, locks, users, backing>>
      BY <1>0, <1>1 DEF Issue
    <2>5. StoreTypeOK({})'
      BY <1>0, <2>1, <2>4 DEF StoreTypeOK
    <2> HIDE DEF link, new
    <2>6. q \in Hook /\ Staged(q)
      BY <1>0, <2>1, <2>2, <2>3, <2>4 DEF Hook, Staged, Stages, Open
    <2> HIDE DEF q
    <2> QED
      BY <1>0, <2>4, <2>5, <2>6, HookStep
  <1>2. CASE IssueFails(w)
    <2>1. links' \in Seq(Link) /\ Len(links') <= MaxLinks
      BY <1>0, <1>2, MintType DEF IssueFails, StoreTypeOK
    <2> QED
      BY <1>2, <2>1, FailType DEF IssueFails
  <1> QED
    BY <1>1, <1>2

\* The transaction commits, and the reply is sent.
LEMMA SaveType ==
  ASSUME TypeInv, NEW w \in Hooks, Save(w) \/ \E arrives \in BOOLEAN : Deliver(w, arrives)
  PROVE  TypeInv'
  <1>0. /\ hook[w] \in Hook /\ hook \in [Hooks -> Hook] /\ Staged(hook[w]) /\ w \in Procs
        /\ StoreTypeOK({}) /\ users \subseteq Users /\ backing \in [Keys -> SUBSET Uids]
        /\ hook[w].stage \in Open => KeyOf(w) \in Keys /\ hook[w].uid \in Uids
    BY HookFacts DEF TypeInv, TypeOK
  <1>1. CASE Save(w)
    <2> DEFINE h == hook[w]
               k == KeyOf(w)
               sub == CASE h.sub = "inserted" -> [n |-> subs[k].n + 1, status |-> "ACTIVE"]
                        [] h.sub = "revived"  -> [subs[k] EXCEPT !.status = "ACTIVE"]
                        [] h.sub = "kept"     -> subs[k]
               q == [Idle EXCEPT !.stage = "replying", !.link = h.link]
    <2>1. /\ h.stage = "saving" /\ h.stage \in Open \ {"naming"}
          /\ accounts' = [accounts EXCEPT ![h.uid] = AccountAfter(w)]
          /\ subs' = [subs EXCEPT ![k] = sub]
          /\ members' = [members EXCEPT ![k] = Merge(members[k], h.seen, h.new)]
          /\ backing' = [backing EXCEPT ![k] = backing[k] \cup {h.uid}]
          /\ CommitUser(w) /\ hook' = [hook EXCEPT ![w] = q]
          /\ UNCHANGED <<now, links, held, chat>>
      BY <1>1 DEF Save, Open
    <2>2. users' \subseteq Users /\ locks' \in [RowsOf({}) -> Procs \cup {NoOne}]
      BY <2>1, CommitType
    <2>3. k \in Keys /\ h.uid \in Uids /\ h.seen \in MemberRow /\ h.new \in MemberRow
          /\ h.sub \in {"kept", "revived", "inserted"}
          /\ h.link \in 1..MaxLinks /\ h.link \in 0..MaxLinks
      BY <1>0, <2>1 DEF Hook, Staged, Open
    <2>4. AccountAfter(w) \in AccountRow
      BY <2>1, AccountAfterType
    <2>5. subs[k] \in SubRow /\ members[k] \in MemberRow
      BY <1>0, <2>3 DEF StoreTypeOK
    <2>6. sub \in SubRow
      BY <2>3, <2>5 DEF SubRow
    <2>7. Merge(members[k], h.seen, h.new) \in MemberRow
      BY <2>3, <2>5, MergeType
    <2>8. q \in Hook /\ Staged(q)
      <3> HIDE DEF h
      <3> QED
        BY <2>3, AbsentRowType DEF Idle, Hook, Staged, Stages, Open, Reasons
    <2> HIDE DEF sub, q, k, h
    <2>9. /\ accounts' \in [Uids -> AccountRow] /\ subs' \in [Keys -> SubRow]
          /\ members' \in [Keys -> MemberRow] /\ backing' \in [Keys -> SUBSET Uids]
      BY <1>0, <2>1, <2>3, <2>4, <2>6, <2>7 DEF StoreTypeOK
    <2>10. StoreTypeOK({})'
      BY <1>0, <2>1, <2>2, <2>9 DEF StoreTypeOK
    <2> QED
      BY <2>1, <2>2, <2>8, <2>9, <2>10, HookStep
  <1>2. ASSUME NEW arrives \in BOOLEAN, Deliver(w, arrives) PROVE TypeInv'
    <2>1. /\ hook[w].link \in 1..MaxLinks /\ hook' = [hook EXCEPT ![w] = Idle]
          /\ held' = IF arrives THEN held \cup {hook[w].link} ELSE held
          /\ UNCHANGED <<now, accounts, subs, members, links, chat, locks, users, backing>>
      BY <1>0, <1>2 DEF Deliver, Staged
    <2>2. StoreTypeOK({})'
      BY <1>0, <2>1 DEF StoreTypeOK
    <2> QED
      BY <1>0, <2>1, <2>2, IdleType, HookStep
  <1> QED
    BY <1>1, <1>2

\* What a removal does: the membership it is about is revoked, the subscription
\* of the account's market, if there is one, expires.
LEMMA RemovedRows ==
  ASSUME TypeInv, NEW k \in Keys, NEW uid \in Uids, Remove(k, uid)
  PROVE  /\ members' \in [Keys -> MemberRow] /\ subs' \in [Keys -> SubRow]
         /\ chat' \in [Keys -> Standings]
         /\ UNCHANGED <<now, accounts, links, held, locks, onboardingVars>>
         /\ members[k].status \in Monitored /\ members'[k].status = "REVOKED"
         /\ \A j \in Keys \ {k} : members'[j] = members[j]
         /\ \A j \in Keys : subs'[j].n = subs[j].n
         /\ \A j \in Keys : j # <<k[1], accounts[uid].market>> => subs'[j] = subs[j]
         /\ \A j \in Keys : j = <<k[1], accounts[uid].market>> /\ subs[j].n > 0
                             => subs'[j].status = "EXPIRED"
         /\ accounts[uid].owner = k[1] /\ locks[<<"account", uid>>] = NoOne
  <1> DEFINE target == <<k[1], accounts[uid].market>>
             status == IF subs[target].n > 0 THEN "EXPIRED" ELSE subs[target].status
  <1>1. /\ StoreTypeOK({}) /\ members[k] \in MemberRow /\ now \in Day
        /\ members \in [Keys -> MemberRow] /\ subs \in [Keys -> SubRow]
        /\ chat \in [Keys -> Standings] /\ accounts[uid] \in AccountRow
    BY DEF TypeInv, TypeOK, StoreTypeOK
  <1>2. target \in Keys
    BY <1>1 DEF Keys, AccountRow
  <1>3. /\ members' = [members EXCEPT ![k] = ApplyDecision(members[k], "REVOKE", now)]
        /\ subs' = [subs EXCEPT ![target] = [subs[target] EXCEPT !.status = status]]
        /\ chat' = [chat EXCEPT ![target] = "out"]
        /\ UNCHANGED <<now, accounts, links, held, locks, onboardingVars>>
        /\ members[k].status \in Monitored
        /\ accounts[uid].owner = k[1] /\ locks[<<"account", uid>>] = NoOne
    BY DEF Remove
  <1>4. /\ ApplyDecision(members[k], "REVOKE", now) \in MemberRow
        /\ ApplyDecision(members[k], "REVOKE", now).status = "REVOKED"
    BY <1>1, ApplyDecisionType DEF Actions, ApplyDecision, MemberRow
  <1>5. subs[target] \in SubRow
    BY <1>1, <1>2
  <1>6. /\ [subs[target] EXCEPT !.status = status] \in SubRow
        /\ [subs[target] EXCEPT !.status = status].n = subs[target].n
        /\ [subs[target] EXCEPT !.status = status].status = status
    BY <1>5 DEF SubRow
  <1>7. /\ members' \in [Keys -> MemberRow] /\ members'[k].status = "REVOKED"
        /\ \A j \in Keys \ {k} : members'[j] = members[j]
    BY <1>1, <1>3, <1>4
  <1>8. /\ subs' \in [Keys -> SubRow] /\ subs'[target].n = subs[target].n
        /\ subs'[target].status = status
        /\ \A j \in Keys \ {target} : subs'[j] = subs[j]
    BY <1>1, <1>2, <1>3, <1>6
  <1>9. chat' \in [Keys -> Standings]
    BY <1>1, <1>2, <1>3 DEF Standings
  <1> QED
    BY <1>3, <1>7, <1>8, <1>9

\* What happens around the updates.
LEMMA WorldType ==
  ASSUME TypeInv,
         \/ \E u \in Users : Start(u)
         \/ \E k \in Keys, uid \in Uids : Remove(k, uid)
         \/ JoinChannel \/ DayPasses
  PROVE  TypeInv'
  <1>0. StoreTypeOK({}) /\ users \subseteq Users
    BY DEF TypeInv, TypeOK
  <1>1. ASSUME NEW u \in Users, Start(u) PROVE TypeInv'
    BY <1>1 DEF Start, TypeInv, TypeOK, StoreTypeOK, storeVars
  <1>2. ASSUME NEW k \in Keys, NEW uid \in Uids, Remove(k, uid) PROVE TypeInv'
    <2>1. StoreTypeOK({})'
      BY <1>0, <1>2, RemovedRows DEF TypeInv, TypeOK, StoreTypeOK
    <2> QED
      BY <1>2, <2>1, RemovedRows DEF TypeInv, TypeOK, onboardingVars
  <1>3. CASE JoinChannel
    BY <1>0, <1>3, WorldStoreType DEF JoinChannel, onboardingVars, TypeInv, TypeOK
  <1>4. CASE DayPasses
    BY <1>0, <1>4, WorldStoreType DEF DayPasses, onboardingVars, TypeInv, TypeOK
  <1> QED
    BY <1>1, <1>2, <1>3, <1>4

\* Every step keeps the types.
LEMMA TypeStep ==
  ASSUME TypeInv, [Next]_vars
  PROVE  TypeInv'
  <1>1. CASE UNCHANGED vars
    BY <1>1 DEF vars, storeVars, onboardingVars, TypeInv, TypeOK, StoreTypeOK
  <1>2. ASSUME NEW w \in Hooks, Advance(w) \/ Crash(w)
        PROVE  TypeInv'
    <2>1. CASE Crash(w)
      BY <2>1, FailType DEF Crash, TypeInv, TypeOK, StoreTypeOK
    <2> QED
      BY <1>2, <2>1, ArrivalType, AskType, VerifyType, EnrolType, IssueType, SaveType DEF Advance
  <1> QED
    BY <1>1, <1>2, ArrivalType, WorldType DEF Next

\* Every row, lock and update in progress always has its type, however many
\* updates are in progress at once.
THEOREM TypesHold == Spec => []TypeOK
  <1>1. Init => TypeInv
    BY StoreInitType, IdleType DEF Init, TypeInv, TypeOK
  <1>2. TypeInv /\ [Next]_vars => TypeInv'
    BY TypeStep
  <1>3. TypeInv => TypeOK
    BY DEF TypeInv
  <1> QED
    BY <1>1, <1>2, <1>3, PTL DEF Spec

-----------------------------------------------------------------------------
(* One account, one person. *)

\* The stages in which an update holds the lock of its account's row.
Holding == {"enrolling", "joining", "issuing", "saving"}

\* What an update may rely on about the account it looked up: an owner it saw is
\* still the owner (no code changes it); past `Ask` the owner is the sender or
\* nobody; and once it holds the row, nobody else has become the owner.
KnowsAccount(w) ==
  LET h == hook[w]
  IN  /\ h.stage \in Open \ {"naming"} /\ h.account.owner # NoOne
           => accounts[h.uid].owner = h.account.owner
      /\ h.stage \in {"verifying"} \cup Holding => h.account.owner \in {NoOne, h.user}
      /\ h.stage \in Holding =>
           /\ locks[AccountRowOf(w)] = w
           /\ h.account.owner = NoOne => accounts[h.uid].owner = NoOne

\* The accounts that back a membership are its holder's.
BackedByOwn == \A k \in Keys : \A x \in backing[k] : accounts[x].owner = k[1]

AccountInv == TypeInv /\ BackedByOwn /\ \A w \in Hooks : KnowsAccount(w)

\* A step of an update.
HookActs(w) ==
  \/ \E u \in Users, m \in Markets, uid \in Uids : Receive(w, u, m, uid)
  \/ Advance(w) \/ Crash(w)

\* A step of one update leaves the others where they are, with their locks.
LEMMA OthersUntouched ==
  ASSUME TypeInv, NEW w \in Hooks, NEW v \in Hooks, v # w, HookActs(w)
  PROVE  hook'[v] = hook[v] /\ \A r \in RowsOf({}) : locks[r] = v => locks'[r] = v
  <1>0. hook \in [Hooks -> Hook] /\ DOMAIN locks = RowsOf({}) /\ v # NoOne
    BY HookFacts DEF TypeInv, TypeOK, StoreTypeOK
  <1>1. hook'[v] = hook[v]
    BY <1>0 DEF HookActs, Advance, Receive, InsertUser, KnownUser, Claimed, Ask, Verify,
                Entitle, InsertMember, Reuse, Issue, IssueFails, Save, Deliver, Crash, Fail
  <1>2. \/ locks' = locks \/ locks' = Released(w)
        \/ \E rows : Free(w, rows) /\ locks' = Locked(w, rows)
    <2>1. CASE InsertUser(w) \/ InsertMember(w) \/ Crash(w) \/ IssueFails(w)
      BY <2>1 DEF InsertUser, InsertMember, Crash, IssueFails, Fail
    <2>2. CASE Verify(w)
      BY <2>2 DEF Verify, Fail, CommitUser
    <2>3. CASE Entitle(w)
      BY <2>3 DEF Entitle
    <2>4. CASE Claimed(w) \/ Save(w)
      BY <2>4 DEF Claimed, Save, CommitUser
    <2>5. CASE \/ \E u \in Users, m \in Markets, uid \in Uids : Receive(w, u, m, uid)
               \/ KnownUser(w) \/ \E check \in Checks : Ask(w, check)
               \/ Reuse(w) \/ Issue(w) \/ \E arrives \in BOOLEAN : Deliver(w, arrives)
      BY <2>5 DEF Receive, KnownUser, Ask, Reuse, Issue, Deliver, storeVars
    <2> QED
      BY <2>1, <2>2, <2>3, <2>4, <2>5 DEF HookActs, Advance
  <1>3. ASSUME NEW r \in RowsOf({}), locks[r] = v PROVE locks'[r] = v
    BY <1>0, <1>2, <1>3 DEF Released, Locked, Free
  <1> QED
    BY <1>1, <1>3

\* An update writes only the account it submits, which is its sender's or free,
\* and makes it its sender's; nobody else has the row locked.
LEMMA AccountWritten ==
  ASSUME AccountInv, NEW w \in Hooks, HookActs(w)
  PROVE  \/ accounts' = accounts
         \/ LET x == hook[w].uid
            IN  /\ x \in Uids /\ \A y \in Uids \ {x} : accounts'[y] = accounts[y]
                /\ accounts[x].owner \in {NoOne, hook[w].user}
                /\ accounts'[x].owner = hook[w].user
                /\ locks[<<"account", x>>] \in {NoOne, w}
                /\ hook[w].user \in Users
  <1>0. /\ TypeInv /\ KnowsAccount(w) /\ hook[w] \in Hook /\ Staged(hook[w])
        /\ accounts \in [Uids -> AccountRow]
    BY HookFacts DEF AccountInv, TypeInv, TypeOK, StoreTypeOK
  <1>1. CASE Save(w) \/ (Verify(w) /\ ~Taken(w) /\ hook[w].reason # "ELIGIBLE")
    <2>1. /\ hook[w].stage \in {"verifying", "saving"} /\ hook[w].stage \in Open \ {"naming"}
          /\ accounts' = [accounts EXCEPT ![hook[w].uid] = AccountAfter(w)]
      BY <1>1 DEF Save, Verify, Open
    <2>2. hook[w].uid \in Uids /\ hook[w].user \in Users
      BY <1>0, <2>1, HookFacts
    <2>3. hook[w].account.owner \in {NoOne, hook[w].user}
      BY <1>0, <2>1 DEF KnowsAccount, Holding
    <2>4. hook[w].account.owner = hook[w].user => accounts[hook[w].uid].owner = hook[w].user
      BY <1>0, <2>1, <2>2, StoreAssumption DEF KnowsAccount
    <2>5. hook[w].account.owner = NoOne => accounts[hook[w].uid].owner = NoOne
      BY <1>0, <1>1, <2>1 DEF KnowsAccount, Holding, Save, Taken
    <2>6. AccountAfter(w).owner = hook[w].user
      BY <1>0, <2>1, <2>3, <2>4, AccountAfterType
    <2>7. locks[<<"account", hook[w].uid>>] \in {NoOne, w}
      BY <1>0, <1>1 DEF KnowsAccount, Holding, Save, Verify, Free, AccountRowOf
    <2> QED
      BY <1>0, <2>1, <2>2, <2>3, <2>4, <2>5, <2>6, <2>7
  <1>2. CASE Verify(w) /\ ~(~Taken(w) /\ hook[w].reason # "ELIGIBLE")
    BY <1>2 DEF Verify, Fail
  <1>3. CASE \/ \E u \in Users, m \in Markets, uid \in Uids : Receive(w, u, m, uid)
             \/ InsertUser(w) \/ KnownUser(w) \/ Claimed(w)
             \/ \E check \in Checks : Ask(w, check)
             \/ Entitle(w) \/ InsertMember(w) \/ Reuse(w) \/ Issue(w) \/ IssueFails(w)
             \/ \E arrives \in BOOLEAN : Deliver(w, arrives) \/ Crash(w)
    BY <1>3 DEF Receive, InsertUser, KnownUser, Claimed, Ask, Entitle, InsertMember, Reuse,
                Issue, IssueFails, Deliver, Crash, Fail, storeVars
  <1> QED
    BY <1>1, <1>2, <1>3 DEF HookActs, Advance

\* What one update may rely on survives the steps of the others.
LEMMA OthersKnowAccount ==
  ASSUME AccountInv, NEW w \in Hooks, NEW v \in Hooks, v # w, HookActs(w)
  PROVE  KnowsAccount(v)'
  <1>0. /\ TypeInv /\ KnowsAccount(v) /\ Staged(hook[v]) /\ v # NoOne
        /\ hook[v].stage \in Open =>
             hook[v].uid \in Uids /\ AccountRowOf(v) \in RowsOf({})
    BY HookFacts DEF AccountInv
  <1>1. hook'[v] = hook[v] /\ \A r \in RowsOf({}) : locks[r] = v => locks'[r] = v
    BY <1>0, OthersUntouched
  <1>2. ASSUME NEW x \in Uids
        PROVE  /\ accounts[x].owner # NoOne => accounts'[x].owner = accounts[x].owner
               /\ locks[<<"account", x>>] = v => accounts'[x].owner = accounts[x].owner
    BY <1>0, AccountWritten
  <1>3. AccountRowOf(v)' = AccountRowOf(v) /\ AccountRowOf(v) = <<"account", hook[v].uid>>
    BY <1>1 DEF AccountRowOf
  <1> QED
    BY <1>0, <1>1, <1>2, <1>3 DEF KnowsAccount, Holding, Open

\* And it survives its own steps.
LEMMA OwnKnowsAccount ==
  ASSUME AccountInv, NEW w \in Hooks, HookActs(w)
  PROVE  KnowsAccount(w)'
  <1>0. /\ TypeInv /\ KnowsAccount(w) /\ hook[w] \in Hook /\ Staged(hook[w]) /\ w # NoOne
        /\ hook \in [Hooks -> Hook] /\ DOMAIN locks = RowsOf({})
        /\ hook[w].stage \in Open =>
             hook[w].uid \in Uids /\ AccountRowOf(w) \in RowsOf({})
    BY HookFacts DEF AccountInv, TypeInv, TypeOK, StoreTypeOK
  <1>a. /\ Idle.stage = "idle"
        /\ Fail(w) => hook'[w] = Idle
    BY <1>0 DEF Fail, Idle
  <1>1. CASE hook'[w].stage \in {"idle", "naming", "replying"}
    BY <1>1 DEF KnowsAccount, Open, Holding
  <1>2. CASE InsertUser(w) \/ KnownUser(w)
    <2>1. CASE hook'[w].stage = "idle"
      BY <1>1, <2>1
    <2>2. CASE hook'[w].stage # "idle"
      <3>1. /\ hook'[w] = [hook[w] EXCEPT !.stage = "asking", !.account = accounts[hook[w].uid]]
            /\ accounts' = accounts
        <4>1. CASE InsertUser(w)
          <5>1. hook[w].user \notin users
            BY <1>a, <2>2, <4>1 DEF InsertUser
          <5> QED
            BY <1>0, <4>1, <5>1 DEF InsertUser
        <4>2. CASE KnownUser(w)
          BY <1>0, <4>2 DEF KnownUser, storeVars
        <4> QED
          BY <1>2, <4>1, <4>2
      <3> QED
        BY <1>0, <3>1 DEF KnowsAccount, Holding, Hook
    <2> QED
      BY <2>1, <2>2
  <1>3. ASSUME NEW check \in Checks, Ask(w, check) PROVE KnowsAccount(w)'
    <2> DEFINE r == evaluate_referral(check, Programs[hook[w].market], FALSE)
    <2>1. /\ hook'[w] = [hook[w] EXCEPT !.stage = "verifying", !.reason = r]
          /\ hook[w].stage = "asking" /\ hook[w].account.owner \in {NoOne, hook[w].user}
          /\ accounts' = accounts
      BY <1>0, <1>3 DEF Ask, storeVars
    <2> HIDE DEF r
    <2> QED
      BY <1>0, <2>1 DEF KnowsAccount, Holding, Open, Hook
  <1>4. CASE Verify(w)
    <2>1. CASE hook'[w].stage = "idle"
      BY <1>1, <2>1
    <2>2. CASE hook'[w].stage # "idle"
      <3> DEFINE p == SubPlan(subs[KeyOf(w)])
      <3>1. /\ hook'[w] = [hook[w] EXCEPT !.stage = "enrolling", !.sub = p]
            /\ accounts' = accounts /\ hook[w].stage = "verifying" /\ ~Taken(w)
            /\ locks' = Locked(w, {AccountRowOf(w)})
        <4>1. ~Taken(w)
          BY <1>a, <1>4, <2>2 DEF Verify
        <4>2. hook[w].reason = "ELIGIBLE"
          BY <1>0, <1>a, <1>4, <2>2, <4>1 DEF Verify
        <4> QED
          BY <1>0, <1>4, <4>1, <4>2 DEF Verify
      <3> HIDE DEF p
      <3>2. AccountRowOf(w)' = AccountRowOf(w) /\ AccountRowOf(w) \in RowsOf({})
        BY <1>0, <3>1 DEF AccountRowOf, Hook, Open
      <3>3. locks'[AccountRowOf(w)] = w
        BY <1>0, <3>1, <3>2 DEF Locked
      <3> QED
        BY <1>0, <3>1, <3>2, <3>3 DEF KnowsAccount, Taken, Holding, Open, Hook
    <2> QED
      BY <2>1, <2>2
  <1>5. CASE Entitle(w) \/ InsertMember(w) \/ Reuse(w) \/ Issue(w)
    <2>1. CASE hook'[w].stage = "idle"
      BY <1>1, <2>1
    <2>2. CASE hook'[w].stage # "idle"
      <3>1. /\ hook[w].stage \in Holding /\ hook'[w].stage \in Holding
            /\ hook'[w].user = hook[w].user /\ hook'[w].uid = hook[w].uid
            /\ hook'[w].account = hook[w].account
            /\ accounts' = accounts
            /\ locks' = locks \/ \E rows : locks' = Locked(w, rows)
        <4>1. CASE Entitle(w)
          BY <1>0, <4>1 DEF Entitle, Holding, Hook
        <4>2. CASE InsertMember(w)
          BY <1>0, <2>2, <4>2 DEF InsertMember, Fail, Idle, Holding, Hook
        <4>3. CASE Reuse(w) \/ Issue(w)
          BY <1>0, <4>3 DEF Reuse, Issue, Holding, Hook, storeVars
        <4> QED
          BY <1>5, <4>1, <4>2, <4>3
      <3>2. AccountRowOf(w)' = AccountRowOf(w) /\ AccountRowOf(w) \in RowsOf({})
        BY <1>0, <3>1 DEF AccountRowOf, Open, Holding
      <3>3. locks'[AccountRowOf(w)] = w
        BY <1>0, <3>1, <3>2 DEF Locked, KnowsAccount
      <3> QED
        BY <1>0, <3>1, <3>2, <3>3 DEF KnowsAccount, Holding, Open
    <2> QED
      BY <2>1, <2>2
  <1>6. CASE \/ \E u \in Users, m \in Markets, uid \in Uids : Receive(w, u, m, uid)
             \/ Claimed(w) \/ IssueFails(w) \/ Save(w)
             \/ \E arrives \in BOOLEAN : Deliver(w, arrives) \/ Crash(w)
    <2>1. hook'[w].stage \in {"idle", "naming", "replying"}
      <3>1. CASE Claimed(w) \/ IssueFails(w) \/ Crash(w)
                 \/ \E arrives \in BOOLEAN : Deliver(w, arrives)
        BY <1>0, <1>a, <3>1 DEF Claimed, IssueFails, Deliver, Crash
      <3>2. CASE Save(w)
        BY <1>0, <3>2 DEF Save, Idle
      <3>3. CASE \E u \in Users, m \in Markets, uid \in Uids : Receive(w, u, m, uid)
        BY <1>0, <3>3 DEF Receive, Idle
      <3> QED
        BY <1>6, <3>1, <3>2, <3>3
    <2> QED
      BY <1>1, <2>1
  <1> QED
    BY <1>2, <1>3, <1>4, <1>5, <1>6 DEF HookActs, Advance

\* Accounts back only their owner's memberships, whatever an update does.
LEMMA BackingStep ==
  ASSUME AccountInv, NEW w \in Hooks, HookActs(w)
  PROVE  BackedByOwn'
  <1>0. /\ TypeInv /\ hook[w] \in Hook /\ Staged(hook[w]) /\ BackedByOwn
        /\ backing \in [Keys -> SUBSET Uids]
        /\ hook[w].stage \in Open => KeyOf(w) \in Keys /\ hook[w].uid \in Uids
    BY HookFacts DEF AccountInv, TypeInv, TypeOK
  <1>1. ASSUME NEW k \in Keys, NEW x \in backing[k]
        PROVE  accounts'[x].owner = k[1]
    <2>1. x \in Uids /\ accounts[x].owner = k[1] /\ k[1] # NoOne
      BY <1>0, StoreAssumption DEF BackedByOwn, Keys
    <2> QED
      BY <2>1, AccountWritten
  <1>2. CASE Save(w)
    <2>1. /\ backing' = [backing EXCEPT ![KeyOf(w)] = backing[KeyOf(w)] \cup {hook[w].uid}]
          /\ hook[w].stage = "saving"
          /\ accounts' = [accounts EXCEPT ![hook[w].uid] = AccountAfter(w)]
      BY <1>2 DEF Save
    <2>2. accounts'[hook[w].uid].owner = hook[w].user /\ KeyOf(w)[1] = hook[w].user
      <3>1. KnowsAccount(w) /\ hook[w].user \in Users /\ hook[w].uid \in Uids
        BY <2>1, HookFacts DEF AccountInv, Open
      <3>2. /\ hook[w].account.owner \in {NoOne, hook[w].user}
            /\ hook[w].account.owner = hook[w].user => accounts[hook[w].uid].owner = hook[w].user
        BY <2>1, <3>1, StoreAssumption DEF KnowsAccount, Holding, Open
      <3>3. AccountAfter(w).owner = hook[w].user
        BY <1>0, <2>1, <3>2, AccountAfterType DEF Open
      <3> QED
        BY <1>0, <2>1, <3>1, <3>3 DEF KeyOf, TypeInv, TypeOK, StoreTypeOK
    <2>3. KeyOf(w) \in Keys
      BY <1>0, <2>1 DEF Open
    <2> QED
      BY <1>0, <1>1, <2>1, <2>2, <2>3 DEF BackedByOwn
  <1>3. CASE ~Save(w)
    <2>1. backing' = backing
      BY <1>3 DEF HookActs, Advance, Receive, InsertUser, KnownUser, Claimed, Ask, Verify,
                  Entitle, InsertMember, Reuse, Issue, IssueFails, Deliver, Crash, Fail
    <2> QED
      BY <1>1, <2>1 DEF BackedByOwn
  <1> QED
    BY <1>2, <1>3

\* Steps around the updates change nothing these facts are about.
LEMMA AccountStep ==
  ASSUME AccountInv, [Next]_vars
  PROVE  AccountInv'
  <1>0. TypeInv'
    BY TypeStep DEF AccountInv
  <1>1. ASSUME NEW w \in Hooks, HookActs(w) PROVE AccountInv'
    BY <1>0, <1>1, OthersKnowAccount, OwnKnowsAccount, BackingStep DEF AccountInv
  <1>2. CASE \/ UNCHANGED vars \/ \E u \in Users : Start(u)
             \/ \E k \in Keys, uid \in Uids : Remove(k, uid)
             \/ JoinChannel \/ DayPasses
    <2>1. UNCHANGED <<accounts, locks, hook, backing>>
      BY <1>2 DEF vars, storeVars, onboardingVars, Start, Remove, JoinChannel, Join, DayPasses, Tick
    <2> QED
      BY <1>0, <2>1 DEF AccountInv, KnowsAccount, BackedByOwn, AccountRowOf
  <1> QED
    BY <1>1, <1>2 DEF Next, HookActs

\* The inductive invariant about accounts, for any number of updates at once.
THEOREM AccountInvariant == Spec => []AccountInv
  <1>1. Init => AccountInv
    <2> SUFFICES ASSUME Init PROVE AccountInv
      OBVIOUS
    <2>1. TypeInv
      BY StoreInitType, IdleType DEF Init, TypeInv, TypeOK
    <2> QED
      BY <2>1 DEF Init, AccountInv, KnowsAccount, BackedByOwn, Idle, Open, Holding
  <1>2. AccountInv /\ [Next]_vars => AccountInv'
    BY AccountStep
  <1> QED
    BY <1>1, <1>2, PTL DEF Spec

\* membership.py, the anti-sharing rule: however submissions interleave, one
\* exchange account never backs the memberships of two people.
THEOREM AccountsNotShared == Spec => []OneAccountOneMember
  <1>1. AccountInv => OneAccountOneMember
    BY DEF AccountInv, BackedByOwn, OneAccountOneMember
  <1> QED
    BY <1>1, AccountInvariant, PTL

-----------------------------------------------------------------------------
(* One user, one UID. *)

\* The UIDs a user has recorded or is submitting.
UidsOf(u) ==
  {x \in Uids : accounts[x].owner = u \/ \E w \in Hooks : hook[w].user = u /\ hook[w].uid = x}

\* No user has two.
OneUidEach == \A u \in Users : \A x, y \in UidsOf(u) : x = y

\* The row's link is one of those minted, for the key, expiring when the row says.
Minted(ls, k, m) ==
  /\ m.link \in 1..Len(ls) /\ ls[m.link].key = k
  /\ ls[m.link].expires = m.issuedAt + InviteTtl

\* While an update holds its account, nobody else touches the rows of its
\* membership: what it has read is what is there, and what it will write is an
\* invitation with a link.
KnowsMember(w) ==
  LET h == hook[w]
      k == KeyOf(w)
  IN  /\ h.stage \in Holding => h.sub = SubPlan(subs[k])
      /\ h.stage \in {"joining", "issuing", "saving"} => h.seen = members[k]
      /\ h.stage \in {"joining", "issuing"} =>
           /\ h.new.status \in {"PENDING", "INVITED"}
           /\ "INVITED" \in {h.new.status, h.seen.status} => h.new = h.seen
      /\ h.stage = "saving" => h.new.status = "INVITED" /\ Minted(links, k, h.new)

\* What two of the properties say of one membership.
RowsAgree(k) ==
  LET m == members[k]
  IN  /\ m.status \in {"ABSENT", "INVITED", "REVOKED"}
      /\ m.status = "INVITED" => Minted(links, k, m)
      /\ subs[k].n = IF m.status = "ABSENT" THEN 0 ELSE 1

MemberInv ==
  AccountInv /\ (\A k \in Keys : RowsAgree(k)) /\ \A w \in Hooks : KnowsMember(w)

\* Two updates of one user never hold their account at the same time: it is the
\* same account.
LEMMA OneHolder ==
  ASSUME AccountInv, OneUidEach, NEW w \in Hooks, NEW v \in Hooks,
         hook[w].stage \in Holding, hook[v].stage \in Holding, hook[w].user = hook[v].user
  PROVE  w = v
  <1>1. /\ hook[w].uid \in Uids /\ hook[v].uid \in Uids /\ hook[w].user \in Users
        /\ locks[AccountRowOf(w)] = w /\ locks[AccountRowOf(v)] = v
    BY HookFacts DEF AccountInv, KnowsAccount, Holding, Open
  <1>2. hook[w].uid \in UidsOf(hook[w].user) /\ hook[v].uid \in UidsOf(hook[w].user)
    BY <1>1 DEF UidsOf
  <1>3. hook[w].uid = hook[v].uid
    BY <1>1, <1>2 DEF OneUidEach
  <1> QED
    BY <1>1, <1>3 DEF AccountRowOf

\* No step forgets a link, or changes whom it is for or when it expires.
LEMMA LinksStay ==
  ASSUME TypeInv, [Next]_vars
  PROVE  \A l \in 1..Len(links) :
           /\ l \in 1..Len(links')
           /\ links'[l].key = links[l].key /\ links'[l].expires = links[l].expires
  <1>0. links \in Seq(Link) /\ Len(links) \in Nat
    BY DEF TypeInv, TypeOK, StoreTypeOK
  <1>1. CASE UNCHANGED links
    BY <1>1
  <1>2. ASSUME NEW k \in Keys, Mint(k, now)
        PROVE  \A l \in 1..Len(links) : l \in 1..Len(links') /\ links'[l] = links[l]
    BY <1>0, <1>2, MintType DEF Mint, TypeInv, TypeOK
  <1>3. CASE JoinChannel
    <2>1. PICK k \in Keys, j \in 1..Len(links) : links' = [links EXCEPT ![j].used = TRUE]
      BY <1>3 DEF JoinChannel, Join
    <2>2. \A l \in 1..Len(links) : links[l] \in Link
      BY <1>0
    <2>3. Len(links') = Len(links)
      BY <1>0, <2>1
    <2>4. ASSUME NEW l \in 1..Len(links)
          PROVE  links'[l].key = links[l].key /\ links'[l].expires = links[l].expires
      BY <1>0, <2>1, <2>2 DEF Link
    <2> QED
      BY <2>3, <2>4
  <1>4. ASSUME NEW w \in Hooks, Issue(w) \/ IssueFails(w)
        PROVE  UNCHANGED links \/ \E k \in Keys : Mint(k, now)
    BY <1>4, HookFacts DEF Issue, IssueFails, Open
  <1>5. ASSUME NEW w \in Hooks, HookActs(w), ~Issue(w), ~IssueFails(w)
        PROVE  UNCHANGED links
    <2>1. CASE InsertUser(w) \/ InsertMember(w) \/ Crash(w)
      BY <2>1 DEF InsertUser, InsertMember, Crash
    <2>2. CASE Verify(w)
      BY <2>2 DEF Verify
    <2>3. CASE Entitle(w) \/ Claimed(w) \/ Save(w)
      BY <2>3 DEF Entitle, Claimed, Save
    <2>4. CASE \/ \E u \in Users, m \in Markets, uid \in Uids : Receive(w, u, m, uid)
               \/ KnownUser(w) \/ \E check \in Checks : Ask(w, check)
               \/ Reuse(w) \/ \E arrives \in BOOLEAN : Deliver(w, arrives)
      BY <2>4 DEF Receive, KnownUser, Ask, Reuse, Deliver, storeVars
    <2> QED
      BY <1>5, <2>1, <2>2, <2>3, <2>4 DEF HookActs, Advance
  <1>6. CASE \/ UNCHANGED vars \/ \E u \in Users : Start(u)
             \/ \E k \in Keys, uid \in Uids : Remove(k, uid)
             \/ DayPasses
    BY <1>1, <1>6 DEF vars, storeVars, Start, Remove, DayPasses, Tick
  <1> QED
    BY <1>1, <1>2, <1>3, <1>4, <1>5, <1>6 DEF Next, HookActs

\* An update writes the rows of a membership only when it commits.
LEMMA RowsWritten ==
  ASSUME NEW w \in Hooks, HookActs(w), ~Save(w)
  PROVE  subs' = subs /\ members' = members
  <1>1. CASE InsertUser(w) \/ InsertMember(w) \/ Crash(w) \/ IssueFails(w)
    BY <1>1 DEF InsertUser, InsertMember, Crash, IssueFails, Fail
  <1>2. CASE Verify(w)
    BY <1>2 DEF Verify, Fail
  <1>3. CASE Entitle(w) \/ Claimed(w) \/ Issue(w)
    BY <1>3 DEF Entitle, Claimed, Issue
  <1>4. CASE \/ \E u \in Users, m \in Markets, uid \in Uids : Receive(w, u, m, uid)
             \/ KnownUser(w) \/ \E check \in Checks : Ask(w, check)
             \/ Reuse(w) \/ \E arrives \in BOOLEAN : Deliver(w, arrives)
    BY <1>4 DEF Receive, KnownUser, Ask, Reuse, Deliver, storeVars
  <1> QED
    BY <1>1, <1>2, <1>3, <1>4 DEF HookActs, Advance

\* An update that does not move keeps what it knows while its rows stay.
LEMMA MemberFrame ==
  ASSUME TypeInv, [Next]_vars, NEW v \in Hooks, KnowsMember(v), hook'[v] = hook[v],
         hook[v].stage \in Holding =>
           subs'[KeyOf(v)] = subs[KeyOf(v)] /\ members'[KeyOf(v)] = members[KeyOf(v)]
  PROVE  KnowsMember(v)'
  <1>1. KeyOf(v)' = KeyOf(v)
    BY DEF KeyOf
  <1>2. Minted(links, KeyOf(v), hook[v].new) => Minted(links', KeyOf(v), hook[v].new)
    BY <1>1, LinksStay DEF Minted
  <1> QED
    BY <1>1, <1>2 DEF KnowsMember, Holding

\* Rows that stay keep agreeing.
LEMMA RowsFrame ==
  ASSUME TypeInv, [Next]_vars, NEW k \in Keys, RowsAgree(k),
         subs'[k] = subs[k], members'[k] = members[k]
  PROVE  RowsAgree(k)'
  <1>1. Minted(links, k, members[k]) => Minted(links', k, members[k])
    BY LinksStay DEF Minted
  <1> QED
    BY <1>1 DEF RowsAgree

\* What an update knows after a step of its own.
LEMMA OwnKnowsMember ==
  ASSUME MemberInv, [Next]_vars, NEW w \in Hooks, HookActs(w)
  PROVE  KnowsMember(w)'
  <1>0. /\ TypeInv /\ KnowsMember(w) /\ hook[w] \in Hook /\ Staged(hook[w])
        /\ hook \in [Hooks -> Hook]
        /\ hook[w].stage \in Open => KeyOf(w) \in Keys /\ RowsAgree(KeyOf(w))
    BY HookFacts DEF MemberInv, AccountInv
  <1>a. Idle.stage = "idle" /\ (Fail(w) => hook'[w] = Idle)
    BY <1>0 DEF Fail, Idle
  <1>1. CASE hook'[w].stage \notin Holding
    BY <1>1 DEF KnowsMember, Holding
  <1>2. CASE Verify(w) /\ hook'[w].stage \in Holding
    <2> DEFINE p == SubPlan(subs[KeyOf(w)])
    <2>1. hook'[w] = [hook[w] EXCEPT !.stage = "enrolling", !.sub = p] /\ subs' = subs
      <3>1. ~Taken(w)
        BY <1>a, <1>2 DEF Verify, Holding
      <3>2. hook[w].reason = "ELIGIBLE"
        BY <1>0, <1>a, <1>2, <3>1 DEF Verify, Holding
      <3> QED
        BY <1>0, <1>2, <3>1, <3>2 DEF Verify
    <2> HIDE DEF p
    <2>2. KeyOf(w)' = KeyOf(w) /\ hook'[w].sub = p /\ hook'[w].stage = "enrolling"
      BY <1>0, <2>1 DEF KeyOf, Hook
    <2> QED
      BY <2>1, <2>2 DEF KnowsMember, p
  <1>3. CASE Entitle(w)
    <2> DEFINE row == members[KeyOf(w)]
               s == IF row.status = "ABSENT" THEN "joining" ELSE "issuing"
               new == EnsuredMember(row, now)
    <2>1. /\ hook'[w] = [hook[w] EXCEPT !.stage = s, !.seen = row, !.new = new]
          /\ hook[w].stage = "enrolling" /\ subs' = subs /\ members' = members
      BY <1>0, <1>3 DEF Entitle
    <2>2. KeyOf(w) \in Keys /\ row.status \in {"ABSENT", "INVITED", "REVOKED"} /\ row \in MemberRow
      BY <1>0, <2>1 DEF Open, RowsAgree, TypeInv, TypeOK, StoreTypeOK
    <2>3. /\ new.status \in {"PENDING", "INVITED"}
          /\ "INVITED" \in {new.status, row.status} => new = row
      BY <2>2 DEF EnsuredMember, MemberRow
    <2>4. s \in {"joining", "issuing"}
      OBVIOUS
    <2> HIDE DEF s, new
    <2>5. /\ KeyOf(w)' = KeyOf(w) /\ hook'[w].sub = hook[w].sub /\ hook'[w].stage = s
          /\ hook'[w].seen = row /\ hook'[w].new = new
      BY <1>0, <2>1 DEF KeyOf, Hook
    <2> QED
      BY <1>0, <2>1, <2>3, <2>4, <2>5 DEF KnowsMember, Holding
  <1>4. CASE InsertMember(w) /\ hook'[w].stage \in Holding
    <2>1. /\ hook'[w] = [hook[w] EXCEPT !.stage = "issuing"] /\ hook[w].stage = "joining"
          /\ subs' = subs /\ members' = members
      BY <1>0, <1>a, <1>4 DEF InsertMember, Holding
    <2>2. /\ KeyOf(w)' = KeyOf(w) /\ hook'[w].sub = hook[w].sub /\ hook'[w].stage = "issuing"
          /\ hook'[w].seen = hook[w].seen /\ hook'[w].new = hook[w].new
      BY <1>0, <2>1 DEF KeyOf, Hook
    <2> QED
      BY <1>0, <2>1, <2>2 DEF KnowsMember, Holding
  <1>5. CASE Reuse(w)
    <2>1. /\ hook'[w] = [hook[w] EXCEPT !.stage = "saving", !.link = hook[w].new.link]
          /\ hook[w].stage = "issuing" /\ LiveLink(hook[w].new, now)
          /\ subs' = subs /\ members' = members /\ links' = links
      BY <1>0, <1>5 DEF Reuse, storeVars
    <2>2. /\ KeyOf(w)' = KeyOf(w) /\ hook'[w].sub = hook[w].sub /\ hook'[w].stage = "saving"
          /\ hook'[w].seen = hook[w].seen /\ hook'[w].new = hook[w].new
      BY <1>0, <2>1 DEF KeyOf, Hook
    <2>3. hook[w].new.status = "INVITED" /\ hook[w].new = members[KeyOf(w)]
      BY <1>0, <2>1 DEF KnowsMember, LiveLink
    <2>4. Minted(links, KeyOf(w), hook[w].new)
      BY <1>0, <2>1, <2>3 DEF RowsAgree, Open
    <2>5. Minted(links', KeyOf(w), hook[w].new)
      BY <2>1, <2>4
    <2> QED
      BY <1>0, <2>1, <2>2, <2>3, <2>5 DEF KnowsMember, Holding
  <1>6. CASE Issue(w)
    <2> DEFINE link == Len(links) + 1
               new == IssuedMember(hook[w].new, link, now)
    <2>1. /\ hook'[w] = [hook[w] EXCEPT !.stage = "saving", !.link = link, !.new = new]
          /\ hook[w].stage = "issuing" /\ Mint(KeyOf(w), now)
          /\ subs' = subs /\ members' = members /\ now' = now
      BY <1>0, <1>6 DEF Issue
    <2>2. /\ new.status = "INVITED" /\ new.link = link /\ new.issuedAt = now
      BY <1>0, <2>1 DEF KnowsMember, IssuedMember, Hook, MemberRow
    <2>3. /\ link \in 1..Len(links') /\ links'[link].key = KeyOf(w)
          /\ links'[link].expires = now + InviteTtl
      BY <1>0, <2>1, MintType DEF Mint, TypeInv, TypeOK, StoreTypeOK, Open
    <2> HIDE DEF new, link
    <2>4. /\ KeyOf(w)' = KeyOf(w) /\ hook'[w].sub = hook[w].sub /\ hook'[w].stage = "saving"
          /\ hook'[w].seen = hook[w].seen /\ hook'[w].new = new
      BY <1>0, <2>1 DEF KeyOf, Hook
    <2>5. Minted(links', KeyOf(w), new)
      BY <2>1, <2>2, <2>3, <2>4 DEF Minted
    <2> QED
      BY <1>0, <2>1, <2>2, <2>4, <2>5 DEF KnowsMember, Holding
  <1>7. CASE \/ \E u \in Users, m \in Markets, uid \in Uids : Receive(w, u, m, uid)
             \/ InsertUser(w) \/ KnownUser(w) \/ Claimed(w)
             \/ \E check \in Checks : Ask(w, check)
             \/ IssueFails(w) \/ Save(w)
             \/ \E arrives \in BOOLEAN : Deliver(w, arrives) \/ Crash(w)
    <2>1. CASE \E u \in Users, m \in Markets, uid \in Uids : Receive(w, u, m, uid)
      BY <1>0, <1>1, <2>1 DEF Receive, Idle, Holding
    <2>2. CASE InsertUser(w)
      <3>1. CASE hook[w].user \in users
        BY <1>a, <1>1, <2>2, <3>1 DEF InsertUser, Holding
      <3>2. CASE hook[w].user \notin users
        <4>1. hook'[w] = [hook[w] EXCEPT !.stage = "asking", !.account = accounts[hook[w].uid]]
          BY <1>0, <2>2, <3>2 DEF InsertUser
        <4> QED
          BY <1>0, <1>1, <4>1 DEF Hook, Holding
      <3> QED
        BY <3>1, <3>2
    <2>3. CASE KnownUser(w) \/ \E check \in Checks : Ask(w, check)
      <3>1. hook'[w].stage \in {"asking", "verifying"}
        <4>1. CASE KnownUser(w)
          BY <1>0, <4>1 DEF KnownUser, Hook
        <4>2. ASSUME NEW check \in Checks, Ask(w, check) PROVE hook'[w].stage = "verifying"
          BY <1>0, <4>2 DEF Ask, Hook
        <4> QED
          BY <2>3, <4>1, <4>2
      <3> QED
        BY <1>1, <3>1 DEF Holding
    <2>4. CASE \/ Claimed(w) \/ IssueFails(w) \/ Crash(w)
               \/ \E arrives \in BOOLEAN : Deliver(w, arrives)
      BY <1>0, <1>a, <1>1, <2>4 DEF Claimed, IssueFails, Crash, Deliver, Holding
    <2>5. CASE Save(w)
      BY <1>0, <1>1, <2>5 DEF Save, Idle, Holding
    <2> QED
      BY <1>7, <2>1, <2>2, <2>3, <2>4, <2>5
  <1> QED
    BY <1>1, <1>2, <1>3, <1>4, <1>5, <1>6, <1>7 DEF HookActs, Advance

\* A commit leaves an invited member with one active subscription.
LEMMA SaveAgrees ==
  ASSUME MemberInv, NEW w \in Hooks, Save(w), NEW k \in Keys, k = KeyOf(w)
  PROVE  /\ RowsAgree(k)'
         /\ members'[k] = hook[w].new
         /\ members'[k].status = "INVITED" /\ subs'[k].status = "ACTIVE"
         /\ \A j \in Keys \ {k} : subs'[j] = subs[j] /\ members'[j] = members[j]
  <1> DEFINE h == hook[w]
             sub == CASE h.sub = "inserted" -> [n |-> subs[k].n + 1, status |-> "ACTIVE"]
                      [] h.sub = "revived"  -> [subs[k] EXCEPT !.status = "ACTIVE"]
                      [] h.sub = "kept"     -> subs[k]
  <1>1. /\ h.stage = "saving" /\ subs' = [subs EXCEPT ![k] = sub]
        /\ members' = [members EXCEPT ![k] = Merge(members[k], h.seen, h.new)]
        /\ links' = links
    BY DEF Save
  <1>2. /\ k \in Keys /\ h \in Hook /\ RowsAgree(k) /\ KnowsMember(w)
        /\ subs \in [Keys -> SubRow] /\ members \in [Keys -> MemberRow]
    BY <1>1, HookFacts DEF MemberInv, AccountInv, Open, TypeInv, TypeOK, StoreTypeOK
  <1>3. /\ h.seen = members[k] /\ h.sub = SubPlan(subs[k])
        /\ h.new.status = "INVITED" /\ Minted(links, k, h.new)
    BY <1>1, <1>2 DEF KnowsMember, Holding
  <1>4. members'[k] = h.new
    BY <1>1, <1>2, <1>3, MergeSame DEF Hook
  <1>5. sub.n = 1 /\ sub.status = "ACTIVE"
    <2>1. subs[k] \in SubRow /\ subs[k].n \in {0, 1}
      BY <1>2 DEF RowsAgree
    <2> QED
      BY <1>3, <2>1 DEF SubPlan, SubRow
  <1>6. subs'[k].n = 1 /\ subs'[k].status = "ACTIVE"
    BY <1>1, <1>2, <1>5
  <1>7. Minted(links', k, h.new)
    BY <1>1, <1>3 DEF Minted
  <1>8. RowsAgree(k)'
    BY <1>3, <1>4, <1>6, <1>7 DEF RowsAgree, Minted
  <1> QED
    BY <1>1, <1>2, <1>3, <1>4, <1>6, <1>8

\* One step of the whole system, while no user has two UIDs.
LEMMA MemberStep ==
  ASSUME MemberInv, OneUidEach, [Next]_vars
  PROVE  MemberInv'
  <1>0. TypeInv /\ AccountInv /\ AccountInv'
    BY AccountStep DEF MemberInv, AccountInv
  <1>1. ASSUME NEW w \in Hooks, HookActs(w), ~Save(w) PROVE MemberInv'
    <2>1. subs' = subs /\ members' = members
      BY <1>1, RowsWritten
    <2>2. \A v \in Hooks \ {w} : KnowsMember(v)'
      BY <1>0, <1>1, <2>1, OthersUntouched, MemberFrame DEF MemberInv
    <2>3. \A k \in Keys : RowsAgree(k)'
      BY <1>0, <2>1, RowsFrame DEF MemberInv
    <2> QED
      BY <1>0, <1>1, <2>2, <2>3, OwnKnowsMember DEF MemberInv
  <1>2. ASSUME NEW w \in Hooks, Save(w) PROVE MemberInv'
    <2>1. HookActs(w) /\ hook[w].stage = "saving"
      BY <1>2 DEF HookActs, Advance, Save
    <2> DEFINE mine == KeyOf(w)
    <2>2. /\ mine \in Keys
          /\ \A k \in Keys : k = mine => RowsAgree(k)'
          /\ \A k \in Keys \ {mine} : subs'[k] = subs[k] /\ members'[k] = members[k]
      <3>1. mine \in Keys
        BY <1>0, <2>1, HookFacts DEF Open
      <3>2. PICK k \in Keys : k = KeyOf(w)
        BY <3>1
      <3> QED
        BY <1>2, <3>1, <3>2, SaveAgrees
    <2>3. ASSUME NEW k \in Keys PROVE RowsAgree(k)'
      <3>1. CASE k = mine
        BY <2>2, <3>1
      <3>2. CASE k # mine
        BY <1>0, <2>2, <3>2, RowsFrame DEF MemberInv
      <3> QED
        BY <3>1, <3>2
    <2>4. ASSUME NEW v \in Hooks \ {w} PROVE KnowsMember(v)'
      <3>1. hook[v].stage \in Holding => KeyOf(v) \in Keys /\ KeyOf(v) # KeyOf(w)
        BY <1>0, <2>1, <2>4, OneHolder, HookFacts DEF Holding, Open, KeyOf
      <3> QED
        BY <1>0, <2>1, <2>2, <2>4, <3>1, OthersUntouched, MemberFrame DEF MemberInv
    <2> QED
      BY <1>0, <2>1, <2>3, <2>4, OwnKnowsMember DEF MemberInv
  <1>3. ASSUME NEW k \in Keys, NEW uid \in Uids, Remove(k, uid) PROVE MemberInv'
    <2>1. /\ members[k].status \in Monitored /\ members'[k].status = "REVOKED"
          /\ \A j \in Keys \ {k} : members'[j] = members[j]
          /\ \A j \in Keys : subs'[j].n = subs[j].n
          /\ \A j \in Keys : j # <<k[1], accounts[uid].market>> => subs'[j] = subs[j]
          /\ accounts[uid].owner = k[1] /\ locks[<<"account", uid>>] = NoOne
          /\ hook' = hook /\ links' = links
      BY <1>0, <1>3, RemovedRows DEF onboardingVars
    <2>5. ASSUME NEW j \in Keys PROVE RowsAgree(j)'
      <3>1. RowsAgree(j)
        BY DEF MemberInv
      <3> QED
        BY <2>1, <3>1 DEF RowsAgree, Monitored, Minted
    <2>6. ASSUME NEW v \in Hooks PROVE KnowsMember(v)'
      <3>1. hook[v].stage \in Holding => KeyOf(v) \in Keys /\ KeyOf(v)[1] # k[1]
        <4> SUFFICES ASSUME hook[v].stage \in Holding, KeyOf(v)[1] = k[1] PROVE FALSE
          BY <1>0, HookFacts DEF Holding, Open
        <4>1. /\ hook[v].user = k[1] /\ hook[v].uid \in Uids /\ k[1] \in Users
              /\ locks[AccountRowOf(v)] = v /\ v # NoOne
          BY <1>0, HookFacts DEF KeyOf, AccountInv, KnowsAccount, Holding, Open
        <4>2. uid \in UidsOf(k[1]) /\ hook[v].uid \in UidsOf(k[1])
          BY <2>1, <4>1 DEF UidsOf
        <4>3. uid = hook[v].uid
          BY <4>1, <4>2 DEF OneUidEach
        <4> QED
          BY <2>1, <4>1, <4>3 DEF AccountRowOf
      <3>2. hook[v].stage \in Holding =>
              subs'[KeyOf(v)] = subs[KeyOf(v)] /\ members'[KeyOf(v)] = members[KeyOf(v)]
        BY <2>1, <3>1
      <3> QED
        BY <1>0, <2>1, <3>2, MemberFrame DEF MemberInv
    <2> QED
      BY <1>0, <2>5, <2>6 DEF MemberInv
  <1>4. CASE UNCHANGED vars \/ (\E u \in Users : Start(u)) \/ JoinChannel \/ DayPasses
    <2>1. UNCHANGED <<subs, members, hook>>
      BY <1>4 DEF vars, storeVars, onboardingVars, Start, JoinChannel, Join, DayPasses, Tick
    <2>2. \A k \in Keys : RowsAgree(k)'
      BY <1>0, <2>1, RowsFrame DEF MemberInv
    <2>3. \A v \in Hooks : KnowsMember(v)'
      BY <1>0, <2>1, MemberFrame DEF MemberInv
    <2> QED
      BY <1>0, <2>2, <2>3 DEF MemberInv
  <1> QED
    BY <1>1, <1>2, <1>3, <1>4 DEF Next, HookActs

\* It holds when nobody is known yet.
LEMMA MemberInit == ASSUME Init PROVE MemberInv
  <1>1. TypeInv
    BY StoreInitType, IdleType DEF Init, TypeInv, TypeOK
  <1>2. AccountInv
    BY <1>1 DEF Init, AccountInv, KnowsAccount, BackedByOwn, Idle, Open, Holding
  <1>3. \A k \in Keys : RowsAgree(k)
    BY DEF Init, StoreInit, RowsAgree, AbsentRow
  <1>4. \A w \in Hooks : KnowsMember(w)
    BY DEF Init, KnowsMember, Idle, Holding
  <1> QED
    BY <1>2, <1>3, <1>4 DEF MemberInv

\* While no user has two UIDs on record or in progress, an update that holds its
\* account has its membership's rows to itself, and the membership has its link
\* and its one subscription.
THEOREM MemberInvariant == Spec /\ []OneUidEach => []MemberInv
  BY MemberInit, MemberStep, PTL DEF Spec

\* invite_service.py, "the member is not left recorded as invited without a
\* link": for a user with one UID, however their updates interleave with each
\* other, with removals and with lost answers of Telegram.
THEOREM InvitationsComplete == Spec /\ []OneUidEach => []InvitedHasLink
  <1>1. MemberInv => InvitedHasLink
    BY DEF MemberInv, RowsAgree, Minted, InvitedHasLink
  <1> QED
    BY <1>1, MemberInvariant, PTL

\* No unique key protects the subscriptions, and yet a user with one UID has one
\* per membership.
THEOREM SubscriptionsSingle == Spec /\ []OneUidEach => []OneSubscription
  <1>1. MemberInv => OneSubscription
    BY DEF MemberInv, RowsAgree, OneSubscription
  <1> QED
    BY <1>1, MemberInvariant, PTL

\* Every account of a member is of the membership's market.  It is not when the
\* UID was first submitted for another one: the row keeps that market.
OwnMarket ==
  \A k \in Keys, x \in Uids :
    members[k].status # "ABSENT" /\ accounts[x].owner = k[1] => accounts[x].market = k[2]

\* What the entitlement adds to the invariant.
EntitleInv == MemberInv /\ EntitlementMatches

\* One step, while no user has two UIDs and every account is of its owner's
\* market: a removal ends the subscription of the membership it revokes.
LEMMA EntitleStep ==
  ASSUME EntitleInv, OneUidEach, OwnMarket, [Next]_vars
  PROVE  EntitleInv'
  <1>0. MemberInv /\ MemberInv' /\ TypeInv
    BY MemberStep DEF EntitleInv, MemberInv, AccountInv
  <1>1. CASE UNCHANGED <<subs, members>>
    BY <1>0, <1>1 DEF EntitleInv, EntitlementMatches
  <1>2. ASSUME NEW w \in Hooks, Save(w) PROVE EntitlementMatches'
    <2>1. PICK k \in Keys : k = KeyOf(w)
      BY <1>0, <1>2, HookFacts DEF Save, Open
    <2> QED
      BY <1>0, <1>2, <2>1, SaveAgrees DEF EntitleInv, EntitlementMatches
  <1>3. ASSUME NEW k \in Keys, NEW uid \in Uids, Remove(k, uid) PROVE EntitlementMatches'
    <2>1. members[k].status # "ABSENT" /\ accounts[uid].owner = k[1]
      BY <1>0, <1>3, RemovedRows DEF Monitored
    <2>2. accounts[uid].market = k[2]
      BY <2>1 DEF OwnMarket
    <2>3. k = <<k[1], accounts[uid].market>> /\ subs[k].n > 0
      BY <1>0, <2>1, <2>2 DEF Keys, MemberInv, RowsAgree
    <2>4. /\ members'[k].status = "REVOKED" /\ subs'[k].status = "EXPIRED"
          /\ \A j \in Keys \ {k} : members'[j] = members[j] /\ subs'[j] = subs[j]
      BY <1>0, <1>3, <2>3, RemovedRows
    <2> QED
      BY <2>4 DEF EntitleInv, EntitlementMatches
  <1>4. ASSUME NEW w \in Hooks, HookActs(w), ~Save(w) PROVE UNCHANGED <<subs, members>>
    BY <1>4, RowsWritten
  <1>5. CASE UNCHANGED vars \/ (\E u \in Users : Start(u)) \/ JoinChannel \/ DayPasses
    <2>1. UNCHANGED <<subs, members>>
      BY <1>5 DEF vars, storeVars, onboardingVars, Start, JoinChannel, Join, DayPasses, Tick
    <2> QED
      BY <1>1, <2>1
  <1> QED
    BY <1>0, <1>1, <1>2, <1>3, <1>4, <1>5 DEF Next, HookActs, EntitleInv

\* enums.py, "an EXPIRED entitlement leaves a REVOKED membership", also when a
\* removal races a submission of the same account: for users with one UID, of
\* the membership's market.  Without OwnMarket the sweep expires the
\* subscription of the account's market and leaves the member's ACTIVE
\* (membership_monitor.py:138, 255).
THEOREM EntitlementsAgree == Spec /\ []OneUidEach /\ []OwnMarket => []EntitlementMatches
  <1>1. Init => EntitleInv
    BY MemberInit DEF Init, StoreInit, AbsentRow, EntitleInv, EntitlementMatches
  <1>2. EntitleInv /\ OneUidEach /\ OwnMarket /\ [Next]_vars => EntitleInv'
    BY EntitleStep
  <1>3. EntitleInv => EntitlementMatches
    BY DEF EntitleInv
  <1> QED
    BY <1>1, <1>2, <1>3, PTL DEF Spec

-----------------------------------------------------------------------------
(* One open link. *)

\* Nobody is removed.
NobodyRemoved == \A k \in Keys : members[k].status # "REVOKED"

\* The links that are out, or about to be sent.
Out == held \cup {hook[w].link : w \in {v \in Hooks : hook[v].stage = "replying"}}

\* An update that is about to replace the link on the row found it expired.
SavesLink(w) ==
  LET h == hook[w]
      m == members[KeyOf(w)]
  IN  h.stage = "saving" =>
        /\ h.link = h.new.link
        /\ m.status = "INVITED" /\ m.link # h.link => ~(now < links[m.link].expires)

\* A link that is out and has not expired is the one on the row.
OutIsRecorded(l) ==
  LET m == members[links[l].key]
  IN  l \in 1..Len(links) /\ (now < links[l].expires => m.status = "INVITED" /\ m.link = l)

LinkInv ==
  MemberInv /\ (\A l \in Out : OutIsRecorded(l)) /\ \A w \in Hooks : SavesLink(w)

\* Only a commit puts a link on its way out.
LEMMA OutStays ==
  ASSUME TypeInv, NEW w \in Hooks, HookActs(w), ~Save(w)
  PROVE  Out' \subseteq Out /\ now' = now
  <1>0. hook \in [Hooks -> Hook] /\ hook[w] \in Hook /\ \A v \in Hooks \ {w} : hook'[v] = hook[v]
    BY HookFacts, OthersUntouched
  <1>a. Idle.stage = "idle"
    BY DEF Idle
  <1>1. held' \subseteq Out /\ hook'[w].stage # "replying" /\ now' = now
    <2>1. CASE \E u \in Users, m \in Markets, uid \in Uids : Receive(w, u, m, uid)
      BY <1>0, <2>1 DEF Receive, Idle, Out, storeVars
    <2>2. CASE InsertUser(w)
      <3>1. CASE hook[w].user \in users
        BY <1>0, <1>a, <2>2, <3>1 DEF InsertUser, Fail, Out
      <3>2. CASE hook[w].user \notin users
        <4>1. /\ hook'[w] = [hook[w] EXCEPT !.stage = "asking", !.account = accounts[hook[w].uid]]
              /\ held' = held /\ now' = now
          BY <1>0, <2>2, <3>2 DEF InsertUser
        <4> QED
          BY <1>0, <4>1 DEF Hook, Out
      <3> QED
        BY <3>1, <3>2
    <2>3. CASE KnownUser(w)
      BY <1>0, <2>3 DEF KnownUser, Hook, Out, storeVars
    <2>4. ASSUME NEW check \in Checks, Ask(w, check)
          PROVE  held' \subseteq Out /\ hook'[w].stage # "replying" /\ now' = now
      BY <1>0, <2>4 DEF Ask, Hook, Out, storeVars
    <2>5. CASE Claimed(w) \/ IssueFails(w) \/ Crash(w)
      BY <1>0, <1>a, <2>5 DEF Claimed, IssueFails, Crash, Fail, Out
    <2>6. CASE Verify(w)
      <3>1. CASE Taken(w)
        BY <1>0, <1>a, <2>6, <3>1 DEF Verify, Fail, Out
      <3>2. CASE ~Taken(w) /\ hook[w].reason # "ELIGIBLE"
        BY <1>0, <1>a, <2>6, <3>2 DEF Verify, Out
      <3>3. CASE ~Taken(w) /\ hook[w].reason = "ELIGIBLE"
        BY <1>0, <2>6, <3>3 DEF Verify, Hook, Out
      <3> QED
        BY <3>1, <3>2, <3>3
    <2>7. CASE Entitle(w)
      BY <1>0, <2>7 DEF Entitle, Hook, Out
    <2>8. CASE InsertMember(w)
      BY <1>0, <1>a, <2>8 DEF InsertMember, Fail, Hook, Out
    <2>9. CASE Reuse(w) \/ Issue(w)
      BY <1>0, <2>9 DEF Reuse, Issue, Hook, Out, storeVars
    <2>10. CASE \E arrives \in BOOLEAN : Deliver(w, arrives)
      BY <1>0, <1>a, <2>10 DEF Deliver, Out
    <2> QED
      BY <2>1, <2>2, <2>3, <2>4, <2>5, <2>6, <2>7, <2>8, <2>9, <2>10 DEF HookActs, Advance
  <1> QED
    BY <1>0, <1>1 DEF Out

\* An update that does not move keeps what it knows of the link while its
\* membership stays.
LEMMA SavesFrame ==
  ASSUME MemberInv, [Next]_vars, NEW v \in Hooks, SavesLink(v), hook'[v] = hook[v],
         now' \in Nat, now' >= now,
         hook[v].stage = "saving" => members'[KeyOf(v)] = members[KeyOf(v)]
  PROVE  SavesLink(v)'
  <1>0. TypeInv /\ now \in Nat /\ links \in Seq(Link)
    BY DEF MemberInv, AccountInv, TypeInv, TypeOK, StoreTypeOK, Day
  <1>1. KeyOf(v)' = KeyOf(v)
    BY DEF KeyOf
  <1> SUFFICES ASSUME hook[v].stage = "saving", members[KeyOf(v)].status = "INVITED",
                      members[KeyOf(v)].link # hook[v].link
               PROVE  ~(now' < links'[members[KeyOf(v)].link].expires)
    BY <1>1 DEF SavesLink
  <1> DEFINE l == members[KeyOf(v)].link
  <1>2. l \in 1..Len(links)
    BY <1>0, HookFacts DEF MemberInv, RowsAgree, Minted, Open
  <1>3. links[l].expires \in Nat /\ links'[l].expires = links[l].expires
    BY <1>0, <1>2, LinksStay, LinkType
  <1>4. ~(now < links[l].expires)
    BY DEF SavesLink
  <1> QED
    BY <1>0, <1>3, <1>4

\* A link that was out stays recorded while the rows stay.
LEMMA OutFrame ==
  ASSUME MemberInv, [Next]_vars, NEW l, OutIsRecorded(l), now' \in Nat, now' >= now,
         members'[links[l].key] = members[links[l].key]
  PROVE  OutIsRecorded(l)'
  <1>0. TypeInv /\ now \in Nat /\ links \in Seq(Link) /\ l \in 1..Len(links)
    BY DEF MemberInv, AccountInv, TypeInv, TypeOK, StoreTypeOK, Day, OutIsRecorded
  <1>1. /\ l \in 1..Len(links') /\ links'[l].key = links[l].key
        /\ links'[l].expires = links[l].expires /\ links[l].expires \in Nat
    BY <1>0, LinksStay, LinkType
  <1> QED
    BY <1>0, <1>1 DEF OutIsRecorded

\* What an update knows of the link after a step of its own.
LEMMA OwnSavesLink ==
  ASSUME LinkInv, NEW w \in Hooks, HookActs(w), ~Save(w)
  PROVE  SavesLink(w)'
  <1>0. /\ TypeInv /\ KnowsMember(w) /\ hook[w] \in Hook /\ hook \in [Hooks -> Hook]
        /\ links \in Seq(Link) /\ now \in Nat
        /\ hook[w].stage \in Open => KeyOf(w) \in Keys /\ RowsAgree(KeyOf(w))
    BY HookFacts DEF LinkInv, MemberInv, AccountInv, TypeInv, TypeOK, StoreTypeOK, Day
  <1>1. CASE Reuse(w)
    <2>1. /\ hook'[w] = [hook[w] EXCEPT !.stage = "saving", !.link = hook[w].new.link]
          /\ hook[w].stage = "issuing" /\ LiveLink(hook[w].new, now) /\ members' = members
      BY <1>0, <1>1 DEF Reuse, storeVars
    <2>2. hook[w].new = members[KeyOf(w)]
      BY <1>0, <2>1 DEF KnowsMember, LiveLink
    <2>3. /\ KeyOf(w)' = KeyOf(w) /\ hook'[w].new = hook[w].new
          /\ hook'[w].link = hook[w].new.link
      BY <1>0, <2>1 DEF KeyOf, Hook
    <2> QED
      BY <2>1, <2>2, <2>3 DEF SavesLink
  <1>2. CASE Issue(w)
    <2> DEFINE link == Len(links) + 1
               new == IssuedMember(hook[w].new, link, now)
               m == members[KeyOf(w)]
    <2>1. /\ hook'[w] = [hook[w] EXCEPT !.stage = "saving", !.link = link, !.new = new]
          /\ hook[w].stage = "issuing" /\ ~LiveLink(hook[w].new, now)
          /\ Mint(KeyOf(w), now) /\ members' = members /\ now' = now
      BY <1>0, <1>2 DEF Issue
    <2>2. new.link = link
      BY <1>0 DEF IssuedMember, Hook, MemberRow
    <2>3. ASSUME m.status = "INVITED" PROVE ~(now' < links'[m.link].expires)
      <3>1. hook[w].new = m /\ Minted(links, KeyOf(w), m)
        BY <1>0, <2>1, <2>3 DEF KnowsMember, RowsAgree, Open
      <3>2. m.link \in 1..Len(links) /\ m.link # NoLink
        BY <3>1 DEF Minted, NoLink
      <3>3. ~(now < m.issuedAt + InviteTtl)
        BY <2>1, <2>3, <3>1, <3>2 DEF LiveLink
      <3>4. links'[m.link] = links[m.link]
        BY <1>0, <2>1, <3>2 DEF Mint
      <3> QED
        BY <2>1, <3>1, <3>3, <3>4 DEF Minted
    <2> HIDE DEF new, link
    <2>4. KeyOf(w)' = KeyOf(w) /\ hook'[w].new = new /\ hook'[w].link = link
      BY <1>0, <2>1 DEF KeyOf, Hook
    <2> QED
      BY <2>1, <2>2, <2>3, <2>4 DEF SavesLink
  <1>3. CASE ~Reuse(w) /\ ~Issue(w)
    <2>a. Idle.stage = "idle" /\ (Fail(w) => hook'[w] = Idle)
      BY <1>0 DEF Fail, Idle
    <2>1. hook'[w].stage # "saving"
      <3>1. CASE \E u \in Users, m \in Markets, uid \in Uids : Receive(w, u, m, uid)
        BY <1>0, <3>1 DEF Receive, Idle
      <3>2. CASE InsertUser(w) \/ KnownUser(w)
        <4>1. hook'[w] = Idle
              \/ hook'[w] = [hook[w] EXCEPT !.stage = "asking", !.account = accounts[hook[w].uid]]
          BY <1>0, <2>a, <3>2 DEF InsertUser, KnownUser
        <4> QED
          BY <1>0, <2>a, <4>1 DEF Hook
      <3>3. ASSUME NEW check \in Checks, Ask(w, check) PROVE hook'[w].stage # "saving"
        BY <1>0, <3>3 DEF Ask, Hook
      <3>4. CASE Claimed(w) \/ IssueFails(w) \/ Crash(w)
                 \/ \E arrives \in BOOLEAN : Deliver(w, arrives)
        BY <1>0, <2>a, <3>4 DEF Claimed, IssueFails, Crash, Deliver
      <3>5. CASE Verify(w)
        <4>1. hook'[w] = Idle
              \/ hook'[w] = [hook[w] EXCEPT !.stage = "enrolling", !.sub = SubPlan(subs[KeyOf(w)])]
          BY <1>0, <2>a, <3>5 DEF Verify
        <4> QED
          BY <1>0, <2>a, <4>1 DEF Hook
      <3>6. CASE Entitle(w)
        BY <1>0, <3>6 DEF Entitle, Hook
      <3>7. CASE InsertMember(w)
        BY <1>0, <2>a, <3>7 DEF InsertMember, Hook
      <3> QED
        BY <1>3, <3>1, <3>2, <3>3, <3>4, <3>5, <3>6, <3>7 DEF HookActs, Advance
    <2> QED
      BY <2>1 DEF SavesLink
  <1> QED
    BY <1>1, <1>2, <1>3

\* One step of the whole system, while no user has two UIDs and nobody is removed.
LEMMA LinkStep ==
  ASSUME LinkInv, OneUidEach, NobodyRemoved, NobodyRemoved', [Next]_vars
  PROVE  LinkInv'
  <1>0. /\ MemberInv /\ AccountInv /\ TypeInv /\ now \in Nat
        /\ links \in Seq(Link) /\ \A l \in 1..Len(links) : links[l].key \in Keys
    BY LinkType DEF LinkInv, MemberInv, AccountInv, TypeInv, TypeOK, StoreTypeOK, Day
  <1>1. MemberInv' /\ now' \in Nat
    BY MemberStep DEF LinkInv, MemberInv, AccountInv, TypeInv, TypeOK, StoreTypeOK, Day
  <1>2. ASSUME NEW w \in Hooks, HookActs(w), ~Save(w) PROVE LinkInv'
    <2>1. Out' \subseteq Out /\ now' = now /\ members' = members
      BY <1>0, <1>2, OutStays, RowsWritten
    <2>2. \A l \in Out' : OutIsRecorded(l)'
      BY <1>0, <1>1, <2>1, OutFrame DEF LinkInv
    <2>3. \A v \in Hooks \ {w} : SavesLink(v)'
      BY <1>0, <1>1, <1>2, <2>1, SavesFrame, OthersUntouched DEF LinkInv
    <2> QED
      BY <1>1, <1>2, <2>2, <2>3, OwnSavesLink DEF LinkInv
  <1>3. ASSUME NEW w \in Hooks, Save(w) PROVE LinkInv'
    <2>1. HookActs(w) /\ hook[w].stage = "saving" /\ hook[w] \in Hook /\ hook \in [Hooks -> Hook]
      BY <1>0, <1>3, HookFacts DEF HookActs, Advance, Save
    <2>2. PICK k \in Keys : k = KeyOf(w)
      BY <1>0, <2>1, HookFacts DEF Open
    <2>3. /\ members'[k] = hook[w].new
          /\ \A j \in Keys \ {k} : members'[j] = members[j]
      BY <1>0, <1>3, <2>2, SaveAgrees
    <2>4. /\ now' = now /\ links' = links /\ held' = held
          /\ hook'[w].link = hook[w].link /\ hook'[w].stage = "replying"
      BY <1>3, <2>1 DEF Save, Idle
    <2>5. Out' \subseteq Out \cup {hook[w].link}
      BY <1>0, <2>1, <2>4, OthersUntouched DEF Out
    <2>6. /\ hook[w].new.status = "INVITED" /\ Minted(links, k, hook[w].new)
          /\ hook[w].link = hook[w].new.link
      BY <2>1, <2>2 DEF LinkInv, MemberInv, KnowsMember, SavesLink
    <2>7. ASSUME NEW l \in Out' PROVE OutIsRecorded(l)'
      <3>1. CASE l = hook[w].link
        BY <2>3, <2>4, <2>6, <3>1 DEF OutIsRecorded, Minted
      <3>2. CASE l \in Out /\ l # hook[w].link
        <4>1. OutIsRecorded(l)
          BY <3>2 DEF LinkInv
        <4>2. CASE links[l].key # k
          BY <1>0, <1>1, <2>3, <2>4, <4>1, <4>2, OutFrame DEF OutIsRecorded
        <4>3. CASE links[l].key = k
          <5>1. ~(now < links[l].expires)
            BY <2>1, <2>2, <3>2, <4>1, <4>3 DEF LinkInv, SavesLink, OutIsRecorded
          <5> QED
            BY <2>4, <4>1, <5>1 DEF OutIsRecorded
        <4> QED
          BY <4>2, <4>3
      <3> QED
        BY <2>5, <2>7, <3>1, <3>2
    <2>8. ASSUME NEW v \in Hooks \ {w} PROVE SavesLink(v)'
      <3>1. hook[v].stage = "saving" => KeyOf(v) \in Keys /\ KeyOf(v) # k
        BY <1>0, <2>1, <2>2, <2>8, OneHolder, HookFacts DEF Holding, Open, KeyOf
      <3> QED
        BY <1>0, <1>1, <2>1, <2>3, <2>4, <2>8, <3>1, OthersUntouched, SavesFrame DEF LinkInv
    <2>9. SavesLink(w)'
      BY <2>4 DEF SavesLink
    <2> QED
      BY <1>1, <2>7, <2>8, <2>9 DEF LinkInv
  <1>4. ASSUME NEW k \in Keys, NEW uid \in Uids, Remove(k, uid) PROVE FALSE
    <2>1. members'[k].status = "REVOKED"
      BY <1>0, <1>4, RemovedRows
    <2> QED
      BY <2>1 DEF NobodyRemoved
  <1>5. CASE UNCHANGED vars \/ (\E u \in Users : Start(u)) \/ JoinChannel \/ DayPasses
    <2>1. UNCHANGED <<members, hook, held>> /\ now' >= now
      <3>1. CASE DayPasses
        BY <1>0, <3>1 DEF DayPasses, Tick, onboardingVars
      <3>2. CASE UNCHANGED vars \/ (\E u \in Users : Start(u)) \/ JoinChannel
        <4>1. UNCHANGED <<members, hook, held, now>>
          BY <3>2 DEF vars, storeVars, onboardingVars, Start, JoinChannel, Join
        <4> QED
          BY <1>0, <4>1
      <3> QED
        BY <1>5, <3>1, <3>2
    <2>2. Out' = Out
      BY <2>1 DEF Out
    <2>3. \A l \in Out' : OutIsRecorded(l)'
      BY <1>0, <1>1, <2>1, <2>2, OutFrame DEF LinkInv
    <2>4. \A v \in Hooks : SavesLink(v)'
      BY <1>0, <1>1, <2>1, SavesFrame DEF LinkInv
    <2> QED
      BY <1>1, <2>3, <2>4 DEF LinkInv
  <1> QED
    BY <1>2, <1>3, <1>4, <1>5 DEF Next, HookActs

\* invite_service.py, a retried webhook or a double tap "cannot mint a second
\* invite": as long as no user has two UIDs and nobody is removed, nobody holds
\* two open links to one channel.  (A removal forgets the link on the row.)
THEOREM SingleOpenLink == Spec /\ []OneUidEach /\ []NobodyRemoved => []OneOpenLink
  <1>1. Init => LinkInv
    <2> SUFFICES ASSUME Init PROVE LinkInv
      OBVIOUS
    <2>1. MemberInv
      BY MemberInit
    <2>2. Out = {} /\ \A w \in Hooks : SavesLink(w)
      BY DEF Init, StoreInit, Out, Idle, SavesLink
    <2> QED
      BY <2>1, <2>2 DEF LinkInv
  <1>2. LinkInv /\ OneUidEach /\ NobodyRemoved /\ NobodyRemoved' /\ [Next]_vars => LinkInv'
    BY LinkStep
  <1>3. LinkInv => OneOpenLink
    <2> SUFFICES ASSUME LinkInv, NEW k \in Keys
                 PROVE  Cardinality({l \in held : links[l].key = k /\ ~links[l].used
                                                  /\ now < links[l].expires}) <= 1
      BY DEF OneOpenLink
    <2> DEFINE S == {l \in held : links[l].key = k /\ ~links[l].used /\ now < links[l].expires}
    <2>1. \A l \in S : l = members[k].link
      BY DEF LinkInv, Out, OutIsRecorded
    <2>2. S = {} \/ S = {members[k].link}
      BY <2>1
    <2>3. Cardinality({}) = 0 /\ Cardinality({members[k].link}) = 1
      BY FS_EmptySet, FS_Singleton
    <2> HIDE DEF S
    <2>4. Cardinality(S) <= 1
      BY <2>2, <2>3
    <2> QED
      BY <2>4 DEF S
  <1> QED
    BY <1>1, <1>2, <1>3, PTL DEF Spec
=============================================================================
