----------------------- MODULE BotConversation_proofs -----------------------
(***************************************************************************)
(* BotConversation's invariants, proved for any number of users, hooks and *)
(* edits.  In order: what normalize_uid returns; what each handler does,   *)
(* as a lemma of its own; types; the user's row as an update knows it; and *)
(* on these RightMarket, NeverGuessed, NoDeadEnd and OneSpelling, each     *)
(* with the invariant it needs.                                            *)
(***************************************************************************)
EXTENDS BotConversation, FiniteSetTheorems, WellFoundedInduction, TLAPS

-----------------------------------------------------------------------------
(* What normalize_uid returns. *)

\* Induction, for a set of numbers.
LEMMA SetInduction ==
  ASSUME NEW T \in SUBSET Nat, 0 \in T, \A n \in T : n + 1 \in T
  PROVE  T = Nat
  <1> DEFINE R == OpToRel(<, Nat)
             B == Nat \ T
  <1> SUFFICES ASSUME B # {} PROVE FALSE
    OBVIOUS
  <1>1. IsWellFoundedOn(R, Nat)
    BY NatLessThanWellFounded
  <1>2. PICK x \in B : \A y \in B : ~(<<y, x>> \in R)
    BY <1>1, WFMin
  <1>3. x - 1 \in B /\ x - 1 < x /\ x \in Nat
    OBVIOUS
  <1>4. <<x - 1, x>> \in R
    BY <1>3 DEF OpToRel
  <1> QED
    BY <1>2, <1>3, <1>4

\* One symbol more.
Longer(raw, g, i) ==
  IF i = 0 THEN <<>>
  ELSE IF raw[i].kind = "separator" THEN g[i - 1] ELSE Append(g[i - 1], Fold(raw[i]))

\* The recursion has a solution, so Kept is one.
LEMMA KeptIs ==
  ASSUME NEW raw, Len(raw) \in Nat, NEW X,
         \A i \in 1..Len(raw) : raw[i].kind # "separator" => Fold(raw[i]) \in X
  PROVE  /\ Kept(raw) = [i \in 0..Len(raw) |-> Longer(raw, Kept(raw), i)]
         /\ Kept(raw) \in [0..Len(raw) -> Seq(X)]
  <1> DEFINE L == Len(raw)
             Solved(g, n) == \A i \in 0..n : g[i] = Longer(raw, g, i)
             Solvable(n) == \E g \in [0..n -> Seq(X)] : Solved(g, n)
             T == {n \in Nat : n <= L => Solvable(n)}
  <1>1. 0 \in T
    <2> DEFINE g == [i \in 0..0 |-> <<>>]
    <2>1. Solved(g, 0) /\ g \in [0..0 -> Seq(X)]
      BY DEF Longer
    <2> QED
      BY <2>1
  <1>2. ASSUME NEW n \in T PROVE n + 1 \in T
    <2>0. SUFFICES ASSUME n + 1 <= L PROVE Solvable(n + 1)
      <3> HIDE DEF Solvable
      <3> QED
        BY <1>2
    <2>1. PICK g \in [0..n -> Seq(X)] : Solved(g, n)
      <3>1. n \in Nat /\ n <= L
        BY <2>0
      <3>2. Solvable(n)
        <4> HIDE DEF Solvable
        <4> QED
          BY <3>1, <1>2
      <3> QED
        BY <3>2
    <2> DEFINE h == [i \in 0..(n + 1) |-> IF i <= n THEN g[i] ELSE Longer(raw, g, n + 1)]
    <2>2. Longer(raw, g, n + 1) \in Seq(X)
      <3>0. n \in Nat
        <4> HIDE DEF Solvable
        <4> QED
          OBVIOUS
      <3>1. n + 1 \in 1..L /\ n \in 0..n /\ g[n] \in Seq(X)
        BY <2>0, <2>1, <3>0
      <3>2. n + 1 # 0 /\ (n + 1) - 1 = n
        OBVIOUS
      <3> QED
        BY <3>1, <3>2 DEF Longer
    <2>3. h \in [0..(n + 1) -> Seq(X)]
      BY <2>1, <2>2
    <2>4. ASSUME NEW i \in 0..(n + 1) PROVE h[i] = Longer(raw, h, i)
      <3>1. i # 0 => i - 1 \in 0..n /\ h[i - 1] = g[i - 1]
        OBVIOUS
      <3>2. Longer(raw, h, i) = Longer(raw, g, i)
        BY <3>1 DEF Longer
      <3>3. CASE i <= n
        BY <2>1, <3>2, <3>3
      <3>4. CASE i = n + 1
        BY <3>2, <3>4
      <3> QED
        BY <3>3, <3>4
    <2> HIDE DEF h
    <2> QED
      BY <2>3, <2>4
  <1>3. L \in T
    <2> HIDE DEF T
    <2>1. T \in SUBSET Nat
      BY DEF T
    <2> QED
      BY <1>1, <1>2, <2>1, SetInduction
  <1>4. PICK g \in [0..L -> Seq(X)] : Solved(g, L)
    BY <1>3
  <1>5. g = [i \in 0..L |-> Longer(raw, g, i)]
    BY <1>4
  <1>6. Kept(raw) = [i \in 0..L |-> Longer(raw, Kept(raw), i)]
    BY <1>5 DEF Kept, Longer
  <1>7. Kept(raw) \in [0..L -> Seq(X)]
    <2> DEFINE U == {n \in Nat : n <= L => Kept(raw)[n] \in Seq(X)}
    <2>1. 0 \in U
      BY <1>6 DEF Longer
    <2>2. ASSUME NEW n \in U PROVE n + 1 \in U
      <3> SUFFICES ASSUME n + 1 <= L PROVE Kept(raw)[n + 1] \in Seq(X)
        OBVIOUS
      <3>1. n \in 0..L /\ n + 1 \in 0..L /\ n + 1 \in 1..L /\ n + 1 # 0 /\ (n + 1) - 1 = n
        OBVIOUS
      <3>2. Kept(raw)[n] \in Seq(X)
        BY <2>2, <3>1
      <3>3. Kept(raw)[n + 1] = Longer(raw, Kept(raw), n + 1)
        BY <1>6, <3>1
      <3> QED
        BY <3>1, <3>2, <3>3 DEF Longer
    <2>3. U = Nat
      <3> HIDE DEF U
      <3>1. U \in SUBSET Nat
        BY DEF U
      <3> QED
        BY <2>1, <2>2, <3>1, SetInduction
    <2>4. \A i \in 0..L : Kept(raw)[i] \in Seq(X)
      BY <2>3
    <2> QED
      BY <1>6, <2>4
  <1> QED
    BY <1>6, <1>7

\* What is left of a message is made of the symbols that are left, folded.
LEMMA NormalizeIn ==
  ASSUME NEW X, NEW raw \in Seq(Symbol),
         \A i \in 1..Len(raw) : raw[i].kind # "separator" => Fold(raw[i]) \in X
  PROVE  normalize_uid(raw) \in Seq(X)
  <1>1. Len(raw) \in Nat /\ Len(raw) \in 0..Len(raw)
    OBVIOUS
  <1>2. Kept(raw) \in [0..Len(raw) -> Seq(X)]
    BY <1>1, KeptIs
  <1> QED
    BY <1>1, <1>2 DEF normalize_uid

LEMMA FoldType ==
  ASSUME NEW c \in Symbol
  PROVE  Fold(c) \in Symbol
  BY DEF Fold, Symbol, Digit, Scripts

LEMMA NormalizeType ==
  ASSUME NEW raw \in Seq(Symbol)
  PROVE  normalize_uid(raw) \in Seq(Symbol)
  <1>1. \A i \in 1..Len(raw) : raw[i] \in Symbol
    OBVIOUS
  <1> QED
    BY <1>1, FoldType, NormalizeIn

-----------------------------------------------------------------------------
(* The inductive invariant. *)

\* Whose update it is, and what it has read and decided.
HookInv(h) ==
  LET q == hook[h]
  IN  /\ At(h, "idle") => q = Idle
      /\ ~At(h, "idle") => q.user \in Users
      /\ ~At(h, "idle") /\ q.alone => \A g \in Hooks \ {h} : hook[g].user # q.user
      /\ q.stage \in {"offer", "submit", "insert", "commit"} \/ q.reply = "WELCOME" =>
           q.market \in Markets
      /\ q.stage \in {"who", "submit"} \/ q.reply = "VERDICT" => q.input = "uid"
      /\ q.stage \in {"insert", "commit"} => q.reply \in {"WELCOME", "VERDICT"}
      /\ q.stage \notin {"insert", "commit", "reply"} => q.reply = "none"

\* What it knows of the user's row, and what it will make of it.
RowInv(h) ==
  LET q == hook[h]
  IN  /\ IF q.seen.exists THEN person[q.user].exists ELSE q.seen = Stranger
      /\ q.stage \in {"who", "programs", "channels"} => q.seen.pending = None
      /\ At(h, "submit") /\ q.seen.pending # None => q.market = q.seen.pending
      /\ q.stage \in {"insert", "commit"} =>
           q.new = [exists |-> TRUE,
                    pending |-> IF q.reply = "WELCOME" THEN q.market ELSE q.seen.pending]
      /\ q.alone /\ ~At(h, "idle") /\ ~At(h, "reply") => q.seen \in {Stranger, person[q.user]}
      /\ q.alone /\ q.stage \in {"insert", "commit"} => q.seen = person[q.user]
      /\ q.alone /\ At(h, "reply") /\ q.reply = "WELCOME" =>
           person[q.user] = [exists |-> TRUE, pending |-> q.market]

PersonInv == \A u \in Users : ~person[u].exists => person[u] = Stranger

\* What the user was told is what is recorded, and what their UID will be taken for.
SureInv ==
  \A u \in Users : sure[u] # None => person[u] = [exists |-> TRUE, pending |-> sure[u]]

ExpectsInv(h) ==
  LET q == hook[h]
  IN  q.expects # None =>
        /\ q.alone /\ ~At(h, "idle")
        /\ ~At(h, "reply") => person[q.user] = [exists |-> TRUE, pending |-> q.expects]
        /\ q.input = "uid" /\ ~At(h, "reply") =>
             /\ q.stage \in {"who", "submit", "insert", "commit"}
             /\ ~At(h, "who") => q.market = q.expects

\* What an update has read of the configuration is how it is, until it is edited.
FreshInv(h) ==
  LET q == hook[h]
  IN  q.fresh =>
        /\ At(h, "channels") => q.programs = program
        /\ (At(h, "submit") \/ Submitting(h)) /\ q.seen.pending = None =>
             Available(program, channel) = {q.market}

Open(m) == program[m] = "on" /\ channel[m] = "on"

\* What is offered can be had, and so can what was picked.
OfferedInv ==
  \A u \in Users : offered[u] # {} =>
    /\ \A m \in offered[u] : Open(m)
    /\ person[u].pending # None => Open(person[u].pending)

SteadyInv(h) ==
  LET q == hook[h]
  IN  /\ q.steady => q.alone /\ q.fresh /\ ~At(h, "idle") /\ q.reply # "NOT_CONFIGURED"
      /\ ~At(h, "idle") => (q.steady <=> offered[q.user] # {})
      /\ q.steady /\ (q.stage \in {"offer", "submit"} \/ q.reply = "WELCOME") => Open(q.market)
      /\ q.alone /\ q.fresh /\ q.input = "start" =>
           /\ q.reply = "CHOOSE_MARKET" => q.menu = Markets /\ \A m \in Markets : Open(m)
           /\ At(h, "offer") \/ q.reply = "WELCOME" => Available(program, channel) = {q.market}

\* Account numbers are in ASCII digits.
Ascii == [kind : {"digit"}, script : {"ascii"}, value : 0..9]
NumberInv == accounts \subseteq Seq(Ascii) /\ \A h \in Hooks : hook[h].uid \in Seq(Ascii)


-----------------------------------------------------------------------------
(* The steps of an update. *)

\* The update as it arrives: one of four.
Arrived(u, q) ==
  \/ q = [Idle EXCEPT !.stage = "programs"]
  \/ \E market \in shown[u] :
       q = [Idle EXCEPT !.stage = "offer", !.input = "button", !.market = market]
  \/ \E uid \in Seq(Symbol) :
       q = [Idle EXCEPT !.stage = "who", !.input = "uid", !.uid = uid]
  \/ q = [Idle EXCEPT !.stage = "reply", !.input = "uid", !.reply = "HINT"]

\* Where its account number comes from.
Numbered(q) ==
  \/ q.uid = <<>>
  \/ \E text \in Texts : q.uid = normalize_uid(text) /\ isdigit(q.uid)

LEMMA Arrivals ==
  ASSUME NEW h \in Hooks, NEW u \in Users,
         \/ PressStart(h, u)
         \/ \E market \in Markets : PressButton(h, u, market)
         \/ \E text \in Texts : TypeText(h, u, text)
  PROVE  \E q : Arrived(u, q) /\ Numbered(q) /\ Receive(h, u, q)
  <1>1. CASE PressStart(h, u)
    BY <1>1 DEF PressStart, Arrived, Numbered, Idle
  <1>2. ASSUME NEW market \in Markets, PressButton(h, u, market)
        PROVE  \E q : Arrived(u, q) /\ Numbered(q) /\ Receive(h, u, q)
    <2> DEFINE q == [Idle EXCEPT !.stage = "offer", !.input = "button", !.market = market]
    <2>1. Receive(h, u, q) /\ Arrived(u, q)
      BY <1>2 DEF PressButton, Arrived
    <2>2. Numbered(q)
      BY DEF Numbered, Idle
    <2> QED
      BY <2>1, <2>2
  <1>3. ASSUME NEW text \in Texts, TypeText(h, u, text)
        PROVE  \E q : Arrived(u, q) /\ Numbered(q) /\ Receive(h, u, q)
    <2> DEFINE uid == normalize_uid(text)
               number == [Idle EXCEPT !.stage = "who", !.input = "uid", !.uid = uid]
               hint == [Idle EXCEPT !.stage = "reply", !.input = "uid", !.reply = "HINT"]
    <2>1. uid \in Seq(Symbol)
      BY NormalizeType, ConversationAssumption
    <2>2. Receive(h, u, IF is_valid_bitunix_uid(uid) THEN number ELSE hint)
      BY <1>3 DEF TypeText
    <2> HIDE DEF uid
    <2>3. hint.uid = <<>> /\ number.uid = uid
      BY DEF Idle
    <2>4. Numbered(hint) /\ (is_valid_bitunix_uid(uid) => Numbered(number))
      BY <2>3 DEF Numbered, is_valid_bitunix_uid, uid
    <2>5. Arrived(u, hint) /\ Arrived(u, number)
      BY <2>1 DEF Arrived
    <2> HIDE DEF number, hint
    <2> QED
      BY <2>2, <2>4, <2>5
  <1> QED
    BY <1>1, <1>2, <1>3

LEMMA IdleType == Idle \in Hook
  BY DEF Idle, Hook, Stages, Replies, Person, Stranger, Unread, RowState

LEMMA ArrivedType ==
  ASSUME NEW u \in Users, NEW q, shown[u] \subseteq Markets, Arrived(u, q)
  PROVE  q \in Hook
  <1>1. CASE q = [Idle EXCEPT !.stage = "programs"]
    BY <1>1, IdleType DEF Hook, Stages
  <1>2. ASSUME NEW market \in shown[u],
               q = [Idle EXCEPT !.stage = "offer", !.input = "button", !.market = market]
        PROVE  q \in Hook
    BY <1>2, IdleType DEF Hook, Stages
  <1>3. ASSUME NEW uid \in Seq(Symbol),
               q = [Idle EXCEPT !.stage = "who", !.input = "uid", !.uid = uid]
        PROVE  q \in Hook
    BY <1>3, IdleType DEF Hook, Stages
  <1>4. CASE q = [Idle EXCEPT !.stage = "reply", !.input = "uid", !.reply = "HINT"]
    BY <1>4, IdleType DEF Hook, Stages, Replies
  <1> QED
    BY <1>1, <1>2, <1>3, <1>4 DEF Arrived

\* Everything of an update but its history.
SameRequest(p, q) ==
  /\ p.stage = q.stage /\ p.user = q.user /\ p.input = q.input /\ p.uid = q.uid
  /\ p.market = q.market /\ p.programs = q.programs
  /\ p.seen = q.seen /\ p.new = q.new /\ p.reply = q.reply /\ p.menu = q.menu

-----------------------------------------------------------------------------
(* Types, and what an update is about. *)

BaseInv == TypeOK /\ \A h \in Hooks : HookInv(h)

\* One hook moves; the others are as they were.
Moves(h, q) == hook' = [hook EXCEPT ![h] = q]

\* The hooks that did not move, and whose rivals are not more than before.
LEMMA HookKept ==
  ASSUME BaseInv, NEW h \in Hooks, NEW q \in Hook, Moves(h, q),
         q.user \in {hook[h].user, None}, HookInv(h)'
  PROVE  hook' \in [Hooks -> Hook] /\ \A g \in Hooks : HookInv(g)'
  <1>1. hook' \in [Hooks -> Hook] /\ hook'[h] = q /\ \A g \in Hooks \ {h} : hook'[g] = hook[g]
    BY DEF BaseInv, TypeOK, Moves
  <1>2. ASSUME NEW g \in Hooks \ {h} PROVE HookInv(g)'
    <2>1. HookInv(g) /\ hook'[g] = hook[g]
      BY <1>1 DEF BaseInv
    <2>2. ASSUME ~At(g, "idle"), hook[g].alone, NEW f \in Hooks \ {g}
          PROVE  hook'[f].user # hook[g].user
      <3>1. hook[f].user # hook[g].user /\ hook[g].user \in Users
        BY <2>1, <2>2 DEF HookInv
      <3>2. hook'[f].user \in {hook[f].user, None}
        BY <1>1
      <3> QED
        BY <3>1, <3>2, ConversationAssumption
    <2> QED
      BY <2>1, <2>2 DEF HookInv, At
  <1> QED
    BY <1>1, <1>2

\* A hook that goes on with the same update, or is done with it.
LEMMA IdleInv ==
  ASSUME NEW h \in Hooks, hook'[h] = Idle
  PROVE  HookInv(h)'
  BY DEF HookInv, At, Idle

LEMMA BaseInit ==
  ASSUME Init
  PROVE  BaseInv
  <1>1. hook \in [Hooks -> Hook] /\ \A h \in Hooks : hook[h] = Idle
    BY IdleType DEF Init
  <1>2. ASSUME NEW h \in Hooks PROVE HookInv(h)
    BY <1>1 DEF HookInv, At, Idle
  <1>3. TypeOK
    BY <1>1, ConversationAssumption DEF Init, TypeOK, RowState, Person, Stranger
  <1> QED
    BY <1>2, <1>3 DEF BaseInv

\* What an arrival changes: the hook that takes it up, and the history of the
\* user's other updates.
LEMMA ReceiveDoes ==
  ASSUME TypeOK, NEW h \in Hooks, NEW u \in Users, NEW q, Arrived(u, q), Receive(h, u, q)
  PROVE  LET p == hook'[h]
         IN  /\ At(h, "idle") /\ p \in Hook /\ p.user = u
             /\ p.alone <=> \A g \in Hooks : hook[g].user # u
             /\ p.fresh /\ p.expects = (IF p.alone THEN sure[u] ELSE None)
             /\ p.steady <=> offered'[u] # {}
             /\ p.seen = Stranger /\ p.programs = Unread
             /\ p.uid = q.uid
             /\ \/ p.stage = "programs" /\ p.input = "start" /\ p.reply = "none"
                \/ /\ p.stage = "offer" /\ p.input = "button" /\ p.reply = "none"
                   /\ p.market \in shown[u]
                \/ p.stage = "who" /\ p.input = "uid" /\ p.reply = "none"
                \/ p.stage = "reply" /\ p.input = "uid" /\ p.reply = "HINT"
             /\ \A g \in Hooks \ {h} :
                  IF hook[g].user = u
                  THEN /\ hook'[g] \in Hook /\ SameRequest(hook'[g], hook[g])
                       /\ hook'[g].fresh = hook[g].fresh /\ ~hook'[g].alone
                       /\ hook'[g].expects = None /\ ~hook'[g].steady
                  ELSE hook'[g] = hook[g]
             /\ offered'[u] # {} => /\ p.alone /\ offered'[u] = offered[u]
                                    /\ p.input = "button" => p.market \in offered[u]
             /\ \A v \in Users \ {u} : offered'[v] = offered[v]
  <1> DEFINE others == {g \in Hooks : hook[g].user = u}
             alone == others = {}
             still == IF alone /\ (q.input = "button" => q.market \in offered[u])
                      THEN offered[u] ELSE {}
             told == IF alone THEN sure[u] ELSE None
             mine == [q EXCEPT !.user = u, !.alone = alone, !.steady = still # {},
                               !.expects = told]
  <1>1. q \in Hook
    <2>1. shown[u] \subseteq Markets
      BY DEF TypeOK
    <2> QED
      BY <2>1, ArrivedType
  <1>2. /\ At(h, "idle") /\ hook'[h] = mine
        /\ \A g \in Hooks \ {h} :
             hook'[g] = IF g \in others
                        THEN [hook[g] EXCEPT !.alone = FALSE, !.expects = None, !.steady = FALSE]
                        ELSE hook[g]
    BY DEF Receive
  <1>3. offered' = [offered EXCEPT ![u] = still] /\ offered'[u] = still
        /\ \A v \in Users \ {u} : offered'[v] = offered[v]
    BY DEF Receive, TypeOK
  <1>4. /\ q.fresh /\ q.seen = Stranger /\ q.programs = Unread
        /\ \/ q.stage = "programs" /\ q.input = "start" /\ q.reply = "none"
           \/ /\ q.stage = "offer" /\ q.input = "button" /\ q.reply = "none"
              /\ q.market \in shown[u]
           \/ q.stage = "who" /\ q.input = "uid" /\ q.reply = "none"
           \/ q.stage = "reply" /\ q.input = "uid" /\ q.reply = "HINT"
    BY DEF Arrived, Idle
  <1>5. ASSUME NEW g \in Hooks \ {h}
        PROVE  IF hook[g].user = u
               THEN /\ hook'[g] \in Hook /\ SameRequest(hook'[g], hook[g])
                    /\ hook'[g].fresh = hook[g].fresh /\ ~hook'[g].alone
                    /\ hook'[g].expects = None /\ ~hook'[g].steady
               ELSE hook'[g] = hook[g]
    <2>1. hook[g] \in Hook
      BY DEF TypeOK
    <2>2. CASE hook[g].user = u
      <3>1. hook'[g] = [hook[g] EXCEPT !.alone = FALSE, !.expects = None, !.steady = FALSE]
        BY <1>2, <2>2
      <3> QED
        BY <2>1, <2>2, <3>1 DEF Hook, SameRequest
    <2>3. CASE hook[g].user # u
      BY <1>2, <2>3
    <2> QED
      BY <2>2, <2>3
  <1>6. told \in Markets \cup {None} /\ alone \in BOOLEAN
        /\ (alone <=> \A g \in Hooks : hook[g].user # u)
        /\ told = (IF alone THEN sure[u] ELSE None)
    BY DEF TypeOK
  <1>7. /\ still # {} => alone /\ still = offered[u] /\ (q.input = "button" => q.market \in offered[u])
        /\ (still # {}) \in BOOLEAN
    OBVIOUS
  <1> HIDE DEF told, alone, still, others
  <1>8. mine \in Hook /\ mine.user = u /\ mine.alone = alone /\ mine.steady = (still # {})
        /\ mine.expects = told /\ mine.stage = q.stage /\ mine.input = q.input
        /\ mine.reply = q.reply /\ mine.market = q.market /\ mine.fresh = q.fresh
        /\ mine.seen = q.seen /\ mine.programs = q.programs
        /\ mine.uid = q.uid
    BY <1>1, <1>6, <1>7 DEF Hook
  <1> HIDE DEF mine
  <1> QED
    BY <1>2, <1>3, <1>4, <1>5, <1>6, <1>7, <1>8

LEMMA BaseReceive ==
  ASSUME BaseInv, NEW h \in Hooks, NEW u \in Users, NEW q, Arrived(u, q), Receive(h, u, q)
  PROVE  BaseInv'
  <1>1. TypeOK /\ shown[u] \subseteq Markets
    BY DEF BaseInv, TypeOK
  <1>2. /\ hook'[h] \in Hook /\ hook'[h].user = u
        /\ hook'[h].alone <=> \A g \in Hooks : hook[g].user # u
        /\ \/ hook'[h].stage \in {"programs", "who"} /\ hook'[h].reply = "none"
           \/ /\ hook'[h].stage = "offer" /\ hook'[h].reply = "none"
              /\ hook'[h].market \in shown[u]
           \/ hook'[h].stage = "reply" /\ hook'[h].reply = "HINT"
        /\ hook'[h].stage = "who" => hook'[h].input = "uid"
    BY <1>1, ReceiveDoes
  <1>3. ASSUME NEW g \in Hooks \ {h}
        PROVE  \/ hook'[g] = hook[g] /\ hook[g].user # u
               \/ /\ hook'[g] \in Hook /\ SameRequest(hook'[g], hook[g])
                  /\ hook[g].user = u /\ ~hook'[g].alone
    BY <1>1, ReceiveDoes
  <1>4. hook' \in [Hooks -> Hook]
    <2>1. \A g \in Hooks : hook'[g] \in Hook
      BY <1>1, <1>2, <1>3 DEF TypeOK
    <2> QED
      BY <2>1 DEF Receive
  <1>5. TypeOK'
    <2>1. offered' \in [Users -> SUBSET Markets]
      <3>1. offered'[u] \subseteq Markets
        BY <1>1, ReceiveDoes DEF TypeOK
      <3>2. \A v \in Users \ {u} : offered'[v] = offered[v]
        BY <1>1, ReceiveDoes
      <3>3. offered' = [v \in Users |-> offered'[v]]
        BY <1>1 DEF Receive, TypeOK
      <3> QED
        BY <1>1, <3>1, <3>2, <3>3 DEF TypeOK
    <2>2. sure' \in [Users -> Markets \cup {None}]
      BY <1>1 DEF TypeOK, Receive
    <2> QED
      BY <1>1, <1>4, <2>1, <2>2 DEF TypeOK, Receive, World
  <1>6. HookInv(h)'
    <2>1. ASSUME hook'[h].alone, NEW g \in Hooks \ {h} PROVE hook'[g].user # u
      BY <1>2, <1>3, <2>1
    <2> QED
      BY <1>1, <1>2, <2>1 DEF HookInv, At
  <1>7. ASSUME NEW g \in Hooks \ {h} PROVE HookInv(g)'
    <2>1. HookInv(g)
      BY DEF BaseInv
    <2>2. CASE SameRequest(hook'[g], hook[g]) /\ hook[g].user = u /\ ~hook'[g].alone
      <3>1. ~At(g, "idle")
        BY <2>1, <2>2, ConversationAssumption DEF HookInv, Idle
      <3> QED
        BY <2>1, <2>2, <3>1 DEF HookInv, At, SameRequest
    <2>3. CASE hook'[g] = hook[g] /\ hook[g].user # u
      <3>1. ASSUME ~At(g, "idle"), hook[g].alone, NEW f \in Hooks \ {g}
            PROVE  hook'[f].user # hook[g].user
        <4>1. hook[f].user # hook[g].user
          BY <2>1, <3>1 DEF HookInv
        <4>2. hook'[f].user \in {hook[f].user, u}
          BY <1>2, <1>3 DEF SameRequest
        <4> QED
          BY <2>3, <4>1, <4>2
      <3> QED
        BY <2>1, <2>3, <3>1 DEF HookInv, At
    <2> QED
      BY <1>3, <2>2, <2>3
  <1> QED
    BY <1>5, <1>6, <1>7 DEF BaseInv

\* Everything but the hooks keeps its type when nothing but the hooks changes.
LEMMA StepType ==
  ASSUME TypeOK, NEW h \in Hooks, NEW q, Step(h, q), hook' \in [Hooks -> Hook]
  PROVE  TypeOK'
  BY DEF TypeOK, Step, World

LEMMA BaseStep ==
  ASSUME BaseInv, NEW h \in Hooks, NEW q \in Hook, Step(h, q),
         q.user \in {hook[h].user, None}, HookInv(h)'
  PROVE  BaseInv'
  <1>1. Moves(h, q)
    BY DEF Step, Moves
  <1> QED
    BY <1>1, HookKept, StepType DEF BaseInv

\* The parts of an update that are the same before and after a step.
SameUpdate(p, q) ==
  /\ p.user = q.user /\ p.uid = q.uid /\ p.expects = q.expects
  /\ p.alone = q.alone /\ p.fresh = q.fresh /\ p.steady = q.steady

\* A hook that goes on with its update keeps its rivals.
LEMMA HookGoesOn ==
  ASSUME BaseInv, NEW h \in Hooks, NEW q \in Hook, Moves(h, q), ~At(h, "idle"),
         SameUpdate(q, hook[h]), q.stage # "idle",
         q.stage \in {"offer", "submit", "insert", "commit"} \/ q.reply = "WELCOME" =>
           q.market \in Markets,
         q.stage \in {"who", "submit"} \/ q.reply = "VERDICT" => q.input = "uid",
         q.stage \in {"insert", "commit"} => q.reply \in {"WELCOME", "VERDICT"},
         q.stage \notin {"insert", "commit", "reply"} => q.reply = "none"
  PROVE  HookInv(h)'
  <1>1. hook'[h] = q /\ \A g \in Hooks \ {h} : hook'[g] = hook[g]
    BY DEF BaseInv, TypeOK, Moves
  <1>2. HookInv(h)
    BY DEF BaseInv
  <1> QED
    BY <1>1, <1>2 DEF HookInv, At, SameUpdate

-----------------------------------------------------------------------------
(* What the handlers do, one lemma each. *)

LEMMA UnreadType == Unread \in [Markets -> RowState]
  BY DEF Unread, RowState

LEMMA WhoType ==
  ASSUME BaseInv, NEW h \in Hooks, ~At(h, "idle")
  PROVE  hook[h] \in Hook /\ hook[h].user \in Users /\ person[hook[h].user] \in Person
  <1>1. TypeOK /\ HookInv(h)
    BY DEF BaseInv
  <1>2. hook[h].user \in Users
    BY <1>1 DEF HookInv
  <1> QED
    BY <1>1, <1>2 DEF TypeOK

LEMMA ReadUserDoes ==
  ASSUME BaseInv, NEW h \in Hooks, ReadUser(h)
  PROVE  \E q \in Hook :
           /\ Step(h, q) /\ SameUpdate(q, hook[h])
           /\ q.seen = person[q.user] /\ q.market = q.seen.pending
           /\ q.stage = (IF q.seen.pending = None THEN "programs" ELSE "submit")
           /\ q.input = hook[h].input /\ q.reply = hook[h].reply
  <1> DEFINE row == person[hook[h].user]
             q == [hook[h] EXCEPT !.seen = row, !.market = row.pending,
                                  !.stage = IF row.pending = None THEN "programs" ELSE "submit"]
  <1>1. At(h, "who") /\ Step(h, q)
    BY DEF ReadUser
  <1>2. hook[h] \in Hook /\ row \in Person
    BY <1>1, WhoType DEF At
  <1>3. q \in Hook
    BY <1>2 DEF Hook, Person, Stages
  <1>4. /\ SameUpdate(q, hook[h])
        /\ q.seen = person[q.user] /\ q.market = q.seen.pending
        /\ q.stage = (IF q.seen.pending = None THEN "programs" ELSE "submit")
        /\ q.input = hook[h].input /\ q.reply = hook[h].reply
    BY <1>2 DEF SameUpdate, Hook
  <1> HIDE DEF q
  <1> QED
    BY <1>1, <1>3, <1>4

LEMMA ReadProgramsDoes ==
  ASSUME BaseInv, NEW h \in Hooks, ReadPrograms(h)
  PROVE  \E q \in Hook :
           /\ Step(h, q) /\ SameUpdate(q, hook[h])
           /\ q.stage = "channels" /\ q.programs = program
           /\ q.seen = hook[h].seen /\ q.market = hook[h].market
           /\ q.input = hook[h].input /\ q.reply = hook[h].reply
  <1> DEFINE q == [hook[h] EXCEPT !.programs = program, !.stage = "channels"]
  <1>1. At(h, "programs") /\ Step(h, q)
    BY DEF ReadPrograms
  <1>2. hook[h] \in Hook /\ program \in [Markets -> RowState]
    BY DEF BaseInv, TypeOK
  <1>3. q \in Hook
    BY <1>2 DEF Hook, Stages
  <1>4. /\ SameUpdate(q, hook[h])
        /\ q.stage = "channels" /\ q.programs = program
        /\ q.seen = hook[h].seen /\ q.market = hook[h].market
        /\ q.input = hook[h].input /\ q.reply = hook[h].reply
    BY <1>2 DEF SameUpdate, Hook
  <1> HIDE DEF q
  <1> QED
    BY <1>1, <1>3, <1>4

\* A set of one market has that market for its only element.
LEMMA OnlyOne ==
  ASSUME NEW ready \in SUBSET Markets, Cardinality(ready) = 1
  PROVE  /\ (CHOOSE m \in ready : TRUE) \in Markets
         /\ ready = {CHOOSE m \in ready : TRUE}
  <1>1. IsFiniteSet(ready)
    BY ConversationAssumption, FS_Subset
  <1>2. PICK m : ready = {m}
    BY <1>1, FS_Singleton
  <1> QED
    BY <1>2

\* What _available_markets returns.
Ready(h) == Available(hook[h].programs, channel)

LEMMA ReadChannelsDoes ==
  ASSUME BaseInv, NEW h \in Hooks, ReadChannels(h)
  PROVE  \E q \in Hook :
           LET ready == Ready(h)
           IN  /\ Step(h, q) /\ SameUpdate(q, hook[h]) /\ q.seen = hook[h].seen
               /\ \/ /\ ready = {q.market} /\ q.market \in Markets
                     /\ q.stage = (IF q.input = "uid" THEN "submit" ELSE "offer")
                     /\ q.input = hook[h].input /\ q.reply = hook[h].reply
                  \/ /\ q.stage = "programs" /\ q.input = "start"
                     /\ q.reply = hook[h].reply /\ hook[h].input = "uid"
                  \/ /\ ready = {} /\ q.stage = "reply" /\ q.reply = "NOT_CONFIGURED"
                  \/ /\ q.stage = "reply" /\ q.reply = "CHOOSE_MARKET"
                     /\ ready # {} /\ Cardinality(ready) # 1 /\ q.menu = ready
  <1> DEFINE p == [hook[h] EXCEPT !.programs = Unread]
             ready == Ready(h)
             q == Chosen(p, ready)
  <1>1. At(h, "channels") /\ Step(h, q)
    BY DEF ReadChannels, Ready
  <1>2. hook[h] \in Hook
    BY DEF BaseInv, TypeOK
  <1>3. ready \subseteq Markets
    BY DEF Ready, Available
  <1>4. p \in Hook /\ SameUpdate(p, hook[h]) /\ p.seen = hook[h].seen
        /\ p.input = hook[h].input /\ p.reply = hook[h].reply
    BY <1>2, UnreadType DEF Hook, SameUpdate
  <1> HIDE DEF p, ready
  <1>5. CASE Cardinality(ready) = 1
    <2> DEFINE m == CHOOSE x \in ready : TRUE
    <2>1. m \in Markets /\ ready = {m}
      BY <1>3, <1>5, OnlyOne
    <2>2. q = [p EXCEPT !.market = m,
                        !.stage = IF p.input = "uid" THEN "submit" ELSE "offer"]
      BY <1>5 DEF Chosen
    <2> HIDE DEF m
    <2>3. q \in Hook /\ SameUpdate(q, p)
          /\ q.seen = p.seen /\ q.input = p.input /\ q.reply = p.reply /\ q.market = m
          /\ q.stage = (IF q.input = "uid" THEN "submit" ELSE "offer")
      BY <1>4, <2>1, <2>2 DEF Hook, SameUpdate, Stages
    <2> HIDE DEF q
    <2> QED
      BY <1>1, <1>4, <2>1, <2>3 DEF SameUpdate, ready
  <1>6. CASE Cardinality(ready) # 1 /\ p.input = "uid"
    <2>2. q = [p EXCEPT !.stage = "programs", !.input = "start"]
      BY <1>6 DEF Chosen
    <2>3. q \in Hook /\ SameUpdate(q, p)
          /\ q.seen = p.seen /\ q.input = "start" /\ q.reply = p.reply /\ q.stage = "programs"
      BY <1>4, <2>2 DEF Hook, SameUpdate, Stages
    <2> HIDE DEF q
    <2> QED
      BY <1>1, <1>4, <1>6, <2>3 DEF SameUpdate, ready
  <1>7. CASE Cardinality(ready) # 1 /\ p.input # "uid" /\ ready = {}
    <2>2. q = [p EXCEPT !.stage = "reply", !.reply = "NOT_CONFIGURED"]
      BY <1>7 DEF Chosen
    <2>3. q \in Hook /\ SameUpdate(q, p)
          /\ q.seen = p.seen /\ q.stage = "reply" /\ q.reply = "NOT_CONFIGURED"
      BY <1>4, <2>2 DEF Hook, SameUpdate, Stages, Replies
    <2> HIDE DEF q
    <2> QED
      BY <1>1, <1>4, <1>7, <2>3 DEF SameUpdate, ready
  <1>8. CASE Cardinality(ready) # 1 /\ p.input # "uid" /\ ready # {}
    <2>2. q = [p EXCEPT !.stage = "reply", !.reply = "CHOOSE_MARKET", !.menu = ready]
      BY <1>8 DEF Chosen
    <2>3. q \in Hook /\ SameUpdate(q, p)
          /\ q.seen = p.seen /\ q.stage = "reply" /\ q.reply = "CHOOSE_MARKET" /\ q.menu = ready
      BY <1>3, <1>4, <2>2 DEF Hook, SameUpdate, Stages, Replies
    <2> HIDE DEF q
    <2> QED
      BY <1>1, <1>4, <1>8, <2>3 DEF SameUpdate, ready
  <1> QED
    BY <1>5, <1>6, <1>7, <1>8

LEMMA PersonExt ==
  ASSUME NEW r \in Person, NEW t \in Person, r.exists = t.exists, r.pending = t.pending
  PROVE  r = t
  BY DEF Person

LEMMA PersonExcept ==
  ASSUME NEW r \in Person, NEW m \in Markets \cup {None}
  PROVE  /\ [exists |-> TRUE, pending |-> m] \in Person
         /\ [r EXCEPT !.exists = TRUE] = [exists |-> TRUE, pending |-> r.pending]
         /\ r.exists => [r EXCEPT !.pending = m] = [exists |-> TRUE, pending |-> m]
  <1>1. [r EXCEPT !.exists = TRUE] \in Person /\ [r EXCEPT !.pending = m] \in Person
        /\ [exists |-> TRUE, pending |-> r.pending] \in Person
        /\ [exists |-> TRUE, pending |-> m] \in Person
    BY DEF Person
  <1>2. [r EXCEPT !.exists = TRUE].exists = TRUE /\ [r EXCEPT !.exists = TRUE].pending = r.pending
        /\ [r EXCEPT !.pending = m].exists = r.exists /\ [r EXCEPT !.pending = m].pending = m
        /\ r.exists \in BOOLEAN
    BY DEF Person
  <1>3. [r EXCEPT !.exists = TRUE] = [exists |-> TRUE, pending |-> r.pending]
    BY <1>1, <1>2, PersonExt
  <1>4. r.exists => [r EXCEPT !.pending = m] = [exists |-> TRUE, pending |-> m]
    BY <1>1, <1>2, PersonExt
  <1> QED
    BY <1>1, <1>3, <1>4

\* The row an update goes on with.
Row(q) == IF q.seen.exists THEN q.seen ELSE person[q.user]

LEMMA WithUserDoes ==
  ASSUME NEW q \in Hook, q.user \in Users, person[q.user] \in Person
  PROVE  LET p == WithUser(q)
         IN  /\ p \in Hook /\ SameUpdate(p, q)
             /\ p.seen = Row(q) /\ p.new = [exists |-> TRUE, pending |-> p.seen.pending]
             /\ p.stage = (IF p.seen.exists THEN "commit" ELSE "insert")
             /\ p.market = q.market /\ p.input = q.input
  <1> DEFINE row == Row(q)
  <1>1. row \in Person
    BY DEF Row, Hook
  <1>2. WithUser(q) = [q EXCEPT !.seen = row, !.new = [row EXCEPT !.exists = TRUE],
                        !.stage = IF row.exists THEN "commit" ELSE "insert"]
    BY DEF WithUser, Row
  <1>3. [row EXCEPT !.exists = TRUE] = [exists |-> TRUE, pending |-> row.pending]
        /\ [row EXCEPT !.exists = TRUE] \in Person
    <2> HIDE DEF row
    <2>1. row.pending \in Markets \cup {None}
      BY <1>1 DEF Person
    <2> QED
      BY <1>1, <2>1, PersonExcept
  <1> HIDE DEF row
  <1> QED
    BY <1>1, <1>2, <1>3 DEF SameUpdate, Hook, Stages, row

LEMMA OfferDoes ==
  ASSUME BaseInv, NEW h \in Hooks, Offer(h)
  PROVE  \E q \in Hook :
           /\ Step(h, q) /\ SameUpdate(q, hook[h])
           /\ q.market = hook[h].market /\ q.input = hook[h].input
           /\ \/ /\ program[q.market] # "on" /\ q.stage = "reply" /\ q.reply = "NOT_CONFIGURED"
                 /\ q.seen = hook[h].seen
              \/ /\ program[q.market] = "on" /\ q.reply = "WELCOME"
                 /\ q.seen = Row(hook[h]) /\ q.new = [exists |-> TRUE, pending |-> q.market]
                 /\ q.stage = (IF q.seen.exists THEN "commit" ELSE "insert")
  <1> DEFINE p == hook[h]
             no == [p EXCEPT !.stage = "reply", !.reply = "NOT_CONFIGURED"]
             yes == [WithUser(p) EXCEPT !.new.pending = p.market, !.reply = "WELCOME"]
  <1>1. At(h, "offer") /\ Step(h, IF program[p.market] # "on" THEN no ELSE yes)
    BY DEF Offer
  <1>2. hook[h] \in Hook /\ hook[h].user \in Users /\ person[hook[h].user] \in Person
        /\ hook[h].market \in Markets
    BY <1>1, WhoType DEF BaseInv, TypeOK, HookInv, At
  <1>3. CASE program[p.market] # "on"
    <2>1. no \in Hook /\ SameUpdate(no, p) /\ no.stage = "reply" /\ no.reply = "NOT_CONFIGURED"
          /\ no.market = p.market /\ no.input = p.input /\ no.seen = p.seen
      BY <1>2 DEF Hook, SameUpdate, Stages, Replies
    <2>2. Step(h, no)
      BY <1>1, <1>3
    <2> HIDE DEF no
    <2> QED
      BY <1>2, <1>3, <2>1, <2>2 DEF SameUpdate
  <1>4. CASE program[p.market] = "on"
    <2> DEFINE w == WithUser(p)
    <2>1. /\ w \in Hook /\ SameUpdate(w, p)
          /\ w.seen = Row(p) /\ w.new = [exists |-> TRUE, pending |-> w.seen.pending]
          /\ w.stage = (IF w.seen.exists THEN "commit" ELSE "insert")
          /\ w.market = p.market /\ w.input = p.input
      BY <1>2, WithUserDoes DEF SameUpdate
    <2>2. Step(h, yes)
      BY <1>1, <1>4
    <2>3. yes = [w EXCEPT !.new = [exists |-> TRUE, pending |-> p.market], !.reply = "WELCOME"]
      <3>1. w.new \in Person /\ w.new.exists /\ p.market \in Markets \cup {None}
        <4> HIDE DEF w, yes
        <4>1. w.new \in Person /\ p.market \in Markets \cup {None}
          BY <1>2, <2>1 DEF Hook
        <4>2. w.new.exists
          BY <2>1
        <4> QED
          BY <4>1, <4>2
      <3>2. [w.new EXCEPT !.pending = p.market] = [exists |-> TRUE, pending |-> p.market]
        BY <3>1, PersonExcept
      <3>3. yes = [w EXCEPT !.new = [w.new EXCEPT !.pending = p.market], !.reply = "WELCOME"]
        OBVIOUS
      <3> HIDE DEF w, yes
      <3> QED
        BY <3>2, <3>3
    <2> HIDE DEF w, yes
    <2>4. [exists |-> TRUE, pending |-> p.market] \in Person
      BY <1>2 DEF Hook, Person
    <2>5. yes \in Hook /\ SameUpdate(yes, w) /\ yes.reply = "WELCOME"
          /\ yes.new = [exists |-> TRUE, pending |-> p.market]
          /\ yes.seen = w.seen /\ yes.stage = w.stage /\ yes.market = w.market
          /\ yes.input = w.input
      BY <2>1, <2>3, <2>4 DEF Hook, SameUpdate, Replies
    <2>6. /\ SameUpdate(yes, hook[h])
          /\ yes.market = hook[h].market /\ yes.input = hook[h].input
          /\ yes.reply = "WELCOME"
          /\ yes.seen = Row(hook[h]) /\ yes.new = [exists |-> TRUE, pending |-> yes.market]
          /\ yes.stage = (IF yes.seen.exists THEN "commit" ELSE "insert")
      BY <1>2, <2>1, <2>5 DEF SameUpdate
    <2> QED
      BY <1>4, <2>2, <2>5, <2>6
  <1> QED
    BY <1>3, <1>4

LEMMA SubmitDoes ==
  ASSUME BaseInv, NEW h \in Hooks, Submit(h)
  PROVE  \E q \in Hook :
           /\ Step(h, q) /\ SameUpdate(q, hook[h])
           /\ q.market = hook[h].market /\ q.input = hook[h].input
           /\ \/ /\ program[q.market] # "on" \/ channel[q.market] # "on"
                 /\ q.stage = "reply" /\ q.reply = "NOT_CONFIGURED"
                 /\ q.seen = hook[h].seen
              \/ /\ q.reply = "VERDICT"
                 /\ q.seen = Row(hook[h]) /\ q.new = [exists |-> TRUE, pending |-> q.seen.pending]
                 /\ q.stage = (IF q.seen.exists THEN "commit" ELSE "insert")
  <1> DEFINE p == hook[h]
             no == [p EXCEPT !.stage = "reply", !.reply = "NOT_CONFIGURED"]
             yes == [WithUser(p) EXCEPT !.reply = "VERDICT"]
             shut == program[p.market] # "on" \/ channel[p.market] # "on"
  <1>1. At(h, "submit") /\ Step(h, IF shut THEN no ELSE yes)
    BY DEF Submit
  <1>2. hook[h] \in Hook /\ hook[h].user \in Users /\ person[hook[h].user] \in Person
        /\ hook[h].market \in Markets
    BY <1>1, WhoType DEF BaseInv, TypeOK, HookInv, At
  <1>3. CASE shut
    <2>1. no \in Hook /\ SameUpdate(no, p) /\ no.stage = "reply" /\ no.reply = "NOT_CONFIGURED"
          /\ no.market = p.market /\ no.input = p.input /\ no.seen = p.seen
      BY <1>2 DEF Hook, SameUpdate, Stages, Replies
    <2>2. Step(h, no)
      BY <1>1, <1>3
    <2> HIDE DEF no
    <2> QED
      BY <1>2, <1>3, <2>1, <2>2 DEF SameUpdate
  <1>4. CASE ~shut
    <2> DEFINE w == WithUser(p)
    <2>1. /\ w \in Hook /\ SameUpdate(w, p)
          /\ w.seen = Row(p) /\ w.new = [exists |-> TRUE, pending |-> w.seen.pending]
          /\ w.stage = (IF w.seen.exists THEN "commit" ELSE "insert")
          /\ w.market = p.market /\ w.input = p.input
      BY <1>2, WithUserDoes DEF SameUpdate
    <2>2. Step(h, yes)
      BY <1>1, <1>4
    <2> HIDE DEF w
    <2>3. yes \in Hook /\ SameUpdate(yes, w) /\ yes.reply = "VERDICT"
          /\ yes.new = w.new
          /\ yes.seen = w.seen /\ yes.stage = w.stage /\ yes.market = w.market
          /\ yes.input = w.input
      BY <2>1 DEF Hook, SameUpdate, Replies, w
    <2> HIDE DEF yes
    <2>4. /\ SameUpdate(yes, hook[h])
          /\ yes.market = hook[h].market /\ yes.input = hook[h].input
          /\ yes.reply = "VERDICT"
          /\ yes.seen = Row(hook[h]) /\ yes.new = [exists |-> TRUE, pending |-> yes.seen.pending]
          /\ yes.stage = (IF yes.seen.exists THEN "commit" ELSE "insert")
      BY <1>2, <2>1, <2>3 DEF SameUpdate
    <2> QED
      BY <2>2, <2>3, <2>4
  <1> QED
    BY <1>3, <1>4

LEMMA HookExt ==
  ASSUME NEW p \in Hook, NEW q \in Hook, SameRequest(p, q), p.fresh = q.fresh,
         p.steady = q.steady, p.expects = q.expects, p.alone = q.alone
  PROVE  p = q
  BY DEF Hook, SameRequest

\* What an edit changes: the history of the updates under way.
LEMMA EditedDoes ==
  ASSUME BaseInv, Edited, NEW h \in Hooks
  PROVE  /\ hook'[h] \in Hook /\ SameRequest(hook'[h], hook[h])
         /\ hook'[h].alone = hook[h].alone /\ hook'[h].expects = hook[h].expects
         /\ ~hook'[h].steady
         /\ IF At(h, "idle") THEN hook'[h] = hook[h] ELSE ~hook'[h].fresh
  <1>1. hook'[h] = [hook[h] EXCEPT !.fresh = At(h, "idle"), !.steady = FALSE]
        /\ hook[h] \in Hook
    BY DEF BaseInv, Edited, TypeOK
  <1>2. hook'[h] \in Hook /\ SameRequest(hook'[h], hook[h]) /\ hook'[h].steady = FALSE
        /\ hook'[h].alone = hook[h].alone /\ hook'[h].expects = hook[h].expects
        /\ hook'[h].fresh = At(h, "idle")
    BY <1>1 DEF Hook, At, SameRequest
  <1>3. ASSUME At(h, "idle") PROVE hook'[h] = hook[h]
    <2>1. hook[h] = Idle
      BY <1>3 DEF BaseInv, HookInv
    <2>2. At(h, "idle") = TRUE
      BY <1>3 DEF At
    <2>3. hook'[h].fresh = Idle.fresh /\ hook'[h].steady = Idle.steady
      BY <1>2, <2>2 DEF Idle
    <2> QED
      BY <1>1, <1>2, <2>1, <2>3, HookExt
  <1> QED
    BY <1>2, <1>3

LEMMA BaseNext ==
  ASSUME BaseInv, [Next]_vars
  PROVE  BaseInv'
  <1>1. CASE UNCHANGED vars
    BY <1>1 DEF BaseInv, TypeOK, HookInv, At, vars
  <1>2. ASSUME NEW h \in Hooks, NEW u \in Users,
               \/ PressStart(h, u)
               \/ \E market \in Markets : PressButton(h, u, market)
               \/ \E text \in Texts : TypeText(h, u, text)
        PROVE  BaseInv'
    BY <1>2, Arrivals, BaseReceive
  <1>3. ASSUME NEW h \in Hooks, ReadUser(h) PROVE BaseInv'
    <2>1. At(h, "who") /\ HookInv(h)
      BY <1>3 DEF ReadUser, BaseInv
    <2>2. hook[h].input = "uid" /\ hook[h].reply = "none" /\ ~At(h, "idle")
      BY <2>1 DEF HookInv, At
    <2>3. PICK q \in Hook :
           /\ Step(h, q) /\ SameUpdate(q, hook[h])
           /\ q.seen = person[q.user] /\ q.market = q.seen.pending
           /\ q.stage = (IF q.seen.pending = None THEN "programs" ELSE "submit")
           /\ q.input = hook[h].input /\ q.reply = hook[h].reply
      BY <1>3, ReadUserDoes
    <2>4. q.stage # "programs" => q.market \in Markets
      BY <2>3 DEF Hook
    <2>5. HookInv(h)'
      BY <2>2, <2>3, <2>4, HookGoesOn DEF Step, Moves
    <2> QED
      BY <2>3, <2>5, BaseStep DEF SameUpdate
  <1>4. ASSUME NEW h \in Hooks, ReadPrograms(h) PROVE BaseInv'
    <2>1. At(h, "programs") /\ HookInv(h)
      BY <1>4 DEF ReadPrograms, BaseInv
    <2>2. hook[h].reply = "none" /\ ~At(h, "idle")
      BY <2>1 DEF HookInv, At
    <2>3. PICK q \in Hook :
           /\ Step(h, q) /\ SameUpdate(q, hook[h])
           /\ q.stage = "channels" /\ q.reply = hook[h].reply
      BY <1>4, ReadProgramsDoes
    <2>4. HookInv(h)'
      BY <2>2, <2>3, HookGoesOn DEF Step, Moves
    <2> QED
      BY <2>3, <2>4, BaseStep DEF SameUpdate
  <1>5. ASSUME NEW h \in Hooks, ReadChannels(h) PROVE BaseInv'
    <2>1. At(h, "channels") /\ HookInv(h)
      BY <1>5 DEF ReadChannels, BaseInv
    <2>2. hook[h].reply = "none" /\ ~At(h, "idle")
      BY <2>1 DEF HookInv, At
    <2>3. PICK q \in Hook :
           /\ Step(h, q) /\ SameUpdate(q, hook[h])
           /\ \/ /\ q.market \in Markets
                 /\ q.stage = (IF q.input = "uid" THEN "submit" ELSE "offer")
                 /\ q.reply = hook[h].reply
              \/ q.stage = "programs" /\ q.reply = hook[h].reply
              \/ q.stage = "reply" /\ q.reply \in {"NOT_CONFIGURED", "CHOOSE_MARKET"}
      BY <1>5, ReadChannelsDoes
    <2>4. HookInv(h)'
      BY <2>2, <2>3, HookGoesOn DEF Step, Moves
    <2> QED
      BY <2>3, <2>4, BaseStep DEF SameUpdate
  <1>6. ASSUME NEW h \in Hooks, Offer(h) PROVE BaseInv'
    <2>1. At(h, "offer") /\ HookInv(h)
      BY <1>6 DEF Offer, BaseInv
    <2>2. hook[h].market \in Markets /\ ~At(h, "idle")
      BY <2>1 DEF HookInv, At
    <2>3. PICK q \in Hook :
           /\ Step(h, q) /\ SameUpdate(q, hook[h]) /\ q.market = hook[h].market
           /\ \/ q.stage = "reply" /\ q.reply = "NOT_CONFIGURED"
              \/ q.stage \in {"insert", "commit"} /\ q.reply = "WELCOME"
      BY <1>6, OfferDoes
    <2>4. HookInv(h)'
      BY <2>2, <2>3, HookGoesOn DEF Step, Moves
    <2> QED
      BY <2>3, <2>4, BaseStep DEF SameUpdate
  <1>7. ASSUME NEW h \in Hooks, Submit(h) PROVE BaseInv'
    <2>1. At(h, "submit") /\ HookInv(h)
      BY <1>7 DEF Submit, BaseInv
    <2>2. hook[h].market \in Markets /\ hook[h].input = "uid" /\ ~At(h, "idle")
      BY <2>1 DEF HookInv, At
    <2>3. PICK q \in Hook :
           /\ Step(h, q) /\ SameUpdate(q, hook[h])
           /\ q.market = hook[h].market /\ q.input = hook[h].input
           /\ \/ q.stage = "reply" /\ q.reply = "NOT_CONFIGURED"
              \/ q.stage \in {"insert", "commit"} /\ q.reply = "VERDICT"
      BY <1>7, SubmitDoes
    <2>4. HookInv(h)'
      BY <2>2, <2>3, HookGoesOn DEF Step, Moves
    <2> QED
      BY <2>3, <2>4, BaseStep DEF SameUpdate
  <1>8. ASSUME NEW h \in Hooks, Insert(h) PROVE BaseInv'
    <2> DEFINE q == [hook[h] EXCEPT !.stage = "commit"]
    <2>1. At(h, "insert") /\ HookInv(h) /\ TypeOK /\ hook[h] \in Hook
      BY <1>8 DEF Insert, BaseInv, TypeOK
    <2>2. q \in Hook /\ SameUpdate(q, hook[h]) /\ q.stage = "commit" /\ q.market = hook[h].market
          /\ q.input = hook[h].input /\ q.reply = hook[h].reply
      BY <2>1 DEF Hook, Stages, SameUpdate
    <2>3. Moves(h, q)
      BY <1>8 DEF Insert, Moves
    <2> HIDE DEF q
    <2>4. /\ q.market \in Markets /\ ~At(h, "idle") /\ q.reply \in {"WELCOME", "VERDICT"}
          /\ q.reply = "VERDICT" => q.input = "uid"
      BY <2>1, <2>2 DEF HookInv, At
    <2>5. HookInv(h)'
      BY <2>2, <2>3, <2>4, HookGoesOn
    <2>6. hook' \in [Hooks -> Hook] /\ \A g \in Hooks : HookInv(g)'
      BY <2>2, <2>3, <2>5, HookKept DEF SameUpdate
    <2> QED
      BY <1>8, <2>1, <2>6 DEF BaseInv, TypeOK, Insert, World
  <1>9. ASSUME NEW h \in Hooks, Commit(h) PROVE BaseInv'
    <2> DEFINE q == [hook[h] EXCEPT !.stage = "reply"]
    <2>1. At(h, "commit") /\ HookInv(h) /\ TypeOK /\ hook[h] \in Hook
      BY <1>9 DEF Commit, BaseInv, TypeOK
    <2>2. q \in Hook /\ SameUpdate(q, hook[h]) /\ q.stage = "reply" /\ q.market = hook[h].market
          /\ q.input = hook[h].input /\ q.reply = hook[h].reply
      BY <2>1 DEF Hook, Stages, SameUpdate
    <2>3. Moves(h, q)
      BY <1>9 DEF Commit, Moves
    <2> HIDE DEF q
    <2>4. /\ q.market \in Markets /\ ~At(h, "idle")
          /\ q.reply = "VERDICT" => q.input = "uid"
      BY <2>1, <2>2 DEF HookInv, At
    <2>5. HookInv(h)'
      BY <2>2, <2>3, <2>4, HookGoesOn
    <2>6. hook' \in [Hooks -> Hook] /\ \A g \in Hooks : HookInv(g)'
      BY <2>2, <2>3, <2>5, HookKept DEF SameUpdate
    <2>7. person' \in [Users -> Person]
      <3>1. hook[h].user \in Users /\ person[hook[h].user] \in Person
        BY <2>4, WhoType
      <3>2. Merge(person[hook[h].user], hook[h].seen, hook[h].new) \in Person
        BY <2>1, <3>1 DEF Merge, Hook, Person
      <3> QED
        BY <1>9, <2>1, <3>2 DEF Commit, TypeOK
    <2>8. accounts' \subseteq Seq(Symbol)
      BY <1>9, <2>1 DEF Commit, TypeOK, Hook
    <2>9. sure' \in [Users -> Markets \cup {None}] /\ holder' \in [Users -> Hooks \cup {None}]
      BY <1>9, <2>1 DEF Commit, TypeOK
    <2> QED
      BY <1>9, <2>1, <2>6, <2>7, <2>8, <2>9 DEF BaseInv, TypeOK, Commit
  <1>10. ASSUME NEW h \in Hooks, Deliver(h) PROVE BaseInv'
    <2>1. At(h, "reply") /\ HookInv(h) /\ TypeOK /\ hook[h] \in Hook
      BY <1>10 DEF Deliver, BaseInv, TypeOK
    <2>2. Moves(h, Idle) /\ hook'[h] = Idle
      BY <1>10, <2>1 DEF Deliver, Moves, TypeOK
    <2>3. hook' \in [Hooks -> Hook] /\ \A g \in Hooks : HookInv(g)'
      BY <2>2, IdleType, IdleInv, HookKept DEF Idle
    <2>4. hook[h].menu \subseteq Markets /\ hook[h].market \in Markets \cup {None}
          /\ (hook[h].reply = "WELCOME" => hook[h].market \in Markets)
      BY <2>1 DEF Hook, HookInv
    <2>5. shown' \in [Users -> SUBSET Markets] /\ sure' \in [Users -> Markets \cup {None}]
      BY <1>10, <2>1, <2>4 DEF Deliver, TypeOK
    <2>6. offered' \in [Users -> SUBSET Markets]
      BY <1>10, <2>1, <2>4 DEF Deliver, TypeOK
    <2> QED
      BY <1>10, <2>1, <2>3, <2>5, <2>6 DEF BaseInv, TypeOK, Deliver
  <1>11. ASSUME NEW h \in Hooks, LoseReply(h) PROVE BaseInv'
    <2>1. Step(h, Idle) /\ hook'[h] = Idle
      BY <1>11 DEF LoseReply, Step, BaseInv, TypeOK
    <2> QED
      BY <2>1, IdleType, IdleInv, BaseStep DEF Idle
  <1>12. ASSUME NEW h \in Hooks, GiveUp(h) PROVE BaseInv'
    <2>1. Moves(h, Idle) /\ hook'[h] = Idle /\ TypeOK
      BY <1>12 DEF GiveUp, Moves, BaseInv, TypeOK
    <2>2. hook' \in [Hooks -> Hook] /\ \A g \in Hooks : HookInv(g)'
      BY <2>1, IdleType, IdleInv, HookKept DEF Idle
    <2> QED
      BY <1>12, <2>1, <2>2 DEF BaseInv, TypeOK, GiveUp, World
  <1>13. ASSUME NEW market \in Markets, NEW state \in {"on", "off"},
                PutProgram(market, state) \/ PutChannel(market, state)
         PROVE  BaseInv'
    <2>1. TypeOK /\ Edited
      BY <1>13 DEF BaseInv, PutProgram, PutChannel
    <2>2. \A h \in Hooks : /\ hook'[h] \in Hook /\ SameRequest(hook'[h], hook[h])
                           /\ hook'[h].alone = hook[h].alone
                           /\ At(h, "idle") => hook'[h] = hook[h]
      BY <2>1, EditedDoes
    <2>3. hook' \in [Hooks -> Hook]
      BY <2>1, <2>2 DEF Edited
    <2>4. ASSUME NEW h \in Hooks PROVE HookInv(h)'
      <3>1. HookInv(h)
        BY DEF BaseInv
      <3> QED
        BY <2>2, <3>1 DEF HookInv, At, SameRequest
    <2>5. program' \in [Markets -> RowState] /\ channel' \in [Markets -> RowState]
      BY <1>13, <2>1 DEF PutProgram, PutChannel, TypeOK, RowState
    <2>6. edits' \in 0..MaxEdits
      <3>1. edits \in 0..MaxEdits /\ edits < MaxEdits /\ edits' = edits + 1
        BY <2>1 DEF TypeOK, Edited
      <3> QED
        BY <3>1, ConversationAssumption
    <2> QED
      BY <2>1, <2>3, <2>4, <2>5, <2>6 DEF BaseInv, TypeOK, Edited
  <1> QED
    BY <1>1, <1>2, <1>3, <1>4, <1>5, <1>6, <1>7, <1>8, <1>9, <1>10, <1>11, <1>12, <1>13
       DEF Next, Advance, Fail, LosesInsert

\* TypeOK: every variable of the conversation keeps its type.
THEOREM TypesHold == Spec => []TypeOK
  <1>1. Init => BaseInv
    BY BaseInit
  <1>2. BaseInv /\ [Next]_vars => BaseInv'
    BY BaseNext
  <1>3. BaseInv => TypeOK
    BY DEF BaseInv
  <1> QED
    BY <1>1, <1>2, <1>3, PTL DEF Spec

-----------------------------------------------------------------------------
(* The user's row. *)

RowsInv == BaseInv /\ PersonInv /\ \A h \in Hooks : RowInv(h)

\* A hook that stays as it is while another goes on: rows are never deleted, and
\* the row of a user who does one thing at a time is its own.
LEMMA RowKept ==
  ASSUME RowsInv, NEW h \in Hooks, NEW g \in Hooks \ {h}, hook'[g] = hook[g], ~At(h, "idle"),
         \A v \in Users : person[v].exists => person'[v].exists,
         \A v \in Users \ {hook[h].user} : person'[v] = person[v]
  PROVE  RowInv(g)'
  <1>1. RowInv(g) /\ HookInv(g) /\ HookInv(h)
    BY DEF RowsInv, BaseInv
  <1>2. CASE At(g, "idle")
    BY <1>1, <1>2, IdleType DEF HookInv, RowInv, At, Idle, Stranger
  <1>3. CASE ~At(g, "idle")
    <2>1. hook[g].user \in Users /\ (hook[g].seen.exists => person'[hook[g].user].exists)
      BY <1>1, <1>3 DEF HookInv, RowInv
    <2>2. hook[g].alone => person'[hook[g].user] = person[hook[g].user]
      BY <1>1, <1>3 DEF HookInv
    <2> QED
      BY <1>1, <2>1, <2>2 DEF RowInv, At
  <1> QED
    BY <1>2, <1>3

\* ... while no row changes.
LEMMA RowsStep ==
  ASSUME RowsInv, NEW h \in Hooks, ~At(h, "idle"), NEW q, Moves(h, q), UNCHANGED person,
         RowInv(h)', BaseInv'
  PROVE  RowsInv'
  <1>1. \A g \in Hooks \ {h} : hook'[g] = hook[g]
    BY DEF RowsInv, BaseInv, TypeOK, Moves
  <1>2. \A g \in Hooks \ {h} : RowInv(g)'
    BY <1>1, RowKept
  <1> QED
    BY <1>2 DEF RowsInv, PersonInv

LEMMA RowIdle ==
  ASSUME NEW h \in Hooks, hook'[h] = Idle
  PROVE  RowInv(h)'
  BY DEF RowInv, At, Idle, Stranger

\* A commit: the row exists, and its market is the one picked or is left alone.
LEMMA CommitDoes ==
  ASSUME RowsInv, NEW h \in Hooks, Commit(h)
  PROVE  LET q == hook[h] IN
         /\ q \in Hook /\ q.user \in Users /\ q.reply \in {"WELCOME", "VERDICT"}
         /\ person' \in [Users -> Person] /\ person'[q.user].exists
         /\ \A v \in Users \ {q.user} : person'[v] = person[v]
         /\ q.reply = "VERDICT" => person'[q.user].pending = person[q.user].pending
         /\ q.alone => person'[q.user] = q.new
  <1> DEFINE q == hook[h]
             u == q.user
             row == Merge(person[u], q.seen, q.new)
  <1>1. TypeOK /\ HookInv(h) /\ RowInv(h) /\ At(h, "commit") /\ ~At(h, "idle") /\ BaseInv
    BY DEF RowsInv, BaseInv, Commit, At
  <1>2. q \in Hook /\ u \in Users /\ person[u] \in Person
    BY <1>1, WhoType
  <1>3. person' = [person EXCEPT ![u] = row]
    BY DEF Commit
  <1>4. q.seen \in Person /\ q.new \in Person
    BY <1>2 DEF Hook
  <1>5. row \in Person
        /\ row.exists = (IF q.new.exists # q.seen.exists THEN q.new.exists ELSE person[u].exists)
        /\ row.pending = (IF q.new.pending # q.seen.pending THEN q.new.pending ELSE person[u].pending)
    BY <1>2, <1>4 DEF Merge, Person
  <1>6. q.new.exists = TRUE /\ q.reply \in {"WELCOME", "VERDICT"}
        /\ (q.reply = "VERDICT" => q.new.pending = q.seen.pending)
        /\ (q.seen.exists => person[u].exists)
        /\ (q.alone => q.seen = person[u])
    BY <1>1 DEF HookInv, RowInv, At
  <1>7. row.exists
    BY <1>2, <1>4, <1>5, <1>6 DEF Person
  <1>8. q.alone => row = q.new
    <2> HIDE DEF row
    <2>1. q.alone => row.exists = q.new.exists /\ row.pending = q.new.pending
      BY <1>5, <1>6
    <2> QED
      BY <1>4, <1>5, <2>1, PersonExt
  <1>9. person' \in [Users -> Person] /\ person'[u] = row
        /\ \A v \in Users \ {u} : person'[v] = person[v]
    <2> HIDE DEF row, u
    <2> QED
      BY <1>1, <1>2, <1>3, <1>5 DEF TypeOK
  <1> HIDE DEF row
  <1> QED
    BY <1>2, <1>5, <1>6, <1>7, <1>8, <1>9

LEMMA RowsReceive ==
  ASSUME RowsInv, NEW h \in Hooks, NEW u \in Users, NEW q, Arrived(u, q), Receive(h, u, q)
  PROVE  \A g \in Hooks : RowInv(g)'
  <1>1. TypeOK /\ person' = person
    BY DEF RowsInv, BaseInv, Receive
  <1>2. RowInv(h)'
    <2>1. /\ hook'[h].seen = Stranger /\ hook'[h].reply \in {"none", "HINT"}
          /\ hook'[h].stage \in {"programs", "offer", "who", "reply"}
      BY <1>1, ReceiveDoes
    <2> QED
      BY <2>1 DEF RowInv, At, Stranger
  <1>3. ASSUME NEW g \in Hooks \ {h} PROVE RowInv(g)'
    <2>1. RowInv(g)
      BY DEF RowsInv
    <2>2. \/ hook'[g] = hook[g]
          \/ SameRequest(hook'[g], hook[g]) /\ ~hook'[g].alone
      BY <1>1, ReceiveDoes
    <2> QED
      BY <1>1, <2>1, <2>2 DEF RowInv, At, SameRequest
  <1> QED
    BY <1>2, <1>3

LEMMA RowsInit ==
  ASSUME Init
  PROVE  RowsInv
  <1>1. BaseInv /\ \A h \in Hooks : hook[h] = Idle
    BY BaseInit DEF Init
  <1>2. ASSUME NEW h \in Hooks PROVE RowInv(h)
    <2>1. hook[h] = Idle
      BY <1>1
    <2>2. Idle.seen = Stranger /\ Idle.stage = "idle" /\ ~Stranger.exists
      BY DEF Idle, Stranger
    <2> QED
      BY <2>1, <2>2 DEF RowInv, At
  <1> QED
    BY <1>1, <1>2 DEF RowsInv, PersonInv, Init

LEMMA RowsNext ==
  ASSUME RowsInv, [Next]_vars
  PROVE  RowsInv'
  <1>0. BaseInv /\ BaseInv'
    BY BaseNext DEF RowsInv
  <1>1. CASE UNCHANGED vars
    BY <1>0, <1>1 DEF RowsInv, PersonInv, RowInv, At, vars
  <1>2. ASSUME NEW h \in Hooks, NEW u \in Users,
               \/ PressStart(h, u)
               \/ \E market \in Markets : PressButton(h, u, market)
               \/ \E text \in Texts : TypeText(h, u, text)
        PROVE  RowsInv'
    <2>1. PICK q : Arrived(u, q) /\ Receive(h, u, q)
      BY <1>2, Arrivals
    <2>2. person' = person
      BY <2>1 DEF Receive
    <2> QED
      BY <1>0, <2>1, <2>2, RowsReceive DEF RowsInv, PersonInv
  <1>3. ASSUME NEW h \in Hooks, ReadUser(h) PROVE RowsInv'
    <2>1. PICK q \in Hook :
           /\ Step(h, q) /\ SameUpdate(q, hook[h])
           /\ q.seen = person[q.user] /\ q.market = q.seen.pending
           /\ q.stage = (IF q.seen.pending = None THEN "programs" ELSE "submit")
           /\ q.reply = hook[h].reply
      BY <1>0, <1>3, ReadUserDoes
    <2>2. At(h, "who") /\ ~At(h, "idle") /\ HookInv(h) /\ Moves(h, q) /\ hook'[h] = q
          /\ person' = person
      BY <1>0, <1>3, <2>1 DEF ReadUser, At, BaseInv, TypeOK, Step, Moves
    <2>3. q.user \in Users
      BY <2>1, <2>2 DEF HookInv, SameUpdate
    <2>4. IF q.seen.exists THEN person[q.user].exists ELSE q.seen = Stranger
      BY <2>1, <2>3 DEF RowsInv, PersonInv
    <2>5. RowInv(h)'
      BY <2>1, <2>2, <2>4 DEF RowInv, At
    <2> QED
      BY <1>0, <2>2, <2>5, RowsStep
  <1>4. ASSUME NEW h \in Hooks, ReadPrograms(h) PROVE RowsInv'
    <2>1. PICK q \in Hook :
           /\ Step(h, q) /\ SameUpdate(q, hook[h])
           /\ q.stage = "channels" /\ q.seen = hook[h].seen /\ q.reply = hook[h].reply
      BY <1>0, <1>4, ReadProgramsDoes
    <2>2. At(h, "programs") /\ ~At(h, "idle") /\ RowInv(h) /\ Moves(h, q) /\ hook'[h] = q
          /\ person' = person
      BY <1>0, <1>4, <2>1 DEF ReadPrograms, At, RowsInv, BaseInv, TypeOK, Step, Moves
    <2>3. RowInv(h)'
      BY <2>1, <2>2 DEF RowInv, At, SameUpdate
    <2> QED
      BY <1>0, <2>2, <2>3, RowsStep
  <1>5. ASSUME NEW h \in Hooks, ReadChannels(h) PROVE RowsInv'
    <2>1. PICK q \in Hook :
           /\ Step(h, q) /\ SameUpdate(q, hook[h]) /\ q.seen = hook[h].seen
           /\ \/ q.stage \in {"submit", "offer", "programs"}
              \/ q.stage = "reply" /\ q.reply \in {"NOT_CONFIGURED", "CHOOSE_MARKET"}
      BY <1>0, <1>5, ReadChannelsDoes
    <2>2. At(h, "channels") /\ ~At(h, "idle") /\ RowInv(h) /\ Moves(h, q) /\ hook'[h] = q
          /\ person' = person
      BY <1>0, <1>5, <2>1 DEF ReadChannels, At, RowsInv, BaseInv, TypeOK, Step, Moves
    <2>3. RowInv(h)'
      BY <2>1, <2>2 DEF RowInv, At, SameUpdate
    <2> QED
      BY <1>0, <2>2, <2>3, RowsStep
  <1>6. ASSUME NEW h \in Hooks, Offer(h) \/ Submit(h) PROVE RowsInv'
    <2>1. PICK q \in Hook :
           /\ Step(h, q) /\ SameUpdate(q, hook[h])
           /\ \/ /\ q.stage = "reply" /\ q.reply = "NOT_CONFIGURED" /\ q.seen = hook[h].seen
              \/ /\ q.stage \in {"insert", "commit"} /\ q.seen = Row(hook[h])
                 /\ \/ q.reply = "WELCOME" /\ q.new = [exists |-> TRUE, pending |-> q.market]
                    \/ /\ q.reply = "VERDICT"
                       /\ q.new = [exists |-> TRUE, pending |-> q.seen.pending]
      <3>1. CASE Offer(h)
        BY <1>0, <3>1, OfferDoes
      <3>2. CASE Submit(h)
        BY <1>0, <3>2, SubmitDoes
      <3> QED
        BY <1>6, <3>1, <3>2
    <2>2. hook[h].stage \in {"offer", "submit"} /\ ~At(h, "idle") /\ HookInv(h) /\ RowInv(h)
          /\ Moves(h, q) /\ hook'[h] = q /\ person' = person
      BY <1>0, <1>6, <2>1 DEF Offer, Submit, At, RowsInv, BaseInv, TypeOK, Step, Moves
    <2>3. q.user = hook[h].user /\ q.user \in Users /\ q.alone = hook[h].alone
      BY <2>1, <2>2 DEF HookInv, SameUpdate
    <2>4. CASE q.stage = "reply"
      <3>1. RowInv(h)'
        BY <2>1, <2>2, <2>3, <2>4 DEF RowInv, At
      <3> QED
        BY <1>0, <2>2, <3>1, RowsStep
    <2>5. CASE q.stage \in {"insert", "commit"}
      <3>1. IF q.seen.exists THEN person[q.user].exists ELSE q.seen = Stranger
        BY <2>1, <2>2, <2>3, <2>5 DEF RowsInv, PersonInv, RowInv, Row
      <3>2. q.alone => q.seen = person[q.user]
        BY <2>1, <2>2, <2>3, <2>5 DEF RowInv, Row, At, Stranger
      <3>3. RowInv(h)'
        BY <2>1, <2>2, <2>5, <3>1, <3>2 DEF RowInv, At
      <3> QED
        BY <1>0, <2>2, <3>3, RowsStep
    <2> QED
      BY <2>1, <2>4, <2>5
  <1>7. ASSUME NEW h \in Hooks, Insert(h) PROVE RowsInv'
    <2> DEFINE q == [hook[h] EXCEPT !.stage = "commit"]
    <2>1. At(h, "insert") /\ ~At(h, "idle") /\ RowInv(h) /\ hook[h] \in Hook /\ Moves(h, q)
          /\ hook'[h] = q /\ person' = person
      BY <1>0, <1>7 DEF Insert, At, RowsInv, BaseInv, TypeOK, Moves
    <2>2. q.stage = "commit" /\ q.user = hook[h].user /\ q.alone = hook[h].alone
          /\ q.seen = hook[h].seen /\ q.new = hook[h].new /\ q.market = hook[h].market
          /\ q.reply = hook[h].reply
      BY <2>1 DEF Hook
    <2> HIDE DEF q
    <2>3. RowInv(h)'
      BY <2>1, <2>2 DEF RowInv, At
    <2> QED
      BY <1>0, <2>1, <2>3, RowsStep
  <1>8. ASSUME NEW h \in Hooks, Commit(h) PROVE RowsInv'
    <2> DEFINE q == [hook[h] EXCEPT !.stage = "reply"]
               u == hook[h].user
    <2>1. At(h, "commit") /\ ~At(h, "idle") /\ RowInv(h) /\ HookInv(h) /\ hook'[h] = q
          /\ \A g \in Hooks \ {h} : hook'[g] = hook[g]
      BY <1>0, <1>8 DEF Commit, At, RowsInv, BaseInv, TypeOK
    <2>2. /\ hook[h] \in Hook /\ u \in Users
          /\ person'[u].exists /\ \A v \in Users \ {u} : person'[v] = person[v]
          /\ hook[h].alone => person'[u] = hook[h].new
      BY <1>8, CommitDoes
    <2>3. q.stage = "reply" /\ q.user = hook[h].user /\ q.alone = hook[h].alone
          /\ q.seen = hook[h].seen /\ q.market = hook[h].market /\ q.reply = hook[h].reply
      BY <2>2 DEF Hook
    <2> HIDE DEF q, u
    <2>4. \A g \in Hooks \ {h} : RowInv(g)'
      BY <2>1, <2>2, RowKept DEF u
    <2>5. RowInv(h)'
      BY <2>1, <2>2, <2>3 DEF RowInv, At, u
    <2>6. PersonInv'
      BY <2>2 DEF RowsInv, PersonInv
    <2> QED
      BY <1>0, <2>4, <2>5, <2>6 DEF RowsInv
  <1>9. ASSUME NEW h \in Hooks, Deliver(h) \/ LoseReply(h) \/ Fail(h) \/ LosesInsert(h)
        PROVE  RowsInv'
    <2>1. ~At(h, "idle") /\ Moves(h, Idle) /\ hook'[h] = Idle /\ person' = person
      BY <1>0, <1>9 DEF Deliver, LoseReply, Fail, LosesInsert, GiveUp, Step, At, Moves,
                        BaseInv, TypeOK
    <2> QED
      BY <1>0, <2>1, RowIdle, RowsStep
  <1>10. ASSUME NEW market \in Markets, NEW state \in {"on", "off"},
                PutProgram(market, state) \/ PutChannel(market, state)
         PROVE  RowsInv'
    <2>1. Edited /\ person' = person
      BY <1>10 DEF PutProgram, PutChannel, Edited
    <2>2. \A h \in Hooks : SameRequest(hook'[h], hook[h]) /\ hook'[h].alone = hook[h].alone
      BY <1>0, <2>1, EditedDoes
    <2>3. \A h \in Hooks : RowInv(h)'
      BY <2>1, <2>2 DEF RowsInv, RowInv, At, SameRequest
    <2> QED
      BY <1>0, <2>1, <2>3 DEF RowsInv, PersonInv
  <1> QED
    BY <1>1, <1>2, <1>3, <1>4, <1>5, <1>6, <1>7, <1>8, <1>9, <1>10 DEF Next, Advance

-----------------------------------------------------------------------------
(* RightMarket. *)

ToldInv == RowsInv /\ SureInv /\ \A h \in Hooks : ExpectsInv(h)

LEMMA ExpectsKept ==
  ASSUME ToldInv, NEW h \in Hooks, NEW g \in Hooks \ {h}, hook'[g] = hook[g],
         \A v \in Users \ {hook[h].user} : person'[v] = person[v]
  PROVE  ExpectsInv(g)'
  <1>1. ExpectsInv(g) /\ HookInv(g)
    BY DEF ToldInv, RowsInv, BaseInv
  <1>2. hook[g].expects # None => person'[hook[g].user] = person[hook[g].user]
    BY <1>1 DEF ExpectsInv, HookInv
  <1> QED
    BY <1>1, <1>2 DEF ExpectsInv, At

\* A step of one hook that tells the user nothing and changes no row.
LEMMA ToldStep ==
  ASSUME ToldInv, RowsInv', NEW h \in Hooks, NEW q, Moves(h, q), UNCHANGED <<person, sure>>,
         ExpectsInv(h)'
  PROVE  ToldInv'
  <1>1. \A g \in Hooks \ {h} : hook'[g] = hook[g]
    BY DEF ToldInv, RowsInv, BaseInv, TypeOK, Moves
  <1>2. \A g \in Hooks \ {h} : ExpectsInv(g)'
    BY <1>1, ExpectsKept
  <1> QED
    BY <1>2 DEF ToldInv, SureInv

LEMMA ToldInit ==
  ASSUME Init
  PROVE  ToldInv
  <1>1. RowsInv /\ \A h \in Hooks : hook[h] = Idle
    BY RowsInit DEF Init
  <1>2. ASSUME NEW h \in Hooks PROVE ExpectsInv(h)
    BY <1>1 DEF ExpectsInv, Idle
  <1> QED
    BY <1>1, <1>2 DEF ToldInv, SureInv, Init

LEMMA ToldReceive ==
  ASSUME ToldInv, NEW h \in Hooks, NEW u \in Users, NEW q, Arrived(u, q), Receive(h, u, q)
  PROVE  SureInv' /\ \A g \in Hooks : ExpectsInv(g)'
  <1>1. TypeOK /\ person' = person
    BY DEF ToldInv, RowsInv, BaseInv, Receive
  <1>2. SureInv'
    <2>1. sure' = sure \/ sure' = [sure EXCEPT ![u] = None]
      BY DEF Receive
    <2> QED
      BY <1>1, <2>1 DEF ToldInv, SureInv, TypeOK
  <1>3. ExpectsInv(h)'
    <2>1. /\ hook'[h].user = u /\ hook'[h].stage \in {"programs", "offer", "who", "reply"}
          /\ hook'[h].input = "uid" => hook'[h].stage \in {"who", "reply"}
          /\ hook'[h].expects = (IF hook'[h].alone THEN sure[u] ELSE None)
      BY <1>1, ReceiveDoes
    <2>2. sure[u] # None => person[u] = [exists |-> TRUE, pending |-> sure[u]]
      BY DEF ToldInv, SureInv
    <2> QED
      BY <1>1, <2>1, <2>2 DEF ExpectsInv, At
  <1>4. ASSUME NEW g \in Hooks \ {h} PROVE ExpectsInv(g)'
    <2>1. hook'[g] = hook[g] \/ hook'[g].expects = None
      BY <1>1, ReceiveDoes
    <2> QED
      BY <1>1, <2>1 DEF ToldInv, ExpectsInv, At
  <1> QED
    BY <1>2, <1>3, <1>4

LEMMA ToldNext ==
  ASSUME ToldInv, [Next]_vars
  PROVE  ToldInv'
  <1>0. BaseInv /\ RowsInv /\ RowsInv' /\ TypeOK
    BY RowsNext DEF ToldInv, RowsInv, BaseInv
  <1>1. CASE UNCHANGED vars
    BY <1>0, <1>1 DEF ToldInv, SureInv, ExpectsInv, At, vars
  <1>2. ASSUME NEW h \in Hooks, NEW u \in Users,
               \/ PressStart(h, u)
               \/ \E market \in Markets : PressButton(h, u, market)
               \/ \E text \in Texts : TypeText(h, u, text)
        PROVE  ToldInv'
    BY <1>0, <1>2, Arrivals, ToldReceive DEF ToldInv
  <1>3. ASSUME NEW h \in Hooks, ReadUser(h) PROVE ToldInv'
    <2>1. PICK q \in Hook :
           /\ Step(h, q) /\ SameUpdate(q, hook[h])
           /\ q.seen = person[q.user] /\ q.market = q.seen.pending
           /\ q.stage = (IF q.seen.pending = None THEN "programs" ELSE "submit")
      BY <1>0, <1>3, ReadUserDoes
    <2>2. At(h, "who") /\ ExpectsInv(h) /\ Moves(h, q) /\ hook'[h] = q
          /\ UNCHANGED <<person, sure>>
      BY <1>0, <1>3, <2>1 DEF ReadUser, ToldInv, TypeOK, Step, Moves
    <2>3. q.expects # None => q.alone /\ person[q.user] = [exists |-> TRUE, pending |-> q.expects]
      BY <2>1, <2>2 DEF ExpectsInv, At, SameUpdate
    <2>4. ExpectsInv(h)'
      BY <2>1, <2>2, <2>3 DEF ExpectsInv, At
    <2> QED
      BY <1>0, <2>2, <2>4, ToldStep
  <1>4. ASSUME NEW h \in Hooks, ReadPrograms(h) PROVE ToldInv'
    <2>1. PICK q \in Hook :
           /\ Step(h, q) /\ SameUpdate(q, hook[h])
           /\ q.stage = "channels" /\ q.input = hook[h].input
      BY <1>0, <1>4, ReadProgramsDoes
    <2>2. At(h, "programs") /\ ExpectsInv(h) /\ Moves(h, q) /\ hook'[h] = q
          /\ UNCHANGED <<person, sure>>
      BY <1>0, <1>4, <2>1 DEF ReadPrograms, ToldInv, TypeOK, Step, Moves
    <2>3. ExpectsInv(h)'
      BY <2>1, <2>2 DEF ExpectsInv, At, SameUpdate
    <2> QED
      BY <1>0, <2>2, <2>3, ToldStep
  <1>5. ASSUME NEW h \in Hooks, ReadChannels(h) PROVE ToldInv'
    <2>1. PICK q \in Hook :
           /\ Step(h, q) /\ SameUpdate(q, hook[h]) /\ q.stage # "idle"
           /\ \/ q.input \in {hook[h].input, "start"}
              \/ q.stage = "reply"
      BY <1>0, <1>5, ReadChannelsDoes
    <2>2. At(h, "channels") /\ ExpectsInv(h) /\ Moves(h, q) /\ hook'[h] = q
          /\ UNCHANGED <<person, sure>>
      BY <1>0, <1>5, <2>1 DEF ReadChannels, ToldInv, TypeOK, Step, Moves
    <2>3. ExpectsInv(h)'
      BY <2>1, <2>2 DEF ExpectsInv, At, SameUpdate
    <2> QED
      BY <1>0, <2>2, <2>3, ToldStep
  <1>6. ASSUME NEW h \in Hooks, Offer(h) \/ Submit(h) PROVE ToldInv'
    <2>1. PICK q \in Hook :
           /\ Step(h, q) /\ SameUpdate(q, hook[h]) /\ q.stage \in {"insert", "commit", "reply"}
           /\ q.input = hook[h].input /\ q.market = hook[h].market
      <3>1. CASE Offer(h)
        BY <1>0, <3>1, OfferDoes
      <3>2. CASE Submit(h)
        BY <1>0, <3>2, SubmitDoes
      <3> QED
        BY <1>6, <3>1, <3>2
    <2>2. hook[h].stage \in {"offer", "submit"} /\ ExpectsInv(h) /\ Moves(h, q) /\ hook'[h] = q
          /\ UNCHANGED <<person, sure>>
      BY <1>0, <1>6, <2>1 DEF Offer, Submit, At, ToldInv, TypeOK, Step, Moves
    <2>3. ExpectsInv(h)'
      BY <2>1, <2>2 DEF ExpectsInv, At, SameUpdate
    <2> QED
      BY <1>0, <2>2, <2>3, ToldStep
  <1>7. ASSUME NEW h \in Hooks, Insert(h) PROVE ToldInv'
    <2> DEFINE q == [hook[h] EXCEPT !.stage = "commit"]
    <2>1. At(h, "insert") /\ ExpectsInv(h) /\ hook[h] \in Hook /\ Moves(h, q)
          /\ hook'[h] = q /\ UNCHANGED <<person, sure>>
      BY <1>0, <1>7 DEF Insert, ToldInv, TypeOK, Moves
    <2>2. q.stage = "commit" /\ q.user = hook[h].user /\ q.alone = hook[h].alone
          /\ q.expects = hook[h].expects /\ q.market = hook[h].market /\ q.input = hook[h].input
      BY <2>1 DEF Hook
    <2> HIDE DEF q
    <2>3. ExpectsInv(h)'
      BY <2>1, <2>2 DEF ExpectsInv, At
    <2> QED
      BY <1>0, <2>1, <2>3, ToldStep
  <1>8. ASSUME NEW h \in Hooks, Commit(h) PROVE ToldInv'
    <2> DEFINE q == [hook[h] EXCEPT !.stage = "reply"]
               u == hook[h].user
    <2>1. At(h, "commit") /\ ExpectsInv(h) /\ hook'[h] = q
          /\ \A g \in Hooks \ {h} : hook'[g] = hook[g]
      BY <1>0, <1>8 DEF Commit, ToldInv, TypeOK
    <2>2. /\ hook[h] \in Hook /\ u \in Users /\ hook[h].reply \in {"WELCOME", "VERDICT"}
          /\ person' \in [Users -> Person]
          /\ person'[u].exists /\ \A v \in Users \ {u} : person'[v] = person[v]
          /\ hook[h].reply = "VERDICT" => person'[u].pending = person[u].pending
      BY <1>0, <1>8, CommitDoes
    <2>3. q.stage = "reply" /\ q.expects = hook[h].expects /\ q.alone = hook[h].alone
      BY <2>2 DEF Hook
    <2> HIDE DEF q, u
    <2>4. \A g \in Hooks \ {h} : ExpectsInv(g)'
      BY <2>1, <2>2, ExpectsKept DEF u
    <2>5. ExpectsInv(h)'
      BY <2>1, <2>3 DEF ExpectsInv, At
    <2>6. ASSUME NEW v \in Users, sure'[v] # None
          PROVE  person'[v] = [exists |-> TRUE, pending |-> sure'[v]]
      <3>1. /\ sure'[v] = sure[v] /\ sure[v] \in Markets \cup {None}
            /\ v = u => hook[h].reply = "VERDICT"
        BY <1>0, <1>8, <2>2, <2>6 DEF Commit, TypeOK, u
      <3>2. person[v] = [exists |-> TRUE, pending |-> sure[v]]
        BY <2>6, <3>1 DEF ToldInv, SureInv
      <3>3. CASE v # u
        BY <2>2, <3>1, <3>2, <3>3
      <3>4. CASE v = u
        <4>1. person'[v] \in Person /\ person'[v].exists = TRUE /\ person'[v].pending = sure'[v]
          BY <2>2, <3>1, <3>2, <3>4 DEF Person
        <4>2. [exists |-> TRUE, pending |-> sure'[v]] \in Person
          BY <3>1 DEF Person
        <4> QED
          BY <4>1, <4>2, PersonExt
      <3> QED
        BY <3>3, <3>4
    <2> QED
      BY <1>0, <2>4, <2>5, <2>6 DEF ToldInv, SureInv
  <1>9. ASSUME NEW h \in Hooks, Deliver(h) PROVE ToldInv'
    <2>1. At(h, "reply") /\ RowInv(h) /\ HookInv(h) /\ Moves(h, Idle) /\ hook'[h] = Idle
          /\ person' = person /\ \A g \in Hooks \ {h} : hook'[g] = hook[g]
      BY <1>0, <1>9 DEF Deliver, Moves, RowsInv, BaseInv, TypeOK
    <2>2. \A g \in Hooks \ {h} : ExpectsInv(g)'
      BY <2>1, ExpectsKept
    <2>3. ExpectsInv(h)'
      BY <2>1 DEF ExpectsInv, Idle
    <2>4. SureInv'
      <3>1. CASE hook[h].reply = "WELCOME" /\ hook[h].alone
        <4>1. sure' = [sure EXCEPT ![hook[h].user] = hook[h].market]
          BY <1>9, <3>1 DEF Deliver
        <4>2. person[hook[h].user] = [exists |-> TRUE, pending |-> hook[h].market]
          BY <2>1, <3>1 DEF RowInv
        <4> QED
          BY <1>0, <2>1, <4>1, <4>2 DEF ToldInv, SureInv, TypeOK
      <3>2. CASE ~(hook[h].reply = "WELCOME" /\ hook[h].alone)
        BY <1>9, <2>1, <3>2 DEF Deliver, ToldInv, SureInv
      <3> QED
        BY <3>1, <3>2
    <2> QED
      BY <1>0, <2>2, <2>3, <2>4 DEF ToldInv
  <1>10. ASSUME NEW h \in Hooks, LoseReply(h) \/ GiveUp(h) PROVE ToldInv'
    <2>1. Moves(h, Idle) /\ hook'[h] = Idle /\ UNCHANGED <<person, sure>>
      BY <1>0, <1>10 DEF LoseReply, GiveUp, Step, Moves, TypeOK
    <2>2. ExpectsInv(h)'
      BY <2>1 DEF ExpectsInv, Idle
    <2> QED
      BY <1>0, <2>1, <2>2, ToldStep
  <1>11. ASSUME NEW market \in Markets, NEW state \in {"on", "off"},
                PutProgram(market, state) \/ PutChannel(market, state)
         PROVE  ToldInv'
    <2>1. Edited /\ UNCHANGED <<person, sure>>
      BY <1>11 DEF PutProgram, PutChannel, Edited
    <2>2. \A h \in Hooks : /\ SameRequest(hook'[h], hook[h]) /\ hook'[h].alone = hook[h].alone
                           /\ hook'[h].expects = hook[h].expects
      BY <1>0, <2>1, EditedDoes
    <2>3. \A h \in Hooks : ExpectsInv(h)'
      BY <2>1, <2>2 DEF ToldInv, ExpectsInv, At, SameRequest
    <2> QED
      BY <1>0, <2>1, <2>3 DEF ToldInv, SureInv
  <1> QED
    BY <1>1, <1>2, <1>3, <1>4, <1>5, <1>6, <1>7, <1>8, <1>9, <1>10, <1>11
       DEF Next, Advance, Fail, LosesInsert

\* RightMarket: a UID that follows a delivered welcome is submitted for the market
\* of that welcome, whatever failed, crashed or was edited in between, unless the
\* user did two things at once.
THEOREM WelcomeIsKept == Spec => []RightMarket
  <1>1. Init => ToldInv
    BY ToldInit
  <1>2. ToldInv /\ [Next]_vars => ToldInv'
    BY ToldNext
  <1>3. ASSUME ToldInv, NEW h \in Hooks, Submitting(h), hook[h].expects # None
        PROVE  hook[h].market = hook[h].expects
    <2>1. HookInv(h) /\ ExpectsInv(h)
      BY <1>3 DEF ToldInv, RowsInv, BaseInv
    <2> QED
      BY <1>3, <2>1 DEF HookInv, ExpectsInv, Submitting, At
  <1>4. ToldInv => RightMarket
    BY <1>3 DEF RightMarket
  <1> QED
    BY <1>1, <1>2, <1>4, PTL DEF Spec

-----------------------------------------------------------------------------
(* NeverGuessed. *)

ReadInv == RowsInv /\ \A h \in Hooks : FreshInv(h)

LEMMA ReadStep ==
  ASSUME ReadInv, RowsInv', NEW h \in Hooks, NEW q, Moves(h, q), UNCHANGED <<program, channel>>,
         FreshInv(h)'
  PROVE  ReadInv'
  <1>1. \A g \in Hooks \ {h} : hook'[g] = hook[g]
    BY DEF ReadInv, RowsInv, BaseInv, TypeOK, Moves
  <1>2. \A g \in Hooks \ {h} : FreshInv(g)'
    BY <1>1 DEF ReadInv, FreshInv, Submitting, At
  <1> QED
    BY <1>2 DEF ReadInv

LEMMA FreshIdle ==
  ASSUME NEW h \in Hooks, hook'[h] = Idle
  PROVE  FreshInv(h)'
  BY DEF FreshInv, Submitting, At, Idle

LEMMA ReadInit ==
  ASSUME Init
  PROVE  ReadInv
  <1>1. RowsInv /\ \A h \in Hooks : hook[h] = Idle
    BY RowsInit DEF Init
  <1>2. ASSUME NEW h \in Hooks PROVE FreshInv(h)
    <2>1. hook[h] = Idle
      BY <1>1
    <2>2. Idle.stage = "idle" /\ Idle.reply = "none"
      BY DEF Idle
    <2> QED
      BY <2>1, <2>2 DEF FreshInv, Submitting, At
  <1> QED
    BY <1>1, <1>2 DEF ReadInv

LEMMA ReadNext ==
  ASSUME ReadInv, [Next]_vars
  PROVE  ReadInv'
  <1>0. BaseInv /\ RowsInv /\ RowsInv' /\ TypeOK
    BY RowsNext DEF ReadInv, RowsInv, BaseInv
  <1>1. CASE UNCHANGED vars
    BY <1>0, <1>1 DEF ReadInv, FreshInv, Submitting, At, vars
  <1>2. ASSUME NEW h \in Hooks, NEW u \in Users,
               \/ PressStart(h, u)
               \/ \E market \in Markets : PressButton(h, u, market)
               \/ \E text \in Texts : TypeText(h, u, text)
        PROVE  ReadInv'
    <2>1. PICK q : Arrived(u, q) /\ Receive(h, u, q)
      BY <1>2, Arrivals
    <2>2. program' = program /\ channel' = channel
      BY <2>1 DEF Receive, World
    <2>3. FreshInv(h)'
      <3>1. /\ hook'[h].reply \in {"none", "HINT"}
            /\ hook'[h].stage \in {"programs", "offer", "who", "reply"}
        BY <1>0, <2>1, ReceiveDoes
      <3> QED
        BY <3>1 DEF FreshInv, Submitting, At
    <2>4. ASSUME NEW g \in Hooks \ {h} PROVE FreshInv(g)'
      <3>1. \/ hook'[g] = hook[g]
            \/ SameRequest(hook'[g], hook[g]) /\ hook'[g].fresh = hook[g].fresh
        BY <1>0, <2>1, ReceiveDoes
      <3> QED
        BY <2>2, <3>1 DEF ReadInv, FreshInv, Submitting, At, SameRequest
    <2> QED
      BY <1>0, <2>3, <2>4 DEF ReadInv
  <1>3. ASSUME NEW h \in Hooks, ReadUser(h) PROVE ReadInv'
    <2>1. PICK q \in Hook :
           /\ Step(h, q) /\ SameUpdate(q, hook[h])
           /\ q.stage = (IF q.seen.pending = None THEN "programs" ELSE "submit")
           /\ q.reply = hook[h].reply
      BY <1>0, <1>3, ReadUserDoes
    <2>2. At(h, "who") /\ HookInv(h) /\ FreshInv(h) /\ Moves(h, q) /\ hook'[h] = q
          /\ UNCHANGED <<program, channel>>
      BY <1>0, <1>3, <2>1 DEF ReadUser, ReadInv, BaseInv, TypeOK, Step, World, Moves
    <2>3. q.reply = "none"
      BY <2>1, <2>2 DEF HookInv, At
    <2>4. FreshInv(h)'
      BY <2>1, <2>2, <2>3 DEF FreshInv, Submitting, At, SameUpdate
    <2> QED
      BY <1>0, <2>2, <2>4, ReadStep
  <1>4. ASSUME NEW h \in Hooks, ReadPrograms(h) PROVE ReadInv'
    <2>1. PICK q \in Hook :
           /\ Step(h, q) /\ SameUpdate(q, hook[h])
           /\ q.stage = "channels" /\ q.programs = program /\ q.reply = hook[h].reply
      BY <1>0, <1>4, ReadProgramsDoes
    <2>2. At(h, "programs") /\ HookInv(h) /\ FreshInv(h) /\ Moves(h, q) /\ hook'[h] = q
          /\ UNCHANGED <<program, channel>> /\ hook[h] \in Hook
      BY <1>0, <1>4, <2>1 DEF ReadPrograms, ReadInv, BaseInv, TypeOK, Step, World, Moves
    <2>3. q.reply = "none"
      BY <2>1, <2>2 DEF HookInv, At
    <2>4. FreshInv(h)'
      BY <2>1, <2>2, <2>3 DEF FreshInv, Submitting, At, SameUpdate
    <2> QED
      BY <1>0, <2>2, <2>4, ReadStep
  <1>5. ASSUME NEW h \in Hooks, ReadChannels(h) PROVE ReadInv'
    <2>1. PICK q \in Hook :
           /\ Step(h, q) /\ SameUpdate(q, hook[h])
           /\ q.stage \in {"submit", "offer", "programs", "reply"}
           /\ q.stage = "submit" => Ready(h) = {q.market}
           /\ q.reply \in {hook[h].reply, "NOT_CONFIGURED", "CHOOSE_MARKET"}
      BY <1>0, <1>5, ReadChannelsDoes
    <2>2. At(h, "channels") /\ HookInv(h) /\ FreshInv(h) /\ Moves(h, q) /\ hook'[h] = q
          /\ UNCHANGED <<program, channel>> /\ hook[h] \in Hook
      BY <1>0, <1>5, <2>1 DEF ReadChannels, ReadInv, BaseInv, TypeOK, Step, World, Moves
    <2>3. q.reply # "VERDICT"
      BY <2>1, <2>2 DEF HookInv, At
    <2>4. q.fresh => Ready(h) = Available(program, channel)
      BY <2>1, <2>2 DEF FreshInv, SameUpdate, Ready
    <2>5. FreshInv(h)'
      BY <2>1, <2>2, <2>3, <2>4 DEF FreshInv, Submitting, At
    <2> QED
      BY <1>0, <2>2, <2>5, ReadStep
  <1>6. ASSUME NEW h \in Hooks, Offer(h) \/ Submit(h) PROVE ReadInv'
    <2>1. PICK q \in Hook :
           /\ Step(h, q) /\ SameUpdate(q, hook[h]) /\ q.market = hook[h].market
           /\ q.stage \in {"insert", "commit", "reply"}
           /\ q.reply = "VERDICT" => At(h, "submit") /\ q.seen = Row(hook[h])
      <3>1. CASE Offer(h)
        BY <1>0, <3>1, OfferDoes
      <3>2. CASE Submit(h)
        BY <1>0, <3>2, SubmitDoes DEF Submit
      <3> QED
        BY <1>6, <3>1, <3>2
    <2>2. hook[h].stage \in {"offer", "submit"} /\ HookInv(h) /\ RowInv(h) /\ FreshInv(h)
          /\ Moves(h, q) /\ hook'[h] = q /\ UNCHANGED <<program, channel>> /\ hook[h] \in Hook
      BY <1>0, <1>6, <2>1
         DEF Offer, Submit, At, ReadInv, RowsInv, BaseInv, TypeOK, Step, World, Moves
    <2>3. ASSUME q.reply = "VERDICT", q.seen.pending = None PROVE hook[h].seen.pending = None
      BY <2>1, <2>2, <2>3 DEF Row, RowInv, Stranger
    <2>4. FreshInv(h)'
      BY <2>1, <2>2, <2>3 DEF FreshInv, Submitting, At, SameUpdate
    <2> QED
      BY <1>0, <2>2, <2>4, ReadStep
  <1>7. ASSUME NEW h \in Hooks, NEW stage \in {"commit", "reply"},
               hook' = [hook EXCEPT ![h].stage = stage], hook[h].stage \in {"insert", "commit"},
               UNCHANGED <<program, channel>>
        PROVE  ReadInv'
    <2> DEFINE q == [hook[h] EXCEPT !.stage = stage]
    <2>1. FreshInv(h) /\ hook[h] \in Hook /\ Moves(h, q) /\ hook'[h] = q
      BY <1>0, <1>7 DEF ReadInv, TypeOK, Moves
    <2>2. q.stage = stage /\ q.fresh = hook[h].fresh /\ q.programs = hook[h].programs
          /\ q.seen = hook[h].seen /\ q.market = hook[h].market
          /\ q.reply = hook[h].reply
      BY <2>1 DEF Hook
    <2> HIDE DEF q
    <2>3. FreshInv(h)'
      BY <1>7, <2>1, <2>2 DEF FreshInv, Submitting, At
    <2> QED
      BY <1>0, <1>7, <2>1, <2>3, ReadStep
  <1>8. ASSUME NEW h \in Hooks, Insert(h) \/ Commit(h) PROVE ReadInv'
    BY <1>7, <1>8 DEF Insert, Commit, At, World
  <1>9. ASSUME NEW h \in Hooks, Deliver(h) \/ LoseReply(h) \/ GiveUp(h) PROVE ReadInv'
    <2>1. Moves(h, Idle) /\ hook'[h] = Idle /\ UNCHANGED <<program, channel>>
      BY <1>0, <1>9 DEF Deliver, LoseReply, GiveUp, Step, World, Moves, TypeOK
    <2> QED
      BY <1>0, <2>1, FreshIdle, ReadStep
  <1>10. ASSUME NEW market \in Markets, NEW state \in {"on", "off"},
                PutProgram(market, state) \/ PutChannel(market, state)
         PROVE  ReadInv'
    <2>1. Edited
      BY <1>10 DEF PutProgram, PutChannel
    <2>2. ASSUME NEW h \in Hooks PROVE FreshInv(h)'
      <3>1. CASE At(h, "idle")
        <4>1. hook'[h] = Idle
          BY <1>0, <2>1, <3>1, EditedDoes DEF BaseInv, HookInv
        <4> QED
          BY <4>1, FreshIdle
      <3>2. CASE ~At(h, "idle")
        BY <1>0, <2>1, <3>2, EditedDoes DEF FreshInv
      <3> QED
        BY <3>1, <3>2
    <2> QED
      BY <1>0, <2>2 DEF ReadInv
  <1> QED
    BY <1>1, <1>2, <1>3, <1>4, <1>5, <1>6, <1>8, <1>9, <1>10
       DEF Next, Advance, Fail, LosesInsert

\* NeverGuessed: while several markets are open, the UID of a user who has picked
\* none is not submitted.
THEOREM AskedNotGuessed == Spec => []NeverGuessed
  <1>1. Init => ReadInv
    BY ReadInit
  <1>2. ReadInv /\ [Next]_vars => ReadInv'
    BY ReadNext
  <1>3. ReadInv => NeverGuessed
    BY DEF ReadInv, FreshInv, NeverGuessed
  <1> QED
    BY <1>1, <1>2, <1>3, PTL DEF Spec

-----------------------------------------------------------------------------
(* NoDeadEnd. *)

\* Market: CRYPTO and FOREX.  With a third one the property fails: a user who has
\* picked a market that was switched off since may be offered the two others, and
\* the UID is submitted for the one that was picked.
TwoMarkets == \E a, b : Markets = {a, b}

OpenInv == ReadInv /\ OfferedInv /\ \A h \in Hooks : SteadyInv(h)

LEMMA SteadyKept ==
  ASSUME OpenInv, NEW h \in Hooks, NEW g \in Hooks \ {h}, hook'[g] = hook[g],
         UNCHANGED <<program, channel>>,
         \/ offered' = offered
         \/ /\ hook[g].user # hook[h].user
            /\ \A v \in Users \ {hook[h].user} : offered'[v] = offered[v]
  PROVE  SteadyInv(g)'
  <1>1. SteadyInv(g) /\ HookInv(g)
    BY DEF OpenInv, ReadInv, RowsInv, BaseInv
  <1>2. ~At(g, "idle") => offered'[hook[g].user] = offered[hook[g].user]
    BY <1>1 DEF HookInv
  <1> QED
    BY <1>1, <1>2 DEF SteadyInv, Open, At

LEMMA OpenStep ==
  ASSUME OpenInv, ReadInv', NEW h \in Hooks, NEW q, Moves(h, q),
         UNCHANGED <<program, channel, person, offered>>, SteadyInv(h)'
  PROVE  OpenInv'
  <1>1. \A g \in Hooks \ {h} : hook'[g] = hook[g]
    BY DEF OpenInv, ReadInv, RowsInv, BaseInv, TypeOK, Moves
  <1>2. \A g \in Hooks \ {h} : SteadyInv(g)'
    BY <1>1, SteadyKept
  <1> QED
    BY <1>2 DEF OpenInv, OfferedInv, Open

LEMMA SteadyIdle ==
  ASSUME NEW h \in Hooks, hook'[h] = Idle
  PROVE  SteadyInv(h)'
  BY DEF SteadyInv, At, Idle

\* Of two markets, several are all.
LEMMA SeveralIsAll ==
  ASSUME TwoMarkets, NEW ready \in SUBSET Markets, ready # {}, Cardinality(ready) # 1
  PROVE  ready = Markets
  <1>1. PICK a, b : Markets = {a, b}
    BY DEF TwoMarkets
  <1>2. ASSUME NEW m, ready = {m} PROVE FALSE
    <2>1. Cardinality({m}) = 1
      BY FS_Singleton
    <2> QED
      BY <1>2, <2>1
  <1> QED
    BY <1>1, <1>2

LEMMA OpenInit ==
  ASSUME Init
  PROVE  OpenInv
  <1>1. ReadInv /\ \A h \in Hooks : hook[h] = Idle
    BY ReadInit DEF Init
  <1>2. ASSUME NEW h \in Hooks PROVE SteadyInv(h)
    <2>1. hook[h] = Idle
      BY <1>1
    <2>2. Idle.stage = "idle" /\ Idle.steady = FALSE /\ Idle.reply = "none"
      BY DEF Idle
    <2> QED
      BY <2>1, <2>2 DEF SteadyInv, At
  <1>3. OfferedInv
    BY DEF Init, OfferedInv
  <1> QED
    BY <1>1, <1>2, <1>3 DEF OpenInv

LEMMA OpenReceive ==
  ASSUME OpenInv, NEW h \in Hooks, NEW u \in Users, NEW q, Arrived(u, q), Receive(h, u, q)
  PROVE  OfferedInv' /\ \A g \in Hooks : SteadyInv(g)'
  <1>1. TypeOK /\ UNCHANGED <<program, channel, person>>
    BY DEF OpenInv, ReadInv, RowsInv, BaseInv, Receive, World
  <1>2. \A v \in Users : offered'[v] \in {offered[v], {}}
    BY <1>1, ReceiveDoes
  <1>3. OfferedInv'
    BY <1>1, <1>2 DEF OpenInv, OfferedInv, Open
  <1>4. SteadyInv(h)'
    <2>1. LET p == hook'[h]
          IN  /\ p.user = u /\ p.fresh /\ (p.steady <=> offered'[u] # {})
              /\ p.stage \in {"programs", "offer", "who", "reply"} /\ p.reply \in {"none", "HINT"}
              /\ p.stage = "offer" => p.input = "button"
              /\ offered'[u] # {} => /\ p.alone /\ offered'[u] = offered[u]
                                     /\ p.input = "button" => p.market \in offered[u]
      BY <1>1, ReceiveDoes
    <2>2. hook'[h].steady /\ hook'[h].stage = "offer" => Open(hook'[h].market)
      BY <2>1 DEF OpenInv, OfferedInv
    <2> QED
      BY <1>1, <2>1, <2>2 DEF SteadyInv, At, Open
  <1>5. ASSUME NEW g \in Hooks \ {h} PROVE SteadyInv(g)'
    <2>1. SteadyInv(g) /\ HookInv(g)
      BY DEF OpenInv, ReadInv, RowsInv, BaseInv
    <2>2. CASE hook[g].user = u
      <3>1. /\ SameRequest(hook'[g], hook[g]) /\ ~hook'[g].alone /\ ~hook'[g].steady
            /\ offered'[u] # {} => hook'[h].alone
            /\ hook'[h].alone <=> \A f \in Hooks : hook[f].user # u
        BY <1>1, <2>2, ReceiveDoes
      <3>2. offered'[u] = {}
        BY <2>2, <3>1
      <3> QED
        BY <2>2, <3>1, <3>2 DEF SteadyInv, At, SameRequest
    <2>3. CASE hook[g].user # u
      <3>1. hook'[g] = hook[g] /\ \A v \in Users \ {u} : offered'[v] = offered[v]
        BY <1>1, <2>3, ReceiveDoes
      <3>2. ~At(g, "idle") => offered'[hook[g].user] = offered[hook[g].user]
        BY <2>1, <2>3, <3>1 DEF HookInv
      <3> QED
        BY <1>1, <2>1, <3>1, <3>2 DEF SteadyInv, Open, At
    <2> QED
      BY <2>2, <2>3
  <1> QED
    BY <1>3, <1>4, <1>5

LEMMA OpenNext ==
  ASSUME TwoMarkets, OpenInv, [Next]_vars
  PROVE  OpenInv'
  <1>0. BaseInv /\ RowsInv /\ ReadInv /\ ReadInv' /\ TypeOK
    BY ReadNext DEF OpenInv, ReadInv, RowsInv, BaseInv
  <1>1. CASE UNCHANGED vars
    BY <1>0, <1>1 DEF OpenInv, OfferedInv, SteadyInv, Open, At, vars
  <1>2. ASSUME NEW h \in Hooks, NEW u \in Users,
               \/ PressStart(h, u)
               \/ \E market \in Markets : PressButton(h, u, market)
               \/ \E text \in Texts : TypeText(h, u, text)
        PROVE  OpenInv'
    BY <1>0, <1>2, Arrivals, OpenReceive DEF OpenInv
  <1>3. ASSUME NEW h \in Hooks, ReadUser(h) PROVE OpenInv'
    <2>1. PICK q \in Hook :
           /\ Step(h, q) /\ SameUpdate(q, hook[h])
           /\ q.seen = person[q.user] /\ q.market = q.seen.pending
           /\ q.stage = (IF q.seen.pending = None THEN "programs" ELSE "submit")
           /\ q.input = hook[h].input /\ q.reply = hook[h].reply
      BY <1>0, <1>3, ReadUserDoes
    <2>2. At(h, "who") /\ HookInv(h) /\ SteadyInv(h) /\ Moves(h, q) /\ hook'[h] = q
          /\ UNCHANGED <<program, channel, person, offered>>
      BY <1>0, <1>3, <2>1 DEF ReadUser, OpenInv, BaseInv, TypeOK, Step, World, Moves
    <2>3. q.reply = "none" /\ q.input = "uid" /\ q.user \in Users
      BY <2>1, <2>2 DEF HookInv, At, SameUpdate
    <2>4. q.steady <=> offered[q.user] # {}
      BY <2>1, <2>2 DEF SteadyInv, At, SameUpdate
    <2>5. q.steady /\ q.stage = "submit" => Open(q.market)
      BY <2>1, <2>3, <2>4 DEF OpenInv, OfferedInv
    <2>6. SteadyInv(h)'
      BY <2>1, <2>2, <2>3, <2>4, <2>5 DEF SteadyInv, Open, At, SameUpdate
    <2> QED
      BY <1>0, <2>2, <2>6, OpenStep
  <1>4. ASSUME NEW h \in Hooks, ReadPrograms(h) PROVE OpenInv'
    <2>1. PICK q \in Hook :
           /\ Step(h, q) /\ SameUpdate(q, hook[h])
           /\ q.stage = "channels" /\ q.reply = hook[h].reply
      BY <1>0, <1>4, ReadProgramsDoes
    <2>2. At(h, "programs") /\ HookInv(h) /\ SteadyInv(h) /\ Moves(h, q) /\ hook'[h] = q
          /\ UNCHANGED <<program, channel, person, offered>>
      BY <1>0, <1>4, <2>1 DEF ReadPrograms, OpenInv, BaseInv, TypeOK, Step, World, Moves
    <2>3. q.reply = "none"
      BY <2>1, <2>2 DEF HookInv, At
    <2>4. SteadyInv(h)'
      BY <2>1, <2>2, <2>3 DEF SteadyInv, At, SameUpdate
    <2> QED
      BY <1>0, <2>2, <2>4, OpenStep
  <1>5. ASSUME NEW h \in Hooks, ReadChannels(h) PROVE OpenInv'
    <2>1. PICK q \in Hook :
           LET ready == Ready(h)
           IN  /\ Step(h, q) /\ SameUpdate(q, hook[h])
               /\ \/ /\ ready = {q.market} /\ q.stage \in {"submit", "offer"}
                     /\ q.reply = hook[h].reply
                  \/ q.stage = "programs" /\ q.reply = hook[h].reply
                  \/ /\ ready = {} /\ q.stage = "reply" /\ q.reply = "NOT_CONFIGURED"
                  \/ /\ q.stage = "reply" /\ q.reply = "CHOOSE_MARKET"
                     /\ ready # {} /\ Cardinality(ready) # 1 /\ q.menu = ready
      BY <1>0, <1>5, ReadChannelsDoes
    <2> DEFINE ready == Available(program, channel)
    <2>2. At(h, "channels") /\ HookInv(h) /\ SteadyInv(h) /\ FreshInv(h) /\ Moves(h, q)
          /\ hook'[h] = q /\ UNCHANGED <<program, channel, person, offered>>
      BY <1>0, <1>5, <2>1 DEF ReadChannels, OpenInv, ReadInv, BaseInv, TypeOK, Step, World, Moves
    <2>3. hook[h].reply = "none" /\ q.user \in Users
      BY <2>1, <2>2 DEF HookInv, At, SameUpdate
    <2>4. q.fresh => Ready(h) = ready
      BY <2>1, <2>2 DEF FreshInv, SameUpdate, Ready
    <2>5. /\ q.steady => q.alone /\ q.fresh
          /\ q.steady <=> offered[q.user] # {}
      BY <2>1, <2>2 DEF SteadyInv, At, SameUpdate
    <2>6. \A m \in Markets : Open(m) <=> m \in ready
      BY DEF Open, Available
    <2>7. q.steady => ready # {}
      <3>1. q.steady => \E m \in offered[q.user] : m \in Markets /\ Open(m)
        BY <1>0, <2>3, <2>5 DEF OpenInv, OfferedInv, TypeOK
      <3> QED
        BY <2>6, <3>1
    <2>8. ready \subseteq Markets
      BY DEF Available
    <2> HIDE DEF ready
    <2>9. SteadyInv(h)'
      <3>1. CASE /\ Ready(h) = {q.market}
                 /\ q.stage \in {"submit", "offer"} /\ q.reply = hook[h].reply
        <4>1. q.fresh => ready = {q.market} /\ Open(q.market)
          BY <2>4, <2>6, <2>8, <3>1
        <4> QED
          BY <2>2, <2>3, <2>5, <3>1, <4>1 DEF SteadyInv, Open, At, ready
      <3>2. CASE q.stage = "programs" /\ q.reply = hook[h].reply
        BY <2>2, <2>3, <2>5, <3>2 DEF SteadyInv, At
      <3>3. CASE /\ Ready(h) = {} /\ q.stage = "reply"
                 /\ q.reply = "NOT_CONFIGURED"
        BY <2>2, <2>4, <2>5, <2>7, <3>3 DEF SteadyInv, At
      <3>4. CASE /\ q.stage = "reply" /\ q.reply = "CHOOSE_MARKET"
                 /\ Ready(h) # {}
                 /\ Cardinality(Ready(h)) # 1
                 /\ q.menu = Ready(h)
        <4>1. q.fresh => q.menu = Markets /\ \A m \in Markets : Open(m)
          BY <2>4, <2>6, <2>8, <3>4, SeveralIsAll
        <4> QED
          BY <2>2, <2>5, <3>4, <4>1 DEF SteadyInv, Open, At
      <3> QED
        BY <2>1, <3>1, <3>2, <3>3, <3>4
    <2> QED
      BY <1>0, <2>2, <2>9, OpenStep
  <1>6. ASSUME NEW h \in Hooks, Offer(h) \/ Submit(h) PROVE OpenInv'
    <2>1. PICK q \in Hook :
           /\ Step(h, q) /\ SameUpdate(q, hook[h])
           /\ q.market = hook[h].market /\ q.input = hook[h].input
           /\ \/ /\ program[q.market] # "on" \/ channel[q.market] # "on"
                 /\ q.stage = "reply" /\ q.reply = "NOT_CONFIGURED"
              \/ /\ q.stage \in {"insert", "commit"}
                 /\ \/ q.reply = "VERDICT"
                    \/ q.reply = "WELCOME" /\ At(h, "offer")
      <3>1. CASE Offer(h)
        BY <1>0, <3>1, OfferDoes DEF Offer
      <3>2. CASE Submit(h)
        BY <1>0, <3>2, SubmitDoes
      <3> QED
        BY <1>6, <3>1, <3>2
    <2>2. hook[h].stage \in {"offer", "submit"} /\ HookInv(h) /\ SteadyInv(h) /\ FreshInv(h)
          /\ Moves(h, q) /\ hook'[h] = q /\ UNCHANGED <<program, channel, person, offered>>
      BY <1>0, <1>6, <2>1
         DEF Offer, Submit, At, OpenInv, ReadInv, BaseInv, TypeOK, Step, World, Moves
    <2>3. q.steady => q.alone /\ q.fresh /\ Open(q.market)
      BY <2>1, <2>2 DEF SteadyInv, SameUpdate
    <2>4. q.steady <=> offered[q.user] # {}
      BY <2>1, <2>2 DEF SteadyInv, SameUpdate, At
    <2>5. q.steady => q.reply # "NOT_CONFIGURED"
      BY <2>1, <2>3 DEF Open
    <2>6. q.alone /\ q.fresh /\ q.input = "start" /\ q.reply = "WELCOME" =>
            Available(program, channel) = {q.market}
      BY <2>1, <2>2 DEF SteadyInv, SameUpdate
    <2>7. SteadyInv(h)'
      BY <2>1, <2>2, <2>3, <2>4, <2>5, <2>6 DEF SteadyInv, Open, At
    <2> QED
      BY <1>0, <2>2, <2>7, OpenStep
  <1>7. ASSUME NEW h \in Hooks, NEW stage \in {"commit", "reply"},
               hook' = [hook EXCEPT ![h].stage = stage], hook[h].stage \in {"insert", "commit"},
               UNCHANGED <<program, channel, offered>>
        PROVE  SteadyInv(h)'
    <2> DEFINE q == [hook[h] EXCEPT !.stage = stage]
    <2>1. SteadyInv(h) /\ hook[h] \in Hook /\ hook'[h] = q
      BY <1>0, <1>7 DEF OpenInv, TypeOK
    <2>2. q.stage = stage /\ q.fresh = hook[h].fresh /\ q.alone = hook[h].alone
          /\ q.steady = hook[h].steady /\ q.user = hook[h].user /\ q.market = hook[h].market
          /\ q.input = hook[h].input /\ q.reply = hook[h].reply /\ q.menu = hook[h].menu
      BY <2>1 DEF Hook
    <2> HIDE DEF q
    <2> QED
      BY <1>7, <2>1, <2>2 DEF SteadyInv, Open, At
  <1>8. ASSUME NEW h \in Hooks, Insert(h) PROVE OpenInv'
    <2>1. SteadyInv(h)'
      BY <1>7, <1>8 DEF Insert, At, World
    <2>2. Moves(h, [hook[h] EXCEPT !.stage = "commit"])
          /\ UNCHANGED <<program, channel, person, offered>>
      BY <1>8 DEF Insert, Moves, World
    <2> QED
      BY <1>0, <2>1, <2>2, OpenStep
  <1>9. ASSUME NEW h \in Hooks, Commit(h) PROVE OpenInv'
    <2> DEFINE u == hook[h].user
    <2>1. SteadyInv(h)'
      BY <1>7, <1>9 DEF Commit, At
    <2>2. At(h, "commit") /\ SteadyInv(h) /\ RowInv(h) /\ UNCHANGED <<program, channel, offered>>
          /\ \A g \in Hooks \ {h} : hook'[g] = hook[g]
      BY <1>0, <1>9 DEF Commit, OpenInv, RowsInv, TypeOK
    <2>3. \A g \in Hooks \ {h} : SteadyInv(g)'
      BY <2>2, SteadyKept
    <2>4. /\ u \in Users /\ hook[h].reply \in {"WELCOME", "VERDICT"}
          /\ \A v \in Users \ {u} : person'[v] = person[v]
          /\ hook[h].reply = "VERDICT" => person'[u].pending = person[u].pending
          /\ hook[h].alone => person'[u] = hook[h].new
      BY <1>0, <1>9, CommitDoes
    <2>5. ASSUME offered[u] # {}, hook[h].reply = "WELCOME" PROVE Open(person'[u].pending)
      <3>1. hook[h].steady /\ hook[h].alone /\ Open(hook[h].market)
        BY <2>2, <2>5 DEF SteadyInv, At
      <3>2. hook[h].new.pending = hook[h].market
        BY <2>2, <2>5 DEF RowInv, At
      <3> QED
        BY <2>4, <3>1, <3>2
    <2>6. ASSUME NEW v \in Users, offered[v] # {}
          PROVE  /\ \A m \in offered[v] : Open(m)
                 /\ person'[v].pending # None => Open(person'[v].pending)
      BY <2>4, <2>5, <2>6 DEF OpenInv, OfferedInv
    <2>7. OfferedInv'
      BY <2>2, <2>6 DEF OfferedInv, Open
    <2> QED
      BY <1>0, <2>1, <2>3, <2>7 DEF OpenInv
  <1>10. ASSUME NEW h \in Hooks, Deliver(h) PROVE OpenInv'
    <2> DEFINE q == hook[h]
               told == /\ q.input = "start" /\ q.reply \in {"CHOOSE_MARKET", "WELCOME"}
                       /\ q.alone /\ q.fresh
               new == IF q.reply = "CHOOSE_MARKET" THEN q.menu ELSE {q.market}
    <2>1. At(h, "reply") /\ RowInv(h) /\ HookInv(h) /\ SteadyInv(h) /\ hook'[h] = Idle
          /\ UNCHANGED <<program, channel, person>> /\ q.user \in Users
          /\ \A g \in Hooks \ {h} : hook'[g] = hook[g]
      BY <1>0, <1>10 DEF Deliver, OpenInv, RowsInv, BaseInv, HookInv, TypeOK, At
    <2>2. SteadyInv(h)'
      BY <2>1, SteadyIdle
    <2>3. CASE ~told
      <3>1. offered' = offered
        BY <1>10, <2>3 DEF Deliver
      <3>2. \A g \in Hooks \ {h} : SteadyInv(g)'
        BY <2>1, <3>1, SteadyKept
      <3> QED
        BY <1>0, <2>1, <2>2, <3>1, <3>2 DEF OpenInv, OfferedInv, Open
    <2>4. CASE told
      <3>1. offered' = [offered EXCEPT ![q.user] = new]
        BY <1>10, <2>4 DEF Deliver
      <3>2. offered'[q.user] = new /\ \A v \in Users \ {q.user} : offered'[v] = offered[v]
        BY <1>0, <2>1, <3>1 DEF TypeOK
      <3>3. \A g \in Hooks \ {h} : hook[g].user # q.user
        BY <2>1, <2>4 DEF HookInv, At
      <3>4. \A g \in Hooks \ {h} : SteadyInv(g)'
        BY <2>1, <3>2, <3>3, SteadyKept
      <3>5. /\ \A m \in new : Open(m)
            /\ person[q.user].pending # None => Open(person[q.user].pending)
        <4>1. CASE q.reply = "CHOOSE_MARKET"
          <5>1. q.menu = Markets /\ \A m \in Markets : Open(m)
            BY <2>1, <2>4, <4>1 DEF SteadyInv
          <5>2. person[q.user].pending \in Markets \cup {None}
            BY <1>0, <2>1 DEF TypeOK, Person
          <5> QED
            BY <4>1, <5>1, <5>2
        <4>2. CASE q.reply = "WELCOME"
          <5>1. Available(program, channel) = {q.market}
            BY <2>1, <2>4, <4>2 DEF SteadyInv
          <5>2. Open(q.market)
            BY <5>1 DEF Available, Open
          <5>3. person[q.user] = [exists |-> TRUE, pending |-> q.market]
            BY <2>1, <2>4, <4>2 DEF RowInv
          <5> QED
            BY <4>2, <5>2, <5>3
        <4> QED
          BY <2>4, <4>1, <4>2
      <3> HIDE DEF q, new
      <3>6. OfferedInv'
        BY <2>1, <3>2, <3>5 DEF OpenInv, OfferedInv, Open
      <3> QED
        BY <1>0, <2>2, <3>4, <3>6 DEF OpenInv
    <2> QED
      BY <2>3, <2>4
  <1>11. ASSUME NEW h \in Hooks, LoseReply(h) \/ GiveUp(h) PROVE OpenInv'
    <2>1. Moves(h, Idle) /\ hook'[h] = Idle /\ UNCHANGED <<program, channel, person, offered>>
      BY <1>0, <1>11 DEF LoseReply, GiveUp, Step, World, Moves, TypeOK
    <2> QED
      BY <1>0, <2>1, SteadyIdle, OpenStep
  <1>12. ASSUME NEW market \in Markets, NEW state \in {"on", "off"},
                PutProgram(market, state) \/ PutChannel(market, state)
         PROVE  OpenInv'
    <2>1. Edited /\ \A u \in Users : offered'[u] = {}
      BY <1>12 DEF PutProgram, PutChannel, Edited
    <2>2. ASSUME NEW h \in Hooks PROVE SteadyInv(h)'
      <3>1. CASE At(h, "idle")
        <4>1. hook'[h] = Idle
          BY <1>0, <2>1, <3>1, EditedDoes DEF BaseInv, HookInv
        <4> QED
          BY <4>1, SteadyIdle
      <3>2. CASE ~At(h, "idle")
        <4>1. SameRequest(hook'[h], hook[h]) /\ ~hook'[h].steady /\ ~hook'[h].fresh
          BY <1>0, <2>1, <3>2, EditedDoes
        <4>2. hook[h].user \in Users
          BY <1>0, <3>2 DEF BaseInv, HookInv
        <4> QED
          BY <2>1, <4>1, <4>2 DEF SteadyInv, SameRequest
      <3> QED
        BY <3>1, <3>2
    <2>3. OfferedInv'
      BY <2>1 DEF OfferedInv
    <2> QED
      BY <1>0, <2>2, <2>3 DEF OpenInv
  <1> QED
    BY <1>1, <1>2, <1>3, <1>4, <1>5, <1>6, <1>8, <1>9, <1>10, <1>11, <1>12
       DEF Next, Advance, Fail, LosesInsert

\* NoDeadEnd: with the two markets there are, a user who was offered markets, and
\* did one thing at a time, is not told NOT_CONFIGURED unless something was edited.
THEOREM OffersStand == TwoMarkets => (Spec => []NoDeadEnd)
  <1> SUFFICES ASSUME TwoMarkets PROVE Spec => []NoDeadEnd
    OBVIOUS
  <1>1. Init => OpenInv
    BY OpenInit
  <1>2. OpenInv /\ [Next]_vars => OpenInv'
    BY OpenNext
  <1>3. OpenInv => NoDeadEnd
    BY DEF OpenInv, SteadyInv, NoDeadEnd
  <1> QED
    BY <1>1, <1>2, <1>3, PTL DEF Spec

-----------------------------------------------------------------------------
(* OneSpelling. *)

\* Nobody types digits of a script that normalize_uid does not fold.
FoldedScripts ==
  \A text \in Texts : \A i \in 1..Len(text) :
    text[i].kind = "digit" => text[i].script \in {"ascii", "persian", "arabic"}

SpellingInv == BaseInv /\ NumberInv

LEMMA AsciiNumber ==
  ASSUME FoldedScripts, NEW q, Numbered(q)
  PROVE  q.uid \in Seq(Ascii)
  <1>1. CASE q.uid = <<>>
    BY <1>1
  <1>2. ASSUME NEW text \in Texts, q.uid = normalize_uid(text), isdigit(q.uid)
        PROVE  q.uid \in Seq(Ascii)
    <2> DEFINE Plain == {c \in Symbol : c.kind = "digit" => c \in Ascii}
    <2>1. text \in Seq(Symbol)
      BY ConversationAssumption
    <2>2. ASSUME NEW i \in 1..Len(text) PROVE Fold(text[i]) \in Plain
      <3>1. text[i] \in Symbol /\ Fold(text[i]) \in Symbol
        BY <2>1, FoldType
      <3>2. text[i].kind = "digit" => text[i].script \in {"ascii", "persian", "arabic"}
        BY DEF FoldedScripts
      <3>3. Fold(text[i]).kind = "digit" => Fold(text[i]) \in Ascii
        BY <3>1, <3>2 DEF Fold, Digit, Symbol, Ascii
      <3> QED
        BY <3>1, <3>3
    <2>3. q.uid \in Seq(Plain)
      <3> HIDE DEF Plain
      <3> QED
        BY <1>2, <2>1, <2>2, NormalizeIn
    <2>4. \A i \in 1..Len(q.uid) : q.uid[i] \in Ascii
      BY <1>2, <2>3 DEF isdigit
    <2>5. Len(q.uid) \in Nat /\ q.uid = [i \in 1..Len(q.uid) |-> q.uid[i]]
      BY <2>3
    <2> QED
      BY <2>4, <2>5
  <1> QED
    BY <1>1, <1>2 DEF Numbered

LEMMA SpellingNext ==
  ASSUME FoldedScripts, SpellingInv, [Next]_vars
  PROVE  SpellingInv'
  <1>0. BaseInv /\ BaseInv' /\ TypeOK /\ NumberInv
    BY BaseNext DEF SpellingInv, BaseInv
  <1>1. CASE UNCHANGED vars
    BY <1>0, <1>1 DEF SpellingInv, NumberInv, vars
  <1>2. ASSUME NEW h \in Hooks, NEW u \in Users,
               \/ PressStart(h, u)
               \/ \E market \in Markets : PressButton(h, u, market)
               \/ \E text \in Texts : TypeText(h, u, text)
        PROVE  SpellingInv'
    <2>1. PICK q : Arrived(u, q) /\ Numbered(q) /\ Receive(h, u, q)
      BY <1>2, Arrivals
    <2>2. hook'[h].uid = q.uid /\ q.uid \in Seq(Ascii) /\ accounts' = accounts
      <3>1. hook'[h].uid = q.uid
        BY <1>0, <2>1, ReceiveDoes
      <3>2. accounts' = accounts
        BY <2>1 DEF Receive, World
      <3> QED
        BY <2>1, <3>1, <3>2, AsciiNumber
    <2>3. \A g \in Hooks \ {h} : hook'[g].uid = hook[g].uid
      BY <1>0, <2>1, ReceiveDoes DEF SameRequest
    <2> QED
      BY <1>0, <2>2, <2>3 DEF SpellingInv, NumberInv
  <1>3. ASSUME NEW h \in Hooks, NEW q, Moves(h, q), q.uid \in {hook[h].uid, <<>>},
               accounts' \in {accounts, accounts \cup {hook[h].uid}}
        PROVE  SpellingInv'
    <2>1. \A g \in Hooks : hook'[g].uid \in {hook[g].uid, <<>>}
      BY <1>0, <1>3 DEF Moves, TypeOK
    <2>2. <<>> \in Seq(Ascii)
      OBVIOUS
    <2> QED
      BY <1>0, <1>3, <2>1, <2>2 DEF SpellingInv, NumberInv
  <1>4. ASSUME NEW h \in Hooks,
               ReadUser(h) \/ ReadPrograms(h) \/ ReadChannels(h) \/ Offer(h) \/ Submit(h)
        PROVE  SpellingInv'
    <2>1. PICK q \in Hook : Step(h, q) /\ SameUpdate(q, hook[h])
      BY <1>0, <1>4, ReadUserDoes, ReadProgramsDoes, ReadChannelsDoes, OfferDoes, SubmitDoes
    <2> QED
      BY <1>3, <2>1 DEF Step, World, Moves, SameUpdate
  <1>5. ASSUME NEW h \in Hooks, Insert(h) \/ Commit(h) PROVE SpellingInv'
    <2>1. hook[h] \in Hook
      BY <1>0 DEF TypeOK
    <2>2. PICK stage : hook' = [hook EXCEPT ![h].stage = stage]
      BY <1>5 DEF Insert, Commit
    <2>3. accounts' \in {accounts, accounts \cup {hook[h].uid}}
      BY <1>5 DEF Insert, Commit, World
    <2>4. [hook[h] EXCEPT !.stage = stage].uid = hook[h].uid
      BY <2>1 DEF Hook
    <2> QED
      BY <1>3, <2>2, <2>3, <2>4 DEF Moves
  <1>6. ASSUME NEW h \in Hooks, Deliver(h) \/ LoseReply(h) \/ GiveUp(h) PROVE SpellingInv'
    <2>1. Moves(h, Idle) /\ accounts' = accounts /\ Idle.uid = <<>>
      BY <1>6 DEF Deliver, LoseReply, GiveUp, Step, World, Moves, Idle
    <2> QED
      BY <1>3, <2>1
  <1>7. ASSUME NEW market \in Markets, NEW state \in {"on", "off"},
               PutProgram(market, state) \/ PutChannel(market, state)
        PROVE  SpellingInv'
    <2>1. Edited /\ accounts' = accounts
      BY <1>7 DEF PutProgram, PutChannel, Edited
    <2>2. \A h \in Hooks : hook'[h].uid = hook[h].uid
      BY <1>0, <2>1, EditedDoes DEF SameRequest
    <2> QED
      BY <1>0, <2>1, <2>2 DEF SpellingInv, NumberInv
  <1> QED
    BY <1>1, <1>2, <1>4, <1>5, <1>6, <1>7 DEF Next, Advance, Fail, LosesInsert

\* OneSpelling: however an account's number is typed in ASCII, Persian or Arabic
\* digits, it is one account row.
THEOREM SpellingsAgree == FoldedScripts => (Spec => []OneSpelling)
  <1> SUFFICES ASSUME FoldedScripts PROVE Spec => []OneSpelling
    OBVIOUS
  <1>1. Init => SpellingInv
    <2> SUFFICES ASSUME Init PROVE SpellingInv
      OBVIOUS
    <2>1. accounts = {} /\ \A h \in Hooks : hook[h].uid = <<>>
      BY DEF Init, Idle
    <2>2. <<>> \in Seq(Ascii)
      OBVIOUS
    <2> QED
      BY <2>1, <2>2, BaseInit DEF SpellingInv, NumberInv
  <1>2. SpellingInv /\ [Next]_vars => SpellingInv'
    BY SpellingNext
  <1>3. ASSUME NEW a \in Seq(Ascii), NEW b \in Seq(Ascii), ValuesOf(a) = ValuesOf(b)
        PROVE  a = b
    <2>1. Len(a) \in Nat /\ Len(b) \in Nat /\ DOMAIN a = 1..Len(a) /\ DOMAIN b = 1..Len(b)
      OBVIOUS
    <2>2. DOMAIN a = DOMAIN b
      BY <1>3 DEF ValuesOf
    <2>3. ASSUME NEW i \in DOMAIN a PROVE a[i] = b[i]
      <3>1. a[i] \in Ascii /\ b[i] \in Ascii
        BY <2>1, <2>2
      <3>2. a[i].value = b[i].value
        BY <1>3, <2>2 DEF ValuesOf
      <3> QED
        BY <3>1, <3>2 DEF Ascii
    <2> QED
      BY <2>1, <2>2, <2>3
  <1>4. SpellingInv => OneSpelling
    BY <1>3 DEF SpellingInv, NumberInv, OneSpelling
  <1> QED
    BY <1>1, <1>2, <1>4, PTL DEF Spec
=============================================================================
