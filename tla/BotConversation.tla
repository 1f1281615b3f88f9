-------------------------- MODULE BotConversation --------------------------
(***************************************************************************)
(* A member's conversation with the bot (app/services/bot_conversation.py, *)
(* called by adapters/web/routers/telegram_webhook.py) while an admin      *)
(* edits programs and channels (adapters/web/routers/admin.py).            *)
(*                                                                         *)
(* An update is one transaction, cut at its reads: configuration can       *)
(* change between two of them, and each sees what is committed by then.    *)
(* (SQLAlchemy keeps a row it has loaded only while somebody refers to     *)
(* it: the user's row until the update ends, the rows _available_markets   *)
(* has listed until it returns.)  The referral itself (submit_uid past     *)
(* its first checks) is one step; ReferralOnboarding has its inside.       *)
(***************************************************************************)
EXTENDS Uid, UnitOfWork, FiniteSets

CONSTANTS Users, Markets, Hooks,
          Texts,     \* messages a user may type
          None,      \* no market, no user, no holder
          MaxEdits   \* edits of the configuration

ASSUME ConversationAssumption ==
  /\ None \notin Users \cup Markets \cup Hooks
  /\ Texts \subseteq Seq(Symbol) /\ IsFiniteSet(Markets)
  /\ MaxEdits \in Nat

VARIABLES program,   \* ReferralProgramConfig of the exchange, by market
          channel,   \* TelegramChannel, by market
          person,    \* TelegramUser rows
          accounts,  \* the UIDs ReferralAccount rows exist for
          holder,    \* who has inserted a user's row and not yet committed
          hook,      \* the update each hook is working on
          shown,     \* Telegram: the market buttons in each user's chat
          sure,      \* history: the market a user was last told to send a UID for
          offered,   \* history: the markets a user was last offered; empty once
                     \* something was edited, or the user did two things at once
          edits

vars == <<program, channel, person, accounts, holder, hook, shown, sure, offered, edits>>

RowState == {"absent", "on", "off"}
Person == [exists : BOOLEAN, pending : Markets \cup {None}]
Stranger == [exists |-> FALSE, pending |-> None]
Unread == [m \in Markets |-> "absent"]

\* `programs` is what _available_markets has listed, `seen` the user's row as it
\* was loaded, `new` what becomes of it.  `expects`, `alone`, `fresh`
\* and `steady` are history: the market the user was told, no other
\* update of theirs has overlapped this one, nothing was edited since it arrived,
\* and nothing since the user was shown what is offered.
Idle == [stage |-> "idle", user |-> None, input |-> "start", uid |-> <<>>,
         market |-> None, programs |-> Unread, seen |-> Stranger,
         new |-> Stranger, reply |-> "none", menu |-> {},
         expects |-> None, alone |-> TRUE, fresh |-> TRUE, steady |-> FALSE]

Stages == {"idle", "who", "programs", "channels", "offer", "submit", "insert",
           "commit", "reply"}

Replies == {"none", "CHOOSE_MARKET", "WELCOME", "NOT_CONFIGURED", "HINT", "VERDICT"}

Hook == [stage : Stages, user : Users \cup {None}, input : {"start", "button", "uid"},
         uid : Seq(Symbol), market : Markets \cup {None},
         programs : [Markets -> RowState],
         seen : Person, new : Person, reply : Replies, menu : SUBSET Markets,
         expects : Markets \cup {None}, alone : BOOLEAN, fresh : BOOLEAN,
         steady : BOOLEAN]

\* TypeOK: every variable has its type.
TypeOK ==
  /\ program \in [Markets -> RowState] /\ channel \in [Markets -> RowState]
  /\ person \in [Users -> Person]
  /\ accounts \subseteq Seq(Symbol)
  /\ holder \in [Users -> Hooks \cup {None}]
  /\ hook \in [Hooks -> Hook]
  /\ shown \in [Users -> SUBSET Markets]
  /\ sure \in [Users -> Markets \cup {None}]
  /\ offered \in [Users -> SUBSET Markets]
  /\ edits \in 0..MaxEdits

Init ==
  /\ program \in [Markets -> {"absent", "on"}]
  /\ channel \in [Markets -> {"absent", "on"}]
  /\ person = [u \in Users |-> Stranger]
  /\ accounts = {}
  /\ holder = [u \in Users |-> None]
  /\ hook = [h \in Hooks |-> Idle]
  /\ shown = [u \in Users |-> {}]
  /\ sure = [u \in Users |-> None]
  /\ offered = [u \in Users |-> {}]
  /\ edits = 0

At(h, stage) == hook[h].stage = stage
World == <<program, channel, accounts, shown, edits>>

-----------------------------------------------------------------------------
(* What an update reads. *)

\* Mutant: a market is offered on its program alone.
BugNoChannelNeeded(programs, channels) == {m \in Markets : programs[m] = "on"}

\* _available_markets.
Available(programs, channels) ==
  {m \in Markets : programs[m] = "on" /\ channels[m] = "on"}

-----------------------------------------------------------------------------
(* One update: what it is. *)

\* An update of user u arrives and h takes it up.
Receive(h, u, q) ==
  LET others == {g \in Hooks : hook[g].user = u}
      alone == others = {}
      still == IF alone /\ (q.input = "button" => q.market \in offered[u])
               THEN offered[u] ELSE {}
  IN  /\ At(h, "idle")
      /\ hook' = [g \in Hooks |->
           IF g = h THEN [q EXCEPT !.user = u, !.alone = alone, !.steady = still # {},
                                   !.expects = IF alone THEN sure[u] ELSE None]
           ELSE IF g \in others
           THEN [hook[g] EXCEPT !.alone = FALSE, !.expects = None, !.steady = FALSE]
           ELSE hook[g]]
      /\ sure' = IF alone THEN sure ELSE [sure EXCEPT ![u] = None]
      /\ offered' = [offered EXCEPT ![u] = still]
      /\ UNCHANGED <<World, person, holder>>

\* handle: /start.
PressStart(h, u) == Receive(h, u, [Idle EXCEPT !.stage = "programs"])

\* handle: a market button somewhere up in the chat.
PressButton(h, u, market) ==
  /\ market \in shown[u]
  /\ Receive(h, u, [Idle EXCEPT !.stage = "offer", !.input = "button", !.market = market])

\* handle: a text that is a UID, or else a hint (ASK_FOR_UID, INVALID_UID).
TypeText(h, u, text) ==
  LET uid == normalize_uid(text)
  IN  Receive(h, u, IF is_valid_bitunix_uid(uid)
                    THEN [Idle EXCEPT !.stage = "who", !.input = "uid", !.uid = uid]
                    ELSE [Idle EXCEPT !.stage = "reply", !.input = "uid", !.reply = "HINT"])

-----------------------------------------------------------------------------
(* One update: how it is handled. *)

Step(h, q) ==
  /\ hook' = [hook EXCEPT ![h] = q]
  /\ UNCHANGED <<World, person, holder, sure, offered>>

\* Mutant: the choice is looked for in a session of its own, which is gone.
BugForgetsChoice(h) ==
  /\ At(h, "who") /\ Step(h, [hook[h] EXCEPT !.stage = "programs"])

\* _handle_uid: the market the user has picked, if any.
ReadUser(h) ==
  LET row == person[hook[h].user]
  IN  /\ At(h, "who")
      /\ Step(h, [hook[h] EXCEPT !.seen = row, !.market = row.pending,
                    !.stage = IF row.pending = None THEN "programs" ELSE "submit"])

ReadPrograms(h) ==
  /\ At(h, "programs")
  /\ Step(h, [hook[h] EXCEPT !.programs = program, !.stage = "channels"])

\* Mutants: the list of ready markets is taken for its only element; any market
\* that is ready will do.
BugTakesTheList(q, ready) ==
  IF Cardinality(ready) = 1
  THEN [q EXCEPT !.market = ready, !.stage = IF q.input = "uid" THEN "submit" ELSE "offer"]
  ELSE [q EXCEPT !.stage = "reply", !.reply = "CHOOSE_MARKET", !.menu = ready]

BugGuesses(q, ready) ==
  IF ready = {} THEN [q EXCEPT !.stage = "reply", !.reply = "NOT_CONFIGURED"]
  ELSE [q EXCEPT !.market = CHOOSE m \in ready : TRUE,
                 !.stage = IF q.input = "uid" THEN "submit" ELSE "offer"]

\* _start, and _handle_uid without a choice: one market that is ready is taken;
\* otherwise a UID is answered as /start would be, which reads all again.
Chosen(q, ready) ==
  IF Cardinality(ready) = 1
  THEN [q EXCEPT !.market = CHOOSE m \in ready : TRUE,
                 !.stage = IF q.input = "uid" THEN "submit" ELSE "offer"]
  ELSE IF q.input = "uid" THEN [q EXCEPT !.stage = "programs", !.input = "start"]
  ELSE IF ready = {} THEN [q EXCEPT !.stage = "reply", !.reply = "NOT_CONFIGURED"]
  ELSE [q EXCEPT !.stage = "reply", !.reply = "CHOOSE_MARKET", !.menu = ready]

ReadChannels(h) ==
  LET q == hook[h]
  IN  /\ At(h, "channels")
      /\ Step(h, Chosen([q EXCEPT !.programs = Unread], Available(q.programs, channel)))

\* The rest of an update needs the user's row: the one it has, the one there is
\* now, or a new one.
WithUser(q) ==
  LET row == IF q.seen.exists THEN q.seen ELSE person[q.user]
  IN  [q EXCEPT !.seen = row, !.new = [row EXCEPT !.exists = TRUE],
                !.stage = IF row.exists THEN "commit" ELSE "insert"]

\* _offer_referral_link.  (Reads of different tables that follow each other are
\* one step here and in Submit.)
Offer(h) ==
  LET q == hook[h]
  IN  /\ At(h, "offer")
      /\ Step(h, IF program[q.market] # "on"
                 THEN [q EXCEPT !.stage = "reply", !.reply = "NOT_CONFIGURED"]
                 ELSE [WithUser(q) EXCEPT !.new.pending = q.market, !.reply = "WELCOME"])

\* _handle_uid reads the program and holds on to it, so that submit_uid meets the
\* same row; it asks for an active channel.
Submit(h) ==
  LET q == hook[h]
  IN  /\ At(h, "submit")
      /\ Step(h, IF program[q.market] # "on" \/ channel[q.market] # "on"
                 THEN [q EXCEPT !.stage = "reply", !.reply = "NOT_CONFIGURED"]
                 ELSE [WithUser(q) EXCEPT !.reply = "VERDICT"])

\* _ensure_user inserts; while another update has the key, it waits.
Insert(h) ==
  LET u == hook[h].user
  IN  /\ At(h, "insert") /\ holder[u] = None /\ ~person[u].exists
      /\ holder' = [holder EXCEPT ![u] = h]
      /\ hook' = [hook EXCEPT ![h].stage = "commit"]
      /\ UNCHANGED <<World, person, sure, offered>>

\* The webhook commits: the columns of the user's row that changed, and the
\* account the UID is recorded under.
Commit(h) ==
  LET q == hook[h]
  IN  /\ At(h, "commit")
      /\ person' = [person EXCEPT ![q.user] = Merge(@, q.seen, q.new)]
      /\ accounts' = IF q.reply = "VERDICT" THEN accounts \cup {q.uid} ELSE accounts
      /\ sure' = IF q.reply = "WELCOME" THEN [sure EXCEPT ![q.user] = None] ELSE sure
      /\ holder' = [holder EXCEPT ![q.user] = IF @ = h THEN None ELSE @]
      /\ hook' = [hook EXCEPT ![h].stage = "reply"]
      /\ UNCHANGED <<program, channel, shown, offered, edits>>

\* The reply arrives.
Deliver(h) ==
  LET q == hook[h]
      new == IF q.reply = "CHOOSE_MARKET" THEN q.menu ELSE {q.market}
  IN  /\ At(h, "reply")
      /\ shown' = [shown EXCEPT ![q.user] = @ \cup q.menu]
      /\ sure' = IF q.reply = "WELCOME" /\ q.alone
                 THEN [sure EXCEPT ![q.user] = q.market] ELSE sure
      /\ offered' = IF q.input = "start" /\ q.reply \in {"CHOOSE_MARKET", "WELCOME"}
                       /\ q.alone /\ q.fresh
                    THEN [offered EXCEPT ![q.user] = new] ELSE offered
      /\ hook' = [hook EXCEPT ![h] = Idle]
      /\ UNCHANGED <<program, channel, person, accounts, holder, edits>>

\* ... or does not: "could not deliver a reply".
LoseReply(h) ==
  /\ At(h, "reply") /\ Step(h, Idle)

\* Mutant: the transaction stays open.
BugStaysOpen(h) == Step(h, Idle)

\* Everything is rolled back and an apology sent, or the process has died.
GiveUp(h) ==
  /\ hook' = [hook EXCEPT ![h] = Idle]
  /\ holder' = [u \in Users |-> IF holder[u] = h THEN None ELSE holder[u]]
  /\ UNCHANGED <<World, person, sure, offered>>

Fail(h) == ~At(h, "idle") /\ ~At(h, "reply") /\ GiveUp(h)

\* The user was found missing, and another update has inserted the row since:
\* IntegrityError.
LosesInsert(h) ==
  LET u == hook[h].user
  IN  /\ At(h, "insert") /\ holder[u] = None /\ person[u].exists
      /\ GiveUp(h)

-----------------------------------------------------------------------------
(* The admin. *)

Edited ==
  /\ edits < MaxEdits /\ edits' = edits + 1
  /\ hook' = [h \in Hooks |-> [hook[h] EXCEPT !.fresh = At(h, "idle"), !.steady = FALSE]]
  /\ offered' = [u \in Users |-> {}]
  /\ UNCHANGED <<person, accounts, holder, shown, sure>>

\* upsert_referral_config.
PutProgram(market, state) ==
  /\ program[market] # state
  /\ program' = [program EXCEPT ![market] = state]
  /\ Edited /\ UNCHANGED channel

\* upsert_channel looks for an active row only.  For a channel that is switched
\* off it inserts a second one, which the unique key refuses: nothing changes.
PutChannel(market, state) ==
  /\ channel[market] \notin {"off", state}
  /\ channel' = [channel EXCEPT ![market] = state]
  /\ Edited /\ UNCHANGED program

-----------------------------------------------------------------------------

Advance(h) ==
  \/ ReadUser(h) \/ ReadPrograms(h) \/ ReadChannels(h) \/ Offer(h) \/ Submit(h)
  \/ Insert(h) \/ LosesInsert(h) \/ Commit(h) \/ Deliver(h) \/ LoseReply(h)

Next ==
  \/ \E h \in Hooks, u \in Users :
       \/ PressStart(h, u)
       \/ \E market \in Markets : PressButton(h, u, market)
       \/ \E text \in Texts : TypeText(h, u, text)
  \/ \E h \in Hooks : Advance(h) \/ Fail(h)
  \/ \E market \in Markets, state \in {"on", "off"} :
       PutProgram(market, state) \/ PutChannel(market, state)

Spec == Init /\ [][Next]_vars

\* An update under way is carried on: its queries return, its calls return or
\* time out, and PostgreSQL serves the transactions that wait for a key in turn.
FairSpec == Spec /\ \A h \in Hooks : SF_vars(Advance(h))

-----------------------------------------------------------------------------
(* Properties. *)

Submitting(h) == hook[h].reply = "VERDICT" /\ ~At(h, "reply")

\* membership.py:44, "a redeploy between the button and the UID must not lose it":
\* a UID that follows a delivered welcome is submitted for the market of that
\* welcome, whatever failed, crashed or was edited in between, unless the user
\* did two things at once.
RightMarket ==
  \A h \in Hooks :
    Submitting(h) /\ hook[h].expects # None => hook[h].market = hook[h].expects

\* bot_conversation.py:186, "Ask rather than guess": while several markets are
\* open, the UID of a user who has picked none is not submitted.
NeverGuessed ==
  \A h \in Hooks :
    Submitting(h) /\ hook[h].alone /\ hook[h].fresh /\ hook[h].seen.pending = None =>
      Available(program, channel) = {hook[h].market}

\* bot_conversation.py:106, a market without a channel "hands the user a dead
\* end two steps later": a user who was offered markets, and did one thing at a
\* time, is not told NOT_CONFIGURED unless the configuration was edited.
NoDeadEnd ==
  \A h \in Hooks : hook[h].steady => hook[h].reply # "NOT_CONFIGURED"

\* membership.py:58, one exchange account backs at most one member: however its
\* number is typed in ASCII, Persian or Arabic digits, it is one account row.
OneSpelling ==
  \A a, b \in accounts : ValuesOf(a) = ValuesOf(b) => a = b

\* An update ends, whatever the others do.
UpdatesEnd == \A h \in Hooks : ~At(h, "idle") ~> At(h, "idle")
=============================================================================
