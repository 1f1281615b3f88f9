------------------------ MODULE MCReferralOnboarding ------------------------
(***************************************************************************)
(* Small instances of ReferralOnboarding.                                  *)
(***************************************************************************)
EXTENDS ReferralOnboarding, Bitunix

\* Members may be removed from the second day on, or not within the run.
ShortGrace == [m \in Markets |-> [minimum_balance |-> 2, minimum_trades |-> 0, grace |-> 1]]
LongGrace  == [m \in Markets |-> [ShortGrace[m] EXCEPT !.grace = MaxDay + 1]]

\* Replies of the exchange: none, an answer without a result (an account it does
\* not know), and accounts whose deposits fall short or suffice.
NoDeposit == [f \in DepositFields |-> NoAmount]
Failed == [body |-> "unusable", registered |-> FALSE, deposit |-> NoDeposit]
Bare   == [Failed EXCEPT !.body = "result"]
Poor   == [Bare EXCEPT !.registered = TRUE, !.deposit["OTC"] = 1]
Good   == [Poor EXCEPT !.deposit["Internal"] = 1]

\* A body that raises ends the update like a crash.
Foreign == [Failed EXCEPT !.body = "foreign"]

AllChecks ==
  {validate_user(reply) : reply \in {r \in {Failed, Foreign, Bare, Poor, Good} : ~Raises(r)}}
GoodOnly  == {validate_user(Good)}
=============================================================================
