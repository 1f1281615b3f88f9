---------------------------- MODULE Eligibility ----------------------------
(***************************************************************************)
(* The referral rule (app/domain/eligibility.py): a provider's answer and  *)
(* a tenant's thresholds in, a reason out.  (The verdict's compliance_state *)
(* is a function of the reason.)  A check is the provider's ReferralCheck; *)
(* `answered` is FALSE for the None that stands for an outage, and `trades` *)
(* is NoCount when the provider reports no trades (qualifying_trades is    *)
(* None).                                                                  *)
(***************************************************************************)
EXTENDS Integers

NoCount == -1

Check == [answered : BOOLEAN, registered : BOOLEAN,
          deposit : Nat, trades : Nat \cup {NoCount}]

Reasons == {"ELIGIBLE", "NOT_REGISTERED", "INSUFFICIENT_BALANCE",
            "INSUFFICIENT_TRADING", "PROVIDER_UNAVAILABLE"}

\* The reasons that blame the member; the other two blame nobody.
Faults == {"NOT_REGISTERED", "INSUFFICIENT_BALANCE", "INSUFFICIENT_TRADING"}

\* evaluate_referral: the first test that fails names the reason.
evaluate_referral(check, rules, require_trading) ==
  IF ~check.answered THEN "PROVIDER_UNAVAILABLE"
  ELSE IF ~check.registered THEN "NOT_REGISTERED"
  ELSE IF check.deposit < rules.minimum_balance THEN "INSUFFICIENT_BALANCE"
  ELSE IF require_trading /\ check.trades = NoCount THEN "PROVIDER_UNAVAILABLE"
  ELSE IF require_trading /\ check.trades < rules.minimum_trades
       THEN "INSUFFICIENT_TRADING"
  ELSE "ELIGIBLE"
=============================================================================
