------------------------------ MODULE Bitunix ------------------------------
(***************************************************************************)
(* What the Bitunix adapter (app/adapters/providers/bitunix.py) makes of   *)
(* the exchange's reply: a check for the referral rule.                    *)
(*                                                                         *)
(* The body of a reply is "unusable" after a network error, a timeout, an  *)
(* error status or a text that is no JSON, "foreign" when it is JSON but   *)
(* not an object, "odd" when its `result` is not an object, and "result"   *)
(* otherwise.  Then `registered` says whether the inner result is `true`,  *)
(* and `deposit` has the three funding amounts.                            *)
(***************************************************************************)
EXTENDS Eligibility

DepositFields == {"Onchain", "Internal", "OTC"}

\* A field that is absent, empty or no number.
NoAmount == -1

to_decimal(value) == IF value = NoAmount THEN 0 ELSE value

\* ProviderUnavailableError: "we could not tell".
Unavailable ==
  [answered |-> FALSE, registered |-> FALSE, deposit |-> 0, trades |-> NoCount]

\* _parse: the sum of the three, and no count of trades.
Parsed(reply) ==
  LET amount(field) == to_decimal(reply.deposit[field])
  IN  [answered |-> TRUE, registered |-> reply.registered,
       deposit |-> amount("Onchain") + amount("Internal") + amount("OTC"),
       trades |-> NoCount]

\* _parse asks a body that is no object for its `result`: an AttributeError, which
\* is no ProviderUnavailableError and leaves submit_uid and the sweep.
Raises(reply) == reply.body = "foreign"

\* The check, where there is one (~Raises).
validate_user(reply) == IF reply.body = "result" THEN Parsed(reply) ELSE Unavailable
=============================================================================
