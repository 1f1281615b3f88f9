------------------------ MODULE MCMembershipMonitor ------------------------
(***************************************************************************)
(* Small instances of MembershipMonitor.  Grace is a day.                  *)
(***************************************************************************)
EXTENDS MembershipMonitor, TLC

MCPrograms == [m \in Markets |-> [minimum_balance |-> 1, minimum_trades |-> 1, grace |-> 1]]
NoGrace == [m \in Markets |-> [MCPrograms[m] EXCEPT !.grace = 0]]

Outage  == [answered |-> FALSE, registered |-> FALSE, deposit |-> 0, trades |-> NoCount]
Good    == [answered |-> TRUE, registered |-> TRUE, deposit |-> 1, trades |-> 1]
Lazy    == [answered |-> TRUE, registered |-> TRUE, deposit |-> 1, trades |-> 0]

\* Lazy qualifies at signup and fails the sweep.
MCChecks == {Outage, Good, Lazy}
FailingChecks == {Lazy}

\* The instances run the same code, and the markets have the same program.
AnyInstanceAnyMarket == Permutations(Instances) \cup Permutations(Markets)
=============================================================================
