------------------------------ MODULE MCTerms ------------------------------
(* An instance of the two judges for TLC. *)
EXTENDS Enforcement

CONSTANTS dex, usdc, swap, approve, shop, other

\* Terms with every optional one left out.
Bare == [pays |-> FALSE, period |-> {}, seconds |-> 0, lifetime |-> {},
         contract |-> FALSE, targets |-> {}, methods |-> {}, tokens |-> {},
         perTrade |-> {}, expiry |-> {}, uses |-> {}, perTx |-> {}, merchants |-> {}]

Weekly(n) == [Bare EXCEPT !.pays = TRUE, !.period = {n}, !.seconds = 2]

Trader == [Bare EXCEPT !.contract = TRUE, !.targets = {dex}, !.methods = {swap}]

Roots == {[Weekly(4) EXCEPT !.uses = {2}],
          [Weekly(3) EXCEPT !.expiry = {3}, !.merchants = {shop}, !.perTx = {2}],
          [Bare EXCEPT !.pays = TRUE, !.lifetime = {4}],
          [Trader EXCEPT !.tokens = {usdc}, !.perTrade = {1}, !.uses = {1}],
          [Trader EXCEPT !.pays = TRUE, !.period = {3}, !.seconds = 2, !.uses = {2}]}

\* What an agent asks of its sub-card: everything inherited, less, or too much.
Requests == {Bare, Weekly(2), Trader,
             [Weekly(4) EXCEPT !.seconds = 1, !.uses = {3}],
             [Bare EXCEPT !.expiry = {4}, !.merchants = {other}, !.perTx = {1}],
             [Bare EXCEPT !.pays = TRUE, !.lifetime = {2}, !.merchants = {shop}],
             [Trader EXCEPT !.tokens = {usdc}],
             [Trader EXCEPT !.methods = {approve}, !.perTrade = {2}, !.uses = {1}]}
=============================================================================
