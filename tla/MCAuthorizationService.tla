------------------------ MODULE MCAuthorizationService ------------------------
(***************************************************************************)
(* Small instances of AuthorizationService for TLC.                        *)
(***************************************************************************)
EXTENDS AuthorizationService, TLC

Request(action, rail_, currency, amount) ==
    [action |-> action, rail |-> rail_, currency |-> currency,
     account |-> "acct", amount |-> amount]

MCCurrencies == {"USD", "EUR"}
MCAccounts   == {"acct"}
MCCovered    == {"USD"}

\* A cap of 3 and no review band, and a cap of 3 with a band above 1.
Limit(review) == [currency |-> "USD", cap |-> 3, review |-> review,
                  window |-> WindowSeconds]
NoBand   == {Limit(3)}
WithBand == {Limit(1)}

Small == Request("payment", "card", "USD", 1)
Large == Request("payment", "card", "USD", 2)

\* Two amounts: 1 and 2 fit the cap together, 2 and 2 do not.
TwoAmounts == {Small, Large}

\* One amount: each needs a human, and both together are over the cap.
OneAmount == {Large}

\* The two, and one that no intent can be completed from.
WithUnmappable == {Small, Large, Request("trade", "card", "USD", 1)}

Symmetry == Permutations(Workers) \cup Permutations(Handles)
=============================================================================
