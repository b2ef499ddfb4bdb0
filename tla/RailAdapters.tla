------------------------------ MODULE RailAdapters ------------------------------
(***************************************************************************)
(* How a rail's tool call becomes an intent or a rejection, and the kit    *)
(* that certifies an adapter for it.  No state lives here.                 *)
(*                                                                         *)
(* A call's references, window, payload and the name of its currency are   *)
(* its `content`: an adapter carries them over and looks at none, so an    *)
(* opaque value stands for them all.  The key is a hash of the whole call  *)
(* under the adapter's name, and is taken to be that pair.                 *)
(***************************************************************************)
EXTENDS Naturals, Sequences

CONSTANTS
    Content,        \* what a call carries and no adapter looks at
    Amounts,        \* integer minor units
    Ages,           \* seconds, of quotes
    MAX_QUOTE_AGE   \* the oldest quote that is still traded on

ASSUME RailAdaptersAssumption ==
    /\ Amounts \subseteq Nat
    /\ Ages \subseteq Nat
    /\ MAX_QUOTE_AGE \in Nat

\* SourceTrust, in the declaration's order, which is trust_rank.
SourceTrust == <<"untrusted_data", "mixed", "unknown", "trusted_instruction">>
TrustRanks  == DOMAIN SourceTrust

RejectCode == {"unsupported_action", "unsupported_currency", "malformed_call",
               "outside_supported_limits", "market_closed", "stale_quote"}

MarketSession == {"not_applicable", "open", "closed", "pre_market", "post_market", "halted"}
RailClass == {"card", "bank_transfer", "wallet", "brokerage", "other"}

StripeCall == [content: Content, declared_trust: TrustRanks, amount: Amounts,
               supported: BOOLEAN]

\* The model's validator orders the band; a limit order has a limit price.
AlpacaCall == {c \in [content: Content, declared_trust: TrustRanks, lower: Amounts,
                      upper: Amounts, session: MarketSession,
                      quote_age: Ages, limit_order: BOOLEAN, priced: BOOLEAN] :
                  c.lower <= c.upper}

Rejects(code) == [rejected |-> code]

Intent(rail, call, lower, upper) ==
    [rail |-> rail, content |-> call.content, lower |-> lower, upper |-> upper,
     reversibility |-> "irreversible", trust |-> call.declared_trust,
     key |-> <<rail, call>>]

\* A zero-value charge is no payment.
StripeDerives(call) ==
    IF call.amount = 0 THEN Rejects("malformed_call")
    ELSE IF ~call.supported THEN Rejects("unsupported_currency")
    ELSE Intent("card", call, call.amount, call.amount)

AlpacaDerives(call) ==
    IF call.session # "open" THEN Rejects("market_closed")
    ELSE IF call.quote_age > MAX_QUOTE_AGE THEN Rejects("stale_quote")
    ELSE IF call.limit_order # call.priced THEN Rejects("malformed_call")
    ELSE Intent("brokerage", call, call.lower, call.upper)

IsIntent(x) == "key" \in DOMAIN x

-----------------------------------------------------------------------------
\* RailAdapterConformance over an adapter [rail_class, derives, alters] and its
\* corpus of calls; what it derives the second time is a function of its own.
DeclaresTheRailClassItServes(a) == a.rail_class \in RailClass

DeriveReturnsAnIntentOrAReject(a) ==
    \A c \in a.valid_calls : IsIntent(a.derives[c]) \/ a.derives[c].rejected \in RejectCode

EveryValidCallMapsToAnIntent(a) == \A c \in a.valid_calls : IsIntent(a.derives[c])

IntentsCarryTheDeclaredRailClass(a) ==
    \A c \in a.valid_calls : a.derives[c].rail = a.rail_class

TheKeyCannotBeSuppliedByTheCaller(a) ==
    \A c \in a.valid_calls : "idempotency_key" \notin DOMAIN c

TheKeyIsDerivedAndNonEmpty(a) == \A c \in a.valid_calls : a.derives[c].key # ""

DerivationIsDeterministic(a) == \A c \in a.valid_calls : a.derives[c] = a.again[c]

DoesNotMutateTheCall(a) == a.alters \cap a.valid_calls = {}

SourceTrustIsNeverUpgraded(a) ==
    \A c \in a.valid_calls : a.derives[c].trust <= c.declared_trust

CertifiedAdapter(a) ==
    /\ DeclaresTheRailClassItServes(a)
    /\ DeriveReturnsAnIntentOrAReject(a)
    /\ EveryValidCallMapsToAnIntent(a)
    /\ IntentsCarryTheDeclaredRailClass(a)
    /\ TheKeyCannotBeSuppliedByTheCaller(a)
    /\ TheKeyIsDerivedAndNonEmpty(a)
    /\ DerivationIsDeterministic(a)
    /\ DoesNotMutateTheCall(a)
    /\ SourceTrustIsNeverUpgraded(a)

\* The two shipped adapters, over a corpus.  The code looks at nothing but the
\* call, so what is derived again is the same.
Adapter(rail_class, derives, calls) ==
    [rail_class |-> rail_class, derives |-> derives, again |-> derives, alters |-> {},
     valid_calls |-> calls]

StripeAdapter(calls) ==
    Adapter("card", [c \in StripeCall |-> StripeDerives(c)], calls)

AlpacaAdapter(calls) ==
    Adapter("brokerage", [c \in AlpacaCall |-> AlpacaDerives(c)], calls)
=============================================================================
