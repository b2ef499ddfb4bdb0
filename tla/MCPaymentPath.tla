----------------------------- MODULE MCPaymentPath -----------------------------
(***************************************************************************)
(* Small instances of PaymentPath for TLC.                                 *)
(***************************************************************************)
EXTENDS PaymentPath, TLC

\* The kit certifies the shipped client and the minimal example.
ASSUME KitCertifies == \A d \in {"shipped", "minimal"} : Certified(Client(d))

\* The shipped client relays nothing but the gateway's own answers.
ASSUME OnlyTheGatewayIsRelayed ==
    \A a \in Answer : GatewayClientReads(a) # "refused" => FromGateway(a)

\* A bound: a life that lost a receipt is not followed past its crash, and the
\* second life not past the loss of its first.
LossesEndTheRun == raised # {} => life = 1

Symmetry == Permutations(Conns) \cup Permutations(Proposals)
=============================================================================
