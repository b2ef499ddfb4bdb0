---------------------------- MODULE OneShotPayment ----------------------------
(***************************************************************************)
(* What SecondSign promises an agent about one handle, with no threads,    *)
(* clocks, windows or stores: a handle is spent on one proposal, its       *)
(* payment is sent to the rail at most once, it may wait for a human while *)
(* nothing has been sent, and the answer it ends with is `completed`       *)
(* exactly when the rail said so.                                          *)
(***************************************************************************)
CONSTANTS Handles, Proposals, NoProposal

VARIABLES
    subject,   \* handle -> the proposal it was spent on
    sent,      \* handle -> what became of its payment
    answer     \* handle -> what the agent is told when it asks

vars == <<subject, sent, answer>>

Init ==
    /\ subject = [h \in Handles |-> NoProposal]
    /\ sent    = [h \in Handles |-> "no"]
    /\ answer  = [h \in Handles |-> "none"]

\* A handle takes its proposal in its first step and keeps it.
Binds(h, p) ==
    /\ subject[h] \in {NoProposal, p}
    /\ subject' = [subject EXCEPT ![h] = p]

Open(h) == sent[h] = "no" /\ answer[h] \in {"none", "awaiting_review"}

Hold(h, p) ==
    /\ Binds(h, p)
    /\ Open(h)
    /\ answer[h] = "none"
    /\ answer' = [answer EXCEPT ![h] = "awaiting_review"]
    /\ UNCHANGED sent

Refuse(h, p) ==
    /\ Binds(h, p)
    /\ Open(h)
    /\ answer' = [answer EXCEPT ![h] = "refused"]
    /\ UNCHANGED sent

Send(h, p) ==
    /\ Binds(h, p)
    /\ Open(h)
    /\ sent' = [sent EXCEPT ![h] = "inflight"]
    /\ UNCHANGED answer

Conclude(h, status) ==
    /\ sent[h] = "inflight"
    /\ sent' = [sent EXCEPT ![h] = status]
    /\ answer' = [answer EXCEPT ![h] =
                     IF status = "success" THEN "completed" ELSE "refused"]
    /\ UNCHANGED subject

Next ==
    \E h \in Handles :
        \/ \E p \in Proposals : Hold(h, p) \/ Refuse(h, p) \/ Send(h, p)
        \/ \E status \in {"success", "failure", "unknown"} : Conclude(h, status)

Spec == Init /\ [][Next]_vars
=============================================================================
