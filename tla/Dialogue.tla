------------------------------ MODULE Dialogue ------------------------------
(***************************************************************************)
(* What the conversation state of the assistant (assistant.rs) promises    *)
(* its user: a history of exchanges that only grows, each the answer to    *)
(* the one question that was open, and an open question that ends answered *)
(* or abandoned.                                                           *)
(***************************************************************************)
EXTENDS Sequences

CONSTANT Questions

VARIABLES
    history,   \* the questions answered so far, in order
    open       \* {}, or the question under way

DialogueInit == history = <<>> /\ open = {}

Ask ==
    /\ open = {}
    /\ open' \in {{q} : q \in Questions}
    /\ UNCHANGED history

Answer ==
    /\ \E q \in open : history' = Append(history, q)
    /\ open' = {}

Abandon ==
    /\ open # {}
    /\ open' = {}
    /\ UNCHANGED history

DialogueSpec ==
    DialogueInit /\ [][Ask \/ Answer \/ Abandon]_<<history, open>>
=============================================================================
