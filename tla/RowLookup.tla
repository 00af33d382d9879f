----------------------------- MODULE RowLookup -----------------------------
(***************************************************************************)
(* What the PLE lookup promises to the model: every lookup is answered,    *)
(* once, in the order of the calls, with the rows of its ids.              *)
(***************************************************************************)
EXTENDS Sequences

CONSTANT Requests    \* sequences of row ids a lookup may ask for

VARIABLES
  asked,     \* lookups not answered yet, oldest first
  answer     \* the latest answer: a lookup's ids and the rows it got

absVars == <<asked, answer>>

Init == asked = <<>> /\ answer = [ids |-> <<>>, rows |-> <<>>]

Ask(r) == asked' = Append(asked, r) /\ UNCHANGED answer

(* The content of a row is its id. *)
Reply ==
  /\ asked # <<>>
  /\ asked' = Tail(asked)
  /\ answer' = [ids |-> Head(asked), rows |-> Head(asked)]

Next == (\E r \in Requests : Ask(r)) \/ Reply

Spec == Init /\ [][Next]_absVars
=============================================================================
