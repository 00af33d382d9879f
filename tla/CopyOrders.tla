---------------------------- MODULE CopyOrders ----------------------------
(***************************************************************************)
(* What one step of a request asks of the copy kernels of                  *)
(* mamba_utils_guarded.py, said without the kernels: the state a forward   *)
(* leaves, the block boundary its accepted tokens reach, and the column    *)
(* the next tokens take the state to.                                      *)
(*                                                                         *)
(* MambaAlign shows that the steps of its requests are among these;        *)
(* CopyGrid launches the kernels for any of them.                          *)
(***************************************************************************)
EXTENDS Integers

CONSTANTS
  BlockSize,   \* mamba_spec.block_size, tokens per block
  NumSpec,     \* longest draft
  MaxTokens    \* bound on the tokens of one request

Cdiv(n) == (n + BlockSize - 1) \div BlockSize

(* From c tokens: a decode step with its drafts, or a prompt chunk from a   *)
(* boundary.                                                                *)
Spans(c) == {n \in 1 .. MaxTokens - c : n <= NumSpec + 1 \/ c % BlockSize = 0}

Running(g) == g.computed + g.scheduled - g.draft
NewComputed(g) == Running(g) + g.accepted - 1
StateCol(g) == Cdiv(g.computed + g.scheduled) - 1

Steps ==
  {g \in [computed : 0 .. MaxTokens, scheduled : 1 .. MaxTokens,
          draft : 0 .. NumSpec, accepted : 1 .. NumSpec + 1] :
     /\ g.scheduled \in Spans(g.computed)
     /\ g.accepted <= g.draft + 1
     /\ g.draft > 0 => g.scheduled = 1 + g.draft}

(* The boundary a step's accepted tokens reach: its state lies that many    *)
(* tokens behind the running column and belongs in the column it completes. *)
Boundaries(g) == {n \in Running(g) .. NewComputed(g) : n % BlockSize = 0}
Saves(g) == {[src |-> StateCol(g), dst |-> n \div BlockSize - 1,
              bias |-> n - Running(g)] : n \in Boundaries(g)}
SavedInPlace(g) == \E m \in Saves(g) : m.src = m.dst

(* Where a request can stand before a step: new, or after another step; one *)
(* with a cached prefix stands where the step that cached it left off.      *)
Fresh == [idx |-> -1, computed |-> 0, accepted |-> 1]
LeftBy(g) == [idx |-> StateCol(g), computed |-> NewComputed(g),
              accepted |-> IF SavedInPlace(g) THEN 1 ELSE g.accepted]
Standing == {Fresh} \cup {LeftBy(g) : g \in Steps}

(* And where the next tokens take it. *)
Advances ==
  UNION {{[idx |-> w.idx, accepted |-> w.accepted, next |-> Cdiv(w.computed + n) - 1] :
            n \in Spans(w.computed)} : w \in Standing}
Moves(a) ==
  {m \in {[src |-> a.idx, dst |-> a.next, bias |-> a.accepted - 1]} :
     m.src >= 0 /\ m.src # m.dst}
=============================================================================
