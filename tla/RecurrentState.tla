--------------------------- MODULE RecurrentState ---------------------------
(***************************************************************************)
(* What the block-aligned ("align") Mamba state cache promises its         *)
(* scheduler, with no block in sight.  Every live request owns one         *)
(* recurrent state; the state has consumed exactly the tokens the          *)
(* scheduler counts as computed; a step advances both together.  States    *)
(* taken at multiples of BlockSize may be kept as checkpoints, and a later *)
(* request may start from any checkpoint instead of from nothing.          *)
(*                                                                         *)
(* MambaAlign implements this with block columns, speculative columns,     *)
(* copies across block boundaries and an accepted-token bias.              *)
(***************************************************************************)
EXTENDS Integers

CONSTANTS
  Requests,     \* request ids
  BlockSize,    \* tokens per Mamba block
  MaxTokens     \* bound on the tokens of one request

VARIABLES
  live,         \* the requests that own a state
  tokens,       \* tokens[r]: what the scheduler counts as computed
  state,        \* state[r]: tokens the recurrent state has consumed
  checkpoints   \* pairs <<label, content>> a later request may start from

absVars == <<live, tokens, state, checkpoints>>

Init ==
  /\ live = {}
  /\ tokens = [r \in Requests |-> 0]
  /\ state = [r \in Requests |-> 0]
  /\ checkpoints = {}

(* A request starts from nothing or from a checkpoint: the scheduler trusts *)
(* the label, the state is whatever the checkpoint holds.                   *)
Start(r) ==
  /\ r \notin live
  /\ \E c \in checkpoints \cup {<<0, 0>>} :
        /\ tokens' = [tokens EXCEPT ![r] = c[1]]
        /\ state' = [state EXCEPT ![r] = c[2]]
  /\ live' = live \cup {r}
  /\ UNCHANGED checkpoints

(* One engine step: live requests consume some tokens, and their states     *)
(* exactly as many as the scheduler counts.                                 *)
Advance ==
  /\ tokens' \in [Requests -> 0 .. MaxTokens]
  /\ \A r \in Requests : /\ tokens'[r] >= tokens[r]
                         /\ tokens'[r] > tokens[r] => r \in live
  /\ state' = [r \in Requests |-> state[r] + tokens'[r] - tokens[r]]
  /\ UNCHANGED <<live, checkpoints>>

(* Boundaries some live request has passed may be kept, each under its own *)
(* length and never under another.                                         *)
Checkpoint ==
  \E H \in SUBSET {h \in 1 .. MaxTokens :
                     h % BlockSize = 0 /\ \E r \in live : h <= tokens[r]} :
    /\ checkpoints' = checkpoints \cup {<<h, h>> : h \in H}
    /\ UNCHANGED <<live, tokens, state>>

(* Preemption or completion: the state is gone. *)
Drop(r) ==
  /\ r \in live
  /\ live' = live \ {r}
  /\ tokens' = [tokens EXCEPT ![r] = 0]
  /\ state' = [state EXCEPT ![r] = 0]
  /\ UNCHANGED checkpoints

Next ==
  \/ \E r \in Requests : Start(r) \/ Drop(r)
  \/ Advance
  \/ Checkpoint

Spec == Init /\ [][Next]_absVars
=============================================================================
