---------------------------- MODULE LossyChannel ----------------------------
(***************************************************************************)
(* What a bounded queue with one worker behind it promises: items leave in *)
(* the order they came, an item is put out at most Tries times, and only   *)
(* while it is at the head.  An item may be refused, given up or lost with *)
(* the process.  Others may write to the same output.                      *)
(***************************************************************************)
EXTENDS Naturals, Sequences

CONSTANTS
  Item,      \* what may be put in
  Foreign,   \* what others put out
  Tries      \* how often it is tried to put an item out

VARIABLES
  pending,   \* items accepted and not settled, oldest first
  tries,     \* attempts for the head so far
  out        \* everything put out

cvars == <<pending, tries, out>>

Init == pending = <<>> /\ tries = 0 /\ out = <<>>

\* A new item x enters (named by the state it leads to: Item may be infinite).
Put ==
  LET x == pending'[Len(pending')]
  IN  /\ pending' # <<>> /\ x \in Item
      /\ pending' = Append(pending, x)
      /\ UNCHANGED <<tries, out>>

\* An attempt puts the head out, or fails.
Attempt == out' \in {out, Append(out, Head(pending))}

\* An attempt after which the head is kept: another one is left.
Retry ==
  /\ pending # <<>> /\ tries + 1 < Tries
  /\ Attempt /\ tries' = tries + 1
  /\ UNCHANGED pending

\* An attempt after which the head is finished with, put out or given up.
Settle ==
  /\ pending # <<>> /\ tries < Tries /\ Attempt
  /\ pending' = Tail(pending) /\ tries' = 0

\* The process ends and takes the queue with it.
Lose == pending' = <<>> /\ tries' = 0 /\ UNCHANGED out

\* Somebody else puts something out.
Other ==
  LET x == out'[Len(out')]
  IN  /\ out' # <<>> /\ x \in Foreign
      /\ out' = Append(out, x)
      /\ UNCHANGED <<pending, tries>>

Next ==
  \/ Put
  \/ Retry
  \/ Settle
  \/ Lose
  \/ Other

Spec == Init /\ [][Next]_cvars
=============================================================================
