----------------------------- MODULE SerialQueue -----------------------------
(* What SingleThreadedSchedulerClient promises to those who add callbacks: *)
(* they "can behave as if they are executed in order by a single thread".  *)
EXTENDS Sequences

CONSTANTS Callback, NoCallback

VARIABLES
  pending,   \* added and not yet started, in the order they were added
  current,   \* the callback that runs, or NoCallback
  finished   \* in the order they ran

vars == <<pending, current, finished>>

Init == pending = <<>> /\ current = NoCallback /\ finished = <<>>

Enqueue(c) ==
  /\ pending' = Append(pending, c)
  /\ UNCHANGED <<current, finished>>

Start ==
  /\ current = NoCallback /\ pending # <<>>
  /\ current' = Head(pending)
  /\ pending' = Tail(pending)
  /\ UNCHANGED finished

Finish ==
  /\ current # NoCallback
  /\ finished' = Append(finished, current)
  /\ current' = NoCallback
  /\ UNCHANGED pending

Next == (\E c \in Callback : Enqueue(c)) \/ Start \/ Finish

Spec == Init /\ [][Next]_vars
=============================================================================
