---------------------------- MODULE CheckSession ----------------------------
(* What CCheckQueueControl promises to ConnectBlock: one session at a time *)
(* and, from Wait(), the conjunction of the checks added in this session.  *)
EXTENDS Naturals

CONSTANTS Master, NoThread

VARIABLES
  control,   \* the owner of ControlMutex
  stage,     \* of each master: outside, adding, waiting, or back from Wait()
  verdict,   \* conjunction of the checks added so far
  result     \* what Wait() returned

vars == <<control, stage, verdict, result>>

Init ==
  /\ control = NoThread
  /\ stage = [m \in Master |-> "outside"]
  /\ verdict = TRUE
  /\ result = TRUE

Begin(m) ==
  /\ control = NoThread /\ stage[m] = "outside"
  /\ control' = m
  /\ stage' = [stage EXCEPT ![m] = "adding"]
  /\ verdict' = TRUE
  /\ UNCHANGED result

Add(m) ==
  /\ stage[m] = "adding"
  /\ \E v \in BOOLEAN : verdict' = (verdict /\ v)
  /\ UNCHANGED <<control, stage, result>>

Wait(m) ==
  /\ stage[m] = "adding"
  /\ stage' = [stage EXCEPT ![m] = "waiting"]
  /\ UNCHANGED <<control, verdict, result>>

Return(m) ==
  /\ stage[m] = "waiting"
  /\ stage' = [stage EXCEPT ![m] = "back"]
  /\ result' = verdict
  /\ UNCHANGED <<control, verdict>>

End(m) ==
  /\ stage[m] = "back"
  /\ stage' = [stage EXCEPT ![m] = "outside"]
  /\ control' = NoThread
  /\ UNCHANGED <<verdict, result>>

Next == \E m \in Master : Begin(m) \/ Add(m) \/ Wait(m) \/ Return(m) \/ End(m)

Spec == Init /\ [][Next]_vars
=============================================================================
