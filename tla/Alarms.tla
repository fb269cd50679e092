------------------------------- MODULE Alarms -------------------------------
(***************************************************************************)
(* What the events of the run-time promise (websStartEvent,                *)
(* websRestartEvent, websStopEvent, websRunEvents): each owner has at most *)
(* one alarm; it rings when its time has come and not before, and a        *)
(* ringing alarm is set again for a later time or is gone.                 *)
(***************************************************************************)
EXTENDS Integers

CONSTANTS Owners, MaxDelay, NoAlarm

VARIABLES due, time

AlarmVars == <<due, time>>

AlarmInit == due \in [Owners -> {NoAlarm} \cup 1 .. MaxDelay] /\ time = 0

\* websStartEvent.
Start(o) ==
  /\ due[o] = NoAlarm
  /\ \E d \in 1 .. MaxDelay : due' = [due EXCEPT ![o] = time + d]
  /\ UNCHANGED time

\* websStopEvent.
Stop(o) ==
  /\ due[o] # NoAlarm
  /\ due' = [due EXCEPT ![o] = NoAlarm]
  /\ UNCHANGED time

\* The alarm's procedure is called, and restarts it.
RingAgain(o) ==
  /\ due[o] # NoAlarm /\ due[o] <= time
  /\ \E d \in 1 .. MaxDelay : due' = [due EXCEPT ![o] = time + d]
  /\ UNCHANGED time

Pass == time' = time + 1 /\ UNCHANGED due

AlarmNext == Pass \/ \E o \in Owners : Start(o) \/ Stop(o) \/ RingAgain(o)

AlarmSpec == AlarmInit /\ [][AlarmNext]_AlarmVars
=============================================================================
