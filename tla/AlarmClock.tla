----------------------------- MODULE AlarmClock -----------------------------
(***************************************************************************)
(* What the services may assume of skynet_timeout: an alarm rings in the   *)
(* tick it was set for, alarms of the same tick ring in the order in which *)
(* they were set, and every alarm rings.  TimerWheel is shown to implement *)
(* this module.                                                            *)
(***************************************************************************)
EXTENDS Naturals, Sequences

CONSTANTS
  Alarm,              \* names of alarms, free again after they rang
  Ticks               \* the clock counts modulo Ticks

VARIABLES
  now,                \* the current tick
  due,                \* due[a]: the tick in which a rings
  pending             \* the alarms that have not rung, oldest first

clockVars == <<now, due, pending>>

Pending == {pending[i] : i \in DOMAIN pending}

Init == now = 0 /\ due = [a \in Alarm |-> 0] /\ pending = <<>>

\* An alarm is set for a tick in the nearer half of the circle of ticks.
Set(a) ==
  /\ a \notin Pending
  /\ \E delay \in 1..(Ticks \div 2 - 1) :
       due' = [due EXCEPT ![a] = (now + delay) % Ticks]
  /\ pending' = Append(pending, a)
  /\ UNCHANGED now

\* The oldest of the alarms that are due rings.
Ring(a) ==
  /\ a \in Pending /\ due[a] = now
  /\ LET first == CHOOSE i \in DOMAIN pending :
                    due[pending[i]] = now /\ \A k \in 1..(i - 1) : due[pending[k]] # now
     IN /\ pending[first] = a
        /\ pending' = [i \in 1..(Len(pending) - 1) |->
                         IF i < first THEN pending[i] ELSE pending[i + 1]]
  /\ due' = [due EXCEPT ![a] = 0]
  /\ UNCHANGED now

\* The clock does not pass over an alarm.
Tick ==
  /\ \A a \in Pending : due[a] # now
  /\ now' = (now + 1) % Ticks
  /\ UNCHANGED <<due, pending>>

Next == Tick \/ \E a \in Alarm : Set(a) \/ Ring(a)

Fairness == WF_clockVars(Tick) /\ \A a \in Alarm : WF_clockVars(Ring(a))

\* An alarm rings when it shall, if it rings.
Timely == Init /\ [][Next]_clockVars

Spec == Timely /\ Fairness
=============================================================================
