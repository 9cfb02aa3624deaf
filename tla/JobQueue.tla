------------------------------- MODULE JobQueue -------------------------------
(***************************************************************************)
(* What a job queue promises its producers and consumers                   *)
(* (core/queue/port.ts): a message handed to a consumer is with nobody     *)
(* else, is numbered 1, 2, ... on its deliveries, is settled once, and is  *)
(* not seen again when it is acknowledged or out of attempts.  What a      *)
(* consumer holds when it dies may be lost: the queue does not promise     *)
(* more, and the cleanup cron is what brings the work back.                *)
(***************************************************************************)
EXTENDS Integers

CONSTANTS Messages, MaxAttempts    \* attempts a message has, from 1

VARIABLES
  place,          \* unsent, queued, held, or ended: acked, dead, lost
  attempts        \* how often it has been delivered

vars == <<place, attempts>>

Init ==
  /\ place = [m \in Messages |-> "unsent"]
  /\ attempts = [m \in Messages |-> 0]

\* All of S go from one place to another.
Move(S, from, to) ==
  /\ S # {} /\ \A m \in S : place[m] = from
  /\ place' = [m \in Messages |-> IF m \in S THEN to ELSE place[m]]

Send(m) == Move({m}, "unsent", "queued") /\ UNCHANGED attempts

Deliver(S) ==
  /\ Move(S, "queued", "held")
  /\ attempts' = [m \in Messages |-> IF m \in S THEN attempts[m] + 1 ELSE attempts[m]]

Ack(m) == Move({m}, "held", "acked") /\ UNCHANGED attempts

\* Messages given back are delivered again, except after the last attempt.
Return(S) ==
  /\ \A m \in S : attempts[m] < MaxAttempts
  /\ Move(S, "held", "queued") /\ UNCHANGED attempts

DeadLetter(m) ==
  /\ attempts[m] = MaxAttempts
  /\ Move({m}, "held", "dead") /\ UNCHANGED attempts

Lose(S) == Move(S, "held", "lost") /\ UNCHANGED attempts

Next ==
  \/ \E m \in Messages : Send(m) \/ Ack(m) \/ DeadLetter(m)
  \/ \E S \in SUBSET Messages : Deliver(S) \/ Return(S) \/ Lose(S)

Spec == Init /\ [][Next]_vars

===============================================================================
