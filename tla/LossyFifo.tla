----------------------------- MODULE LossyFifo -----------------------------
(***************************************************************************)
(* What the event path promises, with no ring buffer, no readiness and no  *)
(* task in it: OOM kills are numbered in the order they happen; each one   *)
(* is accepted into a queue or lost on the spot; what was accepted is      *)
(* delivered once, in order, for as long as the consumer runs.             *)
(***************************************************************************)
EXTENDS Naturals, Sequences

VARIABLES
  kills,      \* how many kills there have been; a kill is named by its number
  queue,      \* accepted kills that have not been delivered
  delivered,  \* what the consumer has been handed
  stopped     \* the consumer has given up

vars == <<kills, queue, delivered, stopped>>

Init ==
  /\ kills = 0
  /\ queue = <<>>
  /\ delivered = <<>>
  /\ stopped = FALSE

Accept ==
  /\ kills' = kills + 1
  /\ queue' = Append(queue, kills')
  /\ UNCHANGED <<delivered, stopped>>

Lose ==
  /\ kills' = kills + 1
  /\ UNCHANGED <<queue, delivered, stopped>>

Deliver ==
  /\ ~stopped
  /\ queue # <<>>
  /\ delivered' = Append(delivered, Head(queue))
  /\ queue' = Tail(queue)
  /\ UNCHANGED <<kills, stopped>>

Stop ==
  /\ ~stopped
  /\ stopped' = TRUE
  /\ UNCHANGED <<kills, queue, delivered>>

Next == Accept \/ Lose \/ Deliver \/ Stop

Spec == Init /\ [][Next]_vars /\ WF_vars(Deliver)

=============================================================================
