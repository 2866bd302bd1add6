-------------------------------- MODULE Fifo --------------------------------
(***************************************************************************)
(* What a graphsync write queue promises its owner, stated without buffers *)
(* and byte counters: messages leave in the order in which they were       *)
(* accepted, none is duplicated, and none is skipped unless the owner      *)
(* flushed the tail.  Once the channel is broken nothing more leaves it.   *)
(***************************************************************************)
EXTENDS Sequences

CONSTANT Messages

VARIABLES
  chan,     \* accepted messages that have not left yet, oldest first
  out,      \* messages that left, oldest first
  broken    \* a write failed or the owner gave the channel up

vars == <<chan, out, broken>>

Init ==
  /\ chan = <<>>
  /\ out = <<>>
  /\ broken = FALSE

Send(m) ==
  /\ ~broken
  /\ chan' = Append(chan, m)
  /\ UNCHANGED <<out, broken>>

Deliver ==
  /\ ~broken
  /\ chan # <<>>
  /\ out' = Append(out, Head(chan))
  /\ chan' = Tail(chan)
  /\ UNCHANGED broken

\* The message that is leaving cannot be recalled; the ones behind it can.
Flush ==
  /\ ~broken
  /\ chan # <<>>
  /\ chan' = <<Head(chan)>>
  /\ UNCHANGED <<out, broken>>

\* The last message may have left before the failure was noticed.
Break ==
  /\ ~broken
  /\ broken' = TRUE
  /\ chan' = <<>>
  /\ \/ out' = out
     \/ chan # <<>> /\ out' = Append(out, Head(chan))

Next ==
  \/ \E m \in Messages : Send(m)
  \/ Deliver
  \/ Flush
  \/ Break

Spec == Init /\ [][Next]_vars

=============================================================================
