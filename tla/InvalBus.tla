------------------------------ MODULE InvalBus ------------------------------
(***************************************************************************)
(* What shared cache invalidation promises to the backends: each one has a *)
(* queue of its own.  A posted message goes to every backend attached, a   *)
(* backend that asks is given its whole queue in order, and one that fell  *)
(* too far behind is told so instead.  That all of them share one chain of *)
(* MaxMessages entries is invisible.                                       *)
(***************************************************************************)
EXTENDS Naturals, Sequences

CONSTANTS Backend, Msg,
          MaxMessages,   \* a backend that has this many messages waiting
                         \* is overrun by the next
          Reset          \* what an overrun backend is given: forget it all

VARIABLES up,            \* the backends attached
          inbox,         \* the messages waiting for each
          overrun,       \* the backends that missed some
          got            \* what the backends were given in the last step

Init == /\ up = {} /\ overrun = {}
        /\ inbox = [b \in Backend |-> <<>>]
        /\ got = <<>>

Join(b) == /\ b \notin up
           /\ up' = up \cup {b}
           /\ got' = <<>> /\ UNCHANGED <<inbox, overrun>>

Leave(b) == /\ b \in up
            /\ up' = up \ {b}
            /\ overrun' = overrun \ {b}
            /\ inbox' = [inbox EXCEPT ![b] = <<>>]
            /\ got' = <<>>

Late == {b \in up : Len(inbox[b]) = MaxMessages}

Post(m) ==
  /\ overrun' = overrun \cup Late
  /\ inbox' = [b \in Backend |-> IF b \in up \ overrun' THEN Append(inbox[b], m)
                                 ELSE <<>>]
  /\ got' = <<>> /\ UNCHANGED up

Receive(b) ==
  /\ b \in up
  /\ got' = <<b, IF b \in overrun THEN Reset ELSE inbox[b]>>
  /\ inbox' = [inbox EXCEPT ![b] = <<>>]
  /\ overrun' = overrun \ {b}
  /\ UNCHANGED up

Next == \/ \E b \in Backend : Join(b) \/ Leave(b) \/ Receive(b)
        \/ \E m \in Msg : Post(m)

Spec == Init /\ [][Next]_<<up, inbox, overrun, got>>
=============================================================================
