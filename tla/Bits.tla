-------------------------------- MODULE Bits --------------------------------
(***************************************************************************)
(* What a bitmap promises: a string of bits that grows at its end and      *)
(* whose bits can be set.  Words, fills and the active word are invisible. *)
(* call is what the last caller asked for: every call does that and        *)
(* nothing else.                                                           *)
(***************************************************************************)
EXTENDS Naturals, Sequences, SequencesExt

CONSTANTS WordLen,   \* bits of a word
          MaxBits    \* bound on the length

VARIABLES bits, call

vars == <<bits, call>>

Bit == {0, 1}

\* A call: its name, the bits it was given, and a number.
Call(op, x, n) == [op |-> op, bits |-> x, n |-> n]

Init == bits = <<>> /\ call = Call("make", <<>>, 0)

\* The bits x, n times.
Times(x, n) == FlattenSeq([i \in 1 .. n |-> x])

AppendTimes(x, n) ==
  /\ call' = Call("append", x, n)
  /\ bits' = bits \o Times(x, n)

\* Zeros up to length n.
Adjust(n) ==
  /\ call' = Call("adjust", <<>>, n)
  /\ bits' = IF n > Len(bits) THEN bits \o Times(<<0>>, n - Len(bits)) ELSE bits

\* Bit i, from 0, if there is one.
Set(i) ==
  /\ call' = Call("set", <<>>, i)
  /\ bits' = IF i < Len(bits) THEN [bits EXCEPT ![i + 1] = 1] ELSE bits

Pack ==
  /\ call' = Call("pack", <<>>, 0)
  /\ UNCHANGED bits

Next ==
  \/ Pack
  \/ \E n \in 0 .. MaxBits :
       \/ Adjust(n) \/ Set(n)
       \/ \E x \in [1 .. 1 -> Bit] \cup [1 .. WordLen -> Bit] :
            AppendTimes(x, n)

Spec == Init /\ [][Next]_vars
=============================================================================
