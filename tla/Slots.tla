-------------------------------- MODULE Slots --------------------------------
(***************************************************************************)
(* What a page promises its users: a list of slots, each with an item, a   *)
(* dead item or nothing.  Where the items lie on the page is invisible.    *)
(* call is what the last caller asked for and the slot it was told.        *)
(***************************************************************************)
EXTENDS Naturals, Sequences, SequencesExt

CONSTANTS Content,      \* contents of items
          Dead, Free,   \* an item no longer used, and no item
          MaxAt         \* bound on the positions callers name

VARIABLES slots, call

vars == <<slots, call>>

\* A call: its name, the slot and the content it was given, and the slot it
\* answers, 0 for none.
Call(op, i, c, ret) == [op |-> op, at |-> i, item |-> c, ret |-> ret]
Done(op, i) == call' = Call(op, i, <<>>, i)

Init == slots = <<>> /\ call = Call("init", 0, <<>>, 0)

\* A slot that holds nothing, or the next one, comes to hold c.
Put(i, c) ==
  \/ i \in DOMAIN slots /\ slots[i] = Free /\ slots' = [slots EXCEPT ![i] = c]
  \/ i = Len(slots) + 1 /\ slots' = Append(slots, c)

\* The item goes where the answer says, and nothing happens without one.
Add(c, ret) ==
  /\ call' = Call("add", 0, c, ret)
  /\ IF ret = 0 THEN UNCHANGED slots ELSE Put(ret, c)

Overwrite(i, c, ret) ==
  /\ call' = Call("overwrite", i, c, ret)
  /\ \/ ret = 0 /\ UNCHANGED slots
     \/ ret = i /\ Put(i, c)

\* At position i, the later slots moving by one.
Insert(i, c) ==
  /\ call' = Call("insert", i, c, i)
  /\ i <= Len(slots) + 1
  /\ slots' = InsertAt(slots, i, c)

\* Without room for the item the slots have moved all the same: the one at i is
\* there twice, and the last is lost.
InsertFails(i, c) ==
  /\ call' = Call("insert", i, c, 0)
  /\ slots' = [j \in DOMAIN slots |-> IF j <= i THEN slots[j] ELSE slots[j - 1]]

\* The slots skipped by a position beyond the next hold anything.
Skip(i, c) ==
  /\ call' \in {Call("insert", i, c, i), Call("overwrite", i, c, i)}
  /\ i > Len(slots) + 1 /\ Len(slots') = i
  /\ SubSeq(slots', 1, Len(slots)) = slots
  /\ slots'[i] = c

Kill(i) ==
  /\ Done("kill", i)
  /\ slots[i] \notin {Dead, Free}
  /\ slots' = [slots EXCEPT ![i] = Dead]

Delete(i) ==
  /\ Done("delete", i)
  /\ slots[i] # Free
  /\ slots' = RemoveAt(slots, i)

Repair == Done("repair", 0) /\ slots' = ReplaceAll(slots, Dead, Free)

Mode == Done("mode", 0) /\ UNCHANGED slots

Empty == Done("init", 0) /\ slots' = <<>>

Next ==
  \/ Repair \/ Mode \/ Empty
  \/ \E i \in DOMAIN slots : Kill(i) \/ Delete(i)
  \/ \E c \in Content, i \in 0 .. MaxAt :
       \/ Add(c, i) \/ Skip(i, c)
       \/ i > 0 /\ (Insert(i, c) \/ InsertFails(i, c))
       \/ \E ret \in {0, i} : Overwrite(i, c, ret)

Spec == Init /\ [][Next]_vars
=============================================================================
