------------------------------ MODULE Relations ------------------------------
(***************************************************************************)
(* What a storage manager promises the buffer manager: a relation is an    *)
(* array of pages that grows at its end.  Files, segments and cached       *)
(* lengths are invisible.                                                  *)
(***************************************************************************)
EXTENDS Integers, Sequences

CONSTANTS Rel,          \* relations
          Page, Zero,   \* page contents, and the zero page
          Absent,       \* the value of a relation that does not exist
          Ok, Fail,     \* results
          MaxBlocks     \* bound on the length of a relation

VARIABLES pages,   \* relation -> Absent or its pages
          call,    \* the last call and its arguments
          out      \* its result

vars == <<pages, call, out>>

Init == /\ pages = [r \in Rel |-> Absent]
        /\ call = <<"other">>
        /\ out = Ok

Exists(r) == pages[r] # Absent

\* An empty relation passes for a new one.
Create(r) ==
  /\ call' = <<"create", r>> /\ out' = Ok
  /\ ~ Exists(r) \/ pages[r] = <<>>
  /\ pages' = [pages EXCEPT ![r] = <<>>]

Open(r) ==
  /\ call' = <<"open", r>> /\ out' = Ok
  /\ pages' = [pages EXCEPT ![r] = IF Exists(r) THEN @ ELSE <<>>]

Unlink(r) ==
  /\ call' = <<"unlink", r>> /\ out' = Ok
  /\ Exists(r)
  /\ pages' = [pages EXCEPT ![r] = Absent]

Extend(r) ==
  /\ call' = <<"extend", r>> /\ out' = Ok
  /\ Exists(r)
  /\ pages' = [pages EXCEPT ![r] = Append(@, Zero)]

Write(r, b, x) ==
  /\ call' = <<"write", r, b, x>> /\ out' = Ok
  /\ Exists(r) /\ b < Len(pages[r])
  /\ pages' = [pages EXCEPT ![r][b + 1] = x]

\* The block after the last reads as a zero page.
Read(r, b) ==
  /\ call' = <<"read", r, b>>
  /\ Exists(r) /\ b <= Len(pages[r])
  /\ out' = IF b < Len(pages[r]) THEN pages[r][b + 1] ELSE Zero
  /\ UNCHANGED pages

Count(r) ==
  /\ call' = <<"count", r>>
  /\ Exists(r) /\ out' = Len(pages[r])
  /\ UNCHANGED pages

\* The relation is cut to n blocks or left as it is, and the answer says which.
Truncate(r, n) ==
  /\ call' = <<"truncate", r, n>>
  /\ Exists(r) /\ n <= Len(pages[r])
  /\ out' \in {n, Len(pages[r])}
  /\ pages' = [pages EXCEPT ![r] = SubSeq(@, 1, out')]

\* A call that fails changes nothing.
Fails(r) ==
  /\ out' = Fail
  /\ \/ call' \in {<<"create", r>>, <<"extend", r>>}
     \/ \E b \in 0 .. MaxBlocks - 1, x \in Page : call' = <<"write", r, b, x>>
  /\ UNCHANGED pages

\* Nor does one that concerns files only: a close, a sync, a commit.
Other == call' = <<"other">> /\ out' = Ok /\ UNCHANGED pages

Next ==
  \/ Other
  \/ \E r \in Rel :
       \/ Create(r) \/ Open(r) \/ Unlink(r) \/ Extend(r) \/ Count(r) \/ Fails(r)
       \/ \E n \in 0 .. MaxBlocks : Truncate(r, n)
       \/ \E b \in 0 .. MaxBlocks - 1 :
            Read(r, b) \/ \E x \in Page : Write(r, b, x)

Spec == Init /\ [][Next]_vars
=============================================================================
