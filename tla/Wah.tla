--------------------------------- MODULE Wah ---------------------------------
(***************************************************************************)
(* Word-aligned hybrid bitmaps (backend/main/bitmap.c).  A bitmap is a     *)
(* vector of words of MAXBITS bits and an active word of fewer.  A word is *)
(* a literal, or a fill that stands for cnt words of equal bits.           *)
(*                                                                         *)
(* A word is [fill, val, cnt]: val holds its bits, the most significant    *)
(* one first, and cnt is 1 in a literal; it stands for cnt copies of val.  *)
(* The active word is the sequence of its bits.                            *)
(***************************************************************************)
EXTENDS Integers, Sequences, FiniteSets, SequencesExt

CONSTANTS
  MAXBITS,    \* bits of a word
  MaxBits,    \* bound: bits of a bitmap
  MaxRuns     \* bound: runs of equal bits in a second operand

ASSUME WahAssumption ==
  /\ MAXBITS \in Nat \ {0, 1}
  /\ MaxBits \in Nat /\ MaxRuns \in Nat

VARIABLES
  bmp,    \* the bitmap
  call    \* the last call: its name, the bits it was given, and a number

vars == <<bmp, call>>

Bit == {0, 1}
Copies(v, n) == [i \in 1 .. n |-> v]
Literal(x) == [fill |-> FALSE, val |-> x, cnt |-> 1]
Fill(v, n) == [fill |-> TRUE, val |-> Copies(v, MAXBITS), cnt |-> n]
Uniform(x) == \A i \in DOMAIN x : x[i] = x[1]
Pointwise2(op, x, y) == [i \in DOMAIN x |-> op[x[i], y[i]]]

makeBitmap == [vec |-> <<>>, active |-> <<>>, nbits |-> 0]

-----------------------------------------------------------------------------
(* Appending.                                                              *)

\* Add n to the counter of the top, if that is a fill of v, or push one.
PushFill(vec, v, n) ==
  IF vec # <<>> /\ Last(vec).fill /\ Last(vec).val[1] = v
  THEN [vec EXCEPT ![Len(vec)].cnt = @ + n]
  ELSE Append(vec, Fill(v, n))

\* Mutant: the bits of a fill are counted as one word.
appendCounter_Mutant(b, v, n) ==
  [b EXCEPT !.vec = PushFill(@, v, n), !.nbits = @ + MAXBITS]

appendCounter(b, v, n) ==
  [b EXCEPT !.vec = PushFill(@, v, n), !.nbits = @ + n * MAXBITS]

\* Mutant: a word of equal bits is pushed without a look at the top.
appendActive_Mutant(b) ==
  [vec |-> Append(b.vec, IF Uniform(b.active) THEN Fill(b.active[1], 1)
                         ELSE Literal(b.active)),
   active |-> <<>>,
   nbits |-> b.nbits + MAXBITS]

\* The active word is full.
appendActive(b) ==
  [vec |-> IF Uniform(b.active) THEN PushFill(b.vec, b.active[1], 1)
           ELSE Append(b.vec, Literal(b.active)),
   active |-> <<>>,
   nbits |-> b.nbits + MAXBITS]

CounterIfAny(b, v, n) == IF n > 0 THEN appendCounter(b, v, n) ELSE b

\* Mutant: the two parts of the word are exchanged.
appendWord_Mutant(b, w) ==
  LET nb1 == Len(b.active)
      nb2 == MAXBITS - nb1
      full == appendActive([b EXCEPT !.active =
                              @ \o SubSeq(w.val, nb1 + 1, MAXBITS)])
      next == IF w.fill THEN CounterIfAny(full, w.val[1], w.cnt - 1) ELSE full
  IN  IF nb1 > 0
      THEN [next EXCEPT !.active = SubSeq(w.val, 1, nb1)]
      ELSE IF w.fill THEN CounterIfAny(b, w.val[1], w.cnt)
      ELSE appendActive([b EXCEPT !.active = w.val])

\* Word w across the words of b: its first bits complete the active word, and
\* its last nb1 bits are the next one.
appendWord(b, w) ==
  LET nb1 == Len(b.active)
      nb2 == MAXBITS - nb1
      full == appendActive([b EXCEPT !.active = @ \o SubSeq(w.val, 1, nb2)])
      next == IF w.fill THEN CounterIfAny(full, w.val[1], w.cnt - 1) ELSE full
  IN  IF nb1 > 0
      THEN [next EXCEPT !.active = SubSeq(w.val, nb2 + 1, MAXBITS)]
      ELSE IF w.fill THEN CounterIfAny(b, w.val[1], w.cnt)
      ELSE appendActive([b EXCEPT !.active = w.val])

FlushIfFull(b) == IF Len(b.active) = MAXBITS THEN appendActive(b) ELSE b

\* First what completes the active word, then whole words, then the rest.
appendBits(b, v, n) ==
  LET gap == IF b.active = <<>> THEN 0 ELSE MAXBITS - Len(b.active)
      t == IF gap > n THEN n ELSE gap
      a == FlushIfFull([b EXCEPT !.active = @ \o Copies(v, t)])
      c == CounterIfAny(a, v, (n - t) \div MAXBITS)
      rest == (n - t) % MAXBITS
  IN  IF rest > 0 THEN [c EXCEPT !.active = Copies(v, rest)] ELSE c

appendOneBit(b, v) == FlushIfFull([b EXCEPT !.active = Append(@, v)])

-----------------------------------------------------------------------------
(* Sizes and conversions.                                                  *)

do_cnt(b) ==
  FoldLeft(LAMBDA n, w : n + w.cnt * MAXBITS, 0, b.vec) + Len(b.active)

bitmapSize(b) ==
  LET sz == b.nbits + Len(b.active) IN IF sz < do_cnt(b) THEN sz ELSE do_cnt(b)

\* Words of equal bits become fills, and fills that meet become one.
compress(b) ==
  [b EXCEPT !.vec =
     FoldLeft(LAMBDA vec, w : IF Uniform(w.val)
                              THEN PushFill(vec, w.val[1], w.cnt)
                              ELSE Append(vec, w),
              <<>>, @)]

decompress(b) ==
  [b EXCEPT !.vec =
     FoldLeft(LAMBDA vec, w : vec \o Copies(Literal(w.val), w.cnt), <<>>, @)]

adjustSize(b, n) ==
  LET sz == b.nbits + Len(b.active)
  IN  IF sz < n THEN appendBits(b, 0, n - sz) ELSE b

\* Bit i, from 0, of a bitmap without fills.
setBitBitmap(b, i) ==
  LET nw == i \div MAXBITS
      bit == i % MAXBITS
  IN  IF i >= bitmapSize(b) THEN b
      ELSE IF nw < Len(b.vec) THEN [b EXCEPT !.vec[nw + 1].val[bit + 1] = 1]
      ELSE [b EXCEPT !.active[bit + 1] = 1]

-----------------------------------------------------------------------------
(* Combining two bitmaps of the same size.                                 *)

And == [u, v \in Bit |-> IF u < v THEN u ELSE v]
Or == [u, v \in Bit |-> IF u > v THEN u ELSE v]

\* Mutant: a fill is used up at once.
Consume_Mutant(xs, n) == Tail(xs)

\* n words of the first word of xs are used up.
Consume(xs, n) ==
  IF Head(xs).cnt = n THEN Tail(xs)
  ELSE [xs EXCEPT ![1].cnt = @ - n]

\* A fill u meets a literal y: u decides, or y does.
FillMeets(r, op, u, y) ==
  IF op[u, 0] = op[u, 1] THEN appendCounter(r, op[u, 0], 1)
  ELSE appendWord(r, y)

\* One turn of the loop: the words left of both operands, and the result.
Turn(t, op) ==
  LET x == Head(t.xs)
      y == Head(t.ys)
      n == IF x.cnt > y.cnt THEN y.cnt ELSE x.cnt
  IN  IF t.xs = <<>> \/ t.ys = <<>> THEN t
      ELSE IF ~ x.fill /\ ~ y.fill
      THEN [xs |-> Tail(t.xs), ys |-> Tail(t.ys),
            r |-> appendWord(t.r, Literal(Pointwise2(op, x.val, y.val)))]
      ELSE IF x.fill /\ y.fill
      THEN [xs |-> Consume(t.xs, n), ys |-> Consume(t.ys, n),
            r |-> appendCounter(t.r, op[x.val[1], y.val[1]], n)]
      ELSE IF x.fill
      THEN [xs |-> Consume(t.xs, 1), ys |-> Tail(t.ys),
            r |-> FillMeets(t.r, op, x.val[1], y)]
      ELSE [xs |-> Tail(t.xs), ys |-> Consume(t.ys, 1),
            r |-> FillMeets(t.r, op, y.val[1], x)]

Aligned(a, b, op) ==
  LET run[i \in 0 .. MaxBits] ==
        IF i = 0 THEN [xs |-> a.vec, ys |-> b.vec, r |-> makeBitmap]
        ELSE Turn(run[i - 1], op)
  IN  [run[MaxBits].r EXCEPT !.active = Pointwise2(op, a.active, b.active)]

c2_and(a, b) == Aligned(a, b, And)
c2_or(a, b) == Aligned(a, b, Or)

\* Word by word, of bitmaps without fills.
WordByWord(a, b, op) ==
  [FoldLeftDomain(LAMBDA r, i : appendWord(r,
       Literal(Pointwise2(op, a.vec[i].val, b.vec[i].val))),
     makeBitmap, a.vec)
   EXCEPT !.active = Pointwise2(op, a.active, b.active)]

c0_and(a, b) == WordByWord(a, b, And)
c0_or(a, b) == WordByWord(a, b, Or)

\* The shorter operand is copied and extended by zeros.
bmpand(a, b) ==
  LET na == bitmapSize(a)
      nb == bitmapSize(b)
  IN  IF na > nb THEN c2_and(a, adjustSize(b, na))
      ELSE IF nb > na THEN c2_and(b, adjustSize(a, nb))
      ELSE c2_and(a, b)

\* A longer second operand is combined with bmpand.
bmpor(a, b) ==
  LET na == bitmapSize(a)
      nb == bitmapSize(b)
  IN  IF na > nb THEN c2_or(a, adjustSize(b, na))
      ELSE IF nb > na THEN bmpand(b, adjustSize(a, nb))
      ELSE c2_or(a, b)

-----------------------------------------------------------------------------
(* The specification: one bitmap and the calls that change it.             *)

Bits(b) ==
  FoldLeft(LAMBDA s, w : s \o FlattenSeq(Copies(w.val, w.cnt)), <<>>, b.vec)
  \o b.active

Room == MaxBits - Len(Bits(bmp))
Raw(b) == \A i \in DOMAIN b.vec : ~ b.vec[i].fill

Init ==
  /\ bmp = makeBitmap
  /\ call = [op |-> "make", bits |-> <<>>, n |-> 0]

\* A call that was given the bits x and the number n leaves b.
Becomes(b, op, x, n) ==
  /\ bmp' = b
  /\ call' = [op |-> op, bits |-> x, n |-> n]

AppendOneBit(v) ==
  Room > 0 /\ Becomes(appendOneBit(bmp, v), "append", <<v>>, 1)

AppendBits(v, n) ==
  n <= Room /\ Becomes(appendBits(bmp, v, n), "append", <<v>>, n)

AppendWord(w) ==
  /\ w.cnt * MAXBITS <= Room
  /\ Becomes(appendWord(bmp, w), "append", w.val, w.cnt)

\* Callers have filled a word: without one both free a null pointer.
HasWords == bmp.vec # <<>>

Compress == HasWords /\ Becomes(compress(bmp), "pack", <<>>, 0)

Decompress == HasWords /\ Becomes(decompress(bmp), "pack", <<>>, 0)

AdjustSize(n) == Becomes(adjustSize(bmp, n), "adjust", <<>>, n)

SetBit(i) == Raw(bmp) /\ Becomes(setBitBitmap(bmp, i), "set", <<>>, i)

Words ==
  {Literal(x) : x \in [1 .. MAXBITS -> Bit]}
  \cup {Fill(v, n) : v \in Bit, n \in 1 .. MaxBits \div MAXBITS}

Next ==
  \/ Compress \/ Decompress
  \/ \E v \in Bit :
       AppendOneBit(v) \/ \E n \in 0 .. MaxBits : AppendBits(v, n)
  \/ \E w \in Words : AppendWord(w)
  \/ \E n \in 0 .. MaxBits : AdjustSize(n)
  \/ \E i \in 0 .. MaxBits : SetBit(i)

Spec == Init /\ [][Next]_vars

-----------------------------------------------------------------------------
(* Properties.                                                             *)

TypeOK ==
  /\ bmp.active \in UNION {[1 .. n -> Bit] : n \in 0 .. MAXBITS - 1}
  /\ \A i \in DOMAIN bmp.vec :
       /\ bmp.vec[i] \in [fill : BOOLEAN, val : [1 .. MAXBITS -> Bit],
                          cnt : 1 .. MaxBits]
       /\ bmp.vec[i].fill => Uniform(bmp.vec[i].val)
       /\ ~ bmp.vec[i].fill => bmp.vec[i].cnt = 1

\* The stored length and the one counted from the words agree, so that
\* bitmapSize prints no warning, and the buffer decompress takes, of nbits /
\* MAXBITS words (bitmap.c:361), is exactly filled.
CountsAgree ==
  /\ TypeOK
  /\ bmp.nbits + Len(bmp.active) = do_cnt(bmp)
  /\ Len(decompress(bmp).vec) = bmp.nbits \div MAXBITS

Runs(s) == 1 + Cardinality({i \in 2 .. Len(s) : s[i] # s[i - 1]})
Operands(n) == {s \in [1 .. n -> Bit] : Runs(s) <= MaxRuns}
Built(s) == FoldLeft(appendOneBit, makeBitmap, s)

\* However a bitmap came to be, once compressed its words are those of the
\* same bits appended one at a time: equal bitmaps have equal words.
Canonical == compress(bmp) = Built(Bits(bmp))

\* Two bitmaps of one length.
SameLength(s) ==
  \A b \in {Built(s), decompress(Built(s))} :
    /\ c2_and(bmp, b) = Built(Pointwise2(And, Bits(bmp), s))
    /\ c2_or(b, bmp) = Built(Pointwise2(Or, Bits(bmp), s))
    /\ Raw(bmp) /\ Raw(b) =>
         /\ c0_and(bmp, b) = Built(Pointwise2(And, Bits(bmp), s))
         /\ c0_or(bmp, b) = Built(Pointwise2(Or, Bits(bmp), s))

\* Two bitmaps, the shorter one taken as followed by zeros.
AnyLength(s) ==
  LET p == s \o Copies(0, Len(Bits(bmp)) - Len(s))
  IN  /\ Bits(bmpand(bmp, Built(s))) = Pointwise2(And, Bits(bmp), p)
      /\ Bits(bmpand(Built(s), bmp)) = Pointwise2(And, Bits(bmp), p)
      /\ Bits(bmpor(bmp, Built(s))) = Pointwise2(Or, Bits(bmp), p)

\* The loop that aligns the fills and literals of two bitmaps of one length
\* combines them bit by bit, whatever their division into words, and leaves a
\* compressed bitmap; so does the loop over bitmaps without fills.  The
\* operators on bitmaps of different lengths pad the shorter one: bmpand in
\* either order, bmpor if the first operand is the longer one.
CombinesRight ==
  /\ \A s \in Operands(Len(Bits(bmp))) : SameLength(s)
  /\ \A n \in 0 .. Len(Bits(bmp)) : \A s \in Operands(n) : AnyLength(s)

B == INSTANCE Bits WITH WordLen <- MAXBITS, bits <- Bits(bmp)

\* A bitmap is a string of bits: a call that was given bits appends those, the
\* number of times it was given, one that names a bit sets that one, if it is
\* there, and packing and unpacking change nothing, across words and fills
\* (appendWord, bitmap.c:567-623).
LikeBits == B!Spec
=============================================================================
