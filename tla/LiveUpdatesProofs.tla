-------------------------- MODULE LiveUpdatesProofs --------------------------
(***************************************************************************)
(* Theorems of LiveUpdates, and of the parser that it uses: whatever the   *)
(* network splits, whenever the server or the listener is lost, and for    *)
(* any queue, wire and number of changes, a badge that is behind what it   *)
(* is owed is about to hear of it.                                         *)
(***************************************************************************)
EXTENDS LiveUpdates, SequenceTheorems, WellFoundedInduction, TLAPS

-----------------------------------------------------------------------------
(* Recursive functions.                                                    *)

\* A set of numbers that is not empty has a least one.
LEMMA LeastNumber ==
  ASSUME NEW S, S \subseteq Nat, S # {}
  PROVE  \E m \in S : \A s \in S : m <= s
<1>. DEFINE R == {ss \in Nat \X Nat : ss[1] < ss[2]}
<1>1. IsWellFoundedOn(R, Nat)
  BY NatLessThanWellFounded DEF OpToRel
<1>2. \A m, s \in Nat : <<s, m>> \notin R => m <= s
  OBVIOUS
<1>. HIDE DEF R
<1>3. \E m \in S : \A s \in S : ~ (<<s, m>> \in R)
  BY <1>1, WFMin, Zenon
<1>. QED
  BY <1>2, <1>3

\* The value of f on x is computed from its value on what is next to x, which is smaller;
\* for everything smaller than n.
Shrinks(D, size, Base, next) == \A x \in D \ Base : size[next[x]] < size[x]

\* One step of a recursive definition over the domain D.
Value(f, x, Base, first, next, step) ==
    IF x \in Base THEN first[x] ELSE step[<<x, f[next[x]]>>]

\* f follows the definition on everything of size up to n.
Upto(f, n, D, size, Base, first, next, step) ==
    \A x \in D : size[x] < n => f[x] = Value(f, x, Base, first, next, step)

\* f follows the definition everywhere.
Computes(f, D, Base, first, next, step) ==
    \A x \in D : f[x] = Value(f, x, Base, first, next, step)

\* Two functions that are computed in the same way agree as far as both are.
LEMMA SameValues ==
  ASSUME NEW D, NEW size \in [D -> Nat], NEW Base, NEW first, NEW next \in [D -> D], NEW step,
         Shrinks(D, size, Base, next),
         NEW f, NEW m \in Nat, Upto(f, m, D, size, Base, first, next, step),
         NEW g, NEW n \in Nat, Upto(g, n, D, size, Base, first, next, step)
  PROVE  \A x \in D : size[x] < m /\ size[x] < n => f[x] = g[x]
<1>. DEFINE S == {size[x] : x \in {y \in D : size[y] < m /\ size[y] < n /\ f[y] # g[y]}}
<1>1. SUFFICES ASSUME S # {} PROVE FALSE
  OBVIOUS
<1>2. S \subseteq Nat
  OBVIOUS
<1>3. PICK k \in S : \A s \in S : k <= s
  <2>. HIDE DEF S
  <2>. QED
    BY <1>1, <1>2, LeastNumber
<1>4. PICK x \in D : k = size[x] /\ size[x] < m /\ size[x] < n /\ f[x] # g[x]
  BY <1>3
<1>5. /\ f[x] = Value(f, x, Base, first, next, step)
      /\ g[x] = Value(g, x, Base, first, next, step)
  BY <1>4 DEF Upto
<1>6. x \notin Base
  BY <1>4, <1>5 DEF Value
<1>7. next[x] \in D /\ size[next[x]] < size[x]
  BY <1>6 DEF Shrinks
<1>8. f[next[x]] = g[next[x]]
  <2>1. SUFFICES ASSUME f[next[x]] # g[next[x]] PROVE FALSE
    OBVIOUS
  <2>2. size[next[x]] < m /\ size[next[x]] < n /\ k \in Nat
    BY <1>2, <1>4, <1>7
  <2>3. size[next[x]] \in S
    BY <1>7, <2>1, <2>2
  <2>4. k <= size[next[x]]
    BY <1>3, <2>3
  <2>. QED
    BY <1>4, <1>7, <2>4
<1>. QED
  BY <1>4, <1>5, <1>6, <1>8 DEF Value

\* As far as one likes, such a function exists.
LEMMA ValuesUpto ==
  ASSUME NEW D, NEW V, NEW size \in [D -> Nat], NEW Base, NEW first \in [D -> V],
         NEW next \in [D -> D], NEW step \in [D \X V -> V],
         Shrinks(D, size, Base, next), NEW n \in Nat
  PROVE  \E f \in [D -> V] : Upto(f, n, D, size, Base, first, next, step)
<1>. DEFINE S == {k \in Nat : ~ \E f \in [D -> V] : Upto(f, k, D, size, Base, first, next, step)}
<1>1. SUFFICES ASSUME S # {} PROVE FALSE
  OBVIOUS
<1>2. PICK k \in S : \A s \in S : k <= s
  <2>1. S \subseteq Nat
    OBVIOUS
  <2>. HIDE DEF S
  <2>. QED
    BY <1>1, <2>1, LeastNumber
<1>3. k # 0
  <2>1. Upto(first, 0, D, size, Base, first, next, step)
    BY DEF Upto
  <2>. QED
    BY <1>2, <2>1
<1>4. PICK g \in [D -> V] : Upto(g, k - 1, D, size, Base, first, next, step)
  BY <1>2, <1>3
<1>. DEFINE h == [x \in D |-> Value(g, x, Base, first, next, step)]
<1>5. h \in [D -> V]
  BY DEF Value
<1>6. ASSUME NEW x \in D, size[x] < k
      PROVE  h[x] = Value(h, x, Base, first, next, step)
  <2>1. CASE x \in Base
    BY <2>1 DEF Value
  <2>2. CASE x \notin Base
    <3>1. next[x] \in D /\ size[next[x]] < k - 1
      BY <1>2, <1>6, <2>2 DEF Shrinks
    <3>2. g[next[x]] = Value(g, next[x], Base, first, next, step)
      BY <1>4, <3>1 DEF Upto
    <3>3. h[next[x]] = g[next[x]]
      BY <3>1, <3>2
    <3>. QED
      BY <2>2, <3>3 DEF Value
  <2>. QED
    BY <2>1, <2>2
<1>7. Upto(h, k, D, size, Base, first, next, step)
  <2>. HIDE DEF h
  <2>. QED
    BY <1>6 DEF Upto
<1>. QED
  <2>. HIDE DEF h
  <2>. QED
    BY <1>2, <1>5, <1>7

\* So it exists for all.
LEMMA RecursionDefines ==
  ASSUME NEW D, NEW V, NEW size \in [D -> Nat], NEW Base, NEW first \in [D -> V],
         NEW next \in [D -> D], NEW step \in [D \X V -> V],
         Shrinks(D, size, Base, next)
  PROVE  \E f \in [D -> V] : Computes(f, D, Base, first, next, step)
<1>. DEFINE F(x) == CHOOSE f \in [D -> V] : Upto(f, size[x] + 1, D, size, Base, first, next, step)
            f == [x \in D |-> F(x)[x]]
<1>1. ASSUME NEW x \in D
      PROVE  F(x) \in [D -> V] /\ Upto(F(x), size[x] + 1, D, size, Base, first, next, step)
  <2>1. size[x] + 1 \in Nat
    OBVIOUS
  <2>. QED
    BY <2>1, ValuesUpto
<1>2. \A x \in D : f[x] = F(x)[x]
  OBVIOUS
<1>3. f \in [D -> V]
  BY <1>1
<1>. HIDE DEF F, f
<1>4. ASSUME NEW x \in D
      PROVE  f[x] = Value(f, x, Base, first, next, step)
  <2>1. F(x)[x] = Value(F(x), x, Base, first, next, step)
    BY <1>1 DEF Upto
  <2>2. CASE x \in Base
    BY <1>2, <2>1, <2>2 DEF Value
  <2>3. CASE x \notin Base
    <3>1. next[x] \in D /\ size[next[x]] < size[x]
      BY <2>3 DEF Shrinks
    <3>2. /\ Upto(F(x), size[x] + 1, D, size, Base, first, next, step)
          /\ Upto(F(next[x]), size[next[x]] + 1, D, size, Base, first, next, step)
      BY <1>1, <3>1
    <3>3. F(next[x])[next[x]] = F(x)[next[x]]
      <4>1. /\ size[next[x]] < size[x] + 1 /\ size[next[x]] < size[next[x]] + 1
            /\ size[x] + 1 \in Nat /\ size[next[x]] + 1 \in Nat
        BY <3>1
      <4>. QED
        BY <3>1, <3>2, <4>1, SameValues
    <3>. QED
      BY <1>2, <2>1, <2>3, <3>1, <3>3 DEF Value
  <2>. QED
    BY <2>2, <2>3
<1>. QED
  BY <1>3, <1>4 DEF Computes

-----------------------------------------------------------------------------
(* The parser of Server-Sent Events.                                       *)

\* A part of a text.
LEMMA Part ==
  ASSUME NEW t \in Text, NEW m \in Nat \ {0}, NEW n \in 0 .. Len(t)
  PROVE  /\ SubSeq(t, m, n) \in Text
         /\ Len(SubSeq(t, m, n)) = IF m <= n THEN n - m + 1 ELSE 0
         /\ \A i \in 1 .. n - m + 1 : SubSeq(t, m, n)[i] = t[m + i - 1]
<1>1. Len(t) \in Nat /\ \A i \in m .. n : t[i] \in Element
  BY ElementOfSeq, LenProperties DEF Text
<1>. QED
  BY <1>1, SubSeqProperties DEF Text

\* An element of a text is a text of its own.
LEMMA Char ==
  ASSUME NEW t \in Text
  PROVE  /\ Len(t) \in Nat
         /\ t # <<>> => Len(t) > 0
         /\ \A i \in 1 .. Len(t) : t[i] \in Element
BY ElementOfSeq, EmptySeq, LenProperties DEF Text

\* Two texts one after the other are a text.
LEMMA Joined ==
  ASSUME NEW s \in Text, NEW t \in Text
  PROVE  /\ s \o t \in Text
         /\ Len(s \o t) = Len(s) + Len(t)
         /\ \A i \in 1 .. Len(s) : (s \o t)[i] = s[i]
         /\ \A i \in 1 .. Len(t) : (s \o t)[Len(s) + i] = t[i]
<1>1. Len(s) \in Nat /\ Len(t) \in Nat
  BY Char
<1>2. /\ s \o t \in Seq(Element)
      /\ Len(s \o t) = Len(s) + Len(t)
      /\ \A i \in 1 .. Len(s) + Len(t) :
            (s \o t)[i] = IF i <= Len(s) THEN s[i] ELSE t[i - Len(s)]
  BY ConcatProperties DEF Text
<1>. QED
  BY <1>1, <1>2 DEF Text

\* A text of one element.
LEMMA One ==
  ASSUME NEW c \in Element
  PROVE  <<c>> \in Text /\ Len(<<c>>) = 1 /\ <<c>>[1] = c
BY DEF Text

\* What becomes of an element when line ends are made equal.
LEMMA LineFeed ==
  /\ \A c \in Element : AsLf(c) \in Element
  /\ \A c \in Element : c.type # "cr" => AsLf(c) = c
  /\ Plain("lf") \in Element /\ Plain("cr") \in Element
BY DEF AsLf, Plain, Element

\* Induction over the length of a text, for the set of the texts that have a property.
LEMMA ByLength ==
  ASSUME NEW T,
         \A t \in Text : (\A u \in Text : Len(u) < Len(t) => u \in T) => t \in T
  PROVE  \A t \in Text : t \in T
<1>. DEFINE S == {Len(t) : t \in Text \ T}
<1>1. SUFFICES ASSUME NEW x \in Text, x \notin T PROVE FALSE
  OBVIOUS
<1>2. S \subseteq Nat /\ S # {}
  <2>1. \A t \in Text : Len(t) \in Nat
    BY Char
  <2>2. Len(x) \in S
    BY <1>1
  <2>3. S \subseteq Nat
    BY <2>1, Zenon
  <2>. QED
    BY <2>2, <2>3, Zenon
<1>3. PICK k \in S : \A s \in S : k <= s
  <2>. HIDE DEF S
  <2>. QED
    BY <1>2, LeastNumber
<1>4. PICK t \in Text : t \notin T /\ k = Len(t)
  BY <1>3
<1>5. \A u \in Text : Len(u) < Len(t) => u \in T
  <2>1. ASSUME NEW u \in Text, u \notin T
        PROVE  ~(Len(u) < Len(t))
    <3>1. Len(u) \in S
      BY <2>1
    <3>2. Len(u) \in Nat /\ Len(t) \in Nat
      BY Char
    <3>3. Len(t) <= Len(u)
      BY <1>3, <1>4, <3>1
    <3>. QED
      BY <3>2, <3>3
  <2>. QED
    BY <2>1
<1>. QED
  BY <1>4, <1>5

\* What normalize computes: its recursive definition has a solution, and it is a text.
LEMMA NormalizeIs ==
  /\ normalize \in [Text -> Text]
  /\ \A text \in Text :
        normalize[text] =
            IF text = <<>> THEN <<>>
            ELSE <<AsLf(text[1])>> \o normalize[SubSeq(text, Taken(text) + 1, Len(text))]
<1>. DEFINE size == [t \in Text |-> Len(t)]
            first == [t \in Text |-> <<>>]
            next == [t \in Text |-> SubSeq(t, Taken(t) + 1, Len(t))]
            head == [t \in Text |-> IF t = <<>> THEN <<>> ELSE <<AsLf(t[1])>>]
            step == [tv \in Text \X Text |-> head[tv[1]] \o tv[2]]
            Base == {<<>>}
            Body(g, t) == IF t = <<>> THEN <<>>
                          ELSE <<AsLf(t[1])>> \o g[SubSeq(t, Taken(t) + 1, Len(t))]
<1>1. size \in [Text -> Nat] /\ first \in [Text -> Text]
  BY Char DEF Text
<1>2. ASSUME NEW t \in Text
      PROVE  next[t] \in Text /\ (t # <<>> => size[next[t]] < size[t])
  <2>1. Taken(t) \in {1, 2}
    BY DEF Taken
  <2>2. Len(t) \in Nat /\ Taken(t) + 1 \in Nat \ {0} /\ Len(t) \in 0 .. Len(t)
    BY <2>1, Char
  <2>3. /\ SubSeq(t, Taken(t) + 1, Len(t)) \in Text
        /\ t # <<>> => Len(SubSeq(t, Taken(t) + 1, Len(t))) < Len(t)
    BY <2>1, <2>2, Part, Char
  <2>. QED
    BY <2>3
<1>3. head \in [Text -> Text]
  BY Char, One, LineFeed DEF Text
<1>4. step \in [Text \X Text -> Text]
  BY <1>3, Joined
<1>5. next \in [Text -> Text] /\ Shrinks(Text, size, Base, next)
  BY <1>2 DEF Shrinks
<1>6. PICK f \in [Text -> Text] : Computes(f, Text, Base, first, next, step)
  <2>. HIDE DEF size, first, next, step, Base
  <2>. QED
    BY <1>1, <1>4, <1>5, RecursionDefines
<1>7. ASSUME NEW t \in Text, NEW v \in Text
      PROVE  step[<<t, v>>] = head[t] \o v
  OBVIOUS
<1>8. ASSUME NEW g \in [Text -> Text], NEW t \in Text
      PROVE  Value(g, t, Base, first, next, step) = Body(g, t)
  <2>1. next[t] = SubSeq(t, Taken(t) + 1, Len(t)) /\ g[next[t]] \in Text
    BY <1>5
  <2>2. step[<<t, g[next[t]]>>] = head[t] \o g[next[t]]
    BY <1>7, <2>1
  <2>3. CASE t = <<>>
    BY <2>3 DEF Value
  <2>4. CASE t # <<>>
    <3>1. head[t] = <<AsLf(t[1])>>
      BY <2>4
    <3>. QED
      BY <2>1, <2>2, <2>4, <3>1 DEF Value
  <2>. QED
    BY <2>3, <2>4
<1>9. f = [t \in Text |-> Body(f, t)]
  <2>1. \A t \in Text : f[t] = Body(f, t)
    BY <1>6, <1>8 DEF Computes
  <2>. HIDE DEF Body
  <2>. QED
    BY <2>1
<1>10. normalize = [t \in Text |-> Body(normalize, t)]
  <2>1. normalize = CHOOSE g : g = [t \in Text |-> Body(g, t)]
    BY DEF normalize
  <2>. HIDE DEF Body
  <2>. QED
    BY <1>9, <2>1
<1>11. \A t \in Text : normalize[t] = f[t]
  <2>. DEFINE T == {t \in Text : normalize[t] = f[t]}
  <2>1. ASSUME NEW t \in Text, \A u \in Text : Len(u) < Len(t) => u \in T
        PROVE  t \in T
    <3>1. normalize[t] = Body(normalize, t) /\ f[t] = Body(f, t)
      BY <1>9, <1>10
    <3>2. CASE t = <<>>
      BY <3>1, <3>2
    <3>3. CASE t # <<>>
      <4>1. /\ SubSeq(t, Taken(t) + 1, Len(t)) \in Text
            /\ Len(SubSeq(t, Taken(t) + 1, Len(t))) < Len(t)
        BY <1>2, <3>3
      <4>. QED
        BY <2>1, <3>1, <4>1
    <3>. QED
      BY <3>2, <3>3
  <2>2. \A t \in Text : t \in T
    <3>. HIDE DEF T
    <3>. QED
      BY <2>1, ByLength
  <2>. QED
    BY <2>2
<1>12. normalize = f
  <2>1. f = [t \in Text |-> f[t]]
    BY <1>6
  <2>2. normalize = [t \in Text |-> normalize[t]]
    BY <1>10
  <2>. QED
    BY <1>11, <2>1, <2>2
<1>. QED
  BY <1>9, <1>12

-----------------------------------------------------------------------------
(* The blocks of a buffer.                                                 *)

\* The first blank line of a buffer that has one.
LEMMA BoundaryIs ==
  ASSUME NEW b \in Text, Boundaries(b) # {}
  PROVE  /\ Boundary(b) \in Boundaries(b)
         /\ \A j \in Boundaries(b) : Boundary(b) <= j
         /\ Boundary(b) \in 1 .. Len(b) - 1
<1>1. Boundaries(b) \subseteq 1 .. Len(b) - 1 /\ 1 .. Len(b) - 1 \subseteq Nat
  BY Char DEF Boundaries
<1>2. PICK k \in Boundaries(b) : \A j \in Boundaries(b) : k <= j
  BY <1>1, LeastNumber
<1>. QED
  BY <1>1, <1>2 DEF Boundary

\* What a block tells: nothing, or the number of a data line in it.
LEMMA UnreadIs ==
  ASSUME NEW b \in Text
  PROVE  Unread(b) \in Seq(Nat)
<1>1. CASE Lines(b, "data") # {}
  <2>1. PICK i \in Lines(b, "data") : i = CHOOSE j \in Lines(b, "data") : TRUE
    BY <1>1
  <2>2. b[i] \in Element
    BY Char DEF Lines
  <2>3. <<b[i].count>> \in Seq(Nat) /\ <<>> \in Seq(Nat)
    BY <2>2 DEF Element
  <2>. QED
    BY <2>1, <2>3 DEF Unread
<1>2. CASE Lines(b, "data") = {}
  BY <1>2 DEF Unread
<1>. QED
  BY <1>1, <1>2

\* What split returns.
Parsed == [counts : Seq(Nat), rest : Text]

\* What is left of a buffer after its first block, and the block.
Later(b) == SubSeq(b, Boundary(b) + 2, Len(b))
\* The block before the first blank line.
Block(b) == SubSeq(b, 1, Boundary(b) - 1)

\* A block and what is after it are shorter parts of the buffer.
LEMMA BlockAndLater ==
  ASSUME NEW b \in Text, Boundaries(b) # {}
  PROVE  /\ Block(b) \in Text /\ Later(b) \in Text /\ Len(Later(b)) < Len(b)
         /\ Unread(Block(b)) \in Seq(Nat)
<1>1. Len(b) \in Nat /\ Boundary(b) \in 1 .. Len(b) - 1
  BY BoundaryIs, Char
<1>2. /\ 1 \in Nat \ {0} /\ Boundary(b) - 1 \in 0 .. Len(b)
      /\ Boundary(b) + 2 \in Nat \ {0} /\ Len(b) \in 0 .. Len(b)
  BY <1>1
<1>3. /\ SubSeq(b, 1, Boundary(b) - 1) \in Text
      /\ SubSeq(b, Boundary(b) + 2, Len(b)) \in Text
      /\ Len(SubSeq(b, Boundary(b) + 2, Len(b)))
            = IF Boundary(b) + 2 <= Len(b) THEN Len(b) - (Boundary(b) + 2) + 1 ELSE 0
  BY <1>2, Part
<1>4. Len(SubSeq(b, Boundary(b) + 2, Len(b))) < Len(b)
  BY <1>1, <1>3
<1>. QED
  BY <1>3, <1>4, UnreadIs DEF Block, Later

\* What split computes.
LEMMA SplitIs ==
  /\ split \in [Text -> Parsed]
  /\ \A b \in Text :
        /\ Boundaries(b) = {} => split[b] = [counts |-> <<>>, rest |-> b]
        /\ Boundaries(b) # {} => split[b] = [counts |-> Unread(Block(b)) \o split[Later(b)].counts,
                                             rest   |-> split[Later(b)].rest]
<1>. DEFINE size == [t \in Text |-> Len(t)]
            Base == {t \in Text : Boundaries(t) = {}}
            first == [t \in Text |-> [counts |-> <<>>, rest |-> t]]
            next == [t \in Text |-> IF t \in Base THEN t ELSE Later(t)]
            read == [t \in Text |-> IF t \in Base THEN <<>> ELSE Unread(Block(t))]
            step == [tv \in Text \X Parsed |->
                        [counts |-> read[tv[1]] \o tv[2].counts, rest |-> tv[2].rest]]
            Body(g, t) == IF Boundaries(t) = {} THEN [counts |-> <<>>, rest |-> t]
                          ELSE [counts |-> Unread(Block(t)) \o g[Later(t)].counts,
                                rest |-> g[Later(t)].rest]
<1>1. size \in [Text -> Nat] /\ first \in [Text -> Parsed]
  BY Char DEF Text, Parsed
<1>2. next \in [Text -> Text] /\ Shrinks(Text, size, Base, next)
  BY BlockAndLater DEF Shrinks
<1>3. \A t \in Text : read[t] \in Seq(Nat)
  BY BlockAndLater
<1>4. step \in [Text \X Parsed -> Parsed]
  <2>1. ASSUME NEW t \in Text, NEW v \in Parsed
        PROVE  [counts |-> read[t] \o v.counts, rest |-> v.rest] \in Parsed
    <3>1. read[t] \o v.counts \in Seq(Nat)
      BY <1>3, ConcatProperties DEF Parsed
    <3>. QED
      BY <3>1 DEF Parsed
  <2>. HIDE DEF read
  <2>. QED
    BY <2>1
<1>5. PICK f \in [Text -> Parsed] : Computes(f, Text, Base, first, next, step)
  <2>. HIDE DEF size, first, next, step, Base
  <2>. QED
    BY <1>1, <1>2, <1>4, RecursionDefines
<1>6. ASSUME NEW t \in Text, NEW v \in Parsed
      PROVE  step[<<t, v>>] = [counts |-> read[t] \o v.counts, rest |-> v.rest]
  <2>. HIDE DEF read
  <2>. QED
    OBVIOUS
<1>7. ASSUME NEW t \in Text
      PROVE  f[t] = Body(f, t)
  <2>1. f[t] = Value(f, t, Base, first, next, step)
    BY <1>5 DEF Computes
  <2>2. CASE Boundaries(t) = {}
    <3>1. t \in Base /\ first[t] = [counts |-> <<>>, rest |-> t]
      BY <2>2
    <3>. QED
      BY <2>1, <2>2, <3>1 DEF Value
  <2>3. CASE Boundaries(t) # {}
    <3>1. t \notin Base /\ next[t] = Later(t) /\ read[t] = Unread(Block(t)) /\ Later(t) \in Text
      BY <2>3, BlockAndLater
    <3>2. f[t] = step[<<t, f[Later(t)]>>]
      BY <2>1, <3>1 DEF Value
    <3>3. f[Later(t)] \in Parsed
      BY <3>1
    <3>. QED
      BY <1>6, <2>3, <3>1, <3>2, <3>3
  <2>. QED
    BY <2>2, <2>3
<1>8. f = [t \in Text |-> Body(f, t)]
  <2>. HIDE DEF Body
  <2>. QED
    BY <1>7
<1>9. split = [t \in Text |-> Body(split, t)]
  <2>1. split = CHOOSE g : g = [t \in Text |-> Body(g, t)]
    BY DEF split, Block, Later
  <2>. HIDE DEF Body
  <2>. QED
    BY <1>8, <2>1
<1>10. \A t \in Text : split[t] = f[t]
  <2>. DEFINE T == {t \in Text : split[t] = f[t]}
  <2>1. ASSUME NEW t \in Text, \A u \in Text : Len(u) < Len(t) => u \in T
        PROVE  t \in T
    <3>1. split[t] = Body(split, t) /\ f[t] = Body(f, t)
      BY <1>7, <1>9
    <3>2. CASE Boundaries(t) = {}
      BY <3>1, <3>2
    <3>3. CASE Boundaries(t) # {}
      <4>1. Later(t) \in Text /\ Len(Later(t)) < Len(t)
        BY <3>3, BlockAndLater
      <4>2. split[Later(t)] = f[Later(t)]
        BY <2>1, <4>1
      <4>. QED
        BY <3>1, <4>2
    <3>. QED
      BY <3>2, <3>3
  <2>2. \A t \in Text : t \in T
    <3>. HIDE DEF T
    <3>. QED
      BY <2>1, ByLength
  <2>. QED
    BY <2>2
<1>11. split = f
  <2>1. f = [t \in Text |-> f[t]]
    OBVIOUS
  <2>2. split = [t \in Text |-> split[t]]
    BY <1>9
  <2>. QED
    BY <1>10, <2>1, <2>2
<1>. QED
  BY <1>7, <1>11

-----------------------------------------------------------------------------
(* Line ends: what normalize makes of two texts one after the other.       *)

\* Two texts with the same elements are the same.
LEMMA SameText ==
  ASSUME NEW s \in Text, NEW t \in Text, Len(s) = Len(t), \A i \in 1 .. Len(s) : s[i] = t[i]
  PROVE  s = t
BY SeqEqual DEF Text

\* The empty text.
LEMMA NoText == <<>> \in Text /\ Len(<<>>) = 0 /\ \A t \in Text : t \o <<>> = t /\ <<>> \o t = t
BY EmptySeq, ConcatEmptySeq DEF Text

\* Texts one after the other may be grouped in any way.
LEMMA Regrouped ==
  ASSUME NEW s \in Text, NEW t \in Text, NEW u \in Text
  PROVE  (s \o t) \o u = s \o (t \o u)
BY ConcatAssociative DEF Text

\* A text without its first k.
LEMMA Dropped ==
  ASSUME NEW t \in Text, NEW k \in 0 .. Len(t)
  PROVE  /\ SubSeq(t, k + 1, Len(t)) \in Text
         /\ Len(SubSeq(t, k + 1, Len(t))) = Len(t) - k
         /\ \A i \in 1 .. Len(t) - k : SubSeq(t, k + 1, Len(t))[i] = t[k + i]
BY DEF Text

\* What follows the first k of two texts.
LEMMA Behind ==
  ASSUME NEW s \in Text, NEW t \in Text, NEW k \in 0 .. Len(s)
  PROVE  SubSeq(s \o t, k + 1, Len(s \o t)) = SubSeq(s, k + 1, Len(s)) \o t
<1>. DEFINE both == s \o t
            l == SubSeq(both, k + 1, Len(both))
            r == SubSeq(s, k + 1, Len(s))
            q == r \o t
<1>1. Len(s) \in Nat /\ Len(t) \in Nat /\ k \in Nat
  BY Char
<1>2. /\ both \in Text /\ Len(both) = Len(s) + Len(t)
      /\ \A i \in 1 .. Len(s) : both[i] = s[i]
      /\ \A i \in 1 .. Len(t) : both[Len(s) + i] = t[i]
  BY Joined
<1>. HIDE DEF both
<1>3. /\ l \in Text /\ Len(l) = Len(s) + Len(t) - k
      /\ \A i \in 1 .. Len(s) + Len(t) - k : l[i] = both[k + i]
  <2>1. k \in 0 .. Len(both)
    BY <1>1, <1>2
  <2>2. /\ l \in Text /\ Len(l) = Len(both) - k
        /\ \A i \in 1 .. Len(both) - k : l[i] = both[k + i]
    BY <1>2, <2>1, Dropped
  <2>. QED
    BY <1>1, <1>2, <2>2
<1>4. /\ r \in Text /\ Len(r) = Len(s) - k
      /\ \A i \in 1 .. Len(s) - k : r[i] = s[k + i]
  BY Dropped
<1>. HIDE DEF l, r
<1>5. /\ q \in Text /\ Len(q) = Len(r) + Len(t)
      /\ \A i \in 1 .. Len(r) : q[i] = r[i]
      /\ \A i \in 1 .. Len(t) : q[Len(r) + i] = t[i]
  BY <1>4, Joined
<1>. HIDE DEF q
<1>6. ASSUME NEW i \in 1 .. Len(l)
      PROVE  l[i] = q[i]
  <2>1. i \in Nat /\ 1 <= i /\ i <= Len(s) + Len(t) - k
    BY <1>1, <1>3
  <2>2. CASE i <= Len(s) - k
    <3>1. i \in 1 .. Len(s) - k /\ k + i \in 1 .. Len(s) /\ i \in 1 .. Len(s) + Len(t) - k
      BY <1>1, <2>1, <2>2
    <3>. QED
      BY <1>2, <1>3, <1>4, <1>5, <3>1
  <2>3. CASE i > Len(s) - k
    <3>1. PICK j \in 1 .. Len(t) : i = Len(s) - k + j
      <4>1. i - (Len(s) - k) \in 1 .. Len(t) /\ i = Len(s) - k + (i - (Len(s) - k))
        BY <1>1, <2>1, <2>3
      <4>. QED
        BY <4>1
    <3>2. k + i = Len(s) + j /\ i = Len(r) + j /\ i \in 1 .. Len(s) + Len(t) - k
      BY <1>1, <1>4, <2>1, <3>1
    <3>3. l[i] = both[k + i]
      BY <1>3, <3>2
    <3>. QED
      BY <1>2, <1>5, <3>2, <3>3
  <2>. QED
    BY <1>1, <2>1, <2>2, <2>3
<1>7. l = q
  <2>1. Len(l) = Len(q)
    BY <1>1, <1>3, <1>4, <1>5
  <2>. QED
    BY <1>3, <1>5, <1>6, <2>1, SameText
<1>. QED
  BY <1>7 DEF l, q, r, both

\* What follows one text in two.
LEMMA Second ==
  ASSUME NEW s \in Text, NEW t \in Text
  PROVE  SubSeq(s \o t, Len(s) + 1, Len(s \o t)) = t
<1>1. Len(s) \in Nat /\ Len(s) \in 0 .. Len(s) /\ Len(s) \in Int /\ Len(s) + 1 \in Int
      /\ Len(s) < Len(s) + 1
  BY Char
<1>2. SubSeq(s \o t, Len(s) + 1, Len(s \o t)) = SubSeq(s, Len(s) + 1, Len(s)) \o t
  BY <1>1, Behind
<1>3. SubSeq(s, Len(s) + 1, Len(s)) = <<>>
  BY <1>1, SubSeqEmpty
<1>. QED
  BY <1>2, <1>3, NoText

\* normalize on a text that begins with something else than a carriage return.
LEMMA NormalizeChar ==
  ASSUME NEW c \in Element, NEW t \in Text, c.type # "cr"
  PROVE  normalize[<<c>> \o t] = <<c>> \o normalize[t]
<1>. DEFINE e == <<c>>
            s == e \o t
<1>0. e \in Text /\ Len(e) = 1
  BY One
<1>1. /\ s \in Text /\ Len(s) = 1 + Len(t) /\ s[1] = c /\ Len(t) \in Nat
  BY DEF Text
<1>. HIDE DEF e
<1>2. SubSeq(s, 2, Len(s)) = t
  <2>1. SubSeq(s, Len(e) + 1, Len(s)) = t
    BY <1>0, Second
  <2>. QED
    BY <1>0, <2>1
<1>. HIDE DEF s
<1>3. s # <<>>
  BY <1>1, NoText
<1>4. Taken(s) = 1
  BY <1>1 DEF Taken
<1>5. normalize[s] = <<AsLf(s[1])>> \o normalize[SubSeq(s, Taken(s) + 1, Len(s))]
  BY <1>1, <1>3, NormalizeIs
<1>6. AsLf(s[1]) = c /\ SubSeq(s, Taken(s) + 1, Len(s)) = t
  BY <1>1, <1>2, <1>4, LineFeed
<1>7. normalize[s] = <<c>> \o normalize[t]
  BY <1>5, <1>6
<1>. QED
  BY <1>7 DEF s, e

\* normalize on a text that begins with a carriage return: a CRLF is one line end.
LEMMA NormalizeEol ==
  ASSUME NEW lineEnd \in {"lf", "crlf"}, NEW t \in Text
  PROVE  /\ Eol(lineEnd) \o t \in Text
         /\ normalize[Eol(lineEnd) \o t] = <<Plain("lf")>> \o normalize[t]
<1>1. Plain("lf").type = "lf" /\ Plain("cr").type = "cr"
  BY DEF Plain
<1>2. CASE lineEnd = "lf"
  <2>1. Eol(lineEnd) = <<Plain("lf")>>
    BY <1>2 DEF Eol
  <2>2. <<Plain("lf")>> \o t \in Text
    BY LineFeed, One, Joined
  <2>3. normalize[<<Plain("lf")>> \o t] = <<Plain("lf")>> \o normalize[t]
    <3>1. ASSUME NEW c \in Element, c.type # "cr"
          PROVE  normalize[<<c>> \o t] = <<c>> \o normalize[t]
      BY <3>1, NormalizeChar
    <3>. QED
      BY <1>1, <3>1, LineFeed
  <2>. QED
    BY <2>1, <2>2, <2>3
<1>3. CASE lineEnd = "crlf"
  <2>. DEFINE e == <<Plain("cr"), Plain("lf")>>
              s == e \o t
  <2>1. e \in Text /\ Len(e) = 2 /\ e[1] = Plain("cr") /\ e[2] = Plain("lf")
    BY LineFeed DEF Text
  <2>2. Eol(lineEnd) = e
    BY <1>3 DEF Eol
  <2>3. /\ s \in Text /\ Len(s) = 2 + Len(t) /\ Len(t) \in Nat
        /\ s[1] = Plain("cr") /\ s[2] = Plain("lf")
    BY LineFeed DEF Text
  <2>. HIDE DEF e
  <2>4. SubSeq(s, 3, Len(s)) = t
    <3>1. SubSeq(s, Len(e) + 1, Len(s)) = t
      BY <2>1, Second
    <3>. QED
      BY <2>1, <3>1
  <2>. HIDE DEF s
  <2>5. s # <<>>
    BY <2>3, NoText
  <2>6. Taken(s) = 2
    BY <1>1, <2>3 DEF Taken
  <2>7. normalize[s] = <<AsLf(s[1])>> \o normalize[SubSeq(s, Taken(s) + 1, Len(s))]
    BY <2>3, <2>5, NormalizeIs
  <2>8. AsLf(s[1]) = Plain("lf") /\ SubSeq(s, Taken(s) + 1, Len(s)) = t
    BY <1>1, <2>3, <2>4, <2>6 DEF AsLf
  <2>9. normalize[s] = <<Plain("lf")>> \o normalize[t]
    BY <2>7, <2>8
  <2>. QED
    BY <2>2, <2>3, <2>9 DEF s
<1>. QED
  BY <1>2, <1>3

\* No line end is cut in two between a and b.
Meets(a, b) == a # <<>> /\ b # <<>> /\ a[Len(a)].type = "cr" => b[1].type # "lf"

\* The texts that may be cut anywhere in this way.
Cuttable == {s \in Text : \A u \in Text :
                Meets(s, u) => normalize[s \o u] = normalize[s] \o normalize[u]}

\* Texts that do not cut a CRLF in two are normalized one by one.
LEMMA NormalizeParts ==
  ASSUME NEW a \in Text, NEW b \in Text, Meets(a, b)
  PROVE  normalize[a \o b] = normalize[a] \o normalize[b]
<1>1. ASSUME NEW s \in Text, \A t \in Text : Len(t) < Len(s) => t \in Cuttable
      PROVE  s \in Cuttable
  <2>1. SUFFICES ASSUME NEW u \in Text, Meets(s, u)
                 PROVE  normalize[s \o u] = normalize[s] \o normalize[u]
    BY DEF Cuttable
  <2>2. CASE s = <<>>
    <3>1. normalize[s] = <<>> /\ normalize[u] \in Text
      BY <2>2, NormalizeIs, NoText
    <3>. QED
      BY <2>2, <3>1, NoText
  <2>3. CASE s # <<>>
    <3>. DEFINE both == s \o u
                r == SubSeq(s, Taken(s) + 1, Len(s))
    <3>1. /\ Len(s) \in Nat /\ Len(s) > 0 /\ Len(u) \in Nat /\ (u # <<>> => Len(u) > 0)
          /\ s[1] \in Element
      BY <2>3, Char
    <3>2. /\ both \in Text /\ Len(both) = Len(s) + Len(u)
          /\ both[1] = s[1] /\ (Len(s) > 1 => both[2] = s[2])
          /\ \A i \in 1 .. Len(u) : both[Len(s) + i] = u[i]
      BY <3>1, Joined
    <3>3. Taken(s) \in {1, 2} /\ Taken(s) \in 0 .. Len(s)
      BY <3>1 DEF Taken
    <3>4. SubSeq(both, Taken(s) + 1, Len(both)) = r \o u
      BY <3>3, Behind
    <3>5. /\ r \in Text /\ Len(r) = Len(s) - Taken(s)
          /\ \A i \in 1 .. Len(s) - Taken(s) : r[i] = s[Taken(s) + i]
      BY <3>3, Dropped
    <3>6. normalize[s] = <<AsLf(s[1])>> \o normalize[r]
      BY <2>3, NormalizeIs
    <3>. HIDE DEF r, both
    <3>7. Taken(both) = Taken(s)
      <4>1. CASE Len(s) > 1
        BY <3>1, <3>2, <4>1 DEF Taken
      <4>2. CASE Len(s) = 1 /\ u # <<>>
        <5>1. both[2] = u[1]
          <6>1. 1 \in 1 .. Len(u) /\ Len(s) + 1 = 2
            BY <3>1, <4>2
          <6>. QED
            BY <3>2, <6>1
        <5>2. ~(s[1].type = "cr" /\ u[1].type = "lf")
          BY <2>1, <2>3, <4>2 DEF Meets
        <5>. QED
          BY <3>2, <4>2, <5>1, <5>2 DEF Taken
      <4>3. CASE Len(s) = 1 /\ u = <<>>
        <5>1. Len(u) = 0
          BY <4>3, NoText
        <5>2. ~(Len(both) > 1)
          BY <3>2, <4>3, <5>1
        <5>. QED
          BY <4>3, <5>2 DEF Taken
      <4>4. Len(s) > 1 \/ Len(s) = 1
        <5>1. \A n \in Nat : n > 0 => n > 1 \/ n = 1
          OBVIOUS
        <5>. QED
          BY <3>1, <5>1, Zenon
      <4>. QED
        BY <4>1, <4>2, <4>3, <4>4
    <3>8. normalize[both] = <<AsLf(s[1])>> \o normalize[r \o u]
      <4>1. both # <<>>
        BY <3>1, <3>2, NoText
      <4>2. normalize[both]
                = <<AsLf(both[1])>> \o normalize[SubSeq(both, Taken(both) + 1, Len(both))]
        BY <3>2, <4>1, NormalizeIs
      <4>3. both[1] = s[1] /\ SubSeq(both, Taken(both) + 1, Len(both)) = r \o u
        BY <3>2, <3>4, <3>7
      <4>. QED
        BY <4>2, <4>3
    <3>9. Meets(r, u)
      <4>1. SUFFICES ASSUME r # <<>> PROVE r[Len(r)] = s[Len(s)]
        BY <2>1, <2>3 DEF Meets
      <4>2. Len(r) > 0 /\ Len(r) \in Nat
        BY <3>5, <4>1, Char
      <4>3. Len(r) \in 1 .. Len(s) - Taken(s) /\ Taken(s) + Len(r) = Len(s)
        BY <3>1, <3>3, <3>5, <4>2
      <4>. QED
        BY <3>5, <4>3
    <3>10. normalize[r \o u] = normalize[r] \o normalize[u]
      <4>1. Len(r) < Len(s)
        BY <3>1, <3>3, <3>5
      <4>2. r \in Cuttable
        BY <1>1, <3>5, <4>1
      <4>. QED
        BY <3>9, <4>2 DEF Cuttable
    <3>11. /\ <<AsLf(s[1])>> \in Text /\ normalize[r] \in Text /\ normalize[u] \in Text
      BY <3>1, <3>5, One, LineFeed, NormalizeIs
    <3>12. normalize[both] = (<<AsLf(s[1])>> \o normalize[r]) \o normalize[u]
      <4>1. ASSUME NEW x \in Text
            PROVE  x \o (normalize[r] \o normalize[u]) = (x \o normalize[r]) \o normalize[u]
        BY <3>11, Regrouped
      <4>2. <<AsLf(s[1])>> \o normalize[r \o u]
                = <<AsLf(s[1])>> \o (normalize[r] \o normalize[u])
        BY <3>10
      <4>. QED
        BY <3>8, <3>11, <4>1, <4>2
    <3>. QED
      BY <3>6, <3>12 DEF both
  <2>. QED
    BY <2>2, <2>3
<1>2. a \in Cuttable
  BY <1>1, ByLength
<1>. QED
  BY <1>2 DEF Cuttable

-----------------------------------------------------------------------------
(* The messages of a server, and what normalize makes of them.             *)

\* The texts whose lines are kept as they are.
Kept == {t \in Text : \A j \in 1 .. Len(normalize[t]) :
            normalize[t][j] = Plain("lf") \/ \E i \in 1 .. Len(t) : t[i] = normalize[t][j]}

\* normalize keeps every line as it is.
LEMMA NormalizeKeeps ==
  ASSUME NEW t \in Text
  PROVE  \A j \in 1 .. Len(normalize[t]) :
            normalize[t][j] = Plain("lf") \/ \E i \in 1 .. Len(t) : t[i] = normalize[t][j]
<1>1. ASSUME NEW s \in Text, \A u \in Text : Len(u) < Len(s) => u \in Kept
      PROVE  s \in Kept
  <2>1. CASE s = <<>>
    <3>1. normalize[s] = <<>> /\ Len(<<>>) = 0
      BY <2>1, NormalizeIs, NoText
    <3>. QED
      BY <3>1 DEF Kept
  <2>2. CASE s # <<>>
    <3>. DEFINE r == SubSeq(s, Taken(s) + 1, Len(s))
                c == <<AsLf(s[1])>>
    <3>1. Len(s) \in Nat /\ Len(s) > 0 /\ s[1] \in Element
      BY <2>2, Char
    <3>2. Taken(s) \in {1, 2} /\ Taken(s) \in 0 .. Len(s)
      BY <3>1 DEF Taken
    <3>3. /\ r \in Text /\ Len(r) = Len(s) - Taken(s)
          /\ \A i \in 1 .. Len(s) - Taken(s) : r[i] = s[Taken(s) + i]
      BY <3>2, Dropped
    <3>4. normalize[s] = c \o normalize[r]
      BY <2>2, NormalizeIs
    <3>5. c \in Text /\ Len(c) = 1 /\ c[1] = AsLf(s[1])
      BY <3>1, One, LineFeed
    <3>. HIDE DEF r, c
    <3>6. r \in Kept
      <4>1. Len(r) < Len(s)
        BY <3>1, <3>2, <3>3
      <4>. QED
        BY <1>1, <3>3, <4>1
    <3>7. ASSUME NEW j \in 1 .. Len(normalize[s])
          PROVE  normalize[s][j] = Plain("lf") \/ \E i \in 1 .. Len(s) : s[i] = normalize[s][j]
      <4>0. normalize[r] \in Text /\ Len(normalize[r]) \in Nat
        BY <3>3, NormalizeIs, Char
      <4>1. /\ Len(normalize[s]) = Len(c) + Len(normalize[r])
            /\ \A i \in 1 .. Len(c) : normalize[s][i] = c[i]
            /\ \A i \in 1 .. Len(normalize[r]) : normalize[s][Len(c) + i] = normalize[r][i]
        <5>. DEFINE both == c \o normalize[r]
        <5>1. /\ Len(both) = Len(c) + Len(normalize[r])
              /\ \A i \in 1 .. Len(c) : both[i] = c[i]
              /\ \A i \in 1 .. Len(normalize[r]) : both[Len(c) + i] = normalize[r][i]
          BY <3>5, <4>0, Joined
        <5>2. normalize[s] = both
          BY <3>4
        <5>. HIDE DEF both
        <5>. QED
          BY <5>1, <5>2
      <4>2. CASE j = 1
        <5>1. normalize[s][j] = AsLf(s[1])
          BY <3>5, <4>1, <4>2
        <5>2. 1 \in 1 .. Len(s)
          BY <3>1
        <5>. QED
          BY <5>1, <5>2 DEF AsLf
      <4>3. CASE j # 1
        <5>1. PICK k \in 1 .. Len(normalize[r]) : j = 1 + k
          <6>1. j - 1 \in 1 .. Len(normalize[r]) /\ j = 1 + (j - 1)
            BY <3>5, <4>0, <4>1, <4>3
          <6>. QED
            BY <6>1
        <5>2. normalize[s][j] = normalize[r][k]
          BY <3>5, <4>1, <5>1
        <5>3. CASE \E i \in 1 .. Len(r) : r[i] = normalize[r][k]
          <6>1. PICK i \in 1 .. Len(r) : r[i] = normalize[r][k]
            BY <5>3
          <6>2. r[i] = s[Taken(s) + i] /\ Taken(s) + i \in 1 .. Len(s)
            BY <3>1, <3>2, <3>3
          <6>. QED
            BY <5>2, <6>1, <6>2
        <5>. QED
          BY <3>6, <5>1, <5>2, <5>3 DEF Kept
      <4>. QED
        BY <4>2, <4>3
    <3>. QED
      BY <3>7 DEF Kept
  <2>. QED
    BY <2>1, <2>2
<1>2. t \in Kept
  BY <1>1, ByLength
<1>. QED
  BY <1>2 DEF Kept

\* The data line of a frame, a frame and a ping, with line feeds only.
Note(count) == [type |-> "data", count |-> count]

\* A message of the server as the parser reads it.
Lf == Plain("lf")
PlainFrame(count) == <<Plain("event"), Lf, Note(count), Lf, Lf>>
PlainPing == <<Plain("comment"), Lf, Lf>>

\* The elements of a frame are elements.
LEMMA Chars ==
  /\ \A count \in Nat : Note(count) \in Element
  /\ Lf \in Element /\ Plain("event") \in Element /\ Plain("comment") \in Element
  /\ Lf.type = "lf" /\ Plain("event").type = "event" /\ Plain("comment").type = "comment"
BY DEF Note, Lf, Plain, Element

\* A line end is a text, which normalize makes a line feed.
LEMMA EolText ==
  ASSUME NEW lineEnd \in {"lf", "crlf"}
  PROVE  /\ Eol(lineEnd) \in Text
         /\ normalize[Eol(lineEnd)] = <<Lf>>
<1>1. Eol(lineEnd) \in Text
  BY LineFeed DEF Eol, Text
<1>2. Eol(lineEnd) \o <<>> = Eol(lineEnd) /\ <<Lf>> \o <<>> = <<Lf>> /\ normalize[<<>>] = <<>>
  BY <1>1, NoText, One, Chars, NormalizeIs
<1>3. normalize[Eol(lineEnd) \o <<>>] = <<Plain("lf")>> \o normalize[<<>>]
  BY NormalizeEol, NoText
<1>. QED
  BY <1>1, <1>2, <1>3 DEF Lf

\* A text of one line is normal.
LEMMA NormalizeOne ==
  ASSUME NEW c \in Element, c.type # "cr", NEW t \in Text
  PROVE  <<c>> \o t \in Text /\ normalize[<<c>> \o t] = <<c>> \o normalize[t]
BY One, Joined, NormalizeChar

\* Texts, one after the other.
LEMMA Chain ==
  ASSUME NEW x \in Text, NEW y \in Text, NEW z \in Text
  PROVE  /\ x \o y \o z \o y \o y = x \o (y \o (z \o (y \o y)))
         /\ x \o y \o y = x \o (y \o y)
<1>. DEFINE xy == x \o y
            yy == y \o y
            xyz == xy \o z
            zyy == z \o yy
<1>1. xy \in Text /\ yy \in Text
  BY Joined
<1>2. xy \o y = x \o yy
  BY Regrouped
<1>3. xy \o zyy = x \o (y \o zyy)
  <2>1. zyy \in Text
    BY <1>1, Joined
  <2>. HIDE DEF zyy
  <2>. QED
    BY <2>1, Regrouped
<1>. HIDE DEF xy, yy
<1>4. xyz \in Text /\ xyz \o yy = xy \o zyy
  <2>1. xyz \in Text
    BY <1>1, Joined
  <2>2. xyz \o yy = xy \o zyy
    BY <1>1, Regrouped
  <2>. QED
    BY <2>1, <2>2
<1>. HIDE DEF xyz, zyy
<1>5. (xyz \o y) \o y = xyz \o (y \o y)
  BY <1>4, Regrouped
<1>6. xyz \o y \o y = x \o (y \o zyy)
  BY <1>3, <1>4, <1>5 DEF yy
<1>. QED
  BY <1>2, <1>6 DEF xy, yy, xyz, zyy

\* A frame is a text, whatever ends its lines; normalize makes it the plain frame.
LEMMA FrameText ==
  ASSUME NEW lineEnd \in {"lf", "crlf"}, NEW count \in Nat
  PROVE  /\ Frame(lineEnd, count) \in Text
         /\ normalize[Frame(lineEnd, count)] = PlainFrame(count)
<1>. DEFINE e == Eol(lineEnd)
            a == <<Plain("event")>>
            d == <<Note(count)>>
            l == <<Lf>>
<1>1. e \in Text /\ a \in Text /\ d \in Text /\ l \in Text
  BY EolText, One, Chars
<1>2. Frame(lineEnd, count) = a \o e \o d \o e \o e
  BY DEF Frame, Note
<1>3. PlainFrame(count) = a \o l \o d \o l \o l
  BY Chars DEF PlainFrame
<1>4. ASSUME NEW t \in Text
      PROVE  /\ e \o t \in Text /\ normalize[e \o t] = l \o normalize[t]
             /\ a \o t \in Text /\ normalize[a \o t] = a \o normalize[t]
             /\ d \o t \in Text /\ normalize[d \o t] = d \o normalize[t]
  <2>1. e \o t \in Text /\ normalize[e \o t] = l \o normalize[t]
    BY NormalizeEol DEF Lf
  <2>2. Plain("event") \in Element /\ Plain("event").type # "cr"
    BY Chars
  <2>3. Note(count) \in Element /\ Note(count).type # "cr"
    BY Chars DEF Note
  <2>4. a \o t \in Text /\ normalize[a \o t] = a \o normalize[t]
    BY <2>2, NormalizeOne
  <2>5. d \o t \in Text /\ normalize[d \o t] = d \o normalize[t]
    BY <2>3, NormalizeOne
  <2>. QED
    BY <2>1, <2>4, <2>5
<1>5. normalize[e] = l
  BY EolText
<1>. HIDE DEF e, a, d, l
<1>6. e \o e \in Text /\ normalize[e \o e] = l \o l
  BY <1>1, <1>4, <1>5
<1>7. d \o (e \o e) \in Text /\ normalize[d \o (e \o e)] = d \o (l \o l)
  BY <1>4, <1>6
<1>8. e \o (d \o (e \o e)) \in Text /\ normalize[e \o (d \o (e \o e))] = l \o (d \o (l \o l))
  BY <1>4, <1>7
<1>9. /\ a \o (e \o (d \o (e \o e))) \in Text
      /\ normalize[a \o (e \o (d \o (e \o e)))] = a \o (l \o (d \o (l \o l)))
  BY <1>4, <1>8
<1>10. a \o e \o d \o e \o e = a \o (e \o (d \o (e \o e)))
  BY <1>1, Chain
<1>11. a \o l \o d \o l \o l = a \o (l \o (d \o (l \o l)))
  BY <1>1, Chain
<1>. QED
  BY <1>2, <1>3, <1>9, <1>10, <1>11

\* So is a ping.
LEMMA PingText ==
  ASSUME NEW lineEnd \in {"lf", "crlf"}
  PROVE  /\ Ping(lineEnd) \in Text
         /\ normalize[Ping(lineEnd)] = PlainPing
<1>. DEFINE e == Eol(lineEnd)
            a == <<Plain("comment")>>
            l == <<Lf>>
<1>1. e \in Text /\ a \in Text /\ l \in Text /\ normalize[e] = l
  BY EolText, One, Chars
<1>2. Ping(lineEnd) = a \o e \o e
  BY DEF Ping
<1>3. PlainPing = a \o l \o l
  BY Chars DEF PlainPing
<1>4. ASSUME NEW t \in Text
      PROVE  /\ e \o t \in Text /\ normalize[e \o t] = l \o normalize[t]
             /\ a \o t \in Text /\ normalize[a \o t] = a \o normalize[t]
  <2>1. e \o t \in Text /\ normalize[e \o t] = l \o normalize[t]
    BY NormalizeEol DEF Lf
  <2>2. Plain("comment") \in Element /\ Plain("comment").type # "cr"
    BY Chars
  <2>3. a \o t \in Text /\ normalize[a \o t] = a \o normalize[t]
    BY <2>2, NormalizeOne
  <2>. QED
    BY <2>1, <2>3
<1>. HIDE DEF e, a, l
<1>5. e \o e \in Text /\ normalize[e \o e] = l \o l
  BY <1>1, <1>4
<1>6. a \o (e \o e) \in Text /\ normalize[a \o (e \o e)] = a \o (l \o l)
  BY <1>4, <1>5
<1>7. a \o e \o e = a \o (e \o e) /\ a \o l \o l = a \o (l \o l)
  BY <1>1, Chain
<1>. QED
  BY <1>2, <1>3, <1>6, <1>7

-----------------------------------------------------------------------------
(* Texts of whole messages, whose numbers do not fall.                     *)

\* What a message begins with.
Starts == {"event", "comment"}

\* A whole frame begins at i.
EventAt(t, i) ==
    /\ i + 4 <= Len(t)
    /\ t[i + 1].type = "lf" /\ t[i + 2].type = "data" /\ t[i + 3].type = "lf" /\ t[i + 4].type = "lf"
    /\ i + 4 < Len(t) => t[i + 5].type \in Starts

\* A whole ping begins at i.
CommentAt(t, i) ==
    /\ i + 2 <= Len(t)
    /\ t[i + 1].type = "lf" /\ t[i + 2].type = "lf"
    /\ i + 2 < Len(t) => t[i + 3].type \in Starts

\* A text of whole messages of the server.
Framed(t) ==
    /\ 0 < Len(t) => t[1].type \in Starts
    /\ \A i \in 1 .. Len(t) :
        /\ t[i].type = "event" => EventAt(t, i)
        /\ t[i].type = "comment" => CommentAt(t, i)

\* The places of a text's data lines.
DataAt(t) == {i \in 1 .. Len(t) : t[i].type = "data"}

\* The counts that a text brings, which never fall.
Values(t) == {t[i].count : i \in DataAt(t)}

\* No number of a text is below an earlier one.
Rising(t) == \A i, j \in DataAt(t) : i < j => t[i].count <= t[j].count

\* What follows the first k of a text, where a message ends.
LEMMA Rest ==
  ASSUME NEW t \in Text, NEW k \in 0 .. Len(t), Framed(t), Rising(t),
         k < Len(t) => t[k + 1].type \in Starts,
         NEW r, r = SubSeq(t, k + 1, Len(t))
  PROVE  /\ r \in Text /\ Framed(r) /\ Rising(r)
         /\ Values(t) = Values(r) \cup {t[i].count : i \in {j \in DataAt(t) : j <= k}}
         /\ \A i \in DataAt(t) : i <= k => \A v \in Values(r) : t[i].count <= v
<1>1. /\ r \in Text /\ Len(r) = Len(t) - k /\ Len(t) \in Nat /\ k \in Nat /\ k <= Len(t)
      /\ \A i \in 1 .. Len(t) - k : r[i] = t[k + i]
  BY Dropped, Char
<1>2. ASSUME NEW i \in 1 .. Len(r)
      PROVE  i \in Nat /\ 1 <= i /\ k + i \in 1 .. Len(t) /\ r[i] = t[k + i]
  BY <1>1
<1>3. Framed(r)
  <2>1. ASSUME 0 < Len(r) PROVE r[1].type \in Starts
    BY <1>1, <2>1
  <2>2. ASSUME NEW i \in 1 .. Len(r), r[i].type = "event" PROVE EventAt(r, i)
    <3>1. EventAt(t, k + i)
      BY <1>2, <2>2 DEF Framed
    <3>2. /\ i + 4 <= Len(r)
          /\ i + 4 < Len(r) <=> k + i + 4 < Len(t)
      <4>1. k + i + 4 <= Len(t)
        BY <3>1 DEF EventAt
      <4>. QED
        BY <1>1, <1>2, <4>1
    <3>3. r[i + 1] = t[k + i + 1] /\ r[i + 2] = t[k + i + 2] /\ r[i + 3] = t[k + i + 3]
          /\ r[i + 4] = t[k + i + 4] /\ (i + 4 < Len(r) => r[i + 5] = t[k + i + 5])
      BY <1>1, <1>2, <3>2
    <3>. QED
      BY <3>1, <3>2, <3>3 DEF EventAt
  <2>3. ASSUME NEW i \in 1 .. Len(r), r[i].type = "comment" PROVE CommentAt(r, i)
    <3>1. CommentAt(t, k + i)
      BY <1>2, <2>3 DEF Framed
    <3>2. /\ i + 2 <= Len(r)
          /\ i + 2 < Len(r) <=> k + i + 2 < Len(t)
      BY <1>1, <1>2, <3>1 DEF CommentAt
    <3>3. r[i + 1] = t[k + i + 1] /\ r[i + 2] = t[k + i + 2]
          /\ (i + 2 < Len(r) => r[i + 3] = t[k + i + 3])
      BY <1>1, <1>2, <3>2
    <3>. QED
      BY <3>1, <3>2, <3>3 DEF CommentAt
  <2>. QED
    BY <2>1, <2>2, <2>3 DEF Framed
<1>4. ASSUME NEW i \in DataAt(r)
      PROVE  /\ i \in Nat /\ 1 <= i /\ k + i \in DataAt(t) /\ r[i] = t[k + i]
  BY <1>2 DEF DataAt
<1>5. ASSUME NEW i \in DataAt(t), ~(i <= k)
      PROVE  \E j \in DataAt(r) : t[i] = r[j]
  <2>1. i - k \in 1 .. Len(r) /\ k + (i - k) = i
    BY <1>1, <1>5 DEF DataAt
  <2>2. r[i - k] = t[i]
    BY <1>2, <2>1
  <2>. QED
    BY <2>1, <2>2 DEF DataAt
<1>6. Rising(r)
  <2>1. ASSUME NEW i \in DataAt(r), NEW j \in DataAt(r), i < j
        PROVE  r[i].count <= r[j].count
    <3>1. k + i \in DataAt(t) /\ k + j \in DataAt(t) /\ k + i < k + j
      BY <1>1, <1>4, <2>1
    <3>. QED
      BY <1>4, <3>1 DEF Rising
  <2>. QED
    BY <2>1 DEF Rising
<1>7. Values(t) = Values(r) \cup {t[i].count : i \in {j \in DataAt(t) : j <= k}}
  <2>1. ASSUME NEW v \in Values(r) PROVE v \in Values(t)
    BY <1>4 DEF Values
  <2>2. ASSUME NEW i \in DataAt(t)
        PROVE  t[i].count \in Values(r) \cup {t[n].count : n \in {j \in DataAt(t) : j <= k}}
    <3>1. CASE i <= k
      BY <3>1
    <3>2. CASE ~(i <= k)
      BY <1>5, <3>2 DEF Values
    <3>. QED
      BY <3>1, <3>2
  <2>. QED
    BY <2>1, <2>2 DEF Values
<1>8. ASSUME NEW i \in DataAt(t), i <= k, NEW v \in Values(r)
      PROVE  t[i].count <= v
  <2>1. PICK j \in DataAt(r) : v = r[j].count
    BY DEF Values
  <2>2. k + j \in DataAt(t) /\ i < k + j /\ v = t[k + j].count
    BY <1>1, <1>4, <1>8, <2>1 DEF DataAt
  <2>. QED
    BY <2>2 DEF Rising
<1>. QED
  BY <1>1, <1>3, <1>6, <1>7, <1>8

\* Text that is added.
LEMMA Added ==
  ASSUME NEW s \in Text, NEW t \in Text, Framed(s), Rising(s), Framed(t), Rising(t),
         \A v \in Values(s), w \in Values(t) : v <= w
  PROVE  /\ s \o t \in Text /\ Framed(s \o t) /\ Rising(s \o t)
         /\ Values(s \o t) = Values(s) \cup Values(t)
<1>. DEFINE b == s \o t
            n == Len(s)
<1>1. /\ b \in Text /\ Len(b) = n + Len(t) /\ n \in Nat /\ Len(t) \in Nat
      /\ \A i \in 1 .. n : b[i] = s[i]
      /\ \A i \in 1 .. Len(t) : b[n + i] = t[i]
  BY Joined, Char
<1>. HIDE DEF b
<1>2. Framed(b)
  <2>1. ASSUME 0 < Len(b) PROVE b[1].type \in Starts
    <3>1. CASE n = 0
      <4>1. 0 < Len(t) /\ 1 \in 1 .. Len(t) /\ n + 1 = 1
        BY <1>1, <2>1, <3>1
      <4>. QED
        BY <1>1, <4>1 DEF Framed
    <3>2. CASE n # 0
      <4>1. 0 < n /\ 1 \in 1 .. n
        BY <1>1, <3>2
      <4>. QED
        BY <1>1, <4>1 DEF Framed
    <3>. QED
      BY <3>1, <3>2
  <2>2. ASSUME NEW i \in 1 .. Len(b), b[i].type = "event" PROVE EventAt(b, i)
    <3>1. CASE i \in 1 .. n
      <4>1. EventAt(s, i)
        BY <1>1, <2>2, <3>1 DEF Framed
      <4>2. i + 4 <= n /\ i + 4 <= Len(b)
        BY <1>1, <4>1 DEF EventAt
      <4>3. b[i + 1] = s[i + 1] /\ b[i + 2] = s[i + 2] /\ b[i + 3] = s[i + 3] /\ b[i + 4] = s[i + 4]
        <5>1. i + 1 \in 1 .. n /\ i + 2 \in 1 .. n /\ i + 3 \in 1 .. n /\ i + 4 \in 1 .. n
          BY <1>1, <3>1, <4>2
        <5>. QED
          BY <1>1, <5>1
      <4>4. ASSUME i + 4 < Len(b) PROVE b[i + 5].type \in Starts
        <5>1. CASE i + 4 < n
          <6>1. b[i + 5] = s[i + 5]
            BY <1>1, <3>1, <5>1
          <6>. QED
            BY <4>1, <5>1, <6>1 DEF EventAt
        <5>2. CASE ~(i + 4 < n)
          <6>1. i + 5 = n + 1 /\ 0 < Len(t) /\ 1 \in 1 .. Len(t)
            BY <1>1, <3>1, <4>2, <4>4, <5>2
          <6>2. b[i + 5] = t[1]
            BY <1>1, <6>1
          <6>. QED
            BY <6>1, <6>2 DEF Framed
        <5>. QED
          BY <5>1, <5>2
      <4>. QED
        BY <4>1, <4>2, <4>3, <4>4 DEF EventAt
    <3>2. CASE ~(i \in 1 .. n)
      <4>1. PICK j \in 1 .. Len(t) : i = n + j
        <5>1. i - n \in 1 .. Len(t) /\ i = n + (i - n)
          BY <1>1, <3>2
        <5>. QED
          BY <5>1
      <4>2. EventAt(t, j)
        BY <1>1, <2>2, <4>1 DEF Framed
      <4>3. /\ i + 4 <= Len(b) /\ j + 4 <= Len(t)
            /\ i + 4 < Len(b) <=> j + 4 < Len(t)
        BY <1>1, <4>1, <4>2 DEF EventAt
      <4>4. b[i + 1] = t[j + 1] /\ b[i + 2] = t[j + 2] /\ b[i + 3] = t[j + 3]
            /\ b[i + 4] = t[j + 4] /\ (i + 4 < Len(b) => b[i + 5] = t[j + 5])
        <5>1. ASSUME NEW m \in Nat, j + m \in 1 .. Len(t) PROVE b[i + m] = t[j + m]
          BY <1>1, <4>1, <5>1
        <5>2. /\ j + 1 \in 1 .. Len(t) /\ j + 2 \in 1 .. Len(t) /\ j + 3 \in 1 .. Len(t)
              /\ j + 4 \in 1 .. Len(t) /\ (i + 4 < Len(b) => j + 5 \in 1 .. Len(t))
          BY <1>1, <4>1, <4>3
        <5>. QED
          BY <5>1, <5>2
      <4>. QED
        BY <4>2, <4>3, <4>4 DEF EventAt
    <3>. QED
      BY <3>1, <3>2
  <2>3. ASSUME NEW i \in 1 .. Len(b), b[i].type = "comment" PROVE CommentAt(b, i)
    <3>1. CASE i \in 1 .. n
      <4>1. CommentAt(s, i)
        BY <1>1, <2>3, <3>1 DEF Framed
      <4>2. i + 2 <= n /\ i + 2 <= Len(b)
        BY <1>1, <4>1 DEF CommentAt
      <4>3. b[i + 1] = s[i + 1] /\ b[i + 2] = s[i + 2]
        BY <1>1, <3>1, <4>2
      <4>4. ASSUME i + 2 < Len(b) PROVE b[i + 3].type \in Starts
        <5>1. CASE i + 2 < n
          <6>1. b[i + 3] = s[i + 3]
            BY <1>1, <3>1, <5>1
          <6>. QED
            BY <4>1, <5>1, <6>1 DEF CommentAt
        <5>2. CASE ~(i + 2 < n)
          <6>1. i + 3 = n + 1 /\ 0 < Len(t) /\ 1 \in 1 .. Len(t)
            BY <1>1, <3>1, <4>2, <4>4, <5>2
          <6>2. b[i + 3] = t[1]
            BY <1>1, <6>1
          <6>. QED
            BY <6>1, <6>2 DEF Framed
        <5>. QED
          BY <5>1, <5>2
      <4>. QED
        BY <4>1, <4>2, <4>3, <4>4 DEF CommentAt
    <3>2. CASE ~(i \in 1 .. n)
      <4>1. PICK j \in 1 .. Len(t) : i = n + j
        <5>1. i - n \in 1 .. Len(t) /\ i = n + (i - n)
          BY <1>1, <3>2
        <5>. QED
          BY <5>1
      <4>2. CommentAt(t, j)
        BY <1>1, <2>3, <4>1 DEF Framed
      <4>3. /\ i + 2 <= Len(b) /\ j + 2 <= Len(t)
            /\ i + 2 < Len(b) <=> j + 2 < Len(t)
        BY <1>1, <4>1, <4>2 DEF CommentAt
      <4>4. b[i + 1] = t[j + 1] /\ b[i + 2] = t[j + 2]
            /\ (i + 2 < Len(b) => b[i + 3] = t[j + 3])
        <5>1. ASSUME NEW m \in Nat, j + m \in 1 .. Len(t) PROVE b[i + m] = t[j + m]
          BY <1>1, <4>1, <5>1
        <5>2. /\ j + 1 \in 1 .. Len(t) /\ j + 2 \in 1 .. Len(t)
              /\ (i + 2 < Len(b) => j + 3 \in 1 .. Len(t))
          BY <1>1, <4>1, <4>3
        <5>. QED
          BY <5>1, <5>2
      <4>. QED
        BY <4>2, <4>3, <4>4 DEF CommentAt
    <3>. QED
      BY <3>1, <3>2
  <2>. QED
    BY <2>1, <2>2, <2>3 DEF Framed
<1>3. ASSUME NEW i \in DataAt(b)
      PROVE  \/ i \in DataAt(s) /\ b[i] = s[i]
             \/ \E j \in DataAt(t) : i = n + j /\ b[i] = t[j]
  <2>1. CASE i \in 1 .. n
    BY <1>1, <2>1 DEF DataAt
  <2>2. CASE ~(i \in 1 .. n)
    <3>1. i - n \in 1 .. Len(t) /\ i = n + (i - n)
      BY <1>1, <2>2 DEF DataAt
    <3>2. b[i] = t[i - n]
      BY <1>1, <3>1
    <3>. QED
      BY <3>1, <3>2 DEF DataAt
  <2>. QED
    BY <2>1, <2>2
<1>4. ASSUME NEW i \in DataAt(s) PROVE i \in DataAt(b) /\ b[i] = s[i]
  BY <1>1 DEF DataAt
<1>5. ASSUME NEW i \in DataAt(t) PROVE n + i \in DataAt(b) /\ b[n + i] = t[i]
  BY <1>1 DEF DataAt
<1>6. Values(b) = Values(s) \cup Values(t)
  BY <1>3, <1>4, <1>5 DEF Values
<1>7. Rising(b)
  <2>1. SUFFICES ASSUME NEW i \in DataAt(b), NEW j \in DataAt(b), i < j
                 PROVE  b[i].count <= b[j].count
    BY DEF Rising
  <2>2. CASE j \in DataAt(s) /\ b[j] = s[j]
    <3>1. i \in DataAt(s) /\ b[i] = s[i]
      BY <1>1, <2>1, <2>2 DEF DataAt
    <3>. QED
      BY <2>1, <2>2, <3>1 DEF Rising
  <2>3. ASSUME NEW m \in DataAt(t), j = n + m, b[j] = t[m]
        PROVE  b[i].count <= b[j].count
    <3>1. CASE i \in DataAt(s) /\ b[i] = s[i]
      BY <2>3, <3>1 DEF Values
    <3>2. ASSUME NEW l \in DataAt(t), i = n + l, b[i] = t[l]
          PROVE  b[i].count <= b[j].count
      <4>1. l < m
        BY <1>1, <2>1, <2>3, <3>2 DEF DataAt
      <4>. QED
        BY <2>3, <3>2, <4>1 DEF Rising
    <3>. QED
      BY <1>3, <3>1, <3>2
  <2>. QED
    BY <1>3, <2>2, <2>3
<1>. QED
  BY <1>1, <1>2, <1>6, <1>7 DEF b

-----------------------------------------------------------------------------
(* What split reads from a text of messages.                               *)

\* The first block of a text of messages is the first message.
LEMMA FirstBlock ==
  ASSUME NEW p \in Text, NEW q \in Text, Framed(p \o q), Rising(p \o q), Boundaries(p) # {},
         NEW r, r = Later(p) \o q
  PROVE  /\ r \in Text /\ Framed(r) /\ Rising(r)
         /\ \/ Unread(Block(p)) = <<>> /\ Values(p \o q) = Values(r)
            \/ \E c \in Nat : /\ Unread(Block(p)) = <<c>>
                              /\ Values(p \o q) = {c} \cup Values(r)
                              /\ \A v \in Values(r) : c <= v
<1>. DEFINE t == p \o q
            n == Len(p)
<1>1. /\ t \in Text /\ Len(t) = n + Len(q) /\ n \in Nat /\ Len(q) \in Nat
      /\ \A i \in 1 .. n : t[i] = p[i] /\ p[i] \in Element
  BY Joined, Char
<1>2. /\ Boundary(p) \in 1 .. n - 1
      /\ p[Boundary(p)].type = "lf" /\ p[Boundary(p) + 1].type = "lf"
      /\ \A j \in 1 .. n - 1 : p[j].type = "lf" /\ p[j + 1].type = "lf" => Boundary(p) <= j
  BY BoundaryIs DEF Boundaries
<1>3. ASSUME NEW k \in {3, 5}, Boundary(p) = k - 1
      PROVE  r = SubSeq(t, k + 1, Len(t)) /\ k \in 0 .. Len(t)
  <2>1. k \in 0 .. n /\ k \in 0 .. Len(t) /\ k + 1 = Boundary(p) + 2
    BY <1>1, <1>2, <1>3
  <2>2. Later(p) = SubSeq(p, k + 1, n)
    BY <2>1 DEF Later
  <2>. QED
    BY <2>1, <2>2, Behind
<1>. HIDE DEF t
<1>4. Framed(t) /\ Rising(t) /\ n > 1 /\ t[1] = p[1] /\ t[1].type \in Starts /\ 1 \in 1 .. Len(t)
  BY <1>1, <1>2 DEF Framed, t
<1>5. CASE t[1].type = "comment"
  <2>1. CommentAt(t, 1)
    BY <1>4, <1>5 DEF Framed
  <2>2. 3 <= Len(t) /\ t[2].type = "lf" /\ t[3].type = "lf" /\ (3 < Len(t) => t[4].type \in Starts)
    BY <2>1 DEF CommentAt
  <2>3. Boundary(p) # 1
    BY <1>2, <1>4, <1>5
  <2>4. Boundary(p) = 2
    <3>1. 2 \in 1 .. n - 1 /\ 2 \in 1 .. n /\ 3 \in 1 .. n
      BY <1>1, <1>2, <2>3
    <3>2. Boundary(p) <= 2
      BY <1>1, <1>2, <2>2, <3>1
    <3>. QED
      BY <1>2, <2>3, <3>2
  <2>5. r = SubSeq(t, 3 + 1, Len(t)) /\ 3 \in 0 .. Len(t) /\ 3 + 1 = 4
    BY <1>3, <2>4
  <2>6. /\ r \in Text /\ Framed(r) /\ Rising(r)
        /\ Values(t) = Values(r) \cup {t[i].count : i \in {j \in DataAt(t) : j <= 3}}
    <3>1. ASSUME NEW k \in 0 .. Len(t), k = 3
          PROVE  /\ r \in Text /\ Framed(r) /\ Rising(r)
                 /\ Values(t) = Values(r) \cup {t[i].count : i \in {j \in DataAt(t) : j <= k}}
                 /\ \A i \in DataAt(t) : i <= k => \A v \in Values(r) : t[i].count <= v
      <4>1. r = SubSeq(t, k + 1, Len(t)) /\ (k < Len(t) => t[k + 1].type \in Starts)
        BY <2>2, <2>5, <3>1
      <4>. QED
        BY <1>1, <1>4, <4>1, Rest
    <3>. QED
      BY <2>5, <3>1
  <2>7. {j \in DataAt(t) : j <= 3} = {}
    <3>1. ASSUME NEW j \in DataAt(t), j <= 3 PROVE FALSE
      <4>1. j \in {1, 2, 3} /\ t[j].type = "data"
        BY <3>1 DEF DataAt
      <4>. QED
        BY <1>5, <2>2, <4>1
    <3>. QED
      BY <3>1
  <2>8. Unread(Block(p)) = <<>>
    <3>1. Block(p) = SubSeq(p, 1, 1)
      BY <2>4 DEF Block
    <3>2. Len(Block(p)) = 1 /\ Block(p)[1] = p[1]
      BY <1>4, <3>1 DEF Text
    <3>3. Lines(Block(p), "data") = {}
      BY <1>4, <1>5, <3>2 DEF Lines
    <3>. QED
      BY <3>3 DEF Unread
  <2>. QED
    BY <2>6, <2>7, <2>8 DEF t
<1>6. CASE t[1].type = "event"
  <2>1. EventAt(t, 1)
    BY <1>4, <1>6 DEF Framed
  <2>2. /\ 5 <= Len(t) /\ t[2].type = "lf" /\ t[3].type = "data" /\ t[4].type = "lf"
        /\ t[5].type = "lf" /\ (5 < Len(t) => t[6].type \in Starts)
    BY <2>1 DEF EventAt
  <2>3. Boundary(p) # 1
    BY <1>2, <1>4, <1>6
  <2>4. Boundary(p) # 2
    <3>1. ASSUME Boundary(p) = 2 PROVE FALSE
      <4>1. 3 \in 1 .. n /\ p[3].type = "lf"
        BY <1>1, <1>2, <3>1
      <4>. QED
        BY <1>1, <2>2, <4>1
    <3>. QED
      BY <3>1
  <2>5. Boundary(p) # 3
    <3>1. ASSUME Boundary(p) = 3 PROVE FALSE
      <4>1. 3 \in 1 .. n /\ p[3].type = "lf"
        BY <1>1, <1>2, <3>1
      <4>. QED
        BY <1>1, <2>2, <4>1
    <3>. QED
      BY <3>1
  <2>6. Boundary(p) = 4 /\ n >= 5
    <3>1. Boundary(p) >= 4 /\ 4 \in 1 .. n - 1 /\ 4 \in 1 .. n /\ 5 \in 1 .. n
      BY <1>1, <1>2, <2>3, <2>4, <2>5
    <3>2. Boundary(p) <= 4
      BY <1>1, <1>2, <2>2, <3>1
    <3>. QED
      BY <1>2, <3>1, <3>2
  <2>7. r = SubSeq(t, 5 + 1, Len(t)) /\ 5 \in 0 .. Len(t) /\ 5 + 1 = 6
    BY <1>3, <2>6
  <2>8. /\ r \in Text /\ Framed(r) /\ Rising(r)
        /\ Values(t) = Values(r) \cup {t[i].count : i \in {j \in DataAt(t) : j <= 5}}
        /\ \A i \in DataAt(t) : i <= 5 => \A v \in Values(r) : t[i].count <= v
    BY <1>1, <1>4, <2>2, <2>7, Rest
  <2>9. {j \in DataAt(t) : j <= 5} = {3} /\ 3 \in DataAt(t)
    <3>1. ASSUME NEW j \in DataAt(t), j <= 5 PROVE j = 3
      <4>1. j \in {1, 2, 3, 4, 5} /\ t[j].type = "data"
        BY <3>1 DEF DataAt
      <4>. QED
        BY <1>6, <2>2, <4>1
    <3>2. 3 \in DataAt(t)
      BY <2>2 DEF DataAt
    <3>. QED
      BY <3>1, <3>2
  <2>10. t[3].count \in Nat /\ t[3] = p[3]
    BY <1>1, <2>6 DEF Element
  <2>11. Unread(Block(p)) = <<t[3].count>>
    <3>1. Block(p) = SubSeq(p, 1, 3)
      BY <2>6 DEF Block
    <3>2. Len(Block(p)) = 3 /\ Block(p)[1] = p[1] /\ Block(p)[2] = p[2] /\ Block(p)[3] = p[3]
      BY <2>6, <3>1 DEF Text
    <3>3. p[2] = t[2]
      BY <1>1, <2>6
    <3>4. Lines(Block(p), "data") = {3} /\ 1 \in Lines(Block(p), "event")
      BY <1>4, <1>6, <2>2, <2>10, <3>2, <3>3 DEF Lines
    <3>5. (CHOOSE i \in Lines(Block(p), "data") : TRUE) = 3
      BY <3>4
    <3>. QED
      BY <2>10, <3>2, <3>4, <3>5 DEF Unread
  <2>12. Values(t) = {t[3].count} \cup Values(r)
    BY <2>8, <2>9
  <2>13. \A v \in Values(r) : t[3].count <= v
    BY <2>8, <2>9
  <2>. QED
    BY <2>8, <2>10, <2>11, <2>12, <2>13 DEF t
<1>. QED
  BY <1>4, <1>5, <1>6 DEF Starts

\* What split makes of the text p, which q follows: no count is lost, and the
\* last one handed out is between what came before and what comes after.
Parts(p, q) ==
    LET rest   == split[p].rest \o q
        counts == split[p].counts
    IN /\ rest \in Text /\ Framed(rest) /\ Rising(rest)
       /\ Values(rest) \subseteq Values(p \o q)
       /\ counts = <<>> => Values(p \o q) = Values(rest)
       /\ counts # <<>> => /\ counts[Len(counts)] \in Values(p \o q)
                           /\ \A v \in Values(rest) : counts[Len(counts)] <= v
                           /\ \A v \in Values(p \o q) : v <= counts[Len(counts)] \/ v \in Values(rest)

\* Whatever follows it.
Splits(p) == \A q \in Text : Framed(p \o q) /\ Rising(p \o q) => Parts(p, q)

\* The numbers of a text are natural.
LEMMA ValuesNat ==
  ASSUME NEW t \in Text
  PROVE  Values(t) \subseteq Nat
BY Char DEF Values, DataAt, Element

\* split reads a text of messages from the front: what it returns was in the blocks, in their
\* order, and what it leaves behaves as the rest of the same text.
LEMMA SplitParts ==
  ASSUME NEW b \in Text
  PROVE  Splits(b)
<1>1. ASSUME NEW p \in Text, \A u \in Text : Len(u) < Len(p) => u \in {x \in Text : Splits(x)}
      PROVE  p \in {x \in Text : Splits(x)}
  <2>1. SUFFICES ASSUME NEW q \in Text, Framed(p \o q), Rising(p \o q) PROVE Parts(p, q)
    BY DEF Splits
  <2>2. CASE Boundaries(p) = {}
    <3>1. split[p].counts = <<>> /\ split[p].rest = p /\ p \o q \in Text
      BY <2>2, SplitIs, Joined
    <3>. QED
      BY <2>1, <3>1 DEF Parts
  <2>3. CASE Boundaries(p) # {}
    <3>. DEFINE l == Later(p)
                t == p \o q
                r == l \o q
                u == Unread(Block(p))
                later == split[l]
                rest == later.rest \o q
                both == u \o later.counts
    <3>1. /\ l \in Text /\ Len(l) < Len(p) /\ later \in Parsed
          /\ split[p].counts = both /\ split[p].rest = later.rest
      BY <2>3, BlockAndLater, SplitIs
    <3>2. /\ r \in Text /\ Framed(r) /\ Rising(r)
          /\ \/ u = <<>> /\ Values(t) = Values(r)
             \/ \E c \in Nat : u = <<c>> /\ Values(t) = {c} \cup Values(r) /\ \A v \in Values(r) : c <= v
      BY <2>1, <2>3, FirstBlock
    <3>3. Parts(l, q)
      BY <1>1, <3>1, <3>2 DEF Splits
    <3>4. /\ rest \in Text /\ Framed(rest) /\ Rising(rest)
          /\ Values(rest) \subseteq Values(r)
          /\ later.counts = <<>> => Values(r) = Values(rest)
          /\ later.counts # <<>> =>
                /\ later.counts[Len(later.counts)] \in Values(r)
                /\ \A v \in Values(rest) : later.counts[Len(later.counts)] <= v
                /\ \A v \in Values(r) : v <= later.counts[Len(later.counts)] \/ v \in Values(rest)
      BY <3>3 DEF Parts
    <3>5. later.counts \in Seq(Nat)
      BY <3>1 DEF Parsed
    <3>6. Values(r) \subseteq Nat /\ Values(t) \subseteq Nat
      BY <3>2, ValuesNat, Joined
    <3>. HIDE DEF l, t, r, u, later, rest
    <3>7. CASE u = <<>> /\ Values(t) = Values(r)
      <4>1. both = later.counts
        BY <3>5, <3>7
      <4>. QED
        BY <3>1, <3>4, <3>7, <4>1 DEF Parts, t, rest
    <3>8. ASSUME NEW c \in Nat, u = <<c>>, Values(t) = {c} \cup Values(r), \A v \in Values(r) : c <= v
          PROVE  Parts(p, q)
      <4>1. both # <<>> /\ (later.counts = <<>> => both[Len(both)] = c)
            /\ (later.counts # <<>> => both[Len(both)] = later.counts[Len(later.counts)])
        BY <3>5, <3>8
      <4>. HIDE DEF both
      <4>2. CASE later.counts = <<>>
        <5>1. both[Len(both)] = c /\ Values(r) = Values(rest)
          BY <3>4, <4>1, <4>2
        <5>2. /\ c \in Values(t) /\ (\A v \in Values(rest) : c <= v)
              /\ \A v \in Values(t) : v <= c \/ v \in Values(rest)
          BY <3>8, <5>1
        <5>3. Values(rest) \subseteq Values(t)
          BY <3>8, <5>1
        <5>. QED
          BY <3>1, <3>4, <4>1, <5>1, <5>2, <5>3 DEF Parts, t, rest
      <4>3. CASE later.counts # <<>>
        <5>. DEFINE last == later.counts[Len(later.counts)]
        <5>1. both[Len(both)] = last
          BY <4>1, <4>3
        <5>2. /\ last \in Values(r)
              /\ \A v \in Values(rest) : last <= v
              /\ \A v \in Values(r) : v <= last \/ v \in Values(rest)
          BY <3>4, <4>3
        <5>. HIDE DEF last
        <5>3. \A v \in Values(t) : v <= last \/ v \in Values(rest)
          BY <3>8, <5>2
        <5>4. Values(rest) \subseteq Values(t) /\ last \in Values(t)
          BY <3>4, <3>8, <5>2
        <5>. QED
          BY <3>1, <3>4, <4>1, <5>1, <5>2, <5>3, <5>4 DEF Parts, t, rest
      <4>. QED
        BY <4>2, <4>3
    <3>. QED
      BY <3>2, <3>7, <3>8
  <2>. QED
    BY <2>2, <2>3
<1>2. b \in {x \in Text : Splits(x)}
  <2>. DEFINE S == {x \in Text : Splits(x)}
  <2>1. ASSUME NEW p \in Text, \A u \in Text : Len(u) < Len(p) => u \in S
        PROVE  p \in S
    BY <1>1, <2>1
  <2>. HIDE DEF S
  <2>2. b \in S
    BY <2>1, ByLength
  <2>. QED
    BY <2>2 DEF S
<1>. QED
  BY <1>2

\* split hands on nothing that was not there.
Leaves(t) == \A i \in 1 .. Len(split[t].rest) : \E j \in 1 .. Len(t) : split[t].rest[i] = t[j]

\* split leaves nothing that was not in the buffer.
LEMMA SplitLeaves ==
  ASSUME NEW b \in Text
  PROVE  Leaves(b)
<1>. DEFINE S == {x \in Text : Leaves(x)}
<1>1. ASSUME NEW p \in Text, \A u \in Text : Len(u) < Len(p) => u \in S
      PROVE  p \in S
  <2>1. CASE Boundaries(p) = {}
    <3>1. split[p].rest = p
      BY <2>1, SplitIs
    <3>. QED
      BY <3>1 DEF Leaves
  <2>2. CASE Boundaries(p) # {}
    <3>. DEFINE l == Later(p)
    <3>1. l \in Text /\ Len(l) < Len(p) /\ split[p].rest = split[l].rest
      BY <2>2, BlockAndLater, SplitIs
    <3>2. Leaves(l)
      BY <1>1, <3>1
    <3>3. ASSUME NEW j \in 1 .. Len(l)
          PROVE  \E i \in 1 .. Len(p) : l[j] = p[i]
      <4>1. Boundary(p) \in 1 .. Len(p) - 1 /\ Len(p) \in Nat
        BY <2>2, BoundaryIs, Char
      <4>2. Boundary(p) + 1 \in 0 .. Len(p) /\ (Boundary(p) + 1) + 1 = Boundary(p) + 2
        BY <4>1
      <4>3. /\ Len(l) = Len(p) - (Boundary(p) + 1)
            /\ \A i \in 1 .. Len(p) - (Boundary(p) + 1) : l[i] = p[Boundary(p) + 1 + i]
        BY <4>2, Dropped DEF Later
      <4>. HIDE DEF l
      <4>4. l[j] = p[Boundary(p) + 1 + j] /\ Boundary(p) + 1 + j \in 1 .. Len(p)
        BY <4>1, <4>3
      <4>. QED
        BY <4>4
    <3>. HIDE DEF l
    <3>4. ASSUME NEW i \in 1 .. Len(split[p].rest)
          PROVE  \E j \in 1 .. Len(p) : split[p].rest[i] = p[j]
      <4>1. PICK j \in 1 .. Len(l) : split[p].rest[i] = l[j]
        BY <3>1, <3>2 DEF Leaves
      <4>. QED
        BY <3>3, <4>1
    <3>. QED
      BY <3>4 DEF Leaves
  <2>. QED
    BY <2>1, <2>2
<1>. HIDE DEF S
<1>2. b \in S
  BY <1>1, ByLength
<1>. QED
  BY <1>2 DEF S

-----------------------------------------------------------------------------
(* What is still to come to a parser: what push does with a chunk.         *)

\* The elements of a text.
Marks(t) == {t[i] : i \in 1 .. Len(t)}

\* The three texts x, y and z, grouped in either way.
Grouped(x, y, z) == (x \o y) \o z = x \o (y \o z)

\* Grouping makes no difference.
LEMMA Regroup == \A x, y, z \in Text : Grouped(x, y, z)
<1>1. ASSUME NEW x \in Text, NEW y \in Text, NEW z \in Text
      PROVE  Grouped(x, y, z)
  BY Regrouped DEF Grouped
<1>. QED
  BY <1>1

\* The elements of two texts one after the other.
LEMMA MarksJoined ==
  ASSUME NEW s \in Text, NEW t \in Text
  PROVE  Marks(s \o t) = Marks(s) \cup Marks(t)
<1>. DEFINE b == s \o t
<1>1. /\ Len(b) = Len(s) + Len(t) /\ Len(s) \in Nat /\ Len(t) \in Nat
      /\ \A i \in 1 .. Len(s) : b[i] = s[i]
      /\ \A i \in 1 .. Len(t) : b[Len(s) + i] = t[i]
  BY Joined, Char
<1>. HIDE DEF b
<1>2. ASSUME NEW i \in 1 .. Len(b)
      PROVE  b[i] \in Marks(s) \cup Marks(t)
  <2>1. CASE i \in 1 .. Len(s)
    BY <1>1, <2>1 DEF Marks
  <2>2. CASE ~(i \in 1 .. Len(s))
    <3>1. i - Len(s) \in 1 .. Len(t) /\ i = Len(s) + (i - Len(s))
      BY <1>1, <2>2
    <3>2. b[i] = t[i - Len(s)]
      BY <1>1, <3>1
    <3>. QED
      BY <3>1, <3>2 DEF Marks
  <2>. QED
    BY <2>1, <2>2
<1>3. ASSUME NEW i \in 1 .. Len(s)
      PROVE  s[i] \in Marks(b)
  <2>1. i \in 1 .. Len(b) /\ b[i] = s[i]
    BY <1>1
  <2>. QED
    BY <2>1 DEF Marks
<1>4. ASSUME NEW i \in 1 .. Len(t)
      PROVE  t[i] \in Marks(b)
  <2>1. Len(s) + i \in 1 .. Len(b) /\ b[Len(s) + i] = t[i]
    BY <1>1
  <2>. QED
    BY <2>1 DEF Marks
<1>5. Marks(b) \subseteq Marks(s) \cup Marks(t)
  BY <1>2 DEF Marks
<1>6. Marks(s) \subseteq Marks(b) /\ Marks(t) \subseteq Marks(b)
  <2>1. \A x \in Marks(s) : \E i \in 1 .. Len(s) : x = s[i]
    BY DEF Marks
  <2>2. \A x \in Marks(t) : \E i \in 1 .. Len(t) : x = t[i]
    BY DEF Marks
  <2>. QED
    BY <1>3, <1>4, <2>1, <2>2
<1>. QED
  BY <1>5, <1>6 DEF b

\* A text that is cut in two is its parts, one after the other.
LEMMA MarksPart ==
  ASSUME NEW t \in Text, NEW k \in 0 .. Len(t)
  PROVE  /\ SubSeq(t, 1, k) \in Text /\ SubSeq(t, k + 1, Len(t)) \in Text
         /\ SubSeq(t, 1, k) \o SubSeq(t, k + 1, Len(t)) = t
         /\ Len(SubSeq(t, 1, k)) = k
<1>. DEFINE a == SubSeq(t, 1, k)
            b == SubSeq(t, k + 1, Len(t))
            c == a \o b
<1>1. Len(t) \in Nat /\ k \in Nat /\ k <= Len(t)
  BY Char
<1>2. /\ a \in Text /\ Len(a) = k /\ \A i \in 1 .. k : a[i] = t[i]
  BY <1>1 DEF Text
<1>3. /\ b \in Text /\ Len(b) = Len(t) - k /\ \A i \in 1 .. Len(t) - k : b[i] = t[k + i]
  BY Dropped
<1>. HIDE DEF a, b
<1>4. /\ c \in Text /\ Len(c) = Len(t)
      /\ \A i \in 1 .. Len(a) : c[i] = a[i]
      /\ \A i \in 1 .. Len(b) : c[Len(a) + i] = b[i]
  <2>1. /\ c \in Text /\ Len(c) = Len(a) + Len(b)
        /\ \A i \in 1 .. Len(a) : c[i] = a[i]
        /\ \A i \in 1 .. Len(b) : c[Len(a) + i] = b[i]
    BY <1>2, <1>3, Joined
  <2>. QED
    BY <1>1, <1>2, <1>3, <2>1
<1>. HIDE DEF c
<1>5. ASSUME NEW i \in 1 .. Len(c) PROVE c[i] = t[i]
  <2>1. CASE i \in 1 .. k
    BY <1>2, <1>4, <2>1
  <2>2. CASE ~(i \in 1 .. k)
    <3>1. i - k \in 1 .. Len(t) - k /\ i = k + (i - k)
      BY <1>1, <1>4, <2>2
    <3>2. c[k + (i - k)] = b[i - k] /\ b[i - k] = t[k + (i - k)]
      BY <1>2, <1>3, <1>4, <3>1
    <3>. QED
      BY <3>1, <3>2
  <2>. QED
    BY <2>1, <2>2
<1>6. c = t
  BY <1>4, <1>5, SameText
<1>. QED
  BY <1>2, <1>3, <1>6 DEF c, a, b

\* A line feed is all that normalize may add.
LEMMA MarksNormal ==
  ASSUME NEW t \in Text
  PROVE  normalize[t] \in Text /\ Marks(normalize[t]) \subseteq Marks(t) \cup {Lf}
BY NormalizeIs, NormalizeKeeps DEF Marks, Lf

\* split adds no element.
LEMMA MarksLeft ==
  ASSUME NEW t \in Text
  PROVE  /\ split[t].rest \in Text /\ split[t].counts \in Seq(Nat)
         /\ Marks(split[t].rest) \subseteq Marks(t)
<1>1. split[t] \in Parsed
  BY SplitIs
<1>. QED
  BY <1>1, SplitLeaves DEF Leaves, Marks, Parsed

\* What is held back at the end of a chunk.
Held == {h \in Text : h = <<>> \/ (Len(h) = 1 /\ h[1].type = "cr")}

\* What of a text is not held back.
Cut(t) == SubSeq(t, 1, Len(t) - Len(HoldBack(t)))

\* What is held back is a carriage return or nothing, and what is cut off there can be
\* normalized on its own.
LEMMA HoldBackIs ==
  ASSUME NEW t \in Text, NEW w \in Text
  PROVE  /\ HoldBack(t) \in Held /\ Cut(t) \in Text /\ t = Cut(t) \o HoldBack(t)
         /\ Meets(Cut(t), HoldBack(t) \o w)
<1>. DEFINE h == HoldBack(t)
            k == SubSeq(t, 1, Len(t) - Len(h))
<1>. HIDE DEF h
<1>1. CASE t # <<>> /\ t[Len(t)].type = "cr"
  <2>1. Len(t) \in Nat /\ Len(t) > 0 /\ Len(t) \in 1 .. Len(t) /\ t[Len(t)] \in Element
    BY <1>1, Char
  <2>2. h = <<t[Len(t)]>> /\ Len(h) = 1 /\ h[1] = t[Len(t)] /\ h \in Text
    BY <1>1, <2>1, One DEF HoldBack, h
  <2>3. Len(t) - 1 \in 0 .. Len(t) /\ (Len(t) - 1) + 1 = Len(t)
    BY <2>1
  <2>4. k \in Text /\ k \o SubSeq(t, Len(t), Len(t)) = t
    <3>1. ASSUME NEW n \in 0 .. Len(t), n + 1 = Len(t)
          PROVE  /\ SubSeq(t, 1, n) \in Text
                 /\ SubSeq(t, 1, n) \o SubSeq(t, Len(t), Len(t)) = t
      BY <3>1, MarksPart
    <3>. QED
      BY <2>2, <2>3, <3>1
  <2>5. SubSeq(t, Len(t), Len(t)) = h
    <3>. DEFINE l == SubSeq(t, Len(t), Len(t))
    <3>1. l \in Text /\ Len(l) = 1 /\ l[1] = t[Len(t)]
      BY <2>1 DEF Text
    <3>. HIDE DEF l
    <3>2. l = h
      BY <2>2, <3>1, SameText
    <3>. QED
      BY <3>2 DEF l
  <2>6. (h \o w)[1] = t[Len(t)]
    BY <2>2, Joined
  <2>. QED
    BY <1>1, <2>2, <2>4, <2>5, <2>6 DEF Meets, Held, Cut, h
<1>2. CASE ~(t # <<>> /\ t[Len(t)].type = "cr")
  <2>1. h = <<>> /\ Len(h) = 0 /\ h \in Text
    BY <1>2, NoText DEF HoldBack, h
  <2>2. k = t
    BY <2>1 DEF Text
  <2>. QED
    BY <1>2, <2>1, <2>2, NoText DEF Meets, Held, Cut, h
<1>. QED
  BY <1>1, <1>2

\* What a parser and what is on the way to it amount to, as plain messages.
Pending(held, buffer, w) == buffer \o normalize[held \o w]

\* The message m after the text w.
Extended(held, buffer, w, m) ==
    Pending(held, buffer, w \o m) = Pending(held, buffer, w) \o normalize[m]

\* A message that is sent is added to what is to come.
LEMMA PendingSent ==
  ASSUME NEW held \in Text, NEW buffer \in Text, NEW w \in Text, NEW m \in Text,
         m # <<>>, m[1].type # "lf"
  PROVE  /\ Pending(held, buffer, w) \in Text
         /\ Extended(held, buffer, w, m)
<1>. DEFINE t == held \o w
            all == w \o m
            nt == normalize[t]
            nm == normalize[m]
            b == buffer \o nt
<1>0. Meets(t, m)
  BY DEF Meets
<1>1. t \in Text /\ nt \in Text /\ nm \in Text /\ b \in Text
  BY Joined, NormalizeIs
<1>2. held \o all = t \o m
  <2>1. Grouped(held, w, m)
    BY Regroup
  <2>. QED
    BY <2>1 DEF Grouped
<1>. HIDE DEF t, all
<1>3. normalize[t \o m] = nt \o nm
  BY <1>0, <1>1, NormalizeParts
<1>. HIDE DEF nt, nm
<1>. HIDE DEF b
<1>4. b \o nm = buffer \o (nt \o nm)
  <2>1. Grouped(buffer, nt, nm)
    BY <1>1, Regroup
  <2>. QED
    BY <2>1 DEF Grouped, b
<1>5. Pending(held, buffer, w) = b
  BY DEF Pending, nt, b, t
<1>6. Pending(held, buffer, all) = buffer \o (nt \o nm)
  BY <1>2, <1>3 DEF Pending
<1>. QED
  BY <1>1, <1>4, <1>5, <1>6 DEF nm, all, Extended

\* The text t, of which some is held back, before the text two.
Resumed(held, buffer, w, two, t) ==
    /\ held \o w = Cut(t) \o (HoldBack(t) \o two)
    /\ Pending(held, buffer, w)
            = (buffer \o normalize[Cut(t)]) \o normalize[HoldBack(t) \o two]

\* A chunk that is received changes nothing of what is to come.
LEMMA PendingCut ==
  ASSUME NEW held \in Text, NEW buffer \in Text, NEW one \in Text, NEW two \in Text,
         NEW w, w = one \o two, NEW t \in Text, t = held \o one
  PROVE  Resumed(held, buffer, w, two, t)
<1>. DEFINE h == HoldBack(t)
            k == Cut(t)
            ht == h \o two
            nk == normalize[k]
            q == normalize[ht]
            b == buffer \o nk
<1>1. h \in Text /\ k \in Text /\ t = k \o h /\ Meets(k, ht)
  BY HoldBackIs DEF Held
<1>. HIDE DEF h, k
<1>2. ht \in Text /\ nk \in Text /\ q \in Text /\ b \in Text
  BY <1>1, Joined, NormalizeIs
<1>3. held \o w = k \o ht
  <2>1. Grouped(held, one, two) /\ Grouped(k, h, two)
    BY <1>1, Regroup
  <2>. QED
    BY <1>1, <2>1 DEF Grouped
<1>. HIDE DEF ht
<1>4. normalize[k \o ht] = nk \o q
  BY <1>1, <1>2, NormalizeParts
<1>. HIDE DEF nk, q, b
<1>5. b \o q = buffer \o (nk \o q)
  <2>1. Grouped(buffer, nk, q)
    BY <1>2, Regroup
  <2>. QED
    BY <2>1 DEF Grouped, b
<1>6. Pending(held, buffer, w) = b \o q
  BY <1>3, <1>4, <1>5 DEF Pending
<1>. QED
  BY <1>3, <1>6 DEF Resumed, b, q, nk, ht, h, k

\* The last of the counts that a chunk brought, if any.
Brought(counts, before, after) ==
    /\ after \subseteq before
    /\ counts = <<>> => before = after
    /\ counts # <<>> => /\ counts[Len(counts)] \in before
                        /\ \A v \in after : counts[Len(counts)] <= v
                        /\ \A v \in before : v <= counts[Len(counts)] \/ v \in after

\* The first of what is on the way arrive.
Chunked(held, buffer, w, size) ==
    LET pushed == push(buffer, held \o SubSeq(w, 1, size))
        two    == SubSeq(w, size + 1, Len(w))
        before == Pending(held, buffer, w)
        after  == Pending(pushed.parser.heldBack, pushed.parser.buffer, two)
    IN /\ two \in Text
       /\ pushed.parser.heldBack \in Held /\ pushed.parser.buffer \in Text
       /\ pushed.parser = [heldBack |-> pushed.parser.heldBack, buffer |-> pushed.parser.buffer]
       /\ Marks(pushed.parser.buffer) \subseteq Marks(buffer) \cup Marks(held) \cup Marks(w) \cup {Lf}
       /\ Marks(pushed.parser.heldBack) \subseteq Marks(held) \cup Marks(w)
       /\ pushed.counts \in Seq(Nat)
       /\ after \in Text /\ Framed(after) /\ Rising(after)
       /\ Brought(pushed.counts, Values(before), Values(after))

\* What push does with a chunk of the wire, whatever its size.
LEMMA Pushed ==
  ASSUME NEW held \in Held, NEW buffer \in Text, NEW w \in Text, NEW size \in 0 .. Len(w),
         Framed(Pending(held, buffer, w)), Rising(Pending(held, buffer, w))
  PROVE  Chunked(held, buffer, w, size)
<1>. DEFINE t == held \o SubSeq(w, 1, size)
            two == SubSeq(w, size + 1, Len(w))
            before == Pending(held, buffer, w)
            pushed == push(buffer, t)
            after == Pending(pushed.parser.heldBack, pushed.parser.buffer, two)
<1>. DEFINE one == SubSeq(w, 1, size)
            h == HoldBack(t)
            k == Cut(t)
            nk == normalize[k]
            p == buffer \o nk
            ht == h \o two
            q == normalize[ht]
<1>1. one \in Text /\ two \in Text /\ w = one \o two
  BY MarksPart
<1>2. held \in Text
  BY DEF Held
<1>3. t \in Text /\ t = held \o one
  BY <1>1, <1>2, Joined
<1>. HIDE DEF one, t, two, before
<1>4. pushed.parser.heldBack = h /\ pushed.parser.buffer = split[p].rest
      /\ pushed.parser = [heldBack |-> h, buffer |-> split[p].rest]
      /\ pushed.counts = split[p].counts
  BY DEF push, Cut
<1>. HIDE DEF pushed, after
<1>5. h \in Held /\ h \in Text /\ k \in Text
  BY <1>1, <1>3, HoldBackIs DEF Held
<1>6. Resumed(held, buffer, w, two, t)
  BY <1>1, <1>2, <1>3, PendingCut
<1>7. held \o w = k \o ht /\ before = p \o q
  BY <1>6 DEF Resumed, before
<1>. HIDE DEF h, k
<1>8. ht \in Text
  BY <1>1, <1>5, Joined
<1>. HIDE DEF ht
<1>9. nk \in Text /\ q \in Text /\ p \in Text
  BY <1>5, <1>8, NormalizeIs, Joined
<1>. HIDE DEF nk, q, p
<1>10. after = split[p].rest \o q
  BY <1>4 DEF Pending, ht, q, after
<1>11. Parts(p, q)
  BY <1>7, <1>9, SplitParts DEF Splits, before
<1>12. /\ after \in Text /\ Framed(after) /\ Rising(after)
       /\ Brought(pushed.counts, Values(before), Values(after))
  BY <1>4, <1>7, <1>10, <1>11 DEF Parts, Brought
<1>13. split[p].rest \in Text /\ split[p].counts \in Seq(Nat) /\ Marks(split[p].rest) \subseteq Marks(p)
  BY <1>9, MarksLeft
<1>14. Marks(p) \subseteq Marks(buffer) \cup Marks(held) \cup Marks(w) \cup {Lf}
       /\ Marks(h) \subseteq Marks(held) \cup Marks(w)
  <2>1. Marks(p) = Marks(buffer) \cup Marks(nk)
    BY <1>9, MarksJoined DEF p
  <2>2. Marks(nk) \subseteq Marks(k) \cup {Lf}
    BY <1>5, MarksNormal DEF nk
  <2>3. Marks(held \o w) = Marks(held) \cup Marks(w)
    BY <1>2, MarksJoined
  <2>4. Marks(k \o ht) = Marks(k) \cup Marks(ht)
    BY <1>5, <1>8, MarksJoined
  <2>5. Marks(ht) = Marks(h) \cup Marks(two)
    BY <1>1, <1>5, MarksJoined DEF ht
  <2>. QED
    BY <1>7, <2>1, <2>2, <2>3, <2>4, <2>5
<1>15. /\ two \in Text
       /\ pushed.parser.heldBack \in Held /\ pushed.parser.buffer \in Text
       /\ pushed.parser = [heldBack |-> pushed.parser.heldBack, buffer |-> pushed.parser.buffer]
       /\ Marks(pushed.parser.buffer) \subseteq Marks(buffer) \cup Marks(held) \cup Marks(w) \cup {Lf}
       /\ Marks(pushed.parser.heldBack) \subseteq Marks(held) \cup Marks(w)
       /\ pushed.counts \in Seq(Nat)
  BY <1>1, <1>4, <1>5, <1>13, <1>14
<1>. QED
  BY <1>12, <1>15 DEF Chunked, after, pushed, before, two, t

\* The message m is sent.
Longer(held, buffer, w, m) ==
    LET before == Pending(held, buffer, w)
        after  == Pending(held, buffer, w \o m)
    IN /\ after \in Text /\ Framed(after) /\ Rising(after)
       /\ Values(after) = Values(before) \cup Values(normalize[m])

\* What a message does that a server sends: the parser's texts stay typed, and what is to
\* come is longer by the plain message.
LEMMA Sent ==
  ASSUME NEW held \in Held, NEW buffer \in Text, NEW w \in Text, NEW m \in Text,
         Framed(Pending(held, buffer, w)), Rising(Pending(held, buffer, w)),
         m # <<>>, m[1].type \in Starts, Framed(normalize[m]), Rising(normalize[m]),
         \A v \in Values(Pending(held, buffer, w)), c \in Values(normalize[m]) : v <= c
  PROVE  Longer(held, buffer, w, m)
<1>. DEFINE before == Pending(held, buffer, w)
            after == Pending(held, buffer, w \o m)
<1>. DEFINE nm == normalize[m]
<1>1. nm \in Text /\ held \in Text
  BY NormalizeIs DEF Held
<1>2. Extended(held, buffer, w, m) /\ before \in Text
  BY <1>1, PendingSent DEF Starts
<1>5. after = before \o nm /\ before \in Text
  BY <1>2 DEF Extended
<1>. HIDE DEF before, after
<1>. HIDE DEF nm
<1>6. /\ before \o nm \in Text /\ Framed(before \o nm) /\ Rising(before \o nm)
      /\ Values(before \o nm) = Values(before) \cup Values(nm)
  BY <1>1, <1>5, Added DEF nm, before
<1>. QED
  BY <1>5, <1>6 DEF nm, before, after, Longer

\* A frame as a message that is sent.
LEMMA FrameMessage ==
  ASSUME NEW count \in Nat
  PROVE  /\ Framed(PlainFrame(count)) /\ Rising(PlainFrame(count))
         /\ Values(PlainFrame(count)) = {count}
<1>. DEFINE t == PlainFrame(count)
<1>1. /\ t \in Text /\ Len(t) = 5 /\ t[1] = Plain("event") /\ t[2] = Lf /\ t[3] = Note(count)
      /\ t[4] = Lf /\ t[5] = Lf
  BY Chars DEF PlainFrame, Text
<1>2. t[1].type = "event" /\ t[2].type = "lf" /\ t[3].type = "data" /\ t[3].count = count
      /\ t[4].type = "lf" /\ t[5].type = "lf" /\ 1 .. Len(t) = {1, 2, 3, 4, 5}
  BY <1>1, Chars DEF Note
<1>. HIDE DEF t
<1>3. DataAt(t) = {3}
  BY <1>2 DEF DataAt
<1>4. Framed(t)
  BY <1>1, <1>2 DEF Framed, EventAt, CommentAt, Starts
<1>5. Rising(t) /\ Values(t) = {count}
  BY <1>2, <1>3 DEF Rising, Values
<1>. QED
  BY <1>4, <1>5 DEF t

\* A ping as a message that is sent.
LEMMA PingMessage ==
  Framed(PlainPing) /\ Rising(PlainPing) /\ Values(PlainPing) = {}
<1>. DEFINE t == PlainPing
<1>1. /\ t \in Text /\ Len(t) = 3 /\ t[1] = Plain("comment") /\ t[2] = Lf /\ t[3] = Lf
  BY Chars DEF PlainPing, Text
<1>2. t[1].type = "comment" /\ t[2].type = "lf" /\ t[3].type = "lf" /\ 1 .. Len(t) = {1, 2, 3}
  BY <1>1, Chars
<1>. HIDE DEF t
<1>3. DataAt(t) = {}
  BY <1>2 DEF DataAt
<1>4. Framed(t)
  BY <1>1, <1>2 DEF Framed, EventAt, CommentAt, Starts
<1>. QED
  BY <1>3, <1>4 DEF Rising, Values, t

-----------------------------------------------------------------------------
\* The invariant.  What is to come to a stream's badge, in the parser and on the wire, is a text of whole
\* messages whose numbers do not fall; a badge that is behind what it is owed is about to hear of it.

\* What is still to come to a badge, as plain messages.
Ahead == Pending(parser.heldBack, parser.buffer, wire)

\* The wire of a stream and the parser hold texts.
Texts ==
    /\ ~Socket => wire \in Text
    /\ parser \in [heldBack : Held, buffer : Text]

\* What is over is over at both ends; a socket's server sends no numbers.
Ends ==
    /\ ~Connected => server.pc = "none"
    /\ ~Subscribed => wire = <<>>
    /\ Socket => server.pc \in {"none", "rooms", "up"}

\* No number is above the version it was read from, and none is read that is older than the
\* one on the screen.
Latest ==
    /\ owed <= version
    /\ page.cached <= version
    /\ page.fetch = "read" => page.read # None /\ page.cached <= page.read /\ page.read <= version
    /\ page.lost <= version
    /\ page.fetch = "read" => page.lost <= page.read
    /\ server.pc = "yield" => page.cached <= server.count /\ server.count <= version

\* What is to come is between the badge and what the server is about to send.
Between ==
    \A v \in Values(Ahead) : /\ page.cached <= v /\ v <= version
                             /\ server.pc = "yield" => v <= server.count

\* A stream's wire and parser hold whole messages whose numbers do not fall.
Streamed == ~Socket =>
    /\ page.fetch = "idle"
    /\ Connected => Framed(Ahead) /\ Rising(Ahead) /\ Between

\* A socket's first message is `ready', and a first fetch that has read brings what is owed.
Socketed == Socket =>
    /\ \A i \in 1 .. Len(wire) : wire[i].type = "ready" => i = 1 /\ wire[i] = Plain("ready")
    /\ page.cached = None /\ page.fetch = "read" => owed <= page.read
    /\ (~Subscribed /\ ~client.again /\ (client.pc \in {"retry", "refresh"} \/ Connected)) => owed = None

\* A socket's browser is about to read a number that is new enough.
Fetched  == page.fetch = "sent" \/ (page.fetch = "read" /\ owed <= page.read)
\* The server of a stream is about to send a number that is new enough.
Counting == server.pc = "count" \/ (server.pc = "yield" /\ owed <= server.count)

\* The number that is owed is under way: there is a step that brings it nearer.
Coming ==
    \/ client.pc # "open" \/ ~Subscribed
    \/ listener.up /\ notices > 0
    \/ ~listener.up /\ listener.reconnecting
    \/ server.queue # <<>>
    \/ Socket /\ wire # <<>> /\ (wire = <<Plain("ready")>> => client.again)
    \/ Socket /\ Fetched
    \/ ~Socket /\ Counting
    \/ ~Socket /\ \E v \in Values(Ahead) : owed <= v

\* A badge that is behind what it is owed is about to hear of it, unless the fetch gave up that
\* was to bring it.
Delivered == page.cached < owed /\ page.lost < owed => Coming

\* The invariant that is proved.
FlowsInv == Texts /\ Ends /\ Latest /\ Streamed /\ Socketed /\ Delivered
\* The inductive invariant.
IInv == TypeOK /\ FlowsInv

\* The numbers of a state.
LEMMA Bounds ==
  ASSUME TypeOK
  PROVE  /\ version \in Nat /\ owed \in Nat /\ page.cached \in Nat /\ page.read \in Nat
         /\ page.lost \in Nat /\ server.count \in Nat /\ notices \in Nat /\ None = 0
         /\ version \in Version /\ Version \subseteq Nat /\ MaxVersion \in Nat
BY SizeAssumption DEF TypeOK, Version, None

\* The connection is over, and stays so.
LEMMA Ending ==
  ASSUME IInv, UNCHANGED <<version, parser, page, owed>>, wire' = <<>>, server'.pc = "none",
         client'.kind = client.kind, ~(client'.pc = "open" /\ client'.code = "none"),
         Socket /\ client'.pc \in {"retry", "refresh"} /\ ~client'.again
            => client.pc \in {"retry", "refresh"} /\ ~client.again
  PROVE  FlowsInv'
<1>1. Socket' = Socket /\ ~Connected' /\ ~Subscribed'
  BY DEF Socket, Connected, Subscribed
<1>2. Texts'
  BY <1>1, NoText DEF IInv, FlowsInv, Texts
<1>3. Ends'
  BY <1>1 DEF Ends
<1>4. Latest'
  BY DEF IInv, FlowsInv, Latest
<1>5. Streamed'
  BY <1>1 DEF IInv, FlowsInv, Streamed
<1>6. Socketed'
  <2>1. ASSUME Socket, client'.pc \in {"retry", "refresh"}, ~client'.again PROVE owed = None
    <3>1. client.pc \in {"retry", "refresh"} /\ ~client.again
      BY <2>1
    <3>2. ~Subscribed
      BY <3>1 DEF IInv, FlowsInv, Ends, Connected, Subscribed
    <3>. QED
      BY <2>1, <3>1, <3>2 DEF IInv, FlowsInv, Socketed
  <2>2. \A i \in 1 .. Len(wire') : wire'[i].type = "ready" => i = 1 /\ wire'[i] = Plain("ready")
    BY NoText
  <2>3. Socket => (page'.cached = None /\ page'.fetch = "read" => owed' <= page'.read)
    BY DEF IInv, FlowsInv, Socketed
  <2>. QED
    BY <1>1, <2>1, <2>2, <2>3 DEF Socketed
<1>7. Delivered'
  BY <1>1 DEF Delivered, Coming
<1>. QED
  BY <1>2, <1>3, <1>4, <1>5, <1>6, <1>7 DEF FlowsInv

\* Whatever ends a connection.
LEMMA EndingSteps ==
  ASSUME IInv,
         \/ Authenticate /\ Socket /\ server.token = "expired"
         \/ TokenExpires \/ ConnectionLost \/ Restart \/ Gone
         \/ OnClose \/ Refreshed \/ RefreshThrows
  PROVE  FlowsInv'
<1>1. /\ server \in [pc: {"none", "rooms", "up", "count", "yield"}, count: Version \cup {None},
                     queue: Seq({"ticket", "resync"}), missed: BOOLEAN,
                     token: {"good", "expired"}, lineEnd: LineEnds]
      /\ client \in [kind: AllKinds, status: {"connecting", "live", "offline"},
                     pc: {"retry", "open", "refresh", "stuck", "gone"},
                     again: BOOLEAN, code: {"none", "unauthorized", "other"}]
  BY DEF IInv, TypeOK
<1>2. Closed.pc = "none" /\ [Closed EXCEPT !.token = "expired"].pc = "none"
  BY <1>1 DEF Closed
<1>3. ~Connected => server.pc = "none" /\ wire = <<>>
  BY DEF IInv, FlowsInv, Ends, Subscribed
<1>4. CASE Authenticate /\ Socket /\ server.token = "expired"
  BY <1>1, <1>2, <1>4, Ending DEF Authenticate, Hangup, Connected
<1>5. CASE TokenExpires
  BY <1>1, <1>2, <1>5, Ending DEF TokenExpires, Connected
<1>6. CASE ConnectionLost
  BY <1>1, <1>2, <1>6, Ending DEF ConnectionLost, Hangup, Connected
<1>7. CASE Restart
  BY <1>1, <1>2, <1>7, Ending DEF Restart, Connected
<1>8. CASE Gone
  BY <1>1, <1>2, <1>8, Ending DEF Gone
<1>9. CASE OnClose
  BY <1>1, <1>3, <1>9, Ending DEF OnClose, Connected
<1>10. CASE Refreshed
  <2>1. server.pc = "none" /\ wire = <<>>
    BY <1>3, <1>10 DEF Refreshed, Connected
  <2>. QED
    BY <1>1, <2>1, <1>10, Ending DEF Refreshed
<1>11. CASE RefreshThrows
  <2>1. server.pc = "none" /\ wire = <<>>
    BY <1>3, <1>11 DEF RefreshThrows, Connected
  <2>. QED
    BY <1>1, <2>1, <1>11, Ending DEF RefreshThrows, AfterThrow
<1>. QED
  BY <1>4, <1>5, <1>6, <1>7, <1>8, <1>9, <1>10, <1>11

-----------------------------------------------------------------------------
(* Changes, and the listener.                                              *)

\* What a step does not touch.
LEMMA Same ==
  ASSUME UNCHANGED <<wire, parser, client>>
  PROVE  /\ Ahead' = Ahead /\ Socket' = Socket /\ Connected' = Connected
         /\ Texts' = Texts
BY DEF Ahead, Socket, Connected, Texts

\* The records of a state.
LEMMA ServerIs ==
  ASSUME TypeOK
  PROVE  server \in [pc: {"none", "rooms", "up", "count", "yield"}, count: Version \cup {None},
                     queue: Seq({"ticket", "resync"}), missed: BOOLEAN,
                     token: {"good", "expired"}, lineEnd: LineEnds]
BY DEF TypeOK

LEMMA PageIs ==
  ASSUME TypeOK
  PROVE  page \in [cached: Version \cup {None}, fetch: {"idle", "sent", "read"},
                   read: Version \cup {None}, lost: Version \cup {None}]
BY DEF TypeOK

LEMMA ClientIs ==
  ASSUME TypeOK
  PROVE  client \in [kind: AllKinds, status: {"connecting", "live", "offline"},
                     pc: {"retry", "open", "refresh", "stuck", "gone"},
                     again: BOOLEAN, code: {"none", "unauthorized", "other"}]
BY DEF TypeOK

\* A change of the user's notifications.
LEMMA ChangeStep ==
  ASSUME IInv, Change
  PROVE  FlowsInv'
<1>1. Ahead' = Ahead /\ Socket' = Socket /\ Connected' = Connected /\ Texts' = Texts
  BY Same DEF Change
<1>2. version \in Nat /\ owed \in Nat /\ page.cached \in Nat /\ page.read \in Nat /\ server.count \in Nat
      /\ page.lost \in Nat /\ notices \in Nat
  BY Bounds DEF IInv
<1>3. version' = version + 1 /\ UNCHANGED <<listener, server, wire, client, parser, page>>
      /\ owed' = (IF Owing THEN version + 1 ELSE owed)
      /\ notices' = (IF listener.up THEN notices + 1 ELSE notices)
  BY DEF Change
<1>4. Subscribed' = Subscribed
  BY <1>3 DEF Subscribed
<1>5. Ends'
  BY <1>1, <1>3, <1>4 DEF IInv, FlowsInv, Ends
<1>6. Latest'
  BY <1>2, <1>3 DEF IInv, FlowsInv, Latest
<1>7. Streamed'
  <2>1. ASSUME ~Socket, Connected PROVE Between'
    <3>1. ASSUME NEW v \in Values(Ahead)
          PROVE  page.cached <= v /\ v <= version + 1 /\ (server.pc = "yield" => v <= server.count)
      <4>1. page.cached <= v /\ v <= version /\ (server.pc = "yield" => v <= server.count)
        BY <2>1 DEF IInv, FlowsInv, Streamed, Between
      <4>2. v \in Nat
        <5>1. Ahead \in Text
          BY <2>1, NormalizeIs, Joined DEF Ahead, Pending, IInv, FlowsInv, Texts, Held
        <5>. QED
          BY <5>1, ValuesNat
      <4>. QED
        BY <1>2, <4>1, <4>2
    <3>. QED
      BY <1>1, <1>3, <3>1 DEF Between
  <2>. QED
    BY <1>1, <1>3, <2>1 DEF IInv, FlowsInv, Streamed
<1>8. Socketed'
  <2>1. ASSUME Socket, page.cached = None, page.fetch = "read"
        PROVE  owed' <= page.read
    BY <1>3, <2>1 DEF IInv, FlowsInv, Socketed, Owing
  <2>2. ASSUME Socket, ~Subscribed, ~client.again PROVE ~Owing
    BY <2>2 DEF Owing
  <2>. QED
    BY <1>1, <1>3, <1>4, <2>1, <2>2 DEF IInv, FlowsInv, Socketed
<1>9. Delivered'
  <2>1. CASE Owing
    <3>1. ~Subscribed \/ listener.up \/ listener.reconnecting
      BY <2>1 DEF Owing
    <3>2. CASE ~Subscribed
      BY <1>4, <3>2 DEF Delivered, Coming
    <3>3. CASE listener.up
      <4>1. notices' > 0 /\ listener'.up
        BY <1>2, <1>3, <3>3
      <4>. QED
        BY <4>1 DEF Delivered, Coming
    <3>4. CASE ~listener.up /\ listener.reconnecting
      BY <1>3, <3>4 DEF Delivered, Coming
    <3>. QED
      BY <3>1, <3>2, <3>3, <3>4
  <2>2. CASE ~Owing
    <3>1. owed' = owed /\ (listener.up /\ notices > 0 => notices' > 0)
      BY <1>2, <1>3, <2>2
    <3>. QED
      BY <1>1, <1>3, <1>4, <3>1 DEF IInv, FlowsInv, Delivered, Coming, Fetched, Counting
  <2>. QED
    BY <2>1, <2>2
<1>. QED
  BY <1>1, <1>5, <1>6, <1>7, <1>8, <1>9 DEF IInv, FlowsInv

\* What only puts something in the queue, or touches the listener.
LEMMA QueueStep ==
  ASSUME IInv, UNCHANGED <<version, wire, client, parser, page, owed>>,
         server'.pc = server.pc, server'.count = server.count,
         Coming => Coming'
  PROVE  FlowsInv'
<1>1. Ahead' = Ahead /\ Socket' = Socket /\ Connected' = Connected /\ Texts' = Texts
  BY Same
<1>2. Subscribed' = Subscribed
  BY DEF Subscribed
<1>. QED
  BY <1>1, <1>2 DEF IInv, FlowsInv, Ends, Latest, Streamed, Between, Socketed, Delivered

\* What the hub does with a subscriber's queue.
LEMMA DeliverIs ==
  ASSUME TypeOK, NEW message \in {"ticket", "resync"}, Deliver(message)
  PROVE  /\ server'.pc = server.pc /\ server'.count = server.count
         /\ Subscribed => server'.queue # <<>>
<1>1. server \in [pc: {"none", "rooms", "up", "count", "yield"}, count: Version \cup {None},
                  queue: Seq({"ticket", "resync"}), missed: BOOLEAN,
                  token: {"good", "expired"}, lineEnd: LineEnds]
  BY ServerIs
<1>2. CASE ~Subscribed
  BY <1>2 DEF Deliver
<1>3. CASE Subscribed /\ Len(server.queue) < QUEUE_SIZE
  <2>1. server' = [server EXCEPT !.queue = Append(@, message)]
    BY <1>3 DEF Deliver
  <2>2. Append(server.queue, message) # <<>>
    BY <1>1
  <2>. QED
    BY <1>1, <2>1, <2>2
<1>4. CASE Subscribed /\ ~(Len(server.queue) < QUEUE_SIZE)
  <2>1. server' = [server EXCEPT !.missed = TRUE]
    BY <1>4 DEF Deliver
  <2>2. server.queue # <<>>
    BY <1>1, <1>4, SizeAssumption
  <2>. QED
    BY <1>1, <2>1, <2>2
<1>. QED
  BY <1>2, <1>3, <1>4

\* The listener of the database's notifications.
LEMMA ListenerSteps ==
  ASSUME IInv, Dispatch \/ Listen \/ ListenerLost
  PROVE  FlowsInv'
<1>0. TypeOK
  BY DEF IInv
<1>1. CASE Dispatch
  <2>1. /\ server'.pc = server.pc /\ server'.count = server.count
        /\ Subscribed => server'.queue # <<>>
    BY <1>0, <1>1, DeliverIs DEF Dispatch
  <2>2. Coming'
    BY <2>1 DEF Coming, Subscribed
  <2>. QED
    BY <1>1, <2>1, <2>2, QueueStep DEF Dispatch
<1>2. CASE Listen
  <2>1. CASE AfterGap
    <3>1. /\ server'.pc = server.pc /\ server'.count = server.count
          /\ Subscribed => server'.queue # <<>>
      BY <1>0, <1>2, <2>1, DeliverIs DEF Listen
    <3>2. Coming'
      BY <3>1 DEF Coming, Subscribed
    <3>. QED
      BY <1>2, <3>1, <3>2, QueueStep DEF Listen
  <2>2. CASE ~AfterGap
    <3>1. UNCHANGED <<version, wire, client, parser, page, owed, server>>
          /\ ~listener.up /\ ~listener.reconnecting
      BY <1>2, <2>2 DEF Listen, AfterGap
    <3>2. Ahead' = Ahead /\ Socket' = Socket
      BY <3>1, Same
    <3>3. Coming => Coming'
      BY <3>1, <3>2 DEF Coming, Subscribed, Fetched, Counting
    <3>. QED
      BY <3>1, <3>3, QueueStep
  <2>. QED
    BY <2>1, <2>2
<1>3. CASE ListenerLost
  <2>1. Coming'
    BY <1>3 DEF ListenerLost, Coming
  <2>. QED
    BY <1>3, <2>1, QueueStep DEF ListenerLost
<1>. QED
  BY <1>1, <1>2, <1>3

-----------------------------------------------------------------------------
(* The server that does not send, and the fetch.                           *)

\* What is to come is a text of numbers.
LEMMA AheadText ==
  ASSUME IInv, ~Socket
  PROVE  Ahead \in Text /\ Values(Ahead) \subseteq Nat
<1>1. Ahead \in Text
  BY NormalizeIs, Joined DEF Ahead, Pending, IInv, FlowsInv, Texts, Held
<1>. QED
  BY <1>1, ValuesNat

\* The server's end, as long as it sends nothing.
LEMMA QuietServerSteps ==
  ASSUME IInv, \/ Authenticate /\ ~(Socket /\ server.token = "expired")
               \/ Wake \/ Count
  PROVE  FlowsInv'
<1>0. TypeOK
  BY DEF IInv
<1>1. server \in [pc: {"none", "rooms", "up", "count", "yield"}, count: Version \cup {None},
                  queue: Seq({"ticket", "resync"}), missed: BOOLEAN,
                  token: {"good", "expired"}, lineEnd: LineEnds]
  BY <1>0, ServerIs
<1>2. UNCHANGED <<version, notices, listener, wire, client, parser, page, owed>>
  BY DEF Authenticate, Wake, Count
<1>3. Ahead' = Ahead /\ Socket' = Socket /\ Connected' = Connected /\ Texts' = Texts
  BY <1>2, Same
<1>4. CASE Authenticate /\ ~(Socket /\ server.token = "expired")
  <2>1. server'.pc = "rooms" /\ Connected /\ server.pc = "none" /\ ~Subscribed /\ ~Subscribed'
    BY <1>1, <1>4 DEF Authenticate, Subscribed
  <2>. QED
    BY <1>2, <1>3, <2>1
       DEF IInv, FlowsInv, Ends, Latest, Streamed, Between, Socketed, Delivered, Coming
<1>5. CASE Wake
  <2>1. server'.pc = "count" /\ ~Socket /\ Subscribed /\ Subscribed' /\ Connected
    BY <1>1, <1>5 DEF Wake, Left, Subscribed, IInv, FlowsInv, Ends
  <2>. QED
    BY <1>2, <1>3, <2>1
       DEF IInv, FlowsInv, Ends, Latest, Streamed, Between, Socketed, Delivered, Coming, Counting
<1>6. CASE Count
  <2>1. server'.pc = "yield" /\ server'.count = version /\ Connected /\ Subscribed /\ Subscribed'
        /\ ~Socket
    BY <1>1, <1>6 DEF Count, Subscribed, IInv, FlowsInv, Ends
  <2>2. version \in Nat /\ owed <= version /\ page.cached <= version
    BY <1>0, Bounds DEF IInv, FlowsInv, Latest
  <2>3. Latest'
    BY <1>2, <2>1, <2>2 DEF IInv, FlowsInv, Latest
  <2>4. Delivered'
    BY <1>2, <1>3, <2>1, <2>2 DEF Delivered, Coming, Counting
  <2>5. Streamed'
    BY <1>2, <1>3, <2>1 DEF IInv, FlowsInv, Streamed, Between
  <2>. QED
    BY <1>3, <2>1, <2>3, <2>4, <2>5 DEF IInv, FlowsInv, Ends, Socketed
<1>. QED
  BY <1>4, <1>5, <1>6

\* The two halves of a fetch of the number, and its failure.
LEMMA FetchSteps ==
  ASSUME IInv, Fetching
  PROVE  FlowsInv'
<1>0. TypeOK
  BY DEF IInv
<1>1. page \in [cached: Version \cup {None}, fetch: {"idle", "sent", "read"},
                read: Version \cup {None}, lost: Version \cup {None}]
  BY <1>0, PageIs
<1>2. UNCHANGED <<version, notices, listener, server, wire, client, parser, owed>>
  BY DEF Fetching, FetchRead, FetchStore, FetchFails
<1>3. Ahead' = Ahead /\ Socket' = Socket /\ Connected' = Connected /\ Texts' = Texts
  BY <1>2, Same
<1>4. Subscribed' = Subscribed
  BY <1>2 DEF Subscribed
<1>5. Socket
  BY DEF Fetching, FetchRead, FetchStore, FetchFails, IInv, FlowsInv, Streamed
<1>6. server.pc # "yield"
  BY <1>5 DEF IInv, FlowsInv, Ends
<1>7. /\ version \in Nat /\ owed \in Nat /\ page.cached \in Nat /\ page.read \in Nat
      /\ page.lost \in Nat /\ version \in Version /\ None = 0 /\ Version \subseteq Nat
  BY <1>0, Bounds
<1>8. CASE FetchRead
  <2>1. page' = [page EXCEPT !.fetch = "read", !.read = version]
    BY <1>8 DEF FetchRead
  <2>2. page'.fetch = "read" /\ page'.read = version /\ page'.cached = page.cached
        /\ page'.lost = page.lost
    BY <1>1, <2>1
  <2>3. version # None
    BY <1>7 DEF Version, None
  <2>4. owed <= version /\ page.cached <= version /\ page.lost <= version
    BY DEF IInv, FlowsInv, Latest
  <2>5. Latest' /\ Delivered' /\ Socketed'
    BY <1>2, <1>3, <1>4, <1>5, <1>6, <1>7, <2>2, <2>3, <2>4
       DEF IInv, FlowsInv, Latest, Delivered, Coming, Fetched, Socketed
  <2>. QED
    BY <1>2, <1>3, <1>4, <1>5, <2>5 DEF IInv, FlowsInv, Ends, Streamed
<1>9. CASE FetchStore
  <2>1. page'.cached = page.read /\ page'.fetch = "idle" /\ page.fetch = "read"
        /\ page'.lost = page.lost
    BY <1>1, <1>9 DEF FetchStore
  <2>2. page.read # None /\ page.cached <= page.read /\ page.read <= version /\ owed <= version
        /\ page.lost <= version
    BY <2>1 DEF IInv, FlowsInv, Latest
  <2>3. Latest'
    BY <1>2, <1>6, <2>1, <2>2 DEF Latest
  <2>4. Socketed'
    BY <1>2, <1>3, <1>4, <2>1, <2>2 DEF IInv, FlowsInv, Socketed
  <2>5. Delivered'
    <3>1. SUFFICES ASSUME page.read < owed, page.lost < owed PROVE Coming'
      BY <1>2, <2>1 DEF Delivered
    <3>2. Coming
      BY <1>7, <2>2, <3>1 DEF IInv, FlowsInv, Delivered
    <3>3. ~Fetched
      BY <1>7, <2>1, <3>1 DEF Fetched
    <3>. QED
      BY <1>2, <1>3, <1>4, <1>5, <3>2, <3>3 DEF Coming
  <2>. QED
    BY <1>2, <1>3, <1>4, <1>5, <2>3, <2>4, <2>5 DEF IInv, FlowsInv, Ends, Streamed
<1>10. CASE FetchFails
  <2>1. page.fetch \in {"sent", "read"} /\ page'.cached = page.cached /\ page'.read = None
    BY <1>1, <1>10 DEF FetchFails
  <2>2. \/ page'.fetch = "sent" /\ page'.lost = page.lost
        \/ page'.fetch = "idle" /\ page'.lost = Missed
    BY <1>1, <1>10 DEF FetchFails
  <2>3. Missed \in {page.read, version} /\ (page.fetch = "sent" => Missed = version)
        /\ (page.fetch = "read" => Missed = page.read)
    BY DEF Missed
  <2>4. /\ owed <= version /\ page.cached <= version /\ page.lost <= version
        /\ page.fetch = "read" => page.read <= version /\ page.lost <= page.read
    BY DEF IInv, FlowsInv, Latest
  <2>5. page'.fetch # "read" /\ page'.lost <= version
    BY <1>7, <2>1, <2>2, <2>3, <2>4
  <2>6. Latest'
    BY <1>2, <1>6, <2>1, <2>4, <2>5 DEF Latest
  <2>7. Socketed'
    BY <1>2, <1>3, <1>4, <2>5 DEF IInv, FlowsInv, Socketed
  <2>8. CASE page'.fetch = "sent"
    <3>1. Coming'
      BY <1>3, <1>5, <2>8 DEF Coming, Fetched
    <3>. QED
      BY <1>2, <1>3, <1>4, <1>5, <2>6, <2>7, <3>1 DEF IInv, FlowsInv, Ends, Streamed, Delivered
  <2>9. CASE page'.fetch = "idle" /\ page'.lost = Missed
    <3>1. SUFFICES ASSUME page.cached < owed, Missed < owed PROVE Coming'
      BY <1>2, <1>3, <1>4, <1>5, <2>1, <2>6, <2>7, <2>9 DEF IInv, FlowsInv, Ends, Streamed, Delivered
    <3>2. page.fetch = "read" /\ page.read < owed
      BY <1>7, <2>1, <2>3, <2>4, <3>1
    <3>3. page.lost < owed
      BY <1>7, <2>4, <3>2
    <3>4. Coming /\ ~Fetched
      BY <1>7, <3>1, <3>2, <3>3 DEF IInv, FlowsInv, Delivered, Fetched
    <3>. QED
      BY <1>2, <1>3, <1>4, <1>5, <3>4 DEF Coming
  <2>. QED
    BY <2>2, <2>8, <2>9
<1>. QED
  BY <1>8, <1>9, <1>10 DEF Fetching

\* A browser that connects.
LEMMA ConnectStep ==
  ASSUME IInv, Connect
  PROVE  FlowsInv'
<1>0. TypeOK
  BY DEF IInv
<1>1. client \in [kind: AllKinds, status: {"connecting", "live", "offline"},
                  pc: {"retry", "open", "refresh", "stuck", "gone"},
                  again: BOOLEAN, code: {"none", "unauthorized", "other"}]
  BY <1>0, ClientIs
<1>2. /\ client.pc = "retry" /\ client' = [client EXCEPT !.pc = "open", !.code = "none"]
      /\ parser' = createSseParser
      /\ UNCHANGED <<version, notices, listener, server, wire, page, owed>>
  BY DEF Connect
<1>3. server.pc = "none" /\ ~Subscribed /\ wire = <<>>
  BY <1>2 DEF IInv, FlowsInv, Ends, Connected, Subscribed
<1>4. Socket' = Socket /\ Connected' /\ ~Subscribed' /\ client'.again = client.again
  BY <1>1, <1>2, <1>3 DEF Socket, Connected, Subscribed
<1>5. Texts'
  <2>1. createSseParser \in [heldBack : Held, buffer : Text]
    BY NoText DEF createSseParser, Held
  <2>. QED
    BY <1>2, <1>3, <2>1, NoText DEF Texts
<1>6. Ahead' = <<>>
  <2>1. <<>> \o <<>> = <<>> /\ normalize[<<>>] = <<>>
    BY NoText, NormalizeIs
  <2>. QED
    BY <1>2, <1>3, <2>1 DEF Ahead, Pending, createSseParser
<1>7. Framed(<<>>) /\ Rising(<<>>) /\ Values(<<>>) = {}
  BY NoText DEF Framed, Rising, Values, DataAt
<1>8. Streamed'
  BY <1>2, <1>4, <1>6, <1>7 DEF IInv, FlowsInv, Streamed, Between
<1>9. Socketed'
  BY <1>2, <1>3, <1>4 DEF IInv, FlowsInv, Socketed
<1>. QED
  BY <1>2, <1>3, <1>4, <1>5, <1>8, <1>9
     DEF IInv, FlowsInv, Ends, Latest, Delivered, Coming

\* A server that subscribes to the rooms of a connection.
LEMMA SubscribeStep ==
  ASSUME IInv, Subscribe
  PROVE  FlowsInv'
<1>0. TypeOK
  BY DEF IInv
<1>1. server \in [pc: {"none", "rooms", "up", "count", "yield"}, count: Version \cup {None},
                  queue: Seq({"ticket", "resync"}), missed: BOOLEAN,
                  token: {"good", "expired"}, lineEnd: LineEnds]
  BY <1>0, ServerIs
<1>2. /\ Connected /\ server.pc = "rooms" /\ ~Subscribed /\ wire = <<>>
      /\ server' = [server EXCEPT !.pc = IF Socket THEN "up" ELSE "count"]
      /\ UNCHANGED <<version, notices, listener, client, parser, page, owed>>
  BY DEF Subscribe, Subscribed, IInv, FlowsInv, Ends
<1>3. Socket' = Socket /\ Connected' = Connected
  BY <1>2 DEF Socket, Connected
<1>4. CASE Socket
  <2>1. server'.pc = "up" /\ wire' = <<Plain("ready")>> /\ Subscribed'
    BY <1>1, <1>2, <1>4 DEF Subscribe, Subscribed
  <2>2. Texts' /\ Ends' /\ Latest' /\ Streamed'
    BY <1>2, <1>3, <1>4, <2>1 DEF IInv, FlowsInv, Texts, Ends, Latest, Streamed
  <2>3. Len(<<Plain("ready")>>) = 1 /\ <<Plain("ready")>> # <<>>
    OBVIOUS
  <2>4. Socketed'
    BY <1>2, <1>3, <1>4, <2>1, <2>3 DEF IInv, FlowsInv, Socketed
  <2>5. Delivered'
    <3>1. CASE client.again
      BY <1>2, <1>3, <1>4, <2>1, <2>3, <3>1 DEF Delivered, Coming
    <3>2. CASE ~client.again
      <4>1. owed = 0 /\ page.cached \in Nat
        BY <1>0, <1>2, <1>4, <3>2, Bounds DEF IInv, FlowsInv, Socketed
      <4>. QED
        BY <1>2, <4>1 DEF Delivered
    <3>. QED
      BY <3>1, <3>2
  <2>. QED
    BY <2>2, <2>4, <2>5 DEF FlowsInv
<1>5. CASE ~Socket
  <2>1. server'.pc = "count" /\ wire' = wire /\ Subscribed'
    BY <1>1, <1>2, <1>5 DEF Subscribe, Subscribed
  <2>2. Ahead' = Ahead /\ Texts' = Texts
    BY <1>2, <2>1, Same
  <2>. QED
    BY <1>2, <1>3, <1>5, <2>1, <2>2
       DEF IInv, FlowsInv, Ends, Latest, Streamed, Between, Socketed, Delivered, Coming, Counting
<1>. QED
  BY <1>4, <1>5

-----------------------------------------------------------------------------
(* Messages that are sent, and a socket's message.                         *)

\* What a server takes from its queue.
LEMMA GotIs ==
  ASSUME TypeOK, server.queue # <<>>
  PROVE  /\ Got \in {"ticket", "resync"}
         /\ Left \in [pc: {"none", "rooms", "up", "count", "yield"}, count: Version \cup {None},
                      queue: Seq({"ticket", "resync"}), missed: BOOLEAN,
                      token: {"good", "expired"}, lineEnd: LineEnds]
         /\ Left.pc = server.pc /\ Left.count = server.count /\ Left.lineEnd = server.lineEnd
         /\ Len(Left.queue) <= Len(server.queue)
<1>1. server \in [pc: {"none", "rooms", "up", "count", "yield"}, count: Version \cup {None},
                  queue: Seq({"ticket", "resync"}), missed: BOOLEAN,
                  token: {"good", "expired"}, lineEnd: LineEnds]
  BY ServerIs
<1>2. Head(server.queue) \in {"ticket", "resync"} /\ Tail(server.queue) \in Seq({"ticket", "resync"})
      /\ Len(Tail(server.queue)) <= Len(server.queue)
  BY <1>1
<1>3. <<>> \in Seq({"ticket", "resync"}) /\ Len(<<>>) <= Len(server.queue)
  BY <1>1
<1>4. Left = [server EXCEPT !.queue = IF server.missed THEN <<>> ELSE Tail(server.queue), !.missed = FALSE]
  BY DEF Left
<1>5. CASE server.missed
  BY <1>1, <1>3, <1>4, <1>5 DEF Got
<1>6. CASE ~server.missed
  BY <1>1, <1>2, <1>4, <1>6 DEF Got
<1>. QED
  BY <1>5, <1>6

\* A socket's server that forwards a message.
LEMMA ForwardStep ==
  ASSUME IInv, Forward
  PROVE  FlowsInv'
<1>0. TypeOK
  BY DEF IInv
<1>1. /\ Socket /\ server.pc = "up" /\ server.queue # <<>>
      /\ wire' = Append(wire, Plain(Got)) /\ server' = Left
      /\ UNCHANGED <<version, notices, listener, client, parser, page, owed>>
  BY DEF Forward
<1>2. Got \in {"ticket", "resync"} /\ server'.pc = "up"
  BY <1>0, <1>1, GotIs
<1>3. Socket' = Socket /\ Connected' = Connected /\ Subscribed' /\ Connected
  BY <1>1, <1>2 DEF Socket, Connected, Subscribed, IInv, FlowsInv, Ends
<1>4. wire \in Seq(Message) /\ Plain(Got).type \in {"ticket", "resync"}
  BY <1>0, <1>2 DEF TypeOK, Plain
<1>5. /\ wire' # <<>> /\ Len(wire') = Len(wire) + 1 /\ Len(wire) \in Nat
      /\ \A i \in 1 .. Len(wire) : wire'[i] = wire[i]
      /\ wire'[Len(wire) + 1] = Plain(Got)
  <2>. DEFINE c == Plain(Got)
  <2>. HIDE DEF c
  <2>1. wire' = Append(wire, c)
    BY <1>1 DEF c
  <2>. QED
    BY <1>4, <2>1 DEF c
<1>6. wire' # <<Plain("ready")>>
  <2>1. Len(<<Plain("ready")>>) = 1 /\ <<Plain("ready")>>[1].type = "ready"
    BY DEF Plain
  <2>2. ASSUME wire' = <<Plain("ready")>> PROVE FALSE
    <3>1. Len(wire') = 1 /\ wire'[1].type = "ready"
      BY <2>1, <2>2
    <3>2. Len(wire) + 1 = 1
      <4>1. Len(wire') = Len(wire) + 1
        BY <1>5
      <4>. QED
        BY <3>1, <4>1
    <3>3. wire'[1] = Plain(Got)
      BY <1>5, <3>2
    <3>. QED
      BY <1>4, <3>1, <3>3
  <2>. QED
    BY <2>2
<1>7. \A i \in 1 .. Len(wire') : wire'[i].type = "ready" => i = 1 /\ wire'[i] = Plain("ready")
  <2>1. ASSUME NEW i \in 1 .. Len(wire'), wire'[i].type = "ready"
        PROVE  i = 1 /\ wire'[i] = Plain("ready")
    <3>1. i # Len(wire) + 1
      BY <1>4, <1>5, <2>1
    <3>2. i \in 1 .. Len(wire)
      BY <1>5, <3>1
    <3>. QED
      BY <1>1, <1>5, <2>1, <3>2 DEF IInv, FlowsInv, Socketed
  <2>. QED
    BY <2>1
<1>8. Socketed' /\ Delivered'
  BY <1>1, <1>3, <1>5, <1>6, <1>7 DEF IInv, FlowsInv, Socketed, Delivered, Coming
<1>. QED
  BY <1>1, <1>2, <1>3, <1>8 DEF IInv, FlowsInv, Texts, Ends, Latest, Streamed

\* The line ends that a server may use.
LEMMA LineEndIs ==
  ASSUME TypeOK
  PROVE  server.lineEnd \in {"lf", "crlf"}
BY ServerIs, LineEndsAssumption

\* A message begins a text with what a message begins with.
LEMMA Begins ==
  ASSUME NEW lineEnd \in {"lf", "crlf"}, NEW count \in Nat
  PROVE  /\ Frame(lineEnd, count) # <<>> /\ Frame(lineEnd, count)[1].type \in Starts
         /\ Ping(lineEnd) # <<>> /\ Ping(lineEnd)[1].type \in Starts
<1>1. CASE lineEnd = "lf"
  BY <1>1 DEF Frame, Ping, Eol, Plain, Starts
<1>2. CASE lineEnd = "crlf"
  BY <1>2 DEF Frame, Ping, Eol, Plain, Starts
<1>. QED
  BY <1>1, <1>2

\* A stream's server that sends the number.
LEMMA YieldStep ==
  ASSUME IInv, Yield
  PROVE  FlowsInv'
<1>0. TypeOK
  BY DEF IInv
<1>. DEFINE c == server.count
            m == Frame(server.lineEnd, server.count)
<1>1. server \in [pc: {"none", "rooms", "up", "count", "yield"}, count: Version \cup {None},
                  queue: Seq({"ticket", "resync"}), missed: BOOLEAN,
                  token: {"good", "expired"}, lineEnd: LineEnds]
  BY <1>0, ServerIs
<1>2. /\ server.pc = "yield" /\ wire' = wire \o m
      /\ server' = [server EXCEPT !.pc = "up", !.count = None]
      /\ UNCHANGED <<version, notices, listener, client, parser, page, owed>>
  BY DEF Yield
<1>3. server'.pc = "up" /\ Socket' = Socket /\ Connected' = Connected /\ Connected /\ ~Socket /\ Subscribed'
  BY <1>1, <1>2 DEF Socket, Connected, Subscribed, IInv, FlowsInv, Ends
<1>4. c \in Nat /\ version \in Nat /\ page.cached \in Nat
  BY <1>0, Bounds
<1>5. /\ m \in Text /\ normalize[m] = PlainFrame(c)
      /\ Framed(normalize[m]) /\ Rising(normalize[m]) /\ Values(normalize[m]) = {c}
      /\ m # <<>> /\ m[1].type \in Starts
  <2>1. server.lineEnd \in {"lf", "crlf"}
    BY <1>0, LineEndIs
  <2>2. m \in Text /\ normalize[m] = PlainFrame(c) /\ m # <<>> /\ m[1].type \in Starts
    BY <1>4, <2>1, FrameText, Begins
  <2>3. Framed(PlainFrame(c)) /\ Rising(PlainFrame(c)) /\ Values(PlainFrame(c)) = {c}
    BY <1>4, FrameMessage
  <2>. QED
    BY <2>2, <2>3
<1>. HIDE DEF m
<1>6. wire \in Text /\ parser.heldBack \in Held /\ parser.buffer \in Text
  BY <1>3 DEF IInv, FlowsInv, Texts
<1>7. Framed(Ahead) /\ Rising(Ahead) /\ \A v \in Values(Ahead) : v <= c /\ page.cached <= v
  BY <1>2, <1>3 DEF IInv, FlowsInv, Streamed, Between
<1>8. page.cached <= c /\ c <= version
  BY <1>2 DEF IInv, FlowsInv, Latest
<1>9. /\ Ahead' \in Text /\ Framed(Ahead') /\ Rising(Ahead')
      /\ Values(Ahead') = Values(Ahead) \cup {c}
  <2>1. Ahead' = Pending(parser.heldBack, parser.buffer, wire')
    BY <1>2 DEF Ahead
  <2>2. Ahead = Pending(parser.heldBack, parser.buffer, wire)
    BY DEF Ahead
  <2>3. \A v \in Values(Ahead), w \in Values(normalize[m]) : v <= w
    BY <1>5, <1>7
  <2>. HIDE DEF c
  <2>4. Longer(parser.heldBack, parser.buffer, wire, m)
    BY <1>5, <1>6, <1>7, <2>2, <2>3, Sent
  <2>5. /\ Ahead' \in Text /\ Framed(Ahead') /\ Rising(Ahead')
        /\ Values(Ahead') = Values(Ahead) \cup Values(normalize[m])
    BY <1>2, <2>1, <2>2, <2>4 DEF Longer
  <2>. QED
    BY <1>5, <2>5
<1>10. Streamed'
  <2>1. Between'
    <3>1. ASSUME NEW v \in Values(Ahead') PROVE page.cached <= v /\ v <= version
      <4>1. CASE v \in Values(Ahead)
        BY <1>3, <4>1 DEF IInv, FlowsInv, Streamed, Between
      <4>2. CASE v = c
        BY <1>8, <4>2
      <4>. QED
        BY <1>9, <4>1, <4>2
    <3>2. page' = page /\ version' = version
      BY <1>2
    <3>. QED
      BY <1>3, <3>1, <3>2 DEF Between
  <2>. QED
    BY <1>2, <1>3, <1>9, <2>1 DEF IInv, FlowsInv, Streamed
<1>11. Delivered'
  <2>1. UNCHANGED <<page, owed, client, listener, notices>> /\ server'.queue = server.queue
    BY <1>1, <1>2
  <2>2. SUFFICES ASSUME page.cached < owed, page.lost < owed PROVE Coming'
    BY <2>1 DEF Delivered
  <2>3. Coming
    BY <2>2 DEF IInv, FlowsInv, Delivered
  <2>4. CASE owed <= c
    BY <1>3, <1>9, <2>1, <2>4 DEF Coming
  <2>5. CASE \E v \in Values(Ahead) : owed <= v
    BY <1>3, <1>9, <2>1, <2>5 DEF Coming
  <2>6. CASE ~(owed <= c) /\ ~\E v \in Values(Ahead) : owed <= v
    BY <1>2, <1>3, <2>1, <2>3, <2>6 DEF Coming, Counting, Subscribed
  <2>. QED
    BY <2>4, <2>5, <2>6
<1>12. Texts'
  BY <1>2, <1>3, <1>5, <1>6, Joined DEF IInv, FlowsInv, Texts
<1>. QED
  BY <1>2, <1>3, <1>10, <1>11, <1>12 DEF IInv, FlowsInv, Ends, Latest, Socketed

\* A stream's server that keeps the connection open.
LEMMA KeepAliveStep ==
  ASSUME IInv, KeepAlive
  PROVE  FlowsInv'
<1>0. TypeOK
  BY DEF IInv
<1>. DEFINE m == Ping(server.lineEnd)
<1>1. /\ ~Socket /\ server.pc = "up" /\ wire = <<>> /\ wire' = m
      /\ UNCHANGED <<version, notices, listener, server, client, parser, page, owed>>
  BY DEF KeepAlive
<1>2. Socket' = Socket /\ Connected' = Connected /\ Connected /\ Subscribed' /\ Subscribed
  BY <1>1 DEF Socket, Connected, Subscribed, IInv, FlowsInv, Ends
<1>3. /\ m \in Text /\ Framed(normalize[m]) /\ Rising(normalize[m]) /\ Values(normalize[m]) = {}
      /\ m # <<>> /\ m[1].type \in Starts
  <2>1. server.lineEnd \in {"lf", "crlf"}
    BY <1>0, LineEndIs
  <2>2. m \in Text /\ normalize[m] = PlainPing /\ m # <<>> /\ m[1].type \in Starts
    BY <2>1, PingText, Begins
  <2>. QED
    BY <2>2, PingMessage
<1>. HIDE DEF m
<1>4. wire \in Text /\ parser.heldBack \in Held /\ parser.buffer \in Text
  BY <1>1 DEF IInv, FlowsInv, Texts
<1>5. Framed(Ahead) /\ Rising(Ahead)
  BY <1>1, <1>2 DEF IInv, FlowsInv, Streamed
<1>6. /\ Ahead' \in Text /\ Framed(Ahead') /\ Rising(Ahead')
      /\ Values(Ahead') = Values(Ahead)
  <2>1. Ahead' = Pending(parser.heldBack, parser.buffer, wire')
    BY <1>1 DEF Ahead
  <2>2. Ahead = Pending(parser.heldBack, parser.buffer, wire)
    BY DEF Ahead
  <2>3. wire' = wire \o m
    BY <1>1, <1>3, NoText
  <2>4. \A v \in Values(Ahead), w \in Values(normalize[m]) : v <= w
    BY <1>3
  <2>5. Longer(parser.heldBack, parser.buffer, wire, m)
    BY <1>3, <1>4, <1>5, <2>2, <2>4, Sent
  <2>6. /\ Ahead' \in Text /\ Framed(Ahead') /\ Rising(Ahead')
        /\ Values(Ahead') = Values(Ahead) \cup Values(normalize[m])
    BY <2>1, <2>2, <2>3, <2>5 DEF Longer
  <2>. QED
    BY <1>3, <2>6
<1>. QED
  BY <1>1, <1>2, <1>3, <1>4, <1>6
     DEF IInv, FlowsInv, Texts, Ends, Latest, Streamed, Between, Socketed, Delivered, Coming, Counting

\* A socket's message that arrives.
LEMMA MessageStep ==
  ASSUME IInv, OnMessage
  PROVE  FlowsInv'
<1>0. TypeOK
  BY DEF IInv
<1>1. page \in [cached: Version \cup {None}, fetch: {"idle", "sent", "read"},
                read: Version \cup {None}, lost: Version \cup {None}]
  BY <1>0, PageIs
<1>2. client \in [kind: AllKinds, status: {"connecting", "live", "offline"},
                  pc: {"retry", "open", "refresh", "stuck", "gone"},
                  again: BOOLEAN, code: {"none", "unauthorized", "other"}]
  BY <1>0, ClientIs
<1>3. /\ Socket /\ Connected /\ wire # <<>> /\ wire' = Tail(wire)
      /\ UNCHANGED <<version, notices, listener, server, parser, owed>>
  BY DEF OnMessage
<1>4. /\ client'.kind = client.kind /\ client'.pc = client.pc /\ client'.code = client.code
      /\ page' = page \/ page' = Invalidated
      /\ (Head(wire).type # "ready" \/ client.again) => page' = Invalidated
  BY <1>2, <1>3 DEF OnMessage, OnReady
<1>5. Socket' /\ Connected' /\ Subscribed /\ Subscribed'
  BY <1>3, <1>4 DEF Socket, Connected, Subscribed, IInv, FlowsInv, Ends
<1>6. wire \in Seq(Message)
  BY <1>0 DEF TypeOK
<1>7. /\ Len(wire) \in Nat /\ Len(wire) > 0 /\ Len(wire') = Len(wire) - 1
      /\ \A i \in 1 .. Len(wire') : wire'[i] = wire[i + 1]
      /\ Head(wire) = wire[1]
  BY <1>3, <1>6
<1>8. ASSUME NEW i \in 1 .. Len(wire') PROVE wire'[i].type # "ready"
  <2>1. wire'[i] = wire[i + 1] /\ i + 1 \in 1 .. Len(wire) /\ i + 1 # 1
    BY <1>7
  <2>. QED
    BY <1>3, <2>1 DEF IInv, FlowsInv, Socketed
<1>9. /\ version \in Nat /\ owed \in Nat /\ page.cached \in Nat /\ page.read \in Nat
  BY <1>0, Bounds
<1>10. /\ page'.cached = page.cached /\ page'.lost = page.lost
       /\ Invalidated.fetch = "sent" \/ (page.cached = None /\ page.fetch # "idle" /\ Invalidated = page)
       /\ page'.fetch = "sent" \/ page' = page
  BY <1>1, <1>4 DEF Invalidated
<1>11. Latest' /\ Ends'
  BY <1>3, <1>5, <1>10 DEF IInv, FlowsInv, Latest, Ends
<1>12. Socketed'
  BY <1>3, <1>4, <1>5, <1>8, <1>10 DEF IInv, FlowsInv, Socketed
<1>13. ASSUME page' = Invalidated PROVE Fetched'
  <2>1. page.fetch \in {"idle", "sent", "read"}
    BY <1>1
  <2>. QED
    BY <1>3, <1>10, <1>13, <2>1 DEF IInv, FlowsInv, Socketed, Fetched
<1>14. Delivered'
  <2>1. CASE page' = Invalidated
    BY <1>5, <1>13, <2>1 DEF Delivered, Coming
  <2>2. CASE Head(wire).type = "ready" /\ ~client.again /\ page' = page
    <3>1. SUFFICES ASSUME page.cached < owed, page.lost < owed PROVE Coming'
      BY <1>3, <2>2 DEF Delivered
    <3>2. Coming
      BY <3>1 DEF IInv, FlowsInv, Delivered
    <3>3. Fetched' = Fetched
      BY <1>3, <2>2 DEF Fetched
    <3>4. CASE wire' # <<>>
      <4>1. wire' # <<Plain("ready")>>
        <5>1. Len(<<Plain("ready")>>) = 1 /\ <<Plain("ready")>>[1].type = "ready"
          BY DEF Plain
        <5>2. ASSUME wire' = <<Plain("ready")>> PROVE FALSE
          <6>1. 1 \in 1 .. Len(wire') /\ wire'[1].type = "ready"
            BY <5>1, <5>2
          <6>. QED
            BY <1>8, <6>1
        <5>. QED
          BY <5>2
      <4>. QED
        BY <1>5, <3>4, <4>1 DEF Coming
    <3>5. CASE wire' = <<>>
      <4>1. Len(wire) = 1
        BY <1>7, <3>5
      <4>2. wire = <<Plain("ready")>>
        <5>1. 1 \in 1 .. Len(wire) /\ wire[1].type = "ready"
          BY <1>7, <2>2, <4>1
        <5>2. wire[1] = Plain("ready")
          BY <1>3, <5>1 DEF IInv, FlowsInv, Socketed
        <5>. QED
          BY <1>6, <4>1, <5>2
      <4>. QED
        BY <1>3, <1>4, <1>5, <2>2, <3>2, <3>3, <4>2 DEF Coming
    <3>. QED
      BY <3>4, <3>5
  <2>. QED
    BY <1>4, <2>1, <2>2
<1>15. Texts' /\ Streamed'
  BY <1>3, <1>5 DEF IInv, FlowsInv, Texts, Streamed
<1>. QED
  BY <1>11, <1>12, <1>14, <1>15 DEF FlowsInv

-----------------------------------------------------------------------------
(* The stream's chunks.                                                    *)

\* A chunk of the stream that arrives, of any size.
LEMMA ChunkStep ==
  ASSUME IInv, OnChunk
  PROVE  FlowsInv'
<1>0. TypeOK
  BY DEF IInv
<1>1. ~Socket /\ Connected /\ UNCHANGED <<version, notices, listener, server, client, faults, owed>>
  BY DEF OnChunk
<1>2. PICK size \in 1 .. Len(wire) :
        LET pushed == push(parser.buffer, parser.heldBack \o SubSeq(wire, 1, size))
            counts == pushed.counts
        IN /\ wire' = SubSeq(wire, size + 1, Len(wire))
           /\ parser' = pushed.parser
           /\ page' = IF counts = <<>> THEN page
                      ELSE [page EXCEPT !.cached = counts[Len(counts)]]
  BY DEF OnChunk
<1>. DEFINE pushed == push(parser.buffer, parser.heldBack \o SubSeq(wire, 1, size))
            counts == pushed.counts
            last == counts[Len(counts)]
            after == Values(Ahead')
<1>3. /\ wire' = SubSeq(wire, size + 1, Len(wire))
      /\ parser' = pushed.parser
      /\ page' = IF counts = <<>> THEN page ELSE [page EXCEPT !.cached = last]
  BY <1>2
<1>4. wire \in Text /\ parser.heldBack \in Held /\ parser.buffer \in Text
  BY <1>1 DEF IInv, FlowsInv, Texts
<1>5. Framed(Ahead) /\ Rising(Ahead) /\ Between /\ page.fetch = "idle"
  BY <1>1 DEF IInv, FlowsInv, Streamed
<1>6. Chunked(parser.heldBack, parser.buffer, wire, size)
  <2>1. size \in 0 .. Len(wire)
    OBVIOUS
  <2>. QED
    BY <1>4, <1>5, <2>1, Pushed DEF Ahead
<1>7. /\ wire' \in Text /\ parser' \in [heldBack : Held, buffer : Text]
      /\ Ahead' \in Text /\ Framed(Ahead') /\ Rising(Ahead')
      /\ Brought(counts, Values(Ahead), after) /\ counts \in Seq(Nat)
  <2>1. Ahead' = Pending(pushed.parser.heldBack, pushed.parser.buffer, SubSeq(wire, size + 1, Len(wire)))
    BY <1>3 DEF Ahead
  <2>2. Ahead = Pending(parser.heldBack, parser.buffer, wire)
    BY DEF Ahead
  <2>. HIDE DEF after
  <2>3. wire' \in Text /\ parser' \in [heldBack : Held, buffer : Text] /\ counts \in Seq(Nat)
    BY <1>3, <1>6 DEF Chunked
  <2>4. /\ Ahead' \in Text /\ Framed(Ahead') /\ Rising(Ahead')
        /\ Brought(counts, Values(Ahead), Values(Ahead'))
    BY <1>6, <2>1, <2>2 DEF Chunked
  <2>. QED
    BY <2>3, <2>4 DEF after
<1>. HIDE DEF pushed, counts, last
<1>8. Socket' = Socket /\ Connected' = Connected /\ Subscribed' = Subscribed
  BY <1>1 DEF Socket, Connected, Subscribed
<1>9. /\ version \in Nat /\ owed \in Nat /\ page.cached \in Nat /\ Values(Ahead) \subseteq Nat
      /\ server.count \in Nat
  BY <1>0, <1>1, Bounds, AheadText
<1>10. page \in [cached: Version \cup {None}, fetch: {"idle", "sent", "read"},
                 read: Version \cup {None}, lost: Version \cup {None}]
  BY <1>0, PageIs
<1>11. CASE counts = <<>>
  <2>1. page' = page /\ Values(Ahead') = Values(Ahead)
    BY <1>3, <1>7, <1>11 DEF Brought
  <2>2. Latest' /\ Streamed' /\ Delivered'
    BY <1>1, <1>5, <1>7, <1>8, <2>1
       DEF IInv, FlowsInv, Latest, Streamed, Between, Delivered, Coming, Counting
  <2>. QED
    BY <1>1, <1>7, <1>8, <2>1, <2>2 DEF IInv, FlowsInv, Texts, Ends, Socketed
<1>12. CASE counts # <<>>
  <2>1. page'.cached = last /\ page'.fetch = "idle" /\ page'.lost = page.lost
    BY <1>3, <1>5, <1>10, <1>12
  <2>2. /\ last \in Values(Ahead) /\ \A v \in Values(Ahead') : last <= v
        /\ \A v \in Values(Ahead) : v <= last \/ v \in Values(Ahead')
        /\ Values(Ahead') \subseteq Values(Ahead)
    BY <1>7, <1>12 DEF Brought, last
  <2>3. page.cached <= last /\ last <= version /\ (server.pc = "yield" => last <= server.count)
    BY <1>5, <2>2 DEF Between
  <2>4. Latest'
    BY <1>1, <2>1, <2>3 DEF IInv, FlowsInv, Latest
  <2>5. Between'
    BY <1>1, <1>5, <2>1, <2>2 DEF Between
  <2>6. Delivered'
    <3>1. SUFFICES ASSUME last < owed, page.lost < owed PROVE Coming'
      BY <1>1, <2>1 DEF Delivered
    <3>2. page.cached < owed
      BY <1>9, <2>2, <2>3, <3>1
    <3>3. Coming
      BY <3>1, <3>2 DEF IInv, FlowsInv, Delivered
    <3>4. CASE \E v \in Values(Ahead) : owed <= v
      <4>1. PICK v \in Values(Ahead) : owed <= v
        BY <3>4
      <4>2. ~(v <= last)
        BY <1>9, <2>2, <3>1, <4>1
      <4>3. v \in Values(Ahead')
        BY <2>2, <4>2
      <4>. QED
        BY <1>1, <1>8, <4>1, <4>3 DEF Coming
    <3>5. CASE ~\E v \in Values(Ahead) : owed <= v
      BY <1>1, <1>8, <3>3, <3>5 DEF Coming, Counting
    <3>. QED
      BY <3>4, <3>5
  <2>. QED
    BY <1>1, <1>7, <1>8, <2>1, <2>4, <2>5, <2>6 DEF IInv, FlowsInv, Texts, Ends, Streamed, Socketed
<1>. QED
  BY <1>11, <1>12

\* Every step keeps the invariant.
LEMMA RestStep ==
  ASSUME IInv, [Next]_vars
  PROVE  FlowsInv'
<1>1. CASE UNCHANGED vars
  BY <1>1 DEF vars, IInv, FlowsInv, Texts, Ends, Latest, Streamed, Between, Socketed, Delivered,
              Coming, Fetched, Counting, Ahead, Socket, Connected, Subscribed
<1>2. CASE Next
  BY <1>2, ChangeStep, ListenerSteps, EndingSteps, QuietServerSteps, SubscribeStep, ForwardStep,
     YieldStep, KeepAliveStep, FetchSteps, ConnectStep, MessageStep, ChunkStep
     DEF Next, Listening, Serving, Browsing, Refreshing, Breaking
<1>. QED
  BY <1>1, <1>2

\* A text is a sequence of messages when its elements are.
LEMMA InTexts ==
  ASSUME NEW t \in Text, NEW S, Marks(t) \subseteq S
  PROVE  t \in Seq(S)
<1>1. Len(t) \in Nat /\ t \in [1 .. Len(t) -> Element]
  BY DEF Text
<1>2. \A i \in 1 .. Len(t) : t[i] \in S
  BY DEF Marks
<1>3. t \in [1 .. Len(t) -> S]
  BY <1>1, <1>2
<1>. QED
  BY <1>1, <1>3

\* An element of a text is one of its elements.
LEMMA InMarks ==
  ASSUME NEW S, NEW t \in Seq(S)
  PROVE  Marks(t) \subseteq S
BY DEF Marks

\* The elements of a frame or a ping are messages.
LEMMA FrameMessages ==
  ASSUME NEW lineEnd \in {"lf", "crlf"}, NEW count \in Version \cup {None}
  PROVE  Frame(lineEnd, count) \in Seq(Message) /\ Ping(lineEnd) \in Seq(Message)
<1>1. /\ Plain("event") \in Message /\ Plain("comment") \in Message
      /\ Plain("cr") \in Message /\ Plain("lf") \in Message
      /\ [type |-> "data", count |-> count] \in Message
  BY DEF Plain, Message, None
<1>2. CASE lineEnd = "lf"
  <2>1. Eol(lineEnd) = <<Plain("lf")>>
    BY <1>2 DEF Eol
  <2>. HIDE DEF Message
  <2>. QED
    BY <1>1, <2>1 DEF Frame, Ping
<1>3. CASE lineEnd = "crlf"
  <2>1. Eol(lineEnd) = <<Plain("cr"), Plain("lf")>>
    BY <1>3 DEF Eol
  <2>. QED
    BY <1>1, <2>1 DEF Frame, Ping
<1>. QED
  BY <1>2, <1>3

-----------------------------------------------------------------------------
(* Type correctness, and the two theorems.                                 *)

\* The parts of the type invariant.
ServerType == [pc: {"none", "rooms", "up", "count", "yield"}, count: Version \cup {None},
               queue: Seq({"ticket", "resync"}), missed: BOOLEAN,
               token: {"good", "expired"}, lineEnd: LineEnds]
ClientType == [kind: AllKinds, status: {"connecting", "live", "offline"},
               pc: {"retry", "open", "refresh", "stuck", "gone"},
               again: BOOLEAN, code: {"none", "unauthorized", "other"}]
PageType   == [cached: Version \cup {None}, fetch: {"idle", "sent", "read"},
               read: Version \cup {None}, lost: Version \cup {None}]
ParserType == [heldBack: Seq(Message), buffer: Seq(Message)]

ServerOK   == server \in ServerType /\ Len(server.queue) <= QUEUE_SIZE
ChannelOK  == notices \in Nat /\ listener \in [up: BOOLEAN, reconnecting: BOOLEAN] /\ faults \in Nat
WireOK     == wire \in Seq(Message) /\ parser \in ParserType
BrowserOK  == client \in ClientType /\ page \in PageType
VersionsOK == version \in Version /\ owed \in Version \cup {None}

\* The type invariant, part by part.
LEMMA TypeParts == TypeOK <=> ServerOK /\ ChannelOK /\ WireOK /\ BrowserOK /\ VersionsOK
BY DEF TypeOK, ServerOK, ChannelOK, WireOK, BrowserOK, VersionsOK, ServerType, ClientType,
       PageType, ParserType

\* A connection that is closed is typed.
LEMMA ClosedOK ==
  ASSUME ServerOK
  PROVE  /\ Closed \in ServerType /\ Len(Closed.queue) <= QUEUE_SIZE
         /\ [Closed EXCEPT !.token = "expired"] \in ServerType
         /\ Len([Closed EXCEPT !.token = "expired"].queue) <= QUEUE_SIZE
<1>1. <<>> \in Seq({"ticket", "resync"}) /\ Len(<<>>) <= QUEUE_SIZE /\ None \in Version \cup {None}
  BY SizeAssumption
<1>. QED
  BY <1>1 DEF Closed, ServerOK, ServerType

\* So is what the hub makes of a queue.
LEMMA DeliverOK ==
  ASSUME ServerOK, NEW message \in {"ticket", "resync"}, Deliver(message)
  PROVE  ServerOK'
<1>1. CASE ~Subscribed
  BY <1>1 DEF Deliver, ServerOK, ServerType, Subscribed
<1>2. CASE Subscribed /\ Len(server.queue) < QUEUE_SIZE
  <2>1. server' = [server EXCEPT !.queue = Append(server.queue, message)]
    BY <1>2 DEF Deliver
  <2>2. /\ Append(server.queue, message) \in Seq({"ticket", "resync"})
        /\ Len(Append(server.queue, message)) <= QUEUE_SIZE
    <3>1. server.queue \in Seq({"ticket", "resync"})
      BY DEF ServerOK, ServerType
    <3>2. Len(Append(server.queue, message)) = Len(server.queue) + 1 /\ Len(server.queue) \in Nat
      BY <3>1
    <3>. QED
      BY <1>2, <3>1, <3>2, SizeAssumption
  <2>. QED
    BY <2>1, <2>2 DEF ServerOK, ServerType
<1>3. CASE Subscribed /\ ~(Len(server.queue) < QUEUE_SIZE)
  <2>1. server' = [server EXCEPT !.missed = TRUE]
    BY <1>3 DEF Deliver
  <2>. QED
    BY <2>1 DEF ServerOK, ServerType
<1>. QED
  BY <1>1, <1>2, <1>3

\* So is what a server leaves in its queue.
LEMMA LeftOK ==
  ASSUME ServerOK, server.queue # <<>>
  PROVE  Left \in ServerType /\ Len(Left.queue) <= QUEUE_SIZE
<1>1. /\ Tail(server.queue) \in Seq({"ticket", "resync"}) /\ Len(Tail(server.queue)) <= QUEUE_SIZE
      /\ <<>> \in Seq({"ticket", "resync"}) /\ Len(<<>>) <= QUEUE_SIZE
  BY SizeAssumption DEF ServerOK, ServerType
<1>2. Left = [server EXCEPT !.queue = IF server.missed THEN <<>> ELSE Tail(server.queue), !.missed = FALSE]
  BY DEF Left
<1>3. CASE server.missed
  BY <1>1, <1>2, <1>3 DEF ServerOK, ServerType
<1>4. CASE ~server.missed
  BY <1>1, <1>2, <1>4 DEF ServerOK, ServerType
<1>. QED
  BY <1>3, <1>4

\* Every step keeps the numbers and the channel typed.
LEMMA VersionsStep ==
  ASSUME TypeOK, [Next]_vars
  PROVE  VersionsOK' /\ ChannelOK'
<1>1. version \in Nat /\ MaxVersion \in Nat /\ faults \in Nat /\ notices \in Nat
      /\ listener \in [up: BOOLEAN, reconnecting: BOOLEAN]
      /\ version \in Version /\ owed \in Version \cup {None}
  BY Bounds DEF TypeOK
<1>2. CASE Change
  <2>1. version + 1 \in Version
    BY <1>1, <1>2 DEF Change, Version
  <2>. QED
    BY <1>1, <1>2, <2>1 DEF Change, VersionsOK, ChannelOK
<1>3. CASE UNCHANGED <<version, owed>>
  <2>1. VersionsOK'
    BY <1>1, <1>3 DEF VersionsOK
  <2>2. ChannelOK'
    <3>1. faults' \in {faults, faults + 1} /\ notices' \in Nat
          /\ listener' \in [up: BOOLEAN, reconnecting: BOOLEAN]
      <4>1. CASE Listening
        <5>1. CASE Dispatch
          <6>1. notices' = notices - 1 /\ notices > 0 /\ listener' = listener /\ faults' = faults
            BY <5>1 DEF Dispatch
          <6>. QED
            BY <1>1, <6>1
        <5>2. CASE Listen
          <6>1. listener' = [listener EXCEPT !.up = TRUE] /\ notices' = notices /\ faults' = faults
            BY <5>2 DEF Listen
          <6>. QED
            BY <1>1, <6>1
        <5>. QED
          BY <4>1, <5>1, <5>2 DEF Listening
      <4>2. CASE Breaking
        <5>1. faults' = faults + 1 /\ (notices' = notices \/ notices' = 0)
          BY <4>2 DEF Breaking, ListenerLost, TokenExpires, ConnectionLost, Restart, Fault
        <5>2. \/ listener' = listener
              \/ listener' = [up |-> FALSE, reconnecting |-> TRUE]
              \/ listener' = [up |-> FALSE, reconnecting |-> FALSE]
          BY <4>2 DEF Breaking, ListenerLost, TokenExpires, ConnectionLost, Restart
        <5>3. /\ [up |-> FALSE, reconnecting |-> TRUE] \in [up: BOOLEAN, reconnecting: BOOLEAN]
              /\ [up |-> FALSE, reconnecting |-> FALSE] \in [up: BOOLEAN, reconnecting: BOOLEAN]
          OBVIOUS
        <5>4. listener' \in [up: BOOLEAN, reconnecting: BOOLEAN]
          <6>1. CASE listener' = listener
            BY <1>1, <6>1
          <6>2. CASE listener' = [up |-> FALSE, reconnecting |-> TRUE]
            BY <5>3, <6>2
          <6>3. CASE listener' = [up |-> FALSE, reconnecting |-> FALSE]
            BY <5>3, <6>3
          <6>. QED
            BY <5>2, <6>1, <6>2, <6>3
        <5>. QED
          BY <1>1, <5>1, <5>4
      <4>3. CASE Refreshing
        BY <1>1, <4>3 DEF Refreshing, Refreshed, RefreshThrows, Fault
      <4>6. CASE FetchFails
        BY <1>1, <4>6 DEF FetchFails, Fault
      <4>4. CASE UNCHANGED <<notices, listener, faults>>
        BY <1>1, <4>4
      <4>5. CASE Change
        BY <1>1, <4>5 DEF Change
      <4>. QED
        BY <4>1, <4>2, <4>3, <4>4, <4>5, <4>6
           DEF Next, Serving, Fetching, Browsing, vars, KeepAlive, Gone, Authenticate, Subscribe, Forward,
               Wake, Count, Yield, FetchRead, FetchStore, Connect, OnMessage, OnChunk, OnClose
    <3>. QED
      BY <1>1, <3>1 DEF ChannelOK
  <2>. QED
    BY <2>1, <2>2
<1>. QED
  BY <1>2, <1>3 DEF Next, Listening, Serving, Fetching, Browsing, Refreshing, Breaking, vars,
     KeepAlive, Gone, Dispatch, Listen, ListenerLost, Authenticate, Subscribe, Forward, Wake, Count, Yield,
     TokenExpires, ConnectionLost, Restart, FetchRead, FetchStore, FetchFails, Connect, OnMessage, OnChunk, OnClose,
     Refreshed, RefreshThrows

\* Every step keeps the server typed.
LEMMA ServerStep ==
  ASSUME TypeOK, [Next]_vars
  PROVE  ServerOK'
<1>0. ServerOK /\ server \in ServerType /\ version \in Version
  BY TypeParts DEF ServerOK, VersionsOK
<1>1. CASE UNCHANGED server
  BY <1>0, <1>1 DEF ServerOK
<1>2. CASE Dispatch
  BY <1>0, <1>2, DeliverOK DEF Dispatch
<1>3. CASE Listen
  <2>1. CASE AfterGap
    BY <1>0, <1>3, <2>1, DeliverOK DEF Listen
  <2>2. CASE ~AfterGap
    BY <1>1, <1>3, <2>2 DEF Listen
  <2>. QED
    BY <2>1, <2>2
<1>4. CASE Forward
  BY <1>0, <1>4, LeftOK DEF Forward, ServerOK
<1>5. CASE Wake
  <2>1. Left \in ServerType /\ Len(Left.queue) <= QUEUE_SIZE /\ server' = [Left EXCEPT !.pc = "count"]
    BY <1>0, <1>5, LeftOK DEF Wake
  <2>. QED
    BY <2>1 DEF ServerOK, ServerType
<1>6. CASE server' = Closed \/ server' = [Closed EXCEPT !.token = "expired"]
  BY <1>0, <1>6, ClosedOK DEF ServerOK
<1>7. CASE Authenticate /\ ~(Socket /\ server.token = "expired")
  BY <1>0, <1>7 DEF Authenticate, ServerOK, ServerType
<1>8. CASE Subscribe
  BY <1>0, <1>8 DEF Subscribe, ServerOK, ServerType
<1>9. CASE Count
  BY <1>0, <1>9 DEF Count, ServerOK, ServerType
<1>10. CASE Yield
  BY <1>0, <1>10 DEF Yield, ServerOK, ServerType
<1>11. CASE Refreshed
  BY <1>0, <1>11 DEF Refreshed, ServerOK, ServerType
<1>. QED
  BY <1>1, <1>2, <1>3, <1>4, <1>5, <1>6, <1>7, <1>8, <1>9, <1>10, <1>11
     DEF Next, Listening, Serving, Fetching, Browsing, Refreshing, Breaking, vars,
     KeepAlive, Gone, Change, ListenerLost, Authenticate, Hangup,
     TokenExpires, ConnectionLost, Restart, FetchRead, FetchStore, FetchFails, Connect, OnMessage, OnChunk, OnClose,
     RefreshThrows

\* Every step keeps the browser typed.
LEMMA BrowserStep ==
  ASSUME IInv, [Next]_vars
  PROVE  BrowserOK'
<1>0. BrowserOK /\ client \in ClientType /\ page \in PageType /\ version \in Version
  BY TypeParts DEF IInv, BrowserOK, VersionsOK
<1>1. Invalidated \in PageType
  BY <1>0 DEF Invalidated, PageType
<1>2. client' \in ClientType
  <2>1. CASE UNCHANGED client
    BY <1>0, <2>1
  <2>2. CASE \E code \in {"unauthorized", "other"} : client' = [client EXCEPT !.code = code]
    BY <1>0, <2>2 DEF ClientType
  <2>3. CASE Gone
    BY <1>0, <2>3 DEF Gone, ClientType
  <2>4. CASE Connect
    BY <1>0, <2>4 DEF Connect, ClientType
  <2>5. CASE OnMessage
    BY <1>0, <2>5 DEF OnMessage, ClientType
  <2>6. CASE OnClose
    BY <1>0, <2>6 DEF OnClose, ClientType, Socket
  <2>7. CASE Refreshing
    BY <1>0, <2>7 DEF Refreshing, Refreshed, RefreshThrows, AfterThrow, ClientType
  <2>8. CASE Breaking \/ Authenticate
    BY <2>1, <2>2, <2>8 DEF Breaking, Authenticate, Hangup, ListenerLost, TokenExpires, ConnectionLost, Restart
  <2>. QED
    BY <2>1, <2>3, <2>4, <2>5, <2>6, <2>7, <2>8
       DEF Next, Listening, Serving, Fetching, Browsing, vars, KeepAlive, Change, Dispatch, Listen,
           Subscribe, Forward, Wake, Count, Yield, FetchRead, FetchStore, FetchFails, OnChunk
<1>3. page' \in PageType
  <2>1. CASE UNCHANGED page
    BY <1>0, <2>1
  <2>2. CASE Fetching
    <3>1. CASE FetchRead
      <4>1. page' = [page EXCEPT !.fetch = "read", !.read = version]
        BY <3>1 DEF FetchRead
      <4>. QED
        BY <1>0, <4>1 DEF PageType
    <3>2. CASE FetchStore
      <4>1. page' = [page EXCEPT !.cached = page.read, !.fetch = "idle", !.read = None]
        BY <3>2 DEF FetchStore
      <4>. QED
        BY <1>0, <4>1 DEF PageType
    <3>3. CASE FetchFails
      <4>1. Missed \in Version \cup {None}
        BY <1>0 DEF Missed, PageType
      <4>2. \/ page' = [page EXCEPT !.fetch = "sent", !.read = None]
            \/ page' = [page EXCEPT !.fetch = "idle", !.read = None, !.lost = Missed]
        BY <3>3 DEF FetchFails
      <4>. QED
        BY <1>0, <4>1, <4>2 DEF PageType
    <3>. QED
      BY <2>2, <3>1, <3>2, <3>3 DEF Fetching
  <2>3. CASE OnMessage
    BY <1>0, <1>1, <2>3 DEF OnMessage, OnReady
  <2>4. CASE OnChunk
    <3>1. PICK size \in 1 .. Len(wire) :
            LET pushed == push(parser.buffer, parser.heldBack \o SubSeq(wire, 1, size))
                counts == pushed.counts
            IN /\ wire' = SubSeq(wire, size + 1, Len(wire))
               /\ parser' = pushed.parser
               /\ page' = IF counts = <<>> THEN page
                          ELSE [page EXCEPT !.cached = counts[Len(counts)]]
      BY <2>4 DEF OnChunk
    <3>. DEFINE counts == push(parser.buffer, parser.heldBack \o SubSeq(wire, 1, size)).counts
                last == counts[Len(counts)]
    <3>2. page' = IF counts = <<>> THEN page ELSE [page EXCEPT !.cached = last]
      BY <3>1
    <3>3. FlowsInv'
      BY <2>4, ChunkStep
    <3>4. CASE counts = <<>>
      BY <1>0, <3>2, <3>4
    <3>5. CASE counts # <<>>
      <4>1. page' = [page EXCEPT !.cached = last] /\ page'.cached = last
        BY <1>0, <3>2, <3>5 DEF PageType
      <4>2. last <= version
        BY <2>4, <3>3, <4>1 DEF FlowsInv, Latest, OnChunk
      <4>3. last \in Nat
        <5>1. ~Socket /\ size \in 0 .. Len(wire)
          BY <2>4 DEF OnChunk
        <5>2. Connected
          BY <2>4 DEF OnChunk
        <5>3. Chunked(parser.heldBack, parser.buffer, wire, size)
          BY <5>1, <5>2, Pushed DEF Ahead, IInv, FlowsInv, Streamed, Texts
        <5>4. counts \in Seq(Nat)
          BY <5>3 DEF Chunked
        <5>. HIDE DEF counts
        <5>. QED
          BY <3>5, <5>4
      <4>. HIDE DEF last
      <4>4. last \in Version \cup {None}
        BY <1>0, <4>2, <4>3, SizeAssumption DEF Version, None
      <4>. QED
        BY <1>0, <4>1, <4>4 DEF PageType
    <3>. QED
      BY <3>4, <3>5
  <2>. QED
    BY <2>1, <2>2, <2>3, <2>4
       DEF Next, Listening, Serving, Browsing, Refreshing, Breaking, vars, KeepAlive, Gone, Change,
           Dispatch, Listen, Authenticate, Hangup, Subscribe, Forward, Wake, Count, Yield, ListenerLost,
           TokenExpires, ConnectionLost, Restart, Connect, OnClose, Refreshed, RefreshThrows
<1>. QED
  BY <1>2, <1>3 DEF BrowserOK

\* Every step keeps the wire and the parser typed: only whole messages are sent, and only
\* what was on the wire is left in the parser.
LEMMA WireStep ==
  ASSUME IInv, [Next]_vars
  PROVE  WireOK'
<1>0. wire \in Seq(Message) /\ parser \in ParserType /\ version \in Version /\ TypeOK
  BY TypeParts DEF IInv, WireOK, VersionsOK
<1>1. CASE UNCHANGED <<wire, parser>>
  BY <1>0, <1>1 DEF WireOK
<1>2. CASE UNCHANGED parser /\ wire' = <<>>
  BY <1>0, <1>2 DEF WireOK
<1>3. CASE Subscribe
  <2>1. Plain("ready") \in Message
    BY DEF Plain, Message, None
  <2>2. wire' = <<Plain("ready")>> \/ wire' = <<>>
    BY <1>3 DEF Subscribe
  <2>. QED
    BY <1>0, <1>3, <2>1, <2>2 DEF Subscribe, WireOK
<1>4. CASE Forward
  <2>1. Got \in {"ticket", "resync"}
    BY <1>0, <1>4, GotIs DEF Forward
  <2>2. Plain(Got) \in Message
    BY <2>1 DEF Plain, Message, None
  <2>3. wire' = Append(wire, Plain(Got)) /\ parser' = parser
    BY <1>4 DEF Forward
  <2>. QED
    BY <1>0, <2>2, <2>3 DEF WireOK
<1>5. CASE Yield \/ KeepAlive
  <2>1. /\ server.count \in Version \cup {None} /\ server.lineEnd \in {"lf", "crlf"}
    BY <1>0, ServerIs, LineEndIs
  <2>2. /\ Frame(server.lineEnd, server.count) \in Seq(Message)
        /\ Ping(server.lineEnd) \in Seq(Message)
    BY <2>1, FrameMessages
  <2>3. wire \o Frame(server.lineEnd, server.count) \in Seq(Message)
    BY <1>0, <2>2
  <2>4. parser' = parser /\ wire' \in Seq(Message)
    BY <1>5, <2>2, <2>3 DEF Yield, KeepAlive
  <2>. QED
    BY <1>0, <2>4 DEF WireOK
<1>6. CASE Connect
  <2>1. createSseParser \in ParserType
    BY DEF createSseParser, ParserType
  <2>. QED
    BY <1>0, <1>6, <2>1 DEF Connect, WireOK
<1>7. CASE OnMessage
  <2>1. Tail(wire) \in Seq(Message)
    BY <1>0, <1>7 DEF OnMessage
  <2>. QED
    BY <1>0, <1>7, <2>1 DEF OnMessage, WireOK
<1>8. CASE OnChunk
  <2>1. PICK size \in 1 .. Len(wire) :
          LET pushed == push(parser.buffer, parser.heldBack \o SubSeq(wire, 1, size))
              counts == pushed.counts
          IN /\ wire' = SubSeq(wire, size + 1, Len(wire))
             /\ parser' = pushed.parser
             /\ page' = IF counts = <<>> THEN page
                        ELSE [page EXCEPT !.cached = counts[Len(counts)]]
    BY <1>8 DEF OnChunk
  <2>2. wire' = SubSeq(wire, size + 1, Len(wire))
        /\ parser' = push(parser.buffer, parser.heldBack \o SubSeq(wire, 1, size)).parser
    BY <2>1
  <2>3. Chunked(parser.heldBack, parser.buffer, wire, size)
    <3>1. ~Socket /\ size \in 0 .. Len(wire) /\ Connected
      BY <1>8 DEF OnChunk
    <3>. QED
      BY <3>1, Pushed DEF Ahead, IInv, FlowsInv, Streamed, Texts
  <2>4. /\ parser' = [heldBack |-> parser'.heldBack, buffer |-> parser'.buffer]
        /\ parser'.heldBack \in Held /\ parser'.buffer \in Text
        /\ Marks(parser'.buffer) \subseteq Marks(parser.buffer) \cup Marks(parser.heldBack) \cup Marks(wire) \cup {Lf}
        /\ Marks(parser'.heldBack) \subseteq Marks(parser.heldBack) \cup Marks(wire)
    BY <2>2, <2>3 DEF Chunked
  <2>5. /\ Marks(parser.buffer) \subseteq Message /\ Marks(parser.heldBack) \subseteq Message
        /\ Marks(wire) \subseteq Message /\ Lf \in Message
    <3>1. Lf \in Message
      BY DEF Lf, Plain, Message, None
    <3>2. parser.buffer \in Seq(Message) /\ parser.heldBack \in Seq(Message)
      BY <1>0 DEF ParserType
    <3>. QED
      BY <1>0, <3>1, <3>2, InMarks
  <2>6. parser'.heldBack \in Seq(Message) /\ parser'.buffer \in Seq(Message)
    BY <2>4, <2>5, InTexts DEF Held
  <2>7. wire' \in Seq(Message)
    BY <1>0, <2>2
  <2>. QED
    BY <2>4, <2>6, <2>7 DEF WireOK, ParserType
<1>. QED
  BY <1>1, <1>2, <1>3, <1>4, <1>5, <1>6, <1>7, <1>8
     DEF Next, Listening, Serving, Fetching, Browsing, Refreshing, Breaking, vars, Gone, Change,
         Dispatch, Listen, Authenticate, Hangup, Wake, Count, ListenerLost,
         TokenExpires, ConnectionLost, Restart, FetchRead, FetchStore, FetchFails, OnClose, Refreshed, RefreshThrows

\* The invariant at the start.
LEMMA Starting ==
  ASSUME Init
  PROVE  IInv
<1>1. PICK lineEnd \in LineEnds : server = [pc |-> "none", count |-> None, queue |-> <<>>, missed |-> FALSE,
                                            token |-> "good", lineEnd |-> lineEnd]
  BY DEF Init
<1>2. PICK kind \in Kinds :
        /\ client = [kind |-> kind, status |-> "connecting", pc |-> "retry",
                     again |-> FALSE, code |-> "none"]
        /\ page = [cached |-> None, read |-> None, lost |-> None,
                   fetch |-> IF kind = "socket" THEN "sent" ELSE "idle"]
  BY DEF Init
<1>3. /\ version = 1 /\ notices = 0 /\ listener = [up |-> FALSE, reconnecting |-> FALSE]
      /\ wire = <<>> /\ parser = createSseParser /\ faults = 0 /\ owed = None
  BY DEF Init
<1>4. Socket <=> page.fetch = "sent"
  BY <1>2 DEF Socket
<1>5. /\ page.cached = 0 /\ page.lost = 0 /\ page.fetch \in {"sent", "idle"} /\ ~Connected /\ ~Subscribed
      /\ server.pc = "none" /\ None = 0
  BY <1>1, <1>2 DEF Connected, Subscribed, None
<1>6. ServerOK
  BY <1>1, SizeAssumption DEF ServerOK, ServerType
<1>7. BrowserOK
  <2>1. client \in ClientType
    BY <1>2, KindsAssumption DEF ClientType
  <2>2. page \in PageType
    BY <1>2 DEF PageType
  <2>. QED
    BY <2>1, <2>2 DEF BrowserOK
<1>8. WireOK /\ Texts
  BY <1>3, NoText DEF WireOK, ParserType, createSseParser, Texts, Held
<1>9. VersionsOK /\ ChannelOK
  BY <1>3, SizeAssumption DEF VersionsOK, ChannelOK, Version, None
<1>10. Latest
  BY <1>3, <1>5 DEF Latest
<1>11. Ends /\ Streamed /\ Socketed /\ Delivered
  BY <1>3, <1>4, <1>5, NoText DEF Ends, Streamed, Socketed, Delivered, Coming
<1>. QED
  BY <1>6, <1>7, <1>8, <1>9, <1>10, <1>11, TypeParts DEF IInv, FlowsInv

\* And after every step.
LEMMA Inductive == IInv /\ [Next]_vars => IInv'
<1>1. ASSUME IInv, [Next]_vars PROVE TypeOK'
  <2>1. ServerOK' /\ ChannelOK' /\ WireOK' /\ BrowserOK' /\ VersionsOK'
    BY <1>1, VersionsStep, ServerStep, BrowserStep, WireStep DEF IInv
  <2>. QED
    BY <2>1, TypeParts, PTL
<1>2. ASSUME IInv, [Next]_vars PROVE FlowsInv'
  BY <1>2, RestStep
<1>. QED
  BY <1>1, <1>2 DEF IInv

\* What is to come to a badge is in the parser or on the way to it.
LEMMA ComingIsUnderWay ==
  ASSUME IInv, page.cached < owed, page.lost < owed
  PROVE  UnderWay
<1>1. Coming
  BY DEF IInv, FlowsInv, Delivered
<1>2. TypeOK /\ owed \in Nat /\ page.cached \in Nat
  BY Bounds DEF IInv
<1>3. ASSUME ~Socket, NEW v \in Values(Ahead), owed <= v
      PROVE  \E i \in 1 .. Len(parser.buffer \o wire) : (parser.buffer \o wire)[i].count >= owed
  <2>1. /\ wire \in Text /\ parser.heldBack \in Held /\ parser.heldBack \in Text
        /\ parser.buffer \in Text
    BY <1>3 DEF IInv, FlowsInv, Texts, Held
  <2>2. PICK i \in DataAt(Ahead) : v = Ahead[i].count
    BY DEF Values
  <2>. DEFINE e == Ahead[i]
              t == parser.heldBack \o wire
              b == parser.buffer \o wire
  <2>3. e \in Marks(Ahead) /\ e.type = "data"
    BY DEF DataAt, Marks
  <2>4. t \in Text /\ normalize[t] \in Text
    BY <2>1, Joined, NormalizeIs
  <2>5. Marks(Ahead) = Marks(parser.buffer) \cup Marks(normalize[t])
    BY <2>1, <2>4, MarksJoined DEF Ahead, Pending
  <2>6. Marks(normalize[t]) \subseteq Marks(t) \cup {Lf}
    BY <2>4, MarksNormal
  <2>7. Marks(t) = Marks(parser.heldBack) \cup Marks(wire)
    BY <2>1, MarksJoined
  <2>8. e \notin Marks(parser.heldBack) /\ e # Lf
    BY <2>1, <2>3, NoText DEF Held, Marks, Lf, Plain
  <2>9. Marks(b) = Marks(parser.buffer) \cup Marks(wire)
    BY <2>1, MarksJoined
  <2>. HIDE DEF t, b, e
  <2>10. e \in Marks(b)
    BY <2>3, <2>5, <2>6, <2>7, <2>8, <2>9
  <2>11. PICK k \in 1 .. Len(b) : e = b[k]
    BY <2>10 DEF Marks
  <2>12. e.count >= owed
    <3>1. v \in Nat
      BY <1>3, AheadText
    <3>. QED
      BY <1>2, <1>3, <2>2, <3>1 DEF e
  <2>. QED
    BY <2>11, <2>12 DEF b
<1>4. /\ page.read \in Nat /\ server.count \in Nat
  BY <1>2, Bounds
<1>5. CASE ~Socket /\ \E v \in Values(Ahead) : owed <= v
  BY <1>3, <1>5 DEF UnderWay
<1>6. CASE ~(~Socket /\ \E v \in Values(Ahead) : owed <= v)
  BY <1>1, <1>2, <1>4, <1>6 DEF Coming, UnderWay, Fetched, Counting
<1>. QED
  BY <1>5, <1>6

\* The types of everything in the model of the live updates.
THEOREM TypeCorrect == Spec => []TypeOK
<1>1. Init => IInv
  BY Starting
<1>2. IInv /\ [Next]_vars => IInv'
  BY Inductive
<1>3. IInv => TypeOK
  BY DEF IInv
<1>. QED
  BY <1>1, <1>2, <1>3, PTL DEF Spec

\* No change that is owed to a browser is forgotten on its way, except when the
\* fetch that was to bring it was made and gave up: for any queue, wire, number of
\* changes and number of faults.
THEOREM NothingForgottenAlways == Spec => []NothingForgotten
<1>1. Init => IInv
  BY Starting
<1>2. IInv /\ [Next]_vars => IInv'
  BY Inductive
<1>3. IInv => NothingForgotten
  BY ComingIsUnderWay DEF NothingForgotten
<1>. QED
  BY <1>1, <1>2, <1>3, PTL DEF Spec
=============================================================================
