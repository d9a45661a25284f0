-------------------------- MODULE EditCompose_proofs --------------------------
(***************************************************************************)
(* Proofs about EditCompose, for any number of members, edits, keys and    *)
(* values.  Two questions: is what a preview shows exact, and which        *)
(* selections get none?                                                    *)
(*                                                                         *)
(* 1. Joined texts.  Texts and candidates are flattened sequences; a       *)
(*    joined sequence grows by its last piece, and is read by place.       *)
(* 2. Order.  The place of a patch is the number of patches before it, so  *)
(*    Patches has each of them once, by rising start (PatchOrder), and two *)
(*    of them overlap exactly when the last two members go (OverlapIs).    *)
(* 3. Composition.  The loop of compose, cut at the members of the source, *)
(*    leaves for each member its own text, its new value or nothing, and   *)
(*    the additions behind the last one (ComposedText).                    *)
(* 4. Reading.  Where no two values touch, tokens are read one by one, and *)
(*    that text reads as the members approved (ComposedReads).             *)
(* 5. Verdict.  A selection that composes and has a place for each diff is *)
(*    previewed; the others are those of CannotPreview.  Touching values   *)
(*    need two additions to an empty array, of which the diff finds one    *)
(*    only.                                                                *)
(* 6. Quoting.  No two rows of an object's result have one key, and an     *)
(*    array's item has its own position if nothing before it is removed:   *)
(*    there the diff quotes the item's own value (QuotesAreOwn).           *)
(*                                                                         *)
(* IInv needs only what the items of a proposal can be (Proposed) and that *)
(* candidate, previewed and diff belong to the edits: everything else      *)
(* follows from the edits alone.  If an item has no patch there is no      *)
(* candidate; if all have one the selection is Typed, as 2 to 6 assume.    *)
(***************************************************************************)
EXTENDS EditCompose, SequenceTheorems, FiniteSetTheorems, WellFoundedInduction, TLAPS

LEMMA NatInduct ==
  ASSUME NEW S, 0 \in S, \A n \in Nat : n \in S => n + 1 \in S
  PROVE  Nat \subseteq S
<1> SUFFICES ASSUME NEW x \in Nat \ S PROVE FALSE
  OBVIOUS
<1> DEFINE N == Nat \ S
<1>1. N \subseteq Nat /\ N # {}
  OBVIOUS
<1>2. \E y \in N : \A z \in N : ~(<<z, y>> \in OpToRel(<, Nat))
  BY <1>1, NatLessThanWellFounded, WFMin
<1>3. \A y, z \in N : <<z, y>> \in OpToRel(<, Nat) <=> z < y
  BY <1>1 DEF OpToRel
<1>4. PICK y \in N : \A z \in N : ~(z < y)
  BY <1>2, <1>3, Zenon
<1>5. y - 1 \in N
  BY <1>4
<1> QED
  BY <1>4, <1>5

\* The first m pieces of s, joined.
Joined(s, m) == FlattenSeq([i \in 1 .. m |-> s[i]])

Steps(s, m, f) == f = [i \in 1 .. m |-> IF i = 1 THEN s[i] ELSE f[i - 1] \o s[i]]

LEMMA StepsAt ==
  ASSUME NEW s, NEW m \in Nat, NEW f, Steps(s, m, f), NEW i \in 1 .. m
  PROVE  f[i] = IF i = 1 THEN s[i] ELSE f[i - 1] \o s[i]
<1>1. f = [j \in 1 .. m |-> IF j = 1 THEN s[j] ELSE f[j - 1] \o s[j]]
  BY DEF Steps
<1> DEFINE v(j) == IF j = 1 THEN s[j] ELSE f[j - 1] \o s[j]
<1>2. f = [j \in 1 .. m |-> v(j)]
  BY <1>1
<1> HIDE DEF v
<1>3. f[i] = v(i)
  BY <1>2
<1> QED
  BY <1>3 DEF v

LEMMA StepsNext ==
  ASSUME NEW s, NEW m \in Nat, NEW f, Steps(s, m + 1, f)
  PROVE  f[m + 1] = IF m + 1 = 1 THEN s[m + 1] ELSE f[m] \o s[m + 1]
<1>1. m + 1 \in Nat /\ m + 1 \in 1 .. m + 1 /\ (m + 1) - 1 = m
  OBVIOUS
<1>2. f[m + 1] = IF m + 1 = 1 THEN s[m + 1] ELSE f[(m + 1) - 1] \o s[m + 1]
  BY <1>1, StepsAt
<1> QED
  BY <1>1, <1>2

LEMMA StepsExist ==
  ASSUME NEW T, NEW s \in Seq(Seq(T))
  PROVE  \A m \in Nat : m <= Len(s) => \E f \in [1 .. m -> Seq(T)] : Steps(s, m, f)
<1> DEFINE S == {m \in Nat : m <= Len(s) => \E f \in [1 .. m -> Seq(T)] : Steps(s, m, f)}
<1>0. \A i \in 1 .. Len(s) : s[i] \in Seq(T)
  OBVIOUS
<1>1. 0 \in S
  <2>1. [i \in 1 .. 0 |-> <<>>] \in [1 .. 0 -> Seq(T)]
    OBVIOUS
  <2>2. Steps(s, 0, [i \in 1 .. 0 |-> <<>>])
    BY DEF Steps
  <2> QED
    BY <2>1, <2>2
<1>2. \A m \in Nat : m \in S => m + 1 \in S
  <2> SUFFICES ASSUME NEW m \in S, m + 1 <= Len(s)
               PROVE  \E g \in [1 .. m + 1 -> Seq(T)] : Steps(s, m + 1, g)
    OBVIOUS
  <2>1. PICK f \in [1 .. m -> Seq(T)] : Steps(s, m, f)
    OBVIOUS
  <2> DEFINE g == [i \in 1 .. m + 1 |-> IF i <= m THEN f[i]
                                        ELSE IF i = 1 THEN s[i] ELSE f[i - 1] \o s[i]]
  <2>2. g \in [1 .. m + 1 -> Seq(T)]
    BY <1>0
  <2>3. \A i \in 1 .. m : f[i] = IF i = 1 THEN s[i] ELSE f[i - 1] \o s[i]
    BY <2>1 DEF Steps
  <2>4. ASSUME NEW i \in 1 .. m + 1
        PROVE  g[i] = IF i = 1 THEN s[i] ELSE g[i - 1] \o s[i]
    <3>1. m \in Nat /\ (i # 1 => i - 1 \in 1 .. m /\ g[i - 1] = f[i - 1])
      OBVIOUS
    <3>2. CASE i <= m
      <4>1. g[i] = f[i] /\ i \in 1 .. m
        BY <3>1, <3>2
      <4> QED
        BY <2>3, <3>1, <4>1, Zenon
    <3>3. CASE ~(i <= m)
      <4>1. g[i] = IF i = 1 THEN s[i] ELSE f[i - 1] \o s[i]
        BY <3>3
      <4> QED
        BY <3>1, <4>1, Zenon
    <3> QED
      BY <3>2, <3>3
  <2>5. Steps(s, m + 1, g)
    BY <2>2, <2>4 DEF Steps
  <2> QED
    BY <2>2, <2>5
<1> QED
  BY <1>1, <1>2, NatInduct

LEMMA StepsAgree ==
  ASSUME NEW s, NEW m \in Nat, NEW n \in Nat, m <= n, NEW f, NEW g,
         Steps(s, m, f), Steps(s, n, g)
  PROVE  \A i \in 1 .. m : f[i] = g[i]
<1> DEFINE S == {i \in Nat : i \in 1 .. m => f[i] = g[i]}
<1>1. 0 \in S
  OBVIOUS
<1>2. \A i \in Nat : i \in S => i + 1 \in S
  <2> SUFFICES ASSUME NEW i \in S, i + 1 \in 1 .. m
               PROVE  f[i + 1] = g[i + 1]
    OBVIOUS
  <2>1. i + 1 \in 1 .. n /\ (i + 1) - 1 = i
    OBVIOUS
  <2>2. f[i + 1] = IF i + 1 = 1 THEN s[i + 1] ELSE f[i] \o s[i + 1]
    BY <2>1, StepsAt
  <2>3. g[i + 1] = IF i + 1 = 1 THEN s[i + 1] ELSE g[i] \o s[i + 1]
    BY <2>1, StepsAt
  <2>4. i + 1 # 1 => f[i] = g[i]
    OBVIOUS
  <2> QED
    BY <2>2, <2>3, <2>4, Zenon
<1>3. Nat \subseteq S
  BY <1>1, <1>2, NatInduct
<1> QED
  BY <1>3

LEMMA FlattenIsSteps ==
  ASSUME NEW T, NEW s \in Seq(Seq(T)), NEW m \in 1 .. Len(s)
  PROVE  \E f \in [1 .. m -> Seq(T)] : Steps(s, m, f) /\ Joined(s, m) = f[m]
<1> DEFINE r == [i \in 1 .. m |-> s[i]]
<1>1. r \in Seq(Seq(T)) /\ Len(r) = m
  OBVIOUS
<1>2. PICK f \in [1 .. m -> Seq(T)] : Steps(r, m, f)
  <2>1. m \in Nat /\ m <= Len(r)
    BY <1>1
  <2> QED
    BY <1>1, <2>1, StepsExist
<1> DEFINE h == CHOOSE g : g = [i \in 1 .. Len(r) |-> IF i = 1 THEN r[i] ELSE g[i - 1] \o r[i]]
<1>3. f = [i \in 1 .. Len(r) |-> IF i = 1 THEN r[i] ELSE f[i - 1] \o r[i]]
  BY <1>1, <1>2 DEF Steps
<1>4. h = [i \in 1 .. Len(r) |-> IF i = 1 THEN r[i] ELSE h[i - 1] \o r[i]]
  BY <1>3
<1>5. Steps(r, m, h)
  BY <1>1, <1>4 DEF Steps
<1>6. FlattenSeq(r) = h[m]
  <2>1. FlattenSeq(r) = IF Len(r) = 0 THEN r ELSE h[Len(r)]
    BY Zenon DEF FlattenSeq
  <2>2. Len(r) = m /\ m # 0
    BY <1>1
  <2> HIDE DEF h, r
  <2> QED
    BY <2>1, <2>2
<1>7. h[m] = f[m]
  <2>1. m \in Nat /\ m <= m /\ m \in 1 .. m
    OBVIOUS
  <2> HIDE DEF h
  <2> QED
    BY <1>2, <1>5, <2>1, StepsAgree
<1>8. Steps(s, m, f)
  BY <1>2 DEF Steps
<1> QED
  BY <1>6, <1>7, <1>8 DEF Joined

\* Pieces are joined one after the other.
LEMMA JoinedNone == \A s : Joined(s, 0) = <<>>
BY DEF Joined, FlattenSeq

LEMMA JoinedIsASeq ==
  ASSUME NEW T, NEW s \in Seq(Seq(T)), NEW m \in 0 .. Len(s)
  PROVE  Joined(s, m) \in Seq(T)
<1>1. CASE m = 0
  BY <1>1, JoinedNone, EmptySeq
<1>2. CASE m # 0
  <2>1. m \in 1 .. Len(s)
    BY <1>2
  <2>2. PICK f \in [1 .. m -> Seq(T)] : Joined(s, m) = f[m]
    BY <2>1, FlattenIsSteps
  <2> QED
    BY <2>1, <2>2
<1> QED
  BY <1>1, <1>2

\* One sequence after another, with what is known of it.
s ++ t == s \o t

LEMMA JoinTwo ==
  ASSUME NEW T, NEW s \in Seq(T), NEW t \in Seq(T)
  PROVE  s ++ t \in Seq(T) /\ Len(s ++ t) = Len(s) + Len(t)
BY ConcatProperties DEF ++

LEMMA JoinLeft ==
  ASSUME NEW T, NEW s \in Seq(T), NEW t \in Seq(T), NEW i \in 1 .. Len(s)
  PROVE  (s ++ t)[i] = s[i]
BY ConcatProperties DEF ++

LEMMA JoinRight ==
  ASSUME NEW T, NEW s \in Seq(T), NEW t \in Seq(T), NEW i \in 1 .. Len(t)
  PROVE  (s ++ t)[Len(s) + i] = t[i]
BY ConcatProperties DEF ++

LEMMA JoinEmpty ==
  ASSUME NEW T, NEW s \in Seq(T)
  PROVE  s ++ <<>> = s /\ <<>> ++ s = s
BY ConcatEmptySeq DEF ++

LEMMA Associative ==
  ASSUME NEW T, NEW s \in Seq(T), NEW t \in Seq(T), NEW u \in Seq(T)
  PROVE  (s ++ t) ++ u = s ++ (t ++ u)
BY ConcatAssociative DEF ++

LEMMA JoinedNext ==
  ASSUME NEW T, NEW s \in Seq(Seq(T)), NEW m \in 0 .. Len(s) - 1
  PROVE  Joined(s, m + 1) = Joined(s, m) ++ s[m + 1]
<1>1. m + 1 \in 1 .. Len(s) /\ m + 1 \in Nat /\ m + 1 \in 1 .. m + 1 /\ (m + 1) - 1 = m
  OBVIOUS
<1>2. PICK g \in [1 .. m + 1 -> Seq(T)] : Steps(s, m + 1, g) /\ Joined(s, m + 1) = g[m + 1]
  BY <1>1, FlattenIsSteps
<1>3. g[m + 1] = IF m + 1 = 1 THEN s[m + 1] ELSE g[m] \o s[m + 1]
  <2>1. m \in Nat /\ Steps(s, m + 1, g)
    BY <1>2
  <2> QED
    BY ONLY <2>1, StepsNext
<1>4. s[m + 1] \in Seq(T)
  BY <1>1
<1>5. CASE m = 0
  <2>1. Joined(s, m) \o s[m + 1] = s[m + 1]
    BY <1>4, <1>5, JoinedNone, ConcatEmptySeq
  <2> QED
    BY <1>2, <1>3, <1>5, <2>1 DEF ++
<1>6. CASE m # 0
  <2>1. m \in 1 .. Len(s) /\ m \in Nat /\ m \in 1 .. m /\ m <= m + 1 /\ m + 1 # 1
    BY <1>6
  <2>2. PICK f \in [1 .. m -> Seq(T)] : Steps(s, m, f) /\ Joined(s, m) = f[m]
    BY <2>1, FlattenIsSteps
  <2>3. f[m] = g[m]
    BY <1>1, <1>2, <2>1, <2>2, StepsAgree
  <2> QED
    BY <1>2, <1>3, <2>1, <2>2, <2>3 DEF ++
<1> QED
  BY <1>5, <1>6

LEMMA JoinedAll ==
  ASSUME NEW T, NEW s \in Seq(T)
  PROVE  FlattenSeq(s) = Joined(s, Len(s))
<1>1. s = [i \in 1 .. Len(s) |-> s[i]]
  OBVIOUS
<1> QED
  BY <1>1 DEF Joined

LEMMA JoinedSame ==
  ASSUME NEW s, NEW t, NEW m \in Nat, \A i \in 1 .. m : s[i] = t[i]
  PROVE  Joined(s, m) = Joined(t, m)
<1>1. [i \in 1 .. m |-> s[i]] = [i \in 1 .. m |-> t[i]]
  OBVIOUS
<1> QED
  BY <1>1 DEF Joined

\* Pieces that are empty leave nothing.
LEMMA JoinedEmpty ==
  ASSUME NEW T, NEW s \in Seq(Seq(T)), NEW a \in 0 .. Len(s), NEW b \in a .. Len(s),
         \A i \in a + 1 .. b : s[i] = <<>>
  PROVE  Joined(s, b) = Joined(s, a)
<1> DEFINE P(i) == a + i <= b => Joined(s, a + i) = Joined(s, a)
<1>1. P(0)
  BY a + 0 = a
<1>2. \A i \in Nat : P(i) => P(i + 1)
  <2> SUFFICES ASSUME NEW i \in Nat, P(i), a + (i + 1) <= b
               PROVE  Joined(s, a + (i + 1)) = Joined(s, a)
    OBVIOUS
  <2>1. a + i \in 0 .. Len(s) - 1 /\ a + (i + 1) = (a + i) + 1 /\ (a + i) + 1 \in a + 1 .. b
    OBVIOUS
  <2>2. Joined(s, (a + i) + 1) = Joined(s, a + i) ++ s[(a + i) + 1]
    BY <2>1, JoinedNext
  <2>3. Joined(s, a + i) \in Seq(T) /\ Joined(s, a + i) = Joined(s, a)
    BY <2>1, JoinedIsASeq
  <2>4. Joined(s, a + i) ++ <<>> = Joined(s, a + i)
    BY <2>3, JoinEmpty
  <2>5. s[(a + i) + 1] = <<>>
    BY <2>1
  <2> QED
    BY <2>1, <2>2, <2>3, <2>4, <2>5, Zenon
<1>3. P(b - a)
  <2> HIDE DEF P
  <2>1. \A i \in Nat : P(i)
    <3> DEFINE S == {i \in Nat : P(i)}
    <3>1. 0 \in S /\ \A i \in Nat : i \in S => i + 1 \in S
      BY <1>1, <1>2
    <3>2. Nat \subseteq S
      <4> HIDE DEF S
      <4> QED
        BY <3>1, NatInduct
    <3> QED
      BY <3>2
  <2> QED
    BY <2>1
<1> QED
  BY <1>3, a + (b - a) = b

\* What a text holds between two offsets.
Quote(text, a, b) == SubSeq(text, a + 1, b)

LEMMA QuoteNone ==
  ASSUME NEW text, NEW a \in Int
  PROVE  Quote(text, a, a) = <<>>
BY SubSeqEmpty DEF Quote

LEMMA QuoteIsASeq ==
  ASSUME NEW T, NEW text \in Seq(T), NEW a \in Nat, NEW b \in Int, b <= Len(text)
  PROVE  Quote(text, a, b) \in Seq(T)
<1>1. \A i \in a + 1 .. b : text[i] \in T
  BY ElementOfSeq
<1> QED
  BY <1>1, SubSeqProperties DEF Quote

LEMMA QuoteJoin ==
  ASSUME NEW T, NEW text \in Seq(T), NEW a \in 0 .. Len(text), NEW b \in a .. Len(text),
         NEW c \in b .. Len(text)
  PROVE  Quote(text, a, b) ++ Quote(text, b, c) = Quote(text, a, c)
<1> DEFINE x == Quote(text, a, b)
           y == Quote(text, b, c)
           z == Quote(text, a, c)
<1>1. x \in Seq(T) /\ Len(x) = b - a /\ \A i \in 1 .. b - a : x[i] = text[a + i]
  BY DEF Quote
<1>2. y \in Seq(T) /\ Len(y) = c - b /\ \A i \in 1 .. c - b : y[i] = text[b + i]
  BY DEF Quote
<1>3. z \in Seq(T) /\ Len(z) = c - a /\ \A i \in 1 .. c - a : z[i] = text[a + i]
  BY DEF Quote
<1> HIDE DEF x, y, z
<1>0. x \in Seq(T) /\ y \in Seq(T) /\ Len(x) = b - a /\ Len(y) = c - b
  BY <1>1, <1>2
<1>4. x ++ y \in Seq(T) /\ Len(x ++ y) = c - a
  <2>1. x ++ y \in Seq(T) /\ Len(x ++ y) = Len(x) + Len(y)
    BY <1>0, JoinTwo
  <2> QED
    BY <1>0, <2>1
<1>5. ASSUME NEW i \in 1 .. c - a PROVE (x ++ y)[i] = text[a + i]
  <2>1. CASE i <= b - a
    BY <1>1, <1>2, <2>1, JoinLeft
  <2>2. CASE i > b - a
    <3>1. i - (b - a) \in 1 .. Len(y) /\ Len(x) + (i - (b - a)) = i
          /\ b + (i - (b - a)) = a + i /\ i - (b - a) \in 1 .. c - b
      BY <1>1, <1>2, <2>2
    <3>2. (x ++ y)[Len(x) + (i - (b - a))] = y[i - (b - a)]
      <4> DEFINE k == i - (b - a)
      <4>1. k \in 1 .. Len(y)
        BY <3>1
      <4> HIDE DEF k
      <4>2. (x ++ y)[Len(x) + k] = y[k]
        BY <1>0, <4>1, JoinRight
      <4> QED
        BY <4>2 DEF k
    <3>3. y[i - (b - a)] = text[b + (i - (b - a))]
      BY <1>2, <3>1
    <3> QED
      BY <3>1, <3>2, <3>3
  <2> QED
    BY <2>1, <2>2
<1>6. x ++ y = z
  BY <1>3, <1>4, <1>5, SeqEqual
<1> QED
  BY <1>6 DEF x, y, z

LEMMA QuoteMiddle ==
  ASSUME NEW T, NEW x \in Seq(T), NEW y \in Seq(T), NEW z \in Seq(T)
  PROVE  Quote((x ++ y) ++ z, Len(x), Len(x) + Len(y)) = y
<1>1. /\ x ++ y \in Seq(T) /\ (x ++ y) ++ z \in Seq(T)
      /\ Len(x) \in Nat /\ Len(y) \in Nat /\ Len(z) \in Nat
      /\ Len(x ++ y) = Len(x) + Len(y) /\ Len((x ++ y) ++ z) = (Len(x) + Len(y)) + Len(z)
  <2>1. x ++ y \in Seq(T) /\ Len(x ++ y) = Len(x) + Len(y)
    BY JoinTwo
  <2>2. (x ++ y) ++ z \in Seq(T) /\ Len((x ++ y) ++ z) = Len(x ++ y) + Len(z)
    BY <2>1, JoinTwo
  <2> QED
    BY <2>1, <2>2, LenProperties
<1> DEFINE q == Quote((x ++ y) ++ z, Len(x), Len(x) + Len(y))
           text == (x ++ y) ++ z
<1>2. \A i \in 1 .. Len(y) : text[Len(x) + i] = y[i]
  <2> TAKE i \in 1 .. Len(y)
  <2>1. (x ++ y)[Len(x) + i] = y[i]
    BY JoinRight
  <2>2. Len(x) + i \in 1 .. Len(x ++ y)
    BY <1>1
  <2>3. ((x ++ y) ++ z)[Len(x) + i] = (x ++ y)[Len(x) + i]
    BY <1>1, <2>2, JoinLeft
  <2> QED
    BY <2>1, <2>3
<1>3. q = SubSeq(text, Len(x) + 1, Len(x) + Len(y))
  BY DEF Quote
<1> HIDE DEF q, text
<1>4. q \in Seq(T) /\ Len(q) = Len(y) /\ \A i \in 1 .. Len(y) : q[i] = text[Len(x) + i]
  BY <1>1, <1>3 DEF text
<1>5. q = y
  BY <1>2, <1>4, SeqEqual
<1> QED
  BY <1>5 DEF q

\* What is left of s after its first a pieces.
Rest(s, a) == [i \in 1 .. Len(s) - a |-> s[a + i]]

LEMMA RestIsASeq ==
  ASSUME NEW T, NEW s \in Seq(T), NEW a \in 0 .. Len(s)
  PROVE  /\ Rest(s, a) \in Seq(T) /\ Len(Rest(s, a)) = Len(s) - a
         /\ \A i \in 1 .. Len(s) - a : Rest(s, a)[i] = s[a + i]
BY DEF Rest

LEMMA JoinedSplit ==
  ASSUME NEW T, NEW s \in Seq(Seq(T)), NEW a \in 0 .. Len(s), NEW b \in 0 .. Len(s) - a
  PROVE  Joined(s, a + b) = Joined(s, a) ++ Joined(Rest(s, a), b)
<1> DEFINE P(j) == j <= Len(s) - a =>
                     Joined(s, a + j) = Joined(s, a) ++ Joined(Rest(s, a), j)
<1>0. /\ Joined(s, a) \in Seq(T)
      /\ Rest(s, a) \in Seq(Seq(T)) /\ Len(Rest(s, a)) = Len(s) - a
      /\ \A i \in 1 .. Len(s) - a : Rest(s, a)[i] = s[a + i]
  BY JoinedIsASeq, RestIsASeq
<1>1. P(0)
  <2>1. Joined(s, a) ++ <<>> = Joined(s, a) /\ a + 0 = a
    BY <1>0, JoinEmpty
  <2> QED
    BY <2>1, JoinedNone
<1>2. \A j \in Nat : P(j) => P(j + 1)
  <2> SUFFICES ASSUME NEW j \in Nat, P(j), j + 1 <= Len(s) - a
               PROVE  Joined(s, a + (j + 1)) = Joined(s, a) ++ Joined(Rest(s, a), j + 1)
    OBVIOUS
  <2>1. /\ a + j \in 0 .. Len(s) - 1 /\ a + (j + 1) = (a + j) + 1
        /\ j \in 0 .. Len(Rest(s, a)) - 1 /\ j \in 0 .. Len(Rest(s, a)) /\ j <= Len(s) - a
        /\ Rest(s, a)[j + 1] = s[(a + j) + 1] /\ Rest(s, a)[j + 1] \in Seq(T)
    <3> DEFINE n == Len(s)
    <3>0. n \in Nat /\ a \in 0 .. n
      BY LenProperties
    <3>1. a \in Nat /\ Len(s) \in Nat /\ j + 1 \in 1 .. Len(s) - a /\ a + (j + 1) = (a + j) + 1
      <4>1. j + 1 <= n - a
        OBVIOUS
      <4> HIDE DEF n
      <4>2. a \in Nat /\ n \in Nat /\ j + 1 \in 1 .. n - a /\ a + (j + 1) = (a + j) + 1
        BY <3>0, <4>1
      <4> QED
        BY <4>2 DEF n
    <3>2. Rest(s, a)[j + 1] = s[(a + j) + 1]
      <4>1. Rest(s, a)[j + 1] = s[a + (j + 1)]
        BY <1>0, <3>1
      <4> QED
        BY <3>1, <4>1
    <3>3. (a + j) + 1 \in 1 .. Len(s) /\ a + j \in 0 .. Len(s) - 1
      BY <3>1
    <3>4. s[(a + j) + 1] \in Seq(T)
      BY <3>3, ElementOfSeq
    <3>5. Len(Rest(s, a)) = Len(s) - a
      BY <1>0
    <3>6. j \in 0 .. Len(Rest(s, a)) - 1 /\ j \in 0 .. Len(Rest(s, a)) /\ j <= Len(s) - a
      BY <3>1, <3>5
    <3> QED
      BY <3>1, <3>2, <3>3, <3>4, <3>6
  <2>2. Joined(s, (a + j) + 1) = Joined(s, a + j) ++ s[(a + j) + 1]
    BY <2>1, JoinedNext
  <2>3. Joined(Rest(s, a), j + 1) = Joined(Rest(s, a), j) ++ Rest(s, a)[j + 1]
    BY <1>0, <2>1, JoinedNext
  <2>4. Joined(Rest(s, a), j) \in Seq(T)
    BY <1>0, <2>1, JoinedIsASeq
  <2>5. Joined(s, a + j) = Joined(s, a) ++ Joined(Rest(s, a), j)
    BY <2>1
  <2>6. (Joined(s, a) ++ Joined(Rest(s, a), j)) ++ Rest(s, a)[j + 1]
          = Joined(s, a) ++ (Joined(Rest(s, a), j) ++ Rest(s, a)[j + 1])
    BY <1>0, <2>1, <2>4, Associative
  <2> QED
    BY <2>1, <2>2, <2>3, <2>5, <2>6, Zenon
<1>3. P(b)
  <2> HIDE DEF P
  <2>1. \A i \in Nat : P(i)
    <3> DEFINE S == {i \in Nat : P(i)}
    <3>1. 0 \in S /\ \A i \in Nat : i \in S => i + 1 \in S
      BY <1>1, <1>2
    <3>2. Nat \subseteq S
      <4> HIDE DEF S
      <4> QED
        BY <3>1, NatInduct
    <3> QED
      BY <3>2
  <2> QED
    BY <2>1
<1> QED
  BY <1>3

\* A sequence of which every element becomes a piece.
Mapped(g, t) == Joined([p \in 1 .. Len(t) |-> g[t[p]]], Len(t))

LEMMA MappedPieces ==
  ASSUME NEW T, NEW U, NEW g \in [T -> Seq(U)], NEW t \in Seq(T)
  PROVE  [p \in 1 .. Len(t) |-> g[t[p]]] \in Seq(Seq(U))
<1>1. \A p \in 1 .. Len(t) : g[t[p]] \in Seq(U)
  BY ElementOfSeq
<1> QED
  BY <1>1

LEMMA MappedIsASeq ==
  ASSUME NEW T, NEW U, NEW g \in [T -> Seq(U)], NEW t \in Seq(T)
  PROVE  Mapped(g, t) \in Seq(U)
<1> DEFINE s == [p \in 1 .. Len(t) |-> g[t[p]]]
<1>1. s \in Seq(Seq(U)) /\ Len(s) = Len(t) /\ Len(t) \in 0 .. Len(t)
  BY MappedPieces
<1> QED
  BY <1>1, JoinedIsASeq DEF Mapped

LEMMA MappedOne ==
  ASSUME NEW T, NEW U, NEW g \in [T -> Seq(U)], NEW e \in T
  PROVE  Mapped(g, <<>>) = <<>> /\ Mapped(g, <<e>>) = g[e]
<1>1. Mapped(g, <<>>) = <<>>
  BY JoinedNone DEF Mapped
<1> DEFINE s == [p \in 1 .. 1 |-> g[<<e>>[p]]]
<1>2. s \in Seq(Seq(U)) /\ Len(s) = 1 /\ s[1] = g[e] /\ 0 \in 0 .. Len(s) - 1 /\ 0 + 1 = 1
  OBVIOUS
<1>3. Joined(s, 0 + 1) = Joined(s, 0) ++ s[0 + 1]
  BY <1>2, JoinedNext
<1>4. <<>> ++ g[e] = g[e]
  BY JoinEmpty
<1>5. Mapped(g, <<e>>) = Joined(s, 1)
  BY DEF Mapped
<1> HIDE DEF s
<1> QED
  BY <1>1, <1>2, <1>3, <1>4, <1>5, JoinedNone

LEMMA MappedConcat ==
  ASSUME NEW T, NEW U, NEW g \in [T -> Seq(U)], NEW t \in Seq(T), NEW u \in Seq(T)
  PROVE  Mapped(g, t ++ u) = Mapped(g, t) ++ Mapped(g, u)
<1>1. /\ t ++ u \in Seq(T) /\ Len(t ++ u) = Len(t) + Len(u)
      /\ Len(t) \in Nat /\ Len(u) \in Nat
      /\ \A p \in 1 .. Len(t) : (t ++ u)[p] = t[p]
      /\ \A p \in 1 .. Len(u) : (t ++ u)[Len(t) + p] = u[p]
  <2>1. t ++ u \in Seq(T) /\ Len(t ++ u) = Len(t) + Len(u)
    BY JoinTwo
  <2>2. \A p \in 1 .. Len(t) : (t ++ u)[p] = t[p]
    BY JoinLeft
  <2>3. \A p \in 1 .. Len(u) : (t ++ u)[Len(t) + p] = u[p]
    BY JoinRight
  <2> QED
    BY <2>1, <2>2, <2>3, LenProperties
<1> DEFINE s == [p \in 1 .. Len(t ++ u) |-> g[(t ++ u)[p]]]
           st == [p \in 1 .. Len(t) |-> g[t[p]]]
           su == [p \in 1 .. Len(u) |-> g[u[p]]]
<1>2. s \in Seq(Seq(U)) /\ Len(s) = Len(t) + Len(u)
  BY <1>1, MappedPieces
<1>3. Joined(s, Len(t) + Len(u)) = Joined(s, Len(t)) ++ Joined(Rest(s, Len(t)), Len(u))
  <2>1. Len(t) \in 0 .. Len(s) /\ Len(u) \in 0 .. Len(s) - Len(t)
    BY <1>1, <1>2
  <2> HIDE DEF s
  <2> QED
    BY <1>2, <2>1, JoinedSplit
<1>4. Joined(s, Len(t)) = Joined(st, Len(t))
  <2>1. \A p \in 1 .. Len(t) : s[p] = st[p]
    BY <1>1
  <2> HIDE DEF s, st
  <2> QED
    BY <1>1, <2>1, JoinedSame
<1>5. Joined(Rest(s, Len(t)), Len(u)) = Joined(su, Len(u))
  <2>1. \A p \in 1 .. Len(u) : s[Len(t) + p] = su[p]
    BY <1>1
  <2>2. \A p \in 1 .. Len(u) : Rest(s, Len(t))[p] = s[Len(t) + p]
    <3> HIDE DEF s
    <3> QED
      BY <1>1, <1>2 DEF Rest
  <2> HIDE DEF s, su
  <2> QED
    BY <1>1, <2>1, <2>2, JoinedSame
<1> QED
  BY <1>1, <1>3, <1>4, <1>5 DEF Mapped

LEMMA MappedJoined ==
  ASSUME NEW T, NEW U, NEW g \in [T -> Seq(U)], NEW s \in Seq(Seq(T)), NEW n \in 0 .. Len(s)
  PROVE  Mapped(g, Joined(s, n)) = Joined([i \in 1 .. Len(s) |-> Mapped(g, s[i])], n)
<1> DEFINE r == [i \in 1 .. Len(s) |-> Mapped(g, s[i])]
           P(m) == m <= Len(s) => Mapped(g, Joined(s, m)) = Joined(r, m)
<1>0. r \in Seq(Seq(U)) /\ Len(r) = Len(s) /\ \A i \in 1 .. Len(s) : r[i] = Mapped(g, s[i])
  <2>1. \A i \in 1 .. Len(s) : Mapped(g, s[i]) \in Seq(U)
    BY MappedIsASeq
  <2> QED
    BY <2>1
<1> HIDE DEF r
<1>1. P(0)
  <2>1. Mapped(g, <<>>) = <<>>
    BY JoinedNone DEF Mapped
  <2> QED
    BY <2>1, JoinedNone
<1>2. \A m \in Nat : P(m) => P(m + 1)
  <2> SUFFICES ASSUME NEW m \in Nat, P(m), m + 1 <= Len(s)
               PROVE  Mapped(g, Joined(s, m + 1)) = Joined(r, m + 1)
    OBVIOUS
  <2>1. m \in 0 .. Len(s) - 1 /\ m \in 0 .. Len(s) /\ m <= Len(s) /\ m + 1 \in 1 .. Len(s)
    OBVIOUS
  <2>2. Joined(s, m + 1) = Joined(s, m) ++ s[m + 1] /\ Joined(s, m) \in Seq(T)
    BY <2>1, JoinedNext, JoinedIsASeq
  <2>3. Joined(r, m + 1) = Joined(r, m) ++ r[m + 1]
    BY <1>0, <2>1, JoinedNext
  <2>4. Mapped(g, Joined(s, m) ++ s[m + 1]) = Mapped(g, Joined(s, m)) ++ Mapped(g, s[m + 1])
    <3>1. s[m + 1] \in Seq(T)
      BY <2>1
    <3> HIDE DEF P
    <3> QED
      BY <2>2, <3>1, MappedConcat
  <2>5. r[m + 1] = Mapped(g, s[m + 1]) /\ Mapped(g, Joined(s, m)) = Joined(r, m)
    BY <1>0, <2>1
  <2> QED
    BY <2>2, <2>3, <2>4, <2>5
<1>3. P(n)
  <2> HIDE DEF P
  <2>1. \A i \in Nat : P(i)
    <3> DEFINE S == {i \in Nat : P(i)}
    <3>1. 0 \in S /\ \A i \in Nat : i \in S => i + 1 \in S
      BY <1>1, <1>2
    <3>2. Nat \subseteq S
      <4> HIDE DEF S
      <4> QED
        BY <3>1, NatInduct
    <3> QED
      BY <3>2
  <2> QED
    BY <2>1
<1> QED
  BY <1>3 DEF r

\* Pieces of one length d: where token q of piece j is in the whole.
Place(d, j, q) == (j - 1) * d + q
Times(m, d) == m * d
OfLength(s, d) == \A i \in 1 .. Len(s) : Len(s[i]) = d

LEMMA EqualPieces ==
  ASSUME NEW T, NEW s \in Seq(Seq(T)), NEW d, d \in {2, 3, 4}, OfLength(s, d),
         NEW m \in 0 .. Len(s)
  PROVE  /\ Len(Joined(s, m)) = Times(m, d)
         /\ \A j \in 1 .. m, q \in 1 .. d : Joined(s, m)[Place(d, j, q)] = s[j][q]
<1> DEFINE P(n) == n <= Len(s) =>
                     /\ Len(Joined(s, n)) = n * d
                     /\ \A j \in 1 .. n, q \in 1 .. d :
                          Joined(s, n)[(j - 1) * d + q] = s[j][q]
           S == {n \in Nat : P(n)}
<1>0. /\ \A n \in Nat : (n + 1) * d = n * d + d /\ n * d \in Nat
      /\ \A n \in Nat, j \in Nat, q \in 1 .. d :
           j \in 1 .. n => (j - 1) * d + q \in 1 .. n * d
      /\ 0 * d = 0 /\ d \in Nat
  <2>1. d = 2 \/ d = 3 \/ d = 4
    OBVIOUS
  <2> QED
    BY <2>1
<1>1. P(0)
  <2>1. Len(Joined(s, 0)) = 0
    BY JoinedNone
  <2> QED
    BY <1>0, <2>1
<1>2. \A n \in Nat : P(n) => P(n + 1)
  <2> SUFFICES ASSUME NEW n \in Nat, P(n), n + 1 <= Len(s)
               PROVE  /\ Len(Joined(s, n + 1)) = (n + 1) * d
                      /\ \A j \in 1 .. n + 1, q \in 1 .. d :
                           Joined(s, n + 1)[(j - 1) * d + q] = s[j][q]
    BY Zenon
  <2>1. n \in Nat /\ n \in 0 .. Len(s) - 1 /\ n \in 0 .. Len(s) /\ n + 1 \in 1 .. Len(s)
        /\ Len(Joined(s, n)) = n * d
    OBVIOUS
  <2>2. \A j \in 1 .. n, q \in 1 .. d : Joined(s, n)[(j - 1) * d + q] = s[j][q]
    OBVIOUS
  <2>3. s[n + 1] \in Seq(T) /\ Len(s[n + 1]) = d
    BY <2>1 DEF OfLength
  <2> HIDE DEF P
  <2>4. Joined(s, n) \in Seq(T) /\ Joined(s, n + 1) = Joined(s, n) ++ s[n + 1]
    BY <2>1, JoinedIsASeq, JoinedNext
  <2>5. Len(Joined(s, n + 1)) = (n + 1) * d
    <3>1. Len(Joined(s, n) ++ s[n + 1]) = Len(Joined(s, n)) + Len(s[n + 1])
      BY <2>3, <2>4, JoinTwo
    <3> QED
      BY <1>0, <2>1, <2>3, <2>4, <3>1
  <2>6. ASSUME NEW j \in 1 .. n + 1, NEW q \in 1 .. d
        PROVE  Joined(s, n + 1)[(j - 1) * d + q] = s[j][q]
    <3>1. CASE j \in 1 .. n
      <4> DEFINE k == (j - 1) * d + q
      <4>1. k \in 1 .. Len(Joined(s, n))
        BY <1>0, <2>1, <3>1
      <4> HIDE DEF k
      <4>2. (Joined(s, n) ++ s[n + 1])[k] = Joined(s, n)[k]
        BY <2>3, <2>4, <4>1, JoinLeft
      <4> QED
        BY <2>2, <2>4, <3>1, <4>2 DEF k
    <3>2. CASE j = n + 1
      <4>1. (j - 1) * d = Len(Joined(s, n)) /\ q \in 1 .. Len(s[n + 1])
        BY <2>1, <2>3, <3>2
      <4> DEFINE x == Joined(s, n)
                 y == s[n + 1]
      <4>2. x \in Seq(T) /\ y \in Seq(T) /\ q \in 1 .. Len(y)
        BY <2>3, <2>4, <4>1
      <4> HIDE DEF x, y
      <4>3. (x ++ y)[Len(x) + q] = y[q]
        BY <4>2, JoinRight
      <4> QED
        BY <2>4, <3>2, <4>1, <4>3 DEF x, y
    <3> QED
      BY <2>1, <3>1, <3>2
  <2> QED
    BY <2>5, <2>6
<1>3. Nat \subseteq S
  <2> HIDE DEF P
  <2>1. 0 \in S /\ \A n \in Nat : n \in S => n + 1 \in S
    BY <1>1, <1>2
  <2> HIDE DEF S
  <2> QED
    BY <2>1, NatInduct
<1>4. P(m)
  <2> HIDE DEF P
  <2> QED
    BY <1>3
<1> QED
  BY <1>4 DEF Place, Times

\* A piece is found in the whole, and is the whole when the others are empty.
LEMMA PieceInside ==
  ASSUME NEW T, NEW s \in Seq(Seq(T)), NEW k \in 1 .. Len(s), NEW m \in k .. Len(s)
  PROVE  /\ Joined(s, k - 1) \in Seq(T)
         /\ \E z \in Seq(T) : Joined(s, m) = (Joined(s, k - 1) ++ s[k]) ++ z
<1>1. k - 1 \in 0 .. Len(s) - 1 /\ (k - 1) + 1 = k /\ k - 1 \in 0 .. Len(s)
  OBVIOUS
<1>2. Joined(s, k) = Joined(s, k - 1) ++ s[k] /\ Joined(s, k - 1) \in Seq(T)
  <2>1. Joined(s, (k - 1) + 1) = Joined(s, k - 1) ++ s[(k - 1) + 1]
    BY <1>1, JoinedNext
  <2>2. Joined(s, k - 1) \in Seq(T)
    BY <1>1, JoinedIsASeq
  <2> QED
    BY <1>1, <2>1, <2>2
<1>3. k \in 0 .. Len(s) /\ m - k \in 0 .. Len(s) - k /\ k + (m - k) = m
  OBVIOUS
<1>4. Joined(s, k + (m - k)) = Joined(s, k) ++ Joined(Rest(s, k), m - k)
  BY <1>3, JoinedSplit
<1>5. Joined(Rest(s, k), m - k) \in Seq(T)
  <2>1. Rest(s, k) \in Seq(Seq(T)) /\ Len(Rest(s, k)) = Len(s) - k
    BY <1>3, RestIsASeq
  <2> QED
    BY <1>3, <2>1, JoinedIsASeq
<1> QED
  BY <1>2, <1>3, <1>4, <1>5

LEMMA OneTyped ==
  ASSUME NEW T, NEW x \in T, NEW y \in T
  PROVE  <<x>> \in Seq(T) /\ <<x, y>> \in Seq(T) /\ <<>> \in Seq(T)
OBVIOUS

LEMMA OnePlace ==
  ASSUME NEW T, NEW s \in Seq(Seq(T)), NEW k \in 1 .. Len(s), NEW m \in k .. Len(s),
         NEW x \in T, s[k] = <<x>>
  PROVE  /\ Len(Joined(s, k - 1)) \in Nat
         /\ Len(Joined(s, k - 1)) + 1 \in 1 .. Len(Joined(s, m))
         /\ Joined(s, m)[Len(Joined(s, k - 1)) + 1] = x
<1> DEFINE a == Joined(s, k - 1)
           b == <<x>>
<1>1. PICK z \in Seq(T) : Joined(s, m) = (Joined(s, k - 1) ++ s[k]) ++ z
  BY PieceInside
<1>2. a \in Seq(T)
  BY PieceInside
<1>3. b \in Seq(T) /\ Len(b) = 1 /\ b[1] = x
  BY OneTyped
<1>4. Joined(s, m) = (a ++ b) ++ z
  BY <1>1
<1> HIDE DEF a, b
<1>5. a ++ b \in Seq(T) /\ Len(a ++ b) = Len(a) + 1 /\ Len(a) \in Nat
  BY <1>2, <1>3, JoinTwo, LenProperties
<1>6. Len((a ++ b) ++ z) = (Len(a) + 1) + Len(z) /\ Len(z) \in Nat
  BY <1>5, JoinTwo, LenProperties
<1>7. (a ++ b)[Len(a) + 1] = x
  <2>1. a \in Seq(T) /\ b \in Seq(T)
    BY <1>2, <1>3
  <2>2. \A i \in 1 .. Len(b) : (a ++ b)[Len(a) + i] = b[i]
    BY ONLY <2>1, JoinRight
  <2> QED
    BY <1>3, <2>2
<1>8. ((a ++ b) ++ z)[Len(a) + 1] = x
  <2>1. Len(a) + 1 \in 1 .. Len(a ++ b)
    BY <1>5
  <2>2. \A i \in 1 .. Len(a ++ b) : ((a ++ b) ++ z)[i] = (a ++ b)[i]
    BY <1>5, JoinLeft
  <2> QED
    BY <1>7, <2>1, <2>2
<1> QED
  BY <1>4, <1>5, <1>6, <1>8 DEF a

\* Whatever is in the whole is in one of the pieces.
InPieces(s, m, x) == \E i \in 1 .. m : \E q \in 1 .. Len(s[i]) : x = s[i][q]

LEMMA FromPiece ==
  ASSUME NEW T, NEW s \in Seq(Seq(T)), NEW m \in 0 .. Len(s)
  PROVE  \A p \in 1 .. Len(Joined(s, m)) : InPieces(s, m, Joined(s, m)[p])
<1> DEFINE Found(n) == \A p \in 1 .. Len(Joined(s, n)) :
                         \E i \in 1 .. n : \E q \in 1 .. Len(s[i]) : Joined(s, n)[p] = s[i][q]
           S == {n \in Nat : n <= Len(s) => Found(n)}
<1>1. 0 \in S
  <2>1. Len(Joined(s, 0)) = 0
    BY JoinedNone, EmptySeq
  <2> QED
    BY <2>1
<1> HIDE DEF Found
<1>2. \A n \in Nat : n \in S => n + 1 \in S
  <2> SUFFICES ASSUME NEW n \in Nat, n \in S, n + 1 <= Len(s) PROVE Found(n + 1)
    OBVIOUS
  <2>0. Found(n)
    OBVIOUS
  <2>1. n \in 0 .. Len(s) - 1 /\ n \in 0 .. Len(s) /\ n + 1 \in 1 .. Len(s) /\ 1 .. n \subseteq 1 .. n + 1
        /\ n + 1 \in 1 .. n + 1
    OBVIOUS
  <2> DEFINE a == Joined(s, n)
             b == s[n + 1]
  <2>2. a \in Seq(T) /\ b \in Seq(T) /\ Joined(s, n + 1) = a ++ b
    BY <2>1, JoinedIsASeq, JoinedNext, ElementOfSeq
  <2> SUFFICES ASSUME NEW p \in 1 .. Len(Joined(s, n + 1))
               PROVE  \E i \in 1 .. n + 1 : \E q \in 1 .. Len(s[i]) : Joined(s, n + 1)[p] = s[i][q]
    BY DEF Found
  <2>3. CASE p \in 1 .. Len(a)
    <3>1. (a ++ b)[p] = a[p]
      BY <2>2, <2>3, JoinLeft
    <3>2. \E i \in 1 .. n : \E q \in 1 .. Len(s[i]) : a[p] = s[i][q]
      BY <2>0, <2>3 DEF Found
    <3> HIDE DEF a, b
    <3> QED
      BY <2>1, <2>2, <3>1, <3>2
  <2>4. CASE p \notin 1 .. Len(a)
    <3> HIDE DEF a, b
    <3> DEFINE q == p - Len(a)
    <3>1. Len(a ++ b) = Len(a) + Len(b) /\ Len(a) \in Nat /\ Len(b) \in Nat
      BY <2>2, JoinTwo, LenProperties
    <3>2. p \in 1 .. Len(a ++ b)
      BY <2>2
    <3>3. q \in 1 .. Len(b) /\ Len(a) + q = p
      BY <2>4, <3>1, <3>2
    <3> HIDE DEF q
    <3>4. (a ++ b)[Len(a) + q] = b[q]
      BY <2>2, <3>3, JoinRight
    <3>5. Joined(s, n + 1)[p] = b[q]
      BY <2>2, <3>3, <3>4
    <3> QED
      BY <2>1, <3>3, <3>5 DEF b
  <2> QED
    BY <2>3, <2>4
<1>3. Nat \subseteq S
  <2> HIDE DEF S
  <2> QED
    BY <1>1, <1>2, NatInduct
<1>4. m \in Nat /\ m <= Len(s)
  OBVIOUS
<1> QED
  BY <1>3, <1>4 DEF Found, InPieces

\* As many pieces of one element, as many elements.
LEMMA OneEach ==
  ASSUME NEW T, NEW s \in Seq(Seq(T)), NEW m \in 0 .. Len(s), \A i \in 1 .. m : Len(s[i]) = 1
  PROVE  Len(Joined(s, m)) = m
<1> DEFINE S == {n \in Nat : n <= m => Len(Joined(s, n)) = n}
<1>1. 0 \in S
  BY JoinedNone, EmptySeq
<1>2. \A n \in Nat : n \in S => n + 1 \in S
  <2> SUFFICES ASSUME NEW n \in Nat, Len(Joined(s, n)) = n, n + 1 <= m
               PROVE  Len(Joined(s, n + 1)) = n + 1
    OBVIOUS
  <2>1. n \in 0 .. Len(s) - 1 /\ n \in 0 .. Len(s) /\ n + 1 \in 1 .. Len(s) /\ n + 1 \in 1 .. m
    OBVIOUS
  <2> DEFINE a == Joined(s, n)
             b == s[n + 1]
  <2>2. a \in Seq(T) /\ b \in Seq(T) /\ Joined(s, n + 1) = a ++ b
    BY <2>1, JoinedIsASeq, JoinedNext, ElementOfSeq
  <2>3. Len(a) = n /\ Len(b) = 1
    BY <2>1
  <2> HIDE DEF a, b
  <2>4. Len(a ++ b) = Len(a) + Len(b)
    BY <2>2, JoinTwo
  <2> QED
    BY <2>2, <2>3, <2>4
<1>3. Nat \subseteq S
  <2> HIDE DEF S
  <2> QED
    BY <1>1, <1>2, NatInduct
<1>4. m \in S
  BY <1>3
<1> QED
  BY <1>4

LEMMA OnePiece ==
  ASSUME NEW T, NEW s \in Seq(Seq(T)), NEW k \in 1 .. Len(s),
         \A i \in 1 .. Len(s) : i # k => s[i] = <<>>
  PROVE  Joined(s, Len(s)) = s[k]
<1>1. k - 1 \in 0 .. Len(s) - 1 /\ (k - 1) + 1 = k
  OBVIOUS
<1>2. Joined(s, k - 1) = Joined(s, 0)
  <2>1. 0 \in 0 .. Len(s) /\ k - 1 \in 0 .. Len(s)
    OBVIOUS
  <2>2. \A i \in 0 + 1 .. k - 1 : s[i] = <<>>
    <3>1. \A i \in 0 + 1 .. k - 1 : i \in 1 .. Len(s) /\ i # k
      OBVIOUS
    <3> QED
      BY <3>1
  <2> QED
    BY <2>1, <2>2, JoinedEmpty
<1>3. Joined(s, Len(s)) = Joined(s, k)
  <2>1. /\ k \in 0 .. Len(s) /\ Len(s) \in k .. Len(s)
        /\ \A i \in k + 1 .. Len(s) : s[i] = <<>>
    <3>1. Len(s) \in Nat /\ k \in Nat /\ k <= Len(s)
      BY LenProperties
    <3>2. \A i \in k + 1 .. Len(s) : i \in 1 .. Len(s) /\ i # k
      BY <3>1
    <3>3. k \in 0 .. Len(s) /\ Len(s) \in k .. Len(s)
      BY <3>1
    <3> QED
      BY <3>2, <3>3
  <2> QED
    BY <2>1, JoinedEmpty
<1>4. Joined(s, (k - 1) + 1) = Joined(s, k - 1) ++ s[(k - 1) + 1]
  BY <1>1, JoinedNext
<1>5. <<>> ++ s[k] = s[k]
  <2>1. s[k] \in Seq(T)
    OBVIOUS
  <2> QED
    BY <2>1, JoinEmpty
<1> QED
  BY <1>1, <1>2, <1>3, <1>4, <1>5, JoinedNone

LEMMA Regroup ==
  ASSUME NEW T, NEW a \in Seq(T), NEW b \in Seq(T), NEW c \in Seq(T), NEW x \in Seq(T),
         a ++ c = c ++ b
  PROVE  (a ++ (c ++ x)) ++ c = c ++ (b ++ (x ++ c))
<1>1. a ++ (c ++ x) = (a ++ c) ++ x
  BY Associative
<1>2. c ++ b \in Seq(T)
  BY JoinTwo
<1>3. ((c ++ b) ++ x) ++ c = (c ++ b) ++ (x ++ c)
  BY <1>2, Associative
<1>4. x ++ c \in Seq(T)
  BY JoinTwo
<1>5. (c ++ b) ++ (x ++ c) = c ++ (b ++ (x ++ c))
  BY <1>4, Associative
<1> QED
  BY <1>1, <1>3, <1>5

\* A separator in front of every piece and one at the end, or one after every piece.
LEMMA JoinedShift ==
  ASSUME NEW T, NEW c \in T, NEW s \in Seq(Seq(T)), NEW t \in Seq(Seq(T)), Len(t) = Len(s),
         \A i \in 1 .. Len(s) : \/ s[i] = <<>> /\ t[i] = <<>>
                                \/ \E x \in Seq(T) : s[i] = <<c>> ++ x /\ t[i] = x ++ <<c>>,
         NEW m \in 0 .. Len(s)
  PROVE  Joined(s, m) ++ <<c>> = <<c>> ++ Joined(t, m)
<1> DEFINE S == {n \in Nat : n <= Len(s) => Joined(s, n) ++ <<c>> = <<c>> ++ Joined(t, n)}
<1>0. <<c>> \in Seq(T)
  OBVIOUS
<1>1. 0 \in S
  <2>1. <<>> ++ <<c>> = <<c>> ++ <<>>
    BY <1>0, JoinEmpty
  <2> QED
    BY <2>1, JoinedNone
<1>2. \A n \in Nat : n \in S => n + 1 \in S
  <2> SUFFICES ASSUME NEW n \in S, n + 1 <= Len(s)
               PROVE  Joined(s, n + 1) ++ <<c>> = <<c>> ++ Joined(t, n + 1)
    OBVIOUS
  <2>1. /\ n \in 0 .. Len(s) - 1 /\ n \in 0 .. Len(s) /\ n + 1 \in 1 .. Len(s)
        /\ n \in 0 .. Len(t) - 1 /\ n \in 0 .. Len(t)
    OBVIOUS
  <2>2. Joined(s, n) ++ <<c>> = <<c>> ++ Joined(t, n)
    OBVIOUS
  <2> DEFINE a == Joined(s, n)
             b == Joined(t, n)
  <2>3. /\ a \in Seq(T) /\ Joined(s, n + 1) = a ++ s[n + 1]
        /\ b \in Seq(T) /\ Joined(t, n + 1) = b ++ t[n + 1]
    BY <2>1, JoinedIsASeq, JoinedNext
  <2> HIDE DEF S, a, b
  <2>4. CASE s[n + 1] = <<>> /\ t[n + 1] = <<>>
    <3>1. a ++ <<>> = a /\ b ++ <<>> = b
      BY <2>3, JoinEmpty
    <3> QED
      BY <2>2, <2>3, <2>4, <3>1 DEF a, b
  <2>5. CASE \E x \in Seq(T) : s[n + 1] = <<c>> ++ x /\ t[n + 1] = x ++ <<c>>
    <3>1. PICK x \in Seq(T) : s[n + 1] = <<c>> ++ x /\ t[n + 1] = x ++ <<c>>
      BY <2>5
    <3> DEFINE d == <<c>>
    <3>2. d \in Seq(T) /\ a ++ d = d ++ b
      BY <1>0, <2>2 DEF a, b
    <3> HIDE DEF d
    <3>3. (a ++ (d ++ x)) ++ d = d ++ (b ++ (x ++ d))
      BY <2>3, <3>2, Regroup
    <3>4. Joined(s, n + 1) = a ++ (d ++ x) /\ Joined(t, n + 1) = b ++ (x ++ d)
      BY <2>3, <3>1 DEF d
    <3>5. Joined(s, n + 1) ++ d = d ++ Joined(t, n + 1)
      BY <3>3, <3>4
    <3> QED
      BY <3>5 DEF d
  <2> QED
    BY <2>1, <2>4, <2>5
<1>3. Nat \subseteq S
  <2> HIDE DEF S
  <2> QED
    BY <1>1, <1>2, NatInduct
<1>4. m \in Nat /\ m <= Len(s)
  OBVIOUS
<1>5. m \in S
  BY <1>3, <1>4
<1> QED
  BY <1>4, <1>5

-------------------------------------------------------------------------------
\* The tokens of every text.
Token ==
  {Open, Close, Blank, Comma, Colon}
  \cup {Key(k) : k \in (1 .. MaxMembers) \cup NewKey}
  \cup ({"number", "string"} \X Seq(Nat))

\* The approved items when each of them has a patch: they stand in a place of the
\* source or next to it, and no two in the same.
Spot == (1 .. count) \cup (IF kind = "object" THEN NewKey ELSE {count + 1, AtEnd})

Item == [operation : {"add", "replace", "remove"}, path : Spot, value : NewValue \cup {None}]

ValidEdits ==
  /\ edits \in Seq(Item)
  /\ \A k \in 1 .. Len(edits) :
       /\ edits[k].operation = "add" <=> edits[k].path \notin 1 .. count
       /\ edits[k].operation = "remove" <=> edits[k].value = None
       /\ ~NoPatch(edits[k])
  /\ \A j, k \in 1 .. Len(edits) : j # k => edits[j].path # edits[k].path

Typed ==
  /\ kind \in {"object", "array"} /\ count \in 0 .. MaxMembers /\ space \in BOOLEAN
  /\ ValidEdits

-------------------------------------------------------------------------------
\* The source, member by member.
Opening == <<Open>> ++ Spaces
Lead(i) == IF kind = "object" THEN <<Key(i), Colon>> ++ Spaces ELSE <<>>
Gap(i) == Spaces ++ Separator(i)
Cell(i) == (Lead(i) ++ <<Old(i)>>) ++ Gap(i)
Cells == [i \in 1 .. count |-> Cell(i)]

LEMMA TokensTyped ==
  /\ Open \in Token /\ Close \in Token /\ Blank \in Token
  /\ Comma \in Token /\ Colon \in Token
  /\ NewValue \subseteq Token
  /\ \A k \in 1 .. MaxMembers : Key(k) \in Token /\ Old(k) \in Token
  /\ \A k \in NewKey : Key(k) \in Token
<1>1. /\ Open \in Token /\ Close \in Token /\ Blank \in Token
      /\ Comma \in Token /\ Colon \in Token
  BY DEF Token
<1>2. NewValue \subseteq Token
  BY ComposeAssumption DEF Token
<1>3. \A k \in (1 .. MaxMembers) \cup NewKey : Key(k) \in Token
  BY DEF Token
<1>4. ASSUME NEW k \in 1 .. MaxMembers PROVE Old(k) \in Token
  <2>1. k \in Nat
    BY ComposeAssumption
  <2>2. <<k>> \in Seq(Nat)
    BY <2>1, OneTyped
  <2>3. <<"number", <<k>>>> \in {"number", "string"} \X Seq(Nat)
    BY <2>2
  <2> QED
    BY <2>3 DEF Token, Old, Number
<1> QED
  BY <1>1, <1>2, <1>3, <1>4

LEMMA SpacesTyped == Spaces \in Seq(Token)
BY TokensTyped, OneTyped DEF Spaces

LEMMA CellTyped ==
  ASSUME Typed, NEW i \in 1 .. count
  PROVE  /\ Lead(i) \in Seq(Token) /\ <<Old(i)>> \in Seq(Token) /\ Gap(i) \in Seq(Token)
         /\ Separator(i) \in Seq(Token)
         /\ Lead(i) ++ <<Old(i)>> \in Seq(Token) /\ Cell(i) \in Seq(Token)
         /\ MemberText(i) = Lead(i) ++ <<Old(i)>>
         /\ (MemberText(i) \o Spaces) \o Separator(i) = Cell(i)
<1>1. i \in 1 .. MaxMembers
  BY ComposeAssumption DEF Typed
<1>2. Key(i) \in Token /\ Old(i) \in Token /\ Colon \in Token /\ Comma \in Token
  BY <1>1, TokensTyped
<1>3. <<Key(i), Colon>> \in Seq(Token) /\ <<Old(i)>> \in Seq(Token) /\ <<Comma>> \in Seq(Token)
  BY <1>2, OneTyped
<1>4. Lead(i) \in Seq(Token)
  <2>1. <<Key(i), Colon>> ++ Spaces \in Seq(Token)
    BY <1>3, SpacesTyped, JoinTwo
  <2> QED
    BY <2>1, EmptySeq DEF Lead
<1>5. Separator(i) \in Seq(Token)
  <2>1. <<Comma>> ++ Spaces \in Seq(Token)
    BY <1>3, SpacesTyped, JoinTwo
  <2> QED
    BY <2>1, EmptySeq DEF Separator, ++
<1>6. Gap(i) \in Seq(Token)
  BY <1>5, SpacesTyped, JoinTwo DEF Gap
<1>7. Lead(i) ++ <<Old(i)>> \in Seq(Token)
  BY <1>3, <1>4, JoinTwo
<1>8. Cell(i) \in Seq(Token)
  BY <1>6, <1>7, JoinTwo DEF Cell
<1>9. MemberText(i) = Lead(i) ++ <<Old(i)>>
  BY DEF MemberText, Lead, ++
<1>10. (MemberText(i) \o Spaces) \o Separator(i) = Cell(i)
  <2> DEFINE x == Lead(i) ++ <<Old(i)>>
             y == Spaces
             z == Separator(i)
  <2>1. x \in Seq(Token) /\ y \in Seq(Token) /\ z \in Seq(Token)
    BY <1>5, <1>7, SpacesTyped
  <2> HIDE DEF x, y, z
  <2>2. (x ++ y) ++ z = x ++ (y ++ z)
    BY <2>1, Associative
  <2>3. Cell(i) = x ++ (y ++ z)
    BY DEF Cell, Gap, x, y, z
  <2>4. MemberText(i) = x
    BY <1>9 DEF x
  <2> QED
    BY <2>2, <2>3, <2>4 DEF ++, y, z
<1> QED
  BY <1>3, <1>4, <1>5, <1>6, <1>7, <1>8, <1>9, <1>10

LEMMA CellsTyped ==
  ASSUME Typed
  PROVE  /\ Cells \in Seq(Seq(Token)) /\ Len(Cells) = count /\ count \in Nat
         /\ Opening \in Seq(Token)
<1>1. \A i \in 1 .. count : Cell(i) \in Seq(Token)
  BY CellTyped
<1>2. count \in Nat
  BY ComposeAssumption DEF Typed
<1>3. Opening \in Seq(Token)
  <2>1. <<Open>> \in Seq(Token)
    BY TokensTyped, OneTyped
  <2> QED
    BY <2>1, SpacesTyped, JoinTwo DEF Opening
<1> QED
  BY <1>1, <1>2, <1>3 DEF Cells

LEMMA TextBeforeIs ==
  ASSUME Typed, NEW i \in 1 .. count + 1
  PROVE  /\ TextBefore(i) = Opening ++ Joined(Cells, i - 1)
         /\ TextBefore(i) \in Seq(Token) /\ i - 1 \in 0 .. Len(Cells)
         /\ MemberStart(i) \in Nat
<1>1. i - 1 \in 0 .. Len(Cells) /\ \A j \in 1 .. i - 1 : j \in 1 .. count
  BY CellsTyped
<1>2. \A j \in 1 .. i - 1 : (MemberText(j) \o Spaces) \o Separator(j) = Cells[j]
  BY <1>1, CellTyped DEF Cells
<1>3. [j \in 1 .. i - 1 |-> MemberText(j) \o Spaces \o Separator(j)]
        = [j \in 1 .. i - 1 |-> Cells[j]]
  BY <1>2
<1>4. TextBefore(i) = Opening ++ Joined(Cells, i - 1)
  BY <1>3 DEF TextBefore, Opening, Joined, ++
<1>5. TextBefore(i) \in Seq(Token)
  <2>1. Joined(Cells, i - 1) \in Seq(Token)
    BY <1>1, CellsTyped, JoinedIsASeq
  <2> QED
    BY <1>4, <2>1, CellsTyped, JoinTwo
<1> QED
  BY <1>1, <1>4, <1>5, LenProperties DEF MemberStart

\* The offset of the next member, and of the last token of the source.
LEMMA NextStart ==
  ASSUME Typed, NEW i \in 1 .. count
  PROVE  /\ TextBefore(i + 1) = TextBefore(i) ++ Cell(i)
         /\ End(i) = (MemberStart(i) + Len(Lead(i))) + 1
         /\ MemberStart(i + 1) = End(i) + Len(Gap(i))
         /\ MemberStart(i) \in Nat /\ Len(Lead(i)) \in Nat /\ Len(Gap(i)) \in Nat
<1>1. /\ i \in 1 .. count + 1 /\ i + 1 \in 1 .. count + 1 /\ (i + 1) - 1 = i /\ (i - 1) + 1 = i
      /\ i - 1 \in 0 .. Len(Cells) - 1 /\ i - 1 \in 0 .. Len(Cells)
  BY CellsTyped
<1>2. Joined(Cells, i) = Joined(Cells, i - 1) ++ Cell(i) /\ Joined(Cells, i - 1) \in Seq(Token)
  <2>1. Joined(Cells, (i - 1) + 1) = Joined(Cells, i - 1) ++ Cells[(i - 1) + 1]
    BY <1>1, CellsTyped, JoinedNext
  <2>2. Joined(Cells, i - 1) \in Seq(Token)
    BY <1>1, CellsTyped, JoinedIsASeq
  <2> QED
    BY <1>1, <2>1, <2>2 DEF Cells
<1>3. TextBefore(i + 1) = TextBefore(i) ++ Cell(i)
  <2>1. TextBefore(i + 1) = Opening ++ Joined(Cells, (i + 1) - 1)
    BY <1>1, TextBeforeIs
  <2>2. TextBefore(i) = Opening ++ Joined(Cells, i - 1)
    BY <1>1, TextBeforeIs
  <2>3. (Opening ++ Joined(Cells, i - 1)) ++ Cell(i) = Opening ++ (Joined(Cells, i - 1) ++ Cell(i))
    <3>1. /\ Opening \in Seq(Token) /\ Joined(Cells, i - 1) \in Seq(Token)
          /\ Cell(i) \in Seq(Token)
      BY <1>2, CellTyped, CellsTyped
    <3> QED
      BY <3>1, Associative
  <2> QED
    BY <1>1, <1>2, <2>1, <2>2, <2>3
<1>4. /\ Len(Lead(i) ++ <<Old(i)>>) = Len(Lead(i)) + 1
      /\ Len(Cell(i)) = Len(Lead(i) ++ <<Old(i)>>) + Len(Gap(i))
      /\ Len(Lead(i)) \in Nat /\ Len(Gap(i)) \in Nat
  <2>1. Len(Lead(i) ++ <<Old(i)>>) = Len(Lead(i)) + Len(<<Old(i)>>)
    BY CellTyped, JoinTwo
  <2>2. Len(Cell(i)) = Len(Lead(i) ++ <<Old(i)>>) + Len(Gap(i))
    BY CellTyped, JoinTwo DEF Cell
  <2> QED
    BY <2>1, <2>2, CellTyped, LenProperties
<1>5. End(i) = (MemberStart(i) + Len(Lead(i))) + 1 /\ MemberStart(i) \in Nat
  <2>1. MemberStart(i) \in Nat
    BY <1>1, TextBeforeIs
  <2>2. Len(MemberText(i)) = Len(Lead(i)) + 1
    BY <1>4, CellTyped
  <2> QED
    <3> DEFINE a == MemberStart(i)
               b == Len(Lead(i))
               c == Len(MemberText(i))
    <3>1. End(i) = a + c /\ a \in Nat /\ b \in Nat /\ c = b + 1
      BY <1>4, <2>1, <2>2 DEF End
    <3> HIDE DEF a, b, c
    <3>2. a + c = (a + b) + 1
      BY <3>1
    <3>3. End(i) = (a + b) + 1 /\ a \in Nat
      BY <3>1, <3>2
    <3> QED
      BY <3>3 DEF a, b
<1>6. MemberStart(i + 1) = MemberStart(i) + Len(Cell(i))
  <2>1. Len(TextBefore(i) ++ Cell(i)) = Len(TextBefore(i)) + Len(Cell(i))
    BY <1>1, CellTyped, TextBeforeIs, JoinTwo
  <2> QED
    BY <1>3, <2>1 DEF MemberStart
<1> QED
  BY <1>3, <1>4, <1>5, <1>6

LEMMA MembersInOrder ==
  ASSUME Typed, NEW i \in 1 .. count
  PROVE  /\ MemberStart(i) \in Nat /\ End(i) \in Nat /\ MemberStart(i + 1) \in Nat
         /\ MemberStart(i) < End(i) /\ End(i) <= MemberStart(i + 1)
         /\ \A j \in 1 .. count : i < j => End(i) <= MemberStart(j) /\ MemberStart(j) < End(j)
<1>1. ASSUME NEW j \in 1 .. count
      PROVE  /\ MemberStart(j) \in Nat /\ End(j) \in Nat /\ MemberStart(j + 1) \in Nat
             /\ MemberStart(j) < End(j) /\ End(j) <= MemberStart(j + 1)
  <2> DEFINE a == MemberStart(j)
             b == Len(Lead(j))
             c == Len(Gap(j))
  <2>1. End(j) = (a + b) + 1 /\ MemberStart(j + 1) = End(j) + c /\ a \in Nat /\ b \in Nat /\ c \in Nat
    BY NextStart
  <2> HIDE DEF b, c
  <2> QED
    BY <2>1
<1> DEFINE S == {d \in Nat : (i + d) + 1 \in 1 .. count => End(i) <= MemberStart((i + d) + 1)}
<1>2. 0 \in S
  BY <1>1
<1>3. \A d \in Nat : d \in S => d + 1 \in S
  <2> SUFFICES ASSUME NEW d \in S, (i + (d + 1)) + 1 \in 1 .. count
               PROVE  End(i) <= MemberStart((i + (d + 1)) + 1)
    OBVIOUS
  <2>0. d \in Nat /\ count \in Nat
    BY CellsTyped
  <2>1. (i + d) + 1 \in 1 .. count /\ i + (d + 1) = (i + d) + 1
    BY <2>0
  <2>2. End(i) <= MemberStart((i + d) + 1)
    BY <2>1
  <2> DEFINE j == (i + d) + 1
  <2>3. j \in 1 .. count
    BY <2>1
  <2>4. End(i) <= MemberStart(j)
    BY <2>2
  <2> HIDE DEF j, S
  <2>5. End(i) <= MemberStart(j + 1)
    BY <1>1, <2>3, <2>4
  <2> QED
    BY <2>1, <2>5 DEF j
<1>4. Nat \subseteq S
  <2> HIDE DEF S
  <2> QED
    BY <1>2, <1>3, NatInduct
<1>5. ASSUME NEW j \in 1 .. count, i < j PROVE End(i) <= MemberStart(j)
  <2>1. (j - i) - 1 \in Nat /\ (i + ((j - i) - 1)) + 1 = j
    BY <1>5
  <2>2. (j - i) - 1 \in S
    BY <1>4, <2>1
  <2> QED
    BY <2>1, <2>2
<1> QED
  BY <1>1, <1>5

LEMMA SourceEnds ==
  ASSUME Typed
  PROVE  /\ Source = TextBefore(count + 1) ++ <<Close>> /\ Source \in Seq(Token)
         /\ TextBefore(count + 1) \in Seq(Token) /\ <<Close>> \in Seq(Token)
         /\ Len(Source) = MemberStart(count + 1) + 1 /\ CloseOffset = MemberStart(count + 1)
         /\ MemberStart(count + 1) \in Nat /\ count \in Nat
<1>1. count + 1 \in 1 .. count + 1 /\ count \in Nat
  BY CellsTyped
<1>2. TextBefore(count + 1) \in Seq(Token) /\ MemberStart(count + 1) \in Nat
  BY <1>1, TextBeforeIs
<1>3. <<Close>> \in Seq(Token)
  BY TokensTyped, OneTyped
<1>4. Source = TextBefore(count + 1) ++ <<Close>>
  BY DEF Source, ++
<1>5. Source \in Seq(Token) /\ Len(Source) = Len(TextBefore(count + 1)) + Len(<<Close>>)
  BY <1>2, <1>3, <1>4, JoinTwo
<1>6. Len(Source) = MemberStart(count + 1) + 1
  BY <1>5 DEF MemberStart
<1> QED
  BY <1>1, <1>2, <1>3, <1>4, <1>5, <1>6 DEF CloseOffset

LEMMA AddOffsetIs ==
  ASSUME Typed
  PROVE  /\ AddOffset \in Nat /\ AddOffset <= MemberStart(count + 1) /\ AddOffset < Len(Source)
         /\ count = 0 => AddOffset = MemberStart(1) /\ AddOffset = Len(Opening)
         /\ \A i \in 1 .. count : End(i) <= AddOffset
<1>1. CASE count = 0
  <2>1. AddOffset = MemberStart(1) /\ MemberStart(1) \in Nat
    BY <1>1, SourceEnds DEF AddOffset
  <2>2. TextBefore(1) = Opening ++ Joined(Cells, 0)
    <3>1. 1 \in 1 .. count + 1 /\ 1 - 1 = 0
      BY <1>1
    <3> QED
      BY <3>1, TextBeforeIs
  <2>3. Opening ++ <<>> = Opening
    BY CellsTyped, JoinEmpty
  <2> QED
    BY <1>1, <2>1, <2>2, <2>3, JoinedNone, SourceEnds DEF MemberStart
<1>2. CASE count # 0
  <2>1. count \in 1 .. count
    BY <1>2, SourceEnds
  <2>2. AddOffset = End(count)
    BY <1>2 DEF AddOffset
  <2>3. ASSUME NEW i \in 1 .. count PROVE End(i) <= End(count)
    <3>1. i = count \/ i < count
      BY <2>1
    <3>2. End(i) \in Nat /\ End(count) \in Nat
      BY <2>1, MembersInOrder
    <3>3. MemberStart(count) \in Nat
      BY <2>1, MembersInOrder
    <3>4. i < count => End(i) <= MemberStart(count) /\ MemberStart(count) < End(count)
      BY <2>1, MembersInOrder
    <3> QED
      BY <3>1, <3>2, <3>3, <3>4
  <2>4. End(count) \in Nat /\ End(count) <= MemberStart(count + 1)
    BY <2>1, MembersInOrder
  <2> QED
    BY <1>2, <2>2, <2>3, <2>4, SourceEnds
<1> QED
  BY <1>1, <1>2

\* What the source holds before, at and behind the value of a member.
LEMMA QuoteMember ==
  ASSUME Typed, NEW i \in 1 .. count
  PROVE  /\ Quote(Source, MemberStart(i), Start(i)) = Lead(i)
         /\ Quote(Source, MemberStart(i), End(i)) = Lead(i) ++ <<Old(i)>>
         /\ Quote(Source, End(i), MemberStart(i + 1)) = Gap(i)
         /\ Start(i) = MemberStart(i) + Len(Lead(i)) /\ End(i) = Start(i) + 1
<1>1. i \in 0 .. Len(Cells) /\ count - i \in 0 .. Len(Cells) - i /\ i + (count - i) = count
      /\ count + 1 \in 1 .. count + 1 /\ (count + 1) - 1 = count
      /\ i + 1 \in 1 .. count + 1 /\ (i + 1) - 1 = i /\ i \in 1 .. count + 1
  BY CellsTyped
<1>2. PICK y \in Seq(Token) : Joined(Cells, count) = Joined(Cells, i) ++ y
  <2>1. Joined(Cells, i + (count - i)) = Joined(Cells, i) ++ Joined(Rest(Cells, i), count - i)
    BY <1>1, CellsTyped, JoinedSplit
  <2>2. Rest(Cells, i) \in Seq(Seq(Token)) /\ Len(Rest(Cells, i)) = Len(Cells) - i
    BY <1>1, CellsTyped, RestIsASeq
  <2>3. Joined(Rest(Cells, i), count - i) \in Seq(Token)
    BY <1>1, <2>2, JoinedIsASeq
  <2> QED
    BY <1>1, <2>1, <2>3
<1>3. PICK z \in Seq(Token) : Source = (TextBefore(i) ++ Cell(i)) ++ z
  <2>1. TextBefore(count + 1) = Opening ++ Joined(Cells, (count + 1) - 1)
    BY <1>1, TextBeforeIs
  <2>2. TextBefore(i + 1) = Opening ++ Joined(Cells, (i + 1) - 1)
    BY <1>1, TextBeforeIs
  <2>3. Joined(Cells, i) \in Seq(Token) /\ Opening \in Seq(Token)
    BY <1>1, CellsTyped, JoinedIsASeq
  <2>4. (Opening ++ Joined(Cells, i)) ++ y = Opening ++ (Joined(Cells, i) ++ y)
    BY <2>3, Associative
  <2>5. TextBefore(count + 1) = TextBefore(i + 1) ++ y
    BY <1>1, <1>2, <2>1, <2>2, <2>4
  <2>6. TextBefore(i + 1) \in Seq(Token) /\ <<Close>> \in Seq(Token)
    BY <1>1, TextBeforeIs, SourceEnds
  <2>7. (TextBefore(i + 1) ++ y) ++ <<Close>> = TextBefore(i + 1) ++ (y ++ <<Close>>)
    <3> DEFINE c == <<Close>>
               a == TextBefore(i + 1)
    <3>1. a \in Seq(Token) /\ c \in Seq(Token)
      BY <2>6
    <3> HIDE DEF a, c
    <3>2. (a ++ y) ++ c = a ++ (y ++ c)
      BY <3>1, Associative
    <3> QED
      BY <3>2 DEF a, c
  <2>8. y ++ <<Close>> \in Seq(Token)
    BY <2>6, JoinTwo
  <2>9. TextBefore(i + 1) = TextBefore(i) ++ Cell(i)
    BY NextStart
  <2> QED
    BY <2>5, <2>7, <2>8, <2>9, SourceEnds
<1> DEFINE t == TextBefore(i)
           l == Lead(i)
           v == <<Old(i)>>
           g == Gap(i)
<1>4. /\ t \in Seq(Token) /\ l \in Seq(Token) /\ v \in Seq(Token) /\ g \in Seq(Token)
      /\ l ++ v \in Seq(Token) /\ Cell(i) = (l ++ v) ++ g /\ Len(v) = 1
      /\ MemberStart(i) = Len(t)
  <2>1. TextBefore(i) \in Seq(Token)
    BY <1>1, TextBeforeIs
  <2>2. Len(v) = 1
    OBVIOUS
  <2> QED
    BY <2>1, <2>2, CellTyped DEF Cell, MemberStart
<1>5. /\ End(i) = (Len(t) + Len(l)) + 1 /\ MemberStart(i + 1) = End(i) + Len(g)
      /\ Len(t) \in Nat /\ Len(l) \in Nat /\ Len(g) \in Nat
  BY NextStart, <1>4
<1> HIDE DEF t, l, v, g
<1>6. /\ t ++ l \in Seq(Token) /\ Len(t ++ l) = Len(t) + Len(l)
      /\ Len(l ++ v) = Len(l) + 1 /\ g ++ z \in Seq(Token)
      /\ v ++ (g ++ z) \in Seq(Token)
      /\ t ++ (l ++ v) \in Seq(Token) /\ Len(t ++ (l ++ v)) = Len(t) + Len(l ++ v)
  <2>1. t ++ l \in Seq(Token) /\ Len(t ++ l) = Len(t) + Len(l)
    BY <1>4, JoinTwo
  <2>2. Len(l ++ v) = Len(l) + Len(v)
    BY <1>4, JoinTwo
  <2>3. g ++ z \in Seq(Token)
    BY <1>4, JoinTwo
  <2>4. v ++ (g ++ z) \in Seq(Token)
    BY <1>4, <2>3, JoinTwo
  <2>5. t ++ (l ++ v) \in Seq(Token) /\ Len(t ++ (l ++ v)) = Len(t) + Len(l ++ v)
    BY <1>4, JoinTwo
  <2> QED
    BY <1>4, <2>1, <2>2, <2>3, <2>4, <2>5
<1>7. Source = (t ++ (l ++ v)) ++ (g ++ z)
  <2>1. t ++ ((l ++ v) ++ g) = (t ++ (l ++ v)) ++ g
    BY <1>4, Associative
  <2>2. ((t ++ (l ++ v)) ++ g) ++ z = (t ++ (l ++ v)) ++ (g ++ z)
    BY <1>4, <1>6, Associative
  <2>3. Source = (t ++ ((l ++ v) ++ g)) ++ z
    BY <1>3, <1>4 DEF t
  <2> QED
    BY <2>1, <2>2, <2>3
<1>8. Source = (t ++ l) ++ (v ++ (g ++ z))
  <2>1. t ++ (l ++ v) = (t ++ l) ++ v
    BY <1>4, Associative
  <2>2. ((t ++ l) ++ v) ++ (g ++ z) = (t ++ l) ++ (v ++ (g ++ z))
    BY <1>4, <1>6, Associative
  <2> QED
    BY <1>7, <2>1, <2>2
<1>9. Source = ((t ++ (l ++ v)) ++ g) ++ z
  BY <1>4, <1>6, <1>7, Associative
<1>10. Quote(Source, Len(t), Len(t) + Len(l)) = l
  BY <1>4, <1>6, <1>8, QuoteMiddle
<1>11. Quote(Source, Len(t), Len(t) + Len(l ++ v)) = l ++ v
  BY <1>4, <1>6, <1>7, QuoteMiddle
<1>12. Quote(Source, Len(t ++ (l ++ v)), Len(t ++ (l ++ v)) + Len(g)) = g
  BY <1>4, <1>6, <1>9, QuoteMiddle
<1>13. /\ Len(t) + Len(l ++ v) = End(i) /\ Len(t ++ (l ++ v)) = End(i)
       /\ Start(i) = Len(t) + Len(l) /\ End(i) = Start(i) + 1
  BY <1>5, <1>6 DEF Start
<1> QED
  BY <1>4, <1>5, <1>10, <1>11, <1>12, <1>13 DEF l, v, g

LEMMA QuoteEnds ==
  ASSUME Typed
  PROVE  /\ Quote(Source, 0, MemberStart(1)) = Opening /\ MemberStart(1) \in Nat
         /\ Quote(Source, AddOffset, Len(Source)) =
              (IF count = 0 THEN <<>> ELSE Spaces) ++ <<Close>>

<1>1. count + 1 \in 1 .. count + 1 /\ (count + 1) - 1 = count /\ count \in 0 .. Len(Cells)
      /\ 1 \in 1 .. count + 1 /\ 1 - 1 = 0
  BY CellsTyped
<1>2. <<>> \in Seq(Token) /\ Len(<<>>) = 0
  BY EmptySeq
<1>3. TextBefore(1) = Opening
  <2>1. TextBefore(1) = Opening ++ Joined(Cells, 1 - 1)
    BY <1>1, TextBeforeIs
  <2>2. Opening ++ <<>> = Opening
    BY CellsTyped, JoinEmpty
  <2> QED
    BY <1>1, <2>1, <2>2, JoinedNone
<1>4. Quote(Source, 0, MemberStart(1)) = Opening
  <2> DEFINE a == Opening
             b == Joined(Cells, count)
             c == <<Close>>
  <2>1. a \in Seq(Token) /\ b \in Seq(Token) /\ c \in Seq(Token)
    BY <1>1, CellsTyped, JoinedIsASeq, SourceEnds
  <2>2. Source = (a ++ b) ++ c
    <3>1. TextBefore(count + 1) = Opening ++ Joined(Cells, (count + 1) - 1)
      BY <1>1, TextBeforeIs
    <3> QED
      BY <1>1, <3>1, SourceEnds
  <2>3. Len(a) = MemberStart(1)
    BY <1>3 DEF MemberStart
  <2> HIDE DEF a, b, c
  <2>4. Source = a ++ (b ++ c) /\ b ++ c \in Seq(Token)
    BY <2>1, <2>2, Associative, JoinTwo
  <2>5. <<>> ++ a = a /\ Len(a) \in Nat
    BY <2>1, JoinEmpty, LenProperties
  <2>6. Quote((<<>> ++ a) ++ (b ++ c), Len(<<>>), Len(<<>>) + Len(a)) = a
    BY <1>2, <2>1, <2>4, QuoteMiddle
  <2>7. 0 + Len(a) = Len(a)
    BY <2>5
  <2> QED
    BY <1>2, <2>3, <2>4, <2>5, <2>6, <2>7 DEF a
<1>5. Quote(Source, MemberStart(count + 1), Len(Source)) = <<Close>>
  <2> DEFINE a == TextBefore(count + 1)
             c == <<Close>>
  <2>1. a \in Seq(Token) /\ c \in Seq(Token) /\ Source = a ++ c /\ Len(c) = 1
        /\ Len(a) = MemberStart(count + 1) /\ Len(Source) = Len(a) + 1
    BY SourceEnds DEF MemberStart
  <2> HIDE DEF a, c
  <2>2. (a ++ c) ++ <<>> = a ++ c
    <3>1. a ++ c \in Seq(Token)
      BY <2>1, JoinTwo
    <3> QED
      BY <3>1, JoinEmpty
  <2>3. Quote((a ++ c) ++ <<>>, Len(a), Len(a) + Len(c)) = c
    BY <1>2, <2>1, QuoteMiddle
  <2> QED
    BY <2>1, <2>2, <2>3 DEF c
<1>6. Quote(Source, AddOffset, Len(Source)) = (IF count = 0 THEN <<>> ELSE Spaces) ++ <<Close>>
  <2>1. CASE count = 0
    <3>1. <<>> ++ <<Close>> = <<Close>>
      BY SourceEnds, JoinEmpty
    <3> QED
      BY <1>5, <2>1, <3>1, SourceEnds, AddOffsetIs
  <2>2. CASE count # 0
    <3>1. count \in 1 .. count
      BY <2>2, SourceEnds
    <3>2. Gap(count) = Spaces
      <4>1. Separator(count) = <<>>
        BY SourceEnds DEF Separator
      <4>2. Spaces ++ <<>> = Spaces
        BY SpacesTyped, JoinEmpty
      <4> QED
        BY <4>1, <4>2 DEF Gap
    <3>3. AddOffset = End(count)
      BY <2>2 DEF AddOffset
    <3>4. Quote(Source, End(count), MemberStart(count + 1)) = Spaces
      BY <3>1, <3>2, QuoteMember
    <3>5. /\ AddOffset \in 0 .. Len(Source) /\ MemberStart(count + 1) \in AddOffset .. Len(Source)
          /\ Len(Source) \in MemberStart(count + 1) .. Len(Source)
      BY AddOffsetIs, SourceEnds
    <3>6. Quote(Source, AddOffset, MemberStart(count + 1))
            ++ Quote(Source, MemberStart(count + 1), Len(Source))
          = Quote(Source, AddOffset, Len(Source))
      <4>1. Source \in Seq(Token)
        BY SourceEnds
      <4> QED
        BY <3>5, <4>1, QuoteJoin
    <3> QED
      BY <1>5, <2>2, <3>3, <3>4, <3>6
  <2> QED
    BY <2>1, <2>2
<1>7. MemberStart(1) \in Nat
  BY <1>1, TextBeforeIs
<1> QED
  BY <1>4, <1>6, <1>7

-------------------------------------------------------------------------------
\* The order of the patches: by member, and those that add behind them in the
\* order of the proposal.
Rank(k) == IF edits[k].path \in 1 .. count THEN edits[k].path ELSE count + k
PatchOf(k) == MakePatch(edits[k], k)
NewText(k) ==
  IF kind = "object" THEN <<Key(edits[k].path), Colon, edits[k].value>> ELSE <<edits[k].value>>

LEMMA RankFacts ==
  ASSUME Typed, NEW k \in 1 .. Len(edits)
  PROVE  /\ k \in Nat /\ count \in Nat /\ Len(edits) \in Nat
         /\ edits[k].operation \in {"add", "replace", "remove"}
         /\ Rank(k) \in 1 .. count + Len(edits)
         /\ edits[k].operation = "add" => Rank(k) = count + k
         /\ edits[k].operation # "add" => Rank(k) = edits[k].path /\ edits[k].path \in 1 .. count
         /\ \A j \in 1 .. Len(edits) : j # k => Rank(j) # Rank(k)
<1>1. count \in Nat /\ edits \in Seq(Item) /\ Len(edits) \in Nat
  BY CellsTyped, LenProperties DEF Typed, ValidEdits
<1>2. \A j \in 1 .. Len(edits) : edits[j] \in Item
  BY <1>1, ElementOfSeq
<1>3. edits[k].operation \in {"add", "replace", "remove"}
  BY <1>2 DEF Item
<1>4. edits[k].operation = "add" <=> edits[k].path \notin 1 .. count
  BY DEF Typed, ValidEdits
<1>5. \A j \in 1 .. Len(edits) : j # k => edits[j].path # edits[k].path
  BY DEF Typed, ValidEdits
<1>6. ASSUME NEW j \in 1 .. Len(edits), j # k PROVE Rank(j) # Rank(k)
  <2>1. edits[j].path # edits[k].path
    BY <1>5, <1>6
  <2> DEFINE a == edits[j].path
             b == edits[k].path
  <2> HIDE DEF a, b
  <2>2. Rank(j) = (IF a \in 1 .. count THEN a ELSE count + j)
        /\ Rank(k) = (IF b \in 1 .. count THEN b ELSE count + k) /\ a # b
    BY <2>1 DEF Rank, a, b
  <2> QED
    BY <1>1, <1>6, <2>2
<1>7. Rank(k) \in 1 .. count + Len(edits)
  BY <1>1 DEF Rank
<1> QED
  BY <1>1, <1>3, <1>4, <1>6, <1>7 DEF Rank

LEMMA PatchIs ==
  ASSUME Typed, NEW k \in 1 .. Len(edits)
  PROVE  /\ PatchOf(k).order = k
         /\ edits[k].operation = "replace" =>
              /\ PatchOf(k).start = Start(edits[k].path) /\ PatchOf(k).end = End(edits[k].path)
              /\ PatchOf(k).replacement = <<edits[k].value>>
         /\ edits[k].operation = "remove" =>
              /\ PatchOf(k).replacement = <<>>
              /\ edits[k].path < count =>
                   /\ PatchOf(k).start = MemberStart(edits[k].path)
                   /\ PatchOf(k).end = MemberStart(edits[k].path + 1)
              /\ edits[k].path = count =>
                   /\ PatchOf(k).start =
                        (IF count > 1 THEN End(count - 1) ELSE MemberStart(count))
                   /\ PatchOf(k).end = End(count)
         /\ edits[k].operation = "add" =>
              /\ PatchOf(k).start = AddOffset /\ PatchOf(k).end = AddOffset
              /\ PatchOf(k).replacement = NeedsComma \o NewText(k)
<1> DEFINE op == edits[k].operation
           i == edits[k].path
<1>1. CASE op = "replace"
  BY <1>1 DEF PatchOf, MakePatch, Patch
<1>2. CASE op = "remove"
  <2>1. PatchOf(k) = EditEnvelope(i, k)
    BY <1>2 DEF PatchOf, MakePatch
  <2>2. i \in 1 .. count /\ count \in Nat
    BY <1>2, RankFacts
  <2>3. CASE i < count
    <3>1. EditEnvelope(i, k) = Patch(MemberStart(i), MemberStart(i + 1), <<>>, k)
      BY <2>2, <2>3 DEF EditEnvelope
    <3> QED
      BY <1>2, <2>1, <2>2, <2>3, <3>1 DEF Patch
  <2>4. CASE i = count /\ count > 1
    <3>1. EditEnvelope(i, k) = Patch(End(i - 1), End(i), <<>>, k)
      BY <2>2, <2>4 DEF EditEnvelope
    <3> QED
      BY <1>2, <2>1, <2>2, <2>4, <3>1 DEF Patch
  <2>5. CASE i = count /\ count = 1
    <3>1. EditEnvelope(i, k) = Patch(MemberStart(i), End(i), <<>>, k)
      BY <2>2, <2>5 DEF EditEnvelope
    <3> QED
      BY <1>2, <2>1, <2>2, <2>5, <3>1 DEF Patch
  <2> QED
    BY <2>2, <2>3, <2>4, <2>5
<1>3. CASE op = "add"
  <2>1. PatchOf(k) = AddEnvelope(NewText(k), k)
    BY <1>3 DEF PatchOf, MakePatch, NewText, Typed
  <2> QED
    BY <1>3, <2>1 DEF AddEnvelope, Patch
<1> QED
  BY <1>1, <1>2, <1>3, RankFacts

\* A patch of a member is between the end of the member before and the start of
\* the next one.
LEMMA PatchBounds ==
  ASSUME Typed, NEW k \in 1 .. Len(edits), edits[k].operation # "add", NEW i, i = edits[k].path
  PROVE  /\ i \in 1 .. count /\ PatchOf(k).start \in Nat /\ PatchOf(k).end \in Nat
         /\ PatchOf(k).start < End(i)
         /\ i > 1 => End(i - 1) <= PatchOf(k).start
         /\ i < count => PatchOf(k).end <= MemberStart(i + 1)
         /\ i = count => PatchOf(k).end <= AddOffset
         /\ edits[k].operation = "replace" => PatchOf(k).end = End(i)
         /\ i < count \/ edits[k].operation = "replace" => MemberStart(i) <= PatchOf(k).start
<1>1. i \in 1 .. count /\ count \in Nat /\ edits[k].operation \in {"replace", "remove"}
  BY RankFacts
<1>2. /\ MemberStart(i) \in Nat /\ End(i) \in Nat /\ MemberStart(i + 1) \in Nat
      /\ MemberStart(i) < End(i) /\ End(i) <= MemberStart(i + 1) /\ End(i) <= AddOffset
  BY <1>1, MembersInOrder, AddOffsetIs
<1>3. i > 1 => End(i - 1) \in Nat /\ End(i - 1) <= MemberStart(i)
  <2> SUFFICES ASSUME i > 1 PROVE End(i - 1) \in Nat /\ End(i - 1) <= MemberStart(i)
    OBVIOUS
  <2>1. i - 1 \in 1 .. count /\ (i - 1) + 1 = i
    BY <1>1
  <2>2. End(i - 1) \in Nat /\ End(i - 1) <= MemberStart((i - 1) + 1)
    BY <2>1, MembersInOrder
  <2> QED
    BY <2>1, <2>2
<1>4. Start(i) = End(i) - 1
  BY DEF Start
<1>5. CASE edits[k].operation = "replace"
  <2>1. PatchOf(k).start = End(i) - 1 /\ PatchOf(k).end = End(i)
    BY <1>4, <1>5, PatchIs
  <2> QED
    BY <1>1, <1>2, <1>3, <2>1
<1>6. CASE edits[k].operation = "remove" /\ i < count
  <2>1. PatchOf(k).start = MemberStart(i) /\ PatchOf(k).end = MemberStart(i + 1)
    BY <1>6, PatchIs
  <2> QED
    BY <1>1, <1>2, <1>3, <1>6, <2>1
<1>7. CASE edits[k].operation = "remove" /\ i = count
  <2>1. /\ PatchOf(k).start = (IF count > 1 THEN End(count - 1) ELSE MemberStart(count))
        /\ PatchOf(k).end = End(count)
    BY <1>7, PatchIs
  <2> QED
    BY <1>1, <1>2, <1>3, <1>7, <2>1
<1> QED
  BY <1>1, <1>5, <1>6, <1>7

BothLastRemoved == count > 1 /\ Edited(count, "remove") /\ Edited(count - 1, "remove")

LEMMA PatchOrder ==
  ASSUME Typed, NEW j \in 1 .. Len(edits), NEW k \in 1 .. Len(edits), Rank(j) < Rank(k)
  PROVE  /\ PatchBefore(PatchOf(j), PatchOf(k)) /\ ~PatchBefore(PatchOf(k), PatchOf(j))
         /\ ~BothLastRemoved => PatchOf(j).end <= PatchOf(k).start
<1> DEFINE a == edits[j].path
           b == edits[k].path
<1>1. CASE edits[j].operation = "add"
  <2>1. Rank(j) = count + j /\ j \in Nat /\ count \in Nat /\ k \in Nat
    BY <1>1, RankFacts
  <2>2. edits[k].operation = "add"
    <3>1. edits[k].operation # "add" => Rank(k) \in 1 .. count
      BY RankFacts
    <3> QED
      BY <2>1, <3>1
  <2>3. Rank(k) = count + k
    BY <2>2, RankFacts
  <2>4. j < k
    BY <2>1, <2>3
  <2>5. /\ PatchOf(j).start = AddOffset /\ PatchOf(j).end = AddOffset /\ PatchOf(j).order = j
        /\ PatchOf(k).start = AddOffset /\ PatchOf(k).end = AddOffset /\ PatchOf(k).order = k
    BY <1>1, <2>2, PatchIs
  <2>6. AddOffset \in Nat
    BY AddOffsetIs
  <2> QED
    BY <2>1, <2>4, <2>5, <2>6 DEF PatchBefore
<1>2. CASE edits[j].operation # "add" /\ edits[k].operation = "add"
  <2>1. a \in 1 .. count /\ PatchOf(j).start < End(a) /\ End(a) \in Nat /\ PatchOf(j).start \in Nat
        /\ PatchOf(j).end \in Nat
    BY <1>2, PatchBounds, MembersInOrder
  <2>2. PatchOf(k).start = AddOffset /\ AddOffset \in Nat /\ End(a) <= AddOffset /\ count \in Nat
    BY <1>2, <2>1, PatchIs, AddOffsetIs, SourceEnds
  <2>3. PatchOf(j).end <= AddOffset
    <3>1. a < count => PatchOf(j).end <= MemberStart(a + 1)
      BY <1>2, PatchBounds
    <3>2. a = count => PatchOf(j).end <= AddOffset
      BY <1>2, PatchBounds
    <3>3. a < count => /\ MemberStart(a + 1) \in Nat /\ End(a + 1) \in Nat
                       /\ MemberStart(a + 1) < End(a + 1) /\ End(a + 1) <= AddOffset
      <4>1. a < count => a + 1 \in 1 .. count
        BY <2>1, <2>2
      <4> QED
        BY <4>1, MembersInOrder, AddOffsetIs
    <3> QED
      BY <2>1, <2>2, <3>1, <3>2, <3>3
  <2> QED
    BY <2>1, <2>2, <2>3 DEF PatchBefore
<1>3. CASE edits[j].operation # "add" /\ edits[k].operation # "add"
  <2>1. a \in 1 .. count /\ b \in 1 .. count /\ a < b /\ count \in Nat
    BY <1>3, RankFacts
  <2>2. /\ PatchOf(j).start \in Nat /\ PatchOf(j).end \in Nat /\ PatchOf(j).start < End(a)
        /\ PatchOf(j).end <= MemberStart(a + 1)
        /\ edits[j].operation = "replace" => PatchOf(j).end = End(a)
    BY <1>3, <2>1, PatchBounds
  <2>3. /\ PatchOf(k).start \in Nat /\ PatchOf(k).end \in Nat
        /\ End(b - 1) <= PatchOf(k).start
        /\ b < count \/ edits[k].operation = "replace" => MemberStart(b) <= PatchOf(k).start
    BY <1>3, <2>1, PatchBounds
  <2>4. b - 1 \in 1 .. count /\ a + 1 \in 1 .. count /\ (a < b - 1 => a + 1 <= b - 1)
    BY <2>1
  <2>5. /\ End(a) \in Nat /\ End(b - 1) \in Nat /\ MemberStart(b) \in Nat
        /\ MemberStart(b - 1) \in Nat /\ MemberStart(a + 1) \in Nat /\ End(a + 1) \in Nat
        /\ MemberStart(a + 1) < End(a + 1)
    BY <2>1, <2>4, MembersInOrder
  <2>6. a < b - 1 => End(a) <= MemberStart(b - 1) /\ MemberStart(b - 1) < End(b - 1)
    BY <2>1, <2>4, MembersInOrder
  <2>7. a + 1 < b - 1 => End(a + 1) <= MemberStart(b - 1) /\ MemberStart(b - 1) < End(b - 1)
    BY <2>4, MembersInOrder
  <2>8. a + 1 < b => End(a + 1) <= MemberStart(b) /\ MemberStart(b) < End(b)
    BY <2>1, <2>4, MembersInOrder
  <2>9. End(a) <= End(b - 1) /\ (a < b - 1 => MemberStart(a + 1) < End(b - 1))
        /\ MemberStart(a + 1) <= MemberStart(b)
    <3> HIDE DEF a, b
    <3>1. CASE a = b - 1
      <4>1. a + 1 = b
        BY <2>1, <3>1
      <4> QED
        BY <2>1, <2>5, <3>1, <4>1
    <3>2. CASE a + 1 = b - 1
      BY <2>1, <2>5, <2>6, <2>8, <3>2
    <3>3. CASE a + 1 < b - 1
      BY <2>1, <2>5, <2>6, <2>7, <2>8, <3>3
    <3> QED
      BY <2>1, <3>1, <3>2, <3>3
  <2>10. PatchOf(j).start < PatchOf(k).start
    BY <2>2, <2>3, <2>5, <2>9
  <2>11. ~BothLastRemoved => PatchOf(j).end <= PatchOf(k).start
    <3>1. CASE b < count \/ edits[k].operation = "replace"
      BY <2>2, <2>3, <2>5, <2>9, <3>1
    <3>2. CASE a < b - 1
      BY <2>2, <2>3, <2>5, <2>9, <3>2
    <3>3. CASE edits[j].operation = "replace"
      BY <2>2, <2>3, <2>5, <2>9, <3>3
    <3>4. CASE b = count /\ a = b - 1 /\ edits[j].operation = "remove" /\ edits[k].operation = "remove"
      <4>1. Edited(b, "remove") /\ Edited(a, "remove")
        BY <3>4 DEF Edited
      <4> QED
        BY <2>1, <3>4, <4>1 DEF BothLastRemoved
    <3> QED
      <4>1. edits[j].operation \in {"add", "replace", "remove"}
            /\ edits[k].operation \in {"add", "replace", "remove"}
        BY RankFacts
      <4> QED
        BY <1>3, <2>1, <3>1, <3>2, <3>3, <3>4, <4>1
  <2> QED
    BY <2>2, <2>3, <2>10, <2>11 DEF PatchBefore
<1> QED
  BY <1>1, <1>2, <1>3

\* How many patches are in front.
Upto(x) == {k \in 1 .. Len(edits) : Rank(k) <= x}
Count(x) == Cardinality(Upto(x))

LEMMA CountFacts ==
  ASSUME Typed
  PROVE  /\ \A x \in Nat : IsFiniteSet(Upto(x)) /\ Count(x) \in Nat
         /\ Count(0) = 0 /\ Count(count + Len(edits)) = Len(edits)
         /\ \A x \in Nat, y \in Nat : x <= y => Count(x) <= Count(y)
         /\ \A k \in 1 .. Len(edits) : Count(Rank(k)) = Count(Rank(k) - 1) + 1
         /\ \A x \in Nat : (\A k \in 1 .. Len(edits) : Rank(k) # x + 1) => Count(x + 1) = Count(x)
<1>0. Len(edits) \in Nat /\ count \in Nat
  BY CellsTyped, LenProperties DEF Typed, ValidEdits
<1>1. \A k \in 1 .. Len(edits) : Rank(k) \in 1 .. count + Len(edits) /\ Rank(k) \in Nat
  BY RankFacts
<1>2. IsFiniteSet(1 .. Len(edits)) /\ Cardinality(1 .. Len(edits)) = Len(edits)
  <2> DEFINE n == Len(edits)
  <2>1. n \in Int /\ 1 \in Int
    BY <1>0
  <2> HIDE DEF n
  <2>2. IsFiniteSet(1 .. n) /\ Cardinality(1 .. n) = IF 1 > n THEN 0 ELSE n - 1 + 1
    BY <2>1, FS_Interval
  <2> QED
    BY <1>0, <2>2 DEF n
<1>3. \A x \in Int : IsFiniteSet(Upto(x)) /\ Count(x) \in Nat
  <2> TAKE x \in Int
  <2>1. Upto(x) \subseteq 1 .. Len(edits)
    BY DEF Upto
  <2>2. IsFiniteSet(Upto(x))
    BY <1>2, <2>1, FS_Subset
  <2> QED
    BY <2>2, FS_CardinalityType DEF Count
<1>4. Count(0) = 0
  <2>1. Upto(0) = {}
    BY <1>1 DEF Upto
  <2> QED
    BY <2>1, FS_EmptySet DEF Count
<1>5. Count(count + Len(edits)) = Len(edits)
  <2>1. Upto(count + Len(edits)) = 1 .. Len(edits)
    BY <1>0, <1>1 DEF Upto
  <2> QED
    BY <1>2, <2>1 DEF Count
<1>6. \A x \in Nat, y \in Nat : x <= y => Count(x) <= Count(y)
  <2> TAKE x \in Nat, y \in Nat
  <2> HAVE x <= y
  <2>1. Upto(x) \subseteq Upto(y)
    BY <1>1 DEF Upto
  <2> QED
    BY <1>3, <2>1, FS_Subset DEF Count
<1>7. ASSUME NEW k \in 1 .. Len(edits) PROVE Count(Rank(k)) = Count(Rank(k) - 1) + 1
  <2>1. Rank(k) - 1 \in Int
    BY <1>1
  <2>2. k \notin Upto(Rank(k) - 1)
    BY <1>1 DEF Upto
  <2>3. Upto(Rank(k)) = Upto(Rank(k) - 1) \cup {k}
    <3>1. \A j \in 1 .. Len(edits) : Rank(j) <= Rank(k) <=> Rank(j) <= Rank(k) - 1 \/ j = k
      <4> TAKE j \in 1 .. Len(edits)
      <4>1. j # k => Rank(j) # Rank(k)
        BY RankFacts
      <4>2. Rank(j) \in Nat /\ Rank(k) \in Nat
        BY <1>1
      <4> QED
        BY <4>1, <4>2
    <3> QED
      BY <3>1 DEF Upto
  <2> QED
    BY <1>3, <2>1, <2>2, <2>3, FS_AddElement DEF Count
<1>8. ASSUME NEW x \in Nat, \A k \in 1 .. Len(edits) : Rank(k) # x + 1
      PROVE  Count(x + 1) = Count(x)
  <2>1. Upto(x + 1) = Upto(x)
    BY <1>1, <1>8 DEF Upto
  <2> QED
    BY <2>1 DEF Count
<1> QED
  BY <1>3, <1>4, <1>5, <1>6, <1>7, <1>8

LEMMA BeforeIs ==
  ASSUME Typed, NEW k \in 1 .. Len(edits)
  PROVE  Cardinality(Before(edits, k)) = Count(Rank(k) - 1)
<1>1. ASSUME NEW j \in 1 .. Len(edits)
      PROVE  PatchBefore(PatchOf(j), PatchOf(k)) <=> Rank(j) <= Rank(k) - 1
  <2>1. Rank(j) \in Nat /\ Rank(k) \in Nat
    BY RankFacts
  <2>2. CASE Rank(j) < Rank(k)
    BY <2>1, <2>2, PatchOrder
  <2>3. CASE Rank(k) < Rank(j)
    BY <2>1, <2>3, PatchOrder
  <2>4. CASE Rank(k) = Rank(j)
    <3>1. j = k
      BY <2>4, RankFacts
    <3>2. PatchOf(k).start \in Nat /\ PatchOf(k).end \in Nat /\ PatchOf(k).order = k
      <4>1. CASE edits[k].operation = "add"
        BY <4>1, PatchIs, AddOffsetIs
      <4>2. CASE edits[k].operation # "add"
        BY <4>2, PatchBounds, PatchIs
      <4> QED
        BY <4>1, <4>2
    <3>3. ~PatchBefore(PatchOf(k), PatchOf(k))
      BY <3>2 DEF PatchBefore
    <3> QED
      BY <2>1, <2>4, <3>1, <3>3
  <2> QED
    BY <2>1, <2>2, <2>3, <2>4
<1>2. Before(edits, k) = Upto(Rank(k) - 1)
  BY <1>1 DEF Before, Upto, PatchOf
<1> QED
  BY <1>2 DEF Count

\* The patches are sorted, and none is lost or repeated.
LEMMA InPlaceIs ==
  ASSUME Typed, NEW k \in 1 .. Len(edits)
  PROVE  /\ Count(Rank(k)) \in 1 .. Len(edits)
         /\ InPlace(edits, Count(Rank(k))) = k
         /\ Patches(edits)[Count(Rank(k))] = PatchOf(k)
<1>1. /\ Rank(k) \in Nat /\ Rank(k) - 1 \in Nat /\ Rank(k) <= count + Len(edits)
      /\ count + Len(edits) \in Nat /\ Len(edits) \in Nat
  BY RankFacts
<1>2. /\ Count(Rank(k)) = Count(Rank(k) - 1) + 1 /\ Count(Rank(k) - 1) \in Nat
      /\ Count(Rank(k)) <= Count(count + Len(edits)) /\ Count(count + Len(edits)) = Len(edits)
  BY <1>1, CountFacts
<1>3. Count(Rank(k)) \in 1 .. Len(edits)
  BY <1>1, <1>2
<1>4. Cardinality(Before(edits, k)) = Count(Rank(k)) - 1
  BY <1>2, BeforeIs
<1>5. ASSUME NEW j \in 1 .. Len(edits), Cardinality(Before(edits, j)) = Count(Rank(k)) - 1
      PROVE  j = k
  <2>1. /\ Rank(j) \in Nat /\ Rank(j) - 1 \in Nat /\ Count(Rank(j) - 1) = Count(Rank(k) - 1)
        /\ Count(Rank(j)) = Count(Rank(j) - 1) + 1
    <3>1. Rank(j) \in Nat /\ Rank(j) - 1 \in Nat
      BY RankFacts
    <3>2. Cardinality(Before(edits, j)) = Count(Rank(j) - 1)
      BY BeforeIs
    <3>3. Count(Rank(j)) = Count(Rank(j) - 1) + 1 /\ Count(Rank(j) - 1) \in Nat
      BY <3>1, CountFacts
    <3> QED
      BY <1>2, <1>5, <3>1, <3>2, <3>3
  <2>2. ~(Rank(j) < Rank(k))
    <3>1. Rank(j) < Rank(k) => Count(Rank(j)) <= Count(Rank(k) - 1)
      BY <1>1, <2>1, CountFacts
    <3> QED
      BY <1>2, <2>1, <3>1
  <2>3. ~(Rank(k) < Rank(j))
    <3>1. Rank(k) < Rank(j) => Count(Rank(k)) <= Count(Rank(j) - 1)
      BY <1>1, <2>1, CountFacts
    <3> QED
      BY <1>2, <2>1, <3>1
  <2> QED
    BY <1>1, <2>1, <2>2, <2>3, RankFacts
<1>6. InPlace(edits, Count(Rank(k))) = k
  BY <1>4, <1>5 DEF InPlace
<1> QED
  BY <1>3, <1>6 DEF Patches, PatchOf

LEMMA EveryPlace ==
  ASSUME Typed, NEW r \in 1 .. Len(edits)
  PROVE  \E k \in 1 .. Len(edits) : Count(Rank(k)) = r
<1>0. Len(edits) \in Nat /\ count + Len(edits) \in Nat
  BY CellsTyped, LenProperties DEF Typed, ValidEdits
<1> DEFINE S == {x \in Nat : r <= Count(x) => \E k \in 1 .. Len(edits) : Count(Rank(k)) = r}
<1>1. 0 \in S
  BY CountFacts
<1>2. \A x \in Nat : x \in S => x + 1 \in S
  <2> SUFFICES ASSUME NEW x \in S, r <= Count(x + 1)
               PROVE  \E k \in 1 .. Len(edits) : Count(Rank(k)) = r
    OBVIOUS
  <2>1. x \in Nat /\ Count(x) \in Nat
    BY CountFacts
  <2>2. CASE r <= Count(x)
    BY <2>2
  <2>3. CASE ~(r <= Count(x))
    <3>1. Count(x + 1) # Count(x)
      BY <2>1, <2>3
    <3>2. PICK k \in 1 .. Len(edits) : Rank(k) = x + 1
      BY <2>1, <3>1, CountFacts
    <3>3. Count(Rank(k)) = Count(Rank(k) - 1) + 1 /\ Rank(k) - 1 = x
      BY <2>1, <3>2, CountFacts
    <3>4. Count(Rank(k)) = r
      BY <2>1, <2>3, <3>2, <3>3
    <3> QED
      BY <3>4
  <2> QED
    BY <2>2, <2>3
<1>3. count + Len(edits) \in S
  <2> HIDE DEF S
  <2> QED
    BY <1>0, <1>1, <1>2, NatInduct
<1> QED
  BY <1>3, CountFacts

\* Two patches meet exactly when the last two members are removed.
LEMMA OverlapIs ==
  ASSUME Typed
  PROVE  Overlap(Patches(edits)) <=> BothLastRemoved
<1>0. Len(Patches(edits)) = Len(edits) /\ Len(edits) \in Nat /\ count \in Nat
  BY CellsTyped, LenProperties DEF Typed, ValidEdits, Patches
<1>1. ASSUME ~BothLastRemoved, NEW r \in 2 .. Len(edits)
      PROVE  ~(Patches(edits)[r].start < Patches(edits)[r - 1].end)
  <2>1. r \in 1 .. Len(edits) /\ r - 1 \in 1 .. Len(edits)
    BY <1>0
  <2>2. PICK k \in 1 .. Len(edits) : Count(Rank(k)) = r
    BY <2>1, EveryPlace
  <2>3. PICK j \in 1 .. Len(edits) : Count(Rank(j)) = r - 1
    BY <2>1, EveryPlace
  <2>4. Rank(j) \in Nat /\ Rank(k) \in Nat
    BY RankFacts
  <2>5. Rank(j) < Rank(k)
    <3>1. Rank(k) <= Rank(j) => Count(Rank(k)) <= Count(Rank(j))
      BY <2>4, CountFacts
    <3> QED
      BY <2>1, <2>2, <2>3, <2>4, <3>1
  <2>6. Patches(edits)[r] = PatchOf(k) /\ Patches(edits)[r - 1] = PatchOf(j)
    BY <2>2, <2>3, InPlaceIs
  <2>7. PatchOf(j).end <= PatchOf(k).start
    BY <1>1, <2>5, PatchOrder
  <2>8. PatchOf(j).end \in Int /\ PatchOf(k).start \in Int
    <3>1. ASSUME NEW i \in 1 .. Len(edits) PROVE PatchOf(i).end \in Int /\ PatchOf(i).start \in Int
      <4>1. CASE edits[i].operation = "add"
        BY <4>1, PatchIs, AddOffsetIs
      <4>2. CASE edits[i].operation # "add"
        BY <4>2, PatchBounds
      <4> QED
        BY <4>1, <4>2
    <3> QED
      BY <3>1
  <2> QED
    BY <2>6, <2>7, <2>8
<1>2. ASSUME BothLastRemoved
      PROVE  \E r \in 2 .. Len(edits) : Patches(edits)[r].start < Patches(edits)[r - 1].end
  <2>1. PICK k \in 1 .. Len(edits) : edits[k].path = count /\ edits[k].operation = "remove"
    BY <1>2 DEF BothLastRemoved, Edited
  <2>2. PICK j \in 1 .. Len(edits) : edits[j].path = count - 1 /\ edits[j].operation = "remove"
    BY <1>2 DEF BothLastRemoved, Edited
  <2>3. Rank(k) = count /\ Rank(j) = count - 1 /\ count > 1
    BY <1>2, <2>1, <2>2, RankFacts DEF BothLastRemoved
  <2>4. Count(count) = Count(count - 1) + 1
    BY <2>3, CountFacts
  <2>5. Count(count) \in 1 .. Len(edits) /\ Count(count - 1) \in 1 .. Len(edits)
    BY <2>3, InPlaceIs
  <2>6. Count(count) \in 2 .. Len(edits) /\ Count(count) - 1 = Count(count - 1)
    BY <1>0, <2>4, <2>5
  <2>7. Patches(edits)[Count(count)] = PatchOf(k) /\ Patches(edits)[Count(count - 1)] = PatchOf(j)
    BY <2>3, InPlaceIs
  <2>8. PatchOf(k).start = End(count - 1)
    BY <2>1, <2>3, PatchIs
  <2>9. PatchOf(j).end = MemberStart((count - 1) + 1)
    <3>1. count - 1 < count
      BY <1>0
    <3> QED
      BY <2>2, <3>1, PatchIs
  <2>10. MemberStart((count - 1) + 1) = End(count - 1) + Len(Gap(count - 1))
         /\ End(count - 1) \in Nat
    <3>1. count - 1 \in 1 .. count
      BY <1>0, <2>3
    <3> QED
      BY <3>1, NextStart, MembersInOrder
  <2>11. Len(Gap(count - 1)) \in Nat /\ Len(Gap(count - 1)) >= 1
    <3> DEFINE c == <<Comma>>
    <3>1. c \in Seq(Token) /\ Len(c) = 1
      BY TokensTyped, OneTyped
    <3>2. Separator(count - 1) = c ++ Spaces
      BY <1>0, <2>3 DEF Separator, ++
    <3> HIDE DEF c
    <3>3. Separator(count - 1) \in Seq(Token) /\ Len(Separator(count - 1)) = 1 + Len(Spaces)
      BY <3>1, <3>2, SpacesTyped, JoinTwo
    <3>4. Len(Gap(count - 1)) = Len(Spaces) + Len(Separator(count - 1))
      BY <3>3, SpacesTyped, JoinTwo DEF Gap
    <3>5. Len(Spaces) \in Nat
      BY SpacesTyped, LenProperties
    <3> QED
      BY <3>3, <3>4, <3>5
  <2>12. Patches(edits)[Count(count)].start < Patches(edits)[Count(count) - 1].end
    BY <2>6, <2>7, <2>8, <2>9, <2>10, <2>11
  <2> QED
    BY <2>6, <2>12
<1> QED
  BY <1>0, <1>1, <1>2 DEF Overlap

-------------------------------------------------------------------------------
\* The loop of compose.  What it has laid down after the patches of rank x and less,
\* with the source up to the next boundary, is known member by member.
Sorted == Patches(edits)
Laid == [r \in 1 .. Len(edits) |->
           Quote(Source, Cursor(Sorted, r), Sorted[r].start) ++ Sorted[r].replacement]
LaidUpto(x) == Joined(Laid, Count(x))
CursorAfter(x) == Cursor(Sorted, Count(x) + 1)

LEMMA NewValueTyped ==
  ASSUME Typed, NEW k \in 1 .. Len(edits), edits[k].operation # "remove"
  PROVE  edits[k].value \in NewValue /\ edits[k].value \in Token
<1>1. edits[k] \in Item
  BY ElementOfSeq DEF Typed, ValidEdits
<1>2. edits[k].value # None
  BY DEF Typed, ValidEdits
<1> QED
  BY <1>1, <1>2, TokensTyped DEF Item

LEMMA NewTextTyped ==
  ASSUME Typed, NEW k \in 1 .. Len(edits), edits[k].operation = "add"
  PROVE  /\ NewText(k) \in Seq(Token) /\ NeedsComma \in Seq(Token)
         /\ NeedsComma ++ NewText(k) \in Seq(Token)
         /\ kind = "object" => edits[k].path \in NewKey
         /\ kind = "array" => edits[k].path \in {count + 1, AtEnd}
<1>1. edits[k] \in Item
  BY ElementOfSeq DEF Typed, ValidEdits
<1>2. edits[k].path \in Spot /\ edits[k].path \notin 1 .. count
  BY <1>1 DEF Item, Typed, ValidEdits
<1>3. /\ kind = "object" => edits[k].path \in NewKey
      /\ kind = "array" => edits[k].path \in {count + 1, AtEnd}
  BY <1>2 DEF Spot
<1>4. edits[k].value \in Token
  BY NewValueTyped
<1>5. NewText(k) \in Seq(Token)
  <2>1. CASE kind = "object"
    <3> DEFINE a == Key(edits[k].path)
               b == Colon
               c == edits[k].value
    <3>1. a \in Token /\ b \in Token /\ c \in Token
      BY <1>3, <1>4, <2>1, TokensTyped
    <3> HIDE DEF a, b, c
    <3>2. <<a, b, c>> \in Seq(Token)
      BY <3>1
    <3> QED
      BY <2>1, <3>2 DEF NewText, a, b, c
  <2>2. CASE kind # "object"
    BY <1>4, <2>2, OneTyped DEF NewText
  <2> QED
    BY <2>1, <2>2
<1>6. NeedsComma \in Seq(Token)
  BY TokensTyped, OneTyped DEF NeedsComma
<1> QED
  BY <1>3, <1>5, <1>6, JoinTwo

LEMMA PatchTyped ==
  ASSUME Typed, NEW k \in 1 .. Len(edits)
  PROVE  /\ PatchOf(k).start \in Nat /\ PatchOf(k).end \in Nat
         /\ PatchOf(k).start <= Len(Source)
         /\ PatchOf(k).replacement \in Seq(Token)
<1>1. CASE edits[k].operation = "add"
  <2>1. /\ PatchOf(k).start = AddOffset /\ PatchOf(k).end = AddOffset
        /\ PatchOf(k).replacement = NeedsComma ++ NewText(k)
    BY <1>1, PatchIs DEF ++
  <2> QED
    BY <1>1, <2>1, AddOffsetIs, NewTextTyped, SourceEnds
<1>2. CASE edits[k].operation # "add"
  <2> DEFINE i == edits[k].path
  <2>1. /\ i \in 1 .. count /\ PatchOf(k).start \in Nat /\ PatchOf(k).end \in Nat
        /\ PatchOf(k).start < End(i)
    BY <1>2, PatchBounds
  <2>2. End(i) \in Nat /\ End(i) <= AddOffset /\ AddOffset \in Nat /\ AddOffset < Len(Source)
        /\ Len(Source) \in Nat
    <3>1. End(i) \in Nat /\ End(i) <= AddOffset
      BY <2>1, MembersInOrder, AddOffsetIs
    <3>2. AddOffset \in Nat /\ AddOffset < Len(Source)
      BY AddOffsetIs
    <3>3. Len(Source) \in Nat
      BY SourceEnds, LenProperties
    <3> QED
      BY <3>1, <3>2, <3>3
  <2>3. PatchOf(k).replacement \in Seq(Token)
    <3>1. CASE edits[k].operation = "replace"
      BY <3>1, PatchIs, NewValueTyped, OneTyped
    <3>2. CASE edits[k].operation = "remove"
      <4>1. PatchOf(k).replacement = <<>>
        BY <3>2, PatchIs
      <4> QED
        BY <4>1, EmptySeq
    <3> QED
      BY <1>2, <3>1, <3>2, RankFacts
  <2> QED
    BY <2>1, <2>2, <2>3
<1> QED
  BY <1>1, <1>2

LEMMA LaidTyped ==
  ASSUME Typed
  PROVE  /\ Laid \in Seq(Seq(Token)) /\ Len(Laid) = Len(edits) /\ Len(edits) \in Nat
         /\ \A r \in 1 .. Len(edits) + 1 : Cursor(Sorted, r) \in Nat
         /\ Len(Sorted) = Len(edits)
<1>1. Len(edits) \in Nat /\ Len(Sorted) = Len(edits)
  BY LenProperties DEF Typed, ValidEdits, Sorted, Patches
<1>2. ASSUME NEW r \in 1 .. Len(edits)
      PROVE  /\ Sorted[r].start \in Nat /\ Sorted[r].end \in Nat
             /\ Sorted[r].start <= Len(Source)
             /\ Sorted[r].replacement \in Seq(Token)
  <2>1. PICK k \in 1 .. Len(edits) : Count(Rank(k)) = r
    BY EveryPlace
  <2>2. Sorted[r] = PatchOf(k)
    BY <2>1, InPlaceIs DEF Sorted
  <2> QED
    BY <2>2, PatchTyped
<1>3. ASSUME NEW r \in 1 .. Len(edits) + 1 PROVE Cursor(Sorted, r) \in Nat
  <2>1. r # 1 => r - 1 \in 1 .. Len(edits)
    BY <1>1
  <2> QED
    BY <1>2, <2>1 DEF Cursor
<1>4. ASSUME NEW r \in 1 .. Len(edits)
      PROVE  Quote(Source, Cursor(Sorted, r), Sorted[r].start) ++ Sorted[r].replacement
               \in Seq(Token)
  <2> DEFINE a == Quote(Source, Cursor(Sorted, r), Sorted[r].start)
             b == Sorted[r].replacement
  <2>1. a \in Seq(Token)
    <3>1. Cursor(Sorted, r) \in Nat /\ Sorted[r].start \in Int /\ Sorted[r].start <= Len(Source)
      BY <1>1, <1>2, <1>3
    <3>2. Source \in Seq(Token)
      BY SourceEnds
    <3> QED
      BY <3>1, <3>2, QuoteIsASeq
  <2>2. b \in Seq(Token)
    BY <1>2
  <2> HIDE DEF a, b
  <2>3. a ++ b \in Seq(Token)
    BY <2>1, <2>2, JoinTwo
  <2> QED
    BY <2>3 DEF a, b
<1> QED
  BY <1>1, <1>3, <1>4 DEF Laid

LEMMA LaidNext ==
  ASSUME Typed, NEW k \in 1 .. Len(edits), NEW x \in Nat, Rank(k) = x + 1
  PROVE  /\ LaidUpto(x + 1) = LaidUpto(x)
              ++ (Quote(Source, CursorAfter(x), PatchOf(k).start) ++ PatchOf(k).replacement)
         /\ CursorAfter(x + 1) = PatchOf(k).end
<1>1. (x + 1) - 1 = x
  OBVIOUS
<1>2. Count(x + 1) = Count(x) + 1 /\ Count(x) \in Nat /\ Count(x + 1) \in 1 .. Len(edits)
  BY <1>1, CountFacts, InPlaceIs
<1>3. Sorted[Count(x + 1)] = PatchOf(k)
  BY InPlaceIs DEF Sorted
<1>4. Count(x) \in 0 .. Len(Laid) - 1
  BY <1>2, LaidTyped
<1>5. Joined(Laid, Count(x) + 1) = Joined(Laid, Count(x)) ++ Laid[Count(x) + 1]
  BY <1>4, LaidTyped, JoinedNext
<1>6. Laid[Count(x + 1)] =
        Quote(Source, CursorAfter(x), PatchOf(k).start) ++ PatchOf(k).replacement
  BY <1>2, <1>3 DEF Laid, CursorAfter
<1>7. CursorAfter(x + 1) = PatchOf(k).end
  <2>1. Count(x + 1) + 1 # 1 /\ (Count(x + 1) + 1) - 1 = Count(x + 1)
    BY <1>2
  <2> QED
    BY <1>3, <2>1 DEF CursorAfter, Cursor
<1> QED
  BY <1>2, <1>5, <1>6, <1>7 DEF LaidUpto

LEMMA LaidSame ==
  ASSUME Typed, NEW x \in Nat, \A k \in 1 .. Len(edits) : Rank(k) # x + 1
  PROVE  LaidUpto(x + 1) = LaidUpto(x) /\ CursorAfter(x + 1) = CursorAfter(x)
BY CountFacts DEF LaidUpto, CursorAfter

LEMMA LaidUptoTyped ==
  ASSUME Typed, NEW x \in 0 .. count + Len(edits)
  PROVE  LaidUpto(x) \in Seq(Token) /\ CursorAfter(x) \in Nat
<1>1. x \in Nat /\ count + Len(edits) \in Nat /\ x <= count + Len(edits)
  BY CellsTyped, LaidTyped
<1>2. Count(x) \in 0 .. Len(edits)
  BY <1>1, CountFacts
<1>3. Joined(Laid, Count(x)) \in Seq(Token)
  BY <1>2, LaidTyped, JoinedIsASeq
<1>4. Count(x) + 1 \in 1 .. Len(edits) + 1
  BY <1>2, LaidTyped
<1> QED
  BY <1>3, <1>4, LaidTyped DEF LaidUpto, CursorAfter

\* Up to where the source is settled by the patches of the first i members.
Gone(i) == Edited(i, "remove")
LastKept(i) == i = count \/ (i = count - 1 /\ Gone(count))
Boundary(i) ==
  CASE i = count -> AddOffset
    [] i = count - 1 /\ i > 0 /\ Gone(count) -> End(i)
    [] OTHER -> MemberStart(i + 1)

\* What becomes of a member.
Block(i) ==
  IF Gone(i) THEN <<>>
  ELSE (Lead(i) ++ <<ValueOf(i)>>) ++ (IF LastKept(i) THEN <<>> ELSE Gap(i))
Blocks == [i \in 1 .. count |-> Block(i)]

LEMMA BoundaryTyped ==
  ASSUME Typed, NEW i \in 0 .. count
  PROVE  Boundary(i) \in Nat /\ Boundary(i) <= AddOffset
<1>1. count \in Nat /\ AddOffset \in Nat
  BY SourceEnds, AddOffsetIs
<1>2. CASE i = count
  BY <1>1, <1>2 DEF Boundary
<1>3. CASE i # count
  <2>1. i + 1 \in 1 .. count /\ (i > 0 => i \in 1 .. count)
    BY <1>1, <1>3
  <2>2. /\ MemberStart(i + 1) \in Nat /\ End(i + 1) \in Nat /\ MemberStart(i + 1) < End(i + 1)
        /\ End(i + 1) <= AddOffset
    BY <2>1, MembersInOrder, AddOffsetIs
  <2>3. i > 0 => End(i) \in Nat /\ End(i) <= AddOffset
    BY <2>1, MembersInOrder, AddOffsetIs
  <2>4. Boundary(i) = MemberStart(i + 1) \/ (i > 0 /\ Boundary(i) = End(i))
    BY <1>3 DEF Boundary
  <2> QED
    BY <1>1, <2>2, <2>3, <2>4
<1> QED
  BY <1>2, <1>3

LEMMA BoundaryKept ==
  ASSUME Typed, NEW i \in 1 .. count, ~Gone(i)
  PROVE  /\ Boundary(i - 1) = MemberStart(i)
         /\ MemberStart(i) <= Start(i) /\ End(i) = Start(i) + 1 /\ End(i) <= Boundary(i)
         /\ MemberStart(i) \in Nat /\ Start(i) \in Nat /\ End(i) \in Nat /\ Boundary(i) \in Nat
         /\ Boundary(i) <= Len(Source) /\ Len(Source) \in Nat
         /\ Quote(Source, End(i), Boundary(i)) = IF LastKept(i) THEN <<>> ELSE Gap(i)
<1>1. count \in Nat /\ i - 1 \in 0 .. count /\ i \in 0 .. count /\ i - 1 # count /\ (i - 1) + 1 = i
  BY SourceEnds
<1>2. Boundary(i - 1) = MemberStart(i)
  <2>1. ~(i - 1 = count - 1 /\ Gone(count))
    BY <1>1
  <2> QED
    BY <1>1, <2>1 DEF Boundary
<1>3. /\ Boundary(i) \in Nat /\ Boundary(i) <= AddOffset /\ AddOffset < Len(Source)
      /\ Len(Source) \in Nat /\ AddOffset \in Nat
  BY <1>1, BoundaryTyped, AddOffsetIs, SourceEnds
<1>4. /\ MemberStart(i) \in Nat /\ End(i) \in Nat /\ MemberStart(i) < End(i)
      /\ End(i) <= MemberStart(i + 1) /\ End(i) <= AddOffset
      /\ Start(i) = MemberStart(i) + Len(Lead(i)) /\ End(i) = Start(i) + 1
      /\ Len(Lead(i)) \in Nat
  BY MembersInOrder, AddOffsetIs, QuoteMember, NextStart
<1>5. CASE LastKept(i)
  <2>1. Boundary(i) = End(i)
    BY <1>1, <1>5 DEF Boundary, LastKept, AddOffset
  <2>2. Quote(Source, End(i), End(i)) = <<>>
    BY <1>4, QuoteNone
  <2> QED
    BY <1>2, <1>3, <1>4, <1>5, <2>1, <2>2
<1>6. CASE ~LastKept(i)
  <2>1. Boundary(i) = MemberStart(i + 1)
    BY <1>6 DEF Boundary, LastKept
  <2>2. Quote(Source, End(i), Boundary(i)) = Gap(i)
    BY <2>1, QuoteMember
  <2> QED
    BY <1>2, <1>3, <1>4, <1>6, <2>1, <2>2
<1> QED
  BY <1>5, <1>6

LEMMA BoundaryGone ==
  ASSUME Typed, ~BothLastRemoved, NEW k \in 1 .. Len(edits), edits[k].operation = "remove",
         NEW i, i = edits[k].path
  PROVE  PatchOf(k).start = Boundary(i - 1) /\ PatchOf(k).end = Boundary(i)
<1>1. i \in 1 .. count /\ count \in Nat /\ (i - 1) + 1 = i
  BY RankFacts
<1>2. Gone(i)
  BY DEF Gone, Edited
<1>3. CASE i < count
  <2>1. ~(i = count - 1 /\ i > 0 /\ Gone(count))
    BY <1>1, <1>2 DEF BothLastRemoved, Gone
  <2>2. Boundary(i) = MemberStart(i + 1)
    BY <1>1, <1>3, <2>1 DEF Boundary
  <2>3. Boundary(i - 1) = MemberStart(i)
    <3>1. i - 1 # count /\ i - 1 # count - 1
      BY <1>1, <1>3
    <3> QED
      BY <1>1, <3>1 DEF Boundary
  <2> QED
    BY <1>3, <2>2, <2>3, PatchIs
<1>4. CASE i = count
  <2>1. Boundary(i) = AddOffset /\ AddOffset = End(count)
    BY <1>1, <1>4 DEF Boundary, AddOffset
  <2>2. PatchOf(k).end = End(count)
        /\ PatchOf(k).start = (IF count > 1 THEN End(count - 1) ELSE MemberStart(count))
    BY <1>4, PatchIs
  <2>3. CASE count > 1
    <3>1. i - 1 # count /\ i - 1 = count - 1 /\ i - 1 > 0
      BY <1>1, <1>4, <2>3
    <3>2. Boundary(i - 1) = End(i - 1)
      BY <1>2, <1>4, <3>1 DEF Boundary
    <3> QED
      BY <1>4, <2>1, <2>2, <2>3, <3>2
  <2>4. CASE ~(count > 1)
    <3>1. i - 1 # count /\ ~(i - 1 > 0)
      BY <1>1, <1>4, <2>4
    <3>2. Boundary(i - 1) = MemberStart((i - 1) + 1)
      BY <3>1 DEF Boundary
    <3> QED
      BY <1>1, <1>4, <2>1, <2>2, <2>4, <3>2
  <2> QED
    BY <2>3, <2>4
<1> QED
  BY <1>1, <1>3, <1>4

LEMMA BlockTyped ==
  ASSUME Typed, NEW i \in 1 .. count
  PROVE  /\ Block(i) \in Seq(Token) /\ ValueOf(i) \in Token
         /\ Lead(i) ++ <<ValueOf(i)>> \in Seq(Token)
         /\ \A k \in 1 .. Len(edits) :
              edits[k].path = i =>
                /\ edits[k].operation = "replace" => ValueOf(i) = edits[k].value /\ ~Gone(i)
                /\ edits[k].operation = "remove" => Gone(i)
         /\ (\A k \in 1 .. Len(edits) : edits[k].path # i) => ValueOf(i) = Old(i) /\ ~Gone(i)
<1>1. \A k, j \in 1 .. Len(edits) : edits[k].path = i /\ edits[j].path = i => j = k
  BY DEF Typed, ValidEdits
<1>2. ASSUME NEW k \in 1 .. Len(edits), edits[k].path = i
      PROVE  /\ edits[k].operation = "replace" => ValueOf(i) = edits[k].value /\ ~Gone(i)
             /\ edits[k].operation = "remove" => Gone(i)
  <2>1. (CHOOSE j \in 1 .. Len(edits) : edits[j].path = i) = k
    BY <1>1, <1>2
  <2>2. edits[k].operation = "replace" => Edited(i, "replace") /\ ~Edited(i, "remove")
    BY <1>1, <1>2 DEF Edited
  <2> QED
    BY <1>2, <2>1, <2>2 DEF ValueOf, Gone, Edited
<1>3. (\A k \in 1 .. Len(edits) : edits[k].path # i) => ValueOf(i) = Old(i) /\ ~Gone(i)
  BY DEF ValueOf, Gone, Edited
<1>4. ValueOf(i) \in Token
  <2>1. CASE Edited(i, "replace")
    <3>1. PICK k \in 1 .. Len(edits) : edits[k].path = i /\ edits[k].operation = "replace"
      BY <2>1 DEF Edited
    <3> QED
      BY <1>2, <3>1, NewValueTyped
  <2>2. CASE ~Edited(i, "replace")
    <3>1. i \in 1 .. MaxMembers
      BY ComposeAssumption DEF Typed
    <3> QED
      BY <2>2, <3>1, TokensTyped DEF ValueOf
  <2> QED
    BY <2>1, <2>2
<1>5. Lead(i) ++ <<ValueOf(i)>> \in Seq(Token)
  BY <1>4, OneTyped, CellTyped, JoinTwo
<1>6. Block(i) \in Seq(Token)
  <2>1. (Lead(i) ++ <<ValueOf(i)>>) ++ <<>> \in Seq(Token)
    BY <1>5, EmptySeq, JoinTwo
  <2>2. (Lead(i) ++ <<ValueOf(i)>>) ++ Gap(i) \in Seq(Token)
    BY <1>5, CellTyped, JoinTwo
  <2> QED
    BY <2>1, <2>2, EmptySeq DEF Block
<1> QED
  BY <1>2, <1>3, <1>4, <1>5, <1>6

LEMMA BlocksTyped ==
  ASSUME Typed
  PROVE  Blocks \in Seq(Seq(Token)) /\ Len(Blocks) = count
<1>1. \A i \in 1 .. count : Block(i) \in Seq(Token)
  BY BlockTyped
<1>2. count \in Nat
  BY SourceEnds
<1> QED
  BY <1>1, <1>2 DEF Blocks

\* The invariant of the loop while it goes through the members.
SettledMembers(i) ==
  /\ CursorAfter(i) <= Boundary(i)
  /\ LaidUpto(i) ++ Quote(Source, CursorAfter(i), Boundary(i)) = Opening ++ Joined(Blocks, i)

LEMMA SettledNone ==
  ASSUME Typed
  PROVE  SettledMembers(0)
<1>1. LaidUpto(0) = <<>> /\ CursorAfter(0) = 0
  BY CountFacts, JoinedNone DEF LaidUpto, CursorAfter, Cursor
<1>2. Boundary(0) = MemberStart(1)
  BY AddOffsetIs DEF Boundary
<1>3. Quote(Source, 0, MemberStart(1)) = Opening /\ MemberStart(1) \in Nat
  BY QuoteEnds
<1>4. <<>> ++ Opening = Opening /\ Opening ++ <<>> = Opening
  BY CellsTyped, JoinEmpty
<1> QED
  BY <1>1, <1>2, <1>3, <1>4, JoinedNone DEF SettledMembers

LEMMA SettledNext ==
  ASSUME Typed, ~BothLastRemoved, NEW i \in 1 .. count, SettledMembers(i - 1)
  PROVE  SettledMembers(i)
<1>0. /\ count \in Nat /\ i - 1 \in 0 .. count /\ i \in 0 .. count /\ i - 1 \in Nat /\ (i - 1) + 1 = i
      /\ i - 1 \in 0 .. count + Len(edits) /\ i - 1 \in 0 .. Len(Blocks) - 1
      /\ i - 1 \in 0 .. Len(Blocks)
  BY SourceEnds, LaidTyped, BlocksTyped
<1> DEFINE a == LaidUpto(i - 1)
           c == CursorAfter(i - 1)
           b == Boundary(i - 1)
           d == Boundary(i)
           g == Opening ++ Joined(Blocks, i - 1)
<1>1. a \in Seq(Token) /\ c \in Nat /\ b \in Nat /\ d \in Nat /\ Source \in Seq(Token)
      /\ b <= Len(Source) /\ d <= Len(Source) /\ Len(Source) \in Nat
  BY <1>0, LaidUptoTyped, BoundaryTyped, SourceEnds, AddOffsetIs
<1>2. c <= b /\ a ++ Quote(Source, c, b) = g
  BY DEF SettledMembers
<1>3. Opening ++ Joined(Blocks, i) = g ++ Block(i) /\ g \in Seq(Token)
  <2>1. Joined(Blocks, (i - 1) + 1) = Joined(Blocks, i - 1) ++ Blocks[(i - 1) + 1]
    BY <1>0, BlocksTyped, JoinedNext
  <2>2. /\ Joined(Blocks, i - 1) \in Seq(Token) /\ Block(i) \in Seq(Token)
        /\ Opening \in Seq(Token)
    BY <1>0, BlocksTyped, BlockTyped, CellsTyped, JoinedIsASeq
  <2>3. Opening ++ (Joined(Blocks, i - 1) ++ Block(i)) = (Opening ++ Joined(Blocks, i - 1)) ++ Block(i)
    BY <2>2, Associative
  <2>4. Blocks[i] = Block(i)
    BY DEF Blocks
  <2> QED
    BY <1>0, <2>1, <2>2, <2>3, <2>4, JoinTwo
<1>4. Quote(Source, c, b) \in Seq(Token)
  BY <1>1, QuoteIsASeq
<1> HIDE DEF g
<1>5. CASE \A k \in 1 .. Len(edits) : Rank(k) # i
  <2>1. LaidUpto(i) = a /\ CursorAfter(i) = c
    BY <1>0, <1>5, LaidSame
  <2>2. \A k \in 1 .. Len(edits) : edits[k].path # i
    BY <1>5 DEF Rank
  <2>3. ~Gone(i) /\ ValueOf(i) = Old(i)
    BY <2>2, BlockTyped
  <2>4. /\ b = MemberStart(i) /\ b <= End(i) /\ End(i) \in Nat /\ End(i) <= d
        /\ Quote(Source, End(i), d) = IF LastKept(i) THEN <<>> ELSE Gap(i)
    BY <2>3, BoundaryKept
  <2>5. Quote(Source, b, End(i)) = Lead(i) ++ <<ValueOf(i)>>
    BY <2>3, <2>4, QuoteMember
  <2>6. Quote(Source, b, d) = Block(i)
    <3>1. Quote(Source, b, End(i)) ++ Quote(Source, End(i), d) = Quote(Source, b, d)
      <4>1. b \in 0 .. Len(Source) /\ End(i) \in b .. Len(Source) /\ d \in End(i) .. Len(Source)
        BY <1>1, <2>4
      <4> HIDE DEF b, d
      <4> QED
        BY <1>1, <4>1, QuoteJoin
    <3> QED
      BY <2>3, <2>4, <2>5, <3>1 DEF Block
  <2>7. Quote(Source, c, b) ++ Quote(Source, b, d) = Quote(Source, c, d) /\ c <= d
    <3>1. c \in 0 .. Len(Source) /\ b \in c .. Len(Source) /\ d \in b .. Len(Source) /\ c <= d
      BY <1>1, <1>2, <2>4
    <3> HIDE DEF b, c, d
    <3> QED
      BY <1>1, <3>1, QuoteJoin
  <2>8. a ++ (Quote(Source, c, b) ++ Quote(Source, b, d)) = g ++ Block(i)
    <3> DEFINE q == Quote(Source, c, b)
               r == Quote(Source, b, d)
    <3>1. q \in Seq(Token) /\ r \in Seq(Token) /\ a ++ q = g /\ r = Block(i)
      BY <1>2, <1>4, <2>6, BlockTyped
    <3> HIDE DEF q, r, a
    <3>2. a ++ (q ++ r) = (a ++ q) ++ r
      BY <1>1, <3>1, Associative
    <3> QED
      BY <3>1, <3>2 DEF q, r
  <2> QED
    BY <1>3, <2>1, <2>7, <2>8 DEF SettledMembers
<1>6. ASSUME NEW k \in 1 .. Len(edits), Rank(k) = i
      PROVE  SettledMembers(i)
  <2>1. edits[k].operation # "add" /\ edits[k].path = i /\ edits[k].operation \in {"replace", "remove"}
    <3>1. edits[k].operation = "add" => Rank(k) = count + k /\ k \in Nat /\ k > 0
      BY RankFacts
    <3>2. edits[k].operation # "add"
      BY <1>0, <1>6, <3>1
    <3> QED
      BY <1>6, <3>2, RankFacts
  <2>2. /\ LaidUpto(i) = a ++ (Quote(Source, c, PatchOf(k).start) ++ PatchOf(k).replacement)
        /\ CursorAfter(i) = PatchOf(k).end
    <3>1. Rank(k) = (i - 1) + 1
      BY <1>0, <1>6
    <3>2. /\ LaidUpto((i - 1) + 1) = a ++ (Quote(Source, c, PatchOf(k).start) ++ PatchOf(k).replacement)
          /\ CursorAfter((i - 1) + 1) = PatchOf(k).end
      BY <1>0, <3>1, LaidNext
    <3> QED
      BY <1>0, <3>2
  <2>3. CASE edits[k].operation = "remove"
    <3>1. PatchOf(k).start = b /\ PatchOf(k).end = d /\ PatchOf(k).replacement = <<>>
      BY <2>1, <2>3, BoundaryGone, PatchIs
    <3>2. Block(i) = <<>>
      BY <2>1, <2>3, BlockTyped DEF Block
    <3>3. Quote(Source, d, d) = <<>>
      BY <1>1, QuoteNone
    <3>4. Quote(Source, c, b) ++ <<>> = Quote(Source, c, b) /\ g ++ <<>> = g
      BY <1>3, <1>4, JoinEmpty
    <3> QED
      BY <1>1, <1>2, <1>3, <2>2, <3>1, <3>2, <3>3, <3>4 DEF SettledMembers
  <2>4. CASE edits[k].operation = "replace"
    <3>1. PatchOf(k).start = Start(i) /\ PatchOf(k).end = End(i)
          /\ PatchOf(k).replacement = <<ValueOf(i)>> /\ ~Gone(i)
      BY <2>1, <2>4, PatchIs, BlockTyped
    <3>2. /\ b = MemberStart(i) /\ b <= Start(i) /\ Start(i) \in Nat /\ End(i) \in Nat
          /\ End(i) = Start(i) + 1 /\ End(i) <= d
          /\ Quote(Source, End(i), d) = IF LastKept(i) THEN <<>> ELSE Gap(i)
      BY <3>1, BoundaryKept
    <3>3. Quote(Source, b, Start(i)) = Lead(i)
      BY <3>2, QuoteMember
    <3>4. Quote(Source, c, b) ++ Quote(Source, b, Start(i)) = Quote(Source, c, Start(i))
      <4>1. c \in 0 .. Len(Source) /\ b \in c .. Len(Source) /\ Start(i) \in b .. Len(Source)
        BY <1>1, <1>2, <3>2
      <4> HIDE DEF b, c
      <4> QED
        BY <1>1, <4>1, QuoteJoin
    <3> DEFINE q == Quote(Source, c, b)
               l == Lead(i)
               v == <<ValueOf(i)>>
               r == Quote(Source, End(i), d)
    <3>5. /\ q \in Seq(Token) /\ l \in Seq(Token) /\ v \in Seq(Token) /\ r \in Seq(Token)
          /\ Block(i) = (l ++ v) ++ r /\ a ++ q = g
      <4>1. r \in Seq(Token)
        BY <1>1, <3>2, QuoteIsASeq
      <4> QED
        BY <1>2, <1>4, <3>1, <3>2, <4>1, CellTyped, BlockTyped, OneTyped DEF Block
    <3>6. LaidUpto(i) = a ++ ((q ++ l) ++ v)
      BY <2>2, <3>1, <3>3, <3>4
    <3>7. LaidUpto(i) ++ r = g ++ Block(i)
      <4> HIDE DEF a, q, l, v, r
      <4>1. l ++ v \in Seq(Token)
        BY <3>5, JoinTwo
      <4>2. (q ++ l) ++ v = q ++ (l ++ v)
        BY <3>5, Associative
      <4>3. a ++ (q ++ (l ++ v)) = (a ++ q) ++ (l ++ v)
        BY <1>1, <3>5, <4>1, Associative
      <4>4. (g ++ (l ++ v)) ++ r = g ++ ((l ++ v) ++ r)
        BY <1>3, <3>5, <4>1, Associative
      <4> QED
        BY <3>5, <3>6, <4>2, <4>3, <4>4
    <3> QED
      BY <1>3, <2>2, <3>1, <3>2, <3>7 DEF SettledMembers
  <2> QED
    BY <2>1, <2>3, <2>4
<1> QED
  BY <1>5, <1>6

LEMMA AllMembersSettled ==
  ASSUME Typed, ~BothLastRemoved
  PROVE  SettledMembers(count)
<1> DEFINE S == {i \in Nat : i <= count => SettledMembers(i)}
<1>1. 0 \in S
  BY SettledNone
<1>2. \A i \in Nat : i \in S => i + 1 \in S
  <2> SUFFICES ASSUME NEW i \in S, i + 1 <= count
               PROVE  SettledMembers(i + 1)
    OBVIOUS
  <2>1. i + 1 \in 1 .. count /\ (i + 1) - 1 = i /\ SettledMembers(i)
    BY SourceEnds
  <2>2. SettledMembers((i + 1) - 1)
    BY <2>1
  <2> QED
    BY <2>1, <2>2, SettledNext
<1>3. Nat \subseteq S
  <2> HIDE DEF S
  <2> QED
    BY <1>1, <1>2, NatInduct
<1> QED
  BY <1>3, SourceEnds

\* What the items that add put in, in the order of the proposal.
Push(k) == IF edits[k].operation = "add" THEN NeedsComma ++ NewText(k) ELSE <<>>
Pushes == [k \in 1 .. Len(edits) |-> Push(k)]

LEMMA PushesTyped ==
  ASSUME Typed
  PROVE  Pushes \in Seq(Seq(Token)) /\ Len(Pushes) = Len(edits) /\ Len(edits) \in Nat
<1>1. \A k \in 1 .. Len(edits) : Push(k) \in Seq(Token)
  BY NewTextTyped, EmptySeq DEF Push
<1>2. Len(edits) \in Nat
  BY LaidTyped
<1> QED
  BY <1>1, <1>2 DEF Pushes

SettledAdds(k) ==
  /\ CursorAfter(count + k) <= AddOffset
  /\ LaidUpto(count + k) ++ Quote(Source, CursorAfter(count + k), AddOffset)
       = (Opening ++ Joined(Blocks, count)) ++ Joined(Pushes, k)

LEMMA MiddleTyped ==
  ASSUME Typed, NEW i \in 0 .. count
  PROVE  Opening ++ Joined(Blocks, i) \in Seq(Token) /\ Joined(Blocks, i) \in Seq(Token)
<1>1. Joined(Blocks, i) \in Seq(Token)
  BY BlocksTyped, JoinedIsASeq
<1> QED
  BY <1>1, CellsTyped, JoinTwo

LEMMA SettledAddsNext ==
  ASSUME Typed, NEW k \in 1 .. Len(edits), SettledAdds(k - 1)
  PROVE  SettledAdds(k)
<1> DEFINE x == count + (k - 1)
           g == (Opening ++ Joined(Blocks, count)) ++ Joined(Pushes, k - 1)
           a == LaidUpto(x)
           c == CursorAfter(x)
<1>0. /\ count \in Nat /\ k \in Nat /\ x + 1 = count + k /\ x \in Nat /\ x \in 0 .. count + Len(edits)
      /\ k - 1 \in 0 .. Len(Pushes) - 1 /\ k - 1 \in 0 .. Len(Pushes) /\ (k - 1) + 1 = k
      /\ count \in 0 .. count
  <2>1. count \in Nat /\ Len(edits) \in Nat /\ Len(Pushes) = Len(edits)
    BY SourceEnds, PushesTyped
  <2> QED
    BY <2>1
<1>1. a \in Seq(Token) /\ c \in Nat /\ Source \in Seq(Token) /\ AddOffset \in Nat
      /\ AddOffset <= Len(Source)
  <2>1. a \in Seq(Token) /\ c \in Nat
    BY <1>0, LaidUptoTyped
  <2> QED
    BY <2>1, AddOffsetIs, SourceEnds
<1>2. c <= AddOffset /\ a ++ Quote(Source, c, AddOffset) = g
  BY DEF SettledAdds
<1>3. (Opening ++ Joined(Blocks, count)) ++ Joined(Pushes, k) = g ++ Push(k) /\ g \in Seq(Token)
      /\ Push(k) \in Seq(Token)
  <2>1. Joined(Pushes, (k - 1) + 1) = Joined(Pushes, k - 1) ++ Pushes[(k - 1) + 1]
    BY <1>0, PushesTyped, JoinedNext
  <2> DEFINE y == Opening ++ Joined(Blocks, count)
             z == Joined(Pushes, k - 1)
  <2>2. y \in Seq(Token) /\ z \in Seq(Token) /\ Push(k) \in Seq(Token)
    <3>1. Joined(Pushes, k - 1) \in Seq(Token)
      BY <1>0, PushesTyped, JoinedIsASeq
    <3>2. Push(k) \in Seq(Token)
      BY NewTextTyped, EmptySeq DEF Push
    <3> QED
      BY <1>0, <3>1, <3>2, MiddleTyped
  <2>3. Pushes[k] = Push(k)
    BY DEF Pushes
  <2> HIDE DEF y, z
  <2>4. y ++ (z ++ Push(k)) = (y ++ z) ++ Push(k) /\ y ++ z \in Seq(Token)
    BY <2>2, Associative, JoinTwo
  <2> QED
    BY <1>0, <2>1, <2>2, <2>3, <2>4 DEF y, z
<1>4. Quote(Source, c, AddOffset) \in Seq(Token)
  BY <1>1, QuoteIsASeq
<1> HIDE DEF g
<1>5. CASE edits[k].operation = "add"
  <2>1. Rank(k) = x + 1
    BY <1>0, <1>5, RankFacts
  <2>2. /\ LaidUpto(x + 1) = a ++ (Quote(Source, c, PatchOf(k).start) ++ PatchOf(k).replacement)
        /\ CursorAfter(x + 1) = PatchOf(k).end
    <3> HIDE DEF x
    <3> QED
      BY <1>0, <2>1, LaidNext
  <2>3. PatchOf(k).start = AddOffset /\ PatchOf(k).end = AddOffset
        /\ PatchOf(k).replacement = Push(k)
    BY <1>5, PatchIs DEF Push, ++
  <2> DEFINE q == Quote(Source, c, AddOffset)
  <2>4. a ++ (q ++ Push(k)) = g ++ Push(k)
    <3>1. q \in Seq(Token) /\ a ++ q = g
      BY <1>2, <1>4
    <3> HIDE DEF q, a
    <3>2. a ++ (q ++ Push(k)) = (a ++ q) ++ Push(k)
      BY <1>1, <1>3, <3>1, Associative
    <3> QED
      BY <3>1, <3>2
  <2>5. Quote(Source, AddOffset, AddOffset) = <<>>
    BY <1>1, QuoteNone
  <2>6. (g ++ Push(k)) ++ <<>> = g ++ Push(k)
    <3>1. g ++ Push(k) \in Seq(Token)
      BY <1>3, JoinTwo
    <3> QED
      BY <3>1, JoinEmpty
  <2> QED
    BY <1>0, <1>1, <1>3, <2>2, <2>3, <2>4, <2>5, <2>6 DEF SettledAdds
<1>6. CASE edits[k].operation # "add"
  <2>1. ASSUME NEW j \in 1 .. Len(edits) PROVE Rank(j) # x + 1
    <3>1. j \in Nat /\ (edits[j].operation = "add" => Rank(j) = count + j)
          /\ (edits[j].operation # "add" => Rank(j) <= count)
      BY RankFacts
    <3> QED
      BY <1>0, <1>6, <3>1
  <2>2. LaidUpto(x + 1) = a /\ CursorAfter(x + 1) = c
    <3> HIDE DEF x
    <3> QED
      BY <1>0, <2>1, LaidSame
  <2>3. Push(k) = <<>> /\ g ++ <<>> = g
    BY <1>3, <1>6, JoinEmpty DEF Push
  <2> QED
    BY <1>0, <1>2, <1>3, <2>2, <2>3 DEF SettledAdds
<1> QED
  BY <1>5, <1>6

LEMMA AllAddsSettled ==
  ASSUME Typed, ~BothLastRemoved
  PROVE  SettledAdds(Len(edits))
<1> DEFINE S == {k \in Nat : k <= Len(edits) => SettledAdds(k)}
<1>1. 0 \in S
  <2>1. count + 0 = count /\ count \in 0 .. count /\ Boundary(count) = AddOffset
    BY SourceEnds DEF Boundary
  <2>2. (Opening ++ Joined(Blocks, count)) ++ <<>> = Opening ++ Joined(Blocks, count)
    BY <2>1, MiddleTyped, JoinEmpty
  <2> QED
    BY <2>1, <2>2, AllMembersSettled, JoinedNone DEF SettledMembers, SettledAdds
<1>2. \A k \in Nat : k \in S => k + 1 \in S
  <2> SUFFICES ASSUME NEW k \in S, k + 1 <= Len(edits)
               PROVE  SettledAdds(k + 1)
    OBVIOUS
  <2>1. k + 1 \in 1 .. Len(edits) /\ (k + 1) - 1 = k /\ SettledAdds(k)
    BY LaidTyped
  <2>2. SettledAdds((k + 1) - 1)
    BY <2>1
  <2> QED
    BY <2>1, <2>2, SettledAddsNext
<1>3. Nat \subseteq S
  <2> HIDE DEF S
  <2> QED
    BY <1>1, <1>2, NatInduct
<1> QED
  BY <1>3, LaidTyped

Closing == (IF count = 0 THEN <<>> ELSE Spaces) ++ <<Close>>

\* What compose makes of the edits.
LEMMA ComposedText ==
  ASSUME Typed
  PROVE  /\ BothLastRemoved => Compose(edits) = <<>>
         /\ ~BothLastRemoved =>
              Compose(edits) = ((Opening ++ Joined(Blocks, count))
                                  ++ Joined(Pushes, Len(edits))) ++ Closing
<1>1. ASSUME BothLastRemoved PROVE Compose(edits) = <<>>
  BY <1>1, OverlapIs DEF Compose
<1>2. ASSUME ~BothLastRemoved
      PROVE  Compose(edits) = ((Opening ++ Joined(Blocks, count))
                                 ++ Joined(Pushes, Len(edits))) ++ Closing
  <2>1. Compose(edits) = Patched(Sorted)
    <3>1. ~\E k \in 1 .. Len(edits) : NoPatch(edits[k])
      BY DEF Typed, ValidEdits
    <3> QED
      BY <1>2, <3>1, OverlapIs DEF Compose, Sorted
  <2> DEFINE m == Len(edits)
             c == Cursor(Sorted, m + 1)
             a == Joined(Laid, m)
  <2>2. Patched(Sorted) = a ++ Quote(Source, c, Len(Source))
    <3>1. \A r \in 1 .. m :
            SubSeq(Source, Cursor(Sorted, r) + 1, Sorted[r].start) \o Sorted[r].replacement = Laid[r]
      BY DEF Laid, Quote, ++
    <3>2. [r \in 1 .. m |->
             SubSeq(Source, Cursor(Sorted, r) + 1, Sorted[r].start) \o Sorted[r].replacement]
          = [r \in 1 .. m |-> Laid[r]]
      BY <3>1
    <3> QED
      BY <3>2, LaidTyped DEF Patched, Joined, Quote, ++
  <2>3. LaidUpto(count + m) = a /\ CursorAfter(count + m) = c
    BY CountFacts DEF LaidUpto, CursorAfter
  <2>4. c <= AddOffset /\ a ++ Quote(Source, c, AddOffset)
          = (Opening ++ Joined(Blocks, count)) ++ Joined(Pushes, m)
    BY <1>2, <2>3, AllAddsSettled DEF SettledAdds
  <2>5. /\ a \in Seq(Token) /\ c \in Nat /\ AddOffset \in Nat /\ AddOffset < Len(Source)
        /\ Source \in Seq(Token) /\ Len(Source) \in Nat
    BY LaidTyped, JoinedIsASeq, AddOffsetIs, SourceEnds
  <2>6. Quote(Source, c, AddOffset) ++ Quote(Source, AddOffset, Len(Source))
          = Quote(Source, c, Len(Source))
    <3>1. c \in 0 .. Len(Source) /\ AddOffset \in c .. Len(Source)
          /\ Len(Source) \in AddOffset .. Len(Source)
      BY <2>4, <2>5
    <3> HIDE DEF c
    <3> QED
      BY <2>5, <3>1, QuoteJoin
  <2>7. Quote(Source, AddOffset, Len(Source)) = Closing
    BY QuoteEnds DEF Closing
  <2> DEFINE q == Quote(Source, c, AddOffset)
             r == Quote(Source, AddOffset, Len(Source))
  <2>8. q \in Seq(Token) /\ r \in Seq(Token)
    <3>1. /\ Source \in Seq(Token) /\ c \in Nat /\ AddOffset \in Nat /\ AddOffset \in Int
          /\ AddOffset <= Len(Source) /\ Len(Source) \in Int /\ Len(Source) <= Len(Source)
      BY <2>5
    <3> HIDE DEF c
    <3>2. q \in Seq(Token)
      BY <3>1, QuoteIsASeq
    <3>3. r \in Seq(Token)
      BY <3>1, QuoteIsASeq
    <3> QED
      BY <3>2, <3>3
  <2>9. a ++ (q ++ r) = (a ++ q) ++ r
    <3> HIDE DEF a, q, r
    <3> QED
      BY <2>5, <2>8, Associative
  <2> QED
    BY <2>1, <2>2, <2>4, <2>6, <2>7, <2>9
<1> QED
  BY <1>1, <1>2

-------------------------------------------------------------------------------
\* Reading a text in which no two numbers touch.
Strip == [x \in Token |-> IF x = Blank THEN <<>> ELSE <<x>>]

NoTouch(t) == \A p \in 1 .. Len(t) - 1 : ~(IsNumber(t[p]) /\ IsNumber(t[p + 1]))
Plain(t) == \A p \in 1 .. Len(t) : ~IsNumber(t[p])
EndsPlain(t) == NoTouch(t) /\ (Len(t) > 0 => ~IsNumber(t[Len(t)]))
StartsPlain(t) == NoTouch(t) /\ (Len(t) > 0 => ~IsNumber(t[1]))

LEMMA TokenKinds ==
  /\ ~IsNumber(Open) /\ ~IsNumber(Close) /\ ~IsNumber(Blank) /\ ~IsNumber(Comma)
  /\ ~IsNumber(Colon) /\ \A k : ~IsNumber(Key(k)) /\ Key(k)[1] = "key" /\ Key(k)[2] = k
  /\ Open # Blank /\ Close # Blank /\ Comma # Blank /\ Colon # Blank
  /\ \A k : Key(k) # Blank /\ Key(k) # Comma
  /\ Comma[1] # "key" /\ ~IsValue(Comma)
<1>1. /\ Open[1] = "open" /\ Close[1] = "close" /\ Blank[1] = "space" /\ Comma[1] = ","
      /\ Colon[1] = ":" /\ \A k : Key(k)[1] = "key" /\ Key(k)[2] = k
  BY DEF Open, Close, Blank, Comma, Colon, Key
<1> QED
  BY <1>1 DEF IsNumber, IsValue

LEMMA ValueKinds ==
  ASSUME NEW v \in {"number", "string"} \X Seq(Nat)
  PROVE  v # Blank /\ IsValue(v) /\ v[2] \in Seq(Nat) /\ v = <<v[1], v[2]>>
<1>1. v[1] \in {"number", "string"} /\ v[2] \in Seq(Nat) /\ v = <<v[1], v[2]>>
  OBVIOUS
<1>2. Blank[1] = "space"
  BY DEF Blank
<1> QED
  BY <1>1, <1>2 DEF IsValue

LEMMA NumberIs ==
  ASSUME NEW v \in Token, IsNumber(v)
  PROVE  v # Blank /\ v[2] \in Seq(Nat) /\ Number(v[2]) = v
<1>1. v \in {"number", "string"} \X Seq(Nat)
  BY TokenKinds DEF Token
<1>2. v # Blank /\ v[2] \in Seq(Nat) /\ v = <<v[1], v[2]>>
  BY <1>1, ValueKinds
<1> QED
  BY <1>2 DEF Number, IsNumber

LEMMA ReadAtIs ==
  ASSUME NEW t \in Seq(Token), NoTouch(t), NEW p \in 1 .. Len(t)
  PROVE  ReadAt(t, p) = Strip[t[p]]
<1>0. t[p] \in Token /\ Len(t) \in Nat
  BY ElementOfSeq, LenProperties
<1>1. CASE t[p] = Blank
  <2>1. ~IsNumber(t[p])
    BY <1>1, TokenKinds
  <2> QED
    BY <1>0, <1>1, <2>1 DEF ReadAt, Strip, Blank
<1>2. CASE IsNumber(t[p])
  <2>1. t[p] # Blank /\ t[p][2] \in Seq(Nat) /\ Number(t[p][2]) = t[p]
    BY <1>0, <1>2, NumberIs
  <2>2. ~(p > 1 /\ IsNumber(t[p - 1]))
    <3> SUFFICES ASSUME p > 1, IsNumber(t[p - 1]) PROVE FALSE
      OBVIOUS
    <3>1. p - 1 \in 1 .. Len(t) - 1 /\ (p - 1) + 1 = p
      BY <1>0
    <3> QED
      BY <1>2, <3>1 DEF NoTouch
  <2>3. Touching(t, p) = {p}
    <3>1. ASSUME NEW q \in Touching(t, p) PROVE q = p
      <4> SUFFICES ASSUME q # p PROVE FALSE
        OBVIOUS
      <4>1. q \in p .. Len(t) /\ p + 1 \in p .. q /\ p \in 1 .. Len(t) - 1
        BY <1>0 DEF Touching
      <4>2. IsNumber(t[p + 1])
        BY <4>1 DEF Touching
      <4> QED
        BY <1>2, <4>1, <4>2 DEF NoTouch
    <3>2. p \in Touching(t, p)
      <4>1. p \in p .. Len(t) /\ \A r \in p .. p : r = p
        BY <1>0
      <4> QED
        BY <1>2, <4>1 DEF Touching
    <3> QED
      BY <3>1, <3>2
  <2>4. Cardinality(Touching(t, p)) = 1
    BY <2>3, FS_Singleton
  <2> DEFINE d == t[p][2]
             s == [r \in 1 .. 1 |-> t[p + r - 1][2]]
  <2>5. FlattenSeq(s) = d
    <3>1. s[1] = d
      <4>1. p + 1 - 1 = p
        BY <1>0
      <4> QED
        BY <4>1
    <3>2. s = [r \in 1 .. 1 |-> d]
      BY <3>1
    <3>3. d \in Seq(Nat)
      BY <2>1
    <3> DEFINE u == [r \in 1 .. 1 |-> d]
    <3> HIDE DEF d
    <3>4. u \in Seq(Seq(Nat)) /\ Len(u) = 1 /\ u[1] = d /\ 1 \in 1 .. Len(u)
          /\ \A r \in 1 .. Len(u) : r # 1 => u[r] = <<>>
      BY <3>3
    <3>5. FlattenSeq(u) = Joined(u, Len(u))
      <4> HIDE DEF u
      <4> QED
        BY <3>4, JoinedAll
    <3>6. Joined(u, Len(u)) = u[1]
      <4> HIDE DEF u
      <4> QED
        BY <3>4, OnePiece
    <3>7. s = u
      BY <3>2
    <3> HIDE DEF s, u
    <3> QED
      BY <3>4, <3>5, <3>6, <3>7
  <2>6. ReadAt(t, p) = <<Number(FlattenSeq(s))>>
    BY <1>2, <2>1, <2>2, <2>4 DEF ReadAt, Blank
  <2> HIDE DEF s
  <2> QED
    BY <1>0, <2>1, <2>5, <2>6 DEF Strip
<1>3. CASE t[p] # Blank /\ ~IsNumber(t[p])
  BY <1>0, <1>3 DEF ReadAt, Strip, Blank
<1> QED
  BY <1>1, <1>2, <1>3

LEMMA StripTyped == Strip \in [Token -> Seq(Token)]
BY OneTyped DEF Strip

LEMMA TokensIs ==
  ASSUME NEW t \in Seq(Token), NoTouch(t)
  PROVE  Tokens(t) = Mapped(Strip, t)
<1>1. [p \in 1 .. Len(t) |-> ReadAt(t, p)] = [p \in 1 .. Len(t) |-> Strip[t[p]]]
  BY ReadAtIs
<1> DEFINE s == [p \in 1 .. Len(t) |-> Strip[t[p]]]
<1>2. s \in Seq(Seq(Token)) /\ Len(s) = Len(t)
  BY StripTyped, MappedPieces
<1>3. Tokens(t) = FlattenSeq(s)
  BY <1>1 DEF Tokens
<1>4. FlattenSeq(s) = Joined(s, Len(s))
  <2> HIDE DEF s
  <2> QED
    BY <1>2, JoinedAll
<1> QED
  BY <1>2, <1>3, <1>4 DEF Mapped

LEMMA TouchJoin ==
  ASSUME NEW s \in Seq(Token), NEW t \in Seq(Token), NoTouch(s), NoTouch(t),
         EndsPlain(s) \/ StartsPlain(t)
  PROVE  /\ NoTouch(s ++ t)
         /\ EndsPlain(t) /\ (EndsPlain(s) \/ Len(t) > 0) => EndsPlain(s ++ t)
         /\ StartsPlain(s) /\ (StartsPlain(t) \/ Len(s) > 0) => StartsPlain(s ++ t)
<1>1. s ++ t \in Seq(Token) /\ Len(s ++ t) = Len(s) + Len(t) /\ Len(s) \in Nat /\ Len(t) \in Nat
  BY JoinTwo, LenProperties
<1>2. \A p \in 1 .. Len(s) : (s ++ t)[p] = s[p]
  BY JoinLeft
<1>3. \A p \in 1 .. Len(t) : (s ++ t)[Len(s) + p] = t[p]
  BY JoinRight
<1>4. NoTouch(s ++ t)
  <2> SUFFICES ASSUME NEW p \in 1 .. Len(s ++ t) - 1,
                      IsNumber((s ++ t)[p]), IsNumber((s ++ t)[p + 1])
               PROVE  FALSE
    BY DEF NoTouch
  <2>1. CASE p < Len(s)
    <3>1. p \in 1 .. Len(s) - 1 /\ p \in 1 .. Len(s) /\ p + 1 \in 1 .. Len(s)
      BY <1>1, <2>1
    <3> QED
      BY <1>2, <3>1 DEF NoTouch
  <2>2. CASE p = Len(s)
    <3>1. p \in 1 .. Len(s) /\ 1 \in 1 .. Len(t) /\ Len(s) > 0 /\ Len(t) > 0
      BY <1>1, <2>2
    <3>2. IsNumber(s[Len(s)]) /\ IsNumber(t[1])
      BY <1>2, <1>3, <2>2, <3>1
    <3> QED
      BY <3>1, <3>2 DEF EndsPlain, StartsPlain
  <2>3. CASE p > Len(s)
    <3> DEFINE q == p - Len(s)
    <3>1. q \in 1 .. Len(t) - 1 /\ q \in 1 .. Len(t) /\ q + 1 \in 1 .. Len(t)
          /\ Len(s) + q = p /\ Len(s) + (q + 1) = p + 1
      BY <1>1, <2>3
    <3> HIDE DEF q
    <3>2. (s ++ t)[Len(s) + q] = t[q] /\ (s ++ t)[Len(s) + (q + 1)] = t[q + 1]
      BY <1>3, <3>1
    <3> QED
      BY <3>1, <3>2 DEF NoTouch
  <2> QED
    BY <1>1, <2>1, <2>2, <2>3
<1>5. EndsPlain(t) /\ (EndsPlain(s) \/ Len(t) > 0) => EndsPlain(s ++ t)
  <2> SUFFICES ASSUME EndsPlain(t), EndsPlain(s) \/ Len(t) > 0, Len(s ++ t) > 0
               PROVE  ~IsNumber((s ++ t)[Len(s ++ t)])
    BY <1>4 DEF EndsPlain
  <2>1. CASE Len(t) > 0
    <3>1. Len(t) \in 1 .. Len(t)
      BY <1>1, <2>1
    <3> QED
      BY <1>1, <1>3, <2>1, <3>1 DEF EndsPlain
  <2>2. CASE ~(Len(t) > 0)
    <3>1. Len(s) \in 1 .. Len(s) /\ Len(s ++ t) = Len(s) /\ Len(s) > 0
      BY <1>1, <2>2
    <3> QED
      BY <1>2, <2>2, <3>1 DEF EndsPlain
  <2> QED
    BY <2>1, <2>2
<1>6. StartsPlain(s) /\ (StartsPlain(t) \/ Len(s) > 0) => StartsPlain(s ++ t)
  <2> SUFFICES ASSUME StartsPlain(s), StartsPlain(t) \/ Len(s) > 0, Len(s ++ t) > 0
               PROVE  ~IsNumber((s ++ t)[1])
    BY <1>4 DEF StartsPlain
  <2>1. CASE Len(s) > 0
    <3>1. 1 \in 1 .. Len(s)
      BY <1>1, <2>1
    <3> QED
      BY <1>2, <2>1, <3>1 DEF StartsPlain
  <2>2. CASE ~(Len(s) > 0)
    <3>1. 1 \in 1 .. Len(t) /\ Len(s) + 1 = 1 /\ Len(t) > 0
      BY <1>1, <2>2
    <3>2. (s ++ t)[Len(s) + 1] = t[1]
      BY <1>3, <3>1
    <3> QED
      BY <2>2, <3>1, <3>2 DEF StartsPlain
  <2> QED
    BY <2>1, <2>2
<1> QED
  BY <1>4, <1>5, <1>6

LEMMA PlainIs ==
  ASSUME NEW t \in Seq(Token), Plain(t)
  PROVE  NoTouch(t) /\ EndsPlain(t) /\ StartsPlain(t)
<1>1. Len(t) \in Nat
  BY LenProperties
<1>2. \A p \in 1 .. Len(t) - 1 : p \in 1 .. Len(t)
  BY <1>1
<1>3. Len(t) > 0 => Len(t) \in 1 .. Len(t) /\ 1 \in 1 .. Len(t)
  BY <1>1
<1> QED
  BY <1>2, <1>3 DEF Plain, NoTouch, EndsPlain, StartsPlain

LEMMA PlainOne ==
  /\ \A x : ~IsNumber(x) => Plain(<<x>>)
  /\ \A x, y : ~IsNumber(x) /\ ~IsNumber(y) => Plain(<<x, y>>)
  /\ Plain(<<>>)
  /\ \A x : NoTouch(<<x>>)
BY DEF Plain, NoTouch

LEMMA PlainTwo ==
  ASSUME NEW s \in Seq(Token), NEW t \in Seq(Token), Plain(s), Plain(t)
  PROVE  Plain(s ++ t)
<1>1. Len(s ++ t) = Len(s) + Len(t) /\ Len(s) \in Nat /\ Len(t) \in Nat
  BY JoinTwo, LenProperties
<1>2. ASSUME NEW p \in 1 .. Len(s ++ t) PROVE ~IsNumber((s ++ t)[p])
  <2>1. CASE p <= Len(s)
    <3>1. p \in 1 .. Len(s)
      BY <1>1, <2>1
    <3> QED
      BY <3>1, JoinLeft DEF Plain
  <2>2. CASE p > Len(s)
    <3> DEFINE q == p - Len(s)
    <3>1. q \in 1 .. Len(t) /\ Len(s) + q = p
      BY <1>1, <2>2
    <3> HIDE DEF q
    <3>2. (s ++ t)[Len(s) + q] = t[q]
      BY <3>1, JoinRight
    <3> QED
      BY <3>1, <3>2 DEF Plain
  <2> QED
    BY <1>1, <2>1, <2>2
<1> QED
  BY <1>2 DEF Plain

LEMMA JoinedEndsPlain ==
  ASSUME NEW s \in Seq(Seq(Token)), NEW m \in 0 .. Len(s), \A i \in 1 .. m : EndsPlain(s[i])
  PROVE  EndsPlain(Joined(s, m))
<1> DEFINE S == {n \in Nat : n <= m => EndsPlain(Joined(s, n))}
<1>1. 0 \in S
  <2>1. EndsPlain(<<>>)
    BY PlainOne, PlainIs, EmptySeq
  <2> QED
    BY <2>1, JoinedNone
<1>2. \A n \in Nat : n \in S => n + 1 \in S
  <2> SUFFICES ASSUME NEW n \in S, n + 1 <= m
               PROVE  EndsPlain(Joined(s, n + 1))
    OBVIOUS
  <2>1. n \in 0 .. Len(s) - 1 /\ n \in 0 .. Len(s) /\ n + 1 \in 1 .. m /\ n + 1 \in 1 .. Len(s)
        /\ EndsPlain(Joined(s, n))
    OBVIOUS
  <2>2. Joined(s, n + 1) = Joined(s, n) ++ s[n + 1] /\ Joined(s, n) \in Seq(Token)
        /\ s[n + 1] \in Seq(Token) /\ EndsPlain(s[n + 1])
    BY <2>1, JoinedNext, JoinedIsASeq
  <2> QED
    BY <2>1, <2>2, TouchJoin DEF EndsPlain
<1>3. Nat \subseteq S
  <2> HIDE DEF S
  <2> QED
    BY <1>1, <1>2, NatInduct
<1> QED
  BY <1>3

LEMMA JoinedStartsPlain ==
  ASSUME NEW s \in Seq(Seq(Token)), NEW m \in 0 .. Len(s), \A i \in 1 .. m : StartsPlain(s[i])
  PROVE  StartsPlain(Joined(s, m))
<1> DEFINE S == {n \in Nat : n <= m => StartsPlain(Joined(s, n))}
<1>1. 0 \in S
  <2>1. StartsPlain(<<>>)
    BY PlainOne, PlainIs, EmptySeq
  <2> QED
    BY <2>1, JoinedNone
<1>2. \A n \in Nat : n \in S => n + 1 \in S
  <2> SUFFICES ASSUME NEW n \in S, n + 1 <= m
               PROVE  StartsPlain(Joined(s, n + 1))
    OBVIOUS
  <2>1. n \in 0 .. Len(s) - 1 /\ n \in 0 .. Len(s) /\ n + 1 \in 1 .. m /\ n + 1 \in 1 .. Len(s)
        /\ StartsPlain(Joined(s, n))
    OBVIOUS
  <2>2. Joined(s, n + 1) = Joined(s, n) ++ s[n + 1] /\ Joined(s, n) \in Seq(Token)
        /\ s[n + 1] \in Seq(Token) /\ StartsPlain(s[n + 1])
    BY <2>1, JoinedNext, JoinedIsASeq
  <2> QED
    BY <2>1, <2>2, TouchJoin DEF StartsPlain
<1>3. Nat \subseteq S
  <2> HIDE DEF S
  <2> QED
    BY <1>1, <1>2, NatInduct
<1> QED
  BY <1>3

\* The last member that is kept, when there is one.
LastSurvivor == IF Gone(count) THEN count - 1 ELSE count
SomeSurvive == count > 0 /\ (Gone(count) => count > 1)

LEMMA LastSurvivorIs ==
  ASSUME Typed, SomeSurvive, ~BothLastRemoved
  PROVE  /\ LastSurvivor \in 1 .. count /\ ~Gone(LastSurvivor) /\ LastKept(LastSurvivor)
         /\ \A i \in 1 .. count : i < LastSurvivor => ~LastKept(i)
         /\ \A i \in 1 .. count : i > LastSurvivor => Gone(i)
<1>1. count \in Nat
  BY SourceEnds
<1>2. CASE Gone(count)
  <2>1. LastSurvivor = count - 1 /\ count > 1 /\ ~Gone(count - 1)
    BY <1>2 DEF LastSurvivor, SomeSurvive, BothLastRemoved, Gone
  <2>2. \A i \in 1 .. count : i > count - 1 => i = count
    BY <1>1
  <2> QED
    BY <1>1, <1>2, <2>1, <2>2 DEF LastKept
<1>3. CASE ~Gone(count)
  BY <1>1, <1>3 DEF LastSurvivor, SomeSurvive, LastKept
<1> QED
  BY <1>2, <1>3

LEMMA PartsPlain ==
  ASSUME Typed
  PROVE  /\ Plain(Spaces) /\ EndsPlain(Opening) /\ StartsPlain(Closing) /\ Closing \in Seq(Token)
         /\ \A i \in 1 .. count : Plain(Lead(i)) /\ (i < count => Plain(Gap(i)) /\ Len(Gap(i)) > 0)
<1>1. Plain(Spaces)
  BY PlainOne, TokenKinds DEF Spaces
<1>2. EndsPlain(Opening)
  <2>1. Plain(<<Open>>) /\ <<Open>> \in Seq(Token)
    BY PlainOne, TokenKinds, TokensTyped, OneTyped
  <2>2. Plain(Opening)
    <3> DEFINE a == <<Open>>
    <3> HIDE DEF a
    <3>1. a \in Seq(Token) /\ Plain(a) => Plain(a ++ Spaces)
      BY <1>1, SpacesTyped, PlainTwo
    <3> QED
      BY <2>1, <3>1 DEF a, Opening
  <2> QED
    BY <2>2, CellsTyped, PlainIs
<1>3. StartsPlain(Closing) /\ Closing \in Seq(Token)
  <2> DEFINE a == IF count = 0 THEN <<>> ELSE Spaces
             b == <<Close>>
  <2>1. /\ a \in Seq(Token) /\ b \in Seq(Token) /\ Plain(a) /\ Plain(b)
    BY <1>1, SpacesTyped, EmptySeq, PlainOne, TokenKinds, TokensTyped, OneTyped
  <2> HIDE DEF a, b
  <2>2. Plain(a ++ b) /\ a ++ b \in Seq(Token)
    BY <2>1, PlainTwo, JoinTwo
  <2>3. StartsPlain(a ++ b)
    BY <2>2, PlainIs
  <2> QED
    BY <2>2, <2>3 DEF Closing, a, b
<1>4. ASSUME NEW i \in 1 .. count PROVE Plain(Lead(i))
  <2> DEFINE a == <<Key(i), Colon>>
  <2>1. Plain(a) /\ a \in Seq(Token)
    <3>1. i \in 1 .. MaxMembers
      BY ComposeAssumption DEF Typed
    <3>2. Key(i) \in Token /\ Colon \in Token
      BY <3>1, TokensTyped
    <3> QED
      BY <3>2, PlainOne, TokenKinds, OneTyped
  <2> HIDE DEF a
  <2>2. Plain(a ++ Spaces)
    BY <1>1, <2>1, SpacesTyped, PlainTwo
  <2> QED
    BY <2>2, PlainOne DEF Lead, a
<1>5. ASSUME NEW i \in 1 .. count, i < count PROVE Plain(Gap(i)) /\ Len(Gap(i)) > 0
  <2> DEFINE c == <<Comma>>
  <2>1. c \in Seq(Token) /\ Plain(c) /\ Len(c) = 1
    BY PlainOne, TokenKinds, TokensTyped, OneTyped
  <2>2. Separator(i) = c ++ Spaces
    BY <1>5 DEF Separator, ++
  <2> HIDE DEF c
  <2>3. Separator(i) \in Seq(Token) /\ Plain(Separator(i)) /\ Len(Separator(i)) = 1 + Len(Spaces)
    BY <1>1, <2>1, <2>2, SpacesTyped, PlainTwo, JoinTwo
  <2>4. Plain(Gap(i)) /\ Len(Gap(i)) = Len(Spaces) + Len(Separator(i))
    BY <1>1, <2>3, SpacesTyped, PlainTwo, JoinTwo DEF Gap
  <2>5. Len(Spaces) \in Nat
    BY SpacesTyped, LenProperties
  <2> QED
    BY <2>3, <2>4, <2>5
<1> QED
  BY <1>1, <1>2, <1>3, <1>4, <1>5

LEMMA BlockPlain ==
  ASSUME Typed, NEW i \in 1 .. count
  PROVE  NoTouch(Block(i)) /\ (LastKept(i) \/ EndsPlain(Block(i)))
<1>1. CASE Gone(i)
  <2>1. Block(i) = <<>> /\ EndsPlain(<<>>)
    BY <1>1, PlainOne, PlainIs, EmptySeq DEF Block
  <2> QED
    BY <2>1 DEF EndsPlain
<1>2. CASE ~Gone(i)
  <2> DEFINE a == Lead(i)
             v == <<ValueOf(i)>>
             g == Gap(i)
  <2>1. /\ a \in Seq(Token) /\ v \in Seq(Token) /\ g \in Seq(Token)
        /\ EndsPlain(a) /\ NoTouch(a) /\ NoTouch(v)
    BY CellTyped, BlockTyped, OneTyped, PartsPlain, PlainIs, PlainOne
  <2>2. Block(i) = (a ++ v) ++ (IF LastKept(i) THEN <<>> ELSE g)
    BY <1>2 DEF Block
  <2>3. ~LastKept(i) => EndsPlain(g) /\ NoTouch(g) /\ StartsPlain(g) /\ Len(g) > 0
    <3>1. ~LastKept(i) => i < count
      BY SourceEnds DEF LastKept
    <3> QED
      BY <2>1, <3>1, PartsPlain, PlainIs
  <2> HIDE DEF a, v, g
  <2>4. a ++ v \in Seq(Token) /\ NoTouch(a ++ v)
    BY <2>1, TouchJoin, JoinTwo
  <2>5. (a ++ v) ++ <<>> = a ++ v
    BY <2>4, JoinEmpty
  <2>6. ~LastKept(i) => NoTouch((a ++ v) ++ g) /\ EndsPlain((a ++ v) ++ g)
    BY <2>1, <2>3, <2>4, TouchJoin
  <2> QED
    BY <2>2, <2>4, <2>5, <2>6
<1> QED
  BY <1>1, <1>2

LEMMA BlocksPlain ==
  ASSUME Typed, ~BothLastRemoved
  PROVE  /\ NoTouch(Joined(Blocks, count))
         /\ ~SomeSurvive => Joined(Blocks, count) = <<>>
         /\ SomeSurvive => Joined(Blocks, count) = Joined(Blocks, LastSurvivor)
<1>0. count \in Nat /\ count \in 0 .. count /\ Len(Blocks) = count /\ Blocks \in Seq(Seq(Token))
  BY SourceEnds, BlocksTyped
<1>1. ASSUME ~SomeSurvive PROVE Joined(Blocks, count) = <<>>
  <2>1. CASE count = 0
    BY <2>1, JoinedNone
  <2>2. CASE count # 0
    <3>1. count = 1 /\ Gone(1)
      BY <1>0, <1>1, <2>2 DEF SomeSurvive
    <3>2. Blocks[1] = <<>>
      BY <3>1 DEF Blocks, Block
    <3>3. 0 \in 0 .. Len(Blocks) /\ count \in 0 .. Len(Blocks)
          /\ \A i \in 0 + 1 .. count : Blocks[i] = <<>>
      BY <1>0, <3>1, <3>2
    <3>4. Joined(Blocks, count) = Joined(Blocks, 0)
      BY <1>0, <3>3, JoinedEmpty
    <3> QED
      BY <3>4, JoinedNone
  <2> QED
    BY <2>1, <2>2
<1>2. ASSUME SomeSurvive
      PROVE  NoTouch(Joined(Blocks, count)) /\ Joined(Blocks, count) = Joined(Blocks, LastSurvivor)
  <2> DEFINE l == LastSurvivor
  <2>1. /\ l \in 1 .. count /\ \A i \in 1 .. count : i < l => ~LastKept(i)
        /\ \A i \in 1 .. count : i > l => Gone(i)
    BY <1>2, LastSurvivorIs
  <2> HIDE DEF l
  <2>2. /\ l - 1 \in 0 .. Len(Blocks) - 1 /\ l - 1 \in 0 .. Len(Blocks) /\ (l - 1) + 1 = l
        /\ l \in 0 .. Len(Blocks) /\ count \in l .. Len(Blocks)
    BY <1>0, <2>1
  <2>3. \A i \in 1 .. l - 1 : EndsPlain(Blocks[i])
    <3> TAKE i \in 1 .. l - 1
    <3>1. i \in 1 .. count /\ i < l
      BY <1>0, <2>1
    <3> QED
      BY <2>1, <3>1, BlockPlain DEF Blocks
  <2>4. EndsPlain(Joined(Blocks, l - 1))
    BY <1>0, <2>2, <2>3, JoinedEndsPlain
  <2>5. Joined(Blocks, (l - 1) + 1) = Joined(Blocks, l - 1) ++ Blocks[(l - 1) + 1]
        /\ Joined(Blocks, l - 1) \in Seq(Token)
    BY <1>0, <2>2, JoinedNext, JoinedIsASeq
  <2>6. Blocks[l] = Block(l) /\ NoTouch(Block(l)) /\ Block(l) \in Seq(Token)
    BY <2>1, BlockPlain, BlockTyped DEF Blocks
  <2>7. NoTouch(Joined(Blocks, l))
    BY <2>2, <2>4, <2>5, <2>6, TouchJoin DEF EndsPlain
  <2>8. Joined(Blocks, count) = Joined(Blocks, l)
    <3>1. \A i \in l + 1 .. count : Blocks[i] = <<>>
      <4> TAKE i \in l + 1 .. count
      <4>1. i \in 1 .. count /\ i > l
        BY <1>0, <2>1
      <4> QED
        BY <2>1, <4>1 DEF Blocks, Block
    <3> QED
      BY <1>0, <2>2, <3>1, JoinedEmpty
  <2> QED
    BY <2>7, <2>8 DEF l
<1>3. NoTouch(<<>>)
  BY PlainOne, PlainIs, EmptySeq
<1> QED
  BY <1>1, <1>2, <1>3

Adding(k) == edits[k].operation = "add"
ManyAdds == \E j, k \in 1 .. Len(edits) : j < k /\ Adding(j) /\ Adding(k)

LEMMA NewTextPlain ==
  ASSUME Typed, NEW k \in 1 .. Len(edits), Adding(k)
  PROVE  NoTouch(NewText(k)) /\ (kind = "object" => StartsPlain(NewText(k)))
<1>1. CASE kind = "object"
  <2> DEFINE a == Key(edits[k].path)
             b == Colon
             c == edits[k].value
  <2>1. ~IsNumber(a) /\ ~IsNumber(b)
    BY TokenKinds
  <2> HIDE DEF a, b, c
  <2>2. NoTouch(<<a, b, c>>) /\ StartsPlain(<<a, b, c>>)
    BY <2>1 DEF NoTouch, StartsPlain
  <2> QED
    BY <1>1, <2>2 DEF NewText, a, b, c
<1>2. CASE kind # "object"
  BY <1>2, PlainOne DEF NewText
<1> QED
  BY <1>1, <1>2

LEMMA PushPlain ==
  ASSUME Typed, NEW k \in 1 .. Len(edits)
  PROVE  NoTouch(Push(k)) /\ (count > 0 \/ kind = "object" => StartsPlain(Push(k)))
<1>1. CASE ~Adding(k)
  <2>1. Push(k) = <<>> /\ NoTouch(<<>>) /\ StartsPlain(<<>>)
    BY <1>1, PlainOne, PlainIs, EmptySeq DEF Push, Adding
  <2> QED
    BY <2>1
<1>2. CASE Adding(k)
  <2> DEFINE c == NeedsComma
             t == NewText(k)
  <2>1. c \in Seq(Token) /\ t \in Seq(Token) /\ Push(k) = c ++ t
    BY <1>2, NewTextTyped DEF Push, Adding
  <2>2. EndsPlain(c) /\ StartsPlain(c) /\ NoTouch(c)
    <3>1. Plain(c)
      BY PlainOne, TokenKinds DEF NeedsComma
    <3> QED
      BY <2>1, <3>1, PlainIs
  <2>3. NoTouch(t) /\ (kind = "object" => StartsPlain(t))
    BY <1>2, NewTextPlain
  <2>4. count > 0 => Len(c) > 0
    BY DEF NeedsComma
  <2> HIDE DEF c, t
  <2>5. NoTouch(c ++ t) /\ (kind = "object" \/ Len(c) > 0 => StartsPlain(c ++ t))
    BY <2>1, <2>2, <2>3, TouchJoin
  <2> QED
    BY <2>1, <2>4, <2>5
<1> QED
  BY <1>1, <1>2

LEMMA OneAdd ==
  ASSUME Typed, ~ManyAdds, NEW k \in 1 .. Len(edits), Adding(k)
  PROVE  \A i \in 1 .. Len(edits) : i # k => ~Adding(i)
BY LaidTyped DEF ManyAdds

\* Two numbers touch only when two are added to an empty array.
LEMMA PushesPlain ==
  ASSUME Typed, count > 0 \/ kind = "object" \/ ~ManyAdds
  PROVE  /\ NoTouch(Joined(Pushes, Len(edits)))
         /\ count > 0 \/ kind = "object" => StartsPlain(Joined(Pushes, Len(edits)))
<1>0. Len(edits) \in 0 .. Len(Pushes)
  BY PushesTyped
<1>1. CASE count > 0 \/ kind = "object"
  <2>1. \A k \in 1 .. Len(edits) : StartsPlain(Pushes[k])
    BY <1>1, PushPlain DEF Pushes
  <2>2. StartsPlain(Joined(Pushes, Len(edits)))
    BY <1>0, <2>1, PushesTyped, JoinedStartsPlain
  <2> QED
    BY <2>2 DEF StartsPlain
<1>2. CASE ~(count > 0 \/ kind = "object")
  <2>1. CASE \E k \in 1 .. Len(edits) : Adding(k)
    <3>1. PICK k \in 1 .. Len(edits) : Adding(k)
      BY <2>1
    <3>2. k \in 1 .. Len(Pushes) /\ \A i \in 1 .. Len(Pushes) : i # k => Pushes[i] = <<>>
      BY <1>2, <3>1, OneAdd, PushesTyped DEF Pushes, Push, Adding
    <3>3. Joined(Pushes, Len(Pushes)) = Pushes[k]
      BY <3>2, PushesTyped, OnePiece
    <3>4. Pushes[k] = Push(k) /\ NoTouch(Push(k))
      BY PushPlain DEF Pushes
    <3> QED
      BY <1>2, <3>3, <3>4, PushesTyped
  <2>2. CASE ~\E k \in 1 .. Len(edits) : Adding(k)
    <3>1. 0 \in 0 .. Len(Pushes) /\ Len(edits) \in 0 .. Len(Pushes)
          /\ \A i \in 0 + 1 .. Len(edits) : Pushes[i] = <<>>
      BY <1>0, <2>2, PushesTyped DEF Pushes, Push, Adding
    <3>2. Joined(Pushes, Len(edits)) = Joined(Pushes, 0)
      BY <3>1, PushesTyped, JoinedEmpty
    <3>3. NoTouch(<<>>)
      BY PlainOne, PlainIs, EmptySeq
    <3> QED
      BY <1>2, <3>2, <3>3, JoinedNone
  <2> QED
    BY <2>1, <2>2
<1> QED
  BY <1>1, <1>2

LEMMA ComposedReads ==
  ASSUME Typed, ~BothLastRemoved, count > 0 \/ kind = "object" \/ ~ManyAdds
  PROVE  /\ Compose(edits) \in Seq(Token) /\ Len(Compose(edits)) > 0
         /\ NoTouch(Compose(edits))
<1> DEFINE a == Opening
           b == Joined(Blocks, count)
           c == Joined(Pushes, Len(edits))
           d == Closing
<1>1. a \in Seq(Token) /\ b \in Seq(Token) /\ c \in Seq(Token) /\ d \in Seq(Token)
  <2>1. Joined(Pushes, Len(edits)) \in Seq(Token)
    BY PushesTyped, JoinedIsASeq
  <2> QED
    BY <2>1, CellsTyped, MiddleTyped, PartsPlain
<1>2. /\ EndsPlain(a) /\ NoTouch(a) /\ NoTouch(b) /\ NoTouch(c) /\ StartsPlain(d) /\ NoTouch(d)
      /\ count > 0 \/ kind = "object" => StartsPlain(c)
      /\ ~(count > 0 \/ kind = "object") => b = <<>>
  <2>1. ~(count > 0 \/ kind = "object") => ~SomeSurvive
    BY DEF SomeSurvive
  <2> QED
    BY <2>1, PartsPlain, BlocksPlain, PushesPlain DEF EndsPlain, StartsPlain
<1>3. Compose(edits) = ((a ++ b) ++ c) ++ d
  BY ComposedText
<1>4. Len(d) > 0
  <2> DEFINE x == IF count = 0 THEN <<>> ELSE Spaces
             y == <<Close>>
  <2>1. x \in Seq(Token) /\ y \in Seq(Token) /\ Len(y) = 1 /\ d = x ++ y
    BY SpacesTyped, EmptySeq, SourceEnds DEF Closing
  <2> HIDE DEF x, y, d
  <2>2. Len(d) = Len(x) + Len(y) /\ Len(x) \in Nat
    BY <2>1, JoinTwo, LenProperties
  <2> QED
    BY <2>1, <2>2
<1> HIDE DEF a, b, c, d
<1>5. a ++ b \in Seq(Token) /\ NoTouch(a ++ b)
  BY <1>1, <1>2, TouchJoin, JoinTwo
<1>6. (a ++ b) ++ c \in Seq(Token) /\ NoTouch((a ++ b) ++ c)
  <2>1. CASE count > 0 \/ kind = "object"
    BY <1>1, <1>2, <1>5, <2>1, TouchJoin, JoinTwo
  <2>2. CASE ~(count > 0 \/ kind = "object")
    <3>1. a ++ b = a
      BY <1>1, <1>2, <2>2, JoinEmpty
    <3> QED
      BY <1>1, <1>2, <3>1, TouchJoin, JoinTwo
  <2> QED
    BY <2>1, <2>2
<1>7. ((a ++ b) ++ c) ++ d \in Seq(Token) /\ NoTouch(((a ++ b) ++ c) ++ d)
      /\ Len(((a ++ b) ++ c) ++ d) = Len((a ++ b) ++ c) + Len(d)
  BY <1>1, <1>2, <1>6, TouchJoin, JoinTwo
<1>8. Len((a ++ b) ++ c) \in Nat /\ Len(d) \in Nat
  BY <1>1, <1>6, LenProperties
<1> QED
  BY <1>3, <1>4, <1>7, <1>8

LEMMA StripParts ==
  /\ \A x \in Token : x # Blank => Mapped(Strip, <<x>>) = <<x>>
  /\ Mapped(Strip, <<>>) = <<>>
  /\ Mapped(Strip, Spaces) = <<>>
<1>1. Blank \in Token /\ Mapped(Strip, <<Blank>>) = Strip[Blank]
  BY TokensTyped, StripTyped, MappedOne
<1>2. \A x \in Token : Mapped(Strip, <<x>>) = Strip[x]
  BY StripTyped, MappedOne
<1>3. Mapped(Strip, <<>>) = <<>>
  BY TokensTyped, StripTyped, MappedOne
<1>4. Strip[Blank] = <<>> /\ \A x \in Token : x # Blank => Strip[x] = <<x>>
  BY TokensTyped DEF Strip
<1> QED
  BY <1>1, <1>2, <1>3, <1>4 DEF Spaces

LEMMA StripConcat ==
  ASSUME NEW s \in Seq(Token), NEW t \in Seq(Token)
  PROVE  Mapped(Strip, s ++ t) = Mapped(Strip, s) ++ Mapped(Strip, t)
BY StripTyped, MappedConcat

\* What is between the brackets of the result, without white space.
ReadBlocks == Mapped(Strip, Joined(Blocks, count))
ReadPushes == Mapped(Strip, Joined(Pushes, Len(edits)))

LEMMA InnerIs ==
  ASSUME Typed, ~BothLastRemoved, count > 0 \/ kind = "object" \/ ~ManyAdds
  PROVE  /\ Inner(Compose(edits)) = (ReadBlocks ++ ReadPushes) ++ <<Comma>>
         /\ ReadBlocks \in Seq(Token) /\ ReadPushes \in Seq(Token)
<1> DEFINE a == Opening
           b == Joined(Blocks, count)
           c == Joined(Pushes, Len(edits))
           d == Closing
           o == <<Open>>
           e == <<Close>>
<1>1. a \in Seq(Token) /\ b \in Seq(Token) /\ c \in Seq(Token) /\ d \in Seq(Token)
  <2>1. Joined(Pushes, Len(edits)) \in Seq(Token)
    BY PushesTyped, JoinedIsASeq
  <2>2. count \in 0 .. count
    BY SourceEnds
  <2> QED
    BY <2>1, <2>2, CellsTyped, MiddleTyped, PartsPlain
<1>2. o \in Seq(Token) /\ e \in Seq(Token) /\ Len(o) = 1 /\ Len(e) = 1
      /\ Mapped(Strip, o) = o /\ Mapped(Strip, e) = e
  BY TokensTyped, TokenKinds, OneTyped, StripParts
<1>3. Tokens(Compose(edits)) = Mapped(Strip, Compose(edits))
  BY ComposedReads, TokensIs
<1>4. Compose(edits) = ((a ++ b) ++ c) ++ d
  BY ComposedText
<1>5. Mapped(Strip, a) = o
  <2>1. a = o ++ Spaces
    BY DEF Opening
  <2> HIDE DEF a, o
  <2>2. Mapped(Strip, o ++ Spaces) = Mapped(Strip, o) ++ Mapped(Strip, Spaces)
    BY <1>2, StripTyped, SpacesTyped, MappedConcat
  <2>3. o ++ <<>> = o
    BY <1>2, JoinEmpty
  <2> QED
    BY <1>2, <2>1, <2>2, <2>3, StripParts
<1>6. Mapped(Strip, d) = e
  <2> DEFINE x == IF count = 0 THEN <<>> ELSE Spaces
  <2>1. d = x ++ e /\ x \in Seq(Token) /\ Mapped(Strip, x) = <<>>
    BY SpacesTyped, EmptySeq, StripParts DEF Closing
  <2> HIDE DEF x, d, e
  <2>2. Mapped(Strip, x ++ e) = Mapped(Strip, x) ++ Mapped(Strip, e)
    BY <1>2, <2>1, StripTyped, MappedConcat
  <2>3. <<>> ++ e = e
    BY <1>2, JoinEmpty
  <2> QED
    BY <1>2, <2>1, <2>2, <2>3
<1> DEFINE rb == Mapped(Strip, b)
           rc == Mapped(Strip, c)
<1>7. rb \in Seq(Token) /\ rc \in Seq(Token)
  <2> HIDE DEF b, c
  <2> QED
    BY <1>1, StripTyped, MappedIsASeq
<1>8. Mapped(Strip, Compose(edits)) = ((o ++ rb) ++ rc) ++ e
  <2> HIDE DEF a, b, c, d, o, e
  <2>1. a ++ b \in Seq(Token) /\ (a ++ b) ++ c \in Seq(Token)
    <3>1. a ++ b \in Seq(Token)
      BY <1>1, JoinTwo
    <3> QED
      BY <1>1, <3>1, JoinTwo
  <2>2. Mapped(Strip, ((a ++ b) ++ c) ++ d) = Mapped(Strip, (a ++ b) ++ c) ++ Mapped(Strip, d)
    BY <1>1, <2>1, StripConcat
  <2>3. Mapped(Strip, (a ++ b) ++ c) = Mapped(Strip, a ++ b) ++ Mapped(Strip, c)
    BY <1>1, <2>1, StripConcat
  <2>4. Mapped(Strip, a ++ b) = Mapped(Strip, a) ++ Mapped(Strip, b)
    BY <1>1, StripConcat
  <2> QED
    BY <1>4, <1>5, <1>6, <2>2, <2>3, <2>4
<1>9. Inner(Compose(edits)) = (rb ++ rc) ++ <<Comma>>
  <2> DEFINE t == (o ++ (rb ++ rc)) ++ e
  <2> HIDE DEF o, e, rb, rc
  <2>1. rb ++ rc \in Seq(Token) /\ (o ++ rb) ++ rc = o ++ (rb ++ rc)
    BY <1>2, <1>7, JoinTwo, Associative
  <2>2. Tokens(Compose(edits)) = t
    BY <1>3, <1>8, <2>1
  <2>3. Quote(t, Len(o), Len(o) + Len(rb ++ rc)) = rb ++ rc
    BY <1>2, <2>1, QuoteMiddle
  <2>4. Len(t) = (1 + Len(rb ++ rc)) + 1 /\ Len(rb ++ rc) \in Nat
    <3> DEFINE x == rb ++ rc
    <3>0. x \in Seq(Token) /\ o \in Seq(Token) /\ Len(o) = 1
      BY <1>2, <2>1
    <3>1. o ++ (rb ++ rc) \in Seq(Token) /\ Len(o ++ (rb ++ rc)) = 1 + Len(rb ++ rc)
      <4> HIDE DEF x
      <4>1. o ++ x \in Seq(Token) /\ Len(o ++ x) = Len(o) + Len(x)
        BY <3>0, JoinTwo
      <4> QED
        BY <3>0, <4>1 DEF x
    <3>2. Len((o ++ (rb ++ rc)) ++ e) = Len(o ++ (rb ++ rc)) + Len(e)
      BY <1>2, <3>1, JoinTwo
    <3>3. Len(rb ++ rc) \in Nat
      BY <2>1, LenProperties
    <3> QED
      BY <1>2, <3>1, <3>2, <3>3
  <2> HIDE DEF t
  <2>5. SubSeq(t, 2, Len(t) - 1) = rb ++ rc
    <3>1. Len(o) + 1 = 2 /\ Len(o) + Len(rb ++ rc) = Len(t) - 1
      BY <1>2, <2>4
    <3> QED
      BY <2>3, <3>1 DEF Quote
  <2> QED
    BY <2>2, <2>5 DEF Inner, ++
<1> QED
  BY <1>7, <1>9 DEF ReadBlocks, ReadPushes

-------------------------------------------------------------------------------
Value == {"number", "string"} \X Seq(Nat)

LEMMA ValuesTyped ==
  ASSUME Typed
  PROVE  /\ \A i \in 1 .. count : ValueOf(i) \in Value
         /\ \A k \in 1 .. Len(edits) :
              edits[k].operation # "remove" => edits[k].value \in Value
<1>1. \A k \in 1 .. Len(edits) :
        edits[k].operation # "remove" => edits[k].value \in Value
  BY NewValueTyped, ComposeAssumption DEF Value
<1>2. ASSUME NEW i \in 1 .. count PROVE ValueOf(i) \in Value
  <2>1. CASE \E k \in 1 .. Len(edits) : edits[k].path = i /\ edits[k].operation = "replace"
    BY <1>1, <2>1, BlockTyped
  <2>2. CASE ~\E k \in 1 .. Len(edits) : edits[k].path = i /\ edits[k].operation = "replace"
    <3>1. ValueOf(i) = Old(i)
      BY <2>2 DEF ValueOf, Edited
    <3>2. i \in Nat /\ <<i>> \in Seq(Nat)
      <4>1. i \in Nat
        BY DEF Typed
      <4> QED
        BY <4>1, OneTyped
    <3> DEFINE d == <<i>>
    <3>3. ValueOf(i) = <<"number", d>>
      BY <3>1 DEF Old, Number
    <3>4. d \in Seq(Nat)
      BY <3>2
    <3> HIDE DEF d
    <3> QED
      BY <3>3, <3>4 DEF Value
  <2> QED
    BY <2>1, <2>2
<1> QED
  BY <1>1, <1>2

\* The rows of a result: a member and the separator behind it.
Entry(x, v) == IF kind = "object" THEN <<Key(x), Colon, v>> ELSE <<v>>
Pair == Spot \X Value
RowOf == [x \in Pair |-> Entry(x[1], x[2]) ++ <<Comma>>]
EntryOf == [x \in Pair |-> Entry(x[1], x[2])]

KeptPieces == [i \in 1 .. count |-> IF Gone(i) THEN <<>> ELSE <<<<i, ValueOf(i)>>>>]
AddedPieces ==
  [k \in 1 .. Len(edits) |-> IF Adding(k) THEN <<<<edits[k].path, edits[k].value>>>> ELSE <<>>]

LEMMA TupleJoin ==
  ASSUME NEW T, NEW a \in T, NEW b \in T, NEW c \in T
  PROVE  <<a, b, c>> = <<a, b>> ++ <<c>> /\ <<a, b>> = <<a>> ++ <<b>>
<1>1. <<a>> \in Seq(T) /\ <<b>> \in Seq(T) /\ <<c>> \in Seq(T) /\ <<a, b>> \in Seq(T)
  BY OneTyped
<1>2. <<a, b>> = <<a>> ++ <<b>>
  <2> DEFINE x == <<a>>
             y == <<b>>
             z == <<a, b>>
  <2>1. z \in Seq(T) /\ Len(z) = 2 /\ z[1] = a /\ z[2] = b
    BY <1>1
  <2>2. /\ x \in Seq(T) /\ Len(x) = 1 /\ x[1] = a /\ y \in Seq(T) /\ Len(y) = 1 /\ y[1] = b
    BY <1>1
  <2> HIDE DEF x, y, z
  <2>3. x ++ y \in Seq(T) /\ Len(x ++ y) = 2
    <3>1. x ++ y \in Seq(T) /\ Len(x ++ y) = Len(x) + Len(y)
      BY <2>2, JoinTwo
    <3> QED
      BY <2>2, <3>1
  <2>4. 1 \in 1 .. Len(x) /\ 1 \in 1 .. Len(y)
    BY <2>2
  <2>5. (x ++ y)[1] = x[1] /\ (x ++ y)[Len(x) + 1] = y[1]
    BY <2>2, <2>4, JoinLeft, JoinRight
  <2>6. (x ++ y)[1] = a /\ (x ++ y)[2] = b
    BY <2>2, <2>5
  <2>7. \A i \in 1 .. 2 : (x ++ y)[i] = z[i]
    BY <2>1, <2>6
  <2>8. x ++ y = z
    BY <2>1, <2>3, <2>7, SeqEqual
  <2> QED
    BY <2>8 DEF x, y, z
<1>3. <<a, b, c>> = <<a, b>> ++ <<c>>
  <2> DEFINE x == <<a, b>>
             y == <<c>>
             z == <<a, b, c>>
  <2>1. z \in Seq(T) /\ Len(z) = 3 /\ z[1] = a /\ z[2] = b /\ z[3] = c
    OBVIOUS
  <2>2. /\ x \in Seq(T) /\ Len(x) = 2 /\ x[1] = a /\ x[2] = b
        /\ y \in Seq(T) /\ Len(y) = 1 /\ y[1] = c
    BY <1>1
  <2> HIDE DEF x, y, z
  <2>3. x ++ y \in Seq(T) /\ Len(x ++ y) = 3
    <3>1. x ++ y \in Seq(T) /\ Len(x ++ y) = Len(x) + Len(y)
      BY <2>2, JoinTwo
    <3> QED
      BY <2>2, <3>1
  <2>4. 1 \in 1 .. Len(x) /\ 2 \in 1 .. Len(x) /\ 1 \in 1 .. Len(y)
    BY <2>2
  <2>5. (x ++ y)[1] = x[1] /\ (x ++ y)[2] = x[2] /\ (x ++ y)[Len(x) + 1] = y[1]
    BY <2>2, <2>4, JoinLeft, JoinRight
  <2>6. (x ++ y)[1] = a /\ (x ++ y)[2] = b /\ (x ++ y)[3] = c
    BY <2>2, <2>5
  <2>7. \A i \in 1 .. 3 : (x ++ y)[i] = z[i]
    BY <2>1, <2>6
  <2>8. x ++ y = z
    BY <2>1, <2>3, <2>7, SeqEqual
  <2> QED
    BY <2>8 DEF x, y, z
<1> QED
  BY <1>2, <1>3

LEMMA EntryTyped ==
  ASSUME Typed, NEW x \in Spot, NEW v \in Token
  PROVE  /\ Entry(x, v) \in Seq(Token) /\ Entry(x, v) ++ <<Comma>> \in Seq(Token)
         /\ Len(Entry(x, v)) = Stride - 1 /\ Len(Entry(x, v) ++ <<Comma>>) = Stride
         /\ v # Blank => Mapped(Strip, Entry(x, v)) = Entry(x, v)
         /\ kind = "object" => Entry(x, v)[1] = Key(x) /\ Entry(x, v)[2] = Colon /\ Entry(x, v)[3] = v
         /\ kind # "object" => Entry(x, v)[1] = v
<1>1. <<Comma>> \in Seq(Token) /\ Len(<<Comma>>) = 1
  BY TokensTyped, OneTyped
<1>2. CASE kind = "object"
  <2> DEFINE a == Key(x)
             b == Colon
  <2>1. a \in Token /\ b \in Token /\ a # Blank /\ b # Blank
    <3>1. x \in NewKey \/ x \in 1 .. MaxMembers
      BY <1>2, ComposeAssumption DEF Spot, Typed
    <3> QED
      BY <3>1, TokensTyped, TokenKinds
  <2>2. Entry(x, v) = <<a, b, v>> /\ Stride = 4
    BY <1>2 DEF Entry, Stride
  <2> HIDE DEF a, b
  <2>3. <<a, b, v>> \in Seq(Token) /\ Len(<<a, b, v>>) = 3
    BY <2>1
  <2>4. <<a>> \in Seq(Token) /\ <<b>> \in Seq(Token) /\ <<v>> \in Seq(Token) /\ <<a, b>> \in Seq(Token)
    BY <2>1, OneTyped
  <2>5. <<a, b, v>> = <<a, b>> ++ <<v>> /\ <<a, b>> = <<a>> ++ <<b>>
    BY <2>1, TupleJoin
  <2>6. v # Blank => Mapped(Strip, <<a, b, v>>) = <<a, b, v>>
    <3>1. Mapped(Strip, <<a>> ++ <<b>>) = Mapped(Strip, <<a>>) ++ Mapped(Strip, <<b>>)
      BY <2>4, StripConcat
    <3>2. Mapped(Strip, <<a, b>> ++ <<v>>) = Mapped(Strip, <<a, b>>) ++ Mapped(Strip, <<v>>)
      BY <2>4, StripConcat
    <3>3. v # Blank => /\ Mapped(Strip, <<a>>) = <<a>> /\ Mapped(Strip, <<b>>) = <<b>>
                       /\ Mapped(Strip, <<v>>) = <<v>>
      BY <2>1, StripParts
    <3> QED
      BY <2>5, <3>1, <3>2, <3>3
  <2>7. <<a, b, v>> ++ <<Comma>> \in Seq(Token) /\ Len(<<a, b, v>> ++ <<Comma>>) = 3 + 1
    <3> DEFINE t == <<a, b, v>>
               c == <<Comma>>
    <3> HIDE DEF t, c
    <3>1. t \in Seq(Token) /\ c \in Seq(Token) => t ++ c \in Seq(Token) /\ Len(t ++ c) = Len(t) + Len(c)
      BY JoinTwo
    <3> QED
      BY <1>1, <2>3, <3>1 DEF t, c
  <2> QED
    BY <1>2, <2>2, <2>3, <2>6, <2>7 DEF a, b
<1>3. CASE kind # "object"
  <2>1. Entry(x, v) = <<v>> /\ Stride = 2
    BY <1>3 DEF Entry, Stride
  <2>2. <<v>> \in Seq(Token) /\ Len(<<v>>) = 1 /\ (v # Blank => Mapped(Strip, <<v>>) = <<v>>)
    BY OneTyped, StripParts
  <2>3. <<v>> ++ <<Comma>> \in Seq(Token) /\ Len(<<v>> ++ <<Comma>>) = 1 + 1
    <3> DEFINE t == <<v>>
               c == <<Comma>>
    <3> HIDE DEF t, c
    <3>1. t \in Seq(Token) /\ c \in Seq(Token) => t ++ c \in Seq(Token) /\ Len(t ++ c) = Len(t) + Len(c)
      BY JoinTwo
    <3> QED
      BY <1>1, <2>2, <3>1 DEF t, c
  <2> QED
    BY <1>3, <2>1, <2>2, <2>3
<1> QED
  BY <1>2, <1>3

LEMMA RowsTyped ==
  ASSUME Typed
  PROVE  RowOf \in [Pair -> Seq(Token)] /\ EntryOf \in [Pair -> Seq(Token)]
<1>1. \A x \in Pair : Entry(x[1], x[2]) \in Seq(Token) /\ Entry(x[1], x[2]) ++ <<Comma>> \in Seq(Token)
  <2> TAKE x \in Pair
  <2>1. x[1] \in Spot /\ x[2] \in Token
    BY DEF Pair, Value, Token
  <2> QED
    BY <2>1, EntryTyped
<1> QED
  BY <1>1 DEF RowOf, EntryOf

LEMMA PiecesTyped ==
  ASSUME Typed
  PROVE  /\ KeptPieces \in Seq(Seq(Pair)) /\ Len(KeptPieces) = count
         /\ AddedPieces \in Seq(Seq(Pair)) /\ Len(AddedPieces) = Len(edits)
         /\ Kept = Joined(KeptPieces, count) /\ Kept \in Seq(Pair)
         /\ Added = Joined(AddedPieces, Len(edits)) /\ Added \in Seq(Pair)
         /\ \A i \in 1 .. count : <<i, ValueOf(i)>> \in Pair
         /\ \A k \in 1 .. Len(edits) : Adding(k) => <<edits[k].path, edits[k].value>> \in Pair
<1>1. count \in Nat /\ Len(edits) \in Nat
  BY SourceEnds, LaidTyped
<1>2. ASSUME NEW i \in 1 .. count PROVE <<i, ValueOf(i)>> \in Pair
  <2>1. i \in Spot /\ ValueOf(i) \in Value
    BY ValuesTyped DEF Spot
  <2> QED
    BY <2>1 DEF Pair
<1>3. ASSUME NEW k \in 1 .. Len(edits), Adding(k) PROVE <<edits[k].path, edits[k].value>> \in Pair
  <2>1. edits[k] \in Item
    BY ElementOfSeq DEF Typed, ValidEdits
  <2>2. edits[k].path \in Spot
    BY <2>1 DEF Item
  <2>3. edits[k].value \in Value
    BY <1>3, ValuesTyped DEF Adding
  <2> QED
    BY <2>2, <2>3 DEF Pair
<1>4. KeptPieces \in Seq(Seq(Pair)) /\ Len(KeptPieces) = count
  <2>1. \A i \in 1 .. count : (IF Gone(i) THEN <<>> ELSE <<<<i, ValueOf(i)>>>>) \in Seq(Pair)
    BY <1>2, OneTyped
  <2> QED
    BY <1>1, <2>1 DEF KeptPieces
<1>5. AddedPieces \in Seq(Seq(Pair)) /\ Len(AddedPieces) = Len(edits)
  <2>1. \A k \in 1 .. Len(edits) :
          (IF Adding(k) THEN <<<<edits[k].path, edits[k].value>>>> ELSE <<>>) \in Seq(Pair)
    BY <1>3, OneTyped
  <2> QED
    BY <1>1, <2>1 DEF AddedPieces
<1>6. Kept = FlattenSeq(KeptPieces) /\ Added = FlattenSeq(AddedPieces)
  BY DEF Kept, Added, KeptPieces, AddedPieces, Gone, Adding
<1>7. Kept = Joined(KeptPieces, count) /\ Added = Joined(AddedPieces, Len(edits))
  BY <1>4, <1>5, <1>6, JoinedAll
<1>8. Joined(KeptPieces, count) \in Seq(Pair) /\ Joined(AddedPieces, Len(edits)) \in Seq(Pair)
  BY <1>1, <1>4, <1>5, JoinedIsASeq
<1> QED
  BY <1>2, <1>3, <1>4, <1>5, <1>7, <1>8

KeptRow(i) == IF Gone(i) THEN <<>> ELSE Entry(i, ValueOf(i)) ++ <<Comma>>
KeptRows == [i \in 1 .. count |-> KeptRow(i)]
AddedRow(k) ==
  IF Adding(k) THEN Entry(edits[k].path, edits[k].value) ++ <<Comma>> ELSE <<>>
AddedRows == [k \in 1 .. Len(edits) |-> AddedRow(k)]

LEMMA RowOfPair ==
  ASSUME Typed, NEW x, NEW v, <<x, v>> \in Pair
  PROVE  /\ x \in Spot /\ v \in Token
         /\ RowOf[<<x, v>>] = Entry(x, v) ++ <<Comma>> /\ EntryOf[<<x, v>>] = Entry(x, v)
BY DEF RowOf, EntryOf, Pair, Value, Token

LEMMA RowsAre ==
  ASSUME Typed
  PROVE  /\ Mapped(RowOf, Kept) = Joined(KeptRows, count)
         /\ Mapped(RowOf, Added) = Joined(AddedRows, Len(edits))
         /\ KeptRows \in Seq(Seq(Token)) /\ Len(KeptRows) = count
         /\ AddedRows \in Seq(Seq(Token)) /\ Len(AddedRows) = Len(edits)
<1>1. count \in Nat /\ Len(edits) \in Nat /\ count \in 0 .. count /\ Len(edits) \in 0 .. Len(edits)
  BY SourceEnds, LaidTyped
<1>2. ASSUME NEW i \in 1 .. count
      PROVE  Mapped(RowOf, KeptPieces[i]) = KeptRow(i) /\ KeptRow(i) \in Seq(Token)
  <2>1. <<i, ValueOf(i)>> \in Pair
    BY PiecesTyped
  <2> DEFINE x == <<i, ValueOf(i)>>
  <2>2. Mapped(RowOf, <<>>) = <<>> /\ Mapped(RowOf, <<x>>) = RowOf[x]
    <3> HIDE DEF x
    <3> QED
      BY <2>1, RowsTyped, MappedOne DEF x
  <2>3. RowOf[x] = Entry(i, ValueOf(i)) ++ <<Comma>> /\ i \in Spot /\ ValueOf(i) \in Token
    BY <2>1, RowOfPair
  <2> QED
    BY <2>2, <2>3, EntryTyped, EmptySeq DEF KeptPieces, KeptRow
<1>3. ASSUME NEW k \in 1 .. Len(edits)
      PROVE  Mapped(RowOf, AddedPieces[k]) = AddedRow(k) /\ AddedRow(k) \in Seq(Token)
  <2>1. CASE Adding(k)
    <3> DEFINE x == <<edits[k].path, edits[k].value>>
    <3>1. x \in Pair
      BY <2>1, PiecesTyped
    <3>2. Mapped(RowOf, <<x>>) = RowOf[x]
      <4> HIDE DEF x
      <4> QED
        BY <3>1, RowsTyped, MappedOne
    <3>3. RowOf[x] = Entry(edits[k].path, edits[k].value) ++ <<Comma>>
          /\ edits[k].path \in Spot /\ edits[k].value \in Token
      BY <3>1, RowOfPair
    <3> QED
      BY <2>1, <3>2, <3>3, EntryTyped DEF AddedPieces, AddedRow
  <2>2. CASE ~Adding(k)
    <3>1. Mapped(RowOf, <<>>) = <<>>
      BY JoinedNone DEF Mapped
    <3> QED
      BY <2>2, <3>1, EmptySeq DEF AddedPieces, AddedRow
  <2> QED
    BY <2>1, <2>2
<1>4. /\ Mapped(RowOf, Joined(KeptPieces, count))
           = Joined([i \in 1 .. count |-> Mapped(RowOf, KeptPieces[i])], count)
      /\ Mapped(RowOf, Joined(AddedPieces, Len(edits)))
           = Joined([k \in 1 .. Len(edits) |-> Mapped(RowOf, AddedPieces[k])], Len(edits))
  <2>1. count \in 0 .. Len(KeptPieces) /\ Len(edits) \in 0 .. Len(AddedPieces)
    BY <1>1, PiecesTyped
  <2>2. RowOf \in [Pair -> Seq(Token)]
    BY RowsTyped
  <2>3. KeptPieces \in Seq(Seq(Pair))
    BY PiecesTyped
  <2>4. AddedPieces \in Seq(Seq(Pair))
    BY PiecesTyped
  <2>5. Mapped(RowOf, Joined(KeptPieces, count))
          = Joined([i \in 1 .. Len(KeptPieces) |-> Mapped(RowOf, KeptPieces[i])], count)
    BY <2>1, <2>2, <2>3, MappedJoined
  <2>6. Mapped(RowOf, Joined(AddedPieces, Len(edits)))
          = Joined([i \in 1 .. Len(AddedPieces) |-> Mapped(RowOf, AddedPieces[i])], Len(edits))
    BY <2>1, <2>2, <2>4, MappedJoined
  <2> QED
    BY <2>5, <2>6, PiecesTyped
<1>5. /\ [i \in 1 .. count |-> Mapped(RowOf, KeptPieces[i])] = KeptRows
      /\ [k \in 1 .. Len(edits) |-> Mapped(RowOf, AddedPieces[k])] = AddedRows
  BY <1>2, <1>3 DEF KeptRows, AddedRows
<1>6. KeptRows \in Seq(Seq(Token)) /\ Len(KeptRows) = count
  BY <1>1, <1>2 DEF KeptRows
<1>7. AddedRows \in Seq(Seq(Token)) /\ Len(AddedRows) = Len(edits)
  BY <1>1, <1>3 DEF AddedRows
<1> QED
  BY <1>4, <1>5, <1>6, <1>7, PiecesTyped

\* What is read of a member of the result.
Reading(i) ==
  IF Gone(i) THEN <<>> ELSE IF LastKept(i) THEN Entry(i, ValueOf(i)) ELSE KeptRow(i)
Readings == [i \in 1 .. count |-> Reading(i)]

LEMMA BlockRead ==
  ASSUME Typed, NEW i \in 1 .. count
  PROVE  Mapped(Strip, Block(i)) = Reading(i) /\ Reading(i) \in Seq(Token)
<1> DEFINE v == ValueOf(i)
<1>1. v \in Token /\ v # Blank /\ i \in Spot
  BY BlockTyped, ValuesTyped, ValueKinds DEF Value, Spot
<1>2. Entry(i, v) \in Seq(Token) /\ Entry(i, v) ++ <<Comma>> \in Seq(Token)
  BY <1>1, EntryTyped
<1>3. Mapped(Strip, Lead(i) ++ <<v>>) = Entry(i, v)
  <2>1. Mapped(Strip, Lead(i) ++ <<v>>) = Mapped(Strip, Lead(i)) ++ Mapped(Strip, <<v>>)
    <3>1. Lead(i) \in Seq(Token) /\ <<v>> \in Seq(Token)
      BY <1>1, CellTyped, OneTyped
    <3> DEFINE a == Lead(i)
               b == <<v>>
    <3> HIDE DEF a, b
    <3>2. a \in Seq(Token) /\ b \in Seq(Token) => Mapped(Strip, a ++ b) = Mapped(Strip, a) ++ Mapped(Strip, b)
      BY StripConcat
    <3> QED
      BY <3>1, <3>2 DEF a, b
  <2>2. Mapped(Strip, <<v>>) = <<v>>
    <3> HIDE DEF v
    <3> QED
      BY <1>1, StripParts
  <2>3. CASE kind = "object"
    <3> DEFINE a == Key(i)
               b == Colon
    <3>1. a \in Token /\ b \in Token /\ a # Blank /\ b # Blank
      <4>1. i \in 1 .. MaxMembers
        BY ComposeAssumption DEF Typed
      <4> QED
        BY <4>1, TokensTyped, TokenKinds
    <3>2. Lead(i) = <<a, b>> ++ Spaces /\ Entry(i, v) = <<a, b, v>>
      BY <2>3 DEF Lead, Entry
    <3> HIDE DEF a, b, v
    <3>3. <<a>> \in Seq(Token) /\ <<b>> \in Seq(Token) /\ <<a, b>> \in Seq(Token)
      BY <3>1, OneTyped
    <3>4. <<a, b, v>> = <<a, b>> ++ <<v>> /\ <<a, b>> = <<a>> ++ <<b>>
      BY <1>1, <3>1, TupleJoin
    <3>5. Mapped(Strip, <<a>> ++ <<b>>) = Mapped(Strip, <<a>>) ++ Mapped(Strip, <<b>>)
      BY <3>3, StripConcat
    <3>6. Mapped(Strip, <<a, b>> ++ Spaces) = Mapped(Strip, <<a, b>>) ++ Mapped(Strip, Spaces)
      BY <3>3, SpacesTyped, StripConcat
    <3>7. Mapped(Strip, <<a>>) = <<a>> /\ Mapped(Strip, <<b>>) = <<b>> /\ Mapped(Strip, Spaces) = <<>>
      BY <3>1, StripParts
    <3>8. Mapped(Strip, <<a, b>>) = <<a, b>>
      BY <3>4, <3>5, <3>7
    <3>9. <<a, b>> ++ <<>> = <<a, b>>
      BY <3>3, JoinEmpty
    <3>10. Mapped(Strip, Lead(i)) = <<a, b>>
      BY <3>2, <3>6, <3>7, <3>8, <3>9
    <3> QED
      BY <2>1, <2>2, <3>2, <3>4, <3>10
  <2>4. CASE kind # "object"
    <3>1. Lead(i) = <<>> /\ Entry(i, v) = <<v>>
      BY <2>4 DEF Lead, Entry
    <3>2. Mapped(Strip, <<>>) = <<>> /\ <<>> ++ <<v>> = <<v>>
      <4> HIDE DEF v
      <4> QED
        BY <1>1, StripParts, OneTyped, JoinEmpty
    <3> QED
      BY <2>1, <2>2, <3>1, <3>2
  <2> QED
    BY <2>3, <2>4
<1>4. i < count => Mapped(Strip, Gap(i)) = <<Comma>>
  <2> SUFFICES ASSUME i < count PROVE Mapped(Strip, Gap(i)) = <<Comma>>
    OBVIOUS
  <2> DEFINE c == <<Comma>>
  <2>1. c \in Seq(Token) /\ Mapped(Strip, c) = c
    BY TokensTyped, TokenKinds, OneTyped, StripParts
  <2>2. Gap(i) = Spaces ++ Separator(i) /\ Separator(i) = c ++ Spaces
    BY DEF Gap, Separator, ++
  <2> HIDE DEF c
  <2>3. c ++ Spaces \in Seq(Token)
    BY <2>1, SpacesTyped, JoinTwo
  <2>4. Mapped(Strip, c ++ Spaces) = Mapped(Strip, c) ++ Mapped(Strip, Spaces)
    BY <2>1, SpacesTyped, StripConcat
  <2>5. Mapped(Strip, Spaces ++ (c ++ Spaces)) = Mapped(Strip, Spaces) ++ Mapped(Strip, c ++ Spaces)
    BY <2>3, SpacesTyped, StripConcat
  <2>6. Mapped(Strip, Spaces) = <<>>
    BY StripParts
  <2>7. c ++ <<>> = c /\ <<>> ++ c = c
    BY <2>1, JoinEmpty
  <2>8. Mapped(Strip, Gap(i)) = c
    BY <2>1, <2>2, <2>4, <2>5, <2>6, <2>7
  <2> QED
    BY <2>8 DEF c
<1>5. CASE Gone(i)
  BY <1>5, StripParts, EmptySeq DEF Block, Reading
<1>6. CASE ~Gone(i) /\ LastKept(i)
  <2> DEFINE a == Lead(i) ++ <<v>>
  <2>1. Block(i) = a ++ <<>> /\ a \in Seq(Token) /\ Reading(i) = Entry(i, v)
    BY <1>6, BlockTyped DEF Block, Reading
  <2>2. a ++ <<>> = a
    <3> HIDE DEF a
    <3> QED
      BY <2>1, JoinEmpty
  <2> QED
    BY <1>2, <1>3, <2>1, <2>2
<1>7. CASE ~Gone(i) /\ ~LastKept(i)
  <2> DEFINE a == Lead(i) ++ <<v>>
  <2>1. Block(i) = a ++ Gap(i) /\ a \in Seq(Token) /\ Gap(i) \in Seq(Token)
    BY <1>7, BlockTyped, CellTyped DEF Block
  <2>2. i < count
    BY <1>7 DEF LastKept, Typed
  <2>3. Reading(i) = Entry(i, v) ++ <<Comma>>
    BY <1>7 DEF Reading, KeptRow
  <2>4. Mapped(Strip, a ++ Gap(i)) = Mapped(Strip, a) ++ Mapped(Strip, Gap(i))
    <3> HIDE DEF a
    <3> QED
      BY <2>1, StripConcat
  <2> QED
    BY <1>2, <1>3, <1>4, <2>1, <2>2, <2>3, <2>4
<1> QED
  BY <1>5, <1>6, <1>7

LEMMA ReadBlocksIs ==
  ASSUME Typed
  PROVE  /\ ReadBlocks = Joined(Readings, count)
         /\ Readings \in Seq(Seq(Token)) /\ Len(Readings) = count
<1>1. count \in Nat /\ count \in 0 .. Len(Blocks)
  BY SourceEnds, BlocksTyped
<1>2. ReadBlocks = Joined([i \in 1 .. Len(Blocks) |-> Mapped(Strip, Blocks[i])], count)
  <2>1. Blocks \in Seq(Seq(Token))
    BY BlocksTyped
  <2>2. count \in 0 .. Len(Blocks)
    BY <1>1
  <2> QED
    BY <2>1, <2>2, StripTyped, MappedJoined DEF ReadBlocks
<1>3. [i \in 1 .. Len(Blocks) |-> Mapped(Strip, Blocks[i])] = Readings
  <2>1. \A i \in 1 .. count : Mapped(Strip, Blocks[i]) = Reading(i)
    BY BlockRead DEF Blocks
  <2> QED
    BY <2>1, BlocksTyped DEF Readings
<1>4. Readings \in Seq(Seq(Token)) /\ Len(Readings) = count
  BY <1>1, BlockRead DEF Readings
<1> QED
  BY <1>2, <1>3, <1>4

\* What is read of an item that adds.
AddReading(k) ==
  IF Adding(k) THEN NeedsComma ++ Entry(edits[k].path, edits[k].value) ELSE <<>>
AddReadings == [k \in 1 .. Len(edits) |-> AddReading(k)]

LEMMA AddedEntry ==
  ASSUME Typed, NEW k \in 1 .. Len(edits), Adding(k)
  PROVE  /\ edits[k].path \in Spot /\ edits[k].value \in Token /\ edits[k].value # Blank
         /\ Entry(edits[k].path, edits[k].value) \in Seq(Token)
         /\ Mapped(Strip, Entry(edits[k].path, edits[k].value)) = Entry(edits[k].path, edits[k].value)
         /\ NewText(k) = Entry(edits[k].path, edits[k].value)
         /\ <<edits[k].path, edits[k].value>> \in Pair
<1>1. edits[k].path \in Spot /\ edits[k].value \in Token /\ <<edits[k].path, edits[k].value>> \in Pair
  BY PiecesTyped, RowOfPair
<1>2. edits[k].value # Blank
  <2>1. edits[k].value \in Value
    BY ValuesTyped DEF Adding
  <2> QED
    BY <2>1, ValueKinds DEF Value
<1>3. NewText(k) = Entry(edits[k].path, edits[k].value)
  BY DEF NewText, Entry
<1> QED
  BY <1>1, <1>2, <1>3, EntryTyped

LEMMA PushRead ==
  ASSUME Typed, NEW k \in 1 .. Len(edits)
  PROVE  Mapped(Strip, Push(k)) = AddReading(k) /\ AddReading(k) \in Seq(Token)
<1>1. CASE ~Adding(k)
  BY <1>1, StripParts, EmptySeq DEF Push, AddReading, Adding
<1>2. CASE Adding(k)
  <2> DEFINE e == Entry(edits[k].path, edits[k].value)
  <2>1. Push(k) = NeedsComma ++ e /\ AddReading(k) = NeedsComma ++ e
    BY <1>2, AddedEntry DEF Push, AddReading, Adding
  <2>2. e \in Seq(Token) /\ Mapped(Strip, e) = e
    BY <1>2, AddedEntry
  <2>3. NeedsComma \in Seq(Token) /\ Mapped(Strip, NeedsComma) = NeedsComma
    BY TokensTyped, TokenKinds, OneTyped, StripParts, EmptySeq DEF NeedsComma
  <2> HIDE DEF e
  <2>4. Mapped(Strip, NeedsComma ++ e) = Mapped(Strip, NeedsComma) ++ Mapped(Strip, e)
    BY <2>2, <2>3, StripConcat
  <2>5. NeedsComma ++ e \in Seq(Token)
    BY <2>2, <2>3, JoinTwo
  <2> QED
    BY <2>1, <2>2, <2>3, <2>4, <2>5
<1> QED
  BY <1>1, <1>2

LEMMA ReadPushesIs ==
  ASSUME Typed
  PROVE  /\ ReadPushes = Joined(AddReadings, Len(edits))
         /\ AddReadings \in Seq(Seq(Token)) /\ Len(AddReadings) = Len(edits)
         /\ Len(edits) \in Nat
<1>1. Len(edits) \in Nat /\ Len(edits) \in 0 .. Len(Pushes)
  BY PushesTyped
<1>2. ReadPushes = Joined([k \in 1 .. Len(Pushes) |-> Mapped(Strip, Pushes[k])], Len(edits))
  BY <1>1, PushesTyped, StripTyped, MappedJoined DEF ReadPushes
<1>3. [k \in 1 .. Len(Pushes) |-> Mapped(Strip, Pushes[k])] = AddReadings
  <2>1. \A k \in 1 .. Len(edits) : Mapped(Strip, Pushes[k]) = AddReading(k)
    BY PushRead DEF Pushes
  <2> QED
    BY <2>1, PushesTyped DEF AddReadings
<1>4. AddReadings \in Seq(Seq(Token)) /\ Len(AddReadings) = Len(edits)
  BY <1>1, PushRead DEF AddReadings
<1> QED
  BY <1>1, <1>2, <1>3, <1>4

\* A separator after the last member that is kept makes a row of every one of them.
LEMMA KeptRead ==
  ASSUME Typed, ~BothLastRemoved, SomeSurvive
  PROVE  ReadBlocks ++ <<Comma>> = Mapped(RowOf, Kept)
<1> DEFINE n == LastSurvivor
           c == <<Comma>>
<1>1. n \in 1 .. count /\ ~Gone(n) /\ LastKept(n) /\ count \in Nat
  BY LastSurvivorIs, SourceEnds
<1>2. /\ \A i \in 1 .. count : i < n => Readings[i] = KeptRows[i]
      /\ \A i \in 1 .. count : i > n => Readings[i] = <<>> /\ KeptRows[i] = <<>>
  BY LastSurvivorIs DEF Readings, Reading, KeptRows, KeptRow
<1>3. /\ Readings \in Seq(Seq(Token)) /\ Len(Readings) = count
      /\ KeptRows \in Seq(Seq(Token)) /\ Len(KeptRows) = count
  BY ReadBlocksIs, RowsAre
<1>4. c \in Seq(Token) /\ Readings[n] \in Seq(Token) /\ KeptRows[n] = Readings[n] ++ c
  <2>1. Readings[n] = Entry(n, ValueOf(n)) /\ KeptRows[n] = Entry(n, ValueOf(n)) ++ c
    BY <1>1 DEF Readings, Reading, KeptRows, KeptRow
  <2>2. Readings[n] \in Seq(Token)
    BY <1>1, BlockRead DEF Readings
  <2> QED
    BY <2>1, <2>2, TokensTyped, OneTyped
<1> HIDE DEF n, c
<1>5. Joined(Readings, count) = Joined(Readings, n) /\ Joined(KeptRows, count) = Joined(KeptRows, n)
  <2>1. n \in 0 .. count /\ count \in n .. count /\ \A i \in n + 1 .. count : i \in 1 .. count /\ i > n
    BY <1>1
  <2> QED
    BY <1>2, <1>3, <2>1, JoinedEmpty
<1>6. /\ Joined(Readings, n) = Joined(Readings, n - 1) ++ Readings[n]
      /\ Joined(KeptRows, n) = Joined(KeptRows, n - 1) ++ KeptRows[n]
  <2>1. n - 1 \in 0 .. count - 1 /\ (n - 1) + 1 = n
    BY <1>1
  <2>2. /\ Joined(Readings, (n - 1) + 1) = Joined(Readings, n - 1) ++ Readings[(n - 1) + 1]
        /\ Joined(KeptRows, (n - 1) + 1) = Joined(KeptRows, n - 1) ++ KeptRows[(n - 1) + 1]
    BY <1>3, <2>1, JoinedNext
  <2> QED
    BY <2>1, <2>2
<1>7. Joined(Readings, n - 1) = Joined(KeptRows, n - 1) /\ Joined(Readings, n - 1) \in Seq(Token)
  <2>1. n - 1 \in Nat /\ n - 1 \in 0 .. count /\ \A i \in 1 .. n - 1 : i \in 1 .. count /\ i < n
    BY <1>1
  <2>2. \A i \in 1 .. n - 1 : Readings[i] = KeptRows[i]
    BY <1>2, <2>1
  <2> QED
    BY <1>3, <2>1, <2>2, JoinedSame, JoinedIsASeq
<1>8. (Joined(Readings, n - 1) ++ Readings[n]) ++ c = Joined(Readings, n - 1) ++ (Readings[n] ++ c)
  BY <1>4, <1>7, Associative
<1>9. ReadBlocks ++ c = Joined(KeptRows, count)
  BY <1>4, <1>5, <1>6, <1>7, <1>8, ReadBlocksIs
<1> QED
  BY <1>9, RowsAre DEF c

\* Behind a member, every item that adds brings the separator in front of it.
LEMMA AddedRead ==
  ASSUME Typed, count > 0
  PROVE  ReadPushes ++ <<Comma>> = <<Comma>> ++ Mapped(RowOf, Added)
<1> DEFINE c == Comma
<1>1. \A k \in 1 .. Len(edits) :
        \/ AddReadings[k] = <<>> /\ AddedRows[k] = <<>>
        \/ \E x \in Seq(Token) : AddReadings[k] = <<c>> ++ x /\ AddedRows[k] = x ++ <<c>>
  <2> TAKE k \in 1 .. Len(edits)
  <2>1. CASE ~Adding(k)
    BY <2>1 DEF AddReadings, AddReading, AddedRows, AddedRow
  <2>2. CASE Adding(k)
    <3> DEFINE e == Entry(edits[k].path, edits[k].value)
    <3>1. e \in Seq(Token)
      BY <2>2, AddedEntry
    <3>2. AddReadings[k] = <<c>> ++ e /\ AddedRows[k] = e ++ <<c>>
      BY <2>2 DEF AddReadings, AddReading, AddedRows, AddedRow, NeedsComma, Typed
    <3> HIDE DEF e, c
    <3> QED
      BY <3>1, <3>2
  <2> QED
    BY <2>1, <2>2
<1>2. c \in Token
  BY TokensTyped
<1>3. Len(edits) \in 0 .. Len(AddReadings) /\ Len(AddedRows) = Len(AddReadings)
  BY ReadPushesIs, RowsAre
<1> HIDE DEF c
<1>4. Joined(AddReadings, Len(edits)) ++ <<c>> = <<c>> ++ Joined(AddedRows, Len(edits))
  <2> DEFINE s == AddReadings
             t == AddedRows
             m == Len(edits)
  <2>1. s \in Seq(Seq(Token)) /\ t \in Seq(Seq(Token)) /\ Len(t) = Len(s) /\ m \in 0 .. Len(s)
    BY <1>3, ReadPushesIs, RowsAre
  <2>2. Len(s) = Len(edits)
    BY ReadPushesIs
  <2>3. \A i \in 1 .. Len(s) : \/ s[i] = <<>> /\ t[i] = <<>>
                               \/ \E x \in Seq(Token) : s[i] = <<c>> ++ x /\ t[i] = x ++ <<c>>
    BY <1>1, <2>2
  <2> HIDE DEF s, t, m
  <2>4. Joined(s, m) ++ <<c>> = <<c>> ++ Joined(t, m)
    BY <1>2, <2>1, <2>3, JoinedShift
  <2> QED
    BY <2>4 DEF s, t, m
<1> QED
  BY <1>4, ReadPushesIs, RowsAre DEF c

\* A member that is kept, and an item that adds, are found in the result.
LEMMA InKept ==
  ASSUME Typed, NEW i \in 1 .. count, ~Gone(i)
  PROVE  \E j \in 1 .. Len(Kept) : Kept[j] = <<i, ValueOf(i)>>
<1> DEFINE s == KeptPieces
           x == <<i, ValueOf(i)>>
           m == count
<1>1. s \in Seq(Seq(Pair))
  BY PiecesTyped
<1>5. Len(s) = m /\ m \in Nat /\ Kept = Joined(s, m)
  BY PiecesTyped, SourceEnds
<1>2. s[i] = <<x>> /\ x \in Pair
  BY PiecesTyped DEF KeptPieces
<1>3. i \in 1 .. Len(s) /\ m \in i .. Len(s)
  BY <1>5
<1> HIDE DEF s, x, m
<1>4. /\ Len(Joined(s, i - 1)) \in Nat
      /\ Len(Joined(s, i - 1)) + 1 \in 1 .. Len(Joined(s, m))
      /\ Joined(s, m)[Len(Joined(s, i - 1)) + 1] = x
  BY <1>1, <1>2, <1>3, OnePlace
<1> QED
  BY <1>4, <1>5 DEF x

LEMMA AddedPlace ==
  ASSUME Typed, NEW k \in 1 .. Len(edits), Adding(k), NEW m \in k .. Len(edits)
  PROVE  /\ Len(Joined(AddedPieces, k - 1)) \in Nat
         /\ Len(Joined(AddedPieces, k - 1)) + 1 \in 1 .. Len(Joined(AddedPieces, m))
         /\ Joined(AddedPieces, m)[Len(Joined(AddedPieces, k - 1)) + 1]
              = <<edits[k].path, edits[k].value>>
<1> DEFINE s == AddedPieces
           x == <<edits[k].path, edits[k].value>>
<1>1. s \in Seq(Seq(Pair)) /\ Len(s) = Len(edits)
  BY PiecesTyped
<1>2. s[k] = <<x>> /\ x \in Pair
  BY PiecesTyped DEF AddedPieces
<1>3. k \in 1 .. Len(s) /\ m \in k .. Len(s)
  BY <1>1
<1> HIDE DEF s, x
<1>4. /\ Len(Joined(s, k - 1)) \in Nat
      /\ Len(Joined(s, k - 1)) + 1 \in 1 .. Len(Joined(s, m))
      /\ Joined(s, m)[Len(Joined(s, k - 1)) + 1] = x
  BY <1>1, <1>2, <1>3, OnePlace
<1> QED
  BY <1>4 DEF s, x

LEMMA InAdded ==
  ASSUME Typed, NEW k \in 1 .. Len(edits), Adding(k)
  PROVE  /\ \E j \in 1 .. Len(Added) : Added[j] = <<edits[k].path, edits[k].value>>
         /\ Added # <<>>
<1>1. Len(edits) \in k .. Len(edits) /\ Added = Joined(AddedPieces, Len(edits))
  BY PiecesTyped, LaidTyped
<1>2. /\ Len(Joined(AddedPieces, k - 1)) + 1 \in 1 .. Len(Added)
      /\ Added[Len(Joined(AddedPieces, k - 1)) + 1] = <<edits[k].path, edits[k].value>>
  BY <1>1, AddedPlace
<1>3. Added # <<>>
  BY <1>2, EmptySeq
<1> QED
  BY <1>2, <1>3

LEMMA ManyAdded ==
  ASSUME Typed, ManyAdds
  PROVE  Len(Added) >= 2
<1>1. PICK j, k \in 1 .. Len(edits) : j < k /\ Adding(j) /\ Adding(k)
  BY DEF ManyAdds
<1>2. Len(edits) \in k .. Len(edits) /\ k - 1 \in j .. Len(edits) /\ Added = Joined(AddedPieces, Len(edits))
  BY <1>1, PiecesTyped, LaidTyped
<1>3. Len(Joined(AddedPieces, k - 1)) + 1 \in 1 .. Len(Added)
  BY <1>1, <1>2, AddedPlace
<1>4. /\ Len(Joined(AddedPieces, j - 1)) + 1 \in 1 .. Len(Joined(AddedPieces, k - 1))
      /\ Len(Joined(AddedPieces, j - 1)) \in Nat /\ Len(Joined(AddedPieces, k - 1)) \in Nat
  BY <1>1, <1>2, AddedPlace
<1>5. Len(Added) \in Nat
  BY PiecesTyped, LenProperties
<1> QED
  BY <1>3, <1>4, <1>5

\* Whatever is in the result is a member that is kept or an item that adds.
LEMMA KeptFrom ==
  ASSUME Typed, NEW j \in 1 .. Len(Kept)
  PROVE  \E i \in 1 .. count : ~Gone(i) /\ Kept[j] = <<i, ValueOf(i)>>
<1> DEFINE s == KeptPieces
           m == count
<1>1. s \in Seq(Seq(Pair))
  BY PiecesTyped
<1>2. m \in 0 .. Len(s) /\ Kept = Joined(s, m)
  BY PiecesTyped, SourceEnds
<1> HIDE DEF s, m
<1>3. PICK i \in 1 .. m : \E q \in 1 .. Len(s[i]) : Joined(s, m)[j] = s[i][q]
  <2>1. m \in 0 .. Len(s)
    BY <1>2
  <2>2. \A p \in 1 .. Len(Joined(s, m)) : InPieces(s, m, Joined(s, m)[p])
    BY <1>1, <2>1, FromPiece
  <2>3. j \in 1 .. Len(Joined(s, m))
    BY <1>2
  <2> QED
    BY <2>2, <2>3 DEF InPieces
<1>4. PICK q \in 1 .. Len(s[i]) : Kept[j] = s[i][q]
  BY <1>2, <1>3
<1>5. s[i] = IF Gone(i) THEN <<>> ELSE <<<<i, ValueOf(i)>>>>
  BY DEF s, m, KeptPieces
<1>6. ~Gone(i)
  BY <1>4, <1>5, EmptySeq
<1> DEFINE x == <<i, ValueOf(i)>>
<1>7. s[i] = <<x>>
  BY <1>5, <1>6
<1> HIDE DEF x
<1>8. Kept[j] = x
  BY <1>4, <1>7
<1> QED
  BY <1>6, <1>8 DEF m, x

LEMMA AddedFrom ==
  ASSUME Typed, NEW j \in 1 .. Len(Added)
  PROVE  \E k \in 1 .. Len(edits) :
           Adding(k) /\ Added[j] = <<edits[k].path, edits[k].value>>
<1> DEFINE s == AddedPieces
           m == Len(edits)
<1>1. s \in Seq(Seq(Pair))
  BY PiecesTyped
<1>2. m \in 0 .. Len(s) /\ Added = Joined(s, m)
  BY PiecesTyped, LaidTyped
<1> HIDE DEF s, m
<1>3. PICK k \in 1 .. m : \E q \in 1 .. Len(s[k]) : Joined(s, m)[j] = s[k][q]
  <2>1. m \in 0 .. Len(s)
    BY <1>2
  <2>2. \A p \in 1 .. Len(Joined(s, m)) : InPieces(s, m, Joined(s, m)[p])
    BY <1>1, <2>1, FromPiece
  <2>3. j \in 1 .. Len(Joined(s, m))
    BY <1>2
  <2> QED
    BY <2>2, <2>3 DEF InPieces
<1>4. PICK q \in 1 .. Len(s[k]) : Added[j] = s[k][q]
  BY <1>2, <1>3
<1> DEFINE x == <<edits[k].path, edits[k].value>>
<1>5. s[k] = IF Adding(k) THEN <<x>> ELSE <<>>
  BY DEF s, m, AddedPieces
<1>6. Adding(k)
  BY <1>4, <1>5, EmptySeq
<1>7. s[k] = <<x>>
  BY <1>5, <1>6
<1> HIDE DEF x
<1>8. Added[j] = x
  BY <1>4, <1>7
<1> QED
  BY <1>6, <1>8 DEF m, x

\* The selections of items whose result is a document again.
Settled ==
  /\ ~BothLastRemoved
  /\ SomeSurvive \/ (count = 0 /\ ~ManyAdds) \/ \A k \in 1 .. Len(edits) : ~Adding(k)

Result == Kept ++ Added

LEMMA ResultTyped ==
  ASSUME Typed
  PROVE  /\ Result \in Seq(Pair) /\ Len(Result) = Len(Kept) + Len(Added)
         /\ Mapped(RowOf, Result) = Mapped(RowOf, Kept) ++ Mapped(RowOf, Added)
         /\ Mapped(RowOf, Kept) \in Seq(Token) /\ Mapped(RowOf, Added) \in Seq(Token)
         /\ Len(Kept) \in Nat /\ Len(Added) \in Nat
<1>1. Kept \in Seq(Pair) /\ Added \in Seq(Pair)
  BY PiecesTyped
<1>2. Result \in Seq(Pair) /\ Len(Result) = Len(Kept) + Len(Added)
  BY <1>1, JoinTwo DEF Result
<1>3. Mapped(RowOf, Result) = Mapped(RowOf, Kept) ++ Mapped(RowOf, Added)
  <2> DEFINE a == Kept
             b == Added
             g == RowOf
             U == Token
  <2>1. a \in Seq(Pair) /\ b \in Seq(Pair)
    BY <1>1
  <2>2. g \in [Pair -> Seq(U)]
    BY RowsTyped
  <2> HIDE DEF a, b, g, U
  <2>3. Mapped(g, a ++ b) = Mapped(g, a) ++ Mapped(g, b)
    BY <2>1, <2>2, MappedConcat
  <2> QED
    BY <2>3 DEF a, b, g, Result
<1>4. Mapped(RowOf, Kept) \in Seq(Token) /\ Mapped(RowOf, Added) \in Seq(Token)
  BY <1>1, RowsTyped, MappedIsASeq
<1> QED
  BY <1>1, <1>2, <1>3, <1>4, LenProperties

\* Nothing is kept, or nothing added, exactly when no member survives and no item adds.
LEMMA NothingKept ==
  ASSUME Typed, ~BothLastRemoved
  PROVE  /\ SomeSurvive => Len(Kept) > 0
         /\ ~SomeSurvive => Kept = <<>> /\ ReadBlocks = <<>>
<1>1. ASSUME SomeSurvive PROVE Len(Kept) > 0
  <2>1. LastSurvivor \in 1 .. count /\ ~Gone(LastSurvivor)
    BY <1>1, LastSurvivorIs
  <2>2. PICK j \in 1 .. Len(Kept) : Kept[j] = <<LastSurvivor, ValueOf(LastSurvivor)>>
    BY <2>1, InKept
  <2> QED
    BY <2>2, PiecesTyped, LenProperties
<1>2. ASSUME ~SomeSurvive PROVE Kept = <<>> /\ ReadBlocks = <<>>
  <2>1. \A i \in 1 .. count : Gone(i)
    BY <1>2 DEF SomeSurvive, Typed
  <2>2. count \in 0 .. count /\ count \in Nat
    BY SourceEnds
  <2>3. \A i \in 0 + 1 .. count : KeptPieces[i] = <<>>
    BY <2>1 DEF KeptPieces
  <2>4. 0 \in 0 .. Len(KeptPieces) /\ count \in 0 .. Len(KeptPieces)
    BY <2>2, PiecesTyped
  <2>5. Joined(KeptPieces, count) = Joined(KeptPieces, 0)
    BY <2>3, <2>4, PiecesTyped, JoinedEmpty
  <2>6. Joined(Blocks, count) = <<>>
    BY <1>2, BlocksPlain
  <2> QED
    BY <2>5, <2>6, JoinedNone, PiecesTyped, StripParts DEF ReadBlocks
<1> QED
  BY <1>1, <1>2

LEMMA NothingAdded ==
  ASSUME Typed, \A k \in 1 .. Len(edits) : ~Adding(k)
  PROVE  Added = <<>> /\ ReadPushes = <<>>
<1> DEFINE m == Len(edits)
<1>1. /\ 0 \in 0 .. Len(AddedPieces) /\ m \in 0 .. Len(AddedPieces)
      /\ 0 \in 0 .. Len(AddReadings) /\ m \in 0 .. Len(AddReadings)
      /\ m \in Nat
  BY PiecesTyped, ReadPushesIs
<1>2. /\ \A i \in 0 + 1 .. m : AddedPieces[i] = <<>>
      /\ \A i \in 0 + 1 .. m : AddReadings[i] = <<>>
  BY DEF AddedPieces, AddReadings, AddReading
<1> HIDE DEF m
<1>3. Joined(AddedPieces, m) = Joined(AddedPieces, 0) /\ Joined(AddReadings, m) = Joined(AddReadings, 0)
  BY <1>1, <1>2, PiecesTyped, ReadPushesIs, JoinedEmpty
<1> QED
  BY <1>3, JoinedNone, PiecesTyped, ReadPushesIs DEF m

\* The only item that adds is the only row.
LEMMA OneAdded ==
  ASSUME Typed, count = 0, ~ManyAdds, NEW k \in 1 .. Len(edits), Adding(k)
  PROVE  /\ Added = <<<<edits[k].path, edits[k].value>>>>
         /\ Mapped(RowOf, Added) = ReadPushes ++ <<Comma>>
<1> DEFINE e == Entry(edits[k].path, edits[k].value)
           m == Len(edits)
           p == <<edits[k].path, edits[k].value>>
<1>1. \A i \in 1 .. m : i # k => ~Adding(i)
  BY OneAdd
<1>2. /\ \A i \in 1 .. m : i # k => AddedPieces[i] = <<>>
      /\ \A i \in 1 .. m : i # k => AddReadings[i] = <<>>
      /\ \A i \in 1 .. m : i # k => AddedRows[i] = <<>>
      /\ AddedPieces[k] = <<p>> /\ AddReadings[k] = <<>> ++ e /\ AddedRows[k] = e ++ <<Comma>>
  BY <1>1 DEF AddedPieces, AddReadings, AddReading, AddedRows, AddedRow, NeedsComma
<1>3. <<>> ++ e = e
  <2>1. e \in Seq(Token)
    BY AddedEntry
  <2> HIDE DEF e
  <2> QED
    BY <2>1, JoinEmpty
<1> HIDE DEF e, m, p
<1>4. /\ AddedPieces \in Seq(Seq(Pair)) /\ Len(AddedPieces) = m
      /\ AddReadings \in Seq(Seq(Token)) /\ Len(AddReadings) = m
      /\ AddedRows \in Seq(Seq(Token)) /\ Len(AddedRows) = m /\ k \in 1 .. m
  BY PiecesTyped, ReadPushesIs, RowsAre DEF m
<1>5. Joined(AddedPieces, m) = AddedPieces[k]
  BY <1>2, <1>4, OnePiece
<1>6. Joined(AddReadings, m) = AddReadings[k]
  BY <1>2, <1>4, OnePiece
<1>7. Joined(AddedRows, m) = AddedRows[k]
  BY <1>2, <1>4, OnePiece
<1>8. Added = <<p>>
  BY <1>2, <1>5, PiecesTyped DEF m
<1>9. Mapped(RowOf, Added) = e ++ <<Comma>> /\ ReadPushes = e
  BY <1>2, <1>3, <1>6, <1>7, RowsAre, ReadPushesIs DEF m
<1> QED
  BY <1>8, <1>9 DEF p

\* Between the brackets of the result are the rows of what the items mean.
LEMMA ResultRead ==
  ASSUME Typed, Settled
  PROVE  Inner(Compose(edits)) = IF Result = <<>> THEN <<Comma>> ELSE Mapped(RowOf, Result)
<1> DEFINE c == <<Comma>>
<1>1. /\ Inner(Compose(edits)) = (ReadBlocks ++ ReadPushes) ++ c
      /\ ReadBlocks \in Seq(Token) /\ ReadPushes \in Seq(Token)
  <2>1. count > 0 \/ kind = "object" \/ ~ManyAdds
    <3>1. SomeSurvive => count > 0
      BY DEF SomeSurvive
    <3>2. (\A k \in 1 .. Len(edits) : ~Adding(k)) => ~ManyAdds
      BY DEF ManyAdds
    <3> QED
      BY <3>1, <3>2 DEF Settled
  <2> QED
    BY <2>1, InnerIs DEF Settled
<1>2. c \in Seq(Token)
  BY TokensTyped, OneTyped
<1>3. CASE SomeSurvive
  <2>1. count > 0 /\ ReadBlocks ++ c = Mapped(RowOf, Kept) /\ ReadPushes ++ c = c ++ Mapped(RowOf, Added)
    BY <1>3, KeptRead, AddedRead DEF Settled, SomeSurvive
  <2> DEFINE b == ReadBlocks
             r == ReadPushes
             a == Mapped(RowOf, Added)
  <2>2. a \in Seq(Token) /\ b \in Seq(Token) /\ r \in Seq(Token)
    BY <1>1, ResultTyped
  <2>3. r ++ c = c ++ a /\ b ++ c = Mapped(RowOf, Kept)
    BY <2>1
  <2> HIDE DEF c, a, b, r
  <2>4. (b ++ r) ++ c = b ++ (r ++ c)
    BY <1>2, <2>2, Associative
  <2>5. (b ++ c) ++ a = b ++ (c ++ a)
    BY <1>2, <2>2, Associative
  <2>6. Inner(Compose(edits)) = Mapped(RowOf, Kept) ++ a
    BY <1>1, <2>3, <2>4, <2>5 DEF b, r
  <2>7. Result # <<>>
    <3>1. Len(Result) > 0
      BY <1>3, NothingKept, ResultTyped DEF Settled
    <3> QED
      BY <3>1, EmptySeq
  <2> QED
    BY <2>6, <2>7, ResultTyped DEF a
<1>4. CASE ~SomeSurvive /\ \A k \in 1 .. Len(edits) : ~Adding(k)
  <2>1. ReadBlocks = <<>> /\ ReadPushes = <<>> /\ Kept = <<>> /\ Added = <<>>
    BY <1>4, NothingKept, NothingAdded DEF Settled
  <2>2. <<>> ++ <<>> = <<>>
    BY SpacesTyped, EmptySeq, JoinEmpty
  <2>3. <<>> ++ c = c
    <3> HIDE DEF c
    <3> QED
      BY <1>2, JoinEmpty
  <2> QED
    BY <1>1, <2>1, <2>2, <2>3 DEF Result
<1>5. CASE ~SomeSurvive /\ \E k \in 1 .. Len(edits) : Adding(k)
  <2>1. count = 0 /\ ~ManyAdds
    BY <1>5 DEF Settled
  <2>2. PICK k \in 1 .. Len(edits) : Adding(k)
    BY <1>5
  <2>3. /\ Mapped(RowOf, Added) = ReadPushes ++ c
        /\ Added = <<<<edits[k].path, edits[k].value>>>>
    BY <2>1, <2>2, OneAdded
  <2>4. ReadBlocks = <<>> /\ Kept = <<>>
    BY <1>5, NothingKept DEF Settled
  <2>5. <<>> ++ ReadPushes = ReadPushes /\ <<>> ++ Added = Added
    BY <1>1, PiecesTyped, JoinEmpty
  <2>6. Result = Added /\ Added # <<>>
    BY <2>3, <2>4, <2>5 DEF Result
  <2> QED
    BY <1>1, <2>3, <2>4, <2>5, <2>6
<1> QED
  BY <1>3, <1>4, <1>5

\* Where the result has the path of an item it has its value.
LEMMA ResultValue ==
  ASSUME Typed, NEW k \in 1 .. Len(edits), edits[k].operation # "remove",
         NEW j \in 1 .. Len(Result), Result[j][1] = edits[k].path
  PROVE  Result[j][2] = edits[k].value
<1>1. Kept \in Seq(Pair) /\ Added \in Seq(Pair)
  BY PiecesTyped
<1>2. Len(Result) = Len(Kept) + Len(Added) /\ Len(Kept) \in Nat /\ Len(Added) \in Nat
  BY ResultTyped
<1>3. CASE j \in 1 .. Len(Kept)
  <2>1. Result[j] = Kept[j]
    BY <1>1, <1>3, JoinLeft DEF Result
  <2>2. PICK i \in 1 .. count : Kept[j] = <<i, ValueOf(i)>>
    BY <1>3, KeptFrom
  <2>3. edits[k].path = i /\ Result[j][2] = ValueOf(i)
    BY <2>1, <2>2
  <2>4. edits[k].operation = "replace"
    BY <2>3, RankFacts DEF Typed, ValidEdits
  <2> QED
    BY <2>3, <2>4, BlockTyped
<1>4. CASE j \notin 1 .. Len(Kept)
  <2> DEFINE q == j - Len(Kept)
  <2>1. q \in 1 .. Len(Added) /\ Len(Kept) + q = j
    BY <1>2, <1>4
  <2> HIDE DEF q
  <2>2. Result[Len(Kept) + q] = Added[q]
    BY <1>1, <2>1, JoinRight DEF Result
  <2>3. PICK l \in 1 .. Len(edits) : Added[q] = <<edits[l].path, edits[l].value>>
    BY <2>1, AddedFrom
  <2>4. edits[l].path = edits[k].path /\ Result[j][2] = edits[l].value
    BY <2>1, <2>2, <2>3
  <2>5. l = k
    BY <2>4 DEF Typed, ValidEdits
  <2> QED
    BY <2>4, <2>5
<1> QED
  BY <1>3, <1>4

\* An array member in front of which nothing is removed keeps its position.
LEMMA ResultInPlace ==
  ASSUME Typed, kind = "array", NEW k \in 1 .. Len(edits), edits[k].operation # "remove",
         \A l \in 1 .. Len(edits) : Adding(k) /\ Adding(l) => l = k,
         \A i \in 1 .. count : Gone(i) => ~(i < edits[k].path),
         Adding(k) => edits[k].path = count + 1
  PROVE  /\ edits[k].path \in 1 .. Len(Result)
         /\ Result[edits[k].path][2] = edits[k].value
<1> DEFINE p == edits[k].path
           v == edits[k].value
<1>1. Kept \in Seq(Pair) /\ Added \in Seq(Pair)
  BY PiecesTyped
<1>2. /\ Len(Result) = Len(Kept) + Len(Added) /\ Len(Kept) \in Nat /\ Len(Added) \in Nat
      /\ count \in Nat /\ Len(edits) \in Nat
  BY ResultTyped, SourceEnds, LaidTyped
<1>3. p \in 1 .. count + 1 /\ (Adding(k) <=> p = count + 1)
  <2>1. ~Adding(k) => p \in 1 .. count
    BY RankFacts DEF Adding
  <2> QED
    BY <1>2, <2>1
<1>4. \A i \in 1 .. count : i < p => KeptPieces[i] = <<<<i, ValueOf(i)>>>>
  BY DEF KeptPieces
<1>5. KeptPieces \in Seq(Seq(Pair)) /\ Len(KeptPieces) = count
  BY PiecesTyped
<1>6. Kept = Joined(KeptPieces, count)
  BY PiecesTyped
<1>7. Len(Joined(KeptPieces, p - 1)) = p - 1
  <2>1. p - 1 \in 0 .. Len(KeptPieces)
    BY <1>2, <1>3, <1>5
  <2>2. ASSUME NEW i \in 1 .. p - 1 PROVE Len(KeptPieces[i]) = 1
    <3>1. i \in 1 .. count /\ i < p
      BY <1>2, <1>3
    <3> DEFINE x == <<i, ValueOf(i)>>
    <3>2. KeptPieces[i] = <<x>>
      BY <1>4, <3>1
    <3> HIDE DEF x
    <3> QED
      BY <3>2
  <2> HIDE DEF p
  <2> QED
    BY <1>5, <2>1, <2>2, OneEach
<1>8. CASE Adding(k)
  <2>1. Len(Kept) = count
    BY <1>2, <1>3, <1>6, <1>7, <1>8
  <2>2. Joined(AddedPieces, k - 1) = Joined(AddedPieces, 0)
    <3>1. \A i \in 0 + 1 .. k - 1 : AddedPieces[i] = <<>>
      BY <1>2, <1>8 DEF AddedPieces
    <3>2. 0 \in 0 .. Len(edits) /\ k - 1 \in 0 .. Len(edits)
      BY <1>2
    <3>3. AddedPieces \in Seq(Seq(Pair)) /\ Len(AddedPieces) = Len(edits)
      BY PiecesTyped
    <3> QED
      BY <3>1, <3>2, <3>3, JoinedEmpty
  <2>3. Len(Joined(AddedPieces, k - 1)) = 0
    BY <2>2, JoinedNone, EmptySeq
  <2>4. Len(edits) \in k .. Len(edits) /\ Added = Joined(AddedPieces, Len(edits))
    BY <1>2, PiecesTyped
  <2>5. 0 + 1 \in 1 .. Len(Added) /\ Added[0 + 1] = <<p, v>>
    BY <1>8, <2>3, <2>4, AddedPlace
  <2>6. Result[Len(Kept) + 1] = Added[1]
    BY <1>1, <2>5, JoinRight DEF Result
  <2> QED
    BY <1>2, <1>8, <2>1, <2>5, <2>6
<1>9. CASE ~Adding(k)
  <2>1. p \in 1 .. count /\ ~Gone(p) /\ ValueOf(p) = v
    <3>1. p \in 1 .. count /\ edits[k].operation = "replace"
      BY <1>9, RankFacts DEF Adding
    <3> QED
      BY <3>1, BlockTyped
  <2> DEFINE x == <<p, v>>
             s == KeptPieces
             m == count
  <2>2. s[p] = <<x>> /\ x \in Pair
    BY <2>1, PiecesTyped DEF KeptPieces
  <2>3. p \in 1 .. Len(s) /\ m \in p .. Len(s) /\ s \in Seq(Seq(Pair))
    BY <1>2, <1>5, <2>1
  <2>4. Len(Joined(s, p - 1)) = p - 1 /\ (p - 1) + 1 = p /\ Kept = Joined(s, m)
    BY <1>2, <1>6, <1>7, <2>1
  <2> HIDE DEF x, s, m, p
  <2>5. /\ Len(Joined(s, p - 1)) + 1 \in 1 .. Len(Joined(s, m))
        /\ Joined(s, m)[Len(Joined(s, p - 1)) + 1] = x
    BY <2>2, <2>3, OnePlace
  <2>6. p \in 1 .. Len(Kept) /\ Kept[p] = x
    BY <2>4, <2>5
  <2>7. Result[p] = Kept[p]
    BY <1>1, <2>6, JoinLeft DEF Result
  <2>8. p \in 1 .. Len(Result) /\ Result[p][2] = v
    BY <1>2, <2>6, <2>7 DEF x
  <2> QED
    BY <2>8 DEF p
<1> QED
  BY <1>8, <1>9

LEMMA RowTokens ==
  ASSUME Typed, NEW x \in Pair
  PROVE  /\ RowOf[x] \in Seq(Token) /\ Len(RowOf[x]) = Stride
         /\ RowOf[x][Stride] = Comma /\ RowOf[x][Stride - 1] = x[2] /\ IsValue(x[2])
         /\ kind = "object" => RowOf[x][1] = Key(x[1]) /\ RowOf[x][2] = Colon
<1> DEFINE e == Entry(x[1], x[2])
           c == <<Comma>>
<1>1. x[1] \in Spot /\ x[2] \in Token /\ x[2] \in Value
  BY DEF Pair, Value, Token
<1>2. /\ e \in Seq(Token) /\ e ++ c \in Seq(Token) /\ Len(e) = Stride - 1 /\ Len(e ++ c) = Stride
      /\ kind = "object" => e[1] = Key(x[1]) /\ e[2] = Colon /\ e[3] = x[2]
      /\ kind # "object" => e[1] = x[2]
  BY <1>1, EntryTyped
<1>3. RowOf[x] = e ++ c
  BY DEF RowOf
<1>4. c \in Seq(Token) /\ Len(c) = 1 /\ c[1] = Comma
  BY TokensTyped, OneTyped
<1>5. IsValue(x[2])
  BY <1>1, ValueKinds DEF Value
<1>6. Stride \in {2, 4} /\ (kind = "object" <=> Stride = 4)
  BY DEF Stride
<1> HIDE DEF e, c
<1>7. \A i \in 1 .. Len(e) : (e ++ c)[i] = e[i]
  BY <1>2, <1>4, JoinLeft
<1>8. (e ++ c)[Len(e) + 1] = c[1]
  <2>1. e \in Seq(Token) /\ c \in Seq(Token)
    BY <1>2, <1>4
  <2>2. \A i \in 1 .. Len(c) : (e ++ c)[Len(e) + i] = c[i]
    BY ONLY <2>1, JoinRight
  <2> QED
    BY <1>4, <2>2
<1>9. (e ++ c)[Stride] = Comma
  <2>1. Len(e) + 1 = Stride
    BY <1>2, <1>6
  <2> QED
    BY <1>4, <1>8, <2>1
<1>10. CASE kind = "object"
  <2>1. Len(e) = 3 /\ Stride - 1 = 3
    BY <1>2, <1>6, <1>10
  <2>2. (e ++ c)[1] = e[1] /\ (e ++ c)[2] = e[2] /\ (e ++ c)[3] = e[3]
    BY <1>7, <2>1
  <2> QED
    BY <1>2, <1>3, <1>5, <1>9, <1>10, <2>1, <2>2
<1>11. CASE kind # "object"
  <2>1. Len(e) = 1 /\ Stride - 1 = 1
    BY <1>2, <1>6, <1>11
  <2>2. (e ++ c)[1] = e[1]
    BY <1>7, <2>1
  <2> QED
    BY <1>2, <1>3, <1>5, <1>9, <1>11, <2>1, <2>2
<1> QED
  BY <1>10, <1>11

\* Token q of row j.
LEMMA RowsInPlace ==
  ASSUME Typed, NEW all \in Seq(Pair)
  PROVE  /\ Mapped(RowOf, all) \in Seq(Token) /\ Len(Mapped(RowOf, all)) = Len(all) * Stride
         /\ \A j \in 1 .. Len(all), q \in 1 .. Stride :
              Nth(Mapped(RowOf, all), j, q) = RowOf[all[j]][q]
<1> DEFINE s == [p \in 1 .. Len(all) |-> RowOf[all[p]]]
           m == Len(all)
<1>1. m \in Nat /\ Len(s) = m /\ s \in Seq(Seq(Token)) /\ m \in 0 .. Len(s)
  <2>1. s \in Seq(Seq(Token))
    BY RowsTyped, MappedPieces
  <2> QED
    BY <2>1, LenProperties
<1>2. \A i \in 1 .. Len(s) : Len(s[i]) = Stride /\ s[i] = RowOf[all[i]]
  <2> TAKE i \in 1 .. Len(s)
  <2>1. all[i] \in Pair /\ i \in 1 .. Len(all)
    BY <1>1, ElementOfSeq
  <2> QED
    BY <2>1, RowTokens
<1>3. Stride \in {2, 3, 4}
  BY DEF Stride
<1>4. Mapped(RowOf, all) = Joined(s, m)
  BY DEF Mapped
<1>5. Mapped(RowOf, all) \in Seq(Token)
  BY RowsTyped, MappedIsASeq
<1> HIDE DEF s, m
<1>6. /\ Len(Joined(s, m)) = m * Stride
      /\ \A j \in 1 .. m, q \in 1 .. Stride : Joined(s, m)[(j - 1) * Stride + q] = s[j][q]
  <2> DEFINE d == Stride
  <2>1. d \in {2, 3, 4} /\ OfLength(s, d)
    BY <1>2, <1>3 DEF OfLength
  <2> HIDE DEF d
  <2>2. /\ Len(Joined(s, m)) = Times(m, d)
        /\ \A j \in 1 .. m, q \in 1 .. d : Joined(s, m)[Place(d, j, q)] = s[j][q]
    BY <1>1, <2>1, EqualPieces
  <2> QED
    BY <2>2 DEF d, Place, Times
<1>7. \A j \in 1 .. m, q \in 1 .. Stride : Nth(Joined(s, m), j, q) = RowOf[all[j]][q]
  <2> TAKE j \in 1 .. m, q \in 1 .. Stride
  <2>1. Nth(Joined(s, m), j, q) = Joined(s, m)[(j - 1) * Stride + q]
    BY DEF Nth
  <2>2. Joined(s, m)[(j - 1) * Stride + q] = s[j][q]
    BY <1>6
  <2>3. s[j] = RowOf[all[j]]
    BY <1>1, <1>2
  <2> QED
    BY <2>1, <2>2, <2>3
<1> QED
  BY <1>4, <1>5, <1>6, <1>7 DEF m

\* The result is a document again, and its members are what the items mean.
LEMMA ResultIsExact ==
  ASSUME Typed, Settled
  PROVE  IsDocument(Compose(edits)) /\ Members(Compose(edits)) = Approved
<1> DEFINE inner == Inner(Compose(edits))
           n == Len(Result)
<1>1. Result \in Seq(Pair) /\ n \in Nat /\ Result = Kept \o Added
  BY ResultTyped, LenProperties DEF Result, ++
<1>2. Stride \in {2, 4}
  BY DEF Stride
<1>3. Approved = [j \in 1 .. n |-> <<IF kind = "object" THEN Result[j][1] ELSE j, Result[j][2]>>]
  BY <1>1 DEF Approved
<1>4. Members(Compose(edits)) =
        [j \in 1 .. Len(inner) \div Stride |->
           <<IF kind = "object" THEN Nth(inner, j, 1)[2] ELSE j, Nth(inner, j, Stride - 1)>>]
  BY DEF Members
<1>5. CASE Result = <<>>
  <2>1. inner = <<Comma>> /\ n = 0
    BY <1>5, ResultRead, EmptySeq
  <2>2. Len(inner) \div Stride = 0
    BY <1>2, <2>1
  <2>3. IsDocument(Compose(edits))
    BY <2>1 DEF IsDocument
  <2> HIDE DEF inner, n
  <2> QED
    BY <1>3, <1>4, <2>1, <2>2, <2>3
<1>6. CASE Result # <<>>
  <2>1. inner = Mapped(RowOf, Result) /\ n > 0
    BY <1>1, <1>6, ResultRead, EmptySeq
  <2>2. /\ Len(inner) = n * Stride
        /\ \A j \in 1 .. n, q \in 1 .. Stride : Nth(inner, j, q) = RowOf[Result[j]][q]
    <3> DEFINE all == Result
    <3>1. all \in Seq(Pair)
      BY <1>1
    <3> HIDE DEF all
    <3>2. /\ Len(Mapped(RowOf, all)) = Len(all) * Stride
          /\ \A j \in 1 .. Len(all), q \in 1 .. Stride :
               Nth(Mapped(RowOf, all), j, q) = RowOf[all[j]][q]
      BY <3>1, RowsInPlace
    <3> QED
      BY <2>1, <3>2 DEF all
  <2>3. Len(inner) > 1 /\ Len(inner) % Stride = 0 /\ Len(inner) \div Stride = n
    <3>1. Stride = 2 \/ Stride = 4
      BY <1>2
    <3>2. n \in Nat /\ n > 0 /\ Len(inner) = n * Stride
      BY <1>1, <2>1, <2>2
    <3> HIDE DEF n, inner
    <3>3. CASE Stride = 2
      BY <3>2, <3>3
    <3>4. CASE Stride = 4
      BY <3>2, <3>4
    <3> QED
      BY <3>1, <3>3, <3>4
  <2>4. ASSUME NEW j \in 1 .. n
        PROVE  /\ Nth(inner, j, Stride) = Comma /\ Nth(inner, j, Stride - 1) = Result[j][2]
               /\ IsValue(Result[j][2])
               /\ kind = "object" => /\ Nth(inner, j, 1) = Key(Result[j][1])
                                     /\ Nth(inner, j, 2) = Colon
    <3>1. Result[j] \in Pair
      BY <1>1, ElementOfSeq
    <3>2. {1, 2, Stride - 1, Stride} \subseteq 1 .. Stride
      BY <1>2
    <3> QED
      BY <2>2, <3>1, <3>2, RowTokens
  <2>5. \A j \in 1 .. n : kind = "object" => /\ Nth(inner, j, 1)[1] = "key"
                                            /\ Nth(inner, j, 1)[2] = Result[j][1]
    BY <2>4, TokenKinds
  <2> HIDE DEF n
  <2>6. IsDocument(Compose(edits))
    BY <2>3, <2>4, <2>5 DEF IsDocument
  <2> HIDE DEF inner
  <2>7. Members(Compose(edits)) = Approved
    BY <1>3, <1>4, <2>3, <2>4, <2>5
  <2> QED
    BY <2>6, <2>7
<1> QED
  BY <1>5, <1>6

-------------------------------------------------------------------------------
\* The selections that are not settled do not get a preview.
LEMMA EntryTokens ==
  ASSUME Typed, kind = "object", NEW x \in Pair
  PROVE  EntryOf[x] \in Seq(Token) /\ Len(EntryOf[x]) = 3 /\ EntryOf[x][1] = Key(x[1])
<1>1. x[1] \in Spot /\ x[2] \in Token
  BY DEF Pair, Value, Token
<1>2. EntryOf[x] = Entry(x[1], x[2]) /\ Stride - 1 = 3
  BY DEF EntryOf, Stride
<1> QED
  BY <1>1, <1>2, EntryTyped

LEMMA EntriesInPlace ==
  ASSUME Typed, kind = "object", NEW all \in Seq(Pair)
  PROVE  /\ Mapped(EntryOf, all) \in Seq(Token) /\ Len(Mapped(EntryOf, all)) = Len(all) * 3
         /\ \A j \in 1 .. Len(all), q \in 1 .. 3 :
              Mapped(EntryOf, all)[(j - 1) * 3 + q] = EntryOf[all[j]][q]
<1> DEFINE s == [p \in 1 .. Len(all) |-> EntryOf[all[p]]]
           m == Len(all)
<1>1. m \in Nat /\ Len(s) = m /\ s \in Seq(Seq(Token)) /\ m \in 0 .. Len(s)
  <2>1. s \in Seq(Seq(Token))
    BY RowsTyped, MappedPieces
  <2> QED
    BY <2>1, LenProperties
<1>2. \A i \in 1 .. Len(s) : Len(s[i]) = 3 /\ s[i] = EntryOf[all[i]]
  <2> TAKE i \in 1 .. Len(s)
  <2>1. all[i] \in Pair /\ i \in 1 .. Len(all)
    BY <1>1, ElementOfSeq
  <2> QED
    BY <2>1, EntryTokens
<1>3. Mapped(EntryOf, all) = Joined(s, m)
  BY DEF Mapped
<1>4. Mapped(EntryOf, all) \in Seq(Token)
  BY RowsTyped, MappedIsASeq
<1> HIDE DEF s, m
<1>5. /\ Len(Joined(s, m)) = m * 3
      /\ \A j \in 1 .. m, q \in 1 .. 3 : Joined(s, m)[(j - 1) * 3 + q] = s[j][q]
  <2> DEFINE d == 3
  <2>1. OfLength(s, d)
    BY <1>2 DEF OfLength
  <2>2. d \in {2, 3, 4}
    OBVIOUS
  <2>3. s \in Seq(Seq(Token))
    BY <1>1
  <2>4. m \in 0 .. Len(s)
    BY <1>1
  <2> HIDE DEF d
  <2>5. Len(Joined(s, m)) = Times(m, d)
    BY <2>1, <2>2, <2>3, <2>4, EqualPieces
  <2>6. \A j \in 1 .. m, q \in 1 .. d : Joined(s, m)[Place(d, j, q)] = s[j][q]
    BY <2>1, <2>2, <2>3, <2>4, EqualPieces
  <2> QED
    BY <2>5, <2>6 DEF d, Place, Times
<1>6. \A j \in 1 .. m, q \in 1 .. 3 : s[j][q] = EntryOf[all[j]][q]
  BY <1>1, <1>2
<1>7. Len(Mapped(EntryOf, all)) = m * 3
  BY <1>3, <1>5
<1>8. \A j \in 1 .. m, q \in 1 .. 3 :
        Mapped(EntryOf, all)[(j - 1) * 3 + q] = EntryOf[all[j]][q]
  <2> TAKE j \in 1 .. m, q \in 1 .. 3
  <2>1. Joined(s, m)[(j - 1) * 3 + q] = s[j][q]
    BY <1>5
  <2>2. s[j][q] = EntryOf[all[j]][q]
    BY <1>6
  <2> QED
    BY <1>3, <2>1, <2>2
<1> QED
  BY <1>4, <1>7, <1>8 DEF m

\* In an empty container nothing separates the entries that are added.
LEMMA EntriesAre ==
  ASSUME Typed, count = 0
  PROVE  ReadPushes = Mapped(EntryOf, Added)
<1>1. ASSUME NEW k \in 1 .. Len(edits) PROVE Mapped(EntryOf, AddedPieces[k]) = AddReading(k)
  <2>1. CASE Adding(k)
    <3> DEFINE x == <<edits[k].path, edits[k].value>>
               e == Entry(edits[k].path, edits[k].value)
    <3>1. x \in Pair /\ EntryOf[x] = e /\ e \in Seq(Token)
      BY <2>1, PiecesTyped, RowOfPair, AddedEntry
    <3>2. AddedPieces[k] = <<x>> /\ AddReading(k) = <<>> ++ e
      BY <2>1 DEF AddedPieces, AddReading, NeedsComma
    <3> HIDE DEF x, e
    <3>3. Mapped(EntryOf, <<x>>) = EntryOf[x]
      BY <3>1, RowsTyped, MappedOne
    <3>4. <<>> ++ e = e
      BY <3>1, JoinEmpty
    <3> QED
      BY <3>1, <3>2, <3>3, <3>4
  <2>2. CASE ~Adding(k)
    <3>1. Mapped(EntryOf, <<>>) = <<>>
      BY JoinedNone DEF Mapped
    <3> QED
      BY <2>2, <3>1 DEF AddedPieces, AddReading
  <2> QED
    BY <2>1, <2>2
<1>2. Len(edits) \in 0 .. Len(AddedPieces) /\ Len(AddedPieces) = Len(edits)
  BY PiecesTyped, LaidTyped
<1>3. Mapped(EntryOf, Joined(AddedPieces, Len(edits)))
        = Joined([i \in 1 .. Len(AddedPieces) |-> Mapped(EntryOf, AddedPieces[i])], Len(edits))
  <2>1. AddedPieces \in Seq(Seq(Pair))
    BY PiecesTyped
  <2>2. EntryOf \in [Pair -> Seq(Token)]
    BY RowsTyped
  <2>3. Len(edits) \in 0 .. Len(AddedPieces)
    BY <1>2
  <2> QED
    BY <2>1, <2>2, <2>3, MappedJoined
<1>4. [i \in 1 .. Len(AddedPieces) |-> Mapped(EntryOf, AddedPieces[i])] = AddReadings
  BY <1>1, <1>2 DEF AddReadings
<1> QED
  BY <1>3, <1>4, PiecesTyped, ReadPushesIs

\* A separator without a member in front of it, or none between two of them.
LEMMA SoleMemberReplaced ==
  ASSUME Typed, ~BothLastRemoved, ~SomeSurvive, count # 0,
         \E k \in 1 .. Len(edits) : Adding(k)
  PROVE  ~IsDocument(Compose(edits))
<1> DEFINE c == <<Comma>>
           a == Mapped(RowOf, Added)
           inner == Inner(Compose(edits))
<1>1. /\ inner = (ReadBlocks ++ ReadPushes) ++ c /\ ReadPushes \in Seq(Token)
      /\ ReadBlocks = <<>> /\ ReadPushes ++ c = c ++ a
  <2>1. count > 0
    BY DEF Typed
  <2> QED
    BY <2>1, InnerIs, NothingKept, AddedRead
<1>2. <<>> ++ ReadPushes = ReadPushes
  BY <1>1, JoinEmpty
<1>3. inner = c ++ a
  BY <1>1, <1>2
<1>4. a \in Seq(Token) /\ Len(a) > 0
  <2> DEFINE all == Added
  <2>1. all \in Seq(Pair) /\ all # <<>>
    BY PiecesTyped, InAdded
  <2>2. a = Mapped(RowOf, all)
    OBVIOUS
  <2> HIDE DEF all, a
  <2>3. Len(all) \in Nat /\ Len(all) > 0
    BY <2>1, EmptySeq, LenProperties
  <2>4. Mapped(RowOf, all) \in Seq(Token) /\ Len(Mapped(RowOf, all)) = Len(all) * Stride
    BY <2>1, RowsInPlace
  <2>5. Stride = 2 \/ Stride = 4
    BY DEF Stride
  <2> QED
    BY <2>2, <2>3, <2>4, <2>5
<1>5. c \in Seq(Token) /\ Len(c) = 1 /\ c[1] = Comma
  BY TokensTyped, OneTyped
<1> HIDE DEF c, a
<1>6. Len(c ++ a) = Len(c) + Len(a) /\ Len(a) \in Nat
  BY <1>4, <1>5, JoinTwo, LenProperties
<1>7. (c ++ a)[1] = Comma
  <2>1. 1 \in 1 .. Len(c)
    BY <1>5
  <2>2. \A i \in 1 .. Len(c) : (c ++ a)[i] = c[i]
    BY <1>4, <1>5, JoinLeft
  <2> QED
    BY <1>5, <2>1, <2>2
<1>8. Len(inner) > 1 /\ Len(inner) \in Nat /\ inner[1] = Comma
  BY <1>3, <1>4, <1>5, <1>6, <1>7
<1>9. inner # c
  <2>1. Len(inner) # 1
    <3> DEFINE n == Len(inner)
    <3>1. n > 1 /\ n \in Nat
      BY <1>8
    <3> HIDE DEF n
    <3>2. n # 1
      BY <3>1
    <3> QED
      BY <3>2 DEF n
  <2>2. Len(c) = 1
    BY <1>5
  <2> QED
    BY <2>1, <2>2, Zenon
<1>10. SUFFICES ASSUME IsDocument(Compose(edits)) PROVE FALSE
  OBVIOUS
<1>11. /\ Len(inner) % Stride = 0
       /\ \A j \in 1 .. Len(inner) \div Stride :
            /\ IsValue(Nth(inner, j, Stride - 1))
            /\ kind = "object" => Nth(inner, j, 1)[1] = "key"
  BY <1>9, <1>10 DEF IsDocument, c
<1> HIDE DEF inner
<1>12. 1 \in 1 .. Len(inner) \div Stride
  <2>1. CASE Stride = 2
    BY <1>8, <2>1
  <2>2. CASE Stride = 4
    BY <1>8, <1>11, <2>2
  <2> QED
    BY <2>1, <2>2 DEF Stride
<1>13. Nth(inner, 1, 1) = Comma
  BY <1>8 DEF Nth, Stride
<1>14. CASE kind = "object"
  BY <1>11, <1>12, <1>13, <1>14, TokenKinds
<1>15. CASE kind # "object"
  <2>1. Stride - 1 = 1
    BY <1>15 DEF Stride
  <2> QED
    BY <1>11, <1>12, <1>13, <2>1, TokenKinds
<1> QED
  BY <1>14, <1>15

LEMMA EmptyObjectFilled ==
  ASSUME Typed, count = 0, kind = "object", ManyAdds
  PROVE  ~IsDocument(Compose(edits))
<1> DEFINE c == <<Comma>>
           a == Mapped(EntryOf, Added)
           inner == Inner(Compose(edits))
<1>1. ~BothLastRemoved /\ ~SomeSurvive
  BY DEF BothLastRemoved, SomeSurvive
<1>2. /\ inner = (ReadBlocks ++ ReadPushes) ++ c /\ ReadPushes \in Seq(Token)
      /\ ReadBlocks = <<>> /\ ReadPushes = a
  BY <1>1, InnerIs, NothingKept, EntriesAre
<1>3. <<>> ++ ReadPushes = ReadPushes
  BY <1>2, JoinEmpty
<1>4. inner = a ++ c
  BY <1>2, <1>3
<1>5. a \in Seq(Token) /\ Len(a) >= 6 /\ Len(a) \in Nat /\ a[4][1] = "key"
  <2> DEFINE all == Added
  <2>1. all \in Seq(Pair) /\ Len(all) >= 2 /\ Len(all) \in Nat
    BY PiecesTyped, ManyAdded, LenProperties
  <2>2. a = Mapped(EntryOf, all)
    OBVIOUS
  <2> HIDE DEF all, a
  <2>3. /\ Mapped(EntryOf, all) \in Seq(Token) /\ Len(Mapped(EntryOf, all)) = Len(all) * 3
        /\ \A j \in 1 .. Len(all), q \in 1 .. 3 :
             Mapped(EntryOf, all)[(j - 1) * 3 + q] = EntryOf[all[j]][q]
    BY <2>1, EntriesInPlace
  <2>4. Mapped(EntryOf, all)[(2 - 1) * 3 + 1] = EntryOf[all[2]][1]
    BY <2>1, <2>3
  <2>5. all[2] \in Pair
    BY <2>1, ElementOfSeq
  <2>6. EntryOf[all[2]][1] = Key(all[2][1])
    BY <2>5, EntryTokens
  <2>7. Mapped(EntryOf, all)[4] = Key(all[2][1])
    BY <2>4, <2>6
  <2> QED
    BY <2>1, <2>2, <2>3, <2>7, TokenKinds
<1>6. c \in Seq(Token) /\ Len(c) = 1
  BY TokensTyped, OneTyped
<1> HIDE DEF c, a
<1>7. Len(a ++ c) = Len(a) + Len(c)
  BY <1>5, <1>6, JoinTwo
<1>8. (a ++ c)[4] = a[4]
  <2>1. \A i \in 1 .. Len(a) : (a ++ c)[i] = a[i]
    BY <1>5, <1>6, JoinLeft
  <2> QED
    BY <1>5, <2>1
<1>9. Len(inner) > 6 /\ Len(inner) \in Nat /\ inner[4][1] = "key"
  BY <1>4, <1>5, <1>6, <1>7, <1>8
<1>10. inner # c
  BY <1>6, <1>9
<1>11. SUFFICES ASSUME IsDocument(Compose(edits)) PROVE FALSE
  OBVIOUS
<1>12. Stride = 4 /\ \A j \in 1 .. Len(inner) \div Stride : Nth(inner, j, Stride) = Comma
  BY <1>10, <1>11 DEF IsDocument, c, Stride
<1> HIDE DEF inner
<1>13. 1 \in 1 .. Len(inner) \div Stride
  BY <1>9, <1>12
<1>14. Nth(inner, 1, Stride) = inner[4]
  BY <1>12 DEF Nth
<1> QED
  BY <1>9, <1>12, <1>13, <1>14, TokenKinds

\* Of two positions added to an empty array one is "-".
LEMMA EmptyArrayFilled ==
  ASSUME Typed, count = 0, kind = "array", ManyAdds
  PROVE  \E k \in 1 .. Len(edits) :
           Adding(k) /\ edits[k].path = AtEnd
<1>1. PICK j, k \in 1 .. Len(edits) : j < k /\ Adding(j) /\ Adding(k)
  BY DEF ManyAdds
<1>2. /\ edits[j].path \in {1, AtEnd} /\ edits[k].path \in {1, AtEnd}
  BY <1>1, NewTextTyped DEF Adding
<1>3. edits[j].path # edits[k].path
  BY <1>1 DEF Typed, ValidEdits
<1> QED
  BY <1>1, <1>2, <1>3

\* What has a preview is settled.
LEMMA PreviewIsSettled ==
  ASSUME Typed, Accepted(Compose(edits)), ~DiffTargetMissing(Compose(edits), edits)
  PROVE  Settled
<1>1. ~BothLastRemoved
  BY ComposedText DEF Accepted
<1>2. SUFFICES ASSUME ~SomeSurvive, NEW i \in 1 .. Len(edits), Adding(i)
               PROVE  count = 0 /\ ~ManyAdds
  BY <1>1 DEF Settled
<1>3. IsDocument(Compose(edits))
  BY DEF Accepted
<1>4. count = 0
  BY <1>1, <1>2, <1>3, SoleMemberReplaced
<1>5. kind = "object" => ~ManyAdds
  BY <1>3, <1>4, EmptyObjectFilled
<1>6. kind = "array" => ~ManyAdds
  <2> SUFFICES ASSUME kind = "array", ManyAdds PROVE FALSE
    OBVIOUS
  <2>1. PICK k \in 1 .. Len(edits) : Adding(k) /\ edits[k].path = AtEnd
    BY <1>4, EmptyArrayFilled
  <2>2. At(Members(Compose(edits)), edits[k].path) = {}
    BY <2>1 DEF At
  <2> QED
    BY <2>1, <2>2 DEF DiffTargetMissing, Adding
<1> QED
  BY <1>4, <1>5, <1>6 DEF Typed

\* Every item that does not remove is found in a settled result.
LEMMA SettledIsFound ==
  ASSUME Typed, Settled, NEW k \in 1 .. Len(edits), edits[k].operation # "remove"
  PROVE  kind = "object" =>
           \E j \in 1 .. Len(Result) : Result[j][1] = edits[k].path
<1>1. /\ Result \in Seq(Pair) /\ Len(Result) = Len(Kept) + Len(Added)
      /\ Len(Kept) \in Nat /\ Len(Added) \in Nat
  BY ResultTyped
<1>2. Kept \in Seq(Pair) /\ Added \in Seq(Pair)
  BY PiecesTyped
<1>3. CASE Adding(k)
  <2>1. PICK j \in 1 .. Len(Added) : Added[j] = <<edits[k].path, edits[k].value>>
    BY <1>3, InAdded
  <2>2. Result[Len(Kept) + j] = Added[j]
    BY <1>2, JoinRight DEF Result
  <2>3. Len(Kept) + j \in 1 .. Len(Result)
    BY <1>1
  <2> QED
    BY <2>1, <2>2, <2>3
<1>4. CASE ~Adding(k)
  <2> DEFINE i == edits[k].path
  <2>1. i \in 1 .. count /\ edits[k].operation = "replace"
    BY <1>4, RankFacts DEF Adding
  <2>2. ~Gone(i)
    BY <2>1, BlockTyped
  <2>3. PICK j \in 1 .. Len(Kept) : Kept[j] = <<i, ValueOf(i)>>
    BY <2>1, <2>2, InKept
  <2>4. Result[j] = Kept[j]
    BY <1>2, JoinLeft DEF Result
  <2>5. j \in 1 .. Len(Result)
    BY <1>1
  <2> QED
    BY <2>3, <2>4, <2>5
<1> QED
  BY <1>3, <1>4

\* A selection that OnlyKnownRefusals does not name is settled.
LEMMA OthersAreSettled ==
  ASSUME Typed, ~CannotPreview
  PROVE  Settled
<1>1. ~BothLastRemoved
  BY DEF CannotPreview, BothLastRemoved, Typed
<1>2. SUFFICES ASSUME ~SomeSurvive, NEW k \in 1 .. Len(edits), Adding(k)
               PROVE  count = 0 /\ ~ManyAdds
  BY <1>1 DEF Settled
<1>3. Added # <<>>
  BY <1>2, InAdded
<1>4. count = 0
  <2>1. count # 1
    <3> SUFFICES ASSUME count = 1 PROVE FALSE
      OBVIOUS
    <3>1. Edited(1, "remove")
      BY <1>2 DEF SomeSurvive, Gone
    <3> QED
      BY <1>3, <3>1 DEF CannotPreview
  <2> QED
    BY <1>2, <2>1 DEF SomeSurvive, Typed
<1>5. ~ManyAdds
  BY <1>4, ManyAdded DEF CannotPreview
<1> QED
  BY <1>4, <1>5

\* A selection outside them gets its preview.
LEMMA OthersArePreviewed ==
  ASSUME Typed, ~CannotPreview
  PROVE  Accepted(Compose(edits)) /\ ~DiffTargetMissing(Compose(edits), edits)
<1>1. Settled
  BY OthersAreSettled
<1>2. IsDocument(Compose(edits)) /\ Members(Compose(edits)) = Approved
  BY <1>1, ResultIsExact
<1>3. Compose(edits) # <<>>
  <2>1. count > 0 \/ kind = "object" \/ ~ManyAdds
    BY <1>1 DEF Settled, SomeSurvive, ManyAdds
  <2>2. Len(Compose(edits)) > 0
    BY <1>1, <2>1, ComposedReads DEF Settled
  <2> QED
    BY <2>2, EmptySeq
<1>4. Accepted(Compose(edits))
  BY <1>2, <1>3 DEF Accepted
<1>5. ASSUME NEW k \in 1 .. Len(edits), edits[k].operation # "remove"
      PROVE  At(Approved, edits[k].path) # {}
  <2> DEFINE path == edits[k].path
             n == Len(Result)
  <2>1. Result \in Seq(Pair) /\ n \in Nat /\ Result = Kept \o Added
    BY ResultTyped, LenProperties DEF Result, ++
  <2>2. Approved = [j \in 1 .. n |-> <<IF kind = "object" THEN Result[j][1] ELSE j, Result[j][2]>>]
    BY <2>1 DEF Approved
  <2>3. path \in Spot
    <3>1. edits[k] \in Item
      BY ElementOfSeq DEF Typed, ValidEdits
    <3> QED
      BY <3>1 DEF Item
  <2>4. CASE kind = "object"
    <3>1. PICK j \in 1 .. n : Result[j][1] = path
      BY <1>1, <1>5, <2>4, SettledIsFound
    <3>2. path # AtEnd
      BY <2>3, <2>4, ComposeAssumption DEF Spot
    <3> HIDE DEF n, path
    <3>3. Len(Approved) = n
      BY <2>1, <2>2
    <3>4. Approved[j][1] = path
      BY <2>2, <2>4, <3>1
    <3>5. j \in At(Approved, path)
      BY <3>1, <3>2, <3>3, <3>4 DEF At
    <3> QED
      BY <3>5 DEF path
  <2>5. CASE kind = "array"
    <3>1. path # AtEnd
      BY <1>5, <2>5 DEF CannotPreview
    <3>2. ~(path > Len(Approved))
      BY <1>5, <2>5, <3>1 DEF CannotPreview
    <3>3. path \in Nat /\ path >= 1
      BY <2>3, <2>5, <3>1 DEF Spot, Typed
    <3> HIDE DEF n, path
    <3>4. Len(Approved) = n
      BY <2>1, <2>2
    <3>5. path \in 1 .. n
      BY <2>1, <3>2, <3>3, <3>4
    <3>6. Approved[path][1] = path
      BY <2>2, <2>5, <3>5
    <3>7. path \in At(Approved, path)
      BY <3>1, <3>4, <3>5, <3>6 DEF At
    <3> QED
      BY <3>7 DEF path
  <2> QED
    BY <2>4, <2>5 DEF Typed
<1>6. ~DiffTargetMissing(Compose(edits), edits)
  BY <1>2, <1>5 DEF DiffTargetMissing
<1> QED
  BY <1>4, <1>6

\* A selection that it names has none.
LEMMA NamedAreRefused ==
  ASSUME Typed, Accepted(Compose(edits)), ~DiffTargetMissing(Compose(edits), edits)
  PROVE  ~CannotPreview
<1>1. Settled /\ Members(Compose(edits)) = Approved
  BY PreviewIsSettled, ResultIsExact
<1>2. ~(count >= 2 /\ Edited(count, "remove") /\ Edited(count - 1, "remove"))
  BY <1>1 DEF Settled, BothLastRemoved, Typed
<1>3. ~(count = 1 /\ Edited(1, "remove") /\ Added # <<>>)
  BY <1>1, NothingAdded DEF Settled, SomeSurvive, Gone
<1>4. ASSUME count = 0 PROVE ~(Len(Added) >= 2)
  <2>1. CASE \A k \in 1 .. Len(edits) : ~Adding(k)
    BY <2>1, NothingAdded, EmptySeq
  <2>2. CASE \E k \in 1 .. Len(edits) : Adding(k)
    <3>1. ~ManyAdds
      BY <1>1, <1>4 DEF Settled, SomeSurvive, ManyAdds
    <3>2. PICK k \in 1 .. Len(edits) : Adding(k)
      BY <2>2
    <3> DEFINE x == <<edits[k].path, edits[k].value>>
    <3>3. Added = <<x>>
      BY <1>4, <3>1, <3>2, OneAdded
    <3> HIDE DEF x
    <3>4. Len(<<x>>) = 1
      OBVIOUS
    <3> QED
      BY <3>3, <3>4
  <2> QED
    BY <2>1, <2>2
<1>5. ASSUME NEW k \in 1 .. Len(edits), kind = "array", edits[k].operation # "remove"
      PROVE  ~(edits[k].path = AtEnd \/ edits[k].path > Len(Approved))
  <2>1. At(Approved, edits[k].path) # {}
    BY <1>1, <1>5 DEF DiffTargetMissing
  <2>2. PICK j \in 1 .. Len(Approved) : edits[k].path # AtEnd /\ Approved[j][1] = edits[k].path
    BY <2>1 DEF At
  <2> DEFINE n == Len(Result)
  <2>3. n \in Nat /\ Result = Kept \o Added
    BY ResultTyped, LenProperties DEF Result, ++
  <2>4. Approved = [i \in 1 .. n |-> <<IF kind = "object" THEN Result[i][1] ELSE i, Result[i][2]>>]
    BY <2>3 DEF Approved
  <2> HIDE DEF n
  <2>5. Len(Approved) = n
    BY <2>3, <2>4
  <2>6. Approved[j][1] = j
    BY <1>5, <2>4, <2>5
  <2>7. ~(edits[k].path > Len(Approved))
    BY <2>2, <2>3, <2>5, <2>6
  <2> QED
    BY <2>2, <2>7
<1>6. ~\E k \in 1 .. Len(edits) : NoPatch(edits[k])
  BY DEF Typed, ValidEdits
<1> QED
  BY <1>2, <1>3, <1>4, <1>5, <1>6 DEF CannotPreview

\* In an array no position but the next one can be added to and be found.
LEMMA OnlyNextAdded ==
  ASSUME Typed, kind = "array", Accepted(Compose(edits)),
         ~DiffTargetMissing(Compose(edits), edits), NEW k \in 1 .. Len(edits), Adding(k)
  PROVE  edits[k].path = count + 1
<1>1. edits[k].path # AtEnd
  <2>1. At(Members(Compose(edits)), edits[k].path) # {}
    BY DEF DiffTargetMissing, Adding
  <2> QED
    BY <2>1 DEF At
<1>2. edits[k].path \in Spot /\ edits[k].path \notin 1 .. count
  <2>1. edits[k] \in Item
    BY ElementOfSeq DEF Typed, ValidEdits
  <2> QED
    BY <2>1 DEF Item, Adding, Typed, ValidEdits
<1> QED
  BY <1>1, <1>2 DEF Spot

\* A preview quotes an item with its own value unless its path has moved.
LEMMA QuotesAreOwn ==
  ASSUME Typed, Accepted(Compose(edits)), ~DiffTargetMissing(Compose(edits), edits),
         NEW k \in 1 .. Len(edits), edits[k].operation # "remove", ~Moved(edits[k].path)
  PROVE  RenderDiff(Compose(edits), edits)[k].after = edits[k].value
<1> DEFINE path == edits[k].path
           places == At(Approved, path)
           n == Len(Result)
<1>1. Members(Compose(edits)) = Approved
  BY PreviewIsSettled, ResultIsExact
<1>2. places # {}
  BY <1>1 DEF DiffTargetMissing
<1>3. PICK j \in places : j = CHOOSE i \in places : TRUE
  BY <1>2
<1>4. RenderDiff(Compose(edits), edits)[k].after = Approved[j][2]
  BY <1>1, <1>3 DEF RenderDiff
<1>5. n \in Nat /\ Result = Kept \o Added
  BY ResultTyped, LenProperties DEF Result, ++
<1>6. Approved = [i \in 1 .. n |-> <<IF kind = "object" THEN Result[i][1] ELSE i, Result[i][2]>>]
  BY <1>5 DEF Approved
<1>7. j \in 1 .. n /\ Approved[j][1] = path
  <2> HIDE DEF n
  <2>1. Len(Approved) = n
    BY <1>5, <1>6
  <2> QED
    BY <1>3, <2>1 DEF At
<1>8. Approved[j][2] = Result[j][2]
  BY <1>6, <1>7
<1>9. CASE kind = "object"
  <2>1. Result[j][1] = path
    BY <1>6, <1>7, <1>9
  <2> QED
    BY <1>4, <1>7, <1>8, <2>1, ResultValue
<1>10. CASE kind = "array"
  <2>1. j = path
    BY <1>6, <1>7, <1>10
  <2>2. \A l \in 1 .. Len(edits) : Adding(l) => edits[l].path = count + 1
    BY <1>10, OnlyNextAdded
  <2>3. \A l \in 1 .. Len(edits) : Adding(k) /\ Adding(l) => l = k
    BY <2>2 DEF Typed, ValidEdits
  <2>4. \A i \in 1 .. count : Gone(i) => ~(i < path)
    <3>1. path # AtEnd
      BY <1>3 DEF At
    <3> QED
      BY <1>10, <3>1 DEF Moved, Gone
  <2>5. Result[path][2] = edits[k].value
    BY <1>10, <2>2, <2>3, <2>4, ResultInPlace
  <2> QED
    BY <1>4, <1>8, <2>1, <2>5
<1> QED
  BY <1>9, <1>10 DEF Typed

-------------------------------------------------------------------------------
\* What is composed depends only on the container and the items.
LEMMA SameComposition ==
  ASSUME UNCHANGED <<kind, count, space>>
  PROVE  /\ \A es : Compose(es)' = Compose(es)
         /\ \A t : Accepted(t)' = Accepted(t)
         /\ \A t, es : DiffTargetMissing(t, es)' = DiffTargetMissing(t, es)
         /\ \A t, es : RenderDiff(t, es)' = RenderDiff(t, es)
<1>1. Spaces' = Spaces /\ NeedsComma' = NeedsComma /\ Stride' = Stride
  BY DEF Spaces, NeedsComma, Stride
<1>2. \A i : MemberText(i)' = MemberText(i) /\ Separator(i)' = Separator(i)
  BY <1>1 DEF MemberText, Separator
<1>3. \A i : TextBefore(i)' = TextBefore(i)
  BY <1>1, <1>2 DEF TextBefore
<1>4. Source' = Source /\ CloseOffset' = CloseOffset /\ \A i : MemberStart(i)' = MemberStart(i)
  BY <1>3 DEF Source, CloseOffset, MemberStart
<1>5. \A i : End(i)' = End(i) /\ Start(i)' = Start(i)
  BY <1>2, <1>4 DEF End, Start
<1>6. AddOffset' = AddOffset
  BY <1>4, <1>5 DEF AddOffset
<1>7. \A i, k : EditEnvelope(i, k)' = EditEnvelope(i, k)
  BY <1>4, <1>5 DEF EditEnvelope
<1>8. \A text, k : AddEnvelope(text, k)' = AddEnvelope(text, k)
  BY <1>1, <1>6 DEF AddEnvelope
<1>9. \A edit, k : MakePatch(edit, k)' = MakePatch(edit, k)
  BY <1>5, <1>7, <1>8 DEF MakePatch
<1>10. \A es, k : Before(es, k)' = Before(es, k)
  BY <1>9 DEF Before
<1>11. \A es, k : InPlace(es, k)' = InPlace(es, k)
  BY <1>10 DEF InPlace
<1>12. \A es : Patches(es)' = Patches(es)
  BY <1>9, <1>11 DEF Patches
<1>13. \A patches : Patched(patches)' = Patched(patches)
  BY <1>4 DEF Patched
<1>14. \A es : Compose(es)' = Compose(es)
  <2>1. \A edit : NoPatch(edit)' = NoPatch(edit)
    BY DEF NoPatch
  <2>2. \A patches : Overlap(patches)' = Overlap(patches)
    BY DEF Overlap
  <2> QED
    BY <1>12, <1>13, <2>1, <2>2 DEF Compose
<1>15. \A inner, j, k : Nth(inner, j, k)' = Nth(inner, j, k)
  BY <1>1 DEF Nth
<1>16. \A t : IsDocument(t)' = IsDocument(t)
  BY <1>1, <1>15 DEF IsDocument
<1>17. \A t : Members(t)' = Members(t)
  BY <1>1, <1>15 DEF Members
<1>18. \A t : Accepted(t)' = Accepted(t)
  BY <1>16 DEF Accepted
<1>19. \A t, es : DiffTargetMissing(t, es)' = DiffTargetMissing(t, es)
  BY <1>17 DEF DiffTargetMissing
<1>20. \A t, es : RenderDiff(t, es)' = RenderDiff(t, es)
  BY <1>17 DEF RenderDiff
<1> QED
  BY <1>14, <1>18, <1>19, <1>20

\* What the proposal check leaves of the approved items, with a patch or without.
AnyItem == [operation : {"add", "replace", "remove"}, path : Target, value : NewValue \cup {None}]

Proposed ==
  /\ kind \in {"object", "array"} /\ count \in 0 .. MaxMembers /\ space \in BOOLEAN
  /\ edits \in Seq(AnyItem)
  /\ \A k \in 1 .. Len(edits) :
       /\ edits[k].operation \in {"replace", "remove"} => edits[k].path \in 1 .. count
       /\ edits[k].operation = "add" =>
            edits[k].path \notin 1 .. count \/ (kind = "object" /\ edits[k].path = DashKey)
       /\ edits[k].operation = "remove" => edits[k].value = None
  /\ \A j, k \in 1 .. Len(edits) : j # k => edits[j].path # edits[k].path

AllPatched == \A k \in 1 .. Len(edits) : ~NoPatch(edits[k])

\* Items that all have a patch stand where the lemmas above want them.
LEMMA PatchedAreTyped ==
  ASSUME Proposed, AllPatched
  PROVE  Typed
<1>1. edits \in Seq(AnyItem) /\ Len(edits) \in Nat
  BY LenProperties DEF Proposed
<1>2. ASSUME NEW k \in 1 .. Len(edits)
      PROVE  /\ edits[k] \in Item
             /\ edits[k].operation = "add" <=> edits[k].path \notin 1 .. count
             /\ edits[k].operation = "remove" <=> edits[k].value = None
  <2>1. edits[k] \in AnyItem
    BY <1>1, ElementOfSeq
  <2>2. edits[k].operation \in {"add", "replace", "remove"} /\ edits[k].path \in Target
    BY <2>1 DEF AnyItem
  <2>3. edits[k].operation = "add" <=> edits[k].path \notin 1 .. count
    BY <2>2 DEF Proposed, AllPatched, NoPatch
  <2>4. edits[k].operation = "remove" <=> edits[k].value = None
    BY <2>2 DEF Proposed, AllPatched, NoPatch
  <2>5. edits[k].path \in Spot
    BY <2>2, <2>3 DEF Proposed, AllPatched, NoPatch, Target, Spot
  <2>6. edits[k] \in Item
    BY <2>1, <2>5 DEF AnyItem, Item
  <2> QED
    BY <2>3, <2>4, <2>6
<1>3. edits \in Seq(Item)
  BY <1>1, <1>2
<1>4. ValidEdits
  BY <1>2, <1>3 DEF ValidEdits, Proposed, AllPatched
<1> QED
  BY <1>4 DEF Typed, Proposed

\* If one has none there is no candidate.
LEMMA UnpatchedIsRefused ==
  ASSUME ~AllPatched
  PROVE  ~Accepted(Compose(edits)) /\ CannotPreview
BY DEF AllPatched, Compose, Accepted, CannotPreview

\* The candidate is what compose makes of the approved items, and it has a preview
\* exactly when it is accepted and the diff finds its places; the diff is of both.
IInv ==
  /\ Proposed
  /\ candidate = Compose(edits)
  /\ previewed <=> Accepted(candidate) /\ ~DiffTargetMissing(candidate, edits)
  /\ previewed => diff = RenderDiff(candidate, edits)

LEMMA ComposeNothing ==
  ASSUME Typed, edits = <<>>
  PROVE  Compose(edits) = Source
<1>1. Len(edits) = 0
  BY EmptySeq
<1>2. Patches(edits) = <<>>
  <2>1. Patches(edits) = [r \in 1 .. 0 |->
          MakePatch(edits[InPlace(edits, r)], InPlace(edits, r))]
    BY <1>1 DEF Patches
  <2> QED
    BY <2>1
<1>3. ~Overlap(<<>>) /\ ~\E k \in 1 .. Len(edits) : NoPatch(edits[k])
  BY <1>1, EmptySeq DEF Overlap
<1>4. Patched(<<>>) = FlattenSeq(<<>>) \o SubSeq(Source, 0 + 1, Len(Source))
  <2>1. Len(<<>>) = 0
    BY EmptySeq
  <2> QED
    BY <2>1 DEF Patched, Cursor
<1>5. FlattenSeq(<<>>) = <<>>
  BY JoinedNone DEF Joined
<1>6. Source \in Seq(Token) /\ Len(Source) \in Nat
  BY SourceEnds, LenProperties
<1>7. SubSeq(Source, 0 + 1, Len(Source)) = Source
  BY <1>6
<1>8. <<>> \o Source = Source
  BY <1>6
<1> QED
  BY <1>2, <1>3, <1>4, <1>5, <1>7, <1>8 DEF Compose

\* With nothing approved the core previews the source itself.
LEMMA InitInvariant == Init => IInv
<1> SUFFICES ASSUME Init PROVE IInv
  OBVIOUS
<1>1. Len(edits) = 0
  BY EmptySeq DEF Init
<1>2. Proposed /\ Typed
  <2>1. edits \in Seq(AnyItem)
    BY EmptySeq DEF Init
  <2>2. Proposed
    BY <1>1, <2>1 DEF Init, Proposed
  <2>3. AllPatched
    BY <1>1 DEF AllPatched
  <2> QED
    BY <2>2, <2>3, PatchedAreTyped
<1>3. candidate = Compose(edits)
  BY <1>2, ComposeNothing DEF Init
<1>4. ~CannotPreview
  <2>1. Added = <<>>
    BY <1>1, <1>2, NothingAdded
  <2>2. \A i, operation : ~Edited(i, operation)
    BY <1>1 DEF Edited
  <2>3. Len(<<>>) = 0
    BY EmptySeq
  <2> QED
    BY <1>1, <2>1, <2>2, <2>3 DEF CannotPreview
<1>5. diff = RenderDiff(candidate, edits)
  <2> DEFINE row(k) == [before |-> IF edits[k].operation = "add" THEN None
                                   ELSE Old(edits[k].path),
                        after |-> IF edits[k].operation = "remove" THEN None
                                  ELSE Members(candidate)[
                                         CHOOSE j \in At(Members(candidate), edits[k].path) :
                                           TRUE][2]]
  <2>1. RenderDiff(candidate, edits) = [k \in 1 .. 0 |-> row(k)]
    BY <1>1 DEF RenderDiff
  <2> HIDE DEF row
  <2> QED
    BY <2>1 DEF Init
<1> QED
  BY <1>2, <1>3, <1>4, <1>5, OthersArePreviewed DEF IInv, Init

\* Approving one more valid item keeps what the proposal check leaves.
LEMMA ApproveKeeps ==
  ASSUME Proposed, Approve
  PROVE  Proposed'
<1>1. UNCHANGED <<kind, count, space>>
  BY DEF Approve
<1>2. PICK operation \in {"add", "replace", "remove"}, path \in Target,
           value \in NewValue \cup {None} :
        /\ ValidItem([operation |-> operation, path |-> path, value |-> value])
        /\ edits' = Append(edits, [operation |-> operation, path |-> path, value |-> value])
  BY DEF Approve
<1> DEFINE edit == [operation |-> operation, path |-> path, value |-> value]
           m == Len(edits)
           Alone(item) ==
             /\ item.operation \in {"replace", "remove"} => item.path \in 1 .. count
             /\ item.operation = "add" =>
                  item.path \notin 1 .. count \/ (kind = "object" /\ item.path = DashKey)
             /\ item.operation = "remove" => item.value = None
<1>3. edit \in AnyItem /\ edits \in Seq(AnyItem) /\ m \in Nat
  BY LenProperties DEF AnyItem, Proposed
<1>4. Alone(edit) /\ \A i \in 1 .. m : edits[i].path # edit.path
  BY <1>2 DEF ValidItem
<1>5. edits' = Append(edits, edit)
  BY <1>2
<1>6. /\ \A k \in 1 .. m : Alone(edits[k])
      /\ \A j, k \in 1 .. m : j # k => edits[j].path # edits[k].path
  BY DEF Proposed
<1>7. ASSUME edits' \in Seq(AnyItem), \A k \in 1 .. Len(edits') : Alone(edits'[k]),
             \A j, k \in 1 .. Len(edits') : j # k => edits'[j].path # edits'[k].path
      PROVE  Proposed'
  <2>1. AnyItem' = AnyItem
    BY <1>1 DEF AnyItem, Target
  <2> QED
    BY <1>1, <1>7, <2>1 DEF Proposed
<1> HIDE DEF edit, m, Alone
<1>8. /\ edits' \in Seq(AnyItem) /\ Len(edits') = m + 1
      /\ \A i \in 1 .. m : edits'[i] = edits[i]
      /\ edits'[m + 1] = edit
  BY <1>3, <1>5, AppendProperties DEF m
<1>9. \A k \in 1 .. m + 1 : k \in 1 .. m \/ k = m + 1
  BY <1>3
<1>10. \A k \in 1 .. m + 1 : Alone(edits'[k])
  BY <1>4, <1>6, <1>8, <1>9
<1>11. \A j, k \in 1 .. m + 1 : j # k => edits'[j].path # edits'[k].path
  BY <1>4, <1>6, <1>8, <1>9
<1> QED
  BY <1>7, <1>8, <1>10, <1>11

LEMMA NextInvariant == IInv /\ [Next]_vars => IInv'
<1> SUFFICES ASSUME IInv, [Next]_vars PROVE IInv'
  OBVIOUS
<1>1. UNCHANGED <<kind, count, space>>
  BY DEF Next, Approve, vars
<1>2. /\ Compose(edits)' = Compose(edits')
      /\ Accepted(candidate)' = Accepted(candidate')
      /\ DiffTargetMissing(candidate, edits)' = DiffTargetMissing(candidate', edits')
      /\ RenderDiff(candidate, edits)' = RenderDiff(candidate', edits')
  <2>1. /\ \A es : Compose(es)' = Compose(es)
        /\ \A t : Accepted(t)' = Accepted(t)
        /\ \A t, es : DiffTargetMissing(t, es)' = DiffTargetMissing(t, es)
        /\ \A t, es : RenderDiff(t, es)' = RenderDiff(t, es)
    BY <1>1, SameComposition
  <2> QED
    BY <2>1
<1>3. CASE Approve
  <2>1. Proposed'
    BY <1>3, ApproveKeeps DEF IInv
  <2>2. /\ candidate' = Compose(edits')
        /\ previewed' = (Accepted(candidate') /\ ~DiffTargetMissing(candidate', edits'))
        /\ previewed' => diff' = RenderDiff(candidate', edits')
    BY <1>3 DEF Approve
  <2>3. (candidate = Compose(edits))'
    BY <1>2, <2>2
  <2>4. (previewed <=> Accepted(candidate) /\ ~DiffTargetMissing(candidate, edits))'
    BY <1>2, <2>2
  <2>5. (previewed => diff = RenderDiff(candidate, edits))'
    BY <1>2, <2>2
  <2> QED
    BY <2>1, <2>3, <2>4, <2>5 DEF IInv
<1>4. CASE UNCHANGED vars
  <2>1. edits' = edits /\ candidate' = candidate /\ previewed' = previewed /\ diff' = diff
    BY <1>4 DEF vars
  <2>2. Proposed'
    <3>1. AnyItem' = AnyItem
      BY <1>1 DEF AnyItem, Target
    <3> QED
      BY <1>1, <2>1, <3>1 DEF IInv, Proposed
  <2>3. (candidate = Compose(edits))'
    BY <1>2, <2>1 DEF IInv
  <2>4. (previewed <=> Accepted(candidate) /\ ~DiffTargetMissing(candidate, edits))'
    BY <1>2, <2>1 DEF IInv
  <2>5. (previewed => diff = RenderDiff(candidate, edits))'
    BY <1>2, <2>1 DEF IInv
  <2> QED
    BY <2>2, <2>3, <2>4, <2>5 DEF IInv
<1> QED
  BY <1>3, <1>4 DEF Next

\* The inductive invariant.
THEOREM Invariant == Spec => []IInv
BY InitInvariant, NextInvariant, PTL DEF Spec

\* What a preview is issued for parses to exactly what the approved items mean, and
\* quotes the items whose paths have not moved, for every container, every selection
\* and every number of items.
THEOREM PreviewsAreExact == Spec => []PreviewedIsExact
<1>1. IInv => PreviewedIsExact
  <2> SUFFICES ASSUME IInv, previewed PROVE PreviewedIsExact
    BY DEF PreviewedIsExact
  <2>1. /\ Proposed /\ candidate = Compose(edits)
        /\ diff = RenderDiff(Compose(edits), edits)
    BY DEF IInv
  <2>2. Accepted(Compose(edits)) /\ ~DiffTargetMissing(Compose(edits), edits)
    BY <2>1 DEF IInv
  <2>3. Typed
    BY <2>1, <2>2, UnpatchedIsRefused, PatchedAreTyped
  <2>4. Members(candidate) = Approved
    BY <2>1, <2>2, <2>3, PreviewIsSettled, ResultIsExact
  <2>5. ASSUME NEW k \in 1 .. Len(edits), edits[k].operation # "remove", ~Moved(edits[k].path)
        PROVE  diff[k].after = edits[k].value
    BY <2>1, <2>2, <2>3, <2>5, QuotesAreOwn
  <2> QED
    BY <2>4, <2>5 DEF PreviewedIsExact
<1> QED
  BY <1>1, Invariant, PTL

\* Of the selections that the proposal check accepts, exactly those that
\* OnlyKnownRefusals names are refused a preview.
THEOREM RefusalsAreKnown == Spec => []OnlyKnownRefusals
<1>1. ASSUME IInv PROVE OnlyKnownRefusals
  <2>1. Proposed /\ candidate = Compose(edits)
    BY <1>1 DEF IInv
  <2>2. previewed <=> /\ Accepted(Compose(edits))
                      /\ ~DiffTargetMissing(Compose(edits), edits)
    BY <1>1, <2>1 DEF IInv
  <2>3. previewed => ~CannotPreview
    BY <2>1, <2>2, UnpatchedIsRefused, PatchedAreTyped, NamedAreRefused
  <2>4. ~CannotPreview => previewed
    BY <2>1, <2>2, UnpatchedIsRefused, PatchedAreTyped, OthersArePreviewed
  <2> QED
    BY <2>3, <2>4 DEF OnlyKnownRefusals
<1> QED
  BY <1>1, Invariant, PTL

===============================================================================
