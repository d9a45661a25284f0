-------------------------- MODULE ReviewScreen_proofs --------------------------
(***************************************************************************)
(* Proofs about ReviewScreen for any number of items and any windows.      *)
(* WindowInv is what Move establishes and a new filter may break; that     *)
(* moving by one position skips no item rests on the fact that the rank of *)
(* an item among the visible ones counts from 0 without a gap.             *)
(***************************************************************************)
EXTENDS ReviewScreen, FiniteSetTheorems, TLAPS

\* The cursor is in the list and in a page that begins at the offset.
WindowInv ==
  ~strayed /\ matched # {} =>
    selected < Cardinality(matched) /\ offset <= selected /\ selected < offset + Page(height)

IInv == TypeOK /\ WindowInv

-------------------------------------------------------------------------------
LEMMA MaxOfTwo ==
  ASSUME NEW a \in Int, NEW b \in Int
  PROVE  Max({a, b}) = IF a >= b THEN a ELSE b
<1>1. \E x \in {a, b} : \A y \in {a, b} : x >= y
  OBVIOUS
<1>2. Max({a, b}) \in {a, b} /\ \A y \in {a, b} : Max({a, b}) >= y
  BY <1>1 DEF Max
<1> QED
  BY <1>2

LEMMA MinOfTwo ==
  ASSUME NEW a \in Int, NEW b \in Int
  PROVE  Min({a, b}) = IF a <= b THEN a ELSE b
<1>1. \E x \in {a, b} : \A y \in {a, b} : x <= y
  OBVIOUS
<1>2. Min({a, b}) \in {a, b} /\ \A y \in {a, b} : Min({a, b}) <= y
  BY <1>1 DEF Min
<1> QED
  BY <1>2

\* Some of the items are finitely many, and no more than all.
LEMMA CountFacts ==
  ASSUME NEW some, some \subseteq 1 .. Items
  PROVE  /\ IsFiniteSet(some)
         /\ Cardinality(some) \in Nat /\ Cardinality(some) <= Items
         /\ some # {} => Cardinality(some) \in Nat \ {0}
<1>1. Items \in Nat
  BY ScreenAssumption
<1>2. IsFiniteSet(1 .. Items) /\ Cardinality(1 .. Items) = Items
  BY <1>1, FS_Interval
<1>3. IsFiniteSet(some) /\ Cardinality(some) <= Items
  BY <1>2, FS_Subset
<1>4. Cardinality(some) \in Nat
  BY <1>3, FS_CardinalityType
<1>5. some # {} => Cardinality(some) # 0
  BY <1>3, FS_EmptySet
<1> QED
  BY <1>3, <1>4, <1>5

LEMMA PageFacts ==
  ASSUME NEW h \in Nat
  PROVE  Page(h) \in Nat \ {0}
BY MaxOfTwo DEF Page

LEMMA HeightFacts ==
  ASSUME TypeOK
  PROVE  height \in Nat /\ width \in Nat
BY ScreenAssumption DEF TypeOK

LEMMA LimitFacts ==
  /\ Max({0, Items - 1}) \in Nat
  /\ Items >= 1 => Max({0, Items - 1}) = Items - 1
BY ScreenAssumption, MaxOfTwo

-------------------------------------------------------------------------------
LEMMA ClampedFacts ==
  ASSUME TypeOK, matched # {}, NEW position \in Int
  PROVE  /\ Clamped(position) \in 0 .. Cardinality(matched) - 1
         /\ Clamped(position) = IF position < 0 THEN 0
                                ELSE IF position >= Cardinality(matched)
                                  THEN Cardinality(matched) - 1 ELSE position
<1> matched \subseteq 1 .. Items
  BY DEF TypeOK
<1>1. Cardinality(matched) \in Nat \ {0}
  BY CountFacts
<1>2. Min({position, LastOf(matched)}) =
        IF position <= Cardinality(matched) - 1 THEN position ELSE Cardinality(matched) - 1
  BY <1>1, MinOfTwo DEF LastOf
<1>3. Clamped(position) =
        IF 0 >= Min({position, LastOf(matched)}) THEN 0 ELSE Min({position, LastOf(matched)})
  BY <1>1, <1>2, MaxOfTwo DEF Clamped
<1> QED
  BY <1>1, <1>2, <1>3

\* State.Move puts the cursor into the list and the page around the cursor.
LEMMA MoveKeeps ==
  ASSUME IInv, NEW delta \in {-1, 0, 1}, NEW h \in Nat, h = height', Move(delta, h),
         height' \in Heights \cup {24}, width' \in Widths \cup {80},
         mode' \in Mode, running' \in BOOLEAN, editing' \in BOOLEAN, strayed' \in BOOLEAN,
         UNCHANGED matched
  PROVE  IInv'
<1>1. Items \in Nat /\ selected \in Nat /\ offset \in Nat /\ matched \subseteq 1 .. Items
      /\ offset \in 0 .. Max({0, Items - 1})
  BY ScreenAssumption, LimitFacts DEF IInv, TypeOK
<1>2. CASE matched = {}
  BY <1>1, <1>2, LimitFacts DEF Move, IInv, TypeOK, WindowInv
<1>3. CASE matched # {}
  <2>0. Cardinality(matched) \in Nat \ {0} /\ Cardinality(matched) <= Items
    BY <1>1, <1>3, CountFacts
  <2>1. /\ Cardinality(matched) \in 1 .. Items /\ Items >= 1
        /\ Max({0, Items - 1}) = Items - 1
    BY <1>1, <2>0, LimitFacts
  <2>2. selected' = Clamped(selected + delta) /\ offset' = Scrolled(selected', h)
    BY <1>3 DEF Move
  <2>3. selected' \in 0 .. Cardinality(matched) - 1
    BY <1>1, <1>3, <2>2, ClampedFacts DEF IInv
  <2>4. Page(h) \in Nat \ {0}
    BY PageFacts
  <2>5. offset' \in 0 .. Items - 1 /\ offset' <= selected' /\ selected' < offset' + Page(h)
    BY <1>1, <2>1, <2>2, <2>3, <2>4 DEF Scrolled
  <2>6. TypeOK'
    BY <1>1, <2>1, <2>3, <2>5 DEF TypeOK
  <2>7. WindowInv'
    BY <2>3, <2>5, <2>1 DEF WindowInv
  <2> QED
    BY <2>6, <2>7 DEF IInv
<1> QED
  BY <1>2, <1>3

LEMMA InitInvariant == Init => IInv
<1> SUFFICES ASSUME Init PROVE IInv
  OBVIOUS
<1>1. 24 \in Nat /\ Page(24) \in Nat \ {0}
  BY PageFacts
<1>2. TypeOK
  <2>1. 0 \in 0 .. Max({0, Items - 1})
    BY LimitFacts
  <2>2. running \in BOOLEAN /\ editing \in BOOLEAN /\ strayed \in BOOLEAN
    BY Zenon DEF Init
  <2>3. matched \subseteq 1 .. Items /\ mode \in Mode
    BY DEF Init, Mode
  <2> QED
    BY <2>1, <2>2, <2>3, Zenon DEF Init, TypeOK
<1>3. WindowInv
  <2> SUFFICES ASSUME matched # {}
               PROVE  0 < Cardinality(matched) /\ 0 < Page(24)
    <3>1. selected = 0 /\ offset = 0 /\ height = 24
      BY DEF Init
    <3>2. 0 <= 0 /\ 0 + Page(24) = Page(24)
      BY <1>1
    <3> QED
      BY <3>1, <3>2, Zenon DEF WindowInv
  <2>1. Cardinality(matched) \in Nat \ {0}
    <3>1. matched \subseteq 1 .. Items
      BY <1>2 DEF TypeOK
    <3> QED
      BY <3>1, CountFacts
  <2> QED
    BY <1>1, <2>1
<1> QED
  BY <1>2, <1>3 DEF IInv

LEMMA NextInvariant == IInv /\ [Next]_vars => IInv'
<1> SUFFICES ASSUME IInv, [Next]_vars PROVE IInv'
  OBVIOUS
<1>1. height \in Nat
  BY HeightFacts DEF IInv
<1>2. 0 \in 0 .. Max({0, Items - 1})
  BY LimitFacts
<1>3. CASE UNCHANGED vars
  BY <1>3 DEF vars, IInv, TypeOK, WindowInv
<1>4. CASE Resize
  <2>1. height' \in Nat /\ Move(0, height')
    BY <1>4, ScreenAssumption DEF Resize
  <2> QED
    BY <1>4, <2>1, MoveKeeps DEF Resize, IInv, TypeOK
<1>5. CASE PressDown
  BY <1>1, <1>5, MoveKeeps DEF PressDown, IInv, TypeOK
<1>6. CASE PressUp
  BY <1>1, <1>6, MoveKeeps DEF PressUp, IInv, TypeOK
<1>7. CASE PressMode \/ LeaveFilter \/ Quit
  <2>1. /\ UNCHANGED <<matched, selected, offset, width, height, strayed>>
        /\ running' \in BOOLEAN /\ editing' \in BOOLEAN /\ mode' \in Mode
    BY <1>7, Zenon DEF PressMode, LeaveFilter, Quit, IInv, TypeOK
  <2> QED
    BY <2>1, Zenon DEF IInv, TypeOK, WindowInv
<1>8. CASE StartFilter \/ EditFilter
  <2>1. /\ UNCHANGED <<running, selected, offset, width, height, mode>>
        /\ editing' \in BOOLEAN /\ strayed' = TRUE /\ matched' \subseteq 1 .. Items
    BY <1>8, Zenon DEF StartFilter, EditFilter, IInv, TypeOK
  <2> QED
    BY <2>1, Zenon DEF IInv, TypeOK, WindowInv
<1>9. CASE AcceptFilter
  <2>1. TypeOK'
    BY <1>2, <1>9 DEF AcceptFilter, IInv, TypeOK
  <2>2. WindowInv'
    <3> SUFFICES ASSUME matched # {}
                 PROVE  0 < Cardinality(matched) /\ 0 < Page(height)
      <4>1. selected' = 0 /\ offset' = 0 /\ UNCHANGED <<matched, height>>
        BY <1>9 DEF AcceptFilter
      <4>2. 0 <= 0 /\ 0 + Page(height) = Page(height)
        BY <1>1, PageFacts
      <4> QED
        BY <4>1, <4>2, Zenon DEF WindowInv
    <3>1. matched \subseteq 1 .. Items /\ Page(height) \in Nat \ {0}
      BY <1>1, PageFacts DEF IInv, TypeOK
    <3>2. Cardinality(matched) \in Nat \ {0}
      BY <3>1, CountFacts
    <3> QED
      BY <3>1, <3>2
  <2> QED
    BY <2>1, <2>2 DEF IInv
<1> QED
  BY <1>3, <1>4, <1>5, <1>6, <1>7, <1>8, <1>9 DEF Next

\* The invariant of the screen, for any number of items and any windows.
THEOREM ScreenInvariant == Spec => []IInv
BY InitInvariant, NextInvariant, PTL DEF Spec

\* Cursor, offset, filter and window keep their types.
THEOREM ScreenTypeCorrect == Spec => []TypeOK
<1>1. IInv => TypeOK
  BY DEF IInv
<1> QED
  BY <1>1, ScreenInvariant, PTL
-------------------------------------------------------------------------------
\* VisibleItem and SelectedItem as functions of the filter and the cursor.
ItemAt(some, position) ==
  CHOOSE item \in some : Cardinality({other \in some : other < item}) = position

Chosen(some, position) ==
  IF some = {} THEN 0 ELSE ItemAt(some, Min({position, LastOf(some)}))

LEMMA SelectedIsChosen ==
  /\ SelectedItem = Chosen(matched, selected)
  /\ SelectedItem' = Chosen(matched', selected')
  /\ \A position : VisibleItem(position) = ItemAt(matched, position)
BY DEF SelectedItem, VisibleItem, Chosen, ItemAt, LastOf

LEMMA SelectedFacts ==
  ASSUME TypeOK, matched # {}
  PROVE  SelectedItem = VisibleItem(IF selected < Cardinality(matched) THEN selected
                                    ELSE Cardinality(matched) - 1)
<1>1. matched \subseteq 1 .. Items /\ selected \in Nat
  BY LimitFacts DEF TypeOK
<1>2. Cardinality(matched) \in Nat \ {0}
  BY <1>1, CountFacts
<1>3. Min({selected, LastOf(matched)}) = IF selected < Cardinality(matched) THEN selected
                                         ELSE Cardinality(matched) - 1
  BY <1>1, <1>2, MinOfTwo DEF LastOf
<1> QED
  BY <1>3 DEF SelectedItem

\* What is above a drawn item is drawn: fewer rows come before it.
LEMMA DrawnAbove ==
  ASSUME TypeOK, NEW last \in Drawn, last \in Int, First \in Int,
         NEW above \in First .. LastOf(matched), above <= last
  PROVE  above \in Drawn
<1>1. height \in Nat /\ width \in Nat /\ MaxRows \in Nat
  BY HeightFacts, ScreenAssumption
<1>2. above \in Int
  OBVIOUS
<1>3. Visible \in Int /\ Min({ListRows, Max({6, height}) - 4}) \in Int
  <2>1. Max({6, height}) \in Nat /\ Max({12, width}) \in Nat
    BY <1>1, MaxOfTwo
  <2> DEFINE m == Max({6, height})
  <2>2. BodyHeight \in Nat
    <3>1. m - 6 \in Int
      BY <2>1
    <3>2. Max({6, m - 6}) \in Nat
      BY <3>1, MaxOfTwo
    <3> QED
      BY <3>2 DEF BodyHeight
  <2>3. ListHeight \in Nat
    BY <2>2, MaxOfTwo DEF ListHeight
  <2>4. ListRows \in Int
    BY <2>3 DEF ListRows
  <2>5. m - 4 \in Int /\ ListRows \div 2 \in Int
    BY <2>1, <2>4
  <2>6. Max({1, ListRows \div 2}) \in Int
    BY <2>5, MaxOfTwo
  <2> HIDE DEF m
  <2>7. Min({ListRows, m - 4}) \in Int
    BY <2>4, <2>5, MinOfTwo
  <2> QED
    BY <2>6, <2>7 DEF Visible, m
<1>4. /\ last < First + Visible
      /\ Cardinality(RowsBefore(last)) < Min({ListRows, Max({6, height}) - 4})
  BY DEF Drawn
<1>5. IsFiniteSet(RowsBefore(last))
  <2>1. IsFiniteSet(First .. last - 1) /\ IsFiniteSet(1 .. MaxRows)
    BY <1>1, FS_Interval
  <2>2. IsFiniteSet((First .. last - 1) \X (1 .. MaxRows))
    BY <2>1, FS_Product
  <2> QED
    BY <2>2, FS_Subset DEF RowsBefore
<1>6. RowsBefore(above) \in SUBSET RowsBefore(last)
  <2>1. First .. above - 1 \subseteq First .. last - 1
    BY <1>2
  <2> QED
    BY <2>1 DEF RowsBefore
<1>7. /\ Cardinality(RowsBefore(above)) <= Cardinality(RowsBefore(last))
      /\ Cardinality(RowsBefore(above)) \in Nat /\ Cardinality(RowsBefore(last)) \in Nat
  BY <1>5, <1>6, FS_Subset, FS_CardinalityType
<1>8. above < First + Visible
  BY <1>2, <1>3, <1>4
<1>9. Cardinality(RowsBefore(above)) < Min({ListRows, Max({6, height}) - 4})
  BY <1>3, <1>4, <1>7
<1> QED
  BY <1>8, <1>9 DEF Drawn

LEMMA MarkedIsSelected == IInv => MarkIsSelection
<1> SUFFICES ASSUME IInv PROVE MarkIsSelection
  OBVIOUS
<1>1. /\ selected \in Nat /\ offset \in Nat /\ height \in Nat /\ width \in Nat
      /\ matched \subseteq 1 .. Items
  BY LimitFacts, HeightFacts DEF IInv, TypeOK
<1>2. /\ Cardinality(matched) \in Nat
      /\ matched # {} => Cardinality(matched) \in Nat \ {0}
  BY <1>1, CountFacts
<1>3. CASE matched = {}
  <2>1. LastOf(matched) = -1
    BY <1>3, FS_EmptySet DEF LastOf
  <2>2. Drawn \subseteq First .. -1 /\ First = -1
    BY <1>1, <2>1, MinOfTwo DEF Drawn, First
  <2>3. Drawn \cap {selected} = {}
    BY <1>1, <2>2
  <2> QED
    BY <1>3, <2>3 DEF MarkIsSelection, Marked
<1>4. CASE matched # {}
  <2> DEFINE n == Cardinality(matched)
  <2>1. First = (IF offset < n THEN offset ELSE n - 1) /\ LastOf(matched) = n - 1
    BY <1>1, <1>2, <1>4, MinOfTwo DEF First, LastOf
  <2>2. selected \in Drawn => SelectedItem = VisibleItem(selected)
    <3>1. selected \in Drawn => selected < n
      BY <1>1, <1>2, <2>1 DEF Drawn
    <3> QED
      BY <1>4, <3>1, SelectedFacts DEF IInv
  <2>3. Marked \subseteq {SelectedItem}
    BY <2>2 DEF Marked
  <2>4. ASSUME ~strayed, EndOfPage \in Drawn
        PROVE  Marked = {SelectedItem}
    <3>1. selected < n /\ offset <= selected /\ selected < offset + Page(height)
      BY <1>4, <2>4 DEF IInv, WindowInv
    <3>2. Page(height) \in Nat \ {0} /\ First = offset
      BY <1>1, <1>2, <2>1, <3>1, PageFacts
    <3>3. EndOfPage = IF offset + Page(height) - 1 <= n - 1 THEN offset + Page(height) - 1 ELSE n - 1
      BY <1>1, <1>2, <2>1, <3>2, MinOfTwo DEF EndOfPage
    <3>4. /\ selected \in First .. LastOf(matched) /\ EndOfPage \in Int
          /\ First \in Int /\ selected <= EndOfPage
      BY <1>1, <1>2, <2>1, <3>1, <3>2, <3>3
    <3>5. selected \in Drawn
      <4>1. TypeOK
        BY DEF IInv
      <4> QED
        BY <2>4, <3>4, <4>1, DrawnAbove
    <3> QED
      BY <2>2, <3>5 DEF Marked
  <2> QED
    BY <2>3, <2>4 DEF MarkIsSelection
<1> QED
  BY <1>3, <1>4

\* The marker is on the item the decision keys act on, through any filter,
\* scrolling and resizing.
THEOREM MarkIsSelectionHolds == Spec => []MarkIsSelection
BY MarkedIsSelected, ScreenInvariant, PTL

-------------------------------------------------------------------------------
LEMMA StableStep ==
  ASSUME IInv, Resize \/ PressMode \/ LeaveFilter
  PROVE  SelectedItem' = SelectedItem
<1>1. CASE PressMode \/ LeaveFilter
  <2>1. matched' = matched /\ selected' = selected
    BY <1>1 DEF PressMode, LeaveFilter
  <2> QED
    BY <2>1, SelectedIsChosen
<1>2. CASE Resize
  <2>1. matched' = matched /\ Move(0, height')
    BY <1>2 DEF Resize
  <2>2. CASE matched = {}
    BY <2>1, <2>2 DEF SelectedItem
  <2>3. CASE matched # {}
    <3>1. matched \subseteq 1 .. Items /\ selected \in Nat
      BY LimitFacts DEF IInv, TypeOK
    <3>2. Cardinality(matched) \in Nat \ {0}
      BY <2>3, <3>1, CountFacts
    <3>3. selected' = Clamped(selected)
      <4>1. selected + 0 = selected
        BY <3>1
      <4>2. selected' = Clamped(selected + 0)
        BY <2>1, <2>3, Zenon DEF Move
      <4> QED
        BY <4>1, <4>2
    <3>4. selected' = IF selected < Cardinality(matched) THEN selected
                      ELSE Cardinality(matched) - 1
      BY <2>3, <3>1, <3>2, <3>3, ClampedFacts DEF IInv
    <3>5. /\ Min({selected, LastOf(matched)}) = selected'
          /\ Min({selected', LastOf(matched)}) = selected'
      BY <3>1, <3>2, <3>4, MinOfTwo DEF LastOf
    <3> QED
      BY <2>1, <3>5, SelectedIsChosen DEF Chosen
  <2> QED
    BY <2>2, <2>3
<1> QED
  BY <1>1, <1>2

\* The window, the mode and a filter that is left alone never change the item that
\* decisions act on.
THEOREM SelectionIsStableHolds == Spec => SelectionIsStable
<1>1. IInv /\ [Next]_vars =>
        [Resize \/ PressMode \/ LeaveFilter => SelectedItem' = SelectedItem]_vars
  BY StableStep
<1> QED
  BY <1>1, ScreenInvariant, PTL DEF Spec, SelectionIsStable
-------------------------------------------------------------------------------
\* How many of some items come before one of them.
Rank(some, item) == Cardinality({other \in some : other < item})

LEMMA ItemsAreNumbers ==
  ASSUME NEW some, some \subseteq 1 .. Items
  PROVE  some \subseteq Nat /\ Cardinality(some) \in Nat
<1>1. some \subseteq Nat
  BY ScreenAssumption
<1> QED
  BY <1>1, CountFacts

LEMMA RankFacts ==
  ASSUME NEW some, some \subseteq 1 .. Items
  PROVE  /\ \A item \in some : Rank(some, item) \in 0 .. Cardinality(some) - 1
         /\ \A item \in some : Rank(some, item) \in Nat
         /\ \A one, two \in some : one < two => Rank(some, one) < Rank(some, two)
<1>1. IsFiniteSet(some) /\ Cardinality(some) \in Nat
  BY CountFacts
<1>2. \A few \in SUBSET some :
        /\ IsFiniteSet(few) /\ Cardinality(few) \in Nat
        /\ Cardinality(few) <= Cardinality(some)
  BY <1>1, FS_Subset, FS_CardinalityType
<1>3. ASSUME NEW item \in some
      PROVE  Rank(some, item) \in 0 .. Cardinality(some) - 1
  <2> DEFINE before == {other \in some : other < item}
  <2>1. before \in SUBSET some /\ item \notin before
    BY <1>3, ScreenAssumption
  <2>2. Cardinality(before) # Cardinality(some)
    BY <1>1, <1>3, <2>1, FS_Subset
  <2> QED
    BY <1>1, <1>2, <2>1, <2>2 DEF Rank
<1>4. ASSUME NEW one \in some, NEW two \in some, one < two
      PROVE  Rank(some, one) < Rank(some, two)
  <2> DEFINE first == {other \in some : other < one}
             second == {other \in some : other < two}
  <2>0. some \subseteq Nat
    BY ItemsAreNumbers
  <2>1. /\ first \in SUBSET second /\ second \in SUBSET some
        /\ one \in second /\ one \notin first
    <3>1. \A x \in some : x < one => x < two
      BY <1>4, <2>0
    <3>2. ~(one < one)
      BY <2>0
    <3> QED
      BY <1>4, <3>1, <3>2
  <2>2. first \in SUBSET some
    BY <2>1
  <2>3. Cardinality(first) \in Nat /\ Cardinality(second) \in Nat /\ IsFiniteSet(second)
    BY <1>2, <2>1, <2>2
  <2>4. Cardinality(first) <= Cardinality(second) /\ Cardinality(first) # Cardinality(second)
    BY <2>1, <2>3, FS_Subset
  <2> QED
    BY <2>3, <2>4 DEF Rank
<1>5. \A item \in some : Rank(some, item) \in Nat
  BY <1>1, <1>3
<1> QED
  BY <1>3, <1>4, <1>5

\* Ranks count from 0 without a gap: every position in the list has its item.
LEMMA ItemAtFacts ==
  ASSUME NEW some, some \subseteq 1 .. Items, NEW position \in 0 .. Cardinality(some) - 1
  PROVE  /\ ItemAt(some, position) \in some
         /\ Rank(some, ItemAt(some, position)) = position
<1> DEFINE n == Cardinality(some)
           rank == [item \in some |-> Rank(some, item)]
<1>1. n \in Nat /\ IsFiniteSet(some)
  BY CountFacts
<1>2. IsFiniteSet(0 .. n - 1) /\ Cardinality(0 .. n - 1) = n
  <2> DEFINE m == n - 1
  <2>1. m \in Int /\ 0 \in Int
    BY <1>1
  <2> HIDE DEF m
  <2>2. IsFiniteSet(0 .. m) /\ Cardinality(0 .. m) = IF 0 > m THEN 0 ELSE m - 0 + 1
    BY <2>1, FS_Interval
  <2>3. n = m + 1 /\ n \in Nat
    BY <1>1, <2>1 DEF m
  <2> QED
    BY <2>1, <2>2, <2>3 DEF m
<1>3. rank \in [some -> 0 .. n - 1]
  BY RankFacts
<1>4. ASSUME NEW one \in some, NEW two \in some, rank[one] = rank[two]
      PROVE  one = two
  <2>1. one \in Nat /\ two \in Nat /\ Rank(some, one) = Rank(some, two)
    BY <1>4, ItemsAreNumbers
  <2>2. Rank(some, one) \in Nat /\ Rank(some, two) \in Nat
    BY RankFacts, Zenon
  <2>3. /\ one < two => Rank(some, one) < Rank(some, two)
        /\ two < one => Rank(some, two) < Rank(some, one)
    BY RankFacts, Zenon
  <2> QED
    BY <2>1, <2>2, <2>3
<1>5. rank \in Injection(some, 0 .. n - 1)
  BY <1>3, <1>4 DEF Injection, IsInjective
<1>6. rank \in Surjection(some, 0 .. n - 1)
  BY <1>2, <1>5, FS_Injection
<1>7. \E item \in some : Rank(some, item) = position
  BY <1>6 DEF Surjection
<1> QED
  BY <1>7 DEF ItemAt, Rank

LEMMA OrderIsRank ==
  ASSUME NEW some, some \subseteq 1 .. Items, NEW one \in some, NEW two \in some
  PROVE  /\ one < two <=> Rank(some, one) < Rank(some, two)
         /\ one = two <=> Rank(some, one) = Rank(some, two)
<1>1. one \in Nat /\ two \in Nat
  BY ItemsAreNumbers
<1>2. Rank(some, one) \in Nat /\ Rank(some, two) \in Nat
  BY RankFacts, Zenon
<1>3. /\ one < two => Rank(some, one) < Rank(some, two)
      /\ two < one => Rank(some, two) < Rank(some, one)
  BY RankFacts, Zenon
<1> QED
  BY <1>1, <1>2, <1>3

\* The items after the one at a position begin with the one at the next position.
LEMMA NextItem ==
  ASSUME NEW some, some \subseteq 1 .. Items, NEW position \in 0 .. Cardinality(some) - 1
  PROVE  LET after == {item \in some : item > ItemAt(some, position)} IN
         IF position = Cardinality(some) - 1 THEN after = {}
         ELSE after # {} /\ Min(after) = ItemAt(some, position + 1)
<1> DEFINE n == Cardinality(some)
           here == ItemAt(some, position)
           after == {item \in some : item > here}
<1>1. n \in Nat /\ some \subseteq Nat
  BY ItemsAreNumbers
<1>2. here \in some /\ Rank(some, here) = position
  BY ItemAtFacts
<1>3. \A item \in some : Rank(some, item) \in 0 .. n - 1
  BY RankFacts
<1>4. \A item \in some : item \in after <=> position < Rank(some, item)
  <2> SUFFICES ASSUME NEW item \in some
               PROVE  item > here <=> position < Rank(some, item)
    OBVIOUS
  <2>1. here < item <=> Rank(some, here) < Rank(some, item)
    BY <1>2, OrderIsRank
  <2> QED
    BY <1>1, <1>2, <2>1
<1> HIDE DEF here, after
<1>5. CASE position = n - 1
  <2>1. \A item \in some : item \notin after
    BY <1>1, <1>3, <1>4, <1>5
  <2> QED
    BY <1>5, <2>1 DEF after, here
<1>6. CASE position # n - 1
  <2> DEFINE next == ItemAt(some, position + 1)
  <2>1. position + 1 \in 0 .. n - 1
    BY <1>1, <1>6
  <2>2. next \in some /\ Rank(some, next) = position + 1
    BY <2>1, ItemAtFacts
  <2> HIDE DEF next
  <2>3. next \in after
    BY <1>4, <2>2
  <2>4. ASSUME NEW item \in after
        PROVE  next <= item
    <3>1. item \in some
      BY DEF after
    <3>2. ~(Rank(some, item) < Rank(some, next))
      BY <1>1, <1>3, <1>4, <2>2, <3>1
    <3>3. ~(item < next)
      BY <2>2, <3>1, <3>2, OrderIsRank
    <3> QED
      BY <1>1, <2>2, <3>1, <3>3
  <2>5. after \subseteq Int
    <3>1. some \subseteq Int
      BY <1>1
    <3>2. after \subseteq some
      BY DEF after
    <3> QED
      BY <3>1, <3>2
  <2>6. Min(after) \in after /\ \A item \in after : Min(after) <= item
    BY <2>3, <2>4 DEF Min
  <2>7. Min(after) = next
    <3>1. Min(after) <= next /\ next <= Min(after)
      BY <2>3, <2>4, <2>6
    <3>2. Min(after) \in Int /\ next \in Int
      BY <2>3, <2>5, <2>6
    <3> QED
      BY <3>1, <3>2
  <2> QED
    BY <1>6, <2>3, <2>7 DEF after, here, next
<1> QED
  BY <1>5, <1>6

\* The items before the one at a position end with the one at the previous position.
LEMMA PreviousItem ==
  ASSUME NEW some, some \subseteq 1 .. Items, NEW position \in 0 .. Cardinality(some) - 1
  PROVE  LET before == {item \in some : item < ItemAt(some, position)} IN
         IF position = 0 THEN before = {}
         ELSE before # {} /\ Max(before) = ItemAt(some, position - 1)
<1> DEFINE n == Cardinality(some)
           here == ItemAt(some, position)
           before == {item \in some : item < here}
<1>1. n \in Nat /\ some \subseteq Nat
  BY ItemsAreNumbers
<1>2. here \in some /\ Rank(some, here) = position
  BY ItemAtFacts
<1>3. \A item \in some : Rank(some, item) \in 0 .. n - 1
  BY RankFacts
<1>4. \A item \in some : item \in before <=> Rank(some, item) < position
  <2> SUFFICES ASSUME NEW item \in some
               PROVE  item < here <=> Rank(some, item) < position
    OBVIOUS
  <2>1. item < here <=> Rank(some, item) < Rank(some, here)
    BY <1>2, OrderIsRank
  <2> QED
    BY <1>2, <2>1
<1> HIDE DEF here, before
<1>5. CASE position = 0
  <2>1. \A item \in some : item \notin before
    BY <1>1, <1>3, <1>4, <1>5
  <2> QED
    BY <1>5, <2>1 DEF before, here
<1>6. CASE position # 0
  <2> DEFINE previous == ItemAt(some, position - 1)
  <2>1. position - 1 \in 0 .. n - 1
    BY <1>1, <1>6
  <2>2. previous \in some /\ Rank(some, previous) = position - 1
    BY <2>1, ItemAtFacts
  <2> HIDE DEF previous
  <2>3. previous \in before
    BY <1>4, <2>2
  <2>4. ASSUME NEW item \in before
        PROVE  previous >= item
    <3>1. item \in some
      BY DEF before
    <3>2. ~(Rank(some, previous) < Rank(some, item))
      BY <1>1, <1>3, <1>4, <2>2, <3>1
    <3>3. ~(previous < item)
      BY <2>2, <3>1, <3>2, OrderIsRank
    <3> QED
      BY <1>1, <2>2, <3>1, <3>3
  <2>5. before \subseteq Int
    <3>1. some \subseteq Int
      BY <1>1
    <3>2. before \subseteq some
      BY DEF before
    <3> QED
      BY <3>1, <3>2
  <2>6. Max(before) \in before /\ \A item \in before : Max(before) >= item
    BY <2>3, <2>4 DEF Max
  <2>7. Max(before) = previous
    <3>1. Max(before) >= previous /\ previous >= Max(before)
      BY <2>3, <2>4, <2>6
    <3>2. Max(before) \in Int /\ previous \in Int
      BY <2>3, <2>5, <2>6
    <3> QED
      BY <3>1, <3>2
  <2> QED
    BY <1>6, <2>3, <2>7 DEF before, here, previous
<1> QED
  BY <1>5, <1>6
-------------------------------------------------------------------------------
LEMMA DownStep ==
  ASSUME IInv, PressDown
  PROVE  SelectedItem' = IF After = {} THEN SelectedItem ELSE Min(After)
<1>1. matched' = matched /\ Move(1, height)
  BY DEF PressDown
<1>2. matched \subseteq 1 .. Items /\ selected \in Nat
  BY LimitFacts DEF IInv, TypeOK
<1>3. CASE matched = {}
  BY <1>1, <1>3 DEF SelectedItem, After
<1>4. CASE matched # {}
  <2> DEFINE n == Cardinality(matched)
             here == IF selected < n THEN selected ELSE n - 1
  <2>1. n \in Nat \ {0}
    BY <1>2, <1>4, CountFacts
  <2>2. SelectedItem = ItemAt(matched, here) /\ here \in 0 .. n - 1
    BY <1>2, <1>4, <2>1, SelectedFacts, SelectedIsChosen DEF IInv
  <2>3. selected' = IF here = n - 1 THEN n - 1 ELSE here + 1
    <3>1. selected' = Clamped(selected + 1) /\ selected + 1 \in Int
      <4>1. selected' = Clamped(selected + 1)
        BY <1>1, <1>4, Zenon DEF Move
      <4> QED
        BY <1>2, <4>1
    <3>2. Clamped(selected + 1) = IF selected + 1 < 0 THEN 0
                                  ELSE IF selected + 1 >= n THEN n - 1 ELSE selected + 1
      BY <1>4, <3>1, ClampedFacts DEF IInv
    <3> QED
      BY <1>2, <2>1, <3>1, <3>2
  <2>4. SelectedItem' = ItemAt(matched, selected')
    <3>1. selected' \in Nat /\ selected' <= n - 1
      BY <2>1, <2>2, <2>3
    <3>2. Min({selected', LastOf(matched)}) = selected'
      BY <2>1, <3>1, MinOfTwo DEF LastOf
    <3> QED
      BY <1>1, <1>4, <3>2, SelectedIsChosen DEF Chosen
  <2>5. IF here = n - 1 THEN After = {} ELSE After # {} /\ Min(After) = ItemAt(matched, here + 1)
    <3>1. After = {item \in matched : item > ItemAt(matched, here)}
      BY <2>2 DEF After
    <3>2. here \in 0 .. Cardinality(matched) - 1
      BY <2>2
    <3> HIDE DEF here
    <3>3. LET after == {item \in matched : item > ItemAt(matched, here)} IN
          IF here = Cardinality(matched) - 1 THEN after = {}
          ELSE after # {} /\ Min(after) = ItemAt(matched, here + 1)
      BY <1>2, <3>2, NextItem, Zenon
    <3> QED
      BY <3>1, <3>3
  <2> HIDE DEF n, here
  <2> QED
    BY <2>2, <2>3, <2>4, <2>5
<1> QED
  BY <1>3, <1>4

LEMMA UpStep ==
  ASSUME IInv, PressUp
  PROVE  \/ SelectedItem' = IF Before = {} THEN SelectedItem ELSE Max(Before)
         \/ strayed /\ SelectedItem' = SelectedItem
<1>1. matched' = matched /\ Move(-1, height)
  BY DEF PressUp
<1>2. matched \subseteq 1 .. Items /\ selected \in Nat
  BY LimitFacts DEF IInv, TypeOK
<1>3. CASE matched = {}
  BY <1>1, <1>3 DEF SelectedItem, Before
<1>4. CASE matched # {}
  <2> DEFINE n == Cardinality(matched)
             here == IF selected < n THEN selected ELSE n - 1
  <2>1. n \in Nat \ {0}
    BY <1>2, <1>4, CountFacts
  <2>2. SelectedItem = ItemAt(matched, here) /\ here \in 0 .. n - 1
    BY <1>2, <1>4, <2>1, SelectedFacts, SelectedIsChosen DEF IInv
  <2>3. /\ selected >= n => selected' = n - 1 /\ here = n - 1
        /\ selected < n => selected' = IF here = 0 THEN 0 ELSE here - 1
    <3>1. selected' = Clamped(selected + -1) /\ selected + -1 \in Int
      <4>1. selected' = Clamped(selected + -1)
        BY <1>1, <1>4, Zenon DEF Move
      <4> QED
        BY <1>2, <4>1
    <3>2. Clamped(selected + -1) = IF selected + -1 < 0 THEN 0
                                   ELSE IF selected + -1 >= n THEN n - 1 ELSE selected + -1
      BY <1>4, <3>1, ClampedFacts DEF IInv
    <3> QED
      BY <1>2, <2>1, <3>1, <3>2
  <2>4. SelectedItem' = ItemAt(matched, selected')
    <3>1. selected' \in Nat /\ selected' <= n - 1
      BY <1>2, <2>1, <2>2, <2>3
    <3>2. Min({selected', LastOf(matched)}) = selected'
      BY <2>1, <3>1, MinOfTwo DEF LastOf
    <3> QED
      BY <1>1, <1>4, <3>2, SelectedIsChosen DEF Chosen
  <2>5. CASE selected >= n
    <3>1. strayed
      BY <1>2, <1>4, <2>1, <2>5 DEF IInv, WindowInv
    <3> QED
      BY <2>2, <2>3, <2>4, <2>5, <3>1
  <2>6. CASE selected < n
    <3>1. Before = {item \in matched : item < ItemAt(matched, here)}
      BY <2>2 DEF Before
    <3>2. IF here = 0 THEN Before = {}
          ELSE Before # {} /\ Max(Before) = ItemAt(matched, here - 1)
      <4>1. here \in 0 .. Cardinality(matched) - 1
        BY <2>2
      <4> HIDE DEF here
      <4>2. LET before == {item \in matched : item < ItemAt(matched, here)} IN
            IF here = 0 THEN before = {}
            ELSE before # {} /\ Max(before) = ItemAt(matched, here - 1)
        BY <1>2, <4>1, PreviousItem, Zenon
      <4> QED
        BY <3>1, <4>2
    <3> HIDE DEF n, here
    <3> QED
      BY <2>2, <2>3, <2>4, <2>6, <3>2
  <2> QED
    BY <1>2, <2>1, <2>5, <2>6
<1> QED
  BY <1>3, <1>4

\* A key moves to the neighbour among the visible items and skips none of them,
\* for any number of items, any filter and any window.
THEOREM MoveSkipsNothingHolds == Spec => MoveSkipsNothing
<1>1. IInv /\ [Next]_vars =>
        [/\ PressDown => SelectedItem' =
              IF After = {} THEN SelectedItem ELSE Min(After)
         /\ PressUp =>
              \/ SelectedItem' = IF Before = {} THEN SelectedItem ELSE Max(Before)
              \/ strayed /\ SelectedItem' = SelectedItem]_vars
  BY DownStep, UpStep
<1> QED
  BY <1>1, ScreenInvariant, PTL DEF Spec, MoveSkipsNothing
===============================================================================
