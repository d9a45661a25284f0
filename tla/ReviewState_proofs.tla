--------------------------- MODULE ReviewState_proofs ---------------------------
(***************************************************************************)
(* Proofs about ReviewState for any items, contents and number of          *)
(* comments.  What Readiness, the final confirmation and the saved session *)
(* depend on is preserved together; SameReview is why the marks an agent's *)
(* claims leave behind disturb none of them.                               *)
(***************************************************************************)
EXTENDS ReviewState, WellFoundedInduction, SequenceTheorems, TLAPS

\* Nothing of a review is in memory while no program has it loaded.
ClosedInv ==
  ~open =>
    /\ items = NewItems /\ comments = <<>> /\ lifecycle = "reviewing"
    /\ confirmation = None

FitsInv == disk # None => Len(disk.comments) <= MaxComments

IInv ==
  /\ TypeOK /\ ClosedInv /\ FitsInv
  /\ DecisionsAreCurrent /\ ReadyIsTrue /\ ConfirmationIsCurrent /\ EnteredIsSaved

\* Comments that differ at most in the marks of an agent's claims.
SameReview(some, others) ==
  /\ Len(some) = Len(others)
  /\ \A i \in 1 .. Len(some) :
       /\ some[i].comment_id = others[i].comment_id /\ some[i].body = others[i].body
       /\ some[i].change_id = others[i].change_id
       /\ some[i].status = "human_confirmed" <=> others[i].status = "human_confirmed"

-------------------------------------------------------------------------------
LEMMA SmallestIsFound ==
  ASSUME NEW n \in Nat, NEW S \in SUBSET (1 .. n), S # {}
  PROVE  Min(S) \in S
<1>1. \E x \in S : \A y \in S : x <= y
  <2>1. S \subseteq Nat
    OBVIOUS
  <2>2. \E x \in S : \A y \in S : ~(<<y, x>> \in OpToRel(<, Nat))
    BY <2>1, NatLessThanWellFounded, WFMin
  <2>3. \A x, y \in S : <<y, x>> \in OpToRel(<, Nat) <=> y < x
    BY <2>1 DEF OpToRel
  <2>4. \E x \in S : \A y \in S : ~(y < x)
    BY <2>2, <2>3, Zenon
  <2> QED
    BY <2>1, <2>4
<1> QED
  BY <1>1 DEF Min

\* What State.comment finds is a comment with the ID.
LEMMA FoundHasId ==
  ASSUME TypeOK, NEW id \in Nat, Find(id) # 0
  PROVE  Find(id) \in 1 .. Len(comments) /\ comments[Find(id)].comment_id = id
<1> DEFINE I == {i \in 1 .. Len(comments) : comments[i].comment_id = id}
<1>1. Find(id) = IF I # {} THEN Min(I) ELSE 0
  BY DEF Find, SelectInSeq
<1>2. I # {} /\ Len(comments) \in Nat
  BY <1>1 DEF TypeOK
<1>3. Min(I) \in I
  BY <1>2, SmallestIsFound
<1> QED
  BY <1>1, <1>2, <1>3

LEMMA CommentFacts ==
  ASSUME TypeOK
  PROVE  /\ Len(comments) \in Nat
         /\ \A i \in 1 .. Len(comments) : comments[i] \in Comment
BY ElementOfSeq DEF TypeOK

\* ClaimResolved, complete or not, changes nothing but the marks.
LEMMA ClaimsAreMarks ==
  ASSUME TypeOK, NEW ids \in SUBSET Nat, \A id \in ids : Claimable(id)
  PROVE  /\ Claimed(ids) \in Seq(Comment)
         /\ SameReview(comments, Claimed(ids))
         /\ \A someItems : Ready(someItems, comments) => Ready(someItems, Claimed(ids))
         /\ \A someItems : Reviewed(someItems, Claimed(ids)) = Reviewed(someItems, comments)
<1> DEFINE marked == Claimed(ids)
<1>1. Len(comments) \in Nat /\ \A i \in 1 .. Len(comments) : comments[i] \in Comment
  BY CommentFacts
<1>2. ASSUME NEW i \in 1 .. Len(comments)
      PROVE  /\ marked[i] \in Comment
             /\ marked[i].comment_id = comments[i].comment_id
             /\ marked[i].body = comments[i].body
             /\ marked[i].change_id = comments[i].change_id
             /\ \/ marked[i] = comments[i]
                \/ comments[i].status = "open" /\ marked[i].status = "agent_claimed"
  <2>1. marked[i] = IF \E id \in ids : Find(id) = i
                      THEN [comments[i] EXCEPT !.status = "agent_claimed"] ELSE comments[i]
    BY DEF Claimed
  <2>2. CASE \E id \in ids : Find(id) = i
    <3>1. comments[i].status = "open"
      BY <2>2 DEF Claimable
    <3> QED
      BY <1>1, <2>1, <2>2, <3>1 DEF Comment, CommentStatus
  <2>3. CASE ~\E id \in ids : Find(id) = i
    BY <1>1, <2>1, <2>3
  <2> QED
    BY <2>2, <2>3
<1>3. DOMAIN marked = 1 .. Len(comments) /\ marked \in [1 .. Len(comments) -> Comment]
  BY <1>2 DEF Claimed
<1>4. marked \in Seq(Comment) /\ Len(marked) = Len(comments)
  BY <1>1, <1>3
<1> HIDE DEF marked
<1>5. SameReview(comments, marked)
  BY <1>2, <1>4 DEF SameReview
<1>6. ASSUME NEW someItems, Ready(someItems, comments)
      PROVE  Ready(someItems, marked)
  BY <1>2, <1>4, <1>6 DEF Ready
<1>7. ASSUME NEW someItems
      PROVE  Reviewed(someItems, marked) = Reviewed(someItems, comments)
  <2>1. \A i \in 1 .. Len(comments) :
          (marked[i].status = "human_confirmed") = (comments[i].status = "human_confirmed")
    BY <1>2
  <2>2. [i \in 1 .. Len(marked) |->
           [id |-> marked[i].comment_id, body |-> marked[i].body,
            confirmed |-> marked[i].status = "human_confirmed"]]
        = [i \in 1 .. Len(comments) |->
           [id |-> comments[i].comment_id, body |-> comments[i].body,
            confirmed |-> comments[i].status = "human_confirmed"]]
    BY <1>2, <1>4, <2>1
  <2> QED
    BY <2>2 DEF Reviewed
<1> QED
  BY <1>4, <1>5, <1>6, <1>7 DEF marked

-------------------------------------------------------------------------------
LEMMA NewItemsAreNew ==
  NewItems \in [ChangeId -> Item] /\ Judged(NewItems)
BY ReviewAssumption DEF NewItems, Item, Decision, Judged

LEMMA InitInvariant == Init => IInv
<1> SUFFICES ASSUME Init PROVE IInv
  OBVIOUS
<1> USE DEF Init
<1>1. comments \in Seq(Comment) /\ Len(comments) = 0
  OBVIOUS
<1>2. TypeOK
  <2>1. items \in [ChangeId -> Item]
    BY NewItemsAreNew
  <2>2. comments \in Seq(Comment) /\ Len(comments) <= MaxComments
    BY <1>1, ReviewAssumption
  <2>3. texts \in 0 .. MaxTexts /\ failures \in 0 .. MaxFailures
    BY ReviewAssumption
  <2> QED
    BY <2>1, <2>2, <2>3 DEF TypeOK
<1>3. ClosedInv /\ DecisionsAreCurrent /\ ReadyIsTrue /\ ConfirmationIsCurrent
  BY NewItemsAreNew DEF ClosedInv, DecisionsAreCurrent, ReadyIsTrue, ConfirmationIsCurrent
<1>4. EnteredIsSaved /\ FitsInv
  BY DEF EnteredIsSaved, FitsInv
<1> QED
  BY <1>2, <1>3, <1>4 DEF IInv

\* What holds of the confirmation when the review changes.
Confirmed ==
  \/ confirmation' = None
  \/ /\ confirmation' = confirmation
     /\ Ready(items, comments) => Ready(items', comments')
     /\ Reviewed(items', comments') = Reviewed(items, comments)
  \/ /\ confirmation' = Reviewed(items', comments')
     /\ Ready(items', comments')

LEMMA ConfirmedKeeps ==
  ASSUME IInv, Confirmed
  PROVE  /\ ConfirmationIsCurrent'
         /\ confirmation' = None \/ DOMAIN confirmation' = {"items", "comments"}
<1>1. CASE confirmation' = None
  BY <1>1 DEF ConfirmationIsCurrent
<1>2. CASE /\ confirmation' = confirmation
           /\ Ready(items, comments) => Ready(items', comments')
           /\ Reviewed(items', comments') = Reviewed(items, comments)
  BY <1>2 DEF ConfirmationIsCurrent, IInv, TypeOK
<1>3. CASE confirmation' = Reviewed(items', comments') /\ Ready(items', comments')
  <2>1. DOMAIN Reviewed(items', comments') = {"items", "comments"}
    BY DEF Reviewed
  <2> QED
    BY <1>3, <2>1 DEF ConfirmationIsCurrent
<1> QED
  BY <1>1, <1>2, <1>3 DEF Confirmed

\* A change of the review that ends in a save, or in a save that failed.
LEMMA StableKeeps ==
  ASSUME IInv, open, UNCHANGED open, Confirmed, StableTransition,
         items' \in [ChangeId -> Item], Judged(items'),
         comments' \in Seq(Comment), Len(comments') <= MaxComments,
         lifecycle' \in {"reviewing", "ready"},
         lifecycle' = "ready" => Ready(items', comments'),
         visible' \subseteq ChangeId, bulk' \in (SUBSET ChangeId) \cup {None},
         request' \in (SUBSET ChangeId) \cup {None}, texts' \in 0 .. MaxTexts
  PROVE  IInv'
<1>1. ClosedInv'
  BY DEF ClosedInv
<1>2. /\ error' \in BOOLEAN /\ failures' \in 0 .. MaxFailures
      /\ disk' \in Session \cup {None}
      /\ disk' # None => Judged(disk'.items)
      /\ disk' # None /\ disk'.lifecycle = "ready" => Ready(disk'.items, disk'.comments)
      /\ disk' # None => Len(disk'.comments) <= MaxComments
      /\ ~error' => disk' = [items |-> items', comments |-> comments',
                             lifecycle |-> lifecycle']
  <2> DEFINE new == Saved(items', comments', lifecycle')
  <2>0. /\ new = [items |-> items', comments |-> comments', lifecycle |-> lifecycle']
        /\ new.items = items' /\ new.comments = comments' /\ new.lifecycle = lifecycle'
        /\ new \in Session
    BY DEF Saved, Session
  <2> HIDE DEF new
  <2>1. CASE disk' = new /\ UNCHANGED <<error, failures>>
    BY <2>0, <2>1 DEF IInv, TypeOK
  <2>2. CASE SaveFails /\ disk' \in {disk, new}
    <3>1. failures' \in 0 .. MaxFailures /\ error' = TRUE
      BY <2>2, ReviewAssumption DEF SaveFails, IInv, TypeOK
    <3>2. CASE disk' = disk
      BY <3>1, <3>2 DEF IInv, TypeOK, DecisionsAreCurrent, ReadyIsTrue, FitsInv
    <3>3. CASE disk' = new
      BY <2>0, <3>1, <3>3
    <3> QED
      BY <2>2, <3>2, <3>3
  <2> QED
    BY <2>1, <2>2 DEF StableTransition, new
<1>3. TypeOK'
  BY <1>2, ConfirmedKeeps DEF IInv, TypeOK
<1>4. DecisionsAreCurrent' /\ ReadyIsTrue' /\ FitsInv'
  BY <1>2 DEF DecisionsAreCurrent, ReadyIsTrue, FitsInv
<1>5. EnteredIsSaved'
  <2> SUFFICES ASSUME ~error' PROVE EnteredIsSaved'
    BY DEF EnteredIsSaved
  <2>1. /\ disk'.items = items' /\ disk'.comments = comments'
        /\ DOMAIN disk' = {"items", "comments", "lifecycle"}
    BY <1>2
  <2>2. disk' = None => items' = NewItems /\ comments' = <<>>
    BY <1>2, NoneIsNoSession DEF Session
  <2> QED
    BY <2>1, <2>2 DEF EnteredIsSaved
<1> QED
  BY <1>1, <1>3, <1>4, <1>5, ConfirmedKeeps DEF IInv

\* A step that leaves decisions, comments and the session alone.
LEMMA QuietKeeps ==
  ASSUME IInv, open, UNCHANGED <<open, items, comments, error, failures, texts, disk>>,
         Confirmed, lifecycle' \in {"reviewing", "ready"},
         lifecycle' = "ready" => Ready(items, comments),
         visible' \subseteq ChangeId, bulk' \in (SUBSET ChangeId) \cup {None},
         request' \in (SUBSET ChangeId) \cup {None}
  PROVE  IInv'
<1>1. TypeOK'
  BY ConfirmedKeeps DEF IInv, TypeOK
<1>2. /\ ClosedInv' /\ FitsInv'
      /\ DecisionsAreCurrent' /\ ReadyIsTrue' /\ EnteredIsSaved'
  BY DEF IInv, ClosedInv, FitsInv, DecisionsAreCurrent, ReadyIsTrue, EnteredIsSaved
<1> QED
  BY <1>1, <1>2, ConfirmedKeeps DEF IInv

LEMMA UnloadKeeps ==
  ASSUME IInv, Unload, UNCHANGED <<texts, failures>>, disk' \in Session \cup {None},
         disk' # None => Judged(disk'.items) /\ Len(disk'.comments) <= MaxComments,
         disk' # None /\ disk'.lifecycle = "ready" => Ready(disk'.items, disk'.comments)
  PROVE  IInv'
<1> USE DEF Unload, FreshView
<1>1. comments' \in Seq(Comment) /\ Len(comments') = 0
  OBVIOUS
<1>2. TypeOK'
  <2>1. items' \in [ChangeId -> Item]
    BY NewItemsAreNew
  <2>2. Len(comments') <= MaxComments
    BY <1>1, ReviewAssumption
  <2> QED
    BY <1>1, <2>1, <2>2 DEF IInv, TypeOK
<1>3. ClosedInv' /\ ReadyIsTrue' /\ ConfirmationIsCurrent' /\ EnteredIsSaved'
  BY DEF ClosedInv, ReadyIsTrue, ConfirmationIsCurrent, EnteredIsSaved
<1>4. DecisionsAreCurrent' /\ FitsInv'
  BY NewItemsAreNew DEF DecisionsAreCurrent, FitsInv
<1> QED
  BY <1>2, <1>3, <1>4 DEF IInv

-------------------------------------------------------------------------------
LEMMA DecideFacts ==
  ASSUME TypeOK, Judged(items), NEW ids \in SUBSET ChangeId,
         NEW decision \in {"approved", "rejected"}
  PROVE  /\ Decide(items, ids, decision) \in [ChangeId -> Item]
         /\ Judged(Decide(items, ids, decision))
         /\ \A c \in ChangeId :
              /\ Decide(items, ids, decision)[c].content = items[c].content
              /\ Decide(items, ids, decision)[c].decision =
                   IF c \in ids THEN decision ELSE items[c].decision
              /\ c \notin ids => Decide(items, ids, decision)[c] = items[c]
<1>1. ASSUME NEW c \in ChangeId
      PROVE  [items[c] EXCEPT !.decision = decision, !.judged = items[c].content] \in Item
  BY DEF TypeOK, Item, Decision
<1>2. \A c \in ChangeId : items[c] \in Item
  BY DEF TypeOK
<1>3. Decide(items, ids, decision) \in [ChangeId -> Item]
  BY <1>1, <1>2 DEF Decide
<1>4. ASSUME NEW c \in ChangeId
      PROVE  /\ Decide(items, ids, decision)[c].content = items[c].content
             /\ Decide(items, ids, decision)[c].decision =
                  IF c \in ids THEN decision ELSE items[c].decision
             /\ c \in ids => Decide(items, ids, decision)[c].judged = items[c].content
             /\ c \notin ids => Decide(items, ids, decision)[c] = items[c]
  BY <1>2 DEF Decide, Item
<1>5. Judged(Decide(items, ids, decision))
  BY <1>4 DEF Judged
<1> QED
  BY <1>3, <1>4, <1>5

LEMMA ReadinessIsTrue ==
  ASSUME NEW someItems, NEW someComments
  PROVE  /\ Readiness(someItems, someComments) \in {"reviewing", "ready"}
         /\ Readiness(someItems, someComments) = "ready" => Ready(someItems, someComments)
BY DEF Readiness

\* ApproveSelected and RejectSelected.
LEMMA SetDecisionKeeps ==
  ASSUME IInv, NEW c \in ChangeId, NEW decision \in {"approved", "rejected"},
         SetDecision(c, decision)
  PROVE  IInv'
<1> USE DEF SetDecision
<1>1. TypeOK /\ Judged(items)
  BY DEF IInv, DecisionsAreCurrent
<1>2. /\ items' \in [ChangeId -> Item] /\ Judged(items')
      /\ \A d \in ChangeId :
           /\ items'[d].content = items[d].content
           /\ d # c => items'[d].decision = items[d].decision
           /\ items'[c].decision = decision
  BY <1>1, DecideFacts
<1>3. Confirmed
  <2>1. CASE items[c].decision = decision
    <3>1. \A d \in ChangeId : /\ items'[d].content = items[d].content
                              /\ items'[d].decision = items[d].decision
      BY <1>2, <2>1
    <3>2. Reviewed(items', comments') = Reviewed(items, comments)
      BY <3>1 DEF Reviewed
    <3>3. Ready(items, comments) => Ready(items', comments')
      <4>1. \A i \in 1 .. Len(comments) : comments[i].change_id \in ChangeId
        BY <1>1, CommentFacts DEF Comment
      <4> QED
        BY <3>1, <4>1 DEF Ready
    <3> QED
      BY <2>1, <3>2, <3>3 DEF Confirmed, ConfirmationAfter
  <2>2. CASE items[c].decision # decision
    BY <2>2 DEF Confirmed, ConfirmationAfter
  <2> QED
    BY <2>1, <2>2
<1>4. /\ lifecycle' \in {"reviewing", "ready"}
      /\ lifecycle' = "ready" => Ready(items', comments')
  BY ReadinessIsTrue
<1> QED
  BY <1>1, <1>2, <1>3, <1>4, StableKeeps DEF TypeOK, view

\* ConfirmBulk and ConfirmVisibleApproval.
LEMMA ConfirmBulkKeeps ==
  ASSUME IInv, ConfirmBulk
  PROVE  IInv'
<1>1. TypeOK /\ Judged(items)
  BY DEF IInv, DecisionsAreCurrent
<1>2. CASE /\ bulk # {} /\ bulk = VisiblePending
           /\ items' = Decide(items, bulk, "approved")
           /\ confirmation' = None
           /\ lifecycle' = Readiness(items', comments)
           /\ StableTransition
  <2>1. bulk \in SUBSET ChangeId
    BY <1>1 DEF ConfirmBulk, TypeOK
  <2>2. items' \in [ChangeId -> Item] /\ Judged(items')
    BY <1>1, <1>2, <2>1, DecideFacts
  <2>3. /\ lifecycle' \in {"reviewing", "ready"}
        /\ lifecycle' = "ready" => Ready(items', comments')
    BY <1>2, ReadinessIsTrue DEF ConfirmBulk
  <2> QED
    BY <1>1, <1>2, <2>2, <2>3, StableKeeps DEF ConfirmBulk, Confirmed, TypeOK
<1>3. CASE UNCHANGED <<items, lifecycle, confirmation, error, failures, disk>>
  BY <1>1, <1>3, QuietKeeps DEF ConfirmBulk, Confirmed, TypeOK, IInv, ReadyIsTrue
<1> QED
  BY <1>2, <1>3 DEF ConfirmBulk

-------------------------------------------------------------------------------
\* AddComment, EditComment, WithdrawComment and ConfirmComment change comments,
\* take the word ready back and save.
LEMMA CommentsKeep ==
  ASSUME IInv, open, UNCHANGED <<open, items, view, request>>, texts' \in 0 .. MaxTexts,
         comments' \in Seq(Comment), Len(comments') <= MaxComments,
         InvalidateFinalConfirmation, StableTransition
  PROVE  IInv'
<1>1. items' \in [ChangeId -> Item] /\ Judged(items')
  BY DEF IInv, TypeOK, DecisionsAreCurrent
<1>2. Confirmed /\ lifecycle' = "reviewing"
  BY DEF InvalidateFinalConfirmation, Confirmed
<1> QED
  BY <1>1, <1>2, StableKeeps DEF IInv, TypeOK, view

LEMMA AddCommentKeeps ==
  ASSUME IInv, NEW c \in ChangeId, AddComment(c)
  PROVE  IInv'
<1> DEFINE new == [comment_id |-> Len(comments) + 1, change_id |-> c, status |-> "open",
                   body |-> texts']
<1>1. texts' \in 0 .. MaxTexts /\ texts' \in Nat /\ Len(comments) \in Nat
  BY ReviewAssumption DEF IInv, TypeOK, AddComment
<1>2. new \in Comment
  BY <1>1 DEF Comment, CommentStatus
<1>3. comments' = Append(comments, new) /\ comments \in Seq(Comment)
  BY DEF AddComment, IInv, TypeOK
<1> HIDE DEF new
<1>4. comments' \in Seq(Comment) /\ Len(comments') = Len(comments) + 1
  BY <1>2, <1>3
<1>5. Len(comments') <= MaxComments
  BY <1>1, <1>4, ReviewAssumption DEF AddComment
<1> QED
  BY <1>1, <1>4, <1>5, CommentsKeep DEF AddComment

\* A comment that was found may be replaced.
LEMMA ReplaceComment ==
  ASSUME TypeOK, NEW id \in Nat, Find(id) # 0, NEW new \in Comment
  PROVE  /\ [comments EXCEPT ![Find(id)] = new] \in Seq(Comment)
         /\ Len([comments EXCEPT ![Find(id)] = new]) = Len(comments)
<1>1. Find(id) \in 1 .. Len(comments)
  BY FoundHasId
<1> QED
  BY <1>1, ExceptSeq DEF TypeOK

LEMMA EditCommentKeeps ==
  ASSUME IInv, NEW id \in Nat, EditComment(id)
  PROVE  IInv'
<1> DEFINE new == [comments[Find(id)] EXCEPT !.body = texts', !.status = "open"]
<1>1. /\ texts' \in 0 .. MaxTexts /\ texts' \in Nat
      /\ TypeOK /\ Find(id) # 0 /\ Find(id) \in 1 .. Len(comments)
      /\ comments[Find(id)] \in Comment /\ comments \in Seq(Comment)
      /\ Len(comments) <= MaxComments
  BY FoundHasId, CommentFacts, ReviewAssumption DEF IInv, TypeOK, EditComment
<1>2. new \in Comment
  BY <1>1 DEF Comment, CommentStatus
<1>3. comments' = [comments EXCEPT ![Find(id)] = new]
  BY <1>1 DEF EditComment
<1> HIDE DEF new
<1>4. comments' \in Seq(Comment) /\ Len(comments') = Len(comments)
  BY <1>1, <1>2, <1>3, ReplaceComment
<1> QED
  BY <1>1, <1>4, CommentsKeep DEF EditComment

LEMMA ConfirmCommentKeeps ==
  ASSUME IInv, NEW id \in Nat, ConfirmComment(id)
  PROVE  IInv'
<1> DEFINE new == [comments[Find(id)] EXCEPT !.status = "human_confirmed"]
<1>1. /\ TypeOK /\ Find(id) # 0 /\ Find(id) \in 1 .. Len(comments)
      /\ comments[Find(id)] \in Comment /\ comments \in Seq(Comment)
      /\ Len(comments) <= MaxComments
  BY FoundHasId, CommentFacts DEF IInv, TypeOK, ConfirmComment
<1>2. new \in Comment
  BY <1>1 DEF Comment, CommentStatus
<1>3. comments' = [comments EXCEPT ![Find(id)] = new]
  BY <1>1 DEF ConfirmComment
<1> HIDE DEF new
<1>4. comments' \in Seq(Comment) /\ Len(comments') = Len(comments)
  BY <1>1, <1>2, <1>3, ReplaceComment
<1> QED
  BY <1>1, <1>4, CommentsKeep DEF ConfirmComment, IInv, TypeOK

LEMMA WithdrawCommentKeeps ==
  ASSUME IInv, NEW id \in Nat, WithdrawComment(id)
  PROVE  IInv'
<1>1. /\ Find(id) \in 1 .. Len(comments) /\ Len(comments) \in Nat
      /\ \A i \in 1 .. Len(comments) : comments[i] \in Comment
      /\ Len(comments) <= MaxComments
  BY FoundHasId, CommentFacts DEF IInv, TypeOK, WithdrawComment
<1>2. /\ SubSeq(comments, 1, Find(id) - 1) \in Seq(Comment)
      /\ Len(SubSeq(comments, 1, Find(id) - 1)) = Find(id) - 1
  BY <1>1, SubSeqProperties
<1>3. /\ SubSeq(comments, Find(id) + 1, Len(comments)) \in Seq(Comment)
      /\ Len(SubSeq(comments, Find(id) + 1, Len(comments))) = Len(comments) - Find(id)
  BY <1>1, SubSeqProperties
<1>4. comments' \in Seq(Comment) /\ Len(comments') = Len(comments) - 1
  <2> DEFINE before == SubSeq(comments, 1, Find(id) - 1)
             after == SubSeq(comments, Find(id) + 1, Len(comments))
  <2>1. comments' = before \o after
    BY DEF WithdrawComment, RemoveAt
  <2>2. /\ before \in Seq(Comment) /\ Len(before) = Find(id) - 1
        /\ after \in Seq(Comment) /\ Len(after) = Len(comments) - Find(id)
    BY <1>2, <1>3
  <2> HIDE DEF before, after
  <2>3. comments' \in Seq(Comment) /\ Len(comments') = Len(before) + Len(after)
    BY <2>1, <2>2, ConcatProperties
  <2> QED
    BY <1>1, <2>2, <2>3
<1>5. Len(comments') <= MaxComments
  BY <1>1, <1>4, ReviewAssumption
<1> QED
  BY <1>4, <1>5, CommentsKeep DEF WithdrawComment, IInv, TypeOK

-------------------------------------------------------------------------------
LEMMA RequestKeeps ==
  ASSUME IInv, RequestRevision
  PROVE  IInv'
<1>1. TypeOK /\ \A i \in 1 .. Len(comments) :
                  comments[i].comment_id \in Nat /\ comments[i].change_id \in ChangeId
  BY CommentFacts DEF IInv, Comment
<1>2. request' \in SUBSET ChangeId
  BY <1>1 DEF RequestRevision
<1> QED
  BY <1>1, <1>2, QuietKeeps
     DEF RequestRevision, Confirmed, TypeOK, IInv, ReadyIsTrue, review, view

\* ClaimResolved gave up: marks, and nothing else.
LEMMA ClaimFailsKeeps ==
  ASSUME IInv, ClaimFails
  PROVE  IInv'
<1>1. TypeOK /\ open
  BY DEF IInv, ClaimFails
<1>2. PICK claims \in SUBSET OpenIds : comments' = Claimed(claims)
  BY DEF ClaimFails
<1>3. claims \in SUBSET Nat /\ \A id \in claims : Claimable(id)
  BY ReviewAssumption DEF OpenIds
<1>4. comments' = Claimed(claims)
  BY <1>2
<1>5. /\ comments' \in Seq(Comment) /\ SameReview(comments, comments')
      /\ Ready(items, comments) => Ready(items, comments')
      /\ Reviewed(items, comments') = Reviewed(items, comments)
  BY <1>1, <1>3, <1>4, ClaimsAreMarks
<1>6. Confirmed
  BY <1>5 DEF Confirmed, ClaimFails
<1>7. TypeOK'
  BY <1>5, <1>6, ConfirmedKeeps DEF TypeOK, ClaimFails, IInv, view, SameReview
<1>8. ClosedInv' /\ FitsInv' /\ DecisionsAreCurrent' /\ ReadyIsTrue'
  BY <1>1, <1>5 DEF IInv, ClosedInv, FitsInv, DecisionsAreCurrent, ReadyIsTrue, ClaimFails
<1>9. EnteredIsSaved'
  <2>1. CASE disk = None
    <3>1. ~error => comments = <<>> /\ items = NewItems
      BY <1>1, <2>1 DEF IInv, EnteredIsSaved
    <3>2. comments = <<>> => comments' = <<>>
      BY <1>5, EmptySeq DEF SameReview
    <3> QED
      BY <2>1, <3>1, <3>2 DEF EnteredIsSaved, ClaimFails
  <2>2. CASE disk # None
    BY <1>1, <1>5, <2>2 DEF IInv, EnteredIsSaved, ClaimFails, SameReview
  <2> QED
    BY <2>1, <2>2
<1> QED
  BY <1>6, <1>7, <1>8, <1>9, ConfirmedKeeps DEF IInv

LEMMA ReviseFacts ==
  ASSUME TypeOK, Judged(items), NEW contents \in [ChangeId -> Content]
  PROVE  /\ Revise(contents) \in [ChangeId -> Item]
         /\ Judged(Revise(contents))
         /\ \A c \in ChangeId :
              /\ Revise(contents)[c].content = contents[c]
              /\ IF contents[c] # items[c].content
                   THEN Revise(contents)[c].decision = "pending"
                   ELSE Revise(contents)[c] = items[c]
<1>1. ASSUME NEW c \in ChangeId
      PROVE  [items[c] EXCEPT !.content = contents[c], !.decision = "pending"] \in Item
  BY DEF TypeOK, Item, Decision
<1>2. \A c \in ChangeId : items[c] \in Item
  BY DEF TypeOK
<1>3. Revise(contents) \in [ChangeId -> Item]
  BY <1>1, <1>2 DEF Revise
<1>4. ASSUME NEW c \in ChangeId
      PROVE  /\ Revise(contents)[c].content = contents[c]
             /\ IF contents[c] # items[c].content
                  THEN Revise(contents)[c].decision = "pending"
                  ELSE Revise(contents)[c] = items[c]
  BY <1>2 DEF Revise, Modified, Item
<1>5. Judged(Revise(contents))
  BY <1>4 DEF Judged
<1> QED
  BY <1>3, <1>4, <1>5

\* The claims of a whole answer.
LEMMA ResolvedIsMarks ==
  ASSUME IInv, NEW resolved \in SUBSET OpenIds
  PROVE  /\ Claimed(resolved) \in Seq(Comment)
         /\ Len(Claimed(resolved)) = Len(comments)
         /\ Len(comments) <= MaxComments
<1>1. TypeOK
  BY DEF IInv
<1>2. resolved \in SUBSET Nat /\ \A id \in resolved : Claimable(id)
  BY ReviewAssumption DEF OpenIds
<1> QED
  BY <1>1, <1>2, ClaimsAreMarks DEF SameReview, TypeOK

\* ApplyAcceptedRevision, with either of its saves failing.
LEMMA AcceptRevisionKeeps ==
  ASSUME IInv, AcceptRevision
  PROVE  IInv'
<1>1. TypeOK /\ open /\ Judged(items) /\ request # None
  BY DEF IInv, AcceptRevision, DecisionsAreCurrent
<1>2. PICK contents \in [ChangeId -> Content], resolved \in SUBSET OpenIds :
        /\ comments' = Claimed(resolved)
        /\ InvalidateFinalConfirmation
        /\ \/ /\ UNCHANGED items
              /\ SaveFails
              /\ disk' \in {disk, Saved(items, comments', lifecycle')}
           \/ /\ items' = Revise(contents)
              /\ disk' = Saved(items', comments', lifecycle')
              /\ UNCHANGED <<error, failures>>
           \/ /\ items' = Revise(contents)
              /\ SaveFails
              /\ disk' \in {Saved(held, comments', lifecycle') : held \in {items, items'}}
  BY DEF AcceptRevision
<1>3. comments' \in Seq(Comment) /\ Len(comments') <= MaxComments
  BY <1>1, <1>2, ResolvedIsMarks
<1>4. Revise(contents) \in [ChangeId -> Item] /\ Judged(Revise(contents))
  BY <1>1, ReviseFacts
<1>5. /\ Confirmed /\ lifecycle' = "reviewing" /\ confirmation' = None
      /\ request' = None /\ UNCHANGED <<open, view, texts>>
  BY <1>2 DEF AcceptRevision, InvalidateFinalConfirmation, Confirmed
<1>6. CASE /\ UNCHANGED items
           /\ SaveFails
           /\ disk' \in {disk, Saved(items, comments', lifecycle')}
  <2>1. StableTransition
    BY <1>6 DEF StableTransition
  <2> QED
    BY <1>1, <1>3, <1>5, <1>6, <2>1, StableKeeps DEF TypeOK, view
<1>7. CASE /\ items' = Revise(contents)
           /\ \/ /\ disk' = Saved(items', comments', lifecycle')
                 /\ UNCHANGED <<error, failures>>
              \/ SaveFails /\ disk' = Saved(items', comments', lifecycle')
  <2>1. StableTransition
    BY <1>7 DEF StableTransition
  <2> QED
    BY <1>1, <1>3, <1>4, <1>5, <1>7, <2>1, StableKeeps DEF TypeOK, view
<1>8. CASE /\ items' = Revise(contents)
           /\ SaveFails
           /\ disk' = Saved(items, comments', lifecycle')
  <2>1. /\ disk' \in Session /\ disk'.items = items /\ disk'.lifecycle = "reviewing"
        /\ Len(disk'.comments) <= MaxComments
    BY <1>1, <1>3, <1>5, <1>8 DEF Saved, Session, TypeOK
  <2>2. error' = TRUE /\ failures' \in 0 .. MaxFailures
    BY <1>1, <1>8, ReviewAssumption DEF SaveFails, TypeOK
  <2>3. TypeOK'
    BY <1>1, <1>3, <1>4, <1>5, <1>8, <2>1, <2>2 DEF TypeOK, view
  <2>4. /\ ClosedInv' /\ FitsInv'
        /\ DecisionsAreCurrent' /\ ReadyIsTrue' /\ EnteredIsSaved'
    BY <1>1, <1>4, <1>5, <1>8, <2>1, <2>2
       DEF ClosedInv, FitsInv, DecisionsAreCurrent, ReadyIsTrue, EnteredIsSaved
  <2> QED
    BY <1>5, <2>3, <2>4, ConfirmedKeeps DEF IInv
<1> QED
  BY <1>2, <1>6, <1>7, <1>8

LEMMA LeaveKeeps ==
  ASSUME IInv, Quit \/ DieInRevision
  PROVE  IInv'
<1>1. CASE Quit
  BY <1>1, UnloadKeeps DEF Quit, IInv, TypeOK, DecisionsAreCurrent, ReadyIsTrue, FitsInv
<1>2. CASE DieInRevision
  <2>1. PICK resolved \in SUBSET OpenIds : disk' = Saved(items, Claimed(resolved), "reviewing")
    BY <1>2 DEF DieInRevision
  <2>2. Claimed(resolved) \in Seq(Comment) /\ Len(Claimed(resolved)) <= MaxComments
    BY ResolvedIsMarks
  <2>3. /\ disk' \in Session /\ disk'.items = items /\ disk'.lifecycle = "reviewing"
        /\ Len(disk'.comments) <= MaxComments
    BY <2>1, <2>2 DEF Saved, Session, IInv, TypeOK
  <2> QED
    BY <1>2, <2>3, UnloadKeeps DEF DieInRevision, IInv, DecisionsAreCurrent
<1> QED
  BY <1>1, <1>2

\* A loaded session fits the bounds it was saved in.
LEMMA ResumeKeeps ==
  ASSUME IInv, Resume
  PROVE  IInv'
<1>1. /\ TypeOK /\ confirmation' = None
      /\ items = NewItems /\ comments = <<>> /\ lifecycle = "reviewing"
  BY DEF IInv, ClosedInv, Resume
<1>2. CASE disk = None /\ UNCHANGED review
  BY <1>1, <1>2 DEF Resume, IInv, TypeOK, ClosedInv, FitsInv, DecisionsAreCurrent, ReadyIsTrue,
                    ConfirmationIsCurrent, EnteredIsSaved, review, view
<1>3. CASE /\ disk # None
           /\ items' = disk.items /\ comments' = disk.comments
           /\ lifecycle' = disk.lifecycle
  <2>1. /\ items' \in [ChangeId -> Item] /\ comments' \in Seq(Comment)
        /\ lifecycle' \in {"reviewing", "ready"} /\ Len(comments') <= MaxComments
    BY <1>1, <1>3 DEF TypeOK, Session, IInv, FitsInv
  <2>2. TypeOK'
    BY <1>1, <2>1 DEF Resume, TypeOK, view
  <2>3. /\ ClosedInv' /\ DecisionsAreCurrent' /\ ReadyIsTrue' /\ ConfirmationIsCurrent'
        /\ EnteredIsSaved' /\ FitsInv'
    BY <1>1, <1>3 DEF Resume, IInv, ClosedInv, FitsInv, DecisionsAreCurrent, ReadyIsTrue,
                      ConfirmationIsCurrent, EnteredIsSaved
  <2> QED
    BY <2>2, <2>3 DEF IInv
<1> QED
  BY <1>2, <1>3 DEF Resume

LEMMA ViewKeeps ==
  ASSUME IInv, SetFilter \/ PrepareBulk \/ RevisionFails \/ RenderApproval \/ ConfirmFinal
  PROVE  IInv'
<1>1. TypeOK /\ (lifecycle = "ready" => Ready(items, comments))
  BY DEF IInv, ReadyIsTrue
<1>2. CASE SetFilter
  BY <1>1, <1>2, QuietKeeps DEF SetFilter, Confirmed, TypeOK, review
<1>3. CASE PrepareBulk
  <2>1. VisiblePending \subseteq ChangeId
    BY <1>1 DEF VisiblePending, TypeOK
  <2> QED
    BY <1>1, <1>3, <2>1, QuietKeeps DEF PrepareBulk, Confirmed, TypeOK, review
<1>4. CASE RevisionFails
  BY <1>1, <1>4, QuietKeeps DEF RevisionFails, Confirmed, TypeOK, review, view
<1>5. CASE RenderApproval
  BY <1>1, <1>5, ReadinessIsTrue, QuietKeeps DEF RenderApproval, Confirmed, TypeOK, view
<1>6. CASE ConfirmFinal
  <2>1. Confirmed
    BY <1>1, <1>6 DEF ConfirmFinal, Confirmed, review
  <2> QED
    BY <1>1, <1>6, <2>1, QuietKeeps DEF ConfirmFinal, TypeOK, review, view
<1> QED
  BY <1>2, <1>3, <1>4, <1>5, <1>6

LEMMA NextInvariant == IInv /\ [Next]_vars => IInv'
<1> SUFFICES ASSUME IInv, [Next]_vars PROVE IInv'
  OBVIOUS
<1>1. CASE UNCHANGED vars
  BY <1>1 DEF vars, review, view, IInv, TypeOK, ClosedInv, FitsInv, DecisionsAreCurrent,
              ReadyIsTrue, ConfirmationIsCurrent, EnteredIsSaved
<1>2. ASSUME NEW c \in ChangeId,
             SetDecision(c, "approved") \/ SetDecision(c, "rejected") \/ AddComment(c)
      PROVE  IInv'
  BY <1>2, SetDecisionKeeps, AddCommentKeeps
<1>3. ASSUME NEW id \in 1 .. MaxComments,
             EditComment(id) \/ WithdrawComment(id) \/ ConfirmComment(id)
      PROVE  IInv'
  <2>1. id \in Nat
    BY ReviewAssumption
  <2> QED
    BY <1>3, <2>1, EditCommentKeeps, WithdrawCommentKeeps, ConfirmCommentKeeps
<1>4. CASE SetFilter \/ PrepareBulk \/ RevisionFails \/ RenderApproval \/ ConfirmFinal
  BY <1>4, ViewKeeps
<1>5. CASE ConfirmBulk \/ RequestRevision \/ ClaimFails \/ AcceptRevision
  BY <1>5, ConfirmBulkKeeps, RequestKeeps, ClaimFailsKeeps, AcceptRevisionKeeps
<1>6. CASE Quit \/ DieInRevision \/ Resume
  BY <1>6, LeaveKeeps, ResumeKeeps
<1> QED
  BY <1>1, <1>2, <1>3, <1>4, <1>5, <1>6 DEF Next

-------------------------------------------------------------------------------
\* The steps that change items while a review is loaded.
LEMMA ItemsChange ==
  ASSUME TypeOK, Next, open, open', items' # items
  PROVE  \/ \E c \in ChangeId, decision \in {"approved", "rejected"} :
              SetDecision(c, decision)
         \/ ConfirmBulk \/ AcceptRevision
BY DEF Next, AddComment, EditComment, WithdrawComment, ConfirmComment, SetFilter,
       PrepareBulk, RequestRevision, RevisionFails, ClaimFails, RenderApproval,
       ConfirmFinal, Quit, DieInRevision, Unload, Resume, review

LEMMA BulkStep ==
  ASSUME IInv, Next, open, open', bulk # None, bulk' = None, items' # items
  PROVE  \A c \in ChangeId :
           IF c \in bulk
             THEN /\ items[c].decision = "pending" /\ c \in visible
                  /\ items'[c].decision = "approved"
             ELSE items'[c] = items[c]
<1>1. TypeOK /\ Judged(items)
  BY DEF IInv, DecisionsAreCurrent
<1>2. ConfirmBulk
  BY <1>1, ItemsChange DEF SetDecision, AcceptRevision, view
<1>3. /\ bulk = VisiblePending /\ items' = Decide(items, bulk, "approved")
  BY <1>2 DEF ConfirmBulk
<1>4. bulk \in SUBSET ChangeId
  BY <1>1 DEF TypeOK
<1> QED
  BY <1>1, <1>3, <1>4, DecideFacts DEF VisiblePending

LEMMA RevisionStep ==
  ASSUME IInv, Next, open, open', NEW c \in ChangeId, items'[c].content # items[c].content
  PROVE  /\ request # None /\ c \in request
         /\ \A d \in ChangeId :
              IF items'[d].content # items[d].content
                THEN items'[d].decision = "pending"
                ELSE items'[d].decision = items[d].decision
<1>1. TypeOK /\ Judged(items)
  BY DEF IInv, DecisionsAreCurrent
<1>2. \A ids \in SUBSET ChangeId, decision \in {"approved", "rejected"} :
        Decide(items, ids, decision)[c].content = items[c].content
  BY <1>1, DecideFacts
<1>3. ~\E d \in ChangeId, decision \in {"approved", "rejected"} : SetDecision(d, decision)
  BY <1>2 DEF SetDecision
<1>4. ~ConfirmBulk
  BY <1>1, <1>2 DEF ConfirmBulk, TypeOK
<1>5. AcceptRevision
  BY <1>1, <1>3, <1>4, ItemsChange
<1>6. PICK contents \in [ChangeId -> Content] :
        WithinScope(contents) /\ items' = Revise(contents)
  BY <1>5 DEF AcceptRevision
<1>7. \A d \in ChangeId :
        /\ items'[d].content = contents[d]
        /\ IF contents[d] # items[d].content
             THEN items'[d].decision = "pending" ELSE items'[d] = items[d]
  BY <1>1, <1>6, ReviseFacts
<1>8. c \in request
  BY <1>6, <1>7 DEF WithinScope, Modified
<1>9. request # None
  BY <1>5 DEF AcceptRevision
<1> QED
  BY <1>7, <1>8, <1>9

-------------------------------------------------------------------------------
\* The inductive invariant of a review.
THEOREM ReviewInvariant == Spec => []IInv
BY InitInvariant, NextInvariant, PTL DEF Spec

\* Review, view and session keep their types.
THEOREM ReviewTypeCorrect == Spec => []TypeOK
<1>1. IInv => TypeOK
  BY DEF IInv
<1> QED
  BY <1>1, ReviewInvariant, PTL

\* No decision, in memory or saved, is about content the item no longer has.
THEOREM DecisionsAreCurrentHolds == Spec => []DecisionsAreCurrent
<1>1. IInv => DecisionsAreCurrent
  BY DEF IInv
<1> QED
  BY <1>1, ReviewInvariant, PTL

\* A review called ready, in memory or saved, is ready.
THEOREM ReadyIsTrueHolds == Spec => []ReadyIsTrue
<1>1. IInv => ReadyIsTrue
  BY DEF IInv
<1> QED
  BY <1>1, ReviewInvariant, PTL

\* A final confirmation that is held is one of the review as it is.
THEOREM ConfirmationIsCurrentHolds == Spec => []ConfirmationIsCurrent
<1>1. IInv => ConfirmationIsCurrent
  BY DEF IInv
<1> QED
  BY <1>1, ReviewInvariant, PTL

\* Without a reported failure the session holds what the reviewer entered.
THEOREM EnteredIsSavedHolds == Spec => []EnteredIsSaved
<1>1. IInv => EnteredIsSaved
  BY DEF IInv
<1> QED
  BY <1>1, ReviewInvariant, PTL

\* ConfirmBulk approves what PrepareBulk showed, and nothing else.
THEOREM BulkIsWhatWasShownHolds == Spec => BulkIsWhatWasShown
<1>1. IInv /\ [Next]_vars =>
        [open /\ open' /\ bulk # None /\ bulk' = None /\ items' # items =>
           \A c \in ChangeId :
             IF c \in bulk
               THEN /\ items[c].decision = "pending" /\ c \in visible
                    /\ items'[c].decision = "approved"
               ELSE items'[c] = items[c]]_vars
  BY BulkStep
<1> QED
  BY <1>1, ReviewInvariant, PTL DEF Spec, BulkIsWhatWasShown

\* ApplyAcceptedRevision changes items of the submitted comments only, and sends
\* each item it changes back to pending.
THEOREM RevisionStaysInScopeHolds == Spec => RevisionStaysInScope
<1>1. IInv /\ [Next]_vars =>
        [open /\ open' =>
           \A c \in ChangeId : items'[c].content # items[c].content =>
             /\ request # None /\ c \in request
             /\ \A d \in ChangeId :
                  IF items'[d].content # items[d].content
                    THEN items'[d].decision = "pending"
                    ELSE items'[d].decision = items[d].decision]_vars
  BY RevisionStep
<1> QED
  BY <1>1, ReviewInvariant, PTL DEF Spec, RevisionStaysInScope
===============================================================================
