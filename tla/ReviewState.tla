----------------------------- MODULE ReviewState -----------------------------
(***************************************************************************)
(* One review in the terminal (tui/internal/review, ui/approval.go,        *)
(* ui/revision.go): change items and their decisions, comments, the        *)
(* lifecycle, the approval view, an agent revision that is under way while *)
(* the reviewer goes on working, and the session every stable transition   *)
(* saves (State.OnStableTransition, session.Save).  Saving may fail, the   *)
(* program may stop at any point, and a later one resumes from the session.*)
(*                                                                         *)
(* The content of an item is its proposed value and its explanation; the   *)
(* checks attached to an item follow from its content.                     *)
(***************************************************************************)
EXTENDS Naturals, Sequences, FiniteSets, SequencesExt

CONSTANTS
  ChangeId,
  Content,         \* contents an agent may propose for an item
  FirstContent,    \* what the loaded proposal holds for every item
  FailingContent,  \* contents one of whose checks failed
  MaxComments,     \* bound: comments in a review
  MaxTexts,        \* bound: comment bodies ever entered
  MaxFailures,     \* bound: autosaves that fail
  None

ASSUME ReviewAssumption ==
  /\ FirstContent \in Content /\ FailingContent \subseteq Content
  /\ MaxComments \in Nat /\ MaxTexts \in Nat /\ MaxFailures \in Nat
  /\ None \notin Content

Decision == {"pending", "approved", "rejected"}
CommentStatus == {"open", "agent_claimed", "human_confirmed"}

\* judged is no field of the code: the content the reviewer last decided on.
Item == [content : Content, decision : Decision, judged : Content \cup {None}]
Comment == [comment_id : Nat, change_id : ChangeId, status : CommentStatus, body : Nat]
Session == [items : [ChangeId -> Item], comments : Seq(Comment),
            lifecycle : {"reviewing", "ready"}]

\* Nothing saved is not a session.
ASSUME NoneIsNoSession == None \notin Session

VARIABLES
  open,       \* a program has the review loaded
  items,      \* State.Items
  comments,   \* State.Comments
  lifecycle,  \* State.Lifecycle
  confirmation,  \* State.FinalConfirmationDigest: what it was computed from
  error,      \* State.Error: an autosave failed
  failures,   \* autosaves that failed so far
  visible,    \* the items the filter lets through
  bulk,       \* ApprovalView.BulkPreview
  request,    \* the items with a comment in the request the agent works on
  texts,      \* bodies entered so far
  disk        \* the saved session

review == <<items, comments, lifecycle>>
view == <<visible, bulk>>
vars == <<open, review, confirmation, error, failures, view, request, texts, disk>>

\* NewState: a proposal carries no decisions, so every item starts pending.
FreshUndecided ==
  [c \in ChangeId |-> [content |-> FirstContent, decision |-> "", judged |-> None]]

NewItems ==
  [c \in ChangeId |-> [content |-> FirstContent, decision |-> "pending", judged |-> None]]

FreshView ==
  /\ visible' = ChangeId /\ bulk' = None
  /\ request' = None /\ error' = FALSE /\ confirmation' = None

Init ==
  /\ open = TRUE
  /\ items = NewItems /\ comments = <<>> /\ lifecycle = "reviewing"
  /\ error = FALSE /\ visible = ChangeId /\ bulk = None /\ request = None
  /\ confirmation = None
  /\ texts = 0 /\ failures = 0 /\ disk = None

-------------------------------------------------------------------------------
\* State.Readiness: nothing pending, no approved item with a comment the reviewer
\* has not confirmed, no approved item with a failed check.
Ready(someItems, someComments) ==
  /\ \A c \in ChangeId : someItems[c].decision # "pending"
  /\ \A i \in 1 .. Len(someComments) :
       someItems[someComments[i].change_id].decision = "approved"
         => someComments[i].status = "human_confirmed"
  /\ \A c \in ChangeId :
       someItems[c].decision = "approved" => someItems[c].content \notin FailingContent

Readiness(someItems, someComments) ==
  IF Ready(someItems, someComments) THEN "ready" ELSE "reviewing"

SaveFails ==
  /\ failures < MaxFailures
  /\ failures' = failures + 1
  /\ error' = TRUE

Saved(someItems, someComments, someLifecycle) ==
  [items |-> someItems, comments |-> someComments, lifecycle |-> someLifecycle]

\* stableTransition saves the new state; a failure is shown and kept.  A save that
\* fails may have put the new session in place before.
StableTransition ==
  \/ /\ disk' = Saved(items', comments', lifecycle')
     /\ UNCHANGED <<error, failures>>
  \/ /\ SaveFails
     /\ disk' \in {disk, Saved(items', comments', lifecycle')}

\* invalidateFinalConfirmation
InvalidateFinalConfirmation == lifecycle' = "reviewing" /\ confirmation' = None

Decide(someItems, ids, decision) ==
  [c \in ChangeId |->
     IF c \in ids
       THEN [someItems[c] EXCEPT !.decision = decision, !.judged = someItems[c].content]
       ELSE someItems[c]]

ConfirmationAfter(c, decision) ==
  IF items[c].decision = decision THEN confirmation ELSE None

DecideUnsaved(c, decision) ==
  /\ open /\ c \in visible
  /\ items' = Decide(items, {c}, decision)
  /\ lifecycle' = Readiness(items', comments)
  /\ confirmation' = ConfirmationAfter(c, decision)
  /\ UNCHANGED <<open, comments, view, request, texts, error, failures, disk>>

DecideKeepingConfirmation(c, decision) ==
  /\ open /\ c \in visible
  /\ items' = Decide(items, {c}, decision)
  /\ lifecycle' = Readiness(items', comments)
  /\ UNCHANGED <<open, comments, confirmation, view, request, texts>>
  /\ StableTransition

\* ApproveSelected, RejectSelected: the selected item is one of the visible ones.
\* Repeating a decision keeps the final confirmation.
SetDecision(c, decision) ==
  /\ open /\ c \in visible
  /\ items' = Decide(items, {c}, decision)
  /\ lifecycle' = Readiness(items', comments)
  /\ confirmation' = ConfirmationAfter(c, decision)
  /\ UNCHANGED <<open, comments, view, request, texts>>
  /\ StableTransition

\* Typing or clearing the filter.
SetFilter ==
  /\ open
  /\ visible' \in SUBSET ChangeId
  /\ UNCHANGED <<open, review, confirmation, bulk, request, texts, error, failures, disk>>

VisiblePending == {c \in visible : items[c].decision = "pending"}

PrepareBulk ==
  /\ open
  /\ bulk' = VisiblePending
  /\ UNCHANGED <<open, review, confirmation, visible, request, texts, error, failures, disk>>

ConfirmBulkBlindly ==
  /\ open /\ bulk # None
  /\ bulk' = None
  /\ items' = Decide(items, bulk, "approved")
  /\ confirmation' = None
  /\ lifecycle' = Readiness(items', comments)
  /\ UNCHANGED <<open, comments, visible, request, texts>>
  /\ StableTransition

\* ConfirmBulk drops the preview first; ConfirmVisibleApproval then insists that
\* the same items are visible and pending.
ConfirmBulk ==
  /\ open /\ bulk # None
  /\ bulk' = None
  /\ UNCHANGED <<open, comments, visible, request, texts>>
  /\ \/ /\ bulk # {} /\ bulk = VisiblePending
        /\ items' = Decide(items, bulk, "approved")
        /\ confirmation' = None
        /\ lifecycle' = Readiness(items', comments)
        /\ StableTransition
     \/ /\ bulk = {} \/ bulk # VisiblePending
        /\ UNCHANGED <<items, lifecycle, confirmation, error, failures, disk>>

-------------------------------------------------------------------------------
\* State.comment: the first comment with this ID.
Find(id) == SelectInSeq(comments, LAMBDA comment : comment.comment_id = id)

AddCommentKeepingReady(c) ==
  /\ open /\ Len(comments) < MaxComments /\ texts < MaxTexts
  /\ texts' = texts + 1
  /\ comments' = Append(comments,
       [comment_id |-> Len(comments) + 1, change_id |-> c, status |-> "open",
        body |-> texts'])
  /\ confirmation' = None
  /\ UNCHANGED <<open, items, lifecycle, view, request>>
  /\ StableTransition

\* The new ID is the number of comments there are, plus one.
AddComment(c) ==
  /\ open /\ Len(comments) < MaxComments /\ texts < MaxTexts
  /\ texts' = texts + 1
  /\ comments' = Append(comments,
       [comment_id |-> Len(comments) + 1, change_id |-> c, status |-> "open",
        body |-> texts'])
  /\ InvalidateFinalConfirmation
  /\ UNCHANGED <<open, items, view, request>>
  /\ StableTransition

EditComment(id) ==
  /\ open /\ Find(id) # 0 /\ texts < MaxTexts
  /\ texts' = texts + 1
  /\ comments' = [comments EXCEPT ![Find(id)].body = texts', ![Find(id)].status = "open"]
  /\ InvalidateFinalConfirmation
  /\ UNCHANGED <<open, items, view, request>>
  /\ StableTransition

WithdrawComment(id) ==
  /\ open /\ Find(id) # 0
  /\ comments' = RemoveAt(comments, Find(id))
  /\ InvalidateFinalConfirmation
  /\ UNCHANGED <<open, items, view, request, texts>>
  /\ StableTransition

ConfirmComment(id) ==
  /\ open /\ Find(id) # 0 /\ comments[Find(id)].status = "agent_claimed"
  /\ comments' = [comments EXCEPT ![Find(id)].status = "human_confirmed"]
  /\ InvalidateFinalConfirmation
  /\ UNCHANGED <<open, items, view, request, texts>>
  /\ StableTransition

-------------------------------------------------------------------------------
\* BuildRevisionRequest: some of the open comments, and the items they are about.
RequestRevision ==
  /\ open /\ request = None
  /\ \E chosen \in SUBSET {i \in 1 .. Len(comments) : comments[i].status = "open"} :
       /\ chosen # {}
       /\ request' = {comments[i].change_id : i \in chosen}
  /\ UNCHANGED <<open, review, confirmation, view, texts, error, failures, disk>>

\* The agent failed, timed out or was cancelled, or its answer was malformed.
RevisionFails ==
  /\ open /\ request # None
  /\ request' = None
  /\ UNCHANGED <<open, review, confirmation, view, texts, error, failures, disk>>

Modified(contents) == {c \in ChangeId : contents[c] # items[c].content}

AnyScope(contents) == TRUE

\* ValidateRevisionScope: only items with a submitted comment may differ.
WithinScope(contents) == Modified(contents) \subseteq request

Claimable(id) == Find(id) # 0 /\ comments[Find(id)].status = "open"

\* The comments after the loop of ClaimResolved has marked some IDs.
Claimed(ids) ==
  [i \in 1 .. Len(comments) |->
     IF \E id \in ids : Find(id) = i
       THEN [comments[i] EXCEPT !.status = "agent_claimed"] ELSE comments[i]]

OpenIds == {id \in 1 .. MaxComments : Claimable(id)}

\* ApplyAcceptedRevision stops in ClaimResolved at the first ID that is not an
\* open comment; the ones before it stay marked, nothing is saved.  An answer may
\* name any ID, submitted or not.
ClaimFails ==
  /\ open /\ request # None
  /\ \E resolved \in SUBSET OpenIds : comments' = Claimed(resolved)
  /\ request' = None
  /\ UNCHANGED <<open, items, lifecycle, confirmation, view, texts, error, failures, disk>>

ReviseKeepingDecisions(contents) ==
  [c \in ChangeId |-> [items[c] EXCEPT !.content = contents[c]]]

\* Modified items return to pending, the others keep their decision.
Revise(contents) ==
  [c \in ChangeId |->
     IF c \in Modified(contents)
       THEN [items[c] EXCEPT !.content = contents[c], !.decision = "pending"]
       ELSE items[c]]

\* The claims are saved with the old items first; if that works, the new items
\* replace them and the result is saved again.
AcceptRevision ==
  /\ open /\ request # None
  /\ \E contents \in [ChangeId -> Content], resolved \in SUBSET OpenIds :
       /\ WithinScope(contents)
       /\ comments' = Claimed(resolved)
       /\ InvalidateFinalConfirmation
       /\ \/ /\ UNCHANGED items
             /\ SaveFails
             /\ disk' \in {disk, Saved(items, comments', lifecycle')}
          \/ /\ items' = Revise(contents)
             /\ disk' = Saved(items', comments', lifecycle')
             /\ UNCHANGED <<error, failures>>
          \/ /\ items' = Revise(contents)
             /\ SaveFails
             /\ disk' \in {Saved(held, comments', lifecycle') : held \in {items, items'}}
  /\ request' = None
  /\ UNCHANGED <<open, view, texts>>

-------------------------------------------------------------------------------
\* ApprovalView.Render and OpenFinal ask for the readiness, which sets the
\* lifecycle and saves nothing.
RenderApproval ==
  /\ open
  /\ lifecycle' = Readiness(items, comments)
  /\ UNCHANGED <<open, items, comments, confirmation, view, request, texts, error, failures, disk>>

\* What the digest of a final confirmation covers.  Claims of an agent are left
\* out: no decision, value or text depends on them.
Reviewed(someItems, someComments) ==
  [items |-> [c \in ChangeId |->
     [content |-> someItems[c].content, decision |-> someItems[c].decision]],
   comments |-> [i \in 1 .. Len(someComments) |->
     [id |-> someComments[i].comment_id, body |-> someComments[i].body,
      confirmed |-> someComments[i].status = "human_confirmed"]]]

\* The caller of the package stores the digest of the set it showed, once the
\* approval view said that the review is ready.
ConfirmFinal ==
  /\ open /\ lifecycle = "ready"
  /\ confirmation' = Reviewed(items, comments)
  /\ UNCHANGED <<open, review, view, request, texts, error, failures, disk>>

Unload ==
  /\ open' = FALSE
  /\ items' = NewItems /\ comments' = <<>> /\ lifecycle' = "reviewing"
  /\ FreshView

\* The program is left or dies; only the session remains.
Quit ==
  /\ open
  /\ Unload
  /\ UNCHANGED <<texts, failures, disk>>

\* It dies between the two saves of a revision.
DieInRevision ==
  /\ open /\ request # None
  /\ \E resolved \in SUBSET OpenIds : disk' = Saved(items, Claimed(resolved), "reviewing")
  /\ Unload
  /\ UNCHANGED <<texts, failures>>

\* RestoreSession, or a new review when nothing was saved.
Resume ==
  /\ ~open
  /\ open' = TRUE
  /\ \/ /\ disk = None
        /\ UNCHANGED review
     \/ /\ disk # None
        /\ items' = disk.items /\ comments' = disk.comments
        /\ lifecycle' = disk.lifecycle
  /\ UNCHANGED <<confirmation, error, failures, view, request, texts, disk>>

Next ==
  \/ \E c \in ChangeId :
       SetDecision(c, "approved") \/ SetDecision(c, "rejected") \/ AddComment(c)
  \/ \E id \in 1 .. MaxComments : EditComment(id) \/ WithdrawComment(id) \/ ConfirmComment(id)
  \/ SetFilter \/ PrepareBulk \/ ConfirmBulk
  \/ RequestRevision \/ RevisionFails \/ ClaimFails \/ AcceptRevision
  \/ RenderApproval \/ ConfirmFinal
  \/ Quit \/ DieInRevision \/ Resume

Spec == Init /\ [][Next]_vars

-------------------------------------------------------------------------------
\* What each variable holds.
TypeOK ==
  /\ open \in BOOLEAN /\ error \in BOOLEAN
  /\ items \in [ChangeId -> Item]
  /\ comments \in Seq(Comment) /\ Len(comments) <= MaxComments
  /\ lifecycle \in {"reviewing", "ready"}
  /\ visible \subseteq ChangeId
  /\ bulk \in (SUBSET ChangeId) \cup {None}
  /\ request \in (SUBSET ChangeId) \cup {None}
  /\ texts \in 0 .. MaxTexts /\ failures \in 0 .. MaxFailures
  /\ confirmation = None \/ DOMAIN confirmation = {"items", "comments"}
  /\ disk \in Session \cup {None}

Judged(someItems) ==
  \A c \in ChangeId :
    someItems[c].decision # "pending" => someItems[c].judged = someItems[c].content

\* A decision is about the content the item has now: across revisions, failed
\* saves, crashes and resumes nothing is approved that the reviewer decided on
\* in an earlier form (spec.md FR-013).
DecisionsAreCurrent ==
  Judged(items) /\ (disk # None => Judged(disk.items))

\* A review that is called ready, in memory or in the session a later command
\* applies from, has nothing pending, unresolved or failed (FR-020): no operation
\* on a ready review forgets to take the word back.
ReadyIsTrue ==
  /\ lifecycle = "ready" => Ready(items, comments)
  /\ disk # None /\ disk.lifecycle = "ready" => Ready(disk.items, disk.comments)

\* While a final confirmation is held, the review is ready and every value,
\* decision and comment is the confirmed one: no edit, bulk approval, revision,
\* failed save or resume lets a confirmation stand for a later state of the
\* review (reducer.go:22, FR-020).
ConfirmationIsCurrent ==
  confirmation # None =>
    Ready(items, comments) /\ confirmation = Reviewed(items, comments)

\* A bulk confirmation approves the items its preview listed, all of them still
\* pending and visible, and touches no other decision (FR-017), whatever the
\* reviewer or the agent did between preview and confirmation.
BulkIsWhatWasShown ==
  [][open /\ open' /\ bulk # None /\ bulk' = None /\ items' # items =>
       \A c \in ChangeId :
         IF c \in bulk
           THEN /\ items[c].decision = "pending" /\ c \in visible
                /\ items'[c].decision = "approved"
           ELSE items'[c] = items[c]]_vars

\* A revision changes the content of an item only if a comment on that item was
\* submitted with the request it answers (FR-013a), and sends every item it
\* changes back to pending while the others keep their decisions (FR-013).
RevisionStaysInScope ==
  [][open /\ open' =>
       \A c \in ChangeId : items'[c].content # items[c].content =>
         /\ request # None /\ c \in request
         /\ \A d \in ChangeId :
              IF items'[d].content # items[d].content
                THEN items'[d].decision = "pending"
                ELSE items'[d].decision = items[d].decision]_vars

\* Unless the screen reports a failed save, a crash loses nothing the reviewer
\* entered: decisions, comments and confirmations are those of the session
\* (FR-026a).  Marks of an agent's claims may be missing.
EnteredIsSaved ==
  open /\ ~error =>
    IF disk = None
      THEN items = NewItems /\ comments = <<>>
      ELSE /\ disk.items = items
           /\ Len(disk.comments) = Len(comments)
           /\ \A i \in 1 .. Len(comments) :
                /\ disk.comments[i].comment_id = comments[i].comment_id
                /\ disk.comments[i].body = comments[i].body
                /\ disk.comments[i].status = "human_confirmed"
                     <=> comments[i].status = "human_confirmed"

\* data-model.md:71 calls a comment ID unique within the review.
CommentIdsAreUnique ==
  \A i, j \in 1 .. Len(comments) :
    comments[i].comment_id = comments[j].comment_id => i = j
===============================================================================
