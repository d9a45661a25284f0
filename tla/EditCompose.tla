------------------------------ MODULE EditCompose ------------------------------
(***************************************************************************)
(* What a final preview is made of (core/src/final_set.zig, apply.zig,     *)
(* source_index.zig).  Every approved item becomes a patch of the source   *)
(* text, the patches are applied in the order of their offsets, the result *)
(* must parse, and the diff quotes what source and candidate hold at the   *)
(* path of each item.  Nobody compares what the candidate parses to with   *)
(* the approved values: that is what is checked here.                      *)
(*                                                                         *)
(* The text is one object or array of scalars, as a sequence of lexical    *)
(* tokens.  Edits in different containers have disjoint patches, so one    *)
(* container shows every way in which patches can meet.  An item that      *)
(* names the whole document is alone in its proposal and is left out.      *)
(***************************************************************************)
EXTENDS Integers, Sequences, FiniteSets, SequencesExt

CONSTANTS
  MaxMembers,  \* bound: members of the container
  MaxEdits,    \* bound: approved items
  NewKey,      \* keys the proposals may add to an object
  NewValue,    \* values the proposals may set, as tokens
  DashKey,     \* the member of an object that has the key "-"
  AtEnd,       \* the array position "-"
  Malformed,   \* an array position that is neither a number nor "-"
  None         \* no value: in an item that removes, or null

\* Tokens: numbers and strings are values, keys and punctuation are not.
Open == <<"open">>
Close == <<"close">>
Comma == <<",">>
Colon == <<":">>
Blank == <<"space">>
Number(digits) == <<"number", digits>>
Key(k) == <<"key", k>>
IsNumber(token) == token[1] = "number"
IsValue(token) == token[1] \in {"number", "string"}

ASSUME ComposeAssumption ==
  /\ MaxMembers \in Nat /\ MaxEdits \in Nat
  /\ NewKey \cap (1 .. MaxMembers) = {}
  /\ NewValue \subseteq {"number", "string"} \X Seq(Nat)
  /\ None \notin NewValue
  /\ DashKey \in Nat
  /\ {AtEnd, Malformed} \cap (Int \cup NewKey) = {} /\ AtEnd # Malformed

VARIABLES
  kind,       \* "object" or "array"
  count,      \* its members, in the order of the text
  space,      \* white space around each of them: none or one token
  edits,      \* the approved items so far, in the order of the proposal
  previewed,  \* they have a preview; if not, the core answered with an error
  candidate,  \* what compose makes of them
  diff        \* what the preview shows for each of them

vars == <<kind, count, space, edits, previewed, candidate, diff>>

-------------------------------------------------------------------------------
\* The source text: what the parser has read before each member is the offset of
\* that member.
Old(i) == Number(<<i>>)
Spaces == IF space THEN <<Blank>> ELSE <<>>

MemberText(i) ==
  (IF kind = "object" THEN <<Key(i), Colon>> \o Spaces ELSE <<>>) \o <<Old(i)>>

Separator(i) == IF i < count THEN <<Comma>> \o Spaces ELSE <<>>

TextBefore(i) ==
  <<Open>> \o Spaces
  \o FlattenSeq([j \in 1 .. i - 1 |-> MemberText(j) \o Spaces \o Separator(j)])

Source == TextBefore(count + 1) \o <<Close>>

MemberStart(i) == Len(TextBefore(i))
End(i) == MemberStart(i) + Len(MemberText(i))
Start(i) == End(i) - 1
CloseOffset == Len(Source) - 1

-------------------------------------------------------------------------------
\* What an accepted proposal may hold: no two items name the same path, replaced
\* and removed members exist, and added ones do not.  A path that ends in "/-" may
\* exist all the same, a position need not be one, and null is read as no value.
Target ==
  (1 .. count)
    \cup (IF kind = "object" THEN NewKey ELSE {count + 1, count + 2, AtEnd, Malformed})

ValidItem(edit) ==
  /\ \A i \in 1 .. Len(edits) : edits[i].path # edit.path
  /\ edit.operation \in {"replace", "remove"} => edit.path \in 1 .. count
  /\ edit.operation = "add" =>
       edit.path \notin 1 .. count \/ (kind = "object" /\ edit.path = DashKey)
  /\ edit.operation = "remove" => edit.value = None

Patch(start, end, replacement, order) ==
  [start |-> start, end |-> end, replacement |-> replacement, order |-> order]

EditEnvelopeOwnBytes(i, order) == Patch(MemberStart(i), End(i), <<>>, order)

\* editEnvelope: a member goes with the separator after it, the last one with
\* the separator before it, a sole one alone.
EditEnvelope(i, order) ==
  CASE i < count -> Patch(MemberStart(i), MemberStart(i + 1), <<>>, order)
    [] i = count /\ i > 1 -> Patch(End(i - 1), End(i), <<>>, order)
    [] i = count /\ i = 1 -> Patch(MemberStart(i), End(i), <<>>, order)

\* addEnvelope: after the last member, or before the closing token.
AddOffset == IF count = 0 THEN CloseOffset ELSE End(count)
NeedsComma == IF count = 0 THEN <<>> ELSE <<Comma>>

AddEnvelope(text, order) == Patch(AddOffset, AddOffset, NeedsComma \o text, order)

\* The items makePatch and makeAddPatch answer with an error: there is no value to
\* set, the key exists, or the position is none or past the end of the array.
NoPatch(edit) ==
  \/ edit.operation # "remove" /\ edit.value = None
  \/ edit.operation = "add" /\ kind = "object" /\ edit.path \in 1 .. count
  \/ edit.operation = "add" /\ kind = "array" /\ edit.path \in {count + 2, Malformed}

\* The patch of any other item.
MakePatch(edit, order) ==
  CASE edit.operation = "replace" ->
         Patch(Start(edit.path), End(edit.path), <<edit.value>>, order)
    [] edit.operation = "remove" -> EditEnvelope(edit.path, order)
    [] edit.operation = "add" /\ kind = "object" ->
         AddEnvelope(<<Key(edit.path), Colon, edit.value>>, order)
    [] edit.operation = "add" /\ kind = "array" ->
         AddEnvelope(<<edit.value>>, order)

\* patchLessThan
PatchBefore(a, b) ==
  \/ a.start < b.start
  \/ a.start = b.start /\ a.end > b.end
  \/ a.start = b.start /\ a.end = b.end /\ a.order < b.order

\* The patches in this order: each at the place that those before it leave for it.
Before(someEdits, k) ==
  {j \in 1 .. Len(someEdits) :
     PatchBefore(MakePatch(someEdits[j], j), MakePatch(someEdits[k], k))}

InPlace(someEdits, r) ==
  CHOOSE k \in 1 .. Len(someEdits) : Cardinality(Before(someEdits, k)) = r - 1

Patches(someEdits) ==
  [r \in 1 .. Len(someEdits) |->
     MakePatch(someEdits[InPlace(someEdits, r)], InPlace(someEdits, r))]

-------------------------------------------------------------------------------
\* The numbers that touch from position p on are read as one.
Touching(text, p) == {q \in p .. Len(text) : \A r \in p .. q : IsNumber(text[r])}

ReadAt(text, p) ==
  CASE text[p] = Blank -> <<>>
    [] IsNumber(text[p]) /\ p > 1 /\ IsNumber(text[p - 1]) -> <<>>
    [] IsNumber(text[p]) /\ ~(p > 1 /\ IsNumber(text[p - 1])) ->
         <<Number(FlattenSeq([r \in 1 .. Cardinality(Touching(text, p)) |->
                                text[p + r - 1][2]]))>>
    [] OTHER -> <<text[p]>>

Tokens(text) == FlattenSeq([p \in 1 .. Len(text) |-> ReadAt(text, p)])

\* Tokens of one member and the separator after it.
Stride == IF kind = "object" THEN 4 ELSE 2

\* What is between the brackets, with a separator after the last member too.
Inner(text) ==
  LET tokens == Tokens(text) IN SubSeq(tokens, 2, Len(tokens) - 1) \o <<Comma>>

Nth(inner, j, k) == inner[(j - 1) * Stride + k]

IsDocument(text) ==
  LET inner == Inner(text) IN
  \/ inner = <<Comma>>
  \/ /\ Len(inner) > 1 /\ Len(inner) % Stride = 0
     /\ \A j \in 1 .. Len(inner) \div Stride :
          /\ Nth(inner, j, Stride) = Comma /\ IsValue(Nth(inner, j, Stride - 1))
          /\ kind = "object" =>
               Nth(inner, j, 1)[1] = "key" /\ Nth(inner, j, 2) = Colon

\* The members a document parses to.
Members(text) ==
  LET inner == Inner(text) IN
  [j \in 1 .. Len(inner) \div Stride |->
     <<IF kind = "object" THEN Nth(inner, j, 1)[2] ELSE j, Nth(inner, j, Stride - 1)>>]

\* The loop of compose: a patch must not start before the end of the last one, and
\* goes behind what the source holds between the two.
Overlap(patches) == \E k \in 2 .. Len(patches) : patches[k].start < patches[k - 1].end

Cursor(patches, k) == IF k = 1 THEN 0 ELSE patches[k - 1].end

Patched(patches) ==
  FlattenSeq([k \in 1 .. Len(patches) |->
    SubSeq(Source, Cursor(patches, k) + 1, patches[k].start) \o patches[k].replacement])
  \o SubSeq(Source, Cursor(patches, Len(patches) + 1) + 1, Len(Source))

Compose(someEdits) ==
  LET patches == Patches(someEdits) IN
  IF (\E k \in 1 .. Len(someEdits) : NoPatch(someEdits[k])) \/ Overlap(patches)
    THEN <<>>
    ELSE Patched(patches)

Accepted(text) == text # <<>> /\ IsDocument(text)

AtOrLast(members, path) ==
  {j \in 1 .. Len(members) :
     members[j][1] = path \/ (path = AtEnd /\ j = Len(members))}

\* The members of a parsed text at a path; "-" names no existing one.
At(members, path) ==
  {j \in 1 .. Len(members) : path # AtEnd /\ members[j][1] = path}

\* renderDiff: a path is looked up in the source and in the candidate, and the
\* preview fails when it is not there.
DiffTargetMissing(text, someEdits) ==
  \E k \in 1 .. Len(someEdits) :
    someEdits[k].operation # "remove" /\ At(Members(text), someEdits[k].path) = {}

RenderDiff(text, someEdits) ==
  [k \in 1 .. Len(someEdits) |->
     [before |-> IF someEdits[k].operation = "add" THEN None
                 ELSE Old(someEdits[k].path),
      after |-> IF someEdits[k].operation = "remove" THEN None
                ELSE Members(text)[CHOOSE j \in At(Members(text), someEdits[k].path) :
                                     TRUE][2]]]

Init ==
  /\ kind \in {"object", "array"}
  /\ count \in 0 .. MaxMembers
  /\ space \in BOOLEAN
  /\ edits = <<>>
  /\ previewed = TRUE
  /\ candidate = Source
  /\ diff = <<>>

\* One more item of the proposal is approved, and the final set composed.
Approve ==
  /\ Len(edits) < MaxEdits
  /\ \E operation \in {"add", "replace", "remove"}, path \in Target,
        value \in NewValue \cup {None} :
       LET edit == [operation |-> operation, path |-> path, value |-> value] IN
         /\ ValidItem(edit)
         /\ edits' = Append(edits, edit)
  /\ candidate' = Compose(edits')
  /\ previewed' = (Accepted(candidate') /\ ~DiffTargetMissing(candidate', edits'))
  /\ diff' = IF previewed' THEN RenderDiff(candidate', edits') ELSE <<>>
  /\ UNCHANGED <<kind, count, space>>

Next == Approve

Spec == Init /\ [][Next]_vars

-------------------------------------------------------------------------------
\* What the approved items mean: the members kept, with their new values, and
\* the added ones after them in the order of the proposal.
Edited(i, operation) ==
  \E k \in 1 .. Len(edits) : edits[k].path = i /\ edits[k].operation = operation

ValueOf(i) ==
  IF Edited(i, "replace")
    THEN edits[CHOOSE k \in 1 .. Len(edits) : edits[k].path = i].value
    ELSE Old(i)

Kept ==
  FlattenSeq([i \in 1 .. count |->
    IF Edited(i, "remove") THEN <<>> ELSE <<<<i, ValueOf(i)>>>>])

Added ==
  FlattenSeq([k \in 1 .. Len(edits) |->
    IF edits[k].operation = "add" THEN <<<<edits[k].path, edits[k].value>>>> ELSE <<>>])

Approved ==
  LET all == Kept \o Added
  IN [j \in 1 .. Len(all) |-> <<IF kind = "object" THEN all[j][1] ELSE j, all[j][2]>>]

\* An array member in front of this path is removed, so the path is not its own.
Moved(path) ==
  /\ kind = "array" /\ path # AtEnd
  /\ \E i \in 1 .. count : i < path /\ Edited(i, "remove")

\* What a preview is issued for parses to exactly what the approved items mean:
\* no neighbouring edits lose, repeat, move or merge a member (spec.md FR-022).
\* compose alone does merge two numbers added to an empty array, but one of the
\* two paths is then "-", which the diff cannot find.  And unless its path has
\* moved, an item is quoted with its own value.
PreviewedIsExact ==
  previewed =>
    /\ Members(candidate) = Approved
    /\ \A k \in 1 .. Len(edits) :
         edits[k].operation # "remove" /\ ~Moved(edits[k].path)
           => diff[k].after = edits[k].value

\* The selections of approved items that cannot be previewed although the proposal
\* check accepts them.  Either an item has no patch: a null, a "-" that exists, a
\* malformed position, or one past the end of the source even if another item adds
\* the one before it.  Or the patches do not compose: the last two members are
\* removed, a sole member is removed while another one is added, or two are added
\* to an empty container.  Or the diff has no place to quote: an array position is
\* "-" or past the end of the result.
CannotPreview ==
  \/ \E k \in 1 .. Len(edits) : NoPatch(edits[k])
  \/ count >= 2 /\ Edited(count, "remove") /\ Edited(count - 1, "remove")
  \/ count = 1 /\ Edited(1, "remove") /\ Added # <<>>
  \/ count = 0 /\ Len(Added) >= 2
  \/ \E k \in 1 .. Len(edits) :
       /\ kind = "array" /\ edits[k].operation # "remove"
       /\ edits[k].path = AtEnd \/ edits[k].path > Len(Approved)

\* The core refuses a preview exactly for those: every other selection of valid
\* items of one container composes, parses and is found by the diff (compose,
\* renderDiff).
OnlyKnownRefusals == previewed <=> ~CannotPreview

\* protocol.md:121 has the diff quote the exact candidate bytes of every approved
\* item.  When an array item before it is removed it quotes the next element.
DiffShowsApproved ==
  previewed =>
    \A k \in 1 .. Len(edits) :
      edits[k].operation # "remove" => diff[k].after = edits[k].value
===============================================================================
