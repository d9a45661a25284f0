------------------------------- MODULE FinalSet -------------------------------
(***************************************************************************)
(* The final change set: what the Zig core computes from the bytes of the  *)
(* source and one assemble_final / apply_final payload, before it issues   *)
(* or consumes a confirmation (core/src/final_set.zig, proposal.zig).      *)
(*                                                                         *)
(* A document is a function from the paths the proposals of an instance    *)
(* name to values; a path the document lacks maps to Absent.  The paths    *)
(* are independent object members, no two of them neighbours in the text,  *)
(* so composing edits never meets the envelope corner cases of apply.zig.  *)
(* Malformed stands for bytes that do not parse as JSON.                   *)
(***************************************************************************)
EXTENDS FiniteSets

CONSTANTS Path, Value, ChangeId, Absent, Malformed, Rejected

ASSUME MarkersAreDistinct ==
  /\ Absent \notin Value
  /\ Malformed \notin [Path -> Value \cup {Absent}]
  /\ Rejected \notin [Path -> Value \cup {Absent}]

Document == [Path -> Value \cup {Absent}]
Bytes == Document \cup {Malformed}

\* SHA-256 as a collision-free tag: two digests are equal only for equal bytes.
Digest(bytes) == <<"sha256", bytes>>
Digests == {Digest(bytes) : bytes \in Bytes}

Item ==
  [change_id : ChangeId, path : Path, operation : {"add", "replace", "remove"},
   expected_old : Value \cup {Absent}, proposed_value : Value \cup {Absent}]

-------------------------------------------------------------------------------
\* A proposal names every item and every target once.
ValidProposal(proposal) ==
  /\ proposal.items # {}
  /\ \A i, j \in proposal.items :
       (i.change_id = j.change_id \/ i.path = j.path) => i = j

\* replace and remove need the value the author saw; add needs a free target.
TargetMatches(document, item) ==
  \/ /\ item.operation \in {"replace", "remove"}
     /\ document[item.path] # Absent
     /\ document[item.path] = item.expected_old
  \/ /\ item.operation = "add"
     /\ document[item.path] = Absent

ValidAgainstSource(document, proposal) ==
  /\ ValidProposal(proposal)
  /\ \A item \in proposal.items : TargetMatches(document, item)

-------------------------------------------------------------------------------
Approved(payload) ==
  {item \in payload.proposal.items :
     payload.decisions[item.change_id] = "approved"}

\* Exactly one decision per item, and none of them pending.
DecisionsFinal(payload) ==
  /\ DOMAIN payload.decisions = {item.change_id : item \in payload.proposal.items}
  /\ \A id \in DOMAIN payload.decisions :
       payload.decisions[id] \in {"approved", "rejected"}

\* A comment blocks the final set only while its item is approved.
CommentsSettled(payload) ==
  \A item \in Approved(payload), comment \in payload.comments :
    comment.change_id = item.change_id => comment.status = "human_confirmed"

NewValue(item) ==
  IF item.operation = "remove" THEN Absent ELSE item.proposed_value

\* The bytes outside the approved targets are those of the source.
Compose(document, payload) ==
  [path \in Path |->
     IF \E item \in Approved(payload) : item.path = path
       THEN NewValue(CHOOSE item \in Approved(payload) : item.path = path)
       ELSE document[path]]

\* Every external check is about this very candidate, and none failed.
ChecksPass(payload, candidate) ==
  \A check \in payload.external_checks :
    /\ check.subject_digest = Digest(candidate)
    /\ check.status \in {"passed", "unverified"}

\* The candidate bytes, or Rejected when the core refuses to assemble.
Assemble(bytes, payload) ==
  IF /\ bytes # Malformed
     /\ ValidAgainstSource(bytes, payload.proposal)
     /\ Digest(bytes) = payload.source_digest
     /\ payload.proposal.source_digest = payload.source_digest
     /\ DecisionsFinal(payload)
     /\ CommentsSettled(payload)
     /\ ChecksPass(payload, Compose(bytes, payload))
  THEN Compose(bytes, payload)
  ELSE Rejected

\* Binds a confirmation to everything the user was shown: the whole payload
\* (source, proposal, decisions, comment states, checks) and the final bytes.
ContextDigest(payload, final) == <<"context", payload, final>>
===============================================================================
