----------------------------- MODULE MCCoreApply -----------------------------
(***************************************************************************)
(* An instance of CoreApply: one source with two settings and its layout   *)
(* (the bytes no proposal can name, so that an edit of nothing but white   *)
(* space is a change), and the payloads two previews could have shown.     *)
(***************************************************************************)
EXTENDS CoreApply, TLC

Base == [level |-> 1, port |-> 1, layout |-> 1]

LevelItem == [change_id |-> "level", path |-> "level", operation |-> "replace",
              expected_old |-> 1, proposed_value |-> 2]
PortItem == [change_id |-> "port", path |-> "port", operation |-> "remove",
             expected_old |-> 1, proposed_value |-> Absent]

MCPayloadOf(level, port, comments) ==
  [source_digest |-> Digest(Base),
   proposal |-> [source_digest |-> Digest(Base), items |-> {LevelItem, PortItem}],
   decisions |-> [level |-> level, port |-> port],
   comments |-> comments,
   external_checks |-> {}]

MCComment(status) == {[change_id |-> "level", status |-> status]}

\* Two payloads with the same final bytes and different comments, one with
\* other decisions, and one that must never be assembled.
MCPayload ==
  {MCPayloadOf("approved", "rejected", {}),
   MCPayloadOf("approved", "rejected", MCComment("human_confirmed")),
   MCPayloadOf("approved", "approved", {}),
   MCPayloadOf("approved", "rejected", MCComment("agent_claimed"))}

MCFinalDigest ==
  {Digest([Base EXCEPT !.level = 2]),
   Digest([Base EXCEPT !.level = 2, !.port = Absent])}

MCEditorBytes == {Base, [Base EXCEPT !.layout = 2]}
MCInitialBytes == {Base, Malformed}

Symmetry == Permutations(Proc) \cup Permutations(Nonce)
===============================================================================
