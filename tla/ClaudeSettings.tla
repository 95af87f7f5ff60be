--------------------------- MODULE ClaudeSettings ---------------------------
(***************************************************************************)
(* ~/.claude/settings.json as src/apps/claude-code/config.ts edits it: the *)
(* two fields Claude Code is routed with, ANTHROPIC_BASE_URL and           *)
(* apiKeyHelper, and the snapshot of what they held before.  A field holds *)
(* nothing, the value this program writes (whoever wrote it), another      *)
(* value, or (the helper) a command with this program's signature at       *)
(* another path.                                                           *)
(***************************************************************************)

Absent == "absent"
Ours   == "ours"
Stale  == "stale"   \* ours by its signature, but not this install's path
Theirs == "theirs"  \* foreign

UrlValues    == {Absent, Ours, Theirs}
HelperValues == {Absent, Ours, Stale, Theirs}
Fields       == [url : UrlValues, helper : HelperValues]
Unset        == [url |-> Absent, helper |-> Absent]
NoPrior      == [url |-> "none", helper |-> "none"]
Settings     == [url : UrlValues, helper : HelperValues, prior : Fields \cup {NoPrior}]

FieldsOf(s) == [url |-> s.url, helper |-> s.helper]

UrlIsOurs(s)    == s.url = Ours
HelperIsOurs(s) == s.helper \in {Ours, Stale}

\* The bug of a self-heal that takes the snapshot anew (a mutation).
PriorTakenAnew(s) == FieldsOf(s)

\* mergeBaseUrl: the snapshot is taken by the first apply only.
PriorOnMerge(s) == IF s.prior = NoPrior THEN FieldsOf(s) ELSE s.prior

MergeBaseUrl(s) == [url |-> Ours, helper |-> Ours, prior |-> PriorOnMerge(s)]

\* The bug of restoring a snapshot that is not there (a mutation).
RestoreUnseen(s) == [url |-> s.prior.url, helper |-> s.prior.helper, prior |-> NoPrior]

\* stripBaseUrl: restore the snapshot; without one, drop only what is ours.
StripBaseUrl(s) ==
  IF s.prior # NoPrior
  THEN [url |-> s.prior.url, helper |-> s.prior.helper, prior |-> NoPrior]
  ELSE [url    |-> IF UrlIsOurs(s) THEN Absent ELSE s.url,
        helper |-> IF HelperIsOurs(s) THEN Absent ELSE s.helper,
        prior  |-> NoPrior]

\* applyProxyBaseUrl: a foreign value in either field is left alone.
ApplyWrites(s) ==
  \/ UrlIsOurs(s) /\ s.helper = Stale
  \/ /\ ~(UrlIsOurs(s) /\ HelperIsOurs(s))
     /\ s.url # Theirs /\ s.helper # Theirs

ApplyProxyBaseUrl(s) == IF ApplyWrites(s) THEN MergeBaseUrl(s) ELSE s

\* revertProxyBaseUrl: nothing is touched unless one of the fields is ours.
RevertProxyBaseUrl(s) == IF UrlIsOurs(s) \/ HelperIsOurs(s) THEN StripBaseUrl(s) ELSE s
=============================================================================
