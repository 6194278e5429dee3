----------------------------- MODULE AgentProfiles -----------------------------
(***************************************************************************)
(* The profile of an agent and the suggestions to change it                *)
(* (sqlite_agent_profile_store.py, http_api_profile_memory_routes.py,      *)
(* agent_profile_suggestion_service.py, profile_evidence_service.py):      *)
(* preferences read in the summaries of sessions and in the memories kept  *)
(* of them become suggestions that are applied, dismissed or, when safe,   *)
(* applied at once, beside patches by the agent and rewrites by an         *)
(* administrator.  Handlers check a suggestion before the transaction that *)
(* settles it.                                                             *)
(***************************************************************************)
EXTENDS Integers, Sequences, FiniteSets

CONSTANTS
    Fields,             \* fields of a profile that texts can speak of
    Values,             \* their values
    Talks,              \* sessions of the agent
    Works,              \* tasks of the agent
    MinCompleted,       \* agent_learning_auto_apply_min_completed_tasks
    MaxSuggestions,     \* bound: suggestions in a behaviour
    MaxEdits            \* bound: patches and rewrites in a behaviour

ASSUME ProfilesAssumption ==
    /\ MinCompleted \in Nat /\ MaxSuggestions \in Nat /\ MaxEdits \in Nat
    /\ IsFiniteSet(Fields) /\ IsFiniteSet(Values)

VARIABLES
    agent,          \* agent_profiles: version and preferences of the agent
    revisions,      \* agent_profile_revisions: the suggestion of each, 0 for a patch
    suggestions,    \* agent_profile_suggestions, in the order of creation
    said,           \* the summary of each session
    kept,           \* the active memory of each session
    outcomes,       \* agent_learning_events: one for each task
    handlers,       \* requests past their checks: <<"apply" or "dismiss", suggestion>>
    admin,          \* what agent_admin has read and is about to write
    edits

profileVars == <<agent, revisions, suggestions, said, kept, outcomes, handlers, admin, edits>>

Unset == 0
Prefs == [Fields -> Values \cup {Unset}]
Nothing == [f \in Fields |-> Unset]
NoOutcome == << >>
LearningEvent == [passed : BOOLEAN, digest : Prefs]
NotReading == << >>

ProfilesTypeOK ==
    /\ agent.version \in Nat /\ agent.prefs \in Prefs
    /\ \A i \in DOMAIN revisions : revisions[i] \in 0 .. MaxSuggestions
    /\ Len(suggestions) <= MaxSuggestions
    /\ \A i \in DOMAIN suggestions : suggestions[i].status \in {"pending", "applied", "dismissed"}
    /\ said \in [Talks -> Prefs] /\ kept \in [Talks -> Prefs]
    /\ \A w \in Works : outcomes[w] \in LearningEvent \cup {NoOutcome}
    /\ handlers \subseteq {"apply", "dismiss"} \X DOMAIN suggestions
    /\ edits \in 0 .. MaxEdits

ProfilesInit ==
    /\ agent = [version |-> 1, prefs |-> Nothing]
    /\ revisions = << >>
    /\ suggestions = << >>
    /\ said = [t \in Talks |-> Nothing]
    /\ kept = [t \in Talks |-> Nothing]
    /\ outcomes = [w \in Works |-> NoOutcome]
    /\ handlers = {}
    /\ admin = NotReading
    /\ edits = 0

-----------------------------------------------------------------------------
(* Evidence: a set of texts <<source, session, what it says>>.             *)

Lesser(a, b) == IF a < b THEN a ELSE b
Greatest(S) == CHOOSE x \in S : \A y \in S : y <= x

Support(texts, f) == {t \in texts : t[3][f] # Unset}
Options(texts, f) == {t[3][f] : t \in Support(texts, f)}
Agreed(texts) == {f \in Fields : Cardinality(Options(texts, f)) = 1}
Conflicts(texts) == {f \in Fields : Cardinality(Options(texts, f)) > 1}

\* aggregate: a field on which the texts differ is left out of the patch.
PatchOf(texts) ==
    [f \in Fields |-> IF f \in Agreed(texts) THEN CHOOSE v \in Options(texts, f) : TRUE ELSE Unset]

Texts ==
    {<<"session", t, said[t]>> : t \in {x \in Talks : said[x] # Nothing}}
    \cup {<<"memory", t, kept[t]>> : t \in {x \in Talks : kept[x] # Nothing}}

\* compute_quality_score, in thousandths: a failure with one quality issue.
QualityScore(o) == IF o.passed THEN 1000 ELSE 400

\* build_scorecard; the median of scores that take two values.
Scorecard ==
    LET known == {w \in Works : outcomes[w] # NoOutcome}
        n == Cardinality(known)
        good == Cardinality({w \in known : outcomes[w].passed})
        digests == {outcomes[w].digest : w \in known}
    IN [completed |-> good,
        failed |-> n - good,
        quality |-> CASE n = 0 -> 0 [] 2 * good > n -> 1000 [] 2 * good = n -> 700 [] OTHER -> 400,
        issues |-> n - good,
        stability |-> IF n = 0 THEN 0
                      ELSE (1000 * Greatest({Cardinality({w \in known : outcomes[w].digest = d}) :
                                               d \in digests})) \div n]

\* _field_confidence
FieldConfidence(texts, f) ==
    LET sources == {t[1] : t \in Support(texts, f)}
    IN 550 + (250 * Lesser(Cardinality(Support(texts, f)), 3)) \div 3
           + 100 * Lesser(Cardinality(sources), 2)

\* _confidence_from_signals
Confidence(texts, card) ==
    LET supports == {Cardinality(Support(texts, f)) : f \in Agreed(texts)}
        evidence == Greatest({FieldConfidence(texts, f) : f \in Agreed(texts)})
        completion == (1000 * Lesser(card.completed, 3)) \div 3
    IN (55 * card.quality + 15 * card.stability + 10 * completion + 20 * evidence) \div 100
         - 100 * Lesser(card.issues, 3)
         - (IF Greatest(supports) < 2 THEN 200 ELSE 0)

\* is_safe_for_auto_apply, and the scorecard the route asks for besides.
SafeToApply(texts, card) ==
    /\ Confidence(texts, card) >= 800
    /\ Conflicts(texts) = {}
    /\ \A f \in Agreed(texts) : Cardinality(Support(texts, f)) >= 2
    /\ card.completed >= MinCompleted /\ card.failed = 0 /\ card.quality >= 900

-----------------------------------------------------------------------------
(* What the agent does.                                                    *)

\* record_task_outcome
EventOf(passed) == [passed |-> passed, digest |-> agent.prefs]

\* create_agent_learning_event: the event of a task is replaced when the task ends anew.
RecordOutcome(w, passed) ==
    /\ outcomes' = [outcomes EXCEPT ![w] = EventOf(passed)]
    /\ UNCHANGED <<agent, revisions, suggestions, said, kept, handlers, admin, edits>>

\* The session goes on, and its summary with it.
Talk(t, says) ==
    /\ says # said[t]
    /\ said' = [said EXCEPT ![t] = says]
    /\ UNCHANGED <<agent, revisions, suggestions, kept, outcomes, handlers, admin, edits>>

\* promote_session_memory, and disable_agent_memory.
Keep(t) ==
    /\ said[t] # Nothing
    /\ kept' = [kept EXCEPT ![t] = said[t]]
    /\ UNCHANGED <<agent, revisions, suggestions, said, outcomes, handlers, admin, edits>>

Disable(t) ==
    /\ kept[t] # Nothing
    /\ kept' = [kept EXCEPT ![t] = Nothing]
    /\ UNCHANGED <<agent, revisions, suggestions, said, outcomes, handlers, admin, edits>>

-----------------------------------------------------------------------------
(* Suggestions.                                                            *)

\* _suggestion_from_texts: a patch some text supports, and some work that went well.
Founded(texts, card) == Agreed(texts) # {} /\ card.completed > 0 /\ card.quality > 0
SuggestionFrom(texts, card) ==
    [texts |-> texts, card |-> card, version |-> agent.version, status |-> "pending"]

\* create_agent_profile_suggestion: a pending one with the same patch and the same
\* rationale is returned instead.
Suggest(texts, unattended) ==
    LET card == Scorecard
        row == SuggestionFrom(texts, card)
        same == {i \in DOMAIN suggestions : suggestions[i] = row}
        id == IF same = {} THEN Len(suggestions) + 1 ELSE Greatest(same)
    IN /\ Founded(texts, card)
       /\ id <= MaxSuggestions
       /\ suggestions' = IF same = {} THEN Append(suggestions, row) ELSE suggestions
       /\ handlers' = handlers \cup
            (IF unattended /\ SafeToApply(texts, card) THEN {<<"apply", id>>} ELSE {})
       /\ UNCHANGED <<agent, revisions, said, kept, outcomes, admin, edits>>

\* From all the texts, and at once applied if that is safe.
Generate == Suggest(Texts, TRUE)

\* propose_profile_preferences, promote_profile_preferences: from one text.
Propose(t) == said[t] # Nothing /\ Suggest({<<"proposal", t, said[t]>>}, FALSE)

\* The routes look at the suggestion before they settle it.
Check(way, id) ==
    /\ suggestions[id].status = "pending"
    /\ handlers' = handlers \cup {<<way, id>>}
    /\ UNCHANGED <<agent, revisions, suggestions, said, kept, outcomes, admin, edits>>

Merge(prefs, patch) == [f \in Fields |-> IF patch[f] = Unset THEN prefs[f] ELSE patch[f]]

\* The version counts the fields a profile gains only.
PatchedInPlace(a, patch) ==
    LET prefs == Merge(a.prefs, patch)
    IN [prefs |-> prefs,
        version |-> IF \E f \in Fields : a.prefs[f] = Unset /\ prefs[f] # Unset
                    THEN a.version + 1 ELSE a.version]

\* _apply_agent_profile_patch_in_connection
Patched(a, patch) ==
    LET prefs == Merge(a.prefs, patch)
    IN [prefs |-> prefs, version |-> IF prefs # a.prefs THEN a.version + 1 ELSE a.version]

\* apply_agent_profile_suggestion: one transaction that looks again.
Apply(id) ==
    /\ <<"apply", id>> \in handlers
    /\ handlers' = handlers \ {<<"apply", id>>}
    /\ IF suggestions[id].status = "pending"
       THEN /\ agent' = Patched(agent, PatchOf(suggestions[id].texts))
            /\ revisions' = Append(revisions, id)
            /\ suggestions' = [suggestions EXCEPT ![id].status = "applied"]
       ELSE UNCHANGED <<agent, revisions, suggestions>>
    /\ UNCHANGED <<said, kept, outcomes, admin, edits>>

\* The update without its expected status.
DismissAnyway(id) ==
    /\ <<"dismiss", id>> \in handlers
    /\ handlers' = handlers \ {<<"dismiss", id>>}
    /\ suggestions' = [suggestions EXCEPT ![id].status = "dismissed"]
    /\ UNCHANGED <<agent, revisions, said, kept, outcomes, admin, edits>>

\* update_agent_profile_suggestion_status: only from pending.
Dismiss(id) ==
    /\ <<"dismiss", id>> \in handlers
    /\ handlers' = handlers \ {<<"dismiss", id>>}
    /\ suggestions' = [suggestions EXCEPT ![id].status = IF @ = "pending" THEN "dismissed" ELSE @]
    /\ UNCHANGED <<agent, revisions, said, kept, outcomes, admin, edits>>

-----------------------------------------------------------------------------
(* Other writers of the profile.                                           *)

\* apply_profile_patch
PatchProfile(patch) ==
    /\ edits < MaxEdits
    /\ edits' = edits + 1
    /\ agent' = Patched(agent, patch)
    /\ revisions' = Append(revisions, 0)
    /\ UNCHANGED <<suggestions, said, kept, outcomes, handlers, admin>>

\* upsert_agent_profile reads the row outside of the transaction that writes it.
AdminRead(prefs) ==
    /\ admin = NotReading /\ edits < MaxEdits
    /\ edits' = edits + 1
    /\ admin' = [read |-> agent, prefs |-> prefs]
    /\ UNCHANGED <<agent, revisions, suggestions, said, kept, outcomes, handlers>>

AdminWrite ==
    /\ admin # NotReading
    /\ agent' = [prefs |-> admin.prefs,
                 version |-> IF admin.prefs # admin.read.prefs THEN admin.read.version + 1
                             ELSE admin.read.version]
    /\ admin' = NotReading
    /\ UNCHANGED <<revisions, suggestions, said, kept, outcomes, handlers, edits>>

ProfilesNext ==
    \/ \E w \in Works, passed \in BOOLEAN : RecordOutcome(w, passed)
    \/ \E t \in Talks, says \in Prefs \ {Nothing} : Talk(t, says)
    \/ \E t \in Talks : Keep(t) \/ Disable(t) \/ Propose(t)
    \/ Generate
    \/ \E id \in DOMAIN suggestions :
          \/ \E way \in {"apply", "dismiss"} : Check(way, id)
          \/ Apply(id) \/ Dismiss(id)
    \/ \E prefs \in Prefs \ {Nothing} : PatchProfile(prefs) \/ AdminRead(prefs)
    \/ AdminWrite

ProfilesSpec == ProfilesInit /\ [][ProfilesNext]_profileVars

-----------------------------------------------------------------------------
\* A suggestion changes the profile once if it is applied and never if it is not,
\* however its handlers, the automatic application and a dismissal interleave.
SettledOnce ==
    \A id \in DOMAIN suggestions :
       Cardinality({i \in DOMAIN revisions : revisions[i] = id})
         = (IF suggestions[id].status = "applied" THEN 1 ELSE 0)

\* A version of the profile stands for one content: whatever changes the content
\* raises the version, except an administrator that writes over a row it has read
\* before another change.
VersionNamesContent ==
    [][agent'.prefs # agent.prefs =>
          \/ agent'.version > agent.version
          \/ admin # NotReading /\ admin' = NotReading /\ admin.read # agent
      ]_profileVars

=============================================================================
