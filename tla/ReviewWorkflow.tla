----------------------------- MODULE ReviewWorkflow -----------------------------
(***************************************************************************)
(* The review of one root task by its owner and by collaborators           *)
(* (multi_agent_workflow_service.py, workflow_collaboration_service.py):   *)
(* the bundle a reviewer reads, the action the policy chooses from it      *)
(* (workflow_loop_policy.py), the actions its controls suggest             *)
(* (review_bundle_workflow_controls.py), the memories pinned to the root   *)
(* task's row, the participants, and the case memory file that reviewers   *)
(* and the engine read and write whole (case_memory_service.py).           *)
(***************************************************************************)
EXTENDS Integers, Sequences, FiniteSets

CONSTANTS
    Collaborators,      \* agents that may take part; the owner is another reviewer
    Memories,           \* the owner's persistent memories
    MaxChildren,        \* settings.multi_agent_workflow_max_child_attempts
    MaxAttempts,        \* settings.max_attempts_per_root_task
    MaxLog,             \* how many decisions a case memory keeps (20 in the code)
    MaxUpdates,         \* bound: memory updates in one decision
    MaxDecisions        \* bound: review decisions submitted

ASSUME ReviewAssumption ==
    /\ "owner" \notin Collaborators /\ IsFiniteSet(Collaborators)
    /\ {MaxChildren, MaxAttempts, MaxLog, MaxUpdates, MaxDecisions} \subseteq Nat

VARIABLES
    root,           \* the root task's row
    children,       \* tasks of its lineage other than the root
    enabled,        \* memories that are active
    granted,        \* capabilities of the participants
    replayed,       \* the pins that the workflow events add up to
    casefile,       \* the case memory file: decisions kept, whether the review outcome is there
    decided,        \* decisions that were recorded
    reviewer,       \* what each reviewer's request is doing
    engine,         \* what the engine is doing with the root task
    stale,          \* TRUE once somebody acted on a row, a file or a count that had changed meanwhile
    submissions     \* decisions submitted so far

reviewVars == <<root, children, enabled, granted, replayed, casefile, decided,
                reviewer, engine, stale, submissions>>

Reviewers == Collaborators \cup {"owner"}
Decisions == {"accept", "revise", "retry", "repair", "escalate"}
RootRow == [status : {"queued", "running", "completed", "failed"}, blocked : BOOLEAN,
            pins : SUBSET Memories]
CaseFile == [decisions : 0 .. MaxLog, outcome : BOOLEAN]
NoRequest == [at |-> "away"]

ReviewTypeOK ==
    /\ root \in RootRow
    /\ children \in Nat /\ decided \in Nat /\ submissions \in 0 .. MaxDecisions
    /\ enabled \subseteq Memories /\ replayed \subseteq Memories
    /\ granted \in [Collaborators -> SUBSET {"read", "write"}]
    /\ casefile \in CaseFile
    /\ \A r \in Reviewers : reviewer[r].at \in {"away", "decided", "update", "write", "noted", "log"}
    /\ engine.at \in {"idle", "run", "finished", "note", "done"}
    /\ stale \in BOOLEAN

ReviewInit ==
    /\ root = [status |-> "queued", blocked |-> FALSE, pins |-> {}]
    /\ children = 0 /\ decided = 0 /\ submissions = 0
    /\ enabled = Memories /\ replayed = {}
    /\ granted = [c \in Collaborators |-> {}]
    /\ casefile = [decisions |-> 0, outcome |-> FALSE]
    /\ reviewer = [r \in Reviewers |-> NoRequest]
    /\ engine = [at |-> "idle"]
    /\ stale = FALSE

-----------------------------------------------------------------------------
(* The bundle, the policy and the suggested actions.                       *)

\* Blockers: a status other than completed, a quality gate, an issue that must be fixed,
\* an unresolved validation issue or an active failure contract (the last four in blocked).
Blocked == root.status # "completed" \/ root.blocked

\* choose_action with the budget's comparison off by one.
OneChildMore(decision, hint) ==
    IF decision = "accept" THEN IF Blocked THEN "escalate" ELSE "accept"
    ELSE IF children > MaxChildren \/ (decision = "repair" /\ ~hint) THEN "escalate"
    ELSE IF decision = "repair" THEN "revise" ELSE decision

ChooseAction(decision, hint) ==
    IF decision = "accept" THEN IF Blocked THEN "escalate" ELSE "accept"
    ELSE IF children >= MaxChildren \/ (decision = "repair" /\ ~hint) THEN "escalate"
    ELSE IF decision = "repair" THEN "revise" ELSE decision

\* What a query may find among the active memories; some of it is pinned already.
Recommendations == SUBSET enabled
Unpinned(recommended) == recommended \ root.pins

\* Which updates of the pins the examples of the action contract offer.
Examples(recommended) ==
    (IF Unpinned(recommended) # {} THEN {"pin"} ELSE {})
        \cup (IF root.pins # {} THEN {"unpin"} ELSE {})
        \cup (IF Unpinned(recommended) # {} /\ root.pins # {} THEN {"replace"} ELSE {})

\* The suggested actions without the look at the blockers.
SuggestWhenCompleted(recommended) ==
    IF root.status = "completed" THEN "accept"
    ELSE IF "pin" \in Examples(recommended) THEN "pin_and_revise"
    ELSE IF root.status = "failed" THEN "retry"
    ELSE "revise"

\* build_suggested_next_actions: the primary action ...
Suggested(recommended) ==
    IF root.status = "completed" /\ ~Blocked THEN "accept"
    ELSE IF "pin" \in Examples(recommended) THEN "pin_and_revise"
    ELSE IF root.status = "failed" THEN "retry"
    ELSE "revise"

\* ... and the others: revising without a pin, and accepting, shown as blocked.
Alternatives(recommended) ==
    (IF Suggested(recommended) = "pin_and_revise" THEN {"revise"} ELSE {})
        \cup (IF Blocked THEN {"accept"} ELSE {})

\* What a button submits.
DecisionOf(id) == IF id = "pin_and_revise" THEN "revise" ELSE id
FamilyOf(id) == IF id = "pin_and_revise" THEN "combined" ELSE "review_decision"

\* build_available_actions: each action once.
Cards(recommended) ==
    {[id |-> Suggested(recommended), primary |-> TRUE, blocked |-> FALSE]}
        \cup {[id |-> id, primary |-> FALSE, blocked |-> id = "accept"] :
                  id \in Alternatives(recommended) \ {Suggested(recommended)}}

\* build_action_sections
SectionOf(card) ==
    IF card.primary THEN "recommended" ELSE IF card.blocked THEN "blocked" ELSE "available"

\* The panel's tone and badges, over the summary they are given; build_render_contract opens
\* the recommended and the blocked section.
Tone(recommended) == IF ~Blocked /\ Suggested(recommended) = "accept" THEN "ready" ELSE "attention"
Badges(recommended) ==
    {"recommended_action"} \cup (IF Unpinned(recommended) # {} THEN {"pending_memory"} ELSE {})
        \cup (IF Blocked THEN {"acceptance_blockers"} ELSE {})
Expanded(recommended) == {SectionOf(c) : c \in Cards(recommended)} \ {"available"}

\* _build_workflow_review_controls: the panel of the owner.
Controls(recommended) ==
    [cards |-> Cards(recommended), tone |-> Tone(recommended), badges |-> Badges(recommended),
     open |-> Expanded(recommended)]

-----------------------------------------------------------------------------
(* The owner: participants and memories.                                   *)

\* What the roles stand for when no capabilities are named: planner and repairer, reviewer
\* and verifier.
RoleCapabilities == {{"read"}, {"read", "write"}}

\* One row of an agent in a workflow, which holds its last capabilities.
Grant(c, capabilities) == granted' = [granted EXCEPT ![c] = capabilities]

UpsertWorkflowParticipant(c) ==
    /\ \E capabilities \in RoleCapabilities \ {granted[c]} : Grant(c, capabilities)
    /\ UNCHANGED <<root, children, enabled, replayed, casefile, decided, reviewer, engine, stale, submissions>>

RemoveWorkflowParticipant(c) ==
    /\ granted[c] # {}
    /\ granted' = [granted EXCEPT ![c] = {}]
    /\ UNCHANGED <<root, children, enabled, replayed, casefile, decided, reviewer, engine, stale, submissions>>

DisableMemory(m) ==
    /\ m \in enabled
    /\ enabled' = enabled \ {m}
    /\ UNCHANGED <<root, children, granted, replayed, casefile, decided, reviewer, engine, stale, submissions>>

May(r, capability) == r \in Collaborators => capability \in granted[r]

-----------------------------------------------------------------------------
(* apply_review_decision.                                                  *)

Updates == {<<op, m>> : op \in {"pin", "unpin"}, m \in Memories}
\* Unpins come before pins, whatever the order of the request.
Orders == {s \in UNION {[1 .. n -> Updates] : n \in 0 .. MaxUpdates} :
              /\ \A i, j \in DOMAIN s : i < j => s[i] # s[j]
              /\ \A i, j \in DOMAIN s : i < j /\ s[i][1] = "pin" => s[j][1] = "pin"}

\* The bundle is read and the action is chosen from it.
ReadBundle(r) ==
    /\ reviewer[r].at = "away" /\ submissions < MaxDecisions
    /\ May(r, "read")
    /\ \E decision \in Decisions, hint \in BOOLEAN, todo \in Orders :
           /\ decision # "repair" => ~hint
           /\ reviewer' = [reviewer EXCEPT ![r] =
                               [at |-> "decided", action |-> ChooseAction(decision, hint), todo |-> todo,
                                seen |-> children]]
    /\ submissions' = submissions + 1
    /\ UNCHANGED <<root, children, enabled, granted, replayed, casefile, decided, engine, stale>>

\* authorize_review_decision, then memory updates by the owner alone; otherwise an error.
Authorize(r) ==
    /\ reviewer[r].at = "decided"
    /\ reviewer' = [reviewer EXCEPT ![r] =
                        IF May(r, "write") /\ (r = "owner" \/ reviewer[r].todo = << >>)
                        THEN [@ EXCEPT !.at = "update"] ELSE NoRequest]
    /\ UNCHANGED <<root, children, enabled, granted, replayed, casefile, decided, engine, stale, submissions>>

ReadRoot(r) ==
    /\ reviewer[r].at = "update" /\ reviewer[r].todo # << >>
    /\ reviewer' = [reviewer EXCEPT ![r] = [at |-> "write", action |-> @.action, todo |-> @.todo, seen |-> @.seen,
                                copy |-> root]]
    /\ UNCHANGED <<root, children, enabled, granted, replayed, casefile, decided, engine, stale, submissions>>

NewPins(r) == LET update == Head(reviewer[r].todo) IN
    IF update[1] = "pin" THEN reviewer[r].copy.pins \cup {update[2]}
    ELSE reviewer[r].copy.pins \ {update[2]}

\* _update_root_workflow_memory for one memory, of which the whole row is written back; then
\* the event. An inactive memory among the pins is an error, which ends the request.
WriteRoot(r) ==
    /\ reviewer[r].at = "write"
    /\ IF NewPins(r) \subseteq enabled
       THEN /\ root' = [reviewer[r].copy EXCEPT !.pins = NewPins(r)]
            /\ stale' = (stale \/ root # reviewer[r].copy)
            /\ replayed' = IF Head(reviewer[r].todo)[1] = "pin" THEN replayed \cup {Head(reviewer[r].todo)[2]}
                           ELSE replayed \ {Head(reviewer[r].todo)[2]}
            /\ reviewer' = [reviewer EXCEPT ![r] =
                                [at |-> "update", action |-> @.action, todo |-> Tail(@.todo),
                                 seen |-> @.seen]]
       ELSE /\ reviewer' = [reviewer EXCEPT ![r] = NoRequest]
            /\ UNCHANGED <<root, stale, replayed>>
    /\ UNCHANGED <<children, enabled, granted, casefile, decided, engine, submissions>>

\* A completed, delivered task gets a challenger, within the budgets; another one a revision.
\* The owner's revision resolves the root's pins, which may have been disabled since.
CanRevise(r) ==
    /\ r = "owner" => root.pins \subseteq enabled
    /\ root.status = "completed" => children + 1 < MaxAttempts /\ children < MaxChildren
CanRetry == root.status = "failed" /\ children + 1 < MaxAttempts

\* What is left to do when the memories are updated; access is checked once more.
Ready(r, action) == /\ reviewer[r].at = "update" /\ reviewer[r].todo = << >>
                    /\ reviewer[r].action = action
                    /\ May(r, "write")
Creates(r) == (Ready(r, "revise") /\ CanRevise(r)) \/ (Ready(r, "retry") /\ CanRetry)
Accepts(r) == Ready(r, "accept") /\ root.status = "completed"

CreateChild(r) ==
    /\ Creates(r)
    /\ children' = children + 1
    /\ stale' = (stale \/ reviewer[r].seen # children)
    /\ reviewer' = [reviewer EXCEPT ![r] = NoRequest]
    /\ UNCHANGED <<root, enabled, granted, replayed, casefile, decided, engine, submissions>>

AcceptBest(r) ==
    /\ Accepts(r)
    /\ reviewer' = [reviewer EXCEPT ![r] = [at |-> "noted"]]
    /\ UNCHANGED <<root, children, enabled, granted, replayed, casefile, decided, engine, stale, submissions>>

\* An escalation, and whatever is refused.
NothingDone(r) ==
    /\ reviewer[r].at = "update" /\ reviewer[r].todo = << >>
    /\ ~Creates(r) /\ ~Accepts(r)
    /\ reviewer' = [reviewer EXCEPT ![r] = NoRequest]
    /\ UNCHANGED <<root, children, enabled, granted, replayed, casefile, decided, engine, stale, submissions>>

\* The case memory is read and written whole, without a lock.
LoadCase(r) ==
    /\ reviewer[r].at = "noted"
    /\ reviewer' = [reviewer EXCEPT ![r] = [at |-> "log", copy |-> casefile]]
    /\ UNCHANGED <<root, children, enabled, granted, replayed, casefile, decided, engine, stale, submissions>>

\* record_decision, forgetting none.
KeepEvery(r) ==
    /\ reviewer[r].at = "log"
    /\ decided' = decided + 1
    /\ casefile' = [reviewer[r].copy EXCEPT !.decisions = @ + 1]
    /\ stale' = (stale \/ casefile # reviewer[r].copy)
    /\ reviewer' = [reviewer EXCEPT ![r] = NoRequest]
    /\ UNCHANGED <<root, children, enabled, granted, replayed, engine, submissions>>

\* record_decision, keeping the last MaxLog.
RecordDecision(r) ==
    /\ reviewer[r].at = "log"
    /\ decided' = decided + 1
    /\ casefile' = [reviewer[r].copy EXCEPT !.decisions = IF @ < MaxLog THEN @ + 1 ELSE @]
    /\ stale' = (stale \/ casefile # reviewer[r].copy)
    /\ reviewer' = [reviewer EXCEPT ![r] = NoRequest]
    /\ UNCHANGED <<root, children, enabled, granted, replayed, engine, submissions>>

-----------------------------------------------------------------------------
(* The engine, with the row it read when it took the task.                 *)

EngineTakes ==
    /\ engine.at = "idle" /\ root.status = "queued"
    /\ root' = [root EXCEPT !.status = "running"]
    /\ engine' = [at |-> "run", copy |-> root']
    /\ UNCHANGED <<children, enabled, granted, replayed, casefile, decided, reviewer, stale, submissions>>

EngineFinishes ==
    /\ engine.at = "run"
    /\ \E status \in {"completed", "failed"}, blocked \in BOOLEAN :
           root' = [engine.copy EXCEPT !.status = status, !.blocked = blocked]
    /\ stale' = (stale \/ root # engine.copy)
    /\ engine' = [at |-> "finished"]
    /\ UNCHANGED <<children, enabled, granted, replayed, casefile, decided, reviewer, submissions>>

EngineLoadsCase ==
    /\ engine.at = "finished"
    /\ engine' = [at |-> "note", copy |-> casefile]
    /\ UNCHANGED <<root, children, enabled, granted, replayed, casefile, decided, reviewer, stale, submissions>>

\* record_review_outcome with a copy that holds nothing of what is there.
OutcomeAlone ==
    /\ engine.at = "note"
    /\ casefile' = [decisions |-> 0, outcome |-> TRUE]
    /\ stale' = (stale \/ casefile # engine.copy)
    /\ engine' = [at |-> "done"]
    /\ UNCHANGED <<root, children, enabled, granted, replayed, decided, reviewer, submissions>>

RecordReviewOutcome ==
    /\ engine.at = "note"
    /\ casefile' = [engine.copy EXCEPT !.outcome = TRUE]
    /\ stale' = (stale \/ casefile # engine.copy)
    /\ engine' = [at |-> "done"]
    /\ UNCHANGED <<root, children, enabled, granted, replayed, decided, reviewer, submissions>>

ReviewNext ==
    \/ \E c \in Collaborators : UpsertWorkflowParticipant(c) \/ RemoveWorkflowParticipant(c)
    \/ \E m \in Memories : DisableMemory(m)
    \/ \E r \in Reviewers :
           \/ ReadBundle(r) \/ Authorize(r) \/ ReadRoot(r) \/ WriteRoot(r)
           \/ CreateChild(r) \/ AcceptBest(r) \/ NothingDone(r) \/ LoadCase(r) \/ RecordDecision(r)
    \/ EngineTakes \/ EngineFinishes \/ EngineLoadsCase \/ RecordReviewOutcome

ReviewSpec == ReviewInit /\ [][ReviewNext]_reviewVars

-----------------------------------------------------------------------------
(* Properties.                                                             *)

\* The child budget is checked on the bundle and not again when a revision is created, so
\* reviewers at work at the same time may exceed it, each of them by one child at most, and
\* nobody exceeds it as long as every decision was acted on before the next was made.
ReviewBudget ==
    /\ children < MaxChildren + Cardinality(Reviewers)
    /\ ~stale => children <= MaxChildren

\* Two implementations agree: every button the panel offers to the owner does, when it is
\* pressed at once, what it says, and one it shows as blocked would be escalated; the task
\* service refuses none of them as long as the budgets are not used up and no pinned memory
\* has been disabled (review_bundle_workflow_controls.py against workflow_loop_policy.py).
SuggestionIsTaken ==
    \A recommended \in Recommendations : LET panel == Controls(recommended) IN
        /\ \A card \in panel.cards :
              children < MaxChildren /\ children + 1 < MaxAttempts /\ root.pins \subseteq enabled =>
                  LET decision == DecisionOf(card.id) IN
                  /\ ChooseAction(decision, FALSE) = (IF card.blocked THEN "escalate" ELSE decision)
                  /\ decision = "revise" => CanRevise("owner")
                  /\ decision = "retry" => CanRetry
                  /\ FamilyOf(card.id) = "combined" => "pending_memory" \in panel.badges
        /\ panel.tone = "ready" <=> "blocked" \notin panel.open
        /\ panel.tone = "ready" => "acceptance_blockers" \notin panel.badges

\* While nobody has acted on what he read before another's write, the pins of the row
\* are what the workflow events add up to, and the case memory holds the last decisions.
NothingOverwritten ==
    ~stale => /\ root.pins = replayed
              /\ casefile.decisions = IF decided < MaxLog THEN decided ELSE MaxLog
=============================================================================
