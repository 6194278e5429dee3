---------------------------- MODULE PersistentMemory ----------------------------
(***************************************************************************)
(* The memories that agents keep (persistent_memory_service.py,            *)
(* memo0_memory_backend.py, task_memory_context.py): promoted from a       *)
(* session, disabled and never changed otherwise, indexed by a remote      *)
(* service that may fail, given to tasks by the ids of a request or of the *)
(* root task, handed on to descendants, and recalled by a query.           *)
(***************************************************************************)
EXTENDS Integers, Sequences, FiniteSets

CONSTANTS
    People,         \* agents
    Records,        \* ids of memories
    PromotedBy,     \* PromotedBy[m]: the agent that promotes memory m
    Askers,         \* requests under way
    MaxChain        \* bound: tasks in a behaviour

ASSUME PersistentAssumption ==
    /\ IsFiniteSet(Records)
    /\ PromotedBy \in [Records -> People]
    /\ MaxChain \in Nat

VARIABLES
    record,         \* agent_memories: the status of each row
    named,          \* rows whose enhancement names the remote copy
    remote,         \* what the remote service has indexed
    chain,          \* video_tasks with the memories they were given, in the order of creation
    asker           \* what each request has under way

persistentVars == <<record, named, remote, chain, asker>>

Unasked == [does |-> "nothing"]
NoBase == 0
Disabled == {m \in Records : record[m] = "disabled"}
ActiveOf(p) == {m \in Records : record[m] = "active" /\ PromotedBy[m] = p}

\* barred: memories that were disabled when the request began that chose these.
Context == [ids : SUBSET Records, barred : SUBSET Records]
ChainRow == [root : 1 .. MaxChain, agent : People, context : Context]

PersistentTypeOK ==
    /\ record \in [Records -> {"absent", "active", "disabled"}]
    /\ named \subseteq Records
    /\ remote \subseteq Records
    /\ Len(chain) <= MaxChain
    /\ \A i \in DOMAIN chain : chain[i] \in ChainRow /\ chain[i].root <= i

PersistentInit ==
    /\ record = [m \in Records |-> "absent"]
    /\ named = {} /\ remote = {}
    /\ chain = << >>
    /\ asker = [a \in Askers |-> Unasked]

Ends(a) == asker' = [asker EXCEPT ![a] = Unasked]

-----------------------------------------------------------------------------
(* Memories.                                                               *)

\* promote_session_memory: first the remote service is asked to index the text, which may
\* fail before or after it did so ...
Promote(a, m) ==
    /\ asker[a] = Unasked /\ record[m] = "absent" /\ m \notin remote
    /\ \A b \in Askers : asker[b].does = "promote" => asker[b].memory # m
    /\ \E indexed \in BOOLEAN : \E answered \in {FALSE, indexed} :
          /\ remote' = IF indexed THEN remote \cup {m} ELSE remote
          /\ asker' = [asker EXCEPT ![a] = [does |-> "promote", memory |-> m, names |-> answered]]
    /\ UNCHANGED <<record, named, chain>>

\* ... then the row is created.
CreateRecord(a) ==
    /\ asker[a].does = "promote"
    /\ record' = [record EXCEPT ![asker[a].memory] = "active"]
    /\ named' = IF asker[a].names THEN named \cup {asker[a].memory} ELSE named
    /\ Ends(a)
    /\ UNCHANGED <<remote, chain>>

\* disable_agent_memory: of the agent's own active memories the remote copy is deleted if
\* the row names one, which may fail ...
DeleteRemote(a, p, m) ==
    /\ asker[a] = Unasked /\ m \in ActiveOf(p)
    /\ remote' \in {remote} \cup (IF m \in named THEN {remote \ {m}} ELSE {})
    /\ asker' = [asker EXCEPT ![a] = [does |-> "disable", memory |-> m]]
    /\ UNCHANGED <<record, named, chain>>

\* ... then the row is disabled.
DisableRecord(a) ==
    /\ asker[a].does = "disable"
    /\ record' = [record EXCEPT ![asker[a].memory] = "disabled"]
    /\ Ends(a)
    /\ UNCHANGED <<named, remote, chain>>

-----------------------------------------------------------------------------
(* Tasks.                                                                  *)

RootOf(i) == chain[i].root
NoContext == [ids |-> {}, barred |-> {}]

\* A request that chooses memories begins to look at them.
Chooses(a, kind, base, p, ids) ==
    /\ asker[a] = Unasked
    /\ asker' = [asker EXCEPT ![a] = [does |-> kind, base |-> base, agent |-> p,
                                      todo |-> ids, got |-> {}, barred |-> Disabled]]
    /\ UNCHANGED <<record, named, remote, chain>>

\* create_video_task with the ids of the request, whoever's they are.
CreateRoot(a, p, ids) == Len(chain) < MaxChain /\ Chooses(a, "create", NoBase, p, ids)

\* revise_video_task by the owner, with the ids of the request ...
ReviseWith(a, i, ids) == Chooses(a, "revise", i, chain[i].agent, ids)

\* ... or, as it has none, those of the root.
ReviseWithRoots(a, i) == Chooses(a, "revise", i, chain[i].agent, chain[RootOf(i)].context.ids)

\* pin_workflow_memory, unpin_workflow_memory: all the pins are looked at again.
Pin(a, i, m) ==
    /\ RootOf(i) = i
    /\ Chooses(a, "pin", i, chain[i].agent, chain[i].context.ids \cup {m})
Unpin(a, i, m) ==
    /\ RootOf(i) = i
    /\ Chooses(a, "pin", i, chain[i].agent, chain[i].context.ids \ {m})

\* resolve_memory_context that looks at the owner only.
LookAtOwner(a) ==
    /\ asker[a].does \in {"create", "revise", "pin"} /\ asker[a].todo # {}
    /\ \E m \in asker[a].todo :
          IF record[m] # "absent" /\ PromotedBy[m] = asker[a].agent
          THEN asker' = [asker EXCEPT ![a].todo = @ \ {m}, ![a].got = @ \cup {m}]
          ELSE Ends(a)
    /\ UNCHANGED <<record, named, remote, chain>>

\* resolve_memory_context: each memory must exist, be the agent's and be active; otherwise
\* the request ends in an error.
LookAt(a) ==
    /\ asker[a].does \in {"create", "revise", "pin"} /\ asker[a].todo # {}
    /\ \E m \in asker[a].todo :
          IF m \in ActiveOf(asker[a].agent)
          THEN asker' = [asker EXCEPT ![a].todo = @ \ {m}, ![a].got = @ \cup {m}]
          ELSE Ends(a)
    /\ UNCHANGED <<record, named, remote, chain>>

\* The task, or its root's new pins, is written with the memories found.
Given(a) == [ids |-> asker[a].got, barred |-> asker[a].barred]

Child(i, context) == [root |-> RootOf(i), agent |-> chain[i].agent, context |-> context]

WriteTask(a) ==
    /\ asker[a].does \in {"create", "revise"} /\ asker[a].todo = {}
    /\ Len(chain) < MaxChain
    /\ chain' = Append(chain,
          IF asker[a].does = "create"
          THEN [root |-> Len(chain) + 1, agent |-> asker[a].agent, context |-> Given(a)]
          ELSE Child(asker[a].base, Given(a)))
    /\ Ends(a)
    /\ UNCHANGED <<record, named, remote>>

WritePins(a) ==
    /\ asker[a].does = "pin" /\ asker[a].todo = {}
    /\ chain' = [chain EXCEPT ![asker[a].base].context = Given(a)]
    /\ Ends(a)
    /\ UNCHANGED <<record, named, remote>>

\* inherit_persistent_memory_context: a challenger of the engine, and the revision of a
\* collaborator, who may name no memories of his own.
Inherit(i) ==
    /\ Len(chain) < MaxChain
    /\ chain' = Append(chain, Child(i, chain[i].context))
    /\ UNCHANGED <<record, named, remote, asker>>

\* A retry, a repair and a degraded delivery are given none.
StartAfresh(i) ==
    /\ Len(chain) < MaxChain
    /\ chain' = Append(chain, Child(i, NoContext))
    /\ UNCHANGED <<record, named, remote, asker>>

LoseAsker(a) ==
    /\ asker[a] # Unasked
    /\ Ends(a)
    /\ UNCHANGED <<record, named, remote, chain>>

PersistentNext ==
    \/ \E a \in Askers, m \in Records :
          \/ Promote(a, m) \/ (\E p \in People : DeleteRemote(a, p, m))
          \/ \E i \in DOMAIN chain : Pin(a, i, m) \/ Unpin(a, i, m)
    \/ \E a \in Askers :
          \/ CreateRecord(a) \/ DisableRecord(a)
          \/ \E p \in People, ids \in SUBSET Records : CreateRoot(a, p, ids)
          \/ \E i \in DOMAIN chain :
                \/ \E ids \in SUBSET Records : ReviseWith(a, i, ids)
                \/ ReviseWithRoots(a, i)
          \/ LookAt(a) \/ WriteTask(a) \/ WritePins(a) \/ LoseAsker(a)
    \/ \E i \in DOMAIN chain : Inherit(i) \/ StartAfresh(i)

PersistentSpec == PersistentInit /\ [][PersistentNext]_persistentVars

-----------------------------------------------------------------------------
(* Queries.                                                                *)

\* Memo0MemoryBackend.search: some of what is indexed for the agent, at most limit; none
\* when the service fails.
Searches(p, limit) ==
    {hits \in SUBSET {m \in remote : PromotedBy[m] = p} : Cardinality(hits) <= limit}

\* _query_memory_backend drops what is not an active memory of the agent.
Resolves(p, hits) == hits \cap ActiveOf(p)

\* The best of the active memories that share a word with the query.
Matches(p, alike, limit) ==
    {best \in SUBSET (alike \cap ActiveOf(p)) :
        LET n == Cardinality(alike \cap ActiveOf(p))
        IN Cardinality(best) = IF n < limit THEN n ELSE limit}

\* query_agent_memories: what it may answer.
Recall(p, hits, alike, limit) ==
    IF limit = 0 THEN {{}}
    ELSE IF Resolves(p, hits) # {} THEN {Resolves(p, hits)} ELSE Matches(p, alike, limit)

\* _load_shared_memory_records: the active memories of a task and of its root.
Shared(i) == (chain[i].context.ids \cup chain[RootOf(i)].context.ids) \cap ActiveOf(chain[i].agent)

\* resolve_task_memory_context_summary: the text the task was given, or else its root.
Attached(i) ==
    IF chain[i].context.ids # {} THEN chain[i].context ELSE chain[RootOf(i)].context

\* build_role_memory_context: what the planner, the reviewer and the repairer are told of.
Told(i) == IF Shared(i) # {} THEN Shared(i) ELSE Attached(i).ids

-----------------------------------------------------------------------------
\* A memory that is disabled before a request begins is given to no task by it: what the
\* request chose, and what descendants inherit of it, is the agent's own and was active.
TasksRemember ==
    \A i \in DOMAIN chain :
        LET c == chain[i].context
        IN /\ c.ids \cap c.barred = {}
           /\ \A m \in c.ids : PromotedBy[m] = chain[i].agent /\ record[m] # "absent"

\* Whatever the index still has of deleted, unrecorded or foreign memories, a query answers
\* with the agent's active ones, and with some if one of them is like it.
RecallIsSound ==
    \A p \in People, alike \in SUBSET Records, limit \in 1 .. Cardinality(Records) :
        \A hits \in Searches(p, limit) : \A answer \in Recall(p, hits, alike, limit) :
            /\ answer \subseteq ActiveOf(p) /\ Cardinality(answer) <= limit
            /\ alike \cap ActiveOf(p) # {} => answer # {}

\* The roles of a workflow are told of no memory that had been disabled before it was
\* attached, though of the last one attached even when it is disabled afterwards.
RolesAreTold ==
    \A i \in DOMAIN chain : Told(i) \subseteq Shared(i) \cup (Attached(i).ids \ Attached(i).barred)

\* A disabled memory stays out of new requests, of the answers to queries and of what the
\* roles are told, and an agent's memories stay its own ("can no longer be referenced by
\* memory_ids after it is disabled", 2026-03-16-agent-persistent-memory-foundation-design.md).
DisabledStaysOut == TasksRemember /\ RecallIsSound /\ RolesAreTold

=============================================================================
