------------------------------ MODULE VideoThread ------------------------------
(***************************************************************************)
(* One video thread (video_thread_service.py, video_iteration_service.py,  *)
(* video_turn_service.py, video_run_binding_service.py): its iterations,   *)
(* results, turns, participants and agent runs, each a row of its own,     *)
(* changed by requests that write several rows in separate transactions    *)
(* and may be lost between two of them; and the composer target that the   *)
(* surface shows to the owner (video_projection_composer_target.py).       *)
(***************************************************************************)
EXTENDS Integers, Sequences

CONSTANTS
    Authors,        \* requests that create, revise and ask
    Choosers,       \* requests that select results
    Agents,         \* agents that can take part; the owner is another participant
    MaxIterations, MaxResults, MaxTurns     \* bounds

ASSUME ThreadAssumption ==
    /\ {"owner", "explainer", "nobody"} \cap Agents = {}
    /\ MaxIterations \in Nat /\ MaxResults \in Nat /\ MaxTurns \in Nat

VARIABLES
    thread,         \* the thread row: {} or {[current, selected]}
    iterations,     \* by creation: parent, source, selected, responsible, task
    results,        \* by creation: the iteration and the selected flag
    turns,          \* by creation, those that name an agent: iteration, speaker, addressed
    runs,           \* by creation: the iteration of its task, and its agent
    participants,
    client          \* what each request is doing, with what it has read

threadVars == <<thread, iterations, results, turns, runs, participants, client>>

Clients == Authors \cup Choosers
Nobody == "nobody"
Participant == Agents \cup {"owner", "explainer"}
Someone == Participant \cup {Nobody}
Away == [at |-> "away"]
Iteration == [parent : 0 .. MaxIterations, source : 0 .. MaxResults, selected : 0 .. MaxResults,
              responsible : Someone, task : BOOLEAN]
Turn == [of : 1 .. MaxIterations, speaker : Participant, to : Someone]
AgentRun == [of : 1 .. MaxIterations, agent : Participant]

ThreadTypeOK ==
    /\ thread \subseteq [current : 0 .. MaxIterations, selected : 0 .. MaxResults]
    /\ \A i \in DOMAIN iterations : iterations[i] \in Iteration
    /\ \A r \in DOMAIN results : results[r] \in [of : 1 .. MaxIterations, flagged : BOOLEAN]
    /\ \A t \in DOMAIN turns : turns[t] \in Turn
    /\ \A u \in DOMAIN runs : runs[u] \in AgentRun
    /\ participants \subseteq Participant

ThreadInit ==
    /\ thread = {}
    /\ iterations = << >> /\ results = << >> /\ turns = << >> /\ runs = << >>
    /\ participants = {}
    /\ client = [c \in Clients |-> Away]

-----------------------------------------------------------------------------
(* What a request finds out from the rows.                                 *)

\* The last of the rows found, or 0.
LastOf(found) ==
    IF found = {} THEN 0 ELSE CHOOSE k \in found : \A l \in found : l <= k

\* The first of the entries that holds something.
FirstBut(none, s) ==
    LET found == {k \in DOMAIN s : s[k] # none}
    IN IF found = {} THEN none ELSE s[CHOOSE k \in found : \A l \in found : k <= l]

FirstSomeone(s) == FirstBut(Nobody, s)

\* The last one addressed, whoever takes part.
AddressedAnyone(here) ==
    LET k == LastOf({k \in DOMAIN turns : turns[k].of \in here /\ turns[k].to # Nobody})
    IN IF k = 0 THEN Nobody ELSE turns[k].to

AddressedIn(here) ==
    LET k == LastOf({k \in DOMAIN turns : turns[k].of \in here /\ turns[k].to \in participants})
    IN IF k = 0 THEN Nobody ELSE turns[k].to
SpokenIn(here) ==
    LET k == LastOf({l \in DOMAIN turns : /\ turns[l].of \in here
                                          /\ turns[l].speaker \in participants \ {"owner"}})
    IN IF k = 0 THEN Nobody ELSE turns[k].speaker
RanIn(i) ==
    LET k == LastOf({k \in DOMAIN runs : runs[k].of = i /\ runs[k].agent \in participants})
    IN IF k = 0 THEN Nobody ELSE runs[k].agent

\* _resolve_addressed_participant
Addressed(i) ==
    LET responsible == iterations[i].responsible
    IN FirstSomeone(<< IF responsible \in participants THEN responsible ELSE Nobody,
                       AddressedIn({i}), RanIn(i), SpokenIn({i}),
                       AddressedIn(DOMAIN iterations), SpokenIn(DOMAIN iterations) >>)

\* _resolve_iteration_continuity_target
Continuity(i) == FirstSomeone(<<Addressed(i), iterations[i].responsible>>)

FlaggedIn(i) == LastOf({k \in DOMAIN results : results[k].of = i /\ results[k].flagged})
NewestIn(i) == LastOf({k \in DOMAIN results : results[k].of = i})
FirstFound(s) == FirstBut(0, s)

\* _resolve_iteration_target_result_id
TargetResult(i) == FirstFound(<<iterations[i].selected, FlaggedIn(i), NewestIn(i)>>)

-----------------------------------------------------------------------------
(* create_thread and request_revision: a transaction for every row, then   *)
(* the task, which may be refused when the rows are there.                 *)

Stands(c, step) == client[c].at = step
Goes(c, state) == client' = [client EXCEPT ![c] = state]
TheThread == CHOOSE t \in thread : TRUE

\* A turn of the owner that addresses nobody is witness of nothing that is read here.
TakeTurn(turn) ==
    IF turn.speaker = "owner" /\ turn.to = Nobody THEN UNCHANGED turns
    ELSE Len(turns) < MaxTurns /\ turns' = Append(turns, turn)

MakeThread(c) ==
    /\ Stands(c, "away") /\ thread = {}
    /\ thread' = {[current |-> 0, selected |-> 0]}
    /\ Goes(c, [at |-> "join"])
    /\ UNCHANGED <<iterations, results, turns, runs, participants>>

JoinOwner(c) ==
    /\ Stands(c, "join")
    /\ participants' = participants \cup {"owner"}
    /\ Goes(c, [at |-> "iterate", row |-> TheThread, parent |-> 0, source |-> 0, target |-> Nobody])
    /\ UNCHANGED <<thread, iterations, results, turns, runs>>

\* A revision of iteration i needs a task of i, unless the caller names one.
Revise(c, i, named) ==
    /\ Stands(c, "away") /\ thread # {}
    /\ iterations[i].task \/ named
    /\ Goes(c, [at |-> "iterate", row |-> TheThread, parent |-> i, source |-> TargetResult(i),
                target |-> Continuity(i)])
    /\ UNCHANGED <<thread, iterations, results, turns, runs, participants>>

MakeIteration(c) ==
    /\ Stands(c, "iterate") /\ Len(iterations) < MaxIterations
    /\ iterations' = Append(iterations, [parent |-> client[c].parent, source |-> client[c].source,
                                         selected |-> 0, responsible |-> Nobody, task |-> FALSE])
    /\ Goes(c, [at |-> "assign", row |-> client[c].row, target |-> client[c].target,
                new |-> Len(iterations')])
    /\ UNCHANGED <<thread, results, turns, runs, participants>>

AssignResponsibility(c) ==
    /\ Stands(c, "assign")
    /\ iterations' = [iterations EXCEPT ![client[c].new].responsible = client[c].target]
    /\ Goes(c, [client[c] EXCEPT !.at = "point"])
    /\ UNCHANGED <<thread, results, turns, runs, participants>>

\* The whole thread row goes back as it was read.
PointThread(c) ==
    /\ Stands(c, "point")
    /\ thread' = {[client[c].row EXCEPT !.current = client[c].new]}
    /\ Goes(c, [at |-> "turn", new |-> client[c].new, target |-> client[c].target])
    /\ UNCHANGED <<iterations, results, turns, runs, participants>>

OwnerTurn(c) ==
    /\ Stands(c, "turn")
    /\ TakeTurn([of |-> client[c].new, speaker |-> "owner", to |-> client[c].target])
    /\ Goes(c, [at |-> "task", new |-> client[c].new])
    /\ UNCHANGED <<thread, iterations, results, runs, participants>>

MakeTask(c) ==
    /\ Stands(c, "task")
    /\ \E accepted \in BOOLEAN : iterations' = [iterations EXCEPT ![client[c].new].task = accepted]
    /\ Goes(c, Away)
    /\ UNCHANGED <<thread, results, turns, runs, participants>>

-----------------------------------------------------------------------------
(* select_result: the flag, the thread, the iteration, one after another.  *)

Select(c, r) ==
    /\ Stands(c, "away") /\ thread # {}
    /\ Goes(c, [at |-> "flag", row |-> TheThread, choice |-> r])
    /\ UNCHANGED <<thread, iterations, results, turns, runs, participants>>

Flag(c) ==
    /\ Stands(c, "flag")
    /\ results' = [results EXCEPT ![client[c].choice].flagged = TRUE]
    /\ Goes(c, [client[c] EXCEPT !.at = "show"])
    /\ UNCHANGED <<thread, iterations, turns, runs, participants>>

Show(c) ==
    /\ Stands(c, "show")
    /\ thread' = {[current |-> results[client[c].choice].of, selected |-> client[c].choice]}
    /\ Goes(c, [client[c] EXCEPT !.at = "keep"])
    /\ UNCHANGED <<iterations, results, turns, runs, participants>>

\* As KeepChoice, in the iteration the thread is at.
KeepInCurrent(c) ==
    /\ Stands(c, "keep")
    /\ iterations' = [iterations EXCEPT ![TheThread.current].selected = client[c].choice]
    /\ Goes(c, Away)
    /\ UNCHANGED <<thread, results, turns, runs, participants>>

KeepChoice(c) ==
    LET r == client[c].choice
    IN /\ Stands(c, "keep")
       /\ iterations' = [iterations EXCEPT ![results[r].of].selected = r]
       /\ Goes(c, Away)
       /\ UNCHANGED <<thread, results, turns, runs, participants>>

-----------------------------------------------------------------------------
(* Turns, participants, runs and results.                                  *)

\* append_turn, to the participant named or to the one resolved.
AppendTurn(i, to) ==
    /\ to \in participants \cup {Addressed(i)}
    /\ TakeTurn([of |-> i, speaker |-> "owner", to |-> to])
    /\ UNCHANGED <<thread, iterations, results, runs, participants, client>>

\* request_explanation: the question, then the answer of the agent that ran, is
\* responsible or is addressed; then the agent takes part.
RequestExplanation(c, i) ==
    LET k == LastOf({k \in DOMAIN runs : runs[k].of = i})
        ran == IF k = 0 THEN Nobody ELSE runs[k].agent
        speaker == FirstSomeone(<<ran, iterations[i].responsible, Addressed(i), "explainer">>)
    IN /\ Stands(c, "away")
       /\ TakeTurn([of |-> i, speaker |-> "owner", to |-> Addressed(i)])
       /\ Goes(c, [at |-> "answer", new |-> i, target |-> speaker])
       /\ UNCHANGED <<thread, iterations, results, runs, participants>>

AnswerTurn(c) ==
    /\ Stands(c, "answer")
    /\ TakeTurn([of |-> client[c].new, speaker |-> client[c].target, to |-> Nobody])
    /\ Goes(c, [at |-> "welcome", target |-> client[c].target])
    /\ UNCHANGED <<thread, iterations, results, runs, participants>>

WelcomeSpeaker(c) ==
    /\ Stands(c, "welcome")
    /\ participants' = participants \cup {client[c].target}
    /\ Goes(c, Away)
    /\ UNCHANGED <<thread, iterations, results, turns, runs>>

UpsertParticipant(p) ==
    /\ thread # {}
    /\ participants' = participants \cup {p}
    /\ UNCHANGED <<thread, iterations, results, turns, runs, client>>

\* Nothing keeps the owner's own row.
RemoveParticipant(p) ==
    /\ participants' = participants \ {p}
    /\ UNCHANGED <<thread, iterations, results, turns, runs, client>>

\* upsert_video_agent_run: the run of a task keeps its place.
WriteRun(row) ==
    LET k == LastOf({k \in DOMAIN runs : runs[k].of = row.of})
    IN runs' = IF k = 0 THEN Append(runs, row) ELSE [runs EXCEPT ![k] = row]

\* sync_task_lifecycle_run, for a task with a target: the agent takes part (again) and
\* the run of the task is written, whatever the status.
SyncRun(i) ==
    LET agent == iterations[i].responsible
    IN /\ iterations[i].task /\ agent # Nobody
       /\ participants' = participants \cup {agent}
       /\ WriteRun([of |-> i, agent |-> agent])
       /\ UNCHANGED <<thread, iterations, results, turns, client>>

\* register_result, for a task of the iteration.
RegisterResult(i) ==
    /\ iterations[i].task /\ Len(results) < MaxResults
    /\ results' = Append(results, [of |-> i, flagged |-> FALSE])
    /\ UNCHANGED <<thread, iterations, turns, runs, participants, client>>

LoseRequest(c) ==
    /\ ~Stands(c, "away")
    /\ Goes(c, Away)
    /\ UNCHANGED <<thread, iterations, results, turns, runs, participants>>

ThreadSteps ==
    \/ \E c \in Authors :
          \/ MakeThread(c) \/ JoinOwner(c) \/ MakeIteration(c) \/ AssignResponsibility(c)
          \/ PointThread(c) \/ OwnerTurn(c) \/ MakeTask(c)
          \/ AnswerTurn(c) \/ WelcomeSpeaker(c)
          \/ \E i \in DOMAIN iterations :
                RequestExplanation(c, i) \/ \E named \in BOOLEAN : Revise(c, i, named)
    \/ \E c \in Choosers :
          \/ Flag(c) \/ Show(c) \/ KeepChoice(c)
          \/ \E r \in DOMAIN results : Select(c, r)
    \/ \E i \in DOMAIN iterations :
          \/ RegisterResult(i) \/ SyncRun(i)
          \/ \E to \in Someone : AppendTurn(i, to)
    \/ \E p \in Agents \cup {"owner"} : UpsertParticipant(p)
    \/ \E p \in participants : RemoveParticipant(p)

ThreadNext == ThreadSteps \/ \E c \in Clients : LoseRequest(c)

ThreadSpec == ThreadInit /\ [][ThreadNext]_threadVars

-----------------------------------------------------------------------------
(* The composer target the surface shows for an iteration.                 *)

\* target_result_for_iteration
ComposerResult(i) == FirstFound(<<FlaggedIn(i), iterations[i].selected, NewestIn(i)>>)

\* resolve_participants: a thread without participants shows its owner.
Shown == IF participants = {} THEN {"owner"} ELSE participants

\* resolve_composer_participant: the newest witness shown, of the first kind that has one.
ComposerParticipant(i) ==
    LET told(here) == [k \in DOMAIN turns |-> IF turns[k].of \in here THEN turns[k].to ELSE Nobody]
        said(here) == [k \in DOMAIN turns |-> IF turns[k].of \in here /\ turns[k].speaker # "owner"
                                               THEN turns[k].speaker ELSE Nobody]
        ran == [k \in DOMAIN runs |-> IF runs[k].of = i THEN runs[k].agent ELSE Nobody]
        all == DOMAIN iterations
        newest(s) == LET k == LastOf({k \in DOMAIN s : s[k] \in Shown})
                     IN IF k = 0 THEN Nobody ELSE s[k]
    IN FirstSomeone(<< newest(<<iterations[i].responsible>>), newest(told({i})), newest(ran),
                       newest(said({i})), newest(told(all)), newest(said(all)) >>)

-----------------------------------------------------------------------------
\* However selections, revisions and losses interleave, an iteration's choice is a flagged
\* result of its own, the thread's is a flagged result, and a revision starts from a
\* result of the iteration it revises.
LineageIsSound ==
    /\ \A i \in DOMAIN iterations :
          /\ iterations[i].selected # 0 => /\ results[iterations[i].selected].of = i
                                           /\ results[iterations[i].selected].flagged
          /\ iterations[i].parent < i
          /\ iterations[i].source # 0 => results[iterations[i].source].of = iterations[i].parent
    /\ \A t \in thread : t.selected # 0 => results[t.selected].flagged

\* The composer announces what the service will do with the next message: the participant
\* it goes to, and a result of the iteration if there is one; the same result as the service
\* as long as no second result of the iteration has been selected
\* (video_projection_composer_target.py against video_thread_service.py).
ComposerNamesAddressee ==
    \A i \in DOMAIN iterations :
        LET announced == ComposerResult(i)
            flagged == {r \in DOMAIN results : results[r].of = i /\ results[r].flagged}
        IN /\ participants # {} => ComposerParticipant(i) = Addressed(i)
           /\ announced # 0 <=> TargetResult(i) # 0
           /\ announced # 0 => results[announced].of = i
           /\ (\A r, q \in flagged : r = q) => announced = TargetResult(i)

=============================================================================
