----------------------------- MODULE SessionMemory -----------------------------
(***************************************************************************)
(* The memory of one session (session_memory_service.py,                   *)
(* server/session_memory.py): the tasks of the session with their attempts *)
(* and outcomes, kept in a row of the store and in a copy of each process, *)
(* which never reads the row again while it has its copy.  Threads read    *)
(* the copy, change it and write it back to both.                          *)
(***************************************************************************)
EXTENDS Integers, Sequences

CONSTANTS
    Servers,        \* processes
    Writers,        \* their threads
    ServerOf,       \* ServerOf[w]: the process of thread w
    Goals,          \* root tasks of the session
    MaxRevisions,   \* bound: tasks of a root
    Endings,        \* statuses a task can end with
    MaxEntries, MaxAttemptsKept,    \* session_memory_max_entries, _max_attempts_per_entry
    MaxClears       \* bound: times the memory is cleared

ASSUME SessionAssumption ==
    /\ ServerOf \in [Writers -> Servers]
    /\ MaxRevisions \in Nat /\ MaxClears \in Nat
    /\ MaxEntries \in Nat \ {0} /\ MaxAttemptsKept \in Nat \ {0}

VARIABLES
    stored,     \* session_memory_snapshots: the set of the entries of the row, or Absent
    copy,       \* the copy of each process, or Absent
    writer,     \* the operation each thread has begun, with the entries it read
    replay,     \* the operations one after the other on a memory of their own
    made,       \* tasks of each root whose creation has been recorded
    shared,     \* two processes have held copies at once
    crossed,    \* two operations have been under way at once
    clears

memoryVars == <<stored, copy, writer, replay, made, shared, crossed, clears>>

Absent == {}
Resting == [doing |-> "rest"]

Entry == [goal : Goals, latest : 1 .. MaxRevisions, status : Endings \cup {"queued"},
          attempts : Seq([task : 1 .. MaxRevisions, status : Endings \cup {"queued"}])]
Snapshot(s) == /\ s \in Seq(Entry) /\ Len(s) <= MaxEntries
               /\ \A i \in DOMAIN s : Len(s[i].attempts) <= MaxAttemptsKept
               /\ \A i, j \in DOMAIN s : s[i].goal = s[j].goal => i = j

MemoryTypeOK ==
    /\ \A s \in stored : Snapshot(s)
    /\ \A p \in Servers : \A s \in copy[p] : Snapshot(s)
    /\ Snapshot(replay)
    /\ made \in [Goals -> 0 .. MaxRevisions]
    /\ shared \in BOOLEAN /\ crossed \in BOOLEAN

MemoryInit ==
    /\ stored = Absent
    /\ copy = [p \in Servers |-> Absent]
    /\ writer = [w \in Writers |-> Resting]
    /\ replay = << >>
    /\ made = [g \in Goals |-> 0]
    /\ shared = FALSE /\ crossed = FALSE
    /\ clears = 0

-----------------------------------------------------------------------------
(* What an operation makes of the entries it read.                         *)

Newest(s, n) == IF Len(s) > n THEN SubSeq(s, Len(s) - n + 1, Len(s)) ELSE s

\* existing_index, entry_index: the first entry of a root.
EntriesOf(s, goal) == {i \in DOMAIN s : s[i].goal = goal}
FirstOf(s, goal) == CHOOSE i \in EntriesOf(s, goal) : \A j \in EntriesOf(s, goal) : i <= j

Popped(s, i) == [j \in 1 .. Len(s) - 1 |-> s[IF j < i THEN j ELSE j + 1]]

\* record_task_created: the entry of the root moves to the end with one more attempt.
Created(s, goal, task) ==
    LET known == EntriesOf(s, goal) # {}
        others == IF known THEN Popped(s, FirstOf(s, goal)) ELSE s
        attempts == IF known THEN s[FirstOf(s, goal)].attempts ELSE << >>
        entry == [goal |-> goal, latest |-> task, status |-> "queued",
                  attempts |-> Newest(Append(attempts, [task |-> task, status |-> "queued"]), MaxAttemptsKept)]
    IN Newest(Append(others, entry), MaxEntries)

\* record_task_outcome: the attempt, if it is still there, and the entry.
Concluded(s, goal, task, status) ==
    [i \in DOMAIN s |->
        IF s[i].goal # goal THEN s[i]
        ELSE [s[i] EXCEPT !.latest = task, !.status = status,
                          !.attempts = [j \in DOMAIN @ |-> IF @[j].task = task
                                                           THEN [@[j] EXCEPT !.status = status]
                                                           ELSE @[j]]]]

\* An outcome of a root without an entry is not written at all.
Forgotten(s, o) == o.op = "outcome" /\ EntriesOf(s, o.goal) = {}

Result(s, o) ==
    IF Forgotten(s, o) THEN s
    ELSE CASE o.op = "created" -> Created(s, o.goal, o.task)
           [] o.op = "outcome" -> Concluded(s, o.goal, o.task, o.status)
           [] o.op = "clear" -> << >>
           [] OTHER -> s

-----------------------------------------------------------------------------
\* A process that has no copy starts from nothing.
FindInCopy(p) == IF copy[p] = Absent THEN << >> ELSE CHOOSE s \in copy[p] : TRUE

\* find_snapshot: the copy, else the row.
Find(p) ==
    LET found == IF copy[p] # Absent THEN copy[p] ELSE stored
    IN IF found = Absent THEN << >> ELSE CHOOSE s \in found : TRUE

\* A copy is made of a row that is found.
Holding(p) == [copy EXCEPT ![p] = IF @ = Absent THEN stored ELSE @]

Elsewhere(p) == \E q \in Servers \ {p} : copy[q] # Absent

\* A thread reads; ensure_session_id is such an operation in every HTTP request.
BeginOperation(w, o) ==
    LET p == ServerOf[w]
    IN /\ writer[w] = Resting
       /\ writer' = [writer EXCEPT ![w] = [doing |-> o, read |-> Find(p)]]
       /\ copy' = Holding(p)
       /\ crossed' = (crossed \/ \E v \in Writers : writer[v] # Resting)
       /\ shared' = (shared \/ Elsewhere(p))
       /\ UNCHANGED <<stored, replay>>

RecordCreated(w, g) ==
    /\ made[g] < MaxRevisions
    /\ BeginOperation(w, [op |-> "created", goal |-> g, task |-> made[g] + 1])
    /\ made' = [made EXCEPT ![g] = @ + 1]
    /\ UNCHANGED clears

RecordOutcomeOf(w, g, task, status) ==
    /\ task <= made[g]
    /\ BeginOperation(w, [op |-> "outcome", goal |-> g, task |-> task, status |-> status])
    /\ UNCHANGED <<made, clears>>

EnsureSession(w) == BeginOperation(w, [op |-> "ensure"]) /\ UNCHANGED <<made, clears>>

ClearSession(w) ==
    /\ clears < MaxClears
    /\ clears' = clears + 1
    /\ BeginOperation(w, [op |-> "clear"])
    /\ UNCHANGED made

\* upsert_session_memory_snapshot: the whole row, whoever wrote it last.
WriteRow(snapshot) == stored' = {snapshot}

\* store_snapshot: the row and then the copy, whatever either has become.
Store(w) ==
    LET o == writer[w].doing
        read == writer[w].read
    IN /\ writer[w] # Resting
       /\ IF Forgotten(read, o) THEN UNCHANGED <<stored, copy>>
          ELSE /\ WriteRow(Result(read, o))
               /\ copy' = [copy EXCEPT ![ServerOf[w]] = stored']
       /\ replay' = IF shared \/ crossed THEN << >> ELSE Result(replay, o)
       /\ writer' = [writer EXCEPT ![w] = Resting]
       /\ UNCHANGED <<made, shared, crossed, clears>>

\* list_snapshots: what the store has replaces the copy.
ListSnapshots(p) ==
    /\ stored # Absent
    /\ copy' = [copy EXCEPT ![p] = stored]
    /\ shared' = (shared \/ Elsewhere(p))
    /\ UNCHANGED <<stored, writer, replay, made, crossed, clears>>

RestartProcess(p) ==
    /\ copy' = [copy EXCEPT ![p] = Absent]
    /\ writer' = [w \in Writers |-> IF ServerOf[w] = p THEN Resting ELSE writer[w]]
    /\ UNCHANGED <<stored, replay, made, shared, crossed, clears>>

MemoryNext ==
    \/ \E w \in Writers :
          \/ \E g \in Goals : RecordCreated(w, g)
          \/ \E g \in Goals, task \in 1 .. MaxRevisions, status \in Endings :
                RecordOutcomeOf(w, g, task, status)
          \/ EnsureSession(w) \/ ClearSession(w) \/ Store(w)
    \/ \E p \in Servers : ListSnapshots(p) \/ RestartProcess(p)

MemorySpec == MemoryInit /\ [][MemoryNext]_memoryVars

-----------------------------------------------------------------------------
\* While one process at a time holds the session and its operations do not overlap,
\* the row is what the operations make one after the other: neither a restart nor a
\* process that takes over from another loses an attempt or an outcome.
NothingForgotten ==
    ~shared /\ ~crossed => stored = {replay} \/ (stored = Absent /\ replay = << >>)

=============================================================================
