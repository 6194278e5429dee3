-------------------------- MODULE CollaborationProofs --------------------------
(***************************************************************************)
(* What is proved of the people and agents around a task: the iterations,  *)
(* turns and runs of a video thread (VideoThread), and the review of a     *)
(* root task by its owner, its collaborators and the engine                *)
(* (ReviewWorkflow).  Each theorem rests on an inductive invariant stated  *)
(* over the rows, one request at a time.                                   *)
(***************************************************************************)
EXTENDS VideoThread, ReviewWorkflow, FiniteSetTheorems, WellFoundedInduction, NaturalsInduction, TLAPS


-----------------------------------------------------------------------------
(* A video thread.  The results only grow in number and in flags, so that    *)
(* what a request has read of them stays true until it writes it, although   *)
(* the rows it writes may have changed meanwhile.                            *)

FlaggedResult(k, res) == k = 0 \/ (k \in 1 .. Len(res) /\ res[k].flagged)
ResultOf(k, i, res) == k = 0 \/ (k \in 1 .. Len(res) /\ res[k].of = i)

IterationSound(row, i, res) ==
  /\ row = [parent |-> row.parent, source |-> row.source, selected |-> row.selected,
            responsible |-> row.responsible, task |-> row.task]
  /\ row.parent \in 0 .. i - 1
  /\ ResultOf(row.source, row.parent, res)
  /\ ResultOf(row.selected, i, res) /\ FlaggedResult(row.selected, res)

ResultShape(row) == row = [of |-> row.of, flagged |-> row.flagged]

RowSound(row, res) ==
  row = [current |-> row.current, selected |-> row.selected] /\ FlaggedResult(row.selected, res)

ClientSound(self, count, res) ==
  /\ self.at = "iterate" =>
       /\ self.parent \in 0 .. count /\ ResultOf(self.source, self.parent, res)
       /\ RowSound(self.row, res)
  /\ self.at \in {"assign", "point"} =>
       /\ self = [at |-> self.at, row |-> self.row, target |-> self.target, new |-> self.new]
       /\ RowSound(self.row, res)
  /\ self.at \in {"flag", "show", "keep"} =>
       /\ self = [at |-> self.at, row |-> self.row, choice |-> self.choice]
       /\ self.choice \in 1 .. Len(res)
  /\ self.at \in {"show", "keep"} => res[self.choice].flagged

ThreadInv ==
  /\ \E S : iterations \in Seq(S)
  /\ \E S : results \in Seq(S)
  /\ \A i \in 1 .. Len(iterations) : IterationSound(iterations[i], i, results)
  /\ \A r \in 1 .. Len(results) : ResultShape(results[r])
  /\ \A t \in thread : RowSound(t, results)
  /\ client = [c \in Clients |-> client[c]]
  /\ \A c \in Clients : /\ ClientSound(client[c], Len(iterations), results)
                        /\ client[c].at = "join" => thread # {}

\* No result is taken away, moves to another iteration or loses its flag.
Grown(res, more) ==
  /\ Len(res) \in Nat /\ Len(more) \in Nat /\ Len(res) <= Len(more)
  /\ \A k \in 1 .. Len(res) : more[k].of = res[k].of /\ (res[k].flagged => more[k].flagged)

LEMMA LongerRows ==
  ASSUME NEW S, NEW s \in Seq(S), NEW x
  PROVE  /\ Append(s, x) \in Seq(S \cup {x})
         /\ Len(Append(s, x)) = Len(s) + 1
         /\ \A i \in 1 .. Len(s) : Append(s, x)[i] = s[i]
         /\ Append(s, x)[Len(s) + 1] = x
OBVIOUS

LEMMA ChangedRows ==
  ASSUME NEW S, NEW s \in Seq(S), NEW id \in 1 .. Len(s), NEW x
  PROVE  /\ [s EXCEPT ![id] = x] \in Seq(S \cup {x})
         /\ Len([s EXCEPT ![id] = x]) = Len(s)
         /\ \A i \in 1 .. Len(s) : [s EXCEPT ![id] = x][i] = IF i = id THEN x ELSE s[i]
OBVIOUS

LEMMA LeastNumber ==
  ASSUME NEW found \in SUBSET Nat, found # {}
  PROVE  \E k \in found : \A l \in found : k <= l
<1>1. PICK k \in found : \A l \in found : <<l, k>> \notin OpToRel(<, Nat)
  BY NatLessThanWellFounded, WFMin
<1>2. \A l \in found : ~ (l < k)
  BY <1>1 DEF OpToRel
<1>3. QED
  BY <1>2

\* The choice of the first entry ...
LEMMA FirstIsOne ==
  ASSUME NEW none, NEW a, NEW b, NEW c
  PROVE  FirstBut(none, <<a, b, c>>) \in {none, a, b, c}
<1> DEFINE s == <<a, b, c>>
           found == {k \in DOMAIN s : s[k] # none}
<1>1. DOMAIN s = 1 .. 3 /\ s[1] = a /\ s[2] = b /\ s[3] = c
  OBVIOUS
<1>2. CASE found = {}
  BY <1>2 DEF FirstBut
<1>3. CASE found # {}
  <2> DEFINE first == CHOOSE k \in found : \A l \in found : k <= l
  <2>1. found \in SUBSET Nat /\ found \subseteq 1 .. 3
    BY <1>1
  <2>2. \E k \in found : \A l \in found : k <= l
    <3> HIDE DEF found
    <3>1. QED
      BY <1>3, <2>1, LeastNumber
  <2>3. first \in found
    <3> HIDE DEF found
    <3>1. QED
      BY <2>2
  <2>4. FirstBut(none, s) = s[first]
    BY <1>3 DEF FirstBut
  <2> HIDE DEF first
  <2>5. first \in {1, 2, 3}
    BY <2>1, <2>3
  <2>6. s[first] \in {a, b, c}
    BY <1>1, <2>5
  <2>7. QED
    BY <2>4, <2>6
<1>4. QED
  BY <1>2, <1>3

\* ... and of the last row.
LEMMA LastIsFound ==
  ASSUME NEW n \in Nat, NEW found \in SUBSET (1 .. n)
  PROVE  (LastOf(found) = 0 /\ found = {}) \/ LastOf(found) \in found
<1>1. CASE found = {}
  BY <1>1 DEF LastOf
<1>2. CASE found # {}
  <2> DEFINE rest == {n - k : k \in found}
  <2>1. \A k \in found : k \in Nat /\ n - k \in Nat /\ n - k \in rest
    OBVIOUS
  <2>2. rest \in SUBSET Nat /\ rest # {}
    <3>1. \A m \in rest : m \in Nat
      BY <2>1
    <3>2. QED
      BY <1>2, <3>1
  <2>3. PICK m \in rest : \A l \in rest : m <= l
    <3> HIDE DEF rest
    <3>1. QED
      BY <2>2, LeastNumber
  <2>4. PICK k \in found : m = n - k
    BY <2>3
  <2>5. \A l \in found : l <= k
    <3> SUFFICES ASSUME NEW l \in found PROVE l <= k
      OBVIOUS
    <3>1. m <= n - l /\ l \in Nat /\ k \in Nat
      BY <2>1, <2>3
    <3>2. QED
      BY <2>4, <3>1
  <2>6. QED
    BY <1>2, <2>5 DEF LastOf
<1>3. QED
  BY <1>1, <1>2

\* A revision starts from a result of the iteration it revises.
LEMMA TargetIsOwn ==
  ASSUME ThreadInv, NEW i \in 1 .. Len(iterations)
  PROVE  ResultOf(TargetResult(i), i, results)
<1>1. Len(results) \in Nat /\ DOMAIN results = 1 .. Len(results)
  BY DEF ThreadInv
<1>2. ResultOf(FlaggedIn(i), i, results)
  <2> DEFINE found == {k \in DOMAIN results : results[k].of = i /\ results[k].flagged}
  <2>1. LastOf(found) = 0 \/ LastOf(found) \in found
    BY <1>1, LastIsFound
  <2>2. QED
    BY <1>1, <2>1 DEF FlaggedIn, ResultOf
<1>3. ResultOf(NewestIn(i), i, results)
  <2> DEFINE found == {k \in DOMAIN results : results[k].of = i}
  <2>1. LastOf(found) = 0 \/ LastOf(found) \in found
    BY <1>1, LastIsFound
  <2>2. QED
    BY <1>1, <2>1 DEF NewestIn, ResultOf
<1>4. ResultOf(iterations[i].selected, i, results)
  BY DEF ThreadInv, IterationSound
<1>5. TargetResult(i) \in {0, iterations[i].selected, FlaggedIn(i), NewestIn(i)}
  BY FirstIsOne DEF TargetResult, FirstFound
<1>6. QED
  BY <1>2, <1>3, <1>4, <1>5 DEF ResultOf

LEMMA SoundnessLasts ==
  ASSUME NEW res, NEW more, Grown(res, more)
  PROVE  /\ \A row, i : IterationSound(row, i, res) => IterationSound(row, i, more)
         /\ \A row : RowSound(row, res) => RowSound(row, more)
         /\ \A self, n, m : /\ ClientSound(self, n, res)
                            /\ n \in Nat /\ m \in Nat /\ n <= m
                            => ClientSound(self, m, more)
<1>1. \A k : FlaggedResult(k, res) => FlaggedResult(k, more)
  BY DEF FlaggedResult, Grown
<1>2. \A k, i : ResultOf(k, i, res) => ResultOf(k, i, more)
  BY DEF ResultOf, Grown
<1>3. \A row : RowSound(row, res) => RowSound(row, more)
  BY <1>1 DEF RowSound
<1>4. \A row, i : IterationSound(row, i, res) => IterationSound(row, i, more)
  BY <1>1, <1>2 DEF IterationSound
<1>5. ASSUME NEW self, NEW n \in Nat, NEW m \in Nat, n <= m, ClientSound(self, n, res)
      PROVE  ClientSound(self, m, more)
  <2>1. self.at = "iterate" => /\ self.parent \in 0 .. m
                               /\ ResultOf(self.source, self.parent, more)
                               /\ RowSound(self.row, more)
    BY <1>2, <1>3, <1>5 DEF ClientSound
  <2>2. self.at \in {"flag", "show", "keep"} => self.choice \in 1 .. Len(more)
    BY <1>5 DEF ClientSound, Grown
  <2>3. self.at \in {"show", "keep"} => more[self.choice].flagged
    BY <1>5 DEF ClientSound, Grown
  <2>4. QED
    BY <1>3, <1>5, <2>1, <2>2, <2>3 DEF ClientSound
<1>6. QED
  BY <1>3, <1>4, <1>5

LEMMA InitThread == ThreadInit => ThreadInv
<1> SUFFICES ASSUME ThreadInit PROVE ThreadInv
  OBVIOUS
<1>1. << >> \in Seq({}) /\ Len(<< >>) = 0
  OBVIOUS
<1>2. \A c \in Clients : client[c] = Away
  BY DEF ThreadInit
<1>3. client = [c \in Clients |-> client[c]]
  BY DEF ThreadInit
<1>4. Away.at = "away"
  BY DEF Away
<1>5. \A c \in Clients : ClientSound(client[c], 0, << >>) /\ client[c].at # "join"
  BY <1>2, <1>4 DEF ClientSound
<1>6. QED
  BY <1>1, <1>3, <1>5 DEF ThreadInit, ThreadInv

LEMMA StepKeeps ==
  ASSUME ThreadInv,
         \E S : iterations' \in Seq(S), \E S : results' \in Seq(S),
         Grown(results, results'), Len(iterations) <= Len(iterations'),
         \A r \in 1 .. Len(results') : ResultShape(results'[r]),
         \A i \in 1 .. Len(iterations') : IterationSound(iterations'[i], i, results'),
         \A t \in thread' : RowSound(t, results'),
         thread # {} => thread' # {},
         client' = [c \in Clients |-> client'[c]],
         \A c \in Clients :
            \/ client'[c] = client[c]
            \/ /\ ClientSound(client'[c], Len(iterations'), results')
               /\ client'[c].at = "join" => thread' # {}
  PROVE  ThreadInv'
<1>1. Len(iterations) \in Nat /\ Len(iterations') \in Nat
  BY DEF ThreadInv
<1>2. ASSUME NEW c \in Clients
      PROVE  /\ ClientSound(client'[c], Len(iterations'), results')
             /\ client'[c].at = "join" => thread' # {}
  <2>1. ClientSound(client[c], Len(iterations), results) /\ (client[c].at = "join" => thread # {})
    BY DEF ThreadInv
  <2>2. CASE client'[c] = client[c]
    BY <1>1, <2>1, <2>2, SoundnessLasts
  <2>3. CASE client'[c] # client[c]
    BY <2>3
  <2>4. QED
    BY <2>2, <2>3
<1>3. QED
  BY <1>2 DEF ThreadInv

\* The rows stay, and one request goes on.
LEMMA GoKeeps ==
  ASSUME ThreadInv, NEW c \in Clients, NEW state, client' = [client EXCEPT ![c] = state],
         UNCHANGED <<thread, iterations, results>>,
         ClientSound(state, Len(iterations), results), state.at # "join"
  PROVE  ThreadInv'
<1>1. Grown(results, results') /\ Len(iterations) <= Len(iterations')
  BY DEF Grown, ThreadInv
<1>2. /\ \A d \in Clients : client'[d] = IF d = c THEN state ELSE client[d]
      /\ client' = [d \in Clients |-> client'[d]]
  BY DEF ThreadInv
<1>3. QED
  BY <1>1, <1>2, StepKeeps DEF ThreadInv

LEMMA AwayKeeps ==
  ASSUME ThreadInv, NEW c \in Clients, Goes(c, Away), UNCHANGED <<thread, iterations, results>>
  PROVE  ThreadInv'
<1>1. Away.at = "away"
  BY DEF Away
<1>2. ClientSound(Away, Len(iterations), results)
  BY <1>1 DEF ClientSound
<1>3. QED
  BY <1>1, <1>2, GoKeeps DEF Goes

LEMMA TheThreadIsSound ==
  ASSUME ThreadInv, thread # {} PROVE RowSound(TheThread, results)
BY DEF ThreadInv, TheThread

LEMMA MakeThreadKeeps ==
  ASSUME ThreadInv, NEW c \in Clients, MakeThread(c) PROVE ThreadInv'
<1> DEFINE state == [at |-> "join"]
           row == [current |-> 0, selected |-> 0]
<1>1. /\ thread' = {row} /\ client' = [client EXCEPT ![c] = state]
      /\ UNCHANGED <<iterations, results>>
  BY DEF MakeThread, Goes
<1>2. ClientSound(state, Len(iterations), results)
  BY DEF ClientSound
<1>3. RowSound(row, results)
  BY DEF RowSound, FlaggedResult
<1> HIDE DEF state, row
<1>4. /\ \A d \in Clients : client'[d] = IF d = c THEN state ELSE client[d]
      /\ client' = [d \in Clients |-> client'[d]]
  BY <1>1 DEF ThreadInv
<1>5. Grown(results, results') /\ Len(iterations) <= Len(iterations')
  BY <1>1 DEF Grown, ThreadInv
<1>6. QED
  BY <1>1, <1>2, <1>3, <1>4, <1>5, StepKeeps DEF ThreadInv

LEMMA JoinOwnerKeeps ==
  ASSUME ThreadInv, NEW c \in Clients, JoinOwner(c) PROVE ThreadInv'
<1> DEFINE state == [at |-> "iterate", row |-> TheThread, parent |-> 0, source |-> 0,
                     target |-> Nobody]
<1>1. /\ client' = [client EXCEPT ![c] = state] /\ client[c].at = "join"
      /\ UNCHANGED <<thread, iterations, results>>
  BY DEF JoinOwner, Goes, Stands
<1>2. RowSound(TheThread, results)
  BY <1>1, TheThreadIsSound DEF ThreadInv
<1>3. /\ state.at = "iterate" /\ state.row = TheThread /\ state.parent = 0 /\ state.source = 0
  OBVIOUS
<1> HIDE DEF state
<1>4. Len(iterations) \in Nat
  BY DEF ThreadInv
<1>5. ClientSound(state, Len(iterations), results)
  BY <1>2, <1>3, <1>4 DEF ClientSound, ResultOf
<1>6. QED
  BY <1>1, <1>3, <1>5, GoKeeps

LEMMA ReviseKeeps ==
  ASSUME ThreadInv, NEW c \in Clients, NEW i \in DOMAIN iterations, NEW named, Revise(c, i, named)
  PROVE  ThreadInv'
<1> DEFINE state == [at |-> "iterate", row |-> TheThread, parent |-> i, source |-> TargetResult(i),
                     target |-> Continuity(i)]
<1>1. /\ client' = [client EXCEPT ![c] = state] /\ thread # {}
      /\ UNCHANGED <<thread, iterations, results>>
  BY DEF Revise, Goes
<1>2. RowSound(TheThread, results)
  BY <1>1, TheThreadIsSound
<1>3. /\ state.at = "iterate" /\ state.row = TheThread /\ state.parent = i
      /\ state.source = TargetResult(i)
  OBVIOUS
<1> HIDE DEF state
<1>4. i \in 1 .. Len(iterations) /\ Len(iterations) \in Nat
  BY DEF ThreadInv
<1>5. ResultOf(TargetResult(i), i, results)
  BY <1>4, TargetIsOwn
<1>6. ClientSound(state, Len(iterations), results)
  BY <1>2, <1>3, <1>4, <1>5 DEF ClientSound
<1>7. QED
  BY <1>1, <1>3, <1>6, GoKeeps

LEMMA MakeIterationKeeps ==
  ASSUME ThreadInv, NEW c \in Clients, MakeIteration(c) PROVE ThreadInv'
<1> DEFINE self == client[c]
           n == Len(iterations)
           row == [parent |-> self.parent, source |-> self.source, selected |-> 0,
                   responsible |-> Nobody, task |-> FALSE]
           state == [at |-> "assign", row |-> self.row, target |-> self.target, new |-> n + 1]
<1>1. self.at = "iterate" /\ ClientSound(self, n, results) /\ n \in Nat
  BY DEF MakeIteration, Stands, ThreadInv
<1>2. PICK S : iterations \in Seq(S)
  BY DEF ThreadInv
<1>3. /\ iterations' = Append(iterations, row) /\ UNCHANGED <<thread, results>>
      /\ client' = [client EXCEPT ![c] = [at |-> "assign", row |-> self.row,
                                          target |-> self.target, new |-> Len(iterations')]]
  BY DEF MakeIteration, Goes
<1>4. /\ row.parent = self.parent /\ row.source = self.source /\ row.selected = 0
      /\ row = [parent |-> row.parent, source |-> row.source, selected |-> row.selected,
                responsible |-> row.responsible, task |-> row.task]
  OBVIOUS
<1>5. self.parent \in 0 .. n /\ ResultOf(self.source, self.parent, results)
      /\ RowSound(self.row, results)
  BY <1>1 DEF ClientSound
<1> HIDE DEF row
<1>6. /\ iterations' \in Seq(S \cup {row}) /\ Len(iterations') = n + 1
      /\ \A i \in 1 .. n : iterations'[i] = iterations[i]
      /\ iterations'[n + 1] = row
  BY <1>2, <1>3, LongerRows
<1>7. client' = [client EXCEPT ![c] = state]
  BY <1>3, <1>6
<1>8. /\ state.at = "assign" /\ state.row = self.row
      /\ state = [at |-> state.at, row |-> state.row, target |-> state.target, new |-> state.new]
  OBVIOUS
<1> HIDE DEF state, self, n
<1>9. ClientSound(state, n + 1, results)
  BY <1>5, <1>8 DEF ClientSound
<1>10. IterationSound(row, n + 1, results)
  BY <1>1, <1>4, <1>5 DEF IterationSound, ResultOf, FlaggedResult
<1>11. \A i \in 1 .. n + 1 : IterationSound(iterations'[i], i, results)
  <2>1. \A i \in 1 .. n + 1 : i \in 1 .. n \/ i = n + 1
    BY <1>1
  <2>2. QED
    BY <1>6, <1>10, <2>1 DEF ThreadInv, n
<1>12. /\ \A d \in Clients : client'[d] = IF d = c THEN state ELSE client[d]
       /\ client' = [d \in Clients |-> client'[d]]
  BY <1>7 DEF ThreadInv
<1>13. Grown(results, results') /\ Len(iterations) <= Len(iterations')
  BY <1>1, <1>3, <1>6 DEF Grown, ThreadInv, n
<1>14. QED
  BY <1>3, <1>6, <1>8, <1>9, <1>11, <1>12, <1>13, StepKeeps DEF ThreadInv

\* One iteration is changed in another field than its parent and its source.
LEMMA IterationKeeps ==
  ASSUME ThreadInv, NEW k, NEW row, NEW c \in Clients, NEW state,
         iterations' = [iterations EXCEPT ![k] = row], UNCHANGED <<thread, results>>,
         client' = [client EXCEPT ![c] = state],
         k \in 1 .. Len(iterations) => IterationSound(row, k, results),
         ClientSound(state, Len(iterations), results), state.at # "join"
  PROVE  ThreadInv'
<1>1. PICK S : iterations \in Seq(S)
  BY DEF ThreadInv
<1>2. /\ iterations' \in Seq(S \cup {row}) /\ Len(iterations') = Len(iterations)
      /\ \A i \in 1 .. Len(iterations) : iterations'[i] = IF i = k THEN row ELSE iterations[i]
  <2>1. CASE k \in 1 .. Len(iterations)
    BY <1>1, <2>1, ChangedRows
  <2>2. CASE k \notin 1 .. Len(iterations)
    <3>1. iterations' = iterations
      BY <1>1, <2>2
    <3>2. iterations \in Seq(S \cup {row})
      BY <1>1
    <3>3. QED
      BY <2>2, <3>1, <3>2
  <2>3. QED
    BY <2>1, <2>2
<1>3. \A i \in 1 .. Len(iterations') : IterationSound(iterations'[i], i, results')
  BY <1>2 DEF ThreadInv
<1>4. /\ \A d \in Clients : client'[d] = IF d = c THEN state ELSE client[d]
      /\ client' = [d \in Clients |-> client'[d]]
  BY DEF ThreadInv
<1>5. Grown(results, results') /\ Len(iterations) <= Len(iterations')
  BY <1>2 DEF Grown, ThreadInv
<1>6. QED
  BY <1>2, <1>3, <1>4, <1>5, StepKeeps DEF ThreadInv

LEMMA AssignKeeps ==
  ASSUME ThreadInv, NEW c \in Clients, AssignResponsibility(c) PROVE ThreadInv'
<1> DEFINE self == client[c]
           k == self.new
           row == [iterations[k] EXCEPT !.responsible = self.target]
           state == [self EXCEPT !.at = "point"]
<1>1. self.at = "assign" /\ ClientSound(self, Len(iterations), results)
  BY DEF AssignResponsibility, Stands, ThreadInv
<1>2. self = [at |-> self.at, row |-> self.row, target |-> self.target, new |-> self.new]
      /\ RowSound(self.row, results)
  BY <1>1 DEF ClientSound
<1>3. /\ iterations' = [iterations EXCEPT ![k] = row] /\ UNCHANGED <<thread, results>>
      /\ client' = [client EXCEPT ![c] = state]
  BY DEF AssignResponsibility, Goes, ThreadInv
<1>4. k \in 1 .. Len(iterations) => IterationSound(row, k, results)
  <2> SUFFICES ASSUME k \in 1 .. Len(iterations) PROVE IterationSound(row, k, results)
    OBVIOUS
  <2>1. IterationSound(iterations[k], k, results)
    BY DEF ThreadInv
  <2>2. /\ row.parent = iterations[k].parent /\ row.source = iterations[k].source
        /\ row.selected = iterations[k].selected
        /\ row = [parent |-> row.parent, source |-> row.source, selected |-> row.selected,
                  responsible |-> row.responsible, task |-> row.task]
    BY <2>1 DEF IterationSound
  <2> HIDE DEF row, k
  <2>3. QED
    BY <2>1, <2>2 DEF IterationSound
<1>5. /\ state.at = "point" /\ state.row = self.row
      /\ state = [at |-> state.at, row |-> state.row, target |-> state.target, new |-> state.new]
  BY <1>2
<1> HIDE DEF state, row
<1>6. ClientSound(state, Len(iterations), results)
  BY <1>2, <1>5 DEF ClientSound
<1>7. QED
  BY <1>3, <1>4, <1>5, <1>6, IterationKeeps

\* The row of the thread goes back with the selection that was read.
LEMMA PointThreadKeeps ==
  ASSUME ThreadInv, NEW c \in Clients, PointThread(c) PROVE ThreadInv'
<1> DEFINE self == client[c]
           row == [self.row EXCEPT !.current = self.new]
           state == [at |-> "turn", new |-> self.new, target |-> self.target]
<1>1. self.at = "point" /\ ClientSound(self, Len(iterations), results)
  BY DEF PointThread, Stands, ThreadInv
<1>2. RowSound(self.row, results)
  BY <1>1 DEF ClientSound
<1>3. /\ thread' = {row} /\ client' = [client EXCEPT ![c] = state]
      /\ UNCHANGED <<iterations, results>>
  BY DEF PointThread, Goes
<1>4. /\ row.selected = self.row.selected
      /\ row = [current |-> row.current, selected |-> row.selected]
  BY <1>2 DEF RowSound
<1>5. state.at = "turn"
  OBVIOUS
<1> HIDE DEF state, row
<1>6. RowSound(row, results) /\ ClientSound(state, Len(iterations), results)
  BY <1>2, <1>4, <1>5 DEF RowSound, ClientSound
<1>7. /\ \A d \in Clients : client'[d] = IF d = c THEN state ELSE client[d]
      /\ client' = [d \in Clients |-> client'[d]]
  BY <1>3 DEF ThreadInv
<1>8. Grown(results, results') /\ Len(iterations) <= Len(iterations')
  BY <1>3 DEF Grown, ThreadInv
<1>9. QED
  BY <1>3, <1>6, <1>7, <1>8, StepKeeps DEF ThreadInv

\* What is left of a request needs nothing but its iteration.
LEMMA TurnsKeep ==
  ASSUME ThreadInv, NEW c \in Clients, NEW state, Goes(c, state),
         UNCHANGED <<thread, iterations, results>>,
         state.at \in {"task", "answer", "welcome"}
  PROVE  ThreadInv'
<1>1. ClientSound(state, Len(iterations), results)
  BY DEF ClientSound
<1>2. QED
  BY <1>1, GoKeeps DEF Goes

LEMMA MakeTaskKeeps ==
  ASSUME ThreadInv, NEW c \in Clients, MakeTask(c) PROVE ThreadInv'
<1> DEFINE k == client[c].new
<1>1. PICK accepted \in BOOLEAN :
        iterations' = [iterations EXCEPT ![k] = [iterations[k] EXCEPT !.task = accepted]]
  BY DEF MakeTask, ThreadInv
<1> DEFINE row == [iterations[k] EXCEPT !.task = accepted]
<1>2. client' = [client EXCEPT ![c] = Away] /\ UNCHANGED <<thread, results>> /\ Away.at = "away"
  BY DEF MakeTask, Goes, Away
<1>3. k \in 1 .. Len(iterations) => IterationSound(row, k, results)
  <2> SUFFICES ASSUME k \in 1 .. Len(iterations) PROVE IterationSound(row, k, results)
    OBVIOUS
  <2>1. IterationSound(iterations[k], k, results)
    BY DEF ThreadInv
  <2>2. /\ row.parent = iterations[k].parent /\ row.source = iterations[k].source
        /\ row.selected = iterations[k].selected
        /\ row = [parent |-> row.parent, source |-> row.source, selected |-> row.selected,
                  responsible |-> row.responsible, task |-> row.task]
    BY <2>1 DEF IterationSound
  <2> HIDE DEF row, k
  <2>3. QED
    BY <2>1, <2>2 DEF IterationSound
<1>4. ClientSound(Away, Len(iterations), results)
  BY <1>2 DEF ClientSound
<1> HIDE DEF row, k
<1>5. QED
  BY <1>1, <1>2, <1>3, <1>4, IterationKeeps DEF row

LEMMA SelectKeeps ==
  ASSUME ThreadInv, NEW c \in Clients, NEW r \in DOMAIN results, Select(c, r) PROVE ThreadInv'
<1> DEFINE state == [at |-> "flag", row |-> TheThread, choice |-> r]
<1>1. client' = [client EXCEPT ![c] = state] /\ UNCHANGED <<thread, iterations, results>>
  BY DEF Select, Goes
<1>2. r \in 1 .. Len(results)
  BY DEF ThreadInv
<1>3. /\ state.at = "flag" /\ state.choice = r
      /\ state = [at |-> state.at, row |-> state.row, choice |-> state.choice]
  OBVIOUS
<1> HIDE DEF state
<1>4. ClientSound(state, Len(iterations), results)
  BY <1>2, <1>3 DEF ClientSound
<1>5. QED
  BY <1>1, <1>3, <1>4, GoKeeps

LEMMA FlagKeeps ==
  ASSUME ThreadInv, NEW c \in Clients, Flag(c) PROVE ThreadInv'
<1> DEFINE self == client[c]
           k == self.choice
           state == [self EXCEPT !.at = "show"]
<1>1. self.at = "flag" /\ ClientSound(self, Len(iterations), results)
  BY DEF Flag, Stands, ThreadInv
<1>2. /\ self = [at |-> self.at, row |-> self.row, choice |-> self.choice]
      /\ k \in 1 .. Len(results)
  BY <1>1 DEF ClientSound
<1>3. PICK S : results \in Seq(S)
  BY DEF ThreadInv
<1>4. PICK yes : yes = TRUE /\ results' = [results EXCEPT ![k] = [results[k] EXCEPT !.flagged = yes]]
  BY <1>3 DEF Flag
<1> DEFINE row == [results[k] EXCEPT !.flagged = yes]
<1>5. /\ results' = [results EXCEPT ![k] = row] /\ UNCHANGED <<thread, iterations>>
      /\ client' = [client EXCEPT ![c] = state]
  BY <1>4 DEF Flag, Goes
<1>6. row.flagged /\ row.of = results[k].of /\ ResultShape(row)
  <2>1. results[k] = [of |-> results[k].of, flagged |-> results[k].flagged]
    BY <1>2 DEF ThreadInv, ResultShape
  <2>2. row.flagged = yes /\ row.of = results[k].of
        /\ row = [of |-> row.of, flagged |-> row.flagged]
    <3> HIDE DEF k, self
    <3>1. QED
      BY <2>1
  <2>3. QED
    BY <1>4, <2>2 DEF ResultShape
<1>7. /\ state.at = "show" /\ state.choice = k
      /\ state = [at |-> state.at, row |-> state.row, choice |-> state.choice]
  BY <1>2
<1> HIDE DEF state, row, k, self
<1>8. /\ results' \in Seq(S \cup {row}) /\ Len(results') = Len(results) /\ Len(results) \in Nat
      /\ \A i \in 1 .. Len(results) : results'[i] = IF i = k THEN row ELSE results[i]
  BY <1>2, <1>3, <1>5, ChangedRows
<1>9. Grown(results, results')
  BY <1>6, <1>8 DEF Grown
<1>10. ClientSound(state, Len(iterations), results')
  BY <1>2, <1>6, <1>7, <1>8 DEF ClientSound
<1>11. /\ \A i \in 1 .. Len(iterations) : IterationSound(iterations[i], i, results')
       /\ \A t \in thread : RowSound(t, results')
  BY <1>9, SoundnessLasts DEF ThreadInv
<1>12. \A r \in 1 .. Len(results') : ResultShape(results'[r])
  BY <1>6, <1>8 DEF ThreadInv
<1>13. /\ \A d \in Clients : client'[d] = IF d = c THEN state ELSE client[d]
       /\ client' = [d \in Clients |-> client'[d]]
  BY <1>5 DEF ThreadInv
<1>14. Len(iterations) <= Len(iterations)
  BY DEF ThreadInv
<1>15. QED
  BY <1>5, <1>7, <1>8, <1>9, <1>10, <1>11, <1>12, <1>13, <1>14, StepKeeps DEF ThreadInv

LEMMA ShowKeeps ==
  ASSUME ThreadInv, NEW c \in Clients, Show(c) PROVE ThreadInv'
<1> DEFINE self == client[c]
           row == [current |-> results[self.choice].of, selected |-> self.choice]
           state == [self EXCEPT !.at = "keep"]
<1>1. self.at = "show" /\ ClientSound(self, Len(iterations), results)
  BY DEF Show, Stands, ThreadInv
<1>2. /\ self = [at |-> self.at, row |-> self.row, choice |-> self.choice]
      /\ self.choice \in 1 .. Len(results) /\ results[self.choice].flagged
  BY <1>1 DEF ClientSound
<1>3. /\ thread' = {row} /\ client' = [client EXCEPT ![c] = state]
      /\ UNCHANGED <<iterations, results>>
  BY DEF Show, Goes
<1>4. /\ state.at = "keep" /\ state.choice = self.choice
      /\ state = [at |-> state.at, row |-> state.row, choice |-> state.choice]
  BY <1>2
<1>5. row.selected = self.choice /\ row = [current |-> row.current, selected |-> row.selected]
  OBVIOUS
<1> HIDE DEF state, row, self
<1>6. RowSound(row, results) /\ ClientSound(state, Len(iterations), results)
  BY <1>2, <1>4, <1>5 DEF RowSound, ClientSound, FlaggedResult
<1>7. /\ \A d \in Clients : client'[d] = IF d = c THEN state ELSE client[d]
      /\ client' = [d \in Clients |-> client'[d]]
  BY <1>3 DEF ThreadInv
<1>8. Grown(results, results') /\ Len(iterations) <= Len(iterations')
  BY <1>3 DEF Grown, ThreadInv
<1>9. QED
  BY <1>3, <1>4, <1>6, <1>7, <1>8, StepKeeps DEF ThreadInv

\* The choice goes to the iteration the result belongs to.
LEMMA KeepChoiceKeeps ==
  ASSUME ThreadInv, NEW c \in Clients, KeepChoice(c) PROVE ThreadInv'
<1> DEFINE self == client[c]
           k == results[self.choice].of
           row == [iterations[k] EXCEPT !.selected = self.choice]
<1>1. self.at = "keep" /\ ClientSound(self, Len(iterations), results)
  BY DEF KeepChoice, Stands, ThreadInv
<1>2. self.choice \in 1 .. Len(results) /\ results[self.choice].flagged
  BY <1>1 DEF ClientSound
<1>3. /\ iterations' = [iterations EXCEPT ![k] = row] /\ UNCHANGED <<thread, results>>
      /\ client' = [client EXCEPT ![c] = Away] /\ Away.at = "away"
  BY DEF KeepChoice, Goes, ThreadInv, Away
<1>4. k \in 1 .. Len(iterations) => IterationSound(row, k, results)
  <2> SUFFICES ASSUME k \in 1 .. Len(iterations) PROVE IterationSound(row, k, results)
    OBVIOUS
  <2>1. IterationSound(iterations[k], k, results)
    BY DEF ThreadInv
  <2> HIDE DEF k, self
  <2>2. /\ row.parent = iterations[k].parent /\ row.source = iterations[k].source
        /\ row.selected = self.choice
        /\ row = [parent |-> row.parent, source |-> row.source, selected |-> row.selected,
                  responsible |-> row.responsible, task |-> row.task]
    BY <2>1 DEF IterationSound
  <2>3. ResultOf(self.choice, k, results) /\ FlaggedResult(self.choice, results)
    BY <1>2 DEF ResultOf, FlaggedResult, k
  <2> HIDE DEF row
  <2>4. QED
    BY <2>1, <2>2, <2>3 DEF IterationSound
<1>5. ClientSound(Away, Len(iterations), results)
  BY <1>3 DEF ClientSound
<1> HIDE DEF row
<1>6. QED
  BY <1>3, <1>4, <1>5, IterationKeeps

LEMMA RegisterResultKeeps ==
  ASSUME ThreadInv, NEW i, RegisterResult(i) PROVE ThreadInv'
<1> DEFINE row == [of |-> i, flagged |-> FALSE]
<1>1. PICK S : results \in Seq(S)
  BY DEF ThreadInv
<1>2. results' = Append(results, row) /\ UNCHANGED <<thread, iterations, client>>
      /\ ResultShape(row)
  BY DEF RegisterResult, ResultShape
<1> HIDE DEF row
<1>3. /\ results' \in Seq(S \cup {row}) /\ Len(results') = Len(results) + 1
      /\ \A k \in 1 .. Len(results) : results'[k] = results[k]
      /\ results'[Len(results) + 1] = row /\ Len(results) \in Nat
  BY <1>1, <1>2, LongerRows
<1>4. Grown(results, results')
  BY <1>3 DEF Grown
<1>5. /\ \A j \in 1 .. Len(iterations) : IterationSound(iterations[j], j, results')
      /\ \A t \in thread : RowSound(t, results')
  BY <1>4, SoundnessLasts DEF ThreadInv
<1>6. \A r \in 1 .. Len(results') : ResultShape(results'[r])
  <2>1. \A r \in 1 .. Len(results') : r \in 1 .. Len(results) \/ r = Len(results) + 1
    BY <1>3
  <2>2. QED
    BY <1>2, <1>3, <2>1 DEF ThreadInv
<1>7. Len(iterations) <= Len(iterations)
  BY DEF ThreadInv
<1>8. QED
  BY <1>2, <1>3, <1>4, <1>5, <1>6, <1>7, StepKeeps DEF ThreadInv

\* The other steps leave the rows of the lineage and the requests alone.
LEMMA AsideKeeps ==
  ASSUME ThreadInv, UNCHANGED <<thread, iterations, results, client>> PROVE ThreadInv'
BY DEF ThreadInv

LEMMA ThreadStepsKeep ==
  ASSUME ThreadInv, ThreadSteps PROVE ThreadInv'
<1>1. ASSUME NEW c \in Authors, c \in Clients,
             \/ MakeThread(c) \/ JoinOwner(c) \/ MakeIteration(c) \/ AssignResponsibility(c)
             \/ PointThread(c) \/ MakeTask(c)
      PROVE  ThreadInv'
  BY <1>1, MakeThreadKeeps, JoinOwnerKeeps, MakeIterationKeeps, AssignKeeps, PointThreadKeeps,
     MakeTaskKeeps
<1>2. ASSUME NEW c \in Clients, OwnerTurn(c) PROVE ThreadInv'
  BY <1>2, TurnsKeep DEF OwnerTurn
<1>3. ASSUME NEW c \in Clients, AnswerTurn(c) PROVE ThreadInv'
  BY <1>3, TurnsKeep DEF AnswerTurn
<1>4. ASSUME NEW c \in Clients, WelcomeSpeaker(c) PROVE ThreadInv'
  BY <1>4, AwayKeeps DEF WelcomeSpeaker
<1>5. ASSUME NEW c \in Clients, NEW i, RequestExplanation(c, i) PROVE ThreadInv'
  <2>1. \E speaker : Goes(c, [at |-> "answer", new |-> i, target |-> speaker])
        /\ UNCHANGED <<thread, iterations, results>>
    BY <1>5 DEF RequestExplanation
  <2>2. QED
    BY <2>1, TurnsKeep
<1>6. ASSUME NEW i, \/ SyncRun(i) \/ \E to \in Someone : AppendTurn(i, to) PROVE ThreadInv'
  BY <1>6, AsideKeeps DEF SyncRun, AppendTurn
<1>7. ASSUME NEW p, UpsertParticipant(p) \/ RemoveParticipant(p) PROVE ThreadInv'
  BY <1>7, AsideKeeps DEF UpsertParticipant, RemoveParticipant
<1>8. Authors \subseteq Clients /\ Choosers \subseteq Clients
  BY DEF Clients
<1>9. QED
  BY <1>1, <1>2, <1>3, <1>4, <1>5, <1>6, <1>7, <1>8, ReviseKeeps, SelectKeeps, FlagKeeps,
     ShowKeeps, KeepChoiceKeeps, RegisterResultKeeps DEF ThreadSteps

LEMMA ThreadKeeps == ThreadInv /\ [ThreadNext]_threadVars => ThreadInv'
<1>1. ASSUME ThreadInv, NEW c \in Clients, LoseRequest(c) PROVE ThreadInv'
  BY <1>1, AwayKeeps DEF LoseRequest
<1>2. QED
  BY <1>1, ThreadStepsKeep, AsideKeeps DEF ThreadNext, threadVars

\* However selections, revisions and losses interleave, every choice is a flagged result,
\* an iteration chooses among its own, and a revision starts from a result of the iteration
\* it revises.
THEOREM LineageStaysSound == ThreadSpec => []LineageIsSound
<1>1. ThreadInv => LineageIsSound
  <2> SUFFICES ASSUME ThreadInv PROVE LineageIsSound
    OBVIOUS
  <2>1. DOMAIN iterations = 1 .. Len(iterations) /\ Len(iterations) \in Nat
    BY DEF ThreadInv
  <2>2. \A i \in 1 .. Len(iterations) : IterationSound(iterations[i], i, results)
    BY DEF ThreadInv
  <2>3. \A t \in thread : t.selected # 0 => results[t.selected].flagged
    BY DEF ThreadInv, RowSound, FlaggedResult
  <2>4. ASSUME NEW i \in 1 .. Len(iterations)
        PROVE  /\ iterations[i].selected # 0 => /\ results[iterations[i].selected].of = i
                                                /\ results[iterations[i].selected].flagged
               /\ iterations[i].parent < i
               /\ iterations[i].source # 0 =>
                    results[iterations[i].source].of = iterations[i].parent
    BY <2>1, <2>2 DEF IterationSound, ResultOf, FlaggedResult
  <2>5. QED
    BY <2>1, <2>3, <2>4 DEF LineageIsSound
<1>2. QED
  BY InitThread, ThreadKeeps, <1>1, PTL DEF ThreadSpec

-----------------------------------------------------------------------------
(* The review of a task.  Each request that may still make a child was       *)
(* decided on below the budget, so the children made and the requests that   *)
(* may make one exceed it by the number of reviewers at most; and as long as *)
(* nobody writes what has changed since it was read, what is written follows *)
(* the events.                                                               *)

Acting == {"decided", "update", "write"}
Creating == {"revise", "retry"}

MayCreate(self) == self.at \in Acting /\ self.action \in Creating
Pending(state) == {r \in Reviewers : MayCreate(state[r])}

RequestSound(self) ==
  /\ self.at \in {"away", "decided", "update", "write", "noted", "log"}
  /\ self.at \in {"decided", "update"} =>
       self = [at |-> self.at, action |-> self.action, todo |-> self.todo, seen |-> self.seen]
  /\ self.at = "write" => self.copy \in RootRow /\ self.todo # << >>
  /\ self.at \in Acting => self.todo \in Seq(Updates)
  /\ MayCreate(self) => self.seen \in Nat /\ self.seen < MaxChildren
  /\ self.at = "log" => self.copy \in CaseFile

EngineSound(self) ==
  /\ self.at \in {"idle", "run", "finished", "note", "done"}
  /\ self.at = "run" => self.copy \in RootRow
  /\ self.at = "note" => self.copy \in CaseFile

ReviewRows ==
  /\ root \in RootRow
  /\ children \in Nat /\ decided \in Nat /\ submissions \in 0 .. MaxDecisions
  /\ enabled \subseteq Memories /\ replayed \subseteq Memories
  /\ granted \in [Collaborators -> SUBSET {"read", "write"}]
  /\ casefile \in CaseFile
  /\ reviewer = [r \in Reviewers |-> reviewer[r]]
  /\ \A r \in Reviewers : RequestSound(reviewer[r])
  /\ EngineSound(engine)
  /\ stale \in BOOLEAN

BudgetKept ==
  /\ children + Cardinality(Pending(reviewer)) < MaxChildren + Cardinality(Reviewers)
  /\ ~stale => children <= MaxChildren

ReviewInv == ReviewRows /\ BudgetKept /\ NothingOverwritten

LEMMA ReviewBounds ==
  MaxChildren \in Nat /\ MaxAttempts \in Nat /\ MaxLog \in Nat /\ MaxDecisions \in Nat
BY ReviewAssumption

LEMMA NoRequestIsSound == RequestSound(NoRequest) /\ ~ MayCreate(NoRequest)
BY DEF NoRequest, RequestSound, MayCreate, Acting

LEMMA ReviewersAreFinite ==
  /\ IsFiniteSet(Reviewers) /\ Cardinality(Reviewers) \in Nat /\ Cardinality(Reviewers) > 0
  /\ \A state : /\ IsFiniteSet(Pending(state)) /\ Cardinality(Pending(state)) \in Nat
                /\ Cardinality(Pending(state)) <= Cardinality(Reviewers)
<1>1. IsFiniteSet(Reviewers)
  BY ReviewAssumption, FS_AddElement DEF Reviewers
<1>2. Reviewers # {}
  BY DEF Reviewers
<1>3. Cardinality(Reviewers) \in Nat /\ Cardinality(Reviewers) # 0
  BY <1>1, <1>2, FS_CardinalityType, FS_EmptySet
<1>4. ASSUME NEW state
      PROVE  /\ IsFiniteSet(Pending(state)) /\ Cardinality(Pending(state)) \in Nat
             /\ Cardinality(Pending(state)) <= Cardinality(Reviewers)
  <2>1. Pending(state) \subseteq Reviewers
    BY DEF Pending
  <2>2. QED
    BY <1>1, <2>1, FS_Subset, FS_CardinalityType
<1>5. QED
  BY <1>1, <1>3, <1>4

LEMMA InitReview ==
  ASSUME ReviewInit PROVE ReviewInv
<1>1. \A r \in Reviewers : reviewer[r] = NoRequest
  BY DEF ReviewInit
<1>2. /\ root \in RootRow /\ casefile \in CaseFile
      /\ root.pins = {} /\ casefile.decisions = 0
  BY ReviewBounds DEF ReviewInit, RootRow, CaseFile
<1>3. EngineSound(engine)
  BY DEF ReviewInit, EngineSound
<1>4. ReviewRows
  <2>1. reviewer = [r \in Reviewers |-> reviewer[r]] /\ \A r \in Reviewers : RequestSound(reviewer[r])
    BY <1>1, NoRequestIsSound DEF ReviewInit
  <2>2. granted \in [Collaborators -> SUBSET {"read", "write"}]
    BY DEF ReviewInit
  <2>3. /\ children \in Nat /\ decided \in Nat /\ submissions \in 0 .. MaxDecisions
        /\ enabled \subseteq Memories /\ replayed \subseteq Memories /\ stale \in BOOLEAN
    <3>1. /\ children = 0 /\ decided = 0 /\ submissions = 0
          /\ enabled = Memories /\ replayed = {} /\ stale = FALSE
      BY DEF ReviewInit
    <3>2. children \in Nat /\ decided \in Nat /\ submissions \in 0 .. MaxDecisions
      BY <3>1, ReviewBounds
    <3>3. enabled \subseteq Memories /\ replayed \subseteq Memories /\ stale \in BOOLEAN
      BY <3>1
    <3>4. QED
      BY <3>2, <3>3
  <2>4. QED
    BY <1>2, <1>3, <2>1, <2>2, <2>3 DEF ReviewRows
<1>5. Pending(reviewer) = {}
  BY <1>1, NoRequestIsSound DEF Pending
<1>6. BudgetKept
  BY <1>5, FS_EmptySet, ReviewersAreFinite, ReviewBounds DEF ReviewInit, BudgetKept
<1>7. NothingOverwritten
  BY <1>2, ReviewBounds DEF ReviewInit, NothingOverwritten
<1>8. QED
  BY <1>4, <1>6, <1>7 DEF ReviewInv

\* A request goes on and will not make a child that it would not have made before.
LEMMA RequestMoves ==
  ASSUME ReviewInv, NEW r \in Reviewers, NEW state,
         reviewer' = [reviewer EXCEPT ![r] = state], RequestSound(state),
         MayCreate(state) => MayCreate(reviewer[r])
  PROVE  /\ reviewer' = [d \in Reviewers |-> reviewer'[d]]
         /\ \A d \in Reviewers : RequestSound(reviewer'[d])
         /\ Cardinality(Pending(reviewer')) <= Cardinality(Pending(reviewer))
<1>1. /\ reviewer' = [d \in Reviewers |-> reviewer'[d]]
      /\ \A d \in Reviewers : reviewer'[d] = IF d = r THEN state ELSE reviewer[d]
  BY DEF ReviewInv, ReviewRows
<1>2. \A d \in Reviewers : RequestSound(reviewer'[d])
  BY <1>1 DEF ReviewInv, ReviewRows
<1>3. Pending(reviewer') \subseteq Pending(reviewer)
  BY <1>1 DEF Pending
<1>4. QED
  BY <1>1, <1>2, <1>3, ReviewersAreFinite, FS_Subset

\* Steps that change no row.
LEMMA QuietKeeps ==
  ASSUME ReviewInv, NEW r \in Reviewers, NEW state,
         reviewer' = [reviewer EXCEPT ![r] = state], RequestSound(state),
         MayCreate(state) => MayCreate(reviewer[r]),
         UNCHANGED <<root, children, enabled, granted, replayed, casefile, decided, engine, stale,
                     submissions>>
  PROVE  ReviewInv'
<1>1. ReviewRows'
  BY RequestMoves DEF ReviewInv, ReviewRows
<1>2. BudgetKept'
  <2>1. Cardinality(Pending(reviewer')) <= Cardinality(Pending(reviewer))
    BY RequestMoves
  <2>2. children \in Nat
    BY DEF ReviewInv, ReviewRows
  <2>3. QED
    BY <2>1, <2>2, ReviewersAreFinite, ReviewBounds DEF ReviewInv, BudgetKept
<1>3. NothingOverwritten'
  BY DEF ReviewInv, NothingOverwritten
<1>4. QED
  BY <1>1, <1>2, <1>3 DEF ReviewInv

\* A request is decided on below the budget, or makes no child.
LEMMA ReadBundleKeeps ==
  ASSUME ReviewInv, NEW r \in Reviewers, ReadBundle(r) PROVE ReviewInv'
<1>1. PICK decision \in Decisions, hint \in BOOLEAN, todo \in Orders :
         reviewer' = [reviewer EXCEPT ![r] =
                        [at |-> "decided", action |-> ChooseAction(decision, hint), todo |-> todo,
                         seen |-> children]]
  BY DEF ReadBundle
<1> DEFINE state == [at |-> "decided", action |-> ChooseAction(decision, hint), todo |-> todo,
                     seen |-> children]
<1>2. /\ UNCHANGED <<root, children, enabled, granted, replayed, casefile, decided, engine, stale>>
      /\ submissions' \in 0 .. MaxDecisions /\ reviewer' = [reviewer EXCEPT ![r] = state]
  <2>1. submissions \in 0 .. MaxDecisions
    BY DEF ReviewInv, ReviewRows
  <2>2. /\ UNCHANGED <<root, children, enabled, granted, replayed, casefile, decided, engine, stale>>
        /\ submissions < MaxDecisions /\ submissions' = submissions + 1
    BY DEF ReadBundle
  <2>3. submissions' \in 0 .. MaxDecisions
    BY <2>1, <2>2, ReviewBounds
  <2>4. QED
    BY <1>1, <2>2, <2>3
<1>3. children \in Nat /\ (ChooseAction(decision, hint) \in Creating => children < MaxChildren)
  BY ReviewBounds DEF ReviewInv, ReviewRows, ChooseAction, Creating
<1>4. todo \in Seq(Updates)
  BY DEF Orders
<1>5. /\ state = [at |-> state.at, action |-> state.action, todo |-> state.todo, seen |-> state.seen]
      /\ state.at = "decided" /\ state.todo = todo /\ state.seen = children
      /\ state.action = ChooseAction(decision, hint)
  OBVIOUS
<1> HIDE DEF state
<1>6. RequestSound(state) /\ (MayCreate(state) => children < MaxChildren)
  BY <1>3, <1>4, <1>5 DEF RequestSound, MayCreate, Acting
<1>7. CASE MayCreate(state)
  <2>1. /\ reviewer' = [d \in Reviewers |-> reviewer'[d]]
        /\ \A d \in Reviewers : reviewer'[d] = IF d = r THEN state ELSE reviewer[d]
    BY <1>2 DEF ReviewInv, ReviewRows
  <2>2. ReviewRows'
    BY <1>2, <1>6, <2>1 DEF ReviewInv, ReviewRows
  <2>3. BudgetKept'
    <3>1. Cardinality(Pending(reviewer')) \in Nat
          /\ Cardinality(Pending(reviewer')) <= Cardinality(Reviewers)
      BY ReviewersAreFinite
    <3>2. QED
      BY <1>2, <1>3, <1>6, <1>7, <3>1, ReviewersAreFinite, ReviewBounds DEF BudgetKept
  <2>4. NothingOverwritten'
    BY <1>2 DEF ReviewInv, NothingOverwritten
  <2>5. QED
    BY <2>2, <2>3, <2>4 DEF ReviewInv
<1>8. CASE ~ MayCreate(state)
  <2>1. /\ reviewer' = [d \in Reviewers |-> reviewer'[d]]
        /\ \A d \in Reviewers : RequestSound(reviewer'[d])
        /\ Cardinality(Pending(reviewer')) <= Cardinality(Pending(reviewer))
    BY <1>2, <1>6, <1>8, RequestMoves
  <2>2. ReviewRows'
    BY <1>2, <2>1 DEF ReviewInv, ReviewRows
  <2>3. BudgetKept'
    BY <1>2, <1>3, <2>1, ReviewersAreFinite, ReviewBounds DEF ReviewInv, BudgetKept
  <2>4. NothingOverwritten'
    BY <1>2 DEF ReviewInv, NothingOverwritten
  <2>5. QED
    BY <2>2, <2>3, <2>4 DEF ReviewInv
<1>9. QED
  BY <1>7, <1>8

LEMMA AuthorizeKeeps ==
  ASSUME ReviewInv, NEW r \in Reviewers, Authorize(r) PROVE ReviewInv'
<1> DEFINE self == reviewer[r]
           state == [self EXCEPT !.at = "update"]
<1>1. /\ self.at = "decided" /\ RequestSound(self)
      /\ UNCHANGED <<root, children, enabled, granted, replayed, casefile, decided, engine, stale,
                     submissions>>
      /\ \/ reviewer' = [reviewer EXCEPT ![r] = NoRequest]
         \/ reviewer' = [reviewer EXCEPT ![r] = state]
  BY DEF Authorize, ReviewInv, ReviewRows
<1>2. /\ state = [at |-> state.at, action |-> state.action, todo |-> state.todo, seen |-> state.seen]
      /\ state.at = "update" /\ state.todo = self.todo /\ state.seen = self.seen
      /\ state.action = self.action
  BY <1>1 DEF RequestSound
<1> HIDE DEF state
<1>3. RequestSound(state) /\ (MayCreate(state) => MayCreate(self))
  BY <1>1, <1>2 DEF RequestSound, MayCreate, Acting
<1>4. QED
  BY <1>1, <1>3, QuietKeeps, NoRequestIsSound

LEMMA ReadRootKeeps ==
  ASSUME ReviewInv, NEW r \in Reviewers, ReadRoot(r) PROVE ReviewInv'
<1> DEFINE self == reviewer[r]
           state == [at |-> "write", action |-> self.action, todo |-> self.todo,
                     seen |-> self.seen, copy |-> root]
<1>1. /\ self.at = "update" /\ RequestSound(self) /\ self.todo # << >> /\ root \in RootRow
      /\ UNCHANGED <<root, children, enabled, granted, replayed, casefile, decided, engine, stale,
                     submissions>>
      /\ reviewer' = [reviewer EXCEPT ![r] = state]
  BY DEF ReadRoot, ReviewInv, ReviewRows
<1>2. /\ state.at = "write" /\ state.todo = self.todo /\ state.seen = self.seen
      /\ state.action = self.action /\ state.copy = root
  OBVIOUS
<1> HIDE DEF state
<1>3. RequestSound(state) /\ (MayCreate(state) => MayCreate(self))
  BY <1>1, <1>2 DEF RequestSound, MayCreate, Acting
<1>4. QED
  BY <1>1, <1>3, QuietKeeps

LEMMA NotedKeeps ==
  ASSUME ReviewInv, NEW r \in Reviewers,
         AcceptBest(r) \/ NothingDone(r) \/ LoadCase(r)
  PROVE  ReviewInv'
<1> DEFINE noted == [at |-> "noted"]
           load == [at |-> "log", copy |-> casefile]
<1>1. /\ UNCHANGED <<root, children, enabled, granted, replayed, casefile, decided, engine, stale,
                     submissions>>
      /\ \/ reviewer' = [reviewer EXCEPT ![r] = NoRequest]
         \/ reviewer' = [reviewer EXCEPT ![r] = noted]
         \/ reviewer' = [reviewer EXCEPT ![r] = load]
  BY DEF AcceptBest, NothingDone, LoadCase
<1>2. casefile \in CaseFile
  BY DEF ReviewInv, ReviewRows
<1>3. RequestSound(noted) /\ ~ MayCreate(noted) /\ RequestSound(load) /\ ~ MayCreate(load)
  BY <1>2 DEF RequestSound, MayCreate, Acting
<1> HIDE DEF noted, load
<1>4. QED
  BY <1>1, <1>3, QuietKeeps, NoRequestIsSound

\* The updates of the pins are those the events will repeat.
LEMMA WriteRootKeeps ==
  ASSUME ReviewInv, NEW r \in Reviewers, WriteRoot(r) PROVE ReviewInv'
<1> DEFINE self == reviewer[r]
           update == Head(self.todo)
           state == [at |-> "update", action |-> self.action, todo |-> Tail(self.todo),
                     seen |-> self.seen]
           pins == NewPins(r)
           row == [self.copy EXCEPT !.pins = pins]
<1>1. /\ self.at = "write" /\ RequestSound(self)
      /\ UNCHANGED <<children, enabled, granted, casefile, decided, engine, submissions>>
  BY DEF WriteRoot, ReviewInv, ReviewRows
<1>2. self.copy \in RootRow /\ self.todo \in Seq(Updates) /\ self.todo # << >>
  BY <1>1 DEF RequestSound, Acting
<1>3. update \in Updates /\ Tail(self.todo) \in Seq(Updates)
  BY <1>2
<1>4. update[1] \in {"pin", "unpin"} /\ update[2] \in Memories
  BY <1>3 DEF Updates
<1>5. CASE ~ (pins \subseteq enabled)
  <2>1. reviewer' = [reviewer EXCEPT ![r] = NoRequest] /\ UNCHANGED <<root, stale, replayed>>
    BY <1>5 DEF WriteRoot
  <2>2. QED
    BY <1>1, <2>1, QuietKeeps, NoRequestIsSound
<1>6. CASE pins \subseteq enabled
  <2>1. /\ root' = row /\ stale' = (stale \/ root # self.copy)
        /\ replayed' = IF update[1] = "pin" THEN replayed \cup {update[2]} ELSE replayed \ {update[2]}
        /\ reviewer' = [reviewer EXCEPT ![r] = state]
    BY <1>6 DEF WriteRoot
  <2>2. pins = IF update[1] = "pin" THEN self.copy.pins \cup {update[2]}
               ELSE self.copy.pins \ {update[2]}
    BY DEF NewPins
  <2>3. pins \subseteq Memories
    BY <1>2, <1>4, <2>2 DEF RootRow
  <2>4. /\ state.at = "update" /\ state.todo = Tail(self.todo) /\ state.seen = self.seen
        /\ state.action = self.action
        /\ state = [at |-> state.at, action |-> state.action, todo |-> state.todo, seen |-> state.seen]
    OBVIOUS
  <2> HIDE DEF state, update, pins, self
  <2>5. row \in RootRow /\ row.pins = pins
    BY <1>2, <2>3 DEF RootRow
  <2> HIDE DEF row
  <2>6. RequestSound(state) /\ (MayCreate(state) => MayCreate(self))
    BY <1>1, <1>3, <2>4 DEF RequestSound, MayCreate, Acting
  <2>7. /\ reviewer' = [d \in Reviewers |-> reviewer'[d]]
        /\ \A d \in Reviewers : RequestSound(reviewer'[d])
        /\ Cardinality(Pending(reviewer')) <= Cardinality(Pending(reviewer))
    BY <2>1, <2>6, RequestMoves DEF self
  <2>8. stale \in BOOLEAN /\ replayed \subseteq Memories /\ children \in Nat
    BY DEF ReviewInv, ReviewRows
  <2>9. stale' \in BOOLEAN /\ replayed' \subseteq Memories /\ (~ stale' => ~ stale /\ root = self.copy)
    BY <1>4, <2>1, <2>8
  <2>10. ReviewRows'
    BY <1>1, <2>1, <2>5, <2>7, <2>9 DEF ReviewInv, ReviewRows
  <2>11. BudgetKept'
    BY <1>1, <2>7, <2>8, <2>9, ReviewersAreFinite, ReviewBounds DEF ReviewInv, BudgetKept
  <2>12. NothingOverwritten'
    BY <1>1, <2>1, <2>2, <2>5, <2>9 DEF ReviewInv, NothingOverwritten
  <2>13. QED
    BY <2>10, <2>11, <2>12 DEF ReviewInv
<1>7. QED
  BY <1>5, <1>6

\* A child is made by a request that was decided on below the budget.
LEMMA CreateChildKeeps ==
  ASSUME ReviewInv, NEW r \in Reviewers, CreateChild(r) PROVE ReviewInv'
<1> DEFINE self == reviewer[r]
<1>1. /\ children' = children + 1 /\ stale' = (stale \/ self.seen # children)
      /\ reviewer' = [reviewer EXCEPT ![r] = NoRequest]
      /\ UNCHANGED <<root, enabled, granted, replayed, casefile, decided, engine, submissions>>
      /\ children \in Nat /\ stale \in BOOLEAN
  BY DEF CreateChild, ReviewInv, ReviewRows
<1>2. MayCreate(self)
  BY DEF CreateChild, Creates, Ready, MayCreate, Acting, Creating
<1>3. self.seen \in Nat /\ self.seen < MaxChildren
  BY <1>2 DEF ReviewInv, ReviewRows, RequestSound
<1>4. /\ reviewer' = [d \in Reviewers |-> reviewer'[d]]
      /\ \A d \in Reviewers : RequestSound(reviewer'[d])
      /\ \A d \in Reviewers : reviewer'[d] = IF d = r THEN NoRequest ELSE reviewer[d]
  <2>1. /\ reviewer' = [d \in Reviewers |-> reviewer'[d]]
        /\ \A d \in Reviewers : RequestSound(reviewer'[d])
    BY <1>1, RequestMoves, NoRequestIsSound
  <2>2. QED
    BY <1>1, <2>1 DEF ReviewInv, ReviewRows
<1>5. Cardinality(Pending(reviewer')) = Cardinality(Pending(reviewer)) - 1
  <2>1. Pending(reviewer') = Pending(reviewer) \ {r} /\ r \in Pending(reviewer)
    BY <1>2, <1>4, NoRequestIsSound DEF Pending
  <2>2. IsFiniteSet(Pending(reviewer))
    BY ReviewersAreFinite
  <2>3. QED
    BY <2>1, <2>2, FS_RemoveElement
<1>6. ReviewRows'
  BY <1>1, <1>4 DEF ReviewInv, ReviewRows
<1>7. BudgetKept'
  <2>1. Cardinality(Pending(reviewer)) \in Nat
    BY ReviewersAreFinite
  <2>2. ~ stale' => children' <= MaxChildren
    <3>1. ~ stale' => self.seen = children
      BY <1>1
    <3>2. children' = children + 1
      BY <1>1
    <3> HIDE DEF self
    <3>3. self.seen = children => children' <= MaxChildren
      BY <1>1, <1>3, <3>2, ReviewBounds
    <3>4. QED
      BY <3>1, <3>3
  <2>3. QED
    BY <1>1, <1>5, <2>1, <2>2, ReviewersAreFinite, ReviewBounds DEF ReviewInv, BudgetKept
<1>8. NothingOverwritten'
  BY <1>1 DEF ReviewInv, NothingOverwritten
<1>9. QED
  BY <1>6, <1>7, <1>8 DEF ReviewInv

LEMMA RecordDecisionKeeps ==
  ASSUME ReviewInv, NEW r \in Reviewers, RecordDecision(r)
  PROVE  ReviewInv'
<1> DEFINE self == reviewer[r]
           kept == IF self.copy.decisions < MaxLog THEN self.copy.decisions + 1
                   ELSE self.copy.decisions
           file == [self.copy EXCEPT !.decisions = kept]
<1>1. /\ self.at = "log" /\ RequestSound(self) /\ decided' = decided + 1 /\ casefile' = file
      /\ stale' = (stale \/ casefile # self.copy)
      /\ reviewer' = [reviewer EXCEPT ![r] = NoRequest]
      /\ UNCHANGED <<root, children, enabled, granted, replayed, engine, submissions>>
      /\ decided \in Nat /\ stale \in BOOLEAN /\ children \in Nat
  BY DEF RecordDecision, ReviewInv, ReviewRows
<1>2. self.copy \in CaseFile
  BY <1>1 DEF RequestSound
<1>3. kept \in 0 .. MaxLog
  BY <1>2, ReviewBounds DEF CaseFile
<1> HIDE DEF kept, self
<1>4. file \in CaseFile /\ file.decisions = kept
  BY <1>2, <1>3 DEF CaseFile
<1>5. /\ reviewer' = [d \in Reviewers |-> reviewer'[d]]
      /\ \A d \in Reviewers : RequestSound(reviewer'[d])
      /\ Cardinality(Pending(reviewer')) <= Cardinality(Pending(reviewer))
  BY <1>1, RequestMoves, NoRequestIsSound
<1>6. ReviewRows'
  BY <1>1, <1>4, <1>5 DEF ReviewInv, ReviewRows
<1>7. BudgetKept'
  BY <1>1, <1>5, ReviewersAreFinite, ReviewBounds DEF ReviewInv, BudgetKept
<1>8. NothingOverwritten'
  <2>1. ~ stale' => ~ stale /\ casefile = self.copy
    BY <1>1
  <2>2. casefile.decisions = (IF decided < MaxLog THEN decided ELSE MaxLog) =>
          (casefile = self.copy =>
             kept = IF decided + 1 < MaxLog THEN decided + 1 ELSE MaxLog)
    BY <1>1, ReviewBounds DEF kept
  <2>3. QED
    BY <1>1, <1>4, <2>1, <2>2 DEF ReviewInv, NothingOverwritten
<1>9. QED
  BY <1>6, <1>7, <1>8 DEF ReviewInv

\* The engine writes back the row it took; its own fields of it are not the pins.
LEMMA EngineKeeps ==
  ASSUME ReviewInv,
         EngineTakes \/ EngineFinishes \/ EngineLoadsCase \/ RecordReviewOutcome
  PROVE  ReviewInv'
<1>1. UNCHANGED <<children, enabled, granted, replayed, decided, reviewer, submissions>>
  BY DEF EngineTakes, EngineFinishes, EngineLoadsCase, RecordReviewOutcome
<1>2. root \in RootRow /\ casefile \in CaseFile /\ stale \in BOOLEAN /\ EngineSound(engine)
  BY DEF ReviewInv, ReviewRows
<1>3. /\ root' \in RootRow /\ casefile' \in CaseFile /\ stale' \in BOOLEAN /\ EngineSound(engine')
      /\ ~ stale' => ~ stale /\ root'.pins = root.pins /\ casefile'.decisions = casefile.decisions
  <2>1. CASE EngineTakes
    <3>1. /\ root' = [root EXCEPT !.status = "running"] /\ engine' = [at |-> "run", copy |-> root']
          /\ UNCHANGED <<casefile, stale>>
      BY <2>1 DEF EngineTakes
    <3>2. root' \in RootRow /\ root'.pins = root.pins
      BY <1>2, <3>1 DEF RootRow
    <3>3. QED
      BY <1>2, <3>1, <3>2 DEF EngineSound
  <2>2. CASE EngineFinishes
    <3>1. PICK status \in {"completed", "failed"}, blocked \in BOOLEAN :
             root' = [engine.copy EXCEPT !.status = status, !.blocked = blocked]
      BY <2>2 DEF EngineFinishes
    <3>2. /\ stale' = (stale \/ root # engine.copy) /\ engine' = [at |-> "finished"]
          /\ UNCHANGED casefile /\ engine.copy \in RootRow
      BY <1>2, <2>2 DEF EngineFinishes, EngineSound
    <3>3. root' \in RootRow /\ root'.pins = engine.copy.pins
      BY <3>1, <3>2 DEF RootRow
    <3>4. QED
      BY <1>2, <3>2, <3>3 DEF EngineSound
  <2>3. CASE EngineLoadsCase
    BY <1>2, <2>3 DEF EngineLoadsCase, EngineSound
  <2>4. CASE RecordReviewOutcome
    <3>1. /\ casefile' = [engine.copy EXCEPT !.outcome = TRUE]
          /\ stale' = (stale \/ casefile # engine.copy) /\ engine' = [at |-> "done"]
          /\ UNCHANGED root /\ engine.copy \in CaseFile
      BY <1>2, <2>4 DEF RecordReviewOutcome, EngineSound
    <3>2. casefile' \in CaseFile /\ casefile'.decisions = engine.copy.decisions
      BY <3>1 DEF CaseFile
    <3>3. QED
      BY <1>2, <3>1, <3>2 DEF EngineSound
  <2>5. QED
    BY <2>1, <2>2, <2>3, <2>4
<1>4. ReviewRows'
  BY <1>1, <1>3 DEF ReviewInv, ReviewRows
<1>5. BudgetKept'
  BY <1>1, <1>3 DEF ReviewInv, BudgetKept
<1>6. NothingOverwritten'
  BY <1>1, <1>3 DEF ReviewInv, NothingOverwritten
<1>7. QED
  BY <1>4, <1>5, <1>6 DEF ReviewInv

LEMMA OwnerKeeps ==
  ASSUME ReviewInv,
         \/ \E c \in Collaborators : UpsertWorkflowParticipant(c) \/ RemoveWorkflowParticipant(c)
         \/ \E m \in Memories : DisableMemory(m)
  PROVE  ReviewInv'
<1>1. UNCHANGED <<root, children, replayed, casefile, decided, reviewer, engine, stale, submissions>>
  BY DEF UpsertWorkflowParticipant, RemoveWorkflowParticipant, DisableMemory
<1>2. enabled' \subseteq Memories
  BY DEF UpsertWorkflowParticipant, RemoveWorkflowParticipant, DisableMemory, ReviewInv, ReviewRows
<1>3. granted' \in [Collaborators -> SUBSET {"read", "write"}]
  <2>1. granted' = granted \/ \E c \in Collaborators, s \in SUBSET {"read", "write"} :
                                 granted' = [granted EXCEPT ![c] = s]
    BY DEF UpsertWorkflowParticipant, RemoveWorkflowParticipant, DisableMemory, Grant,
           RoleCapabilities
  <2>2. QED
    BY <2>1 DEF ReviewInv, ReviewRows
<1>4. QED
  BY <1>1, <1>2, <1>3 DEF ReviewInv, ReviewRows, BudgetKept, NothingOverwritten

LEMMA ReviewKeeps ==
  ASSUME ReviewInv, [ReviewNext]_reviewVars PROVE ReviewInv'
<1>1. CASE UNCHANGED reviewVars
  BY <1>1 DEF reviewVars, ReviewInv, ReviewRows, BudgetKept, NothingOverwritten
<1>2. QED
  BY <1>1, OwnerKeeps, ReadBundleKeeps, AuthorizeKeeps, ReadRootKeeps, WriteRootKeeps,
     CreateChildKeeps, NotedKeeps, RecordDecisionKeeps, EngineKeeps DEF ReviewNext

\* Reviewers at work at the same time exceed the child budget by one child each at most, and
\* nobody does as long as every decision is acted on before the next one is made.
THEOREM ReviewStaysInBudget == ReviewSpec => []ReviewBudget
<1>1. ReviewInit => ReviewInv
  BY InitReview
<1>2. ReviewInv /\ [ReviewNext]_reviewVars => ReviewInv'
  BY ReviewKeeps
<1>3. ReviewInv => ReviewBudget
  <2> SUFFICES ASSUME ReviewInv PROVE ReviewBudget
    OBVIOUS
  <2>1. children \in Nat
    BY DEF ReviewInv, ReviewRows
  <2>2. QED
    BY <2>1, ReviewersAreFinite, ReviewBounds DEF ReviewInv, BudgetKept, ReviewBudget
<1>4. QED
  BY <1>1, <1>2, <1>3, PTL DEF ReviewSpec

\* While nobody acts on what has changed since he read it, the pins of the row are those the
\* events add up to, and the case memory holds the last decisions.
THEOREM WritesFollowEvents == ReviewSpec => []NothingOverwritten
<1>1. ReviewInit => ReviewInv
  BY InitReview
<1>2. ReviewInv /\ [ReviewNext]_reviewVars => ReviewInv'
  BY ReviewKeeps
<1>3. ReviewInv => NothingOverwritten
  BY DEF ReviewInv
<1>4. QED
  BY <1>1, <1>2, <1>3, PTL DEF ReviewSpec

\* What the bundle suggests first is accepting if nothing blocks it, and otherwise something
\* else, which says that there is something to pin.
LEMMA SuggestedFirst ==
  ASSUME root \in RootRow, NEW recommended
  PROVE  /\ ~ Blocked => Suggested(recommended) = "accept" /\ Alternatives(recommended) = {}
         /\ Blocked => /\ Suggested(recommended) \in {"pin_and_revise", "retry", "revise"}
                       /\ "accept" \in Alternatives(recommended)
                       /\ Alternatives(recommended) \subseteq {"accept", "revise"}
         /\ Suggested(recommended) = "retry" => root.status = "failed"
         /\ Suggested(recommended) = "pin_and_revise" => Unpinned(recommended) # {}
<1>1. "pin" \in Examples(recommended) => Unpinned(recommended) # {}
  BY DEF Examples
<1>2. ~ Blocked => root.status = "completed"
  BY DEF Blocked
<1>3. QED
  BY <1>1, <1>2 DEF Suggested, Alternatives

\* A card offers what was suggested first or an alternative; only accepting is blocked.
LEMMA CardsAre ==
  ASSUME root \in RootRow, NEW recommended, NEW card \in Cards(recommended)
  PROVE  \/ /\ card.id = Suggested(recommended) /\ card.primary = TRUE /\ card.blocked = FALSE
         \/ /\ card.id \in Alternatives(recommended) /\ card.primary = FALSE
            /\ card.blocked = (card.id = "accept")
BY DEF Cards

LEMMA ButtonsDo ==
  ASSUME root \in RootRow, NEW recommended, NEW card \in Cards(recommended),
         children \in Nat, children < MaxChildren, children + 1 < MaxAttempts, root.pins \subseteq enabled
  PROVE  /\ ChooseAction(DecisionOf(card.id), FALSE) =
               (IF card.blocked THEN "escalate" ELSE DecisionOf(card.id))
         /\ DecisionOf(card.id) = "revise" => CanRevise("owner")
         /\ DecisionOf(card.id) = "retry" => CanRetry
         /\ FamilyOf(card.id) = "combined" => Unpinned(recommended) # {}
<1>1. \/ card.id = "accept" /\ card.blocked = Blocked
      \/ card.id \in {"revise", "retry", "pin_and_revise"} /\ card.blocked = FALSE
  BY SuggestedFirst, CardsAre DEF Blocked, RootRow
<1>2. /\ card.id = "retry" => root.status = "failed"
      /\ card.id = "pin_and_revise" => Unpinned(recommended) # {}
  BY SuggestedFirst, CardsAre
<1>3. ~ (children >= MaxChildren)
  BY ReviewBounds
<1>4. ChooseAction(DecisionOf(card.id), FALSE) =
        (IF card.blocked THEN "escalate" ELSE DecisionOf(card.id))
  BY <1>1, <1>3 DEF ChooseAction, DecisionOf
<1>5. CanRevise("owner")
  BY DEF CanRevise
<1>6. QED
  BY <1>1, <1>2, <1>4, <1>5 DEF DecisionOf, FamilyOf, CanRetry

\* A blocked card is there exactly when the panel is not ready.
LEMMA PanelAgrees ==
  ASSUME root \in RootRow, NEW recommended
  PROVE  /\ Tone(recommended) = "ready" <=> ~ Blocked
         /\ "blocked" \in Expanded(recommended) <=> Blocked
         /\ "acceptance_blockers" \in Badges(recommended) => Blocked
         /\ Unpinned(recommended) # {} => "pending_memory" \in Badges(recommended)
<1>1. Tone(recommended) = "ready" <=> ~ Blocked
  BY SuggestedFirst DEF Tone
<1>2. ASSUME Blocked PROVE "blocked" \in Expanded(recommended)
  <2>1. "accept" \in Alternatives(recommended) \ {Suggested(recommended)}
    BY <1>2, SuggestedFirst
  <2> DEFINE card == [id |-> "accept", primary |-> FALSE, blocked |-> "accept" = "accept"]
  <2>2. card \in Cards(recommended)
    BY <2>1 DEF Cards
  <2>3. SectionOf(card) = "blocked"
    BY DEF SectionOf
  <2> HIDE DEF card
  <2>4. QED
    BY <2>2, <2>3 DEF Expanded
<1>3. ASSUME "blocked" \in Expanded(recommended) PROVE Blocked
  <2>1. PICK card \in Cards(recommended) : SectionOf(card) = "blocked"
    BY <1>3 DEF Expanded
  <2>2. card.id \in Alternatives(recommended)
    BY <2>1, CardsAre DEF SectionOf
  <2>3. QED
    BY <2>2, SuggestedFirst
<1>4. QED
  BY <1>1, <1>2, <1>3 DEF Badges

\* Every button of the owner's panel does what it says while the budgets are not used up, and
\* the panel says it is ready exactly when nothing is shown as blocked.
THEOREM PanelsAreTaken == ReviewSpec => []SuggestionIsTaken
<1>1. ReviewInit => ReviewInv
  BY InitReview
<1>2. ReviewInv /\ [ReviewNext]_reviewVars => ReviewInv'
  BY ReviewKeeps
<1>3. ReviewInv => SuggestionIsTaken
  <2> SUFFICES ASSUME ReviewInv, NEW recommended \in Recommendations
               PROVE  LET panel == Controls(recommended) IN
                        /\ \A card \in panel.cards :
                              children < MaxChildren /\ children + 1 < MaxAttempts
                                /\ root.pins \subseteq enabled =>
                                  LET decision == DecisionOf(card.id) IN
                                  /\ ChooseAction(decision, FALSE) =
                                       (IF card.blocked THEN "escalate" ELSE decision)
                                  /\ decision = "revise" => CanRevise("owner")
                                  /\ decision = "retry" => CanRetry
                                  /\ FamilyOf(card.id) = "combined" => "pending_memory" \in panel.badges
                        /\ panel.tone = "ready" <=> "blocked" \notin panel.open
                        /\ panel.tone = "ready" => "acceptance_blockers" \notin panel.badges
    BY DEF SuggestionIsTaken
  <2>1. root \in RootRow /\ children \in Nat
    BY DEF ReviewInv, ReviewRows
  <2>2. /\ Controls(recommended).cards = Cards(recommended)
        /\ Controls(recommended).tone = Tone(recommended)
        /\ Controls(recommended).badges = Badges(recommended)
        /\ Controls(recommended).open = Expanded(recommended)
    BY DEF Controls
  <2>3. QED
    BY <2>1, <2>2, ButtonsDo, PanelAgrees
<1>4. QED
  BY <1>1, <1>2, <1>3, PTL DEF ReviewSpec

-----------------------------------------------------------------------------
(* The composer.  Both sides choose among the same witnesses, the service    *)
(* among those who take part and the surface among those it shows; nobody    *)
(* is not one of them.                                                       *)

PeopleInv ==
  /\ Nobody \notin participants
  /\ \A c \in Clients : client[c].at \in {"answer", "welcome"} => client[c].target # Nobody

LEMMA NobodyTakesPart == Nobody \notin Participant
BY ThreadAssumption DEF Participant, Nobody

LEMMA FirstOfThree ==
  ASSUME NEW none, NEW a, NEW b, NEW c
  PROVE  FirstBut(none, <<a, b, c>>) = IF a # none THEN a ELSE IF b # none THEN b ELSE c
<1> DEFINE s == <<a, b, c>>
           found == {k \in DOMAIN s : s[k] # none}
           first == CHOOSE k \in found : \A l \in found : k <= l
<1>1. DOMAIN s = {1, 2, 3} /\ s[1] = a /\ s[2] = b /\ s[3] = c
  OBVIOUS
<1>2. CASE found = {}
  <2>1. a = none /\ b = none /\ c = none
    BY <1>1, <1>2
  <2>2. QED
    BY <1>2, <2>1 DEF FirstBut
<1>3. CASE found # {}
  <2>1. FirstBut(none, s) = s[first]
    BY <1>3 DEF FirstBut
  <2>2. found \in SUBSET Nat
    BY <1>1
  <2>3. \E k \in found : \A l \in found : k <= l
    <3> HIDE DEF found
    <3>1. QED
      BY <1>3, <2>2, LeastNumber
  <2>4. first \in found /\ \A l \in found : first <= l
    <3> HIDE DEF found
    <3>1. QED
      BY <2>3
  <2> HIDE DEF first
  <2>5. first \in {1, 2, 3} /\ s[first] # none
    BY <1>1, <2>4
  <2>6. /\ a # none => first <= 1
        /\ b # none => first <= 2
    BY <1>1, <2>4
  <2> HIDE DEF found, s
  <2>7. s[first] = IF a # none THEN a ELSE IF b # none THEN b ELSE c
    BY <1>1, <2>5, <2>6
  <2>8. QED
    BY <2>1, <2>7 DEF s
<1>4. QED
  BY <1>2, <1>3

LEMMA FirstIsSomeone ==
  ASSUME NEW s, DOMAIN s \subseteq Nat, NEW k \in DOMAIN s, s[k] # Nobody
  PROVE  FirstSomeone(s) # Nobody
<1> DEFINE found == {l \in DOMAIN s : s[l] # Nobody}
           first == CHOOSE l \in found : \A m \in found : l <= m
<1>1. found \in SUBSET Nat /\ found # {}
  OBVIOUS
<1>2. first \in found
  <2>1. \E l \in found : \A m \in found : l <= m
    <3> HIDE DEF found
    <3>1. QED
      BY <1>1, LeastNumber
  <2>2. QED
    <3> HIDE DEF found
    <3>1. QED
      BY <2>1
<1>3. FirstSomeone(s) = s[first]
  BY <1>1 DEF FirstSomeone, FirstBut
<1>4. QED
  BY <1>2, <1>3

LEMMA PeopleMove ==
  ASSUME PeopleInv, ThreadInv, NEW c \in Clients, NEW state, Goes(c, state),
         state.at \in {"answer", "welcome"} => state.target # Nobody,
         Nobody \notin participants'
  PROVE  PeopleInv'
BY DEF PeopleInv, ThreadInv, Goes

\* Steps of a request that asks nobody and welcomes nobody.
LEMMA RequestsKeepPeople ==
  ASSUME PeopleInv, ThreadInv, NEW c \in Clients,
         \/ MakeThread(c) \/ JoinOwner(c) \/ MakeIteration(c) \/ AssignResponsibility(c)
         \/ PointThread(c) \/ OwnerTurn(c) \/ MakeTask(c) \/ LoseRequest(c)
         \/ \E i \in DOMAIN iterations : \E named \in BOOLEAN : Revise(c, i, named)
         \/ Flag(c) \/ Show(c) \/ KeepChoice(c) \/ \E r \in DOMAIN results : Select(c, r)
  PROVE  PeopleInv'
<1>1. Nobody \notin participants
  BY DEF PeopleInv
<1>2. Away.at = "away"
  BY DEF Away
<1>3. CASE MakeThread(c)
  BY <1>1, <1>3, PeopleMove DEF MakeThread
<1>4. CASE JoinOwner(c)
  <2>1. Nobody \notin participants'
    BY <1>1, <1>4 DEF JoinOwner, Nobody
  <2>2. QED
    BY <1>4, <2>1, PeopleMove DEF JoinOwner
<1>5. CASE MakeIteration(c)
  BY <1>1, <1>5, PeopleMove DEF MakeIteration
<1>6. CASE AssignResponsibility(c)
  <2>1. /\ client[c] = [at |-> client[c].at, row |-> client[c].row, target |-> client[c].target,
                        new |-> client[c].new]
    BY <1>6 DEF AssignResponsibility, Stands, ThreadInv, ClientSound
  <2>2. [client[c] EXCEPT !.at = "point"].at = "point"
    BY <2>1
  <2>3. QED
    BY <1>1, <1>6, <2>2, PeopleMove DEF AssignResponsibility
<1>7. CASE PointThread(c)
  BY <1>1, <1>7, PeopleMove DEF PointThread
<1>8. CASE OwnerTurn(c)
  BY <1>1, <1>8, PeopleMove DEF OwnerTurn
<1>9. CASE MakeTask(c) \/ LoseRequest(c) \/ KeepChoice(c)
  BY <1>1, <1>2, <1>9, PeopleMove DEF MakeTask, LoseRequest, KeepChoice
<1>10. CASE \E i \in DOMAIN iterations : \E named \in BOOLEAN : Revise(c, i, named)
  BY <1>1, <1>10, PeopleMove DEF Revise
<1>11. CASE Flag(c) \/ Show(c)
  <2>1. client[c] = [at |-> client[c].at, row |-> client[c].row, choice |-> client[c].choice]
    BY <1>11 DEF Flag, Show, Stands, ThreadInv, ClientSound
  <2>2. /\ [client[c] EXCEPT !.at = "show"].at = "show"
        /\ [client[c] EXCEPT !.at = "keep"].at = "keep"
    BY <2>1
  <2>3. QED
    BY <1>1, <1>11, <2>2, PeopleMove DEF Flag, Show
<1>12. CASE \E r \in DOMAIN results : Select(c, r)
  BY <1>1, <1>12, PeopleMove DEF Select
<1>13. QED
  BY <1>3, <1>4, <1>5, <1>6, <1>7, <1>8, <1>9, <1>10, <1>11, <1>12

\* The steps of an explanation, whose speaker is somebody.
LEMMA ExplanationKeepsPeople ==
  ASSUME PeopleInv, ThreadInv, NEW c \in Clients,
         \/ \E i \in DOMAIN iterations : RequestExplanation(c, i)
         \/ AnswerTurn(c) \/ WelcomeSpeaker(c)
  PROVE  PeopleInv'
<1>1. Nobody \notin participants
  BY DEF PeopleInv
<1>2. ASSUME NEW i \in DOMAIN iterations, RequestExplanation(c, i) PROVE PeopleInv'
  <2> DEFINE last == LastOf({k \in DOMAIN runs : runs[k].of = i})
             s == << IF last = 0 THEN Nobody ELSE runs[last].agent, iterations[i].responsible,
                     Addressed(i), "explainer" >>
  <2>1. DOMAIN s \subseteq Nat /\ 4 \in DOMAIN s /\ s[4] # Nobody
    BY DEF Nobody
  <2>2. FirstSomeone(s) # Nobody
    <3> HIDE DEF s
    <3>1. QED
      BY <2>1, FirstIsSomeone
  <2>3. Goes(c, [at |-> "answer", new |-> i, target |-> FirstSomeone(s)]) /\ participants' = participants
    BY <1>2 DEF RequestExplanation
  <2> HIDE DEF s
  <2>4. QED
    BY <1>1, <2>2, <2>3, PeopleMove
<1>3. CASE AnswerTurn(c)
  <2>1. client[c].target # Nobody
    BY <1>3 DEF AnswerTurn, Stands, PeopleInv
  <2>2. QED
    BY <1>1, <1>3, <2>1, PeopleMove DEF AnswerTurn
<1>4. CASE WelcomeSpeaker(c)
  <2>1. client[c].target # Nobody
    BY <1>4 DEF WelcomeSpeaker, Stands, PeopleInv
  <2>2. Away.at = "away" /\ Nobody \notin participants'
    BY <1>1, <1>4, <2>1 DEF Away, WelcomeSpeaker
  <2>3. QED
    BY <1>4, <2>2, PeopleMove DEF WelcomeSpeaker
<1>5. QED
  BY <1>2, <1>3, <1>4

LEMMA PeopleKeep ==
  ASSUME PeopleInv, ThreadInv, [ThreadNext]_threadVars PROVE PeopleInv'
<1>1. CASE UNCHANGED threadVars
  BY <1>1 DEF threadVars, PeopleInv
<1>2. ASSUME NEW c \in Clients,
             \/ MakeThread(c) \/ JoinOwner(c) \/ MakeIteration(c) \/ AssignResponsibility(c)
             \/ PointThread(c) \/ OwnerTurn(c) \/ MakeTask(c) \/ LoseRequest(c)
             \/ \E i \in DOMAIN iterations : \E named \in BOOLEAN : Revise(c, i, named)
             \/ Flag(c) \/ Show(c) \/ KeepChoice(c) \/ \E r \in DOMAIN results : Select(c, r)
      PROVE  PeopleInv'
  BY <1>2, RequestsKeepPeople
<1>3. ASSUME NEW c \in Clients,
             \/ \E i \in DOMAIN iterations : RequestExplanation(c, i)
             \/ AnswerTurn(c) \/ WelcomeSpeaker(c)
      PROVE  PeopleInv'
  BY <1>3, ExplanationKeepsPeople
<1>4. ASSUME NEW i \in DOMAIN iterations,
             RegisterResult(i) \/ SyncRun(i) \/ \E to \in Someone : AppendTurn(i, to)
      PROVE  PeopleInv'
  <2>1. client' = client /\ Nobody \notin participants'
    BY <1>4 DEF RegisterResult, SyncRun, AppendTurn, PeopleInv
  <2>2. QED
    BY <2>1 DEF PeopleInv
<1>5. ASSUME NEW p, \/ p \in Agents \cup {"owner"} /\ UpsertParticipant(p)
                    \/ p \in participants /\ RemoveParticipant(p)
      PROVE  PeopleInv'
  <2>1. client' = client /\ Nobody \notin participants'
    BY <1>5, NobodyTakesPart DEF UpsertParticipant, RemoveParticipant, PeopleInv, Participant
  <2>2. QED
    BY <2>1 DEF PeopleInv
<1>6. Authors \subseteq Clients /\ Choosers \subseteq Clients
  BY DEF Clients
<1>7. QED
  BY <1>1, <1>2, <1>3, <1>4, <1>5, <1>6 DEF ThreadNext, ThreadSteps

\* Turns and runs are listed in the order in which they came.
WitnessInv == (\E S : turns \in Seq(S)) /\ (\E S : runs \in Seq(S))

LEMMA TurnIsListed ==
  ASSUME WitnessInv, NEW turn, TakeTurn(turn) PROVE \E S : turns' \in Seq(S)
<1>1. PICK S : turns \in Seq(S)
  BY DEF WitnessInv
<1>2. Append(turns, turn) \in Seq(S \cup {turn})
  BY <1>1, LongerRows
<1>3. QED
  BY <1>1, <1>2 DEF TakeTurn

LEMMA RunIsListed ==
  ASSUME WitnessInv, NEW run, WriteRun(run) PROVE \E S : runs' \in Seq(S)
<1> DEFINE found == {k \in DOMAIN runs : runs[k].of = run.of}
           k == LastOf(found)
<1>1. PICK S : runs \in Seq(S)
  BY DEF WitnessInv
<1>2. DOMAIN runs = 1 .. Len(runs) /\ Len(runs) \in Nat
  BY <1>1
<1>3. k = 0 \/ k \in 1 .. Len(runs)
  BY <1>2, LastIsFound
<1>4. runs' = IF k = 0 THEN Append(runs, run) ELSE [runs EXCEPT ![k] = run]
  BY DEF WriteRun
<1> HIDE DEF k
<1>5. Append(runs, run) \in Seq(S \cup {run})
  BY <1>1, LongerRows
<1>6. k # 0 => [runs EXCEPT ![k] = run] \in Seq(S \cup {run})
  BY <1>1, <1>3, ChangedRows
<1>7. QED
  BY <1>4, <1>5, <1>6

LEMMA WitnessesKeep ==
  ASSUME WitnessInv, [ThreadNext]_threadVars PROVE WitnessInv'
<1>1. (\E turn : TakeTurn(turn)) \/ turns' = turns
  BY DEF ThreadNext, ThreadSteps, threadVars, MakeThread, JoinOwner, MakeIteration,
         AssignResponsibility, PointThread, OwnerTurn, MakeTask, AnswerTurn, WelcomeSpeaker,
         RequestExplanation, Revise, Flag, Show, KeepChoice, Select, RegisterResult, SyncRun,
         AppendTurn, UpsertParticipant, RemoveParticipant, LoseRequest
<1>2. (\E run : WriteRun(run)) \/ runs' = runs
  BY DEF ThreadNext, ThreadSteps, threadVars, MakeThread, JoinOwner, MakeIteration,
         AssignResponsibility, PointThread, OwnerTurn, MakeTask, AnswerTurn, WelcomeSpeaker,
         RequestExplanation, Revise, Flag, Show, KeepChoice, Select, RegisterResult, SyncRun,
         AppendTurn, UpsertParticipant, RemoveParticipant, LoseRequest
<1>3. QED
  BY <1>1, <1>2, TurnIsListed, RunIsListed DEF WitnessInv

LEMMA PlaceOfLast ==
  ASSUME WitnessInv
  PROVE  /\ \A found \in SUBSET DOMAIN turns : LastOf(found) \in found \cup {0}
         /\ \A found \in SUBSET DOMAIN runs : LastOf(found) \in found \cup {0}
         /\ 0 \notin DOMAIN turns /\ 0 \notin DOMAIN runs
<1>1. DOMAIN turns = 1 .. Len(turns) /\ Len(turns) \in Nat
  BY DEF WitnessInv
<1>2. DOMAIN runs = 1 .. Len(runs) /\ Len(runs) \in Nat
  BY DEF WitnessInv
<1>3. 0 \notin DOMAIN turns /\ 0 \notin DOMAIN runs
  BY <1>1, <1>2
<1>4. QED
  BY <1>1, <1>2, <1>3, LastIsFound

\* The service and the surface find the same one among the witnesses of each kind.
LEMMA SameAddressee ==
  ASSUME WitnessInv, Nobody \notin participants, participants # {}, NEW i
  PROVE  ComposerParticipant(i) = Addressed(i)
<1> DEFINE told(here) == [k \in DOMAIN turns |-> IF turns[k].of \in here THEN turns[k].to ELSE Nobody]
           said(here) == [k \in DOMAIN turns |-> IF turns[k].of \in here /\ turns[k].speaker # "owner"
                                                 THEN turns[k].speaker ELSE Nobody]
           ran == [k \in DOMAIN runs |-> IF runs[k].of = i THEN runs[k].agent ELSE Nobody]
           responsible == iterations[i].responsible
           newest(s) == LET k == LastOf({k \in DOMAIN s : s[k] \in Shown})
                        IN IF k = 0 THEN Nobody ELSE s[k]
<1>1. Shown = participants
  BY DEF Shown
<1>2. ASSUME NEW here PROVE newest(told(here)) = AddressedIn(here)
  <2> DEFINE found == {k \in DOMAIN turns : turns[k].of \in here /\ turns[k].to \in participants}
  <2>1. {k \in DOMAIN told(here) : told(here)[k] \in Shown} = found
    BY <1>1
  <2>2. LastOf(found) \in found => told(here)[LastOf(found)] = turns[LastOf(found)].to
    OBVIOUS
  <2>3. LastOf(found) = 0 \/ LastOf(found) \in found
    BY PlaceOfLast
  <2>4. QED
    BY <2>1, <2>2, <2>3 DEF AddressedIn
<1>3. ASSUME NEW here PROVE newest(said(here)) = SpokenIn(here)
  <2> DEFINE found == {k \in DOMAIN turns : /\ turns[k].of \in here
                                            /\ turns[k].speaker \in participants \ {"owner"}}
  <2>1. {k \in DOMAIN said(here) : said(here)[k] \in Shown} = found
    BY <1>1
  <2>2. LastOf(found) \in found => said(here)[LastOf(found)] = turns[LastOf(found)].speaker
    OBVIOUS
  <2>3. LastOf(found) = 0 \/ LastOf(found) \in found
    BY PlaceOfLast
  <2>4. QED
    BY <2>1, <2>2, <2>3 DEF SpokenIn
<1>4. newest(ran) = RanIn(i)
  <2> DEFINE found == {k \in DOMAIN runs : runs[k].of = i /\ runs[k].agent \in participants}
  <2>1. {k \in DOMAIN ran : ran[k] \in Shown} = found
    BY <1>1
  <2>2. LastOf(found) \in found => ran[LastOf(found)] = runs[LastOf(found)].agent
    OBVIOUS
  <2>3. LastOf(found) = 0 \/ LastOf(found) \in found
    BY PlaceOfLast
  <2>4. QED
    BY <2>1, <2>2, <2>3 DEF RanIn
<1>5. newest(<<responsible>>) = IF responsible \in participants THEN responsible ELSE Nobody
  <2> DEFINE s == <<responsible>>
  <2>1. DOMAIN s = {1} /\ s[1] = responsible
    OBVIOUS
  <2>2. CASE responsible \in participants
    <3>1. {k \in DOMAIN s : s[k] \in Shown} = {1}
      BY <1>1, <2>1, <2>2
    <3>2. LastOf({1}) = 1
      BY LastIsFound DEF LastOf
    <3>3. QED
      BY <2>1, <2>2, <3>1, <3>2
  <2>3. CASE responsible \notin participants
    <3>1. {k \in DOMAIN s : s[k] \in Shown} = {}
      BY <1>1, <2>1, <2>3
    <3>2. LastOf({}) = 0
      BY DEF LastOf
    <3>3. QED
      BY <2>3, <3>1, <3>2
  <2>4. QED
    BY <2>2, <2>3
<1>6. ComposerParticipant(i) =
        FirstSomeone(<< newest(<<responsible>>), newest(told({i})), newest(ran), newest(said({i})),
                        newest(told(DOMAIN iterations)), newest(said(DOMAIN iterations)) >>)
  BY DEF ComposerParticipant
<1> HIDE DEF newest, told, said, ran
<1>7. QED
  BY <1>2, <1>3, <1>4, <1>5, <1>6 DEF Addressed

\* The two choose a result when there is one, and the same one unless two of the iteration
\* have been selected.
LEMMA SameResult ==
  ASSUME ThreadInv, NEW i \in 1 .. Len(iterations)
  PROVE  LET announced == ComposerResult(i)
             flagged == {r \in DOMAIN results : results[r].of = i /\ results[r].flagged}
         IN /\ announced # 0 <=> TargetResult(i) # 0
            /\ announced # 0 => results[announced].of = i
            /\ (\A r, q \in flagged : r = q) => announced = TargetResult(i)
<1> DEFINE chosen == iterations[i].selected
           flagged == {r \in DOMAIN results : results[r].of = i /\ results[r].flagged}
           every == {r \in DOMAIN results : results[r].of = i}
<1>1. Len(results) \in Nat /\ DOMAIN results = 1 .. Len(results)
  BY DEF ThreadInv
<1>2. (FlaggedIn(i) = 0 /\ flagged = {}) \/ FlaggedIn(i) \in flagged
  BY <1>1, LastIsFound DEF FlaggedIn
<1>3. (NewestIn(i) = 0 /\ every = {}) \/ NewestIn(i) \in every
  BY <1>1, LastIsFound DEF NewestIn
<1>4. chosen = 0 \/ chosen \in flagged
  BY <1>1 DEF ThreadInv, IterationSound, ResultOf, FlaggedResult
<1>5. TargetResult(i) = IF chosen # 0 THEN chosen ELSE IF FlaggedIn(i) # 0 THEN FlaggedIn(i) ELSE NewestIn(i)
  BY FirstOfThree DEF TargetResult, FirstFound
<1>6. ComposerResult(i) = IF FlaggedIn(i) # 0 THEN FlaggedIn(i) ELSE IF chosen # 0 THEN chosen ELSE NewestIn(i)
  BY FirstOfThree DEF ComposerResult, FirstFound
<1>7. 0 \notin flagged /\ 0 \notin every
  BY <1>1
<1>8. \A r \in flagged \cup every : results[r].of = i
  OBVIOUS
<1>9. flagged = {} => chosen = 0
  BY <1>4
<1> HIDE DEF chosen, flagged, every
<1>10. ComposerResult(i) # 0 <=> TargetResult(i) # 0
  BY <1>2, <1>5, <1>6, <1>7
<1>11. ComposerResult(i) # 0 => results[ComposerResult(i)].of = i
  BY <1>2, <1>3, <1>4, <1>6, <1>8
<1>12. (\A r, q \in flagged : r = q) => ComposerResult(i) = TargetResult(i)
  BY <1>2, <1>4, <1>5, <1>6, <1>7
<1>13. QED
  BY <1>10, <1>11, <1>12 DEF flagged

\* Whatever turns, runs, participants and selections there are, the composer of every iteration
\* announces the participant and the result that the service takes
\* (video_projection_composer_target.py against video_thread_service.py).
THEOREM ComposerTellsAddressee == ThreadSpec => []ComposerNamesAddressee
<1> DEFINE Inv == ThreadInv /\ PeopleInv /\ WitnessInv
<1>1. ThreadInit => Inv
  <2> SUFFICES ASSUME ThreadInit PROVE Inv
    OBVIOUS
  <2>1. << >> \in Seq({})
    OBVIOUS
  <2>2. WitnessInv
    BY <2>1 DEF ThreadInit, WitnessInv
  <2>3. PeopleInv
    BY DEF ThreadInit, PeopleInv, Away
  <2>4. QED
    BY <2>2, <2>3, InitThread
<1>2. Inv /\ [ThreadNext]_threadVars => Inv'
  BY ThreadKeeps, PeopleKeep, WitnessesKeep
<1>3. Inv => ComposerNamesAddressee
  <2> SUFFICES ASSUME Inv, NEW i \in DOMAIN iterations
               PROVE  LET announced == ComposerResult(i)
                          flagged == {r \in DOMAIN results : results[r].of = i /\ results[r].flagged}
                      IN /\ participants # {} => ComposerParticipant(i) = Addressed(i)
                         /\ announced # 0 <=> TargetResult(i) # 0
                         /\ announced # 0 => results[announced].of = i
                         /\ (\A r, q \in flagged : r = q) => announced = TargetResult(i)
    BY DEF ComposerNamesAddressee
  <2>1. i \in 1 .. Len(iterations)
    BY DEF ThreadInv
  <2>2. participants # {} => ComposerParticipant(i) = Addressed(i)
    BY SameAddressee DEF PeopleInv
  <2>3. QED
    BY <2>1, <2>2, SameResult
<1> HIDE DEF Inv
<1>4. QED
  BY <1>1, <1>2, <1>3, PTL DEF ThreadSpec

-----------------------------------------------------------------------------
(* The types of a thread: whom a request addresses and what it starts from   *)
(* was found in the rows, which name iterations and results within bounds.   *)

ThreadRow == [current : 0 .. MaxIterations, selected : 0 .. MaxResults]
ResultRow == [of : 1 .. MaxIterations, flagged : BOOLEAN]

ClientTyped(self) ==
  /\ self.at = "iterate" => /\ self.row \in ThreadRow /\ self.target \in Someone
                            /\ self.parent \in 0 .. MaxIterations /\ self.source \in 0 .. MaxResults
  /\ self.at \in {"assign", "point"} => self.row \in ThreadRow
  /\ self.at \in {"assign", "point", "turn"} => self.target \in Someone
  /\ self.at \in {"assign", "point", "turn", "task", "answer"} => self.new \in 1 .. MaxIterations
  /\ self.at \in {"answer", "welcome"} => self.target \in Someone

ClientsTyped == \A c \in Clients : ClientTyped(client[c])

ThreadTyped ==
  /\ ThreadTypeOK
  /\ Len(iterations) <= MaxIterations /\ Len(results) <= MaxResults

ThreadAll == ThreadInv /\ PeopleInv /\ WitnessInv /\ ThreadTyped /\ ClientsTyped

LEMMA FirstIsAmong ==
  ASSUME NEW none, NEW s, DOMAIN s \subseteq Nat
  PROVE  FirstBut(none, s) = none \/ \E k \in DOMAIN s : FirstBut(none, s) = s[k]
<1> DEFINE found == {l \in DOMAIN s : s[l] # none}
           first == CHOOSE l \in found : \A m \in found : l <= m
<1>1. CASE found = {}
  BY <1>1 DEF FirstBut
<1>2. CASE found # {}
  <2>1. found \in SUBSET Nat
    OBVIOUS
  <2>2. first \in found
    <3> HIDE DEF found
    <3>1. \E l \in found : \A m \in found : l <= m
      BY <1>2, <2>1, LeastNumber
    <3>2. QED
      BY <3>1
  <2>3. FirstBut(none, s) = s[first]
    BY <1>2 DEF FirstBut
  <2> HIDE DEF first
  <2>4. QED
    BY <2>2, <2>3
<1>3. QED
  BY <1>1, <1>2

LEMMA WitnessIsSomeone ==
  ASSUME WitnessInv, ThreadTypeOK, NEW here, NEW i
  PROVE  AddressedIn(here) \in Someone /\ SpokenIn(here) \in Someone /\ RanIn(i) \in Someone
<1>1. Nobody \in Someone /\ Participant \subseteq Someone
  BY DEF Someone
<1>2. AddressedIn(here) \in Someone
  <2> DEFINE found == {k \in DOMAIN turns : turns[k].of \in here /\ turns[k].to \in participants}
             k == LastOf(found)
  <2>1. k = 0 \/ k \in DOMAIN turns
    BY PlaceOfLast
  <2>2. AddressedIn(here) = IF k = 0 THEN Nobody ELSE turns[k].to
    BY DEF AddressedIn
  <2> HIDE DEF k
  <2>3. QED
    BY <1>1, <2>1, <2>2 DEF ThreadTypeOK, Turn
<1>3. SpokenIn(here) \in Someone
  <2> DEFINE found == {l \in DOMAIN turns : /\ turns[l].of \in here
                                            /\ turns[l].speaker \in participants \ {"owner"}}
             k == LastOf(found)
  <2>1. k = 0 \/ k \in DOMAIN turns
    BY PlaceOfLast
  <2>2. SpokenIn(here) = IF k = 0 THEN Nobody ELSE turns[k].speaker
    BY DEF SpokenIn
  <2> HIDE DEF k
  <2>3. QED
    BY <1>1, <2>1, <2>2 DEF ThreadTypeOK, Turn
<1>4. RanIn(i) \in Someone
  <2> DEFINE found == {k \in DOMAIN runs : runs[k].of = i /\ runs[k].agent \in participants}
             k == LastOf(found)
  <2>1. k = 0 \/ k \in DOMAIN runs
    BY PlaceOfLast
  <2>2. RanIn(i) = IF k = 0 THEN Nobody ELSE runs[k].agent
    BY DEF RanIn
  <2> HIDE DEF k
  <2>3. QED
    BY <1>1, <2>1, <2>2 DEF ThreadTypeOK, AgentRun
<1>5. QED
  BY <1>2, <1>3, <1>4

LEMMA AddressedIsSomeone ==
  ASSUME WitnessInv, ThreadTypeOK, NEW i \in DOMAIN iterations
  PROVE  Addressed(i) \in Someone /\ Continuity(i) \in Someone
<1> DEFINE responsible == iterations[i].responsible
           s == << IF responsible \in participants THEN responsible ELSE Nobody,
                   AddressedIn({i}), RanIn(i), SpokenIn({i}),
                   AddressedIn(DOMAIN iterations), SpokenIn(DOMAIN iterations) >>
           t == <<Addressed(i), responsible>>
<1>1. responsible \in Someone /\ Nobody \in Someone
  BY DEF ThreadTypeOK, Iteration, Someone
<1>2. /\ AddressedIn({i}) \in Someone /\ RanIn(i) \in Someone /\ SpokenIn({i}) \in Someone
      /\ AddressedIn(DOMAIN iterations) \in Someone /\ SpokenIn(DOMAIN iterations) \in Someone
  BY WitnessIsSomeone
<1>3. DOMAIN s = 1 .. 6 /\ \A k \in 1 .. 6 : s[k] \in Someone
  BY <1>1, <1>2
<1>4. Addressed(i) = FirstBut(Nobody, s)
  BY DEF Addressed, FirstSomeone
<1>5. Addressed(i) \in Someone
  <2> HIDE DEF s
  <2>1. QED
    BY <1>1, <1>3, <1>4, FirstIsAmong
<1>6. DOMAIN t = 1 .. 2 /\ \A k \in 1 .. 2 : t[k] \in Someone
  BY <1>1, <1>5
<1>7. Continuity(i) = FirstBut(Nobody, t)
  BY DEF Continuity, FirstSomeone
<1>8. Continuity(i) \in Someone
  <2> HIDE DEF t
  <2>1. QED
    BY <1>1, <1>6, <1>7, FirstIsAmong
<1>9. QED
  BY <1>5, <1>8

LEMMA TurnIsTyped ==
  ASSUME WitnessInv, NEW turn \in Turn, TakeTurn(turn), \A t \in DOMAIN turns : turns[t] \in Turn
  PROVE  \A t \in DOMAIN turns' : turns'[t] \in Turn
<1>1. PICK S : turns \in Seq(S)
  BY DEF WitnessInv
<1>2. turns \in Seq(Turn)
  BY <1>1
<1>3. turns' \in Seq(Turn)
  BY <1>2 DEF TakeTurn
<1>4. QED
  BY <1>3

LEMMA RunIsTyped ==
  ASSUME WitnessInv, NEW run \in AgentRun, WriteRun(run), \A u \in DOMAIN runs : runs[u] \in AgentRun
  PROVE  \A u \in DOMAIN runs' : runs'[u] \in AgentRun
<1> DEFINE found == {k \in DOMAIN runs : runs[k].of = run.of}
           k == LastOf(found)
<1>1. PICK S : runs \in Seq(S)
  BY DEF WitnessInv
<1>2. runs \in Seq(AgentRun)
  BY <1>1
<1>3. k = 0 \/ k \in 1 .. Len(runs)
  BY <1>1, PlaceOfLast
<1>4. runs' = IF k = 0 THEN Append(runs, run) ELSE [runs EXCEPT ![k] = run]
  BY DEF WriteRun
<1> HIDE DEF k
<1>5. runs' \in Seq(AgentRun)
  BY <1>2, <1>3, <1>4
<1>6. QED
  BY <1>5

LEMMA ClientMoves ==
  ASSUME ThreadAll, NEW c \in Clients, NEW state, Goes(c, state), ClientTyped(state)
  PROVE  ClientsTyped'
<1>1. \A d \in Clients : client'[d] = IF d = c THEN state ELSE client[d]
  BY DEF Goes, ThreadAll, ThreadInv
<1>2. \A d \in Clients : ClientTyped(client'[d])
  BY <1>1 DEF ThreadAll, ClientsTyped
<1>3. QED
  BY <1>2 DEF ClientsTyped

LEMMA AwayIsTyped == ClientTyped(Away)
BY DEF Away, ClientTyped

LEMMA RowsStay ==
  ASSUME ThreadTyped, UNCHANGED <<thread, iterations, results, turns, runs, participants>>
  PROVE  ThreadTyped'
BY DEF ThreadTyped, ThreadTypeOK

LEMMA ThreadBounds ==
  ASSUME ThreadAll
  PROVE  /\ DOMAIN iterations = 1 .. Len(iterations) /\ DOMAIN iterations \subseteq 1 .. MaxIterations
         /\ DOMAIN results = 1 .. Len(results) /\ DOMAIN results \subseteq 1 .. MaxResults
         /\ MaxIterations \in Nat /\ MaxResults \in Nat
         /\ Len(iterations) \in Nat /\ Len(results) \in Nat
<1>1. MaxIterations \in Nat /\ MaxResults \in Nat
  BY ThreadAssumption
<1>2. DOMAIN iterations = 1 .. Len(iterations) /\ Len(iterations) \in Nat
  BY DEF ThreadAll, ThreadInv
<1>3. DOMAIN results = 1 .. Len(results) /\ Len(results) \in Nat
  BY DEF ThreadAll, ThreadInv
<1>4. Len(iterations) <= MaxIterations /\ Len(results) <= MaxResults
  BY DEF ThreadAll, ThreadTyped
<1>5. QED
  BY <1>1, <1>2, <1>3, <1>4

LEMMA TargetIsBounded ==
  ASSUME ThreadAll, NEW i \in DOMAIN iterations
  PROVE  TargetResult(i) \in 0 .. MaxResults
<1>1. ResultOf(TargetResult(i), i, results)
  BY ThreadBounds, TargetIsOwn DEF ThreadAll
<1>2. QED
  BY <1>1, ThreadBounds DEF ResultOf

\* An iteration row changes in one place.
LEMMA IterationChanges ==
  ASSUME ThreadAll, NEW n, NEW row, iterations' = [iterations EXCEPT ![n] = row],
         n \in DOMAIN iterations => row \in Iteration,
         UNCHANGED <<thread, results, turns, runs, participants>>
  PROVE  ThreadTyped'
<1>1. DOMAIN iterations' = DOMAIN iterations
  OBVIOUS
<1>2. \A i \in DOMAIN iterations : iterations'[i] = IF i = n THEN row ELSE iterations[i]
  OBVIOUS
<1>3. \A i \in DOMAIN iterations' : iterations'[i] \in Iteration
  BY <1>1, <1>2 DEF ThreadAll, ThreadTyped, ThreadTypeOK
<1>4. Len(iterations') = Len(iterations)
  <2>1. PICK S : iterations \in Seq(S)
    BY DEF ThreadAll, ThreadInv
  <2>2. CASE n \in 1 .. Len(iterations)
    BY <2>1, <2>2, ChangedRows
  <2>3. CASE n \notin 1 .. Len(iterations)
    <3>1. n \notin DOMAIN iterations
      BY <2>1, <2>3
    <3>2. iterations' = [i \in DOMAIN iterations |-> iterations[i]]
      BY <1>1, <1>2, <3>1
    <3>3. iterations' = iterations
      BY <2>1, <3>2
    <3>4. QED
      BY <3>3
  <2>4. QED
    BY <2>2, <2>3
<1>5. QED
  BY <1>3, <1>4 DEF ThreadAll, ThreadTyped, ThreadTypeOK

LEMMA RevisionTypes ==
  ASSUME ThreadAll, NEW c \in Clients,
         \/ MakeThread(c) \/ JoinOwner(c) \/ MakeIteration(c) \/ AssignResponsibility(c)
         \/ PointThread(c) \/ OwnerTurn(c) \/ MakeTask(c) \/ LoseRequest(c)
         \/ \E i \in DOMAIN iterations : \E named \in BOOLEAN : Revise(c, i, named)
  PROVE  ThreadTyped' /\ ClientsTyped'
<1> USE ThreadBounds
<1> DEFINE self == client[c]
<1>1. ClientTyped(self) /\ ThreadTyped /\ ThreadTypeOK
  BY DEF ThreadAll, ClientsTyped, ThreadTyped
<1>2. Nobody \in Someone /\ Participant \subseteq Someone /\ "owner" \in Participant
  BY DEF Someone, Participant
<1>3. thread # {} => TheThread \in ThreadRow
  BY <1>1 DEF TheThread, ThreadTypeOK, ThreadRow
<1>4. CASE MakeThread(c)
  <2> DEFINE row == [current |-> 0, selected |-> 0]
  <2>1. row \in ThreadRow
    BY DEF ThreadRow
  <2>2. thread' = {row} /\ Goes(c, [at |-> "join"]) /\ UNCHANGED <<iterations, results, turns, runs, participants>>
    BY <1>4 DEF MakeThread
  <2>3. ClientTyped([at |-> "join"])
    BY DEF ClientTyped
  <2> HIDE DEF row
  <2>4. ThreadTyped'
    BY <1>1, <2>1, <2>2 DEF ThreadTyped, ThreadTypeOK, ThreadRow
  <2>5. QED
    BY <2>2, <2>3, <2>4, ClientMoves
<1>5. CASE JoinOwner(c)
  <2> DEFINE state == [at |-> "iterate", row |-> TheThread, parent |-> 0, source |-> 0, target |-> Nobody]
  <2>1. thread # {}
    BY <1>5 DEF JoinOwner, Stands, ThreadAll, ThreadInv
  <2>2. /\ state.at = "iterate" /\ state.row = TheThread /\ state.parent = 0 /\ state.source = 0
        /\ state.target = Nobody
    OBVIOUS
  <2>3. Goes(c, state) /\ UNCHANGED <<thread, iterations, results, turns, runs>>
        /\ participants' = participants \cup {"owner"}
    BY <1>5 DEF JoinOwner
  <2> HIDE DEF state
  <2>4. ClientTyped(state)
    BY <1>2, <1>3, <2>1, <2>2 DEF ClientTyped
  <2>5. ThreadTyped'
    BY <1>1, <1>2, <2>3 DEF ThreadTyped, ThreadTypeOK
  <2>6. QED
    BY <2>3, <2>4, <2>5, ClientMoves
<1>6. ASSUME NEW i \in DOMAIN iterations, NEW named \in BOOLEAN, Revise(c, i, named)
      PROVE  ThreadTyped' /\ ClientsTyped'
  <2> DEFINE state == [at |-> "iterate", row |-> TheThread, parent |-> i, source |-> TargetResult(i),
                       target |-> Continuity(i)]
  <2>1. thread # {} /\ Goes(c, state) /\ UNCHANGED <<thread, iterations, results, turns, runs, participants>>
    BY <1>6 DEF Revise
  <2>2. /\ state.at = "iterate" /\ state.row = TheThread /\ state.parent = i
        /\ state.source = TargetResult(i) /\ state.target = Continuity(i)
    OBVIOUS
  <2> HIDE DEF state
  <2>3. TargetResult(i) \in 0 .. MaxResults /\ Continuity(i) \in Someone /\ i \in 0 .. MaxIterations
    BY <1>1, TargetIsBounded, AddressedIsSomeone DEF ThreadAll
  <2>4. ClientTyped(state)
    BY <1>3, <2>1, <2>2, <2>3 DEF ClientTyped
  <2>5. QED
    BY <1>1, <2>1, <2>4, RowsStay, ClientMoves
<1>7. CASE MakeIteration(c)
  <2> DEFINE new == [parent |-> self.parent, source |-> self.source, selected |-> 0,
                     responsible |-> Nobody, task |-> FALSE]
             state == [at |-> "assign", row |-> self.row, target |-> self.target, new |-> Len(iterations')]
  <2>1. /\ self.at = "iterate" /\ Len(iterations) < MaxIterations /\ iterations' = Append(iterations, new)
        /\ Goes(c, state) /\ UNCHANGED <<thread, results, turns, runs, participants>>
    BY <1>7 DEF MakeIteration, Stands
  <2>2. /\ self.row \in ThreadRow /\ self.target \in Someone
        /\ self.parent \in 0 .. MaxIterations /\ self.source \in 0 .. MaxResults
    BY <1>1, <2>1 DEF ClientTyped
  <2>3. new \in Iteration
    BY <1>2, <2>2 DEF Iteration
  <2>4. state.at = "assign" /\ state.row = self.row /\ state.target = self.target /\ state.new = Len(iterations')
    OBVIOUS
  <2> HIDE DEF new, state, self
  <2>5. PICK S : iterations \in Seq(S)
    BY DEF ThreadAll, ThreadInv
  <2>6. /\ Len(iterations') = Len(iterations) + 1 /\ iterations'[Len(iterations) + 1] = new
        /\ \A i \in 1 .. Len(iterations) : iterations'[i] = iterations[i]
        /\ DOMAIN iterations' = 1 .. Len(iterations) + 1
    BY <2>1, <2>5
  <2>7. \A i \in DOMAIN iterations' : iterations'[i] \in Iteration
    BY <1>1, <2>3, <2>6 DEF ThreadTypeOK
  <2>8. Len(iterations') \in 1 .. MaxIterations
    BY <2>1, <2>6
  <2>9. ThreadTyped'
    BY <1>1, <2>1, <2>7, <2>8 DEF ThreadTyped, ThreadTypeOK
  <2>10. ClientTyped(state)
    BY <2>2, <2>4, <2>8 DEF ClientTyped
  <2>11. QED
    BY <2>1, <2>9, <2>10, ClientMoves
<1>8. CASE AssignResponsibility(c)
  <2> DEFINE n == self.new
             row == [iterations[n] EXCEPT !.responsible = self.target]
             state == [self EXCEPT !.at = "point"]
  <2>1. self.at = "assign" /\ self.row \in ThreadRow /\ self.target \in Someone /\ n \in 1 .. MaxIterations
    BY <1>1, <1>8 DEF AssignResponsibility, Stands, ClientTyped
  <2>2. self = [at |-> self.at, row |-> self.row, target |-> self.target, new |-> self.new]
    BY <2>1 DEF ThreadAll, ThreadInv, ClientSound
  <2>3. /\ iterations' = [iterations EXCEPT ![n] = row] /\ Goes(c, state)
        /\ UNCHANGED <<thread, results, turns, runs, participants>>
    BY <1>8 DEF AssignResponsibility
  <2>4. n \in DOMAIN iterations => row \in Iteration
    BY <1>1, <2>1 DEF ThreadTypeOK, Iteration
  <2>5. state.at = "point" /\ state.row = self.row /\ state.target = self.target /\ state.new = n
    BY <2>2
  <2> HIDE DEF row, state, self, n
  <2>6. ClientTyped(state)
    BY <2>1, <2>5 DEF ClientTyped
  <2>7. QED
    BY <2>3, <2>4, <2>6, IterationChanges, ClientMoves
<1>9. CASE PointThread(c)
  <2> DEFINE row == [self.row EXCEPT !.current = self.new]
             state == [at |-> "turn", new |-> self.new, target |-> self.target]
  <2>1. self.row \in ThreadRow /\ self.target \in Someone /\ self.new \in 1 .. MaxIterations
    BY <1>1, <1>9 DEF PointThread, Stands, ClientTyped
  <2>2. /\ thread' = {row} /\ Goes(c, state) /\ UNCHANGED <<iterations, results, turns, runs, participants>>
    BY <1>9 DEF PointThread
  <2>3. row \in ThreadRow
    BY <2>1 DEF ThreadRow
  <2>4. state.at = "turn" /\ state.new = self.new /\ state.target = self.target
    OBVIOUS
  <2> HIDE DEF row, state, self
  <2>5. ThreadTyped'
    BY <1>1, <2>2, <2>3 DEF ThreadTyped, ThreadTypeOK, ThreadRow
  <2>6. ClientTyped(state)
    BY <2>1, <2>4 DEF ClientTyped
  <2>7. QED
    BY <2>2, <2>5, <2>6, ClientMoves
<1>10. CASE OwnerTurn(c)
  <2> DEFINE turn == [of |-> self.new, speaker |-> "owner", to |-> self.target]
             state == [at |-> "task", new |-> self.new]
  <2>1. self.target \in Someone /\ self.new \in 1 .. MaxIterations
    BY <1>1, <1>10 DEF OwnerTurn, Stands, ClientTyped
  <2>2. TakeTurn(turn) /\ Goes(c, state) /\ UNCHANGED <<thread, iterations, results, runs, participants>>
    BY <1>10 DEF OwnerTurn
  <2>3. turn \in Turn
    BY <1>2, <2>1 DEF Turn
  <2>4. state.at = "task" /\ state.new = self.new
    OBVIOUS
  <2> HIDE DEF turn, state, self
  <2>5. \A t \in DOMAIN turns' : turns'[t] \in Turn
    BY <1>1, <2>2, <2>3, TurnIsTyped DEF ThreadAll, ThreadTypeOK
  <2>6. ThreadTyped'
    BY <1>1, <2>2, <2>5 DEF ThreadTyped, ThreadTypeOK
  <2>7. ClientTyped(state)
    BY <2>1, <2>4 DEF ClientTyped
  <2>8. QED
    BY <2>2, <2>6, <2>7, ClientMoves
<1>11. CASE MakeTask(c)
  <2> DEFINE n == self.new
  <2>1. PICK accepted \in BOOLEAN : iterations' = [iterations EXCEPT ![n].task = accepted]
    BY <1>11 DEF MakeTask
  <2> DEFINE row == [iterations[n] EXCEPT !.task = accepted]
  <2>2. Goes(c, Away) /\ UNCHANGED <<thread, results, turns, runs, participants>>
    BY <1>11 DEF MakeTask
  <2>3. n \in DOMAIN iterations => row \in Iteration
    BY <1>1 DEF ThreadTypeOK, Iteration
  <2>4. iterations' = [iterations EXCEPT ![n] = row]
    BY <2>1
  <2> HIDE DEF row, n
  <2>5. QED
    BY <2>2, <2>3, <2>4, IterationChanges, AwayIsTyped, ClientMoves
<1>12. CASE LoseRequest(c)
  BY <1>1, <1>12, RowsStay, AwayIsTyped, ClientMoves DEF LoseRequest
<1>13. QED
  BY <1>4, <1>5, <1>6, <1>7, <1>8, <1>9, <1>10, <1>11, <1>12

LEMMA SelectionTypes ==
  ASSUME ThreadAll, NEW c \in Clients,
         Flag(c) \/ Show(c) \/ KeepChoice(c) \/ \E r \in DOMAIN results : Select(c, r)
  PROVE  ThreadTyped' /\ ClientsTyped'
<1> USE ThreadBounds
<1> DEFINE self == client[c]
           k == self.choice
<1>1. ClientTyped(self) /\ ThreadTyped /\ ThreadTypeOK
  BY DEF ThreadAll, ClientsTyped, ThreadTyped
<1>2. self.at \in {"flag", "show", "keep"} =>
        /\ self = [at |-> self.at, row |-> self.row, choice |-> self.choice]
        /\ k \in DOMAIN results
  BY DEF ThreadAll, ThreadInv, ClientSound
<1>3. ASSUME NEW at \in {"flag", "show", "keep"}, NEW row, NEW r
      PROVE  ClientTyped([at |-> at, row |-> row, choice |-> r])
  BY DEF ClientTyped
<1>4. ASSUME NEW r \in DOMAIN results, Select(c, r) PROVE ThreadTyped' /\ ClientsTyped'
  BY <1>1, <1>3, <1>4, RowsStay, ClientMoves DEF Select
<1>5. CASE Flag(c)
  <2> DEFINE row == [results[k] EXCEPT !.flagged = TRUE]
             state == [at |-> "show", row |-> self.row, choice |-> k]
  <2>1. k \in DOMAIN results /\ self = [at |-> self.at, row |-> self.row, choice |-> self.choice]
    BY <1>2, <1>5 DEF Flag, Stands
  <2>2. [self EXCEPT !.at = "show"] = state
    BY <2>1
  <2>3. /\ results' = [results EXCEPT ![k] = row] /\ Goes(c, state)
        /\ UNCHANGED <<thread, iterations, turns, runs, participants>>
    BY <1>5, <2>2 DEF Flag
  <2>4. row \in ResultRow
    BY <1>1, <2>1 DEF ThreadTypeOK, ResultRow
  <2>5. ClientTyped(state)
    BY <1>3
  <2> HIDE DEF row, state, k, self
  <2>6. PICK S : results \in Seq(S)
    BY DEF ThreadAll, ThreadInv
  <2>7. /\ Len(results') = Len(results) /\ DOMAIN results' = DOMAIN results
        /\ \A r \in DOMAIN results : results'[r] = IF r = k THEN row ELSE results[r]
    BY <2>1, <2>3, <2>6
  <2>8. \A r \in DOMAIN results' : results'[r] \in ResultRow
    BY <1>1, <2>4, <2>7 DEF ThreadTypeOK, ResultRow
  <2>9. ThreadTyped'
    BY <1>1, <2>3, <2>7, <2>8 DEF ThreadTyped, ThreadTypeOK, ResultRow
  <2>10. QED
    BY <2>3, <2>5, <2>9, ClientMoves
<1>6. CASE Show(c)
  <2> DEFINE row == [current |-> results[k].of, selected |-> k]
             state == [at |-> "keep", row |-> self.row, choice |-> k]
  <2>1. k \in DOMAIN results /\ self = [at |-> self.at, row |-> self.row, choice |-> self.choice]
    BY <1>2, <1>6 DEF Show, Stands
  <2>2. [self EXCEPT !.at = "keep"] = state
    BY <2>1
  <2>3. /\ thread' = {row} /\ Goes(c, state) /\ UNCHANGED <<iterations, results, turns, runs, participants>>
    BY <1>6, <2>2 DEF Show
  <2>4. row \in ThreadRow
    BY <1>1, <2>1 DEF ThreadTypeOK, ThreadRow
  <2>5. ClientTyped(state)
    BY <1>3
  <2> HIDE DEF row, state, k, self
  <2>6. ThreadTyped'
    BY <1>1, <2>3, <2>4 DEF ThreadTyped, ThreadTypeOK, ThreadRow
  <2>7. QED
    BY <2>3, <2>5, <2>6, ClientMoves
<1>7. CASE KeepChoice(c)
  <2> DEFINE n == results[k].of
             row == [iterations[n] EXCEPT !.selected = k]
  <2>1. k \in DOMAIN results
    BY <1>2, <1>7 DEF KeepChoice, Stands
  <2>2. /\ iterations' = [iterations EXCEPT ![n] = row] /\ Goes(c, Away)
        /\ UNCHANGED <<thread, results, turns, runs, participants>>
    BY <1>7 DEF KeepChoice
  <2>3. n \in DOMAIN iterations => row \in Iteration
    <3>1. k \in 0 .. MaxResults
      BY <2>1
    <3> HIDE DEF n, k
    <3>2. n \in DOMAIN iterations => iterations[n] \in Iteration
      BY <1>1 DEF ThreadTypeOK
    <3>3. QED
      BY <3>1, <3>2 DEF Iteration
  <2> HIDE DEF row, n
  <2>4. QED
    BY <2>2, <2>3, IterationChanges, AwayIsTyped, ClientMoves
<1>8. QED
  BY <1>4, <1>5, <1>6, <1>7

LEMMA ExplanationTypes ==
  ASSUME ThreadAll, NEW c \in Clients,
         \/ \E i \in DOMAIN iterations : RequestExplanation(c, i)
         \/ AnswerTurn(c) \/ WelcomeSpeaker(c)
  PROVE  ThreadTyped' /\ ClientsTyped'
<1> USE ThreadBounds
<1> DEFINE self == client[c]
<1>1. ClientTyped(self) /\ ThreadTyped /\ ThreadTypeOK
  BY DEF ThreadAll, ClientsTyped, ThreadTyped
<1>2. Nobody \in Someone /\ Participant \subseteq Someone /\ {"owner", "explainer"} \subseteq Participant
  BY DEF Someone, Participant
<1>3. ASSUME NEW i \in DOMAIN iterations, RequestExplanation(c, i) PROVE ThreadTyped' /\ ClientsTyped'
  <2> DEFINE last == LastOf({k \in DOMAIN runs : runs[k].of = i})
             s == << IF last = 0 THEN Nobody ELSE runs[last].agent, iterations[i].responsible,
                     Addressed(i), "explainer" >>
             turn == [of |-> i, speaker |-> "owner", to |-> Addressed(i)]
             state == [at |-> "answer", new |-> i, target |-> FirstSomeone(s)]
  <2>1. last = 0 \/ last \in DOMAIN runs
    BY PlaceOfLast DEF ThreadAll
  <2>2. (IF last = 0 THEN Nobody ELSE runs[last].agent) \in Someone
    <3> HIDE DEF last
    <3>1. QED
      BY <1>1, <1>2, <2>1 DEF ThreadTypeOK, AgentRun
  <2>3. iterations[i].responsible \in Someone /\ Addressed(i) \in Someone /\ "explainer" \in Someone
    BY <1>1, <1>2, AddressedIsSomeone DEF ThreadAll, ThreadTypeOK, Iteration
  <2> HIDE DEF last
  <2>4. DOMAIN s = 1 .. 4 /\ \A k \in 1 .. 4 : s[k] \in Someone
    BY <2>2, <2>3
  <2>5. TakeTurn(turn) /\ Goes(c, state) /\ UNCHANGED <<thread, iterations, results, runs, participants>>
    BY <1>3 DEF RequestExplanation, last
  <2>6. turn \in Turn
    BY <1>2, <2>3 DEF Turn
  <2>7. state.at = "answer" /\ state.new = i /\ state.target = FirstBut(Nobody, s)
    BY DEF FirstSomeone
  <2> HIDE DEF s, turn, state
  <2>8. FirstBut(Nobody, s) \in Someone
    BY <1>2, <2>4, FirstIsAmong
  <2>9. ClientTyped(state)
    BY <2>7, <2>8 DEF ClientTyped
  <2>10. \A t \in DOMAIN turns' : turns'[t] \in Turn
    BY <1>1, <2>5, <2>6, TurnIsTyped DEF ThreadAll, ThreadTypeOK
  <2>11. ThreadTyped'
    BY <1>1, <2>5, <2>10 DEF ThreadTyped, ThreadTypeOK
  <2>12. QED
    BY <2>5, <2>9, <2>11, ClientMoves
<1>4. CASE AnswerTurn(c) \/ WelcomeSpeaker(c)
  <2>1. self.at \in {"answer", "welcome"} /\ (AnswerTurn(c) => self.at = "answer")
    BY <1>4 DEF AnswerTurn, WelcomeSpeaker, Stands
  <2>2. self.target \in Participant
    BY <1>1, <2>1 DEF ClientTyped, ThreadAll, PeopleInv, Someone
  <2>3. CASE AnswerTurn(c)
    <3> DEFINE turn == [of |-> self.new, speaker |-> self.target, to |-> Nobody]
               state == [at |-> "welcome", target |-> self.target]
    <3>1. TakeTurn(turn) /\ Goes(c, state) /\ UNCHANGED <<thread, iterations, results, runs, participants>>
      BY <2>3 DEF AnswerTurn
    <3>2. self.new \in 1 .. MaxIterations
      BY <1>1, <2>1, <2>3 DEF ClientTyped
    <3>3. turn \in Turn
      BY <1>2, <2>2, <3>2 DEF Turn
    <3>4. state.at = "welcome" /\ state.target = self.target
      OBVIOUS
    <3> HIDE DEF turn, state, self
    <3>5. ClientTyped(state)
      BY <1>2, <2>2, <3>4 DEF ClientTyped
    <3>6. \A t \in DOMAIN turns' : turns'[t] \in Turn
      BY <1>1, <3>1, <3>3, TurnIsTyped DEF ThreadAll, ThreadTypeOK
    <3>7. ThreadTyped'
      BY <1>1, <3>1, <3>6 DEF ThreadTyped, ThreadTypeOK
    <3>8. QED
      BY <3>1, <3>5, <3>7, ClientMoves
  <2>4. CASE WelcomeSpeaker(c)
    <3>1. /\ participants' = participants \cup {self.target} /\ Goes(c, Away)
          /\ UNCHANGED <<thread, iterations, results, turns, runs>>
      BY <2>4 DEF WelcomeSpeaker
    <3>2. ThreadTyped'
      BY <1>1, <2>2, <3>1 DEF ThreadTyped, ThreadTypeOK
    <3>3. QED
      BY <3>1, <3>2, AwayIsTyped, ClientMoves
  <2>5. QED
    BY <1>4, <2>3, <2>4
<1>5. QED
  BY <1>3, <1>4

\* Steps of the task's lifecycle and of the people, which are one transaction each.
LEMMA AsideTypes ==
  ASSUME ThreadAll,
         \/ \E i \in DOMAIN iterations : \/ RegisterResult(i) \/ SyncRun(i)
                                         \/ \E to \in Someone : AppendTurn(i, to)
         \/ \E p \in Agents \cup {"owner"} : UpsertParticipant(p)
         \/ \E p \in participants : RemoveParticipant(p)
  PROVE  ThreadTyped' /\ ClientsTyped'
<1> USE ThreadBounds
<1>1. ThreadTyped /\ ThreadTypeOK
  BY DEF ThreadAll, ThreadTyped
<1>2. Nobody \in Someone /\ Participant \subseteq Someone /\ "owner" \in Participant /\ Agents \subseteq Participant
  BY DEF Someone, Participant
<1>3. client' = client
  BY DEF RegisterResult, SyncRun, AppendTurn, UpsertParticipant, RemoveParticipant
<1>4. ClientsTyped'
  BY <1>3 DEF ThreadAll, ClientsTyped
<1>5. ASSUME NEW i \in DOMAIN iterations, RegisterResult(i) PROVE ThreadTyped'
  <2> DEFINE row == [of |-> i, flagged |-> FALSE]
  <2>1. /\ Len(results) < MaxResults /\ results' = Append(results, row)
        /\ UNCHANGED <<thread, iterations, turns, runs, participants>>
    BY <1>5 DEF RegisterResult
  <2>2. row \in ResultRow
    BY DEF ResultRow
  <2>3. PICK S : results \in Seq(S)
    BY DEF ThreadAll, ThreadInv
  <2> HIDE DEF row
  <2>4. /\ Len(results') = Len(results) + 1 /\ results'[Len(results) + 1] = row
        /\ \A r \in 1 .. Len(results) : results'[r] = results[r]
        /\ DOMAIN results' = 1 .. Len(results) + 1
    BY <2>1, <2>3
  <2>5. \A r \in DOMAIN results' : results'[r] \in ResultRow
    BY <1>1, <2>2, <2>4 DEF ThreadTypeOK, ResultRow
  <2>6. Len(results') <= MaxResults
    BY <2>1, <2>4
  <2>7. QED
    BY <1>1, <2>1, <2>5, <2>6 DEF ThreadTyped, ThreadTypeOK, ResultRow
<1>6. ASSUME NEW i \in DOMAIN iterations, SyncRun(i) PROVE ThreadTyped'
  <2> DEFINE agent == iterations[i].responsible
             run == [of |-> i, agent |-> agent]
  <2>1. /\ agent # Nobody /\ participants' = participants \cup {agent} /\ WriteRun(run)
        /\ UNCHANGED <<thread, iterations, results, turns>>
    BY <1>6 DEF SyncRun
  <2>2. agent \in Participant
    BY <1>1, <2>1 DEF ThreadTypeOK, Iteration, Someone
  <2>3. run \in AgentRun
    BY <2>2 DEF AgentRun
  <2> HIDE DEF run, agent
  <2>4. \A u \in DOMAIN runs' : runs'[u] \in AgentRun
    BY <1>1, <2>1, <2>3, RunIsTyped DEF ThreadAll, ThreadTypeOK
  <2>5. QED
    BY <1>1, <2>1, <2>2, <2>4 DEF ThreadTyped, ThreadTypeOK
<1>7. ASSUME NEW i \in DOMAIN iterations, NEW to \in Someone, AppendTurn(i, to) PROVE ThreadTyped'
  <2> DEFINE turn == [of |-> i, speaker |-> "owner", to |-> to]
  <2>1. TakeTurn(turn) /\ UNCHANGED <<thread, iterations, results, runs, participants>>
    BY <1>7 DEF AppendTurn
  <2>2. turn \in Turn
    BY <1>2 DEF Turn
  <2> HIDE DEF turn
  <2>3. \A t \in DOMAIN turns' : turns'[t] \in Turn
    BY <1>1, <2>1, <2>2, TurnIsTyped DEF ThreadAll, ThreadTypeOK
  <2>4. QED
    BY <1>1, <2>1, <2>3 DEF ThreadTyped, ThreadTypeOK
<1>8. ASSUME NEW p, \/ p \in Agents \cup {"owner"} /\ UpsertParticipant(p)
                    \/ p \in participants /\ RemoveParticipant(p)
      PROVE  ThreadTyped'
  BY <1>1, <1>2, <1>8 DEF UpsertParticipant, RemoveParticipant, ThreadTyped, ThreadTypeOK
<1>9. QED
  BY <1>4, <1>5, <1>6, <1>7, <1>8

LEMMA ThreadTypesKeep ==
  ASSUME ThreadAll, [ThreadNext]_threadVars PROVE ThreadTyped' /\ ClientsTyped'
<1>1. CASE UNCHANGED threadVars
  <2>1. ThreadTyped'
    BY <1>1, RowsStay DEF threadVars, ThreadAll
  <2>2. client' = client
    BY <1>1 DEF threadVars
  <2>3. QED
    BY <2>1, <2>2 DEF ThreadAll, ClientsTyped
<1>2. ASSUME NEW c \in Clients,
             \/ MakeThread(c) \/ JoinOwner(c) \/ MakeIteration(c) \/ AssignResponsibility(c)
             \/ PointThread(c) \/ OwnerTurn(c) \/ MakeTask(c) \/ LoseRequest(c)
             \/ \E i \in DOMAIN iterations : \E named \in BOOLEAN : Revise(c, i, named)
      PROVE  ThreadTyped' /\ ClientsTyped'
  BY <1>2, RevisionTypes
<1>3. ASSUME NEW c \in Clients,
             Flag(c) \/ Show(c) \/ KeepChoice(c) \/ \E r \in DOMAIN results : Select(c, r)
      PROVE  ThreadTyped' /\ ClientsTyped'
  BY <1>3, SelectionTypes
<1>4. ASSUME NEW c \in Clients,
             \/ \E i \in DOMAIN iterations : RequestExplanation(c, i)
             \/ AnswerTurn(c) \/ WelcomeSpeaker(c)
      PROVE  ThreadTyped' /\ ClientsTyped'
  BY <1>4, ExplanationTypes
<1>5. CASE \/ \E i \in DOMAIN iterations : \/ RegisterResult(i) \/ SyncRun(i)
                                           \/ \E to \in Someone : AppendTurn(i, to)
           \/ \E p \in Agents \cup {"owner"} : UpsertParticipant(p)
           \/ \E p \in participants : RemoveParticipant(p)
  BY <1>5, AsideTypes
<1>6. Authors \subseteq Clients /\ Choosers \subseteq Clients
  BY DEF Clients
<1>7. QED
  BY <1>1, <1>2, <1>3, <1>4, <1>5, <1>6 DEF ThreadNext, ThreadSteps

LEMMA ThreadAllStarts == ThreadInit => ThreadAll
<1> SUFFICES ASSUME ThreadInit PROVE ThreadAll
  OBVIOUS
<1>1. << >> \in Seq({}) /\ Len(<< >>) = 0 /\ DOMAIN << >> = {}
  OBVIOUS
<1>2. \A c \in Clients : client[c] = Away
  BY DEF ThreadInit
<1>3. Away.at = "away"
  BY DEF Away
<1>4. PeopleInv
  BY <1>2, <1>3 DEF ThreadInit, PeopleInv
<1>5. WitnessInv
  BY <1>1 DEF ThreadInit, WitnessInv
<1>6. ThreadTyped
  BY <1>1, ThreadAssumption DEF ThreadInit, ThreadTyped, ThreadTypeOK
<1>7. ClientsTyped
  BY <1>2, AwayIsTyped DEF ClientsTyped
<1>8. QED
  BY <1>4, <1>5, <1>6, <1>7, InitThread DEF ThreadAll

LEMMA ThreadAllKeeps == ThreadAll /\ [ThreadNext]_threadVars => ThreadAll'
<1> SUFFICES ASSUME ThreadAll, [ThreadNext]_threadVars PROVE ThreadAll'
  OBVIOUS
<1>1. ThreadInv' /\ PeopleInv' /\ WitnessInv'
  BY ThreadKeeps, PeopleKeep, WitnessesKeep DEF ThreadAll
<1>2. QED
  BY <1>1, ThreadTypesKeep DEF ThreadAll

\* Whoever is responsible, addressed or speaks in a thread can take part in it, and its rows
\* name iterations and results within the bounds, however requests for revisions, answers
\* and selections interleave and are lost (video_thread_service.py and the services of its rows).
THEOREM ThreadTypesHold == ThreadSpec => []ThreadTypeOK
<1>1. ThreadAll => ThreadTypeOK
  BY DEF ThreadAll, ThreadTyped
<1>2. QED
  BY <1>1, ThreadAllStarts, ThreadAllKeeps, PTL DEF ThreadSpec

-----------------------------------------------------------------------------
\* The rows of a review, the case memory and the requests have the shapes their code writes,
\* also when a row or a file is written back whole from a copy that has gone stale.
THEOREM ReviewTypesHold == ReviewSpec => []ReviewTypeOK
<1>1. ReviewInit => ReviewInv
  BY InitReview
<1>2. ReviewInv /\ [ReviewNext]_reviewVars => ReviewInv'
  BY ReviewKeeps
<1>3. ReviewInv => ReviewTypeOK
  BY DEF ReviewInv, ReviewRows, RequestSound, EngineSound, ReviewTypeOK
<1>4. QED
  BY <1>1, <1>2, <1>3, PTL DEF ReviewSpec
=============================================================================
