-------------------------- MODULE BackofficeProofs --------------------------
(* Proofs about the back office, for any cafes, workers, users and handlers:  *)
(* the tasks and what is counted of them, the settings, the cards, the        *)
(* reviews, the rooms of a layout with their bookings and occupancy, the      *)
(* shifts of a worker, the preview of a plan and the reports of a brand.      *)
EXTENDS MCBackoffice, FiniteSums

-----------------------------------------------------------------------------
(* Tasks.                                                                    *)

LEMMA UndoStep ==
  ASSUME [TasksNext]_<<tvars, rvars>>, NEW c \in completion \ completion'
  PROVE  \E p \in Procs : In(p, "uncomplete") /\ handler[p].row = c
<1>1. completion' # completion
  OBVIOUS
<1>2. CASE TemplateRequest
  BY <1>1, <1>2 DEF TemplateRequest, createTemplate, updateTemplate, deactivateTemplate
<1>3. CASE UNCHANGED tvars
  BY <1>1, <1>3 DEF tvars
<1>4. CASE \E p \in Procs : WorkerRequest(p) \/ ReportRequest(p) \/ TaskContinue(p)
  <2>1. PICK p \in Procs : WorkerRequest(p) \/ ReportRequest(p) \/ TaskContinue(p)
    BY <1>4
  <2>2. ~WorkerRequest(p) /\ ~ReportRequest(p)
    BY <1>1 DEF WorkerRequest, ReportRequest, CompleteRead, UncompleteRead, SummaryStart, StatisticsRead, tvars
  <2>3. ~CompleteInsert(p)
    BY DEF CompleteInsert
  <2>4. ~(\E w \in Employees : SummaryReadTemplates(p, w) \/ SummaryReadCompletions(p, w))
    BY <1>1 DEF SummaryReadTemplates, SummaryReadCompletions, tvars
  <2>5. ~SummaryAnswer(p) /\ ~StatisticsAnswer(p)
    BY <1>1 DEF SummaryAnswer, StatisticsAnswer
  <2>6. UncompleteDelete(p)
    BY <2>1, <2>2, <2>3, <2>4, <2>5 DEF TaskContinue
  <2> QED BY <2>6 DEF UncompleteDelete
<1> QED BY <1>2, <1>3, <1>4 DEF TasksNext, tvars

\* An undo that is late never removes what was completed again meanwhile: a
\* completion that vanishes is the one that a worker had seen (uncompleteTask).
THEOREM LateUndoSpares == TasksSpec => UncompleteUndoesWhatItRead
<1>1. [TasksNext]_<<tvars, rvars>> =>
        [\A c \in completion \ completion' : \E p \in Procs : In(p, "uncomplete") /\ handler[p].row = c]_<<tvars, rvars>>
  BY UndoStep
<1> QED BY <1>1, PTL DEF TasksSpec, UncompleteUndoesWhatItRead

\* A completion is of a template that there is, since none is ever deleted.
CompletionOK(row) ==
  /\ row.template \in Templates /\ row.worker \in Employees /\ row.date \in Days
  /\ row.durationMinutes \in {0, 10}
  /\ template[row.template].status # "none"

\* What a handler in flight holds: the summary has counted no more completions
\* of a worker than it has read templates.
TasksHandlerOK(h) ==
  /\ "pc" \in DOMAIN h
  /\ h.pc = "complete" => CompletionOK(h.row)
  /\ h.pc = "summary" =>
       /\ {"date", "read", "done"} \subseteq DOMAIN h
       /\ DOMAIN h.read \subseteq Employees /\ DOMAIN h.done \subseteq DOMAIN h.read
       /\ \A w \in DOMAIN h.read : h.read[w] \subseteq Templates
       /\ \A w \in DOMAIN h.done : h.done[w] \in Nat /\ h.done[w] <= Cardinality(h.read[w])
  /\ h.pc = "statistics" =>
       IsFiniteSet(h.rows) /\ \A c \in h.rows : CompletionOK(c)

TasksTablesOK ==
  /\ TasksTypeOK
  /\ IsFiniteSet(completion)
  /\ \A c \in completion : c.id <= completed /\ CompletionOK(c)
  /\ \A c, d \in completion : c.id = d.id => c = d

TasksHandlersOK ==
  /\ DOMAIN handler = Procs
  /\ \A p \in Procs : TasksHandlerOK(handler[p])

TasksIInv == TasksTablesOK /\ TasksHandlersOK /\ SummaryIsPossible /\ StatisticsAddUp

LEMMA TasksInitially == TasksInit /\ RequestsInit => TasksIInv
<1> SUFFICES ASSUME TasksInit, RequestsInit PROVE TasksIInv
  OBVIOUS
<1>1. NoTemplate \in Template
  BY DEF NoTemplate, Template, AssignmentTypes
<1>2. TasksTablesOK
  BY <1>1, TasksAssumption, FS_EmptySet DEF TasksInit, TasksTablesOK, TasksTypeOK
<1>3. TasksHandlersOK
  <2>1. TasksHandlerOK(NoRequest)
    BY DEF TasksHandlerOK, NoRequest
  <2> QED BY <2>1 DEF RequestsInit, TasksHandlersOK
<1>4. SummaryIsPossible
  BY DEF TasksInit, SummaryIsPossible
<1>5. StatisticsAddUp
  <2>1. /\ DOMAIN statistics.taskStats = {} /\ DOMAIN statistics.workerStats = {}
        /\ statistics.totalCompletions = 0 /\ statistics.totalTemplates = 0
    BY DEF TasksInit, NoStatistics
  <2>2. \A f : DOMAIN f = {} => SumFunction(f) = 0
    BY SumOfNone DEF SumFunction, Sum
  <2>3. Cardinality({}) = 0
    BY FS_EmptySet
  <2> QED BY <2>1, <2>2, <2>3 DEF StatisticsAddUp
<1> QED BY <1>2, <1>3, <1>4, <1>5 DEF TasksIInv

\* A step that only moves a handler on.
LEMMA TasksReadStep ==
  ASSUME TasksIInv, NEW p \in Procs, NEW h, TasksHandlerOK(h), Become(p, h), UNCHANGED tvars
  PROVE  TasksIInv'
<1>1. UNCHANGED <<template, completion, completed, summary, statistics>>
  BY DEF tvars
<1>2. TasksTablesOK' /\ SummaryIsPossible' /\ StatisticsAddUp'
  BY <1>1 DEF TasksIInv, TasksTablesOK, TasksTypeOK, CompletionOK, SummaryIsPossible, StatisticsAddUp
<1>3. TasksHandlersOK'
  BY <1>1 DEF TasksIInv, TasksHandlersOK, Become, TasksHandlerOK, CompletionOK
<1> QED BY <1>2, <1>3 DEF TasksIInv

LEMMA TasksTemplateStep ==
  ASSUME TasksIInv, TemplateRequest
  PROVE  TasksIInv'
<1>1. UNCHANGED <<completion, completed, summary, statistics, handler>>
  BY DEF TemplateRequest, createTemplate, updateTemplate, deactivateTemplate, rvars
<1>2. template \in [Templates -> Template]
  BY DEF TasksIInv, TasksTablesOK, TasksTypeOK
<1>3. /\ template' \in [Templates -> Template]
      /\ \A t \in Templates : template[t].status # "none" => template'[t].status # "none"
  <2>1. ASSUME NEW t \in Templates, NEW new \in Forms, createTemplate(t, new) PROVE <1>3
    <3>1. [new EXCEPT !.status = "active"] \in Template
      BY TasksAssumption DEF Template
    <3>2. [new EXCEPT !.status = "active"].status = "active"
      BY TasksAssumption DEF Template
    <3> QED BY <1>2, <2>1, <3>1, <3>2 DEF createTemplate
  <2>2. ASSUME NEW t \in Templates, NEW given_ \in Given, NEW new \in Forms, updateTemplate(t, given_, new) PROVE <1>3
    <3> DEFINE row == [f \in DOMAIN template[t] |-> IF f \in given_ THEN new[f] ELSE template[t][f]]
    <3>1. template' = [template EXCEPT ![t] = row]
      BY <2>2 DEF updateTemplate
    <3>2. template[t] \in Template /\ new \in Template /\ "status" \notin given_
      BY <1>2, TasksAssumption
    <3>3. DOMAIN template[t] = {"status", "assignmentType", "assignedWorkerIds", "assignedRoles", "daysOfWeek", "requiresPhoto"}
      BY <3>2 DEF Template
    <3>4. row = [status |-> row.status, assignmentType |-> row.assignmentType,
                 assignedWorkerIds |-> row.assignedWorkerIds, assignedRoles |-> row.assignedRoles,
                 daysOfWeek |-> row.daysOfWeek, requiresPhoto |-> row.requiresPhoto]
      BY <3>3
    <3>5. row.status = template[t].status
      BY <3>2, <3>3
    <3>6. /\ row.assignmentType \in {new.assignmentType, template[t].assignmentType}
          /\ row.assignedWorkerIds \in {new.assignedWorkerIds, template[t].assignedWorkerIds}
          /\ row.assignedRoles \in {new.assignedRoles, template[t].assignedRoles}
          /\ row.daysOfWeek \in {new.daysOfWeek, template[t].daysOfWeek}
          /\ row.requiresPhoto \in {new.requiresPhoto, template[t].requiresPhoto}
      BY <3>3
    <3> HIDE DEF row
    <3>7. row \in Template
      BY <3>2, <3>4, <3>5, <3>6 DEF Template
    <3> QED BY <1>2, <3>1, <3>5, <3>7
  <2>3. ASSUME NEW t \in Templates, deactivateTemplate(t) PROVE <1>3
    <3>1. [template[t] EXCEPT !.status = "inactive"] \in Template
      BY <1>2 DEF Template
    <3>2. [template[t] EXCEPT !.status = "inactive"].status = "inactive"
      BY <1>2 DEF Template
    <3>3. template' = [template EXCEPT ![t] = [template[t] EXCEPT !.status = "inactive"]]
      BY <1>2, <2>3 DEF deactivateTemplate
    <3> QED BY <1>2, <3>1, <3>2, <3>3
  <2> QED BY <2>1, <2>2, <2>3 DEF TemplateRequest
<1>4. \A row : CompletionOK(row) => CompletionOK(row)'
  BY <1>3 DEF CompletionOK
<1>5. TasksTablesOK'
  BY <1>1, <1>3, <1>4 DEF TasksIInv, TasksTablesOK, TasksTypeOK
<1>6. TasksHandlersOK'
  BY <1>1, <1>4 DEF TasksIInv, TasksHandlersOK, TasksHandlerOK
<1>7. SummaryIsPossible' /\ StatisticsAddUp'
  BY <1>1 DEF TasksIInv, SummaryIsPossible, StatisticsAddUp
<1> QED BY <1>5, <1>6, <1>7 DEF TasksIInv

LEMMA CompleteInsertStep ==
  ASSUME TasksIInv, NEW p \in Procs, CompleteInsert(p)
  PROVE  TasksIInv'
<1> DEFINE h == handler[p]
           row == [id |-> completed + 1, template |-> h.row.template, worker |-> h.row.worker,
                   date |-> h.row.date, durationMinutes |-> h.row.durationMinutes]
<1>1. UNCHANGED <<template, summary, statistics>> /\ Become(p, NoRequest)
  BY DEF CompleteInsert, Finish
<1>2. TasksHandlerOK(NoRequest)
  BY DEF TasksHandlerOK, NoRequest
<1>3. CASE UNCHANGED <<completion, completed>>
  BY <1>1, <1>2, <1>3, TasksReadStep DEF tvars
<1>4. CASE completed < MaxCompletions /\ completed' = completed + 1 /\ completion' = completion \cup {row}
  <2>1. CompletionOK(h.row)
    BY DEF CompleteInsert, In, TasksIInv, TasksHandlersOK, TasksHandlerOK
  <2>2. completed \in 0..MaxCompletions /\ MaxCompletions \in Nat
    BY TasksAssumption DEF TasksIInv, TasksTablesOK, TasksTypeOK
  <2>3. row \in Completion /\ CompletionOK(row) /\ row.id = completed + 1
    BY <1>4, <2>1, <2>2 DEF Completion, CompletionOK
  <2> HIDE DEF row
  <2>4. IsFiniteSet(completion')
    BY <1>4, FS_AddElement DEF TasksIInv, TasksTablesOK
  <2>5. \A c \in completion' : c = row \/ (c \in completion /\ c.id \in Int /\ c.id <= completed)
    BY <1>4 DEF TasksIInv, TasksTablesOK, TasksTypeOK, Completion
  <2>6. \A c \in completion' : CompletionOK(c)
    BY <1>4, <2>3 DEF TasksIInv, TasksTablesOK
  <2>7. \A c \in completion' : CompletionOK(c)'
    BY <1>1, <2>6 DEF CompletionOK
  <2>8. TasksTypeOK'
    BY <1>1, <1>4, <2>2, <2>3 DEF TasksIInv, TasksTablesOK, TasksTypeOK
  <2>9. \A c \in completion' : c.id <= completed'
    BY <1>4, <2>2, <2>3, <2>5
  <2>10. \A c, d \in completion' : c.id = d.id => c = d
    BY <1>4, <2>2, <2>3, <2>5 DEF TasksIInv, TasksTablesOK
  <2>11. TasksTablesOK'
    BY <2>4, <2>7, <2>8, <2>9, <2>10 DEF TasksTablesOK
  <2>12. TasksHandlersOK'
    BY <1>1, <1>2 DEF TasksIInv, TasksHandlersOK, Become, TasksHandlerOK, CompletionOK
  <2>13. SummaryIsPossible' /\ StatisticsAddUp'
    BY <1>1 DEF TasksIInv, SummaryIsPossible, StatisticsAddUp
  <2> QED BY <2>11, <2>12, <2>13 DEF TasksIInv
<1> QED BY <1>3, <1>4 DEF CompleteInsert

LEMMA UncompleteDeleteStep ==
  ASSUME TasksIInv, NEW p \in Procs, UncompleteDelete(p)
  PROVE  TasksIInv'
<1>1. UNCHANGED <<template, completed, summary, statistics>> /\ Become(p, NoRequest) /\ completion' \subseteq completion
  BY DEF UncompleteDelete, Finish
<1>2. TasksHandlerOK(NoRequest)
  BY DEF TasksHandlerOK, NoRequest
<1>3. IsFiniteSet(completion')
  BY <1>1, FS_Subset DEF TasksIInv, TasksTablesOK
<1>4. TasksTablesOK'
  BY <1>1, <1>3 DEF TasksIInv, TasksTablesOK, TasksTypeOK, CompletionOK
<1>5. TasksHandlersOK'
  BY <1>1, <1>2 DEF TasksIInv, TasksHandlersOK, Become, TasksHandlerOK, CompletionOK
<1>6. SummaryIsPossible' /\ StatisticsAddUp'
  BY <1>1 DEF TasksIInv, SummaryIsPossible, StatisticsAddUp
<1> QED BY <1>4, <1>5, <1>6 DEF TasksIInv

LEMMA TasksBeginStep ==
  ASSUME TasksIInv, NEW p \in Procs, WorkerRequest(p) \/ ReportRequest(p)
  PROVE  TasksIInv'
<1>1. ASSUME NEW t \in Templates, NEW w \in Employees, NEW date \in Days, NEW photo \in BOOLEAN,
             NEW duration \in {0, 10}, CompleteRead(p, t, w, date, photo, duration)
      PROVE  TasksIInv'
  <2> DEFINE h == [pc |-> "complete", row |-> [template |-> t, worker |-> w, date |-> date, durationMinutes |-> duration]]
  <2>1. TasksHandlerOK(h)
    BY <1>1 DEF TasksHandlerOK, CompletionOK, CompleteRead
  <2>2. Become(p, h) /\ UNCHANGED tvars
    BY <1>1 DEF CompleteRead
  <2> HIDE DEF h
  <2> QED BY <2>1, <2>2, TasksReadStep
<1>2. ASSUME NEW t \in Templates, NEW w \in Employees, NEW date \in Days, UncompleteRead(p, t, w, date)
      PROVE  TasksIInv'
  <2>1. PICK c \in completion : Become(p, [pc |-> "uncomplete", row |-> c])
    BY <1>2 DEF UncompleteRead
  <2>2. TasksHandlerOK([pc |-> "uncomplete", row |-> c])
    BY DEF TasksHandlerOK
  <2> QED BY <1>2, <2>1, <2>2, TasksReadStep DEF UncompleteRead
<1>3. ASSUME NEW date \in Days, SummaryStart(p, date) PROVE TasksIInv'
  <2> DEFINE h == [pc |-> "summary", date |-> date, read |-> << >>, done |-> << >>]
  <2>1. TasksHandlerOK(h)
    BY DEF TasksHandlerOK
  <2>2. Become(p, h) /\ UNCHANGED tvars
    BY <1>3 DEF SummaryStart
  <2> HIDE DEF h
  <2> QED BY <2>1, <2>2, TasksReadStep
<1>4. ASSUME NEW from \in Days, NEW to \in Days, StatisticsRead(p, from, to) PROVE TasksIInv'
  <2> DEFINE rows == {c \in completion : from <= c.date /\ c.date <= to}
  <2>1. IsFiniteSet(rows) /\ \A c \in rows : CompletionOK(c)
    BY FS_Subset DEF TasksIInv, TasksTablesOK
  <2>2. Become(p, [pc |-> "statistics", rows |-> rows]) /\ UNCHANGED tvars
    BY <1>4 DEF StatisticsRead
  <2> HIDE DEF rows
  <2>3. TasksHandlerOK([pc |-> "statistics", rows |-> rows])
    BY <2>1 DEF TasksHandlerOK
  <2> QED BY <2>2, <2>3, TasksReadStep
<1> QED BY <1>1, <1>2, <1>3, <1>4 DEF WorkerRequest, ReportRequest

LEMMA SummaryReadStep ==
  ASSUME TasksIInv, NEW p \in Procs, NEW w \in Employees,
         SummaryReadTemplates(p, w) \/ SummaryReadCompletions(p, w)
  PROVE  TasksIInv'
<1> DEFINE h == handler[p]
<1>1. TasksHandlerOK(h) /\ h.pc = "summary" /\ UNCHANGED tvars
  BY DEF TasksIInv, TasksHandlersOK, SummaryReadTemplates, SummaryReadCompletions, In
<1>2. CASE SummaryReadTemplates(p, w)
  <2> DEFINE read == [v \in DOMAIN h.read \cup {w} |-> IF v = w THEN filteredTemplates(w, h.date) ELSE h.read[v]]
             new == [h EXCEPT !.read = read]
  <2>1. Become(p, new) /\ w \notin DOMAIN h.read
    BY <1>2 DEF SummaryReadTemplates
  <2>2. new.pc = "summary" /\ new.read = read /\ new.done = h.done /\ DOMAIN new = DOMAIN h
    BY <1>1 DEF TasksHandlerOK
  <2>3. filteredTemplates(w, h.date) \subseteq Templates
    BY DEF filteredTemplates
  <2>4. /\ DOMAIN read = DOMAIN h.read \cup {w}
        /\ \A v \in DOMAIN h.read : v # w => read[v] = h.read[v]
        /\ read[w] \subseteq Templates
    BY <2>3
  <2> HIDE DEF read
  <2>5. TasksHandlerOK(new)
    BY <1>1, <2>1, <2>2, <2>4 DEF TasksHandlerOK
  <2> QED BY <1>1, <2>1, <2>5, TasksReadStep
<1>3. CASE SummaryReadCompletions(p, w)
  <2> DEFINE n == Cardinality({c.template : c \in completionsOf(w, h.date, h.read[w])})
             done == [v \in DOMAIN h.done \cup {w} |-> IF v = w THEN n ELSE h.done[v]]
             new == [h EXCEPT !.done = done]
  <2>1. Become(p, new) /\ w \in DOMAIN h.read
    BY <1>3 DEF SummaryReadCompletions
  <2>2. new.pc = "summary" /\ new.done = done /\ new.read = h.read /\ DOMAIN new = DOMAIN h
    BY <1>1 DEF TasksHandlerOK
  <2>3. n \in Nat /\ n <= Cardinality(h.read[w])
    <3>1. {c.template : c \in completionsOf(w, h.date, h.read[w])} \subseteq h.read[w]
      BY DEF completionsOf
    <3>2. IsFiniteSet(h.read[w])
      BY <1>1, <2>1, TasksAssumption, FS_Subset DEF TasksHandlerOK
    <3> QED BY <3>1, <3>2, FS_Subset, FS_CardinalityType
  <2> HIDE DEF n
  <2>4. /\ DOMAIN done = DOMAIN h.done \cup {w}
        /\ \A v \in DOMAIN h.done : v # w => done[v] = h.done[v]
        /\ done[w] = n
    OBVIOUS
  <2> HIDE DEF done
  <2>5. \A v \in DOMAIN done : done[v] \in Nat /\ done[v] <= Cardinality(h.read[v])
    BY <1>1, <2>3, <2>4 DEF TasksHandlerOK
  <2>6. TasksHandlerOK(new)
    BY <1>1, <2>1, <2>2, <2>4, <2>5 DEF TasksHandlerOK
  <2> QED BY <1>1, <2>1, <2>6, TasksReadStep
<1> QED BY <1>2, <1>3

LEMMA SummaryAnswerStep ==
  ASSUME TasksIInv, NEW p \in Procs, SummaryAnswer(p)
  PROVE  TasksIInv'
<1> DEFINE h == handler[p]
           planned == [w \in Employees |-> Cardinality(h.read[w])]
<1>1. UNCHANGED <<template, completion, completed, statistics>> /\ Become(p, NoRequest)
  BY DEF SummaryAnswer, Finish
<1>2. TasksHandlerOK(h) /\ h.pc = "summary" /\ DOMAIN h.done = Employees
  BY DEF TasksIInv, TasksHandlersOK, SummaryAnswer, In
<1>3. \A w \in Employees : h.done[w] \in Int /\ planned[w] \in Int /\ h.done[w] <= planned[w]
  <2> TAKE w \in Employees
  <2>1. w \in DOMAIN h.done /\ w \in DOMAIN h.read
    BY <1>2 DEF TasksHandlerOK
  <2>2. h.done[w] \in Nat /\ h.done[w] <= Cardinality(h.read[w]) /\ h.read[w] \subseteq Templates
    BY <1>2, <2>1 DEF TasksHandlerOK
  <2>3. Cardinality(h.read[w]) \in Nat
    BY <2>2, TasksAssumption, FS_Subset, FS_CardinalityType
  <2> QED BY <2>2, <2>3
<1>4. summary'.totalTasks = Sum(planned, Employees) /\ summary'.completedTasks = Sum(h.done, Employees)
  BY <1>2 DEF SummaryAnswer, SumFunction, Sum
<1>5. Sum(h.done, Employees) <= Sum(planned, Employees)
  <2> HIDE DEF planned, h
  <2> QED BY <1>3, TasksAssumption, SumMonotone
<1>6. SummaryIsPossible'
  BY <1>4, <1>5 DEF SummaryIsPossible
<1>7. TasksTablesOK' /\ StatisticsAddUp'
  BY <1>1 DEF TasksIInv, TasksTablesOK, TasksTypeOK, CompletionOK, StatisticsAddUp
<1>8. TasksHandlersOK'
  <2>1. TasksHandlerOK(NoRequest)
    BY DEF TasksHandlerOK, NoRequest
  <2> QED BY <1>1, <2>1 DEF TasksIInv, TasksHandlersOK, Become, TasksHandlerOK, CompletionOK
<1> QED BY <1>6, <1>7, <1>8 DEF TasksIInv

CompletionsOf(stats) == SumFunction([k \in DOMAIN stats |-> stats[k].completions])
DurationsOf(stats) == SumFunction([k \in DOMAIN stats |-> stats[k].durationCount])
Timed(rows) == {c \in rows : c.durationMinutes # 0}

\* Durations by any key of the rows add up to all rows, and to those with a duration.
LEMMA DurationsAddUp ==
  ASSUME NEW rows, IsFiniteSet(rows), NEW K, IsFiniteSet(K), NEW g, \A c \in rows : g[c] \in K,
         NEW stats, DOMAIN stats = K, \A k \in K : stats[k] = Durations({c \in rows : g[c] = k})
  PROVE  CompletionsOf(stats) = Cardinality(rows) /\ DurationsOf(stats) = Cardinality(Timed(rows))
<1> DEFINE timed == Timed(rows)
           F(E) == [k \in K |-> Cardinality({c \in E : g[c] = k})]
<1>1. DOMAIN stats = K
  OBVIOUS
<1>2. \A k \in K : /\ stats[k].completions = Cardinality({c \in rows : g[c] = k})
                   /\ stats[k].durationCount = Cardinality({c \in timed : g[c] = k})
  <2> TAKE k \in K
  <2>1. {c \in {d \in rows : g[d] = k} : c.durationMinutes # 0} = {c \in timed : g[c] = k}
    BY DEF Timed
  <2>2. stats[k] = Durations({c \in rows : g[c] = k})
    OBVIOUS
  <2> QED BY <2>1, <2>2 DEF Durations, Timed
<1>3. /\ [k \in DOMAIN stats |-> stats[k].completions] = F(rows)
      /\ [k \in DOMAIN stats |-> stats[k].durationCount] = F(timed)
  BY <1>1, <1>2
<1>4. DOMAIN F(rows) = K /\ DOMAIN F(timed) = K
  OBVIOUS
<1>5. IsFiniteSet(timed) /\ \A c \in timed : g[c] \in K
  BY FS_Subset DEF Timed
<1>6. Sum(F(rows), K) = Cardinality(rows)
  BY CountedByKey
<1>7. Sum(F(timed), K) = Cardinality(timed)
  <2> HIDE DEF timed
  <2> QED BY <1>5, CountedByKey
<1> HIDE DEF F
<1> QED BY <1>3, <1>4, <1>6, <1>7 DEF SumFunction, Sum, CompletionsOf, DurationsOf

LEMMA StatisticsAnswerStep ==
  ASSUME TasksIInv, NEW p \in Procs, StatisticsAnswer(p)
  PROVE  TasksIInv'
<1>1. UNCHANGED <<template, completion, completed, summary>> /\ Become(p, NoRequest)
  BY DEF StatisticsAnswer, Finish
<1>2. PICK rows : rows = handler[p].rows
  OBVIOUS
<1>3. IsFiniteSet(rows) /\ \A c \in rows : CompletionOK(c)
  BY <1>2 DEF TasksIInv, TasksHandlersOK, TasksHandlerOK, StatisticsAnswer, In
<1> DEFINE T == {c.template : c \in rows}
           W == {c.worker : c \in rows}
           there == {t \in Templates : template[t].status # "none"}
<1>4. T \subseteq there /\ W \subseteq Employees
  BY <1>3 DEF CompletionOK
<1>5. IsFiniteSet(there) /\ IsFiniteSet(T) /\ IsFiniteSet(W) /\ Cardinality(T) <= Cardinality(there)
  <2>1. IsFiniteSet(there)
    BY TasksAssumption, FS_Subset
  <2> HIDE DEF there, T, W
  <2> QED BY <1>4, <2>1, TasksAssumption, FS_Subset
<1>6. /\ statistics'.totalCompletions = Cardinality(rows)
      /\ statistics'.taskStats = [t \in T |-> Durations({c \in rows : c.template = t})]
      /\ statistics'.workerStats = [w \in W |-> Durations({c \in rows : c.worker = w})]
      /\ statistics'.totalTemplates = Cardinality(there)
  BY <1>2 DEF StatisticsAnswer
<1>7. PICK byTask : byTask = [c \in rows |-> c.template]
  OBVIOUS
<1>8. PICK byWorker : byWorker = [c \in rows |-> c.worker]
  OBVIOUS
<1>9. PICK tasks : tasks = statistics'.taskStats
  OBVIOUS
<1>10. PICK workers : workers = statistics'.workerStats
  OBVIOUS
<1>11. /\ DOMAIN tasks = T /\ \A t \in T : tasks[t] = Durations({c \in rows : byTask[c] = t})
       /\ DOMAIN workers = W /\ \A w \in W : workers[w] = Durations({c \in rows : byWorker[c] = w})
  <2>1. \A t : {c \in rows : byTask[c] = t} = {c \in rows : c.template = t}
    BY <1>7
  <2>2. \A w : {c \in rows : byWorker[c] = w} = {c \in rows : c.worker = w}
    BY <1>8
  <2>3. DOMAIN tasks = T /\ \A t \in T : tasks[t] = Durations({c \in rows : c.template = t})
    BY <1>6, <1>9
  <2>4. DOMAIN workers = W /\ \A w \in W : workers[w] = Durations({c \in rows : c.worker = w})
    BY <1>6, <1>10
  <2> HIDE DEF T, W
  <2> QED BY <2>1, <2>2, <2>3, <2>4
<1>12. (\A c \in rows : byTask[c] \in T) /\ (\A c \in rows : byWorker[c] \in W)
  BY <1>7, <1>8
<1> HIDE DEF T, W, there
<1>14. CompletionsOf(tasks) = Cardinality(rows) /\ DurationsOf(tasks) = Cardinality(Timed(rows))
  <2>1. IsFiniteSet(rows) /\ IsFiniteSet(T)
    BY <1>3, <1>5
  <2>2. \A c \in rows : byTask[c] \in T
    BY <1>12
  <2>3. DOMAIN tasks = T
    BY <1>11
  <2>4. \A k \in T : tasks[k] = Durations({c \in rows : byTask[c] = k})
    BY <1>11
  <2> QED BY <2>1, <2>2, <2>3, <2>4, DurationsAddUp
<1>15. CompletionsOf(workers) = Cardinality(rows) /\ DurationsOf(workers) = Cardinality(Timed(rows))
  <2>1. IsFiniteSet(rows) /\ IsFiniteSet(W)
    BY <1>3, <1>5
  <2>2. \A c \in rows : byWorker[c] \in W
    BY <1>12
  <2>3. DOMAIN workers = W
    BY <1>11
  <2>4. \A k \in W : workers[k] = Durations({c \in rows : byWorker[c] = k})
    BY <1>11
  <2> QED BY <2>1, <2>2, <2>3, <2>4, DurationsAddUp
<1>16. StatisticsAddUp'
  BY <1>5, <1>6, <1>9, <1>10, <1>11, <1>14, <1>15 DEF StatisticsAddUp, CompletionsOf, DurationsOf
<1>17. TasksTablesOK' /\ SummaryIsPossible'
  BY <1>1 DEF TasksIInv, TasksTablesOK, TasksTypeOK, CompletionOK, SummaryIsPossible
<1>18. TasksHandlersOK'
  <2>1. TasksHandlerOK(NoRequest)
    BY DEF TasksHandlerOK, NoRequest
  <2> QED BY <1>1, <2>1 DEF TasksIInv, TasksHandlersOK, Become, TasksHandlerOK, CompletionOK
<1> QED BY <1>16, <1>17, <1>18 DEF TasksIInv

LEMMA TasksInductive == TasksIInv /\ [TasksNext]_<<tvars, rvars>> => TasksIInv'
<1> SUFFICES ASSUME TasksIInv, [TasksNext]_<<tvars, rvars>> PROVE TasksIInv'
  OBVIOUS
<1>1. CASE TemplateRequest
  BY <1>1, TasksTemplateStep
<1>2. ASSUME NEW p \in Procs, WorkerRequest(p) \/ ReportRequest(p) \/ TaskContinue(p) PROVE TasksIInv'
  BY <1>2, TasksBeginStep, CompleteInsertStep, UncompleteDeleteStep, SummaryReadStep, SummaryAnswerStep,
     StatisticsAnswerStep DEF TaskContinue
<1>3. ASSUME NEW p \in Procs, Dies(p), UNCHANGED tvars PROVE TasksIInv'
  <2>1. TasksHandlerOK(NoRequest)
    BY DEF TasksHandlerOK, NoRequest
  <2>2. UNCHANGED <<template, completion, completed, summary, statistics>>
    BY <1>3 DEF tvars
  <2>3. TasksTablesOK' /\ SummaryIsPossible' /\ StatisticsAddUp'
    BY <2>2 DEF TasksIInv, TasksTablesOK, TasksTypeOK, CompletionOK, SummaryIsPossible, StatisticsAddUp
  <2>4. TasksHandlersOK'
    BY <1>3, <2>1, <2>2 DEF TasksIInv, TasksHandlersOK, Dies, TasksHandlerOK, CompletionOK
  <2> QED BY <2>3, <2>4 DEF TasksIInv
<1>4. CASE UNCHANGED <<tvars, rvars>>
  BY <1>4 DEF tvars, rvars, TasksIInv, TasksTablesOK, TasksTypeOK, TasksHandlersOK, TasksHandlerOK, CompletionOK,
     SummaryIsPossible, StatisticsAddUp
<1> QED BY <1>1, <1>2, <1>3, <1>4 DEF TasksNext

\* The summary of a cafe's tasks, counted over many reads of each worker, never
\* shows more tasks done than there are (getCafeDailyTaskSummary).
THEOREM SummariesArePossible == TasksSpec => []SummaryIsPossible
<1>1. TasksInit /\ RequestsInit => TasksIInv
  BY TasksInitially
<1>2. TasksIInv /\ [TasksNext]_<<tvars, rvars>> => TasksIInv'
  BY TasksInductive
<1>3. TasksIInv => SummaryIsPossible
  BY DEF TasksIInv
<1> QED BY <1>1, <1>2, <1>3, PTL DEF TasksSpec

\* The figures by task and by worker add up to the total, and are of templates
\* that there are (getStatistics).
THEOREM StatisticsAlwaysAddUp == TasksSpec => []StatisticsAddUp
<1>1. TasksInit /\ RequestsInit => TasksIInv
  BY TasksInitially
<1>2. TasksIInv /\ [TasksNext]_<<tvars, rvars>> => TasksIInv'
  BY TasksInductive
<1>3. TasksIInv => StatisticsAddUp
  BY DEF TasksIInv
<1> QED BY <1>1, <1>2, <1>3, PTL DEF TasksSpec

\* Tables keep their types, and no completion is ever given the id of another.
THEOREM TasksAreTyped ==
  TasksSpec => [](TasksTypeOK /\ \A c, d \in completion : c.id = d.id => c = d)
<1>1. TasksInit /\ RequestsInit => TasksIInv
  BY TasksInitially
<1>2. TasksIInv /\ [TasksNext]_<<tvars, rvars>> => TasksIInv'
  BY TasksInductive
<1>3. TasksIInv => TasksTypeOK /\ \A c, d \in completion : c.id = d.id => c = d
  BY DEF TasksIInv, TasksTablesOK
<1> QED BY <1>1, <1>2, <1>3, PTL DEF TasksSpec

-----------------------------------------------------------------------------
(* Handlers that meet no other.                                              *)

Alone == \A p, q \in Procs : ~Idle(p) /\ ~Idle(q) => p = q

LEMMA OthersAreIdle ==
  ASSUME Alone, NEW p \in Procs, ~Idle(p), NEW q \in Procs, q # p
  PROVE  Idle(q)
BY DEF Alone

LEMMA AloneBegins ==
  ASSUME DOMAIN handler = Procs, NEW p \in Procs, NEW h, Become(p, h), \A q \in Procs \ {p} : Idle(q)
  PROVE  Alone'
BY DEF Become, Idle, Alone

LEMMA AloneGoesOn ==
  ASSUME DOMAIN handler = Procs, Alone, NEW p \in Procs, NEW h, Become(p, h), ~Idle(p)
  PROVE  Alone'
BY DEF Become, Idle, Alone

LEMMA AloneDies ==
  ASSUME DOMAIN handler = Procs, Alone, NEW p \in Procs, Dies(p)
  PROVE  Alone'
<1>1. NoRequest.pc = "idle"
  BY DEF NoRequest
<1> QED BY <1>1 DEF Dies, Idle, Alone

-----------------------------------------------------------------------------
(* Settings.                                                                 *)

SettingsIInv ==
  /\ DOMAIN handler = Procs
  /\ SettingsTypeOK
  /\ \A p \in Procs : "pc" \in DOMAIN handler[p]
  /\ \A p \in Procs : In(p, "settings_upsert") =>
       handler[p].merged \in [Fields -> SettingValues] /\ handler[p].new \in Changes
  /\ ~settingsRaced =>
       /\ Alone
       /\ \A f \in Fields : given[f] = Current[f]
       /\ \A p \in Procs : In(p, "settings_upsert") => handler[p].merged = Merged(Current, handler[p].new)

LEMMA CurrentIsTyped ==
  ASSUME SettingsTypeOK
  PROVE  Current \in [Fields -> SettingValues] /\ getDefaultSettings \in [Fields -> SettingValues]
BY SettingsAssumption DEF SettingsTypeOK, Current, getDefaultSettings

LEMMA MergedIsTyped ==
  ASSUME NEW current \in [Fields -> SettingValues], NEW new \in Changes
  PROVE  /\ Merged(current, new) \in [Fields -> SettingValues]
         /\ \A f \in Fields : Merged(current, new)[f] = IF f \in DOMAIN new THEN new[f] ELSE current[f]
<1>1. PICK fs \in SUBSET Fields : new \in [fs -> SettingValues]
  BY DEF Changes
<1>2. \A f \in DOMAIN new : new[f] \in SettingValues
  BY <1>1
<1> QED BY <1>2 DEF Merged

LEMMA MergedWithNothing ==
  ASSUME NEW current \in [Fields -> SettingValues]
  PROVE  Merged(current, << >>) = current
<1>1. DOMAIN << >> = {}
  OBVIOUS
<1>2. \A f \in Fields : Merged(current, << >>)[f] = current[f] /\ DOMAIN Merged(current, << >>) = Fields
  BY <1>1 DEF Merged
<1>3. DOMAIN Merged(current, << >>) = Fields /\ Merged(current, << >>) = [f \in Fields |-> Merged(current, << >>)[f]]
  BY DEF Merged
<1> QED BY <1>2, <1>3

LEMMA SettingsInitially == SettingsInit /\ RequestsInit => SettingsIInv
<1> SUFFICES ASSUME SettingsInit, RequestsInit PROVE SettingsIInv
  OBVIOUS
<1>1. NoRequest.pc = "idle" /\ "pc" \in DOMAIN NoRequest
  BY DEF NoRequest
<1>2. SettingsTypeOK
  BY SettingsAssumption DEF SettingsInit, SettingsTypeOK, getDefaultSettings
<1>3. Current = getDefaultSettings
  BY DEF SettingsInit, Current
<1> QED BY <1>1, <1>2, <1>3 DEF SettingsInit, RequestsInit, SettingsIInv, Alone, Idle, In

LEMMA SettingsBegin ==
  ASSUME SettingsIInv, NEW p \in Procs, NEW h, BeginSettings(p, h), "pc" \in DOMAIN h,
         h.pc = "settings_upsert" =>
           /\ h.merged \in [Fields -> SettingValues] /\ h.new \in Changes
           /\ h.merged = Merged(Current, h.new)
  PROVE  SettingsIInv'
<1>1. Become(p, h) /\ UNCHANGED <<settings, given, answer>>
  BY DEF BeginSettings
<1>2. handler' = [handler EXCEPT ![p] = h] /\ DOMAIN handler = Procs
  BY <1>1 DEF Become, SettingsIInv
<1>3. SettingsTypeOK' /\ Current' = Current
  BY <1>1 DEF SettingsIInv, SettingsTypeOK, Current
<1>4. ~settingsRaced' => ~settingsRaced /\ Alone'
  BY <1>1, <1>2, AloneBegins DEF BeginSettings
<1>5. \A q \in Procs : handler'[q] = IF q = p THEN h ELSE handler[q]
  BY <1>2
<1>6. \A new : Merged(Current, new)' = Merged(Current, new)
  BY <1>3 DEF Merged
<1>7. ASSUME ~settingsRaced', NEW q \in Procs, handler'[q].pc = "settings_upsert"
      PROVE  handler'[q].merged = Merged(Current, handler'[q].new)
  BY <1>4, <1>5, <1>7 DEF SettingsIInv, In
<1>8. \A q \in Procs : In(q, "settings_upsert")' =>
       handler'[q].merged \in [Fields -> SettingValues] /\ handler'[q].new \in Changes
  BY <1>5 DEF SettingsIInv, In
<1>9. \A q \in Procs : "pc" \in DOMAIN handler'[q]
  BY <1>5 DEF SettingsIInv
<1>10. ~settingsRaced' => \A q \in Procs : In(q, "settings_upsert")' => handler'[q].merged = Merged(Current, handler[q].new)'
  <2> SUFFICES ASSUME ~settingsRaced', NEW q \in Procs, In(q, "settings_upsert")'
               PROVE  handler'[q].merged = Merged(Current, handler[q].new)'
    OBVIOUS
  <2>1. handler'[q].merged = Merged(Current, handler'[q].new)
    BY <1>7 DEF In
  <2>2. Merged(Current, handler[q].new)' = Merged(Current, handler'[q].new)
    BY <1>3 DEF Merged
  <2> QED BY <2>1, <2>2
<1>11. ~settingsRaced' => \A f \in Fields : given'[f] = Current'[f]
  BY <1>1, <1>3, <1>4 DEF SettingsIInv
<1> QED BY <1>2, <1>3, <1>4, <1>8, <1>9, <1>10, <1>11 DEF SettingsIInv

\* A handler that is done, whatever it has written, leaves no other behind.
LEMMA SettingsEnd ==
  ASSUME SettingsIInv, NEW p \in Procs, ~Idle(p), Finish(p), SettingsTypeOK', settingsRaced' = settingsRaced,
         ~settingsRaced => \A f \in Fields : given'[f] = Current'[f]
  PROVE  SettingsIInv'
<1>1. NoRequest.pc = "idle" /\ "pc" \in DOMAIN NoRequest
  BY DEF NoRequest
<1>2. Become(p, NoRequest) /\ handler' = [handler EXCEPT ![p] = NoRequest] /\ DOMAIN handler = Procs
  BY DEF Finish, Become, SettingsIInv
<1>3. \A q \in Procs : handler'[q] = IF q = p THEN NoRequest ELSE handler[q]
  BY <1>2
<1>4. ~settingsRaced' => Alone' /\ \A q \in Procs : handler'[q].pc = "idle"
  <2> SUFFICES ASSUME ~settingsRaced' PROVE Alone' /\ \A q \in Procs : handler'[q].pc = "idle"
    OBVIOUS
  <2>1. Alone
    BY DEF SettingsIInv
  <2>2. \A q \in Procs : q # p => Idle(q)
    BY <2>1, OthersAreIdle
  <2>3. Alone'
    BY <1>2, <2>1, AloneGoesOn
  <2> QED BY <1>1, <1>3, <2>2, <2>3 DEF Idle
<1>5. \A q \in Procs : "pc" \in DOMAIN handler'[q]
  BY <1>1, <1>3 DEF SettingsIInv
<1>6. \A q \in Procs : In(q, "settings_upsert")' =>
       handler'[q].merged \in [Fields -> SettingValues] /\ handler'[q].new \in Changes
  BY <1>1, <1>3 DEF SettingsIInv, In
<1>7. ~settingsRaced' => \A q \in Procs : ~In(q, "settings_upsert")'
  BY <1>4 DEF In
<1> QED BY <1>2, <1>4, <1>5, <1>6, <1>7 DEF SettingsIInv

LEMMA SettingsUpsert ==
  ASSUME SettingsIInv, NEW p \in Procs, Upsert(p)
  PROVE  SettingsIInv'
<1> DEFINE h == handler[p]
<1>1. ~Idle(p) /\ Finish(p) /\ settingsRaced' = settingsRaced
  BY DEF Upsert, In, Idle
<1>2. h.merged \in [Fields -> SettingValues] /\ h.new \in Changes
  BY DEF Upsert, SettingsIInv
<1>3. SettingsTypeOK'
  BY <1>2 DEF Upsert, SettingsIInv, SettingsTypeOK
<1>4. Current' = h.merged
  BY <1>2, SettingsAssumption DEF Upsert, Current
<1>5. ~settingsRaced => \A f \in Fields : given'[f] = Current'[f]
  <2> SUFFICES ASSUME ~settingsRaced, NEW f \in Fields PROVE given'[f] = Current'[f]
    OBVIOUS
  <2>1. h.merged = Merged(Current, h.new) /\ given[f] = Current[f]
    BY DEF SettingsIInv, Upsert
  <2>2. h.merged[f] = IF f \in DOMAIN h.new THEN h.new[f] ELSE Current[f]
    <3>1. SettingsTypeOK
      BY DEF SettingsIInv
    <3> QED BY <1>2, <2>1, <3>1, CurrentIsTyped, MergedIsTyped
  <2>3. given'[f] = IF f \in DOMAIN h.new THEN h.new[f] ELSE given[f]
    BY DEF Upsert
  <2> QED BY <1>4, <2>1, <2>2, <2>3
<1> QED BY <1>1, <1>3, <1>5, SettingsEnd

LEMMA SettingsInductive == SettingsIInv /\ [SettingsNext]_<<svars, rvars>> => SettingsIInv'
<1> SUFFICES ASSUME SettingsIInv, [SettingsNext]_<<svars, rvars>> PROVE SettingsIInv'
  OBVIOUS
<1>1. SettingsTypeOK /\ Current \in [Fields -> SettingValues] /\ getDefaultSettings \in [Fields -> SettingValues]
  BY CurrentIsTyped DEF SettingsIInv
<1>2. ASSUME NEW p \in Procs, NEW new \in Changes, updateSettings(p, new) PROVE SettingsIInv'
  <2> DEFINE h == [pc |-> "settings_upsert", merged |-> Merged(Current, new), new |-> new]
  <2>1. BeginSettings(p, h)
    BY <1>2 DEF updateSettings
  <2>2. h.merged \in [Fields -> SettingValues]
    BY <1>1, MergedIsTyped
  <2>3. /\ "pc" \in DOMAIN h /\ h.new \in Changes /\ h.merged = Merged(Current, h.new)
    OBVIOUS
  <2> HIDE DEF h
  <2> QED BY <2>1, <2>2, <2>3, SettingsBegin
<1>3. ASSUME NEW p \in Procs, findAll(p) PROVE SettingsIInv'
  <2>1. CASE settings = Missing
    <3>1. BeginSettings(p, [pc |-> "settings_create"])
      BY <1>3, <2>1 DEF findAll
    <3> QED BY <3>1, SettingsBegin
  <2>2. CASE settings # Missing
    <3>1. UNCHANGED <<settings, given, settingsRaced, handler, faults>> /\ answer' = Merged(settings, << >>)
      BY <1>3, <2>2 DEF findAll, rvars
    <3>2. settings \in [Fields -> SettingValues]
      BY <1>1, <2>2 DEF SettingsTypeOK
    <3>3. SettingsTypeOK'
      BY <1>1, <3>1, <3>2, MergedWithNothing DEF SettingsTypeOK
    <3> QED BY <3>1, <3>3 DEF SettingsIInv, Alone, Idle, In, Current, Merged
  <2> QED BY <2>1, <2>2
<1>4. ASSUME NEW p \in Procs, CreateDefaults(p) PROVE SettingsIInv'
  <2>1. ~Idle(p) /\ Finish(p) /\ settingsRaced' = settingsRaced /\ given' = given
    BY <1>4 DEF CreateDefaults, In, Idle
  <2>2. SettingsTypeOK'
    BY <1>1, <1>4 DEF CreateDefaults, SettingsTypeOK
  <2>3. Current' = Current
    BY <1>4 DEF CreateDefaults, Current
  <2>4. ~settingsRaced => \A f \in Fields : given'[f] = Current'[f]
    BY <2>1, <2>3 DEF SettingsIInv
  <2> QED BY <2>1, <2>2, <2>4, SettingsEnd
<1>5. ASSUME NEW p \in Procs, Dies(p), UNCHANGED svars PROVE SettingsIInv'
  <2>1. UNCHANGED <<settings, given, answer, settingsRaced>> /\ handler' = [handler EXCEPT ![p] = NoRequest]
    BY <1>5 DEF svars, Dies
  <2>2. NoRequest.pc = "idle" /\ "pc" \in DOMAIN NoRequest
    BY DEF NoRequest
  <2>3. ~settingsRaced' => Alone'
    BY <1>5, <2>1, AloneDies DEF SettingsIInv
  <2>4. SettingsTypeOK' /\ Current' = Current
    BY <1>1, <2>1 DEF SettingsTypeOK, Current
  <2>5. DOMAIN handler = Procs /\ \A q \in Procs : handler'[q] = handler[q] \/ handler'[q] = NoRequest
    BY <2>1 DEF SettingsIInv
  <2> QED BY <2>1, <2>2, <2>3, <2>4, <2>5 DEF SettingsIInv, In, Merged
<1>6. CASE UNCHANGED <<svars, rvars>>
  BY <1>6 DEF svars, rvars, SettingsIInv, SettingsTypeOK, Alone, Idle, In, Current, Merged
<1> QED BY <1>2, <1>3, <1>4, <1>5, <1>6, SettingsUpsert DEF SettingsNext, SettingsRequest

LEMMA SettingsKept == SettingsIInv => SettingsKeepSections
<1> SUFFICES ASSUME SettingsIInv, ~settingsRaced, NEW g \in Fields, NEW f \in DOMAIN findOne(SectionOf[g])
             PROVE  findOne(SectionOf[g])[f] = given[f]
  BY DEF SettingsKeepSections
<1>1. f \in Fields
  BY DEF findOne
<1>2. findOne(SectionOf[g])[f] = Merged(Current, << >>)[f]
  BY DEF findOne
<1>3. Merged(Current, << >>) = Current
  BY CurrentIsTyped, MergedWithNothing DEF SettingsIInv
<1> QED BY <1>1, <1>2, <1>3 DEF SettingsIInv

\* update writes the whole row back: where no two requests met, every field keeps
\* the last value it was given, whatever the others were set to (updateSettings).
THEOREM SettingsAreKept == SettingsSpec => []SettingsKeepSections
<1>1. SettingsInit /\ RequestsInit => SettingsIInv
  BY SettingsInitially
<1>2. SettingsIInv /\ [SettingsNext]_<<svars, rvars>> => SettingsIInv'
  BY SettingsInductive
<1>3. SettingsIInv => SettingsKeepSections
  BY SettingsKept
<1> QED BY <1>1, <1>2, <1>3, PTL DEF SettingsSpec

\* What is stored is no row or one with every field, and what a request answers has all
\* fields, whoever meets whom (updateSettings).
THEOREM SettingsAreTyped == SettingsSpec => []SettingsTypeOK
<1>1. SettingsInit /\ RequestsInit => SettingsIInv
  BY SettingsInitially
<1>2. SettingsIInv /\ [SettingsNext]_<<svars, rvars>> => SettingsIInv'
  BY SettingsInductive
<1>3. SettingsIInv => SettingsTypeOK
  BY DEF SettingsIInv
<1> QED BY <1>1, <1>2, <1>3, PTL DEF SettingsSpec

-----------------------------------------------------------------------------
(* Payment cards.                                                            *)

DefaultCards == {i \in LiveCards : card[i].isDefault}

OnCard == {"card_clear", "card_set", "card_delete", "card_found"}

\* What a handler has read still holds, as long as it met no other.
CardHandlerOK(h) ==
  /\ h.pc = "card_insert" => (h.isDefault <=> LiveCards = {})
  /\ h.pc \in OnCard => h.card \in LiveCards
  /\ h.pc = "card_delete" => (h.wasDefault <=> h.card \in DefaultCards)
  /\ h.pc \in {"card_set", "card_remaining", "card_found"} => DefaultCards = {}
  /\ h.pc \in {"idle", "card_insert", "card_delete"} => (LiveCards # {} => DefaultCards # {})

CardsTypedHandler(h) ==
  /\ "pc" \in DOMAIN h
  /\ h.pc \in OnCard => "card" \in DOMAIN h /\ h.card \in DOMAIN card
  /\ h.pc = "card_insert" => h.isDefault \in BOOLEAN
  /\ h.pc = "card_delete" => h.wasDefault \in BOOLEAN

CardsTablesOK ==
  /\ card \in Seq(Card) /\ Len(card) <= MaxCards
  /\ DOMAIN handler = Procs
  /\ faults \in Nat
  /\ \A p \in Procs : CardsTypedHandler(handler[p])

\* Alone, the handler at work is the only one whose reads matter; at rest, any.
CardsAgree ==
  /\ Alone
  /\ \A i, j \in DefaultCards : i = j
  /\ \A p \in Procs : ~Idle(p) => CardHandlerOK(handler[p])
  /\ (\A p \in Procs : Idle(p)) => CardHandlerOK(NoRequest)

CardsIInv == CardsTablesOK /\ (~cardsRaced /\ faults = 0 => CardsAgree)

LEMMA CardsInitially == PaymentCardsInit /\ RequestsInit => CardsIInv
<1> SUFFICES ASSUME PaymentCardsInit, RequestsInit PROVE CardsIInv
  OBVIOUS
<1>1. NoRequest.pc = "idle" /\ "pc" \in DOMAIN NoRequest
  BY DEF NoRequest
<1>2. DOMAIN card = {} /\ LiveCards = {} /\ DefaultCards = {}
  BY DEF PaymentCardsInit, LiveCards, DefaultCards
<1>3. CardsTablesOK
  BY <1>1, PaymentCardsAssumption DEF PaymentCardsInit, RequestsInit, CardsTablesOK, CardsTypedHandler, OnCard
<1>4. CardsAgree
  BY <1>1, <1>2 DEF RequestsInit, CardsAgree, Alone, Idle, CardHandlerOK, OnCard
<1> QED BY <1>3, <1>4 DEF CardsIInv

\* The step of a handler, to h: what it must show of the cards it leaves.
LEMMA CardStep ==
  ASSUME CardsIInv, NEW p \in Procs, NEW h, Become(p, h),
         card' \in Seq(Card), Len(card') <= MaxCards, DOMAIN card \subseteq DOMAIN card', CardsTypedHandler(h)',
         cardsRaced => cardsRaced',
         (\E q \in Procs \ {p} : ~Idle(q)) => cardsRaced' \/ ~Idle(p),
         ~cardsRaced' /\ faults = 0 /\ CardsAgree =>
           CardHandlerOK(h)' /\ \A i, j \in DefaultCards' : i = j
  PROVE  CardsIInv'
<1>1. handler' = [handler EXCEPT ![p] = h] /\ DOMAIN handler = Procs /\ faults' = faults
  BY DEF Become, CardsIInv, CardsTablesOK
<1>2. \A q \in Procs : handler'[q] = IF q = p THEN h ELSE handler[q]
  BY <1>1
<1>3. CardsTablesOK'
  <2>1. \A q \in Procs : CardsTypedHandler(handler[q])'
    <3> TAKE q \in Procs
    <3>1. CASE q = p
      BY <1>2, <3>1 DEF CardsTypedHandler
    <3>2. CASE q # p
      BY <1>2, <3>2 DEF CardsTypedHandler, CardsIInv, CardsTablesOK
    <3> QED BY <3>1, <3>2
  <2> QED BY <1>1, <2>1 DEF CardsIInv, CardsTablesOK
<1>4. ASSUME ~cardsRaced', faults' = 0 PROVE CardsAgree'
  <2>1. ~cardsRaced /\ faults = 0
    BY <1>1, <1>4
  <2>2. CardsAgree
    BY <2>1 DEF CardsIInv
  <2>3. \A q \in Procs : q # p => Idle(q)
    BY <1>4, <2>1, <2>2 DEF CardsAgree, Alone
  <2>4. Alone'
    BY <1>1, <2>3, AloneBegins
  <2>5. CardHandlerOK(h)' /\ \A i, j \in DefaultCards' : i = j
    BY <1>4, <2>1, <2>2
  <2>6. \A q \in Procs : ~Idle(q)' => CardHandlerOK(handler[q])'
    <3> SUFFICES ASSUME NEW q \in Procs, ~Idle(q)' PROVE CardHandlerOK(handler[q])'
      OBVIOUS
    <3>1. q = p
      BY <1>2, <2>3 DEF Idle
    <3> QED BY <1>2, <2>5, <3>1 DEF CardHandlerOK
  <2>7. (\A q \in Procs : Idle(q)') => CardHandlerOK(NoRequest)'
    <3> SUFFICES ASSUME \A q \in Procs : Idle(q)' PROVE CardHandlerOK(NoRequest)'
      OBVIOUS
    <3>1. h.pc = "idle"
      BY <1>2 DEF Idle
    <3>2. NoRequest.pc = "idle"
      BY DEF NoRequest
    <3> QED BY <2>5, <3>1, <3>2 DEF CardHandlerOK, OnCard
  <2> QED BY <2>4, <2>5, <2>6, <2>7 DEF CardsAgree
<1> QED BY <1>3, <1>4 DEF CardsIInv

\* At work and alone, or at rest: what the acting handler may use.
LEMMA CardsAtWork ==
  ASSUME CardsIInv, NEW p \in Procs
  PROVE  /\ CardsTypedHandler(handler[p])
         /\ \A i \in DOMAIN card : card[i] \in Card
         /\ DOMAIN card = 1..Len(card) /\ Len(card) \in Nat
         /\ CardsAgree /\ ~Idle(p) => CardHandlerOK(handler[p])
         /\ CardsAgree /\ Idle(p) /\ (\A q \in Procs \ {p} : Idle(q)) => CardHandlerOK(NoRequest)
BY DEF CardsIInv, CardsTablesOK, CardsAgree

LEMMA CardBegins ==
  ASSUME CardsIInv, NEW p \in Procs, NEW h, BeginCard(p, h), CardsTypedHandler(h),
         CardHandlerOK(NoRequest) => CardHandlerOK(h)
  PROVE  CardsIInv'
<1>1. Become(p, h) /\ card' = card
  BY DEF BeginCard
<1>2. card \in Seq(Card) /\ Len(card) <= MaxCards
  BY DEF CardsIInv, CardsTablesOK
<1>3. LiveCards' = LiveCards /\ DefaultCards' = DefaultCards
  BY <1>1 DEF LiveCards, DefaultCards
<1>4. CardsTypedHandler(h)'
  BY <1>1 DEF CardsTypedHandler
<1>5. ~cardsRaced' /\ faults = 0 /\ CardsAgree => CardHandlerOK(h)' /\ \A i, j \in DefaultCards' : i = j
  <2> SUFFICES ASSUME ~cardsRaced', CardsAgree PROVE CardHandlerOK(h)' /\ \A i, j \in DefaultCards' : i = j
    OBVIOUS
  <2>1. Idle(p) /\ \A q \in Procs \ {p} : Idle(q)
    BY DEF BeginCard
  <2>2. CardHandlerOK(h)
    BY <2>1, CardsAtWork
  <2> QED BY <1>3, <2>2 DEF CardHandlerOK, CardsAgree
<1>6. (cardsRaced => cardsRaced') /\ ((\E q \in Procs \ {p} : ~Idle(q)) => cardsRaced')
  BY DEF BeginCard
<1> QED BY <1>1, <1>2, <1>4, <1>5, <1>6, CardStep

LEMMA CardGoes ==
  ASSUME CardsIInv, NEW p \in Procs, ~Idle(p), NEW h, Goes(p, h),
         card' \in Seq(Card), Len(card') <= MaxCards, DOMAIN card \subseteq DOMAIN card', CardsTypedHandler(h)',
         CardHandlerOK(handler[p]) /\ (\A i, j \in DefaultCards : i = j) =>
           CardHandlerOK(h)' /\ \A i, j \in DefaultCards' : i = j
  PROVE  CardsIInv'
<1>1. Become(p, h) /\ cardsRaced' = cardsRaced
  BY DEF Goes
<1>2. ~cardsRaced' /\ faults = 0 /\ CardsAgree => CardHandlerOK(h)' /\ \A i, j \in DefaultCards' : i = j
  BY CardsAtWork DEF CardsAgree
<1> QED BY <1>1, <1>2, CardStep

LEMMA RestIsTyped == CardsTypedHandler(NoRequest) /\ CardsTypedHandler(NoRequest)' /\ NoRequest.pc = "idle"
BY DEF CardsTypedHandler, NoRequest, OnCard

LEMMA AddInsertsStep ==
  ASSUME CardsIInv, NEW p \in Procs, AddInserts(p)
  PROVE  CardsIInv'
<1> DEFINE n == Len(card) + 1
           new == [isDefault |-> handler[p].isDefault, isActive |-> TRUE]
<1>1. ~Idle(p) /\ Goes(p, NoRequest) /\ handler[p].pc = "card_insert" /\ Len(card) < MaxCards
  BY DEF AddInserts, In, Idle
<1>2. new \in Card /\ card \in Seq(Card)
  BY <1>1 DEF CardsIInv, CardsTablesOK, CardsTypedHandler, Card
<1>3. PICK row \in Card : row = new
  BY <1>2
<1>4. card' = Append(card, row)
  BY <1>3 DEF AddInserts
<1>5. /\ card' \in Seq(Card) /\ Len(card') = n /\ DOMAIN card' = DOMAIN card \cup {n} /\ n \notin DOMAIN card
      /\ card'[n] = row /\ \A i \in DOMAIN card : card'[i] = card[i]
  BY <1>2, <1>4
<1>6. /\ LiveCards' = LiveCards \cup {n}
      /\ DefaultCards' = DefaultCards \cup (IF row.isDefault THEN {n} ELSE {})
  BY <1>3, <1>5 DEF LiveCards, DefaultCards
<1>7. CardHandlerOK(handler[p]) => CardHandlerOK(NoRequest)' /\ \A i, j \in DefaultCards' : i = j \/ {i, j} \subseteq DefaultCards
  <2> SUFFICES ASSUME CardHandlerOK(handler[p])
               PROVE  CardHandlerOK(NoRequest)' /\ \A i, j \in DefaultCards' : i = j \/ {i, j} \subseteq DefaultCards
    OBVIOUS
  <2>1. row.isDefault <=> LiveCards = {}
    BY <1>1, <1>3 DEF CardHandlerOK
  <2>2. DefaultCards \subseteq LiveCards
    BY DEF DefaultCards
  <2>3. LiveCards # {} => DefaultCards # {}
    BY <1>1 DEF CardHandlerOK
  <2>4. DefaultCards' # {} /\ (DefaultCards' = {n} \/ DefaultCards' = DefaultCards)
    BY <1>6, <2>1, <2>2, <2>3
  <2>5. CardHandlerOK(NoRequest)'
    BY <2>4, RestIsTyped DEF CardHandlerOK, OnCard
  <2> QED BY <2>4, <2>5
<1>8. Len(card') <= MaxCards /\ DOMAIN card \subseteq DOMAIN card'
  BY <1>1, <1>2, <1>5, PaymentCardsAssumption
<1> QED BY <1>1, <1>5, <1>7, <1>8, RestIsTyped, CardGoes

\* A step that rewrites cards where they are.
LEMMA CardsRewritten ==
  ASSUME CardsIInv, DOMAIN card' = DOMAIN card, card' = [i \in DOMAIN card |-> card'[i]], \A i \in DOMAIN card : card'[i] \in Card
  PROVE  card' \in Seq(Card) /\ Len(card') <= MaxCards /\ Len(card') = Len(card)
<1>1. card \in Seq(Card) /\ Len(card) <= MaxCards
  BY DEF CardsIInv, CardsTablesOK
<1>2. card' \in [1..Len(card) -> Card]
  BY <1>1
<1> QED BY <1>1, <1>2

LEMMA ClearDefaultsStep ==
  ASSUME CardsIInv, NEW p \in Procs, ClearDefaults(p)
  PROVE  CardsIInv'
<1>0. PICK h : h = [handler[p] EXCEPT !.pc = "card_set"]
  OBVIOUS
<1>1. ~Idle(p) /\ Goes(p, h) /\ handler[p].pc = "card_clear"
  BY <1>0 DEF ClearDefaults, In, Idle
<1>2. \A i \in DOMAIN card : card[i] \in Card
  BY CardsAtWork
<1>3. \A i \in DOMAIN card : [card[i] EXCEPT !.isDefault = FALSE] \in Card
                             /\ [card[i] EXCEPT !.isDefault = FALSE].isActive = card[i].isActive
                             /\ ~[card[i] EXCEPT !.isDefault = FALSE].isDefault
  BY <1>2 DEF Card
<1>4. /\ DOMAIN card' = DOMAIN card /\ card' = [i \in DOMAIN card |-> card'[i]]
      /\ \A i \in DOMAIN card : card'[i] = IF i \in LiveCards THEN [card[i] EXCEPT !.isDefault = FALSE] ELSE card[i]
  BY DEF ClearDefaults
<1>5. \A i \in DOMAIN card : card'[i] \in Card /\ card'[i].isActive = card[i].isActive
                             /\ (i \in LiveCards => ~card'[i].isDefault)
  BY <1>2, <1>3, <1>4
<1>6. LiveCards' = LiveCards /\ DefaultCards' = {}
  BY <1>4, <1>5 DEF LiveCards, DefaultCards
<1>7. card' \in Seq(Card) /\ Len(card') <= MaxCards
  BY <1>4, <1>5, CardsRewritten
<1>8. h.pc = "card_set" /\ h.card = handler[p].card /\ "pc" \in DOMAIN h /\ "card" \in DOMAIN h
      /\ h.card \in DOMAIN card
  BY <1>0, <1>1, CardsAtWork DEF CardsTypedHandler, OnCard
<1>9. CardsTypedHandler(h)'
  BY <1>4, <1>8 DEF CardsTypedHandler
<1>10. CardHandlerOK(handler[p]) => CardHandlerOK(h)'
  BY <1>1, <1>6, <1>8 DEF CardHandlerOK, OnCard
<1> QED BY <1>1, <1>4, <1>6, <1>7, <1>9, <1>10, CardGoes

LEMMA SetDefaultStep ==
  ASSUME CardsIInv, NEW p \in Procs, SetDefault(p)
  PROVE  CardsIInv'
<1>1. PICK c : c = handler[p].card
  OBVIOUS
<1>2. ~Idle(p) /\ Goes(p, NoRequest) /\ handler[p].pc = "card_set" /\ c \in DOMAIN card
  BY <1>1, CardsAtWork DEF SetDefault, In, Idle, CardsTypedHandler, OnCard
<1>3. \A i \in DOMAIN card : card[i] \in Card
  BY CardsAtWork
<1>4. card' = [card EXCEPT ![c] = [card[c] EXCEPT !.isDefault = TRUE]]
  BY <1>1, <1>2 DEF SetDefault
<1>5. [card[c] EXCEPT !.isDefault = TRUE] \in Card /\ [card[c] EXCEPT !.isDefault = TRUE].isActive = card[c].isActive
      /\ [card[c] EXCEPT !.isDefault = TRUE].isDefault
  BY <1>2, <1>3 DEF Card
<1>6. /\ DOMAIN card' = DOMAIN card /\ card' = [i \in DOMAIN card |-> card'[i]]
      /\ \A i \in DOMAIN card : card'[i] \in Card /\ card'[i].isActive = card[i].isActive
      /\ \A i \in DOMAIN card : card'[i].isDefault <=> card[i].isDefault \/ i = c
  BY <1>2, <1>3, <1>4, <1>5
<1>7. LiveCards' = LiveCards /\ \A i : i \in DefaultCards' <=> i \in DefaultCards \/ (i = c /\ c \in LiveCards)
  BY <1>2, <1>6 DEF LiveCards, DefaultCards
<1>8. card' \in Seq(Card) /\ Len(card') <= MaxCards
  BY <1>6, CardsRewritten
<1>9. CardHandlerOK(handler[p]) => CardHandlerOK(NoRequest)' /\ \A i, j \in DefaultCards' : i = j
  <2> SUFFICES ASSUME CardHandlerOK(handler[p]) PROVE CardHandlerOK(NoRequest)' /\ \A i, j \in DefaultCards' : i = j
    OBVIOUS
  <2>1. c \in LiveCards /\ DefaultCards = {}
    BY <1>1, <1>2 DEF CardHandlerOK, OnCard
  <2>2. DefaultCards' = {c}
    BY <1>7, <2>1
  <2> QED BY <2>2, RestIsTyped DEF CardHandlerOK, OnCard
<1> QED BY <1>2, <1>6, <1>8, <1>9, RestIsTyped, CardGoes

LEMMA DeleteWritesStep ==
  ASSUME CardsIInv, NEW p \in Procs, DeleteWrites(p)
  PROVE  CardsIInv'
<1>1. PICK c : c = handler[p].card
  OBVIOUS
<1>2. PICK h : h = IF handler[p].wasDefault THEN [pc |-> "card_remaining"] ELSE NoRequest
  OBVIOUS
<1>3. ~Idle(p) /\ Goes(p, h) /\ handler[p].pc = "card_delete" /\ c \in DOMAIN card /\ handler[p].wasDefault \in BOOLEAN
  BY <1>1, <1>2, CardsAtWork DEF DeleteWrites, In, Idle, CardsTypedHandler, OnCard
<1>4. \A i \in DOMAIN card : card[i] \in Card
  BY CardsAtWork
<1>5. card' = [card EXCEPT ![c] = [card[c] EXCEPT !.isActive = FALSE]]
  BY <1>1, <1>3 DEF DeleteWrites
<1>6. [card[c] EXCEPT !.isActive = FALSE] \in Card /\ [card[c] EXCEPT !.isActive = FALSE].isDefault = card[c].isDefault
      /\ ~[card[c] EXCEPT !.isActive = FALSE].isActive
  BY <1>3, <1>4 DEF Card
<1>7. /\ DOMAIN card' = DOMAIN card /\ card' = [i \in DOMAIN card |-> card'[i]]
      /\ \A i \in DOMAIN card : card'[i] \in Card /\ card'[i].isDefault = card[i].isDefault
      /\ \A i \in DOMAIN card : card'[i].isActive <=> card[i].isActive /\ i # c
  BY <1>3, <1>4, <1>5, <1>6
<1>8. LiveCards' = LiveCards \ {c} /\ DefaultCards' = DefaultCards \ {c}
  BY <1>7 DEF LiveCards, DefaultCards
<1>9. card' \in Seq(Card) /\ Len(card') <= MaxCards
  BY <1>7, CardsRewritten
<1>10. h.pc \in {"idle", "card_remaining"} /\ "pc" \in DOMAIN h /\ (h.pc = "card_remaining" <=> handler[p].wasDefault)
  BY <1>2, <1>3 DEF NoRequest
<1>11. CardsTypedHandler(h)'
  BY <1>10 DEF CardsTypedHandler, OnCard
<1>12. ASSUME CardHandlerOK(handler[p]), \A i, j \in DefaultCards : i = j
       PROVE  CardHandlerOK(h)' /\ \A i, j \in DefaultCards' : i = j
  <2>1. (handler[p].wasDefault <=> c \in DefaultCards) /\ (LiveCards # {} => DefaultCards # {})
    BY <1>1, <1>3, <1>12 DEF CardHandlerOK
  <2>2. CASE handler[p].wasDefault
    <3>1. DefaultCards' = {}
      BY <1>8, <1>12, <2>1, <2>2
    <3> QED BY <1>10, <2>2, <3>1 DEF CardHandlerOK, OnCard
  <2>3. CASE ~handler[p].wasDefault
    <3>1. DefaultCards' = DefaultCards /\ LiveCards' \subseteq LiveCards
      BY <1>8, <2>1, <2>3
    <3>2. LiveCards' # {} => DefaultCards' # {}
      BY <2>1, <3>1
    <3> QED BY <1>10, <1>12, <2>3, <3>1, <3>2 DEF CardHandlerOK, OnCard
  <2> QED BY <2>2, <2>3
<1> QED BY <1>3, <1>7, <1>9, <1>11, <1>12, CardGoes

\* A step that reads the cards, and moves the handler on.
LEMMA CardReads ==
  ASSUME CardsIInv, NEW p \in Procs, ~Idle(p), NEW h, Goes(p, h), card' = card, CardsTypedHandler(h),
         CardHandlerOK(handler[p]) => CardHandlerOK(h)
  PROVE  CardsIInv'
<1>1. card' \in Seq(Card) /\ Len(card') <= MaxCards /\ DOMAIN card \subseteq DOMAIN card'
  BY DEF CardsIInv, CardsTablesOK
<1>2. LiveCards' = LiveCards /\ DefaultCards' = DefaultCards
  BY DEF LiveCards, DefaultCards
<1>3. CardsTypedHandler(h)'
  BY DEF CardsTypedHandler
<1>4. CardHandlerOK(h) => CardHandlerOK(h)'
  BY <1>2 DEF CardHandlerOK
<1> QED BY <1>1, <1>2, <1>3, <1>4, CardGoes

LEMMA CardReadsStep ==
  ASSUME CardsIInv, NEW p \in Procs, ReadRemaining(p) \/ FindAgain(p)
  PROVE  CardsIInv'
<1>1. ~Idle(p) /\ card' = card
  BY DEF ReadRemaining, FindAgain, In, Idle
<1>2. CASE ReadRemaining(p)
  <2>1. handler[p].pc = "card_remaining"
    BY <1>2 DEF ReadRemaining, In
  <2>2. CASE LiveCards = {} /\ Goes(p, NoRequest)
    <3>1. CardHandlerOK(NoRequest)
      BY <2>2, RestIsTyped DEF CardHandlerOK, OnCard
    <3> QED BY <1>1, <2>2, <3>1, RestIsTyped, CardReads
  <2>3. ASSUME NEW i \in Foremost, Goes(p, [pc |-> "card_found", card |-> i]) PROVE CardsIInv'
    <3>1. i \in LiveCards /\ i \in DOMAIN card
      BY DEF Foremost, LiveCards
    <3>2. CardsTypedHandler([pc |-> "card_found", card |-> i])
      BY <3>1 DEF CardsTypedHandler, OnCard
    <3>3. CardHandlerOK(handler[p]) => CardHandlerOK([pc |-> "card_found", card |-> i])
      BY <2>1, <3>1 DEF CardHandlerOK, OnCard
    <3> QED BY <1>1, <2>3, <3>2, <3>3, CardReads
  <2> QED BY <1>2, <2>2, <2>3 DEF ReadRemaining
<1>3. CASE FindAgain(p)
  <2>1. PICK i : i = handler[p].card
    OBVIOUS
  <2>2. handler[p].pc = "card_found" /\ i \in DOMAIN card
    BY <1>3, <2>1, CardsAtWork DEF FindAgain, In, CardsTypedHandler, OnCard
  <2>3. CASE i \in LiveCards
    <3>1. Goes(p, [pc |-> "card_clear", card |-> i])
      BY <1>3, <2>1, <2>3 DEF FindAgain
    <3>2. CardsTypedHandler([pc |-> "card_clear", card |-> i])
      BY <2>2 DEF CardsTypedHandler, OnCard
    <3>3. CardHandlerOK([pc |-> "card_clear", card |-> i])
      BY <2>3 DEF CardHandlerOK, OnCard
    <3> QED BY <1>1, <3>1, <3>2, <3>3, CardReads
  <2>4. CASE i \notin LiveCards
    <3>1. Goes(p, NoRequest)
      BY <1>3, <2>1, <2>4 DEF FindAgain
    <3>2. ~CardHandlerOK(handler[p])
      BY <2>1, <2>2, <2>4 DEF CardHandlerOK, OnCard
    <3> QED BY <1>1, <3>1, <3>2, RestIsTyped, CardReads
  <2> QED BY <2>3, <2>4
<1> QED BY <1>2, <1>3

LEMMA CardBeginsStep ==
  ASSUME CardsIInv, NEW p \in Procs, addCard(p) \/ \E i \in DOMAIN card : setDefaultCard(p, i) \/ deleteCard(p, i)
  PROVE  CardsIInv'
<1>1. CASE addCard(p)
  <2> DEFINE h == [pc |-> "card_insert", isDefault |-> LiveCards = {}]
  <2>1. "pc" \in DOMAIN h /\ h.pc = "card_insert" /\ h.isDefault \in BOOLEAN /\ (h.isDefault <=> LiveCards = {})
    OBVIOUS
  <2>2. BeginCard(p, h)
    BY <1>1 DEF addCard
  <2> HIDE DEF h
  <2>3. CardsTypedHandler(h)
    BY <2>1 DEF CardsTypedHandler, OnCard
  <2>4. CardHandlerOK(NoRequest) => CardHandlerOK(h)
    BY <2>1, RestIsTyped DEF CardHandlerOK, OnCard
  <2> QED BY <2>2, <2>3, <2>4, CardBegins
<1>2. ASSUME NEW i \in DOMAIN card, setDefaultCard(p, i) PROVE CardsIInv'
  <2>1. BeginCard(p, [pc |-> "card_clear", card |-> i]) /\ i \in LiveCards
    BY <1>2 DEF setDefaultCard
  <2>2. CardsTypedHandler([pc |-> "card_clear", card |-> i])
    BY DEF CardsTypedHandler, OnCard
  <2>3. CardHandlerOK([pc |-> "card_clear", card |-> i])
    BY <2>1 DEF CardHandlerOK, OnCard
  <2> QED BY <2>1, <2>2, <2>3, CardBegins
<1>3. ASSUME NEW i \in DOMAIN card, deleteCard(p, i) PROVE CardsIInv'
  <2> DEFINE h == [pc |-> "card_delete", card |-> i, wasDefault |-> card[i].isDefault]
  <2>1. BeginCard(p, h) /\ i \in LiveCards
    BY <1>3 DEF deleteCard
  <2>2. card[i].isDefault \in BOOLEAN
    BY CardsAtWork DEF Card
  <2>3. /\ h.pc = "card_delete" /\ "pc" \in DOMAIN h /\ "card" \in DOMAIN h /\ h.card = i
        /\ h.wasDefault \in BOOLEAN /\ (h.wasDefault <=> i \in DefaultCards)
    BY <2>1, <2>2 DEF DefaultCards
  <2> HIDE DEF h
  <2>4. CardsTypedHandler(h)
    BY <2>3 DEF CardsTypedHandler, OnCard
  <2>5. CardHandlerOK(NoRequest) => CardHandlerOK(h)
    BY <2>1, <2>3, RestIsTyped DEF CardHandlerOK, OnCard
  <2> QED BY <2>1, <2>4, <2>5, CardBegins
<1> QED BY <1>1, <1>2, <1>3

LEMMA CardsInductive == CardsIInv /\ [PaymentCardsNext]_<<cvars, rvars>> => CardsIInv'
<1> SUFFICES ASSUME CardsIInv, [PaymentCardsNext]_<<cvars, rvars>> PROVE CardsIInv'
  OBVIOUS
<1>1. ASSUME NEW p \in Procs, CardRequest(p) PROVE CardsIInv'
  BY <1>1, CardBeginsStep, AddInsertsStep, ClearDefaultsStep, SetDefaultStep, DeleteWritesStep, CardReadsStep
     DEF CardRequest
<1>2. ASSUME NEW p \in Procs, Dies(p), UNCHANGED cvars PROVE CardsIInv'
  <2>1. UNCHANGED <<card, cardsRaced>> /\ handler' = [handler EXCEPT ![p] = NoRequest] /\ faults' = faults + 1
    BY <1>2 DEF cvars, Dies
  <2>2. faults' \in Nat /\ faults' # 0
    BY <2>1 DEF CardsIInv, CardsTablesOK
  <2>3. DOMAIN handler = Procs /\ \A q \in Procs : handler'[q] = handler[q] \/ handler'[q] = NoRequest
    BY <2>1 DEF CardsIInv, CardsTablesOK
  <2>4. \A q \in Procs : CardsTypedHandler(handler[q])'
    <3> TAKE q \in Procs
    <3>1. CASE handler'[q] = handler[q]
      BY <2>1, <3>1 DEF CardsTypedHandler, CardsIInv, CardsTablesOK
    <3>2. CASE handler'[q] = NoRequest
      BY <3>2 DEF CardsTypedHandler, NoRequest, OnCard
    <3> QED BY <2>3, <3>1, <3>2
  <2> QED BY <2>1, <2>2, <2>3, <2>4 DEF CardsIInv, CardsTablesOK
<1>3. CASE UNCHANGED <<cvars, rvars>>
  BY <1>3 DEF cvars, rvars, CardsIInv, CardsTablesOK, CardsTypedHandler, CardsAgree, CardHandlerOK, Alone, Idle,
     DefaultCards, LiveCards
<1> QED BY <1>1, <1>2, <1>3 DEF PaymentCardsNext

\* Unless a handler was cut short or met another, a user with cards has one default
\* card whenever none is at work, and never two (addCard, setDefaultCard, deleteCard).
THEOREM CardsHaveOneDefault == PaymentCardsSpec => []OneDefaultCard
<1>1. PaymentCardsInit /\ RequestsInit => CardsIInv
  BY CardsInitially
<1>2. CardsIInv /\ [PaymentCardsNext]_<<cvars, rvars>> => CardsIInv'
  BY CardsInductive
<1>3. CardsIInv => OneDefaultCard
  BY RestIsTyped DEF CardsIInv, CardsAgree, OneDefaultCard, CardHandlerOK, DefaultCards
<1> QED BY <1>1, <1>2, <1>3, PTL DEF PaymentCardsSpec

\* The rows of the cards are typed and within the bound, races and deaths included
\* (addCard, setDefaultCard, deleteCard).
THEOREM CardsAreTyped == PaymentCardsSpec => []PaymentCardsTypeOK
<1>1. PaymentCardsInit /\ RequestsInit => CardsIInv
  BY CardsInitially
<1>2. CardsIInv /\ [PaymentCardsNext]_<<cvars, rvars>> => CardsIInv'
  BY CardsInductive
<1>3. CardsIInv => PaymentCardsTypeOK
  BY DEF CardsIInv, CardsTablesOK, PaymentCardsTypeOK
<1> QED BY <1>1, <1>2, <1>3, PTL DEF PaymentCardsSpec

-----------------------------------------------------------------------------
(* Reviews.                                                                  *)

RatingNow == [total |-> SumFunction([i \in Verified |-> review[i].rating]), count |-> Cardinality(Verified)]

\* Nobody without an order has two reviews.
ReviewedOnce ==
  \A i, j \in LiveReviews :
    review[i].user = review[j].user /\ review[i].order = NoOrder /\ review[j].order = NoOrder => i = j

\* What a handler has read still holds, as long as it met no other, and the rating
\* is out of date only while one is on its way to write it.
ReviewHandlerOK(h) ==
  /\ h.pc = "review_insert" /\ h.row.order = NoOrder => \A i \in LiveReviews : review[i].user # h.row.user
  /\ h.pc = "rate" => h.rating = RatingNow
  /\ h.pc \notin {"recalculate", "rate"} /\ rating # Seeded => rating = RatingNow

ReviewTypedHandler(h) ==
  /\ "pc" \in DOMAIN h
  /\ h.pc = "review_insert" => h.row \in ReviewRow /\ ~h.row.deleted /\ ~h.row.isVerified
  /\ h.pc = "review_update" => h.row \in DOMAIN review /\ h.rating \in Stars
  /\ h.pc = "review_remove" => h.row \in DOMAIN review
  /\ h.pc = "rate" => h.rating \in [total : Nat, count : Nat]

ReviewRowsOK ==
  /\ review \in Seq(ReviewRow) /\ Len(review) <= MaxReviews
  /\ rating \in [total : Nat, count : Nat]
  /\ \A i, j \in DOMAIN review : review[i].order = review[j].order /\ review[i].order # NoOrder => i = j

ReviewTablesOK ==
  /\ ReviewRowsOK
  /\ DOMAIN handler = Procs
  /\ faults \in Nat
  /\ \A p \in Procs : ReviewTypedHandler(handler[p])

ReviewsAgree ==
  /\ Alone
  /\ ReviewedOnce
  /\ \A p \in Procs : ~Idle(p) => ReviewHandlerOK(handler[p])
  /\ (\A p \in Procs : Idle(p)) => ReviewHandlerOK(NoRequest)

ReviewsIInv == ReviewTablesOK /\ (~ratingRaced /\ faults = 0 => ReviewsAgree)

LEMMA ReviewsInitially == ReviewsInit /\ RequestsInit => ReviewsIInv
<1> SUFFICES ASSUME ReviewsInit, RequestsInit PROVE ReviewsIInv
  OBVIOUS
<1>1. NoRequest.pc = "idle" /\ "pc" \in DOMAIN NoRequest
  BY DEF NoRequest
<1>2. ReviewRowsOK /\ ReviewedOnce
  <2>1. CASE review = << >>
    BY <2>1, ReviewsAssumption DEF ReviewsInit, ReviewRowsOK, ReviewedOnce, LiveReviews, Seeded
  <2>2. ASSUME NEW u \in Authors, NEW s \in Stars, NEW v \in BOOLEAN,
               review = <<[user |-> u, order |-> NoOrder, rating |-> s, isVerified |-> v, deleted |-> FALSE]>>
        PROVE  ReviewRowsOK /\ ReviewedOnce
    <3> DEFINE row == [user |-> u, order |-> NoOrder, rating |-> s, isVerified |-> v, deleted |-> FALSE]
    <3>1. row \in ReviewRow
      BY DEF ReviewRow
    <3>2. review = <<row>>
      BY <2>2
    <3> HIDE DEF row
    <3>3. review \in Seq(ReviewRow) /\ Len(review) = 1 /\ DOMAIN review = {1}
      BY <3>1, <3>2
    <3>4. rating \in [total : Nat, count : Nat]
      BY DEF ReviewsInit, Seeded
    <3> QED BY <3>3, <3>4, ReviewsAssumption DEF ReviewRowsOK, ReviewedOnce, LiveReviews
  <2> QED BY <2>1, <2>2 DEF ReviewsInit
<1>3. ReviewTablesOK
  BY <1>1, <1>2 DEF RequestsInit, ReviewTablesOK, ReviewTypedHandler
<1>4. ReviewsAgree
  BY <1>1, <1>2 DEF ReviewsInit, RequestsInit, ReviewsAgree, Alone, Idle, ReviewHandlerOK
<1> QED BY <1>3, <1>4 DEF ReviewsIInv

LEMMA ReviewStep ==
  ASSUME ReviewsIInv, NEW p \in Procs, NEW h, Become(p, h),
         ReviewRowsOK', DOMAIN review \subseteq DOMAIN review', ReviewTypedHandler(h)',
         ratingRaced => ratingRaced',
         (\E q \in Procs \ {p} : ~Idle(q)) => ratingRaced' \/ ~Idle(p),
         ~ratingRaced' /\ faults = 0 /\ ReviewsAgree => ReviewHandlerOK(h)' /\ ReviewedOnce'
  PROVE  ReviewsIInv'
<1>1. handler' = [handler EXCEPT ![p] = h] /\ DOMAIN handler = Procs /\ faults' = faults
  BY DEF Become, ReviewsIInv, ReviewTablesOK
<1>2. \A q \in Procs : handler'[q] = IF q = p THEN h ELSE handler[q]
  BY <1>1
<1>3. ReviewTablesOK'
  <2>1. \A q \in Procs : ReviewTypedHandler(handler[q])'
    <3> TAKE q \in Procs
    <3>1. CASE q = p
      BY <1>2, <3>1 DEF ReviewTypedHandler
    <3>2. CASE q # p
      BY <1>2, <3>2 DEF ReviewTypedHandler, ReviewsIInv, ReviewTablesOK
    <3> QED BY <3>1, <3>2
  <2> QED BY <1>1, <2>1 DEF ReviewsIInv, ReviewTablesOK
<1>4. ASSUME ~ratingRaced', faults' = 0 PROVE ReviewsAgree'
  <2>1. ~ratingRaced /\ faults = 0
    BY <1>1, <1>4
  <2>2. ReviewsAgree
    BY <2>1 DEF ReviewsIInv
  <2>3. \A q \in Procs : q # p => Idle(q)
    BY <1>4, <2>1, <2>2 DEF ReviewsAgree, Alone
  <2>4. Alone'
    BY <1>1, <2>3, AloneBegins
  <2>5. ReviewHandlerOK(h)' /\ ReviewedOnce'
    BY <1>4, <2>1, <2>2
  <2>6. \A q \in Procs : ~Idle(q)' => ReviewHandlerOK(handler[q])'
    <3> SUFFICES ASSUME NEW q \in Procs, ~Idle(q)' PROVE ReviewHandlerOK(handler[q])'
      OBVIOUS
    <3>1. q = p
      BY <1>2, <2>3 DEF Idle
    <3> QED BY <1>2, <2>5, <3>1 DEF ReviewHandlerOK
  <2>7. (\A q \in Procs : Idle(q)') => ReviewHandlerOK(NoRequest)'
    <3> SUFFICES ASSUME \A q \in Procs : Idle(q)' PROVE ReviewHandlerOK(NoRequest)'
      OBVIOUS
    <3>1. h.pc = "idle"
      BY <1>2 DEF Idle
    <3>2. NoRequest.pc = "idle"
      BY DEF NoRequest
    <3> QED BY <2>5, <3>1, <3>2 DEF ReviewHandlerOK
  <2> QED BY <2>4, <2>5, <2>6, <2>7 DEF ReviewsAgree
<1> QED BY <1>3, <1>4 DEF ReviewsIInv

\* At work and alone, or at rest: what the acting handler may use.
LEMMA ReviewsAtWork ==
  ASSUME ReviewsIInv, NEW p \in Procs
  PROVE  /\ ReviewTypedHandler(handler[p])
         /\ \A i \in DOMAIN review : review[i] \in ReviewRow
         /\ DOMAIN review = 1..Len(review) /\ Len(review) \in Nat
         /\ ReviewsAgree /\ ~Idle(p) => ReviewHandlerOK(handler[p])
         /\ ReviewsAgree /\ Idle(p) /\ (\A q \in Procs \ {p} : Idle(q)) => ReviewHandlerOK(NoRequest)
BY DEF ReviewsIInv, ReviewTablesOK, ReviewRowsOK, ReviewsAgree

LEMMA RatingIsTyped ==
  ASSUME ReviewsIInv
  PROVE  RatingNow \in [total : Nat, count : Nat]
<1>1. review \in Seq(ReviewRow)
  BY DEF ReviewsIInv, ReviewTablesOK, ReviewRowsOK
<1>2. Verified \subseteq 1..Len(review) /\ Len(review) \in Nat
  BY <1>1 DEF Verified, LiveReviews
<1>3. IsFiniteSet(Verified)
  <2>1. IsFiniteSet(1..Len(review))
    BY <1>2, FS_Interval
  <2> QED BY <1>2, <2>1, FS_Subset
<1>4. \A i \in 1..Len(review) : review[i] \in ReviewRow
  BY <1>1
<1>5. \A row \in ReviewRow : row.rating \in Stars
  BY DEF ReviewRow
<1>6. \A i \in Verified : review[i].rating \in Nat
  BY <1>2, <1>4, <1>5, ReviewsAssumption
<1> DEFINE f == [i \in Verified |-> review[i].rating]
<1>7. DOMAIN f = Verified /\ \A i \in Verified : f[i] \in Nat
  BY <1>6
<1>8. SumFunction(f) \in Nat
  <2> HIDE DEF f
  <2> QED BY <1>3, <1>7, SumNatural DEF SumFunction, Sum
<1>9. Cardinality(Verified) \in Nat
  BY <1>3, FS_CardinalityType
<1> QED BY <1>8, <1>9 DEF RatingNow

\* Only what is rated counts.
LEMMA RatingUnchanged ==
  ASSUME Verified' = Verified, \A i \in Verified : review'[i].rating = review[i].rating
  PROVE  RatingNow' = RatingNow
<1>1. [i \in Verified |-> review[i].rating]' = [i \in Verified |-> review[i].rating]
  OBVIOUS
<1> QED BY <1>1 DEF RatingNow

LEMMA ReviewBegins ==
  ASSUME ReviewsIInv, NEW p \in Procs, NEW h, BeginReview(p, h), ReviewTypedHandler(h),
         h.pc \notin {"recalculate", "rate"},
         h.pc = "review_insert" /\ h.row.order = NoOrder => \A i \in LiveReviews : review[i].user # h.row.user
  PROVE  ReviewsIInv'
<1>1. Become(p, h) /\ UNCHANGED <<review, rating>>
  BY DEF BeginReview
<1>2. ReviewRowsOK' /\ ReviewTypedHandler(h)' /\ DOMAIN review \subseteq DOMAIN review'
  BY <1>1 DEF ReviewsIInv, ReviewTablesOK, ReviewRowsOK, ReviewTypedHandler
<1>3. RatingNow' = RatingNow /\ LiveReviews' = LiveReviews
  BY <1>1 DEF RatingNow, Verified, LiveReviews
<1>4. ~ratingRaced' /\ faults = 0 /\ ReviewsAgree => ReviewHandlerOK(h)' /\ ReviewedOnce'
  <2> SUFFICES ASSUME ~ratingRaced', ReviewsAgree PROVE ReviewHandlerOK(h)' /\ ReviewedOnce'
    OBVIOUS
  <2>1. Idle(p) /\ \A q \in Procs \ {p} : Idle(q)
    BY DEF BeginReview
  <2>2. ReviewHandlerOK(NoRequest) /\ NoRequest.pc = "idle"
    BY <2>1, ReviewsAtWork DEF NoRequest
  <2>3. ReviewedOnce'
    BY <1>1, <1>3 DEF ReviewsAgree, ReviewedOnce
  <2> QED BY <1>1, <1>3, <2>2, <2>3 DEF ReviewHandlerOK
<1>5. (ratingRaced => ratingRaced') /\ ((\E q \in Procs \ {p} : ~Idle(q)) => ratingRaced')
  BY DEF BeginReview
<1> QED BY <1>1, <1>2, <1>4, <1>5, ReviewStep

LEMMA ReviewBeginsStep ==
  ASSUME ReviewsIInv, NEW p \in Procs,
         \/ \E u \in Authors, o \in CompletedOrders \cup {NoOrder}, stars \in Stars : CreateReads(p, u, o, stars)
         \/ \E i \in DOMAIN review, u \in Authors : removeReview(p, i, u) \/ \E stars \in Stars : updateReview(p, i, u, stars)
  PROVE  ReviewsIInv'
<1>1. ASSUME NEW u \in Authors, NEW o \in CompletedOrders \cup {NoOrder}, NEW stars \in Stars, CreateReads(p, u, o, stars)
      PROVE  ReviewsIInv'
  <2> DEFINE row == [user |-> u, order |-> o, rating |-> stars, isVerified |-> FALSE, deleted |-> FALSE]
             h == [pc |-> "review_insert", row |-> row]
  <2>1. row \in ReviewRow /\ ~row.deleted /\ ~row.isVerified /\ row.user = u /\ row.order = o
    BY DEF ReviewRow
  <2>2. BeginReview(p, h) /\ (o = NoOrder => \A i \in LiveReviews : review[i].user # u)
    BY <1>1 DEF CreateReads
  <2> HIDE DEF row
  <2>3. ReviewTypedHandler(h) /\ h.pc = "review_insert" /\ h.row = row
    BY <2>1 DEF ReviewTypedHandler
  <2> HIDE DEF h
  <2> QED BY <2>1, <2>2, <2>3, ReviewBegins
<1>2. ASSUME NEW i \in DOMAIN review, NEW u \in Authors, removeReview(p, i, u) PROVE ReviewsIInv'
  <2>1. BeginReview(p, [pc |-> "review_remove", row |-> i])
    BY <1>2 DEF removeReview
  <2>2. ReviewTypedHandler([pc |-> "review_remove", row |-> i])
    BY DEF ReviewTypedHandler
  <2> QED BY <2>1, <2>2, ReviewBegins
<1>3. ASSUME NEW i \in DOMAIN review, NEW u \in Authors, NEW stars \in Stars, updateReview(p, i, u, stars) PROVE ReviewsIInv'
  <2>1. BeginReview(p, [pc |-> "review_update", row |-> i, rating |-> stars])
    BY <1>3 DEF updateReview
  <2>2. ReviewTypedHandler([pc |-> "review_update", row |-> i, rating |-> stars])
    BY DEF ReviewTypedHandler
  <2> QED BY <2>1, <2>2, ReviewBegins
<1> QED BY <1>1, <1>2, <1>3

\* One review changes, and the handler goes on to recalculate.
LEMMA ReviewRewritten ==
  ASSUME ReviewsIInv, NEW p \in Procs, ~Idle(p), NEW i \in DOMAIN review, NEW row \in ReviewRow,
         row.user = review[i].user, row.order = review[i].order, review[i].deleted => row.deleted,
         review' = [review EXCEPT ![i] = row], Recalculates(p)
  PROVE  ReviewsIInv'
<1>1. Become(p, [pc |-> "recalculate"]) /\ UNCHANGED <<rating, ratingRaced>>
  BY DEF Recalculates
<1>2. review \in Seq(ReviewRow) /\ Len(review) <= MaxReviews /\ rating \in [total : Nat, count : Nat]
  BY DEF ReviewsIInv, ReviewTablesOK, ReviewRowsOK
<1>3. review' \in Seq(ReviewRow) /\ Len(review') = Len(review) /\ DOMAIN review' = DOMAIN review
  BY <1>2
<1>4. \A j \in DOMAIN review : review'[j] = IF j = i THEN row ELSE review[j]
  BY <1>2
<1>5. \A j \in DOMAIN review : /\ review'[j].user = review[j].user /\ review'[j].order = review[j].order
                               /\ review[j].deleted => review'[j].deleted
  BY <1>4
<1>6. ReviewRowsOK'
  BY <1>1, <1>2, <1>3, <1>5 DEF ReviewsIInv, ReviewTablesOK, ReviewRowsOK
<1>7. ReviewTypedHandler([pc |-> "recalculate"])'
  BY DEF ReviewTypedHandler
<1>8. ReviewsAgree => ReviewHandlerOK([pc |-> "recalculate"])' /\ ReviewedOnce'
  BY <1>3, <1>5 DEF ReviewsAgree, ReviewedOnce, LiveReviews, ReviewHandlerOK
<1> QED BY <1>1, <1>3, <1>6, <1>7, <1>8, ReviewStep

LEMMA UpdateWritesStep ==
  ASSUME ReviewsIInv, NEW p \in Procs, UpdateWrites(p)
  PROVE  ReviewsIInv'
<1>1. PICK i : i = handler[p].row
  OBVIOUS
<1>2. PICK stars : stars = handler[p].rating
  OBVIOUS
<1>3. i \in DOMAIN review /\ stars \in Stars /\ ~Idle(p)
  BY <1>1, <1>2, ReviewsAtWork DEF UpdateWrites, In, Idle, ReviewTypedHandler
<1>4. PICK row : row = [review[i] EXCEPT !.rating = stars]
  OBVIOUS
<1>5. review[i] \in ReviewRow
  BY <1>3, ReviewsAtWork
<1>6. row \in ReviewRow /\ row.user = review[i].user /\ row.order = review[i].order /\ row.deleted = review[i].deleted
  BY <1>3, <1>4, <1>5 DEF ReviewRow
<1>7. review' = [review EXCEPT ![i] = row] /\ Recalculates(p)
  BY <1>1, <1>2, <1>4 DEF UpdateWrites
<1> QED BY <1>3, <1>6, <1>7, ReviewRewritten

LEMMA RemoveWritesStep ==
  ASSUME ReviewsIInv, NEW p \in Procs, RemoveWrites(p)
  PROVE  ReviewsIInv'
<1>1. PICK i : i = handler[p].row
  OBVIOUS
<1>2. i \in DOMAIN review /\ ~Idle(p)
  BY <1>1, ReviewsAtWork DEF RemoveWrites, In, Idle, ReviewTypedHandler
<1>3. PICK row : row = [review[i] EXCEPT !.deleted = TRUE]
  OBVIOUS
<1>4. review[i] \in ReviewRow
  BY <1>2, ReviewsAtWork
<1>5. row \in ReviewRow /\ row.user = review[i].user /\ row.order = review[i].order /\ row.deleted
  BY <1>3, <1>4 DEF ReviewRow
<1>6. review' = [review EXCEPT ![i] = row] /\ Recalculates(p)
  BY <1>1, <1>3 DEF RemoveWrites
<1> QED BY <1>2, <1>5, <1>6, ReviewRewritten

LEMMA ReviewDone ==
  ASSUME ReviewsIInv, NEW p \in Procs, ~Idle(p), Finish(p), UNCHANGED <<review, ratingRaced>>,
         rating' \in [total : Nat, count : Nat],
         ~ratingRaced /\ faults = 0 /\ ReviewsAgree => rating' = RatingNow \/ (rating' = Seeded /\ rating = Seeded)
  PROVE  ReviewsIInv'
<1>1. Become(p, NoRequest) /\ NoRequest.pc = "idle" /\ "pc" \in DOMAIN NoRequest
  BY DEF Finish, NoRequest
<1>2. ReviewRowsOK' /\ ReviewTypedHandler(NoRequest)'
  BY <1>1 DEF ReviewsIInv, ReviewTablesOK, ReviewRowsOK, ReviewTypedHandler
<1>3. RatingNow' = RatingNow /\ LiveReviews' = LiveReviews
  BY DEF RatingNow, Verified, LiveReviews
<1>4. ~ratingRaced' /\ faults = 0 /\ ReviewsAgree => ReviewHandlerOK(NoRequest)' /\ ReviewedOnce'
  BY <1>1, <1>3 DEF ReviewHandlerOK, ReviewsAgree, ReviewedOnce
<1> QED BY <1>1, <1>2, <1>4, ReviewStep

LEMMA CreateInsertsStep ==
  ASSUME ReviewsIInv, NEW p \in Procs, CreateInserts(p)
  PROVE  ReviewsIInv'
<1>1. PICK row : row = handler[p].row
  OBVIOUS
<1>2. handler[p].pc = "review_insert" /\ ~Idle(p)
  BY DEF CreateInserts, In, Idle
<1>3. row \in ReviewRow /\ ~row.deleted /\ ~row.isVerified
  BY <1>1, <1>2, ReviewsAtWork DEF ReviewTypedHandler
<1>4. CASE row.order # NoOrder /\ \E i \in DOMAIN review : review[i].order = row.order
  <2>1. Finish(p) /\ UNCHANGED rvwvars
    BY <1>1, <1>4 DEF CreateInserts
  <2>2. rating \in [total : Nat, count : Nat]
    BY DEF ReviewsIInv, ReviewTablesOK, ReviewRowsOK
  <2>3. ReviewsAgree => rating = RatingNow \/ rating = Seeded
    BY <1>2, ReviewsAtWork DEF ReviewHandlerOK
  <2> QED BY <1>2, <2>1, <2>2, <2>3, ReviewDone DEF rvwvars
<1>5. CASE ~(row.order # NoOrder /\ \E i \in DOMAIN review : review[i].order = row.order)
  <2>1. /\ Len(review) < MaxReviews /\ review' = Append(review, row)
        /\ Become(p, [pc |-> "recalculate"]) /\ UNCHANGED <<rating, ratingRaced>>
    BY <1>1, <1>5 DEF CreateInserts, Recalculates
  <2>2. review \in Seq(ReviewRow) /\ Len(review) <= MaxReviews /\ rating \in [total : Nat, count : Nat]
    BY DEF ReviewsIInv, ReviewTablesOK, ReviewRowsOK
  <2>3. PICK n : n = Len(review) + 1
    OBVIOUS
  <2>4. review' \in Seq(ReviewRow) /\ Len(review') = n /\ DOMAIN review' = 1..n /\ n \in Nat /\ n <= MaxReviews
    BY <1>3, <2>1, <2>2, <2>3, ReviewsAssumption
  <2>5. DOMAIN review = 1..Len(review) /\ Len(review) \in Nat
    BY <2>2
  <2>6. \A j \in DOMAIN review : review'[j] = review[j] /\ j # n /\ j \in DOMAIN review'
    BY <2>1, <2>2, <2>3, <2>4, <2>5
  <2>7. review'[n] = row
    BY <2>1, <2>2, <2>3
  <2>8. \A j \in DOMAIN review' : j = n \/ j \in DOMAIN review
    BY <2>3, <2>4, <2>5
  <2>9. \A i, j \in DOMAIN review : review[i].order = review[j].order /\ review[i].order # NoOrder => i = j
    BY DEF ReviewsIInv, ReviewTablesOK, ReviewRowsOK
  <2>10. \A i, j \in DOMAIN review' : review'[i].order = review'[j].order /\ review'[i].order # NoOrder => i = j
    <3> TAKE i, j \in DOMAIN review'
    <3>1. CASE i = n /\ j # n
      BY <1>5, <2>6, <2>7, <2>8, <3>1
    <3>2. CASE i # n /\ j = n
      BY <1>5, <2>6, <2>7, <2>8, <3>2
    <3>3. CASE i # n /\ j # n
      BY <2>6, <2>8, <2>9, <3>3
    <3> QED BY <3>1, <3>2, <3>3
  <2>11. ReviewRowsOK'
    BY <2>1, <2>2, <2>4, <2>10 DEF ReviewRowsOK
  <2>12. ASSUME ReviewsAgree PROVE ReviewedOnce'
    <3>1. row.order = NoOrder => \A i \in LiveReviews : review[i].user # row.user
      BY <1>1, <1>2, <2>12, ReviewsAtWork DEF ReviewHandlerOK
    <3>2. \A i \in LiveReviews' : i = n \/ (i \in LiveReviews /\ review'[i] = review[i])
      BY <2>6, <2>8 DEF LiveReviews
    <3> SUFFICES ASSUME NEW i \in LiveReviews', NEW j \in LiveReviews', review'[i].user = review'[j].user,
                        review'[i].order = NoOrder, review'[j].order = NoOrder
                 PROVE  i = j
      BY DEF ReviewedOnce
    <3>3. CASE i = n /\ j # n
      BY <2>7, <3>1, <3>2, <3>3
    <3>4. CASE i # n /\ j = n
      BY <2>7, <3>1, <3>2, <3>4
    <3>5. CASE i # n /\ j # n
      BY <2>12, <3>2, <3>5 DEF ReviewsAgree, ReviewedOnce
    <3> QED BY <3>3, <3>4, <3>5
  <2>13. ReviewTypedHandler([pc |-> "recalculate"])' /\ ReviewHandlerOK([pc |-> "recalculate"])'
    BY DEF ReviewTypedHandler, ReviewHandlerOK
  <2>14. DOMAIN review \subseteq DOMAIN review'
    BY <2>6
  <2> QED BY <1>2, <2>1, <2>11, <2>12, <2>13, <2>14, ReviewStep
<1> QED BY <1>4, <1>5

LEMMA RecalculateReadsStep ==
  ASSUME ReviewsIInv, NEW p \in Procs, RecalculateReads(p)
  PROVE  ReviewsIInv'
<1>1. PICK sum : sum = RatingNow
  OBVIOUS
<1>2. sum \in [total : Nat, count : Nat]
  BY <1>1, RatingIsTyped
<1>3. Become(p, [pc |-> "rate", rating |-> sum]) /\ UNCHANGED <<review, rating, ratingRaced>>
  BY <1>1 DEF RecalculateReads, RatingNow, rvwvars
<1>4. ~Idle(p)
  BY DEF RecalculateReads, In, Idle
<1>5. RatingNow' = RatingNow /\ LiveReviews' = LiveReviews
  BY <1>3 DEF RatingNow, Verified, LiveReviews
<1>6. ReviewRowsOK' /\ ReviewTypedHandler([pc |-> "rate", rating |-> sum])' /\ DOMAIN review \subseteq DOMAIN review'
  BY <1>2, <1>3 DEF ReviewsIInv, ReviewTablesOK, ReviewRowsOK, ReviewTypedHandler
<1>7. ReviewsAgree => ReviewHandlerOK([pc |-> "rate", rating |-> sum])' /\ ReviewedOnce'
  BY <1>1, <1>3, <1>5 DEF ReviewsAgree, ReviewedOnce, ReviewHandlerOK
<1> QED BY <1>3, <1>4, <1>6, <1>7, ReviewStep

LEMMA RecalculateWritesStep ==
  ASSUME ReviewsIInv, NEW p \in Procs, RecalculateWrites(p)
  PROVE  ReviewsIInv'
<1>1. handler[p].pc = "rate" /\ ~Idle(p)
  BY DEF RecalculateWrites, In, Idle
<1>2. handler[p].rating \in [total : Nat, count : Nat]
  BY <1>1, ReviewsAtWork DEF ReviewTypedHandler
<1>3. ReviewsAgree => handler[p].rating = RatingNow
  BY <1>1, ReviewsAtWork DEF ReviewHandlerOK
<1> QED BY <1>1, <1>2, <1>3, ReviewDone DEF RecalculateWrites

LEMMA ReviewsInductive == ReviewsIInv /\ [ReviewsNext]_<<rvwvars, rvars>> => ReviewsIInv'
<1> SUFFICES ASSUME ReviewsIInv, [ReviewsNext]_<<rvwvars, rvars>> PROVE ReviewsIInv'
  OBVIOUS
<1>1. ASSUME NEW p \in Procs, ReviewRequest(p) PROVE ReviewsIInv'
  BY <1>1, ReviewBeginsStep, CreateInsertsStep, UpdateWritesStep, RemoveWritesStep, RecalculateReadsStep,
     RecalculateWritesStep DEF ReviewRequest
<1>2. ASSUME NEW p \in Procs, Dies(p), UNCHANGED rvwvars PROVE ReviewsIInv'
  <2>1. UNCHANGED <<review, rating, ratingRaced>> /\ handler' = [handler EXCEPT ![p] = NoRequest] /\ faults' = faults + 1
    BY <1>2 DEF rvwvars, Dies
  <2>2. faults' \in Nat /\ faults' # 0
    BY <2>1 DEF ReviewsIInv, ReviewTablesOK
  <2>3. DOMAIN handler' = Procs /\ \A q \in Procs : handler'[q] = handler[q] \/ handler'[q] = NoRequest
    BY <2>1 DEF ReviewsIInv, ReviewTablesOK
  <2>4. \A q \in Procs : ReviewTypedHandler(handler[q])'
    <3> TAKE q \in Procs
    <3>1. CASE handler'[q] = handler[q]
      BY <2>1, <3>1 DEF ReviewTypedHandler, ReviewsIInv, ReviewTablesOK
    <3>2. CASE handler'[q] = NoRequest
      BY <3>2 DEF ReviewTypedHandler, NoRequest
    <3> QED BY <2>3, <3>1, <3>2
  <2>5. ReviewRowsOK'
    BY <2>1 DEF ReviewsIInv, ReviewTablesOK, ReviewRowsOK
  <2> QED BY <2>2, <2>3, <2>4, <2>5 DEF ReviewsIInv, ReviewTablesOK
<1>3. CASE UNCHANGED <<rvwvars, rvars>>
  <2>1. UNCHANGED <<review, rating, ratingRaced, handler, faults>>
    BY <1>3 DEF rvwvars, rvars
  <2>2. ReviewTablesOK' = ReviewTablesOK
    BY <2>1 DEF ReviewTablesOK, ReviewRowsOK, ReviewTypedHandler
  <2>3. ReviewsAgree' = ReviewsAgree
    BY <2>1 DEF ReviewsAgree, ReviewHandlerOK, RatingNow, Verified, LiveReviews, ReviewedOnce, Alone, Idle
  <2> QED BY <2>1, <2>2, <2>3 DEF ReviewsIInv
<1> QED BY <1>1, <1>2, <1>3 DEF ReviewsNext

LEMMA RatingFollows == ReviewsIInv => RatingFollowsReviews
<1> SUFFICES ASSUME ReviewsIInv PROVE RatingFollowsReviews
  OBVIOUS
<1>1. \A i, j \in DOMAIN review : review[i].order = review[j].order /\ review[i].order # NoOrder => i = j
  BY DEF ReviewsIInv, ReviewTablesOK, ReviewRowsOK
<1>2. \A i \in LiveReviews : review[i].rating >= 0
  <2>1. \A i \in LiveReviews : review[i] \in ReviewRow
    BY DEF LiveReviews, ReviewsIInv, ReviewTablesOK, ReviewRowsOK
  <2>2. \A row \in ReviewRow : row.rating \in Stars
    BY DEF ReviewRow
  <2>3. \A i \in LiveReviews : review[i].rating \in Nat
    BY <2>1, <2>2, ReviewsAssumption
  <2> QED BY <2>3
<1>3. listReviews(0, TRUE) = Verified
  BY <1>2 DEF listReviews, Verified
<1>4. ASSUME ~ratingRaced, faults = 0
      PROVE  /\ (\A p \in Procs : Idle(p)) /\ rating # Seeded =>
                  /\ rating.count = Cardinality(listReviews(0, TRUE))
                  /\ rating.total = SumFunction([i \in listReviews(0, TRUE) |-> review[i].rating])
             /\ \A i, j \in LiveReviews :
                  review[i].user = review[j].user /\ {review[i].order, review[j].order} = {NoOrder} => i = j
  <2>1. ReviewsAgree
    BY <1>4 DEF ReviewsIInv
  <2>2. ASSUME \A p \in Procs : Idle(p), rating # Seeded PROVE rating = RatingNow
    <3>1. ReviewHandlerOK(NoRequest) /\ NoRequest.pc = "idle"
      BY <2>1, <2>2 DEF ReviewsAgree, NoRequest
    <3> QED BY <2>2, <3>1 DEF ReviewHandlerOK
  <2>3. (\A p \in Procs : Idle(p)) /\ rating # Seeded =>
          /\ rating.count = Cardinality(listReviews(0, TRUE))
          /\ rating.total = SumFunction([i \in listReviews(0, TRUE) |-> review[i].rating])
    <3>1. /\ RatingNow.count = Cardinality(Verified)
          /\ RatingNow.total = SumFunction([i \in Verified |-> review[i].rating])
      BY DEF RatingNow
    <3> QED BY <1>3, <2>2, <3>1
  <2>4. \A i, j \in LiveReviews :
          review[i].user = review[j].user /\ {review[i].order, review[j].order} = {NoOrder} => i = j
    <3> SUFFICES ASSUME NEW i \in LiveReviews, NEW j \in LiveReviews, review[i].user = review[j].user,
                        {review[i].order, review[j].order} = {NoOrder}
                 PROVE  i = j
      OBVIOUS
    <3>1. review[i].order = NoOrder /\ review[j].order = NoOrder
      OBVIOUS
    <3> QED BY <2>1, <3>1 DEF ReviewsAgree, ReviewedOnce
  <2> QED BY <2>3, <2>4
<1> QED BY <1>1, <1>4 DEF RatingFollowsReviews

\* Unless a handler was cut short or met another, the rating a cafe shows is that of its
\* verified reviews once no handler is at work, and no one without an order has two
\* reviews; an order never has two (create, update, remove, recalculateCafeRating).
THEOREM RatingsFollowReviews == ReviewsSpec => []RatingFollowsReviews
<1>1. ReviewsInit /\ RequestsInit => ReviewsIInv
  BY ReviewsInitially
<1>2. ReviewsIInv /\ [ReviewsNext]_<<rvwvars, rvars>> => ReviewsIInv'
  BY ReviewsInductive
<1>3. ReviewsIInv => RatingFollowsReviews
  BY RatingFollows
<1> QED BY <1>1, <1>2, <1>3, PTL DEF ReviewsSpec

\* The rows of the reviews are typed and the rating's total and count are natural, races
\* and deaths included (create, update, remove, recalculateCafeRating).
THEOREM ReviewsAreTyped == ReviewsSpec => []ReviewsTypeOK
<1>1. ReviewsInit /\ RequestsInit => ReviewsIInv
  BY ReviewsInitially
<1>2. ReviewsIInv /\ [ReviewsNext]_<<rvwvars, rvars>> => ReviewsIInv'
  BY ReviewsInductive
<1>3. ReviewsIInv => ReviewsTypeOK
  BY DEF ReviewsIInv, ReviewTablesOK, ReviewRowsOK, ReviewsTypeOK
<1> QED BY <1>1, <1>2, <1>3, PTL DEF ReviewsSpec

-----------------------------------------------------------------------------
(* Cafe layout.  A save is a fold over the rooms of the request, from the      *)
(* highest index down to the tables the room deletions have left.             *)

RoomRequest == {form \in [id : RoomIds \cup {New}, name : STRING, capacity : Int, status : STRING] :
                  [name |-> form.name, capacity |-> form.capacity, status |-> form.status] \in RoomForms}

\* A set of indices.
Indices(S) == IsFiniteSet(S) /\ S \subseteq Int

LEMMA IndicesWithin ==
  ASSUME NEW S, Indices(S), NEW T \in SUBSET S
  PROVE  Indices(T)
BY FS_Subset DEF Indices

LEMMA LargestOfPair ==
  ASSUME NEW T, T \subseteq Int, NEW x \in T, NEW m \in T \ {x}, \A y \in T \ {x} : m >= y
  PROVE  \E z \in T : \A y \in T : z >= y
<1>1. \A y \in T : y \in Int /\ (m >= y \/ y = x)
  OBVIOUS
<1>2. m \in T /\ m \in Int /\ x \in Int
  OBVIOUS
<1>3. CASE m >= x
  BY <1>1, <1>2, <1>3
<1>4. CASE x >= m
  BY <1>1, <1>2, <1>4
<1> QED BY <1>2, <1>3, <1>4

LEMMA LargestIndex ==
  ASSUME NEW S, Indices(S), S # {}
  PROVE  \E x \in S : \A y \in S : x >= y
<1> DEFINE B == {T \in SUBSET S : T # {} /\ ~\E x \in T : \A y \in T : x >= y}
<1>1. SUFFICES B = {}
  <2>1. S \notin B
    BY <1>1
  <2> QED BY <2>1
<1>2. SUFFICES ASSUME B # {} PROVE FALSE
  OBVIOUS
<1>3. PICK T \in B : \A U \in B : U \subseteq T => U = T
  <2>1. B \in SUBSET (SUBSET S)
    OBVIOUS
  <2>2. IsFiniteSet(S)
    BY DEF Indices
  <2> HIDE DEF B
  <2> QED BY <1>2, <2>1, <2>2, MinimalSubset
<1>4. T \subseteq Int /\ T # {} /\ ~\E x \in T : \A y \in T : x >= y
  BY DEF Indices
<1>5. PICK x \in T : TRUE
  BY <1>4
<1>6. x >= x
  BY <1>4
<1>7. T \ {x} # {}
  BY <1>4, <1>6
<1>8. T \ {x} \notin B
  BY <1>3
<1>9. PICK m \in T \ {x} : \A y \in T \ {x} : m >= y
  BY <1>7, <1>8
<1> QED BY <1>4, <1>9, LargestOfPair

LEMMA MaxOfIndices ==
  ASSUME NEW S, Indices(S), S # {}
  PROVE  Max(S) \in S
BY LargestIndex DEF Max

\* A list made of a finite set has its elements.
LEMMA ListOfSet ==
  ASSUME NEW S, IsFiniteSet(S)
  PROVE  SetToSeq(S) \in Seq(S)
<1>1. Cardinality(S) \in Nat /\ ExistsBijection(1..Cardinality(S), S)
  BY FS_CardinalityType
<1>2. PICK f \in [1..Cardinality(S) -> S] : IsInjective(f)
  BY <1>1 DEF ExistsBijection, Bijection, Injection, IsInjective
<1>3. SetToSeq(S) \in [1..Cardinality(S) -> S]
  BY <1>2 DEF SetToSeq
<1> QED BY <1>1, <1>3

\* The function whose value at all indices of the list is what SaveRooms computes.
SavesOver(base, list, S, it) ==
  it = [s \in SUBSET S |-> IF s = {} THEN base ELSE SaveRoom(it[s \ {Max(s)}], list[Max(s)])]

LEMMA SaveRoomsIsFold ==
  ASSUME NEW base, NEW list
  PROVE  FoldLeft(SaveRoom, base, list) = (CHOOSE it : SavesOver(base, list, DOMAIN list, it))[DOMAIN list]
BY DEF FoldLeft, MapThenFoldSet, SavesOver

LEMMA SavesOverAt ==
  ASSUME NEW base, NEW list, NEW S, NEW it, SavesOver(base, list, S, it)
  PROVE  /\ it[{}] = base
         /\ \A s \in SUBSET S : s # {} => it[s] = SaveRoom(it[s \ {Max(s)}], list[Max(s)])
<1> DEFINE val(s) == IF s = {} THEN base ELSE SaveRoom(it[s \ {Max(s)}], list[Max(s)])
<1>1. it = [s \in SUBSET S |-> val(s)]
  BY DEF SavesOver
<1>2. \A s \in SUBSET S : it[s] = val(s)
  <2> HIDE DEF val
  <2> QED BY <1>1
<1> QED BY <1>2

LEMMA SavesOverAll ==
  ASSUME NEW base, NEW list, NEW S, S # {}, NEW it, SavesOver(base, list, S, it)
  PROVE  it[S] = SaveRoom(it[S \ {Max(S)}], list[Max(S)])
<1> DEFINE val(s) == IF s = {} THEN base ELSE SaveRoom(it[s \ {Max(s)}], list[Max(s)])
<1>1. it = [s \in SUBSET S |-> val(s)]
  BY DEF SavesOver
<1>2. it[S] = val(S)
  <2> HIDE DEF val
  <2> QED BY <1>1
<1> QED BY <1>2

\* Two of them agree where both are defined.
LEMMA SavesOverAgree ==
  ASSUME NEW base, NEW list, NEW S, Indices(S), NEW a, SavesOver(base, list, S, a),
         NEW T, S \subseteq T, NEW b, SavesOver(base, list, T, b)
  PROVE  a[S] = b[S]
<1> DEFINE B == {s \in SUBSET S : a[s] # b[s]}
<1>1. SUFFICES ASSUME B # {} PROVE FALSE
  OBVIOUS
<1>2. PICK s \in B : \A u \in B : u \subseteq s => u = s
  <2>1. B \in SUBSET (SUBSET S)
    OBVIOUS
  <2>2. IsFiniteSet(S)
    BY DEF Indices
  <2> HIDE DEF B
  <2> QED BY <1>1, <2>1, <2>2, MinimalSubset
<1>3. s \in SUBSET S /\ s \in SUBSET T /\ Indices(s)
  BY IndicesWithin
<1>4. s # {}
  BY SavesOverAt
<1>5. s \ {Max(s)} \in SUBSET S /\ s \ {Max(s)} # s
  BY <1>3, <1>4, MaxOfIndices
<1>6. a[s \ {Max(s)}] = b[s \ {Max(s)}]
  BY <1>2, <1>5
<1>7. a[s] = SaveRoom(a[s \ {Max(s)}], list[Max(s)])
  <2>1. \A u \in SUBSET S : u # {} => a[u] = SaveRoom(a[u \ {Max(u)}], list[Max(u)])
    BY SavesOverAt
  <2> QED BY <1>3, <1>4, <2>1
<1>8. b[s] = SaveRoom(b[s \ {Max(s)}], list[Max(s)])
  <2>1. \A u \in SUBSET T : u # {} => b[u] = SaveRoom(b[u \ {Max(u)}], list[Max(u)])
    BY SavesOverAt
  <2> QED BY <1>3, <1>4, <2>1
<1> QED BY <1>6, <1>7, <1>8

\* There is one for every list.
LEMMA SavesOverExists ==
  ASSUME NEW base, NEW list, NEW S, Indices(S)
  PROVE  \E it : SavesOver(base, list, S, it)
<1> DEFINE B == {T \in SUBSET S : \A it : ~SavesOver(base, list, T, it)}
<1>1. SUFFICES ASSUME B # {} PROVE FALSE
  OBVIOUS
<1>2. PICK T \in B : \A U \in B : U \subseteq T => U = T
  <2>1. B \in SUBSET (SUBSET S)
    OBVIOUS
  <2>2. IsFiniteSet(S)
    BY DEF Indices
  <2> HIDE DEF B
  <2> QED BY <1>1, <2>1, <2>2, MinimalSubset
<1>a. \A U \in SUBSET T : Indices(U)
  BY IndicesWithin
<1>b. \A U \in SUBSET T : U # {} => Max(U) \in U
  BY <1>a, MaxOfIndices
<1> DEFINE G(U) == CHOOSE it : SavesOver(base, list, U, it)
           V(U) == IF U = {} THEN base ELSE G(U)[U]
           saved == [s \in SUBSET T |->
                      IF s = {} THEN base ELSE SaveRoom(V(s \ {Max(s)}), list[Max(s)])]
<1>3. \A U \in SUBSET T : U # T => SavesOver(base, list, U, G(U))
  <2> TAKE U \in SUBSET T
  <2> HAVE U # T
  <2>1. U \notin B
    BY <1>2
  <2>2. \E it : SavesOver(base, list, U, it)
    BY <2>1
  <2> QED BY <2>2
<1>5. ASSUME NEW s \in SUBSET T, s # {}
      PROVE  saved[s \ {Max(s)}] = V(s \ {Max(s)})
  <2> DEFINE U == s \ {Max(s)}
             W == U \ {Max(U)}
  <2>1. U \in SUBSET T /\ U # T /\ W \in SUBSET U
    BY <1>5, <1>b
  <2>2. CASE U = {}
    BY <2>1, <2>2
  <2>3. CASE U # {}
    <3>1. W # U /\ W # T /\ W \in SUBSET T
      BY <2>1, <2>3, <1>b
    <3>2. SavesOver(base, list, U, G(U)) /\ SavesOver(base, list, W, G(W))
      BY <1>3, <2>1, <3>1
    <3> HIDE DEF G
    <3>3. G(U)[U] = SaveRoom(G(U)[W], list[Max(U)])
      <4>1. PICK it : it = G(U)
        OBVIOUS
      <4>2. PICK u : u = U
        OBVIOUS
      <4>3. it[u] = SaveRoom(it[u \ {Max(u)}], list[Max(u)])
        <5>1. SavesOver(base, list, u, it) /\ u # {}
          BY <2>3, <3>2, <4>1, <4>2
        <5> HIDE DEF U, W
        <5> QED BY <5>1, SavesOverAll
      <4> QED BY <4>1, <4>2, <4>3
    <3>4. G(W)[W] = G(U)[W]
      <4>1. Indices(W)
        BY <1>a, <3>1
      <4> HIDE DEF W, U
      <4> QED BY <2>1, <3>2, <4>1, SavesOverAgree
    <3>5. V(W) = G(W)[W]
      <4>1. G({})[{}] = base \/ W # {}
        BY <3>2, SavesOverAt
      <4> QED BY <4>1
    <3>6. saved[U] = SaveRoom(V(W), list[Max(U)])
      <4> HIDE DEF V
      <4> QED BY <2>1, <2>3
    <3> QED BY <2>3, <3>3, <3>4, <3>5, <3>6
  <2> QED BY <2>2, <2>3
<1>6. SavesOver(base, list, T, saved)
  <2> HIDE DEF V, G
  <2> DEFINE here(s) == IF s = {} THEN base ELSE SaveRoom(V(s \ {Max(s)}), list[Max(s)])
             own(s) == IF s = {} THEN base ELSE SaveRoom(saved[s \ {Max(s)}], list[Max(s)])
  <2>1. \A s \in SUBSET T : here(s) = own(s)
    <3> HIDE DEF saved
    <3> QED BY <1>5
  <2>2. saved = [s \in SUBSET T |-> here(s)]
    OBVIOUS
  <2>3. saved = [s \in SUBSET T |-> own(s)]
    <3> HIDE DEF here, own, saved
    <3> QED BY <2>1, <2>2
  <2> QED BY <2>3 DEF SavesOver
<1> QED BY <1>6
-----------------------------------------------------------------------------
(* A copy of the tables, as a save works on it.                               *)

DB == {"layout", "room", "element", "asset", "booking", "thrown"}

RoomsOK(rooms) == DOMAIN rooms = RoomIds /\ \A r \in RoomIds : rooms[r] = NoRoom \/ rooms[r] \in RoomForms

\* What hangs on a room hangs on one that is there.
PlanOK(db) ==
  /\ DOMAIN db = DB
  /\ db.layout \in {"none", "draft", "published"}
  /\ RoomsOK(db.room)
  /\ db.element \in [ElementIds -> Element]
  /\ db.asset \in [AssetIds -> RoomIds \cup {New}]
  /\ \A x \in ElementIds : db.element[x].room # New => IsRoom(db.room, db.element[x].room)
  /\ \A x \in AssetIds : db.asset[x] # New => IsRoom(db.room, db.asset[x])

\* A booking is on the room it was made for, which is there, unless that is one of "out".
Held(db, out) ==
  /\ db.booking \in [BookingIds -> Booking]
  /\ \A b \in BookingIds : db.booking[b].status # "none" /\ db.booking[b].made \notin out =>
       /\ db.booking[b].made \in RoomIds
       /\ db.booking[b].room = db.booking[b].made
       /\ IsRoom(db.room, db.booking[b].made)

Good(db, out) == PlanOK(db) /\ Held(db, out)

LEMMA FormsAreRooms ==
  /\ \A f \in RoomForms : f.status # "none" /\ f = [name |-> f.name, capacity |-> f.capacity, status |-> f.status]
                          /\ f.name \in STRING /\ f.capacity \in Int /\ f.status \in STRING
  /\ NoRoom.status = "none" /\ NoRoom \notin RoomForms
<1>1. \A f \in RoomForm : f.status # "none" /\ f = [name |-> f.name, capacity |-> f.capacity, status |-> f.status]
                          /\ f.name \in STRING /\ f.capacity \in Int /\ f.status \in STRING
  BY DEF RoomForm
<1>2. NoRoom.status = "none"
  BY DEF NoRoom
<1> QED BY <1>1, <1>2, LayoutAssumption

\* Which rooms are there.
LEMMA RoomsThere ==
  ASSUME NEW rooms, RoomsOK(rooms)
  PROVE  /\ \A r \in RoomIds : IsRoom(rooms, r) <=> rooms[r] \in RoomForms
         /\ \A r \in RoomIds : ~IsRoom(rooms, r) <=> rooms[r] = NoRoom
BY FormsAreRooms DEF RoomsOK, IsRoom

LEMMA ThrowsGood ==
  ASSUME NEW db, NEW out, Good(db, out)
  PROVE  Good(Throw(db), out)
<1>1. PICK d : d = Throw(db)
  OBVIOUS
<1>2. /\ DOMAIN d = DB /\ d.layout = db.layout /\ d.room = db.room /\ d.element = db.element
      /\ d.asset = db.asset /\ d.booking = db.booking
  BY <1>1 DEF Throw, Good, PlanOK, DB
<1> QED BY <1>1, <1>2 DEF Good, PlanOK, Held

LEMMA LayoutSaved ==
  ASSUME NEW db, NEW out, Good(db, out), NEW form \in {"draft", "published", "keep", "absent"}
  PROVE  Good(SaveLayout(db, form), out)
<1>1. PICK d : d = SaveLayout(db, form)
  OBVIOUS
<1>2. /\ DOMAIN d = DB /\ d.layout \in {"none", "draft", "published"} /\ d.room = db.room /\ d.element = db.element
      /\ d.asset = db.asset /\ d.booking = db.booking
  BY <1>1 DEF SaveLayout, Good, PlanOK, DB
<1> QED BY <1>1, <1>2 DEF Good, PlanOK, Held

\* The rooms that go take their assets with them; elements and bookings lose them.
LEMMA RoomsDeleted ==
  ASSUME NEW db, NEW out, Good(db, out), NEW removed \in SUBSET RoomIds
  PROVE  Good(DeleteRooms(db, removed), out \cup {r \in removed : IsRoom(db.room, r)})
<1>1. PICK d : d = DeleteRooms(db, removed)
  OBVIOUS
<1>2. /\ DOMAIN d = DB /\ d.layout = db.layout
      /\ d.room = [r \in RoomIds |-> IF r \in removed THEN NoRoom ELSE db.room[r]]
      /\ d.element = [x \in ElementIds |-> IF db.element[x].room \in removed
                        THEN [db.element[x] EXCEPT !.room = New] ELSE db.element[x]]
      /\ d.asset = [x \in AssetIds |-> IF db.asset[x] \in removed THEN New ELSE db.asset[x]]
      /\ d.booking = [b \in BookingIds |-> IF db.booking[b].room \in removed
                        THEN [db.booking[b] EXCEPT !.room = New] ELSE db.booking[b]]
  BY <1>1 DEF DeleteRooms, Good, PlanOK, DB
<1>3. RoomsOK(d.room) /\ \A r \in RoomIds : r \notin removed => d.room[r] = db.room[r]
  BY <1>2 DEF Good, PlanOK, RoomsOK
<1>4. \A r \in RoomIds : r \notin removed /\ IsRoom(db.room, r) => IsRoom(d.room, r)
  BY <1>3 DEF IsRoom
<1>5. ASSUME NEW x \in ElementIds
      PROVE  d.element[x] \in Element /\ (d.element[x].room # New => IsRoom(d.room, d.element[x].room))
  <2>1. PICK e : e = db.element[x]
    OBVIOUS
  <2>2. e \in Element /\ (e.room # New => e.room \in RoomIds /\ IsRoom(db.room, e.room))
    BY <2>1 DEF Good, PlanOK, Element
  <2>3. d.element[x] = IF e.room \in removed THEN [e EXCEPT !.room = New] ELSE e
    BY <1>2, <2>1
  <2>4. CASE e.room \in removed
    BY <2>2, <2>3, <2>4 DEF Element
  <2>5. CASE e.room \notin removed
    BY <1>4, <2>2, <2>3, <2>5
  <2> QED BY <2>4, <2>5
<1>6. d.element \in [ElementIds -> Element]
  BY <1>2, <1>5
<1>7. ASSUME NEW x \in AssetIds
      PROVE  d.asset[x] \in RoomIds \cup {New} /\ (d.asset[x] # New => IsRoom(d.room, d.asset[x]))
  <2>1. db.asset[x] \in RoomIds \cup {New} /\ (db.asset[x] # New => IsRoom(db.room, db.asset[x]))
    BY DEF Good, PlanOK
  <2> QED BY <1>2, <1>4, <2>1
<1>8. d.asset \in [AssetIds -> RoomIds \cup {New}]
  BY <1>2, <1>7
<1>9. PlanOK(d)
  BY <1>2, <1>3, <1>5, <1>6, <1>7, <1>8 DEF Good, PlanOK
<1>10. ASSUME NEW b \in BookingIds, d.booking[b].status # "none",
              d.booking[b].made \notin out \cup {r \in removed : IsRoom(db.room, r)}
       PROVE  /\ d.booking[b].made \in RoomIds /\ d.booking[b].room = d.booking[b].made
              /\ IsRoom(d.room, d.booking[b].made)
  <2>1. PICK k : k = db.booking[b]
    OBVIOUS
  <2>2. d.booking[b] = IF k.room \in removed THEN [k EXCEPT !.room = New] ELSE k
    BY <1>2, <2>1
  <2>3. d.booking[b].status = k.status /\ d.booking[b].made = k.made
    BY <2>2
  <2>4. k.made \in RoomIds /\ k.room = k.made /\ IsRoom(db.room, k.made)
    BY <1>10, <2>1, <2>3 DEF Good, Held
  <2>5. k.made \notin removed
    BY <1>10, <2>3, <2>4
  <2> QED BY <1>4, <2>2, <2>4, <2>5
<1>11. d.booking \in [BookingIds -> Booking]
  <2>1. \A k \in Booking : [k EXCEPT !.room = New] \in Booking
    BY DEF Booking
  <2> QED BY <1>2, <2>1 DEF Good, Held
<1>12. Held(d, out \cup {r \in removed : IsRoom(db.room, r)})
  BY <1>2, <1>10, <1>11 DEF Held
<1> QED BY <1>1, <1>9, <1>12 DEF Good

LEMMA RoomSaved ==
  ASSUME NEW db, NEW out, Good(db, out), NEW form \in RoomRequest
  PROVE  Good(SaveRoom(db, form), out)
<1>1. PICK id : id = IF form.id # New THEN form.id ELSE CHOOSE r \in RoomIds : ~IsRoom(db.room, r)
  OBVIOUS
<1>2. PICK f : f = [name |-> form.name, capacity |-> form.capacity, status |-> form.status]
  OBVIOUS
<1>3. f \in RoomForms
  BY <1>2 DEF RoomRequest
<1>4. PICK d : d = SaveRoom(db, form)
  OBVIOUS
<1>5. d = Throw(db) \/ d = [db EXCEPT !.room[id] = f]
  BY <1>1, <1>2, <1>4 DEF SaveRoom
<1>6. CASE d = Throw(db)
  BY <1>4, <1>6, ThrowsGood
<1>7. CASE d = [db EXCEPT !.room[id] = f]
  <2>1. /\ DOMAIN d = DB /\ d.layout = db.layout /\ d.room = [db.room EXCEPT ![id] = f] /\ d.element = db.element
        /\ d.asset = db.asset /\ d.booking = db.booking
    BY <1>7 DEF Good, PlanOK, DB
  <2>2. RoomsOK(db.room)
    BY DEF Good, PlanOK
  <2>3. \A r \in RoomIds : d.room[r] = f \/ d.room[r] = db.room[r]
    BY <2>1, <2>2 DEF RoomsOK
  <2>4. RoomsOK(d.room)
    BY <1>3, <2>1, <2>2, <2>3 DEF RoomsOK
  <2>5. \A r \in RoomIds : IsRoom(db.room, r) => IsRoom(d.room, r)
    BY <1>3, <2>2, <2>3, <2>4, RoomsThere
  <2>6. PlanOK(d)
    <3>1. \A x \in ElementIds : d.element[x].room # New => d.element[x].room \in RoomIds /\ IsRoom(d.room, d.element[x].room)
      BY <2>1, <2>5 DEF Good, PlanOK, Element
    <3>2. \A x \in AssetIds : d.asset[x] # New => IsRoom(d.room, d.asset[x])
      BY <2>1, <2>5 DEF Good, PlanOK
    <3> QED BY <2>1, <2>4, <3>1, <3>2 DEF Good, PlanOK
  <2>7. Held(d, out)
    BY <2>1, <2>5 DEF Good, Held
  <2> QED BY <1>4, <2>6, <2>7 DEF Good
<1> QED BY <1>5, <1>6, <1>7

\* The rooms of a request are saved one after the other.
LEMMA RoomsFolded ==
  ASSUME NEW base, NEW out, Good(base, out), NEW list \in Seq(RoomRequest)
  PROVE  Good(FoldLeft(SaveRoom, base, list), out)
<1>1. Len(list) \in Nat /\ DOMAIN list = 1..Len(list) /\ \A i \in DOMAIN list : list[i] \in RoomRequest
  OBVIOUS
<1>2. Indices(DOMAIN list)
  <2>1. IsFiniteSet(1..Len(list))
    BY <1>1, FS_Interval
  <2> QED BY <1>1, <2>1 DEF Indices
<1>3. PICK S : S = DOMAIN list
  OBVIOUS
<1>4. \E it : SavesOver(base, list, S, it)
  BY <1>2, <1>3, SavesOverExists
<1>5. PICK it : it = CHOOSE one : SavesOver(base, list, S, one)
  OBVIOUS
<1>6. SavesOver(base, list, S, it)
  BY <1>4, <1>5
<1>7. FoldLeft(SaveRoom, base, list) = it[S]
  BY <1>3, <1>5, SaveRoomsIsFold
<1>8. it[{}] = base /\ \A s \in SUBSET S : s # {} => it[s] = SaveRoom(it[s \ {Max(s)}], list[Max(s)])
  BY <1>6, SavesOverAt
<1>9. \A s \in SUBSET S : s # {} => Max(s) \in s
  BY <1>2, <1>3, IndicesWithin, MaxOfIndices
<1> DEFINE Bad == {s \in SUBSET S : ~Good(it[s], out)}
<1>10. SUFFICES Bad = {}
  <2>1. S \in SUBSET S /\ S \notin Bad
    BY <1>10
  <2> QED BY <1>7, <2>1
<1>11. SUFFICES ASSUME Bad # {} PROVE FALSE
  OBVIOUS
<1>12. PICK s \in Bad : \A u \in Bad : u \subseteq s => u = s
  <2>1. Bad \in SUBSET (SUBSET S)
    OBVIOUS
  <2>2. IsFiniteSet(S)
    BY <1>2, <1>3 DEF Indices
  <2> HIDE DEF Bad
  <2> QED BY <1>11, <2>1, <2>2, MinimalSubset
<1>13. s \in SUBSET S /\ ~Good(it[s], out)
  OBVIOUS
<1>14. s # {}
  BY <1>8, <1>13
<1>15. Max(s) \in s /\ list[Max(s)] \in RoomRequest
  BY <1>1, <1>3, <1>9, <1>13, <1>14
<1>16. Good(it[s \ {Max(s)}], out)
  <2>1. s \ {Max(s)} \in SUBSET S /\ s \ {Max(s)} # s
    BY <1>13, <1>15
  <2> QED BY <1>12, <2>1
<1>17. Good(SaveRoom(it[s \ {Max(s)}], list[Max(s)]), out)
  BY <1>15, <1>16, RoomSaved
<1> QED BY <1>8, <1>13, <1>14, <1>17

LEMMA RoomsWritten ==
  ASSUME NEW db, NEW out, Good(db, out), NEW rooms \in Seq(RoomRequest)
  PROVE  Good(SaveRooms(db, rooms), out \cup {r \in RoomIds : IsRoom(db.room, r) /\ \A i \in DOMAIN rooms : rooms[i].id # r})
<1>1. PICK removed : removed = RoomIds \ {rooms[i].id : i \in DOMAIN rooms}
  OBVIOUS
<1>2. PICK d : d = DeleteRooms(db, removed)
  OBVIOUS
<1>3. PICK lost : lost = out \cup {r \in removed : IsRoom(db.room, r)}
  OBVIOUS
<1>4. Good(d, lost)
  BY <1>1, <1>2, <1>3, RoomsDeleted
<1>5. SaveRooms(db, rooms) = FoldLeft(SaveRoom, d, rooms)
  BY <1>1, <1>2 DEF SaveRooms, DeleteOtherRooms
<1>6. Good(FoldLeft(SaveRoom, d, rooms), lost)
  BY <1>4, RoomsFolded
<1>7. lost = out \cup {r \in RoomIds : IsRoom(db.room, r) /\ \A i \in DOMAIN rooms : rooms[i].id # r}
  BY <1>1, <1>3
<1> QED BY <1>5, <1>6, <1>7

LEMMA ElementsWritten ==
  ASSUME NEW db, NEW out, Good(db, out), NEW list, DOMAIN list \subseteq ElementIds,
         \A x \in DOMAIN list : list[x] \in Element
  PROVE  Good(SaveElements(db, list), out)
<1>1. PICK d : d = SaveElements(db, list)
  OBVIOUS
<1>2. CASE \E x \in DOMAIN list : list[x].room # New /\ ~IsRoom(db.room, list[x].room)
  BY <1>1, <1>2, ThrowsGood DEF SaveElements
<1>3. CASE ~\E x \in DOMAIN list : list[x].room # New /\ ~IsRoom(db.room, list[x].room)
  <2>1. PICK written : written = [x \in ElementIds |->
         IF x \in DOMAIN list THEN list[x]
         ELSE IF db.element[x].elementType = "WALL" THEN NoElement ELSE db.element[x]]
    OBVIOUS
  <2>2. d = [db EXCEPT !.element = written]
    BY <1>1, <1>3, <2>1 DEF SaveElements
  <2>3. /\ DOMAIN d = DB /\ d.layout = db.layout /\ d.room = db.room /\ d.element = written
        /\ d.asset = db.asset /\ d.booking = db.booking
    BY <2>2 DEF Good, PlanOK, DB
  <2>4. NoElement \in Element /\ NoElement.room = New
    BY DEF NoElement, Element
  <2>5. \A x \in ElementIds : written[x] \in Element /\ (written[x].room # New => IsRoom(db.room, written[x].room))
    BY <1>3, <2>1, <2>4 DEF Good, PlanOK
  <2>6. written \in [ElementIds -> Element]
    BY <2>1, <2>5
  <2> QED BY <1>1, <2>3, <2>5, <2>6 DEF Good, PlanOK, Held
<1> QED BY <1>2, <1>3

LEMMA AssetsWritten ==
  ASSUME NEW db, NEW out, Good(db, out), NEW list, \A x \in DOMAIN list : list[x].room \in RoomIds
  PROVE  Good(SaveAssets(db, list), out)
<1>1. PICK d : d = SaveAssets(db, list)
  OBVIOUS
<1>2. PICK placed : placed = [x \in AssetIds |-> IF x \in DOMAIN list THEN list[x].room ELSE db.asset[x]]
  OBVIOUS
<1>3. CASE d = Throw(db)
  BY <1>1, <1>3, ThrowsGood
<1>4. CASE d # Throw(db)
  <2>1. \A x \in DOMAIN list : IsRoom(db.room, list[x].room)
    BY <1>1, <1>4 DEF SaveAssets
  <2>2. d = [db EXCEPT !.asset = placed]
    BY <1>1, <1>2, <1>4 DEF SaveAssets
  <2>3. /\ DOMAIN d = DB /\ d.layout = db.layout /\ d.room = db.room /\ d.element = db.element
        /\ d.asset = placed /\ d.booking = db.booking
    BY <2>2 DEF Good, PlanOK, DB
  <2>4. \A x \in AssetIds : placed[x] \in RoomIds \cup {New} /\ (placed[x] # New => IsRoom(db.room, placed[x]))
    BY <1>2, <2>1 DEF Good, PlanOK
  <2>5. placed \in [AssetIds -> RoomIds \cup {New}]
    BY <1>2, <2>4
  <2> QED BY <1>1, <2>3, <2>4, <2>5 DEF Good, PlanOK, Held
<1> QED BY <1>3, <1>4

-----------------------------------------------------------------------------
\* What an editor has loaded.
EditorOK(h) ==
  /\ h.pc \in {"load", "edit"} => DOMAIN h.rooms \subseteq RoomIds /\ \A r \in DOMAIN h.rooms : h.rooms[r] \in RoomForms
  /\ h.pc = "edit" => DOMAIN h.elements \subseteq ElementIds /\ \A x \in DOMAIN h.elements : h.elements[x] \in Element
  /\ h.pc = "occupancy" => /\ h.from \in Int /\ h.to \in Int /\ h.from <= h.to
                           /\ DOMAIN h.rooms \subseteq RoomIds /\ \A r \in DOMAIN h.rooms : h.rooms[r].capacity \in Int

LayoutIInv ==
  /\ Good(Tables, dropped)
  /\ dropped \subseteq RoomIds
  /\ DOMAIN handler = Procs
  /\ \A p \in Procs : EditorOK(handler[p])

LEMMA TablesAre ==
  /\ DOMAIN Tables = DB /\ Tables.layout = layout /\ Tables.room = room /\ Tables.element = element
  /\ Tables.asset = asset /\ Tables.booking = booking
BY DEF Tables, DB

LEMMA LayoutInitially == LayoutInit /\ RequestsInit => LayoutIInv
<1> SUFFICES ASSUME LayoutInit, RequestsInit PROVE LayoutIInv
  OBVIOUS
<1>1. NoRequest.pc = "idle" /\ NoRoom.status = "none" /\ NoElement \in Element /\ NoElement.room = New /\ NoBooking.status = "none"
  BY DEF NoRequest, NoRoom, NoElement, Element, NoBooking
<1>b. NoBooking \in Booking
  BY DEF NoBooking, Booking
<1>2. PlanOK(Tables)
  BY <1>1, TablesAre DEF LayoutInit, PlanOK, RoomsOK
<1>3. Held(Tables, dropped)
  BY <1>1, <1>b, TablesAre DEF LayoutInit, Held
<1>4. \A p \in Procs : EditorOK(handler[p])
  BY <1>1 DEF RequestsInit, EditorOK
<1> QED BY <1>2, <1>3, <1>4 DEF LayoutInit, RequestsInit, LayoutIInv, Good

\* A handler goes on with what it has read, and no table changes.
LEMMA EditorGoes ==
  ASSUME LayoutIInv, NEW p \in Procs, NEW h, Become(p, h), EditorOK(h),
         Tables' = Tables, dropped' = dropped
  PROVE  LayoutIInv'
<1>1. handler' = [handler EXCEPT ![p] = h] /\ DOMAIN handler = Procs
  BY DEF Become, LayoutIInv
<1>2. \A q \in Procs : EditorOK(handler'[q])
  BY <1>1 DEF LayoutIInv
<1>3. Good(Tables, dropped)'
  <2>1. PICK db : db = Tables
    OBVIOUS
  <2>2. PICK out : out = dropped
    OBVIOUS
  <2>3. Good(db, out) /\ Tables' = db /\ dropped' = out
    BY <2>1, <2>2 DEF LayoutIInv
  <2> QED BY <2>3
<1> QED BY <1>1, <1>2, <1>3 DEF LayoutIInv

LEMMA RowsStay ==
  ASSUME UNCHANGED lvars
  PROVE  Tables' = Tables /\ dropped' = dropped
BY DEF lvars, Tables

LEMMA EditorOpensStep == ASSUME LayoutIInv, NEW p \in Procs, EditorOpens(p) PROVE LayoutIInv'
<1>1. PICK loaded : loaded = [r \in {q \in RoomIds : IsRoom(room, q)} |-> room[r]]
  OBVIOUS
<1>2. DOMAIN loaded \subseteq RoomIds /\ \A r \in DOMAIN loaded : loaded[r] \in RoomForms
  BY <1>1, TablesAre, RoomsThere DEF LayoutIInv, Good, PlanOK
<1>3. PICK h : h = [pc |-> "load", rooms |-> loaded]
  OBVIOUS
<1>4. EditorOK(h)
  BY <1>2, <1>3 DEF EditorOK
<1> QED BY <1>1, <1>3, <1>4, EditorGoes, RowsStay DEF EditorOpens

LEMMA EditorLoadsStep == ASSUME LayoutIInv, NEW p \in Procs, EditorLoads(p) PROVE LayoutIInv'
<1>1. PICK drawn : drawn = [x \in {y \in ElementIds : element[y].elementType # "none"} |-> element[x]]
  OBVIOUS
<1>2. PICK placed : placed = [x \in {y \in AssetIds : asset[y] # New} |-> asset[x]]
  OBVIOUS
<1>3. PICK loaded : loaded = handler[p].rooms
  OBVIOUS
<1>4. DOMAIN loaded \subseteq RoomIds /\ \A r \in DOMAIN loaded : loaded[r] \in RoomForms
  BY <1>3 DEF EditorLoads, In, LayoutIInv, EditorOK
<1>5. DOMAIN drawn \subseteq ElementIds /\ \A x \in DOMAIN drawn : drawn[x] \in Element
  BY <1>1, TablesAre DEF LayoutIInv, Good, PlanOK
<1>6. PICK h : h = [pc |-> "edit", rooms |-> loaded, elements |-> drawn, assets |-> placed]
  OBVIOUS
<1>7. EditorOK(h)
  BY <1>4, <1>5, <1>6 DEF EditorOK
<1> QED BY <1>1, <1>2, <1>3, <1>6, <1>7, EditorGoes, RowsStay DEF EditorLoads

LEMMA OccupancyStep ==
  ASSUME LayoutIInv, NEW p \in Procs, OccupancyRequest(p)
  PROVE  LayoutIInv'
<1>1. ASSUME NEW from \in OccupancyDays, NEW to \in OccupancyDays, OccupancyRooms(p, from, to) PROVE LayoutIInv'
  <2> DEFINE shown == [r \in ActiveRooms |-> room[r]]
  <2>1. PICK h : h = [pc |-> "occupancy", from |-> from, to |-> to, rooms |-> shown]
    OBVIOUS
  <2>a. DOMAIN shown \subseteq RoomIds /\ \A r \in DOMAIN shown : shown[r].capacity \in Int
    <3>1. \A r \in ActiveRooms : r \in RoomIds /\ IsRoom(room, r)
      BY DEF ActiveRooms, IsRoom
    <3>2. \A r \in ActiveRooms : room[r] \in RoomForms
      BY <3>1, TablesAre, RoomsThere DEF LayoutIInv, Good, PlanOK
    <3> QED BY <3>1, <3>2, FormsAreRooms
  <2>b. from \in Int /\ to \in Int /\ from <= to
    BY <1>1, LayoutAssumption DEF OccupancyRooms
  <2>2. EditorOK(h)
    <3> HIDE DEF shown
    <3> QED BY <2>1, <2>a, <2>b DEF EditorOK
  <2> QED BY <1>1, <2>1, <2>2, EditorGoes, RowsStay DEF OccupancyRooms
<1>2. ASSUME OccupancyAnswer(p) PROVE LayoutIInv'
  <2>1. Become(p, NoRequest) /\ UNCHANGED <<layout, room, element, asset, booking, dropped>>
    BY <1>2 DEF OccupancyAnswer, Finish
  <2>2. Tables' = Tables /\ dropped' = dropped
    BY <2>1 DEF Tables
  <2>3. NoRequest.pc = "idle"
    BY DEF NoRequest
  <2>4. EditorOK(NoRequest)
    BY <2>3 DEF EditorOK
  <2> QED BY <2>1, <2>2, <2>4, EditorGoes
<1> QED BY <1>1, <1>2 DEF OccupancyRequest

\* One save, whatever it is about.
LEMMA SaveStep ==
  ASSUME LayoutIInv, NEW p \in Procs, NEW rooms, NEW elements, NEW assets,
         NEW form \in {"draft", "published", "keep", "absent"}, saveEditorState(p, rooms, elements, assets, form),
         rooms.given \in BOOLEAN, rooms.given => rooms.list \in Seq(RoomRequest),
         elements.given => /\ DOMAIN elements.list \subseteq ElementIds
                           /\ \A x \in DOMAIN elements.list : elements.list[x] \in Element,
         \A x \in DOMAIN assets : assets[x].room \in RoomIds
  PROVE  LayoutIInv'
<1>1. PICK out : out = IF ~rooms.given THEN dropped
                       ELSE dropped \cup {r \in RoomIds : IsRoom(room, r) /\ \A i \in DOMAIN rooms.list : rooms.list[i].id # r}
  OBVIOUS
<1>2. PICK db1 : db1 = SaveLayout(Tables, form)
  OBVIOUS
<1>3. PICK db2 : db2 = IF rooms.given THEN SaveRooms(db1, rooms.list) ELSE db1
  OBVIOUS
<1>4. PICK db3 : db3 = IF elements.given THEN SaveElements(db2, elements.list) ELSE db2
  OBVIOUS
<1>5. PICK db : db = SaveAssets(db3, assets)
  OBVIOUS
<1>6. Save([layout |-> form, rooms |-> rooms, elements |-> elements, assets |-> assets]) = db
  BY <1>2, <1>3, <1>4, <1>5 DEF Save
<1>7. Good(Tables, dropped) /\ dropped \subseteq RoomIds
  BY DEF LayoutIInv
<1>8. Good(db1, dropped) /\ db1.room = room
  <2>1. Good(db1, dropped)
    BY <1>2, <1>7, LayoutSaved
  <2>2. db1.room = room
    BY <1>2, TablesAre DEF SaveLayout
  <2> QED BY <2>1, <2>2
<1>9. Good(db2, out)
  <2>1. PICK was : was = dropped
    OBVIOUS
  <2>2. CASE rooms.given
    <3>1. Good(SaveRooms(db1, rooms.list),
               was \cup {r \in RoomIds : IsRoom(db1.room, r) /\ \A i \in DOMAIN rooms.list : rooms.list[i].id # r})
      BY <1>8, <2>1, <2>2, RoomsWritten
    <3> QED BY <1>1, <1>3, <1>8, <2>1, <2>2, <3>1
  <2>3. CASE ~rooms.given
    BY <1>1, <1>3, <1>8, <2>3
  <2> QED BY <2>2, <2>3
<1>10. Good(db3, out)
  BY <1>4, <1>9, ElementsWritten
<1>11. Good(db, out)
  BY <1>5, <1>10, AssetsWritten
<1>12. /\ IF db.thrown THEN UNCHANGED <<layout, room, element, asset, booking, dropped>>
          ELSE /\ layout' = db.layout /\ room' = db.room /\ element' = db.element
               /\ asset' = db.asset /\ booking' = db.booking /\ dropped' = out
       /\ Become(p, NoRequest)
  BY <1>1, <1>6 DEF saveEditorState, Finish
<1>13. NoRequest.pc = "idle"
  BY DEF NoRequest
<1>14. EditorOK(NoRequest)
  BY <1>13 DEF EditorOK
<1>15. CASE db.thrown
  <2>1. Tables' = Tables /\ dropped' = dropped
    BY <1>12, <1>15 DEF Tables
  <2> QED BY <1>12, <1>14, <2>1, EditorGoes
<1>16. CASE ~db.thrown
  <2>1. /\ layout' = db.layout /\ room' = db.room /\ element' = db.element
        /\ asset' = db.asset /\ booking' = db.booking /\ dropped' = out
    BY <1>12, <1>16
  <2>2. PICK new : new = Tables'
    OBVIOUS
  <2>3. /\ DOMAIN new = DB /\ new.layout = db.layout /\ new.room = db.room /\ new.element = db.element
        /\ new.asset = db.asset /\ new.booking = db.booking
    BY <2>1, <2>2 DEF Tables, DB
  <2>4. Good(new, out)
    BY <1>11, <2>3 DEF Good, PlanOK, Held
  <2>5. Good(Tables, dropped)'
    BY <2>1, <2>2, <2>4
  <2>6. out \subseteq RoomIds
    BY <1>1, <1>7
  <2>7. DOMAIN handler' = Procs /\ \A q \in Procs : handler'[q] = IF q = p THEN NoRequest ELSE handler[q]
    BY <1>12 DEF Become, LayoutIInv
  <2>8. \A q \in Procs : EditorOK(handler[q])'
    <3> SUFFICES ASSUME NEW q \in Procs PROVE EditorOK(handler[q])'
      OBVIOUS
    <3>1. CASE q = p
      BY <1>13, <2>7, <3>1 DEF EditorOK
    <3>2. CASE q # p
      BY <2>7, <3>2 DEF EditorOK, LayoutIInv
    <3> QED BY <3>1, <3>2
  <2> QED BY <2>1, <2>5, <2>6, <2>7, <2>8 DEF LayoutIInv
<1> QED BY <1>15, <1>16

\* The lists an editor may send are lists of room requests.
LEMMA ListsAreRequests ==
  ASSUME NEW rooms, DOMAIN rooms \subseteq RoomIds, \A r \in DOMAIN rooms : rooms[r] \in RoomForms,
         NEW list \in RoomLists(rooms)
  PROVE  list \in Seq(RoomRequest)
<1> DEFINE Form(id, f) == [id |-> id, name |-> f.name, capacity |-> f.capacity, status |-> f.status]
           Loaded == {Form(r, rooms[r]) : r \in DOMAIN rooms}
<1>1. \A id \in RoomIds \cup {New}, f \in RoomForms : Form(id, f) \in RoomRequest
  <2> SUFFICES ASSUME NEW id \in RoomIds \cup {New}, NEW f \in RoomForms PROVE Form(id, f) \in RoomRequest
    OBVIOUS
  <2>1. PICK form : form = Form(id, f)
    OBVIOUS
  <2>2. form.id = id /\ form.name = f.name /\ form.capacity = f.capacity /\ form.status = f.status
    BY <2>1
  <2>3. form \in [id : RoomIds \cup {New}, name : STRING, capacity : Int, status : STRING]
    BY <2>1, FormsAreRooms
  <2>4. [name |-> form.name, capacity |-> form.capacity, status |-> form.status] \in RoomForms
    BY <2>2, FormsAreRooms
  <2> QED BY <2>1, <2>3, <2>4 DEF RoomRequest
<1> HIDE DEF Form
<1>2. Loaded \subseteq RoomRequest
  BY <1>1
<1>3. IsFiniteSet(Loaded)
  <2>1. IsFiniteSet(DOMAIN rooms)
    BY LayoutAssumption, FS_Subset
  <2> DEFINE g == [r \in DOMAIN rooms |-> Form(r, rooms[r])]
  <2>2. g \in Surjection(DOMAIN rooms, Loaded)
    BY DEF Surjection
  <2> HIDE DEF g, Loaded
  <2> QED BY <2>1, <2>2, FS_Surjection
<1> DEFINE Lists == {Loaded}
             \cup {Loaded \ {form} : form \in Loaded}
             \cup {(Loaded \ {form}) \cup {Form(form.id, f)} : form \in Loaded, f \in RoomForms}
             \cup (IF DOMAIN rooms = RoomIds THEN {} ELSE {Loaded \cup {Form(New, f)} : f \in RoomForms})
<1>4. RoomLists(rooms) = {SetToSeq(set) : set \in Lists}
  BY DEF RoomLists, Form
<1>5. ASSUME NEW set \in Lists PROVE set \subseteq RoomRequest /\ IsFiniteSet(set)
  <2> HIDE DEF Loaded
  <2>1. \A form \in Loaded : form.id \in RoomIds \cup {New}
    <3>1. \A form \in RoomRequest : form.id \in RoomIds \cup {New}
      BY DEF RoomRequest
    <3> QED BY <1>2, <3>1
  <2>2. CASE set = Loaded
    BY <1>2, <1>3, <2>2
  <2>3. ASSUME NEW form \in Loaded, set = Loaded \ {form} PROVE set \subseteq RoomRequest /\ IsFiniteSet(set)
    BY <1>2, <1>3, <2>3, FS_Subset
  <2>4. ASSUME NEW form \in Loaded, NEW f \in RoomForms, set = (Loaded \ {form}) \cup {Form(form.id, f)}
        PROVE  set \subseteq RoomRequest /\ IsFiniteSet(set)
    <3>1. Form(form.id, f) \in RoomRequest
      BY <1>1, <2>1
    <3>2. IsFiniteSet(Loaded \ {form})
      BY <1>3, FS_Subset
    <3>3. IsFiniteSet(set)
      BY <2>4, <3>2, FS_AddElement
    <3> QED BY <1>2, <2>4, <3>1, <3>3
  <2>5. ASSUME NEW f \in RoomForms, set = Loaded \cup {Form(New, f)} PROVE set \subseteq RoomRequest /\ IsFiniteSet(set)
    <3>1. Form(New, f) \in RoomRequest
      BY <1>1
    <3>2. IsFiniteSet(set)
      BY <1>3, <2>5, FS_AddElement
    <3> QED BY <1>2, <2>5, <3>1, <3>2
  <2> QED BY <2>2, <2>3, <2>4, <2>5
<1> HIDE DEF Lists
<1>6. PICK set \in Lists : list = SetToSeq(set)
  BY <1>4
<1>7. list \in Seq(set) /\ set \subseteq RoomRequest
  BY <1>5, <1>6, ListOfSet
<1> QED BY <1>7

LEMMA EditorStep == ASSUME LayoutIInv, NEW p \in Procs, EditorRequest(p) PROVE LayoutIInv'
<1>1. ~Absent.given /\ Absent.given \in BOOLEAN /\ DOMAIN << >> = {}
  BY DEF Absent
<1>2. handler[p].pc = "edit" => /\ DOMAIN handler[p].rooms \subseteq RoomIds
                                /\ \A r \in DOMAIN handler[p].rooms : handler[p].rooms[r] \in RoomForms
                                /\ DOMAIN handler[p].elements \subseteq ElementIds
                                /\ \A x \in DOMAIN handler[p].elements : handler[p].elements[x] \in Element
  BY DEF LayoutIInv, EditorOK
<1>3. ASSUME NEW form \in {"draft", "published", "keep"}, saveEditorState(p, Absent, Absent, << >>, form)
      PROVE  LayoutIInv'
  BY <1>1, <1>3, SaveStep
<1>4. ASSUME In(p, "edit"), NEW list \in RoomLists(handler[p].rooms),
             NEW elements \in {Absent, [given |-> TRUE, list |-> handler[p].elements]},
             saveEditorState(p, [given |-> TRUE, list |-> list], elements, << >>, "absent")
      PROVE  LayoutIInv'
  <2>1. PICK loaded : loaded = handler[p].rooms
    OBVIOUS
  <2>2. list \in Seq(RoomRequest)
    BY <1>2, <1>4, <2>1, ListsAreRequests DEF In
  <2>3. PICK rooms : rooms = [given |-> TRUE, list |-> list]
    OBVIOUS
  <2>4. rooms.given \in BOOLEAN /\ rooms.list \in Seq(RoomRequest)
    BY <2>2, <2>3
  <2>5. PICK written : written = elements
    OBVIOUS
  <2>6. written.given => DOMAIN written.list \subseteq ElementIds /\ \A x \in DOMAIN written.list : written.list[x] \in Element
    BY <1>1, <1>2, <1>4, <2>5 DEF In
  <2>7. saveEditorState(p, rooms, written, << >>, "absent")
    BY <1>4, <2>3, <2>5
  <2> QED BY <1>1, <2>4, <2>6, <2>7, SaveStep
<1>5. ASSUME In(p, "edit"), NEW x \in ElementIds, NEW t \in ElementTypes, NEW r \in DOMAIN handler[p].rooms \cup {New},
             NEW with \in BOOLEAN,
             saveEditorState(p, Absent,
              [given |-> TRUE,
               list |-> IF with THEN [y \in DOMAIN handler[p].elements \cup {x} |->
                                        IF y = x THEN [elementType |-> t, room |-> r] ELSE handler[p].elements[y]]
                        ELSE [y \in DOMAIN handler[p].elements \ {x} |-> handler[p].elements[y]]], << >>, "absent")
      PROVE  LayoutIInv'
  <2>1. PICK drawn : drawn = handler[p].elements
    OBVIOUS
  <2>2. DOMAIN drawn \subseteq ElementIds /\ \A y \in DOMAIN drawn : drawn[y] \in Element
    BY <1>2, <1>5, <2>1 DEF In
  <2>3. PICK new : new = [elementType |-> t, room |-> r]
    OBVIOUS
  <2>4. new \in Element
    BY <1>2, <1>5, <2>3 DEF In, Element
  <2>5. PICK list : list = IF with THEN [y \in DOMAIN drawn \cup {x} |-> IF y = x THEN new ELSE drawn[y]]
                           ELSE [y \in DOMAIN drawn \ {x} |-> drawn[y]]
    OBVIOUS
  <2>6. DOMAIN list \subseteq ElementIds /\ \A y \in DOMAIN list : list[y] \in Element
    BY <2>2, <2>4, <2>5
  <2>7. PICK written : written = [given |-> TRUE, list |-> list]
    OBVIOUS
  <2>8. DOMAIN written.list \subseteq ElementIds /\ \A y \in DOMAIN written.list : written.list[y] \in Element
    BY <2>6, <2>7
  <2>9. saveEditorState(p, Absent, written, << >>, "absent")
    BY <1>5, <2>1, <2>3, <2>5, <2>7
  <2> QED BY <1>1, <2>8, <2>9, SaveStep
<1>6. ASSUME In(p, "edit"), NEW x \in AssetIds, NEW r \in DOMAIN handler[p].rooms,
             saveEditorState(p, Absent, Absent, [y \in {x} |-> [room |-> r, known |-> x \in DOMAIN handler[p].assets]], "absent")
      PROVE  LayoutIInv'
  <2>1. PICK list : list = [y \in {x} |-> [room |-> r, known |-> x \in DOMAIN handler[p].assets]]
    OBVIOUS
  <2>2. \A y \in DOMAIN list : list[y].room \in RoomIds
    BY <1>2, <1>6, <2>1 DEF In
  <2>3. saveEditorState(p, Absent, Absent, list, "absent")
    BY <1>6, <2>1
  <2> QED BY <1>1, <2>2, <2>3, SaveStep
<1> QED BY <1>3, <1>4, <1>5, <1>6, EditorOpensStep, EditorLoadsStep DEF EditorRequest

\* A booking is made for a room that is there, and nothing but its status changes.
LEMMA BookingStep ==
  ASSUME LayoutIInv, NEW b \in BookingIds, UNCHANGED <<layout, room, element, asset, dropped, rvars>>,
         NEW k \in Booking, booking' = [booking EXCEPT ![b] = k],
         k.status # "none" /\ k.made \notin dropped => k.made \in RoomIds /\ k.room = k.made /\ IsRoom(room, k.made)
  PROVE  LayoutIInv'
<1>1. PICK new : new = Tables'
  OBVIOUS
<1>2. PICK out : out = dropped
  OBVIOUS
<1>3. /\ DOMAIN new = DB /\ new.layout = layout /\ new.room = room /\ new.element = element
      /\ new.asset = asset /\ new.booking = [booking EXCEPT ![b] = k] /\ dropped' = out
  BY <1>1, <1>2 DEF Tables, DB
<1>4. PlanOK(new)
  BY <1>3, TablesAre DEF LayoutIInv, Good, PlanOK
<1>5. Held(new, out)
  BY <1>2, <1>3, TablesAre DEF LayoutIInv, Good, Held
<1>6. Good(Tables, dropped)'
  BY <1>1, <1>3, <1>4, <1>5 DEF Good
<1> QED BY <1>6 DEF LayoutIInv, rvars, EditorOK

LEMMA BookStep ==
  ASSUME LayoutIInv, NEW b \in BookingIds, NEW r \in RoomIds, NEW at \in Int, Book(b, r, at)
  PROVE  LayoutIInv'
<1>1. PICK k : k = [room |-> r, made |-> r, at |-> at, status |-> "pending"]
  OBVIOUS
<1>2. k.made = r /\ k.room = r /\ k \in Booking
  BY <1>1 DEF Booking, BookingStatus
<1>3. r \in RoomIds /\ IsRoom(room, r)
  BY DEF Book, ActiveRooms, IsRoom
<1> QED BY <1>1, <1>2, <1>3, BookingStep DEF Book

LEMMA BookingMovesStep ==
  ASSUME LayoutIInv, NEW b \in BookingIds, NEW status \in BookingStatus, BookingMoves(b, status)
  PROVE  LayoutIInv'
<1>1. PICK k : k = [booking[b] EXCEPT !.status = status]
  OBVIOUS
<1>2. k.made = booking[b].made /\ k.room = booking[b].room /\ k \in Booking
  <2>1. PICK was \in Booking : was = booking[b]
    BY TablesAre DEF LayoutIInv, Good, Held
  <2>2. k = [was EXCEPT !.status = status]
    BY <1>1, <2>1
  <2> QED BY <2>1, <2>2 DEF Booking
<1>3. booking[b].made \notin dropped =>
        booking[b].made \in RoomIds /\ booking[b].room = booking[b].made /\ IsRoom(room, booking[b].made)
  BY TablesAre DEF BookingMoves, LayoutIInv, Good, Held
<1>4. booking' = [booking EXCEPT ![b] = k]
  BY <1>1 DEF BookingMoves
<1> QED BY <1>2, <1>3, <1>4, BookingStep DEF BookingMoves

LEMMA LayoutInductive == LayoutIInv /\ [LayoutNext]_<<lvars, rvars>> => LayoutIInv'
<1> SUFFICES ASSUME LayoutIInv, [LayoutNext]_<<lvars, rvars>> PROVE LayoutIInv'
  OBVIOUS
<1>1. ASSUME NEW p \in Procs, EditorRequest(p) \/ OccupancyRequest(p) PROVE LayoutIInv'
  BY <1>1, EditorStep, OccupancyStep
<1>2. ASSUME NEW b \in BookingIds, NEW r \in RoomIds, NEW d \in OccupancyDays, NEW i \in 0..(SlotsPerDay - 1),
             Book(b, r, d * SlotsPerDay + i)
      PROVE  LayoutIInv'
  <2>1. d * SlotsPerDay + i \in Int
    BY LayoutAssumption
  <2> QED BY <1>2, <2>1, BookStep
<1>3. ASSUME NEW b \in BookingIds, NEW status \in BookingStatus, BookingMoves(b, status) PROVE LayoutIInv'
  BY <1>3, BookingMovesStep
<1>4. ASSUME NEW p \in Procs, Dies(p), UNCHANGED lvars PROVE LayoutIInv'
  <2>1. NoRequest.pc = "idle"
    BY DEF NoRequest
  <2>2. DOMAIN handler' = Procs /\ \A q \in Procs : handler'[q] = handler[q] \/ handler'[q] = NoRequest
    BY <1>4 DEF Dies, LayoutIInv
  <2>3. \A q \in Procs : EditorOK(handler[q])'
    BY <2>1, <2>2 DEF EditorOK, LayoutIInv
  <2>4. Good(Tables, dropped)'
    <3>1. PICK db : db = Tables
      OBVIOUS
    <3>2. PICK out : out = dropped
      OBVIOUS
    <3>3. Good(db, out) /\ Tables' = db /\ dropped' = out
      BY <1>4, <3>1, <3>2, RowsStay DEF LayoutIInv
    <3> QED BY <3>3
  <2> QED BY <1>4, <2>2, <2>3, <2>4 DEF LayoutIInv, lvars
<1>5. CASE UNCHANGED <<lvars, rvars>>
  <2>1. Tables' = Tables /\ dropped' = dropped /\ handler' = handler
    BY <1>5, RowsStay DEF rvars
  <2>2. Good(Tables, dropped)'
    <3>1. PICK db : db = Tables
      OBVIOUS
    <3>2. PICK out : out = dropped
      OBVIOUS
    <3>3. Good(db, out) /\ Tables' = db /\ dropped' = out
      BY <2>1, <3>1, <3>2 DEF LayoutIInv
    <3> QED BY <3>3
  <2> QED BY <2>1, <2>2 DEF LayoutIInv, EditorOK
<1> QED BY <1>1, <1>2, <1>3, <1>4, <1>5 DEF LayoutNext

\* Whatever editors write back, a booking is on the room it was made for, that room is
\* there and its availability shows the slot as taken, until a save leaves the room out
\* (saveEditorState, getRoomAvailability).
THEOREM BookingsStayInTheirRooms == LayoutSpec => []BookingsKeepTheirRooms
<1>1. LayoutInit /\ RequestsInit => LayoutIInv
  BY LayoutInitially
<1>2. LayoutIInv /\ [LayoutNext]_<<lvars, rvars>> => LayoutIInv'
  BY LayoutInductive
<1>3. LayoutIInv => BookingsKeepTheirRooms
  <2> SUFFICES ASSUME LayoutIInv, NEW b \in BookingIds, booking[b].status # "none", booking[b].made \notin dropped
               PROVE  /\ booking[b].room = booking[b].made
                      /\ booking[b].status \in {"pending", "confirmed"} /\ booking[b].made \in ActiveRooms =>
                           booking[b].at \in getRoomAvailability(booking[b].at \div SlotsPerDay)[booking[b].made]
    BY DEF BookingsKeepTheirRooms
  <2>1. booking[b].room = booking[b].made
    BY TablesAre DEF LayoutIInv, Good, Held
  <2> QED BY <2>1 DEF getRoomAvailability
<1> QED BY <1>1, <1>2, <1>3, PTL DEF LayoutSpec

LEMMA LayoutTyped == LayoutIInv => LayoutTypeOK
BY TablesAre DEF LayoutIInv, Good, PlanOK, RoomsOK, Held, LayoutTypeOK

\* The types of the layout, and its foreign keys: what hangs on a room hangs on one that is
\* there, also when an editor saves what it loaded before others saved (saveEditorState).
THEOREM LayoutIsTyped == LayoutSpec => []LayoutTypeOK
<1>1. LayoutInit /\ RequestsInit => LayoutIInv
  BY LayoutInitially
<1>2. LayoutIInv /\ [LayoutNext]_<<lvars, rvars>> => LayoutIInv'
  BY LayoutInductive
<1>3. LayoutIInv => LayoutTypeOK
  BY LayoutTyped
<1> QED BY <1>1, <1>2, <1>3, PTL DEF LayoutSpec

-----------------------------------------------------------------------------
(* The occupancy of a layout's rooms.                                        *)

LEMMA MultiplesInOrder ==
  ASSUME NEW a \in Int, NEW b \in Int, NEW n \in Nat, a * n < b * n
  PROVE  a < b
<1>1. ASSUME b <= a PROVE FALSE
  <2>1. a - b \in Nat
    BY <1>1
  <2>2. (a - b) * n \in Nat
    BY <2>1
  <2>3. (a - b) * n = a * n - b * n
    OBVIOUS
  <2> QED BY <2>2, <2>3
<1> QED BY <1>1

LEMMA RoundedWithin ==
  ASSUME NEW n \in Nat, NEW d \in Nat, d > 0
  PROVE  Rounded(n, d) \in Nat /\ (n <= 100 * d => Rounded(n, d) <= 100)
<1>1. PICK x \in Nat : x = 2 * n + d
  OBVIOUS
<1>2. PICK y \in Nat : y = 2 * d
  OBVIOUS
<1>3. PICK q \in Int : q = x \div y
  BY <1>2
<1>4. Rounded(n, d) = q
  BY <1>1, <1>2, <1>3 DEF Rounded
<1>5. q * y <= x /\ x < q * y + y
  BY <1>2, <1>3
<1>6. q >= 0
  <2>1. ASSUME q < 0 PROVE FALSE
    <3>1. PICK m \in Nat : q = -m - 1
      BY <2>1
    <3>2. m * y >= 0 /\ m * y \in Nat
      OBVIOUS
    <3>3. q * y = -(m * y) - y
      BY <3>1
    <3> QED BY <1>5, <3>2, <3>3
  <2> QED BY <2>1
<1>7. ASSUME n <= 100 * d, q > 100 PROVE FALSE
  <2>1. PICK m \in Nat : q = 101 + m
    BY <1>7
  <2>2. m * y \in Nat
    OBVIOUS
  <2>3. q * y = 101 * y + m * y
    BY <2>1
  <2> QED BY <1>1, <1>2, <1>5, <1>7, <2>2, <2>3
<1> QED BY <1>4, <1>6, <1>7

LEMMA PercentWithin ==
  ASSUME NEW n \in Nat, NEW capacity \in Int
  PROVE  Percent(n, capacity) \in 0..100
<1>1. CASE capacity > 0
  <2>1. capacity \in Nat /\ 100 * n \in Nat
    BY <1>1
  <2>2. Rounded(100 * n, capacity) \in Nat
    BY <1>1, <2>1, RoundedWithin
  <2> QED BY <1>1, <2>2 DEF Percent, Least
<1>2. CASE ~(capacity > 0)
  BY <1>2 DEF Percent
<1> QED BY <1>1, <1>2

\* The payload of a day: its rooms count no booking twice, and no more than there are.
LEMMA DayAddsUp ==
  ASSUME NEW rooms, DOMAIN rooms \subseteq RoomIds, \A r \in DOMAIN rooms : rooms[r].capacity \in Int,
         NEW rows, IsFiniteSet(rows), NEW day, day = buildOccupancyDayPayload(rooms, rows)
  PROVE  /\ day.totalAppointments = Cardinality(rows)
         /\ day.occupancyPercent \in 0..100
         /\ SumFunction([r \in DOMAIN day.rooms |-> day.rooms[r].appointmentsCount]) <= day.totalAppointments
<1>1. IsFiniteSet(DOMAIN rooms)
  BY LayoutAssumption, FS_Subset
<1> DEFINE seats == [r \in DOMAIN rooms |-> IF rooms[r].capacity > 0 THEN rooms[r].capacity ELSE 0]
           count == [r \in DOMAIN rooms |-> Cardinality({b \in rows : b.room = r})]
<1>2. SumFunction(seats) \in Int
  <2>1. DOMAIN seats = DOMAIN rooms /\ \A r \in DOMAIN rooms : seats[r] \in Int
    OBVIOUS
  <2> HIDE DEF seats
  <2> QED BY <1>1, <2>1, SumTyped DEF SumFunction, Sum
<1>3. PICK total \in Int : total = SumFunction(seats)
  BY <1>2
<1>4. /\ day.totalAppointments = Cardinality(rows)
      /\ day.occupancyPercent = Percent(Cardinality(rows), total)
      /\ DOMAIN day.rooms = DOMAIN rooms
      /\ \A r \in DOMAIN rooms : day.rooms[r].appointmentsCount = Cardinality({b \in rows : b.room = r})
  BY <1>3 DEF buildOccupancyDayPayload
<1>5. Cardinality(rows) \in Nat
  BY FS_CardinalityType
<1>6. day.occupancyPercent \in 0..100
  BY <1>4, <1>5, PercentWithin
<1>7. [r \in DOMAIN day.rooms |-> day.rooms[r].appointmentsCount] = count
  BY <1>4
<1>8. SumFunction(count) <= Cardinality(rows)
  <2> DEFINE shown == {b \in rows : b.room \in DOMAIN rooms}
             where == [b \in shown |-> b.room]
             byRoom == [r \in DOMAIN rooms |-> Cardinality({b \in shown : where[b] = r})]
  <2>1. IsFiniteSet(shown) /\ Cardinality(shown) <= Cardinality(rows)
    BY FS_Subset
  <2>2. \A b \in shown : where[b] \in DOMAIN rooms
    OBVIOUS
  <2>3. \A r \in DOMAIN rooms : {b \in shown : where[b] = r} = {b \in rows : b.room = r}
    OBVIOUS
  <2>4. count = byRoom
    BY <2>3
  <2>5. Sum(byRoom, DOMAIN rooms) = Cardinality(shown)
    <3> HIDE DEF shown, where
    <3> QED BY <1>1, <2>1, <2>2, CountedByKey
  <2>6. DOMAIN count = DOMAIN rooms
    OBVIOUS
  <2> HIDE DEF count, shown, where, byRoom
  <2> QED BY <2>1, <2>4, <2>5, <2>6 DEF SumFunction, Sum
<1> QED BY <1>4, <1>6, <1>7, <1>8

\* A slot is of one day.
LEMMA SlotDay ==
  ASSUME NEW at \in Int, NEW day \in Int, day = at \div SlotsPerDay
  PROVE  /\ \A d \in Int : d * SlotsPerDay <= at /\ at < (d + 1) * SlotsPerDay <=> d = day
         /\ \A d \in Int : d * SlotsPerDay <= at => d <= day
         /\ \A d \in Int : at < (d + 1) * SlotsPerDay => day <= d
<1>1. PICK n \in Nat : n = SlotsPerDay /\ n > 0
  BY LayoutAssumption
<1>2. day * n <= at /\ at < day * n + n
  BY <1>1
<1>3. (day + 1) * n = day * n + n
  BY <1>1
<1>4. ASSUME NEW d \in Int, d * n <= at PROVE d <= day
  <2>1. PICK x \in Int : x = d * n
    BY <1>1
  <2>2. PICK y \in Int : y = (day + 1) * n
    BY <1>1
  <2>3. x < y
    BY <1>2, <1>3, <1>4, <2>1, <2>2
  <2>4. d < day + 1
    BY <2>1, <2>2, <2>3, MultiplesInOrder
  <2> QED BY <2>4
<1>5. ASSUME NEW d \in Int, at < (d + 1) * n PROVE day <= d
  <2>1. PICK x \in Int : x = day * n
    BY <1>1
  <2>2. PICK y \in Int : y = (d + 1) * n
    BY <1>1
  <2>3. x < y
    BY <1>2, <1>5, <2>1, <2>2
  <2>4. day < d + 1
    BY <2>1, <2>2, <2>3, MultiplesInOrder
  <2> QED BY <2>4
<1>6. ASSUME NEW d \in Int, d * n <= at, at < (d + 1) * n PROVE d = day
  <2>1. d <= day /\ day <= d
    BY <1>4, <1>5, <1>6
  <2> QED BY <2>1
<1> QED BY <1>1, <1>2, <1>3, <1>4, <1>5, <1>6

\* The bookings of a range of days, each on its day.
LEMMA DaysAddUp ==
  ASSUME NEW all, IsFiniteSet(all), \A b \in all : b.at \in Int, NEW from \in Int, NEW to \in Int,
         NEW rows, rows = Live(all, from, to)
  PROVE  /\ IsFiniteSet(rows) /\ \A d \in from..to : Live(rows, d, d) \subseteq rows
         /\ SumFunction([d \in from..to |-> Cardinality(Live(rows, d, d))]) = Cardinality(rows)
<1>1. rows \subseteq all /\ IsFiniteSet(rows)
  BY FS_Subset DEF Live
<1> DEFINE day == [b \in rows |-> b.at \div SlotsPerDay]
           byDay == [d \in from..to |-> Cardinality({b \in rows : day[b] = d})]
<1>2. ASSUME NEW b \in rows
      PROVE  /\ day[b] \in from..to
             /\ \A d \in Int : d * SlotsPerDay <= b.at /\ b.at < (d + 1) * SlotsPerDay <=> d = day[b]
  <2>1. b.at \in Int /\ from * SlotsPerDay <= b.at /\ b.at < (to + 1) * SlotsPerDay
    BY <1>1 DEF Live
  <2>2. PICK at \in Int : at = b.at
    BY <2>1
  <2>3. PICK d \in Int : d = at \div SlotsPerDay
    BY LayoutAssumption
  <2>4. day[b] = d
    BY <2>2, <2>3
  <2> HIDE DEF day
  <2>5. from <= d /\ d <= to
    BY <2>1, <2>2, <2>3, SlotDay
  <2>6. \A e \in Int : e * SlotsPerDay <= at /\ at < (e + 1) * SlotsPerDay <=> e = d
    BY <2>3, SlotDay
  <2> QED BY <2>2, <2>4, <2>5, <2>6
<1> HIDE DEF day
<1>3. ASSUME NEW d \in from..to PROVE Live(rows, d, d) = {b \in rows : day[b] = d}
  <2>1. \A b \in rows : b.status # "cancelled"
    BY DEF Live
  <2> QED BY <1>2, <2>1 DEF Live
<1>4. [d \in from..to |-> Cardinality(Live(rows, d, d))] = byDay
  BY <1>3
<1>5. IsFiniteSet(from..to)
  BY FS_Interval
<1>6. Sum(byDay, from..to) = Cardinality(rows)
  <2>1. PICK K : K = from..to
    OBVIOUS
  <2>2. PICK g : g = day
    OBVIOUS
  <2>3. \A b \in rows : g[b] \in K
    BY <1>2, <2>1, <2>2
  <2>4. IsFiniteSet(K)
    BY <1>5, <2>1
  <2>5. Sum([k \in K |-> Cardinality({b \in rows : g[b] = k})], K) = Cardinality(rows)
    BY <1>1, <2>3, <2>4, CountedByKey
  <2> QED BY <2>1, <2>2, <2>5
<1>7. DOMAIN byDay = from..to
  OBVIOUS
<1> HIDE DEF byDay
<1>8. SumFunction(byDay) = Cardinality(rows)
  BY <1>6, <1>7 DEF SumFunction, Sum
<1> QED BY <1>1, <1>3, <1>4, <1>8

LEMMA OccupancyAnswered ==
  ASSUME LayoutIInv, NEW p \in Procs, OccupancyAnswer(p)
  PROVE  OccupancyAddsUp'
<1>1. PICK h : h = handler[p]
  OBVIOUS
<1>2. PICK from \in Int, to \in Int : from = h.from /\ to = h.to /\ from <= to
  BY <1>1 DEF OccupancyAnswer, In, LayoutIInv, EditorOK
<1>3. PICK rooms : rooms = h.rooms
  OBVIOUS
<1>4. DOMAIN rooms \subseteq RoomIds /\ \A r \in DOMAIN rooms : rooms[r].capacity \in Int
  BY <1>1, <1>3 DEF OccupancyAnswer, In, LayoutIInv, EditorOK
<1> DEFINE Row(b) == [id |-> b, room |-> booking[b].room, at |-> booking[b].at, status |-> booking[b].status]
<1>5. PICK there : there = {c \in BookingIds : booking[c].status # "none"}
  OBVIOUS
<1>6. PICK all : all = {Row(b) : b \in there}
  OBVIOUS
<1>7. IsFiniteSet(all) /\ \A b \in all : b.at \in Int
  <2>1. IsFiniteSet(there)
    BY <1>5, LayoutAssumption, FS_Subset
  <2>2. \A b \in there : Row(b).at \in Int
    BY <1>5, TablesAre DEF LayoutIInv, Good, Held, Booking
  <2> DEFINE g == [b \in there |-> Row(b)]
  <2>3. g \in Surjection(there, all)
    BY <1>6 DEF Surjection
  <2> HIDE DEF g, Row
  <2> QED BY <1>6, <2>1, <2>2, <2>3, FS_Surjection
<1>8. PICK rows : rows = Live(all, from, to)
  OBVIOUS
<1>9. PICK days : days = [d \in from..to |-> buildOccupancyDayPayload(rooms, Live(rows, d, d))]
  OBVIOUS
<1>10. PICK n \in Nat : n = to - from + 1 /\ n > 0
  BY <1>2
<1> DEFINE percents == [d \in from..to |-> days[d].occupancyPercent]
           counts == [d \in from..to |-> days[d].totalAppointments]
<1>11. PICK report : report = [found |-> Cardinality(rows), days |-> days,
                               avgOccupancyPercent |-> Rounded(SumFunction(percents), n),
                               avgOccupied |-> Rounded(SumFunction(counts), n)]
  OBVIOUS
<1>12. occupancy' = report
  BY <1>1, <1>2, <1>3, <1>5, <1>6, <1>8, <1>9, <1>10, <1>11 DEF OccupancyAnswer
<1> HIDE DEF Row
<1>13. IsFiniteSet(rows) /\ SumFunction([d \in from..to |-> Cardinality(Live(rows, d, d))]) = Cardinality(rows)
  BY <1>7, <1>8, DaysAddUp
<1>14. ASSUME NEW d \in from..to
       PROVE  /\ days[d].totalAppointments = Cardinality(Live(rows, d, d))
              /\ days[d].occupancyPercent \in 0..100
              /\ SumFunction([r \in DOMAIN days[d].rooms |-> days[d].rooms[r].appointmentsCount])
                   <= days[d].totalAppointments
  <2>1. PICK mine : mine = Live(rows, d, d)
    OBVIOUS
  <2>2. IsFiniteSet(mine)
    <3>1. mine \subseteq rows
      BY <1>7, <1>8, <2>1, DaysAddUp
    <3> QED BY <1>13, <3>1, FS_Subset
  <2>3. days[d] = buildOccupancyDayPayload(rooms, mine)
    BY <1>9, <2>1
  <2> QED BY <1>4, <2>1, <2>2, <2>3, DayAddsUp
<1>15. SumFunction(counts) = Cardinality(rows)
  <2>1. counts = [d \in from..to |-> Cardinality(Live(rows, d, d))]
    BY <1>14
  <2> QED BY <1>13, <2>1
<1>16. report.avgOccupancyPercent \in 0..100
  <2>1. IsFiniteSet(from..to) /\ Cardinality(from..to) = n
    <3>1. IsFiniteSet(from..to) /\ Cardinality(from..to) = IF from > to THEN 0 ELSE to - from + 1
      BY FS_Interval
    <3> QED BY <1>2, <1>10, <3>1
  <2>2. DOMAIN percents = from..to /\ \A d \in from..to : percents[d] \in 0..100
    BY <1>14
  <2> HIDE DEF percents
  <2>3. SumFunction(percents) \in 0..(n * 100)
    <3>1. Sum(percents, from..to) \in 0..(Cardinality(from..to) * 100)
      BY <2>1, <2>2, SumBounded
    <3> QED BY <2>1, <2>2, <3>1 DEF SumFunction, Sum
  <2>4. PICK s \in Nat : s = SumFunction(percents) /\ s <= 100 * n
    BY <2>3
  <2>5. report.avgOccupancyPercent = Rounded(s, n)
    BY <1>11, <2>4
  <2>6. Rounded(s, n) \in Nat /\ Rounded(s, n) <= 100
    BY <1>10, <2>4, RoundedWithin
  <2> QED BY <2>5, <2>6
<1>17. report.days = days /\ report.found = Cardinality(rows) /\ DOMAIN days = from..to
  BY <1>9, <1>11
<1> QED BY <1>12, <1>14, <1>15, <1>16, <1>17 DEF OccupancyAddsUp

LEMMA OccupancyKept == (LayoutIInv /\ OccupancyAddsUp) /\ [LayoutNext]_<<lvars, rvars>> => (LayoutIInv /\ OccupancyAddsUp)'
<1> SUFFICES ASSUME LayoutIInv, OccupancyAddsUp, [LayoutNext]_<<lvars, rvars>>
             PROVE  OccupancyAddsUp'
  BY LayoutInductive
<1>1. ASSUME NEW p \in Procs, EditorRequest(p) PROVE occupancy' = occupancy
  <2>1. \A rooms, elements, assets, form : saveEditorState(p, rooms, elements, assets, form) => occupancy' = occupancy
    BY DEF saveEditorState
  <2>2. EditorOpens(p) \/ EditorLoads(p) => occupancy' = occupancy
    BY DEF EditorOpens, EditorLoads, lvars
  <2> QED BY <1>1, <2>1, <2>2 DEF EditorRequest
<1>2. ASSUME NEW p \in Procs, OccupancyRequest(p) PROVE OccupancyAnswer(p) \/ occupancy' = occupancy
  BY <1>2 DEF OccupancyRequest, OccupancyRooms, lvars
<1>3. \A b, r, at : Book(b, r, at) => occupancy' = occupancy
  BY DEF Book
<1>4. \A b, status : BookingMoves(b, status) => occupancy' = occupancy
  BY DEF BookingMoves
<1>5. UNCHANGED lvars => occupancy' = occupancy
  BY DEF lvars
<1>6. (\E p \in Procs : OccupancyAnswer(p)) \/ occupancy' = occupancy
  BY <1>1, <1>2, <1>3, <1>4, <1>5 DEF LayoutNext
<1>7. CASE occupancy' = occupancy
  BY <1>7 DEF OccupancyAddsUp
<1> QED BY <1>6, <1>7, OccupancyAnswered

\* getOccupancy splits the bookings of a range into days and rooms: none is counted twice
\* or dropped at midnight, and no figure exceeds 100 %, whatever is booked or saved
\* between its two reads.
THEOREM OccupancyIsCounted == LayoutSpec => []OccupancyAddsUp
<1>1. LayoutInit /\ RequestsInit => LayoutIInv /\ OccupancyAddsUp
  BY LayoutInitially DEF LayoutInit, OccupancyAddsUp
<1>2. (LayoutIInv /\ OccupancyAddsUp) /\ [LayoutNext]_<<lvars, rvars>> => (LayoutIInv /\ OccupancyAddsUp)'
  BY OccupancyKept
<1> QED BY <1>1, <1>2, PTL DEF LayoutSpec

-----------------------------------------------------------------------------
(* Worker schedule: the hours of a day.                                      *)

LEMMA DayHolds ==
  ASSUME NEW t \in Int
  PROVE  /\ Day(t) \in Int
         /\ \E minute \in 0..(DayLength - 1) : minute = t % DayLength /\ t = Day(t) * DayLength + minute
<1>1. PICK length \in Nat : length = DayLength /\ length > 0
  BY WorkerScheduleAssumption
<1>2. PICK day \in Int : day = t \div length
  BY <1>1
<1>3. PICK minute \in 0..(length - 1) : minute = t % length
  BY <1>1
<1>4. t = day * length + minute
  BY <1>1, <1>2, <1>3
<1>5. Day(t) = day
  BY <1>1, <1>2 DEF Day
<1>6. t = Day(t) * DayLength + minute
  BY <1>1, <1>4, <1>5
<1> QED BY <1>1, <1>2, <1>3, <1>5, <1>6

LEMMA WeekdayOf == ASSUME NEW day \in Int PROVE day % Week \in Weekdays
BY WorkerScheduleAssumption DEF Weekdays

\* A segment lies on the day it begins on and the next one.
LEMMA RangeOf ==
  ASSUME NEW day \in Int, NEW seg \in TimeSegment, NEW r, r = expandSegmentToUtcRange(day, seg)
  PROVE  /\ r.start \in Int /\ r.end \in Int /\ r.start < r.end
         /\ r.start = day * DayLength + seg.open
         /\ r.end = day * DayLength + segmentToLocalMinuteRange(seg).end
         /\ day * DayLength <= r.start /\ r.start < day * DayLength + DayLength
         /\ day * DayLength < r.end /\ r.end < day * DayLength + 2 * DayLength
<1>1. seg.open \in 0..(DayLength - 1) /\ seg.close \in 0..(DayLength - 1)
  BY DEF TimeSegment
<1>2. PICK local : local = segmentToLocalMinuteRange(seg)
  OBVIOUS
<1>3. /\ local.start = seg.open
      /\ local.end = IF seg.close > seg.open THEN seg.close ELSE seg.close + DayLength
  BY <1>2 DEF segmentToLocalMinuteRange
<1>4. r.start = day * DayLength + local.start /\ r.end = day * DayLength + local.end
  BY <1>2 DEF expandSegmentToUtcRange
<1>5. PICK midnight \in Int : midnight = day * DayLength
  BY WorkerScheduleAssumption
<1> QED BY <1>1, <1>2, <1>3, <1>4, <1>5, WorkerScheduleAssumption

LEMMA ApartOnAnyDay ==
  ASSUME NEW day \in Int, NEW a \in TimeSegment, NEW b \in TimeSegment,
         Overlap(expandSegmentToUtcRange(day, a), expandSegmentToUtcRange(day, b))
  PROVE  Overlap(segmentToLocalMinuteRange(a), segmentToLocalMinuteRange(b))
<1>1. PICK r : r = expandSegmentToUtcRange(day, a)
  OBVIOUS
<1>2. PICK s : s = expandSegmentToUtcRange(day, b)
  OBVIOUS
<1>3. PICK midnight \in Int : midnight = day * DayLength
  BY WorkerScheduleAssumption
<1>4. PICK la : la = segmentToLocalMinuteRange(a)
  OBVIOUS
<1>5. PICK lb : lb = segmentToLocalMinuteRange(b)
  OBVIOUS
<1>6. /\ la.start \in Int /\ la.end \in Int /\ lb.start \in Int /\ lb.end \in Int
  BY <1>4, <1>5, WorkerScheduleAssumption DEF segmentToLocalMinuteRange, TimeSegment
<1>7. r.start = midnight + la.start /\ r.end = midnight + la.end
  BY <1>1, <1>3, <1>4 DEF expandSegmentToUtcRange
<1>8. s.start = midnight + lb.start /\ s.end = midnight + lb.end
  BY <1>2, <1>3, <1>5 DEF expandSegmentToUtcRange
<1>9. r.start < s.end /\ s.start < r.end
  BY <1>1, <1>2 DEF Overlap
<1> QED BY <1>4, <1>5, <1>6, <1>7, <1>8, <1>9 DEF Overlap

\* What starts or ends near an instant is of the day of that instant or a neighbour.
LEMMA NearbyDays ==
  ASSUME NEW t \in Nat, NEW day \in Int, NEW edge \in Int, Near(t, edge), NEW n \in {1, 2},
         day * DayLength <= edge, edge < day * DayLength + n * DayLength
  PROVE  Day(t) - n <= day /\ day <= Day(t) + 1
<1>1. DayLength \in Nat /\ DayLength > 0 /\ ShiftWindow \in Nat /\ ShiftWindow < DayLength
  BY WorkerScheduleAssumption
<1>2. PICK today \in Int : today = Day(t)
  BY DayHolds
<1>3. today * DayLength <= t /\ t < today * DayLength + DayLength
  <2>1. PICK minute \in 0..(DayLength - 1) : t = today * DayLength + minute
    BY <1>2, DayHolds
  <2>2. PICK midnight \in Int : midnight = today * DayLength
    BY <1>1
  <2> QED BY <1>1, <2>1, <2>2
<1>4. edge - ShiftWindow <= t /\ t <= edge + ShiftWindow
  BY DEF Near
<1>5. day < today + 2
  <2>1. PICK midnight \in Int : midnight = today * DayLength
    BY <1>1
  <2>2. (today + 2) * DayLength = midnight + 2 * DayLength
    BY <1>1, <2>1
  <2>3. PICK begin \in Int : begin = day * DayLength
    BY <1>1
  <2>4. day * DayLength < (today + 2) * DayLength
    BY <1>1, <1>3, <1>4, <2>1, <2>2, <2>3
  <2> QED BY <1>1, <2>4, MultiplesInOrder
<1>6. today < day + n + 1
  <2>1. PICK midnight \in Int : midnight = today * DayLength
    BY <1>1
  <2>2. PICK begin \in Int : begin = day * DayLength
    BY <1>1
  <2>3. PICK length \in Int : length = n * DayLength
    BY <1>1
  <2>4. (day + n + 1) * DayLength = begin + length + DayLength
    BY <1>1, <2>2, <2>3
  <2>5. today * DayLength < (day + n + 1) * DayLength
    BY <1>1, <1>3, <1>4, <2>1, <2>2, <2>3, <2>4
  <2> QED BY <1>1, <2>5, MultiplesInOrder
<1> QED BY <1>2, <1>5, <1>6

-----------------------------------------------------------------------------
\* A template that was checked keeps to the hours it was checked against.
WeekKept(week, hours) == \A day \in Weekdays : workerDayViolatesCafeBounds(week, hours, day) = {}

WeekOK(week, against) ==
  /\ week \in ShiftTemplates /\ validateWeeklyShiftSchedule(week)
  /\ against.clean => WeekKept(week, against.hours)

ShiftHandlerOK(h) ==
  /\ h.pc = "shift_write" => WeekOK(h.week, h.checked)
  /\ h.pc = "toggle" => h.status \in {"ON_SHIFT", "OFF_SHIFT"}

ShiftsIInv ==
  /\ WorkerScheduleTypeOK
  /\ validateCafeSchedule(openingHours)
  /\ shiftSchedule # NoShifts => WeekOK(shiftSchedule, checked)
  /\ DOMAIN handler = Procs
  /\ \A p \in Procs : ShiftHandlerOK(handler[p])

LEMMA ShiftsInitially == WorkerScheduleInit /\ RequestsInit => ShiftsIInv
<1> SUFFICES ASSUME WorkerScheduleInit, RequestsInit PROVE ShiftsIInv
  OBVIOUS
<1>1. NoRequest.pc = "idle"
  BY DEF NoRequest
<1>2. \A day \in Weekdays : UnsetHours[day].segments = << >>
  BY DEF UnsetHours
<1>3. validateCafeSchedule(openingHours)
  BY <1>2 DEF WorkerScheduleInit, validateCafeSchedule
<1> QED BY <1>1, <1>3 DEF WorkerScheduleInit, RequestsInit, ShiftsIInv, WorkerScheduleTypeOK, ShiftHandlerOK

\* A handler goes on, and what it writes was read with it.
LEMMA ShiftHandlerGoes ==
  ASSUME ShiftsIInv, NEW p \in Procs, NEW h, Become(p, h), ShiftHandlerOK(h)
  PROVE  DOMAIN handler' = Procs /\ \A q \in Procs : ShiftHandlerOK(handler'[q])
BY DEF Become, ShiftsIInv

LEMMA ShiftStep == ASSUME ShiftsIInv, NEW p \in Procs, ShiftRequest(p) PROVE ShiftsIInv'
<1>1. NoRequest.pc = "idle"
  BY DEF NoRequest
<1>2. ShiftHandlerOK(NoRequest)
  BY <1>1 DEF ShiftHandlerOK
<1>3. ASSUME NEW week \in ShiftTemplates, updateShiftSchedule(p, week) PROVE ShiftsIInv'
  <2>1. PICK c : c = [hours |-> openingHours,
                      clean |-> isCafeOpeningHoursSet(openingHours) /\ WeekKept(week, openingHours)]
    OBVIOUS
  <2>2. PICK h : h = [pc |-> "shift_write", week |-> week, checked |-> c]
    OBVIOUS
  <2>3. h.pc = "shift_write" /\ h.week = week /\ h.checked = c /\ c.hours = openingHours
        /\ (c.clean => WeekKept(week, openingHours))
    BY <2>1, <2>2
  <2>4. ShiftHandlerOK(h)
    BY <1>3, <2>3 DEF ShiftHandlerOK, WeekOK, updateShiftSchedule
  <2>5. Become(p, h) /\ UNCHANGED wvars
    BY <1>3, <2>1, <2>2 DEF updateShiftSchedule, WeekKept
  <2> QED BY <2>4, <2>5, ShiftHandlerGoes DEF ShiftsIInv, WorkerScheduleTypeOK, wvars
<1>4. ASSUME ShiftWrites(p) PROVE ShiftsIInv'
  <2>1. WeekOK(handler[p].week, handler[p].checked)
    BY <1>4 DEF ShiftWrites, In, ShiftsIInv, ShiftHandlerOK
  <2>2. WeekOK(shiftSchedule, checked)'
    BY <1>4, <2>1 DEF ShiftWrites
  <2> QED BY <1>2, <1>4, <2>1, <2>2, ShiftHandlerGoes
      DEF ShiftWrites, Finish, ShiftsIInv, WorkerScheduleTypeOK, WeekOK
<1>5. ASSUME NEW confirmed \in BOOLEAN, toggleShiftStatus(p, confirmed) PROVE ShiftsIInv'
  <2>1. PICK h : h = [pc |-> "toggle", status |-> IF shiftStatus = "ON_SHIFT" THEN "OFF_SHIFT" ELSE "ON_SHIFT"]
    OBVIOUS
  <2>2. ShiftHandlerOK(h)
    BY <2>1 DEF ShiftHandlerOK
  <2> QED BY <1>5, <2>1, <2>2, ShiftHandlerGoes DEF toggleShiftStatus, ShiftsIInv, WorkerScheduleTypeOK, wvars
<1>6. ASSUME ToggleWrites(p) PROVE ShiftsIInv'
  <2>1. handler[p].status \in {"ON_SHIFT", "OFF_SHIFT"}
    BY <1>6 DEF ToggleWrites, In, ShiftsIInv, ShiftHandlerOK
  <2> QED BY <1>2, <1>6, <2>1, ShiftHandlerGoes DEF ToggleWrites, Finish, ShiftsIInv, WorkerScheduleTypeOK
<1> QED BY <1>3, <1>4, <1>5, <1>6 DEF ShiftRequest

LEMMA ShiftsInductive == ShiftsIInv /\ [WorkerScheduleNext]_<<wvars, rvars>> => ShiftsIInv'
<1> SUFFICES ASSUME ShiftsIInv, [WorkerScheduleNext]_<<wvars, rvars>> PROVE ShiftsIInv'
  OBVIOUS
<1>1. ASSUME NEW p \in Procs, ShiftRequest(p) PROVE ShiftsIInv'
  BY <1>1, ShiftStep
<1>2. ASSUME NEW p \in Procs, Dies(p), UNCHANGED wvars PROVE ShiftsIInv'
  <2>1. NoRequest.pc = "idle"
    BY DEF NoRequest
  <2>2. DOMAIN handler' = Procs /\ \A q \in Procs : handler'[q] = handler[q] \/ handler'[q] = NoRequest
    BY <1>2 DEF Dies, ShiftsIInv
  <2> QED BY <1>2, <2>1, <2>2 DEF ShiftsIInv, WorkerScheduleTypeOK, ShiftHandlerOK, wvars
<1>3. ASSUME NEW hours \in HoursTemplates, updateCafeSchedule(hours) PROVE ShiftsIInv'
  BY <1>3 DEF updateCafeSchedule, rvars, ShiftsIInv, WorkerScheduleTypeOK
<1>4. ASSUME NEW range \in AbsenceRanges, createScheduleAbsence(range) \/ deleteScheduleAbsence(range) PROVE ShiftsIInv'
  BY <1>4 DEF createScheduleAbsence, deleteScheduleAbsence, rvars, ShiftsIInv, WorkerScheduleTypeOK
<1>5. CASE Tick
  BY <1>5 DEF Tick, rvars, ShiftsIInv, WorkerScheduleTypeOK
<1>6. CASE UNCHANGED <<wvars, rvars>>
  BY <1>6 DEF wvars, rvars, ShiftsIInv, WorkerScheduleTypeOK
<1> QED BY <1>1, <1>2, <1>3, <1>4, <1>5, <1>6 DEF WorkerScheduleNext

-----------------------------------------------------------------------------
(* What the day of a worker comes to.                                        *)

\* The segments of a day are segments, and apart from one another: a template is
\* validated, and a cafe has one a day.
LEMMA SegmentsOfADay ==
  ASSUME ShiftsIInv, NEW day \in Int, NEW segments, segments = buildEffectiveSegmentsForDay(day)
  PROVE  /\ segments \in Seq(TimeSegment)
         /\ \A i, j \in DOMAIN segments : i # j =>
              ~Overlap(expandSegmentToUtcRange(day, segments[i]), expandSegmentToUtcRange(day, segments[j]))
<1>1. PICK weekday \in Weekdays : weekday = day % Week
  BY WeekdayOf
<1>2. CASE absenceCoversDate(day)
  BY <1>2 DEF buildEffectiveSegmentsForDay
<1>3. CASE ~absenceCoversDate(day) /\ isWeeklyShiftScheduleEmpty(shiftSchedule)
  <2>1. segments = openingHours[weekday].segments
    BY <1>1, <1>3 DEF buildEffectiveSegmentsForDay
  <2>2. CASE openingHours = UnsetHours
    <3>1. segments = << >>
      BY <2>1, <2>2 DEF UnsetHours
    <3> QED BY <3>1
  <2>3. CASE openingHours \in HoursTemplates
    <3>1. segments \in Seq(TimeSegment) /\ Len(segments) <= 1
      BY <2>1, <2>3, WorkerScheduleAssumption
    <3> QED BY <3>1
  <2> QED BY <2>2, <2>3 DEF ShiftsIInv, WorkerScheduleTypeOK
<1>4. CASE ~absenceCoversDate(day) /\ ~isWeeklyShiftScheduleEmpty(shiftSchedule)
  <2>1. segments = shiftSchedule[weekday]
    BY <1>1, <1>4 DEF buildEffectiveSegmentsForDay
  <2>2. WeekOK(shiftSchedule, checked)
    BY <1>4 DEF isWeeklyShiftScheduleEmpty, ShiftsIInv
  <2>3. segments \in Seq(TimeSegment)
    BY <2>1, <2>2, WorkerScheduleAssumption DEF WeekOK
  <2>4. \A i, j \in DOMAIN segments :
          i < j => ~Overlap(segmentToLocalMinuteRange(segments[i]), segmentToLocalMinuteRange(segments[j]))
    BY <2>1, <2>2 DEF WeekOK, validateWeeklyShiftSchedule
  <2>5. ASSUME NEW i \in DOMAIN segments, NEW j \in DOMAIN segments, i # j,
               Overlap(expandSegmentToUtcRange(day, segments[i]), expandSegmentToUtcRange(day, segments[j]))
        PROVE  FALSE
    <3>1. segments[i] \in TimeSegment /\ segments[j] \in TimeSegment /\ i \in Int /\ j \in Int
      BY <2>3
    <3>2. Overlap(segmentToLocalMinuteRange(segments[i]), segmentToLocalMinuteRange(segments[j]))
      BY <2>5, <3>1, ApartOnAnyDay
    <3>3. Overlap(segmentToLocalMinuteRange(segments[j]), segmentToLocalMinuteRange(segments[i]))
      BY <3>2 DEF Overlap
    <3> QED BY <2>4, <2>5, <3>1, <3>2, <3>3
  <2> QED BY <2>3, <2>5
<1> QED BY <1>2, <1>3, <1>4

LEMMA SegmentsApart ==
  ASSUME ShiftsIInv, NEW day \in Int
  PROVE  /\ Cardinality(EffectiveSegments(day)) = Len(buildEffectiveSegmentsForDay(day))
         /\ \A s, other \in EffectiveSegments(day) : s # other => ~Overlap(s, other)
<1>1. PICK segments : segments = buildEffectiveSegmentsForDay(day)
  OBVIOUS
<1> DEFINE f == [i \in DOMAIN segments |-> expandSegmentToUtcRange(day, segments[i])]
<1>2. segments \in Seq(TimeSegment)
  BY <1>1, SegmentsOfADay
<1>3. \A i, j \in DOMAIN segments : i # j => ~Overlap(f[i], f[j])
  BY <1>1, SegmentsOfADay
<1>4. EffectiveSegments(day) = {f[i] : i \in DOMAIN segments}
  BY <1>1 DEF EffectiveSegments
<1>5. \A i \in DOMAIN segments : Overlap(f[i], f[i])
  <2> SUFFICES ASSUME NEW i \in DOMAIN segments PROVE Overlap(f[i], f[i])
    OBVIOUS
  <2>1. PICK r : r = expandSegmentToUtcRange(day, segments[i])
    OBVIOUS
  <2>2. segments[i] \in TimeSegment
    BY <1>2
  <2>3. r.start < r.end
    BY <2>1, <2>2, RangeOf
  <2> QED BY <2>1, <2>3 DEF Overlap
<1> HIDE DEF f
<1>6. \A i, j \in DOMAIN segments : f[i] = f[j] => i = j
  BY <1>3, <1>5
<1>7. DOMAIN f = DOMAIN segments /\ DOMAIN segments = 1..Len(segments) /\ Len(segments) \in Nat
  BY <1>2 DEF f
<1>8. f \in Bijection(1..Len(segments), EffectiveSegments(day))
  <2>1. f \in [1..Len(segments) -> EffectiveSegments(day)]
    BY <1>4, <1>7 DEF f
  <2>2. \A s \in EffectiveSegments(day) : \E i \in 1..Len(segments) : f[i] = s
    BY <1>4, <1>7
  <2> QED BY <1>6, <1>7, <2>1, <2>2 DEF Bijection, Injection, IsInjective, Surjection
<1>9. Cardinality(1..Len(segments)) = Len(segments) /\ IsFiniteSet(1..Len(segments))
  <2>1. PICK n \in Nat : n = Len(segments)
    BY <1>7
  <2>2. IsFiniteSet(1..n) /\ Cardinality(1..n) = IF 1 > n THEN 0 ELSE n - 1 + 1
    BY FS_Interval
  <2>3. Cardinality(1..n) = n
    BY <2>2
  <2> QED BY <2>1, <2>2, <2>3
<1>10. Cardinality(EffectiveSegments(day)) = Cardinality(1..Len(segments))
  BY <1>8, <1>9, FS_Bijection DEF ExistsBijection
<1> QED BY <1>1, <1>3, <1>4, <1>9, <1>10

\* A clock-in or a clock-out is compared with three days, and no other day has an edge near it.
LEMMA FarFromTheWindow ==
  ASSUME ShiftsIInv, NEW day \in Int, NEW s \in EffectiveSegments(day)
  PROVE  /\ s.start \in Int /\ s.end \in Int
         /\ Near(now, s.start) => day \in (Day(now) - 1)..(Day(now) + 1)
         /\ Near(now, s.end) /\ Day(now) - 1 <= day => day \in (Day(now) - 1)..(Day(now) + 1)
<1>1. PICK segments : segments = buildEffectiveSegmentsForDay(day)
  OBVIOUS
<1>2. PICK i \in DOMAIN segments : s = expandSegmentToUtcRange(day, segments[i])
  BY <1>1 DEF EffectiveSegments
<1>3. segments[i] \in TimeSegment
  BY <1>1, SegmentsOfADay
<1>4. now \in Nat
  BY WorkerScheduleAssumption DEF ShiftsIInv, WorkerScheduleTypeOK
<1>5. /\ s.start \in Int /\ s.end \in Int
      /\ day * DayLength <= s.start /\ s.start < day * DayLength + 1 * DayLength
      /\ day * DayLength <= s.end /\ s.end < day * DayLength + 2 * DayLength
  <2>1. PICK midnight \in Int : midnight = day * DayLength
    BY WorkerScheduleAssumption
  <2>2. 1 * DayLength = DayLength
    BY WorkerScheduleAssumption
  <2>3. s.start \in Int /\ s.end \in Int /\ midnight <= s.start /\ s.start < midnight + DayLength
        /\ midnight < s.end /\ s.end < midnight + 2 * DayLength
    BY <1>2, <1>3, <2>1, RangeOf
  <2> QED BY <2>1, <2>2, <2>3
<1>6. Day(now) \in Int
  BY <1>4, DayHolds
<1>7. Near(now, s.start) => Day(now) - 1 <= day /\ day <= Day(now) + 1
  BY <1>4, <1>5, NearbyDays
<1>8. Near(now, s.end) => Day(now) - 2 <= day /\ day <= Day(now) + 1
  BY <1>4, <1>5, NearbyDays
<1> QED BY <1>5, <1>6, <1>7, <1>8

LEMMA WindowHolds ==
  ASSUME NEW today \in Int, NEW day \in (today - 1)..(today + 1), NEW s \in EffectiveSegments(day)
  PROVE  s \in buildEffectiveScheduleWindow(today - 1, 3)
<1>1. day \in (today - 1)..((today - 1) + 3 - 1)
  OBVIOUS
<1>2. s \in {expandSegmentToUtcRange(day, buildEffectiveSegmentsForDay(day)[i]) :
               i \in DOMAIN buildEffectiveSegmentsForDay(day)}
  BY DEF EffectiveSegments
<1> QED BY <1>1, <1>2 DEF buildEffectiveScheduleWindow

LEMMA ConfirmationsAreFar ==
  ASSUME ShiftsIInv
  PROVE  /\ NeedsConfirm(TRUE, now) =>
              \A day \in 0..(Day(now) + 2) : \A s \in EffectiveSegments(day) : ~Near(now, s.start)
         /\ NeedsConfirm(FALSE, now) =>
              \A day \in (Day(now) - 1)..(Day(now) + 2) : \A s \in EffectiveSegments(day) : ~Near(now, s.end)
<1>1. PICK today \in Int : today = Day(now)
  <2>1. now \in Nat
    BY WorkerScheduleAssumption DEF ShiftsIInv, WorkerScheduleTypeOK
  <2> QED BY <2>1, DayHolds
<1>2. PICK window : window = buildEffectiveScheduleWindow(today - 1, 3)
  OBVIOUS
<1>3. /\ NeedsConfirm(TRUE, now) => \A s \in window : ~Near(now, s.start)
      /\ NeedsConfirm(FALSE, now) => \A s \in window : ~Near(now, s.end)
  BY <1>1, <1>2 DEF NeedsConfirm, needsConfirmShiftOn, needsConfirmShiftOff, Day
<1>4. ASSUME NeedsConfirm(TRUE, now), NEW day \in 0..(today + 2), NEW s \in EffectiveSegments(day), Near(now, s.start)
      PROVE  FALSE
  <2>1. day \in (today - 1)..(today + 1)
    BY <1>1, <1>4, FarFromTheWindow
  <2>2. s \in window
    BY <1>2, <2>1, WindowHolds
  <2> QED BY <1>3, <1>4, <2>2
<1>5. ASSUME NeedsConfirm(FALSE, now), NEW day \in (today - 1)..(today + 2), NEW s \in EffectiveSegments(day), Near(now, s.end)
      PROVE  FALSE
  <2>1. day \in (today - 1)..(today + 1)
    BY <1>1, <1>5, FarFromTheWindow
  <2>2. s \in window
    BY <1>2, <2>1, WindowHolds
  <2> QED BY <1>3, <1>5, <2>2
<1> QED BY <1>1, <1>4, <1>5

\* Within a segment of the cafe's day, by its clock, the cafe answers that it is open until midnight.
LEMMA OpenWithin ==
  ASSUME NEW minute \in 0..(DayLength - 1), NEW segment \in TimeSegment, segment.open # segment.close,
         segment.open <= minute, minute < segmentToLocalMinuteRange(segment).end
  PROVE  IF segment.open < segment.close THEN segment.open <= minute /\ minute < segment.close
         ELSE minute >= segment.open \/ minute < segment.close
<1>1. segment.open \in Int /\ segment.close \in Int
  BY WorkerScheduleAssumption DEF TimeSegment
<1>2. segmentToLocalMinuteRange(segment).end =
        IF segment.close > segment.open THEN segment.close ELSE segment.close + DayLength
  BY DEF segmentToLocalMinuteRange
<1> QED BY <1>1, <1>2

LEMMA CleanMeansOpen ==
  ASSUME ShiftsIInv, NEW shown, shown = ServerClock(now),
         NEW s \in EffectiveSegments(Day(shown)), s.start <= shown, shown < s.end,
         checked.clean, checked.hours = openingHours
  PROVE  isCafeOpenNow(openingHours, now)
<1>1. shown \in Int /\ DayLength \in Nat
  BY WorkerScheduleAssumption DEF ShiftsIInv, WorkerScheduleTypeOK, ServerClock
<1>2. PICK today \in Int : today = Day(shown)
  BY <1>1, DayHolds
<1>3. PICK minute \in 0..(DayLength - 1) : minute = shown % DayLength /\ shown = today * DayLength + minute
  BY <1>1, <1>2, DayHolds
<1>4. PICK weekday \in Weekdays : weekday = today % Week
  BY WeekdayOf
<1>5. PICK hours : hours = openingHours[weekday].segments
  OBVIOUS
<1>6. PICK segments : segments = buildEffectiveSegmentsForDay(today)
  OBVIOUS
<1>7. PICK i \in DOMAIN segments : s = expandSegmentToUtcRange(today, segments[i])
  BY <1>2, <1>6 DEF EffectiveSegments
<1>8. PICK seg \in TimeSegment : seg = segments[i]
  BY <1>6, <1>7, SegmentsOfADay
<1>9. seg.open <= minute /\ minute < segmentToLocalMinuteRange(seg).end
  <2>1. PICK midnight \in Int : midnight = today * DayLength
    BY <1>1
  <2>2. seg.open \in Int /\ segmentToLocalMinuteRange(seg).end \in Int
    BY WorkerScheduleAssumption DEF TimeSegment, segmentToLocalMinuteRange
  <2>3. s.start = midnight + seg.open /\ s.end = midnight + segmentToLocalMinuteRange(seg).end
    BY <1>7, <1>8, <2>1, RangeOf
  <2> QED BY <1>1, <1>3, <2>1, <2>2, <2>3
<1>10. hours \in Seq(TimeSegment) /\ \A j \in DOMAIN hours : hours[j].open # hours[j].close
  <2>1. CASE openingHours = UnsetHours
    <3>1. hours = << >>
      BY <1>5, <2>1 DEF UnsetHours
    <3> QED BY <3>1
  <2>2. CASE openingHours \in HoursTemplates
    BY <1>5, <2>2, WorkerScheduleAssumption DEF ShiftsIInv, validateCafeSchedule
  <2> QED BY <2>1, <2>2 DEF ShiftsIInv, WorkerScheduleTypeOK
\* The cafe has a segment that holds this minute.
<1>11. \E j \in DOMAIN hours : hours[j].open <= minute /\ minute < segmentToLocalMinuteRange(hours[j]).end
  <2>1. CASE absenceCoversDate(today)
    <3>1. segments = << >>
      BY <1>6, <2>1 DEF buildEffectiveSegmentsForDay
    <3> QED BY <1>7, <3>1
  <2>2. CASE ~absenceCoversDate(today) /\ isWeeklyShiftScheduleEmpty(shiftSchedule)
    <3>1. segments = hours
      BY <1>4, <1>5, <1>6, <2>2 DEF buildEffectiveSegmentsForDay
    <3> QED BY <1>7, <1>8, <1>9, <3>1
  <2>3. CASE ~absenceCoversDate(today) /\ ~isWeeklyShiftScheduleEmpty(shiftSchedule)
    <3>1. segments = shiftSchedule[weekday]
      BY <1>4, <1>6, <2>3 DEF buildEffectiveSegmentsForDay
    <3>2. workerDayViolatesCafeBounds(shiftSchedule, openingHours, weekday) = {}
      BY <2>3 DEF isWeeklyShiftScheduleEmpty, ShiftsIInv, WeekOK, WeekKept
    <3>3. segmentWithinCafeDay(seg, hours)
      BY <1>5, <1>7, <1>8, <3>1, <3>2 DEF workerDayViolatesCafeBounds
    <3>4. PICK j \in DOMAIN hours :
            /\ expandSegmentToUtcRange(0, seg).start >= expandSegmentToUtcRange(0, hours[j]).start
            /\ expandSegmentToUtcRange(0, seg).end <= expandSegmentToUtcRange(0, hours[j]).end
      BY <3>3 DEF segmentWithinCafeDay
    <3>5. PICK outer \in TimeSegment : outer = hours[j]
      BY <1>10
    <3>6. /\ seg.open \in Int /\ outer.open \in Int
          /\ segmentToLocalMinuteRange(seg).end \in Int /\ segmentToLocalMinuteRange(outer).end \in Int
      BY WorkerScheduleAssumption DEF TimeSegment, segmentToLocalMinuteRange
    <3>7. PICK mine : mine = expandSegmentToUtcRange(0, seg)
      OBVIOUS
    <3>8. PICK cafes : cafes = expandSegmentToUtcRange(0, outer)
      OBVIOUS
    <3>9. 0 * DayLength = 0
      BY <1>1
    <3>10. mine.start = seg.open /\ mine.end = segmentToLocalMinuteRange(seg).end
      BY <3>6, <3>7, <3>9, RangeOf
    <3>11. cafes.start = outer.open /\ cafes.end = segmentToLocalMinuteRange(outer).end
      BY <3>6, <3>8, <3>9, RangeOf
    <3>12. outer.open <= minute /\ minute < segmentToLocalMinuteRange(outer).end
      BY <1>1, <1>9, <3>4, <3>5, <3>6, <3>7, <3>8, <3>10, <3>11
    <3> QED BY <3>5, <3>12
  <2> QED BY <2>1, <2>2, <2>3
<1>12. PICK j \in DOMAIN hours : hours[j].open <= minute /\ minute < segmentToLocalMinuteRange(hours[j]).end
  BY <1>11
<1>13. PICK segment \in TimeSegment : segment = hours[j]
  BY <1>10
<1>14. segment.open # segment.close
  BY <1>10, <1>13
<1>15. IF segment.open < segment.close THEN segment.open <= minute /\ minute < segment.close
       ELSE minute >= segment.open \/ minute < segment.close
  BY <1>12, <1>13, <1>14, OpenWithin
<1>16. openingHours[(ServerClock(now) \div DayLength) % Week].segments = hours /\ ServerClock(now) % DayLength = minute
  BY <1>2, <1>3, <1>4, <1>5 DEF Day
<1> QED BY <1>13, <1>14, <1>15, <1>16 DEF isCafeOpenNow

LEMMA ScheduleFollowed == ShiftsIInv => ShiftsFollowTheSchedule
<1> SUFFICES ASSUME ShiftsIInv PROVE ShiftsFollowTheSchedule
  OBVIOUS
<1>1. Day(now) \in Int
  BY WorkerScheduleAssumption, DayHolds DEF ShiftsIInv, WorkerScheduleTypeOK
<1>2. /\ Cardinality(EffectiveSegments(Day(now))) = Len(buildEffectiveSegmentsForDay(Day(now)))
      /\ \A s, other \in EffectiveSegments(Day(now)) : s # other => ~Overlap(s, other)
  BY <1>1, SegmentsApart
<1> QED BY <1>2, CleanMeansOpen, ConfirmationsAreFar DEF ShiftsFollowTheSchedule

\* No instant is in two segments of a day; a template saved without a warning keeps the
\* worker to the hours in which the cafe answers, by the server's clock, that it is open,
\* until it changes them;
\* and a clock-in or clock-out is asked to be confirmed only far from every shift's edge
\* (buildEffectiveSegmentsForDay, workerDayViolatesCafeBounds, needsConfirmShiftOn).
THEOREM ShiftsAreAsScheduled == WorkerScheduleSpec => []ShiftsFollowTheSchedule
<1>1. WorkerScheduleInit /\ RequestsInit => ShiftsIInv
  BY ShiftsInitially
<1>2. ShiftsIInv /\ [WorkerScheduleNext]_<<wvars, rvars>> => ShiftsIInv'
  BY ShiftsInductive
<1>3. ShiftsIInv => ShiftsFollowTheSchedule
  BY ScheduleFollowed
<1> QED BY <1>1, <1>2, <1>3, PTL DEF WorkerScheduleSpec

\* The saved template, hours, absences and shift status are of their types
\* (updateShiftSchedule, toggleShiftStatus).
THEOREM ShiftsAreTyped == WorkerScheduleSpec => []WorkerScheduleTypeOK
<1>1. WorkerScheduleInit /\ RequestsInit => ShiftsIInv
  BY ShiftsInitially
<1>2. ShiftsIInv /\ [WorkerScheduleNext]_<<wvars, rvars>> => ShiftsIInv'
  BY ShiftsInductive
<1>3. ShiftsIInv => WorkerScheduleTypeOK
  BY DEF ShiftsIInv
<1> QED BY <1>1, <1>2, <1>3, PTL DEF WorkerScheduleSpec

-----------------------------------------------------------------------------
(* Folds of a list: what FoldLeft computes is a function on the sets of       *)
(* indices, here for a step that is given as a function of a value so far     *)
(* and an index.                                                             *)

Folds(base, st, S, it) ==
  it = [s \in SUBSET S |-> IF s = {} THEN base ELSE st[<<it[s \ {Max(s)}], Max(s)>>]]

LEMMA FoldsAt ==
  ASSUME NEW base, NEW st, NEW S, NEW it, Folds(base, st, S, it)
  PROVE  /\ it[{}] = base
         /\ \A s \in SUBSET S : s # {} => it[s] = st[<<it[s \ {Max(s)}], Max(s)>>]
<1> DEFINE val(s) == IF s = {} THEN base ELSE st[<<it[s \ {Max(s)}], Max(s)>>]
<1>1. it = [s \in SUBSET S |-> val(s)]
  BY DEF Folds
<1>2. \A s \in SUBSET S : it[s] = val(s)
  <2> HIDE DEF val
  <2> QED BY <1>1
<1> QED BY <1>2

LEMMA FoldsAll ==
  ASSUME NEW base, NEW st, NEW S, S # {}, NEW it, Folds(base, st, S, it)
  PROVE  it[S] = st[<<it[S \ {Max(S)}], Max(S)>>]
<1> DEFINE val(s) == IF s = {} THEN base ELSE st[<<it[s \ {Max(s)}], Max(s)>>]
<1>1. it = [s \in SUBSET S |-> val(s)]
  BY DEF Folds
<1>2. it[S] = val(S)
  <2> HIDE DEF val
  <2> QED BY <1>1
<1> QED BY <1>2

\* Two of them agree where both are defined.
LEMMA FoldsAgree ==
  ASSUME NEW base, NEW st, NEW S, Indices(S), NEW a, Folds(base, st, S, a),
         NEW T, S \subseteq T, NEW b, Folds(base, st, T, b)
  PROVE  a[S] = b[S]
<1> DEFINE B == {s \in SUBSET S : a[s] # b[s]}
<1>1. SUFFICES ASSUME B # {} PROVE FALSE
  OBVIOUS
<1>2. PICK s \in B : \A u \in B : u \subseteq s => u = s
  <2>1. B \in SUBSET (SUBSET S)
    OBVIOUS
  <2>2. IsFiniteSet(S)
    BY DEF Indices
  <2> HIDE DEF B
  <2> QED BY <1>1, <2>1, <2>2, MinimalSubset
<1>3. s \in SUBSET S /\ s \in SUBSET T /\ Indices(s)
  BY IndicesWithin
<1>4. s # {}
  <2>1. a[{}] = base /\ b[{}] = base
    BY FoldsAt
  <2>2. a[s] # b[s]
    OBVIOUS
  <2> QED BY <2>1, <2>2
<1>5. s \ {Max(s)} \in SUBSET S /\ s \ {Max(s)} # s
  BY <1>3, <1>4, MaxOfIndices
<1>6. a[s \ {Max(s)}] = b[s \ {Max(s)}]
  BY <1>2, <1>5
<1>7. a[s] = st[<<a[s \ {Max(s)}], Max(s)>>]
  <2>1. \A u \in SUBSET S : u # {} => a[u] = st[<<a[u \ {Max(u)}], Max(u)>>]
    BY FoldsAt
  <2> QED BY <1>3, <1>4, <2>1
<1>8. b[s] = st[<<b[s \ {Max(s)}], Max(s)>>]
  <2>1. \A u \in SUBSET T : u # {} => b[u] = st[<<b[u \ {Max(u)}], Max(u)>>]
    BY FoldsAt
  <2> QED BY <1>3, <1>4, <2>1
<1> QED BY <1>6, <1>7, <1>8

\* There is one for every list.
LEMMA FoldsExists ==
  ASSUME NEW base, NEW st, NEW S, Indices(S)
  PROVE  \E it : Folds(base, st, S, it)
<1> DEFINE B == {T \in SUBSET S : \A it : ~Folds(base, st, T, it)}
<1>1. SUFFICES ASSUME B # {} PROVE FALSE
  OBVIOUS
<1>2. PICK T \in B : \A U \in B : U \subseteq T => U = T
  <2>1. B \in SUBSET (SUBSET S)
    OBVIOUS
  <2>2. IsFiniteSet(S)
    BY DEF Indices
  <2> HIDE DEF B
  <2> QED BY <1>1, <2>1, <2>2, MinimalSubset
<1>a. \A U \in SUBSET T : Indices(U)
  BY IndicesWithin
<1>b. \A U \in SUBSET T : U # {} => Max(U) \in U
  BY <1>a, MaxOfIndices
<1> DEFINE G(U) == CHOOSE it : Folds(base, st, U, it)
           V(U) == IF U = {} THEN base ELSE G(U)[U]
           fold == [s \in SUBSET T |->
                      IF s = {} THEN base ELSE st[<<V(s \ {Max(s)}), Max(s)>>]]
<1>3. \A U \in SUBSET T : U # T => Folds(base, st, U, G(U))
  <2> TAKE U \in SUBSET T
  <2> HAVE U # T
  <2>1. U \notin B
    BY <1>2
  <2>2. \E it : Folds(base, st, U, it)
    BY <2>1
  <2> QED BY <2>2
<1>5. ASSUME NEW s \in SUBSET T, s # {}
      PROVE  fold[s \ {Max(s)}] = V(s \ {Max(s)})
  <2> DEFINE U == s \ {Max(s)}
             W == U \ {Max(U)}
  <2>1. U \in SUBSET T /\ U # T /\ W \in SUBSET U
    BY <1>5, <1>b
  <2>2. CASE U = {}
    BY <2>1, <2>2
  <2>3. CASE U # {}
    <3>1. W # U /\ W # T /\ W \in SUBSET T
      BY <2>1, <2>3, <1>b
    <3>2. Folds(base, st, U, G(U)) /\ Folds(base, st, W, G(W))
      BY <1>3, <2>1, <3>1
    <3> HIDE DEF G
    <3>3. G(U)[U] = st[<<G(U)[W], Max(U)>>]
      <4>1. PICK it : it = G(U)
        OBVIOUS
      <4>2. PICK u : u = U
        OBVIOUS
      <4>3. it[u] = st[<<it[u \ {Max(u)}], Max(u)>>]
        <5>1. Folds(base, st, u, it) /\ u # {}
          BY <2>3, <3>2, <4>1, <4>2
        <5> HIDE DEF U, W
        <5> QED BY <5>1, FoldsAll
      <4> QED BY <4>1, <4>2, <4>3
    <3>4. G(W)[W] = G(U)[W]
      <4>1. Indices(W)
        BY <1>a, <3>1
      <4> HIDE DEF W, U
      <4> QED BY <2>1, <3>2, <4>1, FoldsAgree
    <3>5. V(W) = G(W)[W]
      <4>1. G({})[{}] = base \/ W # {}
        BY <3>2, FoldsAt
      <4> QED BY <4>1
    <3>6. fold[U] = st[<<V(W), Max(U)>>]
      <4> HIDE DEF V
      <4> QED BY <2>1, <2>3
    <3> QED BY <2>3, <3>3, <3>4, <3>5, <3>6
  <2> QED BY <2>2, <2>3
<1>6. Folds(base, st, T, fold)
  <2> HIDE DEF V, G
  <2> DEFINE here(s) == IF s = {} THEN base ELSE st[<<V(s \ {Max(s)}), Max(s)>>]
             own(s) == IF s = {} THEN base ELSE st[<<fold[s \ {Max(s)}], Max(s)>>]
  <2>1. \A s \in SUBSET T : here(s) = own(s)
    <3> HIDE DEF fold
    <3> QED BY <1>5
  <2>2. fold = [s \in SUBSET T |-> here(s)]
    OBVIOUS
  <2>3. fold = [s \in SUBSET T |-> own(s)]
    <3> HIDE DEF here, own, fold
    <3> QED BY <2>1, <2>2
  <2> QED BY <2>3 DEF Folds
<1> QED BY <1>6

\* While the step stays within a set of values, so does the fold.
LEMMA FoldReaches ==
  ASSUME NEW X, NEW base \in X, NEW S, Indices(S), NEW st \in [X \X S -> X]
  PROVE  \E it \in [SUBSET S -> X] : Folds(base, st, S, it)
<1>1. PICK it : Folds(base, st, S, it)
  BY FoldsExists
<1>2. it[{}] = base /\ \A s \in SUBSET S : s # {} => it[s] = st[<<it[s \ {Max(s)}], Max(s)>>]
  BY <1>1, FoldsAt
<1>3. \A s \in SUBSET S : s # {} => Max(s) \in s
  BY IndicesWithin, MaxOfIndices
<1> DEFINE B == {s \in SUBSET S : it[s] \notin X}
<1>4. B = {}
  <2>1. SUFFICES ASSUME B # {} PROVE FALSE
    OBVIOUS
  <2>2. PICK s \in B : \A u \in B : u \subseteq s => u = s
    <3>1. B \in SUBSET (SUBSET S)
      OBVIOUS
    <3>2. IsFiniteSet(S)
      BY DEF Indices
    <3> HIDE DEF B
    <3> QED BY <2>1, <3>1, <3>2, MinimalSubset
  <2>3. s \in SUBSET S /\ it[s] \notin X /\ s # {}
    BY <1>2
  <2>4. Max(s) \in s
    BY <1>3, <2>3
  <2>5. it[s \ {Max(s)}] \in X
    <3>1. s \ {Max(s)} \in SUBSET S /\ s \ {Max(s)} # s
      BY <2>3, <2>4
    <3> QED BY <2>2, <3>1
  <2>6. st[<<it[s \ {Max(s)}], Max(s)>>] \in X
    BY <2>3, <2>4, <2>5
  <2> QED BY <1>2, <2>3, <2>6
<1>5. it \in [SUBSET S -> X]
  <2>1. DOMAIN it = SUBSET S
    <3> DEFINE val(s) == IF s = {} THEN base ELSE st[<<it[s \ {Max(s)}], Max(s)>>]
    <3>1. it = [s \in SUBSET S |-> val(s)]
      BY <1>1 DEF Folds
    <3> HIDE DEF val
    <3> QED BY <3>1
  <2>2. it = [s \in SUBSET S |-> it[s]]
    <3> DEFINE val(s) == IF s = {} THEN base ELSE st[<<it[s \ {Max(s)}], Max(s)>>]
    <3>1. it = [s \in SUBSET S |-> val(s)]
      BY <1>1 DEF Folds
    <3> HIDE DEF val
    <3> QED BY <3>1
  <2> QED BY <1>4, <2>2
<1> QED BY <1>1, <1>5

\* The first indices of a list, one after the other.
LEMMA FirstIndices ==
  ASSUME NEW i \in Nat, i > 0
  PROVE  Max(1..i) = i /\ (1..i) \ {Max(1..i)} = 1..(i - 1) /\ 1..i # {}
<1>1. \A x \in 1..i : (\A y \in 1..i : x >= y) <=> x = i
  OBVIOUS
<1>2. i \in 1..i
  OBVIOUS
<1>3. Max(1..i) = i
  <2>1. \E x \in 1..i : \A y \in 1..i : x >= y
    BY <1>1, <1>2
  <2>2. Max(1..i) \in 1..i /\ \A y \in 1..i : Max(1..i) >= y
    BY <2>1 DEF Max
  <2> QED BY <1>1, <2>2
<1> QED BY <1>2, <1>3

LEMMA ListIndices == ASSUME NEW n \in Nat PROVE Indices(1..n)
BY FS_Interval DEF Indices

LEMMA UpTo ==
  ASSUME NEW n \in Nat, NEW P \in SUBSET (0..n), 0 \in P, \A i \in 1..n : i - 1 \in P => i \in P
  PROVE  n \in P
<1> DEFINE B == {0..i : i \in (0..n) \ P}
<1>1. SUFFICES ASSUME n \notin P PROVE FALSE
  OBVIOUS
<1>2. B # {} /\ B \in SUBSET (SUBSET (0..n))
  BY <1>1
<1>3. PICK T \in B : \A U \in B : U \subseteq T => U = T
  <2>1. PICK S : S = 0..n
    OBVIOUS
  <2>2. IsFiniteSet(S)
    BY <2>1, FS_Interval
  <2>3. PICK D : D = B
    OBVIOUS
  <2>4. D \in SUBSET (SUBSET S) /\ D # {}
    BY <1>2, <2>1, <2>3
  <2>5. \E T \in D : \A U \in D : U \subseteq T => U = T
    BY <2>2, <2>4, MinimalSubset
  <2> QED BY <2>3, <2>5
<1>4. PICK i \in (0..n) \ P : T = 0..i
  OBVIOUS
<1>5. i > 0 /\ i \in 1..n
  BY <1>4
<1>6. i - 1 \in (0..n) \ P
  BY <1>4, <1>5
<1>7. 0..(i - 1) \in B /\ 0..(i - 1) \subseteq T
  BY <1>4, <1>5, <1>6
<1>8. 0..(i - 1) = 0..i
  BY <1>3, <1>4, <1>7
<1>9. i \in 0..i /\ i \notin 0..(i - 1)
  BY <1>5
<1> QED BY <1>8, <1>9

-----------------------------------------------------------------------------
(* The preview of a plan.                                                     *)

Box == [minX : Int, minY : Int, width : Int, height : Int]

\* What may be pushed, and the boxes that come of it: a box that is lost has no side to leave it by.
Dot == Point \cup {NotANumber}
HeldBox == Box \cup {NotANumber}

Inside(b, pt) ==
  \/ b = NotANumber
  \/ /\ b \in Box /\ pt \in Point
     /\ b.minX <= pt.x /\ pt.x <= b.minX + b.width
     /\ b.minY <= pt.y /\ pt.y <= b.minY + b.height

\* c holds what b holds.
Grown(b, c) == (b \in HeldBox => c \in HeldBox) /\ \A pt \in Dot : Inside(b, pt) => Inside(c, pt)

Boxes == HeldBox \cup {NoBounds}

LEMMA NaNIsNone == NotANumber \notin Box /\ NotANumber \notin Point /\ NotANumber # NoBounds
<1>1. \A b \in Box : "minX" \in DOMAIN b
  BY DEF Box
<1>2. \A pt \in Point : "x" \in DOMAIN pt
  BY DEF Point
<1>3. "minX" \notin DOMAIN NotANumber /\ "x" \notin DOMAIN NotANumber /\ "width" \notin DOMAIN NotANumber
  BY DEF NotANumber
<1>4. "width" \in DOMAIN NoBounds
  BY DEF NoBounds
<1> QED BY <1>1, <1>2, <1>3, <1>4

LEMMA NoBoundsIsNoBox == NoBounds \notin Box
<1>1. \A b \in Box : "minX" \in DOMAIN b
  BY DEF Box
<1>2. "minX" \notin DOMAIN NoBounds
  BY DEF NoBounds
<1> QED BY <1>1, <1>2

LEMMA Pushed ==
  ASSUME NEW b \in Boxes, NEW pt \in Dot, NEW pad \in Nat
  PROVE  /\ pushBounds(b, pt, pad) \in HeldBox /\ Grown(b, pushBounds(b, pt, pad)) /\ Inside(pushBounds(b, pt, pad), pt)
         /\ pushBounds(b, pt, pad) = NotANumber <=> NotANumber \in {b, pt}
<1>1. CASE NotANumber \in {b, pt}
  BY <1>1 DEF pushBounds, Grown, Inside, HeldBox
<1>2. CASE b = NoBounds /\ pt \in Point
  <2>1. ~(b \in HeldBox) /\ NotANumber \notin {b, pt}
    BY <1>2, NoBoundsIsNoBox, NaNIsNone DEF HeldBox
  <2>2. pt.x \in Int /\ pt.y \in Int
    BY <1>2 DEF Point
  <2>3. PICK c : c = pushBounds(b, pt, pad)
    OBVIOUS
  <2>4. c = [minX |-> pt.x - pad, minY |-> pt.y - pad, width |-> 2 * pad, height |-> 2 * pad]
    BY <1>2, <2>1, <2>3 DEF pushBounds
  <2>5. c \in Box
    BY <2>2, <2>4 DEF Box
  <2>6. Inside(c, pt)
    BY <1>2, <2>2, <2>4, <2>5 DEF Inside
  <2>7. \A q : ~Inside(b, q)
    BY <2>1 DEF Inside, HeldBox
  <2> QED BY <2>1, <2>3, <2>5, <2>6, <2>7, NaNIsNone DEF Grown, HeldBox
<1>3. CASE b \in Box /\ pt \in Point
  <2>1. b # NoBounds /\ NotANumber \notin {b, pt}
    BY <1>3, NoBoundsIsNoBox, NaNIsNone
  <2>2. b.minX \in Int /\ b.minY \in Int /\ b.width \in Int /\ b.height \in Int /\ pt.x \in Int /\ pt.y \in Int
    BY <1>3 DEF Box, Point
  <2>3. PICK c : c = pushBounds(b, pt, pad)
    OBVIOUS
  <2>4. c \in Box
    BY <2>1, <2>2, <2>3 DEF pushBounds, Box, Lesser, Greater
  <2>5. /\ c.minX <= b.minX /\ c.minX <= pt.x /\ c.minX + c.width >= b.minX + b.width /\ c.minX + c.width >= pt.x
        /\ c.minY <= b.minY /\ c.minY <= pt.y /\ c.minY + c.height >= b.minY + b.height /\ c.minY + c.height >= pt.y
    BY <2>1, <2>2, <2>3 DEF pushBounds, Lesser, Greater
  <2>6. c.minX \in Int /\ c.minY \in Int /\ c.width \in Int /\ c.height \in Int
    BY <2>4 DEF Box
  <2>7. Inside(c, pt)
    BY <1>3, <2>4, <2>5 DEF Inside
  <2>8. ASSUME NEW q \in Dot, Inside(b, q) PROVE Inside(c, q)
    <3>1. /\ q \in Point /\ b.minX <= q.x /\ q.x <= b.minX + b.width
          /\ b.minY <= q.y /\ q.y <= b.minY + b.height
      BY <2>1, <2>8 DEF Inside
    <3>2. q.x \in Int /\ q.y \in Int
      BY <3>1 DEF Point
    <3> QED BY <2>2, <2>4, <2>5, <2>6, <3>1, <3>2 DEF Inside
  <2> QED BY <2>1, <2>3, <2>4, <2>7, <2>8, NaNIsNone DEF Grown, HeldBox
<1> QED BY <1>1, <1>2, <1>3 DEF Boxes, HeldBox, Dot

LEMMA GrownFurther ==
  ASSUME NEW a, NEW b, NEW c, Grown(a, b), Grown(b, c) PROVE Grown(a, c)
BY DEF Grown

LEMMA Finalized ==
  ASSUME NEW b \in Boxes
  PROVE  LET c == finalizeBounds(b, FieldW, FieldH)
         IN /\ c \in HeldBox /\ Grown(b, c) /\ Inside(c, [x |-> 0, y |-> 0]) /\ Inside(c, [x |-> FieldW, y |-> FieldH])
            /\ c = NotANumber <=> b = NotANumber
<1>1. FieldW \in Nat /\ FieldH \in Nat
  BY PlanAssumption DEF FieldW, FieldH, m2px, PLAN_PX_PER_M
<1>2. PICK w \in Nat, h \in Nat : w = FieldW /\ h = FieldH
  BY <1>1
<1>3. PICK c : c = finalizeBounds(b, w, h)
  OBVIOUS
<1>a. [x |-> 0, y |-> 0] \in Point /\ [x |-> w, y |-> h] \in Point
  BY DEF Point
<1>4. CASE b = NoBounds
  <2>1. ~(b \in HeldBox) /\ b # NotANumber
    BY <1>4, NoBoundsIsNoBox, NaNIsNone DEF HeldBox
  <2>2. c = [minX |-> 0, minY |-> 0, width |-> w, height |-> h]
    BY <1>3, <1>4, <2>1 DEF finalizeBounds
  <2>3. c \in Box /\ Inside(c, [x |-> 0, y |-> 0]) /\ Inside(c, [x |-> w, y |-> h])
    BY <1>a, <2>2 DEF Box, Inside
  <2>4. Grown(b, c)
    BY <2>1 DEF Grown, Inside, HeldBox
  <2> QED BY <1>2, <1>3, <2>1, <2>3, <2>4, NaNIsNone DEF HeldBox
<1>5. CASE b \in Box
  <2>1. b # NoBounds /\ b # NotANumber
    BY <1>5, NoBoundsIsNoBox, NaNIsNone
  <2>2. b.minX \in Int /\ b.minY \in Int /\ b.width \in Int /\ b.height \in Int
    BY <1>5 DEF Box
  <2>4. c \in Box
    BY <1>3, <2>1, <2>2 DEF finalizeBounds, Box, Lesser, Greater
  <2>5. /\ c.minX <= b.minX /\ c.minX <= 0 /\ c.minX + c.width >= b.minX + b.width /\ c.minX + c.width >= w
        /\ c.minY <= b.minY /\ c.minY <= 0 /\ c.minY + c.height >= b.minY + b.height /\ c.minY + c.height >= h
    BY <1>3, <2>1, <2>2 DEF finalizeBounds, Lesser, Greater
  <2>6. c.minX \in Int /\ c.minY \in Int /\ c.width \in Int /\ c.height \in Int
    BY <2>4 DEF Box
  <2>7. Inside(c, [x |-> 0, y |-> 0]) /\ Inside(c, [x |-> w, y |-> h])
    BY <1>a, <2>4, <2>5, <2>6 DEF Inside
  <2>8. ASSUME NEW q \in Dot, Inside(b, q) PROVE Inside(c, q)
    <3>1. /\ q \in Point /\ b.minX <= q.x /\ q.x <= b.minX + b.width
          /\ b.minY <= q.y /\ q.y <= b.minY + b.height
      BY <2>1, <2>8 DEF Inside
    <3>2. q.x \in Int /\ q.y \in Int
      BY <3>1 DEF Point
    <3> QED BY <2>2, <2>4, <2>5, <2>6, <3>1, <3>2 DEF Inside
  <2> QED BY <1>2, <1>3, <2>1, <2>4, <2>7, <2>8, NaNIsNone DEF Grown, HeldBox
<1>6. CASE b = NotANumber
  <2>1. c = NotANumber
    BY <1>3, <1>6 DEF finalizeBounds
  <2> QED BY <1>2, <1>3, <1>6, <2>1 DEF Grown, Inside, HeldBox
<1> QED BY <1>4, <1>5, <1>6 DEF Boxes, HeldBox

LEMMA PointPushed ==
  ASSUME NEW b \in Boxes, NEW pt \in Dot
  PROVE  /\ PushPoint(b, pt) \in HeldBox /\ Grown(b, PushPoint(b, pt)) /\ Inside(PushPoint(b, pt), pt)
         /\ PushPoint(b, pt) = NotANumber => NotANumber \in {b, pt}
BY Pushed DEF PushPoint

\* The points of an element are pushed one after the other.
PushesOver(b, points, S, it) ==
  it = [s \in SUBSET S |-> IF s = {} THEN b ELSE PushPoint(it[s \ {Max(s)}], points[Max(s)])]

LEMMA PushPointsIsFold ==
  ASSUME NEW b, NEW points
  PROVE  PushPoints(b, points) = (CHOOSE it : PushesOver(b, points, DOMAIN points, it))[DOMAIN points]
BY DEF PushPoints, FoldLeft, MapThenFoldSet, PushesOver

LEMMA PushesOverAt ==
  ASSUME NEW b, NEW points, NEW S, NEW it, PushesOver(b, points, S, it)
  PROVE  /\ it[{}] = b
         /\ \A s \in SUBSET S : s # {} => it[s] = PushPoint(it[s \ {Max(s)}], points[Max(s)])
<1> DEFINE val(s) == IF s = {} THEN b ELSE PushPoint(it[s \ {Max(s)}], points[Max(s)])
<1>1. it = [s \in SUBSET S |-> val(s)]
  BY DEF PushesOver
<1>2. \A s \in SUBSET S : it[s] = val(s)
  <2> HIDE DEF val
  <2> QED BY <1>1
<1> QED BY <1>2

LEMMA PushesOverExists ==
  ASSUME NEW b \in Boxes, NEW points, NEW S, Indices(S), \A i \in S : points[i] \in Dot
  PROVE  \E it : PushesOver(b, points, S, it)
<1> DEFINE st == [w \in Boxes \X S |-> PushPoint(w[1], points[w[2]])]
<1>1. st \in [Boxes \X S -> Boxes]
  <2>1. ASSUME NEW w \in Boxes \X S PROVE PushPoint(w[1], points[w[2]]) \in Boxes
    <3>1. w[1] \in Boxes /\ points[w[2]] \in Dot
      OBVIOUS
    <3>2. PushPoint(w[1], points[w[2]]) \in HeldBox
      BY <3>1, PointPushed
    <3> QED BY <3>2 DEF Boxes
  <2> QED BY <2>1
<1>2. \A w \in Boxes \X S : st[w] = PushPoint(w[1], points[w[2]])
  OBVIOUS
<1> HIDE DEF st
<1>3. PICK it \in [SUBSET S -> Boxes] : Folds(b, st, S, it)
  BY <1>1, FoldReaches
<1> DEFINE here(s) == IF s = {} THEN b ELSE st[<<it[s \ {Max(s)}], Max(s)>>]
           own(s) == IF s = {} THEN b ELSE PushPoint(it[s \ {Max(s)}], points[Max(s)])
<1>4. it = [s \in SUBSET S |-> here(s)]
  BY <1>3 DEF Folds
<1>5. ASSUME NEW s \in SUBSET S PROVE here(s) = own(s)
  <2>1. CASE s = {}
    BY <2>1
  <2>2. CASE s # {}
    <3>1. Max(s) \in s
      BY <2>2, IndicesWithin, MaxOfIndices
    <3>2. <<it[s \ {Max(s)}], Max(s)>> \in Boxes \X S
      BY <3>1
    <3>3. PICK w : w = <<it[s \ {Max(s)}], Max(s)>>
      OBVIOUS
    <3>4. st[w] = PushPoint(w[1], points[w[2]]) /\ w[1] = it[s \ {Max(s)}] /\ w[2] = Max(s)
      BY <1>2, <3>2, <3>3
    <3> QED BY <2>2, <3>3, <3>4
  <2> QED BY <2>1, <2>2
<1>6. it = [s \in SUBSET S |-> own(s)]
  <2> HIDE DEF here, own
  <2> QED BY <1>4, <1>5
<1> QED BY <1>6 DEF PushesOver

LEMMA PointsPushed ==
  ASSUME NEW b \in Boxes, NEW points \in Seq(Dot)
  PROVE  /\ PushPoints(b, points) \in Boxes /\ Grown(b, PushPoints(b, points))
         /\ \A i \in DOMAIN points : Inside(PushPoints(b, points), points[i])
         /\ PushPoints(b, points) = NotANumber => b = NotANumber \/ \E i \in DOMAIN points : points[i] = NotANumber
<1>1. PICK n \in Nat : n = Len(points) /\ DOMAIN points = 1..n
  OBVIOUS
<1>2. PICK S : S = 1..n
  OBVIOUS
<1>3. Indices(S) /\ \A i \in S : points[i] \in Dot
  BY <1>1, <1>2, ListIndices
<1>4. PICK it : it = CHOOSE one : PushesOver(b, points, S, one)
  OBVIOUS
<1>5. PushesOver(b, points, S, it)
  BY <1>3, <1>4, PushesOverExists
<1>6. it[{}] = b /\ \A i \in 1..n : it[1..i] = PushPoint(it[1..(i - 1)], points[i])
  <2>1. it[{}] = b /\ \A s \in SUBSET S : s # {} => it[s] = PushPoint(it[s \ {Max(s)}], points[Max(s)])
    BY <1>5, PushesOverAt
  <2>2. ASSUME NEW i \in 1..n PROVE it[1..i] = PushPoint(it[1..(i - 1)], points[i])
    <3>1. i \in Nat /\ i > 0 /\ 1..i \in SUBSET S
      BY <1>2
    <3>2. 1..i # {} /\ Max(1..i) = i /\ (1..i) \ {Max(1..i)} = 1..(i - 1)
      BY <3>1, FirstIndices
    <3> QED BY <2>1, <3>1, <3>2
  <2> QED BY <2>1, <2>2
<1>7. PushPoints(b, points) = it[1..n]
  BY <1>1, <1>2, <1>4, PushPointsIsFold
<1> DEFINE So(i) == /\ it[1..i] \in Boxes /\ Grown(b, it[1..i]) /\ \A j \in 1..i : Inside(it[1..i], points[j])
                    /\ it[1..i] = NotANumber => b = NotANumber \/ \E j \in 1..i : points[j] = NotANumber
           P == {i \in 0..n : So(i)}
<1>8. 0 \in P
  <2>1. 1..0 = {}
    OBVIOUS
  <2> QED BY <1>6, <2>1 DEF Grown
<1>9. ASSUME NEW i \in 1..n, i - 1 \in P PROVE i \in P
  <2>1. PICK c : c = it[1..(i - 1)]
    OBVIOUS
  <2>2. /\ c \in Boxes /\ Grown(b, c) /\ \A j \in 1..(i - 1) : Inside(c, points[j])
        /\ c = NotANumber => b = NotANumber \/ \E j \in 1..(i - 1) : points[j] = NotANumber
    BY <1>9, <2>1
  <2>4. it[1..i] = PushPoint(c, points[i])
    BY <1>6, <2>1
  <2>5. PICK pt \in Dot : pt = points[i]
    BY <1>2, <1>3
  <2>6. PICK d : d = PushPoint(c, pt)
    OBVIOUS
  <2>7. d \in HeldBox /\ Grown(c, d) /\ Inside(d, pt) /\ (d = NotANumber => NotANumber \in {c, pt})
    BY <2>2, <2>6, PointPushed
  <2>8. ASSUME NEW j \in 1..i PROVE Inside(d, points[j])
    <3>1. CASE j = i
      BY <2>5, <2>7, <3>1
    <3>2. CASE j # i
      <4>1. j \in 1..(i - 1) /\ points[j] \in Dot
        BY <1>2, <1>3, <3>2
      <4> QED BY <2>2, <2>7, <4>1 DEF Grown
    <3> QED BY <3>1, <3>2
  <2>9. Grown(b, d)
    BY <2>2, <2>7, GrownFurther
  <2>10. d \in Boxes
    BY <2>7 DEF Boxes
  <2>11. d = NotANumber => b = NotANumber \/ \E j \in 1..i : points[j] = NotANumber
    <3>1. CASE pt = NotANumber
      <4>1. i \in 1..i /\ points[i] = NotANumber
        BY <2>5, <3>1
      <4> QED BY <4>1
    <3>2. CASE c = NotANumber
      BY <2>2, <3>2
    <3> QED BY <2>7, <3>1, <3>2
  <2> QED BY <2>4, <2>5, <2>6, <2>8, <2>9, <2>10, <2>11
<1>10. n \in P
  <2> HIDE DEF So
  <2>1. P \in SUBSET (0..n)
    OBVIOUS
  <2> HIDE DEF P
  <2> QED BY <1>8, <1>9, <2>1, UpTo
<1> QED BY <1>1, <1>7, <1>10

LEMMA ElementKinds ==
  ASSUME NEW el \in PlanElement
  PROVE  /\ el.type \in {"WALL", "DOOR", "ROOM_ZONE", "TABLE"}
         /\ el.type = "WALL" => el.broken \in BOOLEAN /\ el.from \in Point /\ el.to \in Point
         /\ el.type = "DOOR" => el.broken \in BOOLEAN /\ el.from \in Int /\ el.to \in Int
         /\ el.type = "ROOM_ZONE" => el.points \in Seq(Point)
         /\ el.type = "TABLE" => el.broken \in BOOLEAN /\ el.at \in Point /\ el.widthM \in Int /\ el.heightM \in Int
BY DEF PlanElement

\* The root of a square, rounded down, is not beyond what is as long as both sides.
LEMMA RootIsThere ==
  ASSUME NEW dx \in Nat, NEW dy \in Nat, NEW square \in Int, square = dx * dx + dy * dy
  PROVE  \E n \in 0..(dx + dy) : n * n <= square /\ square < (n + 1) * (n + 1)
<1>1. PICK k \in Nat : k = dx + dy
  OBVIOUS
<1>2. dx * dx \in Nat /\ dy * dy \in Nat /\ dx * dy \in Nat
  OBVIOUS
<1>3. (k + 1) * (k + 1) = dx * dx + dy * dy + 2 * (dx * dy) + 2 * k + 1
  BY <1>1
<1>4. square >= 0 /\ square < (k + 1) * (k + 1)
  <2>1. PICK a \in Nat, b \in Nat, c \in Nat : a = dx * dx /\ b = dy * dy /\ c = dx * dy
    BY <1>2
  <2>2. (k + 1) * (k + 1) = a + b + 2 * c + 2 * k + 1 /\ square = a + b
    BY <1>3, <2>1
  <2> QED BY <2>2
<1>5. PICK all : all = 0..k
  OBVIOUS
<1>6. PICK S : S = {n \in all : n * n <= square}
  OBVIOUS
<1>7. IsFiniteSet(all)
  BY <1>5, FS_Interval
<1>8. Indices(S)
  BY <1>5, <1>6, <1>7, FS_Subset DEF Indices
<1>9. 0 \in S
  BY <1>4, <1>5, <1>6
<1>10. PICK n \in S : \A m \in S : n >= m
  BY <1>8, <1>9, LargestIndex
<1>11. n \in 0..k /\ n * n <= square
  BY <1>5, <1>6
<1>12. CASE n = k
  BY <1>1, <1>4, <1>11, <1>12
<1>13. CASE n # k
  <2>1. n + 1 \in 0..k /\ n + 1 \in Nat /\ ~(n >= n + 1)
    BY <1>11, <1>13
  <2>2. n + 1 \notin S
    BY <1>10, <2>1
  <2>3. ~((n + 1) * (n + 1) <= square)
    BY <1>5, <1>6, <2>1, <2>2
  <2>4. PICK r \in Int : r = (n + 1) * (n + 1)
    BY <2>1
  <2>5. square < r
    BY <2>3, <2>4
  <2> QED BY <1>1, <1>11, <2>4, <2>5
<1> QED BY <1>12, <1>13

LEMMA WallLength ==
  ASSUME NEW wall, wall.from \in Point, wall.to \in Point
  PROVE  wallLen(wall) \in Nat
<1>1. wall.from.x \in Int /\ wall.from.y \in Int /\ wall.to.x \in Int /\ wall.to.y \in Int
  BY DEF Point
<1>2. PICK dx \in Nat, dy \in Nat : dx = Apart(wall.from.x, wall.to.x) /\ dy = Apart(wall.from.y, wall.to.y)
  BY <1>1 DEF Apart, Greater, Lesser
<1>3. PICK square \in Int : square = dx * dx + dy * dy
  OBVIOUS
<1>4. \E n \in 0..(dx + dy) : n * n <= square /\ square < (n + 1) * (n + 1)
  BY <1>3, RootIsThere
<1>5. wallLen(wall) = CHOOSE n \in 0..(dx + dy) : n * n <= square /\ square < (n + 1) * (n + 1)
  BY <1>2, <1>3 DEF wallLen
<1>6. wallLen(wall) \in 0..(dx + dy)
  BY <1>4, <1>5
<1> QED BY <1>6

LEMMA WallPoint ==
  ASSUME NEW wall, wall.from \in Point, wall.to \in Point, NEW along \in Int, NEW broken \in BOOLEAN
  PROVE  /\ pointOnWall(wall, along, broken) \in Dot
         /\ ~broken => pointOnWall(wall, along, broken) \in Point
<1>1. wall.from.x \in Int /\ wall.from.y \in Int /\ wall.to.x \in Int /\ wall.to.y \in Int
  BY DEF Point
<1>2. PICK len \in Nat : len = wallLen(wall)
  BY WallLength
<1>3. PICK mx \in Int, my \in Int :
        mx = (wall.to.x - wall.from.x) * along /\ my = (wall.to.y - wall.from.y) * along
  BY <1>1
<1>4. CASE len = 0 \/ broken
  BY <1>2, <1>4 DEF pointOnWall, Dot
<1>5. CASE len # 0 /\ ~broken
  <2>1. mx \div len \in Int /\ my \div len \in Int
    BY <1>5
  <2>2. pointOnWall(wall, along, broken) = [x |-> wall.from.x + mx \div len, y |-> wall.from.y + my \div len]
    BY <1>2, <1>3, <1>5 DEF pointOnWall
  <2> QED BY <1>1, <2>1, <2>2 DEF Point, Dot
<1> QED BY <1>4, <1>5

LEMMA CornersAre ==
  ASSUME NEW el, el.at \in Point, el.widthM \in Int, el.heightM \in Int
  PROVE  Corners(el) \in Seq(Point) /\ Len(Corners(el)) = 2 /\ Corners(el)[1] \in Point /\ Corners(el)[2] \in Point
<1>1. m2px(el.widthM) \div 2 \in Int /\ m2px(el.heightM) \div 2 \in Int
  BY DEF m2px, PLAN_PX_PER_M
<1>2. PICK dx \in Int, dy \in Int : dx = m2px(el.widthM) \div 2 /\ dy = m2px(el.heightM) \div 2
  BY <1>1
<1>3. el.at.x \in Int /\ el.at.y \in Int
  BY DEF Point
<1>4. PICK p : p = [x |-> el.at.x - dx, y |-> el.at.y - dy]
  OBVIOUS
<1>5. PICK q : q = [x |-> el.at.x + dx, y |-> el.at.y + dy]
  OBVIOUS
<1>6. p \in Point /\ q \in Point
  BY <1>3, <1>4, <1>5 DEF Point
<1>7. Corners(el) = <<p, q>>
  BY <1>2, <1>4, <1>5 DEF Corners
<1> QED BY <1>6, <1>7

LEMMA SegmentIs ==
  ASSUME NEW elements \in Seq(PlanElement), NEW el, el.from \in Int, el.to \in Int, el.broken \in BOOLEAN
  PROVE  Segment(elements, el) \in Seq(Dot)
<1>1. PICK n \in Nat : n = Len(elements) /\ DOMAIN elements = 1..n
  OBVIOUS
<1>2. PICK walls : walls = {i \in Walls(elements) : elements[i].id = el.wall}
  OBVIOUS
<1>3. walls \subseteq 1..n
  BY <1>1, <1>2 DEF Walls
<1>4. CASE walls = {}
  BY <1>2, <1>4 DEF Segment
<1>5. CASE walls # {}
  <2>1. Indices(walls)
    BY <1>3, ListIndices, IndicesWithin
  <2>2. PICK i : i = Max(walls) /\ i \in walls
    BY <1>5, <2>1, MaxOfIndices
  <2>3. PICK wall \in PlanElement : wall = elements[i]
    BY <1>1, <1>3, <2>2
  <2>4. wall.type = "WALL"
    BY <1>2, <2>2, <2>3 DEF Walls
  <2>5. wall.from \in Point /\ wall.to \in Point
    BY <2>4, ElementKinds
  <2>6. PICK p \in Dot, q \in Dot : p = pointOnWall(wall, el.from, el.broken) /\ q = pointOnWall(wall, el.to, el.broken)
    BY <2>5, WallPoint
  <2>7. Segment(elements, el) = <<p, q>>
    BY <1>2, <1>5, <2>2, <2>3, <2>6 DEF Segment
  <2> QED BY <2>7
<1> QED BY <1>4, <1>5

LEMMA PointsAre ==
  ASSUME NEW elements \in Seq(PlanElement), NEW el \in PlanElement
  PROVE  /\ PointsOf(elements, el) \in Seq(Dot)
         /\ el.type # "DOOR" => PointsOf(elements, el) \in Seq(Point)
<1>a. \A points \in Seq(Point) : points \in Seq(Dot)
  BY DEF Dot
<1>1. CASE el.type = "WALL"
  <2>1. el.from \in Point /\ el.to \in Point
    BY <1>1, ElementKinds
  <2>2. PICK p \in Point, q \in Point : p = el.from /\ q = el.to
    BY <2>1
  <2>3. PointsOf(elements, el) = << >> \/ PointsOf(elements, el) = <<p, q>>
    BY <1>1, <2>2 DEF PointsOf
  <2>4. << >> \in Seq(Point) /\ <<p, q>> \in Seq(Point)
    OBVIOUS
  <2> QED BY <1>a, <2>3, <2>4
<1>2. CASE el.type = "ROOM_ZONE"
  <2>1. el.points \in Seq(Point)
    BY <1>2, ElementKinds
  <2> QED BY <1>a, <1>2, <2>1 DEF PointsOf
<1>3. CASE el.type = "DOOR"
  <2>1. Segment(elements, el) \in Seq(Dot)
    BY <1>3, ElementKinds, SegmentIs
  <2> QED BY <1>3, <2>1 DEF PointsOf
<1>4. CASE el.type = "TABLE"
  <2>1. Corners(el) \in Seq(Point)
    BY <1>4, ElementKinds, CornersAre
  <2> QED BY <1>a, <1>4, <2>1 DEF PointsOf
<1> QED BY <1>1, <1>2, <1>3, <1>4, ElementKinds

LEMMA FurnitureInside ==
  ASSUME NEW b \in Boxes, NEW el, el.at \in Point, el.widthM \in Int, el.heightM \in Int
  PROVE  LET c == expandBoundsForFurniture(b, el)
         IN /\ c \in Boxes /\ Grown(b, c) /\ \A j \in DOMAIN Corners(el) : Inside(c, Corners(el)[j])
            /\ c = NotANumber => b = NotANumber
<1>a. \A pt \in Point : pt \in Dot /\ pt # NotANumber
  BY NaNIsNone DEF Dot
<1>1. PICK p \in Point, q \in Point : p = Corners(el)[1] /\ q = Corners(el)[2]
  BY CornersAre
<1>2. DOMAIN Corners(el) = {1, 2}
  BY CornersAre
<1>3. PICK c : c = pushBounds(b, p, 0)
  OBVIOUS
<1>4. c \in Boxes /\ Grown(b, c) /\ Inside(c, p) /\ (c = NotANumber => b = NotANumber)
  BY <1>a, <1>3, Pushed DEF Boxes
<1>5. PICK d : d = pushBounds(c, q, 0)
  OBVIOUS
<1>6. d \in Boxes /\ Grown(c, d) /\ Inside(d, q) /\ (d = NotANumber => c = NotANumber)
  BY <1>a, <1>4, <1>5, Pushed DEF Boxes
<1>7. PICK e : e = pushBounds(d, el.at, 48)
  OBVIOUS
<1>8. e \in Boxes /\ Grown(d, e) /\ (e = NotANumber => d = NotANumber)
  <2>1. el.at \in Dot /\ el.at # NotANumber /\ 48 \in Nat
    BY <1>a
  <2>2. e \in HeldBox /\ Grown(d, e) /\ (e = NotANumber <=> NotANumber \in {d, el.at})
    BY <1>6, <1>7, <2>1, Pushed
  <2> QED BY <2>1, <2>2 DEF Boxes
<1>9. expandBoundsForFurniture(b, el) = e
  BY <1>1, <1>3, <1>5, <1>7 DEF expandBoundsForFurniture
<1>10. Grown(b, e)
  BY <1>4, <1>6, <1>8, GrownFurther
<1>11. Inside(e, p) /\ Inside(e, q)
  BY <1>a, <1>4, <1>6, <1>8 DEF Grown
<1>12. e = NotANumber => b = NotANumber
  BY <1>4, <1>6, <1>8
<1> QED BY <1>1, <1>2, <1>8, <1>9, <1>10, <1>11, <1>12

\* What is not a number in a box comes from an element that shows it.
Breaks(elements, el) == \E j \in DOMAIN PointsOf(elements, el) : PointsOf(elements, el)[j] = NotANumber

LEMMA ElementAdded ==
  ASSUME NEW elements \in Seq(PlanElement), NEW el \in PlanElement, NEW b \in Boxes
  PROVE  /\ AddElement(elements, b, el) \in Boxes /\ Grown(b, AddElement(elements, b, el))
         /\ \A j \in DOMAIN PointsOf(elements, el) : Inside(AddElement(elements, b, el), PointsOf(elements, el)[j])
         /\ AddElement(elements, b, el) = NotANumber => b = NotANumber \/ Breaks(elements, el)
<1>1. CASE el.type # "TABLE"
  <2>1. PICK points \in Seq(Dot) : points = PointsOf(elements, el)
    BY PointsAre
  <2>2. AddElement(elements, b, el) = PushPoints(b, points)
    BY <1>1, <2>1 DEF AddElement
  <2> QED BY <2>1, <2>2, PointsPushed DEF Breaks
<1>2. CASE el.type = "TABLE" /\ el.broken
  <2>1. PointsOf(elements, el) = << >> /\ AddElement(elements, b, el) = b
    BY <1>2 DEF PointsOf, AddElement
  <2> QED BY <2>1 DEF Grown
<1>3. CASE el.type = "TABLE" /\ ~el.broken
  <2>1. PICK c : c = IF b = NoBounds THEN finalizeBounds(b, FieldW, FieldH) ELSE b
    OBVIOUS
  <2>2. c \in Boxes /\ Grown(b, c) /\ (c = NotANumber => b = NotANumber)
    <3>1. /\ finalizeBounds(b, FieldW, FieldH) \in HeldBox /\ Grown(b, finalizeBounds(b, FieldW, FieldH))
          /\ finalizeBounds(b, FieldW, FieldH) = NotANumber => b = NotANumber
      BY Finalized
    <3> QED BY <2>1, <3>1 DEF Boxes, Grown
  <2>3. PICK d : d = expandBoundsForFurniture(c, el)
    OBVIOUS
  <2>4. /\ d \in Boxes /\ Grown(c, d) /\ \A j \in DOMAIN Corners(el) : Inside(d, Corners(el)[j])
        /\ d = NotANumber => c = NotANumber
    BY <1>3, <2>2, <2>3, ElementKinds, FurnitureInside
  <2>5. AddElement(elements, b, el) = d /\ PointsOf(elements, el) = Corners(el)
    BY <1>3, <2>1, <2>3 DEF AddElement, PointsOf
  <2> QED BY <2>2, <2>4, <2>5, GrownFurther
<1> QED BY <1>1, <1>2, <1>3

\* One loop over the elements.
AddOne(elements, types, b, el) == IF el.type \in types THEN AddElement(elements, b, el) ELSE b

AddsOver(elements, types, b, S, it) ==
  it = [s \in SUBSET S |-> IF s = {} THEN b ELSE AddOne(elements, types, it[s \ {Max(s)}], elements[Max(s)])]

LEMMA AddAllIsFold ==
  ASSUME NEW elements, NEW types, NEW b
  PROVE  AddAll(elements, types, b) = (CHOOSE it : AddsOver(elements, types, b, DOMAIN elements, it))[DOMAIN elements]
BY DEF AddAll, FoldLeft, MapThenFoldSet, AddsOver, AddOne

LEMMA AddsOverAt ==
  ASSUME NEW elements, NEW types, NEW b, NEW S, NEW it, AddsOver(elements, types, b, S, it)
  PROVE  /\ it[{}] = b
         /\ \A s \in SUBSET S : s # {} => it[s] = AddOne(elements, types, it[s \ {Max(s)}], elements[Max(s)])
<1> DEFINE val(s) == IF s = {} THEN b ELSE AddOne(elements, types, it[s \ {Max(s)}], elements[Max(s)])
<1>1. it = [s \in SUBSET S |-> val(s)]
  BY DEF AddsOver
<1>2. \A s \in SUBSET S : it[s] = val(s)
  <2> HIDE DEF val
  <2> QED BY <1>1
<1> QED BY <1>2

LEMMA OneAdded ==
  ASSUME NEW elements \in Seq(PlanElement), NEW types, NEW el \in PlanElement, NEW b \in Boxes
  PROVE  /\ AddOne(elements, types, b, el) \in Boxes /\ Grown(b, AddOne(elements, types, b, el))
         /\ el.type \in types =>
              \A j \in DOMAIN PointsOf(elements, el) : Inside(AddOne(elements, types, b, el), PointsOf(elements, el)[j])
         /\ AddOne(elements, types, b, el) = NotANumber => b = NotANumber \/ Breaks(elements, el)
<1>1. CASE el.type \in types
  <2>1. AddOne(elements, types, b, el) = AddElement(elements, b, el)
    BY <1>1 DEF AddOne
  <2> QED BY <2>1, ElementAdded
<1>2. CASE el.type \notin types
  BY <1>2 DEF AddOne, Grown
<1> QED BY <1>1, <1>2

LEMMA AddsOverExists ==
  ASSUME NEW elements \in Seq(PlanElement), NEW types, NEW b \in Boxes, NEW S, Indices(S), S \subseteq DOMAIN elements
  PROVE  \E it : AddsOver(elements, types, b, S, it)
<1> DEFINE st == [w \in Boxes \X S |-> AddOne(elements, types, w[1], elements[w[2]])]
<1>1. st \in [Boxes \X S -> Boxes]
  <2>1. ASSUME NEW w \in Boxes \X S PROVE AddOne(elements, types, w[1], elements[w[2]]) \in Boxes
    <3>1. w[1] \in Boxes /\ elements[w[2]] \in PlanElement
      OBVIOUS
    <3> QED BY <3>1, OneAdded
  <2> QED BY <2>1
<1>2. \A w \in Boxes \X S : st[w] = AddOne(elements, types, w[1], elements[w[2]])
  OBVIOUS
<1> HIDE DEF st
<1>3. PICK it \in [SUBSET S -> Boxes] : Folds(b, st, S, it)
  BY <1>1, FoldReaches
<1> DEFINE here(s) == IF s = {} THEN b ELSE st[<<it[s \ {Max(s)}], Max(s)>>]
           own(s) == IF s = {} THEN b ELSE AddOne(elements, types, it[s \ {Max(s)}], elements[Max(s)])
<1>4. it = [s \in SUBSET S |-> here(s)]
  BY <1>3 DEF Folds
<1>5. ASSUME NEW s \in SUBSET S PROVE here(s) = own(s)
  <2>1. CASE s = {}
    BY <2>1
  <2>2. CASE s # {}
    <3>1. Max(s) \in s
      BY <2>2, IndicesWithin, MaxOfIndices
    <3>2. <<it[s \ {Max(s)}], Max(s)>> \in Boxes \X S
      BY <3>1
    <3>3. PICK w : w = <<it[s \ {Max(s)}], Max(s)>>
      OBVIOUS
    <3>4. st[w] = AddOne(elements, types, w[1], elements[w[2]]) /\ w[1] = it[s \ {Max(s)}] /\ w[2] = Max(s)
      BY <1>2, <3>2, <3>3
    <3> QED BY <2>2, <3>3, <3>4
  <2> QED BY <2>1, <2>2
<1>6. it = [s \in SUBSET S |-> own(s)]
  <2> HIDE DEF here, own
  <2> QED BY <1>4, <1>5
<1> QED BY <1>6 DEF AddsOver

LEMMA ElementsAdded ==
  ASSUME NEW elements \in Seq(PlanElement), NEW types, NEW b \in Boxes
  PROVE  /\ AddAll(elements, types, b) \in Boxes /\ Grown(b, AddAll(elements, types, b))
         /\ \A i \in DOMAIN elements : elements[i].type \in types =>
              \A j \in DOMAIN PointsOf(elements, elements[i]) :
                Inside(AddAll(elements, types, b), PointsOf(elements, elements[i])[j])
         /\ AddAll(elements, types, b) = NotANumber =>
              b = NotANumber \/ \E i \in DOMAIN elements : Breaks(elements, elements[i])
<1>1. PICK n \in Nat : n = Len(elements) /\ DOMAIN elements = 1..n
  OBVIOUS
<1>2. PICK S : S = 1..n
  OBVIOUS
<1>3. Indices(S) /\ S \subseteq DOMAIN elements
  BY <1>1, <1>2, ListIndices
<1>4. PICK it : it = CHOOSE one : AddsOver(elements, types, b, S, one)
  OBVIOUS
<1>5. AddsOver(elements, types, b, S, it)
  <2>1. \E one : AddsOver(elements, types, b, S, one)
    BY <1>3, AddsOverExists
  <2> QED BY <1>4, <2>1
<1>6. it[{}] = b /\ \A i \in 1..n : it[1..i] = AddOne(elements, types, it[1..(i - 1)], elements[i])
  <2>1. it[{}] = b /\ \A s \in SUBSET S : s # {} => it[s] = AddOne(elements, types, it[s \ {Max(s)}], elements[Max(s)])
    BY <1>5, AddsOverAt
  <2>2. ASSUME NEW i \in 1..n PROVE it[1..i] = AddOne(elements, types, it[1..(i - 1)], elements[i])
    <3>1. i \in Nat /\ i > 0 /\ 1..i \in SUBSET S
      BY <1>2
    <3>2. 1..i # {} /\ Max(1..i) = i /\ (1..i) \ {Max(1..i)} = 1..(i - 1)
      BY <3>1, FirstIndices
    <3> QED BY <2>1, <3>1, <3>2
  <2> QED BY <2>1, <2>2
<1>7. AddAll(elements, types, b) = it[1..n]
  BY <1>1, <1>2, <1>4, AddAllIsFold
<1> DEFINE Covers(c, k) == elements[k].type \in types =>
                            \A j \in DOMAIN PointsOf(elements, elements[k]) : Inside(c, PointsOf(elements, elements[k])[j])
           Broken(i) == \E k \in 1..i : Breaks(elements, elements[k])
           So(i) == /\ it[1..i] \in Boxes /\ Grown(b, it[1..i]) /\ \A k \in 1..i : Covers(it[1..i], k)
                    /\ it[1..i] = NotANumber => b = NotANumber \/ Broken(i)
           P == {i \in 0..n : So(i)}
<1>8. 0 \in P
  <2>1. 1..0 = {}
    OBVIOUS
  <2> QED BY <1>6, <2>1 DEF Grown
<1>9. ASSUME NEW i \in 1..n, i - 1 \in P PROVE i \in P
  <2>1. PICK c : c = it[1..(i - 1)]
    OBVIOUS
  <2>2. /\ c \in Boxes /\ Grown(b, c) /\ \A k \in 1..(i - 1) : Covers(c, k)
        /\ c = NotANumber => b = NotANumber \/ Broken(i - 1)
    BY <1>9, <2>1
  <2>3. PICK el \in PlanElement : el = elements[i]
    BY <1>1
  <2>4. PICK d : d = AddOne(elements, types, c, el)
    OBVIOUS
  <2>5. it[1..i] = d
    BY <1>6, <2>1, <2>3, <2>4
  <2>6. d \in Boxes /\ Grown(c, d) /\ (d = NotANumber => c = NotANumber \/ Breaks(elements, el))
    BY <2>2, <2>4, OneAdded
  <2>7. el.type \in types => \A j \in DOMAIN PointsOf(elements, el) : Inside(d, PointsOf(elements, el)[j])
    BY <2>2, <2>4, OneAdded
  <2>8. ASSUME NEW k \in 1..i PROVE Covers(d, k)
    <3>1. CASE k = i
      BY <2>3, <2>7, <3>1
    <3>2. CASE k # i
      <4>1. k \in 1..(i - 1) /\ elements[k] \in PlanElement
        BY <1>1, <3>2
      <4>2. PointsOf(elements, elements[k]) \in Seq(Dot)
        BY <4>1, PointsAre
      <4>3. \A j \in DOMAIN PointsOf(elements, elements[k]) : PointsOf(elements, elements[k])[j] \in Dot
        BY <4>2
      <4> QED BY <2>2, <2>6, <4>1, <4>3 DEF Grown
    <3> QED BY <3>1, <3>2
  <2>9. Grown(b, d)
    BY <2>2, <2>6, GrownFurther
  <2>10. d = NotANumber => b = NotANumber \/ Broken(i)
    <3>1. Broken(i - 1) => Broken(i)
      OBVIOUS
    <3>2. Breaks(elements, el) => Broken(i)
      BY <2>3
    <3> HIDE DEF Broken
    <3> QED BY <2>2, <2>6, <3>1, <3>2
  <2> HIDE DEF Covers, Broken
  <2> QED BY <2>5, <2>6, <2>8, <2>9, <2>10
<1>10. n \in P
  <2> HIDE DEF So
  <2>1. P \in SUBSET (0..n)
    OBVIOUS
  <2> HIDE DEF P
  <2> QED BY <1>8, <1>9, <2>1, UpTo
<1> QED BY <1>1, <1>7, <1>10

LEMMA CountOfSome ==
  ASSUME NEW n \in Nat, NEW T \in SUBSET (1..n)
  PROVE  Cardinality(T) \in Nat /\ (T # {} => Cardinality(T) > 0)
<1>1. PICK S : S = 1..n
  OBVIOUS
<1>2. IsFiniteSet(S) /\ T \in SUBSET S
  BY <1>1, FS_Interval
<1>3. IsFiniteSet(T)
  BY <1>2, FS_Subset
<1>4. PICK k \in Nat : k = Cardinality(T)
  BY <1>3, FS_CardinalityType
<1>5. k = 0 <=> T = {}
  BY <1>3, <1>4, FS_EmptySet
<1>6. ASSUME T # {} PROVE k > 0
  <2>1. k # 0
    BY <1>5, <1>6
  <2> QED BY <2>1
<1>7. Cardinality(T) \in Nat
  BY <1>4
<1>8. T # {} => Cardinality(T) > 0
  BY <1>4, <1>6
<1> QED BY <1>7, <1>8

\* What is shown is counted.
LEMMA ShownIsCounted ==
  ASSUME NEW elements \in Seq(PlanElement), NEW preview, preview = buildPlanPreviewPayload(elements)
  PROVE  /\ preview.walls \in Nat /\ preview.furniture \in Nat /\ preview.openings \in Nat /\ preview.zones \in Nat
         /\ \A i \in DOMAIN elements : PointsOf(elements, elements[i]) # << >> => HasGeometry(preview)
<1>1. PICK n \in Nat : n = Len(elements) /\ DOMAIN elements = 1..n
  OBVIOUS
<1> DEFINE walls == Walls(elements)
           furniture == {i \in DOMAIN elements : elements[i].type = "TABLE" /\ ~elements[i].broken}
           openings == {i \in DOMAIN elements : elements[i].type = "DOOR" /\ Segment(elements, elements[i]) # << >>}
           zones == {i \in DOMAIN elements : IsZone(elements[i])}
<1>2. /\ preview.walls = Cardinality(walls) /\ preview.furniture = Cardinality(furniture)
      /\ preview.openings = Cardinality(openings) /\ preview.zones = Cardinality(zones)
  BY DEF buildPlanPreviewPayload
<1>3. walls \subseteq 1..n /\ furniture \subseteq 1..n /\ openings \subseteq 1..n /\ zones \subseteq 1..n
  BY <1>1 DEF Walls
<1>4. ASSUME NEW i \in DOMAIN elements, PointsOf(elements, elements[i]) # << >>
      PROVE  walls # {} \/ furniture # {} \/ openings # {} \/ zones # {}
  <2>1. PICK el \in PlanElement : el = elements[i]
    OBVIOUS
  <2>2. PointsOf(elements, el) # << >>
    BY <1>4, <2>1
  <2>3. CASE el.type = "WALL"
    BY <2>1, <2>2, <2>3 DEF PointsOf, Walls
  <2>4. CASE el.type = "TABLE"
    BY <2>1, <2>2, <2>4 DEF PointsOf
  <2>5. CASE el.type = "DOOR"
    BY <2>1, <2>2, <2>5 DEF PointsOf
  <2>6. CASE el.type = "ROOM_ZONE"
    BY <2>1, <2>2, <2>6 DEF PointsOf
  <2> QED BY <2>3, <2>4, <2>5, <2>6, ElementKinds
<1> HIDE DEF walls, furniture, openings, zones
<1>5. /\ preview.walls \in Nat /\ (walls # {} => preview.walls > 0)
      /\ preview.furniture \in Nat /\ (furniture # {} => preview.furniture > 0)
      /\ preview.openings \in Nat /\ (openings # {} => preview.openings > 0)
      /\ preview.zones \in Nat /\ (zones # {} => preview.zones > 0)
  BY <1>2, <1>3, CountOfSome
<1>6. ASSUME NEW i \in DOMAIN elements, PointsOf(elements, elements[i]) # << >> PROVE HasGeometry(preview)
  <2>1. walls # {} \/ furniture # {} \/ openings # {} \/ zones # {}
    BY <1>4, <1>6
  <2>2. PICK w \in Nat, f \in Nat, o \in Nat, z \in Nat :
          w = preview.walls /\ f = preview.furniture /\ o = preview.openings /\ z = preview.zones
    BY <1>5
  <2>3. w > 0 \/ f > 0 \/ o > 0 \/ z > 0
    BY <1>5, <2>1, <2>2
  <2>4. z + w + f + o > 0
    BY <2>3
  <2> QED BY <2>2, <2>4 DEF HasGeometry
<1> QED BY <1>5, <1>6

LEMMA BoundsCover ==
  ASSUME plan \in Seq(PlanElement)
  PROVE  BoundsCoverThePlan
<1>1. PICK elements \in Seq(PlanElement) : elements = plan
  OBVIOUS
<1>2. PICK a : a = AddAll(elements, {"WALL"}, NoBounds)
  OBVIOUS
<1>3. /\ a \in Boxes
      /\ \A i \in DOMAIN elements : elements[i].type = "WALL" =>
           \A j \in DOMAIN PointsOf(elements, elements[i]) : Inside(a, PointsOf(elements, elements[i])[j])
      /\ a = NotANumber => \E i \in DOMAIN elements : Breaks(elements, elements[i])
  <2>1. NoBounds \in Boxes
    BY DEF Boxes
  <2> QED BY <1>2, <2>1, ElementsAdded, NaNIsNone
<1>4. PICK types : types = {"ROOM_ZONE", "TABLE", "DOOR"}
  OBVIOUS
<1>5. PICK c : c = AddAll(elements, types, a)
  OBVIOUS
<1>6. /\ c \in Boxes /\ Grown(a, c)
      /\ \A i \in DOMAIN elements : elements[i].type \in types =>
           \A j \in DOMAIN PointsOf(elements, elements[i]) : Inside(c, PointsOf(elements, elements[i])[j])
      /\ c = NotANumber => a = NotANumber \/ \E i \in DOMAIN elements : Breaks(elements, elements[i])
  BY <1>3, <1>5, ElementsAdded
<1>7. PICK d : d = IF Background.given THEN PushPoints(c, Corners(Background)) ELSE c
  OBVIOUS
<1>8. /\ d \in Boxes /\ Grown(c, d) /\ (d = NotANumber => c = NotANumber)
      /\ Background.given => /\ Corners(Background)[1] \in Point /\ Corners(Background)[2] \in Point
                             /\ Inside(d, Corners(Background)[1]) /\ Inside(d, Corners(Background)[2])
  <2>1. CASE ~Background.given
    BY <1>6, <1>7, <2>1 DEF Grown
  <2>2. CASE Background.given
    <3>1. Background.at \in Point /\ Background.widthM \in Int /\ Background.heightM \in Int
      BY <2>2, PlanAssumption
    <3>2. PICK points \in Seq(Point) : points = Corners(Background)
      BY <3>1, CornersAre
    <3>3. 1 \in DOMAIN points /\ 2 \in DOMAIN points
      BY <3>1, <3>2, CornersAre
    <3>4. d = PushPoints(c, points)
      BY <1>7, <2>2, <3>2
    <3>5. points \in Seq(Dot) /\ \A i \in DOMAIN points : points[i] # NotANumber
      BY NaNIsNone DEF Dot
    <3>6. /\ d \in Boxes /\ Grown(c, d) /\ \A i \in DOMAIN points : Inside(d, points[i])
          /\ d = NotANumber => c = NotANumber
      BY <1>6, <3>4, <3>5, PointsPushed
    <3> QED BY <3>2, <3>3, <3>6
  <2> QED BY <2>1, <2>2
<1>9. PICK e : e = finalizeBounds(d, FieldW, FieldH)
  OBVIOUS
<1>10. /\ Grown(d, e) /\ Inside(e, [x |-> 0, y |-> 0]) /\ Inside(e, [x |-> FieldW, y |-> FieldH])
       /\ e = NotANumber => d = NotANumber
  BY <1>8, <1>9, Finalized
<1>11. PICK preview : preview = buildPlanPreviewPayload(elements)
  OBVIOUS
<1>12. preview.bounds = e
  BY <1>2, <1>4, <1>5, <1>7, <1>9, <1>11 DEF buildPlanPreviewPayload
<1>13. Background.given => Inside(e, Corners(Background)[1]) /\ Inside(e, Corners(Background)[2])
  BY <1>8, <1>10 DEF Grown, Dot
<1>14. ASSUME NEW i \in DOMAIN elements, NEW j \in DOMAIN PointsOf(elements, elements[i])
       PROVE  Inside(e, PointsOf(elements, elements[i])[j])
  <2>1. PICK el \in PlanElement : el = elements[i]
    OBVIOUS
  <2>2. PICK points \in Seq(Dot) : points = PointsOf(elements, el)
    BY PointsAre
  <2>3. points[j] \in Dot
    BY <2>1, <2>2
  <2>4. Inside(c, points[j])
    <3>1. CASE el.type = "WALL"
      <4>1. Inside(a, points[j])
        BY <1>3, <2>1, <2>2, <3>1
      <4> QED BY <1>6, <2>3, <4>1 DEF Grown
    <3>2. CASE el.type \in types
      BY <1>6, <2>1, <2>2, <3>2
    <3> QED BY <1>4, <3>1, <3>2, ElementKinds
  <2>5. Inside(e, points[j])
    BY <1>8, <1>10, <2>3, <2>4 DEF Grown
  <2> QED BY <2>1, <2>2, <2>5
<1>15. planPreviewForClient(preview).raster /\ HasGeometry(preview) => preview.zones > 0
  <2>1. preview.walls \in Nat /\ preview.furniture \in Nat /\ preview.openings \in Nat /\ preview.zones \in Nat
    BY <1>11, ShownIsCounted
  <2>2. planPreviewForClient(preview).raster <=> preview.walls + preview.furniture + preview.openings = 0
    BY DEF planPreviewForClient
  <2> QED BY <2>1, <2>2 DEF HasGeometry
<1>16. \A i \in DOMAIN elements : PointsOf(elements, elements[i]) # << >> => HasGeometry(preview)
  BY <1>11, ShownIsCounted
<1> DEFINE Shows(i, pt) == \E j \in DOMAIN PointsOf(elements, elements[i]) : pt = PointsOf(elements, elements[i])[j]
           Lost == \E i \in DOMAIN elements : elements[i].type = "DOOR" /\ Shows(i, NotANumber)
<1>17. e = NotANumber => Lost
  <2>1. SUFFICES ASSUME e = NotANumber PROVE Lost
    OBVIOUS
  <2>2. PICK i \in DOMAIN elements : Breaks(elements, elements[i])
    BY <1>3, <1>6, <1>8, <1>10, <2>1
  <2>3. PICK el \in PlanElement : el = elements[i]
    OBVIOUS
  <2>4. PICK j \in DOMAIN PointsOf(elements, el) : PointsOf(elements, el)[j] = NotANumber
    BY <2>2, <2>3 DEF Breaks
  <2>5. el.type = "DOOR"
    <3>1. SUFFICES ASSUME el.type # "DOOR" PROVE FALSE
      OBVIOUS
    <3>2. PICK points \in Seq(Point) : points = PointsOf(elements, el)
      BY <3>1, PointsAre
    <3> QED BY <2>4, <3>2, NaNIsNone
  <2> QED BY <2>3, <2>4, <2>5
<1>18. Lost => e = NotANumber
  <2>1. ASSUME NEW i \in DOMAIN elements, NEW j \in DOMAIN PointsOf(elements, elements[i]),
               NotANumber = PointsOf(elements, elements[i])[j]
        PROVE  e = NotANumber
    <3>1. Inside(e, NotANumber)
      BY <1>14, <2>1
    <3> QED BY <3>1, NaNIsNone DEF Inside
  <2> QED BY <2>1
<1> DEFINE Within(pt) == /\ e.minX <= pt.x /\ pt.x <= e.minX + e.width
                         /\ e.minY <= pt.y /\ pt.y <= e.minY + e.height
<1>19. e # NotANumber =>
         /\ Within([x |-> 0, y |-> 0]) /\ Within([x |-> FieldW, y |-> FieldH])
         /\ Background.given => Within(Corners(Background)[1]) /\ Within(Corners(Background)[2])
         /\ \A i \in DOMAIN elements : \A j \in DOMAIN PointsOf(elements, elements[i]) :
              Within(PointsOf(elements, elements[i])[j])
  <2>1. e # NotANumber => \A pt : Inside(e, pt) => Within(pt)
    BY DEF Inside
  <2> HIDE DEF Within
  <2> QED BY <1>10, <1>13, <1>14, <2>1
<1> QED BY <1>1, <1>11, <1>12, <1>15, <1>16, <1>17, <1>18, <1>19 DEF BoundsCoverThePlan

LEMMA PlanTyped == plan \in Seq(PlanElement) /\ [PlanNext]_plan => (plan \in Seq(PlanElement))'
BY PlanAssumption DEF PlanNext, Draw

\* Whatever the elements and their order, the box drawn around a plan holds the field, the
\* picture and all that is shown, unless an opening with a broken span is shown: then, and
\* only then, the box is lost. A plan that shows something has a preview
\* (buildPlanPreviewPayload, getPlanPreview).
THEOREM PreviewsCoverThePlan == PlanSpec => []BoundsCoverThePlan
<1>1. PlanInit => plan \in Seq(PlanElement)
  BY DEF PlanInit
<1>2. plan \in Seq(PlanElement) /\ [PlanNext]_plan => (plan \in Seq(PlanElement))'
  BY PlanTyped
<1>3. plan \in Seq(PlanElement) => BoundsCoverThePlan
  BY BoundsCover
<1> QED BY <1>1, <1>2, <1>3, PTL DEF PlanSpec

-----------------------------------------------------------------------------
(* The calendar of the reports.                                              *)

LEMMA MonthLengths ==
  /\ YearMonths \in Nat /\ YearMonths > 0
  /\ DOMAIN MonthLength = 1..YearMonths
  /\ \A k \in 1..YearMonths : MonthLength[k] \in Nat /\ MonthLength[k] > 0
BY BrandReportsAssumption DEF YearMonths

LEMMA DaysAdd ==
  /\ DaysOf(0) = 0
  /\ \A m \in 0..YearMonths : DaysOf(m) \in Nat
  /\ \A m \in 0..(YearMonths - 1) : DaysOf(m + 1) = DaysOf(m) + MonthLength[m + 1]
  /\ \A m, n \in 0..YearMonths : m <= n => DaysOf(m) <= DaysOf(n)
<1>1. \A m : DaysOf(m) = Sum(MonthLength, 1..m)
  BY DEF DaysOf, Sum
<1>2. \A m \in 0..YearMonths : IsFiniteSet(1..m) /\ \A k \in 1..m : MonthLength[k] \in Nat
  <2> TAKE m \in 0..YearMonths
  <2>1. m \in Int /\ YearMonths \in Nat
    BY MonthLengths
  <2>2. IsFiniteSet(1..m)
    BY <2>1, FS_Interval
  <2>3. 1..m \subseteq 1..YearMonths
    BY <2>1
  <2> QED BY <2>2, <2>3, MonthLengths
<1>3. DaysOf(0) = 0
  <2>1. 1..0 = {}
    OBVIOUS
  <2> QED BY <1>1, <2>1, SumOfNone
<1>4. ASSUME NEW m \in 0..YearMonths PROVE DaysOf(m) \in Nat
  BY <1>1, <1>2, SumNatural
<1>5. ASSUME NEW m \in 0..(YearMonths - 1) PROVE DaysOf(m + 1) = DaysOf(m) + MonthLength[m + 1]
  <2>1. m + 1 \in 0..YearMonths /\ m \in 0..YearMonths /\ m \in Int
    BY MonthLengths
  <2>2. IsFiniteSet(1..(m + 1)) /\ \A k \in 1..(m + 1) : MonthLength[k] \in Int
    BY <1>2, <2>1
  <2>3. m + 1 \in 1..(m + 1) /\ (1..(m + 1)) \ {m + 1} = 1..m
    BY <2>1, MonthLengths
  <2>4. Sum(MonthLength, 1..(m + 1)) = MonthLength[m + 1] + Sum(MonthLength, (1..(m + 1)) \ {m + 1})
    BY <2>2, <2>3, SumWithout
  <2>5. DaysOf(m) \in Nat /\ MonthLength[m + 1] \in Int
    BY <1>4, <2>1, <2>2, <2>3
  <2>6. Sum(MonthLength, (1..(m + 1)) \ {m + 1}) = DaysOf(m)
    BY <1>1, <2>3
  <2>7. DaysOf(m + 1) = MonthLength[m + 1] + DaysOf(m)
    BY <1>1, <2>4, <2>6
  <2> QED BY <2>5, <2>7
<1>6. ASSUME NEW m \in 0..YearMonths, NEW n \in 0..YearMonths, m <= n PROVE DaysOf(m) <= DaysOf(n)
  <2>1. 1..m \in SUBSET (1..n)
    BY <1>6, MonthLengths
  <2> QED BY <1>1, <1>2, <2>1, SumWithin
<1> QED BY <1>3, <1>4, <1>5, <1>6

\* A month and its year.
LEMMA MonthSplit ==
  ASSUME NEW m \in Int
  PROVE  \E q \in Int, r \in 0..(YearMonths - 1) :
           /\ m = q * YearMonths + r /\ m \div YearMonths = q /\ m % YearMonths = r
<1>1. PICK n \in Nat : n = YearMonths /\ n > 0
  BY MonthLengths
<1>2. PICK q \in Int, r \in Int : q = m \div n /\ r = m % n
  BY <1>1
<1>3. m = q * n + r /\ 0 <= r /\ r < n
  BY <1>1, <1>2
<1> QED BY <1>1, <1>2, <1>3

LEMMA SplitUnique ==
  ASSUME NEW n \in Nat, NEW m \in Int, NEW q \in Int, NEW r \in Int, m = q * n + r, 0 <= r, r < n
  PROVE  m \div n = q /\ m % n = r
OBVIOUS

LEMMA YearLength == YearDays \in Nat /\ YearDays > 0 /\ YearDays = DaysOf(YearMonths)
<1>1. YearDays = DaysOf(YearMonths) /\ YearMonths \in 0..YearMonths /\ 0 \in 0..(YearMonths - 1) /\ 1 \in 0..YearMonths
      /\ YearMonths >= 1
  BY MonthLengths DEF YearDays
<1>2. DaysOf(0 + 1) = 0 + MonthLength[0 + 1]
  BY <1>1, DaysAdd
<1>3. DaysOf(1) = MonthLength[1] /\ MonthLength[1] \in Nat /\ MonthLength[1] > 0
  BY <1>1, <1>2, MonthLengths
<1>4. DaysOf(1) <= DaysOf(YearMonths)
  BY <1>1, DaysAdd
<1>5. DaysOf(YearMonths) \in Nat
  BY <1>1, DaysAdd
<1> QED BY <1>1, <1>3, <1>4, <1>5

\* The first day of a month, by its year and its place in it.
LEMMA FirstDayIs ==
  ASSUME NEW q \in Int, NEW r \in 0..(YearMonths - 1)
  PROVE  /\ FirstDay(q * YearMonths + r) = q * YearDays + DaysOf(r)
         /\ FirstDay(q * YearMonths + r + 1) = q * YearDays + DaysOf(r + 1)
         /\ q * YearMonths + r \in Int
<1>1. PICK n \in Nat : n = YearMonths /\ n > 0
  BY MonthLengths
<1>2. PICK d \in Nat : d = YearDays
  BY YearLength
<1>3. PICK m \in Int : m = q * n + r
  BY <1>1
<1>4. r \in Int /\ 0 <= r /\ r < n
  BY <1>1
<1>5. m \div n = q /\ m % n = r
  BY <1>3, <1>4, SplitUnique
<1>6. FirstDay(m) = q * d + DaysOf(r)
  BY <1>1, <1>2, <1>5 DEF FirstDay
<1>7. FirstDay(m + 1) = q * d + DaysOf(r + 1)
  <2>1. CASE r + 1 < n
    <3>1. m + 1 = q * n + (r + 1) /\ 0 <= r + 1 /\ r + 1 \in Int /\ m + 1 \in Int
      BY <1>3, <1>4
    <3>2. (m + 1) \div n = q /\ (m + 1) % n = r + 1
      BY <2>1, <3>1, SplitUnique
    <3> QED BY <1>1, <1>2, <3>2 DEF FirstDay
  <2>2. CASE r + 1 = n
    <3>1. m + 1 = (q + 1) * n + 0
      BY <1>3, <1>4, <2>2
    <3>2. (m + 1) \div n = q + 1 /\ (m + 1) % n = 0
      <4>1. q + 1 \in Int /\ m + 1 \in Int /\ 0 \in Int /\ 0 <= 0 /\ 0 < n
        BY <1>1
      <4> QED BY <3>1, <4>1, SplitUnique
    <3>3. FirstDay(m + 1) = (q + 1) * d + 0
      BY <1>1, <1>2, <3>2, DaysAdd DEF FirstDay
    <3>4. DaysOf(r + 1) = d
      BY <1>1, <1>2, <2>2, YearLength
    <3>5. (q + 1) * d + 0 = q * d + d
      OBVIOUS
    <3> QED BY <3>3, <3>4, <3>5
  <2> QED BY <1>4, <2>1, <2>2
<1> QED BY <1>1, <1>2, <1>3, <1>6, <1>7

LEMMA FirstDayTyped == ASSUME NEW m \in Int PROVE FirstDay(m) \in Int
<1>1. PICK q \in Int, r \in 0..(YearMonths - 1) : m = q * YearMonths + r
  BY MonthSplit
<1>2. FirstDay(m) = q * YearDays + DaysOf(r)
  BY <1>1, FirstDayIs
<1>3. DaysOf(r) \in Nat /\ YearDays \in Nat
  <2>1. r \in 0..YearMonths
    BY MonthLengths
  <2> QED BY <2>1, DaysAdd, YearLength
<1> QED BY <1>2, <1>3

LEMMA MonthHasItsDays ==
  ASSUME NEW m \in Int
  PROVE  FirstDay(m + 1) = FirstDay(m) + MonthLength[(m % YearMonths) + 1]
<1>1. PICK q \in Int, r \in 0..(YearMonths - 1) : m = q * YearMonths + r /\ m % YearMonths = r
  BY MonthSplit
<1>2. FirstDay(m) = q * YearDays + DaysOf(r) /\ FirstDay(m + 1) = q * YearDays + DaysOf(r + 1)
  BY <1>1, FirstDayIs
<1>3. DaysOf(r + 1) = DaysOf(r) + MonthLength[r + 1]
  BY DaysAdd
<1>4. DaysOf(r) \in Nat /\ YearDays \in Nat /\ MonthLength[r + 1] \in Nat
  <2>1. r \in 0..YearMonths /\ r + 1 \in 1..YearMonths
    BY MonthLengths
  <2> QED BY <2>1, DaysAdd, YearLength, MonthLengths
<1>5. PICK x \in Int : x = q * YearDays
  BY <1>4
<1> QED BY <1>1, <1>2, <1>3, <1>4, <1>5

LEMMA ProductsOrdered ==
  ASSUME NEW a \in Int, NEW b \in Int, NEW n \in Nat, a <= b
  PROVE  a * n <= b * n
<1>1. b - a \in Nat
  OBVIOUS
<1>2. (b - a) * n \in Nat
  BY <1>1
<1>3. (b - a) * n = b * n - a * n
  OBVIOUS
<1> QED BY <1>2, <1>3

\* Months follow one another.
LEMMA FirstDaysGrow ==
  ASSUME NEW a \in Int, NEW b \in Int, a < b
  PROVE  FirstDay(a + 1) <= FirstDay(b)
<1>1. PICK q \in Int, r \in 0..(YearMonths - 1) : a = q * YearMonths + r
  BY MonthSplit
<1>2. PICK s \in Int, t \in 0..(YearMonths - 1) : b = s * YearMonths + t
  BY MonthSplit
<1>3. FirstDay(a + 1) = q * YearDays + DaysOf(r + 1)
  BY <1>1, FirstDayIs
<1>4. FirstDay(b) = s * YearDays + DaysOf(t)
  BY <1>2, FirstDayIs
<1>5. PICK n \in Nat : n = YearMonths /\ n > 0
  BY MonthLengths
<1>6. PICK d \in Nat : d = YearDays
  BY YearLength
<1>7. r \in Int /\ t \in Int /\ 0 <= r /\ r < n /\ 0 <= t /\ t < n
  BY <1>5
<1>8. CASE q = s
  <2>1. r < t
    <3>1. PICK x \in Int : x = q * n
      OBVIOUS
    <3> QED BY <1>1, <1>2, <1>5, <1>7, <1>8, <3>1
  <2>2. DaysOf(r + 1) <= DaysOf(t)
    <3>1. r + 1 \in 0..YearMonths /\ t \in 0..YearMonths /\ r + 1 <= t
      BY <1>5, <1>7, <2>1
    <3> QED BY <3>1, DaysAdd
  <2>3. DaysOf(r + 1) \in Nat /\ DaysOf(t) \in Nat
    <3>1. r + 1 \in 0..YearMonths /\ t \in 0..YearMonths
      BY <1>5, <1>7
    <3> QED BY <3>1, DaysAdd
  <2>4. PICK x \in Int : x = q * d
    OBVIOUS
  <2> QED BY <1>3, <1>4, <1>6, <1>8, <2>2, <2>3, <2>4
<1>9. CASE q < s
  <2>1. DaysOf(r + 1) <= d /\ DaysOf(r + 1) \in Nat /\ DaysOf(t) \in Nat
    <3>1. r + 1 \in 0..YearMonths /\ t \in 0..YearMonths /\ YearMonths \in 0..YearMonths /\ r + 1 <= YearMonths
      BY <1>5, <1>7
    <3> QED BY <1>6, <3>1, DaysAdd, YearLength
  <2>2. (q + 1) * d <= s * d
    <3>1. q + 1 \in Int /\ q + 1 <= s
      BY <1>9
    <3> QED BY <3>1, ProductsOrdered
  <2>3. (q + 1) * d = q * d + d
    OBVIOUS
  <2>4. PICK x \in Int, y \in Int : x = q * d /\ y = s * d
    OBVIOUS
  <2> QED BY <1>3, <1>4, <1>6, <2>1, <2>2, <2>3, <2>4
<1>10. CASE s < q
  <2>1. (s + 1) * n <= q * n
    <3>1. s + 1 \in Int /\ s + 1 <= q
      BY <1>10
    <3> QED BY <3>1, ProductsOrdered
  <2>2. (s + 1) * n = s * n + n
    OBVIOUS
  <2>3. PICK x \in Int, y \in Int : x = q * n /\ y = s * n
    OBVIOUS
  <2> QED BY <1>1, <1>2, <1>5, <1>7, <2>1, <2>2, <2>3
<1> QED BY <1>8, <1>9, <1>10

\* Each date is in one month.
Within(date, m) == FirstDay(m) <= date /\ date < FirstDay(m + 1)

LEMMA DateHasMonth ==
  ASSUME NEW date \in Int
  PROVE  LET first == (date \div YearDays) * YearMonths
         IN \E m \in first..(first + YearMonths - 1) : Within(date, m)
<1>1. PICK d \in Nat : d = YearDays /\ d > 0
  BY YearLength
<1>2. PICK n \in Nat : n = YearMonths /\ n > 0
  BY MonthLengths
<1>3. PICK q \in Int, x \in Int : q = date \div d /\ x = date % d
  BY <1>1
<1>4. date = q * d + x /\ 0 <= x /\ x < d
  BY <1>1, <1>3
<1> DEFINE R == {r \in 0..(n - 1) : DaysOf(r) <= x}
<1>5. IsFiniteSet(R) /\ R \subseteq Int /\ R # {}
  <2>1. IsFiniteSet(0..(n - 1))
    BY FS_Interval
  <2>2. R \in SUBSET (0..(n - 1))
    OBVIOUS
  <2>3. 0 \in R
    BY <1>2, <1>4, DaysAdd
  <2> QED BY <2>1, <2>2, <2>3, FS_Subset
<1>6. PICK r \in R : \A s \in R : r >= s
  <2> HIDE DEF R
  <2>1. Indices(R)
    BY <1>5 DEF Indices
  <2> QED BY <1>5, <2>1, LargestIndex
<1>7. r \in 0..(YearMonths - 1) /\ r \in Int /\ DaysOf(r) <= x
  BY <1>2
<1>8. x < DaysOf(r + 1)
  <2>1. CASE r + 1 = n
    BY <1>1, <1>2, <1>4, <2>1, YearLength
  <2>2. CASE r + 1 # n
    <3>1. r + 1 \in 0..(n - 1) /\ r + 1 \in 0..YearMonths
      BY <1>2, <1>7, <2>2
    <3>2. r + 1 \notin R
      BY <1>6, <1>7
    <3>3. DaysOf(r + 1) \in Nat
      BY <3>1, DaysAdd
    <3> QED BY <3>1, <3>2, <3>3
  <2> QED BY <2>1, <2>2
<1>9. PICK m \in Int : m = q * YearMonths + r
  BY <1>2
<1>10. FirstDay(m) = q * d + DaysOf(r) /\ FirstDay(m + 1) = q * d + DaysOf(r + 1)
  BY <1>1, <1>7, <1>9, FirstDayIs
<1>11. Within(date, m)
  <2>1. DaysOf(r) \in Nat /\ DaysOf(r + 1) \in Nat
    <3>1. r \in 0..YearMonths /\ r + 1 \in 0..YearMonths
      BY <1>2, <1>7
    <3> QED BY <3>1, DaysAdd
  <2>2. PICK y \in Int : y = q * d
    OBVIOUS
  <2> QED BY <1>4, <1>7, <1>8, <1>10, <2>1, <2>2 DEF Within
<1>12. m \in (q * n)..(q * n + n - 1)
  <2>1. PICK y \in Int : y = q * n
    OBVIOUS
  <2> QED BY <1>2, <1>7, <1>9, <2>1
<1> QED BY <1>1, <1>2, <1>3, <1>11, <1>12

LEMMA MonthOfDate ==
  ASSUME NEW date \in Int
  PROVE  Month(date) \in Int /\ Within(date, Month(date))
<1> DEFINE first == (date \div YearDays) * YearMonths
<1>1. first \in Int /\ first + YearMonths - 1 \in Int
  BY YearLength, MonthLengths
<1>2. \E m \in first..(first + YearMonths - 1) : Within(date, m)
  BY DateHasMonth
<1>3. Month(date) = CHOOSE m \in first..(first + YearMonths - 1) : Within(date, m)
  BY DEF Month, Within
<1> HIDE DEF first
<1> QED BY <1>1, <1>2, <1>3

LEMMA MonthUnique ==
  ASSUME NEW date \in Int, NEW m \in Int, Within(date, m)
  PROVE  m = Month(date)
<1>1. PICK k \in Int : k = Month(date) /\ Within(date, k)
  BY MonthOfDate
<1>2. ASSUME NEW a \in Int, NEW b \in Int, Within(date, a), Within(date, b), a < b PROVE FALSE
  <2>1. FirstDay(a + 1) <= FirstDay(b)
    BY <1>2, FirstDaysGrow
  <2>2. FirstDay(a + 1) \in Int /\ FirstDay(b) \in Int
    BY FirstDayTyped
  <2> QED BY <1>2, <2>1, <2>2 DEF Within
<1>3. ~(m < k) /\ ~(k < m)
  BY <1>1, <1>2
<1> QED BY <1>1, <1>3

\* A date is not before a month if its own month is not.
LEMMA MonthOrder ==
  ASSUME NEW date \in Int, NEW m \in Int
  PROVE  FirstDay(m) <= date <=> m <= Month(date)
<1>1. PICK k \in Int : k = Month(date) /\ Within(date, k)
  BY MonthOfDate
<1>2. FirstDay(k) \in Int /\ FirstDay(k + 1) \in Int /\ FirstDay(m) \in Int /\ FirstDay(m + 1) \in Int
  BY FirstDayTyped
<1>3. CASE k < m
  <2>1. FirstDay(k + 1) <= FirstDay(m)
    BY <1>3, FirstDaysGrow
  <2> QED BY <1>1, <1>2, <1>3, <2>1 DEF Within
<1>4. CASE m = k
  BY <1>1, <1>4 DEF Within
<1>5. CASE m < k
  <2>1. FirstDay(m + 1) <= FirstDay(k)
    BY <1>5, FirstDaysGrow
  <2>2. FirstDay(m + 1) = FirstDay(m) + MonthLength[(m % YearMonths) + 1]
    BY MonthHasItsDays
  <2>3. MonthLength[(m % YearMonths) + 1] \in Nat
    <3>1. PICK r \in 0..(YearMonths - 1) : m % YearMonths = r
      BY MonthSplit
    <3>2. r + 1 \in 1..YearMonths
      BY MonthLengths
    <3> QED BY <3>1, <3>2, MonthLengths
  <2> QED BY <1>1, <1>2, <1>5, <2>1, <2>2, <2>3 DEF Within
<1> QED BY <1>3, <1>4, <1>5

-----------------------------------------------------------------------------
(* The reports of a brand.                                                   *)

ReportedOrder == [cafe : ReportCafes, at : Nat, items : Baskets, totalAmount : Nat]

ReportsOK ==
  /\ clock \in Clock
  /\ ordered \in Seq(ReportedOrder)
  /\ \A i \in DOMAIN ordered : ordered[i].at <= clock

LEMMA ReportTypes ==
  ASSUME ReportsOK
  PROVE  /\ clock \in Nat /\ IsFiniteSet(DOMAIN ordered)
         /\ \A i \in DOMAIN ordered :
              /\ ordered[i].at \in Nat /\ ordered[i].at <= clock
              /\ ordered[i].cafe \in ReportCafes
              /\ ordered[i].items \in Baskets
              /\ ordered[i].totalAmount \in Nat
<1>1. clock \in Nat
  BY BrandReportsAssumption DEF ReportsOK
<1>2. Len(ordered) \in Nat /\ DOMAIN ordered = 1..Len(ordered)
  BY DEF ReportsOK
<1>3. IsFiniteSet(1..Len(ordered))
  BY <1>2, FS_Interval
<1>4. \A i \in DOMAIN ordered : ordered[i] \in ReportedOrder
  BY DEF ReportsOK
<1> QED BY <1>1, <1>2, <1>3, <1>4 DEF ReportsOK, ReportedOrder

LEMMA DateIs ==
  ASSUME NEW t \in Int
  PROVE  Date(t) \in Int /\ Date(t) * DayParts <= t /\ t < (Date(t) + 1) * DayParts
<1>1. PICK n \in Nat : n = DayParts /\ n > 0
  BY BrandReportsAssumption
<1>2. PICK d \in Int, r \in Int : d = t \div n /\ r = t % n
  BY <1>1
<1>3. t = d * n + r /\ 0 <= r /\ r < n
  BY <1>1, <1>2
<1>4. (d + 1) * n = d * n + n
  OBVIOUS
<1>5. PICK x \in Int : x = d * n
  OBVIOUS
<1>6. x <= t /\ t < x + n
  BY <1>3, <1>5
<1> QED BY <1>1, <1>2, <1>4, <1>5, <1>6 DEF Date

LEMMA DatesGrow ==
  ASSUME NEW t \in Int, NEW u \in Int, t <= u
  PROVE  Date(t) <= Date(u)
<1>1. PICK n \in Nat : n = DayParts
  BY BrandReportsAssumption
<1>2. PICK a \in Int, b \in Int : a = Date(t) /\ b = Date(u) /\ a * n <= t /\ u < (b + 1) * n
  BY <1>1, DateIs
<1>3. a * n < (b + 1) * n
  <2>1. PICK x \in Int, y \in Int : x = a * n /\ y = (b + 1) * n
    OBVIOUS
  <2> QED BY <1>2, <2>1
<1>4. b + 1 \in Int
  OBVIOUS
<1>5. a < b + 1
  BY <1>3, <1>4, MultiplesInOrder
<1> QED BY <1>2, <1>5

\* The days of the last weeks are apart, inside the period, and hold what it has
\* of later dates than its first.
LEMMA DaysOfPeriod ==
  ASSUME ReportsOK
  PROVE  /\ \A m, n \in 0..(TrendDays - 1) : m # n => DayOrders(m) \cap DayOrders(n) = {}
         /\ \A n \in 0..(TrendDays - 1) : DayOrders(n) \subseteq PeriodOrders
         /\ \A i \in PeriodOrders : Date(ordered[i].at) > Date(clock) - TrendDays =>
              \E n \in 0..(TrendDays - 1) : i \in DayOrders(n)
<1>1. PICK p \in Nat : p = DayParts
  BY BrandReportsAssumption
<1>2. PICK l \in Nat : l = TrendDays /\ l > 0
  BY BrandReportsAssumption
<1>3. PICK today \in Int : today = Date(clock) /\ clock < (today + 1) * p /\ clock \in Int
  BY <1>1, DateIs, ReportTypes
<1>4. \A i \in OfBrand : /\ ordered[i].at \in Int /\ ordered[i].at <= clock /\ Date(ordered[i].at) \in Int
                         /\ Date(ordered[i].at) <= today
  <2> TAKE i \in OfBrand
  <2>1. i \in DOMAIN ordered
    BY DEF OfBrand
  <2>2. ordered[i].at \in Int /\ ordered[i].at <= clock
    BY <2>1, ReportTypes
  <2> QED BY <1>3, <2>2, DateIs, DatesGrow
<1>5. ASSUME NEW m \in 0..(TrendDays - 1), NEW n \in 0..(TrendDays - 1), m # n
      PROVE  DayOrders(m) \cap DayOrders(n) = {}
  <2>1. m \in Int /\ n \in Int
    OBVIOUS
  <2>2. today - m # today - n
    BY <1>5, <2>1
  <2> QED BY <1>3, <2>2 DEF DayOrders
<1>6. ASSUME NEW n \in 0..(TrendDays - 1), NEW i \in DayOrders(n) PROVE i \in PeriodOrders
  <2>1. i \in OfBrand /\ Date(ordered[i].at) = today - n /\ n \in Int /\ n <= l - 1
    BY <1>2, <1>3 DEF DayOrders
  <2>2. PICK at \in Int, d \in Int : at = ordered[i].at /\ d = Date(ordered[i].at) /\ d * p <= at
    BY <1>1, <1>4, <2>1, DateIs
  <2>3. (today + 1 - l) * p <= d * p
    <3>1. today + 1 - l \in Int /\ today + 1 - l <= d
      BY <2>1, <2>2
    <3> QED BY <3>1, ProductsOrdered
  <2>4. (today + 1 - l) * p = (today + 1) * p - l * p
    OBVIOUS
  <2>5. PICK x \in Int, y \in Int, z \in Int : x = (today + 1) * p /\ y = l * p /\ z = d * p
    OBVIOUS
  <2>6. at >= clock - l * p
    BY <1>3, <2>2, <2>3, <2>4, <2>5
  <2> QED BY <1>1, <1>2, <2>1, <2>2, <2>6 DEF PeriodOrders
<1>7. ASSUME NEW i \in PeriodOrders, Date(ordered[i].at) > Date(clock) - TrendDays
      PROVE  \E n \in 0..(TrendDays - 1) : i \in DayOrders(n)
  <2>1. i \in OfBrand
    BY DEF PeriodOrders
  <2>2. PICK d \in Int : d = Date(ordered[i].at) /\ d <= today
    BY <1>4, <2>1
  <2>3. today - d \in 0..(TrendDays - 1) /\ d = today - (today - d)
    BY <1>2, <1>3, <1>7, <2>2
  <2>4. i \in DayOrders(today - d)
    BY <1>3, <2>1, <2>2, <2>3 DEF DayOrders
  <2> QED BY <2>3, <2>4
<1> QED BY <1>5, <1>6, <1>7

\* Where each month has the day, setMonth puts the date n months back.
LEMMA MonthsBack ==
  ASSUME NEW date \in Int, NEW n \in Nat,
         date - FirstDay(Month(date)) < MonthLength[((Month(date) - n) % YearMonths) + 1]
  PROVE  Month(setMonth(date, Month(date) - n)) = Month(date) - n
<1>1. PICK k \in Int : k = Month(date) /\ FirstDay(k) <= date
  BY MonthOfDate DEF Within
<1>2. PICK m \in Int : m = k - n
  OBVIOUS
<1>3. FirstDay(k) \in Int /\ FirstDay(m) \in Int /\ FirstDay(m + 1) \in Int
  BY FirstDayTyped
<1>4. FirstDay(m + 1) = FirstDay(m) + MonthLength[(m % YearMonths) + 1]
  BY MonthHasItsDays
<1>5. PICK there \in Int : there = setMonth(date, m) /\ there = FirstDay(m) + (date - FirstDay(k))
  BY <1>1, <1>3 DEF setMonth
<1>6. MonthLength[(m % YearMonths) + 1] \in Nat
  <2>1. PICK r \in 0..(YearMonths - 1) : m % YearMonths = r
    BY MonthSplit
  <2>2. r + 1 \in 1..YearMonths
    BY MonthLengths
  <2> QED BY <2>1, <2>2, MonthLengths
<1>7. date - FirstDay(k) < MonthLength[(m % YearMonths) + 1]
  BY <1>1, <1>2
<1>8. Within(there, m)
  BY <1>1, <1>3, <1>4, <1>5, <1>6, <1>7 DEF Within
<1>9. m = Month(there)
  BY <1>8, MonthUnique
<1> QED BY <1>1, <1>2, <1>5, <1>9

LEMMA MonthsOfYear ==
  ASSUME ReportsOK,
         \A month \in (Month(Date(clock)) - TrendMonths + 1)..Month(Date(clock)) :
           Date(clock) - FirstDay(Month(Date(clock))) < MonthLength[(month % YearMonths) + 1]
  PROVE  /\ \A m, n \in 0..(TrendMonths - 1) : m # n => MonthOrders(m) \cap MonthOrders(n) = {}
         /\ UNION {MonthOrders(n) : n \in 0..(TrendMonths - 1)}
              = {i \in OfBrand : Date(ordered[i].at) >= FirstDay(Month(Date(clock)) - TrendMonths + 1)}
         /\ TrendMonths = YearMonths => YearOrders \subseteq UNION {MonthOrders(n) : n \in 0..(TrendMonths - 1)}
<1>1. PICK today \in Int : today = Date(clock)
  BY DateIs, ReportTypes
<1>2. PICK this \in Int : this = Month(today)
  BY MonthOfDate
<1>3. PICK l \in Nat : l = TrendMonths /\ l > 0
  BY BrandReportsAssumption
<1>4. \A i \in OfBrand : /\ Date(ordered[i].at) \in Int
                         /\ Month(Date(ordered[i].at)) \in Int /\ Month(Date(ordered[i].at)) <= this
  <2> TAKE i \in OfBrand
  <2>1. i \in DOMAIN ordered
    BY DEF OfBrand
  <2>2. ordered[i].at \in Int /\ clock \in Int /\ ordered[i].at <= clock
    BY <2>1, ReportTypes
  <2>3. PICK d \in Int : d = Date(ordered[i].at) /\ d <= today
    BY <1>1, <2>2, DateIs, DatesGrow
  <2>4. PICK m \in Int : m = Month(d) /\ FirstDay(m) <= d
    BY MonthOfDate DEF Within
  <2>5. FirstDay(m) \in Int
    BY FirstDayTyped
  <2>6. FirstDay(m) <= today
    BY <2>3, <2>4, <2>5
  <2>7. m <= this
    BY <1>2, <2>6, MonthOrder
  <2> QED BY <2>3, <2>4, <2>7
<1>5. \A n \in 0..(l - 1) : MonthOrders(n) = {i \in OfBrand : Month(Date(ordered[i].at)) = this - n}
  <2> TAKE n \in 0..(l - 1)
  <2>1. n \in Nat /\ this - n \in (this - l + 1)..this
    BY <1>3
  <2>2. today - FirstDay(this) < MonthLength[((this - n) % YearMonths) + 1]
    BY <1>1, <1>2, <1>3, <2>1
  <2>3. Month(setMonth(today, this - n)) = this - n
    BY <1>2, <2>1, <2>2, MonthsBack
  <2> QED BY <1>1, <1>2, <2>3 DEF MonthOrders
<1>6. ASSUME NEW m \in 0..(l - 1), NEW n \in 0..(l - 1), m # n PROVE MonthOrders(m) \cap MonthOrders(n) = {}
  <2>1. this - m # this - n
    BY <1>6
  <2> QED BY <1>5, <2>1
<1> DEFINE All == UNION {MonthOrders(n) : n \in 0..(l - 1)}
<1>7. \A i : i \in All <=> i \in OfBrand /\ this - l + 1 <= Month(Date(ordered[i].at))
  <2> TAKE i
  <2>1. ASSUME i \in All PROVE i \in OfBrand /\ this - l + 1 <= Month(Date(ordered[i].at))
    <3>1. PICK n \in 0..(l - 1) : i \in MonthOrders(n)
      BY <2>1
    <3>2. i \in OfBrand /\ Month(Date(ordered[i].at)) = this - n
      BY <1>5, <3>1
    <3> QED BY <1>3, <3>2
  <2>2. ASSUME i \in OfBrand, this - l + 1 <= Month(Date(ordered[i].at)) PROVE i \in All
    <3>1. PICK m \in Int : m = Month(Date(ordered[i].at)) /\ m <= this
      BY <1>4, <2>2
    <3>2. this - m \in 0..(l - 1) /\ m = this - (this - m)
      BY <2>2, <3>1
    <3>3. i \in MonthOrders(this - m)
      BY <1>5, <2>2, <3>1, <3>2
    <3> QED BY <3>2, <3>3
  <2> QED BY <2>1, <2>2
<1>8. \A i \in OfBrand : Date(ordered[i].at) >= FirstDay(this - l + 1) <=> this - l + 1 <= Month(Date(ordered[i].at))
  <2> TAKE i \in OfBrand
  <2>1. PICK d \in Int : d = Date(ordered[i].at)
    BY <1>4
  <2>2. PICK m \in Int : m = this - l + 1
    OBVIOUS
  <2>3. FirstDay(m) \in Int
    BY FirstDayTyped
  <2>4. FirstDay(m) <= d <=> m <= Month(d)
    BY MonthOrder
  <2> QED BY <2>1, <2>2, <2>3, <2>4
<1>9. All = {i \in OfBrand : Date(ordered[i].at) >= FirstDay(this - l + 1)}
  <2> HIDE DEF All
  <2> QED BY <1>7, <1>8
<1>10. ASSUME l = YearMonths PROVE YearOrders \subseteq All
  <2>1. PICK q \in Int, r \in 0..(YearMonths - 1) : this = q * YearMonths + r /\ this \div YearMonths = q
    BY MonthSplit
  <2>2. PICK first \in Int : first = q * YearMonths
    BY <1>10
  <2>3. this - l + 1 <= first
    BY <1>10, <2>1, <2>2
  <2>4. ASSUME NEW i \in YearOrders PROVE i \in OfBrand /\ this - l + 1 <= Month(Date(ordered[i].at))
    <3>1. i \in OfBrand /\ Date(ordered[i].at) >= FirstDay(first)
      BY <1>1, <1>2, <2>1, <2>2 DEF YearOrders
    <3>2. PICK d \in Int : d = Date(ordered[i].at) /\ Month(d) \in Int
      BY <1>4, <3>1
    <3>3. FirstDay(first) \in Int
      BY FirstDayTyped
    <3>4. first <= Month(d)
      BY <3>1, <3>2, <3>3, MonthOrder
    <3> QED BY <2>3, <3>1, <3>2, <3>4
  <2> QED BY <1>7, <2>4
<1>11. PICK e : e = 0..(l - 1)
  OBVIOUS
<1> QED BY <1>1, <1>2, <1>3, <1>6, <1>9, <1>10

LEMMA SumOfFunction ==
  ASSUME NEW f, NEW S, S = DOMAIN f
  PROVE  SumFunction(f) = Sum(f, S)
BY DEF SumFunction, Sum

TotalAmounts == [i \in DOMAIN ordered |-> ordered[i].totalAmount]

LEMMA RevenueIs ==
  ASSUME ReportsOK, NEW S \in SUBSET DOMAIN ordered
  PROVE  Revenue(S) = Sum(TotalAmounts, S) /\ IsFiniteSet(S) /\ \A i \in S : TotalAmounts[i] \in Nat
<1>1. IsFiniteSet(S)
  BY ReportTypes, FS_Subset
<1>2. PICK f : f = [i \in S |-> ordered[i].totalAmount]
  OBVIOUS
<1>3. Revenue(S) = Sum(f, S)
  BY <1>2, SumOfFunction DEF Revenue
<1>4. \A i \in S : f[i] = TotalAmounts[i]
  BY <1>2 DEF TotalAmounts
<1>5. Sum(f, S) = Sum(TotalAmounts, S)
  BY <1>1, <1>4, SumCongruent
<1>6. \A i \in S : TotalAmounts[i] \in Nat
  BY ReportTypes DEF TotalAmounts
<1> QED BY <1>1, <1>3, <1>5, <1>6

\* The days' revenues are of orders of the period, each counted once.
LEMMA DaysEarnWithinThePeriod ==
  ASSUME ReportsOK
  PROVE  SumFunction([n \in 0..(TrendDays - 1) |-> Revenue(DayOrders(n))]) <= Revenue(PeriodOrders)
<1>1. PICK days : days = 0..(TrendDays - 1)
  OBVIOUS
<1>2. IsFiniteSet(days)
  <2>1. TrendDays - 1 \in Int
    BY BrandReportsAssumption
  <2> QED BY <1>1, <2>1, FS_Interval
<1>3. PICK D : D = UNION {DayOrders(n) : n \in days}
  OBVIOUS
<1>4. D \subseteq PeriodOrders /\ PeriodOrders \subseteq DOMAIN ordered
  BY <1>1, <1>3, DaysOfPeriod DEF PeriodOrders, OfBrand
<1>5. PICK g : g = [i \in D |-> CHOOSE n \in days : i \in DayOrders(n)]
  OBVIOUS
<1>6. \A i \in D : g[i] \in days /\ i \in DayOrders(g[i])
  BY <1>3, <1>5
<1>7. \A n \in days : {i \in D : g[i] = n} = DayOrders(n)
  BY <1>1, <1>3, <1>6, DaysOfPeriod
<1>8. IsFiniteSet(D) /\ \A i \in D : TotalAmounts[i] \in Nat
  BY <1>4, RevenueIs
<1>9. PICK f : f = [n \in days |-> Sum(TotalAmounts, {i \in D : g[i] = n})]
  OBVIOUS
<1>10. Sum(f, days) = Sum(TotalAmounts, D)
  <2>1. \A i \in D : g[i] \in days /\ TotalAmounts[i] \in Int
    BY <1>6, <1>8
  <2> QED BY <1>2, <1>8, <1>9, <2>1, SumByKey
<1>11. PICK h : h = [n \in days |-> Revenue(DayOrders(n))]
  OBVIOUS
<1>12. \A n \in days : h[n] = f[n]
  <2> TAKE n \in days
  <2>1. DayOrders(n) \in SUBSET DOMAIN ordered
    BY DEF DayOrders, OfBrand
  <2>2. Revenue(DayOrders(n)) = Sum(TotalAmounts, DayOrders(n))
    BY <2>1, RevenueIs
  <2> QED BY <1>7, <1>9, <1>11, <2>2
<1>13. Sum(h, days) = Sum(TotalAmounts, D)
  BY <1>2, <1>10, <1>12, SumCongruent
<1>14. SumFunction(h) = Sum(h, days)
  BY <1>11, SumOfFunction
<1>15. Sum(TotalAmounts, D) <= Sum(TotalAmounts, PeriodOrders)
  <2>1. IsFiniteSet(PeriodOrders) /\ \A i \in PeriodOrders : TotalAmounts[i] \in Nat
    BY <1>4, RevenueIs
  <2> QED BY <1>4, <2>1, SumWithin
<1>16. Revenue(PeriodOrders) = Sum(TotalAmounts, PeriodOrders)
  BY <1>4, RevenueIs
<1> QED BY <1>1, <1>11, <1>13, <1>14, <1>15, <1>16

LEMMA CafesShareTheOrders ==
  ASSUME ReportsOK
  PROVE  SumFunction(cafePerformance) = Cardinality(OfBrand)
<1>1. PICK K : K = ReportCafes \ gone
  OBVIOUS
<1>2. IsFiniteSet(K)
  BY <1>1, BrandReportsAssumption, FS_Subset
<1>3. PICK g : g = [i \in OfBrand |-> ordered[i].cafe]
  OBVIOUS
<1>4. \A i \in OfBrand : g[i] \in K
  BY <1>1, <1>3, ReportTypes DEF OfBrand
<1>5. IsFiniteSet(OfBrand)
  BY ReportTypes, FS_Subset DEF OfBrand
<1>6. PICK f : f = [k \in K |-> Cardinality({i \in OfBrand : g[i] = k})]
  OBVIOUS
<1>7. Sum(f, K) = Cardinality(OfBrand)
  BY <1>2, <1>4, <1>5, <1>6, CountedByKey
<1>8. \A k \in K : {i \in OfBrand : ordered[i].cafe = k} = {i \in OfBrand : g[i] = k}
  BY <1>3
<1>9. \A k \in K : cafePerformance[k] = f[k]
  BY <1>1, <1>6, <1>8 DEF cafePerformance
<1>10. DOMAIN cafePerformance = K
  BY <1>1 DEF cafePerformance
<1>11. Sum(cafePerformance, K) = Sum(f, K)
  BY <1>2, <1>9, SumCongruent
<1> QED BY <1>7, <1>10, <1>11, SumOfFunction

LEMMA ItemsAreFinite == IsFiniteSet(Items)
<1>1. PICK domains : domains = {DOMAIN basket : basket \in Baskets}
  OBVIOUS
<1>2. IsFiniteSet(domains)
  <2>1. PICK f : f = [basket \in Baskets |-> DOMAIN basket]
    OBVIOUS
  <2>2. f \in [Baskets -> domains] /\ \A d \in domains : \E basket \in Baskets : f[basket] = d
    BY <1>1, <2>1
  <2>3. f \in Surjection(Baskets, domains)
    BY <2>2 DEF Surjection
  <2> QED BY <2>3, BrandReportsAssumption, FS_Surjection
<1>3. \A d \in domains : IsFiniteSet(d)
  BY <1>1, BrandReportsAssumption
<1>4. IsFiniteSet(UNION domains)
  BY <1>2, <1>3, FS_UNION
<1> QED BY <1>1, <1>4 DEF Items

LEMMA CountIsNatural ==
  ASSUME ReportsOK, NEW item \in Items
  PROVE  Count(item) \in Nat
<1>1. PICK f : f = [i \in OfBrand |-> IF item \in DOMAIN ordered[i].items THEN ordered[i].items[item] ELSE 0]
  OBVIOUS
<1>2. \A i \in OfBrand : f[i] \in Nat
  <2> TAKE i \in OfBrand
  <2>1. ordered[i].items \in Baskets
    BY ReportTypes DEF OfBrand
  <2>2. ordered[i].items \in [DOMAIN ordered[i].items -> Nat]
    BY <2>1, BrandReportsAssumption
  <2> QED BY <1>1, <2>2
<1>3. IsFiniteSet(OfBrand)
  BY ReportTypes, FS_Subset DEF OfBrand
<1>4. Sum(f, OfBrand) \in Nat
  BY <1>2, <1>3, SumNatural
<1> QED BY <1>1, <1>4, SumOfFunction DEF Count

\* A part of a whole, in hundredths of a percent.
LEMMA ShareRounded ==
  ASSUME NEW w \in Nat, NEW c \in Nat, NEW t \in Nat, t > 0, NEW p \in Int, p = (w * c + t) \div (2 * t)
  PROVE  (2 * t) * p <= w * c + t /\ w * c + t <= (2 * t) * p + 2 * t
<1>1. PICK n \in Nat : n = 2 * t /\ n > 0
  OBVIOUS
<1>2. PICK m \in Int : m = w * c + t
  OBVIOUS
<1>3. p = m \div n
  BY <1>1, <1>2
<1>4. PICK r \in Int : r = m % n
  BY <1>1
<1>5. m = p * n + r /\ 0 <= r /\ r < n
  BY <1>1, <1>3, <1>4
<1>6. PICK x \in Int : x = p * n
  OBVIOUS
<1>7. n * p = x
  BY <1>6
<1>8. x <= m /\ m <= x + n
  BY <1>5, <1>6
<1> QED BY <1>1, <1>2, <1>7, <1>8

\* The percentages of all items add up to 100, but for what rounding adds or takes.
LEMMA PercentagesAddUp ==
  ASSUME ReportsOK, TotalItems > 0
  PROVE  SumFunction([item \in Items |-> percentage(item)]) - AllHundredths \in -Cardinality(Items)..Cardinality(Items)
<1>0. PICK a \in Nat : a = AllHundredths
  BY DEF AllHundredths
<1>a. PICK w \in Nat : w = 2 * a
  OBVIOUS
<1>1. PICK c : c = [item \in Items |-> Count(item)]
  OBVIOUS
<1>2. IsFiniteSet(Items) /\ \A item \in Items : c[item] \in Nat
  BY <1>1, ItemsAreFinite, CountIsNatural
<1>3. PICK t \in Nat : t = TotalItems /\ t = Sum(c, Items) /\ t > 0
  <2>1. Sum(c, Items) \in Nat
    BY <1>2, SumNatural
  <2> QED BY <1>1, <2>1, SumOfFunction DEF TotalItems
<1>4. PICK f : f = [item \in Items |-> percentage(item)]
  OBVIOUS
<1>5. \A item \in Items : f[item] = (w * c[item] + t) \div (2 * t)
  <2> TAKE item \in Items
  <2>1. f[item] = percentage(item) /\ Count(item) = c[item] /\ TotalItems = t /\ t # 0
    BY <1>1, <1>3, <1>4
  <2>2. f[item] = (2 * a * c[item] + t) \div (2 * t)
    BY <1>0, <2>1 DEF percentage
  <2> QED BY <1>a, <2>2
<1>6. PICK d \in Nat : d = 2 * t /\ d > 0
  BY <1>3
<1>7. \A item \in Items : f[item] \in Int
  BY <1>2, <1>3, <1>5
<1>8. PICK low : low = [item \in Items |-> d * f[item] + 0]
  OBVIOUS
<1>9. PICK exact : exact = [item \in Items |-> w * c[item] + t]
  OBVIOUS
<1>10. PICK high : high = [item \in Items |-> d * f[item] + d]
  OBVIOUS
<1>11. \A item \in Items : /\ low[item] \in Int /\ exact[item] \in Int /\ high[item] \in Int
                           /\ low[item] <= exact[item] /\ exact[item] <= high[item]
  <2> TAKE item \in Items
  <2>1. PICK x \in Nat, y \in Int : x = c[item] /\ y = f[item]
    BY <1>2, <1>7
  <2>2. y = (w * x + t) \div (2 * t)
    BY <1>5, <2>1
  <2>3. (2 * t) * y <= w * x + t /\ w * x + t <= (2 * t) * y + 2 * t
    BY <1>3, <2>2, ShareRounded
  <2>4. PICK z \in Int : z = d * y
    OBVIOUS
  <2>5. low[item] = z /\ exact[item] = w * x + t /\ high[item] = z + d
    BY <1>8, <1>9, <1>10, <2>1, <2>4
  <2>6. z <= w * x + t /\ w * x + t <= z + d
    BY <1>6, <2>3, <2>4
  <2> QED BY <2>5, <2>6
<1>12. Sum(low, Items) <= Sum(exact, Items)
  BY <1>2, <1>11, SumMonotone
<1>13. Sum(exact, Items) <= Sum(high, Items)
  BY <1>2, <1>11, SumMonotone
<1>14. PICK s \in Int : s = Sum(f, Items)
  BY <1>2, <1>7, SumTyped
<1>15. PICK k \in Nat : k = Cardinality(Items)
  BY <1>2, FS_CardinalityType
<1>16. Sum(low, Items) = d * s + k * 0
  <2>1. \A item \in Items : low[item] = d * f[item] + 0
    BY <1>8
  <2> QED BY <1>2, <1>7, <1>14, <1>15, <2>1, SumLinear
<1>17. Sum(high, Items) = d * s + k * d
  <2>1. \A item \in Items : high[item] = d * f[item] + d
    BY <1>10
  <2> QED BY <1>2, <1>7, <1>14, <1>15, <2>1, SumLinear
<1>18. Sum(exact, Items) = w * t + k * t
  <2>1. \A item \in Items : exact[item] = w * c[item] + t
    BY <1>9
  <2>2. \A item \in Items : c[item] \in Int
    BY <1>2
  <2> QED BY <1>2, <1>3, <1>15, <2>1, <2>2, SumLinear
<1>19. d * s = (2 * s) * t /\ k * d = (2 * k) * t
  BY <1>6
<1>20. (2 * s) * t <= (w + k) * t
  <2>1. (w + k) * t = w * t + k * t
    OBVIOUS
  <2>2. PICK x \in Int, y \in Int : x = d * s /\ y = k * t
    OBVIOUS
  <2> QED BY <1>12, <1>16, <1>18, <1>19, <2>1, <2>2
<1>21. (w + k) * t <= (2 * s + 2 * k) * t
  <2>1. (w + k) * t = w * t + k * t
    OBVIOUS
  <2>2. (2 * s + 2 * k) * t = (2 * s) * t + (2 * k) * t
    OBVIOUS
  <2> QED BY <1>13, <1>17, <1>18, <1>19, <2>1, <2>2
<1>22. 2 * s <= w + k
  <2>1. ~(w + k < 2 * s)
    <3>1. ASSUME w + k < 2 * s PROVE FALSE
      <4>1. (w + k + 1) * t <= (2 * s) * t
        <5>1. w + k + 1 \in Int /\ 2 * s \in Int /\ w + k + 1 <= 2 * s
          BY <3>1
        <5> QED BY <5>1, ProductsOrdered
      <4>2. (w + k + 1) * t = (w + k) * t + t
        OBVIOUS
      <4>3. PICK x \in Int, y \in Int : x = (w + k) * t /\ y = (2 * s) * t
        OBVIOUS
      <4> QED BY <1>3, <1>20, <4>1, <4>2, <4>3
    <3> QED BY <3>1
  <2> QED BY <2>1
<1>23. w + k <= 2 * s + 2 * k
  <2>1. ~(2 * s + 2 * k < w + k)
    <3>1. ASSUME 2 * s + 2 * k < w + k PROVE FALSE
      <4>1. (2 * s + 2 * k + 1) * t <= (w + k) * t
        <5>1. 2 * s + 2 * k + 1 \in Int /\ w + k \in Int /\ 2 * s + 2 * k + 1 <= w + k
          BY <3>1
        <5> QED BY <5>1, ProductsOrdered
      <4>2. (2 * s + 2 * k + 1) * t = (2 * s + 2 * k) * t + t
        OBVIOUS
      <4>3. PICK x \in Int, y \in Int : x = (w + k) * t /\ y = (2 * s + 2 * k) * t
        OBVIOUS
      <4> QED BY <1>3, <1>21, <4>1, <4>2, <4>3
    <3> QED BY <3>1
  <2> QED BY <2>1
<1>24. s - AllHundredths \in (-k)..k
  BY <1>0, <1>a, <1>22, <1>23
<1>25. SumFunction(f) = s
  BY <1>4, <1>14, SumOfFunction
<1> QED BY <1>4, <1>15, <1>24, <1>25

LEMMA BrandReportsInitially == BrandReportsInit => ReportsOK
BY DEF BrandReportsInit, ReportsOK

LEMMA BrandReportsStep ==
  ASSUME ReportsOK, [BrandReportsNext]_rpvars
  PROVE  ReportsOK'
<1>1. CASE UNCHANGED rpvars
  BY <1>1 DEF rpvars, ReportsOK
<1>2. ASSUME NEW cafe \in ReportCafes, NEW basket \in Baskets, OrderIsMade(cafe, basket) PROVE ReportsOK'
  <2>1. SumFunction(basket) \in Nat
    <3>1. IsFiniteSet(DOMAIN basket) /\ \A item \in DOMAIN basket : basket[item] \in Nat
      BY BrandReportsAssumption
    <3>2. Sum(basket, DOMAIN basket) \in Nat
      BY <3>1, SumNatural
    <3> QED BY <3>2, SumOfFunction
  <2>2. PICK e \in ReportedOrder :
          e = [cafe |-> cafe, at |-> clock, items |-> basket, totalAmount |-> SumFunction(basket)]
    BY <2>1, ReportTypes DEF ReportedOrder
  <2>3. ordered' = Append(ordered, e) /\ clock' = clock /\ e.at = clock
    BY <1>2, <2>2 DEF OrderIsMade
  <2>4. PICK n \in Nat : n = Len(ordered) /\ DOMAIN ordered = 1..n
    BY DEF ReportsOK
  <2>5. /\ ordered' \in Seq(ReportedOrder) /\ DOMAIN ordered' = 1..(n + 1)
        /\ \A i \in 1..n : ordered'[i] = ordered[i]
        /\ ordered'[n + 1] = e
    BY <2>2, <2>3, <2>4 DEF ReportsOK
  <2>6. \A i \in 1..(n + 1) : ordered'[i].at <= clock
    BY <2>3, <2>4, <2>5, ReportTypes DEF ReportsOK
  <2> QED BY <2>3, <2>5, <2>6 DEF ReportsOK
<1>3. ASSUME NEW cafe \in ReportCafes, CafeGoes(cafe) PROVE ReportsOK'
  BY <1>3 DEF CafeGoes, ReportsOK
<1>4. CASE ClockTicks
  <2>1. clock' = clock + 1 /\ clock' \in Clock /\ ordered' = ordered
    BY <1>4 DEF ClockTicks
  <2>2. \A i \in DOMAIN ordered : ordered[i].at <= clock + 1
    BY ReportTypes
  <2> QED BY <2>1, <2>2 DEF ReportsOK
<1> QED BY <1>1, <1>2, <1>3, <1>4 DEF BrandReportsNext

LEMMA BrandReportsHold == ReportsOK => BrandReportsAddUp
<1> SUFFICES ASSUME ReportsOK PROVE BrandReportsAddUp
  OBVIOUS
<1>1. UNION {DayOrders(n) : n \in 0..(TrendDays - 1)} \subseteq PeriodOrders
  BY DaysOfPeriod
<1> QED BY <1>1, DaysOfPeriod, MonthsOfYear, DaysEarnWithinThePeriod, CafesShareTheOrders, PercentagesAddUp
        DEF BrandReportsAddUp

\* For any calendar, cafes, baskets and clock: no order is in two days or two months of
\* a brand's reports, none of the period is left out, and what is shown of cafes and
\* items adds up (getMyBrandStats, getBrandOrdersAnalytics, getBrandPopularItemsAnalytics).
THEOREM ReportsOfBrandsAddUp == BrandReportsSpec => []BrandReportsAddUp
<1>1. BrandReportsInit => ReportsOK
  BY BrandReportsInitially
<1>2. ReportsOK /\ [BrandReportsNext]_rpvars => ReportsOK'
  BY BrandReportsStep
<1>3. ReportsOK => BrandReportsAddUp
  BY BrandReportsHold
<1> QED BY <1>1, <1>2, <1>3, PTL DEF BrandReportsSpec
-----------------------------------------------------------------------------
(* The back office as a whole: its modules side by side, of which the focus   *)
(* says the one that moves.                                                  *)

TasksFoci == {"undo", "summary", "statistics"}
LayoutFoci == {"editors", "occupancy"}

\* The module that moves keeps its invariant; of the others stands what they began with.
BackofficeIInv ==
  /\ IF focus \in TasksFoci THEN TasksIInv ELSE TasksTypeOK /\ SummaryIsPossible /\ StatisticsAddUp
  /\ IF focus \in LayoutFoci THEN LayoutIInv /\ OccupancyAddsUp ELSE LayoutTypeOK /\ OccupancyAddsUp
  /\ plan \in Seq(PlanElement)
  /\ IF focus = "reviews" THEN ReviewsIInv ELSE ReviewRowsOK /\ ReviewedOnce /\ rating = Seeded
  /\ IF focus = "cards" THEN CardsIInv ELSE card = << >>
  /\ IF focus = "settings" THEN SettingsIInv ELSE SettingsTypeOK /\ SettingsKeepSections
  /\ IF focus = "shifts" THEN ShiftsIInv ELSE WorkerScheduleTypeOK /\ ShiftsFollowTheSchedule
  /\ ReportsOK

LEMMA OneOfficeMoves ==
  ASSUME [MCNext]_<<tvars, lvars, plan, dvars, rvars, focus>>
  PROVE  /\ focus' = focus
         /\ IF focus \in TasksFoci THEN [TasksNext]_<<tvars, rvars>> ELSE UNCHANGED tvars
         /\ IF focus \in LayoutFoci THEN [LayoutNext]_<<lvars, rvars>> ELSE UNCHANGED lvars
         /\ [PlanNext]_plan
         /\ IF focus = "reviews" THEN [ReviewsNext]_<<rvwvars, rvars>> ELSE UNCHANGED rvwvars
         /\ IF focus = "cards" THEN [PaymentCardsNext]_<<cvars, rvars>> ELSE UNCHANGED cvars
         /\ IF focus = "settings" THEN [SettingsNext]_<<svars, rvars>> ELSE UNCHANGED svars
         /\ IF focus = "shifts" THEN [WorkerScheduleNext]_<<wvars, rvars>> ELSE UNCHANGED wvars
         /\ [BrandReportsNext]_rpvars
<1>1. TasksFocus => focus \in TasksFoci
  BY DEF TasksFocus, TasksFoci
<1>2. LayoutFocus => focus \in LayoutFoci
  BY DEF LayoutFocus, LayoutFoci
<1>3. CASE UNCHANGED <<tvars, lvars, plan, dvars, rvars, focus>>
  BY <1>3 DEF dvars
<1>4. CASE focus' = focus /\ TasksNext /\ TasksFocus /\ UNCHANGED <<lvars, plan, dvars>>
  BY <1>1, <1>4 DEF TasksFoci, LayoutFoci, dvars
<1>5. CASE focus' = focus /\ LayoutNext /\ LayoutFocus /\ UNCHANGED <<tvars, plan, dvars>>
  BY <1>2, <1>5 DEF TasksFoci, LayoutFoci, dvars
<1>6. CASE focus' = focus /\ PlanNext /\ focus = "plan" /\ UNCHANGED <<tvars, lvars, dvars, rvars>>
  BY <1>6 DEF TasksFoci, LayoutFoci, dvars
<1>7. CASE focus' = focus /\ DerivedNext /\ UNCHANGED <<tvars, lvars, plan>>
  BY <1>7 DEF DerivedNext, TasksFoci, LayoutFoci
<1> QED BY <1>3, <1>4, <1>5, <1>6, <1>7 DEF MCNext

LEMMA BackofficeInductive ==
  BackofficeIInv /\ [MCNext]_<<tvars, lvars, plan, dvars, rvars, focus>> => BackofficeIInv'
<1> SUFFICES ASSUME BackofficeIInv, [MCNext]_<<tvars, lvars, plan, dvars, rvars, focus>> PROVE BackofficeIInv'
  OBVIOUS
<1>1. focus' = focus
  BY OneOfficeMoves
<1>2. IF focus \in TasksFoci THEN TasksIInv' ELSE (TasksTypeOK /\ SummaryIsPossible /\ StatisticsAddUp)'
  <2>1. CASE focus \in TasksFoci
    BY <2>1, OneOfficeMoves, TasksInductive DEF BackofficeIInv
  <2>2. CASE focus \notin TasksFoci
    <3>1. UNCHANGED tvars /\ TasksTypeOK /\ SummaryIsPossible /\ StatisticsAddUp
      BY <2>2, OneOfficeMoves DEF BackofficeIInv
    <3>2. TasksTypeOK'
      BY <3>1 DEF tvars, TasksTypeOK
    <3>3. SummaryIsPossible'
      BY <3>1 DEF tvars, SummaryIsPossible
    <3>4. StatisticsAddUp'
      BY <3>1 DEF tvars, StatisticsAddUp
    <3> QED BY <2>2, <3>2, <3>3, <3>4
  <2> QED BY <2>1, <2>2
<1>3. IF focus \in LayoutFoci THEN (LayoutIInv /\ OccupancyAddsUp)' ELSE (LayoutTypeOK /\ OccupancyAddsUp)'
  <2>1. CASE focus \in LayoutFoci
    BY <2>1, OneOfficeMoves, OccupancyKept DEF BackofficeIInv
  <2>2. CASE focus \notin LayoutFoci
    <3>1. UNCHANGED lvars /\ LayoutTypeOK /\ OccupancyAddsUp
      BY <2>2, OneOfficeMoves DEF BackofficeIInv
    <3>2. LayoutTypeOK'
      BY <3>1 DEF lvars, LayoutTypeOK, IsRoom
    <3>3. OccupancyAddsUp'
      BY <3>1 DEF lvars, OccupancyAddsUp
    <3> QED BY <2>2, <3>2, <3>3
  <2> QED BY <2>1, <2>2
<1>4. (plan \in Seq(PlanElement))'
  BY OneOfficeMoves, PlanTyped DEF BackofficeIInv
<1>5. IF focus = "reviews" THEN ReviewsIInv' ELSE (ReviewRowsOK /\ ReviewedOnce /\ rating = Seeded)'
  <2>1. CASE focus = "reviews"
    BY <2>1, OneOfficeMoves, ReviewsInductive DEF BackofficeIInv
  <2>2. CASE focus # "reviews"
    <3>1. UNCHANGED rvwvars /\ ReviewRowsOK /\ ReviewedOnce /\ rating = Seeded
      BY <2>2, OneOfficeMoves DEF BackofficeIInv
    <3> QED BY <2>2, <3>1 DEF rvwvars, ReviewRowsOK, ReviewedOnce, LiveReviews, Seeded
  <2> QED BY <2>1, <2>2
<1>6. IF focus = "cards" THEN CardsIInv' ELSE card' = << >>
  BY OneOfficeMoves, CardsInductive DEF BackofficeIInv, cvars
<1>7. IF focus = "settings" THEN SettingsIInv' ELSE (SettingsTypeOK /\ SettingsKeepSections)'
  <2>1. CASE focus = "settings"
    BY <2>1, OneOfficeMoves, SettingsInductive DEF BackofficeIInv
  <2>2. CASE focus # "settings"
    <3>1. UNCHANGED svars /\ SettingsTypeOK /\ SettingsKeepSections
      BY <2>2, OneOfficeMoves DEF BackofficeIInv
    <3> QED BY <2>2, <3>1 DEF svars, SettingsTypeOK, SettingsKeepSections, findOne, Merged, Current
  <2> QED BY <2>1, <2>2
<1>8. IF focus = "shifts" THEN ShiftsIInv' ELSE (WorkerScheduleTypeOK /\ ShiftsFollowTheSchedule)'
  <2>1. CASE focus = "shifts"
    BY <2>1, OneOfficeMoves, ShiftsInductive DEF BackofficeIInv
  <2>2. CASE focus # "shifts"
    <3>1. UNCHANGED wvars /\ WorkerScheduleTypeOK /\ ShiftsFollowTheSchedule
      BY <2>2, OneOfficeMoves DEF BackofficeIInv
    <3>2. WorkerScheduleTypeOK'
      BY <3>1 DEF wvars, WorkerScheduleTypeOK
    <3>3. \A day : buildEffectiveSegmentsForDay(day)' = buildEffectiveSegmentsForDay(day)
      BY <3>1 DEF wvars, buildEffectiveSegmentsForDay, absenceCoversDate
    <3>4. \A day : EffectiveSegments(day)' = EffectiveSegments(day)
      BY <3>3 DEF EffectiveSegments
    <3>5. \A from, days : buildEffectiveScheduleWindow(from, days)' = buildEffectiveScheduleWindow(from, days)
      BY <3>3 DEF buildEffectiveScheduleWindow
    <3>6. \A on, t : NeedsConfirm(on, t)' = NeedsConfirm(on, t)
      BY <3>1, <3>5 DEF wvars, NeedsConfirm
    <3>7. NeedsConfirm(TRUE, now)' = NeedsConfirm(TRUE, now) /\ NeedsConfirm(FALSE, now)' = NeedsConfirm(FALSE, now)
      BY <3>1, <3>6 DEF wvars
    <3>8. ShiftsFollowTheSchedule'
      BY <3>1, <3>3, <3>4, <3>7 DEF wvars, ShiftsFollowTheSchedule, Day
    <3> QED BY <2>2, <3>2, <3>8
  <2> QED BY <2>1, <2>2
<1>9. ReportsOK'
  BY OneOfficeMoves, BrandReportsStep DEF BackofficeIInv
<1> QED BY <1>1, <1>2, <1>3, <1>4, <1>5, <1>6, <1>7, <1>8, <1>9 DEF BackofficeIInv, TasksFoci, LayoutFoci

LEMMA BackofficeInitially == MCInit => BackofficeIInv
<1> SUFFICES ASSUME MCInit PROVE BackofficeIInv
  OBVIOUS
<1>1. TasksIInv /\ LayoutIInv /\ OccupancyAddsUp /\ plan \in Seq(PlanElement)
  BY TasksInitially, LayoutInitially DEF MCInit, LayoutInit, OccupancyAddsUp, PlanInit
<1>2. TasksTypeOK /\ SummaryIsPossible /\ StatisticsAddUp /\ LayoutTypeOK
  BY <1>1, LayoutTyped DEF TasksIInv, TasksTablesOK
<1>3. ReviewsIInv /\ ReviewRowsOK /\ rating = Seeded
  BY ReviewsInitially DEF MCInit, ReviewsInit, ReviewsIInv, ReviewTablesOK
<1>4. ReviewedOnce
  <2>1. ~ratingRaced /\ faults = 0
    BY DEF MCInit, ReviewsInit, RequestsInit
  <2> QED BY <1>3, <2>1 DEF ReviewsIInv, ReviewsAgree
<1>5. CardsIInv /\ card = << >>
  BY CardsInitially DEF MCInit, PaymentCardsInit
<1>6. SettingsIInv /\ SettingsTypeOK /\ SettingsKeepSections
  BY SettingsInitially, SettingsKept DEF MCInit, SettingsIInv
<1>7. ShiftsIInv /\ WorkerScheduleTypeOK /\ ShiftsFollowTheSchedule
  BY ShiftsInitially, ScheduleFollowed DEF MCInit, ShiftsIInv
<1>8. ReportsOK
  BY BrandReportsInitially DEF MCInit
<1> QED BY <1>1, <1>2, <1>3, <1>4, <1>5, <1>6, <1>7, <1>8 DEF BackofficeIInv

LEMMA BackofficeParts ==
  BackofficeIInv => /\ TasksTypeOK /\ SummaryIsPossible /\ StatisticsAddUp
                    /\ LayoutTypeOK /\ OccupancyAddsUp
                    /\ BoundsCoverThePlan
                    /\ ReviewsTypeOK /\ RatingFollowsReviews
                    /\ PaymentCardsTypeOK /\ OneDefaultCard
                    /\ SettingsTypeOK /\ SettingsKeepSections
                    /\ WorkerScheduleTypeOK /\ ShiftsFollowTheSchedule
                    /\ BrandReportsAddUp
<1> SUFFICES ASSUME BackofficeIInv
             PROVE  /\ TasksTypeOK /\ SummaryIsPossible /\ StatisticsAddUp
                    /\ LayoutTypeOK /\ OccupancyAddsUp
                    /\ BoundsCoverThePlan
                    /\ ReviewsTypeOK /\ RatingFollowsReviews
                    /\ PaymentCardsTypeOK /\ OneDefaultCard
                    /\ SettingsTypeOK /\ SettingsKeepSections
                    /\ WorkerScheduleTypeOK /\ ShiftsFollowTheSchedule
                    /\ BrandReportsAddUp
  OBVIOUS
<1>1. TasksTypeOK /\ SummaryIsPossible /\ StatisticsAddUp
  BY DEF BackofficeIInv, TasksIInv, TasksTablesOK
<1>2. LayoutTypeOK /\ OccupancyAddsUp
  BY LayoutTyped DEF BackofficeIInv
<1>3. BoundsCoverThePlan
  BY BoundsCover DEF BackofficeIInv
<1>4. ReviewsTypeOK
  <2>1. ReviewRowsOK
    BY DEF BackofficeIInv, ReviewsIInv, ReviewTablesOK
  <2> QED BY <2>1 DEF ReviewRowsOK, ReviewsTypeOK
<1>5. RatingFollowsReviews
  <2>1. CASE focus = "reviews"
    BY <2>1, RatingFollows DEF BackofficeIInv
  <2>2. CASE focus # "reviews"
    <3>1. ReviewRowsOK /\ ReviewedOnce /\ rating = Seeded
      BY <2>2 DEF BackofficeIInv
    <3>2. ASSUME NEW i \in LiveReviews, NEW j \in LiveReviews, review[i].user = review[j].user,
                 {review[i].order, review[j].order} = {NoOrder}
          PROVE  i = j
      <4>1. review[i].order = NoOrder /\ review[j].order = NoOrder
        BY <3>2
      <4> QED BY <3>1, <3>2, <4>1 DEF ReviewedOnce
    <3> QED BY <3>1, <3>2 DEF ReviewRowsOK, RatingFollowsReviews
  <2> QED BY <2>1, <2>2
<1>6. PaymentCardsTypeOK
  <2>1. card = << >> => PaymentCardsTypeOK
    BY PaymentCardsAssumption DEF PaymentCardsTypeOK
  <2> QED BY <2>1 DEF BackofficeIInv, CardsIInv, CardsTablesOK, PaymentCardsTypeOK
<1>7. OneDefaultCard
  <2>1. card = << >> => LiveCards = {}
    BY DEF LiveCards
  <2>2. card = << >> => OneDefaultCard
    BY <2>1 DEF OneDefaultCard
  <2>3. CardsIInv => OneDefaultCard
    BY RestIsTyped DEF CardsIInv, CardsAgree, OneDefaultCard, CardHandlerOK, DefaultCards
  <2> QED BY <2>2, <2>3 DEF BackofficeIInv
<1>8. SettingsTypeOK /\ SettingsKeepSections
  BY SettingsKept DEF BackofficeIInv, SettingsIInv
<1>9. WorkerScheduleTypeOK /\ ShiftsFollowTheSchedule
  BY ScheduleFollowed DEF BackofficeIInv, ShiftsIInv
<1>10. BrandReportsAddUp
  BY BrandReportsHold DEF BackofficeIInv
<1> QED BY <1>1, <1>2, <1>3, <1>4, <1>5, <1>6, <1>7, <1>8, <1>9, <1>10

\* In the back office as a whole, whatever module moves, every table keeps to its types
\* and bounds.
THEOREM BackofficeIsTyped == BackofficeSpec => []BackofficeTypeOK
<1>1. BackofficeIInv => BackofficeTypeOK
  BY BackofficeParts DEF BackofficeTypeOK
<1> QED BY <1>1, BackofficeInitially, BackofficeInductive, PTL DEF BackofficeSpec

\* Whatever module moves, every report of the back office adds up: the tasks done of a
\* cafe, its statistics, its occupancy, its plan and the orders of its brand.
THEOREM AllReportsAddUp == BackofficeSpec => []ReportsAddUp
<1>1. BackofficeIInv => ReportsAddUp
  BY BackofficeParts DEF ReportsAddUp
<1> QED BY <1>1, BackofficeInitially, BackofficeInductive, PTL DEF BackofficeSpec

\* Whatever module moves, what the code derives and stores follows the rows: ratings,
\* default cards, merged settings and shifts.
THEOREM DerivedDataAlwaysAgrees == BackofficeSpec => []DerivedDataAgrees
<1>1. BackofficeIInv => DerivedDataAgrees
  BY BackofficeParts DEF DerivedDataAgrees
<1> QED BY <1>1, BackofficeInitially, BackofficeInductive, PTL DEF BackofficeSpec
=============================================================================
