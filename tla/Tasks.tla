------------------------------- MODULE Tasks -------------------------------
(* The daily tasks of a cafe (tasks.service.ts): templates, the completions   *)
(* of its workers, and the summaries that are counted over several reads.     *)
EXTENDS Requests, FiniteSetsExt, Functions

CONSTANTS
  Templates, Employees, EmployeeRole,
  Days, \* dates YYYY-MM-DD; the day of the week is the date's remainder
  Forms, \* the templates that requests describe
  Given, \* sets of fields that an update may hold
  MaxCompletions \* bound

VARIABLES
  template,   \* task_templates
  completion, \* task_completions
  completed,  \* how many completions were ever inserted: the last id
  summary,    \* the last answer of getCafeDailyTaskSummary
  statistics  \* the last answer of getStatistics

tvars == <<template, completion, completed, summary, statistics>>

AssignmentTypes == {"ALL_WORKERS", "SPECIFIC_WORKERS", "ROLE_BASED"}
Template == [status : {"none", "active", "inactive"}, assignmentType : AssignmentTypes,
             assignedWorkerIds : SUBSET Employees, assignedRoles : SUBSET {EmployeeRole[w] : w \in Employees},
             daysOfWeek : SUBSET {0, 1}, requiresPhoto : BOOLEAN]

\* An update never holds isActive.
ASSUME TasksAssumption ==
  /\ IsFiniteSet(Templates) /\ IsFiniteSet(Employees)
  /\ MaxCompletions \in Nat
  /\ Forms \subseteq Template
  /\ \A given \in Given : "status" \notin given

NoTemplate == [status |-> "none", assignmentType |-> "ALL_WORKERS", assignedWorkerIds |-> {},
               assignedRoles |-> {}, daysOfWeek |-> {}, requiresPhoto |-> FALSE]

Completion == [id : 1..MaxCompletions, template : Templates, worker : Employees, date : Days,
               durationMinutes : {0, 10}]

NoStatistics == [totalCompletions |-> 0, taskStats |-> << >>, workerStats |-> << >>, totalTemplates |-> 0]

TasksInit ==
  /\ template = [t \in Templates |-> NoTemplate]
  /\ completion = {} /\ completed = 0
  /\ summary = [totalTasks |-> 0, completedTasks |-> 0]
  /\ statistics = NoStatistics

dayOfWeekIso(date) == date % 2

isAssigned(t, w) ==
  CASE template[t].assignmentType = "ALL_WORKERS" -> TRUE
    [] template[t].assignmentType = "SPECIFIC_WORKERS" -> w \in template[t].assignedWorkerIds
    [] template[t].assignmentType = "ROLE_BASED" -> EmployeeRole[w] \in template[t].assignedRoles

\* The first statement of getWorkerTasks, filtered by the day of the week.
filteredTemplates(w, date) ==
  {t \in Templates :
     /\ template[t].status = "active"
     /\ isAssigned(t, w)
     /\ template[t].daysOfWeek = {} \/ dayOfWeekIso(date) \in template[t].daysOfWeek}

-----------------------------------------------------------------------------
(* Mutants.                                                                  *)

\* Every completion of the day counts.
CompletionsOfDay(w, date, templates) == {c \in completion : c.worker = w /\ c.date = date}

\* The date is parsed as UTC and falls on the day before.
InsertShifted(p) ==
  LET row == handler[p].row IN
  /\ In(p, "complete")
  /\ completed < MaxCompletions
  /\ completed' = completed + 1
  /\ completion' = completion \cup
       {[id |-> completed + 1, template |-> row.template, worker |-> row.worker,
         date |-> row.date - 1, durationMinutes |-> row.durationMinutes]}
  /\ Finish(p)
  /\ UNCHANGED <<template, summary, statistics>>

\* Every task and worker counts once.
DurationsOnce(cs) ==
  [completions |-> 1, durationCount |-> Cardinality({c \in cs : c.durationMinutes # 0})]

\* The row is looked up again by its key.
UncompleteByKey(p) ==
  LET row == handler[p].row IN
  /\ In(p, "uncomplete")
  /\ completion' = {c \in completion :
       ~(c.template = row.template /\ c.worker = row.worker /\ c.date = row.date)}
  /\ Finish(p)
  /\ UNCHANGED <<template, completed, summary, statistics>>

\* Its second statement, of the templates it has read.
completionsOf(w, date, templates) ==
  {c \in completion : c.worker = w /\ c.date = date /\ c.template \in templates}

-----------------------------------------------------------------------------
(* createTemplate, updateTemplate, deactivateTemplate.                       *)

createTemplate(t, new) ==
  /\ template[t].status = "none"
  /\ new.assignmentType = "SPECIFIC_WORKERS" => new.assignedWorkerIds # {}
  /\ new.assignmentType = "ROLE_BASED" => new.assignedRoles # {}
  /\ template' = [template EXCEPT ![t] = [new EXCEPT !.status = "active"]]
  /\ UNCHANGED <<completion, completed, summary, statistics, rvars>>

\* Only what the request holds is checked and written: "given" holds the fields.
updateTemplate(t, given, new) ==
  /\ template[t].status # "none"
  /\ {"assignmentType", "assignedWorkerIds"} \subseteq given /\ new.assignmentType = "SPECIFIC_WORKERS"
       => new.assignedWorkerIds # {}
  /\ {"assignmentType", "assignedRoles"} \subseteq given /\ new.assignmentType = "ROLE_BASED"
       => new.assignedRoles # {}
  /\ template' = [template EXCEPT ![t] = [f \in DOMAIN @ |-> IF f \in given THEN new[f] ELSE @[f]]]
  /\ UNCHANGED <<completion, completed, summary, statistics, rvars>>

deactivateTemplate(t) ==
  /\ template[t].status # "none"
  /\ template' = [template EXCEPT ![t].status = "inactive"]
  /\ UNCHANGED <<completion, completed, summary, statistics, rvars>>

-----------------------------------------------------------------------------
(* completeTask and uncompleteTask.                                          *)

\* The day of the week is not among the checks.
CompleteRead(p, t, w, date, photo, duration) ==
  /\ Idle(p)
  /\ template[t].status = "active"
  /\ isAssigned(t, w)
  /\ template[t].requiresPhoto => photo
  /\ Become(p, [pc |-> "complete",
                row |-> [template |-> t, worker |-> w, date |-> date, durationMinutes |-> duration]])
  /\ UNCHANGED tvars

\* Unique on template, worker and date: the second insert is refused.
CompleteInsert(p) ==
  LET row == handler[p].row IN
  /\ In(p, "complete")
  /\ IF \E c \in completion : c.template = row.template /\ c.worker = row.worker /\ c.date = row.date
     THEN UNCHANGED <<completion, completed>>
     ELSE /\ completed < MaxCompletions
          /\ completed' = completed + 1
          /\ completion' = completion \cup
               {[id |-> completed + 1, template |-> row.template, worker |-> row.worker,
                 date |-> row.date, durationMinutes |-> row.durationMinutes]}
  /\ Finish(p)
  /\ UNCHANGED <<template, summary, statistics>>

UncompleteRead(p, t, w, date) ==
  /\ Idle(p)
  /\ \E c \in completion :
       /\ c.template = t /\ c.worker = w /\ c.date = date
       /\ Become(p, [pc |-> "uncomplete", row |-> c])
  /\ UNCHANGED tvars

\* By id: if the row is gone the delete throws.
UncompleteDelete(p) ==
  /\ In(p, "uncomplete")
  /\ completion' = completion \ {handler[p].row}
  /\ Finish(p)
  /\ UNCHANGED <<template, completed, summary, statistics>>

-----------------------------------------------------------------------------
(* getCafeDailyTaskSummary: getWorkerTasks of every worker at once, each in   *)
(* two reads.                                                                *)

SummaryStart(p, date) ==
  /\ Idle(p)
  /\ Become(p, [pc |-> "summary", date |-> date, read |-> << >>, done |-> << >>])
  /\ UNCHANGED tvars

SummaryReadTemplates(p, w) ==
  LET h == handler[p] IN
  /\ In(p, "summary")
  /\ w \notin DOMAIN h.read
  /\ Become(p, [h EXCEPT !.read = [v \in DOMAIN h.read \cup {w} |->
       IF v = w THEN filteredTemplates(w, h.date) ELSE h.read[v]]])
  /\ UNCHANGED tvars

SummaryReadCompletions(p, w) ==
  LET h == handler[p] IN
  /\ In(p, "summary")
  /\ w \in DOMAIN h.read /\ w \notin DOMAIN h.done
  /\ Become(p, [h EXCEPT !.done = [v \in DOMAIN h.done \cup {w} |->
       IF v = w THEN Cardinality({c.template : c \in completionsOf(w, h.date, h.read[w])}) ELSE h.done[v]]])
  /\ UNCHANGED tvars

SummaryAnswer(p) ==
  LET h == handler[p] IN
  /\ In(p, "summary")
  /\ DOMAIN h.done = Employees
  /\ summary' = [totalTasks |-> SumFunction([w \in Employees |-> Cardinality(h.read[w])]),
                 completedTasks |-> SumFunction(h.done)]
  /\ Finish(p)
  /\ UNCHANGED <<template, completion, completed, statistics>>

-----------------------------------------------------------------------------
(* getStatistics: the completions of a range of dates, then the templates.   *)

Durations(cs) ==
  [completions |-> Cardinality(cs), durationCount |-> Cardinality({c \in cs : c.durationMinutes # 0})]

StatisticsRead(p, from, to) ==
  /\ Idle(p)
  /\ Become(p, [pc |-> "statistics", rows |-> {c \in completion : from <= c.date /\ c.date <= to}])
  /\ UNCHANGED tvars

StatisticsAnswer(p) ==
  LET rows == handler[p].rows IN
  /\ In(p, "statistics")
  /\ statistics' =
       [totalCompletions |-> Cardinality(rows),
        taskStats |-> [t \in {c.template : c \in rows} |-> Durations({c \in rows : c.template = t})],
        workerStats |-> [w \in {c.worker : c \in rows} |-> Durations({c \in rows : c.worker = w})],
        totalTemplates |-> Cardinality({t \in Templates : template[t].status # "none"})]
  /\ Finish(p)
  /\ UNCHANGED <<template, completion, completed, summary>>

-----------------------------------------------------------------------------
TemplateRequest ==
  \/ \E t \in Templates, new \in Forms : createTemplate(t, new)
  \/ \E t \in Templates, given \in Given, new \in Forms : updateTemplate(t, given, new)
  \/ \E t \in Templates : deactivateTemplate(t)

WorkerRequest(p) ==
  \/ \E t \in Templates, w \in Employees, date \in Days :
       \E photo \in BOOLEAN, duration \in {0, 10} : CompleteRead(p, t, w, date, photo, duration)
  \/ \E t \in Templates, w \in Employees, date \in Days : UncompleteRead(p, t, w, date)

ReportRequest(p) ==
  \/ \E date \in Days : SummaryStart(p, date)
  \/ \E from \in Days, to \in Days : from <= to /\ StatisticsRead(p, from, to)

TaskContinue(p) ==
  \/ CompleteInsert(p) \/ UncompleteDelete(p)
  \/ \E w \in Employees : SummaryReadTemplates(p, w) \/ SummaryReadCompletions(p, w)
  \/ SummaryAnswer(p) \/ StatisticsAnswer(p)

TasksNext ==
  \/ TemplateRequest
  \/ \E p \in Procs : WorkerRequest(p) \/ ReportRequest(p) \/ TaskContinue(p)
  \/ \E p \in Procs : Dies(p) /\ UNCHANGED tvars

TasksSpec == TasksInit /\ RequestsInit /\ [][TasksNext]_<<tvars, rvars>>
=============================================================================
