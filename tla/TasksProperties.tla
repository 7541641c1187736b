-------------------------- MODULE TasksProperties --------------------------
(* What Tasks must guarantee.                                                *)
EXTENDS Tasks

TasksTypeOK ==
  /\ template \in [Templates -> Template]
  /\ completion \subseteq Completion
  /\ completed \in 0..MaxCompletions

\* getCafeDailyTaskSummary counts what getWorkerTasks read in two statements for
\* each worker, all at once: however templates and completions change between
\* the reads, a cafe never has more tasks done than it has tasks.
SummaryIsPossible == summary.completedTasks <= summary.totalTasks

\* getStatistics reads the completions before the templates: its figures by
\* task and by worker add up to the total, and no more tasks are reported than
\* there are templates, although templates are created and deactivated meanwhile.
StatisticsAddUp ==
  LET Totals(stats) == SumFunction([k \in DOMAIN stats |-> stats[k].completions])
      Timed(stats) == SumFunction([k \in DOMAIN stats |-> stats[k].durationCount])
  IN /\ Totals(statistics.taskStats) = statistics.totalCompletions
     /\ Totals(statistics.workerStats) = statistics.totalCompletions
     /\ Timed(statistics.taskStats) = Timed(statistics.workerStats)
     /\ Cardinality(DOMAIN statistics.taskStats) <= statistics.totalTemplates

\* A completion that vanishes is one that a worker had seen when asking to undo
\* it: an undo that is late never removes what was completed again meanwhile.
UncompleteUndoesWhatItRead ==
  [][\A c \in completion \ completion' : \E p \in Procs : In(p, "uncomplete") /\ handler[p].row = c]_<<tvars, rvars>>
=============================================================================
