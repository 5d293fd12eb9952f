------------------------- MODULE PipelineValidation -------------------------
(***************************************************************************)
(* The cycle check of validatePipelineDefinition                           *)
(* (go/internal/store/workloads.go): a depth-first search that marks jobs  *)
(* visiting while they are on the call calls and visited once all their    *)
(* dependencies are.  Each call of visit() is one or more steps of this    *)
(* machine.  The roots come from ranging over a map, so their order is     *)
(* arbitrary; DependsOn is taken in arbitrary order as well.               *)
(***************************************************************************)
EXTENDS PipelineGraph, Sequences

VARIABLES
  graph,     \* the submitted graph
  calls,     \* the calls of visit() in progress: [name, todo]
  visiting,  \* the two maps of the code, as sets
  visited,
  verdict    \* "searching", "accepted" or "rejected"

searchVars == <<graph, calls, visiting, visited, verdict>>

\* The loop before the search has refused dependencies on unknown jobs and
\* on the job itself.
SearchInit ==
  /\ graph \in Graphs
  /\ calls = <<>> /\ visiting = {} /\ visited = {}
  /\ verdict = "searching"

top == calls[Len(calls)]

pop == SubSeq(calls, 1, Len(calls) - 1)

\* Mutation: a job that is being visited is taken as done.
visitIgnoringVisiting(name, rest) ==
  IF name \in visiting \cup visited
  THEN calls' = rest /\ UNCHANGED <<visiting, verdict>>
  ELSE /\ calls' = Append(rest, [name |-> name, todo |-> graph[name]])
       /\ visiting' = visiting \cup {name}
       /\ UNCHANGED verdict

\* Entering visit(name) with the given frames below it: a job on the stack
\* closes a cycle, a finished job returns at once, any other is opened.
visit(name, rest) ==
  IF name \in visiting
  THEN verdict' = "rejected" /\ UNCHANGED <<calls, visiting>>
  ELSE IF name \in visited
  THEN calls' = rest /\ UNCHANGED <<visiting, verdict>>
  ELSE /\ calls' = Append(rest, [name |-> name, todo |-> graph[name]])
       /\ visiting' = visiting \cup {name}
       /\ UNCHANGED verdict

\* The loop over byName calls visit for a job; a job already visited only
\* returns true, so the roots that matter are the others.
Root(name) ==
  /\ verdict = "searching" /\ calls = <<>>
  /\ name \in DOMAIN graph \ visited
  /\ visit(name, <<>>)
  /\ UNCHANGED <<graph, visited>>

\* The innermost call looks at its next dependency.
Descend(parent) ==
  /\ verdict = "searching" /\ calls # <<>>
  /\ parent \in top.todo
  /\ visit(parent, Append(pop, [top EXCEPT !.todo = @ \ {parent}]))
  /\ UNCHANGED <<graph, visited>>

\* Mutation: visiting is not reset when the call returns.
FinishStillVisiting ==
  /\ verdict = "searching" /\ calls # <<>>
  /\ top.todo = {}
  /\ visited' = visited \cup {top.name}
  /\ calls' = pop
  /\ UNCHANGED <<graph, visiting, verdict>>

\* Mutation: visited is not set when the call returns.
FinishUnvisited ==
  /\ verdict = "searching" /\ calls # <<>>
  /\ top.todo = {}
  /\ visiting' = visiting \ {top.name}
  /\ calls' = pop
  /\ UNCHANGED <<graph, visited, verdict>>

\* The innermost call has seen all dependencies and returns true.
Finish ==
  /\ verdict = "searching" /\ calls # <<>>
  /\ top.todo = {}
  /\ visiting' = visiting \ {top.name}
  /\ visited' = visited \cup {top.name}
  /\ calls' = pop
  /\ UNCHANGED <<graph, verdict>>

Accept ==
  /\ verdict = "searching" /\ calls = <<>> /\ visited = DOMAIN graph
  /\ verdict' = "accepted"
  /\ UNCHANGED <<graph, calls, visiting, visited>>

SearchNext ==
  \/ \E name \in Jobs : Root(name) \/ Descend(name)
  \/ Finish
  \/ Accept

\* The search is a loop of one goroutine and keeps running.
SearchSpec == SearchInit /\ [][SearchNext]_searchVars /\ WF_searchVars(SearchNext)

-----------------------------------------------------------------------------
\* The search accepts no graph with a cycle, in whatever order the roots and
\* dependencies are taken: a job is marked visited only after all of its
\* dependencies.
AcceptedIsAcyclic == verdict = "accepted" => Acyclic(graph)

\* The search refuses only graphs with a cycle: meeting a job again on
\* another branch of a diamond is no cycle.
RejectedIsCyclic == verdict = "rejected" => ~Acyclic(graph)

\* Every search ends with a verdict.
Decides == <>(verdict # "searching")
=============================================================================
