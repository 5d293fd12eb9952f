------------------------------- MODULE Agents -------------------------------
(***************************************************************************)
(* Agents, their runtime and the traces it reports.  A turn runs a         *)
(* LangGraph graph, whose checkpointer keeps the messages of a session     *)
(* (its thread), and then reports status and usage to the gateway, which   *)
(* adds them up in the session of the agent.                               *)
(***************************************************************************)
EXTENDS Catalog

CONSTANT MaxTurns   \* bound on the turns of a session

VARIABLES
  thread,  \* thread[s]: how many replies the checkpointer has for session s
  spent    \* spent[a, s]: what the turns of agent a in session s have cost

vars == <<catalogVars, thread, spent>>

AgentsInit == thread = [s \in Sessions |-> 0] /\ spent = [k \in SessionKeys |-> 0]

NoTurn == UNCHANGED <<docker, online, lost, thread, spent>>

NewAgent(n) == [kind |-> "agent", name |-> n, version |-> "", weight |-> 0]

DeployAgent(h, i, n) == Add(h, i, NewAgent(n)) /\ UNCHANGED <<online, lost, thread, spent>>

deployAgent(h) == \E i \in Ids, n \in Names : DeployAgent(h, i, n)

Weighted(row, w) == [row EXCEPT !.weight = w]

SetAgentTraffic(h, i, w) ==
  /\ HasKind(i, "agent") /\ w \in 0..100
  /\ Change(h, i, Weighted(rows[i], w), Absent)
  /\ UNCHANGED <<online, lost, thread, spent>>

agentTraffic(h) == \E i \in Ids, w \in Weights : SetAgentTraffic(h, i, w)

\* A turn through the gateway, or streamed by the runtime to its client.
invokeAgent(h) ==
  \E a \in Ids, s \in Sessions, api \in {"invoke", "stream"} :
    /\ Idle(h) /\ HasKind(a, "agent") /\ thread[s] < MaxTurns
    /\ Goto(h, [at |-> "Turn", name |-> rows[a].name, agent |-> a, session |-> s, api |-> api])
    /\ Calm(h, rows[a].name) /\ Call(h) /\ NoTurn

Key(h) == <<job[h].agent, job[h].session>>

Cost == 1   \* tokens of a reply

usage_from_messages(replies) == Cost * replies

Report(h, usage) == [at |-> "RecordTrace", name |-> job[h].name, agent |-> job[h].agent,
                     session |-> job[h].session, usage |-> usage]

\* The graph adds its reply to the thread.
reply(h) ==
  /\ thread' = [thread EXCEPT ![job[h].session] = @ + 1]
  /\ spent' = [spent EXCEPT ![Key(h)] = @ + Cost]
  /\ Calm(h, job[h].name)

fails(h) == Fault(job[h].name) /\ UNCHANGED <<thread, spent>>

\* The usage is added up over the messages of the whole thread.  A turn that fails
\* is not reported, since the exception drops the background task.
invoke(h) ==
  /\ job[h].api = "invoke"
  /\ \/ reply(h) /\ Goto(h, Report(h, usage_from_messages(thread'[job[h].session])))
     \/ fails(h) /\ Goto(h, Absent)

\* The usage is added up over the chunks of this turn that have text, which may not
\* be the one with the usage, and is reported in any case.
stream(h) ==
  /\ job[h].api = "stream"
  /\ \/ reply(h) /\ \E n \in 0..1 : Goto(h, Report(h, usage_from_messages(n)))
     \/ fails(h) /\ Goto(h, Report(h, usage_from_messages(0)))

turn(h) == At(h, "Turn") /\ (invoke(h) \/ stream(h)) /\ Call(h) /\ UNCHANGED <<docker, online, lost>>

Counted(old, usage) ==
  IF old = Absent THEN [turns |-> 1, tokens |-> usage]
  ELSE [turns |-> old.turns + 1, tokens |-> old.tokens + usage]

\* Mutant: sessions of one id are the same, whichever the agent.
KeyOfSession(h) == <<Min(Ids), job[h].session>>

SessionKey(h) == Key(h)

\* The file store adds the trace and counts it at once; PostgreSQL adds it, reads
\* the session, and writes the session.
RecordTrace(h) ==
  /\ traces' = [traces EXCEPT ![Key(h)] = @ + 1]
  /\ \/ /\ repository = "file"
        /\ sessions' = [sessions EXCEPT ![SessionKey(h)] = Counted(@, job[h].usage)]
        /\ Goto(h, Absent)
        /\ \/ Calm(h, job[h].name) /\ disk' = [rows |-> rows, sessions |-> sessions', traces |-> traces']
           \/ Fault(job[h].name) /\ UNCHANGED disk
     \/ /\ repository = "postgres" /\ Calm(h, job[h].name)
        /\ Goto(h, [job[h] EXCEPT !.at = "ReadSession"])
        /\ UNCHANGED <<sessions, disk>>

\* A report that does not reach the gateway is dropped.
record_trace(h) ==
  /\ At(h, "RecordTrace") /\ NoTurn /\ UNCHANGED <<repository, rows, acked>>
  /\ \/ RecordTrace(h)
     \/ Fault(job[h].name) /\ Goto(h, Absent) /\ UNCHANGED <<sessions, traces, disk>>

ReadSession(h) ==
  /\ At(h, "ReadSession") /\ Call(h) /\ NoTurn /\ Calm(h, job[h].name)
  /\ Goto(h, [at |-> "WriteSession", name |-> job[h].name, key |-> SessionKey(h),
              value |-> Counted(sessions[SessionKey(h)], job[h].usage)])

WriteSession(h) ==
  /\ At(h, "WriteSession") /\ NoTurn /\ Goto(h, Absent)
  /\ \/ Calm(h, job[h].name) /\ sessions' = [sessions EXCEPT ![job[h].key] = job[h].value]
     \/ Fault(job[h].name) /\ UNCHANGED sessions
  /\ UNCHANGED <<repository, rows, traces, disk, acked>>

AgentRequest(h) == deployAgent(h) \/ agentTraffic(h) \/ invokeAgent(h)

AgentStep(h) == turn(h) \/ record_trace(h) \/ ReadSession(h) \/ WriteSession(h)
=============================================================================
