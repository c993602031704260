-------------------------- MODULE MCConversations --------------------------
(***************************************************************************)
(* Five conversations of the supervisor, each on a small instance and each *)
(* alone: with a worker, with the clients of a job, with the commands that *)
(* hear of its events, with a tool that wants to clear the GPU, and with   *)
(* the host of an agent.  They share no state; a behaviour is of one.      *)
(***************************************************************************)
EXTENDS WorkerProtocol, FrontEnd, EventHooks, GpuKill, McpServer

CONSTANTS stream1, waiter1, poller1

VARIABLE conversation
vars == <<conversation, protocolVars, frontVars, hookVars, killVars, mcpVars>>

ForWorker(step) ==
  conversation = "worker" /\ step /\ UNCHANGED <<conversation, frontVars, hookVars, killVars, mcpVars>>
ForClients(step) ==
  conversation = "clients" /\ step /\ UNCHANGED <<conversation, protocolVars, hookVars, killVars, mcpVars>>
ForHooks(step) ==
  conversation = "hooks" /\ step /\ UNCHANGED <<conversation, protocolVars, frontVars, killVars, mcpVars>>
ForTool(step) ==
  conversation = "tool" /\ step /\ UNCHANGED <<conversation, protocolVars, frontVars, hookVars, mcpVars>>
ForAgent(step) ==
  conversation = "agent" /\ step /\ UNCHANGED <<conversation, protocolVars, frontVars, hookVars, killVars>>

\* Only the conversation that takes place has more than one initial state.
ConversationsInit ==
  /\ conversation \in {"worker", "clients", "hooks", "tool", "agent"}
  /\ ProtocolInit /\ FrontInit /\ HooksInit /\ KillInit /\ McpInit
  /\ conversation # "clients" => \E h \in Handlers : at[h] # "absent" /\ h \in Pollers
  /\ conversation # "hooks" => Cardinality(specs) = 1
ConversationsNext ==
  \/ ForWorker(ProtocolNext)
  \/ ForClients(FrontNext)
  \/ ForHooks(HooksNext)
  \/ ForTool(KillNext)
  \/ ForAgent(McpNext)

\* A behaviour is of one conversation: to be fair to a step of this or a step of that
\* one is to be fair to the step it has.
ConversationsSpec ==
  /\ ConversationsInit /\ [][ConversationsNext]_vars
  /\ WF_vars(ForClients(HandlerStep(stream1)) \/ ForHooks(DrainStep) \/ ForAgent(MainStep))
  /\ WF_vars(ForClients(HandlerStep(waiter1)) \/ ForHooks(Tick) \/ ForAgent(WriterStep))
  /\ \A d \in Dispatchers : WF_vars(ForHooks(DispatchStep(d)))
  /\ \A r \in Runs : WF_vars(ForHooks(RunStep(r)) \/ ForAgent(PromptStep))

\* An agent is answered once and in full, and nothing is asked in its name that it did not
\* say (which no step changes: it is looked at before the first).
AgentIsHeard ==
  McpTypeOK /\ AnsweredOnce /\ (conversation = "agent" /\ input = <<>> => OnlyWhatItSays)

\* Nobody is held up for ever: not the shutdown by hooks, nor a hook's thread by its
\* command, nor an agent by another's job, nor the end of a host by an idle server.
ConversationsEnd == []<>~(HeldUp \/ Unanswered \/ Lingers)

-----------------------------------------------------------------------------
CompaniesTried == {{stream1, waiter1}, {poller1}}

Hook(name, hears, command, timeout) ==
  [name |-> name, events |-> hears, command |-> command, timeout |-> timeout]
DocumentsTried ==
  {{Hook("a", {"on_job_done", "on_shutdown"}, "curl", 5000)},
   {Hook("a", {"on_shutdown"}, "curl", 10), Hook("b", {"on_shutdown"}, "curl", 10)},
   {Hook("a", {"on_job_done"}, "curl", NaN)}, {Hook("a", {"on_job_done"}, "curl", 0)},
   {Hook("a", {"on_job_done"}, "missing", 10)}, {Hook("a", {"on_jb_done"}, "curl", 10)}}
=============================================================================
