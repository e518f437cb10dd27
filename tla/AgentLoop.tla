----------------------------- MODULE AgentLoop ------------------------------
(***************************************************************************)
(* The agents at work on a request: src/src/brain/agent_loop.py, the loop  *)
(* in which a model chooses tools until it answers, its legacy loop of     *)
(* decisions and routes (router.py), and orchestrator.py, which starts     *)
(* loops for other agents: one, a chain, a team, or several at once.       *)
(*                                                                         *)
(* All of them share one AgentLoop object.  What runs is a stack of frames *)
(* for each thread: the thread of the request, Main, and the Workers of    *)
(* the pool of a parallel command.  A frame is an activation of a method,  *)
(* and the fields of the object that activations write are variables.      *)
(***************************************************************************)
EXTENDS Dispatch, SequencesExt

CONSTANTS
    Main, Workers,  \* threads
    Agents,         \* ids of agents
    Tools,          \* the registered tools
    Direct,         \* those whose result is the answer
    NoSuchTool,     \* a name that is not registered
    Fast, Smart, ChatModel, NoModel,
    ToolModels,     \* the models not known to be without tools
    Escalation,     \* the iteration the smart model takes over at
    Messages,       \* what a legacy loop may be given to do
    Parties,        \* lists of ids a chain, a team or a pool is given
    MaxTeamTurns,
    MaxRuns         \* bound: runs within one another

ASSUME LoopAssumption ==
    /\ Main \notin Workers /\ IsFiniteSet(Workers)
    /\ NoSuchTool \notin Tools /\ Direct \subseteq Tools
    /\ Escalation \in Nat /\ MaxTeamTurns \in Nat \ {0} /\ MaxRuns \in Nat \ {0}

ASSUME MessagesAssumption == \A m \in Messages : IsMessage(m)

Threads == {Main} \cup Workers

\* What is told of a text: nothing but blanks, words that read as a failure,
\* the mark that ends a team, or none of these.
Texts == {"none", "text", "failure", "team done"}
Said == Texts \ {"none"}
Told == {"text", "failure"}     \* by the program itself

WebSearch == "web_search"

Nobody == "nobody"      \* an id that is not registered

VARIABLES
    profiles,   \* of a registered agent: its tools (none: all), model, turns
    calling,    \* settings.tool_calling_enabled
    messages,   \* bound: those of the Messages that there are
    frames,     \* of each thread, the innermost last
    flag,       \* _last_call_used_tool_fallback
    status,     \* last_run_status
    lastTool,   \* last_tools_used[-1]["success"], or that there is none
    answer      \* what the outermost frame of Main returned

inputs == <<calling, messages>>
loopVars == <<frames, flag, status, lastTool, answer>>

Idle == frames[Main] = <<>>

Top(t) == Last(frames[t])

RunsOf(t) == Cardinality({i \in DOMAIN frames[t] : frames[t][i].kind = "run"})

\* The runs of a thread, and those it works for.
Runs(t) == RunsOf(t) + IF t = Main THEN 0 ELSE RunsOf(Main)

\* An agent with no tools of its own has them all.
ToolsOf(a) == IF profiles[a].tools = {} THEN Tools ELSE profiles[a].tools

RunFrame(agent, stream, hard, first) ==
    [kind |-> "run", agent |-> agent, stream |-> stream, hard |-> hard,
     pc |-> IF first = NoTool THEN "ask" ELSE "tool", tool |-> first,
     turn |-> 0, iterations |-> IF first = NoTool THEN 0 ELSE 1,
     acts |-> <<>>, final |-> "none", substitute |-> FALSE, by |-> "program"]

LegacyFrame(agent, m) ==
    [kind |-> "legacy", agent |-> agent, message |-> m, pc |-> "decide",
     turn |-> 0, acts |-> <<>>, final |-> "none",
     action |-> "none yet", meant |-> NoTool, tool |-> NoTool]

ListFrame(kind, agents) ==
    [kind |-> kind, agents |-> agents, at |-> 1, turn |-> 0, out |-> 0,
     last |-> "none", heard |-> {}, done |-> FALSE]

(* --- calls and returns ------------------------------------------------- *)

Continue(t, f) == frames' = [frames EXCEPT ![t] = Append(Front(@), f)]

Calls(t, f, g) == frames' = [frames EXCEPT ![t] = Front(@) \o <<f, g>>]

\* AgentLoop.run and run_stream: the loop of calls, or only the legacy one.
Activations(agent, stream, hard, first) ==
    LET run == RunFrame(agent, stream, hard, first)
    IN  IF calling THEN {<<run>>}
        ELSE {<<[run EXCEPT !.pc = "legacy only"], LegacyFrame(agent, m)>> : m \in messages}

\* Whether one more run fits.
Room(t) == Runs(t) < MaxRuns

\* The shared fields start over, whoever else is running.
StartsRun(t, f, agent) ==
    /\ Room(t)
    /\ \E hard \in BOOLEAN : \E run \in Activations(agent, FALSE, hard, NoTool) :
           frames' = [frames EXCEPT ![t] = Front(@) \o <<f>> \o run]
    /\ status' = "running" /\ lastTool' = "none"
    /\ UNCHANGED <<flag, answer>>

\* The frame a text is returned to.
Received(f, text) ==
    CASE f.kind = "run" /\ f.pc = "delegated" ->
            [f EXCEPT !.final = text, !.pc = "finish"]
      [] f.kind = "run" /\ f.pc = "legacy" ->
            [f EXCEPT !.final = IF text = "none" THEN "text" ELSE text, !.pc = "finish"]
      [] f.kind = "run" /\ f.pc = "legacy only" ->
            [f EXCEPT !.final = text, !.pc = "return"]
      [] f.kind = "legacy" -> [f EXCEPT !.final = text, !.pc = "judge"]
      [] f.kind = "chain" -> [f EXCEPT !.last = text, !.at = @ + 1]
      [] f.kind = "team" ->
            [f EXCEPT !.heard = @ \cup {text}, !.at = @ + 1,
                      !.done = text = "team done"]
      [] f.kind = "parallel" -> [f EXCEPT !.heard = @ \cup {text}, !.out = @ - 1]

\* _complete_run_observability, when a run returns.
Completed(told, text) ==
    IF told # "running" THEN told
    ELSE IF text = "none" THEN "empty_response" ELSE "completed"

\* The innermost frame returns text, the status being told by then.
Leave(t, text, told) ==
    LET rest == Front(frames[t])
    IN  /\ status' = IF Top(t).kind = "run" THEN Completed(told, text) ELSE told
        /\ frames' =
             IF rest # <<>>
             THEN [frames EXCEPT ![t] = Append(Front(rest), Received(Last(rest), text))]
             ELSE IF t = Main THEN [frames EXCEPT ![t] = <<>>]
             ELSE [frames EXCEPT ![t] = <<>>,
                                 ![Main] = Append(Front(@), Received(Last(@), text))]
        /\ answer' = IF t = Main /\ rest = <<>> THEN text ELSE answer

(* Mutant: it has to have failed three times. *)
FailedThrice(acts) ==
    LET n == Len(acts)
    IN  n >= 3 /\ \A i \in n - 2 .. n : acts[i].tool = acts[n].tool /\ acts[i].failed

RepeatedFailure(acts) ==
    LET n == Len(acts)
    IN  n >= 2 /\ acts[n].tool = acts[n - 1].tool /\ acts[n].failed /\ acts[n - 1].failed

(* --- the model's calls -------------------------------------------------- *)

\* _preferred_model: the agent's own, or the router's choice.
Preferred(f) ==
    IF profiles[f.agent].model # NoModel THEN profiles[f.agent].model
    ELSE IF \/ f.hard
            \/ f.iterations >= Escalation
            \/ f.acts # <<>> /\ Last(f.acts).failed
    THEN Smart
    ELSE Fast

\* _model_for_call: whether another model is asked to choose the tools.
Substituted(f) ==
    /\ Preferred(f) \notin ToolModels
    /\ ({Fast, ChatModel} \ {Preferred(f)}) \cap ToolModels # {}

(* Mutant: only the first call of a run is marked. *)
MarkedFirst(f) == f.turn = 1 /\ Substituted(f)

\* _last_call_used_tool_fallback, once a model is chosen.
Marked(f) == Substituted(f)

\* A reply: what its text says, and the tool it calls.  Beside the call of a
\* tool that there is no text matters, but for a delegation.
Replies ==
    {reply \in
        [text : {<<"none">>, <<"says", "text">>, <<"says", "failure">>, <<"says", "team done">>,
                 <<"answers">>}
                \cup {<<"delegates to", a>> : a \in Agents \cup {Nobody}}
                \cup {<<"tool", tool>> : tool \in Tools \cup {NoSuchTool}},
         call : Tools \cup {NoSuchTool, NoTool}] :
     reply.call \in Tools => reply.text[1] \in {"answers", "delegates to"}}

\* The words of a reply that is shown as it is.
Words(reply) == IF reply.text[1] = "says" THEN reply.text[2] ELSE "text"

\* The tool a reply without a call asks for; the parser of the agent knows
\* only the agent's tools.
Parsed(f, reply) ==
    IF reply.text[1] = "tool" /\ reply.text[2] \in ToolsOf(f.agent)
    THEN reply.text[2] ELSE NoTool

\* The head of the loop: the next turn, whose last is a plain answer in a
\* stream, and the choice of the model.
Ask(t) ==
    LET f == Top(t)
        g == [f EXCEPT !.turn = @ + 1, !.iterations = @ + 1]
    IN  /\ f.kind = "run" /\ f.pc = "ask" /\ f.turn < profiles[f.agent].turns
        /\ IF f.stream /\ g.turn = profiles[f.agent].turns
           THEN Continue(t, [g EXCEPT !.pc = "stream"]) /\ UNCHANGED flag
           ELSE /\ Continue(t, [g EXCEPT !.pc = "asked", !.substitute = Substituted(g)])
                /\ flag' = Marked(g)
        /\ UNCHANGED <<status, lastTool, answer>>

\* The tool-free call that makes an answer of what is known.
Summary(f) == IF f.stream THEN "stream" ELSE "synthesize"

NoReply(t) ==
    LET f == Top(t)
    IN  /\ f.kind = "run" /\ f.pc = "asked"
        /\ IF f.acts # <<>>
           THEN Continue(t, [f EXCEPT !.pc = Summary(f)]) /\ status' = "llm_error"
                /\ UNCHANGED answer
           ELSE Leave(t, "text", "llm_error")
        /\ UNCHANGED <<flag, lastTool>>

\* orchestrator.delegate, for a frame that waits in f.
Delegates(t, f, target) ==
    IF target \in DOMAIN profiles THEN StartsRun(t, f, target)
    ELSE /\ Continue(t, Received(f, "failure"))
         /\ UNCHANGED <<flag, status, lastTool, answer>>

\* The shared flag is read when the call has returned.
Reply(t) ==
    LET f == Top(t)
    IN  /\ f.kind = "run" /\ f.pc = "asked"
        /\ \E reply \in Replies :
             LET plain == reply.call = NoTool
                 nothing == plain /\ reply.text = <<"none">>
                 tool == IF plain THEN Parsed(f, reply) ELSE reply.call
             IN  CASE flag /\ plain ->
                        /\ Continue(t, [f EXCEPT !.pc = Summary(f)])
                        /\ UNCHANGED <<flag, status, lastTool, answer>>
                   [] ~(flag /\ plain) /\ nothing ->
                        IF f.stream \/ f.acts # <<>>
                        THEN /\ Continue(t, [f EXCEPT !.pc = Summary(f)])
                             /\ UNCHANGED <<flag, status, lastTool, answer>>
                        ELSE /\ \E m \in messages :
                                  Calls(t, [f EXCEPT !.pc = "legacy"], LegacyFrame(f.agent, m))
                             /\ UNCHANGED <<flag, status, lastTool, answer>>
                   [] ~(flag /\ plain) /\ reply.text[1] = "delegates to" ->
                        Delegates(t, [f EXCEPT !.pc = "delegated"], reply.text[2])
                   [] ~(flag /\ plain) /\ ~nothing /\ reply.text[1] # "delegates to" ->
                        IF tool \in Tools
                        THEN /\ Continue(t, [f EXCEPT !.pc = "tool", !.tool = tool])
                             /\ UNCHANGED <<flag, status, lastTool, answer>>
                        ELSE /\ Continue(t, [f EXCEPT !.pc = "finish", !.final = Words(reply),
                                 !.by = IF f.substitute THEN "substitute" ELSE "preferred",
                                 !.tool = IF plain THEN NoTool ELSE NoSuchTool])
                             /\ UNCHANGED <<flag, status, lastTool, answer>>

(* --- tools --------------------------------------------------------------- *)

\* _execute_tool_request and what follows it: the tool manager refuses a tool
\* the agent does not have; then the same failure twice ends the run, a
\* direct result is the answer, and a web search is written up.
RunTool(t) ==
    LET f == Top(t)
    IN  /\ f.kind = "run" /\ f.pc = "tool"
        /\ \E ok, reads, results \in BOOLEAN :
             LET g == [f EXCEPT !.acts = Append(@, [tool |-> f.tool, failed |-> reads]),
                                !.iterations = @ + 1, !.tool = NoTool]
             IN  /\ ok => f.tool \in ToolsOf(f.agent)
                 /\ ~ok => reads
                 /\ results => ok /\ f.tool = WebSearch
                 /\ lastTool' = IF ok THEN "ok" ELSE "failed"
                 /\ UNCHANGED flag
                 /\ \/ /\ f.turn > 0 /\ RepeatedFailure(g.acts)
                       /\ Leave(t, "text", status)
                    \/ /\ ~(f.turn > 0 /\ RepeatedFailure(g.acts))
                       /\ \/ /\ f.tool \in Direct
                             /\ \E text \in Told : Leave(t, text, status)
                          \/ /\ f.tool = WebSearch /\ f.tool \notin Direct /\ ~results
                             /\ Leave(t, "text", status)
                          \/ /\ f.tool = WebSearch /\ f.tool \notin Direct /\ results
                             /\ Continue(t, [g EXCEPT !.pc = "web"])
                             /\ UNCHANGED <<status, answer>>
                          \/ /\ f.tool \notin Direct \cup {WebSearch}
                             /\ Continue(t, [g EXCEPT !.pc = "ask"])
                             /\ UNCHANGED <<status, answer>>

(* --- answers ------------------------------------------------------------- *)

Unless(told, new) == IF told = "running" THEN new ELSE told

\* _synthesize_response.
Synthesize(t) ==
    LET f == Top(t)
    IN  /\ f.kind = "run" /\ f.pc = "synthesize"
        /\ flag' = FALSE
        /\ \/ \E text \in Said : Leave(t, text, status)
           \/ Leave(t, "text", "llm_error")
           \/ Leave(t, "text", Unless(status, "fallback_response"))
        /\ UNCHANGED lastTool

\* _synthesize_web_response, and _stream, which can be cut short.
WriteUp(t) ==
    LET f == Top(t)
    IN  /\ f.kind = "run" /\ f.pc = "web"
        /\ flag' = FALSE
        /\ \/ \E text \in Said : Leave(t, text, "completed")
           \/ Leave(t, "text", "fallback_response")
           \/ f.stream /\ \E text \in Said : Leave(t, text, "llm_error")
        /\ UNCHANGED lastTool

\* _call_llm_stream: a stream that brings nothing is asked for once more; one
\* of blanks counts as complete.
Stream(t) ==
    LET f == Top(t)
    IN  /\ f.kind = "run" /\ f.pc = "stream"
        /\ flag' = FALSE
        /\ \/ \E text \in Texts : Leave(t, text, "completed")
           \/ \E text \in Said : Leave(t, text, "llm_error")
           \/ Leave(t, "text", Unless(status, "fallback_response"))
        /\ UNCHANGED lastTool

\* The end of the loop: out of turns, or with what a reply or another frame
\* has left as the final response.
Finish(t) ==
    LET f == Top(t)
    IN  /\ f.kind = "run"
        /\ \/ f.pc \in {"finish", "return"}
           \/ f.pc = "ask" /\ f.turn = profiles[f.agent].turns
        /\ IF f.final # "none" \/ f.pc = "return"
           THEN Leave(t, f.final, status)
           ELSE IF f.acts # <<>> /\ ~f.stream
           THEN Continue(t, [f EXCEPT !.pc = "synthesize"]) /\ UNCHANGED <<status, answer>>
           ELSE Leave(t, "text", status)
        /\ UNCHANGED <<flag, lastTool>>

(* --- the legacy loop and the router -------------------------------------- *)

Ending == {"CHAT", "NEW_SESSION", "LIST_SESSIONS", "RESUME_SESSION",
           "DELETE_SESSION", "CLEAR_CONVERSATION", "CONFIGURE"}

\* What can be decided of a message, first and after something was done, and
\* which tool it can be told to be for.
Decided == [m \in Messages |-> {Decide(m, intent) : intent \in Intents}]

DecidedLater ==
    [m \in Messages |-> {Decide(n, intent) : n \in Enriched(m), intent \in Intents}]

ToldFor == [m \in Messages |-> {ToolFor(m, intent) : intent \in Intents}]

\* A turn of the legacy loop: an action is decided on, from the message or,
\* later, from the message and what was done; the tool for it is told from
\* the message alone.
LegacyTurn(t) ==
    LET f == Top(t)
    IN  /\ f.kind = "legacy" /\ f.pc = "decide" /\ f.turn < profiles[f.agent].turns
        /\ \E decided \in (IF f.acts = <<>> THEN Decided ELSE DecidedLater)[f.message] :
           \E tool \in (IF decided.action = "USE_TOOL" THEN ToldFor[f.message] ELSE {NoTool}) :
               Continue(t, [f EXCEPT
                   !.turn = @ + 1, !.pc = "route", !.action = decided.action,
                   !.meant = decided.tool, !.tool = tool])
        /\ UNCHANGED <<flag, status, lastTool, answer>>

Routes(t, action) ==
    Top(t).kind = "legacy" /\ Top(t).pc = "route" /\ Top(t).action = action

Judged(t, text) ==
    /\ Continue(t, [Top(t) EXCEPT !.pc = "judge", !.final = text])
    /\ UNCHANGED <<flag, status, lastTool, answer>>

\* The handlers that answer at once.  The session commands are not the
\* router's: it returns None for them.
RouteChat(t) == Routes(t, "CHAT") /\ \E text \in Said : Judged(t, text)

RouteClear(t) == Routes(t, "CLEAR_CONVERSATION") /\ Judged(t, "text")

RouteForget(t) == Routes(t, "DELETE_MEMORY") /\ Judged(t, "text")

RouteRemember(t) == Routes(t, "STORE_MEMORY") /\ Judged(t, "text")

RouteConfigure(t) == Routes(t, "CONFIGURE") /\ \E text \in Told : Judged(t, text)

RouteSimple(t) ==
    /\ \E action \in {"LIST_MEMORIES", "SEARCH_MEMORY", "NEW_SESSION", "LIST_SESSIONS",
                      "RESUME_SESSION", "DELETE_SESSION", "PLAN_EXECUTION"} : Routes(t, action)
    /\ \E text \in Told : Judged(t, text)

\* ToolHandler.handle: the tool runs if the agent has it, and a model words
\* its result, whatever that is.
RouteTool(t) == Routes(t, "USE_TOOL") /\ \E text \in Said : Judged(t, text)

\* _handle_delegate drops nine characters, the length of "delegate ": only two
\* wordings are as long, and any other leaves no agent's name.
LeavesName(m) == Starts(m, <<"have", "the">>) \/ Starts(m, <<"tell", "the">>)

RouteDelegate(t) ==
    /\ Routes(t, "DELEGATE")
    /\ \/ \E target \in (IF LeavesName(Top(t).message) THEN Agents ELSE {}) \cup {Nobody} :
              Delegates(t, [Top(t) EXCEPT !.pc = "wait"], target)
       \/ Judged(t, "text")        \* no task: the usage

\* _handle_orchestrate.
RouteOrchestrate(t) ==
    /\ Routes(t, "ORCHESTRATE")
    /\ \/ /\ Room(t)
          /\ \E kind \in {"chain", "team", "parallel"}, party \in Parties :
               /\ Top(t).message.lead[1] = kind
               /\ kind = "parallel" => t = Main    \* bound: one pool
               /\ Calls(t, [Top(t) EXCEPT !.pc = "wait"], ListFrame(kind, party))
          /\ UNCHANGED <<flag, status, lastTool, answer>>
       \/ Judged(t, "text")        \* no list, or no task: the usage

\* What was done is noted, and the loop ends when it failed twice in a row,
\* when the action is one that ends it, or when the result reads as a success
\* or is judged to be one (reflection.py).
Judge(t) ==
    LET f == Top(t)
        acts == Append(f.acts, [tool |-> f.action, failed |-> f.final = "failure"])
        g == [f EXCEPT !.acts = acts, !.pc = "decide",
                       !.action = "none yet", !.meant = NoTool, !.tool = NoTool]
    IN  /\ f.kind = "legacy" /\ f.pc = "judge"
        /\ \/ Leave(t, f.final, status)
           \/ /\ ~RepeatedFailure(acts) /\ f.action \notin Ending
              /\ Continue(t, g)
              /\ UNCHANGED <<status, answer>>
        /\ UNCHANGED <<flag, lastTool>>

LegacyEnds(t) ==
    LET f == Top(t)
    IN  /\ f.kind = "legacy" /\ f.pc = "decide" /\ f.turn = profiles[f.agent].turns
        /\ Leave(t, f.final, status)
        /\ UNCHANGED <<flag, lastTool>>

(* --- chains, teams and pools --------------------------------------------- *)

\* run_chain: an id that is not registered is passed over, and the chain has
\* no result if it was the last.
ChainStep(t) ==
    LET f == Top(t)
    IN  /\ f.kind = "chain"
        /\ IF f.at > Len(f.agents)
           THEN Leave(t, f.last, status) /\ UNCHANGED <<flag, lastTool>>
           ELSE IF f.agents[f.at] \notin DOMAIN profiles
           THEN /\ Continue(t, [f EXCEPT !.at = @ + 1, !.last = "none"])
                /\ UNCHANGED <<flag, status, lastTool, answer>>
           ELSE StartsRun(t, f, f.agents[f.at])

(* Mutant: the turns of a team are not counted. *)
SameTurn(f) == [f EXCEPT !.at = 1]

NextTurn(f) == [f EXCEPT !.at = 1, !.turn = @ + 1]

\* run_team: turns of all the members, until one says that it is done.
TeamStep(t) ==
    LET f == Top(t)
    IN  /\ f.kind = "team"
        /\ IF f.done \/ f.turn = MaxTeamTurns
           THEN /\ \E text \in (IF f.heard = {} THEN {"text"} ELSE f.heard) :
                       Leave(t, text, status)
                /\ UNCHANGED <<flag, lastTool>>
           ELSE IF f.at > Len(f.agents)
           THEN /\ Continue(t, NextTurn(f))
                /\ UNCHANGED <<flag, status, lastTool, answer>>
           ELSE IF f.agents[f.at] \notin DOMAIN profiles
           THEN /\ Continue(t, [f EXCEPT !.at = @ + 1])
                /\ UNCHANGED <<flag, status, lastTool, answer>>
           ELSE StartsRun(t, f, f.agents[f.at])

\* run_parallel: the registered agents' runs are submitted to a pool, whose
\* threads take them in order; the results are collected.  The threads are
\* alike, and it is always the same of those that are free.
PoolTakes(w) ==
    LET f == Top(Main)
    IN  /\ frames[w] = <<>> /\ w = CHOOSE v \in Workers : frames[v] = <<>>
        /\ ~Idle /\ f.kind = "parallel" /\ f.at <= Len(f.agents)
        /\ f.agents[f.at] \in DOMAIN profiles
        /\ \E run \in Activations(f.agents[f.at], FALSE, FALSE, NoTool) :
               frames' = [frames EXCEPT
                   ![w] = run,
                   ![Main] = Append(Front(@), [f EXCEPT !.at = @ + 1, !.out = @ + 1])]
        /\ status' = "running" /\ lastTool' = "none"
        /\ UNCHANGED <<flag, answer>>

\* What is not registered is passed over.
PoolPasses(t) ==
    LET f == Top(t)
    IN  /\ f.kind = "parallel" /\ f.at <= Len(f.agents)
        /\ f.agents[f.at] \notin DOMAIN profiles
        /\ Continue(t, [f EXCEPT !.at = @ + 1])
        /\ UNCHANGED <<flag, status, lastTool, answer>>

PoolEnds(t) ==
    LET f == Top(t)
    IN  /\ f.kind = "parallel" /\ f.at > Len(f.agents) /\ f.out = 0
        /\ \E text \in (IF f.heard = {} THEN {"none"} ELSE f.heard \cup {"text"}) :
               Leave(t, text, status)
        /\ UNCHANGED <<flag, lastTool>>

LoopStep(t) ==
  /\ frames[t] # <<>>
  /\ UNCHANGED <<profiles, inputs>>
  /\ \/ Ask(t) \/ NoReply(t) \/ Reply(t) \/ RunTool(t)
     \/ Synthesize(t) \/ WriteUp(t) \/ Stream(t) \/ Finish(t)
     \/ LegacyTurn(t) \/ Judge(t) \/ LegacyEnds(t)
     \/ ChainStep(t) \/ TeamStep(t) \/ PoolPasses(t) \/ PoolEnds(t)
     \/ RouteSimple(t) \/ RouteTool(t) \/ RouteDelegate(t) \/ RouteOrchestrate(t)

(* --- what is started from outside ----------------------------------------- *)

LoopInit ==
    /\ frames = [t \in Threads |-> <<>>]
    /\ flag = FALSE
    /\ status = "idle"
    /\ lastTool = "none"
    /\ answer = "none"

\* A run for a request.
Started(agent, stream, first) ==
    /\ \E hard \in BOOLEAN : \E run \in Activations(agent, stream, hard, first) :
           frames' = [frames EXCEPT ![Main] = run]
    /\ status' = "running" /\ lastTool' = "none" /\ answer' = "none"
    /\ UNCHANGED flag
=============================================================================
