-------------------------------- MODULE Brain -------------------------------
(***************************************************************************)
(* What becomes of a user's requests: src/src/brain/brain.py, its          *)
(* commands on sessions, agents and skills, the two ways a request is      *)
(* answered (chat_handler.py, and the loop of AgentLoop), what is stored   *)
(* of it (response_finalizer.py and the repositories of conversations,     *)
(* sessions and memories), and what is left to the background.             *)
(*                                                                         *)
(* A request is made of steps; between them a memory may be extracted in   *)
(* the background, a transaction may fail, the reader of a stream may      *)
(* leave, or the process may end and start again.                          *)
(***************************************************************************)
EXTENDS AgentLoop, Settings

CONSTANTS
    DefaultAgent,   \* the agent of a new process
    BuiltIn,        \* the profiles the program itself defines, by id
    Turns,          \* max_iterations of any other profile
    OwnModel,       \* a model an agent can be given
    ToolSets,       \* what an agent's tools can be set to
    SkillTools,     \* the tools the skill requires ...
    SkillAgents,    \* ... and the agents it is for
    MaxRows,        \* conversation_max_count
    MaxTasks,       \* background workers and pending tasks
    MaxSessions,    \* bound: sessions ever made
    Mixes           \* bound: what is asked, and what goes wrong, in a run

\* AgentProfile, as far as it matters.
Profile ==
    [tools : SUBSET Tools, model : {NoModel, OwnModel}, turns : Nat, persona : BOOLEAN]

\* The kinds of request, how many there may be, and what may go wrong.
Mix ==
    [kinds : SUBSET STRING, messages : SUBSET Messages, streams : SUBSET BOOLEAN,
     first : SUBSET (Tools \cup {NoTool}), calling : BOOLEAN,
     requests : Nat, faults : Nat, leaves : Nat, crashes : Nat]

ASSUME BrainAssumption ==
    /\ BuiltIn \in [DOMAIN BuiltIn -> Profile] /\ Turns \in Nat /\ Mixes \subseteq Mix
    /\ DefaultAgent \in DOMAIN BuiltIn /\ DOMAIN BuiltIn \subseteq Agents
    /\ MaxRows \in Nat \ {0} /\ MaxTasks \in Nat \ {0}
    /\ ToolSets \subseteq SUBSET Tools /\ SkillTools \subseteq Tools

VARIABLES
    agentsFile,     \* data/agents.json: whole, or cut short
    unsaved,        \* the registry could not be saved
    personas,       \* the agents with a file in the personas' directory
    sessions,       \* rows of sessions, in the order they were made
    rows,           \* rows of conversations, by id
    memories,
    current,        \* current_agent_id and current_session
    chatSession,    \* chat_handler.session_id
    chats,          \* of each thread, what is stored of its chat for the router
    skills,         \* the sessions the skill is active in
    loaded,         \* the skill is installed
    tasks,          \* submitted to the background, the oldest first
    request,        \* the request being served
    turn,           \* requests so far
    told,           \* last_stream_status
    left            \* bounds: what the mix still has

registryVars == <<profiles, agentsFile, unsaved, personas>>
placeVars == <<current, chatSession>>
storeVars == <<sessions, rows, memories>>
skillVars == <<skills, loaded>>
servedVars == <<request, turn, told, left>>
brainVars == <<loopVars, inputs, chats, settingsVars, registryVars, placeVars, storeVars,
               skillVars, tasks, servedVars>>

NoRequest == [stage |-> "none", kind |-> "none", stream |-> FALSE, first |-> NoTool]

\* A session is live, deleted, or lost: deleted, but current still, because no
\* other could be made.  What is behind is history: the answers stored in it
\* that could not be counted.
NewSession(agent) ==
    [agent |-> agent, count |-> 0, summary |-> FALSE, state |-> "live", behind |-> 0]

Live == {s \in DOMAIN sessions : sessions[s].state = "live"}

Row(role, by, agent, session) ==
    [turn |-> turn, role |-> role, by |-> by, agent |-> agent, session |-> session]

\* The row that a memory of turn n comes from.
IsSource(row, n) == row.turn = n /\ row.role = "user" /\ row.by = "brain"

Sourced(n, kept) == \E i \in DOMAIN kept : IsSource(kept[i], n)

\* When rows go, the memories that come from them stay, without a source:
\* session_repository.py delete, and the foreign key of the table.
Unlinked(kept) ==
    {[m EXCEPT !.source = IF Sourced(@, kept) THEN @ ELSE 0] : m \in memories}

\* The next id; of ids only the order matters.
NextId(all) == Max(DOMAIN all \cup {0}) + 1

\* ConversationRepository.create.
Stored(all, row) ==
    [i \in DOMAIN all \cup {NextId(all)} |-> IF i \in DOMAIN all THEN all[i] ELSE row]

RowsOf(agent, all) == {i \in DOMAIN all : all[i].agent = agent}

\* ConversationRepository.trim: the newest rows of the agent are kept.
Trimmed(agent, all) ==
    LET newer(i) == {j \in RowsOf(agent, all) : j > i}
    IN  Restrict(all, {i \in DOMAIN all : all[i].agent = agent => Cardinality(newer(i)) < MaxRows})

(* --- agents' profiles ---------------------------------------------------- *)

NewProfile(model, persona) ==
    [tools |-> {}, model |-> model, turns |-> Turns, persona |-> persona]

\* The profiles f, and those of g that f has none for.
With(f, g) ==
    [a \in DOMAIN f \cup DOMAIN g |-> IF a \in DOMAIN f THEN f[a] ELSE g[a]]

\* AgentRegistry, and load_personas_from_dir: the program's own agents, the
\* specialists only with their personas; the file's; then an agent for each
\* persona that none of them has.
Loaded(file, written) ==
    LET own == [a \in {DefaultAgent} \cup (written \cap DOMAIN BuiltIn) |-> BuiltIn[a]]
        known == With(IF file.whole THEN file.agents ELSE <<>>, own)
    IN  With(known, [a \in written |-> NewProfile(NoModel, TRUE)])

(* --- requests ------------------------------------------------------------ *)

Free == request.stage = "none" /\ Idle /\ ~saving

Spends(what) == left[what] > 0 /\ left' = [left EXCEPT ![what] = @ - 1]

\* A request of a kind arrives; a stream is told to be running.
Arrives(kind, stream) ==
    /\ Free /\ kind \in left.kinds
    /\ turn' = turn + 1
    /\ told' = IF stream THEN "running" ELSE told

\* A command that is done at once.
Command(kind) ==
    /\ \E stream \in left.streams : Arrives(kind, stream)
    /\ UNCHANGED <<loopVars, inputs, chats, request>>

\* ... and one of whose transactions may fail.
Well == left' = [left EXCEPT !.requests = @ - 1]
Badly == left.faults > 0 /\ left' = [left EXCEPT !.requests = @ - 1, !.faults = @ - 1]

Asked == left.requests > 0

(* Mutant: the pool takes one task more. *)
SubmitsMore(task) ==
    tasks' = IF Len(tasks) <= MaxTasks THEN Append(tasks, task) ELSE tasks

Submits(task) ==
    tasks' = IF Len(tasks) < MaxTasks THEN Append(tasks, task) ELSE tasks

\* A session of the agent is made, and becomes the current one.
Opens(agent, all) ==
    /\ Len(all) < MaxSessions
    /\ sessions' = Append(all, NewSession(agent))
    /\ current' = [agent |-> agent, session |-> Len(all) + 1]
    /\ chatSession' = Len(all) + 1

\* _handle_new_session.
StartNewSession ==
    /\ Asked /\ Command("new session")
    /\ Submits([kind |-> "summary", session |-> current.session, turn |-> 0, agent |-> current.agent])
    /\ \/ Opens(current.agent, sessions) /\ Well
       \/ Badly /\ UNCHANGED <<sessions, placeVars>>
    /\ UNCHANGED <<rows, memories, registryVars, skillVars, settingsVars>>

\* _handle_resume_session: the one session that part of an id fits.
ResumeSession ==
    /\ Asked /\ Command("resume") /\ Well
    /\ \E s \in Live :
         /\ current' = [current EXCEPT !.session = s]
         /\ chatSession' = s
    /\ UNCHANGED <<storeVars, tasks, registryVars, skillVars, settingsVars>>

(* Mutant: the skill of a deleted session stays active. *)
StillActive(session) == skills

Deactivated(session) == skills \ {session}

\* _handle_delete_session; the current session is followed by a new one.
DeleteSession ==
    /\ Asked /\ Command("delete session")
    /\ \E s \in Live :
         LET kept == Restrict(rows, {i \in DOMAIN rows : rows[i].session # s})
             Becomes(state) == [sessions EXCEPT ![s].state = state]
         IN  /\ skills' = Deactivated(s)
             /\ \/ /\ rows' = kept /\ memories' = Unlinked(kept)
                   /\ IF s = current.session
                      THEN \/ Opens(current.agent, Becomes("deleted")) /\ Well
                           \/ sessions' = Becomes("lost") /\ Badly /\ UNCHANGED placeVars
                      ELSE sessions' = Becomes("deleted") /\ Well /\ UNCHANGED placeVars
                \/ Badly /\ UNCHANGED <<storeVars, placeVars>>
    /\ UNCHANGED <<tasks, registryVars, loaded, settingsVars>>

\* _handle_use_agent: the agent changes before its session is made.
UseAgent ==
    /\ Asked /\ Command("use agent")
    /\ \E a \in DOMAIN profiles :
         \/ Opens(a, sessions) /\ Well
         \/ current' = [current EXCEPT !.agent = a] /\ Badly
            /\ UNCHANGED <<sessions, chatSession>>
    /\ UNCHANGED <<rows, memories, tasks, registryVars, skillVars, settingsVars>>

\* The lists and what is shown; nothing changes, but listing the skills
\* drops an activation the agent may not have.
Available(a) ==
    /\ loaded /\ a \in SkillAgents /\ a \in DOMAIN profiles
    /\ SkillTools \subseteq ToolsOf(a)

(* Mutant: only the tools of the agent are looked at. *)
OnlyTools(a, s) ==
    IF loaded /\ SkillTools \subseteq ToolsOf(a) THEN skills ELSE skills \ {s}

\* SkillManager.active_skill.
StillFits(a, s) == IF Available(a) THEN skills ELSE skills \ {s}

Show ==
    /\ Asked /\ Command("show") /\ Well
    /\ skills' = StillFits(current.agent, current.session)
    /\ UNCHANGED <<storeVars, placeVars, tasks, registryVars, loaded, settingsVars>>

UseSkill ==
    /\ Asked /\ Command("skill") /\ Well
    /\ Available(current.agent)
    /\ skills' = skills \cup {current.session}
    /\ UNCHANGED <<storeVars, placeVars, tasks, registryVars, loaded, settingsVars>>

DropSkill ==
    /\ Asked /\ Command("skill") /\ Well
    /\ skills' = Deactivated(current.session)
    /\ UNCHANGED <<storeVars, placeVars, tasks, registryVars, loaded, settingsVars>>

\* The manifests are read again.
Rereads ==
    /\ loaded' \in BOOLEAN
    /\ skills' = IF loaded' THEN skills ELSE {}

ReloadSkills ==
    /\ Asked /\ Command("skill") /\ Well
    /\ Rereads
    /\ UNCHANGED <<storeVars, placeVars, tasks, registryVars, settingsVars>>

\* ConfigHandler.handle; the skills are among the components that are told.
Configure ==
    \/ Refreshes /\ Rereads
    \/ TellsNobody /\ UNCHANGED skillVars

ConfigCommand ==
    /\ Asked /\ Command("configure") /\ Well
    /\ Configure
    /\ UNCHANGED <<storeVars, placeVars, tasks, registryVars>>

ConfigSaved ==
    /\ SaveWrites
    /\ UNCHANGED <<loopVars, inputs, chats, registryVars, placeVars, storeVars, skillVars,
                   tasks, servedVars>>

(* --- commands on agents -------------------------------------------------- *)

\* The registry has changed, and is about to be saved.
ToSave(new) ==
    /\ Asked /\ Well
    /\ \E stream \in left.streams : Arrives("agents", stream)
    /\ profiles' = new
    /\ request' = [NoRequest EXCEPT !.stage = "to save"]
    /\ UNCHANGED <<loopVars, inputs, chats, storeVars, placeVars, tasks, skillVars, agentsFile,
                   unsaved, settingsVars>>

CreateAgent ==
    /\ \E a \in Agents \ DOMAIN profiles, model \in {NoModel, OwnModel} :
           ToSave(With(profiles, [b \in {a} |-> NewProfile(model, FALSE)]))
    /\ UNCHANGED personas

SetAgentTools ==
    /\ \E a \in DOMAIN profiles, tools \in ToolSets :
           ToSave([profiles EXCEPT ![a].tools = tools])
    /\ UNCHANGED personas

SetAgentModel ==
    /\ \E a \in DOMAIN profiles : ToSave([profiles EXCEPT ![a].model = OwnModel])
    /\ UNCHANGED personas

SetAgentPersona ==
    \E a \in DOMAIN profiles :
        /\ personas' = personas \cup {a}
        /\ ToSave([profiles EXCEPT ![a].persona = TRUE])

SaveRest == UNCHANGED <<loopVars, inputs, chats, profiles, personas, storeVars, placeVars,
                        tasks, skillVars, settingsVars, turn, told>>

\* _save_to_file: the file is opened, and is empty from then on ...
OpenAgentsFile ==
    /\ request.stage = "to save"
    /\ \/ /\ agentsFile' = [whole |-> FALSE, agents |-> <<>>]
          /\ request' = [request EXCEPT !.stage = "saving"]
          /\ UNCHANGED <<left, unsaved>>
       \/ Spends("faults") /\ request' = NoRequest /\ unsaved' = TRUE /\ UNCHANGED agentsFile
    /\ SaveRest

(* Mutant: the agents the program defines itself are not dumped. *)
OnlyOthers == [a \in DOMAIN profiles \ DOMAIN BuiltIn |-> profiles[a]]

\* What is dumped.
Dumped == profiles

\* ... until the profiles are in it; an error is only logged.
WriteAgentsFile ==
    /\ request.stage = "saving"
    /\ \/ /\ agentsFile' = [whole |-> TRUE, agents |-> Dumped]
          /\ unsaved' = FALSE /\ UNCHANGED left
       \/ Spends("faults") /\ unsaved' = TRUE /\ UNCHANGED agentsFile
    /\ request' = NoRequest
    /\ SaveRest

(* --- requests that are answered ------------------------------------------ *)

ServeRest == UNCHANGED <<inputs, chats, registryVars, placeVars, settingsVars>>

\* A message to chat about, or one for the loop, with the tool that it names
\* if it does; chat refuses a message that is too long.
Receive ==
    /\ Asked /\ Well
    /\ \E kind \in {"chat", "agent"}, stream \in left.streams :
         /\ Arrives(kind, stream)
         /\ \E first \in (IF kind = "agent" THEN left.first ELSE {NoTool}) :
              \/ request' = [stage |-> "begun", kind |-> kind, stream |-> stream, first |-> first]
              \/ kind = "chat" /\ UNCHANGED request
    /\ UNCHANGED <<loopVars, storeVars, tasks, skillVars>>
    /\ ServeRest

Ends == request' = NoRequest

\* The session that the rows of a request belong to.
Place == IF request.kind = "chat" THEN chatSession ELSE current.session

\* The user's row is stored; its session has to be there.  The prompt of a
\* chat, or of the loop of calls, has the active skill in it, if the agent
\* may have it.
SaveUserRow ==
    /\ request.stage = "begun"
    /\ \/ /\ Place \in Live
          /\ rows' = Stored(rows, Row("user", "brain", current.agent, Place))
          /\ skills' = IF request.kind = "chat" \/ calling
                       THEN StillFits(current.agent, Place) ELSE skills
          /\ IF request.kind = "chat"
             THEN request' = [request EXCEPT !.stage = "asked"] /\ UNCHANGED loopVars
             ELSE /\ request' = [request EXCEPT !.stage = "loop"]
                  /\ Started(current.agent, request.stream, request.first)
          /\ UNCHANGED left
       \/ /\ \/ Spends("faults")
             \/ Place \notin Live /\ UNCHANGED left
          /\ Ends /\ UNCHANGED <<rows, skills, loopVars>>
    /\ UNCHANGED <<sessions, memories, tasks, loaded, turn, told>>
    /\ ServeRest

\* The model of a chat answers, or the fallback text does.
ChatAnswers ==
    /\ request.stage = "asked"
    /\ request' = [request EXCEPT !.stage = "answer"]
    /\ told' \in (IF request.stream THEN {"completed", "llm_error", "fallback_response"}
                  ELSE {told})
    /\ UNCHANGED <<loopVars, storeVars, tasks, skillVars, turn, left>>
    /\ ServeRest

\* The loop has returned.
LoopAnswers ==
    /\ request.stage = "loop" /\ Idle
    /\ request' = [request EXCEPT !.stage = "answer"]
    /\ told' = IF request.stream THEN status ELSE told
    /\ UNCHANGED <<loopVars, storeVars, tasks, skillVars, turn, left>>
    /\ ServeRest

\* The reader of a stream leaves at some part of the answer: what was to
\* follow is not done, but the user's row stays.
Leaves ==
    /\ request.stream /\ Spends("leaves")
    /\ \/ request.stage \in {"asked", "answer"} /\ UNCHANGED loopVars
       \/ /\ request.stage = "loop" /\ Len(frames[Main]) = 1
          /\ Top(Main).kind = "run" /\ Top(Main).pc \in {"stream", "web"}
          /\ \E text \in Texts : Leave(Main, text, status)
          /\ UNCHANGED <<flag, lastTool>>
    /\ Ends /\ told' = "running"
    /\ UNCHANGED <<storeVars, tasks, skillVars, turn>>
    /\ ServeRest

\* ResponseFinalizer.finalize: the answer's row, then the session's count,
\* then the trim, each a transaction.
SaveAnswer ==
    /\ request.stage = "answer"
    /\ request' = [request EXCEPT !.stage = "count"]
    /\ rows' = Stored(rows, Row("assistant", "brain", current.agent, Place))
    /\ UNCHANGED <<loopVars, sessions, memories, tasks, skillVars, turn, told, left>>
    /\ ServeRest

(* Mutant: one message is counted for the two. *)
CountedOnce(session) == [sessions EXCEPT ![session].count = @ + 1]

Counted(session) == [sessions EXCEPT ![session].count = @ + 2]

Count ==
    /\ request.stage = "count"
    /\ request' = [request EXCEPT !.stage = "trim"]
    /\ sessions' = Counted(Place)
    /\ UNCHANGED <<loopVars, rows, memories, tasks, skillVars, turn, told, left>>
    /\ ServeRest

Trim ==
    /\ request.stage = "trim"
    /\ request' = [request EXCEPT !.stage = "learn"]
    /\ rows' = Trimmed(current.agent, rows)
    /\ memories' = Unlinked(rows')
    /\ UNCHANGED <<loopVars, sessions, tasks, skillVars, turn, told, left>>
    /\ ServeRest

\* The answers of a session that are stored, and are still to be counted.
Uncounted(s) ==
    (IF request.stage = "count" /\ s = Place THEN 1 ELSE 0)
        + IF s = chatSession THEN Cardinality({t \in Threads : chats[t] = "answer"}) ELSE 0

\* They never will be, if the request ends here.
Behind == [s \in DOMAIN sessions |-> [sessions[s] EXCEPT !.behind = @ + Uncounted(s)]]

\* One of them fails; the request fails with it, what was done stays.
FinalizeFails ==
    /\ request.stage \in {"answer", "count", "trim"} /\ Spends("faults")
    /\ Ends /\ sessions' = Behind
    /\ told' = IF request.stream /\ request.kind = "chat" THEN "running" ELSE told
    /\ UNCHANGED <<loopVars, rows, memories, tasks, skillVars, turn>>
    /\ ServeRest

(* Mutant: what is learnt goes to the agent of the session. *)
AgentOfSession == sessions[current.session].agent

LearningAgent == current.agent

\* _complete_response.
Learn ==
    /\ request.stage = "learn"
    /\ Ends
    /\ Submits([kind |-> "extraction", session |-> 0, turn |-> turn, agent |-> LearningAgent])
    /\ UNCHANGED <<loopVars, storeVars, skillVars, turn, told, left>>
    /\ ServeRest

(* --- commands that start agents ------------------------------------------ *)

\* _handle_delegate, _handle_chain and _handle_team: nothing is stored.
StartAgents ==
    /\ Asked /\ Well
    /\ \E stream \in left.streams : Arrives("orchestrate", stream)
    /\ request' = [NoRequest EXCEPT !.stage = "agents"]
    /\ \/ \E a \in DOMAIN profiles : Started(a, FALSE, NoTool)
       \/ /\ \E kind \in {"chain", "team"}, party \in Parties :
                 frames' = [frames EXCEPT ![Main] = <<ListFrame(kind, party)>>]
          /\ UNCHANGED <<flag, status, lastTool, answer>>
    /\ UNCHANGED <<storeVars, tasks, skillVars>>
    /\ ServeRest

AgentsAnswer ==
    /\ request.stage = "agents" /\ Idle
    /\ Ends
    /\ UNCHANGED <<loopVars, storeVars, tasks, skillVars, turn, told, left>>
    /\ ServeRest

(* --- the loop ------------------------------------------------------------ *)

\* A step of a loop that leaves the store alone.
LoopSteps(t) ==
    /\ LoopStep(t)
    /\ UNCHANGED <<chats, agentsFile, unsaved, personas, placeVars, storeVars, skillVars,
                   settingsVars, tasks, servedVars>>

PoolSteps(w) ==
    /\ PoolTakes(w)
    /\ UNCHANGED <<inputs, chats, registryVars, placeVars, storeVars, skillVars, settingsVars,
                   tasks, servedVars>>

RouteRest == UNCHANGED <<inputs, registryVars, placeVars, tasks, servedVars>>

\* ChatHandler.chat for the router stores the turn as its own, under the agent
\* of the loop, for whom the skill has to be: the question ...
RouterRow(t, role) == Row(role, "router", Top(t).agent, chatSession)

Stores(t, was, becomes) ==
    /\ Routes(t, "CHAT") /\ chats[t] = was
    /\ chats' = [chats EXCEPT ![t] = becomes]

ChatAsks(t) ==
    /\ Stores(t, "nothing", "question") /\ chatSession \in Live
    /\ rows' = Stored(rows, RouterRow(t, "user"))
    /\ skills' = StillFits(Top(t).agent, chatSession)
    /\ UNCHANGED <<loopVars, sessions, memories, loaded, settingsVars>> /\ RouteRest

\* ... unless it is too long, ...
ChatRefuses(t) ==
    /\ chats[t] = "nothing" /\ Routes(t, "CHAT") /\ Judged(t, "text")
    /\ UNCHANGED <<chats, storeVars, skillVars, settingsVars>> /\ RouteRest

\* ... the answer, their count, and the trim, each in a transaction.
ChatReplies(t) ==
    /\ Stores(t, "question", "answer")
    /\ rows' = Stored(rows, RouterRow(t, "assistant"))
    /\ UNCHANGED <<loopVars, sessions, memories, skillVars, settingsVars>> /\ RouteRest

ChatCounts(t) ==
    /\ Stores(t, "answer", "counted")
    /\ sessions' = Counted(chatSession)
    /\ UNCHANGED <<loopVars, rows, memories, skillVars, settingsVars>> /\ RouteRest

ChatTrims(t) ==
    /\ Stores(t, "counted", "nothing") /\ RouteChat(t)
    /\ rows' = Trimmed(Top(t).agent, rows)
    /\ memories' = Unlinked(rows')
    /\ UNCHANGED <<sessions, skillVars, settingsVars>> /\ RouteRest

ChatInLoop(t) ==
    ChatAsks(t) \/ ChatRefuses(t) \/ ChatReplies(t) \/ ChatCounts(t) \/ ChatTrims(t)

\* A route that raises ends the whole request, or the work of a pool's thread;
\* what its chat has stored stays.
RouteBreaks(t) ==
    /\ Top(t).kind = "legacy" /\ Top(t).pc = "route"
    /\ Top(t).action \in {"CHAT", "CLEAR_CONVERSATION", "STORE_MEMORY", "DELETE_MEMORY"}
    /\ \/ Spends("faults")
       \/ Top(t).action = "CHAT" /\ chatSession \notin Live /\ UNCHANGED left
    /\ sessions' = IF chats[t] = "answer" THEN [sessions EXCEPT ![chatSession].behind = @ + 1]
                   ELSE sessions
    /\ chats' = [chats EXCEPT ![t] = "nothing"]
    /\ IF t = Main
       THEN frames' = [frames EXCEPT ![Main] = <<>>] /\ Ends
       ELSE /\ frames' = [frames EXCEPT ![t] = <<>>,
                              ![Main] = Append(Front(@), Received(Last(@), "failure"))]
            /\ UNCHANGED request
    /\ UNCHANGED <<flag, status, lastTool, answer, rows, memories, tasks, skillVars, turn, told,
                   inputs, registryVars, placeVars, settingsVars>>

\* The messages of every session and agent go.
ClearInLoop(t) ==
    /\ RouteClear(t)
    /\ rows' = <<>> /\ memories' = Unlinked(<<>>)
    /\ UNCHANGED <<chats, sessions, skillVars, settingsVars>> /\ RouteRest

ForgetInLoop(t) ==
    /\ RouteForget(t)
    /\ \/ \E m \in memories : memories' = memories \ {m}
       \/ UNCHANGED memories
    /\ UNCHANGED <<chats, sessions, rows, skillVars, settingsVars>> /\ RouteRest

RememberInLoop(t) ==
    /\ RouteRemember(t)
    /\ \/ memories' = memories \cup
              {[turn |-> turn, how |-> "told", agent |-> Top(t).agent, source |-> 0]}
       \/ UNCHANGED memories
    /\ UNCHANGED <<chats, sessions, rows, skillVars, settingsVars>> /\ RouteRest

\* A command on the settings, as the task of an agent.
ConfigureInLoop(t) ==
    /\ RouteConfigure(t)
    /\ Configure \/ UNCHANGED <<settingsVars, skillVars>>    \* or it is refused
    /\ UNCHANGED <<chats, storeVars>> /\ RouteRest

(* --- the background ------------------------------------------------------ *)

Task == Head(tasks)

TaskRest == UNCHANGED <<loopVars, inputs, chats, registryVars, placeVars, skillVars,
                        settingsVars, servedVars>>

\* extract_memory: nothing is found, or what is found is known; or it is
\* stored, which the row it comes from has to be there for.
Extract ==
    /\ tasks # <<>> /\ Task.kind = "extraction"
    /\ tasks' = Tail(tasks)
    /\ \/ UNCHANGED memories
       \/ /\ Sourced(Task.turn, rows)
          /\ memories' = memories \cup
                {[turn |-> Task.turn, how |-> "extracted", agent |-> Task.agent,
                  source |-> Task.turn]}
    /\ UNCHANGED <<sessions, rows>> /\ TaskRest

\* _generate_session_summary, under the lock of the requests.
Summarize ==
    /\ tasks # <<>> /\ Task.kind = "summary" /\ Free
    /\ tasks' = Tail(tasks)
    /\ \/ UNCHANGED sessions
       \/ /\ \E i \in DOMAIN rows : rows[i].session = Task.session
          /\ sessions' = [sessions EXCEPT ![Task.session].summary = TRUE]
    /\ UNCHANGED <<rows, memories>> /\ TaskRest

(* --- the end of the process, and its start ------------------------------- *)

\* AikaBrain.__init__ reads what is stored, and opens a session.
Restart ==
    /\ Spends("crashes")
    /\ frames' = [t \in Threads |-> <<>>] /\ chats' = [t \in Threads |-> "nothing"]
    /\ flag' = FALSE /\ status' = "idle" /\ lastTool' = "none" /\ answer' = "none"
    /\ profiles' = Loaded(agentsFile, personas) /\ unsaved' = FALSE
    /\ Opens(DefaultAgent, Behind)
    /\ skills' = {} /\ tasks' = <<>>
    /\ request' = NoRequest /\ told' = "idle"
    /\ SettingsRestart
    /\ UNCHANGED <<inputs, agentsFile, personas, rows, memories, loaded, turn>>

(***************************************************************************)
(* The specification.                                                      *)
(***************************************************************************)

Init ==
    /\ LoopInit /\ SettingsInit
    /\ \E mix \in Mixes : left = mix /\ calling = mix.calling /\ messages = mix.messages
    /\ personas \in {{}, DOMAIN BuiltIn}
    /\ agentsFile = [whole |-> TRUE, agents |-> <<>>]
    /\ profiles = Loaded(agentsFile, personas) /\ unsaved = FALSE
    /\ sessions = <<NewSession(DefaultAgent)>>
    /\ current = [agent |-> DefaultAgent, session |-> 1] /\ chatSession = 1
    /\ rows = <<>> /\ memories = {} /\ chats = [t \in Threads |-> "nothing"]
    /\ skills = {} /\ loaded = TRUE /\ tasks = <<>>
    /\ request = NoRequest /\ turn = 0 /\ told = "idle"

Commands ==
    \/ StartNewSession \/ ResumeSession \/ DeleteSession \/ UseAgent \/ Show
    \/ UseSkill \/ DropSkill \/ ReloadSkills \/ ConfigCommand
    \/ CreateAgent \/ SetAgentTools \/ SetAgentModel \/ SetAgentPersona
    \/ Receive \/ StartAgents

Serving ==
    \/ ConfigSaved \/ OpenAgentsFile \/ WriteAgentsFile
    \/ SaveUserRow \/ ChatAnswers \/ LoopAnswers
    \/ SaveAnswer \/ Count \/ Trim \/ Learn \/ AgentsAnswer

Looping(t) ==
    frames[t] # <<>> /\ ~saving /\
        (LoopSteps(t) \/ ChatInLoop(t) \/ ClearInLoop(t) \/ ForgetInLoop(t)
            \/ RememberInLoop(t) \/ ConfigureInLoop(t) \/ RouteBreaks(t))

Background == Extract \/ Summarize

\* A step of what serves a request, in its thread or one of a pool.
Serves ==
    \/ Serving
    \/ \E t \in Threads : Looping(t)
    \/ \E w \in Workers : PoolSteps(w)

Next ==
    \/ Commands \/ Serves \/ Background
    \/ Leaves \/ FinalizeFails \/ Restart

\* A request that is being served goes on, in some thread; nobody has to ask,
\* to leave, or to fail.
Fairness == WF_brainVars(Serves)

Spec == Init /\ [][Next]_brainVars /\ Fairness

(***************************************************************************)
(* What holds.                                                             *)
(***************************************************************************)

Roles == {"user", "assistant"}

Stages == {"none", "begun", "asked", "loop", "answer", "count", "trim", "learn",
           "agents", "to save", "saving"}

BrainTypeOK ==
    /\ SettingsTypeOK
    /\ DOMAIN profiles \subseteq Agents
    /\ \A a \in DOMAIN profiles :
         profiles[a].tools \subseteq Tools /\ profiles[a].turns \in Nat
    /\ personas \subseteq DOMAIN profiles
    /\ current.agent \in DOMAIN profiles /\ current.session \in DOMAIN sessions
    /\ \A i \in DOMAIN rows :
         /\ rows[i].role \in Roles /\ rows[i].by \in {"brain", "router"}
         /\ rows[i].agent \in Agents /\ rows[i].session \in DOMAIN sessions
    /\ skills \subseteq DOMAIN sessions
    /\ Len(tasks) <= MaxTasks
    /\ request.stage \in Stages
    /\ chats \in [Threads -> {"nothing", "question", "answer", "counted"}]
    /\ \A t \in Threads : Runs(t) <= MaxRuns

\* An answer is stored after its question, of the same agent in the same
\* session, unless all that the agent had before that turn has gone as well
\* (trim, and the clearing of all conversations).
AnswersFollow ==
    \A i \in {n \in DOMAIN rows : rows[n].role = "assistant"} :
        LET before == {j \in DOMAIN rows : j < i}
        IN  \/ \E j \in before : rows[j] = [rows[i] EXCEPT !.role = "user"]
            \/ \A j \in before : rows[j].agent = rows[i].agent => rows[j].turn = rows[i].turn

\* Each answer is counted with its question in the session it is in, but for
\* those whose request, or pool's thread, ended between the two.
AnswersCounted ==
    \A s \in DOMAIN sessions :
        2 * Cardinality({i \in DOMAIN rows : rows[i].role = "assistant" /\ rows[i].session = s})
            <= Behind[s].count + 2 * Behind[s].behind

\* What is kept once a request is done: as many rows of the agent as may be,
\* the answer the last of them.
NewestKept ==
    request.stage = "learn" =>
        LET own == RowsOf(current.agent, rows)
        IN  /\ Cardinality(own) \in 1..MaxRows
            /\ rows[Max(own)] = Row("assistant", "brain", current.agent, Place)

\* Both handlers store what is said in the same session, and it is there
\* unless its deletion could not be finished.
PlaceFits ==
    chatSession = current.session /\ sessions[current.session].state # "deleted"

\* The turns of a conversation are stored whole, in order, in their session and
\* under their agent, and as many as are to be kept (response_finalizer.py,
\* conversation_repository.py, session_repository.py), whatever is deleted or
\* cleared, and whatever fails, is left or ends in between.
TurnsKept == AnswersFollow /\ AnswersCounted /\ NewestKept /\ PlaceFits

\* A memory that was extracted knows the message it comes from as long as that
\* is stored, and belongs to the agent the message was for, though it is
\* extracted later, when the session may have been deleted or trimmed
\* (brain.py _schedule_memory_extraction, memory_extractor.py).
MemoriesFit ==
    \A m \in memories : m.source # 0 =>
        \E i \in DOMAIN rows : IsSource(rows[i], m.source) /\ rows[i].agent = m.agent

\* The agents of a process that starts now would be those of this one, unless
\* the file could not be written or was cut short (agent_registry.py).
RegistryFits ==
    ~unsaved /\ agentsFile.whole /\ request.stage # "to save" =>
        Loaded(agentsFile, personas) = profiles

\* A skill is active in no session that was deleted, and guides no answer of an
\* agent that may not have it, whoever activated it and whatever became of the
\* agent's tools since (skills/manager.py).
SkillsFit ==
    /\ \A s \in skills : sessions[s].state # "deleted"
    /\ \/ request.stage = "asked"
       \/ request.stage = "loop" /\ calling
       => (current.session \in skills => Available(current.agent))

\* A run uses a tool in each of its turns at most, and one before them; and once
\* the same tool has failed twice in a row it uses no other (agent_loop.py).
ToolsBounded ==
    \A t \in Threads : \A i \in DOMAIN frames[t] :
        LET f == frames[t][i]
        IN  f.kind \in {"run", "legacy"} =>
              /\ Len(f.acts) <= profiles[f.agent].turns + 1
              /\ \A n \in 2..Len(f.acts) :
                   f.acts[n].failed => f.acts[n] # f.acts[n - 1]

\* What a model says that was only asked to choose a tool, because the agent's
\* own cannot, is never the answer, for all that the mark of such a call is
\* shared by every run; only where a pool's threads work at once may it be, or
\* after the call of a tool that does not exist (agent_loop.py
\* _last_call_used_tool_fallback).
OwnWords ==
    \A i \in DOMAIN frames[Main] :
        LET f == frames[Main][i]
        IN  f.kind = "run" /\ f.by = "substitute" => f.tool = NoSuchTool

\* The tools that only a wording of their own asks for: to run a command, to
\* change a file or a directory in place, to search in files.
ByName == {"shell", "file_mkdir", "file_append", "file_edit", "file_grep", "system_info"}

\* The tool the legacy loop takes is the one that was decided on, though the
\* decision is made on the message with what was done, and the tool is told
\* from the message alone by other tests (decision_engine.py, router.py).  The
\* two read "find in" differently.  A search of the web is classified once more
\* and may become another search; and what was left to the classifier may take
\* any tool but those that have to be asked for by name.
RoutedAsDecided ==
    \A t \in Threads : \A i \in DOMAIN frames[t] :
        LET f == frames[t][i]
        IN  f.kind = "legacy" /\ f.pc = "route" /\ f.action = "USE_TOOL" =>
              \/ f.tool = f.meant
              \/ /\ f.meant = "file_grep" /\ f.tool = "file_search"
                 /\ Starts(f.message, <<"find", "in">>)
              \/ f.meant = "web_search" /\ f.tool \in {"file_search", "memory_search"}
              \/ f.meant = AnyTool /\ f.tool \notin ByName

\* Every request that is begun ends: the loops stop after their turns, teams
\* and chains after their members', a pool when its threads are done.
RequestEnds == request.stage # "none" ~> request.stage = "none"
=============================================================================
