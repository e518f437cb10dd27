------------------------------ MODULE MCBrain -------------------------------
(***************************************************************************)
(* Brain for TLC: two agents, the program's own and one of its specialists *)
(* who has a model and some tools of his own, two threads of a pool, and a *)
(* mix of requests for each kind of thing that may happen.                 *)
(***************************************************************************)
EXTENDS Brain

CONSTANTS aika, writer, helper, w1, w2

MCBuiltIn ==
    aika :> [tools |-> {}, model |-> NoModel, turns |-> 2, persona |-> TRUE]
        @@ writer :> [tools |-> {"web_search", "file_append"}, model |-> OwnModel, turns |-> 2,
                      persona |-> TRUE]

\* What the loop of decisions is to do: something that is stored, or work
\* for other agents.
Storing ==
    {Message(<<"remember">>, {}), Message(<<"forget">>, {}), Message(<<"clear">>, {"whole"}),
     Message(<<"hello">>, {"small talk"}), Message(<<"create", "folder">>, {}),
     Message(<<"find", "in">>, {}), Message(<<"search", "for">>, {}), Message(<<"delete">>, {})}

Greeting == {Message(<<"hello">>, {"small talk"})}
Handing == {Message(<<"have", "the">>, {})} \cup Greeting
Delegating == {Message(<<"chain">>, {})} \cup Handing
Setting == {Message(<<"!">>, {})}
Pooling == {Message(<<"parallel">>, {})}

MCMessages == Storing \cup Delegating \cup Pooling \cup Setting

MCParties == {<<aika, writer>>}

\* What nothing happens in.
Quiet ==
    [kinds |-> {}, messages |-> Greeting, streams |-> {FALSE}, first |-> {NoTool}, calling |-> TRUE,
     requests |-> 1, faults |-> 0, leaves |-> 0, crashes |-> 0]

\* A loop of calls: its replies, its tools, and a stream whose reader leaves.
Loops ==
    [Quiet EXCEPT !.kinds = {"agent"}, !.streams = BOOLEAN, !.first = {NoTool} \cup Tools,
                  !.messages = Delegating, !.leaves = 1]

\* Runs that work at once, and share what the loop remembers of a call.
Pools == [Quiet EXCEPT !.kinds = {"agent"}, !.messages = Pooling]

\* Sessions and the turns in them, with a transaction that fails.
Sessions ==
    [Quiet EXCEPT !.kinds = {"chat", "new session", "resume", "delete session"},
                  !.requests = 4, !.faults = 1]

Restarts ==
    [Sessions EXCEPT !.kinds = @ \cup {"use agent"}, !.requests = 3, !.faults = 0, !.crashes = 1]

\* Turns that are cut short, by a reader, a failure or the process's end.
Streams ==
    [Quiet EXCEPT !.kinds = {"chat", "delete session"}, !.streams = {TRUE},
                  !.requests = 3, !.faults = 1, !.leaves = 1, !.crashes = 1]

\* Agents that are changed, and the file they are saved in.
Registry ==
    [Quiet EXCEPT !.kinds = {"agents", "use agent"}, !.requests = 3, !.faults = 1,
                  !.crashes = 1]

\* Skills, over sessions and agents that change.
Skilled ==
    [Quiet EXCEPT !.kinds = {"agents", "skill", "use agent", "chat", "delete session", "show"},
                  !.requests = 3, !.faults = 1]

Settled == [Quiet EXCEPT !.kinds = {"configure"}, !.requests = 4, !.crashes = 1]

\* The loop of decisions, with the router's own changes of what is stored.
Legacy ==
    [Quiet EXCEPT !.kinds = {"agent", "chat"}, !.calling = FALSE, !.messages = Storing,
                  !.requests = 2, !.faults = 1]

\* ... and with the agents it hands the work to, or a pool of them.
HandedOn ==
    [Quiet EXCEPT !.kinds = {"agent"}, !.calling = FALSE, !.messages = Delegating,
                  !.faults = 1, !.crashes = 1]

\* Chats of a pool's threads, each in its transactions; and work of theirs that
\* fails.
Shared == [HandedOn EXCEPT !.messages = Pooling \cup Greeting, !.faults = 0, !.crashes = 0]
Broken ==
    [HandedOn EXCEPT !.messages = Pooling \cup {Message(<<"remember">>, {})}, !.crashes = 0]

\* Agents that a command starts, in either loop, and not in one after the other.
Delegations == [Quiet EXCEPT !.kinds = {"orchestrate"}, !.messages = {}]
Teams ==
    [Quiet EXCEPT !.kinds = {"orchestrate", "delete session"}, !.calling = FALSE,
                  !.requests = 2, !.faults = 1]

\* A skill, and agents that chat for others who may not have it; settings that
\* an agent is told to change.
Guided ==
    [Quiet EXCEPT !.kinds = {"skill", "agent"}, !.calling = FALSE, !.messages = Handing,
                  !.requests = 2]
Commanded ==
    [Quiet EXCEPT !.kinds = {"agent"}, !.calling = FALSE, !.messages = Setting]

MCMixes == {Guided, Commanded, Loops, Pools, Sessions, Restarts, Streams, Registry, Skilled, Settled, Legacy,
            HandedOn, Shared, Broken, Delegations, Teams}

MCValues == [k \in Keys |->
    CASE k = "background_max_workers" -> {"other", Zero}
      [] k = "shell_blocked_keywords" -> {"other", Empty}
      [] k = "model_router_complex_keywords" -> {Mixed, Empty}
      [] k = "log_format" -> {Malformed}
      [] k = "fast_model" -> {"other", Hashed}
      [] OTHER -> {Default, "other"}]

MCInvalid == [k \in Keys |-> {Zero}]

MCGiven == "shell_blocked_keywords" :> Spaced
=============================================================================
