------------------------------ MODULE Dispatch ------------------------------
(***************************************************************************)
(* What is done with a message: brain/decision_engine.py chooses an action *)
(* for it, and for a tool brain/router.py then chooses which one, each by  *)
(* a chain of tests of its own in which the first that matches wins.       *)
(*                                                                         *)
(* A message is its leading words and the marks the other tests look for.  *)
(***************************************************************************)
EXTENDS Naturals, Sequences, FiniteSets

\* The marks: the rest looks like a file operation, or like a program to
\* open; advice or a follow-up; a study of something named; a sum; a short
\* greeting or a comparison; the whole message is its leading words.
Marks == {"file", "app", "advice", "study", "sum", "small talk", "whole"}

Message(lead, marks) == [lead |-> lead, marks |-> marks]

\* A sum has nothing but figures and signs in it, so no word it could start
\* with.
IsMessage(m) ==
    /\ m.lead \in Seq(STRING) /\ m.marks \subseteq Marks
    /\ "sum" \in m.marks => m.lead = <<>>

Starts(m, p) == Len(p) <= Len(m.lead) /\ SubSeq(m.lead, 1, Len(p)) = p

\* A test: some prefix, or any if there are none, and all of the marks.
Test(prefixes, marks, action, tool) ==
    [prefixes |-> prefixes, marks |-> marks, action |-> action, tool |-> tool]

Holds(test, m) ==
    /\ test.prefixes = {} \/ \E p \in test.prefixes : Starts(m, p)
    /\ test.marks \subseteq m.marks

First(tests, m) ==
    LET held == {i \in DOMAIN tests : Holds(tests[i], m)}
    IN IF held = {} THEN 0 ELSE CHOOSE i \in held : \A j \in held : i <= j

NoTool == "no tool"
AnyTool == "any tool"      \* the intent classifier names it

\* decision_engine.py, up to the orchestration patterns ...
CommandTests == <<
    Test({<<"remember">>}, {}, "STORE_MEMORY", NoTool),
    Test({<<"memories">>}, {"whole"}, "LIST_MEMORIES", NoTool),
    Test({<<"search", "the", "web">>, <<"search", "for">>, <<"search", "online">>},
         {}, "USE_TOOL", "web_search"),
    Test({<<"search", "in">>}, {}, "USE_TOOL", "file_grep"),
    Test({<<"search">>}, {}, "SEARCH_MEMORY", NoTool),
    Test({<<"forget">>}, {}, "DELETE_MEMORY", NoTool),
    Test({<<"list", "sessions">>, <<"sessions">>, <<"show", "sessions">>},
         {"whole"}, "LIST_SESSIONS", NoTool),
    Test({<<"resume">>}, {}, "RESUME_SESSION", NoTool),
    Test({<<"delete", "session">>}, {}, "DELETE_SESSION", NoTool),
    Test({<<"show", "agent">>, <<"list", "agent">>}, {}, "CHAT", NoTool),
    Test({<<"run">>}, {}, "USE_TOOL", "shell"),
    Test({<<"open">>}, {"app"}, "USE_TOOL", "app_launcher"),
    Test({<<"list">>, <<"show">>}, {"file"}, "USE_TOOL", "folder"),
    Test({<<"system", "info">>, <<"system", "status">>, <<"how's", "my">>},
         {}, "USE_TOOL", "system_info"),
    Test({<<"have", "the">>, <<"tell", "the">>, <<"ask", "the">>, <<"delegate", "to">>},
         {}, "DELEGATE", NoTool),
    Test({<<"chain">>, <<"team">>, <<"parallel">>, <<"run", "all">>},
         {}, "ORCHESTRATE", NoTool)>>

\* ... advice, plans and sums, and the tools for files ...
FileTests == <<
    Test({}, {"advice"}, "CHAT", NoTool),
    Test({<<"find", "and">>, <<"read", "and">>, <<"search", "and">>},
         {}, "PLAN_EXECUTION", NoTool),
    Test({}, {"study"}, "PLAN_EXECUTION", NoTool),
    Test({}, {"sum"}, "USE_TOOL", "calculator"),
    Test({<<"find">>}, {"file"}, "USE_TOOL", "file_search"),
    Test({<<"read">>}, {"file"}, "USE_TOOL", "file_read"),
    Test({<<"mkdir">>, <<"create", "folder">>}, {}, "USE_TOOL", "file_mkdir"),
    Test({<<"write">>, <<"save">>, <<"create">>, <<"make">>},
         {"file"}, "USE_TOOL", "file_write"),
    Test({<<"delete">>, <<"remove">>}, {"file"}, "USE_TOOL", "file_delete"),
    Test({<<"append">>, <<"add", "to">>}, {}, "USE_TOOL", "file_append"),
    Test({<<"edit">>, <<"replace">>}, {}, "USE_TOOL", "file_edit"),
    Test({<<"grep">>, <<"search", "in">>, <<"find", "in">>},
         {}, "USE_TOOL", "file_grep")>>

\* ... and the rest.
LastTests == <<
    Test({<<"!">>}, {}, "CONFIGURE", NoTool),
    Test({<<"new", "session">>, <<"start", "fresh">>}, {"whole"}, "NEW_SESSION", NoTool),
    Test({<<"clear">>, <<"reset">>}, {"whole"}, "CLEAR_CONVERSATION", NoTool),
    Test({}, {"small talk"}, "CHAT", NoTool)>>

Tests == CommandTests \o FileTests \o LastTests

\* intent_classifier.py: what the model's word stands for, and CHAT for any
\* other word and for a call that fails.
Intents ==
    {[action |-> "USE_TOOL", tool |-> t] :
        t \in {"web_search", "file_search", "file_write", "memory_search"}}
        \cup {[action |-> "PLAN_EXECUTION", tool |-> NoTool],
              [action |-> "CHAT", tool |-> NoTool]}

\* DecisionEngine.decide, given what the classifier would answer.
Decide(m, intent) ==
    IF First(Tests, m) # 0
    THEN [action |-> Tests[First(Tests, m)].action,
          tool |-> Tests[First(Tests, m)].tool]
    ELSE [intent EXCEPT !.tool = AnyTool]

\* Router.route, the tests of a message a tool was decided for.
SystemToolTests == <<
    Test({}, {"sum"}, "USE_TOOL", "calculator"),
    Test({<<"find">>}, {}, "USE_TOOL", "file_search"),
    Test({<<"read">>}, {}, "USE_TOOL", "file_read"),
    Test({<<"run">>}, {}, "USE_TOOL", "shell"),
    Test({<<"open">>}, {}, "USE_TOOL", "app_launcher"),
    Test({<<"list">>, <<"show">>}, {}, "USE_TOOL", "folder"),
    Test({<<"system", "info">>, <<"system", "status">>, <<"how's", "my">>},
         {}, "USE_TOOL", "system_info")>>

FileToolTests == <<
    Test({<<"mkdir">>, <<"create", "folder">>}, {}, "USE_TOOL", "file_mkdir"),
    Test({<<"create">>, <<"write">>, <<"make">>, <<"save">>},
         {}, "USE_TOOL", "file_write"),
    Test({<<"delete">>, <<"remove">>}, {}, "USE_TOOL", "file_delete"),
    Test({<<"append">>, <<"add", "to">>}, {}, "USE_TOOL", "file_append"),
    Test({<<"edit">>, <<"replace">>}, {}, "USE_TOOL", "file_edit"),
    Test({<<"grep">>, <<"search", "in">>, <<"find", "in">>},
         {}, "USE_TOOL", "file_grep")>>

(* Mutant: "create" is tried before "create folder". *)
SwappedToolTests == SystemToolTests \o <<FileToolTests[2]>> \o FileToolTests

ToolTests == SystemToolTests \o FileToolTests

\* The tool taken; the rest is classified again, and what is neither a web
\* nor a file search becomes a search of the memories.
ToolFor(m, intent) ==
    IF First(ToolTests, m) # 0 THEN ToolTests[First(ToolTests, m)].tool
    ELSE IF intent.tool \in {"web_search", "file_search"} THEN intent.tool
    ELSE "memory_search"

\* brain/agent_context.py get_enriched_input: the text the second decision
\* of a run is made on.  The words it starts with stay; it is no longer just
\* those words, nor short, and what was done may read like anything else.
Enriched(m) ==
    {Message(m.lead, marks) :
        marks \in {s \cup (m.marks \cap {"file", "app"}) :
                      s \in SUBSET {"file", "advice", "study"}}}
=============================================================================
