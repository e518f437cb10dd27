------------------------------ MODULE Settings ------------------------------
(***************************************************************************)
(* The settings of a process: src/src/config/settings.py, which reads them *)
(* from the environment, the commands of handlers/config_handler.py, which *)
(* change, save and reload them, and the copies that the components of     *)
(* brain/brain.py keep of them.                                            *)
(***************************************************************************)
EXTENDS Naturals, FiniteSets

CONSTANTS
    Keys,           \* the settings that are followed, by their names in the code
    Values,         \* of a key: what !set can give it
    Invalid,        \* of a key: those of them it is refused
    Given           \* the texts of the process's own environment, by key

\* A text stands for the value it is read as, but for some of these.
Unset == "unset"        \* the name is not in the environment, or the file
Default == "default"
Zero == "zero"
Empty == "empty"        \* of a list, no items
Blank == "blank"        \* of a list, one item: the empty string
Spaced == "spaced"      \* of a list, blanks about an item, and ...
Tidy == "tidy"          \* ... the same without them
Mixed == "mixed"        \* of a list, capitals in an item, and ...
Lower == "lower"        \* ... the same without them
Malformed == "malformed"    \* a format that logging.Formatter refuses
Hashed == "hashed"      \* what .env takes for a comment or a quote, and ...
Cut == "cut"            \* ... the same without it

(* --- settings ------------------------------------------------------------ *)

\* The keys of which !set says that they apply after a restart.
StartupOnly ==
    {"background_max_workers", "background_max_pending",
     "embedding_model", "embedding_dimension"}

\* _to_env_name gives it another name than Settings.__init__ reads.
Misnamed == {"tool_call_confirm_high_permission"}

\* Lists that are only split, and those whose items are stripped, lower-cased
\* some of them, and dropped if they are empty.
BareLists == {"shell_blocked_keywords", "protected_paths"}
LoweredLists == {"model_router_complex_keywords", "model_router_tool_heavy_prefixes"}
StrippedLists == LoweredLists \cup {"shell_allowed_workdirs"}

ModelKeys == {"chat_model", "fast_model", "smart_model"} \cap Keys
LogLevel == "log_level"
LogFormat == "log_format"
SkillLimits == {"skill_max_count", "skill_max_manifest_bytes", "skill_max_instruction_bytes"}

ASSUME SettingsAssumption ==
    LogLevel \in Keys /\ \A k \in Keys : Unset \notin Values[k]

(* --- components ---------------------------------------------------------- *)

Encoding == {"file_read_encoding"}

\* What each component copies when it is made; the others read the settings
\* whenever they need one.
Copies == [
    llm |-> {"chat_model", "ollama_host", "llm_timeout"},
    embedding_service |->
        {"embedding_model", "embedding_dimension", "ollama_host", "llm_timeout"},
    model_router |-> LoweredLists \cup
        {"fast_model", "smart_model", "model_router_long_message_words",
         "model_router_complex_question_words", "model_router_escalation_iteration"},
    conversation_repo |-> {"conversation_max_count", "recent_conversations_count"},
    context_manager |->
        {"max_context_tokens", "memory_retrieval_limit", "recent_conversations_count",
         "context_session_summaries_count", "context_cross_session_conversations"},
    memory_handler |-> {"memory_retrieval_limit"},
    memory_extractor |->
        {"log_level", "memory_dedup_threshold", "memory_extraction_max_per_message"},
    chat_handler |-> {"log_level"},
    llm_tool_router |-> {"chat_model", "native_tool_calling"},
    intent_classifier |-> {"fast_model"},
    planner |-> {"plan_web_search_max_results"},
    executor |-> {"execution_log_path", "plan_top_sources_count"},
    tool_handler |-> {"crawl_content_max_chars"},
    agent_loop |->
        {"agent_max_iterations", "agent_reflection_enabled", "chat_model",
         "native_tool_calling", "max_context_tokens"},
    reflection |-> {"fast_model"},
    orchestrator |-> {"orchestrator_max_workers", "orchestration_max_team_turns"},
    skill_manager |-> {"skills_path"} \cup SkillLimits,
    memory_search |-> {"memory_retrieval_limit"},
    file_read |-> Encoding, file_read_range |-> Encoding, file_write |-> Encoding,
    file_append |-> Encoding, file_edit |-> Encoding, file_multi_edit |-> Encoding,
    file_grep |-> Encoding \cup {"file_grep_max_results", "file_scan_max_files"},
    file_search |-> {"file_search_max_results", "file_scan_max_files"},
    web_crawl |->
        {"web_crawl_max_workers", "web_crawl_max_urls", "web_crawl_max_redirects",
         "web_crawl_timeout", "web_crawl_max_response_bytes",
         "web_crawl_allow_private_network"},
    background |-> {"background_max_workers", "background_max_pending"},
    memory_ranker |-> {"memory_max_per_category"},
    logging |-> {"log_format"},
    database |-> {"database_url"},
    job_runtime |->
        {"job_payload_max_chars", "job_result_max_chars", "job_default_max_attempts",
         "job_retry_delay_seconds", "job_worker_poll_interval"},
    reminder_scheduler |->
        {"reminder_default_timezone", "reminder_message_max_chars",
         "reminder_min_interval_seconds", "reminder_reconcile_limit"},
    orchestration_runtime |->
        {"orchestration_task_max_chars", "orchestration_result_max_chars",
         "orchestration_max_agents", "orchestration_max_steps",
         "orchestration_max_team_turns", "orchestration_step_max_attempts",
         "orchestration_job_max_attempts", "orchestration_reconcile_limit"}]

\* A copy: of which component, and of which key.
Copied == {copy \in (DOMAIN Copies) \X Keys : copy[2] \in Copies[copy[1]]}

\* What a component makes of a value: the router's own lists for an empty one,
\* and the registry's own limits for one that is not positive.
CopyOf(copy, v) ==
    CASE copy[1] = "model_router" /\ copy[2] \in LoweredLists /\ v = Mixed -> Lower
      [] copy[1] = "model_router" /\ copy[2] \in LoweredLists /\ v = Empty -> Default
      [] copy[1] = "skill_manager" /\ copy[2] \in SkillLimits /\ v = Zero -> Default
      [] OTHER -> v

AllCopied(values) == [copy \in Copied |-> CopyOf(copy, values[copy[2]])]

\* The components of the brain that are told of a change, and the tools; the
\* agent loop tells its reflection.
Refreshables ==
    {"llm", "embedding_service", "model_router", "conversation_repo", "context_manager",
     "memory_handler", "memory_extractor", "chat_handler", "llm_tool_router",
     "intent_classifier", "planner", "executor", "tool_handler", "agent_loop",
     "orchestrator", "skill_manager"}

RefreshedTools ==
    {"memory_search", "file_read", "file_read_range", "file_write", "file_append",
     "file_edit", "file_multi_edit", "file_grep", "file_search", "web_crawl"}

(* Mutant: the loop does not tell the reflection, which nobody else does. *)
OnlyListed == Refreshables \cup RefreshedTools

Reached == Refreshables \cup RefreshedTools \cup {"reflection"}

\* A component's refresh_from_settings: what it copies again.  The embedding
\* service keeps its model and its dimension.
Recopies(copy) ==
    copy[1] = "embedding_service" => copy[2] \notin {"embedding_model", "embedding_dimension"}

VARIABLES
    settings,   \* the values in use
    cached,     \* the components' copies of them
    environ,    \* the process's environment
    envFile,    \* .env: whether it is whole, and the texts it gives
    saving,     \* .env has been opened for writing
    saved       \* history: the values !save has last saved, if it has

settingsVars == <<settings, cached, environ, envFile, saving, saved>>

AllOf(v) == [k \in Keys |-> v]

\* What a text in the environment is read as.
ReadAs(k, v) ==
    CASE v = Unset -> Default
      [] k \in BareLists /\ v = Empty -> Blank
      [] k \in StrippedLists /\ v = Spaced -> Tidy
      [] k \in LoweredLists /\ v = Mixed -> Lower
      [] k = LogFormat /\ v = Malformed -> Default
      [] OTHER -> v

\* Settings.__init__.
FromEnviron(env) == [k \in Keys |-> ReadAs(k, env[k])]

\* load_dotenv, of a line.
FromLine(v) == IF v = Hashed THEN Cut ELSE v

\* load_dotenv at the start leaves alone what is in the environment; with
\* override, what is in the file comes first.
AtStart(file) ==
    [k \in Keys |-> IF k \in DOMAIN Given THEN Given[k] ELSE FromLine(file[k])]

Overridden(env, file) ==
    [k \in Keys |-> IF file[k] # Unset THEN FromLine(file[k]) ELSE env[k]]

\* _refresh_from_settings.
Refreshed(copies, new) ==
    [copy \in Copied |->
        IF copy[1] \in Reached /\ Recopies(copy)
        THEN CopyOf(copy, new[copy[2]]) ELSE copies[copy]]

SettingsInit ==
    /\ envFile = [whole |-> TRUE, values |-> AllOf(Unset)]
    /\ environ = AtStart(AllOf(Unset))
    /\ settings = FromEnviron(environ)
    /\ cached = AllCopied(settings)
    /\ saving = FALSE
    /\ saved = [known |-> FALSE, values |-> settings]

\* !set: refused when the value does not fit the key.
Set(k, v) ==
    /\ v \notin Invalid[k]
    /\ settings' = [settings EXCEPT ![k] = v]
    /\ cached' = IF k \in StartupOnly THEN cached ELSE Refreshed(cached, settings')
    /\ UNCHANGED <<environ, envFile, saving, saved>>

\* !model.
SwitchModel(k, v) ==
    /\ settings' = [settings EXCEPT ![k] = v]
    /\ cached' = Refreshed(cached, settings')
    /\ UNCHANGED <<environ, envFile, saving, saved>>

\* !log does not tell the components.
ToggleLog(v) ==
    /\ settings' = [settings EXCEPT ![LogLevel] = v]
    /\ UNCHANGED <<cached, environ, envFile, saving, saved>>

\* _serialize_env_value; of a list, the items are stripped.
Serialized(k, v) ==
    CASE v = Blank /\ k \in BareLists -> Empty
      [] v = Spaced /\ k \in BareLists \cup StrippedLists -> Tidy
      [] OTHER -> v

(* Mutant: what is not in the file yet is not added to it. *)
OnlyUpdated(values) ==
    [k \in Keys |-> IF k \in Misnamed \/ envFile.values[k] = Unset
                    THEN envFile.values[k] ELSE Serialized(k, values[k])]

\* What the file gives each key once it is saved: a misnamed key's line is
\* one that is not read.
Written(values) ==
    [k \in Keys |-> IF k \in Misnamed THEN envFile.values[k] ELSE Serialized(k, values[k])]

\* !save opens the file for writing, which empties it ...
SaveOpens ==
    /\ ~saving
    /\ saving' = TRUE
    /\ envFile' = [whole |-> FALSE, values |-> Written(settings)]
    /\ UNCHANGED <<settings, cached, environ, saved>>

\* ... and writes the lines it has made.
SaveWrites ==
    /\ saving
    /\ saving' = FALSE
    /\ envFile' = [envFile EXCEPT !.whole = TRUE]
    /\ saved' = [known |-> TRUE, values |-> settings]
    /\ UNCHANGED <<settings, cached, environ>>

InFile == IF envFile.whole THEN envFile.values ELSE AllOf(Unset)

\* !reload.
Reload ==
    /\ environ' = Overridden(environ, InFile)
    /\ settings' = FromEnviron(environ')
    /\ cached' = Refreshed(cached, settings')
    /\ UNCHANGED <<envFile, saving, saved>>

\* The commands after which the components are told ...
Refreshes ==
    \/ \E k \in Keys \ StartupOnly : \E v \in Values[k] : Set(k, v)
    \/ \E k \in ModelKeys : \E v \in Values[k] : SwitchModel(k, v)
    \/ Reload

\* ... and the others; !save goes on with SaveWrites.
TellsNobody ==
    \/ \E k \in StartupOnly \cap Keys : \E v \in Values[k] : Set(k, v)
    \/ \E v \in Values[LogLevel] \ Invalid[LogLevel] : ToggleLog(v)
    \/ SaveOpens

\* The process starts again; a file it was writing is left empty.
SettingsRestart ==
    /\ environ' = AtStart(InFile)
    /\ settings' = FromEnviron(environ')
    /\ cached' = AllCopied(settings')
    /\ envFile' = [whole |-> TRUE, values |-> InFile]
    /\ saved' = [saved EXCEPT !.known = @ /\ envFile.whole]
    /\ saving' = FALSE

(***************************************************************************)
(* What holds.                                                             *)
(***************************************************************************)

SettingsTypeOK ==
    /\ DOMAIN settings = Keys /\ DOMAIN cached = Copied
    /\ DOMAIN environ = Keys /\ DOMAIN envFile.values = Keys
    /\ DOMAIN saved.values = Keys
    /\ saving = ~envFile.whole

\* The components that work with the settings of the start: nothing tells them
\* of another, though !set says of their keys that they were changed.
MadeOnce ==
    {"memory_ranker", "logging", "database", "job_runtime", "reminder_scheduler",
     "orchestration_runtime"}

\* Every other component, whoever tells it, works with what it makes of the
\* setting in force; the settings that !set says need a restart and the level
\* that !log sets may lag (brain.py _refresh_from_settings, config_handler.py).
CopiesFit ==
    \A copy \in Copied :
        copy[1] \notin MadeOnce /\ copy[2] \notin StartupOnly \cup {LogLevel}
            => cached[copy] = CopyOf(copy, settings[copy[2]])

\* The values of a key that come back as another: each is in a pair with it.
ComeBackChanged(k) ==
    {<<Hashed, Cut>>}
        \cup (IF k \in BareLists THEN {<<Empty, Blank>>, <<Spaced, Tidy>>} ELSE {})
        \cup (IF k \in StrippedLists THEN {<<Spaced, Tidy>>} ELSE {})
        \cup (IF k \in LoweredLists THEN {<<Mixed, Lower>>} ELSE {})
        \cup (IF k = LogFormat THEN {<<Malformed, Default>>} ELSE {})

\* What !save has written, a restart or !reload reads again: every key but the
\* misnamed one is the value it was, or one of the few that the text in .env
\* and its reading change; and what was changed so comes back the same if it is
\* saved again (config_handler.py _save, _to_env_name and
\* _serialize_env_value, settings.py).
SavedComesBack ==
    saved.known /\ envFile.whole =>
        \A k \in Keys \ Misnamed :
            LET back == ReadAs(k, FromLine(envFile.values[k]))
            IN  /\ \/ back = saved.values[k]
                   \/ <<saved.values[k], back>> \in ComeBackChanged(k)
                /\ ReadAs(k, FromLine(Serialized(k, back))) = back

\* The settings in force are those that the components work with, all but those
\* made once, and those that are saved are those that are read again.
SettingsFit == CopiesFit /\ SavedComesBack
=============================================================================
