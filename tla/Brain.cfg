SPECIFICATION Spec
CONSTANTS
    aika = aika
    writer = writer
    helper = helper
    w1 = w1
    w2 = w2
    Main = Main
    Workers = {w1, w2}
    Agents = {aika, writer, helper}
    Tools = {"web_search", "calculator", "file_append"}
    Direct = {"calculator"}
    NoSuchTool = "no such tool"
    Fast = "fast"
    Smart = "smart"
    ChatModel = "fast"
    NoModel = "no model"
    OwnModel = "own"
    ToolModels = {"fast"}
    Escalation = 2
    Messages <- MCMessages
    Parties <- MCParties
    MaxTeamTurns = 2
    MaxRuns = 2
    Keys = {"fast_model", "memory_max_per_category", "log_level", "log_format", "background_max_workers",
            "shell_blocked_keywords", "model_router_complex_keywords", "tool_call_confirm_high_permission"}
    Values <- MCValues
    Invalid <- MCInvalid
    Given <- MCGiven
    DefaultAgent = aika
    BuiltIn <- MCBuiltIn
    Turns = 2
    ToolSets = {{}, {"file_append"}}
    SkillTools = {"file_append"}
    SkillAgents = {aika}
    MaxRows = 3
    MaxTasks = 2
    MaxSessions = 4
    Mixes <- MCMixes
CHECK_DEADLOCK FALSE
INVARIANTS
    BrainTypeOK
    TurnsKept
    MemoriesFit
    RegistryFits
    SkillsFit
    ToolsBounded
    OwnWords
    RoutedAsDecided
    SettingsFit
PROPERTIES
    RequestEnds
