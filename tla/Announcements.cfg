CONSTANTS
    Jobs = {j1}
    Gens = {g1,g2}
    Types = {"status_report","ambient_presence","state_transition"}
    Configured = {"openai"}
    Primary = "openai"
    Lengths = {0,400}
    TokenRequired = FALSE
    ATTEMPTS = 2
    MAX_ENTRIES = 1
    VOICE_TTL = 0
    MaxJobs = 2
    MaxTime = 1
    MaxFailures = 1
SYMMETRY AlikeGens
SPECIFICATION GenerationSpec
INVARIANT StoredIsVetted
CHECK_DEADLOCK FALSE
