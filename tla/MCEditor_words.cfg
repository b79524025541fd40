CONSTANTS
    RunParts <- OnlyWords
    MaxTokens = 3
    NoFunction = NoFunction
    Subs = {"s1", "s2", "s3"}
    Entities = {"buffer"}
    NoSub = "no sub"
    NoEntity = "no entity"
    MaxHeard = 2
    Names = {"Pytest", "Git"}
    SubCommands = {"run", "stop"}
    Decorated = {"f1", "f2", "bad"}
    Refused = {"bad"}
    Keys = {"<CR>", "q"}
    Buffers = {"b1", "b2"}
    Callers = {"c1", "c2"}
    Writers = {"w1", "w2"}
    QueueSize = 2
    MaxPrints = 2
    None = None
    UIs = {"vim", "vscode", "dummy"}
    MaxRuns = 2
    MaxFound = 2
    MaxShows = 2
    Depth = 2
    MaxChanges = 1
    Files = {1, 2, 3}
    Convertible = {1, 2}
    Undecoded = {2}
    Documents <- SomeDocuments
    MaxEdits = 1
    MaxCollections = 2
    MaxSize = 0
    Entries = {"k", "l"}
    MaxValues = 2
    MaxDays = 1
    Folders <- SomeFolders
    Hosts = {"vim", "nvim", "tty"}
    Rows = 2
    Cols = 2
    Outputs <- SomeOutputs
    MaxOutputs = 2
    Characters = {"a", "P", "x", "_", "r", "n"}
    JobEditors = {"vim", "nvim"}
    Pieces <- SomePieces
    MaxWrites = 2
SPECIFICATION MCSpec
INVARIANTS
    EveryWordIsAToken
CHECK_DEADLOCK FALSE
