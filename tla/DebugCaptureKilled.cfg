SPECIFICATION Spec
CONSTANTS
    Launcher = launcher
    Main = main
    Thread = {"launch", "ui", "db", "net"}
    Owner <- OwnerOf
    First <- FirstOf
    Db = {d1, d2}
    Existing = {}
    None = None
    MaxLoads = 1
INVARIANTS WeChatSurvives
CHECK_DEADLOCK FALSE
