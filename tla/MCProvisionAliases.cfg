SPECIFICATION Spec
CONSTANTS
    Junk = Junk
    Undefined = Undefined
    py1 = py1
    py2 = py2
    pypy = pypy
    ppman = ppman
    other = other
    Limits = {"run_timeout"}
    Packages = {py1, py2, pypy}
    Configs <- MCAliasConfigs
    Index <- MCIndex
    Calls = {ppman, other}
    Attempts = 2
    MaxRegistered = 3
    MaxCrashes = 1
    SpecFiles <- MCSpecFiles
    MaxOthers = 1
INVARIANT
    EngineHasAnAlias
CHECK_DEADLOCK FALSE
