CONSTANTS
    Symbols = {"btc"}
    MaxSymbols = 1
    Nets = {"home"}
    Room = {1}
    Timeout = 1
    DevTargets = {}
    MaxDialogs = 2
SPECIFICATION Spec
INVARIANT ManageIsFilled
