CONSTANTS
    Symbols = {"btc", "eth"}
    MaxSymbols = 2
    Nets = {"home"}
    Room = {1, 2}
    Timeout = 0
    DevTargets <- Jumps
    MaxDialogs = 2
SPECIFICATION Spec
INVARIANT WidgetsAreThoseShown
INVARIANT RowsActOnTheirSymbol
PROPERTY KeyboardComesBack
