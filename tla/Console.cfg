CONSTANTS MaxLines <- ScriptLines MaxTyped = 3 DefaultLimit = 2
SPECIFICATION ConsoleSpec
INVARIANTS ConsoleInv ScriptOrder
PROPERTIES NothingAfterQuit Termination
