CONSTANTS
  Threads = {t1, t2}
  Loggers = {root, sys}
  Root = root
  Files = {file}
  Consoles = {console}
  Default = default
  Formatters = {f1}
  Null = null
  ClearInUse = FALSE
  MaxTime = 2
  MaxAttached = 2
  Letters = {"d", "q"}
  Others = {"-"}
  Keys <- MCKeys
  ItemNames <- MCItemNames
  Formats <- MCFormats
  MaxTokens = 4
  Lists <- MCLists
  Clients = {c1, c2}
  Loaders = {c1}
  Names <- MCNames
  BadParts = {"Port9"}
  Documents <- MCDocuments
  MaxListeners = 1
SPECIFICATION LogSpec
INVARIANTS
  TypeOK NeverUnformatted FreshFile OwnFormatterKept LoopsUndisturbed ParsedAsWritten
  ReloadKeeps ConfigTypeOK LoadApplied
SYMMETRY ThreadSymmetry
