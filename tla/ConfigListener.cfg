CONSTANTS
  Clients = {c1, c2}
  Loaders = {c1}
  Names <- MCNames
  BadParts = {"Port9"}
  Documents <- MCDocuments
  MaxListeners = 1
SPECIFICATION ConfigSpec
PROPERTIES ListenersCalled
