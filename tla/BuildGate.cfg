SPECIFICATION Spec
CONSTANTS
  f = f
  g = g
  h = h
  Fns = {f, g, h}
  NameOf <- SharedName
  FileOf <- TwoFiles
  Modules = {"app"}
  ModuleOf <- AppModule
  MaxBlocks = 2
  Deep = TRUE
CHECK_DEADLOCK FALSE
INVARIANT FirstSurvivorReal
