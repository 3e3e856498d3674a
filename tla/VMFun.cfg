CONSTANTS
  Functions <- MCFunctions
  Modules <- MCModules
  Arity <- MCArity
  Programs <- MCPrograms
  MAX_STACK_FRAMES = 3
  NUM_REGISTERS = 5
  FirstSlot = 1
SPECIFICATION Spec
INVARIANT FunIsRunning
