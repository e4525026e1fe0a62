SPECIFICATION Spec
CONSTANTS
  Commands <- MCStreamCommands
  Regions <- MCNoRegions
  ModuleWords <- MCShortModule
  ModuleSources <- MCShortSources
  EffectWords <- MCEffectWords
  Sound <- MCSound3
  digi_rates = 1
  INIT_DATACOPY = 1
  NmiHandler = TRUE
  MaxCommands = 2
  MaxUploads = 0
  MaxSounds = 1
INVARIANTS RestoredBeforeResume
