SPECIFICATION Spec
CONSTANTS
  Commands <- MCUploadCommands
  Regions <- MCRegions
  ModuleWords <- MCModule
  ModuleSources <- MCSources
  EffectWords <- MCEffectWords
  Sound <- MCSound3
  digi_rates = 1
  INIT_DATACOPY = 1
  NmiHandler = TRUE
  MaxCommands = 3
  MaxUploads = 3
  MaxSounds = 0
INVARIANTS LinkTypeOK EffectsResident EffectIndexAgrees UploadsIntact LoadAfterCommands ExecutedAsAccepted InStep
