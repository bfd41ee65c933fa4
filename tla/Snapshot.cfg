SPECIFICATION Spec
CONSTANTS
  MIN_NFFT = 2
  Octaves = 5
  MIN_ANALYSIS_SAMPLES = 4
  Captures <- MCCaptures
  SPECTRUM_NFFT_OPTIONS = {4, 8}
  StoredChoices = {0, 6, 8}
  MAX_SAMPLE_RATE = 48
  MAX_WAVE_SAMPLES = 16
  MAX_SHIFT_SAMPLES_CAP = 3
  MAX_NFFT = 8
  MAX_SPLICES = 2
  EditValues = {0, 20}
  LOG_F_LO = 2
  MinView = 3
  Factors <- MCFactors
  Steps <- MCSteps
INVARIANTS
  SavedIsRestored
  SegmentsAreSound
  PanelAgreesWithTask
  ClampsOrdered
