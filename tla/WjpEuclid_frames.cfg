SPECIFICATION Spec
CONSTANTS
  Configs <- MCConfigs
  Noise <- MCNoise
  Frames <- MCFrames
  Garbage <- MCGarbage
  Crc <- MCCheck
PROPERTIES
  ResumesAfterBof
  RoundTrip
  ReadBeforeWritten
