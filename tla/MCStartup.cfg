SPECIFICATION Spec
CONSTANTS
  NoEnv = NoEnv
  MaxEnvLen = 3
INVARIANTS
  TypeOK
  DirsWhenServing
  
PROPERTIES
  OneOffRemoval
  UrlsConfigured
