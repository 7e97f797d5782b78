CONSTANTS
  ErrorParents <- Family
  Implements <- Implemented
  Careless = {}
  Families <- SomeFamilies
  Bodies <- SomeBodies
  MaxThrows = 2
  ErrorsCareless = {}
SPECIFICATION FrontEndSpec
INVARIANTS CoercionsAreSound AnalysisIsSettled ErrorsKeepTheirName
PROPERTY AnalyzerAgreesWithParser
CHECK_DEADLOCK FALSE
