SPECIFICATION InputsSpec
CONSTANTS
  Bytes <- MCBytes
  MaxBytes <- MCMaxBytes
  AddressTexts <- MCAddressTexts
  Paths <- MCPaths
  Characters <- MCCharacters
  MaxLength <- MCMaxLength
  Values <- MCValues
  Working <- MCWorking
  MaxEdits <- MCMaxEdits
  Delays <- MCDelays
  MaxDelays <- MCMaxDelays
  Origins <- MCOrigins
  Interval <- MCInterval
  MaxCompletions <- MCMaxCompletions
INVARIANTS Base64AsStandard UrlMeansAddress ParsersAgree TargetAsStandard QueryAsStandard UnescapeAsStandard StartsUsable ContextAsConfigured ScheduleAsDefined KeepsBeating
PROPERTIES OnlyStartAdds
CHECK_DEADLOCK FALSE
