SPECIFICATION Spec
CONSTANTS
  MinInt64 <- MCMinInt64
  MaxInt64 = 3
  Texts <- MCTexts
  NotUtf8 <- MCNotUtf8
  Numbers <- MCNumbers
  True = True
  False = False
  Text = Text
  Surrogate = Surrogate
  Half = Half
  Nothing = Nothing
  Names <- MCNames
  CString <- MCCString
  Undecodable <- MCUndecodable
  Private = {"_f"}
  NoNamespace = NoNamespace
  ArgumentLists <- MCArgumentLists
  ReturnValues <- MCReturnValues
  Raised <- MCExceptions
  Exceptions <- MCExceptions
  DerivesFrom <- MCDerivesFrom
  UnicodeError = Unicode
  ImportFails = ImportFails
  Attribute = Attribute
  Type = Type
  Several = Several
  Unicode = Unicode
  ConverterOutcomes <- MCConverterOutcomes
INVARIANT LookUpErrorsReported
