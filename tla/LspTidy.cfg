CONSTANTS
  Names <- MCNames
  ModuleExports <- MCExports
  MaxCallDepth = 3
  NoDiagnostic = NoDiagnostic
  None = None
  Unparsable = Unparsable
  URIs = {d1, d2}
  Texts <- TidyTexts
SPECIFICATION FairSpec
INVARIANTS AgreesWithFullRun
PROPERTIES RerunsExactlyDependents ImplementsDocumentService
