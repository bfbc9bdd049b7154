CONSTANTS
  Names <- MCNames
  ModuleExports <- ReadingExports
  MaxCallDepth = 3
  NoDiagnostic = NoDiagnostic
  None = None
  Unparsable = Unparsable
  URIs = {d1}
  Texts <- AnyTexts
SPECIFICATION Spec
INVARIANTS NoOrphanBinding DiagnosticsBelong StateFollowsDocument
