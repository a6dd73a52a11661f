SPECIFICATION Spec
CHECK_DEADLOCK FALSE
CONSTANTS
  Entry <- main
  Programs <- MCPrograms
  TypeScriptNames <- MCTypeScriptNames
INVARIANTS
  DependenciesFirst BundleCorrect FailsExactlyWhenItMust ResolutionCanonical
