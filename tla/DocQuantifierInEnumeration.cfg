CONSTANTS
  Names <- MCNames
  Sources <- MCSources
SPECIFICATION Spec
INVARIANT QuantifierInEnumeration
