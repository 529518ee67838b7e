SPECIFICATION Spec
CONSTANTS
  Nil = Nil
INVARIANT LinksKept
INVARIANT InstalledWhole
INVARIANT SettingsAgree
INVARIANT ShownIsSo
INVARIANT AudioWhole
PROPERTY StepsKeep
CHECK_DEADLOCK FALSE
