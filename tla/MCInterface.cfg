SPECIFICATION Spec
CONSTANTS
  Unused = Unused
INVARIANTS FilesSound WorldSurvives OpcodesAgree InterfaceSound
