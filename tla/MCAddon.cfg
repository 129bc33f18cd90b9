SPECIFICATION FairAddonSpec
CONSTANTS
  Paths = {"layout.toml", "other.toml"}
  Contents <- AddonContents
  Options <- AddonOptions
  Texts = {"a"}
  Windows = {"suggestion"}
  Ics = {ic1, ic2}
  NoIc = NoIc
INVARIANTS
  AddonTypeOK
  RunningLayoutSound
  NoUpdateLost
  OptionsInEffect
  TimerCovers
  FocusIsCurrent
PROPERTIES
  PanelCatchesUp
