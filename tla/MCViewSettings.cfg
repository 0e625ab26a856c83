SPECIFICATION FairSpec
CONSTANTS
    v1 = v1
    v2 = v2
    v3 = v3
    Sessions = {s1, s2}
    Views = {v1, v2, v3}
    Opened <- TwoTabs
    Presets = {p1}
    Looks = {plain, narrow}
    Plain = plain
    NoPreset = NoPreset
    NoView = NoView
    NoConfig = NoConfig
    MaxOps = 2
CHECK_DEADLOCK FALSE
INVARIANTS
    ActivePresetExists
    SettingsStayInTheirView
    QuietMeansStored
    DroppedBeforeTarget
PROPERTIES
    NoSaveLoop
