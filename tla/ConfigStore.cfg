CONSTANTS
    Games = {g1, g2}
    DefaultFile = default
    MaxEdits = 2
    MaxAccidents = 1
CONSTRAINT UntilCrossed
SYMMETRY Symmetry
SPECIFICATION Spec
INVARIANTS
    FilesKeepApart
    SourceIsTrue
    SettingsUsable
    SettingsSurvive
