\* Two images that take turns on the volume; nothing is bounded, since there
\* are finitely many states.
SPECIFICATION Spec
CONSTANTS
    Images <- TwoImages
    Default = 1
    Configs <- Settings
PROPERTIES ForeignKept WrittenIsUsed VersionIsGluetuns WarningIsTrue
