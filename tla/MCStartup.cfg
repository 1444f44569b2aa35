CONSTANTS
  Texts <- MCTexts
  Atoi <- MCAtoi
  Args <- MCArgs
  MaxArgs = 2
  Configs <- MCConfigs
SPECIFICATION Spec
CHECK_DEADLOCK FALSE
INVARIANT TypeOK
INVARIANT SettingsAsGiven
INVARIANT NeededOnly
