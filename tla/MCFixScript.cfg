CONSTANTS
  Files <- MCFiles
  Ext <- MCExt
  Disks <- MCDisks
  PyFails <- MCPyFails
  Args <- MCArgs
SPECIFICATION Spec
INVARIANT CleanedExactlySources
PROPERTY StripMatchesReference
PROPERTY ScriptTerminates
