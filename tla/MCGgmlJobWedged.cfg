SPECIFICATION Spec
CONSTANTS
  Scripts <- MCScripts
  Envs = {"a"}
  FileLen = 5
  BufLen = 4
  ReadChunk = 2
  UploadChunk = 2
  Cap = 3
  HostFaults = TRUE
  MaxStarts = 2
INVARIANT OverCanClose
