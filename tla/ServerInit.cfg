\* Every configuration file built from the statements of MC_ServerInit.
\* Start-up ends by serving, exiting or crashing, and the model stops there.
\* TLC finds the server listening on 65535 for a file that names no valid
\* port.
CONSTANT Configs <- MCConfigs
CONSTANT ThreadLimit = 32768
SPECIFICATION Spec
INVARIANT ListensOnlyOnConfiguredPort
CHECK_DEADLOCK FALSE
