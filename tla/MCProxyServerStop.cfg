\* systemctl stop and the exit status of the root.
SPECIFICATION Spec
CONSTANT MaxForks = 2
CHECK_DEADLOCK FALSE
INVARIANT StopIsClean
