SPECIFICATION Spec
PROPERTY StopsWaitingOnceServing
\* grout() ends when it starts the plugin, crashes or is interrupted.
CHECK_DEADLOCK FALSE
