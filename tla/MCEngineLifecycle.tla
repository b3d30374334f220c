------------------------- MODULE MCEngineLifecycle -------------------------
\* Two ports, two download directories, and dropped calls.
EXTENDS EngineLifecycle
CONSTANTS A, B
=============================================================================
