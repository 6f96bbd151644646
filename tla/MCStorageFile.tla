--------------------------- MODULE MCStorageFile ---------------------------
EXTENDS StorageFile

\* Raw timestamps of the instance: a repeat, steps forward and backward steps
\* of two sizes.
MCTimestamps == 1 .. 3

============================================================================
