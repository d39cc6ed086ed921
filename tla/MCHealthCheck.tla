--------------------------- MODULE MCHealthCheck ---------------------------
EXTENDS HealthCheck

\* -ESRCH, and -ENOENT left in errno by an fopen of a process that went away.
MCNotFound == {-3, -2}
=============================================================================
