--------------------------- MODULE MCDriverService ---------------------------
EXTENDS DriverService
=============================================================================
