-------------------------- MODULE MCCoordinateRead --------------------------
EXTENDS CoordinateRead

\* The edges of the two widths for the offsets the chains use, and a null pointer.
MCBases == {4096, PointerMax + 1, UserMax - 3, UserMax}
MCWords == {0, 4096, 70000, PointerMax - 528, PointerMax, HostMax - 2, HostMax}
MCImages == {5000, 6000}
MCValues == {7, 3 * Half + 5}
=============================================================================
