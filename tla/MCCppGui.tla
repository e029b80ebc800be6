------------------------------ MODULE MCCppGui ------------------------------
EXTENDS CppGui
=============================================================================
