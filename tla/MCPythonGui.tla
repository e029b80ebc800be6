---------------------------- MODULE MCPythonGui -----------------------------
EXTENDS PythonGui
=============================================================================
