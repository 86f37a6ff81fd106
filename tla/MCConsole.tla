------------------------------ MODULE MCConsole -------------------------------
EXTENDS Console
CharDef == {"a", "b"}
===============================================================================
