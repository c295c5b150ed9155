----------------------------- MODULE MCScripting -----------------------------
EXTENDS Scripting
==============================================================================
