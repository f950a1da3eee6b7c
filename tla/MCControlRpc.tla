----------------------------- MODULE MCControlRpc -----------------------------
EXTENDS ControlRpc
CONSTANTS n1, n2, n3

Known == <<n1, n2>>
=============================================================================
