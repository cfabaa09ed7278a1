----------------------------- MODULE MCProcPool -----------------------------
EXTENDS ProcPool
CONSTANTS pid_field, cpu_field
MCFields == {pid_field, cpu_field}
=============================================================================
