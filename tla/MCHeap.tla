------------------------------- MODULE MCHeap -------------------------------
EXTENDS Heap

MCPaginasFijas == [p \in Procesos |-> p]
MCMismasFijas == [p \in Procesos |-> 1]
=============================================================================
