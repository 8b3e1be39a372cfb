------------------------------ MODULE MCKernel ------------------------------
EXTENDS KernelPlanificador

CONSTANT UnidadesIniciales
MCInicioSem == [s \in Sems |-> UnidadesIniciales]
SimetriaCpus == Permutations(Cpus)
=============================================================================
