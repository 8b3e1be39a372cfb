----------------------------- MODULE MCMemoria ------------------------------
EXTENDS Memoria

Simetria == Permutations(Cpus) \cup Permutations(Valores)
=============================================================================
