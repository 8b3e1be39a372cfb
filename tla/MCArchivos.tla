----------------------------- MODULE MCArchivos -----------------------------
EXTENDS CapaFs

\* One write of two different bytes.
MCEscrituras == {CHOOSE e \in [1..2 -> Valores] : e[1] # e[2]}
MCPermisos == {{"c", "w", "r"}}
Simetria == Permutations(Procesos) \cup Permutations(Nombres)
=============================================================================
