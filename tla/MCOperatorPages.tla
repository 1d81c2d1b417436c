-------------------------- MODULE MCOperatorPages ---------------------------
EXTENDS OperatorPages, TLC

\* Handlers, users and credentials are told apart by nothing but their names.
Symmetry == Permutations(Handlers) \cup Permutations(Users) \cup Permutations(Secrets)
=============================================================================
