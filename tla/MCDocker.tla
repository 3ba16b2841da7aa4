------------------------------ MODULE MCDocker ------------------------------
EXTENDS DockerProperties

Sym == Permutations(Caller) \cup Permutations(Box)
=============================================================================
