--------------------------- MODULE MCStratumServer ---------------------------
EXTENDS StratumServer

CONSTANTS f1, f2, miner, rogue, shared

\* Both miners connect from one address.
MCAddressOf == [c \in {miner, rogue} |-> shared]
=============================================================================
