--------------------------- MODULE MCTelegramOutbox ---------------------------
\* Small instances of TelegramOutbox: every event is addressed to one group.
EXTENDS TelegramOutbox, TLC

CONSTANT Group

ToGroup == [e \in Event |-> Group]

Symmetry == Permutations(Worker)

===============================================================================
