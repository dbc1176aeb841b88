--------------------------- MODULE MCTelegramBinding ---------------------------
\* A small instance of TelegramBinding: two students with a group each, whose
\* parents may use one private chat.
EXTENDS TelegramBinding, TLC

CONSTANTS first, second, firstGroup, firstChat, secondGroup, secondChat,
          private, group, super

MCUserOf == [o \in Owner |-> IF o \in {firstGroup, firstChat} THEN first ELSE second]

\* All but the first student's private chat are bound already.
MCBoundTo == [o \in Owner |-> CASE o = firstGroup -> group
                                [] o = secondChat -> private
                                [] o = secondGroup -> super
                                [] OTHER -> None]

\* The second student's group keeps its chat, while others want it; the second
\* student's private chat can be lost and bound again.
MCMaxVersion == [o \in Owner |-> CASE o = secondGroup -> 1
                                   [] o = secondChat -> 3
                                   [] OTHER -> 2]

\* Links used anywhere, the bot's removal from the private chat, the migration
\* of the group.
MCContent ==
    [kind : {"start"}, link : Link, chat : {private, super}, to : {None}]
    \cup [kind : {"left"}, link : {None}, chat : {private}, to : {None}]
    \cup [kind : {"migrate"}, link : {None}, chat : {group}, to : {super}]

Symmetry == Permutations(Worker)

===============================================================================
