---------------------------- MODULE MCAuthSessions ----------------------------
\* Small instances of AuthSessions.
EXTENDS AuthSessions, TLC

CONSTANTS name, first, second

Empty == [credentials |-> {}, roles |-> {}, active |-> {}]

\* Activation, deactivation and an edit of other fields.
AccessPatches ==
    {Empty} \cup {[Empty EXCEPT !.active = {a}] : a \in BOOLEAN}

\* A change of every kind, each alone.
AllPatches ==
    AccessPatches
    \cup {[Empty EXCEPT !.credentials = {c}] : c \in {<<name, second>>}}
    \cup {[Empty EXCEPT !.roles = {rs}] : rs \in {{}, {"TEACHER"}}}

Symmetry == Permutations(Request) \cup Permutations(Token)

===============================================================================
