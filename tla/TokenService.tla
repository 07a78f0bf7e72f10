---------------------------- MODULE TokenService ----------------------------
(* What the gateway promises to the holders of credentials, whatever way it    *)
(* keeps its configuration: a credential is accepted for at most one proxy     *)
(* key, and once the answer to a rotation, a revocation or a removal has been  *)
(* sent, the tokens it retired are refused for as long as the process runs.    *)
(* A restart may only bring a retired token back if the startup file lists it  *)
(* or the write that retired it never reached the database.                    *)
EXTENDS Naturals

CONSTANTS Creds,      \* what a client may present: a token or a key's id
          Callers,    \* the identities a credential may stand for
          Nobody,     \* the credential is refused
          Static      \* tokens that the startup file lists

VARIABLES accepts,    \* whom each credential stands for
          dead,       \* tokens whose retirement has been acknowledged
          shaky,      \* tokens whose retirement may not have been stored
          boots       \* number of restarts

Accepted == {c \in Creds : accepts[c] # Nobody}

Init ==
    /\ accepts \in [Creds -> Callers \cup {Nobody}]
    /\ dead = {}
    /\ shaky = {}
    /\ boots = 0

\* The table is replaced; nothing retired is accepted again.
Replace ==
    /\ accepts' \in [Creds -> Callers \cup {Nobody}]
    /\ Accepted' \cap dead = {}
    /\ shaky \subseteq shaky'
    /\ UNCHANGED <<dead, boots>>

\* The answer to an administrator: what is retired is refused already.
Retire ==
    /\ dead \subseteq dead'
    /\ dead' \subseteq Creds
    /\ Accepted \cap dead' = {}
    /\ shaky \subseteq shaky'
    /\ UNCHANGED <<accepts, boots>>

Restart ==
    /\ boots' = boots + 1
    /\ accepts' \in [Creds -> Callers \cup {Nobody}]
    /\ dead' \subseteq dead
    /\ dead \ dead' \subseteq Static \cup shaky
    /\ Accepted' \cap dead' = {}
    /\ shaky' \subseteq shaky

Next == Replace \/ Retire \/ Restart

Spec == Init /\ [][Next]_<<accepts, dead, shaky, boots>>
=============================================================================
