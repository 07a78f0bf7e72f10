---------------------------- MODULE Credentials -----------------------------
(* The three ways in which the gateway comes by upstream credentials.  They    *)
(* share no state, so a behaviour is one of one of them.                       *)
EXTENDS UpstreamOAuth, TokenSource, SecretStore

VARIABLE part
cvars == <<part, ovars, tvars, svars>>

Plain == configured = [b \in Remote |-> "absent"]
CInit ==
    \/ part = "oauth" /\ OInit /\ TInit /\ SInit /\ Plain
    \/ part = "tokens" /\ OInit /\ sealed /\ TInit /\ SInit /\ Plain
    \/ part = "secrets" /\ OInit /\ sealed /\ TInit /\ SInit
         /\ configured["infisical"] = "absent"
CNext ==
    \/ part = "oauth" /\ ONext /\ UNCHANGED <<part, tvars, svars>>
    \/ part = "tokens" /\ TNext /\ UNCHANGED <<part, ovars, svars>>
    \/ part = "secrets" /\ SNext /\ UNCHANGED <<part, ovars, tvars>>
CSpec == CInit /\ [][CNext]_cvars

\* The state of the three parts has its types; a request tries a refused token
\* once more and no oftener, a remote secret is asked for RemoteRetries times
\* more, and only the holder of the mutex exchanges (renew_rejected, fetch_remote).
TriesBounded == OTypeOK /\ TTypeOK /\ STypeOK
=============================================================================
