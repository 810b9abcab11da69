------------------------------ MODULE Mailboxes ------------------------------
(* The MailCom Manager and the registration service: two processes, with their   *)
(* own databases, and the sync of the aliases between them                       *)
(* (main.py, POST /api/emails/sync-mailcom-aliases).                             *)
EXTENDS AliasMaker, ResourceDesk

vars == <<aliasVars, deskVars, requests>>

(* The manager's accounts have been imported by requests.                       *)
Init ==
    /\ AliasInit /\ DeskInit
    /\ requests = Cardinality({c \in Addresses : row[c].present})

(* GET /api/export/registration-items is one read of the manager's tables; the   *)
(* aliases in it, the accounts left out, are imported one after the other.      *)
SyncAliases ==
    /\ Import({a \in Pool : owner[a] # None})
    /\ UNCHANGED aliasVars

Next ==
    \/ MakerAsked /\ UNCHANGED deskVars
    \/ MakerWorks /\ UNCHANGED <<deskVars, requests>>
    \/ DeskAsked /\ UNCHANGED aliasVars
    \/ DeskWorks /\ UNCHANGED <<aliasVars, requests>>
    \/ SyncAliases

Spec == Init /\ [][Next]_vars

==============================================================================
