----------------------------- MODULE MCMailboxes -----------------------------
EXTENDS Mailboxes, TLC
CONSTANT m1

(* The mailbox's own address is in the pool, its first alias is registered;      *)
(* the addresses of the second mailbox stay in the manager.                     *)
MCPool == {m1} \X (0..Limit)
MCStocked == {<<m1, 0>>}
MCMembers == {<<m1, 1>>}
Symmetric == Permutations(Runs) \cup Permutations(Checks) \cup Permutations(Workers)

(* The first mailbox is in the manager from the beginning, and shows for both    *)
(* what a mailbox can meet: only its first alias is an account of its own or     *)
(* stored under the account of another mailbox, and only the bulk job's workers  *)
(* try an attempt again at it.                                                  *)
FirstIsThere ==
    /\ row[<<m1, 0>>].id > 0
    /\ \A a \in Aliases : row[a].id > 0 => a = <<m1, 1>>
    /\ \A a \in Addresses : owner[a] # None /\ owner[a][1] # a[1] => a = <<m1, 1>>
    /\ \A f \in Flows : flow[f].attempt > 1 => f \in Workers /\ flow[f].m = m1

==============================================================================
