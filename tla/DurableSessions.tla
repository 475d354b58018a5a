-------------------------- MODULE DurableSessions ---------------------------
(***************************************************************************)
(* What backend/session promises a learner: a session is created once,     *)
(* changes only accumulate in it, a change may be confirmed once it is in  *)
(* the session, and a restart of the server may forget changes but none    *)
(* that was confirmed.                                                     *)
(***************************************************************************)
EXTENDS Naturals

CONSTANTS Ids,        \* session ids
          MaxUpdates  \* updates are 1..MaxUpdates; 0 is the creation

VARIABLES value,      \* id -> the updates in the session, {} when there is none
          acked       \* id -> the updates confirmed to the learner

dvars == <<value, acked>>

Init == /\ value = [i \in Ids |-> {}]
        /\ acked = [i \in Ids |-> {}]

Create(i) == /\ value[i] = {}
             /\ value' = [value EXCEPT ![i] = {0}]
             /\ UNCHANGED acked

\* An update belongs to one session and is applied to it once; one that a
\* restart forgot may come back with the next.
Update(i, K) == /\ value[i] # {}
                /\ \A j \in Ids : K \cap value[j] = {}
                /\ value' = [value EXCEPT ![i] = @ \cup K]
                /\ UNCHANGED acked

Confirm(i, k) == /\ k \in value[i]
                 /\ acked' = [acked EXCEPT ![i] = @ \cup {k}]
                 /\ UNCHANGED value

\* What survives a restart: everything confirmed, and nothing new.
Restart == \E kept \in [Ids -> SUBSET (0..MaxUpdates)] :
             /\ \A i \in Ids : acked[i] \subseteq kept[i] /\ kept[i] \subseteq value[i]
             /\ value' = kept
             /\ UNCHANGED acked

Next == \/ \E i \in Ids : Create(i)
        \/ \E i \in Ids, K \in SUBSET (1..MaxUpdates) : Update(i, K)
        \/ \E i \in Ids, k \in 0..MaxUpdates : Confirm(i, k)
        \/ Restart

Spec == Init /\ [][Next]_dvars
=============================================================================
