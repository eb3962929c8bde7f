----------------------------- MODULE BlockLists -----------------------------
(***************************************************************************)
(* What the two block lists promise admins and clients.  A block is listed *)
(* for good.  Once an admin call is answered its gateway denies the entry  *)
(* for as long as it serves, and a gateway that starts later denies all    *)
(* that was answered before.  Beyond that a gateway denies nothing but     *)
(* what filters of the listed entries cannot tell from them.               *)
(*                                                                         *)
(* There are no replies of Redis, no reloads and no worker: none of these  *)
(* shows, neither in what is denied nor in what is let through.            *)
(***************************************************************************)
CONSTANTS
    Gateways, Lists, Entries,
    Cover       \* Cover[S]: the entries that a filter of the entries S denies

VARIABLES
    listed,     \* listed[l]: the blocks on list l
    answered,   \* answered[l]: those an admin was told of
    up,         \* up[g]: is gateway g down, starting, serving
    owed,       \* owed[g][l]: the answered blocks that bind gateway g
    denied      \* denied[g][l]: the entries gateway g denies

blVars == <<listed, answered, up, owed, denied>>

Nothing == [l \in Lists |-> {}]

BLInit ==
    /\ listed = Nothing /\ answered = Nothing
    /\ up = [g \in Gateways |-> "down"]
    /\ owed = [g \in Gateways |-> Nothing]
    /\ denied = [g \in Gateways |-> [l \in Lists |-> Cover[{}]]]

Block(g, l, e) ==
    /\ up[g] = "serving"
    /\ listed' = [listed EXCEPT ![l] = @ \union {e}]
    /\ UNCHANGED <<answered, up, owed, denied>>

Answer(g, l, e) ==
    /\ up[g] = "serving" /\ e \in listed[l]
    /\ answered' = [answered EXCEPT ![l] = @ \union {e}]
    /\ owed' = [owed EXCEPT ![g][l] = @ \union {e}]
    /\ \E D \in SUBSET Cover[listed[l]] :
          /\ denied[g][l] \union {e} \subseteq D
          /\ denied' = [denied EXCEPT ![g][l] = D]
    /\ UNCHANGED <<listed, up>>

Begin(g) ==
    /\ up[g] = "down"
    /\ up' = [up EXCEPT ![g] = "starting"]
    /\ owed' = [owed EXCEPT ![g] = answered]
    /\ UNCHANGED <<listed, answered, denied>>

Ready(g) ==
    /\ up[g] = "starting"
    /\ up' = [up EXCEPT ![g] = "serving"]
    /\ \E D \in [Lists -> SUBSET Entries] :
          /\ \A l \in Lists : owed[g][l] \subseteq D[l] /\ D[l] \subseteq Cover[listed[l]]
          /\ denied' = [denied EXCEPT ![g] = D]
    /\ UNCHANGED <<listed, answered, owed>>

End(g) ==
    /\ up[g] # "down"
    /\ up' = [up EXCEPT ![g] = "down"]
    /\ owed' = [owed EXCEPT ![g] = Nothing]
    /\ denied' = [denied EXCEPT ![g] = [l \in Lists |-> Cover[{}]]]
    /\ UNCHANGED <<listed, answered>>

BLNext ==
    \E g \in Gateways :
        \/ Begin(g) \/ Ready(g) \/ End(g)
        \/ \E l \in Lists, e \in Entries : Block(g, l, e) \/ Answer(g, l, e)

BLSpec == BLInit /\ [][BLNext]_blVars
=============================================================================
