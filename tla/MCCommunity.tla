---------------------------- MODULE MCCommunity ----------------------------
(***************************************************************************)
(* Membership and Friendship side by side. They share no table, so neither *)
(* can tell what the other does, and each is explored while the other has  *)
(* yet to begin.                                                           *)
(***************************************************************************)
EXTENDS Membership, Friendship, TLC

CONSTANT w  \* the third user

Init == MembershipInit /\ FriendshipInit

Next ==
    \/ FriendshipInit /\ MembershipNext /\ UNCHANGED friendshipVars
    \/ MembershipInit /\ FriendshipNext /\ UNCHANGED membershipVars

vars == <<membershipVars, friendshipVars>>

Spec == Init /\ [][Next]_vars

\* The tables and the calls in flight keep the shapes of their columns.
TypeOK == MembershipTypeOK /\ FriendshipTypeOK

Interchangeable == Permutations(Calls)

\* Bound: friendships with a third user are explored for calls that do not
\* overlap, and overlapping calls between two users.
Involved(u) ==
    \/ \E r \in friendRows : u \in {r.user, r.friend}
    \/ \E r \in friendRequests : u \in {r.from, r.to}
    \/ \E a \in Attempts : u \in {attempt[a].request.from, attempt[a].request.to}
ThirdUserApart == solo \/ ~Involved(w)
=============================================================================
