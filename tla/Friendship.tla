----------------------------- MODULE Friendship -----------------------------
(***************************************************************************)
(* Friend requests and friendships: FriendRequestService and               *)
(* UserFriendService.                                                      *)
(*                                                                         *)
(* A friendship is one user_friend row, in the direction of who accepted.  *)
(* The unique index of that table is on the directed pair, friend_request  *)
(* has none.  An attempt is one of the functions in flight; as in          *)
(* Membership it starts with its first read, and its other actions are one *)
(* awaited statement each.                                                 *)
(***************************************************************************)
EXTENDS Naturals, FiniteSets

CONSTANTS
    People,       \* accounts
    Attempts,     \* bound: calls in flight at once
    MaxCopies     \* bound: ids of the rows and requests of one directed pair

ASSUME FriendshipAssumption ==
    People # {} /\ IsFiniteSet(People) /\ MaxCopies \in Nat \ {0}

VARIABLES
    friendRows,      \* user_friend rows
    friendRequests,  \* friend_request rows
    attempt,         \* the calls in flight
    solo             \* history: no two of them overlapped and none died

friendshipVars == <<friendRows, friendRequests, attempt, solo>>

-----------------------------------------------------------------------------
(* Rows and attempts *)

FriendRow == [user : People, friend : People, n : 1 .. MaxCopies]

FriendRequest == [from : People, to : People, n : 1 .. MaxCopies]

\* What an attempt holds that has read nothing.
NoRequest == [from |-> "nobody", to |-> "nobody", n |-> 1]
NoRow == [user |-> "nobody", friend |-> "nobody", n |-> 1]

Attempt == [pc : {"idle", "send lookup", "insert", "befriend", "delete", "unfriend"},
            request : FriendRequest \cup {NoRequest}, row : FriendRow \cup {NoRow}]

NoAttempt == [pc |-> "idle", request |-> NoRequest, row |-> NoRow]

\* checkIfFriends and every "where" with both directions.
FriendRowsOf(u, v) == {r \in friendRows : {r.user, r.friend} = {u, v}}

RequestsBetween(u, v) == {r \in friendRequests : {r.from, r.to} = {u, v}}

\* getAllFriends: the other user of each row of u.
FriendsOf(u) ==
    {r.friend : r \in {s \in friendRows : s.user = u}} \cup
    {r.user : r \in {s \in friendRows : s.friend = u}}

\* Mutant: only one direction is counted.
MutFriendsCount(u) == Cardinality({r \in friendRows : r.user = u})

\* getFriendsCount: the number of rows.
FriendsCount(u) == Cardinality({r \in friendRows : u \in {r.user, r.friend}})

\* getFriendshipStatus: what u may be told of v. findOne returns any of several rows.
FriendshipStatus(u, v) ==
    IF FriendRowsOf(u, v) # {} THEN {"friends"}
    ELSE IF RequestsBetween(u, v) = {} THEN {"none"}
    ELSE {IF r.from = u THEN "sent" ELSE "received" : r \in RequestsBetween(u, v)}

\* getSentFriendRequests, getReceivedFriendRequests and its count.
SentRequests(u) == {r \in friendRequests : r.from = u}
ReceivedRequests(u) == {r \in friendRequests : r.to = u}
PendingRequestsCount(u) == Cardinality(ReceivedRequests(u))

\* getMutualFriends and getMutualFriendsCount, from sets of ids.
MutualFriends(u, v) == FriendsOf(u) \cap FriendsOf(v)
MutualFriendsCount(u, v) == Cardinality(MutualFriends(u, v))

\* getAllFriendsWithMutuals: an entry for each row.
FriendsWithMutuals(u) ==
    UNION {{[row |-> r, friend |-> f, mutuals |-> MutualFriends(u, f)] : r \in FriendRowsOf(u, f)}
               : f \in FriendsOf(u)}

-----------------------------------------------------------------------------
(* Steps of an attempt *)

StartAttempt(a, to) ==
    /\ attempt[a].pc = "idle"
    /\ attempt' = [attempt EXCEPT ![a] = to]
    /\ solo' = (solo /\ \A b \in Attempts \ {a} : attempt[b].pc = "idle")

AttemptGoto(a, pc, next) ==
    /\ attempt[a].pc = pc
    /\ attempt' = [attempt EXCEPT ![a] =
                       IF next = "idle" THEN NoAttempt ELSE [@ EXCEPT !.pc = next]]
    /\ UNCHANGED solo

\* An id that nothing holds any more may be used again.
FreshId(n, used) == n \notin used /\ 1 .. (n - 1) \subseteq used

RequestIds(u, v) ==
    {r.n : r \in {s \in friendRequests : s.from = u /\ s.to = v}} \cup
    {attempt[a].request.n : a \in {b \in Attempts :
        attempt[b].pc \in {"befriend", "delete"}
            /\ attempt[b].request.from = u /\ attempt[b].request.to = v}}

FriendRowIds(u, v) ==
    {r.n : r \in {s \in friendRows : s.user = u /\ s.friend = v}} \cup
    {attempt[a].row.n : a \in {b \in Attempts :
        attempt[b].pc = "unfriend" /\ attempt[b].row.user = u /\ attempt[b].row.friend = v}}

-----------------------------------------------------------------------------
(* FriendRequestService *)

\* createOne: validateBeforeCreate finds no friendship.
SendRequest(a) ==
    /\ \E u, v \in People :
          /\ u # v
          /\ FriendRowsOf(u, v) = {}
          /\ StartAttempt(a, [NoAttempt EXCEPT !.pc = "send lookup",
                                               !.request = [from |-> u, to |-> v, n |-> 1]])
    /\ UNCHANGED <<friendRows, friendRequests>>

\* Mutant: a request in the other direction is not looked for.
MutLookUpRequest(a) ==
    LET r == attempt[a].request IN
    /\ AttemptGoto(a, "send lookup",
           IF \E s \in friendRequests : s.from = r.from /\ s.to = r.to THEN "idle" ELSE "insert")
    /\ UNCHANGED <<friendRows, friendRequests>>

\* validateBeforeCreate finds no request in either direction.
LookUpRequest(a) ==
    LET r == attempt[a].request IN
    /\ AttemptGoto(a, "send lookup",
                   IF RequestsBetween(r.from, r.to) # {} THEN "idle" ELSE "insert")
    /\ UNCHANGED <<friendRows, friendRequests>>

InsertRequest(a) ==
    LET r == attempt[a].request IN
    /\ AttemptGoto(a, "insert", "idle")
    /\ \E n \in 1 .. MaxCopies :
          /\ FreshId(n, RequestIds(r.from, r.to))
          /\ friendRequests' = friendRequests \cup {[r EXCEPT !.n = n]}
    /\ UNCHANGED friendRows

\* acceptFriendRequest, once findOne has found it.
AcceptRequest(a) ==
    /\ \E r \in friendRequests :
          StartAttempt(a, [NoAttempt EXCEPT !.pc = "befriend", !.request = r])
    /\ UNCHANGED <<friendRows, friendRequests>>

\* createFriendship: the unique index refuses a second row of one direction, and
\* then acceptFriendRequest fails and leaves the request.
CreateFriendship(a) ==
    LET r == attempt[a].request
        taken == \E s \in friendRows : s.user = r.to /\ s.friend = r.from
    IN  /\ AttemptGoto(a, "befriend", IF taken THEN "idle" ELSE "delete")
        /\ IF taken THEN UNCHANGED friendRows
           ELSE \E n \in 1 .. MaxCopies :
                   /\ FreshId(n, FriendRowIds(r.to, r.from))
                   /\ friendRows' = friendRows \cup
                                        {[user |-> r.to, friend |-> r.from, n |-> n]}
        /\ UNCHANGED friendRequests

\* declineFriendRequest.
DeclineRequest(a) ==
    /\ \E r \in friendRequests :
          StartAttempt(a, [NoAttempt EXCEPT !.pc = "delete", !.request = r])
    /\ UNCHANGED <<friendRows, friendRequests>>

\* cancelFriendRequest and deleteOne.
CancelRequest(a) ==
    /\ \E r \in friendRequests :
          StartAttempt(a, [NoAttempt EXCEPT !.pc = "delete", !.request = r])
    /\ UNCHANGED <<friendRows, friendRequests>>

\* The last statement of an answer to a request.
DeleteRequest(a) ==
    /\ AttemptGoto(a, "delete", "idle")
    /\ friendRequests' = friendRequests \ {attempt[a].request}
    /\ UNCHANGED friendRows

-----------------------------------------------------------------------------
(* UserFriendService *)

\* unfriend: findOne takes one row of the pair, in any direction.
Unfriend(a) ==
    /\ \E r \in friendRows : StartAttempt(a, [NoAttempt EXCEPT !.pc = "unfriend", !.row = r])
    /\ UNCHANGED <<friendRows, friendRequests>>

RemoveFriend(a) ==
    /\ AttemptGoto(a, "unfriend", "idle")
    /\ friendRows' = friendRows \ {attempt[a].row}
    /\ UNCHANGED friendRequests

-----------------------------------------------------------------------------

\* The process dies, or the database fails one statement.
AttemptDies(a) ==
    /\ attempt[a].pc # "idle"
    /\ attempt' = [attempt EXCEPT ![a] = NoAttempt]
    /\ solo' = FALSE
    /\ UNCHANGED <<friendRows, friendRequests>>

FriendshipInit ==
    /\ friendRows = {}
    /\ friendRequests = {}
    /\ attempt = [a \in Attempts |-> NoAttempt]
    /\ solo = TRUE

\* What FriendRequestController lets a user call.
RequestCalls(a) ==
    SendRequest(a) \/ AcceptRequest(a) \/ DeclineRequest(a) \/ CancelRequest(a)

FriendshipSteps(a) ==
    LookUpRequest(a) \/ InsertRequest(a) \/ CreateFriendship(a) \/ DeleteRequest(a) \/ RemoveFriend(a)

FriendshipNext ==
    \E a \in Attempts : RequestCalls(a) \/ Unfriend(a) \/ FriendshipSteps(a) \/ AttemptDies(a)

FriendshipSpec == FriendshipInit /\ [][FriendshipNext]_friendshipVars

-----------------------------------------------------------------------------
(* Properties *)

FriendshipTypeOK ==
    /\ friendRows \subseteq FriendRow
    /\ friendRequests \subseteq FriendRequest
    /\ attempt \in [Attempts -> Attempt]
    /\ solo \in BOOLEAN

\* Calls that do not overlap keep one row to a friendship, in one of its two
\* directions, which the index does not. So unfriend, which removes one row, ends
\* the friendship.
OneFriendship ==
    solo => \A r, s \in friendRows : {r.user, r.friend} = {s.user, s.friend} => r = s

Told(u, v) == CHOOSE answer \in FriendshipStatus(u, v) : TRUE

Mirrored(answer) ==
    CASE answer = "sent" -> "received" [] answer = "received" -> "sent" [] OTHER -> answer

\* Then getFriendsCount, which counts rows, agrees with the lists of friends that
\* getAllFriends and getAllFriendsWithMutuals show, nobody is a friend he shares
\* with a friend, and what the two users of a pair are told of each other agrees:
\* one sent exactly what the other received. Once the calls are done, the lists of
\* requests and their counter show the pairs that are told of a request.
StatusAgrees ==
    solo =>
        \A u \in People :
            /\ FriendsCount(u) = Cardinality(FriendsOf(u))
            /\ FriendsCount(u) = Cardinality(FriendsWithMutuals(u))
            /\ \A e \in FriendsWithMutuals(u) : {u, e.friend} \cap e.mutuals = {}
            /\ \A v \in People \ {u} :
                  /\ Cardinality(FriendshipStatus(u, v)) = 1
                  /\ Told(v, u) = Mirrored(Told(u, v))
                  /\ MutualFriendsCount(u, v) <= FriendsCount(v) - Cardinality(FriendRowsOf(u, v))
            /\ (\A a \in Attempts : attempt[a].pc = "idle") =>
                  /\ PendingRequestsCount(u) =
                        Cardinality({v \in People \ {u} : Told(u, v) = "received"})
                  /\ {r.to : r \in SentRequests(u)} = {v \in People \ {u} : Told(u, v) = "sent"}
=============================================================================
