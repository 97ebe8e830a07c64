------------------------------ MODULE Presence ------------------------------
(***************************************************************************)
(* The sockets of a server and what it keeps about them: SocketGateway,    *)
(* SocketService and ChatPresenceService, and the question the message     *)
(* digests ask of them, who is looking at this channel right now.          *)
(*                                                                         *)
(* Handlers run to their next await without interruption.  Authentication  *)
(* awaits the user's row, and the connection may close, or the deadline    *)
(* pass, in between.  Direct views are group views of a peer.  The rooms   *)
(* of channels are in Messages.                                            *)
(***************************************************************************)
EXTENDS Integers, FiniteSets

CONSTANTS
    Clients,     \* sockets
    Accounts,    \* the members of the group
    Views,       \* channels of the group
    PresenceTtl  \* PRESENCE_TTL_MS, in ticks

ASSUME PresenceAssumption == PresenceTtl \in Nat

VARIABLES
    open,       \* the sockets that are connected
    deadline,   \* the sockets whose authentication timer is running
    user,       \* client.data.user
    expired,    \* the sockets whose token is past its time
    checking,   \* the user an authentication in flight looks up
    userRoom,   \* the rooms "user:<id>" each socket is in
    views,      \* groupViews and threadViews
    switched,   \* history: sockets that authenticated as a second user
    ready       \* history: sockets that were sent SOCKET_READY while open

presenceVars == <<open, deadline, user, expired, checking, userRoom, views, switched, ready>>

-----------------------------------------------------------------------------
Nobody == "nobody"
ASSUME AccountsAssumption == Nobody \notin Accounts

\* One context per kind, user and socket.
ViewKinds == {"group", "thread"}
View == [kind : ViewKinds, user : Accounts, socket : Clients, about : Views,
         age : 0 .. PresenceTtl + 1]

Ready(s) == s \in open /\ user[s] # Nobody

\* SocketGuard: an expired token loses the user's room and the event.
Guarded(s) == Ready(s) /\ s \notin expired
Rejected(s) ==
    /\ Ready(s) /\ s \in expired
    /\ userRoom' = [userRoom EXCEPT ![s] = @ \ {user[s]}]
    /\ UNCHANGED <<open, deadline, user, expired, checking, views, switched, ready>>

\* Mutant: only the group view goes.
MutClose(s) ==
    /\ open' = open \ {s}
    /\ views' = {v \in views : ~(v.socket = s /\ v.user = user[s] /\ v.kind = "group")}
    /\ userRoom' = [userRoom EXCEPT ![s] = {}]

\* client.disconnect and handleDisconnect: the views of the current user go,
\* and the adapter takes the socket out of every room.
Close(s) ==
    /\ open' = open \ {s}
    /\ views' = {v \in views : ~(v.socket = s /\ v.user = user[s])}
    /\ userRoom' = [userRoom EXCEPT ![s] = {}]

-----------------------------------------------------------------------------
HandleConnection(s) ==
    /\ s \notin open /\ user[s] = Nobody /\ checking[s] = Nobody
    /\ open' = open \cup {s}
    /\ deadline' = deadline \cup {s}
    /\ UNCHANGED <<user, expired, checking, userRoom, views, switched, ready>>

\* The token is verified and the user looked up.
HandleAuthenticate(s) ==
    /\ s \in open /\ checking[s] = Nobody
    /\ \E u \in Accounts : checking' = [checking EXCEPT ![s] = u]
    /\ UNCHANGED <<open, deadline, user, expired, userRoom, views, switched, ready>>

\* The user is found: the socket is his, whether or not it is still open.  A
\* room joined as another user is not left.
Authenticated(s) ==
    /\ checking[s] # Nobody
    /\ LET u == checking[s]
       IN /\ user' = [user EXCEPT ![s] = u]
          /\ switched' = IF user[s] \in {Nobody, u} THEN switched ELSE switched \cup {s}
          /\ userRoom' = [userRoom EXCEPT ![s] = IF s \in open THEN @ \cup {u} ELSE @]
          /\ ready' = IF s \in open THEN ready \cup {s} ELSE ready
    /\ checking' = [checking EXCEPT ![s] = Nobody]
    /\ expired' = expired \ {s}
    /\ deadline' = deadline \ {s}
    /\ UNCHANGED <<open, views>>

\* A bad token, or no such user: the socket is closed, and the timer cleared.
AuthenticateFailed(s) ==
    /\ s \in open \/ checking[s] # Nobody
    /\ Close(s)
    /\ checking' = [checking EXCEPT ![s] = Nobody]
    /\ deadline' = deadline \ {s}
    /\ ready' = ready \ {s}
    /\ UNCHANGED <<user, expired, switched>>

\* The deadline of handleConnection.
DeadlinePasses(s) ==
    /\ s \in deadline
    /\ deadline' = deadline \ {s}
    /\ Close(s)
    /\ UNCHANGED <<user, expired, checking, switched, ready>>

HandleDisconnect(s) ==
    /\ s \in open
    /\ Close(s)
    /\ ready' = ready \ {s}
    /\ UNCHANGED <<deadline, user, expired, checking, switched>>

\* exp passes.
TokenExpires(s) ==
    /\ Guarded(s)
    /\ expired' = expired \cup {s}
    /\ UNCHANGED <<open, deadline, user, checking, userRoom, views, switched, ready>>

-----------------------------------------------------------------------------
(* What users look at *)

Context(kind, s, about) == [kind |-> kind, user |-> user[s], socket |-> s, about |-> about, age |-> 0]
Replaces(v, w) == v.kind = w.kind /\ v.user = w.user /\ v.socket = w.socket

\* updateChatView: a thread view that names its group sets the group view too.
SetView(s, kinds, about) ==
    /\ Guarded(s)
    /\ LET new == {Context(k, s, about) : k \in kinds}
       IN views' = {v \in views : \A w \in new : ~Replaces(v, w)} \cup new
    /\ UNCHANGED <<open, deadline, user, expired, checking, userRoom, switched, ready>>
UpdateChatView(s) ==
    \E r \in Views : \/ SetView(s, {"group"}, r) \/ SetView(s, {"thread"}, r)
                     \/ SetView(s, {"group", "thread"}, r)

ClearView(s, kind) ==
    /\ Guarded(s)
    /\ views' = {v \in views : ~(v.kind = kind /\ v.user = user[s] /\ v.socket = s)}
    /\ UNCHANGED <<open, deadline, user, expired, checking, userRoom, switched, ready>>

\* Entries past the TTL no longer count, and go when somebody asks.
ViewsAge ==
    /\ views # {}
    /\ views' = {[v EXCEPT !.age = IF @ > PresenceTtl THEN @ ELSE @ + 1] : v \in views}
    /\ UNCHANGED <<open, deadline, user, expired, checking, userRoom, switched, ready>>
Purge(u) ==
    /\ views' = {v \in views : ~(v.user = u /\ v.age > PresenceTtl)}
    /\ UNCHANGED <<open, deadline, user, expired, checking, userRoom, switched, ready>>

HasActiveContext(kind, u, about) ==
    \E v \in views : v.kind = kind /\ v.user = u /\ v.about = about /\ v.age <= PresenceTtl

\* notifyGroupMessageDigest: the members but the sender and those who look at
\* the channel, or at the thread the message is in.
Recipients(sender, about, inThread) ==
    {u \in Accounts \ {sender} : /\ ~HasActiveContext("group", u, about)
                                 /\ ~(inThread /\ HasActiveContext("thread", u, about))}

-----------------------------------------------------------------------------
PresenceInit ==
    /\ open = {} /\ deadline = {}
    /\ user = [s \in Clients |-> Nobody]
    /\ expired = {}
    /\ checking = [s \in Clients |-> Nobody]
    /\ userRoom = [s \in Clients |-> {}]
    /\ views = {} /\ switched = {} /\ ready = {}

PresenceNext ==
    \/ \E s \in Clients :
        \/ HandleConnection(s) \/ HandleAuthenticate(s) \/ Authenticated(s)
        \/ AuthenticateFailed(s) \/ DeadlinePasses(s) \/ HandleDisconnect(s)
        \/ TokenExpires(s) \/ Rejected(s) \/ UpdateChatView(s)
        \/ \E kind \in ViewKinds : ClearView(s, kind)
    \/ ViewsAge
    \/ \E u \in Accounts : Purge(u)

PresenceSpec == PresenceInit /\ [][PresenceNext]_presenceVars

-----------------------------------------------------------------------------
(* Properties *)

PresenceTypeOK ==
    /\ {open, deadline, expired, switched, ready} \subseteq SUBSET Clients
    /\ {user, checking} \subseteq [Clients -> Accounts \cup {Nobody}]
    /\ userRoom \in [Clients -> SUBSET Accounts]
    /\ views \subseteq View

(***************************************************************************)
(* Wherever connections close, deadlines pass and tokens expire, the       *)
(* server counts on nobody who is not there: a member is left out of a     *)
(* digest only while a connected socket of his looks at the channel, or a  *)
(* socket that changed users did so within the TTL; and a socket that was  *)
(* told it is ready is open until it disconnects or authenticates again.   *)
(***************************************************************************)
NobodyMissed ==
    /\ ready \subseteq open
    /\ \A sender \in Accounts, about \in Views, inThread \in BOOLEAN :
        \A u \in Accounts \ (Recipients(sender, about, inThread) \cup {sender}) :
            \E v \in views : /\ v.user = u /\ v.about = about /\ v.age <= PresenceTtl
                             /\ v.socket \in switched \/ (Ready(v.socket) /\ user[v.socket] = u)
=============================================================================
