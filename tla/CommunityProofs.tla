-------------------------- MODULE CommunityProofs ---------------------------
(***************************************************************************)
(* Proofs about Membership and Friendship, for any users, limits and       *)
(* number of calls: the rows keep their types, acceptances pass the member *)
(* limit by less than the number of calls in flight, and calls that do not *)
(* overlap accept an invitation once and leave none behind, keep one row   *)
(* of each pair of friends and tell two users the same of each other.      *)
(*                                                                         *)
(* Each invariant has a part that every interleaving keeps and one that    *)
(* only calls one after the other do: then a call still finds what it has  *)
(* read.                                                                   *)
(***************************************************************************)
EXTENDS MCCommunity, FiniteSetTheorems, TLAPS

-----------------------------------------------------------------------------
(* The inductive invariant *)

\* Calls that have been admitted and will insert a row.
Joining == {c \in Calls : call[c].pc = "join"}

\* Before the group exists nothing does.
Started ==
    limit = NoGroup =>
        memberRows = {} /\ invitations = {} /\ \A c \in Calls : call[c].pc = "idle"

\* peak bounds the limit, and what each call has read of it, unless it is 0.
PeakInv ==
    limit # NoGroup =>
        /\ peak # NoGroup
        /\ peak # 0 => limit # 0 /\ limit <= peak
        /\ \A c \in Calls : call[c].pc = "count" => peak = 0 \/ call[c].limit <= peak

\* A row that is inserted later was admitted before, so those rows count as well.
Admissions ==
    limit # NoGroup /\ peak # 0 =>
        Cardinality(Counted) + Cardinality(Joining) <= peak + Cardinality(Calls) - 1

IInv ==
    /\ MembershipTypeOK
    /\ IsFiniteSet(memberRows)
    /\ Started
    /\ PeakInv
    /\ Admissions

-----------------------------------------------------------------------------
(* Types *)

LEMMA Constants ==
    /\ Owner \in Users
    /\ Limits \subseteq Nat
    /\ 0 \in Limits /\ FreeLimit \in Limits
    /\ 1 \in 1 .. MaxRows
    /\ NoGroup \notin Nat
    BY OwnerAssumption, LimitsAssumption, MembershipBounds DEF NoGroup

LEMMA IdleType == IdleCall \in Call /\ OwnerRow \in MemberRow
    BY Constants DEF IdleCall, Call, OwnerRow, MemberRow, NoInvitation

\* The values of pc.
Statements == {"idle", "limit", "count", "member", "pending", "invite", "join",
               "drop", "existing", "touch", "add", "purge", "remove"}

\* A call that goes on is a call.
LEMMA GotoType ==
    ASSUME call \in [Calls -> Call], alone \in BOOLEAN,
           NEW c \in Calls, NEW pc, NEW next \in Statements, Goto(c, pc, next)
    PROVE  call' \in [Calls -> Call] /\ alone' \in BOOLEAN
<1>1. call[c] \in Call
    OBVIOUS
<1>2. [IdleCall EXCEPT !.pc = next, !.invitation = call[c].invitation] \in Call
    BY <1>1, IdleType DEF Call, Statements
<1>3. [IdleCall EXCEPT !.pc = next, !.row = call[c].row] \in Call
    BY <1>1, IdleType DEF Call, Statements
<1>4. [call[c] EXCEPT !.pc = next, !.limit = 0] \in Call
    BY <1>1, Constants DEF Call, Statements
<1>5. QED
    BY <1>2, <1>3, <1>4, IdleType DEF Goto

\* A call that starts is one.
LEMMA StartType ==
    ASSUME call \in [Calls -> Call], alone \in BOOLEAN,
           NEW c \in Calls, NEW to \in Call, Start(c, to)
    PROVE  call' \in [Calls -> Call] /\ alone' \in BOOLEAN
    BY DEF Start

-----------------------------------------------------------------------------
(* Counting *)

\* Rows are finitely many, and so are those that count.
LEMMA CountedFinite ==
    ASSUME IsFiniteSet(memberRows)
    PROVE  /\ IsFiniteSet(Counted)
           /\ Cardinality(Counted) \in Nat
           /\ Cardinality(Counted) <= MemberCount
           /\ MemberCount \in Nat
<1>1. Counted \subseteq memberRows
    BY DEF Counted
<1>2. QED
    BY <1>1, FS_Subset, FS_CardinalityType DEF MemberCount

LEMMA JoiningFinite ==
    /\ IsFiniteSet(Joining)
    /\ Cardinality(Joining) \in Nat
    /\ Cardinality(Calls) \in Nat \ {0}
    /\ Cardinality(Joining) <= Cardinality(Calls)
<1>1. Joining \subseteq Calls
    BY DEF Joining
<1>2. IsFiniteSet(Calls) /\ Calls # {}
    BY CallsAssumption
<1>3. Cardinality(Calls) \in Nat /\ Cardinality(Calls) # 0
    BY <1>2, FS_CardinalityType, FS_EmptySet
<1>4. QED
    BY <1>1, <1>2, <1>3, FS_Subset, FS_CardinalityType

\* A step that adds no counted row, admits nobody and leaves the peak keeps the bound.
LEMMA NothingAdmitted ==
    ASSUME IInv, limit' = limit, peak' = peak,
           Counted' \subseteq Counted, Joining' \subseteq Joining
    PROVE  Admissions'
<1>1. SUFFICES ASSUME limit # NoGroup, peak # 0
               PROVE  Cardinality(Counted') + Cardinality(Joining')
                          <= peak + Cardinality(Calls) - 1
    BY DEF Admissions
<1>2. Cardinality(Counted) + Cardinality(Joining) <= peak + Cardinality(Calls) - 1
    BY <1>1 DEF IInv, Admissions
<1>3. /\ Cardinality(Counted') \in Nat
      /\ Cardinality(Counted') <= Cardinality(Counted)
      /\ Cardinality(Counted) \in Nat
    BY CountedFinite, FS_Subset, FS_CardinalityType DEF IInv
<1>4. /\ Cardinality(Joining') \in Nat
      /\ Cardinality(Joining') <= Cardinality(Joining)
      /\ Cardinality(Joining) \in Nat
      /\ Cardinality(Calls) \in Nat
    BY JoiningFinite, FS_Subset, FS_CardinalityType
<1>5. peak \in Nat
    BY <1>1, Constants DEF IInv, MembershipTypeOK, PeakInv
<1>6. QED
    BY <1>2, <1>3, <1>4, <1>5

-----------------------------------------------------------------------------
(* Steps *)

\* Most steps change one call and no row that counts.
LEMMA Harmless ==
    ASSUME IInv, limit # NoGroup, UNCHANGED <<limit, peak>>,
           memberRows' \subseteq MemberRow, IsFiniteSet(memberRows'), Counted' \subseteq Counted,
           invitations' \subseteq Invitation,
           call' \in [Calls -> Call], alone' \in BOOLEAN,
           NEW c \in Calls, \A d \in Calls \ {c} : call'[d] = call[d],
           call'[c].pc \notin {"join", "count"}
    PROVE  IInv'
<1>1. MembershipTypeOK'
    BY DEF IInv, MembershipTypeOK
<1>2. Started' /\ PeakInv'
    BY DEF IInv, Started, PeakInv
<1>3. Joining' \subseteq Joining
    BY DEF Joining
<1>4. Admissions'
    BY <1>3, NothingAdmitted
<1>5. QED
    BY <1>1, <1>2, <1>4 DEF IInv

\* A step of a call that touches no table.
LEMMA ReadOnly ==
    ASSUME IInv, limit # NoGroup, UNCHANGED <<memberRows, invitations, limit, peak>>,
           call' \in [Calls -> Call], alone' \in BOOLEAN,
           NEW c \in Calls, \A d \in Calls \ {c} : call'[d] = call[d],
           call'[c].pc \notin {"join", "count"}
    PROVE  IInv'
<1>1. Counted' \subseteq Counted
    BY DEF Counted
<1>2. QED
    BY <1>1, Harmless DEF IInv, MembershipTypeOK

\* A call in flight belongs to a group.
LEMMA InFlight ==
    ASSUME IInv, NEW c \in Calls, call[c].pc # "idle"
    PROVE  limit # NoGroup
    BY DEF IInv, Started

\* Any user, group or not, starts with one row at most.
LEMMA CreateStep ==
    ASSUME IInv, CreateGroup
    PROVE  IInv'
<1>1. MembershipTypeOK' /\ IsFiniteSet(memberRows)'
    BY IdleType, Constants, FS_Singleton DEF IInv, MembershipTypeOK, CreateGroup
<1>2. Started' /\ PeakInv'
    BY Constants DEF CreateGroup, IInv, Started, PeakInv
<1>3. Joining' = {}
    BY DEF Joining, CreateGroup, IInv, Started
<1>4. Cardinality(Counted') <= 1 /\ Cardinality(Counted') \in Nat
    <2>1. Counted' \subseteq {OwnerRow}
        BY DEF Counted, CreateGroup
    <2>2. IsFiniteSet({OwnerRow}) /\ Cardinality({OwnerRow}) = 1
        BY FS_Singleton
    <2>3. IsFiniteSet(Counted') /\ Cardinality(Counted') <= Cardinality({OwnerRow})
        BY <2>1, <2>2, FS_Subset
    <2>4. QED
        BY <2>2, <2>3, FS_CardinalityType
<1>5. peak' \in Nat
    BY Constants DEF CreateGroup
<1>6. Admissions'
    BY <1>3, <1>4, <1>5, JoiningFinite, FS_EmptySet DEF Admissions
<1>7. QED
    BY <1>1, <1>2, <1>6 DEF IInv

\* The peak follows the limit.
LEMMA ChangePlanStep ==
    ASSUME IInv, ChangePlan
    PROVE  IInv'
<1>1. peak \in Limits /\ limit' \in Limits /\ limit' # NoGroup
    BY Constants DEF IInv, MembershipTypeOK, ChangePlan, PeakInv
<1>2. peak \in Nat /\ limit' \in Nat
    BY <1>1, Constants
<1>3. /\ peak' \in Limits
      /\ peak' # 0 => peak # 0 /\ peak <= peak' /\ limit' # 0 /\ limit' <= peak'
    BY <1>1, <1>2, Constants DEF ChangePlan, Higher
<1>4. MembershipTypeOK' /\ Started'
    BY <1>1, <1>3 DEF IInv, MembershipTypeOK, Started, ChangePlan
<1>5. PeakInv'
    <2>1. peak' # NoGroup
        BY <1>3, Constants
    <2>2. ASSUME NEW c \in Calls, call[c].pc = "count"
          PROVE  peak' = 0 \/ call[c].limit <= peak'
        <3>1. peak = 0 \/ call[c].limit <= peak
            BY <2>2 DEF IInv, PeakInv, ChangePlan
        <3>2. call[c].limit \in Nat /\ peak' \in Nat
            BY <1>3, Constants DEF IInv, MembershipTypeOK, Call
        <3>3. QED
            BY <3>1, <3>2, <1>2, <1>3
    <2>3. QED
        BY <2>1, <2>2, <1>3 DEF PeakInv, ChangePlan
<1>6. Admissions'
    <2>1. SUFFICES ASSUME peak' # 0
                   PROVE  Cardinality(Counted) + Cardinality(Joining)
                              <= peak' + Cardinality(Calls) - 1
        BY DEF Admissions, ChangePlan, Counted, Joining
    <2>2. Cardinality(Counted) + Cardinality(Joining) <= peak + Cardinality(Calls) - 1
        BY <2>1, <1>3 DEF IInv, Admissions, ChangePlan
    <2>3. peak' \in Nat
        BY <1>3, Constants
    <2>4. QED
        BY <2>1, <2>2, <2>3, <1>2, <1>3, CountedFinite, JoiningFinite DEF IInv
<1>7. IsFiniteSet(memberRows')
    BY DEF IInv, ChangePlan
<1>8. QED
    BY <1>4, <1>5, <1>6, <1>7 DEF IInv

\* A call reads a limit that the peak bounds.
LEMMA ReadLimitStep ==
    ASSUME IInv, NEW c \in Calls, ReadLimit(c)
    PROVE  IInv'
<1>1. limit # NoGroup /\ limit \in Limits
    BY InFlight DEF ReadLimit, IInv, MembershipTypeOK
<1>2. call[c] \in Call
    BY DEF IInv, MembershipTypeOK
<1>3. call' \in [Calls -> Call]
    <2>1. \A pc \in Statements : [call[c] EXCEPT !.limit = limit, !.pc = pc] \in Call
        BY <1>1, <1>2 DEF Call, Statements
    <2>2. (IF limit = 0 THEN Admitted(c) ELSE "count") \in Statements
        BY DEF Admitted, Statements
    <2>3. QED
        BY <2>1, <2>2 DEF ReadLimit, IInv, MembershipTypeOK
<1>4. MembershipTypeOK' /\ IsFiniteSet(memberRows')
    BY <1>3 DEF IInv, MembershipTypeOK, ReadLimit
<1>5. Started'
    BY <1>1 DEF Started, ReadLimit
<1>6. \A d \in Calls \ {c} : call'[d] = call[d]
    BY DEF ReadLimit, IInv, MembershipTypeOK
<1>7. /\ limit = 0 => peak = 0
      /\ limit # 0 => call'[c].pc = "count" /\ call'[c].limit = limit
    BY <1>1, <1>2 DEF IInv, PeakInv, ReadLimit, MembershipTypeOK, Call
<1>8. PeakInv'
    <2>1. ASSUME NEW d \in Calls, call'[d].pc = "count"
          PROVE  peak = 0 \/ call'[d].limit <= peak
        BY <2>1, <1>1, <1>6, <1>7 DEF IInv, PeakInv
    <2>2. QED
        BY <2>1 DEF IInv, PeakInv, ReadLimit
<1>9. Admissions'
    <2>1. CASE limit = 0
        BY <2>1, <1>7 DEF Admissions, ReadLimit
    <2>2. CASE limit # 0
        <3>1. Joining' \subseteq Joining
            BY <2>2, <1>6, <1>7 DEF Joining
        <3>2. Counted' \subseteq Counted
            BY DEF Counted, ReadLimit
        <3>3. QED
            BY <3>1, <3>2, NothingAdmitted DEF ReadLimit
    <2>3. QED
        BY <2>1, <2>2
<1>10. QED
    BY <1>4, <1>5, <1>8, <1>9 DEF IInv

\* An admission: the members counted leave room for one.
LEMMA CountMembersStep ==
    ASSUME IInv, NEW c \in Calls, CountMembers(c)
    PROVE  IInv'
<1>1. limit # NoGroup
    BY InFlight DEF CountMembers, Goto
<1>2. call[c] \in Call /\ call[c].limit \in Nat /\ call[c].pc = "count"
    BY Constants DEF IInv, MembershipTypeOK, Call, CountMembers, Goto
<1>3. call' \in [Calls -> Call] /\ alone' \in BOOLEAN
    <2>1. (IF MemberCount + 1 > call[c].limit THEN "idle" ELSE Admitted(c)) \in Statements
        BY DEF Statements, Admitted
    <2>2. QED
        BY <2>1, GotoType DEF CountMembers, IInv, MembershipTypeOK
<1>4. \A d \in Calls \ {c} : call'[d] = call[d]
    BY DEF CountMembers, Goto, IInv, MembershipTypeOK
<1>5. CASE call'[c].pc # "join"
    <2>1. call'[c].pc # "count"
        BY <1>2, IdleType DEF CountMembers, Goto, IInv, MembershipTypeOK, Admitted, Call, IdleCall
    <2>2. QED
        BY <1>1, <1>3, <1>4, <1>5, <2>1, ReadOnly DEF CountMembers
<1>6. CASE call'[c].pc = "join"
    <2>1. MemberCount + 1 <= call[c].limit
        <3>1. MemberCount \in Nat
            BY CountedFinite DEF IInv
        <3>2. ~(MemberCount + 1 > call[c].limit)
            BY <1>6, <1>2 DEF CountMembers, Goto, IInv, MembershipTypeOK, IdleCall
        <3>3. QED
            BY <3>1, <3>2, <1>2
    <2>2. MembershipTypeOK' /\ Started' /\ IsFiniteSet(memberRows')
        BY <1>1, <1>3 DEF IInv, MembershipTypeOK, Started, CountMembers
    <2>3. PeakInv'
        BY <1>4, <1>6 DEF IInv, PeakInv, CountMembers
    <2>4. Admissions'
        <3>1. SUFFICES ASSUME peak # 0
                       PROVE  Cardinality(Counted) + Cardinality(Joining')
                                  <= peak + Cardinality(Calls) - 1
            BY DEF Admissions, CountMembers, Counted
        <3>2. peak \in Nat /\ call[c].limit <= peak
            BY <1>1, <1>2, <3>1, Constants DEF IInv, PeakInv, MembershipTypeOK
        <3>3. Cardinality(Counted) <= peak - 1
            BY <2>1, <3>2, <1>2, CountedFinite DEF IInv
        <3>4. Joining' \subseteq Calls
            BY DEF Joining
        <3>5. Cardinality(Joining') <= Cardinality(Calls) /\ Cardinality(Joining') \in Nat
            BY <3>4, CallsAssumption, FS_Subset, FS_CardinalityType
        <3>6. QED
            BY <3>2, <3>3, <3>5, CountedFinite, JoiningFinite DEF IInv
    <2>5. QED
        BY <2>2, <2>3, <2>4 DEF IInv
<1>7. QED
    BY <1>5, <1>6

\* An admitted row: one more that counts, one call less that will add one.
LEMMA AddUserStep ==
    ASSUME IInv, NEW c \in Calls, AddUserToGroup(c)
    PROVE  IInv'
<1>1. limit # NoGroup /\ call[c].pc = "join"
    BY InFlight DEF AddUserToGroup, Goto
<1>2. call' \in [Calls -> Call] /\ alone' \in BOOLEAN
    BY GotoType DEF AddUserToGroup, IInv, MembershipTypeOK, Statements
<1>3. \A d \in Calls \ {c} : call'[d] = call[d]
    BY DEF AddUserToGroup, Goto, IInv, MembershipTypeOK
<1>4. call'[c].pc = "drop"
    BY IdleType DEF AddUserToGroup, Goto, IInv, MembershipTypeOK, Call
<1>5. PICK row \in MemberRow : memberRows' = memberRows \cup {row}
    <2>1. call[c].user \in Users
        BY DEF IInv, MembershipTypeOK, Call
    <2>2. QED
        BY <2>1 DEF AddUserToGroup, InsertRow, MemberRow
<1>6. MembershipTypeOK' /\ IsFiniteSet(memberRows')
    BY <1>2, <1>5, FS_AddElement DEF IInv, MembershipTypeOK, AddUserToGroup
<1>7. Started' /\ PeakInv'
    BY <1>1, <1>3, <1>4 DEF IInv, Started, PeakInv, AddUserToGroup
<1>8. Cardinality(Joining') = Cardinality(Joining) - 1
    <2>1. Joining' = Joining \ {c} /\ c \in Joining
        BY <1>1, <1>3, <1>4 DEF Joining
    <2>2. QED
        BY <2>1, JoiningFinite, FS_RemoveElement
<1>9. Cardinality(Counted') <= Cardinality(Counted) + 1 /\ Cardinality(Counted') \in Nat
    <2>1. Counted' \subseteq Counted \cup {row}
        BY <1>5 DEF Counted
    <2>2. IsFiniteSet(Counted \cup {row})
          /\ Cardinality(Counted \cup {row}) <= Cardinality(Counted) + 1
        BY CountedFinite, FS_AddElement DEF IInv
    <2>3. IsFiniteSet(Counted') /\ Cardinality(Counted') <= Cardinality(Counted \cup {row})
        BY <2>1, <2>2, FS_Subset
    <2>4. Cardinality(Counted') \in Nat /\ Cardinality(Counted \cup {row}) \in Nat
        BY <2>2, <2>3, FS_CardinalityType
    <2>5. QED
        BY <2>2, <2>3, <2>4, CountedFinite DEF IInv
<1>10. Admissions'
    <2>1. SUFFICES ASSUME peak # 0
                   PROVE  Cardinality(Counted') + Cardinality(Joining')
                              <= peak + Cardinality(Calls) - 1
        BY DEF Admissions, AddUserToGroup
    <2>2. Cardinality(Counted) + Cardinality(Joining) <= peak + Cardinality(Calls) - 1
        BY <2>1, <1>1 DEF IInv, Admissions
    <2>3. peak \in Nat
        BY <1>1, Constants DEF IInv, MembershipTypeOK, PeakInv
    <2>4. QED
        BY <2>2, <2>3, <1>8, <1>9, CountedFinite, JoiningFinite DEF IInv
<1>11. QED
    BY <1>6, <1>7, <1>10 DEF IInv

\* An invitation begins: somebody has access, so the group exists.
LEMMA InviteStep ==
    ASSUME IInv, NEW c \in Calls, Invite(c)
    PROVE  IInv'
<1>1. limit # NoGroup
    BY DEF Invite, HasAccess
<1>2. PICK u \in Users : Start(c, [IdleCall EXCEPT !.pc = "limit", !.op = "invite", !.user = u])
    BY DEF Invite
<1> DEFINE to == [IdleCall EXCEPT !.pc = "limit", !.op = "invite", !.user = u]
<1>a. to \in Call
    BY IdleType DEF Call
<1>3. call' \in [Calls -> Call] /\ alone' \in BOOLEAN
    BY <1>2, <1>a, StartType DEF IInv, MembershipTypeOK
<1>4. /\ \A d \in Calls \ {c} : call'[d] = call[d]
      /\ call'[c].pc \notin {"join", "count"}
    BY <1>2, <1>a, <1>3 DEF Start, IInv, MembershipTypeOK, IdleCall
<1>5. QED
    BY <1>1, <1>3, <1>4, ReadOnly DEF Invite

\* An answer begins with an invitation that exists, so the group does.
LEMMA AcceptInvitationStep ==
    ASSUME IInv, NEW c \in Calls, AcceptInvitation(c)
    PROVE  IInv'
<1>1. limit # NoGroup
    BY DEF AcceptInvitation, IInv, Started
<1>2. PICK i \in invitations : Start(c, [IdleCall EXCEPT !.pc = "limit", !.op = "accept", !.user = i.to, !.invitation = i])
    BY DEF AcceptInvitation
<1> DEFINE to == [IdleCall EXCEPT !.pc = "limit", !.op = "accept", !.user = i.to, !.invitation = i]
<1>a. to \in Call
    <2>1. i \in Invitation /\ i.to \in Users
        BY DEF IInv, MembershipTypeOK, Invitation
    <2>2. QED
        BY <2>1, IdleType DEF Call
<1>3. call' \in [Calls -> Call] /\ alone' \in BOOLEAN
    BY <1>2, <1>a, StartType DEF IInv, MembershipTypeOK
<1>4. /\ \A d \in Calls \ {c} : call'[d] = call[d]
      /\ call'[c].pc \notin {"join", "count"}
    BY <1>2, <1>a, <1>3 DEF Start, IInv, MembershipTypeOK, IdleCall
<1>5. QED
    BY <1>1, <1>3, <1>4, ReadOnly DEF AcceptInvitation

\* An answer begins with an invitation that exists, so the group does.
LEMMA DeclineInvitationStep ==
    ASSUME IInv, NEW c \in Calls, DeclineInvitation(c)
    PROVE  IInv'
<1>1. limit # NoGroup
    BY DEF DeclineInvitation, IInv, Started
<1>2. PICK i \in invitations : Start(c, [IdleCall EXCEPT !.pc = "drop", !.invitation = i])
    BY DEF DeclineInvitation
<1> DEFINE to == [IdleCall EXCEPT !.pc = "drop", !.invitation = i]
<1>a. to \in Call
    <2>1. i \in Invitation
        BY DEF IInv, MembershipTypeOK
    <2>2. QED
        BY <2>1, IdleType DEF Call
<1>3. call' \in [Calls -> Call] /\ alone' \in BOOLEAN
    BY <1>2, <1>a, StartType DEF IInv, MembershipTypeOK
<1>4. /\ \A d \in Calls \ {c} : call'[d] = call[d]
      /\ call'[c].pc \notin {"join", "count"}
    BY <1>2, <1>a, <1>3 DEF Start, IInv, MembershipTypeOK, IdleCall
<1>5. QED
    BY <1>1, <1>3, <1>4, ReadOnly DEF DeclineInvitation

\* An answer begins with an invitation that exists, so the group does.
LEMMA CancelInvitationStep ==
    ASSUME IInv, NEW c \in Calls, CancelInvitation(c)
    PROVE  IInv'
<1>1. limit # NoGroup
    BY DEF CancelInvitation, IInv, Started
<1>2. PICK i \in invitations : Start(c, [IdleCall EXCEPT !.pc = "drop", !.invitation = i])
    BY DEF CancelInvitation
<1> DEFINE to == [IdleCall EXCEPT !.pc = "drop", !.invitation = i]
<1>a. to \in Call
    <2>1. i \in Invitation
        BY DEF IInv, MembershipTypeOK
    <2>2. QED
        BY <2>1, IdleType DEF Call
<1>3. call' \in [Calls -> Call] /\ alone' \in BOOLEAN
    BY <1>2, <1>a, StartType DEF IInv, MembershipTypeOK
<1>4. /\ \A d \in Calls \ {c} : call'[d] = call[d]
      /\ call'[c].pc \notin {"join", "count"}
    BY <1>2, <1>a, <1>3 DEF Start, IInv, MembershipTypeOK, IdleCall
<1>5. QED
    BY <1>1, <1>3, <1>4, ReadOnly DEF CancelInvitation

\* A direct addition begins.
LEMMA AddMemberStep ==
    ASSUME IInv, NEW c \in Calls, AddMember(c)
    PROVE  IInv'
<1>1. limit # NoGroup
    BY DEF AddMember, HasAccess
<1>2. PICK u \in Users : Start(c, [IdleCall EXCEPT !.pc = "existing", !.user = u])
    BY DEF AddMember
<1> DEFINE to == [IdleCall EXCEPT !.pc = "existing", !.user = u]
<1>a. to \in Call
    BY IdleType DEF Call
<1>3. call' \in [Calls -> Call] /\ alone' \in BOOLEAN
    BY <1>2, <1>a, StartType DEF IInv, MembershipTypeOK
<1>4. /\ \A d \in Calls \ {c} : call'[d] = call[d]
      /\ call'[c].pc \notin {"join", "count"}
    BY <1>2, <1>a, <1>3 DEF Start, IInv, MembershipTypeOK, IdleCall
<1>5. QED
    BY <1>1, <1>3, <1>4, ReadOnly DEF AddMember

\* A removal begins with a row that exists, so the group does.
LEMMA RemoveMemberStep ==
    ASSUME IInv, NEW c \in Calls, RemoveMember(c)
    PROVE  IInv'
<1>1. limit # NoGroup
    BY DEF RemoveMember, IInv, Started
<1>2. PICK r \in memberRows : Start(c, [IdleCall EXCEPT !.pc = "purge", !.user = r.user, !.row = r])
    BY DEF RemoveMember
<1> DEFINE to == [IdleCall EXCEPT !.pc = "purge", !.user = r.user, !.row = r]
<1>a. to \in Call
    <2>1. r \in MemberRow /\ r.user \in Users
        BY DEF IInv, MembershipTypeOK, MemberRow
    <2>2. QED
        BY <2>1, IdleType DEF Call
<1>3. call' \in [Calls -> Call] /\ alone' \in BOOLEAN
    BY <1>2, <1>a, StartType DEF IInv, MembershipTypeOK
<1>4. /\ \A d \in Calls \ {c} : call'[d] = call[d]
      /\ call'[c].pc \notin {"join", "count"}
    BY <1>2, <1>a, <1>3 DEF Start, IInv, MembershipTypeOK, IdleCall
<1>5. QED
    BY <1>1, <1>3, <1>4, ReadOnly DEF RemoveMember

\* A removal begins with a row that exists, so the group does.
LEMMA LeaveGroupStep ==
    ASSUME IInv, NEW c \in Calls, LeaveGroup(c)
    PROVE  IInv'
<1>1. limit # NoGroup
    BY DEF LeaveGroup, IInv, Started
<1>2. PICK r \in memberRows : Start(c, [IdleCall EXCEPT !.pc = "remove", !.row = r])
    BY DEF LeaveGroup
<1> DEFINE to == [IdleCall EXCEPT !.pc = "remove", !.row = r]
<1>a. to \in Call
    <2>1. r \in MemberRow
        BY DEF IInv, MembershipTypeOK
    <2>2. QED
        BY <2>1, IdleType DEF Call
<1>3. call' \in [Calls -> Call] /\ alone' \in BOOLEAN
    BY <1>2, <1>a, StartType DEF IInv, MembershipTypeOK
<1>4. /\ \A d \in Calls \ {c} : call'[d] = call[d]
      /\ call'[c].pc \notin {"join", "count"}
    BY <1>2, <1>a, <1>3 DEF Start, IInv, MembershipTypeOK, IdleCall
<1>5. QED
    BY <1>1, <1>3, <1>4, ReadOnly DEF LeaveGroup

\* A lookup before an invitation changes the call only.
LEMMA LookUpMemberStep ==
    ASSUME IInv, NEW c \in Calls, LookUpMember(c)
    PROVE  IInv'
<1>1. limit # NoGroup
    BY InFlight DEF LookUpMember, Goto
<1>2. call' \in [Calls -> Call] /\ alone' \in BOOLEAN
    BY GotoType DEF LookUpMember, IInv, MembershipTypeOK, Statements
<1>3. /\ \A d \in Calls \ {c} : call'[d] = call[d]
      /\ call'[c].pc \notin {"join", "count"}
    BY IdleType DEF LookUpMember, Goto, IInv, MembershipTypeOK, Call, IdleCall
<1>4. QED
    BY <1>1, <1>2, <1>3, ReadOnly DEF LookUpMember

\* A lookup before an invitation changes the call only.
LEMMA LookUpPendingStep ==
    ASSUME IInv, NEW c \in Calls, LookUpPending(c)
    PROVE  IInv'
<1>1. limit # NoGroup
    BY InFlight DEF LookUpPending, Goto
<1>2. call' \in [Calls -> Call] /\ alone' \in BOOLEAN
    BY GotoType DEF LookUpPending, IInv, MembershipTypeOK, Statements
<1>3. /\ \A d \in Calls \ {c} : call'[d] = call[d]
      /\ call'[c].pc \notin {"join", "count"}
    BY IdleType DEF LookUpPending, Goto, IInv, MembershipTypeOK, Call, IdleCall
<1>4. QED
    BY <1>1, <1>2, <1>3, ReadOnly DEF LookUpPending

\* An invitation is inserted.
LEMMA InsertInvitationStep ==
    ASSUME IInv, NEW c \in Calls, InsertInvitation(c)
    PROVE  IInv'
<1>1. limit # NoGroup
    BY InFlight DEF InsertInvitation, Goto
<1>2. call' \in [Calls -> Call] /\ alone' \in BOOLEAN
    BY GotoType DEF InsertInvitation, IInv, MembershipTypeOK, Statements
<1>3. /\ \A d \in Calls \ {c} : call'[d] = call[d]
      /\ call'[c].pc \notin {"join", "count"}
    BY IdleType DEF InsertInvitation, Goto, IInv, MembershipTypeOK, Call, IdleCall
<1>4. /\ memberRows' \subseteq MemberRow
      /\ IsFiniteSet(memberRows')
      /\ Counted' \subseteq Counted
      /\ invitations' \subseteq Invitation
    <2>1. \A n \in 1 .. MaxInvites : [to |-> call[c].user, n |-> n] \in Invitation
        BY DEF IInv, MembershipTypeOK, Call, Invitation
    <2>2. QED
        BY <2>1 DEF InsertInvitation, IInv, MembershipTypeOK, Counted
<1>5. QED
    BY <1>1, <1>2, <1>3, <1>4, Harmless DEF InsertInvitation

\* Invitations are deleted.
LEMMA DropInvitationStep ==
    ASSUME IInv, NEW c \in Calls, DropInvitation(c)
    PROVE  IInv'
<1>1. limit # NoGroup
    BY InFlight DEF DropInvitation, Goto
<1>2. call' \in [Calls -> Call] /\ alone' \in BOOLEAN
    BY GotoType DEF DropInvitation, IInv, MembershipTypeOK, Statements
<1>3. /\ \A d \in Calls \ {c} : call'[d] = call[d]
      /\ call'[c].pc \notin {"join", "count"}
    BY IdleType DEF DropInvitation, Goto, IInv, MembershipTypeOK, Call, IdleCall
<1>4. /\ memberRows' \subseteq MemberRow
      /\ IsFiniteSet(memberRows')
      /\ Counted' \subseteq Counted
      /\ invitations' \subseteq Invitation
    BY DEF DropInvitation, IInv, MembershipTypeOK, Counted
<1>5. QED
    BY <1>1, <1>2, <1>3, <1>4, Harmless DEF DropInvitation

\* Invitations are deleted.
LEMMA PurgeInvitationsStep ==
    ASSUME IInv, NEW c \in Calls, PurgeInvitations(c)
    PROVE  IInv'
<1>1. limit # NoGroup
    BY InFlight DEF PurgeInvitations, Goto
<1>2. call' \in [Calls -> Call] /\ alone' \in BOOLEAN
    BY GotoType DEF PurgeInvitations, IInv, MembershipTypeOK, Statements
<1>3. /\ \A d \in Calls \ {c} : call'[d] = call[d]
      /\ call'[c].pc \notin {"join", "count"}
    BY IdleType DEF PurgeInvitations, Goto, IInv, MembershipTypeOK, Call, IdleCall
<1>4. /\ memberRows' \subseteq MemberRow
      /\ IsFiniteSet(memberRows')
      /\ Counted' \subseteq Counted
      /\ invitations' \subseteq Invitation
    BY DEF PurgeInvitations, IInv, MembershipTypeOK, Counted
<1>5. QED
    BY <1>1, <1>2, <1>3, <1>4, Harmless DEF PurgeInvitations

\* A direct addition inserts a row that does not count.
LEMMA InsertMemberStep ==
    ASSUME IInv, NEW c \in Calls, InsertMember(c)
    PROVE  IInv'
<1>1. limit # NoGroup
    BY InFlight DEF InsertMember, Goto
<1>2. call' \in [Calls -> Call] /\ alone' \in BOOLEAN
    BY GotoType DEF InsertMember, IInv, MembershipTypeOK, Statements
<1>3. /\ \A d \in Calls \ {c} : call'[d] = call[d]
      /\ call'[c].pc \notin {"join", "count"}
    BY IdleType DEF InsertMember, Goto, IInv, MembershipTypeOK, Call, IdleCall
<1>4. /\ memberRows' \subseteq MemberRow
      /\ IsFiniteSet(memberRows')
      /\ Counted' \subseteq Counted
      /\ invitations' \subseteq Invitation
    <2>1. PICK n \in 1 .. MaxRows :
              memberRows' = memberRows \cup {[user |-> call[c].user, n |-> n, by |-> "add"]}
        BY DEF InsertMember, InsertRow
    <2>2. [user |-> call[c].user, n |-> n, by |-> "add"] \in MemberRow
        BY DEF IInv, MembershipTypeOK, Call, MemberRow
    <2>3. memberRows' \subseteq MemberRow /\ Counted' \subseteq Counted
        BY <2>1, <2>2 DEF IInv, MembershipTypeOK, Counted
    <2>4. IsFiniteSet(memberRows')
        BY <2>1, FS_AddElement DEF IInv
    <2>5. invitations' \subseteq Invitation
        BY DEF InsertMember, IInv, MembershipTypeOK
    <2>6. QED
        BY <2>3, <2>4, <2>5
<1>5. QED
    BY <1>1, <1>2, <1>3, <1>4, Harmless DEF InsertMember

\* A direct addition of a member turns the row into one that does not count.
LEMMA TouchMemberStep ==
    ASSUME IInv, NEW c \in Calls, TouchMember(c)
    PROVE  IInv'
<1>1. limit # NoGroup
    BY InFlight DEF TouchMember, Goto
<1>2. call' \in [Calls -> Call] /\ alone' \in BOOLEAN
    BY GotoType DEF TouchMember, IInv, MembershipTypeOK, Statements
<1>3. /\ \A d \in Calls \ {c} : call'[d] = call[d]
      /\ call'[c].pc \notin {"join", "count"}
    BY IdleType DEF TouchMember, Goto, IInv, MembershipTypeOK, Call, IdleCall
<1>4. /\ memberRows' \subseteq MemberRow
      /\ IsFiniteSet(memberRows')
      /\ Counted' \subseteq Counted
      /\ invitations' \subseteq Invitation
    <2>1. DEFINE row == [call[c].row EXCEPT !.by = "add"]
                 kept == {r \in memberRows : <<r.user, r.n>> # <<row.user, row.n>>}
    <2>2. memberRows' = kept \cup {row}
        BY DEF TouchMember, SaveRow
    <2>3. row \in MemberRow /\ row.by = "add"
        BY DEF IInv, MembershipTypeOK, Call, MemberRow
    <2>4. IsFiniteSet(kept) /\ kept \subseteq memberRows
        BY FS_Subset DEF IInv
    <2>5. QED
        BY <2>2, <2>3, <2>4, FS_AddElement DEF TouchMember, IInv, MembershipTypeOK, Counted
<1>5. QED
    BY <1>1, <1>2, <1>3, <1>4, Harmless DEF TouchMember

\* A row is removed.
LEMMA RemoveMembershipStep ==
    ASSUME IInv, NEW c \in Calls, RemoveMembership(c)
    PROVE  IInv'
<1>1. limit # NoGroup
    BY InFlight DEF RemoveMembership, Goto
<1>2. call' \in [Calls -> Call] /\ alone' \in BOOLEAN
    BY GotoType DEF RemoveMembership, IInv, MembershipTypeOK, Statements
<1>3. /\ \A d \in Calls \ {c} : call'[d] = call[d]
      /\ call'[c].pc \notin {"join", "count"}
    BY IdleType DEF RemoveMembership, Goto, IInv, MembershipTypeOK, Call, IdleCall
<1>4. /\ memberRows' \subseteq MemberRow
      /\ IsFiniteSet(memberRows')
      /\ Counted' \subseteq Counted
      /\ invitations' \subseteq Invitation
    <2>1. memberRows' \subseteq memberRows
        BY DEF RemoveMembership, RemoveRow
    <2>2. QED
        BY <2>1, FS_Subset DEF RemoveMembership, IInv, MembershipTypeOK, Counted
<1>5. QED
    BY <1>1, <1>2, <1>3, <1>4, Harmless DEF RemoveMembership

\* A direct addition looks the member up.
LEMMA LookUpExistingStep ==
    ASSUME IInv, NEW c \in Calls, LookUpExisting(c)
    PROVE  IInv'
<1>1. limit # NoGroup
    BY InFlight DEF LookUpExisting
<1>2. call' \in [Calls -> Call] /\ alone' \in BOOLEAN
    <2>1. CASE Goto(c, "existing", "add")
        BY <2>1, GotoType DEF IInv, MembershipTypeOK, Statements
    <2>2. CASE \E r \in RowsOf(call[c].user) :
                   /\ call' = [call EXCEPT ![c] = [IdleCall EXCEPT !.pc = "touch", !.row = r]]
                   /\ UNCHANGED alone
        <3>1. \A r \in RowsOf(call[c].user) : [IdleCall EXCEPT !.pc = "touch", !.row = r] \in Call
            BY IdleType DEF Call, RowsOf, IInv, MembershipTypeOK
        <3>2. QED
            BY <2>2, <3>1 DEF IInv, MembershipTypeOK
    <2>3. QED
        BY <2>1, <2>2 DEF LookUpExisting
<1>3. /\ \A d \in Calls \ {c} : call'[d] = call[d]
      /\ call'[c].pc \notin {"join", "count"}
    BY ZenonT(40) DEF LookUpExisting, Goto, IInv, MembershipTypeOK, Call, IdleCall
<1>4. QED
    BY <1>1, <1>2, <1>3, ReadOnly DEF LookUpExisting

\* A call that dies admits nobody any more.
LEMMA DieStep ==
    ASSUME IInv, NEW c \in Calls, Die(c)
    PROVE  IInv'
<1>1. limit # NoGroup
    BY InFlight DEF Die
<1>2. call' \in [Calls -> Call] /\ alone' \in BOOLEAN
    BY IdleType DEF Die, IInv, MembershipTypeOK
<1>3. /\ \A d \in Calls \ {c} : call'[d] = call[d]
      /\ call'[c].pc \notin {"join", "count"}
    BY DEF Die, IInv, MembershipTypeOK, IdleCall
<1>4. QED
    BY <1>1, <1>2, <1>3, ReadOnly DEF Die

-----------------------------------------------------------------------------
(* Theorems *)

\* The invariant holds at first and every step of every call keeps it.
THEOREM Inductive ==
    /\ MembershipInit => IInv
    /\ IInv /\ [MembershipNext]_membershipVars => IInv'
<1>1. ASSUME MembershipInit PROVE IInv
    <2>1. MembershipTypeOK /\ IsFiniteSet(memberRows)
        BY <1>1, IdleType, FS_EmptySet DEF MembershipInit, MembershipTypeOK
    <2>2. Started /\ PeakInv /\ Admissions
        BY <1>1 DEF MembershipInit, Started, PeakInv, Admissions, IdleCall
    <2>3. QED
        BY <2>1, <2>2 DEF IInv
<1>2. ASSUME IInv, [MembershipNext]_membershipVars PROVE IInv'
    <2>1. CASE CreateGroup
        BY <1>2, <2>1, CreateStep
    <2>2. CASE ChangePlan
        BY <1>2, <2>2, ChangePlanStep
    <2>3. ASSUME NEW c \in Calls, InvitationCalls(c) PROVE IInv'
        BY <1>2, <2>3, InviteStep, AcceptInvitationStep, DeclineInvitationStep,
           CancelInvitationStep DEF InvitationCalls
    <2>4. ASSUME NEW c \in Calls, MemberCalls(c) PROVE IInv'
        BY <1>2, <2>4, AddMemberStep, RemoveMemberStep, LeaveGroupStep DEF MemberCalls
    <2>5. ASSUME NEW c \in Calls, MembershipSteps(c) PROVE IInv'
        BY <1>2, <2>5, ReadLimitStep, CountMembersStep, LookUpMemberStep, LookUpPendingStep,
           InsertInvitationStep, AddUserStep, DropInvitationStep, LookUpExistingStep,
           InsertMemberStep, TouchMemberStep, PurgeInvitationsStep, RemoveMembershipStep
           DEF MembershipSteps
    <2>6. ASSUME NEW c \in Calls, Die(c) PROVE IInv'
        BY <1>2, <2>6, DieStep
    <2>7. CASE UNCHANGED membershipVars
        BY <1>2, <2>7 DEF membershipVars, IInv, MembershipTypeOK, Started, PeakInv,
           Admissions, Counted, Joining
    <2>8. QED
        BY <1>2, <2>1, <2>2, <2>3, <2>4, <2>5, <2>6, <2>7 DEF MembershipNext
<1>3. QED
    BY <1>1, <1>2

\* The tables and calls keep their shapes, for any users and limits.
THEOREM TypeCorrect == MembershipSpec => []MembershipTypeOK
<1>1. IInv => MembershipTypeOK
    BY DEF IInv
<1>2. QED
    BY Inductive, <1>1, PTL DEF MembershipSpec

\* However acceptances, additions, removals and changes of plan interleave, n
\* calls in flight never take the group further than n - 1 rows above the highest
\* limit it had, direct additions aside.
THEOREM LimitPassedByLess == MembershipSpec => []AcceptedWithinLimit
<1>1. IInv => AcceptedWithinLimit
    <2>1. SUFFICES ASSUME IInv, limit # NoGroup, peak # 0
                   PROVE  Cardinality(Counted) <= peak + Cardinality(Calls) - 1
        BY DEF AcceptedWithinLimit
    <2>2. Cardinality(Counted) + Cardinality(Joining) <= peak + Cardinality(Calls) - 1
        BY <2>1 DEF IInv, Admissions
    <2>3. peak \in Nat
        BY <2>1, Constants DEF IInv, MembershipTypeOK, PeakInv
    <2>4. QED
        BY <2>1, <2>2, <2>3, CountedFinite, JoiningFinite DEF IInv
<1>2. QED
    BY Inductive, <1>1, PTL DEF MembershipSpec
-----------------------------------------------------------------------------
(* Calls that do not overlap *)

\* What the only call in flight may rely on: an invitation it is about to accept
\* is still there, a user it is about to invite is no member and not invited.
CallInv(c) ==
    LET q == call[c] IN
    /\ q.pc = "join" => q.op # "invite"
    /\ q.pc \in {"limit", "count", "join"} /\ q.op # "invite" =>
           q.invitation \in invitations /\ q.invitation.to = q.user
    /\ q.pc \in {"pending", "invite"} => RowsOf(q.user) = {}
    /\ q.pc = "invite" => InvitationsTo(q.user) = {}

\* One invitation to a user, and one row by invitation; a user has both only while
\* the invitation that was accepted is about to be deleted.
Answered ==
    /\ \A r, s \in Counted : r.user = s.user => r = s
    /\ \A i, j \in invitations : i.to = j.to => i = j
    /\ \A i \in invitations, r \in Counted :
           r.user = i.to => \E c \in Calls : call[c].pc = "drop" /\ call[c].invitation = i

AloneInv ==
    alone =>
        /\ \A c, d \in Calls : call[c].pc # "idle" /\ call[d].pc # "idle" => c = d
        /\ \A c \in Calls : CallInv(c)
        /\ Answered

\* Every step starts a call when no other is in flight, or moves the only one.
LEMMA OneCall ==
    ASSUME call \in [Calls -> Call], AloneInv, alone, NEW c \in Calls,
           \/ call[c].pc # "idle"
           \/ \A d \in Calls \ {c} : call[d].pc = "idle",
           \A d \in Calls \ {c} : call'[d] = call[d],
           CallInv(c)', Answered'
    PROVE  AloneInv'
<1>1. \A d \in Calls \ {c} : call[d].pc = "idle"
    BY DEF AloneInv
<1>2. ASSUME NEW d \in Calls, d # c PROVE CallInv(d)'
    <2>1. call'[d].pc = "idle"
        BY <1>1, <1>2
    <2>2. QED
        BY <2>1 DEF CallInv
<1>3. \A d \in Calls : CallInv(d)'
    BY <1>2
<1>4. \A d, e \in Calls : call'[d].pc # "idle" /\ call'[e].pc # "idle" => d = e
    BY <1>1
<1>5. QED
    BY <1>3, <1>4 DEF AloneInv

\* Goto and Start, for the call that takes the step and for the others.
LEMMA GotoFacts ==
    ASSUME call \in [Calls -> Call], NEW c \in Calls, NEW pc, NEW next, Goto(c, pc, next)
    PROVE  /\ call[c].pc = pc
           /\ \A d \in Calls \ {c} : call'[d] = call[d]
           /\ next = "idle" => call'[c] = IdleCall
           /\ next = "remove" => call'[c].pc = "remove"
           /\ next = "drop" => call'[c].pc = "drop"
                               /\ call'[c].invitation = call[c].invitation
           /\ next \notin {"idle", "drop", "remove"} =>
                /\ call'[c].pc = next
                /\ call'[c].op = call[c].op
                /\ call'[c].user = call[c].user
                /\ call'[c].invitation = call[c].invitation
    BY DEF Goto, IdleCall, Call

LEMMA IdleInv ==
    ASSUME NEW c \in Calls,
           call'[c].pc \notin {"limit", "count", "join", "pending", "invite"}
    PROVE  CallInv(c)'
    BY DEF CallInv

\* A step that adds neither a row nor an invitation, and ends no deletion.
LEMMA AnsweredKept ==
    ASSUME AloneInv, alone, NEW c \in Calls, call[c].pc # "drop",
           \A d \in Calls \ {c} : call'[d] = call[d],
           Counted' \subseteq Counted, invitations' \subseteq invitations
    PROVE  Answered'
<1>1. ASSUME NEW i \in invitations', NEW r \in Counted', r.user = i.to
      PROVE  \E d \in Calls : call'[d].pc = "drop" /\ call'[d].invitation = i
    <2>1. PICK d \in Calls : call[d].pc = "drop" /\ call[d].invitation = i
        BY <1>1 DEF AloneInv, Answered
    <2>2. d # c
        BY <2>1
    <2>3. QED
        BY <2>1, <2>2
<1>2. QED
    BY <1>1 DEF AloneInv, Answered

\* A call that starts does so alone, or no longer counts.
LEMMA AloneStart ==
    ASSUME IInv, AloneInv, NEW c \in Calls, NEW to, Start(c, to),
           UNCHANGED <<memberRows, invitations>>,
           to.pc \in {"limit", "drop", "existing", "purge", "remove"},
           to.pc = "limit" /\ to.op # "invite" =>
               to.invitation \in invitations /\ to.invitation.to = to.user
    PROVE  AloneInv'
<1>1. CASE ~alone'
    BY <1>1 DEF AloneInv
<1>2. CASE alone'
    <2>1. /\ alone /\ call[c].pc = "idle" /\ \A d \in Calls \ {c} : call[d].pc = "idle"
          /\ call \in [Calls -> Call]
          /\ call'[c] = to /\ \A d \in Calls \ {c} : call'[d] = call[d]
        BY <1>2 DEF Start, IInv, MembershipTypeOK
    <2>2. Counted' = Counted
        BY DEF Counted
    <2>3. Answered'
        BY <2>1, <2>2, AnsweredKept
    <2>4. CallInv(c)'
        BY <2>1 DEF CallInv
    <2>5. QED
        BY <2>1, <2>3, <2>4, OneCall
<1>3. QED
    BY <1>1, <1>2

LEMMA AloneStarts ==
    ASSUME IInv, AloneInv, NEW c \in Calls, InvitationCalls(c) \/ MemberCalls(c)
    PROVE  AloneInv'
<1>1. ASSUME Invite(c) PROVE AloneInv'
    <2>1. PICK u \in Users : Start(c, [IdleCall EXCEPT !.pc = "limit", !.op = "invite",
                                                       !.user = u])
        BY <1>1 DEF Invite
    <2> DEFINE to == [IdleCall EXCEPT !.pc = "limit", !.op = "invite", !.user = u]
    <2>2. to.pc = "limit" /\ to.op = "invite"
        BY DEF IdleCall
    <2> HIDE DEF to
    <2>3. QED
        BY <1>1, <2>1, <2>2, AloneStart DEF Invite, to
<1>2. ASSUME AcceptInvitation(c) PROVE AloneInv'
    <2>1. PICK i \in invitations :
              Start(c, [IdleCall EXCEPT !.pc = "limit", !.op = "accept",
                                        !.user = i.to, !.invitation = i])
        BY <1>2 DEF AcceptInvitation
    <2> DEFINE to == [IdleCall EXCEPT !.pc = "limit", !.op = "accept",
                                      !.user = i.to, !.invitation = i]
    <2>2. to.pc = "limit" /\ to.invitation = i /\ to.user = i.to
        BY DEF IdleCall
    <2>3. Start(c, to) /\ UNCHANGED <<memberRows, invitations>>
        BY <1>2, <2>1 DEF AcceptInvitation
    <2> HIDE DEF to
    <2>4. QED
        BY <2>2, <2>3, AloneStart
<1>3. ASSUME DeclineInvitation(c) \/ CancelInvitation(c) PROVE AloneInv'
    <2>1. PICK i \in invitations : Start(c, [IdleCall EXCEPT !.pc = "drop", !.invitation = i])
        BY <1>3 DEF DeclineInvitation, CancelInvitation
    <2> DEFINE to == [IdleCall EXCEPT !.pc = "drop", !.invitation = i]
    <2>2. to.pc = "drop"
        BY DEF IdleCall
    <2>3. Start(c, to) /\ UNCHANGED <<memberRows, invitations>>
        BY <1>3, <2>1 DEF DeclineInvitation, CancelInvitation
    <2> HIDE DEF to
    <2>4. QED
        BY <2>2, <2>3, AloneStart
<1>4. ASSUME AddMember(c) PROVE AloneInv'
    <2>1. PICK u \in Users : Start(c, [IdleCall EXCEPT !.pc = "existing", !.user = u])
        BY <1>4 DEF AddMember
    <2> DEFINE to == [IdleCall EXCEPT !.pc = "existing", !.user = u]
    <2>2. to.pc = "existing"
        BY DEF IdleCall
    <2>3. Start(c, to) /\ UNCHANGED <<memberRows, invitations>>
        BY <1>4, <2>1 DEF AddMember
    <2> HIDE DEF to
    <2>4. QED
        BY <2>2, <2>3, AloneStart
<1>5. ASSUME RemoveMember(c) PROVE AloneInv'
    <2>1. PICK r \in memberRows :
              Start(c, [IdleCall EXCEPT !.pc = "purge", !.user = r.user, !.row = r])
        BY <1>5 DEF RemoveMember
    <2> DEFINE to == [IdleCall EXCEPT !.pc = "purge", !.user = r.user, !.row = r]
    <2>2. to.pc = "purge"
        BY DEF IdleCall
    <2>3. Start(c, to) /\ UNCHANGED <<memberRows, invitations>>
        BY <1>5, <2>1 DEF RemoveMember
    <2> HIDE DEF to
    <2>4. QED
        BY <2>2, <2>3, AloneStart
<1>6. ASSUME LeaveGroup(c) PROVE AloneInv'
    <2>1. PICK r \in memberRows : Start(c, [IdleCall EXCEPT !.pc = "remove", !.row = r])
        BY <1>6 DEF LeaveGroup
    <2> DEFINE to == [IdleCall EXCEPT !.pc = "remove", !.row = r]
    <2>2. to.pc = "remove"
        BY DEF IdleCall
    <2>3. Start(c, to) /\ UNCHANGED <<memberRows, invitations>>
        BY <1>6, <2>1 DEF LeaveGroup
    <2> HIDE DEF to
    <2>4. QED
        BY <2>2, <2>3, AloneStart
<1>7. QED
    BY <1>1, <1>2, <1>3, <1>4, <1>5, <1>6 DEF InvitationCalls, MemberCalls

\* A call alone that reads goes on with what it has read.
LEMMA AloneReads ==
    ASSUME IInv, AloneInv, alone, NEW c \in Calls,
           \/ ReadLimit(c) \/ CountMembers(c) \/ LookUpMember(c) \/ LookUpPending(c)
           \/ LookUpExisting(c)
    PROVE  AloneInv'
<1>1. call \in [Calls -> Call] /\ CallInv(c) /\ Answered
    BY DEF IInv, MembershipTypeOK, AloneInv
<1>2. UNCHANGED <<memberRows, invitations>>
    BY DEF ReadLimit, CountMembers, LookUpMember, LookUpPending, LookUpExisting
<1>3. Counted' = Counted /\ RowsOf(call[c].user)' = {r \in memberRows : r.user = call'[c].user}
    BY <1>2 DEF Counted, RowsOf
<1>4. call[c].pc \in {"limit", "count", "member", "pending", "existing"}
    BY <1>1, GotoFacts DEF ReadLimit, CountMembers, LookUpMember, LookUpPending,
       LookUpExisting
<1>5. \A d \in Calls \ {c} : call'[d] = call[d]
    BY <1>1, GotoFacts DEF ReadLimit, CountMembers, LookUpMember, LookUpPending,
       LookUpExisting
<1>6. Answered'
    BY <1>2, <1>3, <1>4, <1>5, AnsweredKept
<1>7. CallInv(c)'
    <2>1. CASE ReadLimit(c)
        <3>1. /\ call[c].pc = "limit" /\ call'[c].op = call[c].op
              /\ call'[c].user = call[c].user /\ call'[c].invitation = call[c].invitation
              /\ call'[c].pc \in {"count", Admitted(c)}
            BY <1>1, <2>1 DEF ReadLimit, Call
        <3>2. QED
            BY <1>1, <1>2, <3>1 DEF CallInv, Admitted
    <2>2. CASE CountMembers(c)
        <3>1. PICK next \in {"idle", "member", "join"} :
                  /\ Goto(c, "count", next)
                  /\ next # "idle" => next = Admitted(c)
            BY <2>2 DEF CountMembers, Admitted
        <3>2. CASE next # "join"
            BY <1>1, <3>1, <3>2, GotoFacts, IdleInv DEF IdleCall
        <3>3. CASE next = "join"
            <4>1. /\ call[c].pc = "count" /\ call[c].op # "invite"
                  /\ call'[c].pc = "join" /\ call'[c].op = call[c].op
                  /\ call'[c].user = call[c].user
                  /\ call'[c].invitation = call[c].invitation
                BY <1>1, <3>1, <3>3, GotoFacts DEF Admitted
            <4>2. QED
                BY <1>1, <1>2, <4>1 DEF CallInv
        <3>4. QED
            BY <3>2, <3>3
    <2>3. CASE LookUpMember(c)
        <3>1. \/ Goto(c, "member", "idle")
              \/ Goto(c, "member", "pending") /\ RowsOf(call[c].user) = {}
            BY <2>3 DEF LookUpMember
        <3>2. CASE Goto(c, "member", "idle")
            BY <1>1, <3>2, GotoFacts, IdleInv DEF IdleCall
        <3>3. CASE Goto(c, "member", "pending") /\ RowsOf(call[c].user) = {}
            <4>1. call'[c].pc = "pending" /\ call'[c].user = call[c].user
                BY <1>1, <3>3, GotoFacts
            <4>2. QED
                BY <1>2, <3>3, <4>1 DEF CallInv, RowsOf
        <3>4. QED
            BY <3>1, <3>2, <3>3
    <2>4. CASE LookUpPending(c)
        <3>1. \/ Goto(c, "pending", "idle")
              \/ Goto(c, "pending", "invite") /\ InvitationsTo(call[c].user) = {}
            BY <2>4 DEF LookUpPending
        <3>2. CASE Goto(c, "pending", "idle")
            BY <1>1, <3>2, GotoFacts, IdleInv DEF IdleCall
        <3>3. CASE Goto(c, "pending", "invite") /\ InvitationsTo(call[c].user) = {}
            <4>1. /\ call[c].pc = "pending"
                  /\ call'[c].pc = "invite" /\ call'[c].user = call[c].user
                BY <1>1, <3>3, GotoFacts
            <4>2. QED
                BY <1>1, <1>2, <3>3, <4>1 DEF CallInv, RowsOf, InvitationsTo
        <3>4. QED
            BY <3>1, <3>2, <3>3
    <2>5. CASE LookUpExisting(c)
        <3>1. CASE Goto(c, "existing", "add")
            BY <1>1, <3>1, GotoFacts, IdleInv
        <3>2. ASSUME NEW r \in memberRows,
                     call' = [call EXCEPT ![c] = [IdleCall EXCEPT !.pc = "touch", !.row = r]]
              PROVE  CallInv(c)'
            BY <1>1, <3>2, IdleInv DEF IdleCall
        <3>3. QED
            BY <2>5, <3>1, <3>2 DEF LookUpExisting, RowsOf
    <2>6. QED
        BY <2>1, <2>2, <2>3, <2>4, <2>5
<1>8. QED
    BY <1>1, <1>4, <1>5, <1>6, <1>7, OneCall

\* An invitation is inserted for a user who has none and is no member.
LEMMA AloneInvite ==
    ASSUME IInv, AloneInv, alone, NEW c \in Calls, InsertInvitation(c)
    PROVE  AloneInv'
<1> DEFINE u == call[c].user
<1>1. call \in [Calls -> Call] /\ CallInv(c) /\ Answered
    BY DEF IInv, MembershipTypeOK, AloneInv
<1>2. PICK n \in 1 .. MaxInvites : invitations' = invitations \cup {[to |-> u, n |-> n]}
    BY DEF InsertInvitation
<1>3. /\ call[c].pc = "invite" /\ call'[c] = IdleCall
      /\ \A d \in Calls \ {c} : call'[d] = call[d]
      /\ memberRows' = memberRows
    BY <1>1, GotoFacts DEF InsertInvitation
<1>4. /\ \A r \in memberRows : r.user # u
      /\ \A i \in invitations : i.to # u
    BY <1>1, <1>3 DEF CallInv, RowsOf, InvitationsTo
<1>5. Counted' = Counted /\ Counted \subseteq memberRows
    BY <1>3 DEF Counted
<1>6. Answered'
    <2>1. ASSUME NEW i \in invitations', NEW r \in Counted', r.user = i.to
          PROVE  \E d \in Calls : call'[d].pc = "drop" /\ call'[d].invitation = i
        <3>1. i \in invitations
            BY <1>2, <1>4, <1>5, <2>1
        <3>2. PICK d \in Calls : call[d].pc = "drop" /\ call[d].invitation = i
            BY <1>1, <1>5, <2>1, <3>1 DEF Answered
        <3>3. QED
            BY <1>3, <3>2
    <2>2. \A i, j \in invitations' : i.to = j.to => i = j
        BY <1>1, <1>2, <1>4 DEF Answered
    <2>3. QED
        BY <1>1, <1>5, <2>1, <2>2 DEF Answered
<1>7. CallInv(c)'
    BY <1>3, IdleInv DEF IdleCall
<1>8. QED
    BY <1>1, <1>3, <1>6, <1>7, OneCall

\* A row is inserted for a user whose invitation is deleted next.
LEMMA AloneJoin ==
    ASSUME IInv, AloneInv, alone, NEW c \in Calls, AddUserToGroup(c)
    PROVE  AloneInv'
<1> DEFINE u == call[c].user
           i0 == call[c].invitation
<1>1. call \in [Calls -> Call] /\ CallInv(c) /\ Answered
    BY DEF IInv, MembershipTypeOK, AloneInv
<1>2. PICK n \in 1 .. MaxRows :
          memberRows' = memberRows \cup {[user |-> u, n |-> n, by |-> "accept"]}
    BY DEF AddUserToGroup, InsertRow
<1>3. /\ call[c].pc = "join" /\ call'[c].pc = "drop" /\ call'[c].invitation = i0
      /\ \A d \in Calls \ {c} : call'[d] = call[d]
      /\ invitations' = invitations
    BY <1>1, GotoFacts DEF AddUserToGroup
<1>4. i0 \in invitations /\ i0.to = u
    BY <1>1, <1>3 DEF CallInv
<1>5. \A d \in Calls : call[d].pc # "drop"
    BY <1>3 DEF AloneInv
<1>6. \A i \in invitations, r \in Counted : r.user # i.to
    BY <1>1, <1>5 DEF Answered
<1> DEFINE row == [user |-> u, n |-> n, by |-> "accept"]
<1>7. Counted' \subseteq Counted \cup {row} /\ row.user = u
    BY <1>2 DEF Counted
<1> HIDE DEF row
<1>8. \A r, s \in Counted' : r.user = s.user => r = s
    BY <1>1, <1>4, <1>6, <1>7 DEF Answered
<1>9. ASSUME NEW i \in invitations', NEW r \in Counted', r.user = i.to
      PROVE  \E d \in Calls : call'[d].pc = "drop" /\ call'[d].invitation = i
    <2>1. r = row
        BY <1>3, <1>6, <1>7, <1>9
    <2>2. i = i0
        BY <1>1, <1>3, <1>4, <1>7, <1>9, <2>1 DEF Answered
    <2>3. QED
        BY <1>3, <2>2
<1>10. Answered'
    BY <1>1, <1>3, <1>8, <1>9 DEF Answered
<1>11. CallInv(c)'
    BY <1>3, IdleInv
<1>12. QED
    BY <1>1, <1>3, <1>10, <1>11, OneCall

\* The answered invitation is deleted.
LEMMA AloneDrop ==
    ASSUME IInv, AloneInv, alone, NEW c \in Calls, DropInvitation(c)
    PROVE  AloneInv'
<1>1. call \in [Calls -> Call] /\ CallInv(c) /\ Answered
    BY DEF IInv, MembershipTypeOK, AloneInv
<1>2. /\ call[c].pc = "drop" /\ call'[c] = IdleCall
      /\ \A d \in Calls \ {c} : call'[d] = call[d]
      /\ memberRows' = memberRows
      /\ invitations' = invitations \ {call[c].invitation}
    BY <1>1, GotoFacts DEF DropInvitation
<1>3. Counted' = Counted
    BY <1>2 DEF Counted
<1>4. ASSUME NEW i \in invitations', NEW r \in Counted' PROVE r.user # i.to
    <2>1. SUFFICES ASSUME r.user = i.to PROVE FALSE
        OBVIOUS
    <2>2. PICK d \in Calls : call[d].pc = "drop" /\ call[d].invitation = i
        BY <1>1, <1>2, <1>3, <2>1 DEF Answered
    <2>3. d = c
        BY <1>2, <2>2 DEF AloneInv
    <2>4. QED
        BY <1>2, <2>2, <2>3
<1>5. Answered'
    BY <1>1, <1>2, <1>3, <1>4 DEF Answered
<1>6. CallInv(c)'
    BY <1>2, IdleInv DEF IdleCall
<1>7. QED
    BY <1>1, <1>2, <1>5, <1>6, OneCall

\* Direct additions and removals: no row by invitation is added.
LEMMA AloneMembers ==
    ASSUME IInv, AloneInv, alone, NEW c \in Calls,
           \/ InsertMember(c) \/ TouchMember(c) \/ PurgeInvitations(c)
           \/ RemoveMembership(c)
    PROVE  AloneInv'
<1>1. call \in [Calls -> Call] /\ CallInv(c) /\ Answered
    BY DEF IInv, MembershipTypeOK, AloneInv
<1>2. /\ call[c].pc \in {"add", "touch", "purge", "remove"}
      /\ call'[c].pc \in {"idle", "remove"}
      /\ \A d \in Calls \ {c} : call'[d] = call[d]
    <2>1. PICK pc \in {"add", "touch", "purge", "remove"}, next \in {"idle", "remove"} :
              Goto(c, pc, next)
        BY DEF InsertMember, TouchMember, PurgeInvitations, RemoveMembership
    <2>2. QED
        BY <1>1, <2>1, GotoFacts DEF IdleCall
<1>3. invitations' \subseteq invitations
    BY DEF InsertMember, TouchMember, PurgeInvitations, RemoveMembership
<1>4. Counted' \subseteq Counted
    <2>1. CASE InsertMember(c)
        BY <2>1 DEF InsertMember, InsertRow, Counted
    <2>2. CASE TouchMember(c)
        <3>1. [call[c].row EXCEPT !.by = "add"].by = "add"
            BY <1>1 DEF Call, MemberRow
        <3>2. QED
            BY <2>2, <3>1 DEF TouchMember, SaveRow, Counted
    <2>3. CASE PurgeInvitations(c)
        BY <2>3 DEF PurgeInvitations, Counted
    <2>4. CASE RemoveMembership(c)
        BY <2>4 DEF RemoveMembership, RemoveRow, Counted
    <2>5. QED
        BY <2>1, <2>2, <2>3, <2>4
<1>5. Answered'
    BY <1>2, <1>3, <1>4, AnsweredKept
<1>6. CallInv(c)'
    BY <1>2, IdleInv
<1>7. QED
    BY <1>1, <1>2, <1>5, <1>6, OneCall

LEMMA AloneStep == IInv /\ AloneInv /\ [MembershipNext]_membershipVars => AloneInv'
<1> SUFFICES ASSUME IInv, AloneInv, [MembershipNext]_membershipVars PROVE AloneInv'
    OBVIOUS
<1>1. CASE CreateGroup
    <2>1. memberRows' = {OwnerRow} /\ UNCHANGED <<invitations, call, alone>>
        BY <1>1 DEF CreateGroup
    <2>2. invitations = {} /\ \A c \in Calls : call[c].pc = "idle"
        BY <1>1 DEF CreateGroup, IInv, Started
    <2>3. Counted' \subseteq {OwnerRow}
        BY <2>1 DEF Counted
    <2>4. Answered'
        BY <2>1, <2>2, <2>3 DEF Answered
    <2>5. \A c \in Calls : CallInv(c)'
        BY <2>1, <2>2 DEF CallInv
    <2>6. QED
        BY <2>1, <2>2, <2>4, <2>5 DEF AloneInv
<1>2. CASE ChangePlan \/ UNCHANGED membershipVars
    <2>1. UNCHANGED <<memberRows, invitations, call, alone>>
        BY <1>2 DEF ChangePlan, membershipVars
    <2>2. Answered' = Answered
        BY <2>1 DEF Answered, Counted
    <2>3. \A c \in Calls : CallInv(c)' = CallInv(c)
        BY <2>1 DEF CallInv, RowsOf, InvitationsTo
    <2>4. QED
        BY <2>1, <2>2, <2>3 DEF AloneInv
<1>3. ASSUME NEW c \in Calls, InvitationCalls(c) \/ MemberCalls(c) PROVE AloneInv'
    BY <1>3, AloneStarts
<1>4. ASSUME NEW c \in Calls, MembershipSteps(c) PROVE AloneInv'
    <2>1. alone' = alone
        BY <1>4 DEF MembershipSteps, ReadLimit, CountMembers, LookUpMember,
           LookUpPending, InsertInvitation, AddUserToGroup, DropInvitation, LookUpExisting,
           InsertMember, TouchMember, PurgeInvitations, RemoveMembership, Goto
    <2>2. CASE ~alone
        BY <2>1, <2>2 DEF AloneInv
    <2>3. CASE alone
        BY <1>4, <2>3, AloneReads, AloneInvite, AloneJoin, AloneDrop, AloneMembers
           DEF MembershipSteps
    <2>4. QED
        BY <2>2, <2>3
<1>5. ASSUME NEW c \in Calls, Die(c) PROVE AloneInv'
    BY <1>5 DEF Die, AloneInv
<1>6. QED
    BY <1>1, <1>2, <1>3, <1>4, <1>5 DEF MembershipNext

LEMMA AloneInit == MembershipInit => AloneInv
    BY DEF MembershipInit, AloneInv, Answered, CallInv, IdleCall, Counted

\* Calls that do not overlap give a user at most one row by invitation, although
\* acceptInvitation inserts without looking for one.
THEOREM AcceptedJustOnce == MembershipSpec => []AcceptedOnce
<1>1. AloneInv => AcceptedOnce
    BY DEF AloneInv, Answered, AcceptedOnce
<1>2. QED
    BY Inductive, AloneInit, AloneStep, <1>1, PTL DEF MembershipSpec

\* Calls that do not overlap leave at most one invitation to a user, and none to
\* one who joined by invitation.
THEOREM NoAnsweredInvitation == MembershipSpec => []PendingOrMember
<1>1. AloneInv => PendingOrMember
    <2>1. SUFFICES ASSUME Answered, \A c \in Calls : call[c].pc = "idle",
                          NEW i \in invitations
                   PROVE  InvitationsTo(i.to) = {i} /\ \A r \in Counted : r.user # i.to
        BY DEF AloneInv, PendingOrMember
    <2>2. QED
        BY <2>1 DEF Answered, InvitationsTo
<1>2. QED
    BY Inductive, AloneInit, AloneStep, <1>1, PTL DEF MembershipSpec

-----------------------------------------------------------------------------
(* Friendship: the inductive invariant *)

Tries(a) == attempt[a].pc # "idle"

\* What the pair of a call is, at every interleaving.
PairsMeant ==
    /\ \A r \in friendRows : r.user # r.friend
    /\ \A r \in friendRequests : r.from # r.to
    /\ \A a \in Attempts : attempt[a].pc \in {"send lookup", "insert", "befriend", "delete"} =>
          attempt[a].request \in FriendRequest /\ attempt[a].request.from # attempt[a].request.to

\* The pair a call asks about has no row; an answer has found its request.
PairOpen(a) ==
    LET r == attempt[a].request IN
    /\ attempt[a].pc \in {"send lookup", "insert", "befriend"} => FriendRowsOf(r.from, r.to) = {}
    /\ attempt[a].pc = "insert" => RequestsBetween(r.from, r.to) = {}
    /\ attempt[a].pc = "befriend" => r \in friendRequests

\* Friends have no request between them, except one that is about to go.
Befriended ==
    \A r \in friendRequests :
        \/ FriendRowsOf(r.from, r.to) = {}
        \/ \E a \in Attempts : attempt[a].pc = "delete" /\ attempt[a].request = r

PairsInOrder ==
    /\ \A a, b \in Attempts : Tries(a) /\ Tries(b) => a = b
    /\ \A r, s \in friendRows : {r.user, r.friend} = {s.user, s.friend} => r = s
    /\ \A r, s \in friendRequests : {r.from, r.to} = {s.from, s.to} => r = s
    /\ \A a \in Attempts : PairOpen(a)
    /\ Befriended

FriendshipInv == FriendshipTypeOK /\ PairsMeant /\ (solo => PairsInOrder)

-----------------------------------------------------------------------------
(* Friendship: the steps *)

LEMMA SamePair ==
    \A u, v, x, y : {u, v} = {x, y} <=> (u = x /\ v = y) \/ (u = y /\ v = x)
    OBVIOUS

LEMMA NoAttemptTyped == NoAttempt \in Attempt /\ NoAttempt.pc = "idle"
    BY DEF NoAttempt, Attempt

\* The other attempts: none is in flight, before or after.
AttemptsIdle(a) == \A b \in Attempts \ {a} : ~Tries(b) /\ attempt'[b] = attempt[b]

LEMMA GotoAttempt ==
    ASSUME FriendshipInv, NEW a \in Attempts, NEW pc \in {"send lookup", "insert", "befriend", "delete", "unfriend"},
           NEW next \in {"idle", "insert", "delete"}, AttemptGoto(a, pc, next)
    PROVE  /\ attempt' \in [Attempts -> Attempt] /\ solo' = solo
           /\ attempt[a].pc = pc /\ attempt'[a].pc = next
           /\ next # "idle" => attempt'[a].request = attempt[a].request
           /\ solo => AttemptsIdle(a)
           /\ \A b \in Attempts \ {a} : attempt'[b] = attempt[b]
<1>1. attempt \in [Attempts -> Attempt]
    BY DEF FriendshipInv, FriendshipTypeOK
<1>2. [attempt[a] EXCEPT !.pc = next] \in Attempt
    BY <1>1 DEF Attempt
<1>3. attempt' = [attempt EXCEPT ![a] =
                     IF next = "idle" THEN NoAttempt ELSE [attempt[a] EXCEPT !.pc = next]]
      /\ solo' = solo /\ attempt[a].pc = pc
    BY DEF AttemptGoto
<1>4. attempt' \in [Attempts -> Attempt] /\ \A b \in Attempts \ {a} : attempt'[b] = attempt[b]
    BY <1>1, <1>2, <1>3, NoAttemptTyped
<1>5. attempt'[a].pc = next /\ (next # "idle" => attempt'[a].request = attempt[a].request)
    BY <1>1, <1>3, NoAttemptTyped DEF Attempt
<1>6. solo => AttemptsIdle(a)
    BY <1>3, <1>4 DEF FriendshipInv, PairsInOrder, Tries, AttemptsIdle
<1>7. QED
    BY <1>3, <1>4, <1>5, <1>6

LEMMA StartTry ==
    ASSUME FriendshipInv, NEW a \in Attempts, NEW to \in Attempt, StartAttempt(a, to)
    PROVE  /\ attempt' \in [Attempts -> Attempt] /\ attempt'[a] = to
           /\ solo' \in BOOLEAN /\ (solo' => solo /\ AttemptsIdle(a))
           /\ \A b \in Attempts \ {a} : attempt'[b] = attempt[b]
<1>1. attempt \in [Attempts -> Attempt] /\ solo \in BOOLEAN
    BY DEF FriendshipInv, FriendshipTypeOK
<1>2. attempt' = [attempt EXCEPT ![a] = to]
      /\ solo' = (solo /\ \A b \in Attempts \ {a} : attempt[b].pc = "idle")
    BY DEF StartAttempt
<1>3. attempt' \in [Attempts -> Attempt] /\ attempt'[a] = to /\ \A b \in Attempts \ {a} : attempt'[b] = attempt[b]
    BY <1>1, <1>2
<1>4. solo' \in BOOLEAN /\ (solo' => solo /\ AttemptsIdle(a))
    BY <1>2, <1>3 DEF AttemptsIdle, Tries
<1>5. QED
    BY <1>3, <1>4

\* A step of the only call that is in flight keeps the order of all, if it does
\* what the pairs need.
LEMMA OrderFrom ==
    ASSUME NEW a \in Attempts, PairsInOrder, AttemptsIdle(a),
           \A r, s \in friendRows' : {r.user, r.friend} = {s.user, s.friend} => r = s,
           \A r, s \in friendRequests' : {r.from, r.to} = {s.from, s.to} => r = s,
           PairOpen(a)', Befriended'
    PROVE  PairsInOrder'
<1>1. \A b \in Attempts \ {a} : ~Tries(b)' /\ PairOpen(b)'
    BY DEF AttemptsIdle, Tries, PairOpen
<1>2. QED
    BY <1>1 DEF PairsInOrder

LEMMA SendKept ==
    ASSUME FriendshipInv, NEW a \in Attempts, SendRequest(a)
    PROVE  FriendshipInv'
<1>1. PICK u, v \in People :
          /\ u # v /\ FriendRowsOf(u, v) = {}
          /\ StartAttempt(a, [NoAttempt EXCEPT !.pc = "send lookup", !.request = [from |-> u, to |-> v, n |-> 1]])
    BY DEF SendRequest
<1> DEFINE r == [from |-> u, to |-> v, n |-> 1]
           to == [NoAttempt EXCEPT !.pc = "send lookup", !.request = r]
<1>2. r \in FriendRequest /\ r.from = u /\ r.to = v
    BY FriendshipAssumption DEF FriendRequest
<1>3. to \in Attempt /\ to.pc = "send lookup" /\ to.request = r
    BY <1>2 DEF NoAttempt, Attempt
<1> HIDE DEF r, to
<1>4. StartAttempt(a, to) /\ UNCHANGED <<friendRows, friendRequests>>
    BY <1>1 DEF to, r, SendRequest
<1>5. /\ attempt' \in [Attempts -> Attempt] /\ attempt'[a] = to
      /\ solo' \in BOOLEAN /\ (solo' => solo /\ AttemptsIdle(a))
      /\ \A b \in Attempts \ {a} : attempt'[b] = attempt[b]
    BY <1>3, <1>4, StartTry
<1>6. FriendshipTypeOK'
    BY <1>4, <1>5 DEF FriendshipInv, FriendshipTypeOK
<1>7. PairsMeant'
    BY <1>1, <1>2, <1>3, <1>4, <1>5 DEF FriendshipInv, PairsMeant
<1>8. ASSUME solo' PROVE PairsInOrder'
  <2>1. PairsInOrder /\ AttemptsIdle(a) /\ attempt[a].pc = "idle"
    BY <1>4, <1>5, <1>8 DEF FriendshipInv, StartAttempt
  <2>2. PairOpen(a)'
    BY <1>1, <1>2, <1>3, <1>4, <1>5 DEF PairOpen, FriendRowsOf
  <2>3. Befriended'
    BY <1>4, <2>1 DEF PairsInOrder, Befriended, FriendRowsOf, AttemptsIdle, Tries
  <2>4. QED
    BY <1>4, <2>1, <2>2, <2>3, OrderFrom DEF PairsInOrder
<1>9. QED
    BY <1>6, <1>7, <1>8 DEF FriendshipInv

\* Accepting, declining and cancelling begin with a request that is there.
LEMMA AnswerKept ==
    ASSUME FriendshipInv, NEW a \in Attempts, NEW pc \in {"befriend", "delete"}, NEW r \in friendRequests,
           StartAttempt(a, [NoAttempt EXCEPT !.pc = pc, !.request = r]),
           UNCHANGED <<friendRows, friendRequests>>
    PROVE  FriendshipInv'
<1> DEFINE to == [NoAttempt EXCEPT !.pc = pc, !.request = r]
<1>1. r \in FriendRequest /\ r.from # r.to
    BY DEF FriendshipInv, FriendshipTypeOK, PairsMeant
<1>2. to \in Attempt /\ to.pc = pc /\ to.request = r
    BY <1>1 DEF NoAttempt, Attempt
<1> HIDE DEF to
<1>3. StartAttempt(a, to)
    BY DEF to
<1>4. /\ attempt' \in [Attempts -> Attempt] /\ attempt'[a] = to
      /\ solo' \in BOOLEAN /\ (solo' => solo /\ AttemptsIdle(a))
      /\ \A b \in Attempts \ {a} : attempt'[b] = attempt[b]
    BY <1>2, <1>3, StartTry
<1>5. FriendshipTypeOK'
    BY <1>4 DEF FriendshipInv, FriendshipTypeOK
<1>6. PairsMeant'
    BY <1>1, <1>2, <1>4 DEF FriendshipInv, PairsMeant
<1>7. ASSUME solo' PROVE PairsInOrder'
  <2>1. PairsInOrder /\ AttemptsIdle(a) /\ attempt[a].pc = "idle"
    BY <1>3, <1>4, <1>7 DEF FriendshipInv, StartAttempt
  <2>2. \A s \in friendRequests : FriendRowsOf(s.from, s.to) = {}
    BY <2>1 DEF PairsInOrder, Befriended, AttemptsIdle, Tries
  <2>3. PairOpen(a)'
    BY <1>2, <1>4, <2>2 DEF PairOpen, FriendRowsOf
  <2>4. Befriended'
    BY <2>2 DEF Befriended, FriendRowsOf
  <2>5. QED
    BY <2>1, <2>3, <2>4, OrderFrom DEF PairsInOrder
<1>8. QED
    BY <1>5, <1>6, <1>7 DEF FriendshipInv

LEMMA UnfriendKept ==
    ASSUME FriendshipInv, NEW a \in Attempts, Unfriend(a)
    PROVE  FriendshipInv'
<1>1. PICK r \in friendRows : StartAttempt(a, [NoAttempt EXCEPT !.pc = "unfriend", !.row = r])
    BY DEF Unfriend
<1> DEFINE to == [NoAttempt EXCEPT !.pc = "unfriend", !.row = r]
<1>2. to \in Attempt /\ to.pc = "unfriend"
    BY <1>1 DEF NoAttempt, Attempt, FriendshipInv, FriendshipTypeOK
<1> HIDE DEF to
<1>3. StartAttempt(a, to) /\ UNCHANGED <<friendRows, friendRequests>>
    BY <1>1 DEF to, Unfriend
<1>4. /\ attempt' \in [Attempts -> Attempt] /\ attempt'[a] = to
      /\ solo' \in BOOLEAN /\ (solo' => solo /\ AttemptsIdle(a))
      /\ \A b \in Attempts \ {a} : attempt'[b] = attempt[b]
    BY <1>2, <1>3, StartTry
<1>5. FriendshipTypeOK' /\ PairsMeant'
    BY <1>2, <1>3, <1>4 DEF FriendshipInv, FriendshipTypeOK, PairsMeant
<1>6. ASSUME solo' PROVE PairsInOrder'
  <2>1. PairsInOrder /\ AttemptsIdle(a) /\ attempt[a].pc = "idle"
    BY <1>3, <1>4, <1>6 DEF FriendshipInv, StartAttempt
  <2>2. PairOpen(a)'
    BY <1>2, <1>4 DEF PairOpen
  <2>3. Befriended'
    BY <1>3, <2>1 DEF PairsInOrder, Befriended, FriendRowsOf, AttemptsIdle, Tries
  <2>4. QED
    BY <1>3, <2>1, <2>2, <2>3, OrderFrom DEF PairsInOrder
<1>7. QED
    BY <1>5, <1>6 DEF FriendshipInv

LEMMA LookUpKept ==
    ASSUME FriendshipInv, NEW a \in Attempts, LookUpRequest(a)
    PROVE  FriendshipInv'
<1> DEFINE r == attempt[a].request
<1>1. PICK next \in {"idle", "insert"} :
          /\ AttemptGoto(a, "send lookup", next)
          /\ next = "insert" => RequestsBetween(r.from, r.to) = {}
    BY DEF LookUpRequest
<1>2. UNCHANGED <<friendRows, friendRequests>>
    BY DEF LookUpRequest
<1>3. /\ attempt' \in [Attempts -> Attempt] /\ solo' = solo
      /\ attempt[a].pc = "send lookup" /\ attempt'[a].pc = next
      /\ next # "idle" => attempt'[a].request = r
      /\ solo => AttemptsIdle(a)
      /\ \A b \in Attempts \ {a} : attempt'[b] = attempt[b]
    BY <1>1, GotoAttempt
<1>4. FriendshipTypeOK' /\ PairsMeant'
    BY <1>2, <1>3 DEF FriendshipInv, FriendshipTypeOK, PairsMeant
<1>5. ASSUME solo PROVE PairsInOrder'
  <2>1. PairsInOrder /\ AttemptsIdle(a)
    BY <1>3, <1>5 DEF FriendshipInv
  <2>2. PICK q : q = r
    OBVIOUS
  <2>4. next = "insert" => FriendRowsOf(q.from, q.to) = {} /\ RequestsBetween(q.from, q.to) = {}
    BY <1>1, <1>3, <2>1, <2>2 DEF PairsInOrder, PairOpen
  <2>5. next = "insert" => FriendRowsOf(q.from, q.to)' = {} /\ RequestsBetween(q.from, q.to)' = {}
    BY <1>2, <2>4 DEF FriendRowsOf, RequestsBetween
  <2>6. PairOpen(a)'
    <3>1. CASE next = "idle"
      BY <1>3, <3>1 DEF PairOpen
    <3>2. CASE next = "insert"
      <4>1. attempt'[a].request = q
        BY <1>3, <2>2, <3>2
      <4>2. QED
        BY <1>3, <2>5, <3>2, <4>1 DEF PairOpen
    <3>3. QED
      BY <3>1, <3>2
  <2>3. Befriended'
    BY <1>2, <1>3, <2>1 DEF PairsInOrder, Befriended, FriendRowsOf, AttemptsIdle, Tries
  <2>7. QED
    BY <1>2, <2>1, <2>6, <2>3, OrderFrom DEF PairsInOrder
<1>6. QED
    BY <1>3, <1>4, <1>5 DEF FriendshipInv

LEMMA InsertRequestKept ==
    ASSUME FriendshipInv, NEW a \in Attempts, InsertRequest(a)
    PROVE  FriendshipInv'
<1> DEFINE r == attempt[a].request
<1>1. AttemptGoto(a, "insert", "idle") /\ UNCHANGED friendRows
    BY DEF InsertRequest
<1>2. PICK n \in 1 .. MaxCopies : friendRequests' = friendRequests \cup {[r EXCEPT !.n = n]}
    BY DEF InsertRequest
<1>3. /\ attempt' \in [Attempts -> Attempt] /\ solo' = solo
      /\ attempt[a].pc = "insert" /\ attempt'[a].pc = "idle"
      /\ solo => AttemptsIdle(a)
      /\ \A b \in Attempts \ {a} : attempt'[b] = attempt[b]
    BY <1>1, GotoAttempt
<1> DEFINE new == [r EXCEPT !.n = n]
<1>4. r \in FriendRequest /\ r.from # r.to
    BY <1>3 DEF FriendshipInv, PairsMeant
<1>5. new \in FriendRequest /\ new.from = r.from /\ new.to = r.to
    BY <1>4 DEF FriendRequest
<1> HIDE DEF new
<1>6. friendRequests' = friendRequests \cup {new}
    BY <1>2 DEF new
<1>7. FriendshipTypeOK' /\ PairsMeant'
    BY <1>1, <1>3, <1>4, <1>5, <1>6 DEF FriendshipInv, FriendshipTypeOK, PairsMeant
<1>8. ASSUME solo PROVE PairsInOrder'
  <2>1. PairsInOrder /\ AttemptsIdle(a)
    BY <1>3, <1>8 DEF FriendshipInv
  <2>2. FriendRowsOf(r.from, r.to) = {} /\ RequestsBetween(r.from, r.to) = {}
    BY <1>3, <2>1 DEF PairsInOrder, PairOpen
  <2>3. \A s \in friendRequests : {s.from, s.to} # {new.from, new.to}
    BY <1>5, <2>2 DEF RequestsBetween
  <2>4. \A s, t \in friendRequests' : {s.from, s.to} = {t.from, t.to} => s = t
    BY <1>6, <2>1, <2>3 DEF PairsInOrder
  <2>5. PairOpen(a)'
    BY <1>3 DEF PairOpen
  <2>6. Befriended'
    BY SMTT(30), <1>1, <1>3, <1>5, <1>6, <2>1, <2>2
       DEF PairsInOrder, Befriended, FriendRowsOf, AttemptsIdle, Tries
  <2>7. QED
    BY <1>1, <2>1, <2>4, <2>5, <2>6, OrderFrom DEF PairsInOrder
<1>9. QED
    BY <1>3, <1>7, <1>8 DEF FriendshipInv

LEMMA BefriendKept ==
    ASSUME FriendshipInv, NEW a \in Attempts, CreateFriendship(a)
    PROVE  FriendshipInv'
<1> DEFINE r == attempt[a].request
           taken == \E s \in friendRows : s.user = r.to /\ s.friend = r.from
<1>1. PICK next \in {"idle", "delete"} : AttemptGoto(a, "befriend", next) /\ (next = "idle" <=> taken)
    BY DEF CreateFriendship
<1>2. /\ taken => UNCHANGED friendRows
      /\ ~taken => \E n \in 1 .. MaxCopies :
                       friendRows' = friendRows \cup {[user |-> r.to, friend |-> r.from, n |-> n]}
      /\ UNCHANGED friendRequests
    BY DEF CreateFriendship
<1>3. /\ attempt' \in [Attempts -> Attempt] /\ solo' = solo
      /\ attempt[a].pc = "befriend" /\ attempt'[a].pc = next
      /\ next # "idle" => attempt'[a].request = r
      /\ solo => AttemptsIdle(a)
      /\ \A b \in Attempts \ {a} : attempt'[b] = attempt[b]
    BY <1>1, GotoAttempt
<1>4. r \in FriendRequest /\ r.from # r.to
    BY <1>3 DEF FriendshipInv, PairsMeant
<1> HIDE DEF taken
<1>5. CASE taken
  <2>1. FriendshipTypeOK' /\ PairsMeant'
    BY <1>1, <1>2, <1>3, <1>5 DEF FriendshipInv, FriendshipTypeOK, PairsMeant
  <2>2. ASSUME solo PROVE FALSE
    <3>1. FriendRowsOf(r.from, r.to) = {}
      BY <1>3, <2>2 DEF FriendshipInv, PairsInOrder, PairOpen
    <3>2. PICK s \in friendRows : s.user = r.to /\ s.friend = r.from
      BY <1>5 DEF taken
    <3>3. {s.user, s.friend} = {r.from, r.to}
      BY <3>2
    <3>4. QED
      BY <3>1, <3>2, <3>3 DEF FriendRowsOf
  <2>3. QED
    BY <1>3, <2>1, <2>2 DEF FriendshipInv
<1>6. CASE ~taken
  <2>1. PICK n \in 1 .. MaxCopies :
            friendRows' = friendRows \cup {[user |-> r.to, friend |-> r.from, n |-> n]}
    BY <1>2, <1>6
  <2> DEFINE new == [user |-> r.to, friend |-> r.from, n |-> n]
  <2>2. new \in FriendRow /\ new.user = r.to /\ new.friend = r.from
    BY <1>4 DEF FriendRow, FriendRequest
  <2> HIDE DEF new
  <2>3. friendRows' = friendRows \cup {new} /\ next = "delete"
    BY <1>1, <1>6, <2>1 DEF new
  <2>4. FriendshipTypeOK'
    BY <1>2, <1>3, <2>2, <2>3 DEF FriendshipInv, FriendshipTypeOK
  <2>5. PairsMeant'
    BY <1>2, <1>3, <1>4, <2>2, <2>3 DEF FriendshipInv, PairsMeant
  <2>6. ASSUME solo PROVE PairsInOrder'
    <3>1. PairsInOrder /\ AttemptsIdle(a)
      BY <1>3, <2>6 DEF FriendshipInv
    <3>2. FriendRowsOf(r.from, r.to) = {} /\ r \in friendRequests
      BY <1>3, <3>1 DEF PairsInOrder, PairOpen
    <3>3. \A s \in friendRows : {s.user, s.friend} # {new.user, new.friend}
      BY <2>2, <3>2 DEF FriendRowsOf
    <3>4. \A s, t \in friendRows' : {s.user, s.friend} = {t.user, t.friend} => s = t
      BY <2>3, <3>1, <3>3 DEF PairsInOrder
    <3>5. PairOpen(a)'
      BY <1>3, <2>3 DEF PairOpen
    <3>6. ASSUME NEW s \in friendRequests, s # r PROVE FriendRowsOf(s.from, s.to)' = {}
      <4>1. {s.from, s.to} # {r.from, r.to}
        BY <3>1, <3>2, <3>6 DEF PairsInOrder
      <4>2. {new.user, new.friend} # {s.from, s.to}
        BY <2>2, <4>1
      <4>3. FriendRowsOf(s.from, s.to) = {}
        BY <1>3, <3>1, <3>6 DEF PairsInOrder, Befriended, AttemptsIdle, Tries
      <4>4. QED
        BY <2>3, <4>2, <4>3 DEF FriendRowsOf
    <3>7. Befriended'
      BY <1>2, <1>3, <2>3, <3>6 DEF Befriended
    <3>8. QED
      BY <1>2, <3>1, <3>4, <3>5, <3>7, OrderFrom DEF PairsInOrder
  <2>7. QED
    BY <1>3, <2>4, <2>5, <2>6 DEF FriendshipInv
<1>7. QED
    BY <1>5, <1>6

LEMMA DeleteRequestKept ==
    ASSUME FriendshipInv, NEW a \in Attempts, DeleteRequest(a)
    PROVE  FriendshipInv'
<1>1. AttemptGoto(a, "delete", "idle") /\ UNCHANGED friendRows
      /\ friendRequests' = friendRequests \ {attempt[a].request}
    BY DEF DeleteRequest
<1>2. /\ attempt' \in [Attempts -> Attempt] /\ solo' = solo
      /\ attempt[a].pc = "delete" /\ attempt'[a].pc = "idle"
      /\ solo => AttemptsIdle(a)
      /\ \A b \in Attempts \ {a} : attempt'[b] = attempt[b]
    BY <1>1, GotoAttempt
<1>3. FriendshipTypeOK' /\ PairsMeant'
    BY <1>1, <1>2 DEF FriendshipInv, FriendshipTypeOK, PairsMeant
<1>4. ASSUME solo PROVE PairsInOrder'
  <2>1. PairsInOrder /\ AttemptsIdle(a)
    BY <1>2, <1>4 DEF FriendshipInv
  <2>2. PairOpen(a)'
    BY <1>2 DEF PairOpen
  <2>3. Befriended'
    BY <1>1, <2>1 DEF PairsInOrder, Befriended, FriendRowsOf, AttemptsIdle, Tries
  <2>4. QED
    BY <1>1, <2>1, <2>2, <2>3, OrderFrom DEF PairsInOrder
<1>5. QED
    BY <1>2, <1>3, <1>4 DEF FriendshipInv

LEMMA RemoveFriendKept ==
    ASSUME FriendshipInv, NEW a \in Attempts, RemoveFriend(a)
    PROVE  FriendshipInv'
<1>1. AttemptGoto(a, "unfriend", "idle") /\ UNCHANGED friendRequests
      /\ friendRows' = friendRows \ {attempt[a].row}
    BY DEF RemoveFriend
<1>2. /\ attempt' \in [Attempts -> Attempt] /\ solo' = solo
      /\ attempt[a].pc = "unfriend" /\ attempt'[a].pc = "idle"
      /\ solo => AttemptsIdle(a)
      /\ \A b \in Attempts \ {a} : attempt'[b] = attempt[b]
    BY <1>1, GotoAttempt
<1>3. FriendshipTypeOK' /\ PairsMeant'
    BY <1>1, <1>2 DEF FriendshipInv, FriendshipTypeOK, PairsMeant
<1>4. ASSUME solo PROVE PairsInOrder'
  <2>1. PairsInOrder /\ AttemptsIdle(a)
    BY <1>2, <1>4 DEF FriendshipInv
  <2>2. PairOpen(a)'
    BY <1>2 DEF PairOpen
  <2>3. Befriended'
    BY <1>1, <1>2, <2>1 DEF PairsInOrder, Befriended, FriendRowsOf, AttemptsIdle, Tries
  <2>4. QED
    BY <1>1, <2>1, <2>2, <2>3, OrderFrom DEF PairsInOrder
<1>5. QED
    BY <1>2, <1>3, <1>4 DEF FriendshipInv

LEMMA AttemptDiesKept ==
    ASSUME FriendshipInv, NEW a \in Attempts, AttemptDies(a)
    PROVE  FriendshipInv'
<1>1. attempt' = [attempt EXCEPT ![a] = NoAttempt] /\ solo' = FALSE
      /\ UNCHANGED <<friendRows, friendRequests>>
    BY DEF AttemptDies
<1>2. attempt' \in [Attempts -> Attempt] /\ attempt'[a].pc = "idle"
      /\ \A b \in Attempts \ {a} : attempt'[b] = attempt[b]
    BY <1>1, NoAttemptTyped DEF FriendshipInv, FriendshipTypeOK
<1>3. QED
    BY <1>1, <1>2 DEF FriendshipInv, FriendshipTypeOK, PairsMeant

LEMMA FriendshipKept ==
    ASSUME FriendshipInv, [FriendshipNext]_friendshipVars
    PROVE  FriendshipInv'
<1>1. CASE UNCHANGED friendshipVars
    BY ZenonT(40), <1>1 DEF friendshipVars, FriendshipInv, FriendshipTypeOK, PairsMeant, PairsInOrder, Tries,
                PairOpen, Befriended, FriendRowsOf, RequestsBetween
<1>2. ASSUME NEW a \in Attempts,
             RequestCalls(a) \/ Unfriend(a) \/ FriendshipSteps(a) \/ AttemptDies(a)
      PROVE  FriendshipInv'
  <2>1. CASE SendRequest(a)
    BY <2>1, SendKept
  <2>2. CASE AcceptRequest(a)
    BY <2>2, AnswerKept DEF AcceptRequest
  <2>3. CASE DeclineRequest(a)
    BY <2>3, AnswerKept DEF DeclineRequest
  <2>4. CASE CancelRequest(a)
    BY <2>4, AnswerKept DEF CancelRequest
  <2>5. CASE Unfriend(a)
    BY <2>5, UnfriendKept
  <2>6. CASE FriendshipSteps(a)
    BY <2>6, LookUpKept, InsertRequestKept, BefriendKept, DeleteRequestKept, RemoveFriendKept
       DEF FriendshipSteps
  <2>7. CASE AttemptDies(a)
    BY <2>7, AttemptDiesKept
  <2>8. QED
    BY <1>2, <2>1, <2>2, <2>3, <2>4, <2>5, <2>6, <2>7 DEF RequestCalls
<1>3. QED
    BY <1>1, <1>2 DEF FriendshipNext

LEMMA FriendshipInitially == FriendshipInit => FriendshipInv
    BY NoAttemptTyped DEF FriendshipInit, FriendshipInv, FriendshipTypeOK, PairsMeant, PairsInOrder,
                          Tries, PairOpen, Befriended, FriendRowsOf, RequestsBetween

\* Every interleaving and every crash keeps the pairs of a row and of a request
\* apart, and as long as no two calls overlapped their rows and requests in order.
THEOREM FriendshipInductive == FriendshipSpec => []FriendshipInv
    BY FriendshipInitially, FriendshipKept, PTL DEF FriendshipSpec

\* The tables of friends and requests, and what a call in flight holds of them,
\* keep their shape.
THEOREM FriendshipTypes == FriendshipSpec => []FriendshipTypeOK
<1>1. FriendshipInv => FriendshipTypeOK
    BY DEF FriendshipInv
<1>2. QED
    BY <1>1, FriendshipInductive, PTL

\* Calls that do not overlap keep one row to a friendship, which the unique index
\* does not, so that unfriend ends it (createFriendship, validateBeforeCreate).
THEOREM FriendshipIsOne == FriendshipSpec => []OneFriendship
<1>1. FriendshipInv => OneFriendship
    BY DEF FriendshipInv, PairsInOrder, OneFriendship
<1>2. QED
    BY <1>1, FriendshipInductive, PTL

-----------------------------------------------------------------------------
(* Friendship: what users are shown *)

\* Sets that a function pairs off are of one size.
LEMMA PairedOff ==
    ASSUME NEW S, NEW T, NEW f \in [S -> T],
           \A x, y \in S : f[x] = f[y] => x = y,
           \A y \in T : \E x \in S : f[x] = y,
           IsFiniteSet(S) \/ IsFiniteSet(T)
    PROVE  IsFiniteSet(S) /\ IsFiniteSet(T) /\ Cardinality(S) = Cardinality(T)
<1>1. f \in Injection(S, T) /\ f \in Surjection(S, T)
    BY DEF Injection, Surjection, IsInjective
<1>2. CASE IsFiniteSet(S)
    BY <1>1, <1>2, FS_Surjection
<1>3. CASE IsFiniteSet(T)
    BY <1>1, <1>3, FS_Injection
<1>4. QED
    BY <1>2, <1>3

\* A friend of u is the other user of a row of both.
LEMMA FriendIsPair ==
    ASSUME FriendshipTypeOK, NEW u \in People
    PROVE  /\ \A v : v \in FriendsOf(u) <=> FriendRowsOf(u, v) # {}
           /\ FriendsOf(u) \subseteq People /\ IsFiniteSet(FriendsOf(u))
<1>1. \A r \in friendRows : r.user \in People /\ r.friend \in People
    BY DEF FriendshipTypeOK, FriendRow
<1>2. \A v : v \in FriendsOf(u) <=>
          \E r \in friendRows : (r.user = u /\ r.friend = v) \/ (r.friend = u /\ r.user = v)
    BY DEF FriendsOf
<1>3. \A v : FriendRowsOf(u, v) # {} <=>
          \E r \in friendRows : (r.user = u /\ r.friend = v) \/ (r.friend = u /\ r.user = v)
    BY DEF FriendRowsOf
<1>4. FriendsOf(u) \subseteq People
    BY <1>1, <1>2
<1>5. QED
    BY <1>2, <1>3, <1>4, FriendshipAssumption, FS_Subset

RowsWith(u) == {r \in friendRows : u \in {r.user, r.friend}}

LEMMA CountIsFriends ==
    ASSUME FriendshipInv, solo, NEW u \in People
    PROVE  /\ IsFiniteSet(RowsWith(u))
           /\ FriendsCount(u) = Cardinality(FriendsOf(u))
           /\ FriendsCount(u) = Cardinality(FriendsWithMutuals(u))
<1> DEFINE other == [r \in RowsWith(u) |-> IF r.user = u THEN r.friend ELSE r.user]
<1>1. /\ \A r \in friendRows : r.user # r.friend
      /\ \A r, s \in friendRows : {r.user, r.friend} = {s.user, s.friend} => r = s
    BY DEF FriendshipInv, PairsMeant, PairsInOrder
<1>2. \A r \in RowsWith(u) : r \in friendRows /\ r \in FriendRowsOf(u, other[r])
    BY DEF RowsWith, FriendRowsOf
<1>3. other \in [RowsWith(u) -> FriendsOf(u)]
    BY <1>2, FriendIsPair DEF FriendshipInv
<1>4. \A r, s \in RowsWith(u) : other[r] = other[s] => r = s
    BY <1>1, <1>2 DEF FriendRowsOf
<1>5. \A v, r : r \in FriendRowsOf(u, v) => r \in RowsWith(u) /\ other[r] = v
    BY <1>1 DEF FriendRowsOf, RowsWith
<1>6. ASSUME NEW v \in FriendsOf(u) PROVE \E r \in RowsWith(u) : other[r] = v
  <2>1. PICK r : r \in FriendRowsOf(u, v)
    BY FriendIsPair DEF FriendshipInv
  <2>2. r \in RowsWith(u) /\ other[r] = v
    BY <1>5, <2>1
  <2>3. QED
    BY <2>2
<1> HIDE DEF other
<1>7. IsFiniteSet(RowsWith(u)) /\ Cardinality(RowsWith(u)) = Cardinality(FriendsOf(u))
    BY <1>3, <1>4, <1>6, PairedOff, FriendIsPair DEF FriendshipInv
<1> DEFINE entry(r) == [row |-> r, friend |-> other[r], mutuals |-> MutualFriends(u, other[r])]
           entries == [r \in RowsWith(u) |-> entry(r)]
<1>8. \A r \in RowsWith(u) : entry(r) \in FriendsWithMutuals(u)
    BY <1>2, <1>3 DEF FriendsWithMutuals
<1>9. \A e \in FriendsWithMutuals(u) : \E r \in RowsWith(u) : entry(r) = e
    BY <1>5 DEF FriendsWithMutuals
<1>10. \A r, s \in RowsWith(u) : entry(r) = entry(s) => r = s
    OBVIOUS
<1> HIDE DEF entry
<1>11. entries \in [RowsWith(u) -> FriendsWithMutuals(u)]
    BY <1>8
<1>12. Cardinality(RowsWith(u)) = Cardinality(FriendsWithMutuals(u))
  <2>1. \A r, s \in RowsWith(u) : entries[r] = entries[s] => r = s
    BY <1>10
  <2>2. \A e \in FriendsWithMutuals(u) : \E r \in RowsWith(u) : entries[r] = e
    BY <1>9
  <2> HIDE DEF entries
  <2>3. QED
    BY <1>7, <1>11, <2>1, <2>2, PairedOff
<1>13. QED
    BY <1>7, <1>12 DEF FriendsCount, RowsWith

\* What u is told of v, from the rows and requests of the two.
LEMMA ToldIs ==
    ASSUME FriendshipInv, solo, NEW u \in People, NEW v \in People, u # v
    PROVE  /\ FriendshipStatus(u, v) = {Told(u, v)}
           /\ Told(u, v) = "friends" <=> FriendRowsOf(u, v) # {}
           /\ Told(u, v) = "sent" <=>
                 FriendRowsOf(u, v) = {} /\ \E r \in friendRequests : r.from = u /\ r.to = v
           /\ Told(u, v) = "received" <=>
                 FriendRowsOf(u, v) = {} /\ \E r \in friendRequests : r.from = v /\ r.to = u
           /\ Told(u, v) \in {"friends", "none", "sent", "received"}
<1>1. \A r, s \in RequestsBetween(u, v) : r = s
    BY DEF FriendshipInv, PairsInOrder, RequestsBetween
<1>2. \A r : r \in RequestsBetween(u, v) <=>
          r \in friendRequests /\ ((r.from = u /\ r.to = v) \/ (r.from = v /\ r.to = u))
    BY DEF RequestsBetween
<1>3. \A x : FriendshipStatus(u, v) = {x} => Told(u, v) = x
    BY DEF Told
<1>4. CASE FriendRowsOf(u, v) # {}
  <2>1. FriendshipStatus(u, v) = {"friends"}
    BY <1>4 DEF FriendshipStatus
  <2>2. QED
    BY <1>3, <1>4, <2>1
<1>5. CASE FriendRowsOf(u, v) = {} /\ RequestsBetween(u, v) = {}
  <2>1. FriendshipStatus(u, v) = {"none"}
    BY <1>5 DEF FriendshipStatus
  <2>2. QED
    BY <1>2, <1>3, <1>5, <2>1
<1>6. CASE FriendRowsOf(u, v) = {} /\ RequestsBetween(u, v) # {}
  <2>1. PICK r : r \in RequestsBetween(u, v)
    BY <1>6
  <2>2. RequestsBetween(u, v) = {r}
    BY <1>1, <2>1
  <2>3. FriendshipStatus(u, v) = {IF r.from = u THEN "sent" ELSE "received"}
    BY <1>6, <2>2 DEF FriendshipStatus
  <2>4. Told(u, v) = IF r.from = u THEN "sent" ELSE "received"
    BY <1>3, <2>3
  <2>5. QED
    BY <1>2, <1>6, <2>2, <2>3, <2>4
<1>7. QED
    BY <1>4, <1>5, <1>6

LEMMA PairEitherWay ==
    ASSUME NEW u, NEW v
    PROVE  FriendRowsOf(u, v) = FriendRowsOf(v, u)
    BY DEF FriendRowsOf

LEMMA ToldAlike ==
    ASSUME FriendshipInv, solo, NEW u \in People, NEW v \in People, u # v
    PROVE  /\ Cardinality(FriendshipStatus(u, v)) = 1
           /\ Told(v, u) = Mirrored(Told(u, v))
<1>1. FriendshipStatus(u, v) = {Told(u, v)}
    BY ToldIs
<1>2. Cardinality(FriendshipStatus(u, v)) = 1
    BY <1>1, FS_Singleton
<1>3. CASE FriendRowsOf(u, v) # {}
  <2>1. FriendRowsOf(v, u) # {}
    BY <1>3, PairEitherWay
  <2>2. Told(u, v) = "friends" /\ Told(v, u) = "friends"
    BY <1>3, <2>1, ToldIs
  <2>3. QED
    BY <1>2, <2>2 DEF Mirrored
<1>4. CASE FriendRowsOf(u, v) = {}
  <2>1. FriendRowsOf(v, u) = {}
    BY <1>4, PairEitherWay
  <2>2. /\ Told(v, u) = "sent" <=> Told(u, v) = "received"
        /\ Told(u, v) = "sent" <=> Told(v, u) = "received"
        /\ Told(u, v) # "friends" /\ Told(v, u) # "friends"
    BY <1>4, <2>1, ToldIs
  <2>3. Told(u, v) \in {"friends", "none", "sent", "received"} /\ Told(v, u) \in {"friends", "none", "sent", "received"}
    BY ToldIs
  <2>4. QED
    BY <1>2, <2>2, <2>3 DEF Mirrored
<1>5. QED
    BY <1>2, <1>3, <1>4

LEMMA MutualsAreFewer ==
    ASSUME FriendshipInv, solo, NEW u \in People, NEW v \in People, u # v
    PROVE  MutualFriendsCount(u, v) <= FriendsCount(v) - Cardinality(FriendRowsOf(u, v))
<1>1. FriendsCount(v) = Cardinality(FriendsOf(v)) /\ IsFiniteSet(FriendsOf(v))
    BY CountIsFriends, FriendIsPair DEF FriendshipInv
<1>2. u \notin FriendsOf(u)
    BY DEF FriendshipInv, PairsMeant, FriendsOf
<1>3. \A r, s \in FriendRowsOf(u, v) : r = s
    BY DEF FriendshipInv, PairsInOrder, FriendRowsOf
<1>4. Cardinality(FriendsOf(v)) \in Nat
    BY <1>1, FS_CardinalityType
<1>5. CASE FriendRowsOf(u, v) = {}
  <2>1. Cardinality(FriendRowsOf(u, v)) = 0
    BY <1>5, FS_EmptySet
  <2>2. MutualFriends(u, v) \in SUBSET FriendsOf(v)
    BY DEF MutualFriends
  <2>3. Cardinality(MutualFriends(u, v)) <= Cardinality(FriendsOf(v))
    BY <1>1, <2>2, FS_Subset
  <2>4. QED
    BY <1>1, <1>4, <2>1, <2>3 DEF MutualFriendsCount
<1>6. CASE FriendRowsOf(u, v) # {}
  <2>1. Cardinality(FriendRowsOf(u, v)) = 1
    BY <1>3, <1>6, FS_Singleton
  <2>2. u \in FriendsOf(v)
    BY <1>6, FriendIsPair, PairEitherWay DEF FriendshipInv
  <2>3. IsFiniteSet(FriendsOf(v) \ {u}) /\ Cardinality(FriendsOf(v) \ {u}) = Cardinality(FriendsOf(v)) - 1
    BY <1>1, <2>2, FS_RemoveElement
  <2>4. MutualFriends(u, v) \in SUBSET (FriendsOf(v) \ {u})
    BY <1>2 DEF MutualFriends
  <2>5. Cardinality(MutualFriends(u, v)) <= Cardinality(FriendsOf(v) \ {u})
    BY <2>3, <2>4, FS_Subset
  <2>6. QED
    BY <1>1, <1>4, <2>1, <2>3, <2>5 DEF MutualFriendsCount
<1>7. QED
    BY <1>5, <1>6

\* Once the calls are done there is no request between friends, so that the
\* requests of a user are the pairs that are told of one.
LEMMA RequestsAreTold ==
    ASSUME FriendshipInv, solo, NEW u \in People, \A a \in Attempts : attempt[a].pc = "idle"
    PROVE  /\ PendingRequestsCount(u) = Cardinality({v \in People \ {u} : Told(u, v) = "received"})
           /\ {r.to : r \in SentRequests(u)} = {v \in People \ {u} : Told(u, v) = "sent"}
<1>1. /\ \A r \in friendRequests : /\ r.from \in People /\ r.to \in People /\ r.from # r.to
                                   /\ FriendRowsOf(r.from, r.to) = {}
      /\ \A r, s \in friendRequests : {r.from, r.to} = {s.from, s.to} => r = s
    BY DEF FriendshipInv, FriendshipTypeOK, FriendRequest, PairsMeant, PairsInOrder, Befriended
<1> DEFINE senders == {v \in People \ {u} : Told(u, v) = "received"}
           sender == [r \in ReceivedRequests(u) |-> r.from]
<1>2. \A r \in ReceivedRequests(u) : r \in friendRequests /\ r.to = u
    BY DEF ReceivedRequests
<1>3. sender \in [ReceivedRequests(u) -> senders]
  <2>1. ASSUME NEW r \in ReceivedRequests(u) PROVE r.from \in senders
    <3>1. r.from \in People /\ r.from # u /\ r \in friendRequests /\ r.to = u
      BY <1>1, <1>2
    <3>2. FriendRowsOf(u, r.from) = {}
      BY <1>1, <3>1, PairEitherWay
    <3>3. Told(u, r.from) = "received"
      BY <3>1, <3>2, ToldIs
    <3>4. QED
      BY <3>1, <3>3
  <2> HIDE DEF senders
  <2>2. QED
    BY <2>1
<1>4. \A r, s \in ReceivedRequests(u) : sender[r] = sender[s] => r = s
    BY <1>1, <1>2
<1>5. \A v \in senders : \E r \in ReceivedRequests(u) : sender[r] = v
    BY ToldIs DEF ReceivedRequests
<1>6. IsFiniteSet(senders)
    BY FriendshipAssumption, FS_Subset
<1> HIDE DEF sender, senders
<1>7. Cardinality(ReceivedRequests(u)) = Cardinality(senders)
    BY <1>3, <1>4, <1>5, <1>6, PairedOff
<1>8. ASSUME NEW v
      PROVE  v \in {r.to : r \in SentRequests(u)} <=> v \in {x \in People \ {u} : Told(u, x) = "sent"}
  <2>1. v \in {r.to : r \in SentRequests(u)} <=> \E r \in friendRequests : r.from = u /\ r.to = v
    BY DEF SentRequests
  <2>2. ASSUME NEW r \in friendRequests, r.from = u, r.to = v
        PROVE  v \in People /\ v # u /\ FriendRowsOf(u, v) = {}
    BY <1>1, <2>2
  <2>3. QED
    BY <2>1, <2>2, ToldIs
<1>9. {r.to : r \in SentRequests(u)} = {v \in People \ {u} : Told(u, v) = "sent"}
    BY <1>8
<1>10. QED
    BY <1>7, <1>9 DEF PendingRequestsCount, senders

\* The counters, the lists and what the two users of a pair are told of each other
\* agree as long as calls do not overlap (getFriendsCount, getAllFriendsWithMutuals,
\* getFriendshipStatus, getMutualFriendsCount, getReceivedRequestsCount).
THEOREM ShownAlike == FriendshipSpec => []StatusAgrees
<1>1. ASSUME FriendshipInv, solo, NEW u \in People
      PROVE  \A e \in FriendsWithMutuals(u) : {u, e.friend} \cap e.mutuals = {}
  <2>1. \A v : v \notin FriendsOf(v)
    BY <1>1 DEF FriendshipInv, PairsMeant, FriendsOf
  <2>2. ASSUME NEW e \in FriendsWithMutuals(u)
        PROVE  \E f : e.friend = f /\ e.mutuals = FriendsOf(u) \cap FriendsOf(f)
    BY DEF FriendsWithMutuals, MutualFriends
  <2>3. QED
    BY <2>1, <2>2
<1>2. FriendshipInv => StatusAgrees
    BY <1>1, CountIsFriends, ToldAlike, MutualsAreFewer, RequestsAreTold DEF StatusAgrees
<1>3. QED
    BY <1>2, FriendshipInductive, PTL

-----------------------------------------------------------------------------
(* Both side by side *)

(***************************************************************************)
(* What friends do never makes a step of the membership of a group, nor    *)
(* the other way round (UserFriendService and FriendRequestService write   *)
(* none of the tables of GroupInvitationService and UserGroupService), so  *)
(* what is proved of each holds of the two side by side.                   *)
(***************************************************************************)
THEOREM SidesImplemented == Spec => MembershipSpec /\ FriendshipSpec
<1>1. Init => MembershipInit /\ FriendshipInit
    BY DEF Init
<1>2. [Next]_vars => [MembershipNext]_membershipVars
    BY DEF Next, vars
<1>3. [Next]_vars => [FriendshipNext]_friendshipVars
    BY DEF Next, vars
<1>4. QED
    BY <1>1, <1>2, <1>3, PTL DEF Spec, MembershipSpec, FriendshipSpec

(***************************************************************************)
(* The tables and the calls in flight of both keep the shapes of their     *)
(* columns.                                                                *)
(***************************************************************************)
THEOREM CommunityTypes == Spec => []TypeOK
<1>1. MembershipTypeOK /\ FriendshipTypeOK => TypeOK
    BY DEF TypeOK
<1>2. QED
    BY <1>1, SidesImplemented, TypeCorrect, FriendshipTypes, PTL

(***************************************************************************)
(* Side by side, under the conditions each of them states: the limit is    *)
(* passed by fewer members than there are calls at once; while calls do    *)
(* not overlap, an accepted invitation is one membership, one still        *)
(* pending is no member's (acceptInvitation), and two people are friends   *)
(* by one row that every function reports alike (acceptFriendRequest).     *)
(***************************************************************************)
THEOREM CommunitySafe ==
    Spec => []( /\ AcceptedWithinLimit /\ AcceptedOnce /\ PendingOrMember
                /\ OneFriendship /\ StatusAgrees )
BY SidesImplemented, LimitPassedByLess, AcceptedJustOnce, NoAnsweredInvitation,
   FriendshipIsOne, ShownAlike, PTL
=============================================================================
