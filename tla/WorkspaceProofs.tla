-------------------------- MODULE WorkspaceProofs ---------------------------
(***************************************************************************)
(* The parts that MCWorkspace puts into one state space, seen from each of *)
(* them: whatever the others do, a part behaves as its own specification   *)
(* says, since they share no variable.  So what is proved of a part by     *)
(* itself (ConversationProofs, RecordsProofs, PeopleProofs) holds of it in *)
(* the whole.                                                              *)
(***************************************************************************)
EXTENDS MCWorkspace, ConversationProofs, RecordsProofs, PeopleProofs

-----------------------------------------------------------------------------
(* A step of the whole is a step of each part or leaves it alone *)

LEMMA NotificationPart == Spec => NotificationSpec
<1>1. Init => NotificationInit
    BY DEF Init
<1>2. [Next]_vars => [NotificationNext]_notificationVars
    BY DEF Next, Others, vars
<1>3. QED
    BY <1>1, <1>2, PTL DEF Spec, NotificationSpec

LEMMA MessagesPart == Spec => MessagesSpec
<1>1. Init => MessagesInit
    BY DEF Init
<1>2. [Next]_vars => [MessagesNext]_messagesVars
    BY DEF Next, Others, vars
<1>3. QED
    BY <1>1, <1>2, PTL DEF Spec, MessagesSpec

LEMMA CodeRunPart == Spec => CodeRunSpec
<1>1. Init => CodeRunInit
    BY DEF Init
<1>2. [Next]_vars => [CodeRunNext]_codeRunVars
    BY DEF Next, Others, vars
<1>3. QED
    BY <1>1, <1>2, PTL DEF Spec, CodeRunSpec

LEMMA PresencePart == Spec => PresenceSpec
<1>1. Init => PresenceInit
    BY DEF Init
<1>2. [Next]_vars => [PresenceNext]_presenceVars
    BY DEF Next, Others, vars
<1>3. QED
    BY <1>1, <1>2, PTL DEF Spec, PresenceSpec

LEMMA UserAccountsPart == Spec => UserAccountsSpec
<1>1. Init => UserAccountsInit
    BY DEF Init
<1>2. [Next]_vars => [UserAccountsNext]_accountVars
    BY DEF Next, Others, vars
<1>3. QED
    BY <1>1, <1>2, PTL DEF Spec, UserAccountsSpec

LEMMA CataloguePart == Spec => CatalogueSpec
<1>1. Init => CatalogueInit
    BY DEF Init
<1>2. [Next]_vars => [CatalogueNext]_catalogueVars
    BY DEF Next, Others, vars
<1>3. QED
    BY <1>1, <1>2, PTL DEF Spec, CatalogueSpec

LEMMA BoardPart == Spec => BoardSpec
<1>1. Init => BoardInit
    BY DEF Init
<1>2. [Next]_vars => [BoardNext]_boardVars
    BY DEF Next, Others, vars
<1>3. QED
    BY <1>1, <1>2, PTL DEF Spec, BoardSpec

LEMMA AnalyticsPart == Spec => AnalyticsSpec
<1>1. Init => AnalyticsInit
    BY DEF Init
<1>2. [Next]_vars => [AnalyticsNext]_analyticsVars
    BY DEF Next, Others, vars
<1>3. QED
    BY <1>1, <1>2, PTL DEF Spec, AnalyticsSpec

LEMMA SeederPart == Spec => SeederSpec
<1>1. Init => SeederInit
    BY DEF Init
<1>2. [Next]_vars => [SeederNext]_seederVars
    BY DEF Next, Others, vars
<1>3. QED
    BY <1>1, <1>2, PTL DEF Spec, SeederSpec

LEMMA LanguagesPart == Spec => LanguagesSpec
<1>1. Init => LanguagesInit
    BY DEF Init
<1>2. [Next]_vars => [LanguagesNext]_languageVars
    BY DEF Next, Others, vars
<1>3. QED
    BY <1>1, <1>2, PTL DEF Spec, LanguagesSpec

-----------------------------------------------------------------------------
(* The whole *)

(***************************************************************************)
(* The whole implements every part: no part can be led, by what the others *)
(* do, to a step its own functions do not make (what a service reads of    *)
(* another's tables is an input of its part, never a shared variable).     *)
(***************************************************************************)
THEOREM PartsImplemented ==
    Spec => /\ NotificationSpec /\ MessagesSpec /\ CodeRunSpec /\ PresenceSpec
            /\ UserAccountsSpec /\ CatalogueSpec /\ BoardSpec /\ AnalyticsSpec
            /\ SeederSpec /\ LanguagesSpec
BY NotificationPart, MessagesPart, CodeRunPart, PresencePart, UserAccountsPart,
   CataloguePart, BoardPart, AnalyticsPart, SeederPart, LanguagesPart, PTL

(***************************************************************************)
(* Tables, calls in flight and what is held in memory keep their shapes,   *)
(* whichever part is at work (the entities of the services).               *)
(***************************************************************************)
THEOREM WorkspaceTypes == Spec => []TypeOK
<1>1. /\ NotificationTypeOK /\ MessagesTypeOK /\ CodeRunTypeOK /\ PresenceTypeOK
      /\ UserAccountsTypeOK /\ CatalogueTypeOK /\ BoardTypeOK /\ AnalyticsTypeOK
      /\ SeederTypeOK /\ LanguagesTypeOK
      => TypeOK
    BY DEF TypeOK
<1>2. QED
    BY <1>1, PartsImplemented, NoticeTypes, MessagesTypes, CodeRunTypes, PresenceTypes,
       UserAccountsTypes, CatalogueTypes, BoardTypes, AnalyticsTypes, SeederTypes,
       LanguagesTypes, PTL

(***************************************************************************)
(* What each part promises, under the conditions it states, it promises in *)
(* the whole: a notice is told in time and counts its messages, a deleted  *)
(* message leaves nothing behind and clients are told what a fetch         *)
(* returns, runs of code stay within the limit and read no stale text,     *)
(* presence misses nobody, a plan stays as bought, a task's history        *)
(* replays, trends add up, the seed command inserts once, languages keep   *)
(* their order.                                                            *)
(***************************************************************************)
THEOREM WorkspaceSafe ==
    Spec => []( /\ Announced /\ CountIsMessages
                /\ NothingLeftBehind /\ ToldIsFetched
                /\ RunsWithinLimit /\ CacheFaithful
                /\ NobodyMissed /\ AsBought /\ HistoryReplays /\ TrendsAddUp
                /\ SeededOnce /\ LanguagesInOrder )
BY PartsImplemented, AnnouncedInTime, CountsAreMessages, NothingIsLeft, ToldAsFetched,
   DailyLimitKept, CacheIsFaithful, NobodyIsMissed, KeptAsBought, HistoryTells,
   TrendsAgree, SeededJustOnce, LanguagesOrdered, PTL

\* The same of passwords: while calls do not overlap, none changes but by its
\* profile or by a fresh reset code (updateProfile, resetPassword).
THEOREM WorkspacePasswords == Spec => PasswordKept
BY PartsImplemented, PasswordIsKept, PTL
=============================================================================
