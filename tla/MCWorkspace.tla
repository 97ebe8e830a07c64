---------------------------- MODULE MCWorkspace ----------------------------
(***************************************************************************)
(* The parts of the server that share no table and no memory: none can     *)
(* tell what another does, so each behaviour is one of `turn`, the others  *)
(* staying where they began.                                               *)
(***************************************************************************)
EXTENDS Notification, Messages, CodeRun, Presence, UserAccounts, Catalogue, Board, Analytics,
        Seeder, Languages, TLC

CONSTANTS s1, s2, u1, u2, u3

VARIABLE turn

\* The required users of the seed command, in the order of its file.
Required == <<u1, u2>>

Others ==
    /\ turn # "notification" => UNCHANGED notificationVars
    /\ turn # "messages" => UNCHANGED messagesVars
    /\ turn # "codeRun" => UNCHANGED codeRunVars
    /\ turn # "presence" => UNCHANGED presenceVars
    /\ turn # "accounts" => UNCHANGED accountVars
    /\ turn # "catalogue" => UNCHANGED catalogueVars
    /\ turn # "board" => UNCHANGED boardVars
    /\ turn # "analytics" => UNCHANGED analyticsVars
    /\ turn # "seeder" => UNCHANGED seederVars
    /\ turn # "languages" => UNCHANGED languageVars
    /\ UNCHANGED turn

Init ==
    /\ turn \in {"notification", "messages", "codeRun", "presence", "accounts", "catalogue",
                 "board", "analytics", "seeder", "languages"}
    /\ NotificationInit /\ MessagesInit /\ CodeRunInit /\ PresenceInit /\ UserAccountsInit
    /\ CatalogueInit /\ BoardInit /\ AnalyticsInit /\ SeederInit /\ LanguagesInit

Next ==
    \/ turn = "notification" /\ NotificationNext /\ Others
    \/ turn = "messages" /\ MessagesNext /\ Others
    \/ turn = "codeRun" /\ CodeRunNext /\ Others
    \/ turn = "presence" /\ PresenceNext /\ Others
    \/ turn = "accounts" /\ UserAccountsNext /\ Others
    \/ turn = "catalogue" /\ CatalogueNext /\ Others
    \/ turn = "board" /\ BoardNext /\ Others
    \/ turn = "analytics" /\ AnalyticsNext /\ Others
    \/ turn = "seeder" /\ SeederNext /\ Others
    \/ turn = "languages" /\ LanguagesNext /\ Others

vars == <<turn, notificationVars, messagesVars, codeRunVars, presenceVars, accountVars,
          catalogueVars, boardVars, analyticsVars, seederVars, languageVars>>

Spec == Init /\ [][Next]_vars

\* The tables, the calls in flight and what is held in memory keep their shapes.
TypeOK ==
    /\ turn = "notification" => NotificationTypeOK
    /\ turn = "messages" => MessagesTypeOK
    /\ turn = "codeRun" => CodeRunTypeOK
    /\ turn = "presence" => PresenceTypeOK
    /\ turn = "accounts" => UserAccountsTypeOK
    /\ turn = "catalogue" => CatalogueTypeOK
    /\ turn = "board" => BoardTypeOK
    /\ turn = "analytics" => AnalyticsTypeOK
    /\ turn = "seeder" => SeederTypeOK
    /\ turn = "languages" => LanguagesTypeOK

Interchangeable == Permutations({s1, s2})
=============================================================================
