----------------------------- MODULE Languages -----------------------------
(***************************************************************************)
(* The programming languages on the profile of one user, in the order the  *)
(* user gave them: UserLanguageCollectionService, which edits one entry at *)
(* a time, and UserService.update, which sends the whole list.  Each       *)
(* action is one awaited statement of one call.                            *)
(*                                                                         *)
(* save() writes rows as they were read, and inserts the ones that are no  *)
(* longer there.  A user is saved with the list it holds (cascade): a row  *)
(* of the table that the list lacks would lose its user, which the column  *)
(* does not allow, and the save fails as a whole.                          *)
(***************************************************************************)
EXTENDS Integers, Sequences, FiniteSets

CONSTANTS
    Tongues,     \* programming languages
    Profilers,   \* bound: calls at once
    MaxEntries   \* bound: entries ever inserted

ASSUME LanguageBounds == MaxEntries \in Nat \ {0}
ASSUME TonguesAssumption == IsFiniteSet(Tongues)

VARIABLES
    entries,        \* user_language_collection rows, in order of insertion; GoneEntry once removed
    edit,           \* the calls in flight
    languagesApart  \* history: no two calls overlapped

languageVars == <<entries, edit, languagesApart>>

-----------------------------------------------------------------------------
EntryIds == 1 .. MaxEntries
Entry == [tongue : Tongues, place : Nat \ {0}]
GoneEntry == [tongue |-> "", place |-> 0]
EntryRow == [tongue : Tongues \cup {GoneEntry.tongue}, place : Nat]

\* Lists of a request: none names a language twice.
Lists == {l \in UNION {[1 .. n -> Tongues] : n \in 0 .. Cardinality(Tongues)} :
             \A j, k \in DOMAIN l : l[j] = l[k] => j = k}

\* What a request leaves out.
SameTongue == ""
SamePlace == -1

\* entry, tongue, place: what an edit asks for; list: the languages of a profile.
\* rows: entries by id, as read or to be saved; new: those to insert; leaving: to remove.
EntryCall == [pc : {"idle", "last", "insert", "duplicate", "siblings", "save", "remove",
                    "validate", "clear", "leave", "saveUser"},
              entry : 0 .. MaxEntries, tongue : Tongues \cup {SameTongue},
              place : Nat \cup {SamePlace}, list : Lists,
              rows : [EntryIds -> EntryRow],
              new : Seq(Entry),
              leaving : SUBSET EntryIds]
NoRows == [i \in EntryIds |-> GoneEntry]
NoEntryCall == [pc |-> "idle", entry |-> 0, tongue |-> SameTongue, place |-> SamePlace,
           list |-> <<>>, rows |-> NoRows, new |-> <<>>, leaving |-> {}]

Named(rows) == {i \in DOMAIN rows : rows[i] # GoneEntry}
Held == Named(entries)
Rows == [i \in EntryIds |-> IF i \in Held THEN entries[i] ELSE GoneEntry]
Has(t) == \E i \in Held : entries[i].tongue = t

EditAt(c, pc) == edit[c].pc = pc
EditGoto(c, pc) == edit' = [edit EXCEPT ![c].pc = pc]
EntryCallDone(c) == edit' = [edit EXCEPT ![c] = NoEntryCall]
EditStarts(c) ==
    /\ edit[c] = NoEntryCall
    /\ languagesApart' = (languagesApart /\ \A o \in Profilers : edit[o] = NoEntryCall)
SameEdits == UNCHANGED languagesApart

\* Rows written by id: those that were removed meanwhile come back.
WithSaved(rows) == [i \in DOMAIN entries |-> IF i \in Named(rows) THEN rows[i] ELSE entries[i]]

-----------------------------------------------------------------------------
(* UserLanguageCollectionService *)

CreateEntry(c) ==
    /\ EditStarts(c)
    /\ \E t \in Tongues :
        /\ ~Has(t)
        /\ edit' = [edit EXCEPT ![c] = [NoEntryCall EXCEPT !.pc = "last", !.tongue = t]]
    /\ UNCHANGED entries

\* Mutant: the next place is the number of entries there will be.
MutNextPlace == Cardinality(Held) + 1
LastPlace ==
    CHOOSE p \in {entries[i].place : i \in Held} \cup {0} : \A i \in Held : entries[i].place <= p
NextPlace == LastPlace + 1

LastEntry(c) ==
    /\ EditAt(c, "last")
    /\ edit' = [edit EXCEPT ![c].pc = "insert", ![c].place = NextPlace]
    /\ UNCHANGED entries /\ SameEdits

InsertEntry(c) ==
    /\ EditAt(c, "insert")
    /\ Len(entries) < MaxEntries
    /\ entries' = Append(entries, [tongue |-> edit[c].tongue, place |-> edit[c].place])
    /\ EntryCallDone(c)
    /\ SameEdits

\* A language that is not the entry's own is looked for among the others.
UpdateEntry(c) ==
    /\ EditStarts(c)
    /\ \E i \in Held, t \in Tongues \cup {SameTongue}, p \in SamePlace .. MaxEntries + 1 :
        LET e == entries[i]
            renamed == [e EXCEPT !.tongue = IF t = SameTongue THEN @ ELSE t]
            next == IF p \in {SamePlace, e.place} THEN "save" ELSE "siblings"
        IN edit' = [edit EXCEPT ![c] =
               [NoEntryCall EXCEPT !.pc = IF renamed = e THEN next ELSE "duplicate",
                              !.entry = i, !.tongue = renamed.tongue, !.place = p,
                              !.rows[i] = renamed]]
    /\ UNCHANGED entries

FindDuplicate(c) ==
    /\ EditAt(c, "duplicate")
    /\ LET e == edit[c] IN
       IF Has(e.tongue) THEN EntryCallDone(c)
       ELSE EditGoto(c, IF e.place \in {SamePlace, e.rows[e.entry].place} THEN "save" ELSE "siblings")
    /\ UNCHANGED entries /\ SameEdits

\* The others keep their order, the edited entry comes where it is wanted, first
\* or last if that is out of range, and all are numbered from 1.  Equal places
\* come in any order.
FindSiblings(c) ==
    /\ EditAt(c, "siblings")
    /\ LET e == edit[c]
           others == Held \ {e.entry}
           last == Cardinality(others) + 1
           at == IF e.place < 1 THEN 1 ELSE IF e.place > last THEN last ELSE e.place
       IN \E number \in [others \cup {e.entry} -> 1 .. last] :
           /\ number[e.entry] = at
           /\ \A j, k \in DOMAIN number : number[j] = number[k] => j = k
           /\ \A j, k \in others : entries[j].place < entries[k].place => number[j] < number[k]
           /\ LET numbered == [i \in EntryIds |->
                    IF i \notin DOMAIN number THEN GoneEntry
                    ELSE [tongue |-> IF i = e.entry THEN e.tongue ELSE entries[i].tongue, place |-> number[i]]]
              IN edit' = [edit EXCEPT ![c].pc = "save", ![c].rows = numbered]
    /\ UNCHANGED entries /\ SameEdits

SaveEntries(c) ==
    /\ EditAt(c, "save")
    /\ entries' = WithSaved(edit[c].rows)
    /\ EntryCallDone(c)
    /\ SameEdits

DeleteEntry(c) ==
    /\ EditStarts(c)
    /\ \E i \in Held : edit' = [edit EXCEPT ![c] = [NoEntryCall EXCEPT !.pc = "remove", !.leaving = {i}]]
    /\ UNCHANGED entries

Without(ids) == [i \in DOMAIN entries |-> IF i \in ids THEN GoneEntry ELSE entries[i]]

RemoveEntry(c) ==
    /\ EditAt(c, "remove")
    /\ entries' = Without(edit[c].leaving)
    /\ EntryCallDone(c)
    /\ SameEdits

-----------------------------------------------------------------------------
(* UserService.update *)

\* The profile is read with its entries.  A request may leave its languages
\* out, send none, or a list without repetitions.
UpdateProfile(c) ==
    /\ EditStarts(c)
    /\ LET read == [NoEntryCall EXCEPT !.rows = Rows]
       IN \/ edit' = [edit EXCEPT ![c] = [read EXCEPT !.pc = "saveUser"]]
          \/ edit' = [edit EXCEPT ![c] = [NoEntryCall EXCEPT !.pc = IF Held = {} THEN "saveUser" ELSE "clear"]]
          \/ \E list \in Lists \ {<<>>} :
                edit' = [edit EXCEPT ![c] = [read EXCEPT !.pc = "validate", !.list = list]]
    /\ UNCHANGED entries

ClearEntries(c) ==
    /\ EditAt(c, "clear")
    /\ entries' = Without(Held)
    /\ EditGoto(c, "saveUser")
    /\ SameEdits

\* Mutant: entries that stay keep the place they had.
MutRenumbered(rows, list, ids) == [i \in EntryIds |-> IF i \in ids THEN rows[i] ELSE GoneEntry]
\* Entries that stay are numbered as the list is.
PlaceIn(list, t) == CHOOSE k \in DOMAIN list : list[k] = t
Renumbered(rows, list, ids) ==
    [i \in EntryIds |-> IF i \notin ids THEN GoneEntry
                   ELSE [tongue |-> rows[i].tongue, place |-> PlaceIn(list, rows[i].tongue)]]

\* A language that is unknown or inactive ends the call.  One entry of each
\* language that was read counts; it stays if the language is asked for.  The
\* languages that are new come in the order of the list.
ApplyUserLanguageUpdates(c) ==
    /\ EditAt(c, "validate")
    /\ LET e == edit[c]
           spoken(ids) == {e.rows[i].tongue : i \in ids}
           known == spoken(Named(e.rows))
           fresh == {k \in DOMAIN e.list : e.list[k] \notin known}
       IN \/ EntryCallDone(c)
          \/ \E ids \in SUBSET Named(e.rows), nth \in [1 .. Cardinality(fresh) -> fresh] :
                /\ spoken(ids) = known
                /\ \A i, j \in ids : e.rows[i].tongue = e.rows[j].tongue => i = j
                /\ \A j, k \in DOMAIN nth : j < k => nth[j] < nth[k]
                /\ LET staying == {i \in ids : \E k \in DOMAIN e.list : e.list[k] = e.rows[i].tongue}
                   IN edit' = [edit EXCEPT ![c] = [NoEntryCall EXCEPT
                          !.pc = IF ids = staying THEN "saveUser" ELSE "leave",
                          !.rows = Renumbered(e.rows, e.list, staying),
                          !.new = [n \in DOMAIN nth |-> [tongue |-> e.list[nth[n]], place |-> nth[n]]],
                          !.leaving = ids \ staying]]
    /\ UNCHANGED entries /\ SameEdits

LeaveEntries(c) ==
    /\ EditAt(c, "leave")
    /\ entries' = Without(edit[c].leaving)
    /\ EditGoto(c, "saveUser")
    /\ SameEdits

SaveUser(c) ==
    /\ EditAt(c, "saveUser")
    /\ LET e == edit[c]
       IN /\ Len(entries) + Len(e.new) <= MaxEntries
          /\ entries' = IF Held \subseteq Named(e.rows) THEN WithSaved(e.rows) \o e.new ELSE entries
    /\ EntryCallDone(c)
    /\ SameEdits

\* A statement fails, and the call ends there.
EntryCallDies(c) ==
    /\ edit[c] # NoEntryCall
    /\ EntryCallDone(c)
    /\ UNCHANGED entries /\ SameEdits

-----------------------------------------------------------------------------
LanguagesInit ==
    /\ entries = <<>>
    /\ edit = [c \in Profilers |-> NoEntryCall]
    /\ languagesApart = TRUE

LanguagesNext == \E c \in Profilers :
    \/ CreateEntry(c) \/ LastEntry(c) \/ InsertEntry(c)
    \/ UpdateEntry(c) \/ FindDuplicate(c) \/ FindSiblings(c) \/ SaveEntries(c)
    \/ DeleteEntry(c) \/ RemoveEntry(c)
    \/ UpdateProfile(c) \/ ClearEntries(c) \/ ApplyUserLanguageUpdates(c) \/ LeaveEntries(c)
    \/ SaveUser(c) \/ EntryCallDies(c)

LanguagesSpec == LanguagesInit /\ [][LanguagesNext]_languageVars

-----------------------------------------------------------------------------
(* Properties *)

LanguagesTypeOK ==
    /\ entries \in Seq(EntryRow) /\ Len(entries) <= MaxEntries /\ \A i \in Held : entries[i] \in Entry
    /\ edit \in [Profilers -> EntryCall]
    /\ languagesApart \in BOOLEAN

(***************************************************************************)
(* While calls do not overlap, wherever one of them dies, a profile names  *)
(* each language once and no two of them have one place in its order,      *)
(* although entries are added, moved, renamed and removed one at a time,   *)
(* leaving gaps, or replaced as a list (createOne, updateOne, deleteOne,   *)
(* applyUserLanguageUpdates).                                              *)
(***************************************************************************)
LanguagesInOrder ==
    languagesApart =>
        \A i, j \in Held :
            i # j => entries[i].tongue # entries[j].tongue /\ entries[i].place # entries[j].place
=============================================================================
