------------------------------ MODULE Messages ------------------------------
(***************************************************************************)
(* Messages with their code blocks, cached results and attachments:        *)
(* MessageService and the part of AttachmentService it calls.  The same    *)
(* functions are written three times, for channels, direct conversations   *)
(* and threads; what differs is where a message belongs and who is told.   *)
(*                                                                         *)
(* A call runs on a socket of the author's: only authors edit and delete.  *)
(* Its room is client.data.room, which a join may change under a call.     *)
(* No table has a foreign key, and each action is one awaited statement.   *)
(***************************************************************************)
EXTENDS Integers, FiniteSets

CONSTANTS
    Sockets,      \* sockets of the author, each with at most one call
    Rooms,        \* channels a socket can join
    Files,        \* attachments uploaded so far
    MaxMessages,  \* bound: messages ever
    MaxBlocks,    \* bound: code blocks ever
    MaxEdits,     \* bound: versions of one message
    MaxRequests   \* bound: requests ever

ASSUME MessagesBounds == MaxMessages \in Nat /\ MaxBlocks \in Nat /\ MaxEdits \in Nat \ {0}
                          /\ MaxRequests \in Nat
ASSUME RoomsAssumption == Rooms # {}

VARIABLES
    messages,      \* message, direct_message and thread_message rows
    blocks,        \* code_block rows
    cached,        \* the blocks that have run_code_cache rows
    attached,      \* messageId of each attachment
    room,          \* client.data.room and client.data.channel
    handler,       \* the call in flight on each socket
    messagesMade, blocksMade,   \* ids given out
    requests,      \* requests begun
    told,          \* history: what the last event about each message told, and where
    apart,         \* history: no two calls overlapped
    intact,        \* history: no call failed or died half way
    local          \* history: edits and deletions came from the message's room

messagesVars == <<messages, blocks, cached, attached, room, handler, messagesMade,
                  blocksMade, requests, told, apart, intact, local>>

-----------------------------------------------------------------------------
Kinds == {"channel", "thread", "direct"}
Ids == 1 .. MaxMessages
BlockIds == 1 .. MaxBlocks
Null == 0
AnyRoom == CHOOSE r \in Rooms : TRUE

\* place is the channel of a message or a thread message.  There is one
\* direct conversation, and place says nothing there.  parent is the message
\* an answer of the AI belongs to.
Message == [kind : Kinds, place : Rooms, version : 1 .. MaxEdits,
            block : BlockIds \cup {Null}, parent : Ids \cup {Null}]
Attachments == [Files -> Ids \cup {Null}]
NoMessage == [kind |-> "direct", place |-> AnyRoom, version |-> 1, block |-> Null,
              parent |-> Null]

\* entity is the message a call has loaded, loaded whether its block came with
\* it; code is the codeBlock of the request (absent, null or given), files its
\* attachmentIds if `replace`.
Handler == [pc : {"idle", "reload", "attach", "tell", "ask", "answer", "tellAnswer",
                  "clear", "drop", "existing", "detach", "save", "deleteRow"},
            op : {"send", "edit", "delete"}, id : Ids \cup {Null}, entity : Message,
            loaded : BOOLEAN, code : {"keep", "null", "given"}, replace : BOOLEAN,
            files : SUBSET Files, detaching : SUBSET Files, mention : BOOLEAN]
NoHandler == [pc |-> "idle", op |-> "send", id |-> Null, entity |-> NoMessage,
              loaded |-> FALSE, code |-> "keep", replace |-> FALSE, files |-> {},
              detaching |-> {}, mention |-> FALSE]

Goto(s, pc) == handler' = [handler EXCEPT ![s].pc = pc]
Finished(s) == handler' = [handler EXCEPT ![s] = NoHandler]
AllIdle == \A s \in Sockets : handler[s] = NoHandler
Request == requests < MaxRequests /\ requests' = requests + 1
Begin == Request /\ apart' = (apart /\ AllIdle)
Kept == UNCHANGED <<requests, apart, intact, local>>

\* An exception: the rest of the handler is not run.
Fail(s) == Finished(s) /\ intact' = FALSE /\ UNCHANGED <<requests, apart, local>>

\* An event in the room of the socket, or to the two users of a conversation.
Audience(s, kind, place) == IF kind = "direct" THEN place ELSE room[s]
Tell(s, i, kind, place, version) ==
    told' = [told EXCEPT ![i] = [kind |-> kind, place |-> Audience(s, kind, place),
                                 version |-> version]]

\* What fetchMessages, fetchThreadMessages and fetchDirectMessages return, all
\* pages together.
Fetched(kind, p) == {i \in DOMAIN messages : messages[i].kind = kind /\ messages[i].place = p}
FetchMessages(p) == Fetched("channel", p)
FetchThreadMessages(p) == Fetched("thread", p)
FetchDirectMessages == {i \in DOMAIN messages : messages[i].kind = "direct"}

\* The union of two tables; every message matches.
SearchMessages(p) == {i \in DOMAIN messages : messages[i].place = p /\ messages[i].kind # "direct"}
SearchDirectMessages == FetchDirectMessages

-----------------------------------------------------------------------------
(* Sending *)

\* The row and its code block are saved in one transaction.
SaveNew(s, kind, code, files, mention) ==
    /\ handler[s] = NoHandler
    /\ messagesMade < MaxMessages
    /\ code = "given" => blocksMade < MaxBlocks
    /\ LET i == messagesMade + 1
           b == IF code = "given" THEN blocksMade + 1 ELSE Null
           m == [NoMessage EXCEPT !.kind = kind, !.block = b,
                     !.place = IF kind = "direct" THEN AnyRoom ELSE room[s]]
       IN /\ messages' = [j \in DOMAIN messages \cup {i} |-> IF j = i THEN m ELSE messages[j]]
          /\ messagesMade' = i
          /\ blocks' = blocks \cup ({b} \ {Null})
          /\ blocksMade' = IF b = Null THEN blocksMade ELSE b
          /\ handler' = [handler EXCEPT ![s] =
                [NoHandler EXCEPT !.pc = "reload", !.op = "send", !.id = i, !.entity = m,
                                  !.files = files, !.mention = mention]]
    /\ Begin
    /\ UNCHANGED <<cached, attached, room, told, intact, local>>

SendMessage(s) == \E code \in {"keep", "given"}, files \in SUBSET Files, mention \in BOOLEAN :
    SaveNew(s, "channel", code, files, mention)
SendThreadMessage(s) == \E code \in {"keep", "given"}, files \in SUBSET Files :
    SaveNew(s, "thread", code, files, FALSE)
SendDirectMessage(s) == \E code \in {"keep", "given"}, files \in SUBSET Files :
    SaveNew(s, "direct", code, files, FALSE)

\* The row is read again for the answer.  A send whose row is gone throws; an
\* edit answers with what it saved.
Reload(s) ==
    /\ handler[s].pc = "reload"
    /\ IF handler[s].id \in DOMAIN messages
       THEN /\ handler' = [handler EXCEPT
                  ![s].entity = messages[handler[s].id],
                  ![s].pc = IF handler[s].op = "send" /\ handler[s].files # {} THEN "attach" ELSE "tell"]
            /\ Kept
       ELSE IF handler[s].op = "send" THEN Fail(s) ELSE Goto(s, "tell") /\ Kept
    /\ UNCHANGED <<messages, blocks, cached, attached, room, messagesMade, blocksMade, told>>

\* addAttachmentsToMessage, -ToDirectMessage, -ToThreadMessage and the second
\* update of the replace functions: the ids are not checked, so a file may be
\* taken from another message.
Attach(s) ==
    /\ handler[s].pc = "attach"
    /\ attached' = [f \in Files |-> IF f \in handler[s].files THEN handler[s].id ELSE attached[f]]
    /\ Goto(s, IF handler[s].op = "send" THEN "tell" ELSE "save")
    /\ UNCHANGED <<messages, blocks, cached, room, messagesMade, blocksMade, told>> /\ Kept

\* The event, and for a new message in a channel the test for "@openai" and
\* "@gemini" after it.
TellOf(s) ==
    /\ handler[s].pc = "tell"
    /\ LET h == handler[s]
       IN /\ Tell(s, h.id, h.entity.kind, h.entity.place,
                  IF h.op = "delete" THEN 0 ELSE h.entity.version)
          /\ IF h.mention THEN Goto(s, "ask") ELSE Finished(s)
    /\ UNCHANGED <<messages, blocks, cached, attached, room, messagesMade, blocksMade>> /\ Kept

\* maybeProcessAiMentionAndRespond reads the message and the plan; a message
\* that is gone ends it.
Ask(s) ==
    /\ handler[s].pc = "ask"
    /\ IF handler[s].id \in DOMAIN messages THEN Goto(s, "answer") /\ Kept ELSE Fail(s)
    /\ UNCHANGED <<messages, blocks, cached, attached, room, messagesMade, blocksMade, told>>

\* Mutant: the answer is stored and nobody is told.
MutInsertAnswer(s) ==
    /\ handler[s].pc = "answer"
    /\ messagesMade < MaxMessages
    /\ LET i == messagesMade + 1
           m == [NoMessage EXCEPT !.kind = "channel", !.place = room[s], !.parent = handler[s].id]
       IN /\ messages' = [j \in DOMAIN messages \cup {i} |-> IF j = i THEN m ELSE messages[j]]
          /\ messagesMade' = i
          /\ handler' = [handler EXCEPT ![s] = NoHandler]
    /\ UNCHANGED <<blocks, cached, attached, room, blocksMade, told>> /\ Kept

\* The answer, or the refusal when the plan has no AI, is inserted into the
\* channel the socket has joined by then.
InsertAnswer(s) ==
    /\ handler[s].pc = "answer"
    /\ messagesMade < MaxMessages
    /\ LET i == messagesMade + 1
           m == [NoMessage EXCEPT !.kind = "channel", !.place = room[s], !.parent = handler[s].id]
       IN /\ messages' = [j \in DOMAIN messages \cup {i} |-> IF j = i THEN m ELSE messages[j]]
          /\ messagesMade' = i
          /\ handler' = [handler EXCEPT ![s] = [NoHandler EXCEPT !.pc = "tell", !.id = i, !.entity = m]]
    /\ UNCHANGED <<blocks, cached, attached, room, blocksMade, told>> /\ Kept

-----------------------------------------------------------------------------
(* Editing *)

\* Where an edit goes on after its code block.
AfterCode(h) == IF h.replace THEN "existing" ELSE "save"

\* The message is found with its code block, which a deleted block leaves null.
Find(s, i, h) ==
    /\ handler[s] = NoHandler
    /\ i \in DOMAIN messages /\ messages[i].parent = Null
    /\ handler' = [handler EXCEPT ![s] =
          [h EXCEPT !.id = i, !.entity = messages[i], !.loaded = messages[i].block \in blocks]]
    /\ Begin
    /\ local' = (local /\ Audience(s, messages[i].kind, messages[i].place) = messages[i].place)
    /\ UNCHANGED <<messages, blocks, cached, attached, room, messagesMade, blocksMade, told, intact>>

\* syncMessageCodeBlock: null drops the block the row names, a given block
\* changes the one that was loaded; both clear its cache first.
ClearsFirst(i, code) == \/ code = "null" /\ messages[i].block # Null
                        \/ code = "given" /\ messages[i].block \in blocks

Edit(s, i, code, replace, files) ==
    LET h == [NoHandler EXCEPT !.op = "edit", !.code = code, !.replace = replace, !.files = files]
    IN /\ messages[i].version < MaxEdits
       /\ Find(s, i, [h EXCEPT !.pc = IF ClearsFirst(i, code) THEN "clear" ELSE AfterCode(h)])

EditRequest(s, i) == \E code \in {"keep", "null", "given"}, files \in SUBSET Files :
    Edit(s, i, code, TRUE, files) \/ Edit(s, i, code, FALSE, {})
EditMessage(s) == \E i \in UNION {FetchMessages(p) : p \in Rooms} : EditRequest(s, i)
EditThreadMessage(s) == \E i \in UNION {FetchThreadMessages(p) : p \in Rooms} : EditRequest(s, i)
EditDirectMessage(s) == \E i \in FetchDirectMessages : EditRequest(s, i)

\* Mutant: the cached result stays.
MutClearCodeBlockCache(s) ==
    /\ handler[s].pc = "clear"
    /\ Goto(s, IF handler[s].code = "null" THEN "drop" ELSE AfterCode(handler[s]))
    /\ UNCHANGED <<messages, blocks, cached, attached, room, messagesMade, blocksMade, told>> /\ Kept

\* clearCodeBlockCache.
ClearCodeBlockCache(s) ==
    /\ handler[s].pc = "clear"
    /\ cached' = cached \ {handler[s].entity.block}
    /\ Goto(s, IF handler[s].code = "null" THEN "drop" ELSE AfterCode(handler[s]))
    /\ UNCHANGED <<messages, blocks, attached, room, messagesMade, blocksMade, told>> /\ Kept

\* codeBlockRepo.delete.
DropBlock(s) ==
    /\ handler[s].pc = "drop"
    /\ blocks' = blocks \ {handler[s].entity.block}
    /\ Goto(s, IF handler[s].op = "delete" THEN "deleteRow" ELSE AfterCode(handler[s]))
    /\ UNCHANGED <<messages, cached, attached, room, messagesMade, blocksMade, told>> /\ Kept

\* replaceMessageAttachments: the files the message has now.
FindExisting(s) ==
    /\ handler[s].pc = "existing"
    /\ LET h == handler[s]
           out == {f \in Files : attached[f] = h.id} \ h.files
       IN handler' = [handler EXCEPT ![s].detaching = out, ![s].pc =
              IF out # {} THEN "detach" ELSE IF h.files # {} THEN "attach" ELSE "save"]
    /\ UNCHANGED <<messages, blocks, cached, attached, room, messagesMade, blocksMade, told>> /\ Kept

\* save writes the whole entity: a row that is gone is inserted again, and the
\* cascade inserts its loaded block again.
SaveEdited(s) ==
    /\ handler[s].pc = "save"
    /\ LET h == handler[s]
           created == h.code = "given" /\ ~h.loaded
           b == IF created THEN blocksMade + 1
                ELSE IF h.code # "null" /\ h.loaded THEN h.entity.block ELSE Null
           m == [h.entity EXCEPT !.version = @ + 1, !.block = b]
       IN /\ created => blocksMade < MaxBlocks
          /\ messages' = [j \in DOMAIN messages \cup {h.id} |-> IF j = h.id THEN m ELSE messages[j]]
          /\ blocks' = blocks \cup ({b} \ {Null})
          /\ blocksMade' = IF created THEN b ELSE blocksMade
          /\ handler' = [handler EXCEPT ![s].entity = m, ![s].pc = "reload"]
    /\ UNCHANGED <<cached, attached, room, messagesMade, told>> /\ Kept

-----------------------------------------------------------------------------
(* Deleting *)

\* What hangs on a message is removed before the message.
DeleteRequest(s, i) == Find(s, i, [NoHandler EXCEPT !.op = "delete", !.code = "null", !.pc = "detach"])
DeleteMessage(s) == \E i \in UNION {FetchMessages(p) : p \in Rooms} : DeleteRequest(s, i)
DeleteThreadMessage(s) == \E i \in UNION {FetchThreadMessages(p) : p \in Rooms} : DeleteRequest(s, i)
DeleteDirectMessage(s) == \E i \in FetchDirectMessages : DeleteRequest(s, i)

\* removeAttachmentsForMessage detaches whatever the message has by then; an
\* edit detaches the files it has read.
Detach(s) ==
    /\ handler[s].pc = "detach"
    /\ LET h == handler[s]
           out == IF h.op = "delete" THEN {f \in Files : attached[f] = h.id} ELSE h.detaching
       IN /\ attached' = [f \in Files |-> IF f \in out THEN Null ELSE attached[f]]
          /\ Goto(s, IF h.op = "edit" THEN IF h.files # {} THEN "attach" ELSE "save"
                     ELSE IF h.entity.block # Null THEN "clear" ELSE "deleteRow")
    /\ UNCHANGED <<messages, blocks, cached, room, messagesMade, blocksMade, told>> /\ Kept

DeleteRow(s) ==
    /\ handler[s].pc = "deleteRow"
    /\ messages' = [j \in DOMAIN messages \ {handler[s].id} |-> messages[j]]
    /\ Goto(s, "tell")
    /\ UNCHANGED <<blocks, cached, attached, room, messagesMade, blocksMade, told>> /\ Kept

-----------------------------------------------------------------------------
(* Around the calls *)

\* joinRoom stores the room once its lookups are done.
JoinRoom(s, r) ==
    /\ room[s] # r
    /\ room' = [room EXCEPT ![s] = r]
    /\ Request
    /\ apart' = (apart /\ handler[s] = NoHandler)
    /\ UNCHANGED <<messages, blocks, cached, attached, handler, messagesMade, blocksMade,
                   told, intact, local>>

\* A block is run and its result cached (runCodeBlock).
CacheResult(b) ==
    /\ b \in blocks \ cached
    /\ cached' = cached \cup {b}
    /\ Request
    /\ apart' = (apart /\ AllIdle)
    /\ UNCHANGED <<messages, blocks, attached, room, handler, messagesMade, blocksMade,
                   told, intact, local>>

\* The process dies, or a statement fails.
DieHandling(s) ==
    /\ handler[s] # NoHandler
    /\ Fail(s)
    /\ UNCHANGED <<messages, blocks, cached, attached, room, messagesMade, blocksMade, told>>

-----------------------------------------------------------------------------
MessagesInit ==
    /\ messages = [i \in {} |-> NoMessage]
    /\ blocks = {} /\ cached = {}
    /\ attached = [f \in Files |-> Null]
    /\ room = [s \in Sockets |-> AnyRoom]
    /\ handler = [s \in Sockets |-> NoHandler]
    /\ messagesMade = 0 /\ blocksMade = 0 /\ requests = 0
    /\ told = [i \in Ids |-> [kind |-> "direct", place |-> AnyRoom, version |-> 0]]
    /\ apart = TRUE /\ intact = TRUE /\ local = TRUE

\* A socket has one call at a time.
Requests(s) ==
    /\ handler[s] = NoHandler /\ requests < MaxRequests
    /\ \/ SendMessage(s) \/ SendThreadMessage(s) \/ SendDirectMessage(s)
       \/ EditMessage(s) \/ EditThreadMessage(s) \/ EditDirectMessage(s)
       \/ DeleteMessage(s) \/ DeleteThreadMessage(s) \/ DeleteDirectMessage(s)

MessagesNext ==
    \/ \E s \in Sockets :
        \/ Requests(s)
        \/ Reload(s) \/ Attach(s) \/ TellOf(s) \/ Ask(s) \/ InsertAnswer(s)
        \/ ClearCodeBlockCache(s) \/ DropBlock(s) \/ FindExisting(s) \/ SaveEdited(s)
        \/ Detach(s) \/ DeleteRow(s) \/ DieHandling(s)
        \/ \E r \in Rooms : JoinRoom(s, r)
    \/ \E b \in BlockIds : CacheResult(b)

MessagesSpec == MessagesInit /\ [][MessagesNext]_messagesVars

-----------------------------------------------------------------------------
(* Properties *)

MessagesTypeOK ==
    /\ DOMAIN messages \subseteq Ids
    /\ \A i \in DOMAIN messages : messages[i] \in Message
    /\ blocks \subseteq BlockIds /\ cached \subseteq BlockIds
    /\ attached \in Attachments
    /\ room \in [Sockets -> Rooms]
    /\ handler \in [Sockets -> Handler]
    /\ told \in [Ids -> [kind : Kinds, place : Rooms, version : 0 .. MaxEdits]]
    /\ {apart, intact, local} \subseteq BOOLEAN

(***************************************************************************)
(* Calls that do not overlap leave nothing that belongs to no message,     *)
(* wherever one of them dies: every code block is the block of a message,  *)
(* every cached result that of a block, and every attached file is         *)
(* attached to a message that exists (deleteMessage, editMessage,          *)
(* AttachmentService; there are no foreign keys).                          *)
(***************************************************************************)
NothingLeftBehind ==
    apart => /\ \A b \in blocks : \E i \in DOMAIN messages : messages[i].block = b
             /\ cached \subseteq blocks
             /\ \A f \in Files : attached[f] \in DOMAIN messages \cup {Null}

(***************************************************************************)
(* Once calls that did not overlap are done, and edits came from sockets   *)
(* that were in the channel of the message, what a conversation or a room  *)
(* has been told is what it would fetch, version by version, and what a    *)
(* search finds (the events of sendMessage, editMessage, deleteMessage).   *)
(***************************************************************************)
ToldIsFetched ==
    apart /\ intact /\ local /\ AllIdle =>
        \A i \in Ids :
            LET place == told[i].place
            IN IF told[i].version = 0 THEN i \notin DOMAIN messages
               ELSE /\ i \in CASE told[i].kind = "channel" -> FetchMessages(place)
                               [] told[i].kind = "thread" -> FetchThreadMessages(place)
                               [] told[i].kind = "direct" -> FetchDirectMessages
                    /\ i \in IF told[i].kind = "direct" THEN SearchDirectMessages
                             ELSE SearchMessages(place)
                    /\ told[i].version = messages[i].version
=============================================================================
