--------------------------- MODULE Conversations ----------------------------
(***************************************************************************)
(* The conversations of two users, over HTTP (service/chat.go,             *)
(* handler/chat.go).  The sockets are ChatHub's; here say is the statement *)
(* by which a frame of theirs stores a message.                            *)
(*                                                                         *)
(*   chat     POST /chat/conversations                GetOrCreate          *)
(*   inbox    GET  /chat/conversations                ListConversations    *)
(*   history  GET  /chat/conversations/{id}/messages  ListMessages         *)
(*   read     POST /chat/conversations/{id}/read      MarkRead             *)
(*   say      a frame                                 PersistMessage       *)
(*                                                                         *)
(* Neither the community of a user nor the two of a conversation change,   *)
(* so looking at them is one step with the statement that follows.         *)
(* created_at is DEFAULT now(), the instant the insert starts; others see  *)
(* the row when the insert commits, so rows of several senders may become  *)
(* visible in another order than that of created_at, or have the same one. *)
(***************************************************************************)
EXTENDS Visits, Sequences

CONSTANT OldTalk   \* who wrote the messages of conversation 0, which was there before

ASSUME ConversationsAssumption ==
    /\ OldTalk \in Seq(Users)
    /\ \A m, n \in DOMAIN OldTalk : Home[OldTalk[m]] = Home[OldTalk[n]]

VARIABLES
    conversations,   \* the two of each
    messages         \* the rows of messages, as their inserts started

talks == <<conversations, messages>>

\* A message as it may be.  after is history: the calls that were over when the
\* row became visible.
Message ==
    [of : DOMAIN conversations, by : Users, from : Ids, at : Nat,
     state : {"inserting", "unread", "read"}, after : SUBSET Calls]

ConversationsTypeOK ==
    /\ DOMAIN conversations \subseteq Ids
    /\ \A i \in DOMAIN conversations : conversations[i] \subseteq Users
    /\ messages \in Seq(Message)

ConversationsInit ==
    /\ conversations = [i \in {0} |-> {OldTalk[n] : n \in DOMAIN OldTalk}]
    /\ messages = [n \in DOMAIN OldTalk |->
                     [of |-> 0, by |-> OldTalk[n], from |-> 0, at |-> n,
                      state |-> "unread", after |-> {}]]

Mine(q) == {i \in DOMAIN conversations : By(q) \in conversations[i]}

\* What a statement sees of a conversation.
MessagesIn(i) == {n \in DOMAIN messages : messages[n].of = i /\ messages[n].state # "inserting"}

\* The created_at of the insert that started last.
Latest == IF messages = <<>> THEN 0 ELSE messages[Len(messages)].at

\* What the first k of a conversation by created_at DESC may be: rows of one
\* instant come in any order, in another one for each statement.
Front(i, k) ==
    LET rows == MessagesIn(i)
        many == Cardinality(rows)
    IN  {F \in SUBSET rows :
           /\ Cardinality(F) = IF k <= many THEN k ELSE many
           /\ \A m \in F, n \in rows \ F : messages[n].at <= messages[m].at}

-----------------------------------------------------------------------------
(* Variants with a defect, for the sensitivity of the properties.          *)

\* ON CONFLICT DO NOTHING, and the answer made of what was to be inserted.
InsertOrIgnore(q) ==
    /\ ServingAt(q, "chat", "absent")
    /\ conversations' = IF \E i \in DOMAIN conversations : conversations[i] = {By(q), call[q].on}
                        THEN conversations ELSE Put(conversations, q, {By(q), call[q].on})
    /\ Show(q, {q}) /\ GoRecord(q)
    /\ UNCHANGED messages

\* OFFSET page * 51.
HistoryPageTooFar(i, page) ==
    {wide \ narrow : narrow \in Front(i, page * (PageSize + 1)),
                     wide \in Front(i, page * (PageSize + 1) + PageSize)}

\* WHERE conversation_id = $1 AND read_at IS NULL.
UnreadByAnyone(u, i) == {n \in MessagesIn(i) : messages[n].state = "unread"}

-----------------------------------------------------------------------------
(* Steps.                                                                  *)

\* sender_id != $2 AND read_at IS NULL.
UnreadBy(u, i) == {n \in MessagesIn(i) : messages[n].by # u /\ messages[n].state = "unread"}

\* ORDER BY created_at DESC LIMIT 50 OFFSET page * 50: what the page may be.
HistoryPages(i, page) ==
    UNION {{wide \ narrow : narrow \in {F \in Front(i, page * PageSize) : F \subseteq wide}} :
             wide \in Front(i, (page + 1) * PageSize)}

\* Any error of the SELECT is taken for "there is none".
FindConversation(q) ==
    /\ Serving(q, "chat")
    /\ LET pair == {By(q), call[q].on}
           known == {i \in DOMAIN conversations : conversations[i] = pair}
       IN  \/ /\ call[q].on \notin Users /\ Finish(q, "error") /\ UNCHANGED visits
           \/ /\ call[q].on \in Users
              /\ call[q].on = By(q) \/ ~Here(q, call[q].on)
              /\ Finish(q, "forbidden") /\ UNCHANGED visits
           \/ /\ call[q].on # By(q) /\ Here(q, call[q].on)
              /\ \/ known # {} /\ Show(q, known) /\ GoRecord(q)
                 \/ (known = {} \/ scene.faults) /\ Goto(q, "absent") /\ UNCHANGED visits
    /\ UNCHANGED talks

\* UNIQUE (community_id, participant_a, participant_b).
InsertConversation(q) ==
    /\ ServingAt(q, "chat", "absent")
    /\ LET pair == {By(q), call[q].on} IN
       \/ /\ \E i \in DOMAIN conversations : conversations[i] = pair
          /\ Finish(q, "error") /\ UNCHANGED <<conversations, visits>>
       \/ /\ \A i \in DOMAIN conversations : conversations[i] # pair
          /\ conversations' = Put(conversations, q, pair)
          /\ \/ Show(q, {q}) /\ GoRecord(q)
             \/ scene.faults /\ Finish(q, "error") /\ UNCHANGED visits
    /\ UNCHANGED messages

ListConversations(q) ==
    /\ Serving(q, "inbox")
    /\ Show(q, {[of |-> i, unread |-> UnreadBy(By(q), i)] : i \in Mine(q)})
    /\ UNCHANGED <<talks, visits>>

\* assertParticipant: 404 if there is none, 403 if it is of others.
Refuse(q) ==
    \/ call[q].on \notin DOMAIN conversations /\ Finish(q, "notFound")
    \/ call[q].on \in DOMAIN conversations \ Mine(q) /\ Finish(q, "forbidden")

\* arg: the page.  A negative OFFSET is an error.
ListMessages(q) ==
    /\ Serving(q, "history")
    /\ \/ Refuse(q)
       \/ call[q].on \in Mine(q) /\ call[q].arg \notin Nat /\ Finish(q, "error")
       \/ /\ call[q].on \in Mine(q) /\ call[q].arg \in Nat
          /\ \E page \in HistoryPages(call[q].on, call[q].arg) : Show(q, page)
    /\ UNCHANGED <<talks, visits>>

MarkRead(q) ==
    /\ Serving(q, "read")
    /\ \/ Refuse(q) /\ UNCHANGED messages
       \/ /\ call[q].on \in Mine(q)
          /\ messages' = [n \in DOMAIN messages |-> [messages[n] EXCEPT
                            !.state = IF n \in UnreadBy(By(q), call[q].on) THEN "read" ELSE @]]
          /\ Committed(q)
    /\ UNCHANGED <<conversations, visits>>

\* A frame has no answer; one of another conversation is dropped.
PersistMessage(q) ==
    /\ Serving(q, "say")
    /\ \/ call[q].on \notin Mine(q) /\ Finish(q, "forbidden") /\ UNCHANGED messages
       \/ /\ call[q].on \in Mine(q)
          /\ \E now \in {Latest, Latest + 1} :
                messages' = Append(messages, [of |-> call[q].on, by |-> By(q), from |-> q, at |-> now,
                                              state |-> "inserting", after |-> {}])
          /\ Goto(q, "inserting")
    /\ UNCHANGED <<conversations, visits>>

\* The insert commits.  A call that fails before leaves a row nobody sees.
MessageStored(q) ==
    /\ ServingAt(q, "say", "inserting")
    /\ messages' = [n \in DOMAIN messages |->
                       IF messages[n].from = q
                       THEN [messages[n] EXCEPT !.state = "unread", !.after = {p \in Calls : Done(p)}]
                       ELSE messages[n]]
    /\ Committed(q)
    /\ UNCHANGED <<conversations, visits>>

ConversationsStep(q) ==
    /\ \/ FindConversation(q) \/ InsertConversation(q) \/ ListConversations(q)
       \/ ListMessages(q) \/ MarkRead(q) \/ PersistMessage(q) \/ MessageStored(q)
    /\ UNCHANGED <<accounts, scene>>

-----------------------------------------------------------------------------
(* Properties.                                                             *)

\* Two users who open a conversation with each other at the same moment end up
\* in one: no pair has two, every answer names the one there is, and if nothing
\* fails who gets an error instead finds it on trying again
\* (service/chat.go:45-71, no transaction around the two statements).
OneConversationPerPair ==
    /\ \A i, j \in DOMAIN conversations : conversations[i] = conversations[j] => i = j
    /\ \A q \in Calls :
          LET pair == {By(q), call[q].on} IN
          /\ Served(q, "chat") =>
                \E i \in DOMAIN conversations : call[q].page = {i} /\ conversations[i] = pair
          /\ (call[q].kind = "chat" /\ call[q].outcome = "error" /\ call[q].on \in Users /\ ~scene.faults) =>
                \E i \in DOMAIN conversations : conversations[i] = pair

\* Who reads a conversation backwards, page after page, may see a message twice
\* if more is said meanwhile, but misses none between an older and a newer one
\* it is shown: none, that is, that could be seen when the earlier page was
\* read, and that is not of the very instant of one on that page.  (created_at
\* is older than the commit, and the order has no tie-break: a message whose
\* insert was under way then, or one of that instant, may be on neither page;
\* service/chat.go:121-126, :144-152.)  A message is marked read by the other
\* one alone, with a call that was not over when the message became visible;
\* and one that was visible to a call that succeeded is read, and unread in no
\* inbox asked for later (:93-94, :155-162).
HistoryIsExact ==
    /\ \A p, q \in Calls :
          (/\ Served(p, "history") /\ Served(q, "history") /\ p \in call[q].after
           /\ By(p) = By(q) /\ call[p].on = call[q].on /\ call[q].arg = call[p].arg + 1) =>
              \A m \in MessagesIn(call[q].on) :
                  (/\ p \notin messages[m].after
                   /\ \E new \in call[p].page : messages[m].at < messages[new].at
                   /\ \E old \in call[q].page : messages[old].at < messages[m].at) =>
                      \/ m \in call[q].page
                      \/ \E n \in call[p].page : messages[n].at = messages[m].at
    /\ \A n \in DOMAIN messages : messages[n].state = "read" =>
          \E r \in Calls : /\ call[r].kind = "read" /\ Done(r) /\ call[r].on = messages[n].of
                           /\ By(r) # messages[n].by /\ r \notin messages[n].after
    /\ \A r \in Calls : Served(r, "read") =>
          \A n \in MessagesIn(call[r].on) :
             (messages[n].by # By(r) /\ r \notin messages[n].after) =>
                /\ messages[n].state = "read"
                /\ \A q \in Calls : (Served(q, "inbox") /\ By(q) = By(r) /\ r \in call[q].after) =>
                      \A c \in call[q].page : n \notin c.unread
=============================================================================
