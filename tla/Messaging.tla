----------------------------- MODULE Messaging -----------------------------
(***************************************************************************)
(* One conversation between two participants, seen by one of them: the     *)
(* other's sendMessage requests and the read position of                   *)
(* apps/api/src/modules/messaging, and the chat windows of the reader, of  *)
(* apps/web/src/modules/messaging/components/ChatWindow.                   *)
(*                                                                         *)
(* The reader's own messages count for nothing here but their effect on    *)
(* the window they are sent from (WindowUsed).  A window shows the newest  *)
(* pages of the thread, in the order of the ids, and one poll reads all    *)
(* its pages at one moment.                                                *)
(***************************************************************************)
EXTENDS Naturals, FiniteSets, FiniteSetsExt, SequencesExt

CONSTANTS
    SendRequest,    \* sendMessage requests at a time
    ChatWindow,     \* windows the reader has open
    PageSize,       \* MESSAGES_LIMIT
    MessageLimit    \* bound: messages

ASSUME MessagingAssumption ==
    PageSize \in Nat \ {0} /\ MessageLimit \in Nat \ {0}

VARIABLES
    nextMessage,   \* AUTO_INCREMENT of messages
    sending,       \* the requests' transactions
    posted,        \* committed messages, in the order of their commits
    removed,       \* messages with deleted_at
    lastRead,      \* the reader's last_read_message_id
    chat,          \* the windows
    marks,         \* PATCH .../read requests under way: window and message
    seen,          \* messages some window has shown
    marksUpset     \* a mark arrived after a later one, or was lost

messagingVars == <<nextMessage, sending, posted, removed, lastRead, chat, marks,
                   seen, marksUpset>>

NoMessage == 0
MessageId == 1..MessageLimit
Sending == [pc: {"idle", "numbered", "inserted", "touched"},
            id: {NoMessage} \cup MessageId]

\* thread, pages, more: what the window has of the messages query, from how many
\* pages, and whether there is an earlier one; unread, read: what it has of the
\* conversation query; stale: the latter is to be fetched again; due: the effect
\* that marks the conversation read has to run.
Chat == [thread: SUBSET MessageId, pages: Nat \ {0}, more: BOOLEAN, unread: Nat,
         read: {NoMessage} \cup MessageId, stale: BOOLEAN, due: BOOLEAN]

InitMessaging ==
    /\ nextMessage = 1
    /\ sending = [q \in SendRequest |-> [pc |-> "idle", id |-> NoMessage]]
    /\ posted = <<>> /\ removed = {}
    /\ lastRead = NoMessage
    /\ chat = [w \in ChatWindow |->
          [thread |-> {}, pages |-> 1, more |-> FALSE, unread |-> 0,
           read |-> NoMessage, stale |-> FALSE, due |-> FALSE]]
    /\ marks = {} /\ seen = {} /\ marksUpset = FALSE

Visible == ToSet(posted) \ removed
Unread == {m \in Visible : m > lastRead}

-----------------------------------------------------------------------------
(* sendMessage.  The INSERT takes its id first, and then a shared lock on    *)
(* the conversation for its foreign key; touchLastMessageAt locks the row.  *)

SendersAt(pcs) == {q \in SendRequest : sending[q].pc \in pcs}

SendStep(q, from, to) ==
    /\ sending[q].pc = from
    /\ sending' = [sending EXCEPT ![q].pc = to]
    /\ UNCHANGED <<nextMessage, removed, lastRead, chat, marks, seen,
                   marksUpset>>

NumberMessage(q) ==
    /\ sending[q].pc = "idle" /\ nextMessage \in MessageId
    /\ sending' =
          [sending EXCEPT ![q] = [pc |-> "numbered", id |-> nextMessage]]
    /\ nextMessage' = nextMessage + 1
    /\ UNCHANGED <<posted, removed, lastRead, chat, marks, seen, marksUpset>>

InsertMessage(q) ==
    /\ SendersAt({"touched"}) = {}
    /\ SendStep(q, "numbered", "inserted")
    /\ UNCHANGED posted

TouchLastMessageAt(q) ==
    /\ SendersAt({"inserted", "touched"}) = {q}
    /\ SendStep(q, "inserted", "touched")
    /\ UNCHANGED posted

CommitMessage(q) ==
    /\ SendStep(q, "touched", "idle")
    /\ posted' = Append(posted, sending[q].id)

\* Two that hold the shared lock both want the row: one is the victim.  A
\* request may also die, or its insert fail, without an effect.
SendRolledBack(q) ==
    /\ \E pc \in {"numbered", "inserted", "touched"} : SendStep(q, pc, "idle")
    /\ UNCHANGED posted

\* softDeleteMessage
DeleteMessage ==
    /\ \E m \in Visible : removed' = removed \cup {m}
    /\ UNCHANGED <<nextMessage, sending, posted, lastRead, chat, marks, seen,
                   marksUpset>>

-----------------------------------------------------------------------------
(* The windows *)

ChatStep(w, next) ==
    /\ chat' = [chat EXCEPT ![w] = next]
    /\ UNCHANGED <<nextMessage, sending, posted, removed>>

\* The newest k of some messages.
Newest(k, messages) ==
    {m \in messages : Cardinality({x \in messages : x > m}) < k}

\* A refetch reads as many pages as there are, up to those it had.
PagesLeft(pages) ==
    Max({p \in 1..pages : p = 1 \/ (p - 1) * PageSize < Cardinality(Visible)})

Refetched(c) ==
    LET pages == PagesLeft(c.pages)
        thread == Newest(pages * PageSize, Visible)
    IN  [c EXCEPT !.thread = thread, !.pages = pages,
                  !.more = thread # Visible]

\* The poll of subscribeToConversation: messagesQuery.refetch.
PollMessages(w) ==
    LET c == Refetched(chat[w])
    IN  /\ c # chat[w]
        /\ ChatStep(w, [c EXCEPT !.due = TRUE])
        /\ seen' = seen \cup c.thread
        /\ UNCHANGED <<lastRead, marks, marksUpset>>

\* The reader asks for earlier messages: fetchNextPage.
LoadEarlier(w) ==
    LET c == chat[w]
        older == {m \in Visible : \A x \in c.thread : m < x}
        page == Newest(PageSize, older)
    IN  /\ c.more
        /\ ChatStep(w, [c EXCEPT !.thread = @ \cup page, !.pages = @ + 1,
                                 !.more = page # older, !.due = TRUE])
        /\ seen' = seen \cup page
        /\ UNCHANGED <<lastRead, marks, marksUpset>>

FetchConversation(w) ==
    LET unread == Cardinality(Unread)
    IN  /\ chat[w].stale
        /\ ChatStep(w, [chat[w] EXCEPT !.unread = unread, !.read = lastRead,
                           !.stale = FALSE,
                           !.due = @ \/ unread # chat[w].unread])
        /\ UNCHANGED <<lastRead, marks, seen, marksUpset>>

\* MUTANT: the thread is taken to be newest first, as the repository pages it.
FirstOf(thread) == Min(thread)

LastOf(thread) == Max(thread)

MarksRead(c) ==
    c.thread # {} /\ c.unread > 0 /\ c.read # LastOf(c.thread)

\* The effect on [messages, unread_count].
MarkReadEffect(w) ==
    /\ chat[w].due
    /\ ChatStep(w, [chat[w] EXCEPT !.due = FALSE])
    /\ marks' = marks \cup {<<w, LastOf(chat[w].thread)>> :
                               x \in {y \in {w} : MarksRead(chat[y])}}
    /\ UNCHANGED <<lastRead, seen, marksUpset>>

\* MUTANT: everything there is becomes read.
MarkedAll(m) == Max({NoMessage} \cup Visible)

MarkedUpTo(m) == m

\* markRead, unconditionally; on success every messaging query is invalidated.
MarkRead(mark) ==
    /\ mark \in marks
    /\ marks' = marks \ {mark}
    /\ lastRead' = MarkedUpTo(mark[2])
    /\ marksUpset' = (marksUpset \/ mark[2] < lastRead)
    /\ ChatStep(mark[1], [chat[mark[1]] EXCEPT !.stale = TRUE])
    /\ UNCHANGED seen

\* The request fails: mutations are not retried.
MarkLost(mark) ==
    /\ mark \in marks
    /\ marks' = marks \ {mark}
    /\ marksUpset' = TRUE
    /\ UNCHANGED <<nextMessage, sending, posted, removed, lastRead, chat, seen>>

\* The reader sends, archives or opens the window again: its conversation query
\* is fetched again.  Neither polling nor focus nor a deletion does that.
WindowUsed(w) ==
    /\ ~chat[w].stale
    /\ ChatStep(w, [chat[w] EXCEPT !.stale = TRUE])
    /\ UNCHANGED <<lastRead, marks, seen, marksUpset>>

-----------------------------------------------------------------------------
MessagingNext ==
    \/ \E q \in SendRequest :
          \/ NumberMessage(q) \/ InsertMessage(q) \/ TouchLastMessageAt(q)
          \/ CommitMessage(q) \/ SendRolledBack(q)
    \/ DeleteMessage
    \/ \E w \in ChatWindow :
          \/ PollMessages(w) \/ LoadEarlier(w) \/ FetchConversation(w)
          \/ MarkReadEffect(w) \/ WindowUsed(w)
    \/ \E mark \in marks : MarkRead(mark) \/ MarkLost(mark)

MessagingSpec == InitMessaging /\ [][MessagingNext]_messagingVars

\* An open window goes on polling and its requests are answered.  That it is
\* used is up to the reader.
MessagingFairness ==
    /\ \A w \in ChatWindow :
          /\ WF_messagingVars(PollMessages(w))
          /\ WF_messagingVars(FetchConversation(w))
          /\ WF_messagingVars(MarkReadEffect(w))
    /\ WF_messagingVars(\E mark \in marks : MarkRead(mark))

MessagingFairSpec == MessagingSpec /\ MessagingFairness

-----------------------------------------------------------------------------
(* Properties *)

MessagingTypeOK ==
    /\ nextMessage \in 1..(MessageLimit + 1)
    /\ sending \in [SendRequest -> Sending]
    /\ posted \in Seq(MessageId)
    /\ removed \subseteq MessageId /\ seen \subseteq MessageId
    /\ lastRead \in {NoMessage} \cup MessageId
    /\ chat \in [ChatWindow -> Chat]
    /\ marks \subseteq ChatWindow \X MessageId
    /\ marksUpset \in BOOLEAN

CommittedBefore(m, k) ==
    \E i, j \in DOMAIN posted : i < j /\ posted[i] = m /\ posted[j] = k

\* However windows, polls and marks overlap, a message that counts as read was
\* on the reader's screen, with two exceptions: one that took its id before a
\* later one and was committed after it, and one from which the read position is
\* a page away or more, because a window marks up to its last message although
\* it shows no more than the newest pages (ChatWindow, MESSAGES_LIMIT).
ReadWasSeen ==
    \A m \in Visible :
        m <= lastRead =>
            \/ m \in seen
            \/ \E k \in MessageId : k > m /\ CommittedBefore(k, m)
            \/ Cardinality({k \in ToSet(posted) : m < k /\ k <= lastRead})
                  >= PageSize

\* A message on the screen does not stay unread in a window that goes on being
\* used, unless a mark was lost or overtaken (the effect of ChatWindow).
ShownBecomesRead ==
    \A w \in ChatWindow, m \in MessageId :
        []<>chat[w].stale =>
            (m \in chat[w].thread ~>
                m <= lastRead \/ m \in removed \/ marksUpset)
=============================================================================
