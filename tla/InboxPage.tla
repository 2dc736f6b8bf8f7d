----------------------------- MODULE InboxPage -----------------------------
(***************************************************************************)
(* The inbox page: the conversation that is open, the reply being written  *)
(* below it, which an effect fills with the AI draft whenever the thread   *)
(* changes, and the requests that are under way meanwhile.                 *)
(***************************************************************************)
EXTENDS Naturals, FiniteSets

CONSTANTS
    Talks,     \* conversations
    NoTalk,
    MaxNews,   \* bound: changes of one thread
    MaxAsks,   \* bound: replies, messages and deletions asked for
    MaxFails   \* bound: requests that fail

ASSUME InboxPageBounds == {MaxNews, MaxAsks, MaxFails} \subseteq Nat /\ NoTalk \notin Talks

VARIABLES
    kept,      \* conversations the API has
    news,      \* conversation -> changes of its thread
    listed,    \* conversations the list shows
    selected,  \* selectedConversationId
    thread,    \* conversation -> its cached thread and the fetch of it
    text,      \* the reply: the conversation it was loaded for, and whether it is empty
    sending,   \* where sendReplyMutation is posting to
    deleting,  \* what deleteConversationMutation is deleting
    compose,   \* the dialog is open; its message is being sent
    asks, fails,
    posted     \* replies posted: where to, what they were loaded for, and whether
               \* their thread had failed to load (history)

inboxPageVars ==
    <<kept, news, listed, selected, thread, text, sending, deleting, compose, asks, fails,
      posted>>

-----------------------------------------------------------------------------

Unseen == MaxNews + 1
NoThread == [data |-> Unseen, fetching |-> FALSE]
HasData(q, t) == q[t].data # Unseen

InboxPageTypeOK ==
    /\ kept \subseteq Talks /\ listed \subseteq Talks
    /\ {selected, sending, deleting, text.of} \subseteq Talks \cup {NoTalk}
    /\ thread \in [Talks -> [data : 0 .. Unseen, fetching : BOOLEAN]]
    /\ posted \subseteq [to : Talks, of : Talks \cup {NoTalk}, failed : BOOLEAN]

\* activeConversation: undefined until the thread of the selected one is cached.
Active(sel, q) ==
    IF sel # NoTalk /\ HasData(q, sel) THEN [talk |-> sel, news |-> q[sel].data]
    ELSE [talk |-> NoTalk, news |-> 0]

\* Mutant: the effect spares what was typed.
PopulateEmpty ==
    LET now == Active(selected', thread') IN
    IF now = Active(selected, thread) \/ now.talk = NoTalk \/ ~text.empty
    THEN UNCHANGED text
    ELSE \E empty \in BOOLEAN : text' = [of |-> now.talk, empty |-> empty]

\* The effect runs when activeConversation is another one or has changed; the text
\* becomes its draft, or nothing, and what was typed is gone.
Populate ==
    LET now == Active(selected', thread') IN
    IF now = Active(selected, thread) \/ now.talk = NoTalk THEN UNCHANGED text
    ELSE \E empty \in BOOLEAN : text' = [of |-> now.talk, empty |-> empty]

Ask(t) == [thread EXCEPT ![t].fetching = TRUE]
ApiStays == UNCHANGED <<kept, news>>
RequestsStay == UNCHANGED <<sending, deleting, compose, asks, posted>>

InboxPageInit ==
    /\ kept = Talks /\ listed = Talks
    /\ news = [t \in Talks |-> 0]
    /\ selected = NoTalk
    /\ thread = [t \in Talks |-> NoThread]
    /\ text = [of |-> NoTalk, empty |-> TRUE]
    /\ sending = NoTalk /\ deleting = NoTalk
    /\ compose = [open |-> FALSE, sending |-> FALSE]
    /\ asks = 0 /\ fails = 0 /\ posted = {}

-----------------------------------------------------------------------------
(* Threads *)

\* A thread is fetched when it was never loaded, or was 30 s ago.
OpenTalk(t) ==
    /\ t \in listed /\ ~compose.open
    /\ selected' = t
    /\ \/ thread' = Ask(t)
       \/ HasData(thread, t) /\ UNCHANGED thread
    /\ Populate
    /\ UNCHANGED <<listed, fails>> /\ ApiStays /\ RequestsStay

BackToList ==
    /\ selected # NoTalk /\ ~compose.open
    /\ selected' = NoTalk
    /\ UNCHANGED <<listed, thread, text, fails>> /\ ApiStays /\ RequestsStay

\* An answer that changes nothing leaves activeConversation as it was.
ThreadArrives(t) ==
    /\ thread[t].fetching /\ t \in kept
    /\ thread' = [thread EXCEPT ![t] = [data |-> news[t], fetching |-> FALSE]]
    /\ UNCHANGED <<listed, selected, fails>>
    /\ Populate
    /\ ApiStays /\ RequestsStay

\* Twice, or for a conversation that is gone.
ThreadFails(t) ==
    /\ thread[t].fetching /\ (t \notin kept \/ fails < MaxFails)
    /\ fails' = IF t \in kept THEN fails + 1 ELSE fails
    /\ thread' = [thread EXCEPT ![t].fetching = FALSE]
    /\ UNCHANGED <<listed, selected, text>> /\ ApiStays /\ RequestsStay

RefreshList ==
    /\ listed # kept
    /\ listed' = kept
    /\ UNCHANGED <<selected, thread, text, fails>> /\ ApiStays /\ RequestsStay

ProspectWrites(t) ==
    /\ t \in kept /\ news[t] < MaxNews
    /\ news' = [news EXCEPT ![t] = @ + 1]
    /\ UNCHANGED <<kept, listed, selected, thread, text, fails>> /\ RequestsStay

-----------------------------------------------------------------------------
(* Replies *)

\* The composer is below every thread that is not loading: one that failed too.
ComposerShown ==
    /\ selected # NoTalk /\ ~compose.open
    /\ HasData(thread, selected) \/ ~thread[selected].fetching

\* Typed, or added by a preset.
WriteReply ==
    /\ ComposerShown /\ text.empty
    /\ text' = [text EXCEPT !.empty = FALSE]
    /\ UNCHANGED <<listed, selected, thread, fails>> /\ ApiStays /\ RequestsStay

HandleSendReply ==
    /\ ComposerShown /\ ~text.empty /\ sending = NoTalk
    /\ asks < MaxAsks /\ asks' = asks + 1
    /\ sending' = selected
    /\ posted' = posted \cup {[to |-> selected, of |-> text.of,
                               failed |-> ~HasData(thread, selected)]}
    /\ UNCHANGED <<listed, selected, thread, text, deleting, compose, fails>> /\ ApiStays

\* What is refreshed is the conversation selected by now; the text stays.
ReplyAnswered ==
    /\ sending # NoTalk
    /\ sending' = NoTalk
    /\ \/ /\ sending \in kept /\ news[sending] < MaxNews
          /\ news' = [news EXCEPT ![sending] = @ + 1]
          /\ thread' = IF selected = NoTalk THEN thread ELSE Ask(selected)
          /\ UNCHANGED fails
       \/ /\ sending \notin kept \/ fails < MaxFails
          /\ fails' = IF sending \in kept THEN fails + 1 ELSE fails
          /\ UNCHANGED <<news, thread>>
    /\ UNCHANGED <<kept, listed, selected, text, deleting, compose, asks, posted>>

\* Changing the stage or suppressing the lead refreshes the thread.
ChangeLead ==
    /\ selected # NoTalk /\ HasData(thread, selected) /\ ~compose.open
    /\ news[selected] < MaxNews /\ asks < MaxAsks /\ asks' = asks + 1
    /\ news' = [news EXCEPT ![selected] = @ + 1]
    /\ thread' = Ask(selected)
    /\ UNCHANGED <<kept, listed, selected, text, sending, deleting, compose, fails, posted>>

-----------------------------------------------------------------------------
(* Deleting and composing *)

DeleteTalk ==
    /\ selected # NoTalk /\ HasData(thread, selected) /\ ~compose.open
    /\ deleting = NoTalk /\ asks < MaxAsks
    /\ deleting' = selected /\ asks' = asks + 1
    /\ UNCHANGED <<listed, selected, thread, text, sending, compose, fails, posted>> /\ ApiStays

\* Whatever is selected by now is closed.
DeleteAnswered ==
    /\ deleting # NoTalk
    /\ deleting' = NoTalk
    /\ \/ kept' = kept \ {deleting} /\ selected' = NoTalk /\ UNCHANGED fails
       \/ fails < MaxFails /\ fails' = fails + 1 /\ UNCHANGED <<kept, selected>>
    /\ UNCHANGED <<news, listed, thread, text, sending, compose, asks, posted>>

OpenCompose ==
    /\ ~compose.open
    /\ compose' = [compose EXCEPT !.open = TRUE]
    /\ UNCHANGED <<listed, selected, thread, text, sending, deleting, asks, fails, posted>>
    /\ ApiStays

CloseCompose ==
    /\ compose.open
    /\ compose' = [compose EXCEPT !.open = FALSE]
    /\ UNCHANGED <<listed, selected, thread, text, sending, deleting, asks, fails, posted>>
    /\ ApiStays

HandleSendCompose ==
    /\ compose.open /\ ~compose.sending /\ asks < MaxAsks
    /\ compose' = [compose EXCEPT !.sending = TRUE] /\ asks' = asks + 1
    /\ UNCHANGED <<listed, selected, thread, text, sending, deleting, fails, posted>>
    /\ ApiStays

\* The conversation of the message is selected, whatever was open by then.
ComposeAnswered ==
    /\ compose.sending
    /\ \/ \E t \in kept :
             /\ compose' = [open |-> FALSE, sending |-> FALSE]
             /\ selected' = t
             /\ \/ thread' = Ask(t)
                \/ HasData(thread, t) /\ UNCHANGED thread
             /\ Populate
             /\ UNCHANGED fails
       \/ /\ fails < MaxFails /\ fails' = fails + 1
          /\ compose' = [compose EXCEPT !.sending = FALSE]
          /\ UNCHANGED <<selected, thread, text>>
    /\ UNCHANGED <<listed, sending, deleting, asks, posted>> /\ ApiStays

InboxPageNext ==
    \/ \E t \in Talks :
          OpenTalk(t) \/ ThreadArrives(t) \/ ThreadFails(t) \/ ProspectWrites(t)
    \/ BackToList \/ RefreshList
    \/ WriteReply \/ HandleSendReply \/ ReplyAnswered \/ ChangeLead
    \/ DeleteTalk \/ DeleteAnswered
    \/ OpenCompose \/ CloseCompose \/ HandleSendCompose \/ ComposeAnswered

InboxPageSpec == InboxPageInit /\ [][InboxPageNext]_inboxPageVars

-----------------------------------------------------------------------------
(* Properties *)

\* A reply goes to the conversation its text was loaded for, also when answers,
\* deletions and composed messages move the selection while it is written, except
\* where the thread failed to load: there the composer still holds the text of the
\* conversation before (inbox page:141-180, 493-512).
ReplyFitsItsThread == \A r \in posted : r.of = r.to \/ r.failed

=============================================================================
