---------------------------- MODULE MessagePages ----------------------------
(***************************************************************************)
(* The messages of one conversation as the frontend loads them: the page   *)
(* loaded when its pane is mounted and older pages on scrolling up         *)
(* (ConversationMessagePane.tsx), prefetching (useMessagePrefetch.ts,      *)
(* sessionPrefetch.ts), the reload after a reconnection, and the trimming  *)
(* of a long list when the conversation is left (stores/appStore.ts).      *)
(*                                                                         *)
(* A message is its position in the table, counted from 1; a row that the  *)
(* frontend shows and nobody stores is 0. A message is stored and shown in *)
(* one step: what can come between is the subject of ConversationFeed.     *)
(* That a message may be in the list under an id the frontend made up only *)
(* matters for an older page that reaches into the list, and the list has  *)
(* a hole then.                                                            *)
(***************************************************************************)
EXTENDS Naturals, Sequences, FiniteSets, FiniteSetsExt, SequencesExt, Filter

CONSTANTS
    PAGE_SIZE,                      \* limit of a request
    MESSAGE_EVICTION_THRESHOLD,
    MESSAGE_EVICTION_KEEP,
    OldMessages,                    \* messages of a conversation of an earlier run
    MaxStored,                      \* bound on the messages
    MaxLocal,                       \* bound on the rows that are not stored
    MaxReads                        \* bound on the requests

ASSUME PageBounds ==
    /\ {OldMessages, MaxStored, MaxLocal, MaxReads} \subseteq Nat /\ OldMessages <= MaxStored
    /\ {PAGE_SIZE, MESSAGE_EVICTION_THRESHOLD, MESSAGE_EVICTION_KEEP} \subseteq Nat \ {0}
    /\ MESSAGE_EVICTION_KEEP <= MESSAGE_EVICTION_THRESHOLD

VARIABLES
    stored,             \* external: messages in the table
    loaded,             \* messagesByConversation
    embedded,           \* the rows of it that were marked embeddedInTimeline
    localRows,          \* rows ever shown and not stored
    pagination,         \* messagePagination: no record or one
    selected, mounted,  \* the conversation is selected, its pane is mounted
    reads, readsMade,   \* requests under way, and ever made
    holes               \* history: what broke the list since a page last replaced it

listVarsOfPages == <<loaded, embedded, pagination, holes>>
paneVars == <<selected, mounted>>
readVars == <<reads, readsMade>>
pageVars == <<stored, localRows, listVarsOfPages, paneVars, readVars>>

Positions == 0 .. MaxStored
Stored == 1 .. MaxStored
\* A cursor is no position (null), the position of a message, or 0, which
\* an empty page carries.
Cursors == {{}} \cup {{n} : n \in Positions}
\* The page the pane asks for when it is mounted, any other first page, or
\* an older one.
Requests == {"pane", "page", "older"}

PagesTypeOK ==
    /\ stored \in Positions
    /\ loaded \in Seq(Positions) /\ embedded \subseteq Stored
    /\ localRows \in 0 .. MaxLocal
    /\ Cardinality(pagination) <= 1
    /\ pagination \subseteq [hasMore : BOOLEAN, oldest : Cursors, loading : BOOLEAN,
                             total : 0 .. MaxStored + MaxLocal]
    /\ {selected, mounted} \subseteq BOOLEAN /\ (selected => mounted)
    /\ readsMade \in 0 .. MaxReads
    /\ \A r \in reads : /\ r.id \in 1 .. MaxReads /\ r.kind \in Requests /\ r.before \in Cursors
                        /\ r.answered \in BOOLEAN /\ r.page \in Seq(Stored)
    /\ holes \subseteq {"unloaded", "unseen", "evicted", "outdated", "raced"}

PagesInit ==
    /\ stored \in {0, OldMessages}
    /\ loaded = <<>> /\ embedded = {} /\ localRows = 0 /\ pagination = {}
    /\ selected = FALSE /\ mounted = FALSE
    /\ reads = {} /\ readsMade = 0
    /\ holes = {}
-----------------------------------------------------------------------------
First(list) == IF list = <<>> THEN 0 ELSE list[1]

\* The rows before the cursor, newest first, as many as the limit allows.
Before(cursor) == {p \in 1 .. stored : \A n \in cursor : p < n}
PageBefore(cursor) ==
    LET newest == {p \in Before(cursor) : Cardinality({q \in Before(cursor) : q > p}) < PAGE_SIZE}
    IN  [i \in 1 .. Cardinality(newest) |-> Min(newest) + i - 1]
MoreBefore(cursor) == Cardinality(Before(cursor)) > PAGE_SIZE

Request(kind, cursor) ==
    /\ readsMade < MaxReads
    /\ readsMade' = readsMade + 1
    /\ LET id == Min((1 .. MaxReads) \ {r.id : r \in reads})
       IN  reads' = reads \cup {[id |-> id, kind |-> kind, before |-> cursor, answered |-> FALSE,
                                 page |-> <<>>, hasMore |-> FALSE, total |-> 0]}

ServerReads(r) ==
    /\ ~r.answered
    /\ reads' = (reads \ {r}) \cup {[r EXCEPT !.answered = TRUE, !.page = PageBefore(r.before),
                                              !.hasMore = MoreBefore(r.before), !.total = stored]}
    /\ UNCHANGED <<stored, localRows, listVarsOfPages, paneVars, readsMade>>
-----------------------------------------------------------------------------
(* The list grows at its end. *)
\* However many rows come, totalCount grows by one: of two, one is not a row of its own.
AppendRows(rows) ==
    /\ loaded' = loaded \o rows
    /\ pagination' = {[p EXCEPT !.total = @ + 1] : p \in pagination}
    /\ holes' = holes \cup {h \in {"unloaded"} : loaded = <<>> /\ stored > 0}
    /\ UNCHANGED <<paneVars, readVars>>

\* A message of the user, of the agent or of the system, stored by the
\* backend and appended to the list.
AddMessage ==
    /\ stored < MaxStored
    /\ stored' = stored + 1
    /\ AppendRows(<<stored + 1>>)
    /\ UNCHANGED <<embedded, localRows>>

\* finalizeStreamingMessage with text and a queued message: the answer, and the message
\* of the user, which is shown in the answer's timeline.
AddAnswerAndQueued ==
    /\ stored + 1 < MaxStored
    /\ stored' = stored + 2
    /\ AppendRows(<<stored + 1, stored + 2>>)
    /\ embedded' = embedded \cup {stored + 2}
    /\ UNCHANGED localRows

\* An error of sending, or the notice that the agent was stopped.
AddLocalRow ==
    /\ localRows < MaxLocal
    /\ localRows' = localRows + 1
    /\ AppendRows(<<0>>)
    /\ UNCHANGED <<stored, embedded>>

\* A message that is sent without being shown.
StoreUnseen ==
    /\ stored < MaxStored
    /\ stored' = stored + 1
    /\ holes' = holes \cup {h \in {"unseen"} : loaded # <<>>}
    /\ UNCHANGED <<loaded, embedded, localRows, pagination, paneVars, readVars>>

\* The pane is mounted when the conversation is selected, and asks for the
\* latest page unless the list has something in it.
Select ==
    /\ ~selected
    /\ selected' = TRUE /\ mounted' = TRUE
    /\ IF ~mounted /\ loaded = <<>> THEN Request("pane", {}) ELSE UNCHANGED readVars
    /\ UNCHANGED <<stored, localRows, listVarsOfPages>>

\* Unmounting aborts the pane's first request, not those for older pages.
WithoutPane == {r \in reads : r.kind # "pane"}

UnmountPane ==
    /\ mounted /\ ~selected
    /\ mounted' = FALSE /\ reads' = WithoutPane
    /\ UNCHANGED <<stored, localRows, listVarsOfPages, selected, readsMade>>

\* evictConversationMessages keeps the cursor of the page loaded last.
EvictConversationMessages ==
    IF Len(loaded) <= MESSAGE_EVICTION_THRESHOLD
    THEN UNCHANGED listVarsOfPages
    ELSE LET old == IF pagination # {} THEN pagination
                    ELSE {[hasMore |-> TRUE, oldest |-> {}, loading |-> FALSE,
                           total |-> Len(loaded)]}
         IN  /\ loaded' = SubSeq(loaded, Len(loaded) - MESSAGE_EVICTION_KEEP + 1, Len(loaded))
             /\ embedded' = embedded \cap ToSet(loaded')
             /\ pagination' = {[p EXCEPT !.hasMore = TRUE, !.loading = FALSE] : p \in old}
             /\ holes' = holes \cup {"evicted"}

\* Selecting another conversation of the session trims the list, and
\* drops the pane from the cache.
SelectOther ==
    /\ selected
    /\ selected' = FALSE /\ mounted' = FALSE /\ reads' = WithoutPane
    /\ EvictConversationMessages
    /\ UNCHANGED <<stored, localRows, readsMade>>

\* Selecting another session: the one left is always in the cache of
\* mounted sessions, so nothing is trimmed and the pane stays.
SelectOtherSession ==
    /\ selected
    /\ selected' = FALSE
    /\ UNCHANGED <<stored, localRows, listVarsOfPages, mounted, readVars>>

\* At idle time, or on hovering over the session. The list was empty when
\* the conversations were collected; only pagination is looked at again.
Prefetch ==
    /\ pagination = {}
    /\ Request("page", {})
    /\ UNCHANGED <<stored, localRows, listVarsOfPages, paneVars>>

\* At start-up for the conversation selected, or after a reconnection.
Reload ==
    /\ Request("page", {})
    /\ UNCHANGED <<stored, localRows, listVarsOfPages, paneVars>>

HandleStartReached ==
    /\ selected /\ loaded # <<>>
    /\ \E p \in pagination :
         /\ p.hasMore /\ ~p.loading
         /\ pagination' = {[p EXCEPT !.loading = TRUE]}
         /\ Request("older", p.oldest)
    /\ UNCHANGED <<stored, localRows, loaded, embedded, holes, paneVars>>

\* It fails, or an aborted prefetch discards its page. A retry of the
\* pane's is the same request, answered later.
ReadFails(r) ==
    /\ reads' = reads \ {r}
    /\ pagination' = {[p EXCEPT !.loading = @ /\ r.kind # "older"] : p \in pagination}
    /\ UNCHANGED <<stored, localRows, loaded, embedded, holes, paneVars, readsMade>>

SetMessagePageOf(r) ==
    /\ r.answered /\ r.kind # "older"
    /\ reads' = reads \ {r}
    /\ loaded' = r.page /\ embedded' = {}
    /\ pagination' = {[hasMore |-> r.hasMore, oldest |-> {First(r.page)}, loading |-> FALSE,
                       total |-> r.total]}
    /\ holes' = {h \in {"outdated"} : r.total < stored}
    /\ UNCHANGED <<stored, localRows, paneVars, readsMade>>

\* Messages whose id is in the list already are left out of the page.
Prepended(r) == Only(r.page, Positions \ ToSet(loaded)) \o loaded

\* Mutant of PrependMessages: the cursor stays where it was.
PrependKeepsCursor(r) ==
    /\ r.answered /\ r.kind = "older"
    /\ reads' = reads \ {r}
    /\ loaded' = Prepended(r)
    /\ pagination' = {[p EXCEPT !.hasMore = r.hasMore, !.loading = FALSE] : p \in pagination}
    /\ holes' = holes \cup {h \in {"raced"} : \E p \in pagination : p.oldest # r.before}
    /\ UNCHANGED <<stored, localRows, embedded, paneVars, readsMade>>

PrependMessages(r) ==
    /\ r.answered /\ r.kind = "older"
    /\ reads' = reads \ {r}
    /\ loaded' = Prepended(r)
    /\ pagination' = {[p EXCEPT !.hasMore = r.hasMore, !.oldest = {First(r.page)},
                                !.loading = FALSE] : p \in pagination}
    /\ holes' = holes \cup {h \in {"raced"} : \E p \in pagination : p.oldest # r.before}
    /\ UNCHANGED <<stored, localRows, embedded, paneVars, readsMade>>

PagesNext ==
    \/ AddMessage \/ AddAnswerAndQueued \/ AddLocalRow \/ StoreUnseen
    \/ Select \/ UnmountPane \/ SelectOther \/ SelectOtherSession
    \/ Prefetch \/ Reload \/ HandleStartReached
    \/ \E r \in reads : ServerReads(r) \/ ReadFails(r) \/ SetMessagePageOf(r) \/ PrependMessages(r)

PagesSpec == PagesInit /\ [][PagesNext]_pageVars
-----------------------------------------------------------------------------
\* What is stored of the list is a stretch of the conversation without gap or
\* repetition that ends in its last message, and what is before it can be reached
\* by scrolling up: the cursor is the first message of it. And the list computes
\* its first index right: totalCount exceeds the rows it shows, those not embedded
\* in a timeline, by the messages before them.
\* It can break in five ways, each until a page replaces the list: a row was
\* appended to a list never loaded, so that the pane will not load it; a message
\* was stored and not appended; a list was trimmed, and keeps the cursor and the
\* total it had; a page replaced messages newer than itself; an older page arrived
\* for a cursor that is not the list's any more.
PagesContiguous ==
    loaded # <<>> /\ holes = {} =>
        LET rows == Only(loaded, Stored)
            before == stored - Len(rows)
        IN  /\ \A i \in DOMAIN rows : rows[i] = before + i
            /\ before = 0 \/ \E p \in pagination : p.hasMore /\ p.oldest = {before + 1}
            /\ \A p \in pagination :
                   p.total - (Len(loaded) - Cardinality(embedded)) = before
=============================================================================
