----------------------------- MODULE Navigation -----------------------------
(***************************************************************************)
(* Where the user is and how they get back: navigation with its debounce   *)
(* (lib/navigation.ts), the back and forward stacks of every browser tab   *)
(* (stores/navigationStore.ts), the tabs themselves (stores/tabStore.ts,   *)
(* BrowserTabBar.tsx, useMenuHandlers.ts), and the selection of sessions   *)
(* and conversations (stores/appStore.ts).                                 *)
(*                                                                         *)
(* A location is a session, a conversation and a view. The workspace goes  *)
(* with the session and is left out.                                       *)
(***************************************************************************)
EXTENDS Naturals, Sequences, FiniteSets, SequencesExt, Filter

CONSTANTS
    Conversations,      \* a function from sessions to their conversations, in order
    NoId, Absent,       \* null, and a parameter that is not given
    MAX_HISTORY_SIZE,
    MAX_TABS,
    MaxTabIds,          \* bound on the tabs ever created
    MaxSteps            \* bound on what the user does

Sessions == DOMAIN Conversations
AllConversations == UNION {ToSet(Conversations[s]) : s \in Sessions}

ASSUME NavigationAssumption ==
    /\ \A s \in Sessions : Conversations[s] \in Seq(AllConversations)
    /\ \A s, t \in Sessions : s # t => ToSet(Conversations[s]) \cap ToSet(Conversations[t]) = {}
    /\ {NoId, Absent} \cap (Sessions \cup AllConversations) = {} /\ NoId # Absent
    /\ {MAX_HISTORY_SIZE, MAX_TABS, MaxTabIds} \subseteq Nat \ {0} /\ MaxSteps \in Nat

VARIABLES
    selectable, existing,   \* sessions that can be selected, conversations that exist
    lastActive,             \* lastActiveConversationPerSession
    shown,                  \* the location on the screen
    pendingNavigate,        \* the navigation that waits for the debounce
    tabOrder, activeTab,    \* the tab store
    saved, ids,             \* per tab, the location it keeps; tabs created so far
    historyTab,             \* the tab whose history is active
    backStack, forwardStack,    \* per tab
    past, future,           \* history, per tab: where a browser's buttons would lead
    scrambled,              \* history: tabs whose stacks were left out of order
    strayed,                \* history: how the selection and the tabs came apart
    steps

selectionVars == <<selectable, existing, lastActive>>
bar == <<tabOrder, activeTab, ids, historyTab>>
stacks == <<backStack, forwardStack, past, future, scrambled>>
navVars == <<selectionVars, shown, pendingNavigate, bar, saved, stacks, strayed, steps>>

Views == {"conversation", "dashboard"}
Location == [session : Sessions \cup {NoId}, conv : AllConversations \cup {NoId}, view : Views]
TabIds == 1 .. MaxTabIds
SessionOf(c) == CHOOSE s \in Sessions : c \in ToSet(Conversations[s])

\* What the sidebar and the dashboards ask for: a session, one of its conversations, a
\* repository's dashboard, or one that leaves the selection alone.
Targets ==
    {[session |-> s, conv |-> Absent, view |-> "conversation"] : s \in Sessions} \cup
    {[session |-> SessionOf(c), conv |-> c, view |-> "conversation"] : c \in AllConversations} \cup
    {[session |-> s, conv |-> Absent, view |-> "dashboard"] : s \in {NoId, Absent}}
NoTarget == [session |-> Absent, conv |-> Absent, view |-> "none"]

NavTypeOK ==
    /\ selectable \subseteq Sessions /\ existing \subseteq AllConversations
    /\ lastActive \in [Sessions -> AllConversations \cup {NoId}]
    /\ shown \in Location /\ pendingNavigate \in Targets \cup {NoTarget}
    /\ tabOrder \in Seq(TabIds) /\ IsInjective(tabOrder) /\ Len(tabOrder) \in 1 .. MAX_TABS
    /\ activeTab \in ToSet(tabOrder) /\ ids \in TabIds /\ historyTab \in TabIds
    /\ saved \in [TabIds -> Location]
    /\ \A stack \in {backStack, forwardStack, past, future} : stack \in [TabIds -> Seq(Location)]
    /\ \A t \in TabIds : Len(backStack[t]) + Len(forwardStack[t]) <= MAX_HISTORY_SIZE
    /\ scrambled \subseteq TabIds /\ steps \in 0 .. MaxSteps

Start == [session |-> NoId, conv |-> NoId, view |-> "dashboard"]
NoHistory == [t \in TabIds |-> <<>>]

NavInit ==
    /\ selectable = Sessions /\ existing = AllConversations
    /\ lastActive = [s \in Sessions |-> NoId]
    /\ shown = Start /\ pendingNavigate = NoTarget
    /\ tabOrder = <<1>> /\ activeTab = 1 /\ ids = 1 /\ historyTab = 1
    /\ saved = [t \in TabIds |-> Start]
    /\ backStack = NoHistory /\ forwardStack = NoHistory
    /\ past = NoHistory /\ future = NoHistory
    /\ scrambled = {} /\ strayed = {} /\ steps = 0

Step == steps < MaxSteps /\ steps' = steps + 1
Stray(why) == strayed' = strayed \cup why

-----------------------------------------------------------------------------
(* Selecting. *)
Selectable(s) == IF s \in selectable THEN s ELSE NoId

\* selectSession restores the conversation last active, or takes the first.
ConversationFor(s, among) ==
    LET here == IF s = NoId THEN <<>>
                ELSE Only(Conversations[s], among) IN
    IF here = <<>> THEN NoId
    ELSE IF lastActive[s] \in ToSet(here) THEN lastActive[s] ELSE here[1]

\* selectConversation, with session s selected, remembers the conversation for its
\* session.
Remember(c, s) ==
    LET owner == IF c \in existing THEN SessionOf(c) ELSE s IN
    lastActive' = IF c = NoId \/ owner = NoId THEN lastActive
                  ELSE [lastActive EXCEPT ![owner] = c]

\* The selection is where the entry says, as far as the entry is still there.
Fits(loc) == loc.conv = NoId \/ (loc.conv \in existing /\ loc.session = SessionOf(loc.conv))

ShowAt(s, c, view) ==
    /\ shown' = [session |-> s, conv |-> c, view |-> view]
    /\ Remember(c, s)

\* applyEntry, also into the active tab.
ApplyEntry(entry) ==
    /\ ShowAt(Selectable(entry.session), entry.conv, entry.view)
    /\ saved' = [saved EXCEPT ![activeTab] = entry]
    /\ Stray(IF entry.conv # NoId /\ (entry.conv \notin existing \/ entry.session \notin selectable)
             THEN {"entry"} ELSE {})

SelectConversation(c) ==
    /\ Step
    /\ shown.session # NoId /\ c \in existing \cap ToSet(Conversations[shown.session])
    /\ ShowAt(shown.session, c, shown.view)
    /\ UNCHANGED <<selectable, existing, pendingNavigate, bar, saved, stacks, strayed>>

\* The neighbour of a removed conversation is selected: the next one, else the one before.
RemoveConversation(c) ==
    /\ Step
    /\ c \in existing /\ existing' = existing \ {c}
    /\ LET s == SessionOf(c)
           before == Only(Conversations[s], existing)
           left == Only(before, existing \ {c})
           i == CHOOSE k \in DOMAIN before : before[k] = c
           next == IF left = <<>> THEN NoId ELSE left[Max({1, i - 1, i} \cap DOMAIN left)]
       IN /\ shown' = IF shown.conv = c THEN [shown EXCEPT !.conv = next] ELSE shown
          /\ lastActive' = IF lastActive[s] = c THEN [lastActive EXCEPT ![s] = NoId]
                           ELSE lastActive
    /\ UNCHANGED <<selectable, pendingNavigate, bar, saved, stacks, strayed>>

\* Archiving the selected session selects another one.
ArchiveSession(s) ==
    /\ Step
    /\ s \in selectable /\ selectable' = selectable \ {s}
    /\ IF shown.session # s THEN UNCHANGED shown
       ELSE \E t \in (IF selectable' = {} THEN {NoId} ELSE selectable') :
                shown' = [shown EXCEPT !.session = t, !.conv = ConversationFor(t, existing)]
    /\ UNCHANGED <<existing, lastActive, pendingNavigate, bar, saved, stacks, strayed>>

-----------------------------------------------------------------------------
(* Going somewhere. *)
\* Mutant of Latest: the history is not cut.
AllEntries(stack) == stack

Latest(stack) == SubSeq(stack, Max({1, Len(stack) - MAX_HISTORY_SIZE + 1}), Len(stack))

Pushed(stack) ==
    IF stack # <<>> /\ Last(stack) = shown THEN stack ELSE Latest(Append(stack, shown))

\* pushEntry: a place that is on top of the stack is not pushed again. The forward stack
\* is then kept.
PushEntry ==
    LET t == historyTab
        again == backStack[t] # <<>> /\ Last(backStack[t]) = shown IN
    /\ backStack' = [backStack EXCEPT ![t] = Pushed(@)]
    /\ forwardStack' = IF again THEN forwardStack ELSE [forwardStack EXCEPT ![t] = <<>>]
    /\ past' = [past EXCEPT ![t] = Pushed(@)]
    /\ future' = [future EXCEPT ![t] = <<>>]
    /\ scrambled' = IF again /\ forwardStack[t] # <<>> THEN scrambled \cup {t} ELSE scrambled

\* What a target changes of a location; the tab keeps what is not given.
Visit(target) ==
    LET s == IF target.session = Absent THEN shown.session ELSE Selectable(target.session)
        c == IF target.conv # Absent /\ s # NoId THEN target.conv
             ELSE IF target.session = Absent THEN shown.conv ELSE ConversationFor(s, existing)
        kept == saved[activeTab]
    IN /\ shown' = [session |-> s, conv |-> c, view |-> target.view]
       /\ IF target.conv # Absent /\ s # NoId THEN Remember(c, s) ELSE UNCHANGED lastActive
       /\ saved' = [saved EXCEPT ![activeTab] =
              [session |-> IF target.session = Absent THEN kept.session ELSE s,
               conv |-> IF target.conv # Absent /\ s # NoId THEN c ELSE kept.conv,
               view |-> target.view]]
       /\ Stray(IF target.conv # Absent /\ c = target.conv /\ c \notin existing THEN {"late"} ELSE {})

ExecuteNavigation(target) ==
    /\ PushEntry /\ Visit(target)
    /\ UNCHANGED <<selectable, existing, bar>>

\* Only a session asked for right after another waits.
Navigate(target) ==
    /\ Step
    /\ target.conv \in existing \cup {Absent} /\ target.session \in selectable \cup {NoId, Absent}
    /\ pendingNavigate' = NoTarget
    /\ ExecuteNavigation(target)

DeferNavigate(target) ==
    /\ Step
    /\ target.conv \in existing \cup {Absent} /\ target.session \in selectable
    /\ pendingNavigate' = target
    /\ UNCHANGED <<selectionVars, shown, bar, saved, stacks, strayed>>

NavigateTimer ==
    /\ pendingNavigate # NoTarget /\ pendingNavigate' = NoTarget
    /\ ExecuteNavigation(pendingNavigate)
    /\ UNCHANGED steps

-----------------------------------------------------------------------------
(* Back and forward. *)
Valid(entry) ==
    \/ entry.view = "dashboard"
    \/ entry.session \in selectable \cup {NoId} /\ entry.conv \in existing \cup {NoId}

LastValid(stack) ==
    LET valid == {i \in DOMAIN stack : Valid(stack[i])} IN
    IF valid = {} THEN 0 ELSE Max(valid)

\* Mutant of GoBack: the place that is left is not kept for going forward.
GoBackLosesPlace ==
    LET t == historyTab
        i == LastValid(backStack[t]) IN
    /\ Step
    /\ backStack[t] # <<>>
    /\ backStack' = [backStack EXCEPT ![t] = SubSeq(@, 1, IF i = 0 THEN 0 ELSE i - 1)]
    /\ past' = [past EXCEPT ![t] = SubSeq(@, 1, LastValid(@) - 1)]
    /\ IF i = 0 THEN UNCHANGED <<lastActive, shown, saved, forwardStack, future, strayed>>
       ELSE /\ UNCHANGED forwardStack
            /\ future' = [future EXCEPT ![t] = <<shown>> \o @]
            /\ ApplyEntry(backStack[t][i])
    /\ UNCHANGED <<selectable, existing, pendingNavigate, bar, scrambled>>

\* goBack drops the invalid entries it meets.
GoBack ==
    LET t == historyTab
        i == LastValid(backStack[t]) IN
    /\ Step
    /\ backStack[t] # <<>>
    /\ backStack' = [backStack EXCEPT ![t] = SubSeq(@, 1, IF i = 0 THEN 0 ELSE i - 1)]
    /\ past' = [past EXCEPT ![t] = SubSeq(@, 1, LastValid(@) - 1)]
    /\ IF i = 0 THEN UNCHANGED <<lastActive, shown, saved, forwardStack, future, strayed>>
       ELSE /\ forwardStack' = [forwardStack EXCEPT ![t] = Append(@, shown)]
            /\ future' = [future EXCEPT ![t] = <<shown>> \o @]
            /\ ApplyEntry(backStack[t][i])
    /\ UNCHANGED <<selectable, existing, pendingNavigate, bar, scrambled>>

\* In a browser the nearest valid place is the first one of the future.
GoForward ==
    LET t == historyTab
        i == LastValid(forwardStack[t])
        valid == {k \in DOMAIN future[t] : Valid(future[t][k])} IN
    /\ Step
    /\ forwardStack[t] # <<>>
    /\ forwardStack' = [forwardStack EXCEPT ![t] = SubSeq(@, 1, IF i = 0 THEN 0 ELSE i - 1)]
    /\ future' = [future EXCEPT ![t] =
           IF valid = {} THEN <<>> ELSE SubSeq(@, Min(valid) + 1, Len(@))]
    /\ IF i = 0 THEN UNCHANGED <<lastActive, shown, saved, backStack, past, strayed>>
       ELSE /\ backStack' = [backStack EXCEPT ![t] = Append(@, shown)]
            /\ past' = [past EXCEPT ![t] = Append(@, shown)]
            /\ ApplyEntry(forwardStack[t][i])
    /\ UNCHANGED <<selectable, existing, pendingNavigate, bar, scrambled>>

\* goToBackIndex moves the entries passed over as they lie, behind the present one. (The
\* past of a scrambled tab can be the shorter one.)
GoToBackEntry(i) ==
    LET t == historyTab
        back == backStack[t]
        passed == SubSeq(back, i + 1, Len(back)) IN
    /\ Step
    /\ i \in DOMAIN back /\ Valid(back[i])
    /\ backStack' = [backStack EXCEPT ![t] = SubSeq(@, 1, i - 1)]
    /\ forwardStack' = [forwardStack EXCEPT ![t] = @ \o <<shown>> \o passed]
    /\ past' = [past EXCEPT ![t] = SubSeq(@, 1, Min({i - 1, Len(@)}))]
    /\ future' = [future EXCEPT ![t] = passed \o <<shown>> \o @]
    /\ scrambled' = IF passed # Reverse(passed) THEN scrambled \cup {t} ELSE scrambled
    /\ ApplyEntry(back[i])
    /\ UNCHANGED <<selectable, existing, pendingNavigate, bar>>

\* goToForwardIndex does the same.
GoToForwardEntry(i) ==
    LET t == historyTab
        forward == forwardStack[t]
        passed == SubSeq(forward, i + 1, Len(forward)) IN
    /\ Step
    /\ i \in DOMAIN forward /\ Valid(forward[i])
    /\ forwardStack' = [forwardStack EXCEPT ![t] = SubSeq(@, 1, i - 1)]
    /\ backStack' = [backStack EXCEPT ![t] = @ \o passed \o <<shown>>]
    /\ future' = [future EXCEPT ![t] = SubSeq(@, Len(passed) + 2, Len(@))]
    /\ past' = [past EXCEPT ![t] = @ \o <<shown>> \o Reverse(passed)]
    /\ scrambled' = IF <<shown>> \o Reverse(passed) # Append(passed, shown)
                    THEN scrambled \cup {t} ELSE scrambled
    /\ ApplyEntry(forward[i])
    /\ UNCHANGED <<selectable, existing, pendingNavigate, bar>>

\* The menu and the command palette pop an entry of the store and apply nothing.
MenuBack ==
    /\ Step
    /\ backStack[historyTab] # <<>>
    /\ backStack' = [backStack EXCEPT ![historyTab] = Front(@)]
    /\ scrambled' = scrambled \cup {historyTab}
    /\ UNCHANGED <<selectionVars, shown, pendingNavigate, bar, saved, forwardStack, past,
                   future, strayed>>

MenuForward ==
    /\ Step
    /\ forwardStack[historyTab] # <<>>
    /\ forwardStack' = [forwardStack EXCEPT ![historyTab] = Front(@)]
    /\ scrambled' = scrambled \cup {historyTab}
    /\ UNCHANGED <<selectionVars, shown, pendingNavigate, bar, saved, backStack, past, future,
                   strayed>>

-----------------------------------------------------------------------------
(* Browser tabs. *)
\* applyTabState: a conversation is selected whichever session it belongs to.
ApplyTabState(loc) ==
    LET s == Selectable(loc.session) IN
    IF s # NoId /\ loc.conv # NoId
    THEN /\ ShowAt(s, loc.conv, loc.view)
         /\ Stray(IF Fits(loc) THEN {} ELSE {"tab"})
    ELSE /\ shown' = [session |-> s, conv |-> ConversationFor(s, existing), view |-> loc.view]
         /\ UNCHANGED <<lastActive, strayed>>

After(t, new) ==
    LET i == CHOOSE k \in DOMAIN tabOrder : tabOrder[k] = t IN InsertAt(tabOrder, i + 1, new)

RoomForTab == Len(tabOrder) < MAX_TABS /\ ids < MaxTabIds

SwitchToTab(t) ==
    /\ Step
    /\ t \in ToSet(tabOrder) \ {activeTab}
    /\ saved' = [saved EXCEPT ![activeTab] = shown]
    /\ activeTab' = t /\ historyTab' = t
    /\ ApplyTabState(saved[t])
    /\ UNCHANGED <<selectable, existing, pendingNavigate, tabOrder, ids, stacks>>

\* A new tab shows what the active one does.
NewTab ==
    /\ Step
    /\ RoomForTab /\ ids' = ids + 1
    /\ tabOrder' = After(activeTab, ids + 1)
    /\ activeTab' = ids + 1 /\ historyTab' = ids + 1
    /\ saved' = [saved EXCEPT ![activeTab] = shown, ![ids + 1] = shown]
    /\ UNCHANGED <<selectionVars, shown, pendingNavigate, stacks, strayed>>

\* navigateOrOpenTab with Cmd: the new tab is activated, and what it keeps is not applied.
OpenInNewTab(target) ==
    /\ Step
    /\ RoomForTab /\ ids' = ids + 1
    /\ target.conv \in existing \cup {Absent} /\ target.session \in selectable \cup {NoId, Absent}
    /\ tabOrder' = After(activeTab, ids + 1)
    /\ activeTab' = ids + 1 /\ historyTab' = ids + 1
    /\ saved' = [saved EXCEPT ![ids + 1] =
           [session |-> IF target.session = Absent THEN NoId ELSE target.session,
            conv |-> IF target.conv = Absent THEN NoId ELSE target.conv, view |-> target.view]]
    /\ UNCHANGED <<selectionVars, shown, pendingNavigate, stacks, strayed>>

\* A duplicate copies what the tab store keeps of a tab, and is switched to.
DuplicateTab(t) ==
    /\ Step
    /\ RoomForTab /\ ids' = ids + 1 /\ t \in ToSet(tabOrder)
    /\ tabOrder' = After(t, ids + 1)
    /\ saved' = [saved EXCEPT ![activeTab] = shown, ![ids + 1] = saved[t]]
    /\ activeTab' = ids + 1 /\ historyTab' = ids + 1
    /\ ApplyTabState(saved[t])
    /\ UNCHANGED <<selectable, existing, pendingNavigate, stacks>>

TabsWithout(t) == Only(tabOrder, TabIds \ {t})
Neighbour(t) ==
    LET i == CHOOSE k \in DOMAIN tabOrder : tabOrder[k] = t IN
    TabsWithout(t)[Min({i, Len(TabsWithout(t))})]

\* Mutant of CloseTab: the history of the closed tab stays active.
CloseTabKeepsHistory(t) ==
    /\ Step
    /\ t \in ToSet(tabOrder) /\ Len(tabOrder) > 1
    /\ tabOrder' = TabsWithout(t)
    /\ IF t = activeTab
       THEN activeTab' = Neighbour(t) /\ ApplyTabState(saved[activeTab'])
       ELSE UNCHANGED <<activeTab, lastActive, shown, strayed>>
    /\ UNCHANGED <<selectable, existing, pendingNavigate, saved, ids, historyTab, stacks>>

\* The strip's close button: the neighbour's state is applied.
CloseTab(t) ==
    /\ Step
    /\ t \in ToSet(tabOrder) /\ Len(tabOrder) > 1
    /\ tabOrder' = TabsWithout(t)
    /\ IF t = activeTab
       THEN /\ activeTab' = Neighbour(t) /\ historyTab' = activeTab'
            /\ ApplyTabState(saved[activeTab'])
       ELSE UNCHANGED <<activeTab, historyTab, lastActive, shown, strayed>>
    /\ UNCHANGED <<selectable, existing, pendingNavigate, saved, ids, stacks>>

\* The menu's: the active tab is compared with its own snapshot, so nothing is applied
\* and the history of the closed tab stays active.
MenuCloseTab ==
    /\ Step
    /\ Len(tabOrder) > 1
    /\ tabOrder' = TabsWithout(activeTab)
    /\ activeTab' = Neighbour(activeTab)
    /\ Stray({"menu"})
    /\ UNCHANGED <<selectionVars, shown, pendingNavigate, saved, ids, historyTab, stacks>>

-----------------------------------------------------------------------------
NavNext ==
    \/ \E c \in AllConversations : SelectConversation(c)
    \/ \E c \in AllConversations : RemoveConversation(c)
    \/ \E s \in Sessions : ArchiveSession(s)
    \/ \E target \in Targets : Navigate(target)
    \/ \E target \in Targets : DeferNavigate(target)
    \/ NavigateTimer
    \/ GoBack \/ GoForward
    \/ \E i \in 1 .. MAX_HISTORY_SIZE : GoToBackEntry(i)
    \/ \E i \in 1 .. MAX_HISTORY_SIZE : GoToForwardEntry(i)
    \/ MenuBack \/ MenuForward
    \/ \E t \in TabIds : SwitchToTab(t)
    \/ NewTab
    \/ \E target \in Targets : OpenInNewTab(target)
    \/ \E t \in TabIds : DuplicateTab(t)
    \/ \E t \in TabIds : CloseTab(t)
    \/ MenuCloseTab

NavSpec == NavInit /\ [][NavNext]_navVars

-----------------------------------------------------------------------------
\* The two stacks of a tab are a browser's history: going back leads where the user came
\* from and going forward undoes it, unless entries were passed over in a jump, the menu
\* popped one, or a place visited twice in a row kept the forward stack.
HistoryIsABrowsers ==
    \A t \in TabIds \ scrambled :
        backStack[t] = past[t] /\ forwardStack[t] = Reverse(future[t])

\* The conversation on the screen exists and belongs to the session on the screen, and
\* the history in use is that of the active tab, unless a dashboard's entry or a tab kept
\* a conversation that is gone or of another session, a navigation was executed after
\* its conversation was removed, or the menu closed the tab.
SelectionFits == Fits(shown) \/ strayed \cap {"entry", "tab", "late"} # {}
TabOwnsHistory == historyTab = activeTab \/ "menu" \in strayed
SelectionConsistent == SelectionFits /\ TabOwnsHistory
=============================================================================
