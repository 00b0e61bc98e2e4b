----------------------------- MODULE MCFrontend -----------------------------
(***************************************************************************)
(* The five machines of the frontend, side by side for TLC: the feed of a  *)
(* conversation, the pages of its messages, the files being edited,        *)
(* navigation, and the connection. They share no variable, so one          *)
(* behaviour runs one of them and leaves the others in an initial state:   *)
(* the states are the sum of the five models, not their product.           *)
(***************************************************************************)
EXTENDS ConversationFeed, MessagePages, FileTabs, Navigation, Connection

VARIABLE focus      \* the machine that runs

vars == <<focus, feedVars, pageVars, fileVars, navVars, connVars>>

Convs == [s \in {"s1", "s2"} |-> IF s = "s1" THEN <<"c1", "c2">> ELSE <<"c3">>]

TypeOK ==
    CASE focus = "feed" -> FeedTypeOK
      [] focus = "pages" -> PagesTypeOK
      [] focus = "files" -> FilesTypeOK
      [] focus = "navigation" -> NavTypeOK
      [] focus = "connection" -> ConnTypeOK

\* Only the pages start in more than one way.
Init ==
    /\ focus \in {"feed", "pages", "files", "navigation", "connection"}
    /\ FeedInit /\ PagesInit /\ FilesInit /\ NavInit /\ ConnInit
    /\ focus # "pages" => stored = 0

Next ==
    /\ UNCHANGED focus
    /\ \/ focus = "feed" /\ FeedNext /\ UNCHANGED <<pageVars, fileVars, navVars, connVars>>
       \/ focus = "pages" /\ PagesNext /\ UNCHANGED <<feedVars, fileVars, navVars, connVars>>
       \/ focus = "files" /\ FilesNext /\ UNCHANGED <<feedVars, pageVars, navVars, connVars>>
       \/ focus = "navigation" /\ NavNext /\ UNCHANGED <<feedVars, pageVars, fileVars, connVars>>
       \/ focus = "connection" /\ ConnNext /\ UNCHANGED <<feedVars, pageVars, fileVars, navVars>>

\* The fairness of each machine, while it runs.
Fairness ==
    /\ WF_feedVars(focus = "feed" /\ ReceiveSome)
    /\ WF_feedVars(focus = "feed" /\ FlushFrame)
    /\ \A r \in Reconciliations : WF_feedVars(focus = "feed" /\ Reconcile(r))
    /\ WF_feedVars(focus = "feed" /\ PostReturns)
    /\ WF_feedVars(focus = "feed" /\ AnswerReturns)
    /\ WF_connVars(focus = "connection" /\ ShellStep)
    /\ WF_connVars(focus = "connection" /\ SocketStep)
    /\ WF_connVars(focus = "connection" /\ RecoveryStep)

Spec == Init /\ [][Next]_vars /\ Fairness
=============================================================================
