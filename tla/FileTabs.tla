------------------------------ MODULE FileTabs ------------------------------
(***************************************************************************)
(* The files a user edits: the tabs of the store (stores/appStore.ts), the *)
(* debounced editor (MonacoEditor.tsx), saving (hooks/useAutoSave.ts),     *)
(* opening and loading (ChangesPanel.tsx, FilePicker.tsx,                  *)
(* ConversationArea.tsx), closing (app/page.tsx), the cache of contents    *)
(* (lib/fileContentCache.ts), and the file watcher (useFileWatcher.ts).    *)
(*                                                                         *)
(* All files belong to one session, so that a file and its tab have one    *)
(* name. A text is a number: 0 the text that the worktree and the main     *)
(* repository start with, Empty the empty one. A request to the backend is *)
(* a record in `jobs`; requests are answered in any order.                 *)
(***************************************************************************)
EXTENDS Naturals, Sequences, FiniteSets, SequencesExt, Filter

CONSTANTS
    Files,
    MAX_FILE_TABS,
    MaxVersion,     \* bound on the texts that the user and the agent write
    MaxMoves,       \* bound on what the user, the agent and the environment do
    MaxJobs         \* bound on the requests under way

ASSUME TabBounds == {MAX_FILE_TABS, MaxVersion, MaxMoves, MaxJobs} \subseteq Nat

VARIABLES
    recent,         \* the open tabs, the one accessed last at the end
    tab,            \* per file: content, originalContent, isDirty, isPreview, isLoading
    typed,          \* per file: text that waits in the editor's debounce
    cache,          \* per file: the cached content
    jobs,           \* requests under way
    disk,           \* external: the worktree
    changed,        \* external: files whose change the watcher has still to report
    version,        \* texts written so far
    moves,          \* moves so far
    unsaved,        \* history, per file: the user's latest text, until it is on disk
    causes          \* history: pairs of a file and a way in which text was given up

tabVars == <<recent, tab, typed>>
tabCause == <<unsaved, causes>>
fileVars == <<tabVars, cache, jobs, disk, changed, version, moves, tabCause>>

Empty == MaxVersion + 1
None == MaxVersion + 2
Contents == 0 .. Empty
ClosedTab == [content |-> None, original |-> None, dirty |-> FALSE, preview |-> FALSE,
           loading |-> FALSE]
Job == [kind : {"save", "saveAndClose", "load", "reload"}, file : Files,
        content : Contents \cup {None}, at : {"sent", "done", "failed"}]

\* Sessions are registered with the watcher under their own id (all three callers of
\* registerSession pass session.id), and a tab is looked up by its workspace's.
RegisteredAs == "session"
TabWorkspace == "workspace"

FilesTypeOK ==
    /\ recent \in Seq(Files) /\ IsInjective(recent)
    /\ tab \in [Files -> [content : 0 .. None, original : 0 .. None, dirty : BOOLEAN,
                          preview : BOOLEAN, loading : BOOLEAN]]
    /\ \A f \in Files \ ToSet(recent) : tab[f] = ClosedTab /\ typed[f] = None
    /\ {typed, cache, unsaved} \subseteq [Files -> 0 .. None]
    /\ jobs \subseteq Job
    /\ disk \in [Files -> Contents] /\ changed \subseteq Files
    /\ version \in 0 .. MaxVersion /\ moves \in 0 .. MaxMoves

FilesInit ==
    /\ recent = <<>> /\ tab = [f \in Files |-> ClosedTab]
    /\ typed = [f \in Files |-> None] /\ cache = [f \in Files |-> None]
    /\ jobs = {} /\ disk = [f \in Files |-> 0] /\ changed = {}
    /\ version = 0 /\ moves = 0
    /\ unsaved = [f \in Files |-> None] /\ causes = {}

IsOpen(f) == f \in ToSet(recent)
Saving(f) == \E j \in jobs : j.file = f /\ j.kind \in {"save", "saveAndClose"}
Edited(f) == tab[f].dirty \/ typed[f] # None
Blame(fs, why) == causes' = causes \cup {<<f, why>> : f \in fs}
\* A move of the user, of the agent, or of what can go wrong.
Move == moves < MaxMoves /\ moves' = moves + 1

SendRequests(new) == Cardinality(jobs \cup new) <= MaxJobs /\ jobs' = jobs \cup new
Load(kind, f) == [kind |-> kind, file |-> f, content |-> None, at |-> "sent"]

-----------------------------------------------------------------------------
(* Opening. *)
Accessed(f) == Append(Only(recent, Files \ {f}), f)

\* A new preview replaces the preview there is, edited or not.
Replaced(f, preview) ==
    {g \in ToSet(recent) \ {f} : preview /\ ~IsOpen(f) /\ tab[g].preview}

\* Mutant of Evicted: a dirty tab can go.
EvictedRegardless(f, left) ==
    IF IsOpen(f) \/ Len(left) <= MAX_FILE_TABS THEN {}
    ELSE {left[1]}

\* Over the limit the tab not used for longest goes, but never a dirty one.
Evicted(f, left) ==
    LET evictable == Only(left, {g \in Files \ {f} : ~tab[g].dirty}) IN
    IF IsOpen(f) \/ Len(left) <= MAX_FILE_TABS \/ evictable = <<>> THEN {}
    ELSE {evictable[1]}

\* openFileTab, with or without the content of the file. What the editor still
\* debounces is gone with its tab, and while the tab is loading.
OpenFileTab(f, preview, content, loading) ==
    LET replaced == Replaced(f, preview)
        left == Only(Accessed(f), Files \ replaced)
        evicted == Evicted(f, left)
        gone == replaced \cup evicted
    IN /\ recent' = Only(left, Files \ evicted)
       /\ tab' = [g \in Files |->
              IF g \in gone THEN ClosedTab
              ELSE IF g # f THEN tab[g]
              ELSE [content |-> IF content = None THEN tab[f].content ELSE content,
                    original |-> IF content = None THEN tab[f].original ELSE content,
                    dirty |-> tab[f].dirty, preview |-> preview, loading |-> loading]]
       /\ typed' = [g \in Files |-> IF g \in gone \/ (g = f /\ loading) THEN None ELSE typed[g]]
       /\ causes' = causes
              \cup {<<g, "replaced">> : g \in {h \in replaced : Edited(h)}}
              \cup {<<g, "typing">> : g \in {h \in evicted : typed[h] # None}}
              \cup (IF content # None /\ Edited(f) THEN {<<f, "reloaded">>} ELSE {})
              \cup (IF loading /\ typed[f] # None THEN {<<f, "typing">>} ELSE {})
              \cup (IF content \notin {None, disk[f]} THEN {<<f, "cached">>} ELSE {})

\* From the file tree: with the cached content, or loading it.
OpenFileAsTab(f, preview) ==
    /\ Move
    /\ IF cache[f] # None
       THEN OpenFileTab(f, preview, cache[f], FALSE) /\ UNCHANGED jobs
       ELSE OpenFileTab(f, preview, None, TRUE) /\ SendRequests({Load("load", f)})
    /\ UNCHANGED <<cache, disk, changed, version, unsaved>>

\* From the file picker or from a tool's details: the content of a tab without any is
\* loaded once it is shown.
OpenByName(f) ==
    LET missing == tab[f].content = None /\ ~tab[f].loading IN
    /\ Move
    /\ IF ~missing THEN OpenFileTab(f, FALSE, None, tab[f].loading) /\ UNCHANGED jobs
       ELSE IF cache[f] # None THEN OpenFileTab(f, FALSE, cache[f], FALSE) /\ UNCHANGED jobs
       ELSE OpenFileTab(f, FALSE, None, TRUE) /\ SendRequests({Load("load", f)})
    /\ UNCHANGED <<cache, disk, changed, version, unsaved>>

-----------------------------------------------------------------------------
(* Editing. *)
\* The user types a new text, empties the file, or takes everything back. A file whose
\* closing dialog waits for the save cannot be typed in.
Type(f, c) ==
    /\ Move
    /\ IsOpen(f) /\ ~tab[f].loading /\ tab[f].content # None
    /\ \A j \in jobs : j.file = f => j.kind # "saveAndClose"
    /\ c \in {Empty, tab[f].original} \cup (1 .. MaxVersion \cap {version + 1})
    /\ c # (IF typed[f] = None THEN tab[f].content ELSE typed[f])
    /\ version' = IF c \in version + 1 .. MaxVersion THEN c ELSE version
    /\ typed' = [typed EXCEPT ![f] = c]
    /\ unsaved' = [unsaved EXCEPT ![f] = c]
    /\ UNCHANGED <<recent, tab, cache, jobs, disk, changed, causes>>

\* updateFileTabContent, when the debounce is over.
UpdateFileTabContent(f) ==
    /\ typed[f] # None
    /\ tab' = [tab EXCEPT ![f].content = typed[f], ![f].preview = FALSE,
                          ![f].dirty = typed[f] # tab[f].original]
    /\ typed' = [typed EXCEPT ![f] = None]
    /\ LET undone == typed[f] = tab[f].original IN
       /\ unsaved' = [unsaved EXCEPT ![f] = IF undone /\ ~Saving(f) THEN None ELSE @]
       /\ Blame(IF undone /\ Saving(f) THEN {f} ELSE {}, "overtyped")
    /\ UNCHANGED <<recent, cache, jobs, disk, changed, version, moves>>

-----------------------------------------------------------------------------
(* Saving. *)
Savable(f) == tab[f].dirty /\ tab[f].content \notin {None, Empty}

SaveTab(kind, f) ==
    SendRequests({[kind |-> kind, file |-> f, content |-> tab[f].content, at |-> "sent"]})

\* The timer of a dirty tab, or Cmd+S.
Save(f) ==
    /\ Move
    /\ IsOpen(f) /\ Savable(f) /\ SaveTab("save", f)
    /\ UNCHANGED <<tabVars, cache, disk, changed, version, tabCause>>

\* external: SaveFile writes the file. Saves of one file may overtake each other.
BackendSaves(j) ==
    /\ j \in jobs /\ j.kind \in {"save", "saveAndClose"} /\ j.at = "sent"
    /\ jobs' = (jobs \ {j}) \cup {[j EXCEPT !.at = "done"]}
    /\ disk' = [disk EXCEPT ![j.file] = j.content]
    /\ changed' = changed \cup {j.file}
    /\ unsaved' = [unsaved EXCEPT ![j.file] = IF @ = j.content THEN None ELSE @]
    /\ Blame(IF unsaved[j.file] = None /\ disk[j.file] # j.content THEN {j.file} ELSE {},
             "overtaken")
    /\ UNCHANGED <<tabVars, cache, version, moves>>

RequestFails(j) ==
    /\ Move
    /\ j \in jobs /\ j.at = "sent"
    /\ jobs' = (jobs \ {j}) \cup {[j EXCEPT !.at = "failed"]}
    /\ UNCHANGED <<tabVars, cache, disk, changed, version, tabCause>>

CloseAll(fs) ==
    /\ recent' = Only(recent, Files \ fs)
    /\ tab' = [g \in Files |-> IF g \in fs THEN ClosedTab ELSE tab[g]]
    /\ typed' = [g \in Files |-> IF g \in fs THEN None ELSE typed[g]]

\* Mutant of SaveReturns: a save that has failed counts too.
SaveReturnsRegardless(j) ==
    /\ j \in jobs /\ j.kind = "save" /\ j.at # "sent"
    /\ jobs' = jobs \ {j}
    /\ tab' = [tab EXCEPT ![j.file] =
                   IF IsOpen(j.file) THEN [@ EXCEPT !.original = j.content, !.dirty = FALSE]
                   ELSE @]
    /\ Blame(IF IsOpen(j.file) /\ tab[j.file].content # j.content THEN {j.file} ELSE {},
             "overtyped")
    /\ UNCHANGED <<recent, typed, cache, disk, changed, version, moves, unsaved>>

\* A save that has worked marks the tab clean, whatever has been typed since, be it the
\* same text again, and whatever has been written since.
SaveReturns(j) ==
    /\ j \in jobs /\ j.kind = "save" /\ j.at # "sent"
    /\ jobs' = jobs \ {j}
    /\ LET f == j.file IN
       IF j.at = "done" /\ IsOpen(f)
       THEN /\ tab' = [tab EXCEPT ![f].original = j.content, ![f].dirty = FALSE]
            /\ causes' = causes
                   \cup (IF tab[f].content # j.content \/ unsaved[f] = j.content
                         THEN {<<f, "overtyped">>} ELSE {})
                   \cup (IF disk[f] # j.content /\ f \notin changed
                         THEN {<<f, "overtaken">>} ELSE {})
       ELSE UNCHANGED <<tab, causes>>
    /\ UNCHANGED <<recent, typed, cache, disk, changed, version, moves, unsaved>>

-----------------------------------------------------------------------------
(* Closing. A dirty tab asks: save, do not save. *)
CloseFileTab(f) ==
    /\ Move
    /\ IsOpen(f) /\ ~tab[f].dirty
    /\ CloseAll({f})
    /\ Blame(IF typed[f] # None THEN {f} ELSE {}, "typing")
    /\ UNCHANGED <<cache, jobs, disk, changed, version, unsaved>>

DontSaveAndClose(f) ==
    /\ Move
    /\ IsOpen(f) /\ tab[f].dirty
    /\ CloseAll({f})
    /\ unsaved' = [unsaved EXCEPT ![f] = None]
    /\ UNCHANGED <<cache, jobs, disk, changed, version, causes>>

\* An empty text is not saved, and the tab closes all the same.
SaveAndClose(f) ==
    /\ Move
    /\ IsOpen(f) /\ tab[f].dirty
    /\ IF Savable(f)
       THEN SaveTab("saveAndClose", f) /\ UNCHANGED <<tabVars, causes>>
       ELSE CloseAll({f}) /\ Blame({f}, "emptied") /\ UNCHANGED jobs
    /\ UNCHANGED <<cache, disk, changed, version, unsaved>>

\* So it does when the save has failed.
SaveAndCloseReturns(j) ==
    /\ j \in jobs /\ j.kind = "saveAndClose" /\ j.at # "sent"
    /\ jobs' = jobs \ {j}
    /\ CloseAll({j.file})
    /\ LET f == j.file
           other == tab[f].content # j.content \/ typed[f] # None
       IN  Blame(IF IsOpen(f) /\ (j.at = "failed" \/ other) THEN {f} ELSE {}, "closed")
    /\ UNCHANGED <<cache, disk, changed, version, moves, unsaved>>

\* removeSession and removeWorkspace empty the list, for all sessions.
RemoveSession ==
    /\ Move
    /\ CloseAll(ToSet(recent))
    /\ Blame({f \in ToSet(recent) : Edited(f)}, "removed")
    /\ UNCHANGED <<cache, jobs, disk, changed, version, unsaved>>

-----------------------------------------------------------------------------
(* Loading. *)
\* external: a load reads the worktree, a reload the main repository.
BackendLoads(j) ==
    /\ j \in jobs /\ j.kind \in {"load", "reload"} /\ j.at = "sent"
    /\ jobs' = (jobs \ {j}) \cup
               {[j EXCEPT !.at = "done", !.content = IF j.kind = "load" THEN disk[j.file] ELSE 0]}
    /\ UNCHANGED <<tabVars, cache, disk, changed, version, moves, tabCause>>

\* The content is put into the tab, whatever the user has typed in the meantime, and is
\* cached.
LoadReturns(j) ==
    /\ j \in jobs /\ j.kind \in {"load", "reload"} /\ j.at # "sent"
    /\ jobs' = jobs \ {j}
    /\ cache' = IF j.kind = "load" /\ j.at = "done" THEN [cache EXCEPT ![j.file] = j.content]
                ELSE cache
    /\ LET f == j.file IN
       IF IsOpen(f) /\ j.at = "done"
       THEN /\ tab' = [tab EXCEPT ![f].content = j.content, ![f].original = j.content,
                                  ![f].loading = FALSE]
            /\ causes' = causes
                   \cup (IF Edited(f) THEN {<<f, "reloaded">>} ELSE {})
                   \cup (IF j.content # disk[f] THEN {<<f, j.kind>>} ELSE {})
       ELSE /\ tab' = IF IsOpen(f) /\ j.kind = "load" THEN [tab EXCEPT ![f].loading = FALSE]
                      ELSE tab
            /\ UNCHANGED causes
    /\ UNCHANGED <<recent, typed, disk, changed, version, moves, unsaved>>

\* The cache is cleared when the list of changes is refreshed.
InvalidateCache ==
    /\ Move
    /\ cache' = [f \in Files |-> None]
    /\ UNCHANGED <<tabVars, jobs, disk, changed, version, tabCause>>

-----------------------------------------------------------------------------
(* The watcher. *)
\* external: the agent writes a file.
AgentWrites(f) ==
    /\ Move
    /\ version < MaxVersion /\ version' = version + 1
    /\ disk' = [disk EXCEPT ![f] = version + 1]
    /\ changed' = changed \cup {f}
    /\ UNCHANGED <<tabVars, cache, jobs, tabCause>>

\* A change of a file in a clean tab is to reload it; in a dirty one the user is warned
\* that the text the tab started from is no longer there.
HandleFileChange(f) ==
    /\ f \in changed /\ changed' = changed \ {f}
    /\ IF RegisteredAs # TabWorkspace
       THEN /\ Blame(IF IsOpen(f) /\ tab[f].original \notin {None, disk[f]} THEN {f} ELSE {}, "unrouted")
            /\ UNCHANGED jobs
       ELSE IF IsOpen(f) /\ ~tab[f].dirty THEN SendRequests({Load("reload", f)}) /\ UNCHANGED causes
       ELSE Blame(IF IsOpen(f) THEN {f} ELSE {}, "warned") /\ UNCHANGED jobs
    /\ UNCHANGED <<tabVars, cache, disk, version, moves, unsaved>>

\* After a reconnection of the backend all clean tabs are reloaded.
BackendReconnects ==
    /\ Move
    /\ SendRequests({Load("reload", f) : f \in {g \in ToSet(recent) : ~tab[g].dirty}})
    /\ UNCHANGED <<tabVars, cache, disk, changed, version, tabCause>>

-----------------------------------------------------------------------------
FilesNext ==
    \/ \E f \in Files, preview \in BOOLEAN : OpenFileAsTab(f, preview)
    \/ \E f \in Files : OpenByName(f)
    \/ \E f \in Files, c \in Contents : Type(f, c)
    \/ \E f \in Files : UpdateFileTabContent(f)
    \/ \E f \in Files : Save(f)
    \/ \E j \in jobs : BackendSaves(j)
    \/ \E j \in jobs : RequestFails(j)
    \/ \E j \in jobs : SaveReturns(j)
    \/ \E f \in Files : CloseFileTab(f)
    \/ \E f \in Files : DontSaveAndClose(f)
    \/ \E f \in Files : SaveAndClose(f)
    \/ \E j \in jobs : SaveAndCloseReturns(j)
    \/ RemoveSession
    \/ \E j \in jobs : BackendLoads(j)
    \/ \E j \in jobs : LoadReturns(j)
    \/ InvalidateCache
    \/ \E f \in Files : AgentWrites(f)
    \/ \E f \in Files : HandleFileChange(f)
    \/ BackendReconnects

FilesSpec == FilesInit /\ [][FilesNext]_fileVars

-----------------------------------------------------------------------------
Blamed(f, whys) == \E why \in whys : <<f, why>> \in causes

\* What the user has typed and not saved is in the editor or its dirty tab: the limit on
\* tabs, failed saves and loads of other files do not lose it. It is given up when the
\* tab is replaced as a preview, is loaded again, is closed while typing, after a failed
\* save or with an empty text, is marked clean by the save of an older text, or is swept
\* away with another session.
EditsKept ==
    \A f \in Files : unsaved[f] # None =>
        \/ typed[f] = unsaved[f]
        \/ IsOpen(f) /\ tab[f].content = unsaved[f] /\ tab[f].dirty
        \/ Blamed(f, {"replaced", "reloaded", "typing", "closed", "emptied", "overtyped",
                      "overtaken", "removed"})

Settled(f) ==
    /\ IsOpen(f) /\ ~tab[f].loading /\ tab[f].content # None /\ ~Edited(f)
    /\ f \notin changed /\ \A j \in jobs : j.file # f

\* A clean tab shows what is on disk, unless an old text was put into it (from the cache
\* or by a load that was overtaken), a save was overtaken, on the disk or by its answer,
\* or the reload came from the main repository or was never asked for.
CleanShowsDisk ==
    \A f \in Files : Settled(f) =>
        \/ tab[f].content = disk[f]
        \/ Blamed(f, {"cached", "load", "reload", "overtaken", "overtyped", "reloaded",
                      "warned", "unrouted"})

\* A clean tab follows the changes that the watcher reports.
TabsFollowDisk ==
    \A f \in Files : Settled(f) =>
        \/ tab[f].content = disk[f]
        \/ Blamed(f, {"cached", "load", "reload", "overtaken", "overtyped", "reloaded",
                      "warned"})
=============================================================================
