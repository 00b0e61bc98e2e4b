--------------------------- MODULE WorkspaceProofs --------------------------
(***************************************************************************)
(* Proofs about what the user works in: the tabs of files (FileTabs) and   *)
(* the places they have been to (Navigation).                              *)
(***************************************************************************)
EXTENDS FileTabs, Navigation, FilterProofs, TLAPS

(* Lists without repetition, filtered and extended at the end.             *)
LEMMA OnlySet ==
  ASSUME NEW U, NEW S, NEW s \in Seq(U)
  PROVE  /\ Only(s, S) \in Seq(U) /\ ToSet(Only(s, S)) = ToSet(s) \cap S
         /\ IsInjective(s) => IsInjective(Only(s, S))
<1>0. /\ Only(s, S) \in Seq(U) /\ Only(s, S) \in Seq(U \cap S)
      /\ Len(Only(s, S)) \in Nat /\ Len(Only(s, S)) <= Len(s)
      /\ {Only(s, S)[k] : k \in 1 .. Len(Only(s, S))} = {s[i] : i \in 1 .. Len(s)} \cap S
      /\ (\A i, j \in 1 .. Len(s) : s[i] = s[j] => i = j) =>
           \A i, j \in 1 .. Len(Only(s, S)) : Only(s, S)[i] = Only(s, S)[j] => i = j
  BY OnlyElements
<1> DEFINE o == Only(s, S)
<1>1. /\ o \in Seq(U) /\ Len(o) \in Nat
      /\ {o[k] : k \in 1 .. Len(o)} = {s[i] : i \in 1 .. Len(s)} \cap S
      /\ (\A i, j \in 1 .. Len(s) : s[i] = s[j] => i = j) =>
           \A i, j \in 1 .. Len(o) : o[i] = o[j] => i = j
  BY <1>0, Zenon
<1> HIDE DEF o
<1>2. DOMAIN o = 1 .. Len(o) /\ DOMAIN s = 1 .. Len(s)
  BY <1>1
<1>3. ToSet(o) = ToSet(s) \cap S
  BY <1>1, <1>2 DEF ToSet
<1>4. IsInjective(s) => IsInjective(o)
  BY <1>1, <1>2 DEF IsInjective
<1> QED
  BY <1>1, <1>3, <1>4 DEF o

LEMMA AppendSet ==
  ASSUME NEW U, NEW s \in Seq(U), NEW e \in U
  PROVE  /\ Append(s, e) \in Seq(U) /\ ToSet(Append(s, e)) = ToSet(s) \cup {e}
         /\ IsInjective(s) /\ e \notin ToSet(s) => IsInjective(Append(s, e))
<1> DEFINE t == Append(s, e)
<1>1. /\ t \in Seq(U) /\ Len(s) \in Nat /\ DOMAIN t = 1 .. Len(s) + 1 /\ DOMAIN s = 1 .. Len(s)
      /\ t[Len(s) + 1] = e /\ \A i \in 1 .. Len(s) : t[i] = s[i]
  OBVIOUS
<1> HIDE DEF t
<1>2. \A i \in 1 .. Len(s) + 1 : i \in 1 .. Len(s) \/ i = Len(s) + 1
  BY <1>1
<1>3. 1 .. Len(s) \subseteq 1 .. Len(s) + 1 /\ Len(s) + 1 \in 1 .. Len(s) + 1
  BY <1>1
<1>4. ToSet(t) = ToSet(s) \cup {e}
  BY <1>1, <1>2, <1>3 DEF ToSet
<1>5. ASSUME IsInjective(s), e \notin ToSet(s) PROVE IsInjective(t)
  BY <1>1, <1>2, <1>5 DEF IsInjective, ToSet
<1> QED
  BY <1>1, <1>4, <1>5 DEF t

LEMMA SetOfList ==
  ASSUME NEW U, NEW s \in Seq(U)
  PROVE  /\ ToSet(s) \subseteq U /\ \A i \in 1 .. Len(s) : s[i] \in ToSet(s)
         /\ s = <<>> <=> ToSet(s) = {}
         /\ s # <<>> => s[1] \in ToSet(s)
<1>1. DOMAIN s = 1 .. Len(s) /\ Len(s) \in Nat /\ \A i \in 1 .. Len(s) : s[i] \in U
  OBVIOUS
<1>2. s # <<>> => 1 \in 1 .. Len(s)
  BY EmptySeq
<1>3. s = <<>> => 1 .. Len(s) = {}
  OBVIOUS
<1>4. ToSet(s) = {s[i] : i \in 1 .. Len(s)}
  BY <1>1, Zenon DEF ToSet
<1>5. ToSet(s) \subseteq U /\ \A i \in 1 .. Len(s) : s[i] \in ToSet(s)
  BY <1>1, <1>4, Zenon
<1>6. s = <<>> => ToSet(s) = {}
  BY <1>3, <1>4, Zenon
<1>7. s # <<>> => s[1] \in ToSet(s)
  BY <1>2, <1>5, Zenon
<1> QED
  BY <1>5, <1>6, <1>7
-----------------------------------------------------------------------------
(* What is kept of the user's text, per file.                              *)
EditCauses == {"replaced", "reloaded", "typing", "closed", "emptied", "overtyped", "overtaken",
               "removed"}
TextKept(f) ==
    \/ Blamed(f, EditCauses)
    \/ unsaved[f] = None
    \/ IF typed[f] # None THEN typed[f] = unsaved[f]
       ELSE IsOpen(f) /\ tab[f].dirty = TRUE /\ tab[f].content = unsaved[f]

\* A save has a text; one that has closed its tab has no text typed after it.
SaveHasText(j) ==
    /\ j.kind \in {"save", "saveAndClose"} => j.content \in Contents
    /\ j.kind = "saveAndClose" /\ j.at = "done" => unsaved[j.file] # j.content

(* What a tab knows of the disk, per file.                                 *)
DiskCauses == {"cached", "load", "reload", "overtaken", "overtyped", "reloaded", "warned",
               "unrouted"}
TabTracksDisk(f) ==
    \/ Blamed(f, DiskCauses)
    \/ ~IsOpen(f)
    \/ /\ tab[f].original \in {None, disk[f]} \/ f \in changed
       /\ tab[f].dirty = TRUE \/ tab[f].content = tab[f].original

FilesInv ==
    /\ FilesTypeOK
    /\ \A j \in jobs : SaveHasText(j)
    /\ \A f \in Files : TextKept(f)
    /\ \A f \in Files : TabTracksDisk(f)

TabRecord == [content : 0 .. None, original : 0 .. None, dirty : BOOLEAN, preview : BOOLEAN,
              loading : BOOLEAN]

LEMMA TextRange ==
  /\ MaxVersion \in Nat /\ Empty \in Nat /\ None \in Nat
  /\ Contents \subseteq 0 .. None /\ None \in 0 .. None /\ None \notin Contents
  /\ Empty \in Contents /\ Empty # None /\ 0 \in Contents /\ 1 .. MaxVersion \subseteq Contents
  /\ ClosedTab \in TabRecord
<1>1. MaxVersion \in Nat
  BY TabBounds
<1>2. /\ Empty \in Nat /\ None \in Nat /\ Contents \subseteq 0 .. None
      /\ None \in 0 .. None /\ None \notin Contents
      /\ Empty \in Contents /\ Empty # None /\ 0 \in Contents
      /\ 1 .. MaxVersion \subseteq Contents
  BY <1>1 DEF Empty, None, Contents
<1> QED
  BY <1>1, <1>2 DEF ClosedTab, TabRecord
-----------------------------------------------------------------------------
(* What opening and closing leave of the tabs.                             *)
LEMMA CloseAllTabs ==
  ASSUME FilesTypeOK, NEW fs \in SUBSET Files, CloseAll(fs)
  PROVE  /\ recent' \in Seq(Files) /\ IsInjective(recent') /\ ToSet(recent') = ToSet(recent) \ fs
         /\ tab' \in [Files -> TabRecord] /\ typed' \in [Files -> 0 .. None]
         /\ \A g \in fs : tab'[g] = ClosedTab /\ typed'[g] = None
         /\ \A g \in Files \ fs : tab'[g] = tab[g] /\ typed'[g] = typed[g]
<1>1. /\ recent \in Seq(Files) /\ IsInjective(recent) /\ ToSet(recent) \subseteq Files
      /\ tab \in [Files -> TabRecord] /\ typed \in [Files -> 0 .. None]
  BY SetOfList DEF FilesTypeOK, TabRecord
<1>2. /\ recent' \in Seq(Files) /\ IsInjective(recent')
      /\ ToSet(recent') = ToSet(recent) \cap (Files \ fs)
  BY <1>1, OnlySet DEF CloseAll
<1>3. /\ tab' = [g \in Files |-> IF g \in fs THEN ClosedTab ELSE tab[g]]
      /\ typed' = [g \in Files |-> IF g \in fs THEN None ELSE typed[g]]
  BY DEF CloseAll
<1> QED
  BY <1>1, <1>2, <1>3, TextRange

LEMMA EvictedTabs ==
  ASSUME FilesTypeOK, NEW f \in Files, NEW left \in Seq(Files)
  PROVE  /\ Evicted(f, left) \subseteq ToSet(left) \ {f}
         /\ \A g \in Evicted(f, left) : tab[g].dirty = FALSE
<1> DEFINE S == {g \in Files \ {f} : ~tab[g].dirty}
           evictable == Only(left, S)
<1>1. evictable \in Seq(Files) /\ ToSet(evictable) = ToSet(left) \cap S
  BY OnlySet
<1>2. evictable # <<>> => evictable[1] \in ToSet(evictable)
  BY <1>1, SetOfList
<1>3. Evicted(f, left) \subseteq (IF evictable = <<>> THEN {} ELSE {evictable[1]})
  BY DEF Evicted
<1>4. \A g \in Files : tab[g].dirty \in BOOLEAN
  BY DEF FilesTypeOK
<1> HIDE DEF evictable
<1>5. Evicted(f, left) \subseteq ToSet(left) \cap S
  BY <1>1, <1>2, <1>3, Zenon
<1>6. \A g \in S : g # f /\ tab[g].dirty = FALSE
  BY <1>4
<1> QED
  BY <1>5, <1>6

\* Opening f: replaced and evicted tabs go, and f is there.
Opening(f, preview, content, loading, replaced, evicted) ==
    /\ recent' \in Seq(Files) /\ IsInjective(recent')
    /\ ToSet(recent') = (ToSet(recent) \cup {f}) \ (replaced \cup evicted)
    /\ \A g \in evicted : tab[g].dirty = FALSE
    /\ tab' = [g \in Files |->
         IF g \in replaced \cup evicted THEN ClosedTab
         ELSE IF g # f THEN tab[g]
         ELSE [content |-> IF content = None THEN tab[f].content ELSE content,
               original |-> IF content = None THEN tab[f].original ELSE content,
               dirty |-> tab[f].dirty, preview |-> preview, loading |-> loading]]
    /\ typed' = [g \in Files |-> IF g \in replaced \cup evicted \/ (g = f /\ loading)
                                 THEN None ELSE typed[g]]
    /\ causes' = causes
         \cup {<<g, "replaced">> : g \in {h \in replaced : Edited(h)}}
         \cup {<<g, "typing">> : g \in {h \in evicted : typed[h] # None}}
         \cup (IF content # None /\ Edited(f) THEN {<<f, "reloaded">>} ELSE {})
         \cup (IF loading /\ typed[f] # None THEN {<<f, "typing">>} ELSE {})
         \cup (IF content \notin {None, disk[f]} THEN {<<f, "cached">>} ELSE {})

LEMMA OpenedTabs ==
  ASSUME FilesTypeOK, NEW f \in Files, NEW preview, NEW loading,
         NEW content \in Contents \cup {None}, OpenFileTab(f, preview, content, loading)
  PROVE  \E replaced, evicted \in SUBSET (Files \ {f}) :
             Opening(f, preview, content, loading, replaced, evicted)
<1> DEFINE replaced == Replaced(f, preview)
           left == Only(Accessed(f), Files \ replaced)
           evicted == Evicted(f, left)
<1>1. recent \in Seq(Files) /\ IsInjective(recent) /\ ToSet(recent) \subseteq Files
  BY SetOfList DEF FilesTypeOK
<1>2. replaced \in SUBSET (Files \ {f})
  BY <1>1 DEF Replaced
<1>3. /\ Accessed(f) \in Seq(Files) /\ IsInjective(Accessed(f))
      /\ ToSet(Accessed(f)) = ToSet(recent) \cup {f}
  <2> DEFINE o == Only(recent, Files \ {f})
  <2>1. /\ o \in Seq(Files) /\ IsInjective(o) /\ ToSet(o) = ToSet(recent) \cap (Files \ {f})
    BY <1>1, OnlySet
  <2> HIDE DEF o
  <2>2. /\ Append(o, f) \in Seq(Files) /\ IsInjective(Append(o, f))
        /\ ToSet(Append(o, f)) = ToSet(o) \cup {f}
    BY <2>1, AppendSet
  <2> QED
    BY <1>1, <2>1, <2>2 DEF Accessed, o
<1>4. /\ left \in Seq(Files) /\ IsInjective(left)
      /\ ToSet(left) = (ToSet(recent) \cup {f}) \cap (Files \ replaced)
  BY <1>3, OnlySet
<1>5. evicted \subseteq ToSet(left) \ {f} /\ \A g \in evicted : tab[g].dirty = FALSE
  BY <1>4, EvictedTabs
<1>6. /\ Only(left, Files \ evicted) \in Seq(Files) /\ IsInjective(Only(left, Files \ evicted))
      /\ ToSet(Only(left, Files \ evicted)) = ToSet(left) \cap (Files \ evicted)
  BY <1>4, OnlySet
<1>7. recent' = Only(left, Files \ evicted)
  BY DEF OpenFileTab
<1>8. ToSet(recent') = (ToSet(recent) \cup {f}) \ (replaced \cup evicted)
  BY <1>1, <1>4, <1>6, <1>7
<1>9. evicted \in SUBSET (Files \ {f})
  BY <1>1, <1>4, <1>5
<1>10. /\ tab' = [g \in Files |->
              IF g \in replaced \cup evicted THEN ClosedTab
              ELSE IF g # f THEN tab[g]
              ELSE [content |-> IF content = None THEN tab[f].content ELSE content,
                    original |-> IF content = None THEN tab[f].original ELSE content,
                    dirty |-> tab[f].dirty, preview |-> preview, loading |-> loading]]
       /\ typed' = [g \in Files |-> IF g \in replaced \cup evicted \/ (g = f /\ loading)
                                    THEN None ELSE typed[g]]
       /\ causes' = causes
              \cup {<<g, "replaced">> : g \in {h \in replaced : Edited(h)}}
              \cup {<<g, "typing">> : g \in {h \in evicted : typed[h] # None}}
              \cup (IF content # None /\ Edited(f) THEN {<<f, "reloaded">>} ELSE {})
              \cup (IF loading /\ typed[f] # None THEN {<<f, "typing">>} ELSE {})
              \cup (IF content \notin {None, disk[f]} THEN {<<f, "cached">>} ELSE {})
  BY DEF OpenFileTab
<1> HIDE DEF replaced, evicted, left
<1>11. Opening(f, preview, content, loading, replaced, evicted)
  BY <1>5, <1>6, <1>7, <1>8, <1>10 DEF Opening
<1> QED
  BY <1>2, <1>9, <1>11, Zenon
-----------------------------------------------------------------------------
(* Types. *)
LEMMA FilesTypeStep == FilesInv /\ [FilesNext]_fileVars => FilesTypeOK'
<1> SUFFICES ASSUME FilesInv, [FilesNext]_fileVars PROVE FilesTypeOK'
  OBVIOUS
<1> USE TextRange
<1>1. /\ FilesTypeOK /\ \A j \in jobs : SaveHasText(j)
      /\ recent \in Seq(Files) /\ IsInjective(recent) /\ ToSet(recent) \subseteq Files
      /\ tab \in [Files -> TabRecord]
      /\ \A f \in Files \ ToSet(recent) : tab[f] = ClosedTab /\ typed[f] = None
      /\ typed \in [Files -> 0 .. None] /\ cache \in [Files -> 0 .. None]
      /\ unsaved \in [Files -> 0 .. None] /\ jobs \subseteq Job
      /\ disk \in [Files -> Contents] /\ changed \subseteq Files
      /\ version \in 0 .. MaxVersion /\ moves \in 0 .. MaxMoves /\ MaxMoves \in Nat
  BY SetOfList, TabBounds DEF FilesInv, FilesTypeOK, TabRecord
<1> DEFINE ListOK == /\ recent' \in Seq(Files) /\ IsInjective(recent')
                     /\ tab' \in [Files -> TabRecord] /\ typed' \in [Files -> 0 .. None]
                     /\ \A f \in Files \ ToSet(recent') : tab'[f] = ClosedTab /\ typed'[f] = None
           RestOK == /\ cache' \in [Files -> 0 .. None] /\ unsaved' \in [Files -> 0 .. None]
                     /\ disk' \in [Files -> Contents] /\ changed' \subseteq Files
                     /\ version' \in 0 .. MaxVersion /\ moves' \in 0 .. MaxMoves
           JobsOK == jobs' \subseteq Job
<1>2. SUFFICES ListOK /\ RestOK /\ JobsOK
  BY DEF FilesTypeOK, TabRecord
<1>3. ASSUME UNCHANGED tabVars PROVE ListOK
  BY <1>1, <1>3 DEF tabVars
<1>4. ASSUME NEW fs \in SUBSET Files, CloseAll(fs) PROVE ListOK
  BY <1>1, <1>4, CloseAllTabs
<1>5. ASSUME NEW f \in Files, NEW preview \in BOOLEAN, NEW loading \in BOOLEAN,
             NEW content \in Contents \cup {None}, OpenFileTab(f, preview, content, loading)
      PROVE  ListOK
  <2>0. PICK replaced, evicted \in SUBSET (Files \ {f}) :
                Opening(f, preview, content, loading, replaced, evicted)
    <3>1. FilesTypeOK
      BY <1>1
    <3> QED
      BY <1>5, <3>1, OpenedTabs, Zenon
  <2>1. /\ recent' \in Seq(Files) /\ IsInjective(recent')
        /\ ToSet(recent') = (ToSet(recent) \cup {f}) \ (replaced \cup evicted)
        /\ tab' = [g \in Files |->
             IF g \in replaced \cup evicted THEN ClosedTab
             ELSE IF g # f THEN tab[g]
             ELSE [content |-> IF content = None THEN tab[f].content ELSE content,
                   original |-> IF content = None THEN tab[f].original ELSE content,
                   dirty |-> tab[f].dirty, preview |-> preview, loading |-> loading]]
        /\ typed' = [g \in Files |-> IF g \in replaced \cup evicted \/ (g = f /\ loading)
                                     THEN None ELSE typed[g]]
    BY <2>0 DEF Opening
  <2> DEFINE new == [content |-> IF content = None THEN tab[f].content ELSE content,
                     original |-> IF content = None THEN tab[f].original ELSE content,
                     dirty |-> tab[f].dirty, preview |-> preview, loading |-> loading]
  <2>2. new \in TabRecord
    BY <1>1 DEF TabRecord
  <2>3. tab' = [g \in Files |-> IF g \in replaced \cup evicted THEN ClosedTab
                                ELSE IF g # f THEN tab[g] ELSE new]
    BY <2>1
  <2> HIDE DEF new
  <2>4. tab' \in [Files -> TabRecord]
    BY <1>1, <2>2, <2>3
  <2>5. typed' \in [Files -> 0 .. None]
    BY <1>1, <2>1
  <2>6. ASSUME NEW g \in Files \ ToSet(recent') PROVE tab'[g] = ClosedTab /\ typed'[g] = None
    <3>1. g # f /\ (g \in replaced \cup evicted \/ g \in Files \ ToSet(recent))
      BY <2>1, <2>6
    <3> QED
      BY <1>1, <2>1, <2>3, <3>1
  <2> QED
    BY <2>1, <2>4, <2>5, <2>6
<1>6. ASSUME NEW f \in Files, IsOpen(f), UNCHANGED <<recent, typed>>, tab' \in [Files -> TabRecord],
             \A g \in Files \ {f} : tab'[g] = tab[g]
      PROVE  ListOK
  BY <1>1, <1>6 DEF IsOpen
<1>7. ASSUME NEW new \in SUBSET Job, SendRequests(new) PROVE JobsOK
  BY <1>1, <1>7 DEF SendRequests
<1>8. \A f \in Files : Load("load", f) \in Job /\ Load("reload", f) \in Job
  BY DEF Load, Job
<1>9. ASSUME NEW kind \in {"save", "saveAndClose"}, NEW f \in Files, SaveTab(kind, f), Savable(f)
      PROVE  JobsOK
  <2>1. tab[f].content \in Contents
    BY <1>1, <1>9 DEF Savable, TabRecord, Contents, Empty, None
  <2>2. [kind |-> kind, file |-> f, content |-> tab[f].content, at |-> "sent"] \in Job
    BY <2>1 DEF Job
  <2> QED
    BY <1>7, <1>9, <2>2 DEF SaveTab
<1>10. Move => moves' \in 0 .. MaxMoves
  BY <1>1 DEF Move
<1> HIDE DEF ListOK
<1>11. CASE UNCHANGED fileVars
  BY <1>1, <1>3, <1>11 DEF fileVars, tabVars, tabCause
<1>12. ASSUME NEW f \in Files, NEW preview \in BOOLEAN, OpenFileAsTab(f, preview)
       PROVE  ListOK /\ RestOK /\ JobsOK
  <2>1. RestOK
    BY <1>1, <1>10, <1>12 DEF OpenFileAsTab
  <2>2. cache[f] # None => cache[f] \in Contents
    BY <1>1 DEF Contents, Empty, None
  <2>3. CASE cache[f] # None
    BY <1>1, <1>5, <1>12, <2>1, <2>2, <2>3 DEF OpenFileAsTab
  <2>4. CASE cache[f] = None
    BY <1>5, <1>7, <1>8, <1>12, <2>1, <2>4 DEF OpenFileAsTab
  <2> QED
    BY <2>3, <2>4
<1>13. ASSUME NEW f \in Files, OpenByName(f) PROVE ListOK /\ RestOK /\ JobsOK
  <2>1. RestOK
    BY <1>1, <1>10, <1>13 DEF OpenByName
  <2>2. cache[f] # None => cache[f] \in Contents
    BY <1>1 DEF Contents, Empty, None
  <2>3. tab[f].loading \in BOOLEAN
    BY <1>1 DEF TabRecord
  <2>4. CASE tab[f].content = None /\ ~tab[f].loading /\ cache[f] = None
    BY <1>5, <1>7, <1>8, <1>13, <2>1, <2>4 DEF OpenByName
  <2>5. CASE tab[f].content = None /\ ~tab[f].loading /\ cache[f] # None
    BY <1>1, <1>5, <1>13, <2>1, <2>2, <2>5 DEF OpenByName
  <2>6. CASE ~(tab[f].content = None /\ ~tab[f].loading)
    BY <1>1, <1>5, <1>13, <2>1, <2>3, <2>6 DEF OpenByName
  <2> QED
    BY <2>4, <2>5, <2>6
<1>14. ASSUME NEW f \in Files, NEW c \in Contents, Type(f, c) PROVE ListOK /\ RestOK /\ JobsOK
  <2>1. RestOK /\ JobsOK
    BY <1>1, <1>10, <1>14 DEF Type
  <2>2. ListOK
    BY <1>1, <1>14 DEF Type, IsOpen, ListOK
  <2> QED
    BY <2>1, <2>2
<1>15. ASSUME NEW f \in Files, UpdateFileTabContent(f) PROVE ListOK /\ RestOK /\ JobsOK
  <2>1. RestOK /\ JobsOK
    BY <1>1, <1>15 DEF UpdateFileTabContent
  <2>2. IsOpen(f) /\ recent' = recent
    BY <1>1, <1>15 DEF UpdateFileTabContent, IsOpen
  <2>3. tab' \in [Files -> TabRecord] /\ \A g \in Files \ {f} : tab'[g] = tab[g]
    BY <1>1, <1>15 DEF UpdateFileTabContent, TabRecord
  <2>4. typed' \in [Files -> 0 .. None] /\ \A g \in Files \ {f} : typed'[g] = typed[g]
    BY <1>1, <1>15 DEF UpdateFileTabContent
  <2>5. ListOK
    BY <1>1, <2>2, <2>3, <2>4 DEF ListOK, IsOpen
  <2> QED
    BY <2>1, <2>5
<1>16. ASSUME NEW f \in Files, Save(f) PROVE ListOK /\ RestOK /\ JobsOK
  BY <1>1, <1>3, <1>9, <1>10, <1>16 DEF Save, tabCause
<1>17. ASSUME NEW j \in jobs, BackendSaves(j) PROVE ListOK /\ RestOK /\ JobsOK
  <2>1. j \in Job /\ j.content \in Contents /\ j.file \in Files
    BY <1>1, <1>17 DEF BackendSaves, SaveHasText, Job
  <2>2. JobsOK
    BY <1>1, <1>17, <2>1 DEF BackendSaves, Job
  <2>3. RestOK
    BY <1>1, <1>17, <2>1 DEF BackendSaves
  <2> QED
    BY <1>3, <1>17, <2>2, <2>3 DEF BackendSaves
<1>18. ASSUME NEW j \in jobs, RequestFails(j) PROVE ListOK /\ RestOK /\ JobsOK
  <2>1. JobsOK
    BY <1>1, <1>18 DEF RequestFails, Job
  <2> QED
    BY <1>1, <1>3, <1>10, <1>18, <2>1 DEF RequestFails, tabCause
<1>19. ASSUME NEW j \in jobs, SaveReturns(j) PROVE ListOK /\ RestOK /\ JobsOK
  <2>1. j \in Job /\ j.content \in Contents /\ j.file \in Files
    BY <1>1, <1>19 DEF SaveReturns, SaveHasText, Job
  <2>2. JobsOK /\ RestOK
    BY <1>1, <1>19 DEF SaveReturns
  <2>3. CASE j.at = "done" /\ IsOpen(j.file)
    <3>1. tab' = [tab EXCEPT ![j.file].original = j.content, ![j.file].dirty = FALSE]
      BY <1>19, <2>3 DEF SaveReturns
    <3>2. tab' \in [Files -> TabRecord] /\ \A g \in Files \ {j.file} : tab'[g] = tab[g]
      BY <1>1, <2>1, <3>1 DEF TabRecord
    <3> QED
      BY <1>6, <1>19, <2>1, <2>2, <2>3, <3>2 DEF SaveReturns
  <2>4. CASE ~(j.at = "done" /\ IsOpen(j.file))
    BY <1>3, <1>19, <2>2, <2>4 DEF SaveReturns, tabVars
  <2> QED
    BY <2>3, <2>4
<1>20. ASSUME NEW f \in Files, CloseFileTab(f) PROVE ListOK /\ RestOK /\ JobsOK
  BY <1>1, <1>4, <1>10, <1>20 DEF CloseFileTab
<1>21. ASSUME NEW f \in Files, DontSaveAndClose(f) PROVE ListOK /\ RestOK /\ JobsOK
  BY <1>1, <1>4, <1>10, <1>21 DEF DontSaveAndClose
<1>22. ASSUME NEW f \in Files, SaveAndClose(f) PROVE ListOK /\ RestOK /\ JobsOK
  <2>1. RestOK
    BY <1>1, <1>10, <1>22 DEF SaveAndClose
  <2>2. CASE Savable(f)
    BY <1>3, <1>9, <1>22, <2>1, <2>2 DEF SaveAndClose
  <2>3. CASE ~Savable(f)
    BY <1>1, <1>4, <1>22, <2>1, <2>3 DEF SaveAndClose
  <2> QED
    BY <2>2, <2>3
<1>23. ASSUME NEW j \in jobs, SaveAndCloseReturns(j) PROVE ListOK /\ RestOK /\ JobsOK
  <2>1. j.file \in Files
    BY <1>1, <1>23 DEF Job
  <2>2. JobsOK /\ RestOK
    BY <1>1, <1>23 DEF SaveAndCloseReturns
  <2> QED
    BY <1>4, <1>23, <2>1, <2>2 DEF SaveAndCloseReturns
<1>24. CASE RemoveSession
  BY <1>1, <1>4, <1>10, <1>24 DEF RemoveSession
<1>25. ASSUME NEW j \in jobs, BackendLoads(j) PROVE ListOK /\ RestOK /\ JobsOK
  <2>1. j \in Job /\ disk[j.file] \in Contents
    BY <1>1, <1>25 DEF Job
  <2>2. JobsOK
    BY <1>1, <1>25, <2>1 DEF BackendLoads, Job
  <2> QED
    BY <1>1, <1>3, <1>25, <2>2 DEF BackendLoads, tabCause
<1>26. ASSUME NEW j \in jobs, LoadReturns(j) PROVE ListOK /\ RestOK /\ JobsOK
  <2>1. j \in Job /\ j.content \in 0 .. None /\ j.file \in Files
    BY <1>1, <1>26 DEF Job
  <2>2. JobsOK /\ RestOK
    BY <1>1, <1>26, <2>1 DEF LoadReturns
  <2>3. CASE j.at = "done" /\ IsOpen(j.file)
    <3>1. tab' = [tab EXCEPT ![j.file].content = j.content, ![j.file].original = j.content,
                             ![j.file].loading = FALSE]
      BY <1>26, <2>3 DEF LoadReturns
    <3>2. tab' \in [Files -> TabRecord] /\ \A g \in Files \ {j.file} : tab'[g] = tab[g]
      BY <1>1, <2>1, <3>1 DEF TabRecord
    <3> QED
      BY <1>6, <1>26, <2>1, <2>2, <2>3, <3>2 DEF LoadReturns
  <2>4. CASE ~(j.at = "done" /\ IsOpen(j.file))
    <3>1. tab' = IF IsOpen(j.file) /\ j.kind = "load" THEN [tab EXCEPT ![j.file].loading = FALSE]
                 ELSE tab
      BY <1>26, <2>4 DEF LoadReturns
    <3>2. tab' \in [Files -> TabRecord] /\ \A g \in Files \ {j.file} : tab'[g] = tab[g]
      BY <1>1, <2>1, <3>1 DEF TabRecord
    <3>3. CASE IsOpen(j.file)
      BY <1>6, <1>26, <2>1, <2>2, <3>2, <3>3 DEF LoadReturns
    <3>4. CASE ~IsOpen(j.file)
      BY <1>3, <1>26, <2>2, <3>1, <3>4 DEF LoadReturns, tabVars
    <3> QED
      BY <3>3, <3>4
  <2> QED
    BY <2>3, <2>4
<1>27. CASE InvalidateCache
  BY <1>1, <1>3, <1>10, <1>27 DEF InvalidateCache, tabCause
<1>28. ASSUME NEW f \in Files, AgentWrites(f) PROVE ListOK /\ RestOK /\ JobsOK
  BY <1>1, <1>3, <1>10, <1>28 DEF AgentWrites, tabCause
<1>29. ASSUME NEW f \in Files, HandleFileChange(f) PROVE ListOK /\ RestOK /\ JobsOK
  BY <1>1, <1>3, <1>7, <1>8, <1>29 DEF HandleFileChange
<1>30. CASE BackendReconnects
  <2>1. {Load("reload", f) : f \in {g \in ToSet(recent) : ~tab[g].dirty}} \subseteq Job
    BY <1>1, <1>8
  <2> QED
    BY <1>1, <1>3, <1>7, <1>10, <1>30, <2>1 DEF BackendReconnects, tabCause
<1> QED
  BY <1>11, <1>12, <1>13, <1>14, <1>15, <1>16, <1>17, <1>18, <1>19, <1>20, <1>21, <1>22, <1>23,
     <1>24, <1>25, <1>26, <1>27, <1>28, <1>29, <1>30 DEF FilesNext

(* A save keeps its text, and what is typed into a closing tab is nothing. *)
LEMMA SaveTextStep == FilesInv /\ [FilesNext]_fileVars => (\A j \in jobs : SaveHasText(j))'
<1> SUFFICES ASSUME FilesInv, [FilesNext]_fileVars PROVE \A j \in jobs' : SaveHasText(j)'
  OBVIOUS
<1> USE TextRange
<1>1. /\ FilesTypeOK /\ \A j \in jobs : SaveHasText(j)
      /\ tab \in [Files -> TabRecord] /\ jobs \subseteq Job
      /\ typed \in [Files -> 0 .. None] /\ unsaved \in [Files -> 0 .. None]
      /\ disk \in [Files -> Contents]
  BY DEF FilesInv, FilesTypeOK, TabRecord
<1> DEFINE Good(j) == /\ j.kind \in {"save", "saveAndClose"} => j.content \in Contents
                      /\ j.kind = "saveAndClose" /\ j.at = "done" => unsaved'[j.file] # j.content
           Unsaid == \A f \in Files : unsaved'[f] \in {None, unsaved[f]}
<1> SUFFICES \A j \in jobs' : Good(j)
  BY DEF SaveHasText
<1>2. ASSUME Unsaid, NEW j \in jobs PROVE Good(j)
  <2>1. j \in Job /\ j.file \in Files /\ SaveHasText(j)
    BY <1>1, <1>2 DEF Job
  <2> QED
    BY <1>2, <2>1 DEF SaveHasText
<1>3. ASSUME Unsaid, NEW new, SendRequests(new), \A j \in new : Good(j)
      PROVE  \A j \in jobs' : Good(j)
  BY <1>2, <1>3 DEF SendRequests
<1>4. ASSUME NEW kind \in {"load", "reload"}, NEW f \in Files PROVE Good(Load(kind, f))
  BY DEF SaveHasText, Load
<1>5. ASSUME NEW kind \in {"save", "saveAndClose"}, NEW f \in Files, SaveTab(kind, f), Savable(f),
             Unsaid
      PROVE  \A j \in jobs' : Good(j)
  <2> DEFINE j == [kind |-> kind, file |-> f, content |-> tab[f].content, at |-> "sent"]
  <2>1. tab[f].content \in Contents
    BY <1>1, <1>5 DEF Savable, TabRecord, Contents, Empty, None
  <2>2. Good(j)
    BY <2>1 DEF SaveHasText
  <2>3. SendRequests({j})
    BY <1>5 DEF SaveTab
  <2> HIDE DEF j
  <2> QED
    BY <1>3, <1>5, <2>2, <2>3
<1>6. UNCHANGED unsaved => Unsaid
  BY <1>1
<1>7. ASSUME Unsaid, jobs' \subseteq jobs PROVE \A j \in jobs' : Good(j)
  BY <1>2, <1>7
<1>8. ASSUME NEW j \in jobs, NEW k, jobs' = (jobs \ {j}) \cup {k}, Unsaid, Good(k)
      PROVE  \A i \in jobs' : Good(i)
  BY <1>2, <1>8
<1> HIDE DEF Good, Unsaid
<1>11. CASE UNCHANGED fileVars
  BY <1>6, <1>7, <1>11 DEF fileVars, tabCause
<1>12. ASSUME NEW f \in Files, NEW preview \in BOOLEAN, OpenFileAsTab(f, preview)
       PROVE  \A j \in jobs' : Good(j)
  BY <1>3, <1>4, <1>6, <1>7, <1>12 DEF OpenFileAsTab
<1>13. ASSUME NEW f \in Files, OpenByName(f) PROVE \A j \in jobs' : Good(j)
  <2>1. unsaved' = unsaved /\ (UNCHANGED jobs \/ SendRequests({Load("load", f)}))
    BY <1>13 DEF OpenByName
  <2> QED
    BY <1>3, <1>4, <1>6, <1>7, <2>1
<1>14. ASSUME NEW f \in Files, NEW c \in Contents, Type(f, c) PROVE \A j \in jobs' : Good(j)
  <2>1. jobs' = jobs /\ unsaved' = [unsaved EXCEPT ![f] = c]
        /\ \A j \in jobs : j.file = f => j.kind # "saveAndClose"
    BY <1>14 DEF Type
  <2>2. ASSUME NEW j \in jobs PROVE Good(j)
    <3>1. j \in Job /\ j.file \in Files /\ SaveHasText(j)
      BY <1>1, <2>2 DEF Job
    <3>2. j.kind = "saveAndClose" => unsaved'[j.file] = unsaved[j.file]
      BY <1>1, <2>1, <2>2, <3>1
    <3> QED
      BY <3>1, <3>2 DEF SaveHasText, Good
  <2> QED
    BY <2>1, <2>2
<1>15. ASSUME NEW f \in Files, UpdateFileTabContent(f) PROVE \A j \in jobs' : Good(j)
  BY <1>1, <1>7, <1>15 DEF UpdateFileTabContent, Unsaid
<1>16. ASSUME NEW f \in Files, Save(f) PROVE \A j \in jobs' : Good(j)
  BY <1>5, <1>6, <1>16 DEF Save, tabCause
<1>17. ASSUME NEW j \in jobs, BackendSaves(j) PROVE \A i \in jobs' : Good(i)
  <2> DEFINE k == [j EXCEPT !.at = "done"]
  <2>1. j \in Job /\ j.content \in Contents /\ j.file \in Files
    BY <1>1, <1>17 DEF BackendSaves, SaveHasText, Job
  <2>2. k.content = j.content /\ k.file = j.file /\ k.content # None
    BY <2>1 DEF Job
  <2>3. unsaved' = [unsaved EXCEPT ![j.file] = IF @ = j.content THEN None ELSE @]
    BY <1>17 DEF BackendSaves
  <2>4. Good(k)
    BY <1>1, <2>1, <2>2, <2>3 DEF SaveHasText, Good
  <2>5. jobs' = (jobs \ {j}) \cup {k} /\ Unsaid
    BY <1>1, <1>17, <2>3 DEF BackendSaves, Unsaid
  <2> HIDE DEF k
  <2> QED
    BY <1>8, <2>4, <2>5
<1>18. ASSUME NEW j \in jobs, RequestFails(j) PROVE \A i \in jobs' : Good(i)
  <2> DEFINE k == [j EXCEPT !.at = "failed"]
  <2>1. j \in Job /\ SaveHasText(j) /\ unsaved' = unsaved
    BY <1>1, <1>18 DEF RequestFails, tabCause
  <2>2. k.content = j.content /\ k.kind = j.kind /\ k.at = "failed"
    BY <2>1 DEF Job
  <2>3. Good(k)
    BY <2>1, <2>2 DEF SaveHasText, Good
  <2>4. jobs' = (jobs \ {j}) \cup {k}
    BY <1>18 DEF RequestFails
  <2> HIDE DEF k
  <2> QED
    BY <1>6, <1>8, <2>1, <2>3, <2>4
<1>19. ASSUME NEW j \in jobs, SaveReturns(j) PROVE \A i \in jobs' : Good(i)
  BY <1>6, <1>7, <1>19 DEF SaveReturns
<1>20. ASSUME NEW f \in Files, CloseFileTab(f) PROVE \A j \in jobs' : Good(j)
  BY <1>6, <1>7, <1>20 DEF CloseFileTab
<1>21. ASSUME NEW f \in Files, DontSaveAndClose(f) PROVE \A j \in jobs' : Good(j)
  BY <1>1, <1>7, <1>21 DEF DontSaveAndClose, Unsaid
<1>22. ASSUME NEW f \in Files, SaveAndClose(f) PROVE \A j \in jobs' : Good(j)
  BY <1>5, <1>6, <1>7, <1>22 DEF SaveAndClose
<1>23. ASSUME NEW j \in jobs, SaveAndCloseReturns(j) PROVE \A i \in jobs' : Good(i)
  BY <1>6, <1>7, <1>23 DEF SaveAndCloseReturns
<1>24. CASE RemoveSession
  BY <1>6, <1>7, <1>24 DEF RemoveSession
<1>25. ASSUME NEW j \in jobs, BackendLoads(j) PROVE \A i \in jobs' : Good(i)
  <2> DEFINE k == [j EXCEPT !.at = "done", !.content = IF j.kind = "load" THEN disk[j.file] ELSE 0]
  <2>1. j \in Job /\ j.kind \in {"load", "reload"} /\ unsaved' = unsaved
    BY <1>1, <1>25 DEF BackendLoads, tabCause
  <2>2. k.kind = j.kind
    BY <2>1 DEF Job
  <2>3. Good(k)
    BY <2>1, <2>2 DEF SaveHasText, Good
  <2>4. jobs' = (jobs \ {j}) \cup {k}
    BY <1>25 DEF BackendLoads
  <2> HIDE DEF k
  <2> QED
    BY <1>6, <1>8, <2>1, <2>3, <2>4
<1>26. ASSUME NEW j \in jobs, LoadReturns(j) PROVE \A i \in jobs' : Good(i)
  BY <1>6, <1>7, <1>26 DEF LoadReturns
<1>27. CASE InvalidateCache
  BY <1>6, <1>7, <1>27 DEF InvalidateCache, tabCause
<1>28. ASSUME NEW f \in Files, AgentWrites(f) PROVE \A j \in jobs' : Good(j)
  BY <1>6, <1>7, <1>28 DEF AgentWrites, tabCause
<1>29. ASSUME NEW f \in Files, HandleFileChange(f) PROVE \A j \in jobs' : Good(j)
  BY <1>3, <1>4, <1>6, <1>7, <1>29 DEF HandleFileChange
<1>30. CASE BackendReconnects
  <2>1. \A j \in {Load("reload", f) : f \in {g \in ToSet(recent) : ~tab[g].dirty}} : Good(j)
    <3>1. ToSet(recent) \subseteq Files
      BY <1>1, SetOfList DEF FilesTypeOK
    <3> QED
      BY <1>4, <3>1
  <2> QED
    BY <1>3, <1>6, <1>30, <2>1 DEF BackendReconnects, tabCause
<1> QED
  BY <1>11, <1>12, <1>13, <1>14, <1>15, <1>16, <1>17, <1>18, <1>19, <1>20, <1>21, <1>22, <1>23,
     <1>24, <1>25, <1>26, <1>27, <1>28, <1>29, <1>30 DEF FilesNext

(* A way in which text was given up stays on record.                       *)
LEMMA CausesGrow == [FilesNext]_fileVars => causes \subseteq causes'
<1> SUFFICES ASSUME [FilesNext]_fileVars PROVE causes \subseteq causes'
  OBVIOUS
<1>1. ASSUME NEW f, NEW preview, NEW content, NEW loading,
             OpenFileTab(f, preview, content, loading)
      PROVE  causes \subseteq causes'
  <2>1. \E new : causes' = causes \cup new
    <3> DEFINE a == {<<g, "replaced">> : g \in {h \in Replaced(f, preview) : Edited(h)}}
               b == {<<g, "typing">> : g \in {h \in Evicted(f, Only(Accessed(f), Files \ Replaced(f, preview))) : typed[h] # None}}
               c == IF content # None /\ Edited(f) THEN {<<f, "reloaded">>} ELSE {}
               d == IF loading /\ typed[f] # None THEN {<<f, "typing">>} ELSE {}
               e == IF content \notin {None, disk[f]} THEN {<<f, "cached">>} ELSE {}
    <3>1. causes' = causes \cup a \cup b \cup c \cup d \cup e
      BY <1>1 DEF OpenFileTab
    <3> HIDE DEF a, b, c, d, e
    <3>2. causes' = causes \cup (a \cup b \cup c \cup d \cup e)
      BY <3>1
    <3> QED
      BY <3>2
  <2> QED
    BY <2>1
<1>2. ASSUME NEW fs, NEW why, Blame(fs, why) PROVE causes \subseteq causes'
  BY <1>2 DEF Blame
<1>3. UNCHANGED causes => causes \subseteq causes'
  OBVIOUS
<1>4. CASE UNCHANGED fileVars
  BY <1>4 DEF fileVars, tabCause
<1>5. ASSUME NEW f \in Files, NEW preview \in BOOLEAN, OpenFileAsTab(f, preview)
      PROVE  causes \subseteq causes'
  BY <1>1, <1>5 DEF OpenFileAsTab
<1>6. ASSUME NEW f \in Files, OpenByName(f) PROVE causes \subseteq causes'
  BY <1>1, <1>6 DEF OpenByName
<1>7. ASSUME NEW f \in Files,
             \/ UpdateFileTabContent(f) \/ Save(f) \/ CloseFileTab(f)
             \/ DontSaveAndClose(f) \/ SaveAndClose(f) \/ AgentWrites(f) \/ HandleFileChange(f)
      PROVE  causes \subseteq causes'
  <2>1. \/ UNCHANGED causes
        \/ \E fs : Blame(fs, "typing") \/ Blame(fs, "overtyped") \/ Blame(fs, "emptied")
                   \/ Blame(fs, "unrouted") \/ Blame(fs, "warned")
    BY <1>7 DEF UpdateFileTabContent, Save, CloseFileTab, DontSaveAndClose,
                SaveAndClose, AgentWrites, HandleFileChange, tabCause
  <2> QED
    BY <1>2, <2>1
<1>8. ASSUME NEW f \in Files, NEW c \in Contents, Type(f, c) PROVE causes \subseteq causes'
  BY <1>8 DEF Type
<1>9. ASSUME NEW j \in jobs,
             \/ BackendSaves(j) \/ RequestFails(j) \/ SaveAndCloseReturns(j) \/ BackendLoads(j)
      PROVE  causes \subseteq causes'
  <2>1. UNCHANGED causes \/ \E fs : Blame(fs, "overtaken") \/ Blame(fs, "closed")
    BY <1>9 DEF BackendSaves, RequestFails, SaveAndCloseReturns, BackendLoads, tabCause
  <2> QED
    BY <1>2, <2>1
<1>10. ASSUME NEW j \in jobs, SaveReturns(j) \/ LoadReturns(j) PROVE causes \subseteq causes'
  <2>1. \E a, b : causes' = (causes \cup a) \cup b
    BY <1>10 DEF SaveReturns, LoadReturns
  <2> QED
    BY <2>1
<1>11. CASE RemoveSession
  BY <1>2, <1>11 DEF RemoveSession
<1>12. CASE InvalidateCache \/ BackendReconnects
  BY <1>12 DEF InvalidateCache, BackendReconnects, tabCause
<1> QED
  BY <1>4, <1>5, <1>6, <1>7, <1>8, <1>9, <1>10, <1>11, <1>12 DEF FilesNext

LEMMA BlameStays ==
  [FilesNext]_fileVars =>
     \A f, whys : Blamed(f, whys) => \E why \in whys : <<f, why>> \in causes'
BY CausesGrow DEF Blamed

(* The user's text stays where it is kept, or is given up by one of the    *)
(* named causes.                                                           *)
LEMMA TextKeptStep == FilesInv /\ [FilesNext]_fileVars => (\A f \in Files : TextKept(f))'
<1> SUFFICES ASSUME FilesInv, [FilesNext]_fileVars, NEW f \in Files,
                    \A why \in EditCauses : <<f, why>> \notin causes'
             PROVE  \/ unsaved'[f] = None
                    \/ IF typed'[f] # None THEN typed'[f] = unsaved'[f]
                       ELSE f \in ToSet(recent') /\ tab'[f].dirty = TRUE
                            /\ tab'[f].content = unsaved'[f]
  BY DEF TextKept, Blamed, IsOpen
<1> USE TextRange
<1>1. /\ FilesTypeOK /\ \A j \in jobs : SaveHasText(j)
      /\ recent \in Seq(Files) /\ ToSet(recent) \subseteq Files
      /\ tab \in [Files -> TabRecord] /\ jobs \subseteq Job
      /\ \A g \in Files \ ToSet(recent) : tab[g] = ClosedTab /\ typed[g] = None
      /\ typed \in [Files -> 0 .. None] /\ unsaved \in [Files -> 0 .. None]
      /\ tab[f].dirty \in BOOLEAN
  BY SetOfList DEF FilesInv, FilesTypeOK, TabRecord
<1> DEFINE Goal == \/ unsaved'[f] = None
                   \/ IF typed'[f] # None THEN typed'[f] = unsaved'[f]
                      ELSE f \in ToSet(recent') /\ tab'[f].dirty = TRUE
                           /\ tab'[f].content = unsaved'[f]
<1>2. \/ unsaved[f] = None
      \/ IF typed[f] # None THEN typed[f] = unsaved[f]
         ELSE f \in ToSet(recent) /\ tab[f].dirty = TRUE /\ tab[f].content = unsaved[f]
  <2>1. TextKept(f) /\ ~Blamed(f, EditCauses)
    BY BlameStays DEF FilesInv
  <2> QED
    BY <2>1 DEF TextKept, IsOpen
<1>3. ~Edited(f) => unsaved[f] = None
  BY <1>1, <1>2 DEF Edited
\* Nothing of f changes but that its text may have reached the disk.
<1>4. ASSUME unsaved'[f] \in {None, unsaved[f]}, typed'[f] = typed[f],
             f \in ToSet(recent) => f \in ToSet(recent'),
             tab'[f].dirty = tab[f].dirty, tab'[f].content = tab[f].content
      PROVE  Goal
  BY <1>2, <1>4
\* The tabs fs close: those with unsaved text have to be blamed.
<1>5. ASSUME NEW fs \in SUBSET Files, CloseAll(fs), UNCHANGED unsaved,
             f \in fs => unsaved[f] = None
      PROVE  Goal
  <2>1. /\ ToSet(recent') = ToSet(recent) \ fs
        /\ \A g \in Files \ fs : tab'[g] = tab[g] /\ typed'[g] = typed[g]
    BY <1>1, <1>5, CloseAllTabs
  <2>2. CASE f \in fs
    BY <1>5, <2>2
  <2>3. CASE f \notin fs
    BY <1>4, <1>5, <2>1, <2>3
  <2> QED
    BY <2>2, <2>3
<1>6. ASSUME NEW fs, NEW why \in EditCauses, Blame(fs, why) PROVE f \notin fs
  BY <1>6 DEF Blame
<1>7. ASSUME NEW g \in Files, NEW preview, NEW loading, NEW content \in Contents \cup {None},
             OpenFileTab(g, preview, content, loading), UNCHANGED unsaved
      PROVE  Goal
  <2>1. FilesTypeOK
    BY <1>1
  <2>2. PICK replaced, evicted \in SUBSET (Files \ {g}) :
                Opening(g, preview, content, loading, replaced, evicted)
    BY <1>7, <2>1, OpenedTabs, Zenon
  <2>3. /\ ToSet(recent') = (ToSet(recent) \cup {g}) \ (replaced \cup evicted)
        /\ \A h \in evicted : tab[h].dirty = FALSE
        /\ typed' = [h \in Files |-> IF h \in replaced \cup evicted \/ (h = g /\ loading)
                                     THEN None ELSE typed[h]]
    BY <2>2 DEF Opening
  <2>4. /\ f \in replaced /\ Edited(f) => <<f, "replaced">> \in causes'
        /\ f \in evicted /\ typed[f] # None => <<f, "typing">> \in causes'
        /\ f = g /\ content # None /\ Edited(f) => <<f, "reloaded">> \in causes'
        /\ f = g /\ loading /\ typed[f] # None => <<f, "typing">> \in causes'
    BY <2>2 DEF Opening
  <2>5. /\ f \notin replaced \cup evicted /\ f # g => tab'[f] = tab[f]
        /\ f = g => /\ tab'[f].dirty = tab[f].dirty
                    /\ content = None => tab'[f].content = tab[f].content
    BY <2>2 DEF Opening
  <2>6. ~(f \in replaced /\ Edited(f)) /\ ~(f \in evicted /\ typed[f] # None)
        /\ ~(f = g /\ content # None /\ Edited(f)) /\ ~(f = g /\ loading /\ typed[f] # None)
    BY <2>4 DEF EditCauses
  <2>7. CASE f \in replaced \cup evicted
    <3>1. f \in evicted => ~Edited(f)
      BY <2>3, <2>6 DEF Edited
    <3> QED
      BY <1>3, <1>7, <2>6, <2>7, <3>1
  <2>8. CASE f \notin replaced \cup evicted /\ f # g
    BY <1>4, <1>7, <2>3, <2>5, <2>8
  <2>9. CASE f = g /\ content # None
    BY <1>3, <1>7, <2>6, <2>9
  <2>10. CASE f = g /\ content = None
    <3>1. typed'[f] = typed[f] /\ f \in ToSet(recent')
      BY <2>2, <2>3, <2>6, <2>10
    <3> QED
      BY <1>4, <1>7, <2>5, <2>10, <3>1
  <2> QED
    BY <2>7, <2>8, <2>9, <2>10
<1> SUFFICES Goal
  OBVIOUS
<1> HIDE DEF Goal
<1>8. UNCHANGED <<recent, tab, typed, unsaved>> => Goal
  BY <1>4
<1>9. UNCHANGED <<tabVars, unsaved>> => Goal
  BY <1>8 DEF tabVars
<1>11. CASE UNCHANGED fileVars
  BY <1>9, <1>11 DEF fileVars, tabCause
<1>12. ASSUME NEW g \in Files, NEW preview \in BOOLEAN, OpenFileAsTab(g, preview) PROVE Goal
  <2>1. cache[g] \in Contents \cup {None}
    BY DEF FilesInv, FilesTypeOK, Contents, Empty, None
  <2>2. /\ unsaved' = unsaved
        /\ \/ OpenFileTab(g, preview, cache[g], FALSE)
           \/ OpenFileTab(g, preview, None, TRUE)
    BY <1>12 DEF OpenFileAsTab
  <2> QED
    BY <1>7, <2>1, <2>2
<1>13. ASSUME NEW g \in Files, OpenByName(g) PROVE Goal
  <2>1. cache[g] \in Contents \cup {None}
    BY DEF FilesInv, FilesTypeOK, Contents, Empty, None
  <2>2. /\ unsaved' = unsaved
        /\ \/ OpenFileTab(g, FALSE, cache[g], FALSE)
           \/ OpenFileTab(g, FALSE, None, TRUE)
           \/ OpenFileTab(g, FALSE, None, tab[g].loading)
    BY <1>13 DEF OpenByName
  <2> QED
    BY <1>7, <2>1, <2>2
<1>14. ASSUME NEW g \in Files, NEW c \in Contents, Type(g, c) PROVE Goal
  <2>1. /\ typed' = [typed EXCEPT ![g] = c] /\ unsaved' = [unsaved EXCEPT ![g] = c]
        /\ recent' = recent /\ tab' = tab
    BY <1>14 DEF Type
  <2>2. CASE f = g
    BY <1>1, <2>1, <2>2 DEF Goal
  <2>3. CASE f # g
    BY <1>1, <1>4, <2>1, <2>3
  <2> QED
    BY <2>2, <2>3
<1>15. ASSUME NEW g \in Files, UpdateFileTabContent(g) PROVE Goal
  <2>1. /\ typed[g] # None /\ recent' = recent
        /\ tab' = [tab EXCEPT ![g].content = typed[g], ![g].preview = FALSE,
                              ![g].dirty = typed[g] # tab[g].original]
        /\ typed' = [typed EXCEPT ![g] = None]
    BY <1>15 DEF UpdateFileTabContent
  <2>2. /\ unsaved' = [unsaved EXCEPT ![g] =
                          IF typed[g] = tab[g].original /\ ~Saving(g) THEN None ELSE @]
        /\ Blame(IF typed[g] = tab[g].original /\ Saving(g) THEN {g} ELSE {}, "overtyped")
    BY <1>15 DEF UpdateFileTabContent
  <2>3. CASE f # g
    BY <1>1, <1>4, <2>1, <2>2, <2>3
  <2>4. CASE f = g
    <3>1. ~(typed[f] = tab[f].original /\ Saving(f))
      BY <1>6, <2>2, <2>4 DEF EditCauses
    <3>2. tab'[f].content = typed[f] /\ tab'[f].dirty = (typed[f] # tab[f].original)
      BY <1>1, <2>1, <2>4 DEF TabRecord
    <3>3. f \in ToSet(recent')
      BY <1>1, <2>1, <2>4
    <3>4. CASE typed[f] = tab[f].original
      BY <1>1, <2>2, <2>4, <3>1, <3>4 DEF Goal
    <3>5. CASE typed[f] # tab[f].original
      <4>1. unsaved'[f] = unsaved[f] /\ typed'[f] = None
        BY <1>1, <2>1, <2>2, <2>4, <3>5
      <4>2. unsaved[f] = None \/ typed[f] = unsaved[f]
        BY <1>2, <2>1, <2>4
      <4> QED
        BY <3>2, <3>3, <3>5, <4>1, <4>2 DEF Goal
    <3> QED
      BY <3>4, <3>5
  <2> QED
    BY <2>3, <2>4
<1>16. ASSUME NEW g \in Files, Save(g) PROVE Goal
  BY <1>9, <1>16 DEF Save, tabCause
<1>17. ASSUME NEW j \in jobs, BackendSaves(j) PROVE Goal
  <2>1. /\ UNCHANGED tabVars
        /\ unsaved' = [unsaved EXCEPT ![j.file] = IF @ = j.content THEN None ELSE @]
    BY <1>17 DEF BackendSaves
  <2>2. unsaved'[f] \in {None, unsaved[f]}
    BY <1>1, <2>1
  <2> QED
    BY <1>4, <2>1, <2>2 DEF tabVars
<1>18. ASSUME NEW j \in jobs, RequestFails(j) PROVE Goal
  BY <1>9, <1>18 DEF RequestFails, tabCause
<1>19. ASSUME NEW j \in jobs, SaveReturns(j) PROVE Goal
  <2>1. j \in Job /\ j.file \in Files /\ UNCHANGED <<recent, typed, unsaved>>
    BY <1>1, <1>19 DEF SaveReturns, Job
  <2>2. CASE j.at = "done" /\ IsOpen(j.file)
    <3>1. /\ tab' = [tab EXCEPT ![j.file].original = j.content, ![j.file].dirty = FALSE]
          /\ (tab[j.file].content # j.content \/ unsaved[j.file] = j.content)
               => <<j.file, "overtyped">> \in causes'
      BY <1>19, <2>2 DEF SaveReturns
    <3>2. CASE j.file # f
      BY <1>1, <1>4, <2>1, <3>1, <3>2
    <3>3. CASE j.file = f
      <4>1. tab[f].content = j.content /\ unsaved[f] # j.content
        BY <3>1, <3>3 DEF EditCauses
      <4> QED
        BY <1>2, <2>1, <4>1 DEF Goal
    <3> QED
      BY <3>2, <3>3
  <2>3. CASE ~(j.at = "done" /\ IsOpen(j.file))
    BY <1>8, <1>19, <2>1, <2>3 DEF SaveReturns
  <2> QED
    BY <2>2, <2>3
<1>20. ASSUME NEW g \in Files, CloseFileTab(g) PROVE Goal
  <2>1. /\ CloseAll({g}) /\ ~tab[g].dirty /\ unsaved' = unsaved
        /\ Blame(IF typed[g] # None THEN {g} ELSE {}, "typing")
    BY <1>20 DEF CloseFileTab
  <2>2. f = g => unsaved[f] = None
    BY <1>3, <1>6, <2>1 DEF EditCauses, Edited
  <2> QED
    BY <1>5, <2>1, <2>2
<1>21. ASSUME NEW g \in Files, DontSaveAndClose(g) PROVE Goal
  <2>1. CloseAll({g}) /\ unsaved' = [unsaved EXCEPT ![g] = None]
    BY <1>21 DEF DontSaveAndClose
  <2>2. /\ ToSet(recent') = ToSet(recent) \ {g}
        /\ \A h \in Files \ {g} : tab'[h] = tab[h] /\ typed'[h] = typed[h]
    <3>1. FilesTypeOK /\ {g} \in SUBSET Files
      BY <1>1
    <3> QED
      BY <2>1, <3>1, CloseAllTabs
  <2>3. CASE f = g
    BY <1>1, <2>1, <2>3 DEF Goal
  <2>4. CASE f # g
    BY <1>1, <1>4, <2>1, <2>2, <2>4
  <2> QED
    BY <2>3, <2>4
<1>22. ASSUME NEW g \in Files, SaveAndClose(g) PROVE Goal
  <2>1. CASE Savable(g)
    BY <1>9, <1>22, <2>1 DEF SaveAndClose
  <2>2. CASE ~Savable(g)
    <3>1. CloseAll({g}) /\ Blame({g}, "emptied") /\ unsaved' = unsaved
      BY <1>22, <2>2 DEF SaveAndClose
    <3>2. f # g
      BY <1>6, <3>1 DEF EditCauses
    <3> QED
      BY <1>5, <3>1, <3>2
  <2> QED
    BY <2>1, <2>2
<1>23. ASSUME NEW j \in jobs, SaveAndCloseReturns(j) PROVE Goal
  <2>1. /\ j \in Job /\ j.file \in Files /\ SaveHasText(j) /\ j.kind = "saveAndClose"
        /\ j.at \in {"done", "failed"} /\ CloseAll({j.file}) /\ unsaved' = unsaved
    BY <1>1, <1>23 DEF SaveAndCloseReturns, Job
  <2>2. Blame(IF IsOpen(j.file) /\ (j.at = "failed" \/ (tab[j.file].content # j.content
                                                        \/ typed[j.file] # None))
              THEN {j.file} ELSE {}, "closed")
    BY <1>23 DEF SaveAndCloseReturns
  <2>3. f = j.file => ~IsOpen(f) \/ (j.at = "done" /\ tab[f].content = j.content /\ typed[f] = None)
    BY <1>6, <2>1, <2>2 DEF EditCauses
  <2>4. f = j.file => unsaved[f] = None
    BY <1>1, <1>2, <2>1, <2>3 DEF SaveHasText, IsOpen
  <2> QED
    BY <1>5, <2>1, <2>4
<1>24. CASE RemoveSession
  <2>1. /\ CloseAll(ToSet(recent)) /\ unsaved' = unsaved
        /\ Blame({g \in ToSet(recent) : Edited(g)}, "removed")
    BY <1>24 DEF RemoveSession
  <2>2. f \in ToSet(recent) => unsaved[f] = None
    BY <1>3, <1>6, <2>1 DEF EditCauses
  <2> QED
    BY <1>1, <1>5, <2>1, <2>2
<1>25. ASSUME NEW j \in jobs, BackendLoads(j) PROVE Goal
  BY <1>9, <1>25 DEF BackendLoads, tabCause
<1>26. ASSUME NEW j \in jobs, LoadReturns(j) PROVE Goal
  <2>1. j \in Job /\ j.file \in Files /\ UNCHANGED <<recent, typed, unsaved>>
    BY <1>1, <1>26 DEF LoadReturns, Job
  <2>2. CASE j.at = "done" /\ IsOpen(j.file)
    <3>1. /\ tab' = [tab EXCEPT ![j.file].content = j.content, ![j.file].original = j.content,
                                ![j.file].loading = FALSE]
          /\ Edited(j.file) => <<j.file, "reloaded">> \in causes'
      BY <1>26, <2>2 DEF LoadReturns
    <3>2. CASE j.file # f
      BY <1>1, <1>4, <2>1, <3>1, <3>2
    <3>3. CASE j.file = f
      BY <1>3, <2>1, <3>1, <3>3 DEF EditCauses, Goal
    <3> QED
      BY <3>2, <3>3
  <2>3. CASE ~(j.at = "done" /\ IsOpen(j.file))
    <3>1. tab' = IF IsOpen(j.file) /\ j.kind = "load" THEN [tab EXCEPT ![j.file].loading = FALSE]
                 ELSE tab
      BY <1>26, <2>3 DEF LoadReturns
    <3>2. tab'[f].dirty = tab[f].dirty /\ tab'[f].content = tab[f].content
      BY <1>1, <2>1, <3>1 DEF TabRecord
    <3> QED
      BY <1>4, <2>1, <3>2
  <2> QED
    BY <2>2, <2>3
<1>27. CASE InvalidateCache
  BY <1>9, <1>27 DEF InvalidateCache, tabCause
<1>28. ASSUME NEW g \in Files, AgentWrites(g) PROVE Goal
  BY <1>9, <1>28 DEF AgentWrites, tabCause
<1>29. ASSUME NEW g \in Files, HandleFileChange(g) PROVE Goal
  BY <1>9, <1>29 DEF HandleFileChange
<1>30. CASE BackendReconnects
  BY <1>9, <1>30 DEF BackendReconnects, tabCause
<1> QED
  BY <1>11, <1>12, <1>13, <1>14, <1>15, <1>16, <1>17, <1>18, <1>19, <1>20, <1>21, <1>22, <1>23,
     <1>24, <1>25, <1>26, <1>27, <1>28, <1>29, <1>30 DEF FilesNext

(* What a tab took from the disk is there still, or the watcher has to     *)
(* report the change, or one of the named causes set them apart.           *)
LEMMA TabTracksDiskStep ==
  FilesInv /\ [FilesNext]_fileVars => (\A f \in Files : TabTracksDisk(f))'
<1> SUFFICES ASSUME FilesInv, [FilesNext]_fileVars, NEW f \in Files,
                    \A why \in DiskCauses : <<f, why>> \notin causes',
                    f \in ToSet(recent')
             PROVE  /\ tab'[f].original \in {None, disk'[f]} \/ f \in changed'
                    /\ tab'[f].dirty = TRUE \/ tab'[f].content = tab'[f].original
  BY DEF TabTracksDisk, Blamed, IsOpen
<1> USE TextRange
<1>1. /\ FilesTypeOK /\ \A j \in jobs : SaveHasText(j)
      /\ recent \in Seq(Files) /\ ToSet(recent) \subseteq Files
      /\ tab \in [Files -> TabRecord] /\ jobs \subseteq Job
      /\ \A g \in Files \ ToSet(recent) : tab[g] = ClosedTab /\ typed[g] = None
      /\ typed \in [Files -> 0 .. None] /\ disk \in [Files -> Contents]
      /\ tab[f].dirty \in BOOLEAN
  BY SetOfList DEF FilesInv, FilesTypeOK, TabRecord
<1> DEFINE Goal == /\ tab'[f].original \in {None, disk'[f]} \/ f \in changed'
                   /\ tab'[f].dirty = TRUE \/ tab'[f].content = tab'[f].original
<1>2. /\ tab[f].original \in {None, disk[f]} \/ f \in changed
      /\ tab[f].dirty = TRUE \/ tab[f].content = tab[f].original
  <2>1. TabTracksDisk(f) /\ ~Blamed(f, DiskCauses)
    BY BlameStays DEF FilesInv
  <2>2. CASE f \in ToSet(recent)
    BY <2>1, <2>2 DEF TabTracksDisk, IsOpen
  <2>3. CASE f \notin ToSet(recent)
    BY <1>1, <2>3 DEF ClosedTab
  <2> QED
    BY <2>2, <2>3
<1>3. ASSUME tab'[f].dirty = tab[f].dirty, tab'[f].content = tab[f].content,
             tab'[f].original = tab[f].original,
             (disk'[f] = disk[f] /\ (f \in changed => f \in changed')) \/ f \in changed'
      PROVE  Goal
  BY <1>2, <1>3
<1>4. ASSUME NEW fs \in SUBSET Files, CloseAll(fs), UNCHANGED <<disk, changed>>
      PROVE  Goal
  <2>1. FilesTypeOK
    BY <1>1
  <2>2. /\ ToSet(recent') = ToSet(recent) \ fs
        /\ \A g \in Files \ fs : tab'[g] = tab[g] /\ typed'[g] = typed[g]
    BY <1>4, <2>1, CloseAllTabs
  <2> QED
    BY <1>3, <1>4, <2>2
<1>5. ASSUME NEW fs, NEW why \in DiskCauses, Blame(fs, why) PROVE f \notin fs
  BY <1>5 DEF Blame
<1>7. ASSUME NEW g \in Files, NEW preview, NEW loading, NEW content \in Contents \cup {None},
             OpenFileTab(g, preview, content, loading), UNCHANGED <<disk, changed>>
      PROVE  Goal
  <2>1. FilesTypeOK
    BY <1>1
  <2>2. PICK replaced, evicted \in SUBSET (Files \ {g}) :
                Opening(g, preview, content, loading, replaced, evicted)
    BY <1>7, <2>1, OpenedTabs, Zenon
  <2>3. f \notin replaced \cup evicted
    BY <2>2 DEF Opening
  <2>4. content \notin {None, disk[g]} => <<g, "cached">> \in causes'
    BY <2>2 DEF Opening
  <2>5. /\ f # g => tab'[f] = tab[f]
        /\ f = g /\ content = None =>
             /\ tab'[f].dirty = tab[f].dirty /\ tab'[f].content = tab[f].content
             /\ tab'[f].original = tab[f].original
        /\ f = g /\ content # None =>
             tab'[f].content = content /\ tab'[f].original = content
    BY <2>2, <2>3 DEF Opening
  <2>6. CASE f # g \/ content = None
    BY <1>3, <1>7, <2>5, <2>6
  <2>7. CASE f = g /\ content # None
    BY <1>7, <2>4, <2>5, <2>7 DEF DiskCauses
  <2> QED
    BY <2>6, <2>7
<1> SUFFICES Goal
  OBVIOUS
<1> HIDE DEF Goal
<1>8. UNCHANGED <<tab, disk, changed>> => Goal
  BY <1>3
<1>9. UNCHANGED <<tabVars, disk, changed>> => Goal
  BY <1>8 DEF tabVars
<1>11. CASE UNCHANGED fileVars
  BY <1>9, <1>11 DEF fileVars
<1>12. ASSUME NEW g \in Files, NEW preview \in BOOLEAN, OpenFileAsTab(g, preview) PROVE Goal
  <2>1. cache[g] \in Contents \cup {None}
    BY DEF FilesInv, FilesTypeOK, Contents, Empty, None
  <2>2. /\ UNCHANGED <<disk, changed>>
        /\ \/ OpenFileTab(g, preview, cache[g], FALSE)
           \/ OpenFileTab(g, preview, None, TRUE)
    BY <1>12 DEF OpenFileAsTab
  <2> QED
    BY <1>7, <2>1, <2>2
<1>13. ASSUME NEW g \in Files, OpenByName(g) PROVE Goal
  <2>1. cache[g] \in Contents \cup {None}
    BY DEF FilesInv, FilesTypeOK, Contents, Empty, None
  <2>2. /\ UNCHANGED <<disk, changed>>
        /\ \/ OpenFileTab(g, FALSE, cache[g], FALSE)
           \/ OpenFileTab(g, FALSE, None, TRUE)
           \/ OpenFileTab(g, FALSE, None, tab[g].loading)
    BY <1>13 DEF OpenByName
  <2> QED
    BY <1>7, <2>1, <2>2
<1>14. ASSUME NEW g \in Files, NEW c \in Contents, Type(g, c) PROVE Goal
  BY <1>8, <1>14 DEF Type
<1>15. ASSUME NEW g \in Files, UpdateFileTabContent(g) PROVE Goal
  <2>1. /\ tab' = [tab EXCEPT ![g].content = typed[g], ![g].preview = FALSE,
                              ![g].dirty = typed[g] # tab[g].original]
        /\ UNCHANGED <<disk, changed>>
    BY <1>15 DEF UpdateFileTabContent
  <2>2. CASE f # g
    BY <1>1, <1>3, <2>1, <2>2
  <2>3. CASE f = g
    <3>1. /\ tab'[f].content = typed[f] /\ tab'[f].original = tab[f].original
          /\ tab'[f].dirty = (typed[f] # tab[f].original)
      BY <1>1, <2>1, <2>3 DEF TabRecord
    <3>2. tab'[f].dirty = TRUE \/ tab'[f].content = tab'[f].original
      BY <3>1
    <3> QED
      BY <1>2, <2>1, <3>1, <3>2 DEF Goal
  <2> QED
    BY <2>2, <2>3
<1>16. ASSUME NEW g \in Files, Save(g) PROVE Goal
  BY <1>9, <1>16 DEF Save
<1>17. ASSUME NEW j \in jobs, BackendSaves(j) PROVE Goal
  <2>1. /\ UNCHANGED tabVars /\ disk' = [disk EXCEPT ![j.file] = j.content]
        /\ changed' = changed \cup {j.file}
    BY <1>17 DEF BackendSaves
  <2>2. disk'[f] = disk[f] \/ f \in changed'
    BY <1>1, <2>1
  <2> QED
    BY <1>3, <2>1, <2>2 DEF tabVars
<1>18. ASSUME NEW j \in jobs, RequestFails(j) PROVE Goal
  BY <1>9, <1>18 DEF RequestFails
<1>19. ASSUME NEW j \in jobs, SaveReturns(j) PROVE Goal
  <2>1. j \in Job /\ j.file \in Files /\ UNCHANGED <<disk, changed>>
    BY <1>1, <1>19 DEF SaveReturns, Job
  <2>2. CASE j.at = "done" /\ IsOpen(j.file)
    <3>1. /\ tab' = [tab EXCEPT ![j.file].original = j.content, ![j.file].dirty = FALSE]
          /\ tab[j.file].content # j.content => <<j.file, "overtyped">> \in causes'
          /\ disk[j.file] # j.content /\ j.file \notin changed =>
               <<j.file, "overtaken">> \in causes'
      BY <1>19, <2>2 DEF SaveReturns
    <3>2. CASE j.file # f
      BY <1>1, <1>3, <2>1, <3>1, <3>2
    <3>3. CASE j.file = f
      <4>1. tab[f].content = j.content /\ (disk[f] = j.content \/ f \in changed)
        BY <3>1, <3>3 DEF DiskCauses
      <4>2. tab'[f].content = tab[f].content /\ tab'[f].original = j.content
        BY <1>1, <3>1, <3>3 DEF TabRecord
      <4> QED
        BY <2>1, <4>1, <4>2 DEF Goal
    <3> QED
      BY <3>2, <3>3
  <2>3. CASE ~(j.at = "done" /\ IsOpen(j.file))
    BY <1>8, <1>19, <2>1, <2>3 DEF SaveReturns
  <2> QED
    BY <2>2, <2>3
<1>20. ASSUME NEW g \in Files, CloseFileTab(g) PROVE Goal
  BY <1>4, <1>20 DEF CloseFileTab
<1>21. ASSUME NEW g \in Files, DontSaveAndClose(g) PROVE Goal
  BY <1>4, <1>21 DEF DontSaveAndClose
<1>22. ASSUME NEW g \in Files, SaveAndClose(g) PROVE Goal
  <2>1. CASE Savable(g)
    BY <1>9, <1>22, <2>1 DEF SaveAndClose
  <2>2. CASE ~Savable(g)
    BY <1>4, <1>22, <2>2 DEF SaveAndClose
  <2> QED
    BY <2>1, <2>2
<1>23. ASSUME NEW j \in jobs, SaveAndCloseReturns(j) PROVE Goal
  <2>1. j.file \in Files
    BY <1>1, <1>23 DEF Job
  <2> QED
    BY <1>4, <1>23, <2>1 DEF SaveAndCloseReturns
<1>24. CASE RemoveSession
  BY <1>1, <1>4, <1>24 DEF RemoveSession
<1>25. ASSUME NEW j \in jobs, BackendLoads(j) PROVE Goal
  BY <1>9, <1>25 DEF BackendLoads
<1>26. ASSUME NEW j \in jobs, LoadReturns(j) PROVE Goal
  <2>1. /\ j \in Job /\ j.file \in Files /\ UNCHANGED <<disk, changed>>
        /\ j.kind \in {"load", "reload"}
    BY <1>1, <1>26 DEF LoadReturns, Job
  <2>2. CASE j.at = "done" /\ IsOpen(j.file)
    <3>1. /\ tab' = [tab EXCEPT ![j.file].content = j.content, ![j.file].original = j.content,
                                ![j.file].loading = FALSE]
          /\ j.content # disk[j.file] => <<j.file, j.kind>> \in causes'
      BY <1>26, <2>2 DEF LoadReturns
    <3>2. CASE j.file # f
      BY <1>1, <1>3, <2>1, <3>1, <3>2
    <3>3. CASE j.file = f
      <4>1. j.content = disk[f]
        BY <2>1, <3>1, <3>3 DEF DiskCauses
      <4>2. tab'[f].content = j.content /\ tab'[f].original = j.content
        BY <1>1, <3>1, <3>3 DEF TabRecord
      <4> QED
        BY <2>1, <4>1, <4>2 DEF Goal
    <3> QED
      BY <3>2, <3>3
  <2>3. CASE ~(j.at = "done" /\ IsOpen(j.file))
    <3>1. tab' = IF IsOpen(j.file) /\ j.kind = "load" THEN [tab EXCEPT ![j.file].loading = FALSE]
                 ELSE tab
      BY <1>26, <2>3 DEF LoadReturns
    <3>2. /\ tab'[f].dirty = tab[f].dirty /\ tab'[f].content = tab[f].content
          /\ tab'[f].original = tab[f].original
      BY <1>1, <2>1, <3>1 DEF TabRecord
    <3> QED
      BY <1>3, <2>1, <3>2
  <2> QED
    BY <2>2, <2>3
<1>27. CASE InvalidateCache
  BY <1>9, <1>27 DEF InvalidateCache
<1>28. ASSUME NEW g \in Files, AgentWrites(g) PROVE Goal
  <2>1. /\ UNCHANGED tabVars /\ disk' = [disk EXCEPT ![g] = version + 1]
        /\ changed' = changed \cup {g}
    BY <1>28 DEF AgentWrites
  <2>2. disk'[f] = disk[f] \/ f \in changed'
    BY <1>1, <2>1
  <2> QED
    BY <1>3, <2>1, <2>2 DEF tabVars
<1>29. ASSUME NEW g \in Files, HandleFileChange(g) PROVE Goal
  <2>1. /\ UNCHANGED <<tabVars, disk>> /\ changed' = changed \ {g}
        /\ Blame(IF IsOpen(g) /\ tab[g].original \notin {None, disk[g]} THEN {g} ELSE {}, "unrouted")
    BY <1>29 DEF HandleFileChange, RegisteredAs, TabWorkspace
  <2>2. CASE f # g
    BY <1>3, <2>1, <2>2 DEF tabVars
  <2>3. CASE f = g
    <3>1. f \in ToSet(recent)
      BY <2>1 DEF tabVars
    <3>2. tab[f].original \in {None, disk[f]}
      BY <1>5, <2>1, <2>3, <3>1 DEF IsOpen, DiskCauses
    <3> QED
      BY <1>2, <2>1, <3>2 DEF tabVars, Goal
  <2> QED
    BY <2>2, <2>3
<1>30. CASE BackendReconnects
  BY <1>9, <1>30 DEF BackendReconnects
<1> QED
  BY <1>11, <1>12, <1>13, <1>14, <1>15, <1>16, <1>17, <1>18, <1>19, <1>20, <1>21, <1>22, <1>23,
     <1>24, <1>25, <1>26, <1>27, <1>28, <1>29, <1>30 DEF FilesNext
-----------------------------------------------------------------------------
LEMMA FilesInvInit == FilesInit => FilesInv
<1> SUFFICES ASSUME FilesInit PROVE FilesInv
  OBVIOUS
<1> USE TextRange
<1>1. ToSet(recent) = {} /\ recent \in Seq(Files) /\ IsInjective(recent)
  BY EmptySeq DEF FilesInit, ToSet, IsInjective
<1>2. FilesTypeOK
  BY <1>1, TabBounds DEF FilesInit, FilesTypeOK, TabRecord
<1>3. \A f \in Files : TextKept(f) /\ TabTracksDisk(f)
  BY <1>1 DEF FilesInit, TextKept, TabTracksDisk, IsOpen
<1> QED
  BY <1>2, <1>3 DEF FilesInit, FilesInv

LEMMA FilesInvStep == FilesInv /\ [FilesNext]_fileVars => FilesInv'
<1> SUFFICES ASSUME FilesInv, [FilesNext]_fileVars PROVE FilesInv'
  OBVIOUS
<1>1. FilesTypeOK'
  BY FilesTypeStep
<1>2. (\A j \in jobs : SaveHasText(j))'
  BY SaveTextStep
<1>3. (\A f \in Files : TextKept(f))'
  BY TextKeptStep
<1>4. (\A f \in Files : TabTracksDisk(f))'
  BY TabTracksDiskStep
<1> QED
  BY <1>1, <1>2, <1>3, <1>4 DEF FilesInv

(* The inductive invariant of the files being edited.                      *)
THEOREM FilesInvariant == FilesSpec => []FilesInv
BY FilesInvInit, FilesInvStep, PTL DEF FilesSpec

(* Types: the tabs are files without repetition, and a closed tab holds    *)
(* nothing (appStore.ts).                                                  *)
THEOREM FilesTypeOKHolds == FilesSpec => []FilesTypeOK
<1>1. FilesInv => FilesTypeOK
  BY DEF FilesInv
<1> QED
  BY <1>1, FilesInvariant, PTL

(* What the user has typed and not saved is in the editor or a dirty tab,  *)
(* or was given up in a named way (MonacoEditor.tsx, useAutoSave.ts).      *)
THEOREM EditsKeptHolds == FilesSpec => []EditsKept
<1>1. FilesInv => EditsKept
  <2> SUFFICES ASSUME FilesInv, NEW f \in Files, unsaved[f] # None
               PROVE  \/ typed[f] = unsaved[f]
                      \/ IsOpen(f) /\ tab[f].content = unsaved[f] /\ tab[f].dirty
                      \/ Blamed(f, EditCauses)
    BY DEF EditsKept, EditCauses
  <2> QED
    BY DEF FilesInv, TextKept
<1> QED
  BY <1>1, FilesInvariant, PTL

(* A clean tab shows what is on disk, unless one of the named causes set   *)
(* them apart (useAutoSave.ts, useFileWatcher.ts, fileContentCache.ts).    *)
THEOREM CleanShowsDiskHolds == FilesSpec => []CleanShowsDisk
<1>1. FilesInv => CleanShowsDisk
  <2> SUFFICES ASSUME FilesInv, NEW f \in Files, Settled(f), ~Blamed(f, DiskCauses)
               PROVE  tab[f].content = disk[f]
    BY DEF CleanShowsDisk, DiskCauses
  <2>1. TabTracksDisk(f) /\ tab[f].dirty \in BOOLEAN
    BY DEF FilesInv, FilesTypeOK
  <2>2. IsOpen(f) /\ tab[f].content # None /\ tab[f].dirty # TRUE /\ f \notin changed
    BY <2>1 DEF Settled, Edited
  <2> QED
    BY <2>1, <2>2 DEF TabTracksDisk
<1> QED
  BY <1>1, FilesInvariant, PTL
-----------------------------------------------------------------------------
(* Greatest and least of some numbers.                                     *)
LEMMA GreatestExists ==
  \A n \in Nat : \A S \in SUBSET (0 .. n) : S # {} => \E x \in S : \A y \in S : y <= x
<1> DEFINE Has(S) == \E x \in S : \A y \in S : y <= x
           P == {n \in Nat : \A S \in SUBSET (0 .. n) : S # {} => Has(S)}
<1>1. 0 \in P
  <2>1. \A S \in SUBSET (0 .. 0) : S # {} => 0 \in S /\ \A y \in S : y = 0
    <3>1. \A y \in 0 .. 0 : y = 0
      OBVIOUS
    <3> QED
      BY <3>1, Zenon
  <2>2. \A S \in SUBSET (0 .. 0) : S # {} => Has(S)
    BY <2>1
  <2> QED
    BY <2>2
<1>2. ASSUME NEW n \in Nat, n \in P PROVE n + 1 \in P
  <2>1. ASSUME NEW S \in SUBSET (0 .. n + 1), S # {} PROVE Has(S)
    <3>1. CASE n + 1 \in S
      BY <2>1, <3>1
    <3>2. CASE n + 1 \notin S
      <4>1. S \in SUBSET (0 .. n)
        BY <2>1, <3>2
      <4> QED
        BY <1>2, <2>1, <4>1
    <3> QED
      BY <3>1, <3>2
  <2> HIDE DEF Has
  <2> QED
    BY <1>2, <2>1
<1>3. Nat \subseteq P
  <2> HIDE DEF P
  <2> QED
    BY <1>1, <1>2, SetInduction
<1> QED
  BY <1>3

LEMMA MaxMin ==
  ASSUME NEW n \in Nat, NEW S \in SUBSET (0 .. n), S # {}
  PROVE  /\ Max(S) \in S /\ \A y \in S : y <= Max(S)
         /\ Min(S) \in S /\ \A y \in S : Min(S) <= y
<1>1. \E x \in S : \A y \in S : y <= x
  BY GreatestExists
<1>2. \E x \in S : \A y \in S : x <= y
  <2> DEFINE T == {n - x : x \in S}
  <2>1. T \in SUBSET (0 .. n) /\ T # {}
    <3>1. \A x \in S : n - x \in 0 .. n
      OBVIOUS
    <3> QED
      BY <3>1
  <2>2. PICK z \in T : \A y \in T : y <= z
    <3> HIDE DEF T
    <3> QED
      BY <2>1, GreatestExists
  <2>3. PICK x \in S : z = n - x
    BY <2>2
  <2>4. ASSUME NEW y \in S PROVE x <= y
    <3>1. n - y <= n - x
      BY <2>2, <2>3
    <3> QED
      BY <2>3, <3>1
  <2> QED
    BY <2>4
<1>3. \A x, y \in S : y <= x <=> x >= y
  OBVIOUS
<1>4. \E x \in S : \A y \in S : x >= y
  BY <1>1, <1>3
<1>5. Max(S) \in S /\ \A y \in S : Max(S) >= y
  BY <1>4 DEF Max
<1>6. Min(S) \in S /\ \A y \in S : Min(S) <= y
  BY <1>2 DEF Min
<1> QED
  BY <1>3, <1>5, <1>6

(* Pieces of sequences and sequences turned around.                        *)
LEMMA Pieces ==
  ASSUME NEW U
  PROVE  /\ \A s \in Seq(U) : \A m \in 1 .. Len(s) + 1, n \in 0 .. Len(s) :
              m <= n + 1 => /\ SubSeq(s, m, n) \in Seq(U) /\ Len(SubSeq(s, m, n)) = n - m + 1
                            /\ \A i \in 1 .. n - m + 1 : SubSeq(s, m, n)[i] = s[m + i - 1]
         /\ \A s \in Seq(U) : SubSeq(s, 1, 0 - 1) = <<>> /\ SubSeq(s, 1, 0) = <<>>
         /\ \A s \in Seq(U) : /\ Reverse(s) \in Seq(U) /\ Len(Reverse(s)) = Len(s)
                              /\ \A i \in 1 .. Len(s) : Reverse(s)[i] = s[Len(s) - i + 1]
<1>1. ASSUME NEW s \in Seq(U), NEW m \in 1 .. Len(s) + 1, NEW n \in 0 .. Len(s), m <= n + 1
      PROVE  /\ SubSeq(s, m, n) \in Seq(U) /\ Len(SubSeq(s, m, n)) = n - m + 1
             /\ \A i \in 1 .. n - m + 1 : SubSeq(s, m, n)[i] = s[m + i - 1]
  BY <1>1, SubSeqProperties
<1>2. ASSUME NEW s \in Seq(U) PROVE SubSeq(s, 1, 0 - 1) = <<>> /\ SubSeq(s, 1, 0) = <<>>
  OBVIOUS
<1>3. ASSUME NEW s \in Seq(U)
      PROVE  /\ Reverse(s) \in Seq(U) /\ Len(Reverse(s)) = Len(s)
             /\ \A i \in 1 .. Len(s) : Reverse(s)[i] = s[Len(s) - i + 1]
  <2>1. \A i \in 1 .. Len(s) : Len(s) - i + 1 \in 1 .. Len(s) /\ Len(s) \in Nat
    OBVIOUS
  <2>2. \A i \in 1 .. Len(s) : s[Len(s) - i + 1] \in U
    BY <2>1
  <2> QED
    BY <2>1, <2>2 DEF Reverse
<1> QED
  BY <1>1, <1>2, <1>3

LEMMA Turned ==
  ASSUME NEW U
  PROVE  /\ Reverse(<<>>) = <<>>
         /\ \A f \in Seq(U) : \A k \in 0 .. Len(f) :
              SubSeq(Reverse(f), 1, k) = Reverse(SubSeq(f, Len(f) - k + 1, Len(f)))
         /\ \A f, p \in Seq(U) : Reverse(p \o f) = Reverse(f) \o Reverse(p)
         /\ \A x \in U : Reverse(<<x>>) = <<x>> /\ <<x>> \in Seq(U)
<1>1. Reverse(<<>>) = <<>>
  BY DEF Reverse
<1>2. ASSUME NEW f \in Seq(U), NEW k \in 0 .. Len(f)
      PROVE  SubSeq(Reverse(f), 1, k) = Reverse(SubSeq(f, Len(f) - k + 1, Len(f)))
  <2> DEFINE n == Len(f)
             r == Reverse(f)
             a == SubSeq(r, 1, k)
             m == SubSeq(f, n - k + 1, n)
             b == Reverse(m)
  <2>1. n \in Nat /\ k \in 0 .. n /\ n - k + 1 \in 1 .. n + 1 /\ n \in 0 .. n /\ k \in Nat
    OBVIOUS
  <2>2. r \in Seq(U) /\ Len(r) = n /\ \A i \in 1 .. n : r[i] = f[n - i + 1]
    BY Pieces
  <2>3. m \in Seq(U) /\ Len(m) = k /\ \A i \in 1 .. k : m[i] = f[n - k + i]
    <3>1. /\ m \in Seq(U) /\ Len(m) = n - (n - k + 1) + 1
          /\ \A i \in 1 .. n - (n - k + 1) + 1 : m[i] = f[(n - k + 1) + i - 1]
      BY <2>1, Pieces
    <3> HIDE DEF m, n
    <3> QED
      BY <2>1, <3>1
  <2> HIDE DEF n, r, m
  <2>4. /\ a \in Seq(U) /\ Len(a) = k - 1 + 1 /\ \A i \in 1 .. k - 1 + 1 : a[i] = r[1 + i - 1]
    <3>1. 1 \in 1 .. Len(r) + 1 /\ k \in 0 .. Len(r) /\ 1 <= k + 1
      BY <2>1, <2>2
    <3> QED
      BY <2>2, <3>1, Pieces
  <2>5. b \in Seq(U) /\ Len(b) = k /\ \A i \in 1 .. k : b[i] = m[k - i + 1]
    BY <2>3, Pieces
  <2> HIDE DEF a, b
  <2>6. Len(a) = k /\ \A i \in 1 .. k : a[i] = r[i]
    BY <2>1, <2>4
  <2>7. ASSUME NEW i \in 1 .. k PROVE a[i] = b[i]
    <3>1. /\ i \in 1 .. n /\ k - i + 1 \in 1 .. k /\ n - k + (k - i + 1) = n - i + 1
      BY <2>1
    <3>2. a[i] = f[n - i + 1]
      BY <2>2, <2>6, <3>1
    <3>3. b[i] = f[n - k + (k - i + 1)]
      BY <2>3, <2>5, <3>1
    <3> QED
      BY <3>1, <3>2, <3>3
  <2>8. a = b
    BY <2>4, <2>5, <2>6, <2>7, SeqEqual
  <2> QED
    BY <2>8 DEF a, b, m, n, r
<1>3. ASSUME NEW f \in Seq(U), NEW p \in Seq(U)
      PROVE  Reverse(p \o f) = Reverse(f) \o Reverse(p)
  <2> DEFINE c == p \o f
             rf == Reverse(f)
             rp == Reverse(p)
             a == Reverse(c)
             b == rf \o rp
             l == Len(p)
             n == Len(f)
  <2>1. /\ l \in Nat /\ n \in Nat /\ c \in Seq(U) /\ Len(c) = l + n
        /\ \A i \in 1 .. l + n : c[i] = IF i <= l THEN p[i] ELSE f[i - l]
    BY ConcatProperties
  <2>2. /\ rf \in Seq(U) /\ Len(rf) = n /\ \A i \in 1 .. n : rf[i] = f[n - i + 1]
        /\ rp \in Seq(U) /\ Len(rp) = l /\ \A i \in 1 .. l : rp[i] = p[l - i + 1]
    BY Pieces
  <2> HIDE DEF c, rf, rp
  <2>3. a \in Seq(U) /\ Len(a) = Len(c) /\ \A i \in 1 .. Len(c) : a[i] = c[Len(c) - i + 1]
    BY <2>1, Pieces
  <2>4. /\ b \in Seq(U) /\ Len(b) = Len(rf) + Len(rp)
        /\ \A i \in 1 .. Len(rf) + Len(rp) : b[i] = IF i <= Len(rf) THEN rf[i] ELSE rp[i - Len(rf)]
    <3>1. rf \in Seq(U) /\ rp \in Seq(U)
      BY <2>2
    <3> QED
      BY <3>1, ConcatProperties
  <2> HIDE DEF a, b, l, n
  <2>5. ASSUME NEW i \in 1 .. l + n PROVE a[i] = b[i]
    <3>1. (l + n) - i + 1 \in 1 .. l + n /\ l + n = n + l
      BY <2>1
    <3>2. a[i] = c[(l + n) - i + 1]
      BY <2>1, <2>3, <3>1
    <3>3. CASE i <= n
      <4>1. /\ ~((l + n) - i + 1 <= l) /\ ((l + n) - i + 1) - l = n - i + 1 /\ i \in 1 .. n
        BY <2>1, <3>3
      <4> QED
        BY <2>1, <2>2, <2>4, <3>1, <3>2, <3>3, <4>1
    <3>4. CASE ~(i <= n)
      <4>1. /\ (l + n) - i + 1 <= l /\ l - (i - n) + 1 = (l + n) - i + 1 /\ i - n \in 1 .. l
        BY <2>1, <3>4
      <4> QED
        BY <2>1, <2>2, <2>4, <3>1, <3>2, <3>4, <4>1
    <3> QED
      BY <3>3, <3>4
  <2>6. Len(a) = l + n /\ Len(b) = l + n
    BY <2>1, <2>2, <2>3, <2>4
  <2>7. a = b
    BY <2>3, <2>4, <2>5, <2>6, SeqEqual
  <2> QED
    BY <2>7 DEF a, b, c, rf, rp
<1>4. ASSUME NEW x \in U PROVE Reverse(<<x>>) = <<x>> /\ <<x>> \in Seq(U)
  <2> DEFINE s == <<x>>
  <2>1. s \in Seq(U) /\ Len(s) = 1 /\ s[1] = x
    OBVIOUS
  <2>2. Reverse(s) \in Seq(U) /\ Len(Reverse(s)) = Len(s)
        /\ \A i \in 1 .. Len(s) : Reverse(s)[i] = s[Len(s) - i + 1]
    BY <2>1, Pieces
  <2> HIDE DEF s
  <2>3. \A i \in 1 .. 1 : Reverse(s)[i] = s[i]
    BY <2>1, <2>2
  <2>4. Reverse(s) = s
    BY <2>1, <2>2, <2>3, SeqEqual
  <2> QED
    BY <2>1, <2>4 DEF s
<1> QED
  BY <1>1, <1>2, <1>3, <1>4
-----------------------------------------------------------------------------
(* Where the user is. *)
\* A place is of the session its conversation belongs to.
Kin(loc) == loc.conv = NoId \/ loc.session = SessionOf(loc.conv)
\* Nothing has set the conversation and the session apart.
Straight == strayed \cap {"entry", "tab", "late"} = {}
Entries == UNION {ToSet(backStack[t]) \cup ToSet(forwardStack[t]) : t \in TabIds}

PlacesTyped ==
    /\ selectable \subseteq Sessions /\ existing \subseteq AllConversations
    /\ lastActive \in [Sessions -> AllConversations \cup {NoId}]
    /\ shown \in Location /\ pendingNavigate \in Targets \cup {NoTarget}
    /\ saved \in [TabIds -> Location]
BarTyped ==
    /\ tabOrder \in Seq(TabIds) /\ IsInjective(tabOrder) /\ Len(tabOrder) \in 1 .. MAX_TABS
    /\ activeTab \in ToSet(tabOrder) /\ ids \in TabIds /\ historyTab \in TabIds
    /\ ToSet(tabOrder) \subseteq 1 .. ids
StacksTyped ==
    /\ backStack \in [TabIds -> Seq(Location)] /\ forwardStack \in [TabIds -> Seq(Location)]
    /\ past \in [TabIds -> Seq(Location)] /\ future \in [TabIds -> Seq(Location)]
    /\ \A t \in TabIds : Len(backStack[t]) + Len(forwardStack[t]) <= MAX_HISTORY_SIZE
    /\ scrambled \subseteq TabIds

NavInv ==
    /\ PlacesTyped /\ BarTyped /\ StacksTyped /\ steps \in 0 .. MaxSteps
    /\ SelectionFits /\ TabOwnsHistory
    /\ HistoryIsABrowsers
    /\ Straight => \A e \in Entries : Kin(e)

LEMMA NavBounds ==
  /\ MAX_HISTORY_SIZE \in Nat \ {0} /\ MAX_TABS \in Nat \ {0} /\ MaxTabIds \in Nat \ {0}
  /\ MaxSteps \in Nat /\ NoId # Absent /\ 1 \in TabIds /\ TabIds \subseteq Nat
  /\ NoId \notin Sessions /\ NoId \notin AllConversations
  /\ Absent \notin Sessions /\ Absent \notin AllConversations
BY NavigationAssumption DEF TabIds

\* Every conversation belongs to one session.
LEMMA Owners ==
  /\ \A s \in Sessions : /\ Conversations[s] \in Seq(AllConversations)
                         /\ ToSet(Conversations[s]) \subseteq AllConversations
  /\ \A c \in AllConversations : SessionOf(c) \in Sessions /\ c \in ToSet(Conversations[SessionOf(c)])
  /\ \A s \in Sessions : \A c \in ToSet(Conversations[s]) : SessionOf(c) = s
<1>1. \A s \in Sessions : /\ Conversations[s] \in Seq(AllConversations)
                          /\ ToSet(Conversations[s]) \subseteq AllConversations
  BY NavigationAssumption DEF AllConversations
<1>2. ASSUME NEW c \in AllConversations
      PROVE  SessionOf(c) \in Sessions /\ c \in ToSet(Conversations[SessionOf(c)])
  <2>1. \E s \in Sessions : c \in ToSet(Conversations[s])
    BY DEF AllConversations
  <2> QED
    BY <2>1 DEF SessionOf
<1>3. ASSUME NEW s \in Sessions, NEW c \in ToSet(Conversations[s]) PROVE SessionOf(c) = s
  <2>1. c \in AllConversations
    BY <1>1
  <2>2. SessionOf(c) \in Sessions /\ c \in ToSet(Conversations[SessionOf(c)])
    BY <1>2, <2>1
  <2>3. \A t, u \in Sessions : t # u => ToSet(Conversations[t]) \cap ToSet(Conversations[u]) = {}
    BY NavigationAssumption
  <2> QED
    BY <2>2, <2>3
<1> QED
  BY <1>1, <1>2, <1>3

\* Of a session, a conversation that is there.
LEMMA Choice ==
  ASSUME NEW s \in Sessions \cup {NoId}, NEW among \in SUBSET AllConversations
  PROVE  \/ ConversationFor(s, among) = NoId
         \/ /\ s \in Sessions /\ ConversationFor(s, among) \in among
            /\ SessionOf(ConversationFor(s, among)) = s
<1> DEFINE here == IF s = NoId THEN <<>> ELSE Only(Conversations[s], among)
<1>1. CASE here = <<>>
  BY <1>1 DEF ConversationFor
<1>2. CASE here # <<>>
  <2>1. s \in Sessions /\ here = Only(Conversations[s], among)
    BY <1>2
  <2>2. /\ here \in Seq(AllConversations)
        /\ ToSet(here) = ToSet(Conversations[s]) \cap among
    BY <2>1, Owners, OnlySet
  <2>3. here[1] \in ToSet(here)
    <3> HIDE DEF here
    <3> QED
      BY <1>2, <2>2, SetOfList
  <2>4. ConversationFor(s, among) \in ToSet(here)
    <3>1. ConversationFor(s, among) = IF lastActive[s] \in ToSet(here) THEN lastActive[s] ELSE here[1]
      BY <1>2 DEF ConversationFor
    <3> HIDE DEF here
    <3> QED
      BY <2>3, <3>1
  <2> QED
    <3> HIDE DEF here
    <3> QED
      BY <2>1, <2>2, <2>4, Owners
<1> QED
  BY <1>1, <1>2

\* What a selection leaves: types, and the conversation of the session unless it strayed.
Selected ==
    /\ lastActive' \in [Sessions -> AllConversations \cup {NoId}] /\ shown' \in Location
    /\ strayed \subseteq strayed'
    /\ SelectionFits => SelectionFits'

LEMMA RememberTyped ==
  ASSUME PlacesTyped, NEW s \in Sessions \cup {NoId}, NEW c \in AllConversations \cup {NoId},
         Remember(c, s)
  PROVE  lastActive' \in [Sessions -> AllConversations \cup {NoId}]
<1>1. c \in existing => SessionOf(c) \in Sessions
  BY Owners DEF PlacesTyped
<1> QED
  BY <1>1 DEF PlacesTyped, Remember

LEMMA ApplyEntryStep ==
  ASSUME PlacesTyped, activeTab \in TabIds, UNCHANGED <<selectable, existing>>,
         NEW entry \in Location, ApplyEntry(entry), Straight => Kin(entry)
  PROVE  Selected /\ saved' \in [TabIds -> Location]
<1>1. /\ entry.session \in Sessions \cup {NoId} /\ entry.conv \in AllConversations \cup {NoId}
      /\ entry.view \in Views
  BY DEF Location
<1>2. /\ selectable \subseteq Sessions /\ existing \subseteq AllConversations
      /\ lastActive \in [Sessions -> AllConversations \cup {NoId}] /\ saved \in [TabIds -> Location]
  BY DEF PlacesTyped
<1> DEFINE s == Selectable(entry.session)
<1>3. s \in Sessions \cup {NoId} /\ (entry.session \in selectable => s = entry.session)
  BY <1>1, <1>2 DEF Selectable
<1>4. /\ shown' = [session |-> s, conv |-> entry.conv, view |-> entry.view]
      /\ Remember(entry.conv, s) /\ saved' = [saved EXCEPT ![activeTab] = entry]
      /\ strayed' = strayed \cup
           (IF entry.conv # NoId /\ (entry.conv \notin existing \/ entry.session \notin selectable)
            THEN {"entry"} ELSE {})
  BY DEF ApplyEntry, ShowAt, Stray
<1> HIDE DEF s
<1>5. shown' \in Location
  BY <1>1, <1>3, <1>4 DEF Location
<1>6. lastActive' \in [Sessions -> AllConversations \cup {NoId}]
  BY <1>1, <1>3, <1>4, RememberTyped
<1>7. saved' \in [TabIds -> Location]
  BY <1>2, <1>4
<1>8. SelectionFits => SelectionFits'
  <2> SUFFICES ASSUME strayed' \cap {"entry", "tab", "late"} = {} PROVE Fits(shown)'
    BY DEF SelectionFits
  <2>1. Straight /\ (entry.conv = NoId \/ (entry.conv \in existing /\ entry.session \in selectable))
    BY <1>4 DEF Straight
  <2>2. shown'.conv = entry.conv /\ shown'.session = s
    BY <1>4
  <2> QED
    BY <1>3, <2>1, <2>2 DEF Fits, Kin
<1> QED
  BY <1>4, <1>5, <1>6, <1>7, <1>8 DEF Selected

LEMMA ApplyTabStep ==
  ASSUME PlacesTyped, UNCHANGED <<selectable, existing>>, NEW loc \in Location, ApplyTabState(loc)
  PROVE  Selected
<1>1. /\ loc.session \in Sessions \cup {NoId} /\ loc.conv \in AllConversations \cup {NoId}
      /\ loc.view \in Views
  BY DEF Location
<1>2. /\ selectable \subseteq Sessions /\ existing \subseteq AllConversations
      /\ lastActive \in [Sessions -> AllConversations \cup {NoId}]
  BY DEF PlacesTyped
<1> DEFINE s == Selectable(loc.session)
<1>3. s \in Sessions \cup {NoId} /\ (s # NoId => s = loc.session)
  BY <1>1, <1>2 DEF Selectable
<1>4. CASE s # NoId /\ loc.conv # NoId
  <2>1. /\ shown' = [session |-> s, conv |-> loc.conv, view |-> loc.view] /\ Remember(loc.conv, s)
        /\ strayed' = strayed \cup (IF Fits(loc) THEN {} ELSE {"tab"})
    BY <1>4 DEF ApplyTabState, ShowAt, Stray
  <2> HIDE DEF s
  <2>2. shown' \in Location /\ lastActive' \in [Sessions -> AllConversations \cup {NoId}]
    BY <1>1, <1>3, <2>1, RememberTyped DEF Location
  <2>3. SelectionFits => SelectionFits'
    <3> SUFFICES ASSUME strayed' \cap {"entry", "tab", "late"} = {} PROVE Fits(shown)'
      BY DEF SelectionFits
    <3>1. Fits(loc) /\ shown'.conv = loc.conv /\ shown'.session = loc.session
      BY <1>3, <1>4, <2>1
    <3> QED
      BY <3>1 DEF Fits
  <2> QED
    BY <2>1, <2>2, <2>3 DEF Selected
<1>5. CASE ~(s # NoId /\ loc.conv # NoId)
  <2> DEFINE c == ConversationFor(s, existing)
  <2>1. /\ shown' = [session |-> s, conv |-> c, view |-> loc.view]
        /\ UNCHANGED <<lastActive, strayed>>
    BY <1>5 DEF ApplyTabState
  <2> HIDE DEF s
  <2>2. c = NoId \/ (s \in Sessions /\ c \in existing /\ SessionOf(c) = s)
    BY <1>2, <1>3, Choice
  <2> HIDE DEF c
  <2>3. shown' \in Location
    BY <1>1, <1>2, <1>3, <2>1, <2>2 DEF Location
  <2>4. SelectionFits'
    BY <2>1, <2>2 DEF SelectionFits, Fits
  <2> QED
    BY <1>2, <2>1, <2>3, <2>4 DEF Selected
<1> QED
  BY <1>4, <1>5

LEMMA VisitStep ==
  ASSUME PlacesTyped, activeTab \in TabIds, UNCHANGED <<selectable, existing>>,
         NEW target \in Targets, Visit(target)
  PROVE  Selected /\ saved' \in [TabIds -> Location]
<1>1. /\ target.session \in Sessions \cup {NoId, Absent}
      /\ target.conv \in AllConversations \cup {Absent} /\ target.view \in Views
      /\ target.conv # Absent => target.session = SessionOf(target.conv) /\ target.session \in Sessions
  BY Owners, NavBounds DEF Targets, Views
<1>2. /\ selectable \subseteq Sessions /\ existing \subseteq AllConversations
      /\ lastActive \in [Sessions -> AllConversations \cup {NoId}] /\ saved \in [TabIds -> Location]
      /\ shown \in Location /\ shown.session \in Sessions \cup {NoId}
      /\ shown.conv \in AllConversations \cup {NoId}
  BY DEF PlacesTyped, Location
<1> DEFINE s == IF target.session = Absent THEN shown.session ELSE Selectable(target.session)
           c == IF target.conv # Absent /\ s # NoId THEN target.conv
                ELSE IF target.session = Absent THEN shown.conv ELSE ConversationFor(s, existing)
           kept == saved[activeTab]
           kept1 == [session |-> IF target.session = Absent THEN kept.session ELSE s,
                     conv |-> IF target.conv # Absent /\ s # NoId THEN c ELSE kept.conv,
                     view |-> target.view]
<1>3. /\ shown' = [session |-> s, conv |-> c, view |-> target.view]
      /\ IF target.conv # Absent /\ s # NoId THEN Remember(c, s) ELSE UNCHANGED lastActive
      /\ saved' = [saved EXCEPT ![activeTab] = kept1]
      /\ strayed' = strayed \cup
           (IF target.conv # Absent /\ c = target.conv /\ c \notin existing THEN {"late"} ELSE {})
  BY DEF Visit, Stray
<1>4. s \in Sessions \cup {NoId} /\ (target.session # Absent /\ s # NoId => s = target.session)
  BY <1>1, <1>2 DEF Selectable
<1>5. /\ target.conv # Absent /\ s # NoId => c = target.conv
      /\ ~(target.conv # Absent /\ s # NoId) /\ target.session = Absent => c = shown.conv
      /\ ~(target.conv # Absent /\ s # NoId) /\ target.session # Absent =>
           c = NoId \/ (s \in Sessions /\ c \in existing /\ SessionOf(c) = s)
  <2>1. LET d == ConversationFor(s, existing) IN
          d = NoId \/ (s \in Sessions /\ d \in existing /\ SessionOf(d) = s)
    <3> HIDE DEF s
    <3> QED
      BY <1>2, <1>4, Choice
  <2> QED
    BY <2>1
<1>6. target.session = Absent => s = shown.session
  OBVIOUS
<1> HIDE DEF s, c
<1>7. c \in AllConversations \cup {NoId}
  BY <1>1, <1>2, <1>5
<1>8. shown' \in Location
  BY <1>1, <1>3, <1>4, <1>7 DEF Location
<1>9. kept1 \in Location
  <2>1. kept.session \in Sessions \cup {NoId} /\ kept.conv \in AllConversations \cup {NoId}
    BY <1>2 DEF Location
  <2> HIDE DEF kept
  <2> QED
    BY <1>1, <1>4, <1>7, <2>1 DEF Location
<1>10. saved' \in [TabIds -> Location]
  <2> HIDE DEF kept1
  <2> QED
    BY <1>2, <1>3, <1>9
<1>11. lastActive' \in [Sessions -> AllConversations \cup {NoId}]
  BY <1>2, <1>3, <1>4, <1>7, RememberTyped
<1>12. SelectionFits => SelectionFits'
  <2> SUFFICES ASSUME SelectionFits, strayed' \cap {"entry", "tab", "late"} = {}
               PROVE  Fits(shown)'
    BY DEF SelectionFits
  <2>1. Fits(shown) /\ ~(target.conv # Absent /\ c = target.conv /\ c \notin existing)
    BY <1>3 DEF SelectionFits
  <2>2. shown'.conv = c /\ shown'.session = s
    BY <1>3
  <2>3. CASE target.conv # Absent /\ s # NoId
    BY <1>1, <1>4, <1>5, <2>1, <2>2, <2>3, NavBounds DEF Fits
  <2>4. CASE ~(target.conv # Absent /\ s # NoId) /\ target.session = Absent
    BY <1>5, <1>6, <2>1, <2>2, <2>4 DEF Fits
  <2>5. CASE ~(target.conv # Absent /\ s # NoId) /\ target.session # Absent
    BY <1>5, <2>2, <2>5 DEF Fits
  <2> QED
    BY <2>3, <2>4, <2>5
<1> QED
  BY <1>3, <1>8, <1>10, <1>11, <1>12 DEF Selected

(* Members of lists.                                                       *)
LEMMA Members ==
  ASSUME NEW U
  PROVE  /\ \A s \in Seq(U) : \A m \in 1 .. Len(s) + 1, n \in 0 .. Len(s) :
              m <= n + 1 => ToSet(SubSeq(s, m, n)) \subseteq ToSet(s)
         /\ \A s, r \in Seq(U) : s \o r \in Seq(U) /\ ToSet(s \o r) = ToSet(s) \cup ToSet(r)
         /\ \A x \in U : <<x>> \in Seq(U) /\ ToSet(<<x>>) = {x}
         /\ ToSet(<<>>) = {} /\ <<>> \in Seq(U)
         /\ \A s \in Seq(U) : \A m \in Nat : m > Len(s) => SubSeq(s, m, Len(s)) = <<>>
<1>1. ASSUME NEW s \in Seq(U), NEW m \in 1 .. Len(s) + 1, NEW n \in 0 .. Len(s), m <= n + 1
      PROVE  ToSet(SubSeq(s, m, n)) \subseteq ToSet(s)
  <2> DEFINE p == SubSeq(s, m, n)
  <2>1. /\ p \in Seq(U) /\ Len(p) = n - m + 1
        /\ \A i \in 1 .. n - m + 1 : p[i] = s[m + i - 1]
    BY <1>1, Pieces
  <2>2. \A i \in 1 .. n - m + 1 : m + i - 1 \in 1 .. Len(s)
    BY <1>1
  <2> HIDE DEF p
  <2>3. DOMAIN p = 1 .. n - m + 1 /\ DOMAIN s = 1 .. Len(s)
    BY <2>1
  <2> QED
    BY <2>1, <2>2, <2>3 DEF ToSet, p
<1>2. ASSUME NEW s \in Seq(U), NEW r \in Seq(U)
      PROVE  s \o r \in Seq(U) /\ ToSet(s \o r) = ToSet(s) \cup ToSet(r)
  <2> DEFINE c == s \o r
             l == Len(s)
             n == Len(r)
  <2>1. /\ l \in Nat /\ n \in Nat /\ c \in Seq(U) /\ Len(c) = l + n
        /\ \A i \in 1 .. l + n : c[i] = IF i <= l THEN s[i] ELSE r[i - l]
    BY ConcatProperties
  <2> HIDE DEF c
  <2>2. DOMAIN c = 1 .. l + n /\ DOMAIN s = 1 .. l /\ DOMAIN r = 1 .. n
    BY <2>1
  <2> HIDE DEF l, n
  <2>3. ASSUME NEW i \in 1 .. l + n PROVE c[i] \in ToSet(s) \cup ToSet(r)
    <3>1. i \in 1 .. l \/ (~(i <= l) /\ i - l \in 1 .. n)
      BY <2>1
    <3>2. i \in 1 .. l => i <= l
      BY <2>1
    <3> QED
      BY <2>1, <2>2, <3>1, <3>2 DEF ToSet
  <2>4. \A i \in 1 .. l : i \in 1 .. l + n /\ c[i] = s[i]
    BY <2>1
  <2>5. \A i \in 1 .. n : i + l \in 1 .. l + n /\ c[i + l] = r[i]
    BY <2>1
  <2>6. ToSet(c) = ToSet(s) \cup ToSet(r)
    BY <2>2, <2>3, <2>4, <2>5 DEF ToSet
  <2> QED
    BY <2>1, <2>6 DEF c
<1>3. ASSUME NEW x \in U PROVE <<x>> \in Seq(U) /\ ToSet(<<x>>) = {x}
  BY DEF ToSet
<1>4. ToSet(<<>>) = {} /\ <<>> \in Seq(U)
  BY DEF ToSet
<1>5. ASSUME NEW s \in Seq(U), NEW m \in Nat, m > Len(s) PROVE SubSeq(s, m, Len(s)) = <<>>
  BY <1>5
<1> QED
  BY <1>1, <1>2, <1>3, <1>4, <1>5

LEMMA ReversedSet ==
  ASSUME NEW U, NEW s \in Seq(U)
  PROVE  ToSet(Reverse(s)) = ToSet(s)
<1> DEFINE r == Reverse(s)
           n == Len(s)
<1>1. n \in Nat /\ r \in Seq(U) /\ Len(r) = n /\ \A i \in 1 .. n : r[i] = s[n - i + 1]
  BY Pieces
<1> HIDE DEF r
<1>2. DOMAIN r = 1 .. n /\ DOMAIN s = 1 .. n
  BY <1>1
<1> HIDE DEF n
<1>3. \A i \in 1 .. n : n - i + 1 \in 1 .. n /\ n - (n - i + 1) + 1 = i
  BY <1>1
<1>4. \A i \in 1 .. n : s[i] = r[n - i + 1]
  BY <1>1, <1>3
<1> QED
  BY <1>1, <1>2, <1>3, <1>4 DEF ToSet, r

LEMMA MaxOfTwo ==
  ASSUME NEW a \in Int, NEW b \in Int
  PROVE  Max({a, b}) = IF a >= b THEN a ELSE b
BY DEF Max

LEMMA MinOfTwo ==
  ASSUME NEW a \in Int, NEW b \in Int
  PROVE  Min({a, b}) = IF a <= b THEN a ELSE b
BY DEF Min

LEMMA LastValidIs ==
  ASSUME NEW s \in Seq(Location)
  PROVE  LastValid(s) \in 0 .. Len(s)
<1> DEFINE valid == {i \in DOMAIN s : Valid(s[i])}
<1>1. Len(s) \in Nat /\ valid \in SUBSET (0 .. Len(s)) /\ valid \subseteq 1 .. Len(s)
  OBVIOUS
<1>2. LastValid(s) = IF valid = {} THEN 0 ELSE Max(valid)
  BY DEF LastValid
<1> HIDE DEF valid
<1>3. valid # {} => Max(valid) \in valid
  BY <1>1, MaxMin
<1>4. 0 \in 0 .. Len(s) /\ 1 .. Len(s) \subseteq 0 .. Len(s)
  BY <1>1
<1>5. CASE valid = {}
  <2>1. LastValid(s) = 0
    BY <1>2, <1>5, Zenon
  <2> QED
    BY <1>4, <2>1
<1>6. CASE valid # {}
  <2>1. LastValid(s) = Max(valid)
    BY <1>2, <1>6, Zenon
  <2>2. Max(valid) \in 0 .. Len(s)
    BY <1>1, <1>3, <1>6, Zenon
  <2> QED
    BY <2>1, <2>2
<1> QED
  BY <1>5, <1>6

\* A push keeps the stack or adds the place on the screen, and cuts what is too old.
LEMMA PushedIs ==
  ASSUME shown \in Location, NEW s \in Seq(Location)
  PROVE  /\ Pushed(s) \in Seq(Location)
         /\ ToSet(Pushed(s)) \subseteq ToSet(s) \cup {shown}
         /\ (s # <<>> /\ Last(s) = shown) => Pushed(s) = s
         /\ ~(s # <<>> /\ Last(s) = shown) => Len(Pushed(s)) <= MAX_HISTORY_SIZE
<1> DEFINE a == Append(s, shown)
           n == Len(a)
           k == n - MAX_HISTORY_SIZE + 1
           m == Max({1, k})
<1>1. /\ a \in Seq(Location) /\ n \in Nat /\ n >= 1
      /\ ToSet(a) = ToSet(s) \cup {shown}
  <2>1. a \in Seq(Location) /\ ToSet(a) = ToSet(s) \cup {shown}
    BY AppendSet
  <2>2. n = Len(s) + 1 /\ Len(s) \in Nat
    OBVIOUS
  <2> HIDE DEF a
  <2> QED
    BY <2>1, <2>2
<1>2. Latest(a) = SubSeq(a, m, n)
  BY DEF Latest
<1> HIDE DEF a, n
<1>3. k \in Int /\ MAX_HISTORY_SIZE \in Nat \ {0}
  BY <1>1, NavBounds
<1>4. m = IF 1 >= k THEN 1 ELSE k
  BY <1>3, MaxOfTwo
<1>5. m \in 1 .. n + 1 /\ n \in 0 .. n /\ m <= n + 1 /\ n - m + 1 <= MAX_HISTORY_SIZE
  BY <1>1, <1>3, <1>4
<1> HIDE DEF m, k
<1>6. /\ SubSeq(a, m, n) \in Seq(Location) /\ Len(SubSeq(a, m, n)) = n - m + 1
      /\ ToSet(SubSeq(a, m, n)) \subseteq ToSet(a)
  BY <1>1, <1>5, Pieces, Members DEF n
<1>7. CASE s # <<>> /\ Last(s) = shown
  BY <1>7 DEF Pushed
<1>8. CASE ~(s # <<>> /\ Last(s) = shown)
  <2>1. Pushed(s) = SubSeq(a, m, n)
    BY <1>2, <1>8 DEF Pushed, a
  <2> QED
    BY <1>1, <1>5, <1>6, <1>8, <2>1
<1> QED
  BY <1>7, <1>8

\* A move in the history of one tab: its stacks, what they mean, and whether they are
\* still in order.
Moved(t, b, f, p, u) ==
    /\ t \in TabIds
    /\ b \in Seq(Location) /\ f \in Seq(Location) /\ p \in Seq(Location) /\ u \in Seq(Location)
    /\ Len(b) + Len(f) <= MAX_HISTORY_SIZE
    /\ ToSet(b) \cup ToSet(f) \subseteq ToSet(backStack[t]) \cup ToSet(forwardStack[t]) \cup {shown}
    /\ backStack' = [backStack EXCEPT ![t] = b] /\ forwardStack' = [forwardStack EXCEPT ![t] = f]
    /\ past' = [past EXCEPT ![t] = p] /\ future' = [future EXCEPT ![t] = u]
    /\ scrambled' \in {scrambled, scrambled \cup {t}}
    /\ t \notin scrambled' => b = p /\ f = Reverse(u)

\* What a step leaves of the history.
HistoryKept == StacksTyped' /\ HistoryIsABrowsers' /\ Entries' \subseteq Entries \cup {shown}

LEMMA MovedStep ==
  ASSUME StacksTyped, HistoryIsABrowsers, NEW t, NEW b, NEW f, NEW p, NEW u, Moved(t, b, f, p, u)
  PROVE  HistoryKept
<1>1. /\ t \in TabIds
      /\ b \in Seq(Location) /\ f \in Seq(Location) /\ p \in Seq(Location) /\ u \in Seq(Location)
      /\ Len(b) + Len(f) <= MAX_HISTORY_SIZE
  BY DEF Moved
<1>2. /\ backStack' = [backStack EXCEPT ![t] = b] /\ forwardStack' = [forwardStack EXCEPT ![t] = f]
      /\ past' = [past EXCEPT ![t] = p] /\ future' = [future EXCEPT ![t] = u]
  BY DEF Moved
<1>3. scrambled' \in {scrambled, scrambled \cup {t}} /\ (t \notin scrambled' => b = p /\ f = Reverse(u))
  BY DEF Moved
<1>4. /\ backStack \in [TabIds -> Seq(Location)] /\ forwardStack \in [TabIds -> Seq(Location)]
      /\ past \in [TabIds -> Seq(Location)] /\ future \in [TabIds -> Seq(Location)]
      /\ scrambled \subseteq TabIds
      /\ \A r \in TabIds : Len(backStack[r]) + Len(forwardStack[r]) <= MAX_HISTORY_SIZE
  BY DEF StacksTyped
<1>5. /\ backStack' \in [TabIds -> Seq(Location)] /\ forwardStack' \in [TabIds -> Seq(Location)]
      /\ past' \in [TabIds -> Seq(Location)] /\ future' \in [TabIds -> Seq(Location)]
  BY <1>1, <1>2, <1>4
<1>6. scrambled' \subseteq TabIds
  BY <1>1, <1>3, <1>4
<1>7. ASSUME NEW r \in TabIds
      PROVE  IF r = t THEN backStack'[r] = b /\ forwardStack'[r] = f /\ past'[r] = p /\ future'[r] = u
             ELSE /\ backStack'[r] = backStack[r] /\ forwardStack'[r] = forwardStack[r]
                  /\ past'[r] = past[r] /\ future'[r] = future[r]
  BY <1>1, <1>2, <1>4
<1>8. \A r \in TabIds : Len(backStack'[r]) + Len(forwardStack'[r]) <= MAX_HISTORY_SIZE
  BY <1>1, <1>4, <1>7
<1>9. ASSUME NEW r \in TabIds \ scrambled'
      PROVE  backStack'[r] = past'[r] /\ forwardStack'[r] = Reverse(future'[r])
  <2>1. r \notin scrambled
    BY <1>3
  <2>2. backStack[r] = past[r] /\ forwardStack[r] = Reverse(future[r])
    BY <2>1 DEF HistoryIsABrowsers
  <2> QED
    BY <1>3, <1>7, <2>2
<1>10. ASSUME NEW r \in TabIds
       PROVE  ToSet(backStack'[r]) \cup ToSet(forwardStack'[r]) \subseteq Entries \cup {shown}
  <2>1. \A q \in TabIds : ToSet(backStack[q]) \cup ToSet(forwardStack[q]) \subseteq Entries
    BY DEF Entries
  <2>2. ToSet(b) \cup ToSet(f) \subseteq ToSet(backStack[t]) \cup ToSet(forwardStack[t]) \cup {shown}
    BY DEF Moved
  <2> QED
    BY <1>1, <1>7, <2>1, <2>2
<1>11. Entries' \subseteq Entries \cup {shown}
  BY <1>10 DEF Entries
<1>12. StacksTyped'
  BY <1>5, <1>6, <1>8 DEF StacksTyped
<1>13. HistoryIsABrowsers'
  BY <1>9 DEF HistoryIsABrowsers
<1> QED
  BY <1>11, <1>12, <1>13 DEF HistoryKept

LEMMA StacksLeft ==
  ASSUME StacksTyped, HistoryIsABrowsers, UNCHANGED stacks
  PROVE  HistoryKept
BY DEF StacksTyped, HistoryIsABrowsers, HistoryKept, Entries, stacks

LEMMA KinKept ==
  ASSUME NavInv, HistoryKept, strayed \subseteq strayed'
  PROVE  (Straight => \A e \in Entries : Kin(e))'
<1> SUFFICES ASSUME Straight' PROVE \A e \in Entries' : Kin(e)
  OBVIOUS
<1>1. Straight
  BY DEF Straight
<1>2. Fits(shown)
  BY <1>1 DEF NavInv, SelectionFits, Straight
<1>3. Kin(shown)
  BY <1>2 DEF Fits, Kin
<1> QED
  BY <1>1, <1>3 DEF NavInv, HistoryKept

\* The stacks of the tab whose history is in use.
LEMMA InUse ==
  ASSUME NavInv
  PROVE  /\ historyTab \in TabIds /\ shown \in Location /\ StacksTyped /\ HistoryIsABrowsers
         /\ backStack[historyTab] \in Seq(Location) /\ forwardStack[historyTab] \in Seq(Location)
         /\ past[historyTab] \in Seq(Location) /\ future[historyTab] \in Seq(Location)
         /\ Len(backStack[historyTab]) + Len(forwardStack[historyTab]) <= MAX_HISTORY_SIZE
         /\ historyTab \notin scrambled => /\ backStack[historyTab] = past[historyTab]
                                           /\ forwardStack[historyTab] = Reverse(future[historyTab])
BY DEF NavInv, StacksTyped, BarTyped, PlacesTyped, HistoryIsABrowsers

LEMMA PushEntryStep ==
  ASSUME NavInv, PushEntry
  PROVE  HistoryKept
<1> DEFINE t == historyTab
           again == backStack[t] # <<>> /\ Last(backStack[t]) = shown
           b == Pushed(backStack[t])
           f == IF again THEN forwardStack[t] ELSE <<>>
           p == Pushed(past[t])
           u == <<>>
<1>1. /\ t \in TabIds /\ shown \in Location /\ StacksTyped /\ HistoryIsABrowsers
      /\ backStack[t] \in Seq(Location) /\ forwardStack[t] \in Seq(Location)
      /\ past[t] \in Seq(Location) /\ future[t] \in Seq(Location)
      /\ Len(backStack[t]) + Len(forwardStack[t]) <= MAX_HISTORY_SIZE
      /\ t \notin scrambled => backStack[t] = past[t] /\ forwardStack[t] = Reverse(future[t])
  BY InUse
<1>2. /\ b \in Seq(Location) /\ p \in Seq(Location)
      /\ ToSet(b) \subseteq ToSet(backStack[t]) \cup {shown}
      /\ again => b = backStack[t]
      /\ ~again => Len(b) <= MAX_HISTORY_SIZE
  BY <1>1, PushedIs
<1>3. /\ backStack' = [backStack EXCEPT ![t] = b]
      /\ forwardStack' = IF again THEN forwardStack ELSE [forwardStack EXCEPT ![t] = <<>>]
      /\ past' = [past EXCEPT ![t] = p] /\ future' = [future EXCEPT ![t] = u]
      /\ scrambled' = IF again /\ forwardStack[t] # <<>> THEN scrambled \cup {t} ELSE scrambled
  BY DEF PushEntry
<1>4. f \in Seq(Location) /\ u \in Seq(Location) /\ ToSet(<<>>) = {} /\ Reverse(<<>>) = <<>>
  BY <1>1, Members, Turned
<1>5. forwardStack' = [forwardStack EXCEPT ![t] = f]
  <2>1. forwardStack = [forwardStack EXCEPT ![t] = forwardStack[t]]
    BY <1>1 DEF StacksTyped
  <2> QED
    BY <1>3, <2>1
<1>6. Len(b) + Len(f) <= MAX_HISTORY_SIZE
  <2>1. Len(b) \in Nat /\ Len(<<>>) = 0 /\ MAX_HISTORY_SIZE \in Nat
    BY <1>2, NavBounds
  <2>2. CASE again
    <3>1. b = backStack[t] /\ f = forwardStack[t]
      BY <1>2, <2>2
    <3> QED
      BY <1>1, <3>1
  <2>3. CASE ~again
    <3>1. Len(b) <= MAX_HISTORY_SIZE /\ f = <<>>
      BY <1>2, <2>3
    <3> HIDE DEF b, f
    <3> QED
      BY <2>1, <3>1
  <2> QED
    BY <2>2, <2>3
<1>7. ToSet(b) \cup ToSet(f) \subseteq ToSet(backStack[t]) \cup ToSet(forwardStack[t]) \cup {shown}
  <2>1. f = forwardStack[t] \/ f = <<>>
    OBVIOUS
  <2> HIDE DEF f, b
  <2> QED
    BY <1>2, <1>4, <2>1
<1>8. t \notin scrambled' => b = p /\ f = Reverse(u)
  <2> SUFFICES ASSUME t \notin scrambled' PROVE b = p /\ f = Reverse(u)
    OBVIOUS
  <2>1. t \notin scrambled /\ ~(again /\ forwardStack[t] # <<>>)
    BY <1>3
  <2>2. f = <<>>
    BY <2>1
  <2> QED
    BY <1>1, <1>4, <2>1, <2>2
<1>9. scrambled' \in {scrambled, scrambled \cup {t}}
  BY <1>3
<1> HIDE DEF b, f, p, u, t
<1>10. Moved(t, b, f, p, u)
  BY <1>1, <1>2, <1>3, <1>4, <1>5, <1>6, <1>7, <1>8, <1>9 DEF Moved
<1> QED
  BY <1>1, <1>10, MovedStep

LEMMA GoBackHistory ==
  ASSUME NavInv, GoBack
  PROVE  /\ HistoryKept
         /\ \/ UNCHANGED <<lastActive, shown, saved, strayed>>
            \/ \E entry \in Entries \cap Location : ApplyEntry(entry)
<1> DEFINE t == historyTab
           back == backStack[t]
           i == LastValid(back)
           j == LastValid(past[t])
           b == SubSeq(back, 1, IF i = 0 THEN 0 ELSE i - 1)
           f == IF i = 0 THEN forwardStack[t] ELSE Append(forwardStack[t], shown)
           p == SubSeq(past[t], 1, j - 1)
           u == IF i = 0 THEN future[t] ELSE <<shown>> \o future[t]
<1>1. /\ t \in TabIds /\ shown \in Location /\ StacksTyped /\ HistoryIsABrowsers
      /\ back \in Seq(Location) /\ forwardStack[t] \in Seq(Location)
      /\ past[t] \in Seq(Location) /\ future[t] \in Seq(Location)
      /\ Len(back) + Len(forwardStack[t]) <= MAX_HISTORY_SIZE
      /\ t \notin scrambled => back = past[t] /\ forwardStack[t] = Reverse(future[t])
  BY InUse
<1>2. /\ back # <<>>
      /\ backStack' = [backStack EXCEPT ![t] = b]
      /\ past' = [past EXCEPT ![t] = p]
      /\ IF i = 0 THEN UNCHANGED <<lastActive, shown, saved, forwardStack, future, strayed>>
         ELSE /\ forwardStack' = [forwardStack EXCEPT ![t] = Append(forwardStack[t], shown)]
              /\ future' = [future EXCEPT ![t] = <<shown>> \o future[t]]
              /\ ApplyEntry(back[i])
      /\ UNCHANGED scrambled
  BY DEF GoBack
<1>3. forwardStack' = [forwardStack EXCEPT ![t] = f] /\ future' = [future EXCEPT ![t] = u]
  <2>1. /\ forwardStack = [forwardStack EXCEPT ![t] = forwardStack[t]]
        /\ future = [future EXCEPT ![t] = future[t]]
    BY <1>1 DEF StacksTyped
  <2> HIDE DEF i
  <2> QED
    BY <1>2, <2>1
<1>4. i \in 0 .. Len(back) /\ j \in 0 .. Len(past[t])
  <2> HIDE DEF t, back
  <2> QED
    BY <1>1, LastValidIs
<1>5. /\ b \in Seq(Location) /\ Len(b) = IF i = 0 THEN 0 ELSE i - 1
      /\ ToSet(b) \subseteq ToSet(back)
  <2> DEFINE n == IF i = 0 THEN 0 ELSE i - 1
  <2> HIDE DEF i, back
  <2>1. n \in 0 .. Len(back) /\ 1 \in 1 .. Len(back) + 1 /\ 1 <= n + 1 /\ n - 1 + 1 = n
    BY <1>1, <1>4
  <2> HIDE DEF n
  <2>2. /\ SubSeq(back, 1, n) \in Seq(Location) /\ Len(SubSeq(back, 1, n)) = n - 1 + 1
        /\ ToSet(SubSeq(back, 1, n)) \subseteq ToSet(back)
    BY <1>1, <2>1, Pieces, Members
  <2> QED
    BY <2>1, <2>2 DEF n
<1>6. p \in Seq(Location) /\ (i = 0 /\ back = past[t] => p = <<>>)
  <2>1. CASE j = 0
    <3>1. p = SubSeq(past[t], 1, 0 - 1)
      BY <2>1
    <3>2. p = <<>>
      <4> HIDE DEF p, t
      <4> QED
        BY <1>1, <3>1, Pieces
    <3>3. <<>> \in Seq(Location)
      BY EmptySeq
    <3> HIDE DEF p, i, back, t
    <3> QED
      BY <3>2, <3>3
  <2>2. CASE j # 0
    <3>1. j - 1 \in 0 .. Len(past[t]) /\ 1 \in 1 .. Len(past[t]) + 1 /\ 1 <= (j - 1) + 1
      <4> HIDE DEF j, t
      <4> QED
        BY <1>1, <1>4, <2>2
    <3>2. p \in Seq(Location)
      <4> DEFINE k == j - 1
                 past1 == past[t]
      <4>1. k \in 0 .. Len(past1) /\ 1 \in 1 .. Len(past1) + 1 /\ 1 <= k + 1 /\ past1 \in Seq(Location)
        BY <1>1, <3>1
      <4> HIDE DEF k, past1
      <4>2. SubSeq(past1, 1, k) \in Seq(Location)
        BY <4>1, Pieces
      <4> QED
        BY <4>2 DEF k, past1
    <3>3. back = past[t] => i # 0
      BY <2>2
    <3> QED
      BY <3>2, <3>3
  <2> QED
    BY <2>1, <2>2
<1>7. /\ Append(forwardStack[t], shown) \in Seq(Location)
      /\ ToSet(Append(forwardStack[t], shown)) = ToSet(forwardStack[t]) \cup {shown}
      /\ Len(Append(forwardStack[t], shown)) = Len(forwardStack[t]) + 1
      /\ <<shown>> \o future[t] \in Seq(Location)
  <2>1. <<shown>> \in Seq(Location)
    BY <1>1
  <2> HIDE DEF t
  <2> QED
    BY <1>1, <2>1, AppendSet, Members
<1>8. f \in Seq(Location) /\ u \in Seq(Location)
  <2> HIDE DEF i, t
  <2> QED
    BY <1>1, <1>7
<1>9. Len(b) + Len(f) <= MAX_HISTORY_SIZE
  <2>1. Len(f) = IF i = 0 THEN Len(forwardStack[t]) ELSE Len(forwardStack[t]) + 1
    <3> HIDE DEF i, t
    <3> QED
      BY <1>7
  <2>2. Len(back) \in Nat /\ Len(forwardStack[t]) \in Nat /\ MAX_HISTORY_SIZE \in Nat
    BY <1>1, NavBounds
  <2> HIDE DEF b, f, t, i, back
  <2> QED
    BY <1>1, <1>4, <1>5, <2>1, <2>2
<1>10. ToSet(b) \cup ToSet(f) \subseteq ToSet(back) \cup ToSet(forwardStack[t]) \cup {shown}
  <2>1. ToSet(f) \subseteq ToSet(forwardStack[t]) \cup {shown}
    <3> HIDE DEF i, t
    <3> QED
      BY <1>7
  <2> HIDE DEF b, f
  <2> QED
    BY <1>5, <2>1
<1>11. t \notin scrambled' => b = p /\ f = Reverse(u)
  <2> SUFFICES ASSUME t \notin scrambled' PROVE b = p /\ f = Reverse(u)
    OBVIOUS
  <2>1. back = past[t] /\ forwardStack[t] = Reverse(future[t]) /\ i = j
    BY <1>1, <1>2
  <2>2. CASE i = 0
    <3>1. b = SubSeq(back, 1, 0) /\ f = forwardStack[t] /\ u = future[t]
      BY <2>2
    <3>2. SubSeq(back, 1, 0) = <<>>
      <4> HIDE DEF back
      <4> QED
        BY <1>1, Pieces
    <3> QED
      BY <1>6, <2>1, <2>2, <3>1, <3>2
  <2>3. CASE i # 0
    <3>1. b = SubSeq(back, 1, i - 1)
      BY <2>3
    <3>2. b = p
      <4> HIDE DEF i, j, back, t
      <4> QED
        BY <2>1, <3>1
    <3>3. f = Append(forwardStack[t], shown) /\ u = <<shown>> \o future[t]
      BY <2>3
    <3>4. Append(forwardStack[t], shown) = forwardStack[t] \o <<shown>>
      <4> HIDE DEF t
      <4> QED
        BY <1>1, AppendIsConcat
    <3>5. Reverse(<<shown>> \o future[t]) = Reverse(future[t]) \o <<shown>>
      <4> DEFINE w == <<shown>>
      <4>1. w \in Seq(Location) /\ Reverse(w) = w
        BY <1>1, Turned
      <4> HIDE DEF w, t
      <4>2. Reverse(w \o future[t]) = Reverse(future[t]) \o Reverse(w)
        BY <1>1, <4>1, Turned
      <4> QED
        BY <4>1, <4>2 DEF w
    <3> QED
      <4> HIDE DEF b, f, p, u, i, j, t
      <4> QED
        BY <2>1, <3>2, <3>3, <3>4, <3>5
  <2> QED
    BY <2>2, <2>3
<1>12. \/ UNCHANGED <<lastActive, shown, saved, strayed>>
       \/ \E entry \in Entries \cap Location : ApplyEntry(entry)
  <2>1. CASE i = 0
    BY <1>2, <2>1
  <2>2. CASE i # 0
    <3>1. ApplyEntry(back[i])
      BY <1>2, <2>2
    <3>2. i \in 1 .. Len(back)
      <4> HIDE DEF i, back
      <4> QED
        BY <1>1, <1>4, <2>2
    <3>3. back[i] \in ToSet(back) /\ back[i] \in Location
      <4> HIDE DEF i, back
      <4> QED
        BY <1>1, <3>2, SetOfList
    <3>4. ToSet(back) \subseteq Entries
      BY <1>1 DEF Entries
    <3> HIDE DEF i, back
    <3> QED
      BY <3>1, <3>3, <3>4
  <2> QED
    BY <2>1, <2>2
<1>13. scrambled' \in {scrambled, scrambled \cup {t}}
  BY <1>2
<1>14. HistoryKept
  <2> HIDE DEF b, f, p, u, i, j
  <2>1. Moved(t, b, f, p, u)
    BY <1>1, <1>2, <1>3, <1>5, <1>6, <1>8, <1>9, <1>10, <1>11, <1>13 DEF Moved
  <2> HIDE DEF t
  <2> QED
    BY <1>1, <2>1, MovedStep
<1> QED
  BY <1>12, <1>14

\* The ends of a list of places.
LEMMA Ends ==
  ASSUME NEW s \in Seq(Location), NEW k \in 0 .. Len(s)
  PROVE  /\ SubSeq(s, 1, k) \in Seq(Location) /\ Len(SubSeq(s, 1, k)) = k
         /\ ToSet(SubSeq(s, 1, k)) \subseteq ToSet(s)
         /\ SubSeq(s, k + 1, Len(s)) \in Seq(Location)
         /\ Len(SubSeq(s, k + 1, Len(s))) = Len(s) - k
         /\ ToSet(SubSeq(s, k + 1, Len(s))) \subseteq ToSet(s)
<1>1. /\ 1 \in 1 .. Len(s) + 1 /\ 1 <= k + 1 /\ k - 1 + 1 = k /\ Len(s) \in 0 .. Len(s)
      /\ k + 1 \in 1 .. Len(s) + 1 /\ k + 1 <= Len(s) + 1 /\ Len(s) - (k + 1) + 1 = Len(s) - k
  OBVIOUS
<1>2. /\ SubSeq(s, 1, k) \in Seq(Location) /\ Len(SubSeq(s, 1, k)) = k - 1 + 1
      /\ ToSet(SubSeq(s, 1, k)) \subseteq ToSet(s)
  BY <1>1, Pieces, Members
<1> DEFINE m == k + 1
           n == Len(s)
<1>4. m \in 1 .. Len(s) + 1 /\ n \in 0 .. Len(s) /\ m <= n + 1
  BY <1>1
<1> HIDE DEF m, n
<1>5. /\ SubSeq(s, m, n) \in Seq(Location) /\ Len(SubSeq(s, m, n)) = n - m + 1
      /\ ToSet(SubSeq(s, m, n)) \subseteq ToSet(s)
  BY <1>4, Pieces, Members
<1>3. /\ SubSeq(s, m, Len(s)) \in Seq(Location) /\ Len(SubSeq(s, m, Len(s))) = Len(s) - m + 1
      /\ ToSet(SubSeq(s, m, Len(s))) \subseteq ToSet(s)
  BY <1>5 DEF n
<1> QED
  BY <1>1, <1>2, <1>3 DEF m

\* The valid places nearest to the present one, in a stack and in the stack turned around.
LEMMA Nearest ==
  ASSUME NEW u \in Seq(Location)
  PROVE  LET valid == {k \in DOMAIN u : Valid(u[k])} IN
         /\ valid # {} => Min(valid) \in 1 .. Len(u)
         /\ LastValid(Reverse(u)) = IF valid = {} THEN 0 ELSE Len(u) - Min(valid) + 1
<1> DEFINE valid == {k \in DOMAIN u : Valid(u[k])}
           n == Len(u)
           f == Reverse(u)
           turned == {k \in DOMAIN f : Valid(f[k])}
<1>1. /\ n \in Nat /\ f \in Seq(Location) /\ Len(f) = n
      /\ \A i \in 1 .. n : f[i] = u[n - i + 1]
  BY Pieces
<1> HIDE DEF f
<1>2. DOMAIN u = 1 .. n /\ DOMAIN f = 1 .. n /\ 1 .. n \subseteq 0 .. n
  BY <1>1
<1> HIDE DEF n
<1>3. \A i \in 1 .. n : n - i + 1 \in 1 .. n /\ n - (n - i + 1) + 1 = i
  BY <1>1
<1>4. \A i \in 1 .. n : i \in turned <=> n - i + 1 \in valid
  BY <1>1, <1>2, <1>3
<1>5. valid \subseteq 1 .. n /\ turned \subseteq 1 .. n
  BY <1>2
<1>6. LastValid(f) = IF turned = {} THEN 0 ELSE Max(turned)
  BY DEF LastValid
<1> HIDE DEF valid, turned
<1>7. valid = {} <=> turned = {}
  BY <1>3, <1>4, <1>5
<1>8. ASSUME valid # {}
      PROVE  Min(valid) \in 1 .. n /\ Max(turned) = n - Min(valid) + 1
  <2>1. Min(valid) \in valid /\ \A y \in valid : Min(valid) <= y
    BY <1>1, <1>2, <1>5, <1>8, MaxMin
  <2>2. Max(turned) \in turned /\ \A y \in turned : y <= Max(turned)
    BY <1>1, <1>2, <1>5, <1>7, <1>8, MaxMin
  <2> DEFINE x == Min(valid)
             y == Max(turned)
  <2> HIDE DEF x, y
  <2>3. x \in valid /\ y \in turned /\ x \in 1 .. n /\ y \in 1 .. n
    BY <1>5, <2>1, <2>2 DEF x, y
  <2>4. n - x + 1 \in turned /\ n - y + 1 \in valid
    BY <1>3, <1>4, <2>3
  <2>5. n - x + 1 <= y /\ x <= n - y + 1
    BY <2>1, <2>2, <2>4 DEF x, y
  <2>6. y = n - x + 1
    BY <1>1, <2>3, <2>5
  <2> QED
    BY <2>3, <2>6 DEF x, y
<1> QED
  BY <1>6, <1>7, <1>8 DEF valid, f, n

\* What a way through the history leaves of the rest: nothing is applied, or one of the
\* entries.
Applied ==
    \/ UNCHANGED <<lastActive, shown, saved, strayed>>
    \/ \E entry \in Entries \cap Location : ApplyEntry(entry)

LEMMA EntryIn ==
  ASSUME NEW t \in TabIds, NEW s, s \in Seq(Location), s = backStack[t] \/ s = forwardStack[t],
         NEW i \in 1 .. Len(s)
  PROVE  s[i] \in Entries \cap Location
<1>1. s[i] \in ToSet(s) /\ s[i] \in Location
  BY SetOfList
<1> QED
  BY <1>1 DEF Entries

LEMMA GoForwardHistory ==
  ASSUME NavInv, GoForward
  PROVE  HistoryKept /\ Applied
<1> DEFINE t == historyTab
           forward == forwardStack[t]
           ahead == future[t]
           i == LastValid(forward)
           valid == {k \in DOMAIN ahead : Valid(ahead[k])}
           least == Min(valid)
           f == SubSeq(forward, 1, IF i = 0 THEN 0 ELSE i - 1)
           u == IF valid = {} THEN <<>> ELSE SubSeq(ahead, least + 1, Len(ahead))
           b == IF i = 0 THEN backStack[t] ELSE Append(backStack[t], shown)
           p == IF i = 0 THEN past[t] ELSE Append(past[t], shown)
<1>1. /\ t \in TabIds /\ shown \in Location /\ StacksTyped /\ HistoryIsABrowsers
      /\ backStack[t] \in Seq(Location) /\ forward \in Seq(Location)
      /\ past[t] \in Seq(Location) /\ ahead \in Seq(Location)
      /\ Len(backStack[t]) + Len(forward) <= MAX_HISTORY_SIZE
      /\ t \notin scrambled => backStack[t] = past[t] /\ forward = Reverse(ahead)
  BY InUse
<1>2. /\ forwardStack' = [forwardStack EXCEPT ![t] = f]
      /\ future' = [future EXCEPT ![t] = u]
      /\ IF i = 0 THEN UNCHANGED <<lastActive, shown, saved, backStack, past, strayed>>
         ELSE /\ backStack' = [backStack EXCEPT ![t] = Append(backStack[t], shown)]
              /\ past' = [past EXCEPT ![t] = Append(past[t], shown)]
              /\ ApplyEntry(forward[i])
      /\ UNCHANGED scrambled
  BY DEF GoForward
<1>3. /\ backStack = [backStack EXCEPT ![t] = backStack[t]]
      /\ past = [past EXCEPT ![t] = past[t]]
  BY <1>1 DEF StacksTyped
<1>4. /\ f = SubSeq(forward, 1, IF i = 0 THEN 0 ELSE i - 1)
      /\ u = IF valid = {} THEN <<>> ELSE SubSeq(ahead, least + 1, Len(ahead))
      /\ b = IF i = 0 THEN backStack[t] ELSE Append(backStack[t], shown)
      /\ p = IF i = 0 THEN past[t] ELSE Append(past[t], shown)
  OBVIOUS
<1>5. forward = forwardStack[t] /\ ahead = future[t] /\ i = LastValid(forward)
  OBVIOUS
<1>6. /\ valid # {} => least \in 1 .. Len(ahead)
      /\ LastValid(Reverse(ahead)) = IF valid = {} THEN 0 ELSE Len(ahead) - least + 1
  <2> HIDE DEF ahead
  <2> QED
    BY <1>1, Nearest
<1> HIDE DEF f, u, b, p, i, valid, least, forward, ahead, t
<1>7. backStack' = [backStack EXCEPT ![t] = b] /\ past' = [past EXCEPT ![t] = p]
  BY <1>2, <1>3, <1>4
<1>8. i \in 0 .. Len(forward) /\ Len(forward) \in Nat /\ Len(ahead) \in Nat
  BY <1>1, <1>5, LastValidIs
<1>9. f \in Seq(Location) /\ Len(f) <= Len(forward) /\ (i # 0 => Len(f) = i - 1)
      /\ ToSet(f) \subseteq ToSet(forward)
  <2> DEFINE n == IF i = 0 THEN 0 ELSE i - 1
  <2>1. n \in 0 .. Len(forward) /\ f = SubSeq(forward, 1, n) /\ (i # 0 => n = i - 1)
    BY <1>4, <1>8
  <2> HIDE DEF n
  <2>2. f \in Seq(Location) /\ Len(f) = n /\ ToSet(f) \subseteq ToSet(forward)
    BY <1>1, <2>1, Ends
  <2> QED
    BY <2>1, <2>2
<1>10. u \in Seq(Location)
  <2>1. CASE valid = {}
    BY <1>4, <2>1, EmptySeq
  <2>2. CASE valid # {}
    <3>1. least \in 0 .. Len(ahead) /\ u = SubSeq(ahead, least + 1, Len(ahead))
      BY <1>4, <1>6, <2>2
    <3> QED
      BY <1>1, <3>1, Ends
  <2> QED
    BY <2>1, <2>2
<1>11. ASSUME NEW s \in Seq(Location)
       PROVE  /\ Append(s, shown) \in Seq(Location) /\ Len(Append(s, shown)) = Len(s) + 1
              /\ ToSet(Append(s, shown)) = ToSet(s) \cup {shown}
  BY <1>1, AppendSet
<1>12. /\ b \in Seq(Location) /\ p \in Seq(Location)
       /\ ToSet(b) \subseteq ToSet(backStack[t]) \cup {shown}
       /\ Len(b) = IF i = 0 THEN Len(backStack[t]) ELSE Len(backStack[t]) + 1
  BY <1>1, <1>4, <1>11
<1>13. Len(b) + Len(f) <= MAX_HISTORY_SIZE
  <2>1. Len(backStack[t]) \in Nat /\ Len(f) \in Nat /\ MAX_HISTORY_SIZE \in Nat
    BY <1>1, <1>9, NavBounds
  <2> QED
    BY <1>1, <1>8, <1>9, <1>12, <2>1
<1>14. t \notin scrambled' => b = p /\ f = Reverse(u)
  <2> SUFFICES ASSUME t \notin scrambled' PROVE b = p /\ f = Reverse(u)
    OBVIOUS
  <2>1. backStack[t] = past[t] /\ forward = Reverse(ahead)
    BY <1>1, <1>2
  <2>2. i = IF valid = {} THEN 0 ELSE Len(ahead) - least + 1
    BY <1>5, <1>6, <2>1
  <2>3. Len(forward) = Len(ahead)
    BY <1>1, <2>1, Pieces
  <2>4. b = p
    BY <1>4, <2>1
  <2>5. CASE valid = {}
    <3>1. f = SubSeq(forward, 1, 0) /\ u = <<>>
      BY <1>4, <2>2, <2>5
    <3>2. f = <<>>
      BY <1>1, <3>1, Pieces
    <3> QED
      BY <2>4, <3>1, <3>2, Turned
  <2>6. CASE valid # {}
    <3>1. /\ i # 0 /\ i - 1 = Len(ahead) - least /\ Len(ahead) - least \in 0 .. Len(ahead)
          /\ Len(ahead) - (Len(ahead) - least) + 1 = least + 1
      BY <1>6, <1>8, <2>2, <2>6
    <3> DEFINE k == Len(ahead) - least
    <3>2. f = SubSeq(forward, 1, k)
      BY <1>4, <3>1
    <3>3. u = SubSeq(ahead, least + 1, Len(ahead))
      BY <1>4, <2>6
    <3>4. k \in 0 .. Len(ahead) /\ Len(ahead) - k + 1 = least + 1
      BY <3>1
    <3> HIDE DEF k
    <3>5. SubSeq(Reverse(ahead), 1, k) = Reverse(SubSeq(ahead, Len(ahead) - k + 1, Len(ahead)))
      BY <1>1, <3>4, Turned
    <3> QED
      BY <2>1, <2>4, <3>2, <3>3, <3>4, <3>5
  <2> QED
    BY <2>5, <2>6
<1>15. ToSet(b) \cup ToSet(f) \subseteq ToSet(backStack[t]) \cup ToSet(forwardStack[t]) \cup {shown}
  BY <1>5, <1>9, <1>12
<1>16. scrambled' \in {scrambled, scrambled \cup {t}}
  BY <1>2
<1>17. Moved(t, b, f, p, u)
  BY <1>1, <1>2, <1>7, <1>9, <1>10, <1>12, <1>13, <1>14, <1>15, <1>16 DEF Moved
<1>18. HistoryKept
  BY <1>1, <1>17, MovedStep
<1>19. Applied
  <2>1. CASE i = 0
    BY <1>2, <2>1 DEF Applied
  <2>2. CASE i # 0
    <3>1. ApplyEntry(forward[i]) /\ i \in 1 .. Len(forward)
      BY <1>2, <1>8, <2>2
    <3>2. forward[i] \in Entries \cap Location
      BY <1>1, <1>5, <3>1, EntryIn
    <3> QED
      BY <3>1, <3>2 DEF Applied
  <2> QED
    BY <2>1, <2>2
<1> QED
  BY <1>18, <1>19

LEMMA MenuHistory ==
  ASSUME NavInv, MenuBack \/ MenuForward
  PROVE  HistoryKept
<1> DEFINE t == historyTab
<1>1. /\ t \in TabIds /\ shown \in Location /\ StacksTyped /\ HistoryIsABrowsers
      /\ backStack[t] \in Seq(Location) /\ forwardStack[t] \in Seq(Location)
      /\ past[t] \in Seq(Location) /\ future[t] \in Seq(Location)
      /\ Len(backStack[t]) + Len(forwardStack[t]) <= MAX_HISTORY_SIZE
  BY InUse
<1>2. /\ backStack = [backStack EXCEPT ![t] = backStack[t]]
      /\ forwardStack = [forwardStack EXCEPT ![t] = forwardStack[t]]
      /\ past = [past EXCEPT ![t] = past[t]] /\ future = [future EXCEPT ![t] = future[t]]
  BY <1>1 DEF StacksTyped
<1>3. ASSUME NEW s \in Seq(Location), s # <<>>
      PROVE  Front(s) \in Seq(Location) /\ Len(Front(s)) <= Len(s) /\ ToSet(Front(s)) \subseteq ToSet(s)
  <2>1. Len(s) \in Nat /\ Len(s) - 1 \in 0 .. Len(s)
    BY <1>3
  <2> DEFINE k == Len(s) - 1
  <2>2. k \in 0 .. Len(s) /\ k <= Len(s) /\ Front(s) = SubSeq(s, 1, k)
    BY <2>1 DEF Front
  <2> HIDE DEF k
  <2> QED
    BY <2>2, Ends
<1>4. /\ Len(backStack[t]) \in Nat /\ Len(forwardStack[t]) \in Nat
      /\ \A x, y, z \in Nat :
           x <= y => /\ y + z <= MAX_HISTORY_SIZE => x + z <= MAX_HISTORY_SIZE
                     /\ z + y <= MAX_HISTORY_SIZE => z + x <= MAX_HISTORY_SIZE
  BY <1>1, NavBounds
<1>5. CASE MenuBack
  <2> DEFINE b == Front(backStack[t])
  <2>1. /\ backStack[t] # <<>> /\ backStack' = [backStack EXCEPT ![t] = b]
        /\ scrambled' = scrambled \cup {t} /\ UNCHANGED <<forwardStack, past, future>>
    BY <1>5 DEF MenuBack
  <2> HIDE DEF t
  <2>2. b \in Seq(Location) /\ Len(b) <= Len(backStack[t]) /\ ToSet(b) \subseteq ToSet(backStack[t])
    BY <1>1, <1>3, <2>1
  <2> HIDE DEF b
  <2>3. Len(b) + Len(forwardStack[t]) <= MAX_HISTORY_SIZE
    <3>1. Len(b) \in Nat /\ Len(b) <= Len(backStack[t])
      BY <2>2
    <3> QED
      BY <1>1, <1>4, <3>1, Zenon
  <2>4. Moved(t, b, forwardStack[t], past[t], future[t])
    BY <1>1, <1>2, <2>1, <2>2, <2>3 DEF Moved
  <2> QED
    BY <1>1, <2>4, MovedStep
<1>6. CASE MenuForward
  <2> DEFINE f == Front(forwardStack[t])
  <2>1. /\ forwardStack[t] # <<>> /\ forwardStack' = [forwardStack EXCEPT ![t] = f]
        /\ scrambled' = scrambled \cup {t} /\ UNCHANGED <<backStack, past, future>>
    BY <1>6 DEF MenuForward
  <2> HIDE DEF t
  <2>2. f \in Seq(Location) /\ Len(f) <= Len(forwardStack[t]) /\ ToSet(f) \subseteq ToSet(forwardStack[t])
    BY <1>1, <1>3, <2>1
  <2> HIDE DEF f
  <2>3. Len(backStack[t]) + Len(f) <= MAX_HISTORY_SIZE
    <3>1. Len(f) \in Nat /\ Len(f) <= Len(forwardStack[t])
      BY <2>2
    <3> QED
      BY <1>1, <1>4, <3>1, Zenon
  <2>4. Moved(t, backStack[t], f, past[t], future[t])
    BY <1>1, <1>2, <2>1, <2>2, <2>3 DEF Moved
  <2> QED
    BY <1>1, <2>4, MovedStep
<1> QED
  BY <1>5, <1>6

\* A jump back: the entries passed over and the present place come before the future.
LEMMA GoToBackHistory ==
  ASSUME NavInv, NEW i \in 1 .. MAX_HISTORY_SIZE, GoToBackEntry(i)
  PROVE  HistoryKept /\ Applied
<1> DEFINE t == historyTab
           back == backStack[t]
           forward == forwardStack[t]
           passed == SubSeq(back, i + 1, Len(back))
           n == Min({i - 1, Len(past[t])})
           b == SubSeq(back, 1, i - 1)
           f == forward \o <<shown>> \o passed
           p == SubSeq(past[t], 1, n)
           u == passed \o <<shown>> \o future[t]
<1>1. /\ t \in TabIds /\ shown \in Location /\ StacksTyped /\ HistoryIsABrowsers
      /\ back \in Seq(Location) /\ forward \in Seq(Location)
      /\ past[t] \in Seq(Location) /\ future[t] \in Seq(Location)
      /\ Len(back) + Len(forward) <= MAX_HISTORY_SIZE
      /\ t \notin scrambled => back = past[t] /\ forward = Reverse(future[t])
  BY InUse
<1>2. /\ i \in DOMAIN back /\ ApplyEntry(back[i])
      /\ backStack' = [backStack EXCEPT ![t] = b] /\ forwardStack' = [forwardStack EXCEPT ![t] = f]
      /\ past' = [past EXCEPT ![t] = p] /\ future' = [future EXCEPT ![t] = u]
      /\ scrambled' = IF passed # Reverse(passed) THEN scrambled \cup {t} ELSE scrambled
  BY DEF GoToBackEntry
<1>3. /\ back = backStack[t] /\ forward = forwardStack[t]
      /\ passed = SubSeq(back, i + 1, Len(back))
      /\ n = Min({i - 1, Len(past[t])})
      /\ b = SubSeq(back, 1, i - 1) /\ f = forward \o <<shown>> \o passed
      /\ p = SubSeq(past[t], 1, n) /\ u = passed \o <<shown>> \o future[t]
  OBVIOUS
<1> HIDE DEF b, f, p, u, n, passed, back, forward, t
<1>4. /\ i \in 1 .. Len(back) /\ i \in 0 .. Len(back) /\ i - 1 \in 0 .. Len(back)
      /\ Len(back) \in Nat /\ Len(forward) \in Nat /\ MAX_HISTORY_SIZE \in Nat
  BY <1>1, <1>2, NavBounds
<1>5. /\ passed \in Seq(Location) /\ Len(passed) = Len(back) - i
      /\ ToSet(passed) \subseteq ToSet(back)
  BY <1>1, <1>3, <1>4, Ends
<1>6. b \in Seq(Location) /\ Len(b) = i - 1 /\ ToSet(b) \subseteq ToSet(back)
  <2> DEFINE k == i - 1
  <2>1. k \in 0 .. Len(back) /\ b = SubSeq(back, 1, k)
    BY <1>3, <1>4
  <2> HIDE DEF k
  <2>2. b \in Seq(Location) /\ Len(b) = k /\ ToSet(b) \subseteq ToSet(back)
    BY <1>1, <2>1, Ends
  <2> QED
    BY <2>2 DEF k
<1>7. p \in Seq(Location) /\ (back = past[t] => p = b)
  <2>1. Len(past[t]) \in Nat
    BY <1>1
  <2>2. n = IF i - 1 <= Len(past[t]) THEN i - 1 ELSE Len(past[t])
    <3> DEFINE k == i - 1
               l == Len(past[t])
    <3>1. k \in Int /\ l \in Int
      BY <1>4, <2>1
    <3> HIDE DEF k, l
    <3>2. Min({k, l}) = IF k <= l THEN k ELSE l
      BY <3>1, MinOfTwo
    <3> QED
      BY <1>3, <3>2 DEF k, l
  <2>3. n \in 0 .. Len(past[t]) /\ (back = past[t] => n = i - 1)
    BY <1>4, <2>1, <2>2
  <2>4. p \in Seq(Location)
    BY <1>1, <1>3, <2>3, Ends
  <2> QED
    BY <1>3, <2>3, <2>4
<1> DEFINE here == <<shown>>
<1>8. here \in Seq(Location) /\ ToSet(here) = {shown} /\ Len(here) = 1 /\ Reverse(here) = here
  BY <1>1, Members, Turned
<1>9. f = forward \o here \o passed /\ u = passed \o here \o future[t]
  BY <1>3
<1> HIDE DEF here
<1>10. /\ forward \o here \in Seq(Location) /\ Len(forward \o here) = Len(forward) + 1
       /\ ToSet(forward \o here) = ToSet(forward) \cup {shown}
       /\ passed \o here \in Seq(Location)
  <2>1. /\ forward \o here \in Seq(Location) /\ passed \o here \in Seq(Location)
        /\ ToSet(forward \o here) = ToSet(forward) \cup ToSet(here)
    BY <1>1, <1>5, <1>8, Members
  <2>2. Len(forward \o here) = Len(forward) + Len(here)
    BY <1>1, <1>8, ConcatProperties
  <2> QED
    BY <1>8, <2>1, <2>2
<1>11. /\ f \in Seq(Location) /\ Len(f) = Len(forward) + 1 + Len(passed)
       /\ ToSet(f) \subseteq ToSet(forward) \cup {shown} \cup ToSet(passed)
  <2>1. /\ (forward \o here) \o passed \in Seq(Location)
        /\ ToSet((forward \o here) \o passed) = ToSet(forward \o here) \cup ToSet(passed)
    <3> DEFINE c == forward \o here
    <3>1. c \in Seq(Location)
      BY <1>10
    <3> HIDE DEF c
    <3>2. c \o passed \in Seq(Location) /\ ToSet(c \o passed) = ToSet(c) \cup ToSet(passed)
      BY <1>5, <3>1, Members
    <3> QED
      BY <3>2 DEF c
  <2>2. Len((forward \o here) \o passed) = Len(forward \o here) + Len(passed)
    BY <1>5, <1>10, ConcatProperties
  <2> QED
    BY <1>9, <1>10, <2>1, <2>2
<1>12. u \in Seq(Location)
  BY <1>1, <1>9, <1>10, Members
<1>13. Len(b) + Len(f) <= MAX_HISTORY_SIZE
  BY <1>1, <1>4, <1>5, <1>6, <1>11
<1>14. ToSet(b) \cup ToSet(f) \subseteq ToSet(backStack[t]) \cup ToSet(forwardStack[t]) \cup {shown}
  BY <1>3, <1>5, <1>6, <1>11
<1>15. t \notin scrambled' => b = p /\ f = Reverse(u)
  <2> SUFFICES ASSUME t \notin scrambled' PROVE b = p /\ f = Reverse(u)
    OBVIOUS
  <2>1. passed = Reverse(passed) /\ back = past[t] /\ forward = Reverse(future[t])
    BY <1>1, <1>2
  <2>2. Reverse((passed \o here) \o future[t]) = Reverse(future[t]) \o Reverse(passed \o here)
    BY <1>1, <1>10, Turned
  <2>3. Reverse(passed \o here) = Reverse(here) \o Reverse(passed)
    BY <1>5, <1>8, Turned
  <2>4. Reverse(u) = forward \o (here \o passed)
    BY <1>8, <1>9, <2>1, <2>2, <2>3
  <2>5. forward \o (here \o passed) = (forward \o here) \o passed
    <3>1. forward \in Seq(Location) /\ here \in Seq(Location) /\ passed \in Seq(Location)
      BY <1>1, <1>5, <1>8
    <3> QED
      BY <3>1, ConcatAssociative
  <2> QED
    BY <1>7, <1>9, <2>1, <2>4, <2>5
<1>16. scrambled' \in {scrambled, scrambled \cup {t}}
  BY <1>2
<1>17. Moved(t, b, f, p, u)
  BY <1>1, <1>2, <1>6, <1>7, <1>11, <1>12, <1>13, <1>14, <1>15, <1>16 DEF Moved
<1>18. HistoryKept
  BY <1>1, <1>17, MovedStep
<1>19. Applied
  <2>1. back[i] \in Entries \cap Location
    BY <1>1, <1>3, <1>4, EntryIn
  <2> QED
    BY <1>2, <2>1 DEF Applied
<1> QED
  BY <1>18, <1>19

LEMMA JoinPlaces ==
  \A s, r, q \in Seq(Location) : (s \o r) \o q = s \o (r \o q)
<1> SUFFICES ASSUME NEW s \in Seq(Location), NEW r \in Seq(Location), NEW q \in Seq(Location)
             PROVE  (s \o r) \o q = s \o (r \o q)
  OBVIOUS
<1> QED
  BY ConcatAssociative

\* A jump forward: the present place and the entries passed over come after the past.
LEMMA GoToForwardHistory ==
  ASSUME NavInv, NEW i \in 1 .. MAX_HISTORY_SIZE, GoToForwardEntry(i)
  PROVE  HistoryKept /\ Applied
<1> DEFINE t == historyTab
           back == backStack[t]
           forward == forwardStack[t]
           ahead == future[t]
           passed == SubSeq(forward, i + 1, Len(forward))
           turned == Reverse(passed)
           here == <<shown>>
           m == Len(passed) + 2
           f == SubSeq(forward, 1, i - 1)
           b == back \o passed \o here
           u == SubSeq(ahead, m, Len(ahead))
           p == past[t] \o here \o turned
<1>1. /\ t \in TabIds /\ shown \in Location /\ StacksTyped /\ HistoryIsABrowsers
      /\ back \in Seq(Location) /\ forward \in Seq(Location)
      /\ past[t] \in Seq(Location) /\ ahead \in Seq(Location)
      /\ Len(back) + Len(forward) <= MAX_HISTORY_SIZE
      /\ t \notin scrambled => back = past[t] /\ forward = Reverse(ahead)
  BY InUse
<1>2. /\ i \in DOMAIN forward /\ ApplyEntry(forward[i])
      /\ backStack' = [backStack EXCEPT ![t] = b] /\ forwardStack' = [forwardStack EXCEPT ![t] = f]
      /\ past' = [past EXCEPT ![t] = p] /\ future' = [future EXCEPT ![t] = u]
      /\ scrambled' = IF here \o turned # Append(passed, shown) THEN scrambled \cup {t} ELSE scrambled
  BY DEF GoToForwardEntry
<1>3. /\ back = backStack[t] /\ forward = forwardStack[t]
      /\ passed = SubSeq(forward, i + 1, Len(forward)) /\ turned = Reverse(passed)
      /\ m = Len(passed) + 2 /\ f = SubSeq(forward, 1, i - 1)
      /\ b = back \o passed \o here /\ u = SubSeq(ahead, m, Len(ahead))
      /\ p = past[t] \o here \o turned
  OBVIOUS
<1>4. here \in Seq(Location) /\ ToSet(here) = {shown} /\ Len(here) = 1
  BY <1>1, Members
<1> HIDE DEF b, f, p, u, m, turned, passed, back, forward, ahead, t
<1>5. /\ i \in 1 .. Len(forward) /\ i \in 0 .. Len(forward) /\ i - 1 \in 0 .. Len(forward)
      /\ Len(back) \in Nat /\ Len(forward) \in Nat /\ Len(ahead) \in Nat /\ MAX_HISTORY_SIZE \in Nat
  BY <1>1, <1>2, NavBounds
<1>6. /\ passed \in Seq(Location) /\ Len(passed) = Len(forward) - i
      /\ ToSet(passed) \subseteq ToSet(forward)
  BY <1>1, <1>3, <1>5, Ends
<1>7. turned \in Seq(Location)
  BY <1>3, <1>6, Pieces
<1>8. Append(passed, shown) = passed \o here
  BY <1>1, <1>6, AppendIsConcat
<1> HIDE DEF here
<1>9. f \in Seq(Location) /\ Len(f) = i - 1 /\ ToSet(f) \subseteq ToSet(forward)
  <2> DEFINE k == i - 1
  <2>1. k \in 0 .. Len(forward) /\ f = SubSeq(forward, 1, k)
    BY <1>3, <1>5
  <2> HIDE DEF k
  <2>2. f \in Seq(Location) /\ Len(f) = k /\ ToSet(f) \subseteq ToSet(forward)
    BY <1>1, <2>1, Ends
  <2> QED
    BY <2>2 DEF k
<1>10. /\ b \in Seq(Location) /\ Len(b) = Len(back) + Len(passed) + 1
       /\ ToSet(b) = ToSet(back) \cup ToSet(passed) \cup {shown}
  <2> DEFINE c == back \o passed
  <2>1. c \in Seq(Location) /\ ToSet(c) = ToSet(back) \cup ToSet(passed)
    BY <1>1, <1>6, Members
  <2>2. Len(c) = Len(back) + Len(passed)
    BY <1>1, <1>6, ConcatProperties
  <2>3. b = c \o here
    BY <1>3
  <2> HIDE DEF c
  <2>4. b \in Seq(Location) /\ ToSet(b) = ToSet(c) \cup ToSet(here)
    BY <1>4, <2>1, <2>3, Members
  <2>5. Len(b) = Len(c) + Len(here)
    BY <1>4, <2>1, <2>3, ConcatProperties
  <2> QED
    BY <1>4, <2>1, <2>2, <2>4, <2>5
<1>11. p \in Seq(Location)
  <2> DEFINE c == past[t] \o here
  <2>1. c \in Seq(Location)
    BY <1>1, <1>4, Members
  <2>2. p = c \o turned
    BY <1>3
  <2> HIDE DEF c
  <2> QED
    BY <1>7, <2>1, <2>2, Members
<1>12. m \in Nat /\ m - 1 \in Nat /\ (m - 1) + 1 = m
  BY <1>3, <1>5, <1>6
<1>13. u \in Seq(Location)
  <2>1. CASE m > Len(ahead)
    <3>1. u = <<>>
      BY <1>1, <1>3, <1>12, <2>1, Members
    <3> QED
      BY <3>1, EmptySeq
  <2>2. CASE ~(m > Len(ahead))
    <3> DEFINE k == m - 1
    <3>1. k \in 0 .. Len(ahead) /\ u = SubSeq(ahead, k + 1, Len(ahead))
      BY <1>3, <1>5, <1>12, <2>2
    <3> HIDE DEF k
    <3> QED
      BY <1>1, <3>1, Ends
  <2> QED
    BY <2>1, <2>2
<1>14. Len(b) + Len(f) <= MAX_HISTORY_SIZE
  BY <1>1, <1>5, <1>6, <1>9, <1>10
<1>15. ToSet(b) \cup ToSet(f) \subseteq ToSet(backStack[t]) \cup ToSet(forwardStack[t]) \cup {shown}
  BY <1>3, <1>6, <1>9, <1>10
<1>16. t \notin scrambled' => b = p /\ f = Reverse(u)
  <2> SUFFICES ASSUME t \notin scrambled' PROVE b = p /\ f = Reverse(u)
    OBVIOUS
  <2>1. here \o turned = passed \o here /\ back = past[t] /\ forward = Reverse(ahead)
    BY <1>1, <1>2, <1>8
  <2>2. (back \o passed) \o here = back \o (passed \o here)
    <3>1. back \in Seq(Location) /\ passed \in Seq(Location) /\ here \in Seq(Location)
      BY <1>1, <1>4, <1>6
    <3> QED
      BY <3>1, JoinPlaces, Zenon
  <2>3. (back \o here) \o turned = back \o (here \o turned)
    <3>1. back \in Seq(Location) /\ here \in Seq(Location) /\ turned \in Seq(Location)
      BY <1>1, <1>4, <1>7
    <3> QED
      BY <3>1, JoinPlaces, Zenon
  <2>4. b = p
    BY <1>3, <2>1, <2>2, <2>3
  <2> DEFINE k == i - 1
  <2>5. Len(forward) = Len(ahead)
    BY <1>1, <2>1, Pieces
  <2>6. k \in 0 .. Len(ahead) /\ Len(ahead) - k + 1 = m /\ f = SubSeq(forward, 1, k)
    BY <1>3, <1>5, <1>6, <2>5
  <2> HIDE DEF k
  <2>7. SubSeq(Reverse(ahead), 1, k) = Reverse(SubSeq(ahead, Len(ahead) - k + 1, Len(ahead)))
    BY <1>1, <2>6, Turned
  <2> QED
    BY <1>3, <2>1, <2>4, <2>6, <2>7
<1>17. scrambled' \in {scrambled, scrambled \cup {t}}
  BY <1>2
<1>18. Moved(t, b, f, p, u)
  BY <1>1, <1>2, <1>9, <1>10, <1>11, <1>13, <1>14, <1>15, <1>16, <1>17 DEF Moved
<1>19. HistoryKept
  BY <1>1, <1>18, MovedStep
<1>20. Applied
  <2>1. forward[i] \in Entries \cap Location
    BY <1>1, <1>3, <1>5, EntryIn
  <2> QED
    BY <1>2, <2>1 DEF Applied
<1> QED
  BY <1>19, <1>20

(* The tab bar.                                                            *)
LEMMA Inserted ==
  ASSUME NEW U, NEW s \in Seq(U), NEW k \in 1 .. Len(s), NEW e \in U
  PROVE  /\ InsertAt(s, k + 1, e) \in Seq(U) /\ Len(InsertAt(s, k + 1, e)) = Len(s) + 1
         /\ ToSet(InsertAt(s, k + 1, e)) = ToSet(s) \cup {e}
         /\ IsInjective(s) /\ e \notin ToSet(s) => IsInjective(InsertAt(s, k + 1, e))
<1> DEFINE n == Len(s)
           x == SubSeq(s, 1, k)
           y == <<e>>
           z == SubSeq(s, k + 1, n)
           c == x \o y
           r == c \o z
<1>1. /\ n \in Nat /\ k \in 1 .. n /\ k + 1 \in 1 .. n + 1 /\ 1 \in 1 .. n + 1 /\ k \in 0 .. n
      /\ n \in 0 .. n /\ 1 <= k + 1 /\ k + 1 <= n + 1
  OBVIOUS
<1>2. InsertAt(s, k + 1, e) = r
  <2>1. (k + 1) - 1 = k
    OBVIOUS
  <2>2. InsertAt(s, k + 1, e) = SubSeq(s, 1, (k + 1) - 1) \o <<e>> \o SubSeq(s, k + 1, Len(s))
    BY DEF InsertAt
  <2> QED
    BY <2>1, <2>2, Zenon
<1>3. x \in Seq(U) /\ Len(x) = k - 1 + 1 /\ \A i \in 1 .. k - 1 + 1 : x[i] = s[1 + i - 1]
  BY <1>1, Pieces
<1>4. /\ z \in Seq(U) /\ Len(z) = n - (k + 1) + 1
      /\ \A i \in 1 .. n - (k + 1) + 1 : z[i] = s[(k + 1) + i - 1]
  <2> DEFINE m == k + 1
  <2>1. m \in 1 .. Len(s) + 1 /\ n \in 0 .. Len(s) /\ m <= n + 1
    BY <1>1
  <2> HIDE DEF m, n
  <2>2. /\ SubSeq(s, m, n) \in Seq(U) /\ Len(SubSeq(s, m, n)) = n - m + 1
        /\ \A i \in 1 .. n - m + 1 : SubSeq(s, m, n)[i] = s[m + i - 1]
    BY <2>1, Pieces
  <2> QED
    BY <2>2 DEF m
<1>5. y \in Seq(U) /\ Len(y) = 1 /\ y[1] = e
  OBVIOUS
<1> HIDE DEF x, y, z
<1>6. /\ c \in Seq(U) /\ Len(c) = Len(x) + Len(y)
      /\ \A i \in 1 .. Len(x) + Len(y) : c[i] = IF i <= Len(x) THEN x[i] ELSE y[i - Len(x)]
  <2>1. x \in Seq(U) /\ y \in Seq(U)
    BY <1>3, <1>5
  <2> QED
    BY <2>1, ConcatProperties
<1> HIDE DEF c
<1>7. /\ r \in Seq(U) /\ Len(r) = Len(c) + Len(z)
      /\ \A i \in 1 .. Len(c) + Len(z) : r[i] = IF i <= Len(c) THEN c[i] ELSE z[i - Len(c)]
  <2>1. c \in Seq(U) /\ z \in Seq(U)
    BY <1>4, <1>6
  <2> QED
    BY <2>1, ConcatProperties
<1> HIDE DEF r
<1>8. Len(x) = k /\ Len(y) = 1 /\ Len(c) = k + 1 /\ Len(z) = n - k /\ Len(r) = n + 1
  BY <1>1, <1>3, <1>4, <1>5, <1>6, <1>7
<1>9. ASSUME NEW i \in 1 .. n + 1
      PROVE  /\ i <= k => r[i] = s[i]
             /\ i = k + 1 => r[i] = e
             /\ i > k + 1 => r[i] = s[i - 1]
  <2>1. CASE i <= k
    <3>1. i \in 1 .. Len(c) + Len(z) /\ i <= Len(c) /\ i \in 1 .. Len(x) + Len(y) /\ i <= Len(x)
          /\ i \in 1 .. k - 1 + 1 /\ 1 + i - 1 = i
      BY <1>1, <1>8, <2>1
    <3>2. r[i] = c[i] /\ c[i] = x[i] /\ x[i] = s[i]
      BY <1>3, <1>6, <1>7, <3>1
    <3> QED
      BY <1>1, <2>1, <3>2
  <2>2. CASE i = k + 1
    <3>1. i \in 1 .. Len(c) + Len(z) /\ i <= Len(c) /\ i \in 1 .. Len(x) + Len(y) /\ ~(i <= Len(x))
          /\ i - Len(x) = 1
      BY <1>1, <1>8, <2>2
    <3>2. r[i] = c[i] /\ c[i] = y[1]
      BY <1>6, <1>7, <3>1
    <3> QED
      BY <1>1, <1>5, <2>2, <3>2
  <2>3. CASE i > k + 1
    <3>1. i \in 1 .. Len(c) + Len(z) /\ ~(i <= Len(c)) /\ i - Len(c) = i - (k + 1)
          /\ i - (k + 1) \in 1 .. n - (k + 1) + 1 /\ (k + 1) + (i - (k + 1)) - 1 = i - 1
      BY <1>1, <1>8, <2>3
    <3>2. r[i] = z[i - (k + 1)] /\ z[i - (k + 1)] = s[i - 1]
      BY <1>4, <1>7, <3>1
    <3> QED
      BY <1>1, <2>3, <3>2
  <2> QED
    BY <1>1, <2>1, <2>2, <2>3
<1>10. DOMAIN r = 1 .. n + 1 /\ DOMAIN s = 1 .. n
  BY <1>7, <1>8
<1>11. ToSet(r) \subseteq ToSet(s) \cup {e}
  <2>1. ASSUME NEW i \in 1 .. n + 1 PROVE r[i] = e \/ \E j \in 1 .. n : r[i] = s[j]
    <3>1. i <= k => i \in 1 .. n
      BY <1>1
    <3>2. i > k + 1 => i - 1 \in 1 .. n
      BY <1>1
    <3>3. i <= k \/ i = k + 1 \/ i > k + 1
      BY <1>1
    <3> QED
      BY <1>9, <3>1, <3>2, <3>3
  <2> QED
    BY <1>10, <2>1 DEF ToSet
<1>12. \A j \in 1 .. n : \E i \in 1 .. n + 1 : r[i] = s[j]
  <2>1. ASSUME NEW j \in 1 .. n, j <= k PROVE \E i \in 1 .. n + 1 : r[i] = s[j]
    <3>1. j \in 1 .. n + 1
      BY <1>1
    <3> QED
      BY <1>9, <2>1, <3>1
  <2>2. ASSUME NEW j \in 1 .. n, ~(j <= k) PROVE \E i \in 1 .. n + 1 : r[i] = s[j]
    <3>1. j + 1 \in 1 .. n + 1 /\ j + 1 > k + 1 /\ (j + 1) - 1 = j
      BY <1>1, <2>2
    <3>2. r[j + 1] = s[j]
      BY <1>9, <3>1
    <3> QED
      BY <3>1, <3>2
  <2> QED
    BY <2>1, <2>2
<1>13. k + 1 \in 1 .. n + 1 /\ r[k + 1] = e
  BY <1>1, <1>9
<1>14. ToSet(r) = ToSet(s) \cup {e}
  BY <1>10, <1>11, <1>12, <1>13 DEF ToSet
<1>15. ASSUME IsInjective(s), e \notin ToSet(s) PROVE IsInjective(r)
  <2>1. \A i, j \in 1 .. n : s[i] = s[j] => i = j
    BY <1>10, <1>15 DEF IsInjective
  <2>2. \A i \in 1 .. n : s[i] # e
    BY <1>10, <1>15 DEF ToSet
  <2> DEFINE from(i) == IF i <= k THEN i ELSE i - 1
  <2>3. ASSUME NEW i \in 1 .. n + 1, i # k + 1 PROVE from(i) \in 1 .. n /\ r[i] = s[from(i)]
    <3>1. CASE i <= k
      BY <1>1, <1>9, <3>1
    <3>2. CASE ~(i <= k)
      <4>1. i > k + 1 /\ i - 1 \in 1 .. n
        BY <1>1, <2>3, <3>2
      <4> QED
        BY <1>9, <3>2, <4>1
    <3> QED
      BY <3>1, <3>2
  <2>4. \A i, j \in 1 .. n + 1 : i # k + 1 /\ j # k + 1 /\ from(i) = from(j) => i = j
    BY <1>1
  <2> HIDE DEF from
  <2>5. ASSUME NEW i \in 1 .. n + 1, NEW j \in 1 .. n + 1, r[i] = r[j] PROVE i = j
    <3>1. CASE i = k + 1 /\ j # k + 1
      BY <1>13, <2>2, <2>3, <2>5, <3>1
    <3>2. CASE i # k + 1 /\ j = k + 1
      BY <1>13, <2>2, <2>3, <2>5, <3>2
    <3>3. CASE i # k + 1 /\ j # k + 1
      BY <2>1, <2>3, <2>4, <2>5, <3>3
    <3> QED
      BY <3>1, <3>2, <3>3
  <2> QED
    BY <1>10, <2>5 DEF IsInjective
<1> QED
  BY <1>2, <1>7, <1>8, <1>14, <1>15 DEF n

\* A tab is where the bar has it.
LEMMA PlaceOf ==
  ASSUME BarTyped, NEW t \in ToSet(tabOrder)
  PROVE  (CHOOSE k \in DOMAIN tabOrder : tabOrder[k] = t) \in 1 .. Len(tabOrder)
<1>1. DOMAIN tabOrder = 1 .. Len(tabOrder)
  BY DEF BarTyped
<1>2. \E k \in DOMAIN tabOrder : tabOrder[k] = t
  BY DEF ToSet
<1>3. (CHOOSE k \in DOMAIN tabOrder : tabOrder[k] = t) \in DOMAIN tabOrder
  BY <1>2
<1> QED
  BY <1>1, <1>3

LEMMA BarOpens ==
  ASSUME BarTyped, NEW t \in ToSet(tabOrder), RoomForTab, ids' = ids + 1,
         tabOrder' = After(t, ids + 1), activeTab' = ids + 1, historyTab' = ids + 1
  PROVE  BarTyped' /\ ids + 1 \in TabIds
<1> DEFINE k == CHOOSE k \in DOMAIN tabOrder : tabOrder[k] = t
           e == ids + 1
<1>1. /\ tabOrder \in Seq(TabIds) /\ IsInjective(tabOrder) /\ Len(tabOrder) \in 1 .. MAX_TABS
      /\ ids \in TabIds /\ ToSet(tabOrder) \subseteq 1 .. ids
  BY DEF BarTyped
<1>2. k \in 1 .. Len(tabOrder)
  BY PlaceOf
<1>3. /\ e \in TabIds /\ e \notin 1 .. ids /\ 1 .. ids \subseteq 1 .. e /\ e \in 1 .. e
      /\ Len(tabOrder) + 1 \in 1 .. MAX_TABS
  BY <1>1, NavBounds DEF RoomForTab, TabIds
<1>4. tabOrder' = InsertAt(tabOrder, k + 1, e)
  BY DEF After
<1>5. ids' = e /\ activeTab' = e /\ historyTab' = e
  OBVIOUS
<1> HIDE DEF k, e
<1>6. /\ tabOrder' \in Seq(TabIds) /\ Len(tabOrder') = Len(tabOrder) + 1
      /\ ToSet(tabOrder') = ToSet(tabOrder) \cup {e}
      /\ IsInjective(tabOrder) /\ e \notin ToSet(tabOrder) => IsInjective(tabOrder')
  <2>1. tabOrder \in Seq(TabIds) /\ k \in 1 .. Len(tabOrder) /\ e \in TabIds
    BY <1>1, <1>2, <1>3
  <2>2. /\ InsertAt(tabOrder, k + 1, e) \in Seq(TabIds)
        /\ Len(InsertAt(tabOrder, k + 1, e)) = Len(tabOrder) + 1
        /\ ToSet(InsertAt(tabOrder, k + 1, e)) = ToSet(tabOrder) \cup {e}
        /\ IsInjective(tabOrder) /\ e \notin ToSet(tabOrder) =>
             IsInjective(InsertAt(tabOrder, k + 1, e))
    BY <2>1, Inserted
  <2> QED
    BY <1>4, <2>2, Zenon
<1>7. IsInjective(tabOrder')
  BY <1>1, <1>3, <1>6
<1>8. Len(tabOrder') \in 1 .. MAX_TABS
  BY <1>3, <1>6
<1>9. activeTab' \in ToSet(tabOrder') /\ ids' \in TabIds /\ historyTab' \in TabIds
  BY <1>3, <1>5, <1>6
<1>10. ToSet(tabOrder') \subseteq 1 .. ids'
  BY <1>1, <1>3, <1>5, <1>6
<1>11. BarTyped'
  BY <1>6, <1>7, <1>8, <1>9, <1>10 DEF BarTyped
<1> QED
  BY <1>3, <1>11 DEF e

LEMMA BarCloses ==
  ASSUME BarTyped, NEW t \in ToSet(tabOrder), Len(tabOrder) > 1
  PROVE  /\ TabsWithout(t) \in Seq(TabIds) /\ IsInjective(TabsWithout(t))
         /\ Len(TabsWithout(t)) \in 1 .. MAX_TABS
         /\ ToSet(TabsWithout(t)) = ToSet(tabOrder) \ {t}
         /\ Neighbour(t) \in ToSet(TabsWithout(t))
<1> DEFINE rest == TabsWithout(t)
           i == CHOOSE k \in DOMAIN tabOrder : tabOrder[k] = t
           n == Len(rest)
           j == Min({i, n})
<1>1. /\ tabOrder \in Seq(TabIds) /\ IsInjective(tabOrder) /\ Len(tabOrder) \in 1 .. MAX_TABS
      /\ ToSet(tabOrder) \subseteq TabIds
  <2>1. tabOrder \in Seq(TabIds) /\ IsInjective(tabOrder) /\ Len(tabOrder) \in 1 .. MAX_TABS
    BY DEF BarTyped
  <2> QED
    BY <2>1, SetOfList
<1>2. rest = Only(tabOrder, TabIds \ {t}) /\ Neighbour(t) = rest[j]
  BY DEF TabsWithout, Neighbour
<1>3. i \in 1 .. Len(tabOrder)
  BY PlaceOf
<1> HIDE DEF rest, i
<1>4. /\ rest \in Seq(TabIds) /\ ToSet(rest) = ToSet(tabOrder) \cap (TabIds \ {t})
      /\ IsInjective(rest)
  BY <1>1, <1>2, OnlySet
<1>5. n \in Nat /\ n <= Len(tabOrder)
  BY <1>1, <1>2, OnlyElements
<1>6. ToSet(rest) = ToSet(tabOrder) \ {t}
  BY <1>1, <1>4
<1>7. rest # <<>>
  <2>1. /\ 1 \in 1 .. Len(tabOrder) /\ 2 \in 1 .. Len(tabOrder) /\ 1 # 2
        /\ DOMAIN tabOrder = 1 .. Len(tabOrder)
    BY <1>1
  <2>2. tabOrder[1] # tabOrder[2] /\ tabOrder[1] \in ToSet(tabOrder) /\ tabOrder[2] \in ToSet(tabOrder)
    BY <1>1, <2>1 DEF IsInjective, ToSet
  <2>3. ToSet(rest) # {}
    BY <1>6, <2>2
  <2> QED
    BY <1>4, <2>3, SetOfList
<1>8. n \in 1 .. MAX_TABS
  <2>1. n # 0
    BY <1>4, <1>7
  <2>2. MAX_TABS \in Nat
    BY NavBounds
  <2> HIDE DEF n
  <2> QED
    BY <1>1, <1>5, <2>1, <2>2
<1> HIDE DEF n
<1>9. j = IF i <= n THEN i ELSE n
  <2>1. i \in Int /\ n \in Int
    BY <1>3, <1>5
  <2> QED
    BY <2>1, MinOfTwo
<1>10. j \in 1 .. n
  BY <1>3, <1>5, <1>8, <1>9
<1> HIDE DEF j
<1>11. rest[j] \in ToSet(rest)
  BY <1>4, <1>10, SetOfList DEF n
<1> QED
  BY <1>2, <1>4, <1>6, <1>8, <1>11 DEF rest, n

LEMMA BarShrinks ==
  ASSUME BarTyped, NEW t \in ToSet(tabOrder), Len(tabOrder) > 1, tabOrder' = TabsWithout(t),
         activeTab' \in ToSet(tabOrder'), historyTab' \in TabIds, UNCHANGED ids
  PROVE  BarTyped'
<1>1. /\ tabOrder' \in Seq(TabIds) /\ IsInjective(tabOrder') /\ Len(tabOrder') \in 1 .. MAX_TABS
      /\ ToSet(tabOrder') = ToSet(tabOrder) \ {t}
  BY BarCloses
<1>2. ids' \in TabIds /\ ToSet(tabOrder') \subseteq 1 .. ids'
  BY <1>1 DEF BarTyped
<1> QED
  BY <1>1, <1>2 DEF BarTyped

(* Each step.                                                              *)
PlacesKept == PlacesTyped' /\ SelectionFits' /\ strayed \subseteq strayed'
BarKept == BarTyped' /\ TabOwnsHistory'
TimeKept == steps' \in 0 .. MaxSteps

LEMMA Together ==
  ASSUME NavInv, PlacesKept, BarKept, HistoryKept, TimeKept
  PROVE  NavInv'
<1>1. (Straight => \A e \in Entries : Kin(e))'
  BY KinKept DEF PlacesKept
<1> QED
  BY <1>1 DEF NavInv, PlacesKept, BarKept, HistoryKept, TimeKept

LEMMA TimePasses ==
  ASSUME NavInv, Step \/ UNCHANGED steps
  PROVE  TimeKept
BY NavBounds DEF NavInv, Step, TimeKept

LEMMA ActiveTab ==
  ASSUME NavInv
  PROVE  /\ activeTab \in TabIds /\ activeTab \in ToSet(tabOrder) /\ ToSet(tabOrder) \subseteq TabIds
         /\ shown \in Location /\ saved \in [TabIds -> Location]
         /\ \A t \in TabIds : saved[t] \in Location
<1>1. tabOrder \in Seq(TabIds) /\ activeTab \in ToSet(tabOrder)
  BY DEF NavInv, BarTyped
<1>2. ToSet(tabOrder) \subseteq TabIds
  BY <1>1, SetOfList
<1> QED
  BY <1>1, <1>2 DEF NavInv, PlacesTyped

LEMMA PlacesLeft ==
  ASSUME NavInv, UNCHANGED <<selectionVars, shown>>, strayed \subseteq strayed',
         saved' \in [TabIds -> Location], pendingNavigate' \in Targets \cup {NoTarget}
  PROVE  PlacesKept
<1>1. UNCHANGED <<selectable, existing, lastActive, shown>>
  BY DEF selectionVars
<1>2. PlacesTyped'
  BY <1>1 DEF NavInv, PlacesTyped
<1>3. SelectionFits'
  BY <1>1 DEF NavInv, SelectionFits, Fits
<1> QED
  BY <1>2, <1>3 DEF PlacesKept

LEMMA PlacesSelected ==
  ASSUME NavInv, Selected, UNCHANGED <<selectable, existing>>,
         saved' \in [TabIds -> Location], pendingNavigate' \in Targets \cup {NoTarget}
  PROVE  PlacesKept
<1>1. PlacesTyped'
  BY DEF NavInv, PlacesTyped, Selected
<1> QED
  BY <1>1 DEF NavInv, PlacesKept, Selected

LEMMA BarLeft ==
  ASSUME NavInv, UNCHANGED bar, strayed \subseteq strayed'
  PROVE  BarKept
BY DEF NavInv, BarKept, BarTyped, TabOwnsHistory, bar

LEMMA SelectConversationStep ==
  ASSUME NavInv, NEW c \in AllConversations, SelectConversation(c)
  PROVE  NavInv'
<1>1. /\ Step /\ shown.session # NoId /\ c \in existing /\ c \in ToSet(Conversations[shown.session])
      /\ shown' = [session |-> shown.session, conv |-> c, view |-> shown.view]
      /\ Remember(c, shown.session)
      /\ UNCHANGED <<selectable, existing, pendingNavigate, bar, saved, stacks, strayed>>
  BY DEF SelectConversation, ShowAt
<1>2. /\ shown.session \in Sessions /\ shown.session \in Sessions \cup {NoId} /\ shown.view \in Views
      /\ PlacesTyped
  BY <1>1 DEF NavInv, PlacesTyped, Location
<1>3. SessionOf(c) = shown.session
  BY <1>1, <1>2, Owners
<1>4. shown' \in Location
  BY <1>1, <1>2 DEF Location
<1>5. lastActive' \in [Sessions -> AllConversations \cup {NoId}]
  BY <1>1, <1>2, RememberTyped
<1>6. SelectionFits'
  BY <1>1, <1>3 DEF SelectionFits, Fits
<1>7. Selected
  BY <1>1, <1>4, <1>5, <1>6 DEF Selected
<1>8. PlacesKept
  BY <1>1, <1>2, <1>7, PlacesSelected DEF PlacesTyped
<1>9. BarKept
  BY <1>1, BarLeft
<1>10. HistoryKept
  BY <1>1, StacksLeft DEF NavInv
<1> QED
  BY <1>1, <1>8, <1>9, <1>10, TimePasses, Together

LEMMA RemoveConversationStep ==
  ASSUME NavInv, NEW c \in AllConversations, RemoveConversation(c)
  PROVE  NavInv'
<1> DEFINE s == SessionOf(c)
           before == Only(Conversations[s], existing)
           left == Only(before, existing \ {c})
           i == CHOOSE k \in DOMAIN before : before[k] = c
           near == {1, i - 1, i} \cap DOMAIN left
           next == IF left = <<>> THEN NoId ELSE left[Max(near)]
<1>1. /\ Step /\ c \in existing /\ existing' = existing \ {c}
      /\ shown' = IF shown.conv = c THEN [shown EXCEPT !.conv = next] ELSE shown
      /\ lastActive' = IF lastActive[s] = c THEN [lastActive EXCEPT ![s] = NoId] ELSE lastActive
      /\ UNCHANGED <<selectable, pendingNavigate, bar, saved, stacks, strayed>>
  BY DEF RemoveConversation
<1>2. PlacesTyped /\ selectable \subseteq Sessions /\ existing \subseteq AllConversations
      /\ lastActive \in [Sessions -> AllConversations \cup {NoId}] /\ shown \in Location
  BY DEF NavInv, PlacesTyped
<1>3. s \in Sessions /\ Conversations[s] \in Seq(AllConversations)
  BY Owners
<1> HIDE DEF s, i
<1>4. /\ before \in Seq(AllConversations)
      /\ ToSet(before) = ToSet(Conversations[s]) \cap existing
  BY <1>3, OnlySet
<1> HIDE DEF before
<1>5. /\ left \in Seq(AllConversations) /\ ToSet(left) = ToSet(before) \cap (existing \ {c})
  BY <1>4, OnlySet
<1> HIDE DEF left
<1>6. left # <<>> => left[Max(near)] \in ToSet(left)
  <2> SUFFICES ASSUME left # <<>> PROVE left[Max(near)] \in ToSet(left)
    OBVIOUS
  <2>1. DOMAIN left = 1 .. Len(left) /\ Len(left) \in Nat /\ 1 \in 1 .. Len(left)
        /\ 1 .. Len(left) \subseteq 0 .. Len(left)
    BY <1>5
  <2>2. near \in SUBSET (0 .. Len(left)) /\ near # {} /\ near \subseteq 1 .. Len(left)
    BY <2>1
  <2> HIDE DEF near
  <2>3. Max(near) \in near
    BY <2>1, <2>2, MaxMin
  <2> QED
    BY <1>5, <2>2, <2>3, SetOfList
<1> HIDE DEF near
<1>7. next = NoId \/ (next \in existing \ {c} /\ next \in AllConversations /\ SessionOf(next) = s)
  <2>1. \A d \in ToSet(left) : d \in existing \ {c} /\ d \in AllConversations /\ SessionOf(d) = s
    BY <1>2, <1>3, <1>4, <1>5, Owners
  <2> QED
    BY <1>6, <2>1
<1> HIDE DEF next
<1>8. shown' \in Location
  BY <1>1, <1>2, <1>7 DEF Location
<1>9. lastActive' \in [Sessions -> AllConversations \cup {NoId}]
  BY <1>1, <1>2
<1>10. SelectionFits'
  <2> SUFFICES ASSUME strayed' \cap {"entry", "tab", "late"} = {} PROVE Fits(shown)'
    BY DEF SelectionFits
  <2>1. Fits(shown)
    BY <1>1 DEF NavInv, SelectionFits
  <2>2. CASE shown.conv = c
    <3>1. shown.session = s
      <4>1. c # NoId
        BY NavBounds
      <4> QED
        BY <2>1, <2>2, <4>1 DEF Fits, s
    <3>2. shown'.conv = next /\ shown'.session = s
      BY <1>1, <1>2, <2>2, <3>1 DEF Location
    <3> QED
      BY <1>1, <1>7, <3>2 DEF Fits
  <2>3. CASE shown.conv # c
    BY <1>1, <2>1, <2>3 DEF Fits
  <2> QED
    BY <2>2, <2>3
<1>11. PlacesKept
  <2>1. PlacesTyped'
    BY <1>1, <1>2, <1>8, <1>9 DEF PlacesTyped
  <2> QED
    BY <1>1, <1>10, <2>1 DEF PlacesKept
<1>12. BarKept
  BY <1>1, BarLeft
<1>13. HistoryKept
  BY <1>1, StacksLeft DEF NavInv
<1> QED
  BY <1>1, <1>11, <1>12, <1>13, TimePasses, Together

LEMMA ArchiveSessionStep ==
  ASSUME NavInv, NEW s \in Sessions, ArchiveSession(s)
  PROVE  NavInv'
<1>1. /\ Step /\ selectable' = selectable \ {s}
      /\ UNCHANGED <<existing, lastActive, pendingNavigate, bar, saved, stacks, strayed>>
  BY DEF ArchiveSession
<1>2. PlacesTyped /\ selectable \subseteq Sessions /\ existing \subseteq AllConversations
      /\ shown \in Location
  BY DEF NavInv, PlacesTyped
<1>3. shown' \in Location /\ SelectionFits'
  <2>1. CASE UNCHANGED shown
    BY <1>1, <1>2, <2>1 DEF NavInv, SelectionFits, Fits
  <2>2. ASSUME NEW t \in (IF selectable' = {} THEN {NoId} ELSE selectable'),
               shown' = [shown EXCEPT !.session = t, !.conv = ConversationFor(t, existing)]
        PROVE  shown' \in Location /\ SelectionFits'
    <3> DEFINE c == ConversationFor(t, existing)
    <3>1. t \in Sessions \cup {NoId}
      BY <1>1, <1>2
    <3>2. c = NoId \/ (t \in Sessions /\ c \in existing /\ SessionOf(c) = t)
      BY <1>2, <3>1, Choice
    <3>3. shown' = [shown EXCEPT !.session = t, !.conv = c]
      BY <2>2
    <3> HIDE DEF c
    <3>4. shown'.session = t /\ shown'.conv = c /\ shown' \in Location
      BY <1>2, <3>1, <3>2, <3>3 DEF Location
    <3>5. Fits(shown)'
      BY <1>1, <3>2, <3>4 DEF Fits
    <3> QED
      BY <3>4, <3>5 DEF SelectionFits
  <2> QED
    BY <2>1, <2>2 DEF ArchiveSession
<1>4. PlacesKept
  <2>1. PlacesTyped'
    BY <1>1, <1>2, <1>3 DEF PlacesTyped
  <2> QED
    BY <1>1, <1>3, <2>1 DEF PlacesKept
<1>5. BarKept
  BY <1>1, BarLeft
<1>6. HistoryKept
  BY <1>1, StacksLeft DEF NavInv
<1> QED
  BY <1>1, <1>4, <1>5, <1>6, TimePasses, Together

LEMMA ExecuteStep ==
  ASSUME NavInv, NEW target \in Targets, ExecuteNavigation(target), pendingNavigate' = NoTarget
  PROVE  PlacesKept /\ BarKept /\ HistoryKept
<1>1. PushEntry /\ Visit(target) /\ UNCHANGED <<selectable, existing, bar>>
  BY DEF ExecuteNavigation
<1>2. PlacesTyped /\ activeTab \in TabIds /\ UNCHANGED <<selectable, existing>>
  BY <1>1, ActiveTab DEF NavInv
<1>3. Selected /\ saved' \in [TabIds -> Location]
  BY <1>1, <1>2, VisitStep
<1>4. PlacesKept
  BY <1>2, <1>3, PlacesSelected
<1>5. BarKept
  BY <1>1, <1>3, BarLeft DEF Selected
<1>6. HistoryKept
  BY <1>1, PushEntryStep
<1> QED
  BY <1>4, <1>5, <1>6

LEMMA NavigateStep ==
  ASSUME NavInv, NEW target \in Targets, Navigate(target) \/ DeferNavigate(target)
  PROVE  NavInv'
<1>1. CASE Navigate(target)
  <2>1. Step /\ pendingNavigate' = NoTarget /\ ExecuteNavigation(target)
    BY <1>1 DEF Navigate
  <2> QED
    BY <2>1, ExecuteStep, TimePasses, Together
<1>2. CASE DeferNavigate(target)
  <2>1. Step /\ pendingNavigate' = target
        /\ UNCHANGED <<selectionVars, shown, bar, saved, stacks, strayed>>
    BY <1>2 DEF DeferNavigate
  <2>2. PlacesKept
    BY <2>1, ActiveTab, PlacesLeft
  <2>3. BarKept
    BY <2>1, BarLeft
  <2>4. HistoryKept
    BY <2>1, StacksLeft DEF NavInv
  <2> QED
    BY <2>1, <2>2, <2>3, <2>4, TimePasses, Together
<1> QED
  BY <1>1, <1>2

LEMMA NavigateTimerStep ==
  ASSUME NavInv, NavigateTimer
  PROVE  NavInv'
<1>1. /\ pendingNavigate # NoTarget /\ pendingNavigate' = NoTarget
      /\ ExecuteNavigation(pendingNavigate) /\ UNCHANGED steps
  BY DEF NavigateTimer
<1>2. pendingNavigate \in Targets
  BY <1>1 DEF NavInv, PlacesTyped
<1>3. PlacesKept /\ BarKept /\ HistoryKept
  BY <1>1, <1>2, ExecuteStep
<1> QED
  BY <1>1, <1>3, TimePasses, Together

\* Going back or forward, by the button, by the list or by the menu.
LEMMA WayStep ==
  ASSUME NavInv, HistoryKept, Applied, Step,
         UNCHANGED <<selectable, existing, pendingNavigate, bar>>
  PROVE  NavInv'
<1>1. PlacesTyped /\ activeTab \in TabIds /\ saved \in [TabIds -> Location]
  BY ActiveTab DEF NavInv
<1>2. pendingNavigate' \in Targets \cup {NoTarget}
  BY <1>1 DEF PlacesTyped
<1>3. CASE UNCHANGED <<lastActive, shown, saved, strayed>>
  <2>1. PlacesKept
    BY <1>1, <1>2, <1>3, PlacesLeft DEF selectionVars
  <2>2. BarKept
    BY <1>3, BarLeft
  <2> QED
    BY <2>1, <2>2, TimePasses, Together
<1>4. ASSUME NEW entry \in Entries \cap Location, ApplyEntry(entry) PROVE NavInv'
  <2>1. entry \in Location /\ (Straight => Kin(entry))
    BY DEF NavInv
  <2>2. Selected /\ saved' \in [TabIds -> Location]
    BY <1>1, <1>4, <2>1, ApplyEntryStep
  <2>3. PlacesKept
    BY <1>2, <2>2, PlacesSelected
  <2>4. BarKept
    BY <2>2, BarLeft DEF Selected
  <2> QED
    BY <2>3, <2>4, TimePasses, Together
<1> QED
  BY <1>3, <1>4 DEF Applied

LEMMA HistorySteps ==
  ASSUME NavInv,
         \/ GoBack \/ GoForward \/ MenuBack \/ MenuForward
         \/ \E i \in 1 .. MAX_HISTORY_SIZE : GoToBackEntry(i) \/ GoToForwardEntry(i)
  PROVE  NavInv'
<1>1. CASE GoBack
  <2>1. HistoryKept /\ Applied
    BY <1>1, GoBackHistory DEF Applied
  <2>2. Step /\ UNCHANGED <<selectable, existing, pendingNavigate, bar>>
    BY <1>1 DEF GoBack
  <2> QED
    BY <2>1, <2>2, WayStep
<1>2. CASE GoForward
  <2>1. HistoryKept /\ Applied
    BY <1>2, GoForwardHistory
  <2>2. Step /\ UNCHANGED <<selectable, existing, pendingNavigate, bar>>
    BY <1>2 DEF GoForward
  <2> QED
    BY <2>1, <2>2, WayStep
<1>3. CASE MenuBack \/ MenuForward
  <2>1. HistoryKept
    BY <1>3, MenuHistory
  <2>2. Step /\ UNCHANGED <<selectable, existing, pendingNavigate, bar, lastActive, shown, saved, strayed>>
    BY <1>3 DEF MenuBack, MenuForward, selectionVars
  <2> QED
    BY <2>1, <2>2, WayStep DEF Applied
<1>4. ASSUME NEW i \in 1 .. MAX_HISTORY_SIZE, GoToBackEntry(i) PROVE NavInv'
  <2>1. HistoryKept /\ Applied
    BY <1>4, GoToBackHistory
  <2>2. Step /\ UNCHANGED <<selectable, existing, pendingNavigate, bar>>
    BY <1>4 DEF GoToBackEntry
  <2> QED
    BY <2>1, <2>2, WayStep
<1>5. ASSUME NEW i \in 1 .. MAX_HISTORY_SIZE, GoToForwardEntry(i) PROVE NavInv'
  <2>1. HistoryKept /\ Applied
    BY <1>5, GoToForwardHistory
  <2>2. Step /\ UNCHANGED <<selectable, existing, pendingNavigate, bar>>
    BY <1>5 DEF GoToForwardEntry
  <2> QED
    BY <2>1, <2>2, WayStep
<1> QED
  BY <1>1, <1>2, <1>3, <1>4, <1>5

LEMMA SwitchToTabStep ==
  ASSUME NavInv, NEW t \in TabIds, SwitchToTab(t)
  PROVE  NavInv'
<1>1. /\ Step /\ t \in ToSet(tabOrder)
      /\ saved' = [saved EXCEPT ![activeTab] = shown]
      /\ activeTab' = t /\ historyTab' = t /\ ApplyTabState(saved[t])
      /\ UNCHANGED <<selectable, existing, pendingNavigate, tabOrder, ids, stacks>>
  BY DEF SwitchToTab
<1>2. /\ PlacesTyped /\ BarTyped /\ saved \in [TabIds -> Location] /\ shown \in Location
      /\ saved[t] \in Location
  BY ActiveTab DEF NavInv
<1>3. Selected
  BY <1>1, <1>2, ApplyTabStep
<1>4. PlacesKept
  <2>1. saved' \in [TabIds -> Location] /\ pendingNavigate' \in Targets \cup {NoTarget}
    BY <1>1, <1>2 DEF PlacesTyped
  <2> QED
    BY <1>1, <1>3, <2>1, PlacesSelected
<1>5. BarKept
  BY <1>1, <1>2 DEF BarKept, BarTyped, TabOwnsHistory
<1>6. HistoryKept
  BY <1>1, StacksLeft DEF NavInv
<1> QED
  BY <1>1, <1>4, <1>5, <1>6, TimePasses, Together

LEMMA OpenTabStep ==
  ASSUME NavInv,
         NewTab \/ (\E target \in Targets : OpenInNewTab(target)) \/ \E t \in TabIds : DuplicateTab(t)
  PROVE  NavInv'
<1>1. /\ PlacesTyped /\ BarTyped /\ activeTab \in ToSet(tabOrder) /\ shown \in Location
      /\ saved \in [TabIds -> Location] /\ \A t \in TabIds : saved[t] \in Location
  BY ActiveTab DEF NavInv
<1>2. ASSUME Step, RoomForTab, NEW t \in ToSet(tabOrder), tabOrder' = After(t, ids + 1),
             ids' = ids + 1, activeTab' = ids + 1, historyTab' = ids + 1, UNCHANGED stacks,
             PlacesKept
      PROVE  NavInv'
  <2>1. BarKept
    BY <1>1, <1>2, BarOpens DEF BarKept, TabOwnsHistory
  <2>2. HistoryKept
    BY <1>2, StacksLeft DEF NavInv
  <2> QED
    BY <1>2, <2>1, <2>2, TimePasses, Together
<1>3. CASE NewTab
  <2>1. /\ Step /\ RoomForTab /\ ids' = ids + 1 /\ tabOrder' = After(activeTab, ids + 1)
        /\ activeTab' = ids + 1 /\ historyTab' = ids + 1
        /\ saved' = [saved EXCEPT ![activeTab] = shown, ![ids + 1] = shown]
        /\ UNCHANGED <<selectionVars, shown, pendingNavigate, stacks, strayed>>
    BY <1>3 DEF NewTab
  <2>2. saved' \in [TabIds -> Location] /\ pendingNavigate' \in Targets \cup {NoTarget}
    BY <1>1, <2>1 DEF PlacesTyped
  <2>3. PlacesKept
    BY <2>1, <2>2, PlacesLeft
  <2> QED
    BY <1>1, <1>2, <2>1, <2>3
<1>4. ASSUME NEW target \in Targets, OpenInNewTab(target) PROVE NavInv'
  <2> DEFINE kept == [session |-> IF target.session = Absent THEN NoId ELSE target.session,
                      conv |-> IF target.conv = Absent THEN NoId ELSE target.conv,
                      view |-> target.view]
  <2>1. /\ Step /\ RoomForTab /\ ids' = ids + 1 /\ tabOrder' = After(activeTab, ids + 1)
        /\ activeTab' = ids + 1 /\ historyTab' = ids + 1
        /\ saved' = [saved EXCEPT ![ids + 1] = kept]
        /\ UNCHANGED <<selectionVars, shown, pendingNavigate, stacks, strayed>>
    BY <1>4 DEF OpenInNewTab
  <2>2. kept \in Location
    <3>1. /\ target.session \in Sessions \cup {NoId, Absent}
          /\ target.conv \in AllConversations \cup {Absent} /\ target.view \in Views
      BY Owners, NavBounds DEF Targets, Views
    <3> QED
      BY <3>1 DEF Location
  <2> HIDE DEF kept
  <2>3. saved' \in [TabIds -> Location] /\ pendingNavigate' \in Targets \cup {NoTarget}
    BY <1>1, <2>1, <2>2 DEF PlacesTyped
  <2>4. PlacesKept
    BY <2>1, <2>3, PlacesLeft
  <2> QED
    BY <1>1, <1>2, <2>1, <2>4
<1>5. ASSUME NEW t \in TabIds, DuplicateTab(t) PROVE NavInv'
  <2>1. /\ Step /\ RoomForTab /\ ids' = ids + 1 /\ t \in ToSet(tabOrder)
        /\ tabOrder' = After(t, ids + 1)
        /\ saved' = [saved EXCEPT ![activeTab] = shown, ![ids + 1] = saved[t]]
        /\ activeTab' = ids + 1 /\ historyTab' = ids + 1
        /\ ApplyTabState(saved[t])
        /\ UNCHANGED <<selectable, existing, pendingNavigate, stacks>>
    BY <1>5 DEF DuplicateTab
  <2>2. saved' \in [TabIds -> Location] /\ pendingNavigate' \in Targets \cup {NoTarget}
    BY <1>1, <2>1 DEF PlacesTyped
  <2>3. saved[t] \in Location
    BY <1>1
  <2>4. Selected
    BY <1>1, <2>1, <2>3, ApplyTabStep
  <2>5. PlacesKept
    BY <2>1, <2>2, <2>4, PlacesSelected
  <2> QED
    BY <1>2, <2>1, <2>5
<1> QED
  BY <1>3, <1>4, <1>5

LEMMA CloseTabStep ==
  ASSUME NavInv, NEW t \in TabIds, CloseTab(t)
  PROVE  NavInv'
<1>1. /\ Step /\ t \in ToSet(tabOrder) /\ Len(tabOrder) > 1 /\ tabOrder' = TabsWithout(t)
      /\ UNCHANGED <<selectable, existing, pendingNavigate, saved, ids, stacks>>
  BY DEF CloseTab
<1>2. /\ PlacesTyped /\ BarTyped /\ saved \in [TabIds -> Location]
      /\ \A r \in TabIds : saved[r] \in Location
      /\ activeTab \in ToSet(tabOrder) /\ ToSet(tabOrder) \subseteq TabIds /\ TabOwnsHistory
      /\ historyTab \in TabIds
  BY ActiveTab DEF NavInv, BarTyped
<1>3. /\ ToSet(TabsWithout(t)) = ToSet(tabOrder) \ {t}
      /\ Neighbour(t) \in ToSet(TabsWithout(t))
  BY <1>1, <1>2, BarCloses
<1>4. saved' \in [TabIds -> Location] /\ pendingNavigate' \in Targets \cup {NoTarget}
  BY <1>1, <1>2 DEF PlacesTyped
<1>5. HistoryKept
  BY <1>1, StacksLeft DEF NavInv
<1>6. CASE t = activeTab
  <2>1. activeTab' = Neighbour(t) /\ historyTab' = activeTab' /\ ApplyTabState(saved[activeTab'])
    BY <1>6 DEF CloseTab
  <2>2. activeTab' \in ToSet(tabOrder') /\ activeTab' \in TabIds
    BY <1>1, <1>2, <1>3, <2>1
  <2>3. Selected
    <3>1. saved[activeTab'] \in Location
      BY <1>2, <2>2
    <3> QED
      BY <1>1, <1>2, <2>1, <3>1, ApplyTabStep
  <2>4. PlacesKept
    BY <1>1, <1>4, <2>3, PlacesSelected
  <2>5. BarTyped'
    BY <1>1, <1>2, <2>1, <2>2, BarShrinks
  <2>6. BarKept
    BY <2>1, <2>5 DEF BarKept, TabOwnsHistory
  <2> QED
    BY <1>1, <1>5, <2>4, <2>6, TimePasses, Together
<1>7. CASE t # activeTab
  <2>1. UNCHANGED <<activeTab, historyTab, lastActive, shown, strayed>>
    BY <1>7 DEF CloseTab
  <2>2. activeTab' \in ToSet(tabOrder') /\ historyTab' \in TabIds
    BY <1>1, <1>2, <1>3, <1>7, <2>1
  <2>3. PlacesKept
    BY <1>1, <1>4, <2>1, PlacesLeft DEF selectionVars
  <2>4. BarTyped'
    BY <1>1, <1>2, <2>2, BarShrinks
  <2>5. BarKept
    BY <1>2, <2>1, <2>4 DEF BarKept, TabOwnsHistory
  <2> QED
    BY <1>1, <1>5, <2>3, <2>5, TimePasses, Together
<1> QED
  BY <1>6, <1>7

LEMMA MenuCloseTabStep ==
  ASSUME NavInv, MenuCloseTab
  PROVE  NavInv'
<1>1. /\ Step /\ Len(tabOrder) > 1 /\ tabOrder' = TabsWithout(activeTab)
      /\ activeTab' = Neighbour(activeTab) /\ strayed' = strayed \cup {"menu"}
      /\ UNCHANGED <<selectionVars, shown, pendingNavigate, saved, ids, historyTab, stacks>>
  BY DEF MenuCloseTab, Stray
<1>2. /\ PlacesTyped /\ BarTyped /\ saved \in [TabIds -> Location]
      /\ activeTab \in ToSet(tabOrder) /\ historyTab \in TabIds
  BY ActiveTab DEF NavInv, BarTyped
<1>3. activeTab' \in ToSet(tabOrder') /\ historyTab' \in TabIds
  BY <1>1, <1>2, BarCloses
<1>4. saved' \in [TabIds -> Location] /\ pendingNavigate' \in Targets \cup {NoTarget}
  BY <1>1, <1>2 DEF PlacesTyped
<1>5. PlacesKept
  BY <1>1, <1>4, PlacesLeft
<1>6. BarTyped'
  BY <1>1, <1>2, <1>3, BarShrinks
<1>7. BarKept
  BY <1>1, <1>6 DEF BarKept, TabOwnsHistory
<1>8. HistoryKept
  BY <1>1, StacksLeft DEF NavInv
<1> QED
  BY <1>1, <1>5, <1>7, <1>8, TimePasses, Together

LEMMA NavInvInit ==
  NavInit => NavInv
<1> SUFFICES ASSUME NavInit PROVE NavInv
  OBVIOUS
<1>1. /\ selectable = Sessions /\ existing = AllConversations
      /\ lastActive = [s \in Sessions |-> NoId]
      /\ shown = Start /\ pendingNavigate = NoTarget
      /\ tabOrder = <<1>> /\ activeTab = 1 /\ ids = 1 /\ historyTab = 1
      /\ saved = [t \in TabIds |-> Start]
      /\ backStack = NoHistory /\ forwardStack = NoHistory
      /\ past = NoHistory /\ future = NoHistory
      /\ scrambled = {} /\ strayed = {} /\ steps = 0
  BY DEF NavInit
<1>2. Start \in Location
  BY DEF Start, Location, Views
<1>3. PlacesTyped
  BY <1>1, <1>2 DEF PlacesTyped
<1>4. BarTyped
  <2>1. <<1>> \in Seq(TabIds) /\ ToSet(<<1>>) = {1}
    BY NavBounds, Members
  <2>2. IsInjective(<<1>>) /\ Len(<<1>>) = 1
    BY DEF IsInjective
  <2>3. 1 \in 1 .. MAX_TABS /\ 1 \in 1 .. 1 /\ 1 \in TabIds
    BY NavBounds
  <2> QED
    BY <1>1, <2>1, <2>2, <2>3 DEF BarTyped
<1>5. \A t \in TabIds : /\ backStack[t] = <<>> /\ forwardStack[t] = <<>>
                        /\ past[t] = <<>> /\ future[t] = <<>>
  BY <1>1 DEF NoHistory
<1>6. StacksTyped
  <2>1. NoHistory \in [TabIds -> Seq(Location)]
    BY EmptySeq DEF NoHistory
  <2>2. 0 + 0 <= MAX_HISTORY_SIZE /\ Len(<<>>) = 0
    BY NavBounds
  <2> QED
    BY <1>1, <1>5, <2>1, <2>2 DEF StacksTyped
<1>7. HistoryIsABrowsers
  BY <1>5, Turned DEF HistoryIsABrowsers
<1>8. Entries = {}
  BY <1>5, Members DEF Entries
<1>9. SelectionFits /\ TabOwnsHistory
  BY <1>1 DEF SelectionFits, Fits, Start, TabOwnsHistory
<1>10. steps \in 0 .. MaxSteps
  BY <1>1, NavBounds
<1> QED
  BY <1>3, <1>4, <1>6, <1>7, <1>8, <1>9, <1>10 DEF NavInv

LEMMA NavInvStep == NavInv /\ [NavNext]_navVars => NavInv'
<1> SUFFICES ASSUME NavInv, [NavNext]_navVars PROVE NavInv'
  OBVIOUS
<1>1. CASE UNCHANGED navVars
  <2>1. /\ UNCHANGED <<selectionVars, shown, pendingNavigate, bar, saved, stacks, strayed, steps>>
    BY <1>1 DEF navVars
  <2>2. PlacesKept
    BY <2>1, PlacesLeft DEF NavInv, PlacesTyped
  <2>3. BarKept
    BY <2>1, BarLeft
  <2>4. HistoryKept
    BY <2>1, StacksLeft DEF NavInv
  <2> QED
    BY <2>1, <2>2, <2>3, <2>4, TimePasses, Together
<1>2. ASSUME NEW c \in AllConversations, SelectConversation(c) PROVE NavInv'
  BY <1>2, SelectConversationStep
<1>3. ASSUME NEW c \in AllConversations, RemoveConversation(c) PROVE NavInv'
  BY <1>3, RemoveConversationStep
<1>4. ASSUME NEW s \in Sessions, ArchiveSession(s) PROVE NavInv'
  BY <1>4, ArchiveSessionStep
<1>5. ASSUME NEW target \in Targets, Navigate(target) \/ DeferNavigate(target) PROVE NavInv'
  BY <1>5, NavigateStep
<1>6. CASE NavigateTimer
  BY <1>6, NavigateTimerStep
<1>7. CASE GoBack \/ GoForward \/ MenuBack \/ MenuForward
  BY <1>7, HistorySteps
<1>8. CASE \E i \in 1 .. MAX_HISTORY_SIZE : GoToBackEntry(i) \/ GoToForwardEntry(i)
  BY <1>8, HistorySteps
<1>9. ASSUME NEW t \in TabIds, SwitchToTab(t) PROVE NavInv'
  BY <1>9, SwitchToTabStep
<1>10. CASE NewTab \/ (\E target \in Targets : OpenInNewTab(target)) \/ \E t \in TabIds : DuplicateTab(t)
  BY <1>10, OpenTabStep
<1>11. ASSUME NEW t \in TabIds, CloseTab(t) PROVE NavInv'
  BY <1>11, CloseTabStep
<1>12. CASE MenuCloseTab
  BY <1>12, MenuCloseTabStep
<1> QED
  BY <1>1, <1>2, <1>3, <1>4, <1>5, <1>6, <1>7, <1>8, <1>9, <1>10, <1>11, <1>12 DEF NavNext

\* What the other claims about navigation rest on, after every step.
THEOREM NavInvariant == NavSpec => []NavInv
BY NavInvInit, NavInvStep, PTL DEF NavSpec

\* Locations, the tab bar and the stacks stay well formed: the tabs of the bar differ and
\* are as many as the limit allows, the active tab is one of them, and the two stacks of a
\* tab hold no more than MAX_HISTORY_SIZE entries together (navigationStore.ts, tabStore.ts).
THEOREM NavTypeOKHolds == NavSpec => []NavTypeOK
<1>1. NavInv => NavTypeOK
  BY DEF NavInv, PlacesTyped, BarTyped, StacksTyped, NavTypeOK
<1> QED
  BY NavInvariant, <1>1, PTL

\* Back leads where the user came from and forward undoes it (goBack, goForward, the jumps
\* and pushEntry of navigationStore.ts), in every tab whose stacks were not scrambled.
THEOREM HistoryIsABrowsersHolds == NavSpec => []HistoryIsABrowsers
<1>1. NavInv => HistoryIsABrowsers
  BY DEF NavInv
<1> QED
  BY NavInvariant, <1>1, PTL

\* The conversation on the screen exists and is of the session on the screen, and the
\* history in use is the active tab's, except in the ways strayed names (appStore.ts,
\* BrowserTabBar.tsx).
THEOREM SelectionConsistentHolds == NavSpec => []SelectionConsistent
<1>1. NavInv => SelectionConsistent
  BY DEF NavInv, SelectionConsistent
<1> QED
  BY NavInvariant, <1>1, PTL
=============================================================================
