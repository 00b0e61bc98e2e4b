------------------------ MODULE TurnPersistenceProofs ------------------------
(***************************************************************************)
(* Proofs about TurnPersistence for any number of messages, backends and   *)
(* crashes: messages and answers are stored once and in order, an          *)
(* acknowledged message is kept, and what has become durable stays so.     *)
(***************************************************************************)
EXTENDS TurnPersistence, SequenceTheorems, FiniteSetTheorems, TLAPS

AnswerRows(m) == Rows("assistant", m) \cup Rows("recovered", m)

(* Events of the output of b that are not the end of a turn.               *)
Open(b, i) == output[b][i][1] # "end"

(* A turn has at most MaxText events before its end: those from the i-th   *)
(* to the j-th in the output, if none of them is an end, and those of the  *)
(* same turn that the handler has seen; an agent counts what it says.      *)
Block(b, i, j) == i <= j /\ \A k \in i..j : Open(b, k)
Handled(b)     == IF handler[b] = "loop" THEN text[b].len ELSE 0
Ahead(b, i)    == IF i = 1 THEN Handled(b) ELSE 0

RoomAt(b) ==
    /\ \A i, j \in 1..Len(output[b]) : Block(b, i, j) =>
         /\ Ahead(b, i) + (j + 1 - i) <= MaxText
         /\ alive[b] /\ j = Len(output[b]) => Ahead(b, i) + (j + 1 - i) <= said[b]
    /\ alive[b] /\ output[b] = <<>> => Handled(b) <= said[b]

Room == \A b \in Backends : RoomAt(b)

(* A text knows its turn unless it is empty.                               *)
Shape(t) == t.turn = None <=> t.len = 0

(* Backends are numbered in the order of their start; one that is not      *)
(* started yet is nowhere mentioned.                                       *)
Fresh ==
    /\ current <= started /\ \A m \in Messages : target[m] <= started
    /\ \A b \in Backends : b > started =>
         handler[b] = "none" /\ ~alive[b] /\ output[b] = <<>>

(* What a handler holds at each of its places.                             *)
Holding ==
    /\ Shape(snapshot)
    /\ \A b \in Backends :
         /\ Shape(text[b])
         /\ handler[b] \notin {"loop", "store", "final"} => text[b].len = 0
         /\ taken[b] # None => handler[b] \in {"store", "final"}
         /\ pending[b] # None => active[b]
         /\ active[b] => handler[b] = "loop"
         /\ ~alive[b] => inbox[b] = <<>>

(* Nothing runs while the application is down.                             *)
AllDown ==
    app \in {"down", "convert", "clear"} =>
        /\ \A b \in Backends : handler[b] \in {"none", "ended"} /\ ~alive[b]
        /\ \A m \in Messages : send[m] \notin {"decide", "store", "deliver"}

(* Message m, or its answer, is somewhere on its way through backend b.    *)
HasTurn(out, m)   == \E i \in 1..Len(out) : out[i][2] = m
HasMessage(in, m) == \E i \in 1..Len(in) : in[i] = m
At(b, m) == text[b].turn = m \/ HasTurn(output[b], m) \/ HasMessage(inbox[b], m)

(* The turn at the front of an output and an inbox.                        *)
FrontTurn(out, in) == IF out # <<>> THEN Head(out)[2]
                      ELSE IF in # <<>> THEN Head(in) ELSE None
Turn(b) == FrontTurn(output[b], inbox[b])

(* The events of a turn are together, its end is the last of them, and     *)
(* the turn that an agent has not ended is that of its first message.      *)
IsEnd(e) == e[1] = "end"

Pipe(out, in, live) ==
    /\ \A i \in 1..Len(out) - 1 : ~IsEnd(out[i]) => out[i + 1][2] = out[i][2]
    /\ \A i, j \in 1..Len(out) : i < j /\ IsEnd(out[i]) => out[j][2] # out[i][2]
    /\ \A i \in 1..Len(out) : IsEnd(out[i]) => ~HasMessage(in, out[i][2])
    /\ \A i, j \in 1..Len(in) : i # j => in[i] # in[j]
    /\ live /\ out # <<>> /\ ~IsEnd(out[Len(out)]) =>
         in # <<>> /\ Head(in) = out[Len(out)][2]

(* What has been handled of a turn is followed by the rest of it, and a    *)
(* deferred message belongs to a later turn.                               *)
Pace(b) ==
    /\ active[b] /\ alive[b] => output[b] # <<>> \/ inbox[b] # <<>>
    /\ handler[b] = "loop" /\ text[b].turn # None =>
         active[b] /\ (Turn(b) = text[b].turn \/ (~alive[b] /\ Turn(b) = None))
    /\ handler[b] = "store" /\ text[b].turn # None =>
         ~HasTurn(output[b], text[b].turn) /\ ~HasMessage(inbox[b], text[b].turn)
    /\ pending[b] # None => pending[b] # text[b].turn /\ pending[b] # Turn(b)
    /\ taken[b] # None => taken[b] # text[b].turn

Order == \A b \in Backends : Pipe(output[b], inbox[b], alive[b]) /\ Pace(b)

Deferred(b, m) == m \in {pending[b], taken[b]}

(* How far a message has come when its sender is where it is.              *)
Sent ==
    \A m \in Messages :
        /\ send[m] \in {"decide", "store", "deliver"} => target[m] \in Backends
        /\ send[m] # "acked" =>
             /\ snapshot.turn # m /\ AnswerRows(m) = {}
             /\ \A b \in Backends : ~At(b, m)
        /\ send[m] \in {"new", "decide", "store"} =>
             /\ Rows("user", m) = {}
             /\ \A b \in Backends : ~Deferred(b, m)

(* A message passes through one backend, and the deferred one is there.    *)
OneBackend ==
    \A m \in Messages, b, c \in Backends :
        /\ At(b, m) /\ At(c, m) => b = c
        /\ Deferred(b, m) /\ At(c, m) => b = c
        /\ Deferred(b, m) /\ Deferred(c, m) => b = c
        /\ Deferred(b, m) /\ send[m] = "deliver" => target[m] = b

(* A deferred message is not stored yet, nor is any of its answer.         *)
NotYetStored ==
    \A m \in Messages, b \in Backends :
        Deferred(b, m) => Rows("user", m) = {} /\ AnswerRows(m) = {}

(* Once an answer is stored no handler that still reads comes across it.   *)
AnswerIsOver ==
    \A m \in Messages : Rows("assistant", m) # {} =>
        \A b \in Backends :
            /\ text[b].turn # m
            /\ handler[b] \in {"loop", "store", "clear"} => ~At(b, m)

SendIsKept ==
    \A m \in Messages : send[m] \in {"deliver", "acked"} =>
        \/ Rows("user", m) # {} \/ m \in excused
        \/ \E b \in Backends : Deferred(b, m)

(* What the snapshot holds is also in a handler or in the log.             *)
Covered ==
    /\ app = "up" /\ snapshot.turn # None /\ snapshot.turn \notin missed =>
         \/ \E b \in Backends : text[b].turn = snapshot.turn /\ text[b].len >= snapshot.len
         \/ \E i \in AnswerRows(snapshot.turn) : log[i].len >= snapshot.len
    /\ app = "clear" /\ snapshot.turn # None =>
         \E i \in AnswerRows(snapshot.turn) : log[i].len >= snapshot.len

(* StoredOnce without counting.                                            *)
StoredAtOne ==
    \A m \in Messages, role \in {"user", "assistant"} :
        \A i, j \in Rows(role, m) : i = j

IInv ==
    /\ TypeOK /\ Room /\ Fresh /\ Holding /\ AllDown
    /\ Order /\ Sent /\ OneBackend /\ NotYetStored /\ AnswerIsOver
    /\ SendIsKept /\ Covered /\ StoredAtOne /\ UserBeforeAnswer
-----------------------------------------------------------------------------
(* Messages and backends are numbered from 1; None is no number of theirs. *)
LEMMA Numbers ==
    /\ Messages \subseteq Nat \ {0} /\ Backends \subseteq Nat \ {0}
    /\ None = 0 /\ None \notin Messages /\ None \notin Backends
    /\ MaxText \in Nat /\ MaxBackends \in Nat /\ MaxMessages \in Nat
    /\ NoText \in Text
  BY BoundsAssumption DEF Messages, Backends, None, NoText, Text

(* Sequences by position.                                                  *)
LEMMA HeadAndTail ==
  ASSUME NEW S, NEW s \in Seq(S), s # <<>>
  PROVE  /\ Tail(s) \in Seq(S) /\ Len(s) \in Nat \ {0} /\ Len(Tail(s)) = Len(s) - 1
         /\ Head(s) = s[1] /\ Head(s) \in S
         /\ \A i \in 1..(Len(s) - 1) : Tail(s)[i] = s[i + 1]
         /\ Tail(s) = <<>> <=> Len(s) = 1
         /\ Tail(s) # <<>> => Head(Tail(s)) = s[2]
<1>1. /\ Tail(s) \in Seq(S) /\ Len(s) \in Nat \ {0} /\ Len(Tail(s)) = Len(s) - 1
      /\ Head(s) = s[1] /\ Head(s) \in S
  OBVIOUS
<1>2. \A i \in 1..(Len(s) - 1) : Tail(s)[i] = s[i + 1]
  BY <1>1
<1>3. Tail(s) = <<>> <=> Len(Tail(s)) = 0
  BY <1>1, EmptySeq
<1>4. Tail(s) # <<>> => Head(Tail(s)) = s[2]
  <2> SUFFICES ASSUME Tail(s) # <<>> PROVE Head(Tail(s)) = s[2]
    OBVIOUS
  <2>1. Head(Tail(s)) = Tail(s)[1] /\ 1 \in 1..(Len(s) - 1)
    BY <1>1, <1>3
  <2> QED
    BY <1>2, <2>1
<1> QED
  BY <1>1, <1>2, <1>3, <1>4

LEMMA Appended ==
  ASSUME NEW S, NEW s \in Seq(S), NEW e \in S
  PROVE  /\ Append(s, e) \in Seq(S) /\ Len(s) \in Nat /\ Len(Append(s, e)) = Len(s) + 1
         /\ \A i \in 1..Len(s) : Append(s, e)[i] = s[i]
         /\ Append(s, e)[Len(s) + 1] = e /\ Append(s, e) # <<>>
         /\ s = <<>> <=> Len(s) = 0
         /\ s # <<>> => Head(Append(s, e)) = Head(s)
         /\ s = <<>> => Head(Append(s, e)) = e
<1>1. /\ Append(s, e) \in Seq(S) /\ Len(s) \in Nat /\ Len(Append(s, e)) = Len(s) + 1
      /\ \A i \in 1..Len(s) : Append(s, e)[i] = s[i]
      /\ Append(s, e)[Len(s) + 1] = e
  OBVIOUS
<1>2. s = <<>> <=> Len(s) = 0
  BY EmptySeq
<1>3. Append(s, e) # <<>>
  BY <1>1, EmptySeq
<1>4. Head(Append(s, e)) = Append(s, e)[1]
  BY <1>1, <1>3
<1>5. s # <<>> => Head(s) = s[1] /\ 1 \in 1..Len(s)
  BY <1>1, <1>2
<1> QED
  BY <1>1, <1>2, <1>3, <1>4, <1>5

LEMMA AtMostOne == ASSUME NEW S, \A x, y \in S : x = y PROVE Cardinality(S) <= 1
<1>1. CASE S = {}
  BY <1>1, FS_EmptySet
<1>2. CASE S # {}
  <2>1. PICK x : S = {x}
    BY <1>2
  <2> QED
    BY <2>1, FS_Singleton
<1> QED
  BY <1>1, <1>2

LEMMA InitInv == Init => IInv
<1> SUFFICES ASSUME Init PROVE IInv
  OBVIOUS
<1> USE Numbers DEF Init, FreshBackends
<1>1. TypeOK
  <2>1. 0 \in 0..MaxDowns /\ 0 \in 0..MaxBackends /\ 0 \in 0..MaxText
    BY BoundsAssumption, Numbers
  <2>2. /\ log \in Seq(Row)
        /\ inbox \in [Backends -> Seq(Messages)] /\ output \in [Backends -> Seq(Event)]
    OBVIOUS
  <2>3. /\ alive \in [Backends -> BOOLEAN] /\ active \in [Backends -> BOOLEAN]
        /\ said \in [Backends -> 0..MaxText] /\ text \in [Backends -> Text]
        /\ dirty \in [Backends -> BOOLEAN]
    BY <2>1
  <2>4. /\ pending \in [Backends -> Messages \cup {None}]
        /\ taken \in [Backends -> Messages \cup {None}]
        /\ target \in [Messages -> Backends \cup {None}]
        /\ current \in Backends \cup {None}
    OBVIOUS
  <2> QED
    BY <2>1, <2>2, <2>3, <2>4 DEF TypeOK
<1>2. Room
  BY DEF Room, RoomAt, Handled, NoText
<1>3. Fresh /\ Holding /\ AllDown
  BY DEF Fresh, Holding, AllDown, Shape, NoText, Backends
<1>4. \A r, m : Rows(r, m) = {}
  BY DEF Rows
<1>5. \A b \in Backends, m \in Messages : ~At(b, m) /\ ~Deferred(b, m)
  BY DEF At, HasTurn, HasMessage, Deferred, NoText
<1>6. Order
  BY DEF Order, Pipe, Pace, NoText, Turn, FrontTurn, HasTurn, HasMessage
<1>7. Sent /\ OneBackend /\ NotYetStored /\ AnswerIsOver /\ SendIsKept
  BY <1>4, <1>5
  DEF Sent, OneBackend, NotYetStored, AnswerIsOver, SendIsKept, AnswerRows, NoText
<1>8. Covered
  BY DEF Covered, NoText
<1>9. StoredAtOne /\ UserBeforeAnswer
  BY <1>4 DEF StoredAtOne, UserBeforeAnswer
<1> QED
  BY <1>1, <1>2, <1>3, <1>6, <1>7, <1>8, <1>9 DEF IInv
-----------------------------------------------------------------------------
USE DEF dbVars, agentVars, turnVars, localVars, sendVars, mapVars, histVars

(* What StoreTurn and FinalStore append is the answer, if there is any,    *)
(* followed by the deferred message, if there is one.                      *)
LEMMA RowsToAppend ==
  ASSUME TypeOK, Holding, NEW b \in Backends
  PROVE  /\ TurnRows(b) \in Seq(Row)
         /\ text[b].len > 0 => TextRow("assistant", text[b]) \in Row
         /\ taken[b] # None => UserRow(taken[b]) \in Row
         /\ Len(TurnRows(b)) = (IF text[b].len > 0 THEN 1 ELSE 0)
                               + (IF taken[b] # None THEN 1 ELSE 0)
         /\ text[b].len > 0 => TurnRows(b)[1] = TextRow("assistant", text[b])
         /\ taken[b] # None => TurnRows(b)[Len(TurnRows(b))] = UserRow(taken[b])
<1>1. text[b] \in Text /\ taken[b] \in Messages \cup {None}
  BY DEF TypeOK
<1>2. text[b].len > 0 => TextRow("assistant", text[b]) \in Row
  BY <1>1, Numbers DEF Text, TextRow, Row
<1>3. taken[b] # None => UserRow(taken[b]) \in Row
  BY <1>1, Numbers DEF UserRow, Row
<1> DEFINE T == TextRow("assistant", text[b])
           U == UserRow(taken[b])
<1>4. \/ text[b].len > 0 /\ taken[b] # None /\ TurnRows(b) = <<T>> \o <<U>>
      \/ text[b].len > 0 /\ taken[b] = None /\ TurnRows(b) = <<T>> \o <<>>
      \/ ~(text[b].len > 0) /\ taken[b] # None /\ TurnRows(b) = <<>> \o <<U>>
      \/ ~(text[b].len > 0) /\ taken[b] = None /\ TurnRows(b) = <<>> \o <<>>
  BY DEF TurnRows
<1> HIDE DEF T, U
<1>5. /\ text[b].len > 0 => T \in Row
      /\ taken[b] # None => U \in Row
  BY <1>2, <1>3 DEF T, U
<1>6. /\ TurnRows(b) \in Seq(Row)
      /\ Len(TurnRows(b)) = (IF text[b].len > 0 THEN 1 ELSE 0)
                               + (IF taken[b] # None THEN 1 ELSE 0)
      /\ text[b].len > 0 => TurnRows(b)[1] = T
      /\ taken[b] # None => TurnRows(b)[Len(TurnRows(b))] = U
  <2>1. CASE text[b].len > 0 /\ taken[b] # None
    <3>1. /\ TurnRows(b) = <<T>> \o <<U>>
          /\ <<T>> \in Seq(Row) /\ <<U>> \in Seq(Row)
      BY <1>4, <1>5, <2>1
    <3>2. /\ TurnRows(b) \in Seq(Row) /\ Len(TurnRows(b)) = 2
          /\ TurnRows(b)[1] = T /\ TurnRows(b)[2] = U
      BY <3>1
    <3> QED
      BY <2>1, <3>2
  <2>2. CASE text[b].len > 0 /\ taken[b] = None
    <3>1. TurnRows(b) = <<T>> /\ T \in Row
      BY <1>4, <1>5, <2>2
    <3> QED
      BY <2>2, <3>1
  <2>3. CASE ~(text[b].len > 0) /\ taken[b] # None
    <3>1. TurnRows(b) = <<U>> /\ U \in Row
      BY <1>4, <1>5, <2>3
    <3> QED
      BY <2>3, <3>1
  <2>4. CASE ~(text[b].len > 0) /\ taken[b] = None
    <3>1. TurnRows(b) = <<>>
      BY <1>4, <2>4
    <3> QED
      BY <2>4, <3>1
  <2> QED
    BY <2>1, <2>2, <2>3, <2>4
<1> QED
  BY <1>2, <1>3, <1>6 DEF T, U

(* The rows that were there stay, and one answer and one message are new.  *)
LEMMA TurnIsStored ==
  ASSUME TypeOK, Holding, NEW b \in Backends, log' = log \o TurnRows(b)
  PROVE  /\ log' \in Seq(Row)
         /\ \A i \in DOMAIN log : i \in DOMAIN log' /\ log'[i] = log[i]
         /\ \A m \in Messages :
              /\ Rows("assistant", m)' =
                   Rows("assistant", m)
                   \cup (IF text[b].turn = m THEN {Len(log) + 1} ELSE {})
              /\ Rows("user", m)' =
                   Rows("user", m) \cup (IF taken[b] = m THEN {Len(log')} ELSE {})
              /\ Rows("recovered", m)' = Rows("recovered", m)
         /\ text[b].turn # None => log'[Len(log) + 1].len = text[b].len
<1>1. TurnRows(b) \in Seq(Row) /\ log \in Seq(Row)
  BY RowsToAppend DEF TypeOK
<1> DEFINE k == Len(TurnRows(b))
<1>2. /\ log' \in Seq(Row) /\ k \in Nat /\ Len(log) \in Nat
      /\ DOMAIN log' = 1..(Len(log) + k) /\ Len(log') = Len(log) + k
      /\ \A i \in 1..Len(log) : log'[i] = log[i]
      /\ \A i \in 1..k : log'[Len(log) + i] = TurnRows(b)[i]
      /\ DOMAIN log = 1..Len(log)
  BY <1>1
<1>3. \A m \in Messages :
        /\ text[b].turn = m => text[b].len > 0
        /\ text[b].turn # m /\ text[b].len > 0 =>
             TextRow("assistant", text[b]).turn # m
        /\ taken[b] = m => taken[b] # None
  BY Numbers DEF TextRow, Holding, Shape, TypeOK, Text
<1>4. /\ text[b].turn # None => text[b].len > 0
      /\ text[b].len > 0 =>
           /\ k >= 1 /\ log'[Len(log) + 1].role = "assistant"
           /\ log'[Len(log) + 1].turn = text[b].turn
           /\ log'[Len(log) + 1].len = text[b].len
      /\ taken[b] # None =>
           /\ k >= 1 /\ log'[Len(log')].role = "user"
           /\ log'[Len(log')].turn = taken[b]
      /\ k <= 2 /\ (k = 2 => text[b].len > 0 /\ taken[b] # None)
      /\ k = 1 => (text[b].len > 0 <=> taken[b] = None)
      /\ k = 0 => ~(text[b].len > 0) /\ taken[b] = None
  <2>1. text[b].turn # None => text[b].len > 0
    BY Numbers DEF Holding, Shape, TypeOK, Text
  <2>2. text[b].len > 0 => k >= 1 /\ log'[Len(log) + 1] = TextRow("assistant", text[b])
    BY <1>2, RowsToAppend
  <2>3. taken[b] # None => k >= 1 /\ log'[Len(log')] = UserRow(taken[b])
    BY <1>2, RowsToAppend
  <2>4. /\ k <= 2 /\ (k = 2 => text[b].len > 0 /\ taken[b] # None)
        /\ k = 1 => (text[b].len > 0 <=> taken[b] = None)
        /\ k = 0 => ~(text[b].len > 0) /\ taken[b] = None
    <3>1. k = (IF text[b].len > 0 THEN 1 ELSE 0) + (IF taken[b] # None THEN 1 ELSE 0)
      BY RowsToAppend
    <3> HIDE DEF k
    <3> QED
      BY <3>1
  <2> QED
    BY <2>1, <2>2, <2>3, <2>4 DEF TextRow, UserRow
<1> HIDE DEF k
<1>5. ASSUME NEW m \in Messages
      PROVE  /\ Rows("assistant", m)' =
                  Rows("assistant", m)
                  \cup (IF text[b].turn = m THEN {Len(log) + 1} ELSE {})
             /\ Rows("user", m)' =
                  Rows("user", m) \cup (IF taken[b] = m THEN {Len(log')} ELSE {})
             /\ Rows("recovered", m)' = Rows("recovered", m)
  BY <1>2, <1>3, <1>4, <1>5 DEF Rows
<1> QED
  BY <1>2, <1>4, <1>5

(* One more row.                                                           *)
LEMMA RowIsStored ==
  ASSUME TypeOK, NEW row \in Row, log' = Append(log, row)
  PROVE  /\ log' \in Seq(Row) /\ Len(log') = Len(log) + 1
         /\ \A i \in DOMAIN log : i \in DOMAIN log' /\ log'[i] = log[i]
         /\ log'[Len(log')] = row
         /\ \A r, m : Rows(r, m)' =
              Rows(r, m) \cup (IF row.role = r /\ row.turn = m THEN {Len(log')} ELSE {})
<1>1. /\ log' \in Seq(Row) /\ Len(log') = Len(log) + 1 /\ Len(log) \in Nat
      /\ DOMAIN log = 1..Len(log) /\ DOMAIN log' = 1..(Len(log) + 1)
      /\ \A i \in 1..Len(log) : log'[i] = log[i]
      /\ log'[Len(log) + 1] = row
  BY DEF TypeOK
<1> QED
  BY <1>1 DEF Rows
-----------------------------------------------------------------------------
(* A text event finds room in the text of its turn.                        *)
LEMMA TextHasRoom ==
  ASSUME TypeOK, Room, NEW b \in Backends, HandleText(b)
  PROVE  text[b].len + 1 \in 0..MaxText /\ Head(output[b])[2] \in Messages
<1>1. /\ output[b] \in Seq(Event) /\ output[b] # <<>> /\ text[b] \in Text
      /\ handler[b] = "loop" /\ Head(output[b])[1] = "text"
  BY DEF TypeOK, HandleText, Looping, NextEvent
<1>2. /\ 1 \in 1..Len(output[b]) /\ output[b][1] = Head(output[b])
      /\ Head(output[b]) \in Event
  BY <1>1
<1>3. Block(b, 1, 1)
  BY <1>1, <1>2 DEF Block, Open
<1>4. text[b].len + 1 <= MaxText
  BY <1>1, <1>2, <1>3 DEF Room, RoomAt, Ahead, Handled, Text
<1> QED
  BY <1>1, <1>2, <1>4, Numbers DEF Text, Event

(* Every action keeps the types.                                           *)
LEMMA TypeStep == IInv /\ [Next]_vars => TypeOK'
<1> SUFFICES ASSUME IInv, [Next]_vars PROVE TypeOK'
  OBVIOUS
<1>0. TypeOK /\ Room /\ Holding
  BY DEF IInv
<1> USE <1>0, Numbers DEF TypeOK, Returns
<1>1. CASE UNCHANGED vars
  BY <1>1 DEF vars
<1>2. ASSUME NEW m \in Messages, SendFindsBackend(m) PROVE TypeOK'
  BY <1>2 DEF SendFindsBackend
<1>3. ASSUME NEW m \in Messages, SendRestarts(m) PROVE TypeOK'
  <2>1. started' \in 0..MaxBackends /\ started' \in Backends
    BY <1>3 DEF SendRestarts, Backends
  <2> QED
    BY <1>3, <2>1 DEF SendRestarts
<1>4. ASSUME NEW m \in Messages, Defer(m) PROVE TypeOK'
  <2>1. target[m] \in Backends
    BY <1>4 DEF Defer, IInv, Sent
  <2>2. excused' \subseteq Messages
    <3>1. pending[target[m]] \in Messages \cup {None} /\ excused \subseteq Messages
      BY <2>1
    <3>2. excused' = excused \cup ({pending[target[m]]} \ {None})
      BY <1>4 DEF Defer
    <3> HIDE DEF TypeOK
    <3> QED
      BY <3>1, <3>2
  <2>3. pending' \in [Backends -> Messages \cup {None}]
    BY <1>4 DEF Defer
  <2> QED
    BY <1>4, <2>2, <2>3 DEF Defer
<1>5. ASSUME NEW m \in Messages, StoreNow(m) PROVE TypeOK'
  BY <1>5 DEF StoreNow
<1>6. ASSUME NEW m \in Messages, Store(m) PROVE TypeOK'
  <2>1. UserRow(m) \in Row
    BY DEF UserRow, Row
  <2>2. log' \in Seq(Row)
    BY <1>6, <2>1 DEF Store
  <2> QED
    BY <1>6, <2>2 DEF Store
<1>7. ASSUME NEW m \in Messages, Deliver(m) PROVE TypeOK'
  <2>1. target[m] \in Backends
    BY <1>7 DEF Deliver, IInv, Sent
  <2>2. Append(inbox[target[m]], m) \in Seq(Messages)
    <3>1. inbox[target[m]] \in Seq(Messages)
      BY <2>1
    <3> QED
      BY <3>1
  <2>3. inbox' \in [Backends -> Seq(Messages)]
    BY <1>7, <2>1, <2>2 DEF Deliver
  <2> QED
    BY <1>7, <2>3 DEF Deliver
<1>8. ASSUME NEW m \in Messages, DeliverFails(m) PROVE TypeOK'
  <2>1. target[m] \in Backends
    BY <1>8 DEF DeliverFails, IInv, Sent
  <2>2. excused' \subseteq Messages
    <3>1. pending[target[m]] \in Messages \cup {None} /\ excused \subseteq Messages
      BY <2>1
    <3>2. excused' = excused \cup ({pending[target[m]]} \ {None})
      BY <1>8 DEF DeliverFails
    <3> HIDE DEF TypeOK
    <3> QED
      BY <3>1, <3>2
  <2>3. pending' \in [Backends -> Messages \cup {None}]
    BY <1>8 DEF DeliverFails
  <2> QED
    BY <1>8, <2>2, <2>3 DEF DeliverFails
<1>9. ASSUME NEW b \in Backends, AgentSays(b) PROVE TypeOK'
  <2>1. inbox[b] \in Seq(Messages) /\ inbox[b] # <<>>
    BY <1>9 DEF AgentSays
  <2>2. Head(inbox[b]) \in Messages
    BY <2>1
  <2>3. \A k \in {"text", "work"} : <<k, Head(inbox[b])>> \in Event
    BY <2>2 DEF Event
  <2>4. PICK k \in {"text", "work"} :
          output' = [output EXCEPT ![b] = Append(@, <<k, Head(inbox[b])>>)]
    BY <1>9 DEF AgentSays
  <2>5. Append(output[b], <<k, Head(inbox[b])>>) \in Seq(Event)
    <3>1. output[b] \in Seq(Event) /\ <<k, Head(inbox[b])>> \in Event
      BY <2>3
    <3> HIDE DEF TypeOK
    <3> QED
      BY <3>1
  <2>6. output' \in [Backends -> Seq(Event)]
    BY <2>4, <2>5
  <2>7. said[b] + 1 \in 0..MaxText
    BY <1>9 DEF AgentSays
  <2> QED
    BY <1>9, <2>6, <2>7 DEF AgentSays
<1>10. ASSUME NEW b \in Backends, AgentEndsTurn(b) PROVE TypeOK'
  <2>1. inbox[b] \in Seq(Messages) /\ inbox[b] # <<>>
    BY <1>10 DEF AgentEndsTurn
  <2>2. Head(inbox[b]) \in Messages /\ Tail(inbox[b]) \in Seq(Messages)
    BY <2>1
  <2>3. <<"end", Head(inbox[b])>> \in Event
    BY <2>2 DEF Event
  <2>4. output' \in [Backends -> Seq(Event)]
    BY <1>10, <2>3 DEF AgentEndsTurn
  <2>5. inbox' \in [Backends -> Seq(Messages)] /\ said' \in [Backends -> 0..MaxText]
    BY <1>10, <2>2 DEF AgentEndsTurn
  <2> QED
    BY <1>10, <2>4, <2>5 DEF AgentEndsTurn
<1>11. ASSUME NEW b \in Backends, AgentDies(b) PROVE TypeOK'
  <2>1. inbox' \in [Backends -> Seq(Messages)] /\ said' \in [Backends -> 0..MaxText]
    BY <1>11 DEF AgentDies
  <2> QED
    BY <1>11, <2>1 DEF AgentDies
<1>12. ASSUME NEW b \in Backends, RecordSession(b) PROVE TypeOK'
  BY <1>12 DEF RecordSession
<1>13. ASSUME NEW b \in Backends, output[b] # <<>>
       PROVE  Tail(output[b]) \in Seq(Event)
  <2>1. output[b] \in Seq(Event)
    OBVIOUS
  <2> QED
    BY <1>13, <2>1
<1>14. ASSUME NEW b \in Backends, HandleText(b) PROVE TypeOK'
  <2>1. [turn |-> Head(output[b])[2], len |-> text[b].len + 1] \in Text
    BY <1>14, TextHasRoom DEF Text
  <2>2. output[b] # <<>>
    BY <1>14 DEF HandleText, NextEvent
  <2>3. text' \in [Backends -> Text]
    BY <1>14, <2>1 DEF HandleText
  <2> QED
    BY <1>13, <1>14, <2>2, <2>3 DEF HandleText
<1>15. ASSUME NEW b \in Backends, HandleWork(b) PROVE TypeOK'
  BY <1>13, <1>15 DEF HandleWork, NextEvent
<1>16. ASSUME NEW b \in Backends, FlushSnapshot(b) PROVE TypeOK'
  BY <1>16 DEF FlushSnapshot
<1>17. ASSUME NEW b \in Backends, HandleTurnEnd(b) PROVE TypeOK'
  BY <1>13, <1>17 DEF HandleTurnEnd, NextEvent, EndTurnAndTakePending
<1>18. ASSUME NEW b \in Backends, StoreTurn(b) PROVE TypeOK'
  <2>1. log' \in Seq(Row)
    BY <1>18, TurnIsStored DEF StoreTurn
  <2>2. excused' \subseteq Messages
    BY <1>18 DEF StoreTurn
  <2> QED
    BY <1>18, <2>1, <2>2 DEF StoreTurn
<1>19. ASSUME NEW b \in Backends, ClearSnapshot(b) PROVE TypeOK'
  BY <1>19 DEF ClearSnapshot
<1>20. ASSUME NEW b \in Backends, LeaveLoop(b) PROVE TypeOK'
  <2>1. snapshot' \in Text
    BY <1>20 DEF LeaveLoop
  <2>2. /\ pending' \in [Backends -> Messages \cup {None}]
        /\ taken' \in [Backends -> Messages \cup {None}]
        /\ active' \in [Backends -> BOOLEAN]
    BY <1>20 DEF LeaveLoop, EndTurnAndTakePending
  <2> QED
    BY <1>20, <2>1, <2>2 DEF LeaveLoop
<1>21. ASSUME NEW b \in Backends, FinalStore(b) PROVE TypeOK'
  <2>1. log' \in Seq(Row)
    BY <1>21, TurnIsStored DEF FinalStore
  <2> QED
    BY <1>21, <2>1 DEF FinalStore
<1>22. ASSUME NEW b \in Backends, CheckStale(b) PROVE TypeOK'
  BY <1>22 DEF CheckStale
<1>23. ASSUME NEW b \in Backends, FinalClear(b) PROVE TypeOK'
  BY <1>23 DEF FinalClear
<1>24. ASSUME NEW b \in Backends, Bury(b) PROVE TypeOK'
  <2>1. ErrorRow \in Row
    BY DEF ErrorRow, Row
  <2>2. log' \in Seq(Row)
    <3>1. (log' = log \/ log' = Append(log, ErrorRow)) /\ log \in Seq(Row)
      BY <1>24 DEF Bury
    <3> HIDE DEF TypeOK
    <3> QED
      BY <2>1, <3>1
  <2> QED
    BY <1>24, <2>2 DEF Bury
<1>25. CASE Shutdown
  BY <1>25 DEF Shutdown
<1>26. CASE GoDown
  <2>1. downs' \in 0..MaxDowns
    BY <1>26, BoundsAssumption DEF GoDown
  <2>2. send' \in [Messages -> {"new", "decide", "store", "deliver", "acked", "failed"}]
    BY <1>26 DEF GoDown
  <2>3. /\ alive' \in [Backends -> BOOLEAN] /\ active' \in [Backends -> BOOLEAN]
        /\ dirty' \in [Backends -> BOOLEAN] /\ said' \in [Backends -> 0..MaxText]
        /\ inbox' \in [Backends -> Seq(Messages)] /\ output' \in [Backends -> Seq(Event)]
        /\ text' \in [Backends -> Text]
    BY <1>26 DEF GoDown, FreshBackends
  <2>4. /\ pending' \in [Backends -> Messages \cup {None}]
        /\ taken' \in [Backends -> Messages \cup {None}]
        /\ target' \in [Messages -> Backends \cup {None}]
        /\ current' \in Backends \cup {None}
    BY <1>26 DEF GoDown, FreshBackends
  <2>5. /\ handler' \in [Backends -> {"none", "ended"}]
        /\ burial' \in [Backends -> {"none", "ended"}]
    BY <1>26 DEF GoDown
  <2>6. excused' \subseteq Messages
    BY <1>26 DEF GoDown
  <2> QED
    BY <1>26, <2>1, <2>2, <2>3, <2>4, <2>5, <2>6 DEF GoDown
<1>27. CASE KilledInInit
  BY <1>27, BoundsAssumption DEF KilledInInit
<1>28. CASE Restart
  BY <1>28 DEF Restart
<1>29. CASE ConvertSnapshot
  <2>1. TextRow("recovered", snapshot) \in Row
    BY DEF TextRow, Row, Text
  <2>2. log' \in Seq(Row)
    BY <1>29, <2>1 DEF ConvertSnapshot
  <2> QED
    BY <1>29, <2>2 DEF ConvertSnapshot
<1>30. CASE NothingToConvert
  BY <1>30 DEF NothingToConvert, Text
<1>31. CASE ClearConverted
  BY <1>31 DEF ClearConverted
<1> QED
  BY <1>1, <1>2, <1>3, <1>4, <1>5, <1>6, <1>7, <1>8, <1>9, <1>10, <1>11,
     <1>12, <1>14, <1>15, <1>16, <1>17, <1>18, <1>19, <1>20, <1>21, <1>22,
     <1>23, <1>24, <1>25, <1>26, <1>27, <1>28, <1>29, <1>30, <1>31
  DEF Next, Sender, Agent, Handler, Recovery
(* Places and holdings of the handlers, and who is down, step by step.     *)
LEMMA HoldingStep == IInv /\ [Next]_vars => Fresh' /\ Holding' /\ AllDown'
<1> DEFINE Good == Fresh /\ Holding /\ AllDown
<1> SUFFICES ASSUME IInv, [Next]_vars PROVE Good'
  OBVIOUS
<1>0. TypeOK /\ Good /\ TypeOK'
  BY TypeStep DEF IInv
<1> USE <1>0, Numbers DEF Fresh, Holding, AllDown, Shape, TypeOK, Returns, Running
<1>1. CASE UNCHANGED vars
  BY <1>1 DEF vars
<1>2. ASSUME NEW m \in Messages, SendFindsBackend(m) PROVE Good'
  BY <1>2 DEF SendFindsBackend
<1>3. ASSUME NEW m \in Messages, SendRestarts(m) PROVE Good'
  <2>1. /\ started \in Nat /\ started' = started + 1 /\ started' \in Backends
        /\ handler[started'] = "none"
    BY <1>3 DEF SendRestarts, Backends
  <2>2. Fresh'
    <3>1. /\ current' = started' /\ target' = [target EXCEPT ![m] = started']
          /\ alive' = [alive EXCEPT ![started'] = TRUE] /\ output' = output
          /\ handler' = [handler EXCEPT ![started'] = "loop"]
      BY <1>3 DEF SendRestarts
    <3>2. \A k \in Messages : target[k] \in Nat /\ target[k] <= started
      <4>1. target \in [Messages -> Backends \cup {None}]
        OBVIOUS
      <4>2. \A n \in Backends \cup {None} : n \in Nat
        OBVIOUS
      <4> QED
        BY <4>1, <4>2
    <3> QED
      BY <2>1, <3>1, <3>2
  <2>3. Holding'
    BY <1>3, <2>1 DEF SendRestarts
  <2>4. AllDown'
    BY <1>3 DEF SendRestarts, Begins
  <2> QED
    BY <2>2, <2>3, <2>4
<1>4. ASSUME NEW m \in Messages, Defer(m) PROVE Good'
  BY <1>4 DEF Defer
<1>5. ASSUME NEW m \in Messages, StoreNow(m) PROVE Good'
  BY <1>5 DEF StoreNow
<1>6. ASSUME NEW m \in Messages, Store(m) PROVE Good'
  BY <1>6 DEF Store
<1>7. ASSUME NEW m \in Messages, Deliver(m) PROVE Good'
  BY <1>7 DEF Deliver
<1>8. ASSUME NEW m \in Messages, DeliverFails(m) PROVE Good'
  BY <1>8 DEF DeliverFails
<1>9. ASSUME NEW b \in Backends, AgentSays(b) PROVE Good'
  BY <1>9 DEF AgentSays
<1>10. ASSUME NEW b \in Backends, AgentEndsTurn(b) PROVE Good'
  BY <1>10 DEF AgentEndsTurn
<1>11. ASSUME NEW b \in Backends, AgentDies(b) PROVE Good'
  BY <1>11 DEF AgentDies
<1>12. ASSUME NEW b \in Backends, RecordSession(b) PROVE Good'
  BY <1>12 DEF RecordSession
<1>13. ASSUME NEW b \in Backends, HandleText(b) PROVE Good'
  <2>1. /\ text[b].len + 1 # 0 /\ Head(output[b])[2] # None
        /\ output' = [output EXCEPT ![b] = Tail(@)] /\ handler[b] = "loop" /\ Running
    <3>1. Head(output[b])[2] \in Messages
      BY <1>13, TextHasRoom DEF IInv
    <3>2. text[b].len \in Nat
      BY DEF Text
    <3> QED
      BY <1>13, <3>1, <3>2 DEF HandleText, Looping
  <2>2. Fresh' /\ AllDown'
    BY <1>13, <2>1 DEF HandleText
  <2>3. Holding'
    BY <1>13, <2>1 DEF HandleText
  <2> QED
    BY <2>2, <2>3
<1>14. ASSUME NEW b \in Backends, HandleWork(b) PROVE Good'
  BY <1>14 DEF HandleWork, Looping
<1>15. ASSUME NEW b \in Backends, FlushSnapshot(b) PROVE Good'
  BY <1>15 DEF FlushSnapshot, Looping
<1>16. ASSUME NEW b \in Backends, HandleTurnEnd(b) PROVE Good'
  BY <1>16 DEF HandleTurnEnd, Looping, EndTurnAndTakePending
<1>17. ASSUME NEW b \in Backends, StoreTurn(b) PROVE Good'
  BY <1>17 DEF StoreTurn, NoText
<1>18. ASSUME NEW b \in Backends, ClearSnapshot(b) PROVE Good'
  BY <1>18 DEF ClearSnapshot, NoText
<1>19. ASSUME NEW b \in Backends, LeaveLoop(b) PROVE Good'
  BY <1>19 DEF LeaveLoop, Looping, EndTurnAndTakePending
<1>20. ASSUME NEW b \in Backends, FinalStore(b) PROVE Good'
  BY <1>20 DEF FinalStore, NoText
<1>21. ASSUME NEW b \in Backends, CheckStale(b) PROVE Good'
  BY <1>21 DEF CheckStale
<1>22. ASSUME NEW b \in Backends, FinalClear(b) PROVE Good'
  BY <1>22 DEF FinalClear, NoText
<1>23. ASSUME NEW b \in Backends, Bury(b) PROVE Good'
  BY <1>23 DEF Bury
<1>24. CASE Shutdown
  BY <1>24 DEF Shutdown
<1>25. CASE GoDown
  <2>1. Fresh'
    BY <1>25 DEF GoDown, FreshBackends
  <2>2. Holding'
    BY <1>25 DEF GoDown, FreshBackends, NoText
  <2>3. AllDown'
    BY <1>25 DEF GoDown, FreshBackends
  <2> QED
    BY <2>1, <2>2, <2>3
<1>26. CASE KilledInInit
  BY <1>26 DEF KilledInInit
<1>27. CASE Restart
  BY <1>27 DEF Restart
<1>28. CASE ConvertSnapshot
  BY <1>28 DEF ConvertSnapshot
<1>29. CASE NothingToConvert
  BY <1>29 DEF NothingToConvert
<1>30. CASE ClearConverted
  BY <1>30 DEF ClearConverted, NoText
<1> QED
  BY <1>1, <1>2, <1>3, <1>4, <1>5, <1>6, <1>7, <1>8, <1>9, <1>10, <1>11, <1>12, <1>13, <1>14, <1>15, <1>16, <1>17, <1>18, <1>19, <1>20, <1>21, <1>22, <1>23, <1>24, <1>25, <1>26, <1>27, <1>28, <1>29, <1>30
  DEF Next, Sender, Agent, Handler, Recovery
(* What stays as it was for b.                                             *)
SameOutput(b) == output'[b] = output[b] /\ alive'[b] = alive[b]
SameHandler(b) == handler'[b] = handler[b] /\ text'[b] = text[b]

LEMMA RoomFrame ==
  ASSUME NEW b \in Backends, RoomAt(b), TypeOK,
         \/ Handled(b)' = Handled(b)
         \/ Handled(b)' = 0,
         SameOutput(b), said'[b] = said[b]
  PROVE  RoomAt(b)'
<1>1. Handled(b) \in Nat /\ Handled(b)' \in Nat /\ Handled(b)' <= Handled(b)
  BY DEF TypeOK, Text, Handled
<1>2. \A i, j \in 1..Len(output[b]) : Block(b, i, j)' <=> Block(b, i, j)
  BY DEF Block, Open, SameOutput
<1>3. Len(output[b]) \in Nat /\ said[b] \in Nat
  BY Numbers DEF TypeOK
<1> HIDE DEF Handled
<1> QED
  BY <1>1, <1>2, <1>3, Numbers DEF RoomAt, Ahead, SameOutput

(* The agent adds an event to an open turn that has said less than MaxText.*)
LEMMA RoomToSay ==
  ASSUME NEW b \in Backends, TypeOK, RoomAt(b), AgentSays(b)
  PROVE  RoomAt(b)'
<1>1. PICK e \in {<<k, Head(inbox[b])>> : k \in {"text", "work"}} :
        output' = [output EXCEPT ![b] = Append(@, e)]
  BY DEF AgentSays
<1> DEFINE n == Len(output[b])
<1>2. /\ output[b] \in Seq(Event) /\ n \in Nat
      /\ Len(output'[b]) = n + 1
      /\ \A i \in 1..n : output'[b][i] = output[b][i]
      /\ output[b] = <<>> => n = 0
      /\ output'[b] # <<>>
  <2>1. output[b] \in Seq(Event)
    BY DEF TypeOK
  <2>2. output'[b] = Append(output[b], e)
    BY <1>1 DEF TypeOK
  <2> QED
    BY <2>1, <2>2
<1>3. /\ said[b] \in Nat /\ said'[b] = said[b] + 1 /\ said[b] < MaxText /\ alive[b]
      /\ Handled(b)' = Handled(b) /\ Handled(b) \in Nat
  BY Numbers DEF AgentSays, TypeOK, Handled, Text
<1>4. \A i, j \in 1..n : Block(b, i, j)' => Block(b, i, j)
  BY <1>2 DEF Block, Open
<1> HIDE DEF n
<1>6. ASSUME NEW i \in 1..(n + 1), NEW j \in 1..(n + 1), Block(b, i, j)'
      PROVE  /\ Ahead(b, i)' + (j + 1 - i) <= MaxText
             /\ j = n + 1 => Ahead(b, i)' + (j + 1 - i) <= said'[b]
  <2>1. i <= j
    BY <1>6 DEF Block
  <2>2. CASE j <= n
    <3>1. i \in 1..n /\ j \in 1..n /\ Block(b, i, j)
      BY <1>2, <1>4, <1>6, <2>1, <2>2
    <3>2. Ahead(b, i) + (j + 1 - i) <= MaxText
      BY <3>1 DEF RoomAt, n
    <3> QED
      BY <1>2, <1>3, <2>2, <3>2 DEF Ahead
  <2>3. CASE j = n + 1 /\ i <= n
    <3>0. i \in 1..n /\ n \in 1..n
      BY <1>2, <1>6, <2>3
    <3>1. Block(b, i, n)
      BY <1>2, <1>6, <2>3, <3>0 DEF Block, Open
    <3>2. Ahead(b, i) + (n + 1 - i) <= said[b]
      BY <1>3, <3>0, <3>1 DEF RoomAt, n
    <3> QED
      BY <1>2, <1>3, <2>3, <3>2, Numbers DEF Ahead
  <2>4. CASE j = n + 1 /\ i = n + 1
    <3>1. Ahead(b, i) <= said[b] /\ Ahead(b, i) \in Nat
      <4>1. n = 0 => output[b] = <<>>
        BY <1>2 DEF n
      <4> QED
        BY <1>2, <1>3, <2>4, <4>1 DEF RoomAt, Ahead
    <3> QED
      BY <1>2, <1>3, <2>4, <3>1, Numbers DEF Ahead
  <2> QED
    BY <1>2, <2>1, <2>2, <2>3, <2>4
<1> QED
  BY <1>2, <1>6 DEF RoomAt

(* Handling an event moves it from the output to what has been handled.    *)
LEMMA RoomToHandle ==
  ASSUME NEW b \in Backends, TypeOK, RoomAt(b),
         output[b] # <<>>, output'[b] = Tail(output[b]),
         alive'[b] = alive[b], said'[b] = said[b], Handled(b)' \in Nat,
         IF Open(b, 1) THEN Handled(b)' <= Handled(b) + 1 ELSE Handled(b)' = 0
  PROVE  RoomAt(b)'
<1> DEFINE n == Len(output[b])
<1>1. /\ output[b] \in Seq(Event) /\ n \in Nat \ {0} /\ Len(output'[b]) = n - 1
      /\ \A i \in 1..(n - 1) : output'[b][i] = output[b][i + 1]
      /\ output'[b] = <<>> => n = 1
  <2>1. output[b] \in Seq(Event)
    BY DEF TypeOK
  <2> QED
    BY <2>1, HeadAndTail
<1>2. said[b] \in Nat /\ Handled(b) \in Nat
  BY Numbers DEF TypeOK, Handled, Text
<1>3. ASSUME NEW i \in 1..(n - 1), NEW j \in 1..(n - 1), Block(b, i, j)'
      PROVE  Block(b, i + 1, j + 1) /\ (i = 1 /\ Open(b, 1) => Block(b, 1, j + 1))
  <2>1. i <= j /\ \A k \in i..j : output'[b][k][1] # "end"
    BY <1>3 DEF Block, Open
  <2>2. \A k \in i..j : output[b][k + 1][1] # "end"
    BY <1>1, <2>1
  <2>3. \A k \in (i + 1)..(j + 1) : Open(b, k)
    <3>1. ASSUME NEW k \in (i + 1)..(j + 1) PROVE Open(b, k)
      <4>1. k - 1 \in i..j /\ (k - 1) + 1 = k
        BY <1>1
      <4> QED
        BY <2>2, <4>1 DEF Open
    <3> QED
      BY <3>1
  <2> QED
    BY <2>1, <2>3 DEF Block
<1> HIDE DEF n
<1>4. ASSUME NEW i \in 1..(n - 1), NEW j \in 1..(n - 1), Block(b, i, j)'
      PROVE  /\ Ahead(b, i)' + (j + 1 - i) <= MaxText
             /\ alive[b] /\ j = n - 1 => Ahead(b, i)' + (j + 1 - i) <= said[b]
  <2>1. j + 1 \in 1..n /\ i + 1 \in 1..n /\ 1 \in 1..n
    BY <1>1
  <2>2. CASE i = 1 /\ Open(b, 1)
    <3>1. Block(b, 1, j + 1)
      BY <1>3, <1>4, <2>2
    <3>2. /\ Handled(b) + (j + 1 + 1 - 1) <= MaxText
          /\ alive[b] /\ j + 1 = n => Handled(b) + (j + 1 + 1 - 1) <= said[b]
      BY <2>1, <3>1 DEF RoomAt, n, Ahead
    <3> QED
      BY <1>1, <1>2, <2>2, <3>2, Numbers DEF Ahead
  <2>3. CASE ~(i = 1 /\ Open(b, 1))
    <3>1. Block(b, i + 1, j + 1) /\ i + 1 # 1
      BY <1>1, <1>3, <1>4
    <3>2. /\ 0 + (j + 1 + 1 - (i + 1)) <= MaxText
          /\ alive[b] /\ j + 1 = n => 0 + (j + 1 + 1 - (i + 1)) <= said[b]
      BY <2>1, <3>1 DEF RoomAt, n, Ahead
    <3> QED
      BY <1>1, <1>2, <2>3, <3>2, Numbers DEF Ahead
  <2> QED
    BY <2>2, <2>3
<1>5. alive[b] /\ output'[b] = <<>> => Handled(b)' <= said[b]
  <2>0. CASE ~Open(b, 1)
    BY <1>2, <2>0
  <2> SUFFICES ASSUME alive[b], n = 1, Open(b, 1) PROVE Handled(b)' <= said[b]
    BY <1>1, <1>2, <2>0
  <2>1. Block(b, 1, 1) /\ 1 \in 1..Len(output[b])
    BY DEF Block, n
  <2>2. Handled(b) + (1 + 1 - 1) <= said[b]
    BY <2>1 DEF RoomAt, Ahead, n
  <2> QED
    BY <1>2, <2>2
<1> QED
  BY <1>1, <1>4, <1>5 DEF RoomAt

(* Every action keeps the room of every turn.                              *)
LEMMA RoomStep == IInv /\ [Next]_vars => Room'
<1> SUFFICES ASSUME IInv, [Next]_vars, NEW b \in Backends PROVE RoomAt(b)'
  BY DEF Room
<1>0. /\ TypeOK /\ Fresh /\ Holding /\ RoomAt(b)
      /\ output[b] \in Seq(Event) /\ text[b].len \in Nat
  <2>1. TypeOK /\ Fresh /\ Holding /\ RoomAt(b)
    BY DEF IInv, Room
  <2>2. output[b] \in Seq(Event) /\ text[b] \in Text
    BY <2>1 DEF TypeOK
  <2>3. text[b].len \in Nat
    BY <2>2, Numbers DEF Text
  <2> QED
    BY <2>1, <2>2, <2>3
<1> USE <1>0 DEF Returns
<1>1. \/ Handled(b)' = Handled(b)
      \/ Handled(b)' = 0 
      => (SameOutput(b) /\ said'[b] = said[b] => RoomAt(b)')
  BY RoomFrame
<1>2. SameHandler(b) /\ SameOutput(b) /\ said'[b] = said[b] => RoomAt(b)'
  BY <1>1 DEF Handled, SameHandler
<1>3. ASSUME NEW m \in Messages, SendRestarts(m) PROVE RoomAt(b)'
  <2>1. CASE b = started'
    <3>1. started \in Nat /\ started' = started + 1
      BY <1>3 DEF SendRestarts, TypeOK
    <3>2. b > started
      BY <2>1, <3>1
    <3>3. handler[b] = "none" /\ output[b] = <<>> /\ text[b].len = 0
      BY <3>2 DEF Fresh, Holding
    <3>4. Handled(b)' = 0 /\ output'[b] = <<>> /\ said'[b] \in Nat
      BY <1>3, <3>3, Numbers DEF SendRestarts, Handled, TypeOK
    <3> QED
      BY <3>4 DEF RoomAt
  <2>2. CASE b # started'
    BY <1>2, <1>3, <2>2 DEF SendRestarts, SameHandler, SameOutput, TypeOK
  <2> QED
    BY <2>1, <2>2
<1>4. ASSUME NEW c \in Backends, AgentSays(c) PROVE RoomAt(b)'
  <2>1. CASE c = b
    BY <1>4, <2>1, RoomToSay
  <2>2. CASE c # b
    BY <1>2, <1>4, <2>2 DEF AgentSays, SameHandler, SameOutput, TypeOK
  <2> QED
    BY <2>1, <2>2
<1>5. ASSUME NEW c \in Backends, AgentEndsTurn(c) PROVE RoomAt(b)'
  <2>1. CASE c = b
    <3>1. inbox[b] \in Seq(Messages) /\ inbox[b] # <<>>
      BY <1>5, <2>1 DEF AgentEndsTurn, TypeOK
    <3>2. <<"end", Head(inbox[b])>> \in Event
      BY <3>1, HeadAndTail DEF Event
    <3>3. output'[b] = Append(output[b], <<"end", Head(inbox[b])>>)
      BY <1>5, <2>1 DEF AgentEndsTurn, TypeOK
    <3>4. /\ Len(output[b]) \in Nat /\ Len(output'[b]) = Len(output[b]) + 1
          /\ \A i \in 1..Len(output[b]) : output'[b][i] = output[b][i]
          /\ output'[b][Len(output[b]) + 1][1] = "end" /\ output'[b] # <<>>
      BY <3>2, <3>3, Appended
    <3>5. ASSUME NEW i \in 1..Len(output'[b]), NEW j \in 1..Len(output'[b]),
                 Block(b, i, j)'
          PROVE  j # Len(output'[b]) /\ Ahead(b, i)' + (j + 1 - i) <= MaxText
      <4>1. i <= j /\ \A k \in i..j : output'[b][k][1] # "end"
        BY <3>5 DEF Block, Open
      <4>2. j # Len(output[b]) + 1
        BY <3>4, <4>1
      <4>3. j \in 1..Len(output[b]) /\ i \in 1..Len(output[b])
        BY <3>4, <4>1, <4>2
      <4>4. Block(b, i, j)
        <5>1. \A k \in i..j : k \in 1..Len(output[b])
          BY <3>4, <4>3
        <5>2. \A k \in i..j : output[b][k][1] # "end"
          BY <3>4, <4>1, <5>1
        <5> QED
          BY <4>1, <5>2 DEF Block, Open
      <4>5. Ahead(b, i)' = Ahead(b, i)
        BY <1>5 DEF AgentEndsTurn, Ahead, Handled
      <4> QED
        BY <3>4, <4>2, <4>3, <4>4, <4>5 DEF RoomAt
    <3> QED
      BY <3>4, <3>5 DEF RoomAt
  <2>2. CASE c # b
    BY <1>2, <1>5, <2>2 DEF AgentEndsTurn, SameHandler, SameOutput, TypeOK
  <2> QED
    BY <2>1, <2>2
<1>6. ASSUME NEW c \in Backends, AgentDies(c) PROVE RoomAt(b)'
  <2>1. CASE c = b
    <3>1. /\ ~alive'[b] /\ output' = output /\ handler' = handler /\ text' = text
      BY <1>6, <2>1 DEF AgentDies, TypeOK
    <3> QED
      BY <3>1 DEF RoomAt, Block, Open, Ahead, Handled
  <2>2. CASE c # b
    BY <1>2, <1>6, <2>2 DEF AgentDies, SameHandler, SameOutput, TypeOK
  <2> QED
    BY <2>1, <2>2
<1>7. ASSUME NEW c \in Backends, HandleText(c) \/ HandleWork(c) \/ HandleTurnEnd(c)
      PROVE  RoomAt(b)'
  <2> USE DEF HandleText, HandleWork, HandleTurnEnd
  <2>1. CASE c = b
    <3>1. /\ output[b] # <<>> /\ output'[b] = Tail(output[b])
          /\ alive' = alive /\ said' = said
      BY <1>7, <2>1 DEF NextEvent, TypeOK
    <3>2. output[b][1] = Head(output[b])
      BY <3>1
    <3>3. \/ Open(b, 1) /\ Handled(b)' \in {Handled(b), Handled(b) + 1}
          \/ ~Open(b, 1) /\ Handled(b)' = 0
      <4>1. CASE HandleText(b)
        BY <3>2, <4>1 DEF NextEvent, Open, Handled, TypeOK, Looping
      <4>2. CASE HandleWork(b)
        BY <3>2, <4>2 DEF NextEvent, Open, Handled, TypeOK, Looping
      <4>3. CASE HandleTurnEnd(b)
        BY <3>2, <4>3 DEF NextEvent, Open, Handled, TypeOK
      <4> QED
        BY <1>7, <2>1, <4>1, <4>2, <4>3
    <3>4. Handled(b) \in Nat
      BY DEF Handled
    <3>5. CASE Open(b, 1)
      BY <3>1, <3>3, <3>4, <3>5, RoomToHandle
    <3>6. CASE ~Open(b, 1)
      BY <3>1, <3>3, <3>4, <3>6, RoomToHandle
    <3> QED
      BY <3>5, <3>6
  <2>2. CASE c # b
    <3>1. SameHandler(b) /\ SameOutput(b) /\ said'[b] = said[b]
      BY <1>7, <2>2
      DEF SameHandler, SameOutput, TypeOK, EndTurnAndTakePending
    <3> QED
      BY <1>2, <3>1
  <2> QED
    BY <2>1, <2>2
<1>8. ASSUME NEW c \in Backends,
             \/ StoreTurn(c) \/ LeaveLoop(c) \/ FinalStore(c) \/ CheckStale(c)
             \/ FinalClear(c) \/ ClearSnapshot(c)
      PROVE  RoomAt(b)'
  <2>1. SameOutput(b) /\ said' = said
    BY <1>8 DEF StoreTurn, LeaveLoop, FinalStore, CheckStale, FinalClear, ClearSnapshot,
                SameOutput
  <2>2. ClearSnapshot(c) => text'[b] = text[b]
    BY DEF ClearSnapshot
  <2>3. Handled(b)' \in {Handled(b), 0}
    <3>1. CASE ClearSnapshot(c)
      <4>1. text[c].len = 0 /\ handler[c] = "clear"
        BY <3>1 DEF ClearSnapshot, Holding
      <4> QED
        BY <3>1, <4>1 DEF ClearSnapshot, Handled, TypeOK
    <3>2. CASE ~ClearSnapshot(c)
      <4>1. handler'[c] # "loop" /\ (c # b => handler'[b] = handler[b])
        BY <1>8, <3>2 DEF StoreTurn, LeaveLoop, FinalStore, CheckStale, FinalClear, TypeOK
      <4>2. c # b => text'[b] = text[b]
        BY <1>8, <3>2 DEF StoreTurn, LeaveLoop, FinalStore, CheckStale, FinalClear, TypeOK
      <4> QED
        BY <4>1, <4>2 DEF Handled
    <3> QED
      BY <3>1, <3>2
  <2> QED
    BY <1>1, <2>1, <2>3
<1>9. CASE GoDown
  BY <1>9 DEF GoDown, FreshBackends, RoomAt
<1>10. ASSUME UNCHANGED <<handler, text, output, alive, said>> PROVE RoomAt(b)'
  BY <1>2, <1>10 DEF SameHandler, SameOutput
<1>11. ASSUME NEW m \in Messages,
              \/ SendFindsBackend(m) \/ Defer(m) \/ StoreNow(m) \/ Store(m)
              \/ Deliver(m) \/ DeliverFails(m)
       PROVE  UNCHANGED <<handler, text, output, alive, said>>
  BY <1>11 DEF SendFindsBackend, Defer, StoreNow, Store, Deliver, DeliverFails
<1>12. ASSUME NEW c \in Backends, RecordSession(c) \/ FlushSnapshot(c) \/ Bury(c)
       PROVE  UNCHANGED <<handler, text, output, alive, said>>
  BY <1>12 DEF RecordSession, FlushSnapshot, Bury
<1>13. ASSUME Shutdown \/ KilledInInit \/ Recovery
       PROVE  UNCHANGED <<handler, text, output, alive, said>>
  BY <1>13 DEF Shutdown, KilledInInit, Recovery, Restart, ConvertSnapshot,
               NothingToConvert, ClearConverted
<1>14. CASE UNCHANGED vars
  BY <1>10, <1>14 DEF vars
<1> QED
  BY <1>3, <1>4, <1>5, <1>6, <1>7, <1>8, <1>9, <1>10, <1>11, <1>12, <1>13, <1>14
  DEF Next, Sender, Agent, Handler
-----------------------------------------------------------------------------
(* The pipe of a backend through what its agent and its handler do to it.  *)
LEMMA PipeSays ==
  ASSUME NEW out \in Seq(Event), NEW in \in Seq(Messages), Pipe(out, in, TRUE),
         NEW e \in Event, in # <<>>, e[2] = Head(in), ~IsEnd(e)
  PROVE  /\ Pipe(Append(out, e), in, TRUE)
         /\ FrontTurn(Append(out, e), in) = FrontTurn(out, in)
<1> DEFINE n == Len(out)
           new == Append(out, e)
<1>1. /\ n \in Nat /\ Len(new) = n + 1 /\ \A i \in 1..n : new[i] = out[i]
      /\ new[n + 1] = e /\ new # <<>> /\ (out = <<>> <=> n = 0)
      /\ (out # <<>> => Head(new) = Head(out)) /\ (out = <<>> => Head(new) = e)
  BY Appended
<1>2. Head(in) = in[1] /\ 1 \in 1..Len(in)
  BY HeadAndTail
<1> HIDE DEF n, new
<1>3. \A i \in 1..n : ~IsEnd(new[i]) => new[i + 1][2] = new[i][2]
  <2> SUFFICES ASSUME NEW i \in 1..n, ~IsEnd(new[i]) PROVE new[i + 1][2] = new[i][2]
    OBVIOUS
  <2>1. CASE i < n
    <3>1. i \in 1..(n - 1) /\ new[i] = out[i] /\ new[i + 1] = out[i + 1]
      BY <1>1, <2>1
    <3> QED
      BY <3>1 DEF Pipe, n
  <2>2. CASE i = n
    <3>1. out # <<>> /\ new[n] = out[n]
      BY <1>1, <2>2
    <3> QED
      BY <1>1, <2>2, <3>1 DEF Pipe, n
  <2> QED
    BY <1>1, <2>1, <2>2
<1>4. \A i, j \in 1..(n + 1) : i < j /\ IsEnd(new[i]) => new[j][2] # new[i][2]
  <2> SUFFICES ASSUME NEW i \in 1..(n + 1), NEW j \in 1..(n + 1), i < j, IsEnd(new[i])
               PROVE  new[j][2] # new[i][2]
    OBVIOUS
  <2>1. i \in 1..n /\ new[i] = out[i]
    BY <1>1
  <2>2. CASE j = n + 1
    <3>1. ~HasMessage(in, out[i][2])
      BY <2>1 DEF Pipe, n
    <3> QED
      BY <1>1, <1>2, <2>1, <2>2, <3>1 DEF HasMessage
  <2>3. CASE j # n + 1
    BY <1>1, <2>1, <2>3 DEF Pipe, n
  <2> QED
    BY <2>2, <2>3
<1>5. \A i \in 1..(n + 1) : IsEnd(new[i]) => ~HasMessage(in, new[i][2])
  <2> SUFFICES ASSUME NEW i \in 1..(n + 1), IsEnd(new[i])
               PROVE  ~HasMessage(in, new[i][2])
    OBVIOUS
  <2>1. i \in 1..n /\ new[i] = out[i]
    BY <1>1
  <2> QED
    BY <2>1 DEF Pipe, n
<1>6. Pipe(new, in, TRUE)
  <2>1. \A i, j \in 1..Len(in) : i # j => in[i] # in[j]
    BY DEF Pipe
  <2>2. Len(new) - 1 = n
    BY <1>1
  <2> QED
    BY <1>1, <1>3, <1>4, <1>5, <2>1, <2>2 DEF Pipe
<1> QED
  BY <1>1, <1>6 DEF FrontTurn, new

LEMMA PipeEnds ==
  ASSUME NEW out \in Seq(Event), NEW in \in Seq(Messages), Pipe(out, in, TRUE),
         NEW e \in Event, in # <<>>, e[2] = Head(in), IsEnd(e)
  PROVE  /\ Pipe(Append(out, e), Tail(in), TRUE)
         /\ FrontTurn(Append(out, e), Tail(in)) = FrontTurn(out, in)
<1> DEFINE n == Len(out)
           new == Append(out, e)
<1>1. /\ n \in Nat /\ Len(new) = n + 1 /\ \A i \in 1..n : new[i] = out[i]
      /\ new[n + 1] = e /\ new # <<>> /\ (out = <<>> <=> n = 0)
      /\ (out # <<>> => Head(new) = Head(out)) /\ (out = <<>> => Head(new) = e)
  BY Appended
<1>2. /\ Len(in) \in Nat \ {0} /\ Len(Tail(in)) = Len(in) - 1
      /\ \A i \in 1..(Len(in) - 1) : Tail(in)[i] = in[i + 1]
      /\ Head(in) = in[1]
  BY HeadAndTail
<1> HIDE DEF n, new
<1>3. \A m : HasMessage(Tail(in), m) => HasMessage(in, m) /\ m # Head(in)
  <2> SUFFICES ASSUME NEW i \in 1..(Len(in) - 1)
               PROVE  i + 1 \in 1..Len(in) /\ in[i + 1] # in[1]
    BY <1>2 DEF HasMessage
  <2>1. i + 1 \in 1..Len(in) /\ 1 \in 1..Len(in) /\ i + 1 # 1
    BY <1>2
  <2> QED
    BY <2>1 DEF Pipe
<1>4. \A i \in 1..n : ~IsEnd(new[i]) => new[i + 1][2] = new[i][2]
  <2> SUFFICES ASSUME NEW i \in 1..n, ~IsEnd(new[i]) PROVE new[i + 1][2] = new[i][2]
    OBVIOUS
  <2>1. CASE i < n
    <3>1. i \in 1..(n - 1) /\ new[i] = out[i] /\ new[i + 1] = out[i + 1]
      BY <1>1, <2>1
    <3> QED
      BY <3>1 DEF Pipe, n
  <2>2. CASE i = n
    <3>1. out # <<>> /\ new[n] = out[n]
      BY <1>1, <2>2
    <3> QED
      BY <1>1, <2>2, <3>1 DEF Pipe, n
  <2> QED
    BY <1>1, <2>1, <2>2
<1>5. \A i, j \in 1..(n + 1) : i < j /\ IsEnd(new[i]) => new[j][2] # new[i][2]
  <2> SUFFICES ASSUME NEW i \in 1..(n + 1), NEW j \in 1..(n + 1), i < j, IsEnd(new[i])
               PROVE  new[j][2] # new[i][2]
    OBVIOUS
  <2>1. i \in 1..n /\ new[i] = out[i]
    BY <1>1
  <2>2. CASE j = n + 1
    <3>1. ~HasMessage(in, out[i][2]) /\ 1 \in 1..Len(in)
      BY <1>2, <2>1 DEF Pipe, n
    <3> QED
      BY <1>1, <1>2, <2>1, <2>2, <3>1 DEF HasMessage
  <2>3. CASE j # n + 1
    BY <1>1, <2>1, <2>3 DEF Pipe, n
  <2> QED
    BY <2>2, <2>3
<1>6. \A i \in 1..(n + 1) : IsEnd(new[i]) => ~HasMessage(Tail(in), new[i][2])
  <2> SUFFICES ASSUME NEW i \in 1..(n + 1), IsEnd(new[i])
               PROVE  ~HasMessage(Tail(in), new[i][2])
    OBVIOUS
  <2>1. CASE i = n + 1
    BY <1>1, <1>3, <2>1
  <2>2. CASE i # n + 1
    <3>1. i \in 1..n /\ new[i] = out[i]
      BY <1>1, <2>2
    <3>2. ~HasMessage(in, new[i][2])
      BY <3>1 DEF Pipe, n
    <3> QED
      BY <1>3, <3>2
  <2> QED
    BY <2>1, <2>2
<1>7. \A i, j \in 1..Len(Tail(in)) : i # j => Tail(in)[i] # Tail(in)[j]
  <2> SUFFICES ASSUME NEW i \in 1..(Len(in) - 1), NEW j \in 1..(Len(in) - 1), i # j
               PROVE  in[i + 1] # in[j + 1]
    BY <1>2
  <2>1. i + 1 \in 1..Len(in) /\ j + 1 \in 1..Len(in) /\ i + 1 # j + 1
    BY <1>2
  <2> QED
    BY <2>1 DEF Pipe
<1>8. Pipe(new, Tail(in), TRUE)
  <2>1. Len(new) - 1 = n
    BY <1>1
  <2> QED
    BY <1>1, <1>4, <1>5, <1>6, <1>7, <2>1 DEF Pipe
<1> QED
  BY <1>1, <1>8 DEF FrontTurn, new

LEMMA PipeReceives ==
  ASSUME NEW out \in Seq(Event), NEW in \in Seq(Messages), Pipe(out, in, TRUE),
         NEW m \in Messages, ~HasTurn(out, m), ~HasMessage(in, m)
  PROVE  /\ Pipe(out, Append(in, m), TRUE)
         /\ out # <<>> \/ in # <<>> => FrontTurn(out, Append(in, m)) = FrontTurn(out, in)
         /\ FrontTurn(out, Append(in, m)) # None
<1> DEFINE n == Len(in)
           new == Append(in, m)
<1>1. /\ n \in Nat /\ Len(new) = n + 1 /\ \A i \in 1..n : new[i] = in[i]
      /\ new[n + 1] = m /\ new # <<>> /\ (in = <<>> <=> n = 0)
      /\ (in # <<>> => Head(new) = Head(in)) /\ (in = <<>> => Head(new) = m)
      /\ new \in Seq(Messages)
  BY Appended
<1> HIDE DEF n, new
<1>2. \A k : HasMessage(new, k) => HasMessage(in, k) \/ k = m
  BY <1>1 DEF HasMessage, n
<1>3. \A i \in 1..Len(out) : IsEnd(out[i]) => ~HasMessage(new, out[i][2])
  BY <1>2 DEF Pipe, HasTurn
<1>4. \A i, j \in 1..(n + 1) : i # j => new[i] # new[j]
  <2>1. \A i, j \in 1..n : i # j => in[i] # in[j]
    BY DEF Pipe, n
  <2>2. \A i \in 1..n : in[i] # m
    BY DEF HasMessage, n
  <2> QED
    BY <1>1, <2>1, <2>2
<1>5. Pipe(out, new, TRUE)
  BY <1>1, <1>3, <1>4 DEF Pipe
<1>6. FrontTurn(out, new) # None
  <2>1. out # <<>> => Head(out) \in Event
    BY HeadAndTail
  <2>2. Head(new) \in Messages
    BY <1>1, HeadAndTail
  <2> QED
    BY <1>1, <2>1, <2>2, Numbers DEF FrontTurn, Event
<1> QED
  BY <1>1, <1>5, <1>6 DEF FrontTurn, new

LEMMA PipeIsCut ==
  ASSUME NEW out \in Seq(Event), NEW in \in Seq(Messages), NEW live, Pipe(out, in, live)
  PROVE  Pipe(out, <<>>, FALSE) /\ FrontTurn(out, <<>>) \in {FrontTurn(out, in), None}
  BY DEF Pipe, FrontTurn, HasMessage

LEMMA PipeIsRead ==
  ASSUME NEW out \in Seq(Event), NEW in \in Seq(Messages), NEW live, Pipe(out, in, live),
         out # <<>>
  PROVE  /\ Pipe(Tail(out), in, live)
         /\ Head(out)[2] \in Messages /\ HasTurn(out, Head(out)[2])
         /\ \A m : HasTurn(Tail(out), m) => HasTurn(out, m)
         /\ IsEnd(Head(out)) =>
              ~HasTurn(Tail(out), Head(out)[2]) /\ ~HasMessage(in, Head(out)[2])
         /\ ~IsEnd(Head(out)) /\ live =>
              /\ Tail(out) # <<>> \/ in # <<>>
              /\ FrontTurn(Tail(out), in) = Head(out)[2]
         /\ ~IsEnd(Head(out)) /\ in = <<>> =>
              FrontTurn(Tail(out), in) \in {Head(out)[2], None}
<1> DEFINE n == Len(out)
           new == Tail(out)
<1>1. /\ new \in Seq(Event) /\ n \in Nat \ {0} /\ Len(new) = n - 1
      /\ Head(out) = out[1] /\ Head(out) \in Event
      /\ \A i \in 1..(n - 1) : new[i] = out[i + 1]
      /\ (new = <<>> <=> n = 1) /\ (new # <<>> => Head(new) = out[2])
  <2>1. new \in Seq(Event) /\ n \in Nat \ {0} /\ Len(new) = n - 1
    BY HeadAndTail
  <2>2. Head(out) = out[1] /\ Head(out) \in Event
    BY HeadAndTail
  <2>3. \A i \in 1..(n - 1) : new[i] = out[i + 1]
    BY HeadAndTail
  <2>4. (new = <<>> <=> n = 1) /\ (new # <<>> => Head(new) = out[2])
    BY HeadAndTail
  <2> HIDE DEF n, new
  <2> QED
    BY <2>1, <2>2, <2>3, <2>4
<1> HIDE DEF n, new
<1>2. \A i \in 1..(n - 1) : i + 1 \in 1..n
  BY <1>1
<1>3. \A i \in 1..(n - 1) - 1 : ~IsEnd(new[i]) => new[i + 1][2] = new[i][2]
  <2> SUFFICES ASSUME NEW i \in 1..(n - 1) - 1
               PROVE  ~IsEnd(new[i]) => new[i + 1][2] = new[i][2]
    OBVIOUS
  <2>1. i \in 1..(n - 1) /\ i + 1 \in 1..(n - 1)
    BY <1>1
  <2>2. new[i] = out[i + 1] /\ new[i + 1] = out[i + 1 + 1]
    BY <1>1, <2>1
  <2>3. ~IsEnd(out[i + 1]) => out[i + 1 + 1][2] = out[i + 1][2]
    BY <2>1 DEF Pipe, n
  <2> QED
    BY <2>2, <2>3
<1>4. \A i, j \in 1..(n - 1) : i < j /\ IsEnd(new[i]) => new[j][2] # new[i][2]
  <2> SUFFICES ASSUME NEW i \in 1..(n - 1), NEW j \in 1..(n - 1), i < j, IsEnd(out[i + 1])
               PROVE  out[j + 1][2] # out[i + 1][2]
    BY <1>1
  <2>1. i + 1 \in 1..n /\ j + 1 \in 1..n /\ i + 1 < j + 1
    BY <1>1
  <2> QED
    BY <2>1 DEF Pipe, n
<1>5. \A i \in 1..(n - 1) : IsEnd(new[i]) => ~HasMessage(in, new[i][2])
  BY <1>1, <1>2 DEF Pipe, n
<1>6. new # <<>> => n > 1 /\ new[n - 1] = out[n]
  BY <1>1
<1>7. Pipe(new, in, live)
  <2>1. Len(new) = n - 1 /\ Len(out) = n
    BY <1>1 DEF n
  <2>2. live /\ new # <<>> /\ ~IsEnd(new[n - 1]) =>
          in # <<>> /\ Head(in) = new[n - 1][2]
    BY <1>6, <2>1 DEF Pipe
  <2>3. \A i, j \in 1..Len(in) : i # j => in[i] # in[j]
    BY DEF Pipe
  <2> QED
    BY <1>3, <1>4, <1>5, <2>1, <2>2, <2>3 DEF Pipe
<1>8. /\ Head(out)[2] \in Messages /\ HasTurn(out, Head(out)[2])
      /\ \A m : HasTurn(new, m) => HasTurn(out, m)
  <2>1. Head(out)[2] \in Messages
    BY <1>1 DEF Event
  <2>2. 1 \in 1..n
    BY <1>1
  <2> QED
    BY <1>1, <1>2, <2>1, <2>2 DEF HasTurn, n
<1>9. IsEnd(Head(out)) =>
        ~HasTurn(new, Head(out)[2]) /\ ~HasMessage(in, Head(out)[2])
  <2> SUFFICES ASSUME IsEnd(out[1])
               PROVE  ~HasTurn(new, out[1][2]) /\ ~HasMessage(in, out[1][2])
    BY <1>1
  <2>1. 1 \in 1..n /\ \A i \in 1..(n - 1) : i + 1 \in 1..n /\ 1 < i + 1
    BY <1>1
  <2>2. \A i \in 1..(n - 1) : out[i + 1][2] # out[1][2]
    BY <2>1 DEF Pipe, n
  <2> QED
    BY <1>1, <2>1, <2>2 DEF Pipe, n, HasTurn
<1>10. ASSUME ~IsEnd(Head(out))
       PROVE  /\ new # <<>> => FrontTurn(new, in) = Head(out)[2]
              /\ new = <<>> /\ live => in # <<>> /\ FrontTurn(new, in) = Head(out)[2]
              /\ new = <<>> /\ in = <<>> => FrontTurn(new, in) = None
  <2>1. CASE new # <<>>
    <3>1. 1 \in 1..(n - 1) /\ 1 + 1 = 2
      BY <1>1, <2>1
    <3>2. out[2][2] = out[1][2]
      BY <1>1, <1>10, <3>1 DEF Pipe, n
    <3> QED
      BY <1>1, <2>1, <3>2 DEF FrontTurn
  <2>2. CASE new = <<>>
    <3>1. n = 1
      BY <1>1, <2>2
    <3> QED
      BY <1>1, <1>10, <2>2, <3>1 DEF FrontTurn, Pipe, n
  <2> QED
    BY <2>1, <2>2
<1> QED
  BY <1>7, <1>8, <1>9, <1>10 DEF new
-----------------------------------------------------------------------------
(* What an action changes, stated once.  A message comes to a backend only *)
(* by being delivered to it.                                               *)
LEMMA Travels ==
  ASSUME IInv, [Next]_vars, NEW b \in Backends, NEW m \in Messages, At(b, m)'
  PROVE  At(b, m) \/ (Deliver(m) /\ target[m] = b /\ alive[b])
<1>0. /\ TypeOK /\ output[b] \in Seq(Event) /\ inbox[b] \in Seq(Messages)
      /\ Pipe(output[b], inbox[b], alive[b])
  BY DEF IInv, TypeOK, Order
<1> DEFINE Moved == At(b, m) \/ (Deliver(m) /\ target[m] = b /\ alive[b])
<1> USE <1>0 DEF Returns
<1>1. UNCHANGED <<text, output, inbox>> => Moved
  BY DEF At
<1>2. ASSUME NEW k \in Messages, Deliver(k) PROVE Moved
  <2>1. text' = text /\ output' = output
    BY <1>2 DEF Deliver
  <2>2. CASE k = m /\ alive[target[m]]
    <3>1. b = target[m] \/ inbox'[b] = inbox[b]
      BY <1>2, <2>2 DEF Deliver, TypeOK
    <3> QED
      BY <1>2, <2>1, <2>2, <3>1 DEF At
  <2>3. CASE ~(k = m /\ alive[target[m]])
    <3>1. inbox'[b] = inbox[b] \/ (k # m /\ inbox'[b] = Append(inbox[b], k))
      BY <1>2, <2>3 DEF Deliver, TypeOK
    <3>2. HasMessage(inbox'[b], m) => HasMessage(inbox[b], m)
      <4>1. CASE k # m /\ inbox'[b] = Append(inbox[b], k)
        BY <4>1, Appended DEF HasMessage
      <4> QED
        BY <3>1, <4>1
    <3> QED
      BY <2>1, <3>2 DEF At
  <2> QED
    BY <2>2, <2>3
<1>3. ASSUME NEW c \in Backends, Agent(c) PROVE Moved
  <2>0. text' = text /\ (c # b => output'[b] = output[b] /\ inbox'[b] = inbox[b])
    BY <1>3 DEF Agent, AgentSays, AgentEndsTurn, AgentDies, TypeOK
  <2>1. CASE c # b
    BY <2>0, <2>1 DEF At
  <2>2. CASE c = b /\ AgentDies(b)
    <3>1. output' = output /\ inbox'[b] = <<>>
      BY <2>2 DEF AgentDies, TypeOK
    <3>2. ~HasMessage(<<>>, m)
      BY DEF HasMessage
    <3> QED
      BY <2>0, <3>1, <3>2 DEF At
  <2>3. CASE c = b /\ (AgentSays(b) \/ AgentEndsTurn(b))
    <3>1. inbox[b] # <<>> /\ inbox'[b] \in {inbox[b], Tail(inbox[b])}
      BY <2>3 DEF AgentSays, AgentEndsTurn, TypeOK
    <3>2. HasMessage(inbox'[b], m) => HasMessage(inbox[b], m)
      <4>1. CASE inbox'[b] = inbox[b]
        BY <4>1
      <4>2. CASE inbox'[b] = Tail(inbox[b])
        <5>1. \A i \in 1..(Len(inbox[b]) - 1) :
                i + 1 \in 1..Len(inbox[b]) /\ Tail(inbox[b])[i] = inbox[b][i + 1]
          BY <3>1, HeadAndTail
        <5>2. Len(Tail(inbox[b])) = Len(inbox[b]) - 1
          BY <3>1, HeadAndTail
        <5> QED
          BY <4>2, <5>1, <5>2 DEF HasMessage
      <4> QED
        BY <3>1, <4>1, <4>2
    <3>3. PICK k \in {"text", "work", "end"} :
            output'[b] = Append(output[b], <<k, Head(inbox[b])>>)
      BY <2>3 DEF AgentSays, AgentEndsTurn, TypeOK
    <3>4. Head(inbox[b]) = inbox[b][1] /\ 1 \in 1..Len(inbox[b]) /\ Head(inbox[b]) \in Messages
      BY <3>1, HeadAndTail
    <3>5. <<k, Head(inbox[b])>> \in Event
      BY <3>4 DEF Event
    <3>6. HasTurn(output'[b], m) => HasTurn(output[b], m) \/ m = Head(inbox[b])
      BY <3>3, <3>5, Appended DEF HasTurn
    <3> QED
      BY <2>0, <3>2, <3>4, <3>6 DEF At, HasMessage
  <2> QED
    BY <1>3, <2>1, <2>2, <2>3 DEF Agent
<1>4. ASSUME NEW c \in Backends, HandleText(c) \/ HandleWork(c) \/ HandleTurnEnd(c)
      PROVE  Moved
  <2>0. inbox' = inbox /\ (c # b => output'[b] = output[b] /\ text'[b] = text[b])
    BY <1>4 DEF HandleText, HandleWork, HandleTurnEnd, TypeOK
  <2>1. CASE c # b
    BY <2>0, <2>1 DEF At
  <2>2. CASE c = b
    <3>1. /\ output[b] # <<>> /\ output'[b] = Tail(output[b])
          /\ text'[b] = text[b] \/ text'[b].turn = Head(output[b])[2]
      BY <1>4, <2>2 DEF HandleText, HandleWork, HandleTurnEnd, NextEvent, TypeOK
    <3>2. /\ HasTurn(output'[b], m) => HasTurn(output[b], m)
          /\ HasTurn(output[b], Head(output[b])[2])
      BY <3>1, PipeIsRead
    <3> QED
      BY <2>0, <3>1, <3>2 DEF At
  <2> QED
    BY <2>1, <2>2
<1>5. ASSUME NEW c \in Backends, StoreTurn(c) \/ FinalStore(c) PROVE Moved
  <2>1. /\ inbox' = inbox /\ output' = output
        /\ text'[b] = text[b] \/ text'[b].turn = None
    BY <1>5 DEF StoreTurn, FinalStore, TypeOK, NoText
  <2> QED
    BY <2>1, Numbers DEF At
<1>6. CASE GoDown
  <2>1. text'[b].turn = None /\ output'[b] = <<>> /\ inbox'[b] = <<>>
    BY <1>6 DEF GoDown, FreshBackends, NoText
  <2> QED
    BY <2>1, Numbers DEF At, HasTurn, HasMessage
<1>7. ASSUME NEW k \in Messages,
             \/ SendFindsBackend(k) \/ SendRestarts(k) \/ Defer(k) \/ StoreNow(k)
             \/ Store(k) \/ DeliverFails(k)
      PROVE  UNCHANGED <<text, output, inbox>>
  BY <1>7 DEF SendFindsBackend, SendRestarts, Defer, StoreNow, Store, DeliverFails
<1>8. ASSUME NEW c \in Backends,
             \/ RecordSession(c) \/ FlushSnapshot(c) \/ ClearSnapshot(c) \/ LeaveLoop(c)
             \/ CheckStale(c) \/ FinalClear(c) \/ Bury(c)
      PROVE  UNCHANGED <<text, output, inbox>>
  BY <1>8 DEF RecordSession, FlushSnapshot, ClearSnapshot, LeaveLoop, CheckStale,
              FinalClear, Bury
<1>9. ASSUME Shutdown \/ KilledInInit \/ Recovery PROVE UNCHANGED <<text, output, inbox>>
  BY <1>9 DEF Shutdown, KilledInInit, Recovery, Restart, ConvertSnapshot,
              NothingToConvert, ClearConverted
<1>10. CASE UNCHANGED vars
  BY <1>1, <1>10 DEF vars
<1> QED
  BY <1>1, <1>2, <1>3, <1>4, <1>5, <1>6, <1>7, <1>8, <1>9, <1>10
  DEF Next, Sender, Handler

(* A message comes to be deferred only by StoreOrDeferMessage.             *)
LEMMA Defers ==
  ASSUME IInv, [Next]_vars, NEW b \in Backends, NEW m \in Messages, Deferred(b, m)'
  PROVE  Deferred(b, m) \/ (Defer(m) /\ target[m] = b)
<1>0. TypeOK /\ m # None
  BY Numbers DEF IInv
<1> DEFINE Was == Deferred(b, m) \/ (Defer(m) /\ target[m] = b)
<1> USE <1>0 DEF Deferred
<1>1. UNCHANGED <<pending, taken>> => Was
  OBVIOUS
<1>2. ASSUME NEW k \in Messages, Defer(k) PROVE Was
  BY <1>2 DEF Defer, TypeOK
<1>3. ASSUME NEW k \in Messages, DeliverFails(k) PROVE Was
  BY <1>3 DEF DeliverFails, TypeOK
<1>4. ASSUME NEW c \in Backends, HandleTurnEnd(c) \/ LeaveLoop(c) PROVE Was
  BY <1>4 DEF HandleTurnEnd, LeaveLoop, EndTurnAndTakePending, TypeOK
<1>5. ASSUME NEW c \in Backends, StoreTurn(c) \/ FinalStore(c) PROVE Was
  BY <1>5 DEF StoreTurn, FinalStore, TypeOK
<1>6. CASE GoDown
  BY <1>6 DEF GoDown, FreshBackends
<1>7. ASSUME NEW k \in Messages,
             \/ SendFindsBackend(k) \/ SendRestarts(k) \/ StoreNow(k)
             \/ Store(k) \/ Deliver(k)
      PROVE  UNCHANGED <<pending, taken>>
  BY <1>7 DEF SendFindsBackend, SendRestarts, StoreNow, Store, Deliver
<1>8. ASSUME NEW c \in Backends,
             \/ RecordSession(c) \/ HandleText(c) \/ HandleWork(c) \/ FlushSnapshot(c)
             \/ ClearSnapshot(c) \/ CheckStale(c) \/ FinalClear(c) \/ Bury(c) \/ Agent(c)
      PROVE  UNCHANGED <<pending, taken>>
  BY <1>8 DEF RecordSession, HandleText, HandleWork, FlushSnapshot, ClearSnapshot,
              CheckStale, FinalClear, Bury, Agent, AgentSays, AgentEndsTurn, AgentDies
<1>9. ASSUME Shutdown \/ KilledInInit \/ Recovery PROVE UNCHANGED <<pending, taken>>
  BY <1>9 DEF Shutdown, KilledInInit, Recovery, Restart, ConvertSnapshot,
              NothingToConvert, ClearConverted
<1>10. CASE UNCHANGED vars
  BY <1>1, <1>10 DEF vars
<1> QED
  BY <1>1, <1>2, <1>3, <1>4, <1>5, <1>6, <1>7, <1>8, <1>9, <1>10
  DEF Next, Sender, Handler
-----------------------------------------------------------------------------
(* An agent and a handler act on nothing of another backend.               *)
LEMMA Elsewhere ==
  ASSUME TypeOK, NEW b \in Backends, NEW c \in Backends, c # b, Agent(c) \/ Handler(c)
  PROVE  /\ output'[b] = output[b] /\ inbox'[b] = inbox[b] /\ alive'[b] = alive[b]
         /\ active'[b] = active[b] /\ handler'[b] = handler[b] /\ text'[b] = text[b]
         /\ pending'[b] = pending[b] /\ taken'[b] = taken[b]
<1> DEFINE Same == /\ output'[b] = output[b] /\ inbox'[b] = inbox[b] /\ alive'[b] = alive[b]
                   /\ active'[b] = active[b] /\ handler'[b] = handler[b]
                   /\ text'[b] = text[b]
                   /\ pending'[b] = pending[b] /\ taken'[b] = taken[b]
<1> USE DEF TypeOK
<1>1. AgentSays(c) \/ AgentEndsTurn(c) \/ AgentDies(c) => Same
  BY DEF AgentSays, AgentEndsTurn, AgentDies
<1>2. RecordSession(c) \/ HandleText(c) \/ HandleWork(c) \/ FlushSnapshot(c) => Same
  BY DEF RecordSession, HandleText, HandleWork, FlushSnapshot
<1>3. HandleTurnEnd(c) => Same
  BY DEF HandleTurnEnd, EndTurnAndTakePending
<1>4. StoreTurn(c) => Same
  BY DEF StoreTurn
<1>5. ClearSnapshot(c) => Same
  BY DEF ClearSnapshot
<1>6. LeaveLoop(c) => Same
  BY DEF LeaveLoop, EndTurnAndTakePending
<1>7. FinalStore(c) => Same
  BY DEF FinalStore
<1>8. CheckStale(c) \/ FinalClear(c) => Same
  BY DEF CheckStale, FinalClear
<1> QED
  BY <1>1, <1>2, <1>3, <1>4, <1>5, <1>6, <1>7, <1>8 DEF Agent, Handler

(* Every action keeps the order in each backend.                           *)
LEMMA OrderStep == IInv /\ [Next]_vars => Order'
<1> DEFINE P(b) == Pipe(output[b], inbox[b], alive[b])
<1> SUFFICES ASSUME IInv, [Next]_vars, NEW b \in Backends
             PROVE  P(b)' /\ Pace(b)'
  BY DEF Order
<1>0. /\ TypeOK /\ TypeOK' /\ Fresh /\ Holding /\ Holding' /\ P(b) /\ Pace(b)
      /\ output[b] \in Seq(Event) /\ inbox[b] \in Seq(Messages)
      /\ alive[b] \in BOOLEAN
  BY TypeStep, HoldingStep DEF IInv, TypeOK, Order
<1> USE <1>0, Numbers DEF Returns
<1> DEFINE samePipe == output'[b] = output[b] /\ inbox'[b] = inbox[b] /\ alive'[b] = alive[b]
           sameTurn == /\ active'[b] = active[b] /\ handler'[b] = handler[b]
                       /\ text'[b] = text[b]
                       /\ pending'[b] = pending[b] /\ taken'[b] = taken[b]
<1>1. samePipe => P(b)'
  OBVIOUS
<1>2. samePipe /\ sameTurn => P(b)' /\ Pace(b)'
  BY DEF Pace, Turn
<1>3. ASSUME NEW m \in Messages, SendRestarts(m) PROVE P(b)' /\ Pace(b)'
  <2>1. CASE b = started'
    <3>1. started \in Nat /\ started' = started + 1
      BY <1>3 DEF SendRestarts, TypeOK
    <3>2. handler[b] = "none" /\ ~alive[b] /\ output[b] = <<>>
      BY <2>1, <3>1 DEF Fresh
    <3>3. /\ text[b].turn = None /\ inbox[b] = <<>> /\ ~active[b]
          /\ pending[b] = None /\ taken[b] = None
      BY <3>2 DEF Holding, Shape
    <3>4. /\ UNCHANGED <<text, inbox, output, active, pending, taken>>
          /\ handler'[b] = "loop"
      BY <1>3, <2>1 DEF SendRestarts, TypeOK
    <3>5. Pipe(<<>>, <<>>, alive'[b])
      BY DEF Pipe
    <3> QED
      BY <3>2, <3>3, <3>4, <3>5 DEF Pace
  <2>2. CASE b # started'
    BY <1>2, <1>3, <2>2 DEF SendRestarts, TypeOK
  <2> QED
    BY <2>1, <2>2
<1>4. ASSUME NEW m \in Messages, Defer(m) PROVE P(b)' /\ Pace(b)'
  <2>1. ~At(b, m)
    BY <1>4 DEF Defer, IInv, Sent
  <2>2. m # Turn(b) /\ m # text[b].turn
    <3>1. output[b] # <<>> => Head(output[b]) = output[b][1] /\ 1 \in 1..Len(output[b])
      BY HeadAndTail
    <3>2. inbox[b] # <<>> => Head(inbox[b]) = inbox[b][1] /\ 1 \in 1..Len(inbox[b])
      BY HeadAndTail
    <3> QED
      BY <2>1, <3>1, <3>2 DEF At, HasTurn, HasMessage, Turn, FrontTurn
  <2>3. /\ UNCHANGED <<output, inbox, alive, active, handler, text, taken>>
        /\ pending'[b] \in {pending[b], m}
    BY <1>4 DEF Defer, TypeOK
  <2> QED
    BY <2>2, <2>3 DEF Pace, Turn
<1>5. ASSUME NEW m \in Messages, DeliverFails(m) PROVE P(b)' /\ Pace(b)'
  <2>1. /\ UNCHANGED <<output, inbox, alive, active, handler, text, taken>>
        /\ pending'[b] \in {pending[b], None}
    BY <1>5 DEF DeliverFails, TypeOK
  <2> QED
    BY <2>1 DEF Pace, Turn
<1>6. ASSUME NEW m \in Messages, Deliver(m) PROVE P(b)' /\ Pace(b)'
  <2>0. UNCHANGED <<output, alive, active, handler, text, pending, taken>>
    BY <1>6 DEF Deliver
  <2>1. CASE inbox'[b] = inbox[b]
    BY <1>2, <2>0, <2>1
  <2>2. CASE inbox'[b] # inbox[b]
    <3>1. alive[b] /\ inbox'[b] = Append(inbox[b], m)
      BY <1>6, <2>2 DEF Deliver, TypeOK
    <3>2. ~HasTurn(output[b], m) /\ ~HasMessage(inbox[b], m) /\ text[b].turn # m
      BY <1>6 DEF Deliver, IInv, Sent, At
    <3>3. /\ Pipe(output[b], inbox'[b], TRUE)
          /\ output[b] # <<>> \/ inbox[b] # <<>> => Turn(b)' = Turn(b)
          /\ Turn(b)' # None /\ inbox'[b] # <<>>
      <4>1. Pipe(output[b], inbox[b], TRUE)
        BY <3>1
      <4>2. /\ Pipe(output[b], Append(inbox[b], m), TRUE)
            /\ output[b] # <<>> \/ inbox[b] # <<>> =>
                 FrontTurn(output[b], Append(inbox[b], m)) = FrontTurn(output[b], inbox[b])
            /\ FrontTurn(output[b], Append(inbox[b], m)) # None
        BY <3>2, <4>1, PipeReceives
      <4>3. Append(inbox[b], m) # <<>>
        BY Appended
      <4> QED
        BY <2>0, <3>1, <4>2, <4>3 DEF Turn
    <3>4. handler[b] = "store" /\ text[b].turn # None =>
            ~HasMessage(inbox'[b], text[b].turn)
      <4> SUFFICES ASSUME handler[b] = "store", text[b].turn # None,
                          HasMessage(inbox'[b], text[b].turn)
                   PROVE  HasMessage(inbox[b], text[b].turn)
        BY DEF Pace
      <4> QED
        BY <3>1, <3>2, Appended DEF HasMessage
    <3>5. active[b] => output[b] # <<>> \/ inbox[b] # <<>>
      BY <3>1 DEF Pace
    <3>6. pending[b] # None => active[b]
      BY DEF Holding
    <3> QED
      BY <2>0, <3>1, <3>3, <3>4, <3>5, <3>6 DEF Pace
  <2> QED
    BY <2>1, <2>2
<1>7. ASSUME NEW c \in Backends, Agent(c) PROVE P(b)' /\ Pace(b)'
  <2>0. UNCHANGED <<active, handler, text, pending, taken>>
    BY <1>7 DEF Agent, AgentSays, AgentEndsTurn, AgentDies
  <2>1. CASE c # b
    <3>1. samePipe
      BY <1>7, <2>1, Elsewhere
    <3> QED
      BY <1>2, <2>0, <3>1
  <2>2. CASE c = b /\ AgentDies(b)
    <3>1. alive'[b] = FALSE /\ inbox'[b] = <<>> /\ output' = output
      BY <2>2 DEF AgentDies, TypeOK
    <3>2. Pipe(output[b], <<>>, FALSE) /\ FrontTurn(output[b], <<>>) \in {Turn(b), None}
      BY PipeIsCut DEF Turn
    <3>3. ~HasMessage(<<>>, text[b].turn)
      BY DEF HasMessage
    <3> QED
      <4>1. P(b)'
        <5>1. Pipe(output'[b], inbox'[b], alive'[b])
          BY <3>1, <3>2
        <5> QED
          BY <5>1
      <4>2. Turn(b)' \in {Turn(b), None}
        BY <3>1, <3>2 DEF Turn
      <4> QED
        BY <2>0, <3>1, <3>3, <4>1, <4>2 DEF Pace
  <2>3. CASE c = b /\ AgentSays(b)
    <3>1. PICK k \in {"text", "work"} :
            output'[b] = Append(output[b], <<k, Head(inbox[b])>>)
      BY <2>3 DEF AgentSays, TypeOK
    <3> DEFINE e == <<k, Head(inbox[b])>>
    <3>2. inbox[b] # <<>> /\ inbox' = inbox /\ alive' = alive /\ alive[b] = TRUE
      BY <2>3 DEF AgentSays
    <3>3. Head(inbox[b]) \in Messages /\ HasMessage(inbox[b], Head(inbox[b]))
      BY <3>2, HeadAndTail DEF HasMessage
    <3>4. e \in Event /\ ~IsEnd(e) /\ e[2] = Head(inbox[b])
      BY <3>3 DEF Event, IsEnd
    <3> HIDE DEF e
    <3>5. output'[b] = Append(output[b], e)
      BY <3>1 DEF e
    <3>6. /\ Pipe(output'[b], inbox[b], TRUE) /\ Turn(b)' = Turn(b)
          /\ output'[b] # <<>>
      <4>1. Pipe(output[b], inbox[b], TRUE)
        BY <3>2
      <4>2. /\ Pipe(Append(output[b], e), inbox[b], TRUE)
            /\ FrontTurn(Append(output[b], e), inbox[b]) = FrontTurn(output[b], inbox[b])
        BY <3>2, <3>4, <4>1, PipeSays
      <4>3. Append(output[b], e) # <<>>
        BY <3>4, Appended
      <4> QED
        BY <3>2, <3>5, <4>2, <4>3 DEF Turn
    <3>7. \A m : HasTurn(output'[b], m) => HasTurn(output[b], m) \/ m = Head(inbox[b])
      BY <3>4, <3>5, Appended DEF HasTurn
    <3> QED
      BY <2>0, <3>2, <3>3, <3>6, <3>7 DEF Pace
  <2>4. CASE c = b /\ AgentEndsTurn(b)
    <3> DEFINE e == <<"end", Head(inbox[b])>>
    <3>1. /\ inbox[b] # <<>> /\ output'[b] = Append(output[b], e)
          /\ inbox'[b] = Tail(inbox[b]) /\ alive' = alive /\ alive[b] = TRUE
      BY <2>4 DEF AgentEndsTurn, TypeOK
    <3>2. Head(inbox[b]) \in Messages /\ HasMessage(inbox[b], Head(inbox[b]))
      BY <3>1, HeadAndTail DEF HasMessage
    <3>3. e \in Event /\ IsEnd(e) /\ e[2] = Head(inbox[b])
      BY <3>2 DEF Event, IsEnd
    <3> HIDE DEF e
    <3>4. /\ Pipe(output'[b], inbox'[b], TRUE) /\ Turn(b)' = Turn(b)
          /\ output'[b] # <<>>
      <4>1. Pipe(output[b], inbox[b], TRUE)
        BY <3>1
      <4>2. /\ Pipe(Append(output[b], e), Tail(inbox[b]), TRUE)
            /\ FrontTurn(Append(output[b], e), Tail(inbox[b])) =
                 FrontTurn(output[b], inbox[b])
        BY <3>1, <3>3, <4>1, PipeEnds
      <4>3. Append(output[b], e) # <<>>
        BY <3>3, Appended
      <4> QED
        BY <3>1, <4>2, <4>3 DEF Turn
    <3>5. \A m : HasTurn(output'[b], m) => HasTurn(output[b], m) \/ m = Head(inbox[b])
      BY <3>1, <3>3, Appended DEF HasTurn
    <3>6. \A m : HasMessage(inbox'[b], m) => HasMessage(inbox[b], m)
      <4>1. /\ \A i \in 1..(Len(inbox[b]) - 1) :
                 i + 1 \in 1..Len(inbox[b]) /\ Tail(inbox[b])[i] = inbox[b][i + 1]
            /\ Len(Tail(inbox[b])) = Len(inbox[b]) - 1
        BY <3>1, HeadAndTail
      <4> QED
        BY <3>1, <4>1 DEF HasMessage
    <3> QED
      BY <2>0, <3>1, <3>2, <3>4, <3>5, <3>6 DEF Pace
  <2> QED
    BY <1>7, <2>1, <2>2, <2>3, <2>4 DEF Agent
<1>8. ASSUME NEW c \in Backends, HandleText(c) \/ HandleWork(c) \/ HandleTurnEnd(c)
      PROVE  P(b)' /\ Pace(b)'
  <2>0. UNCHANGED <<inbox, alive>>
    BY <1>8 DEF HandleText, HandleWork, HandleTurnEnd
  <2>1. CASE c # b
    <3>1. samePipe /\ sameTurn
      BY <1>8, <2>1, Elsewhere DEF Handler
    <3> QED
      BY <1>2, <3>1
  <2>2. CASE c = b
    <3> DEFINE k == Head(output[b])[2]
    <3>1. /\ output[b] # <<>> /\ output'[b] = Tail(output[b]) /\ handler[b] = "loop"
          /\ Turn(b) = k
      BY <1>8, <2>2
      DEF HandleText, HandleWork, HandleTurnEnd, NextEvent, Looping, TypeOK, Turn, FrontTurn
    <3>2. /\ Pipe(output'[b], inbox[b], alive[b]) /\ k \in Messages
          /\ IsEnd(Head(output[b])) =>
               ~HasTurn(output'[b], k) /\ ~HasMessage(inbox[b], k)
          /\ ~IsEnd(Head(output[b])) /\ alive[b] =>
               /\ output'[b] # <<>> \/ inbox[b] # <<>>
               /\ Turn(b)' = k
          /\ ~IsEnd(Head(output[b])) /\ inbox[b] = <<>> => Turn(b)' \in {k, None}
      BY <2>0, <3>1, PipeIsRead DEF Turn
    <3>3. ~alive[b] => inbox[b] = <<>>
      BY DEF Holding
    <3> HIDE DEF k
    <3>4. CASE HandleText(b)
      <4>1. /\ ~IsEnd(Head(output[b])) /\ text'[b].turn = k /\ active'[b]
            /\ UNCHANGED <<handler, pending, taken>>
        BY <3>4 DEF HandleText, NextEvent, IsEnd, TypeOK, k
      <4>2. taken[b] = None
        BY <3>1 DEF Holding
      <4> QED
        BY <2>0, <3>1, <3>2, <3>3, <4>1, <4>2 DEF Pace
    <3>5. CASE HandleWork(b)
      <4>1. /\ ~IsEnd(Head(output[b])) /\ active'[b]
            /\ UNCHANGED <<handler, pending, taken, text>>
        BY <3>5 DEF HandleWork, NextEvent, IsEnd, TypeOK
      <4>2. taken[b] = None
        BY <3>1 DEF Holding
      <4>3. text[b].turn \in {k, None}
        BY <3>1, <3>2 DEF Pace
      <4> QED
        BY <2>0, <3>1, <3>2, <3>3, <4>1, <4>2, <4>3 DEF Pace
    <3>6. CASE HandleTurnEnd(b)
      <4>1. /\ IsEnd(Head(output[b])) /\ ~active'[b] /\ text' = text
            /\ handler'[b] = "store" /\ pending'[b] = None /\ taken'[b] = pending[b]
        BY <3>6 DEF HandleTurnEnd, EndTurnAndTakePending, NextEvent, IsEnd, TypeOK
      <4>2. text[b].turn \in {k, None}
        BY <3>1, <3>2 DEF Pace
      <4> QED
        BY <2>0, <3>1, <3>2, <4>1, <4>2 DEF Pace
    <3> QED
      BY <1>8, <2>0, <2>2, <3>2, <3>4, <3>5, <3>6
  <2> QED
    BY <2>1, <2>2
<1>9. ASSUME NEW c \in Backends,
             \/ StoreTurn(c) \/ ClearSnapshot(c) \/ LeaveLoop(c) \/ FinalStore(c)
             \/ CheckStale(c) \/ FinalClear(c)
      PROVE  P(b)' /\ Pace(b)'
  <2>0. UNCHANGED <<output, inbox, alive>>
    BY <1>9 DEF StoreTurn, ClearSnapshot, LeaveLoop, FinalStore, CheckStale, FinalClear
  <2>1. CASE c # b
    <3>1. samePipe /\ sameTurn
      BY <1>9, <2>1, Elsewhere DEF Handler
    <3> QED
      BY <1>2, <3>1
  <2>2. CASE c = b
    <3>1. handler'[b] # "store"
      BY <1>9, <2>2
      DEF StoreTurn, ClearSnapshot, LeaveLoop, FinalStore, CheckStale, FinalClear, TypeOK
    <3>2. ~active'[b] /\ pending'[b] = None
      <4>1. LeaveLoop(b) => ~active'[b]
        BY DEF LeaveLoop, EndTurnAndTakePending, TypeOK
      <4>2. ~LeaveLoop(b) => ~active'[b]
        BY <1>9, <2>2 
        DEF StoreTurn, ClearSnapshot, FinalStore, CheckStale, FinalClear, TypeOK, Holding
      <4> QED
        BY <4>1, <4>2 DEF Holding
    <3>3. handler'[b] = "loop" => text'[b].turn = None
      BY <1>9, <2>2
      DEF StoreTurn, ClearSnapshot, LeaveLoop, FinalStore, CheckStale, FinalClear, TypeOK,
          Holding, Shape
    <3>4. taken'[b] # None => taken'[b] # text'[b].turn
      BY <1>9, <2>2
      DEF StoreTurn, ClearSnapshot, LeaveLoop, FinalStore, CheckStale, FinalClear, TypeOK,
          EndTurnAndTakePending, Pace
    <3> QED
      BY <1>1, <2>0, <3>1, <3>2, <3>3, <3>4 DEF Pace
  <2> QED
    BY <2>1, <2>2
<1>10. CASE GoDown
  <2>1. /\ output'[b] = <<>> /\ inbox'[b] = <<>> /\ ~active'[b] /\ ~alive'[b]
        /\ pending'[b] = None /\ taken'[b] = None /\ text'[b].turn = None
    BY <1>10 DEF GoDown, FreshBackends, NoText
  <2>2. Pipe(<<>>, <<>>, alive'[b])
    BY DEF Pipe
  <2> QED
    BY <2>1, <2>2 DEF Pace
<1> DEFINE same == <<output, inbox, alive, active, handler, text, pending, taken>>
<1>11. UNCHANGED same => P(b)' /\ Pace(b)'
  BY <1>2
<1>12. ASSUME NEW m \in Messages, SendFindsBackend(m) \/ StoreNow(m) \/ Store(m)
       PROVE  UNCHANGED same
  BY <1>12 DEF SendFindsBackend, StoreNow, Store
<1>13. ASSUME NEW c \in Backends, RecordSession(c) \/ FlushSnapshot(c) \/ Bury(c)
       PROVE  UNCHANGED same
  BY <1>13 DEF RecordSession, FlushSnapshot, Bury
<1>14. ASSUME Shutdown \/ KilledInInit \/ Recovery PROVE UNCHANGED same
  BY <1>14 DEF Shutdown, KilledInInit, Recovery, Restart, ConvertSnapshot,
               NothingToConvert, ClearConverted
<1>15. CASE UNCHANGED vars
  BY <1>11, <1>15 DEF vars
<1> QED
  BY <1>3, <1>4, <1>5, <1>6, <1>7, <1>8, <1>9, <1>10, <1>11, <1>12, <1>13, <1>14, <1>15
  DEF Next, Sender, Handler
-----------------------------------------------------------------------------
(* The handler of b stores its turn.                                       *)
Stores(b) == (StoreTurn(b) /\ app = "up") \/ FinalStore(b)

LEMMA RowsAreInLog ==
  ASSUME TypeOK, NEW r, NEW m PROVE Rows(r, m) \subseteq 1..Len(log) /\ Len(log) \in Nat
<1>1. log \in Seq(Row)
  BY DEF TypeOK
<1> QED
  BY <1>1 DEF Rows

(* Rows are never changed or removed; who adds one, and where.             *)
LEMMA LogGrows ==
  ASSUME IInv, [Next]_vars
  PROVE  /\ \A i \in DOMAIN log : i \in DOMAIN log' /\ log'[i] = log[i]
         /\ \A m \in Messages :
              /\ \/ Rows("user", m)' = Rows("user", m)
                 \/ /\ Rows("user", m)' = Rows("user", m) \cup {Len(log')}
                    /\ Len(log') > Len(log)
                    /\ Store(m) \/ \E b \in Backends : taken[b] = m /\ Stores(b)
              /\ \/ Rows("assistant", m)' = Rows("assistant", m)
                 \/ /\ Rows("assistant", m)' = Rows("assistant", m) \cup {Len(log) + 1}
                    /\ \E b \in Backends :
                         /\ text[b].turn = m /\ Stores(b)
                         /\ log'[Len(log) + 1].len = text[b].len
              /\ \/ Rows("recovered", m)' = Rows("recovered", m)
                 \/ /\ Rows("recovered", m)' = Rows("recovered", m) \cup {Len(log) + 1}
                    /\ ConvertSnapshot /\ snapshot.turn = m
<1> DEFINE Prefix == \A i \in DOMAIN log : i \in DOMAIN log' /\ log'[i] = log[i]
           User(m) ==
             \/ Rows("user", m)' = Rows("user", m)
             \/ /\ Rows("user", m)' = Rows("user", m) \cup {Len(log')}
                /\ Len(log') > Len(log)
                /\ Store(m) \/ \E b \in Backends : taken[b] = m /\ Stores(b)
           Answer(m) ==
             \/ Rows("assistant", m)' = Rows("assistant", m)
             \/ /\ Rows("assistant", m)' = Rows("assistant", m) \cup {Len(log) + 1}
                /\ \E b \in Backends :
                     /\ text[b].turn = m /\ Stores(b)
                     /\ log'[Len(log) + 1].len = text[b].len
           Recovered(m) ==
             \/ Rows("recovered", m)' = Rows("recovered", m)
             \/ /\ Rows("recovered", m)' = Rows("recovered", m) \cup {Len(log) + 1}
                /\ ConvertSnapshot /\ snapshot.turn = m
           Good == Prefix /\ \A m \in Messages : User(m) /\ Answer(m) /\ Recovered(m)
<1> SUFFICES Good
  OBVIOUS
<1>0. TypeOK /\ TypeOK' /\ Holding /\ log \in Seq(Row) /\ log' \in Seq(Row)
      /\ Len(log) \in Nat /\ Len(log') \in Nat
  <2>1. TypeOK /\ TypeOK' /\ Holding
    BY TypeStep DEF IInv
  <2>2. log \in Seq(Row) /\ log' \in Seq(Row)
    BY <2>1 DEF TypeOK
  <2> QED
    BY <2>1, <2>2
<1>1. log' = log => Good
  BY DEF Rows
<1>2. ASSUME NEW k \in Messages, Store(k) PROVE Good
  <2>1. UserRow(k) \in Row /\ log' = Append(log, UserRow(k))
    BY <1>2, Numbers DEF Store, UserRow, Row
  <2>2. /\ Prefix /\ Len(log') = Len(log) + 1
        /\ \A r, m : Rows(r, m)' =
             Rows(r, m) \cup (IF UserRow(k).role = r /\ UserRow(k).turn = m
                              THEN {Len(log')} ELSE {})
    BY <1>0, <2>1, RowIsStored
  <2>3. UserRow(k).role = "user" /\ UserRow(k).turn = k
    BY DEF UserRow
  <2>4. ASSUME NEW m \in Messages PROVE User(m) /\ Answer(m) /\ Recovered(m)
    <3>1. /\ Rows("assistant", m)' = Rows("assistant", m)
          /\ Rows("recovered", m)' = Rows("recovered", m)
          /\ m # k => Rows("user", m)' = Rows("user", m)
          /\ m = k => Rows("user", m)' = Rows("user", m) \cup {Len(log')}
      BY <2>2, <2>3
    <3>2. Len(log') > Len(log)
      BY <1>0, <2>2
    <3> QED
      BY <1>2, <3>1, <3>2
  <2> QED
    BY <2>2, <2>4
<1>3. ASSUME NEW b \in Backends, Stores(b) PROVE Good
  <2>1. log' = log \o TurnRows(b)
    BY <1>3 DEF Stores, StoreTurn, FinalStore
  <2>2. /\ Prefix
        /\ \A m \in Messages :
             /\ Rows("assistant", m)' =
                  Rows("assistant", m)
                  \cup (IF text[b].turn = m THEN {Len(log) + 1} ELSE {})
             /\ Rows("user", m)' =
                  Rows("user", m) \cup (IF taken[b] = m THEN {Len(log')} ELSE {})
             /\ Rows("recovered", m)' = Rows("recovered", m)
        /\ text[b].turn # None => log'[Len(log) + 1].len = text[b].len
    BY <1>0, <2>1, TurnIsStored
  <2>3. taken[b] # None => Len(log') > Len(log)
    <3>1. TurnRows(b) \in Seq(Row) /\ (taken[b] # None => Len(TurnRows(b)) >= 1)
      BY <1>0, RowsToAppend
    <3> QED
      BY <1>0, <2>1, <3>1
  <2>4. ASSUME NEW m \in Messages PROVE User(m) /\ Answer(m) /\ Recovered(m)
    <3>1. m # None
      BY Numbers
    <3>2. User(m)
      BY <1>3, <2>2, <2>3, <3>1
    <3>3. Answer(m)
      <4>1. CASE text[b].turn = m
        BY <1>3, <2>2, <3>1, <4>1
      <4>2. CASE text[b].turn # m
        BY <2>2, <4>2
      <4> QED
        BY <4>1, <4>2
    <3> QED
      BY <2>2, <3>2, <3>3
  <2> QED
    BY <2>2, <2>4
<1>4. ASSUME NEW b \in Backends, Bury(b) PROVE Good
  <2>1. ErrorRow \in Row
    BY Numbers DEF ErrorRow, Row
  <2>2. CASE log' = Append(log, ErrorRow)
    <3>1. /\ Prefix
          /\ \A r, m : Rows(r, m)' =
               Rows(r, m) \cup (IF ErrorRow.role = r /\ ErrorRow.turn = m
                                THEN {Len(log')} ELSE {})
      BY <1>0, <2>1, <2>2, RowIsStored
    <3>2. \A r \in {"user", "assistant", "recovered"} : \A m : Rows(r, m)' = Rows(r, m)
      BY <3>1 DEF ErrorRow
    <3> QED
      BY <3>1, <3>2
  <2> QED
    BY <1>1, <1>4, <2>2 DEF Bury
<1>5. ASSUME ConvertSnapshot PROVE Good
  <2> DEFINE row == TextRow("recovered", snapshot)
  <2>1. CASE log' = Append(log, row)
    <3>1. row \in Row /\ row.role = "recovered" /\ row.turn = snapshot.turn
      BY <1>0, Numbers DEF TypeOK, TextRow, Row, Text
    <3> HIDE DEF row
    <3>2. /\ Prefix /\ Len(log') = Len(log) + 1
          /\ \A r, m : Rows(r, m)' =
               Rows(r, m) \cup (IF row.role = r /\ row.turn = m THEN {Len(log')} ELSE {})
      BY <1>0, <2>1, <3>1, RowIsStored
    <3>3. ASSUME NEW m \in Messages PROVE User(m) /\ Answer(m) /\ Recovered(m)
      <4>1. /\ Rows("user", m)' = Rows("user", m)
            /\ Rows("assistant", m)' = Rows("assistant", m)
            /\ snapshot.turn # m => Rows("recovered", m)' = Rows("recovered", m)
            /\ snapshot.turn = m =>
                 Rows("recovered", m)' = Rows("recovered", m) \cup {Len(log) + 1}
        BY <3>1, <3>2
      <4> QED
        BY <1>5, <4>1
    <3> QED
      BY <3>2, <3>3
  <2> QED
    BY <1>1, <1>5, <2>1 DEF ConvertSnapshot
<1>6. ASSUME NEW m \in Messages,
             \/ SendFindsBackend(m) \/ SendRestarts(m) \/ Defer(m) \/ StoreNow(m)
             \/ Deliver(m) \/ DeliverFails(m)
      PROVE  log' = log
  BY <1>6 DEF SendFindsBackend, SendRestarts, Defer, StoreNow, Deliver, DeliverFails
<1>7. ASSUME NEW b \in Backends,
             \/ Agent(b) \/ RecordSession(b) \/ HandleText(b) \/ HandleWork(b)
             \/ FlushSnapshot(b) \/ HandleTurnEnd(b) \/ (StoreTurn(b) /\ app # "up")
             \/ ClearSnapshot(b) \/ LeaveLoop(b) \/ CheckStale(b) \/ FinalClear(b)
      PROVE  log' = log
  BY <1>7 DEF Agent, AgentSays, AgentEndsTurn, AgentDies, RecordSession, HandleText,
     HandleWork, FlushSnapshot, HandleTurnEnd, StoreTurn, ClearSnapshot, LeaveLoop,
     CheckStale, FinalClear
<1>8. ASSUME \/ Shutdown \/ GoDown \/ KilledInInit \/ Restart \/ NothingToConvert
             \/ ClearConverted
      PROVE  log' = log
  BY <1>8 DEF Shutdown, GoDown, KilledInInit, Restart, NothingToConvert, ClearConverted
<1>9. CASE UNCHANGED vars
  BY <1>1, <1>9 DEF vars
<1> HIDE DEF Good
<1> QED
  BY <1>1, <1>2, <1>3, <1>4, <1>5, <1>6, <1>7, <1>8, <1>9
  DEF Next, Sender, Handler, Recovery, Stores

(* The stages of SendConversationMessage.                                  *)
LEMMA SendMoves ==
  ASSUME IInv, [Next]_vars, NEW m \in Messages
  PROVE  /\ send[m] = "acked" => send'[m] = "acked"
         /\ send'[m] \in {"new", "decide", "store"} => send[m] \in {"new", "decide", "store"}
         /\ send'[m] \in {"decide", "store", "deliver"} =>
              target'[m] \in Backends /\ (send[m] = "new" \/ target'[m] = target[m])
         /\ send'[m] = "deliver" => send[m] = "deliver" \/ Defer(m) \/ Store(m)
         /\ send'[m] = "acked" => send[m] = "acked" \/ Deliver(m)
<1> DEFINE Good ==
      /\ send[m] = "acked" => send'[m] = "acked"
      /\ send'[m] \in {"new", "decide", "store"} => send[m] \in {"new", "decide", "store"}
      /\ send'[m] \in {"decide", "store", "deliver"} =>
           target'[m] \in Backends /\ (send[m] = "new" \/ target'[m] = target[m])
      /\ send'[m] = "deliver" => send[m] = "deliver" \/ Defer(m) \/ Store(m)
      /\ send'[m] = "acked" => send[m] = "acked" \/ Deliver(m)
<1>0. /\ TypeOK
      /\ send[m] \in {"decide", "store", "deliver"} => target[m] \in Backends
  BY DEF IInv, Sent
<1> USE <1>0 DEF TypeOK, Returns
<1>1. UNCHANGED sendVars => Good
  OBVIOUS
<1>2. ASSUME NEW k \in Messages, SendFindsBackend(k) PROVE Good
  BY <1>2, Numbers DEF SendFindsBackend, Begins
<1>3. ASSUME NEW k \in Messages, SendRestarts(k) PROVE Good
  <2>1. started' \in Backends
    BY <1>3, Numbers DEF SendRestarts, Backends
  <2> QED
    BY <1>3, <2>1 DEF SendRestarts, Begins
<1>4. ASSUME NEW k \in Messages, Defer(k) PROVE Good
  BY <1>4 DEF Defer
<1>5. ASSUME NEW k \in Messages, StoreNow(k) PROVE Good
  BY <1>5 DEF StoreNow
<1>6. ASSUME NEW k \in Messages, Store(k) PROVE Good
  BY <1>6 DEF Store
<1>7. ASSUME NEW k \in Messages, Deliver(k) PROVE Good
  BY <1>7 DEF Deliver
<1>8. ASSUME NEW k \in Messages, DeliverFails(k) PROVE Good
  BY <1>8 DEF DeliverFails
<1>9. ASSUME GoDown PROVE Good
  BY <1>9 DEF GoDown
<1>10. ASSUME NEW b \in Backends, Agent(b) PROVE UNCHANGED sendVars
  BY <1>10 DEF Agent, AgentSays, AgentEndsTurn, AgentDies
<1>11. ASSUME NEW b \in Backends, Handler(b) \/ Bury(b) PROVE UNCHANGED sendVars
  BY <1>11 DEF Handler, RecordSession, HandleText, HandleWork, FlushSnapshot,
     HandleTurnEnd, StoreTurn, ClearSnapshot, LeaveLoop, FinalStore, CheckStale,
     FinalClear, Bury
<1>12. ASSUME Shutdown \/ KilledInInit \/ Recovery PROVE UNCHANGED sendVars
  BY <1>12 DEF Shutdown, KilledInInit, Recovery, Restart, ConvertSnapshot,
               NothingToConvert, ClearConverted
<1>13. ASSUME UNCHANGED vars PROVE Good
  BY <1>1, <1>13 DEF vars
<1> HIDE DEF Good, TypeOK, Returns
<1>14. Good
  BY <1>1, <1>2, <1>3, <1>4, <1>5, <1>6, <1>7, <1>8, <1>9, <1>10, <1>11, <1>12, <1>13
  DEF Next, Sender
<1> QED
  BY <1>14 DEF Good

(* What the snapshot shows was in a text.                                  *)
LEMMA SnapshotIsFlushed ==
  ASSUME IInv, [Next]_vars
  PROVE  \/ snapshot' = snapshot \/ snapshot' = NoText
         \/ \E b \in Backends : handler[b] = "loop" /\ snapshot' = text[b]
<1> DEFINE Good == \/ snapshot' = snapshot \/ snapshot' = NoText
                   \/ \E b \in Backends : handler[b] = "loop" /\ snapshot' = text[b]
<1>1. ASSUME NEW b \in Backends, FlushSnapshot(b) \/ LeaveLoop(b) PROVE Good
  BY <1>1 DEF FlushSnapshot, LeaveLoop, Looping
<1>2. ASSUME NEW b \in Backends, ClearSnapshot(b) \/ FinalClear(b) PROVE Good
  BY <1>2 DEF ClearSnapshot, FinalClear
<1>3. ASSUME ClearConverted PROVE Good
  BY <1>3 DEF ClearConverted
<1>4. ASSUME NEW m \in Messages, Sender(m) PROVE snapshot' = snapshot
  BY <1>4 DEF Sender, SendFindsBackend, SendRestarts, Defer, StoreNow, Store, Deliver,
              DeliverFails
<1>5. ASSUME NEW b \in Backends,
             \/ Agent(b) \/ RecordSession(b) \/ HandleText(b) \/ HandleWork(b)
             \/ HandleTurnEnd(b) \/ StoreTurn(b) \/ FinalStore(b) \/ CheckStale(b) \/ Bury(b)
      PROVE  snapshot' = snapshot
  BY <1>5 DEF Agent, AgentSays, AgentEndsTurn, AgentDies, RecordSession, HandleText,
     HandleWork, HandleTurnEnd, StoreTurn, FinalStore, CheckStale, Bury
<1>6. ASSUME \/ Shutdown \/ GoDown \/ KilledInInit \/ Restart \/ ConvertSnapshot
             \/ NothingToConvert
      PROVE  snapshot' = snapshot
  BY <1>6 DEF Shutdown, GoDown, KilledInInit, Restart, ConvertSnapshot, NothingToConvert
<1>7. ASSUME UNCHANGED vars PROVE snapshot' = snapshot
  BY <1>7 DEF vars
<1> QED
  BY <1>1, <1>2, <1>3, <1>4, <1>5, <1>6, <1>7 DEF Next, Handler, Recovery

(* A message not yet acknowledged has left no trace of an answer, and one  *)
(* not yet deferred nor stored none at all.                                *)
LEMMA SentStep == IInv /\ [Next]_vars => Sent'
<1> SUFFICES ASSUME IInv, [Next]_vars, NEW m \in Messages
             PROVE  /\ send'[m] \in {"decide", "store", "deliver"} => target'[m] \in Backends
                    /\ send'[m] # "acked" =>
                         /\ snapshot'.turn # m /\ AnswerRows(m)' = {}
                         /\ \A b \in Backends : ~At(b, m)'
                    /\ send'[m] \in {"new", "decide", "store"} =>
                         /\ Rows("user", m)' = {}
                         /\ \A b \in Backends : ~Deferred(b, m)'
  BY DEF Sent
<1>0. TypeOK /\ Sent /\ m # None
  BY Numbers DEF IInv
<1>1. send'[m] \in {"decide", "store", "deliver"} => target'[m] \in Backends
  BY SendMoves
<1>2. ASSUME send'[m] # "acked"
      PROVE  /\ snapshot'.turn # m /\ AnswerRows(m)' = {}
             /\ \A b \in Backends : ~At(b, m)'
  <2>1. send[m] # "acked"
    BY <1>2, SendMoves
  <2>2. /\ snapshot.turn # m /\ AnswerRows(m) = {}
        /\ \A b \in Backends : ~At(b, m) /\ text[b].turn # m
    BY <1>0, <2>1 DEF Sent, At
  <2>3. snapshot'.turn # m
    BY <1>0, <2>2, SnapshotIsFlushed DEF NoText
  <2>4. Rows("assistant", m)' = {} /\ Rows("recovered", m)' = {}
    BY <2>2, LogGrows DEF AnswerRows
  <2>5. ~Deliver(m)
    BY <1>0, <1>2 DEF Deliver, Returns, TypeOK
  <2>6. \A b \in Backends : ~At(b, m)'
    BY <2>2, <2>5, Travels
  <2> QED
    BY <2>3, <2>4, <2>6 DEF AnswerRows
<1>3. ASSUME send'[m] \in {"new", "decide", "store"}
      PROVE  /\ Rows("user", m)' = {}
             /\ \A b \in Backends : ~Deferred(b, m)'
  <2>1. send[m] \in {"new", "decide", "store"}
    BY <1>3, SendMoves
  <2>2. Rows("user", m) = {} /\ \A b \in Backends : ~Deferred(b, m) /\ taken[b] # m
    BY <1>0, <2>1 DEF Sent, Deferred
  <2>3. ~Store(m) /\ ~Defer(m)
    BY <1>0, <1>3 DEF Store, Defer, TypeOK
  <2>4. Rows("user", m)' = {}
    BY <2>2, <2>3, LogGrows
  <2>5. \A b \in Backends : ~Deferred(b, m)'
    BY <2>2, <2>3, Defers
  <2> QED
    BY <2>4, <2>5
<1> QED
  BY <1>1, <1>2, <1>3

LEMMA OneBackendStep == IInv /\ [Next]_vars => OneBackend'
<1> SUFFICES ASSUME IInv, [Next]_vars,
                    NEW m \in Messages, NEW b \in Backends, NEW c \in Backends
             PROVE  /\ At(b, m)' /\ At(c, m)' => b = c
                    /\ Deferred(b, m)' /\ At(c, m)' => b = c
                    /\ Deferred(b, m)' /\ Deferred(c, m)' => b = c
                    /\ Deferred(b, m)' /\ send'[m] = "deliver" => target'[m] = b
  BY DEF OneBackend
<1>0. TypeOK /\ Sent /\ OneBackend
  BY DEF IInv
<1>1. Deliver(m) => send[m] = "deliver" /\ \A a \in Backends : ~At(a, m)
  BY <1>0 DEF Deliver, Sent
<1>2. Defer(m) => /\ send[m] = "decide" 
                  /\ \A a \in Backends : ~Deferred(a, m) /\ ~At(a, m)
  BY <1>0 DEF Defer, Sent
<1>3. /\ At(b, m)' => At(b, m) \/ (Deliver(m) /\ target[m] = b)
      /\ At(c, m)' => At(c, m) \/ (Deliver(m) /\ target[m] = c)
  BY Travels
<1>4. /\ Deferred(b, m)' => Deferred(b, m) \/ (Defer(m) /\ target[m] = b)
      /\ Deferred(c, m)' => Deferred(c, m) \/ (Defer(m) /\ target[m] = c)
  BY Defers
<1>5. At(b, m)' /\ At(c, m)' => b = c
  BY <1>0, <1>1, <1>3 DEF OneBackend
<1>6. Deferred(b, m)' /\ At(c, m)' => b = c
  BY <1>0, <1>1, <1>2, <1>3, <1>4 DEF OneBackend
<1>7. Deferred(b, m)' /\ Deferred(c, m)' => b = c
  BY <1>0, <1>2, <1>4 DEF OneBackend
<1>8. ASSUME Deferred(b, m)', send'[m] = "deliver" PROVE target'[m] = b
  <2>1. target'[m] = target[m] \/ send[m] = "new"
    BY <1>8, SendMoves
  <2>2. CASE Defer(m) /\ target[m] = b
    BY <1>2, <2>1, <2>2
  <2>3. CASE Deferred(b, m)
    <3>1. send[m] \notin {"new", "decide", "store"}
      BY <1>0, <2>3 DEF Sent
    <3>2. send[m] = "deliver"
      BY <1>8, <3>1, SendMoves DEF Defer, Store
    <3> QED
      BY <1>0, <2>1, <2>3, <3>2 DEF OneBackend
  <2> QED
    BY <1>4, <1>8, <2>2, <2>3
<1> QED
  BY <1>5, <1>6, <1>7, <1>8

(* A handler that stores its turn holds nothing afterwards.                *)
LEMMA StoringEmpties ==
  ASSUME IInv, [Next]_vars, NEW b \in Backends, Stores(b)
  PROVE  /\ handler[b] \in {"store", "final"} /\ ~active[b] /\ pending[b] = None
         /\ text'[b].turn = None /\ pending'[b] = None /\ taken'[b] = None
         /\ handler'[b] \in {"clear", "check"}
         /\ handler'[b] = "clear" => handler[b] = "store"
         /\ output' = output /\ inbox' = inbox /\ alive' = alive /\ app = app'
         /\ \A c \in Backends : c # b =>
              text'[c] = text[c] /\ handler'[c] = handler[c]
<1>1. TypeOK /\ Holding
  BY DEF IInv
<1>2. /\ handler[b] \in {"store", "final"} /\ pending' = pending /\ taken'[b] = None
      /\ text'[b].turn = None
      /\ output' = output /\ inbox' = inbox /\ alive' = alive /\ app = app'
  BY <1>1 DEF Stores, StoreTurn, FinalStore, TypeOK, NoText
<1>3. /\ handler'[b] \in {"clear", "check"} /\ (handler'[b] = "clear" => handler[b] = "store")
      /\ \A c \in Backends : c # b =>
           text'[c] = text[c] /\ handler'[c] = handler[c]
  BY <1>1 DEF Stores, StoreTurn, FinalStore, TypeOK
<1> QED
  BY <1>1, <1>2, <1>3 DEF Holding

LEMMA NotYetStoredStep == IInv /\ [Next]_vars => NotYetStored'
<1> SUFFICES ASSUME IInv, [Next]_vars, NEW m \in Messages, NEW b \in Backends,
                    Deferred(b, m)'
             PROVE  Rows("user", m)' = {} /\ AnswerRows(m)' = {}
  BY DEF NotYetStored
<1>0. TypeOK /\ Sent /\ OneBackend /\ NotYetStored /\ Holding /\ AllDown /\ m # None
  BY Numbers DEF IInv
<1>1. Rows("user", m) = {} /\ AnswerRows(m) = {}
  <2>1. CASE Deferred(b, m)
    BY <1>0, <2>1 DEF NotYetStored
  <2>2. CASE Defer(m)
    BY <1>0, <2>2 DEF Defer, Sent
  <2> QED
    BY <2>1, <2>2, Defers
<1>2. ~Stores(b)
  BY <1>0, StoringEmpties DEF Deferred
<1>3. CASE Defer(m)
  <2>1. log' = log
    BY <1>3 DEF Defer
  <2> QED
    BY <1>1, <2>1 DEF Rows, AnswerRows
<1>4. CASE ~Defer(m)
  <2>1. Deferred(b, m)
    BY <1>4, Defers
  <2>2. \A c \in Backends : c # b => ~At(c, m) /\ ~Deferred(c, m)
    BY <1>0, <2>1 DEF OneBackend
  <2>3. ~Store(m)
    BY <1>0, <2>1 DEF Store, Sent
  <2>4. Rows("user", m)' = {}
    BY <1>1, <1>2, <2>2, <2>3, LogGrows DEF Deferred
  <2>5. Rows("assistant", m)' = {}
    BY <1>1, <1>2, <2>2, LogGrows DEF At, AnswerRows
  <2>6. ~ConvertSnapshot
    BY <1>0, <2>1 DEF ConvertSnapshot, AllDown, Holding, Deferred
  <2>7. Rows("recovered", m)' = {}
    BY <1>1, <2>6, LogGrows DEF AnswerRows
  <2> QED
    BY <2>4, <2>5, <2>7 DEF AnswerRows
<1> QED
  BY <1>3, <1>4

(* A text comes from an event its handler has read in the loop.            *)
LEMMA TextIsRead ==
  ASSUME IInv, [Next]_vars, NEW b \in Backends, NEW m \in Messages, text'[b].turn = m
  PROVE  \/ text[b].turn = m
         \/ handler[b] = "loop" /\ HasTurn(output[b], m)
<1> DEFINE Good == text[b].turn = m \/ (handler[b] = "loop" /\ HasTurn(output[b], m))
<1>0. TypeOK /\ output[b] \in Seq(Event) /\ m # None
      /\ Pipe(output[b], inbox[b], alive[b]) /\ inbox[b] \in Seq(Messages)
  BY Numbers DEF IInv, TypeOK, Order
<1>1. text'[b] = text[b] => Good
  OBVIOUS
<1>2. ASSUME NEW c \in Backends, HandleText(c) PROVE Good
  <2>1. CASE c = b
    <3>1. /\ output[b] # <<>> /\ handler[b] = "loop" /\ text'[b].turn = Head(output[b])[2]
      BY <1>0, <1>2, <2>1 DEF HandleText, Looping, NextEvent, TypeOK
    <3> QED
      BY <1>0, <3>1, PipeIsRead
  <2>2. CASE c # b
    BY <1>0, <1>1, <1>2, <2>2 DEF HandleText, TypeOK
  <2> QED
    BY <2>1, <2>2
<1>3. ASSUME NEW c \in Backends, StoreTurn(c) \/ FinalStore(c) PROVE Good
  <2>1. text' = [text EXCEPT ![c] = NoText]
    BY <1>3 DEF StoreTurn, FinalStore
  <2>2. text'[b] = text[b] \/ text'[b].turn = None
    BY <1>0, <2>1 DEF TypeOK, NoText
  <2> QED
    BY <1>0, <1>1, <2>2
<1>4. ASSUME GoDown PROVE Good
  BY <1>0, <1>4 DEF GoDown, FreshBackends, NoText
<1>5. ASSUME NEW k \in Messages, Sender(k) PROVE text' = text
  BY <1>5 DEF Sender, SendFindsBackend, SendRestarts, Defer, StoreNow, Store, Deliver,
              DeliverFails
<1>6. ASSUME NEW c \in Backends,
             \/ Agent(c) \/ RecordSession(c) \/ HandleWork(c) \/ FlushSnapshot(c)
             \/ HandleTurnEnd(c) \/ ClearSnapshot(c) \/ LeaveLoop(c) \/ CheckStale(c)
             \/ FinalClear(c) \/ Bury(c)
      PROVE  text' = text
  BY <1>6 DEF Agent, AgentSays, AgentEndsTurn, AgentDies, RecordSession, HandleWork,
     FlushSnapshot, HandleTurnEnd, ClearSnapshot, LeaveLoop, CheckStale, FinalClear, Bury
<1>7. ASSUME Shutdown \/ KilledInInit \/ Recovery PROVE text' = text
  BY <1>7 DEF Shutdown, KilledInInit, Recovery, Restart, ConvertSnapshot,
              NothingToConvert, ClearConverted
<1>8. ASSUME UNCHANGED vars PROVE text' = text
  BY <1>8 DEF vars
<1> HIDE DEF Good
<1>9. Good
  BY <1>1, <1>2, <1>3, <1>4, <1>5, <1>6, <1>7, <1>8 DEF Next, Handler
<1> QED
  BY <1>9 DEF Good

(* A handler that reads has read before, or its backend is new.            *)
Reads(b) == handler[b] \in {"loop", "store", "clear"}

LEMMA ReaderIsOld ==
  ASSUME IInv, [Next]_vars, NEW b \in Backends, NEW m \in Messages, Reads(b)', At(b, m)
  PROVE  Reads(b)
<1>0. TypeOK /\ Fresh /\ Holding /\ m # None
  BY Numbers DEF IInv
<1>1. handler'[b] = handler[b] => Reads(b)
  BY DEF Reads
<1>2. ASSUME NEW k \in Messages, SendRestarts(k) PROVE Reads(b)
  <2>1. CASE b = started'
    <3>1. started \in Nat /\ started' = started + 1 /\ b > started
      BY <1>0, <1>2, <2>1, Numbers DEF SendRestarts, TypeOK
    <3>2. output[b] = <<>> /\ inbox[b] = <<>> /\ text[b].turn = None
      BY <1>0, <3>1 DEF Fresh, Holding, Shape
    <3>3. ~At(b, m)
      BY <1>0, <3>2 DEF At, HasTurn, HasMessage
    <3> QED
      BY <3>3
  <2>2. CASE b # started'
    BY <1>0, <1>1, <1>2, <2>2 DEF SendRestarts, TypeOK
  <2> QED
    BY <2>1, <2>2
<1>3. ASSUME NEW c \in Backends, Handler(c) PROVE Reads(b)
  <2>1. CASE c # b
    BY <1>0, <1>1, <1>3, <2>1, Elsewhere
  <2>2. CASE c = b
    BY <1>0, <1>3, <2>2
    DEF Handler, RecordSession, HandleText, HandleWork, FlushSnapshot, HandleTurnEnd,
        StoreTurn, ClearSnapshot, LeaveLoop, FinalStore, CheckStale, FinalClear,
        Looping, Reads, TypeOK
  <2> QED
    BY <2>1, <2>2
<1>4. ASSUME GoDown PROVE Reads(b)
  BY <1>4 DEF GoDown, Reads
<1>5. ASSUME NEW k \in Messages,
             \/ SendFindsBackend(k) \/ Defer(k) \/ StoreNow(k) \/ Store(k) \/ Deliver(k)
             \/ DeliverFails(k)
      PROVE  handler' = handler
  BY <1>5 DEF SendFindsBackend, Defer, StoreNow, Store, Deliver, DeliverFails
<1>6. ASSUME NEW c \in Backends, Agent(c) \/ Bury(c) PROVE handler' = handler
  BY <1>6 DEF Agent, AgentSays, AgentEndsTurn, AgentDies, Bury
<1>7. ASSUME Shutdown \/ KilledInInit \/ Recovery PROVE handler' = handler
  BY <1>7 DEF Shutdown, KilledInInit, Recovery, Restart, ConvertSnapshot,
              NothingToConvert, ClearConverted
<1>8. ASSUME UNCHANGED vars PROVE handler' = handler
  BY <1>8 DEF vars
<1> QED
  BY <1>1, <1>2, <1>3, <1>4, <1>5, <1>6, <1>7, <1>8 DEF Next, Sender

LEMMA AnswerIsOverStep == IInv /\ [Next]_vars => AnswerIsOver'
<1> SUFFICES ASSUME IInv, [Next]_vars, NEW m \in Messages, NEW b \in Backends,
                    Rows("assistant", m)' # {}
             PROVE  text'[b].turn # m /\ (Reads(b)' => ~At(b, m)')
  BY DEF AnswerIsOver, Reads
<1>0. TypeOK /\ Sent /\ OneBackend /\ AnswerIsOver /\ Pace(b) /\ m # None
  BY Numbers DEF IInv, Order
<1>1. CASE Rows("assistant", m) # {}
  <2>1. text[b].turn # m /\ (Reads(b) => ~At(b, m))
    BY <1>0, <1>1 DEF AnswerIsOver, Reads
  <2>2. text'[b].turn # m
    BY <2>1, TextIsRead DEF Reads, At
  <2>3. ~Deliver(m)
    BY <1>0, <1>1 DEF Deliver, Sent, AnswerRows
  <2>4. Reads(b)' => ~At(b, m)'
    BY <2>1, <2>3, Travels, ReaderIsOld
  <2> QED
    BY <2>2, <2>4
<1>2. CASE Rows("assistant", m) = {}
  <2>1. PICK c \in Backends : text[c].turn = m /\ Stores(c)
    BY <1>2, LogGrows
  <2>2. At(c, m)
    BY <2>1 DEF At
  <2>3. ~Deliver(m)
    BY <1>0, <2>2 DEF Deliver, Sent
  <2>4. CASE b = c
    <3>1. text'[b].turn # m
      BY <1>0, <2>1, <2>4, StoringEmpties
    <3>2. ASSUME Reads(b)' PROVE ~At(b, m)'
      <4>1. handler[b] = "store" /\ output' = output /\ inbox' = inbox
        BY <2>1, <2>4, <3>2, StoringEmpties DEF Reads
      <4>2. ~HasTurn(output[b], m) /\ ~HasMessage(inbox[b], m)
        BY <1>0, <2>1, <2>4, <4>1 DEF Pace
      <4> QED
        BY <3>1, <4>1, <4>2 DEF At
    <3> QED
      BY <3>1, <3>2
  <2>5. CASE b # c
    <3>1. ~At(b, m)
      BY <1>0, <2>2, <2>5 DEF OneBackend
    <3>2. ~At(b, m)'
      BY <2>3, <3>1, Travels
    <3> QED
      BY <3>2 DEF At
  <2> QED
    BY <2>4, <2>5
<1> QED
  BY <1>1, <1>2

(* A deferred message is given up only where the code gives it up.         *)
LEMMA DeferredIsKept ==
  ASSUME IInv, [Next]_vars, NEW b \in Backends, NEW m \in Messages, Deferred(b, m)
  PROVE  \/ Deferred(b, m)' \/ m \in excused' \/ Rows("user", m)' # {}
         \/ send'[m] \notin {"deliver", "acked"}
<1> DEFINE Good == \/ Deferred(b, m)' \/ m \in excused' \/ Rows("user", m)' # {}
                   \/ send'[m] \notin {"deliver", "acked"}
<1>0. TypeOK /\ Holding /\ m # None
  BY Numbers DEF IInv
<1>1. pending'[b] = pending[b] /\ taken'[b] = taken[b] => Good
  BY DEF Deferred
<1>2. ASSUME NEW k \in Messages, Defer(k) PROVE Good
  BY <1>0, <1>2 DEF Defer, Deferred, TypeOK
<1>3. ASSUME NEW k \in Messages, DeliverFails(k) PROVE Good
  BY <1>0, <1>3 DEF DeliverFails, Deferred, TypeOK
<1>4. ASSUME NEW c \in Backends, HandleTurnEnd(c) \/ LeaveLoop(c) PROVE Good
  <2>1. CASE c = b
    <3>1. handler[b] = "loop" /\ taken'[b] = pending[b]
      BY <1>0, <1>4, <2>1
      DEF HandleTurnEnd, LeaveLoop, Looping, EndTurnAndTakePending, TypeOK
    <3>2. taken[b] = None
      BY <1>0, <3>1 DEF Holding
    <3> QED
      BY <1>0, <3>1, <3>2 DEF Deferred
  <2>2. CASE c # b
    BY <1>0, <1>1, <1>4, <2>2, Elsewhere DEF Handler
  <2> QED
    BY <2>1, <2>2
<1>5. ASSUME NEW c \in Backends, StoreTurn(c) \/ FinalStore(c) PROVE Good
  <2>1. CASE c = b /\ taken[b] = m
    <3>1. CASE Stores(b)
      <4>1. log' = log \o TurnRows(b)
        BY <3>1 DEF Stores, StoreTurn, FinalStore
      <4>2. Len(log') \in Rows("user", m)'
        BY <1>0, <2>1, <4>1, TurnIsStored
      <4> QED
        BY <4>2
    <3>2. CASE ~Stores(b)
      BY <1>0, <1>5, <2>1, <3>2 DEF StoreTurn, Stores
    <3> QED
      BY <3>1, <3>2
  <2>2. CASE c = b /\ taken[b] # m
    BY <1>0, <1>5, <2>2 DEF StoreTurn, FinalStore, Deferred
  <2>3. CASE c # b
    BY <1>0, <1>1, <1>5, <2>3, Elsewhere DEF Handler
  <2> QED
    BY <2>1, <2>2, <2>3
<1>6. ASSUME GoDown PROVE Good
  BY <1>0, <1>6 DEF GoDown, TypeOK
<1>7. ASSUME NEW k \in Messages,
             \/ SendFindsBackend(k) \/ SendRestarts(k) \/ StoreNow(k) \/ Store(k)
             \/ Deliver(k)
      PROVE  UNCHANGED <<pending, taken>>
  BY <1>7 DEF SendFindsBackend, SendRestarts, StoreNow, Store, Deliver
<1>8. ASSUME NEW c \in Backends,
             \/ Agent(c) \/ RecordSession(c) \/ HandleText(c) \/ HandleWork(c)
             \/ FlushSnapshot(c) \/ ClearSnapshot(c) \/ CheckStale(c) \/ FinalClear(c)
             \/ Bury(c)
      PROVE  UNCHANGED <<pending, taken>>
  BY <1>8 DEF Agent, AgentSays, AgentEndsTurn, AgentDies, RecordSession, HandleText,
     HandleWork, FlushSnapshot, ClearSnapshot, CheckStale, FinalClear, Bury
<1>9. ASSUME Shutdown \/ KilledInInit \/ Recovery PROVE UNCHANGED <<pending, taken>>
  BY <1>9 DEF Shutdown, KilledInInit, Recovery, Restart, ConvertSnapshot,
              NothingToConvert, ClearConverted
<1>10. ASSUME UNCHANGED vars PROVE UNCHANGED <<pending, taken>>
  BY <1>10 DEF vars
<1> HIDE DEF Good
<1>11. Good
  BY <1>1, <1>2, <1>3, <1>4, <1>5, <1>6, <1>7, <1>8, <1>9, <1>10
  DEF Next, Sender, Handler
<1> QED
  BY <1>11 DEF Good

LEMMA SendIsKeptStep == IInv /\ [Next]_vars => SendIsKept'
<1> SUFFICES ASSUME IInv, [Next]_vars, NEW m \in Messages, send'[m] \in {"deliver", "acked"}
             PROVE  \/ Rows("user", m)' # {} \/ m \in excused'
                    \/ \E b \in Backends : Deferred(b, m)'
  BY DEF SendIsKept
<1>0. TypeOK /\ Sent /\ SendIsKept
  BY DEF IInv
<1>1. CASE Defer(m)
  <2>1. target[m] \in Backends /\ pending'[target[m]] = m
    BY <1>0, <1>1 DEF Defer, Sent, TypeOK
  <2> QED
    BY <2>1 DEF Deferred
<1>2. CASE Store(m)
  <2>1. UserRow(m) \in Row /\ log' = Append(log, UserRow(m))
    BY <1>2, Numbers DEF Store, UserRow, Row
  <2>2. Len(log') \in Rows("user", m)'
    BY <1>0, <2>1, RowIsStored DEF UserRow
  <2> QED
    BY <2>2
<1>3. CASE ~Defer(m) /\ ~Store(m)
  <2>1. send[m] \in {"deliver", "acked"}
    BY <1>3, SendMoves DEF Deliver
  <2>2. CASE Rows("user", m) # {}
    BY <2>2, LogGrows
  <2>3. CASE m \in excused
    <3>1. excused \subseteq excused'
      <4>1. ASSUME NEW k \in Messages, Sender(k) PROVE excused \subseteq excused'
        BY <4>1 DEF Sender, SendFindsBackend, SendRestarts, Defer, StoreNow, Store,
                    Deliver, DeliverFails
      <4>2. ASSUME NEW c \in Backends, Agent(c) \/ Bury(c) PROVE excused' = excused
        BY <4>2 DEF Agent, AgentSays, AgentEndsTurn, AgentDies, Bury
      <4>3. ASSUME NEW c \in Backends, Handler(c) PROVE excused \subseteq excused'
        BY <4>3 DEF Handler, RecordSession, HandleText, HandleWork, FlushSnapshot,
           HandleTurnEnd, StoreTurn, ClearSnapshot, LeaveLoop, FinalStore, CheckStale,
           FinalClear
      <4>4. ASSUME Shutdown \/ GoDown \/ KilledInInit \/ Recovery
            PROVE  excused \subseteq excused'
        BY <4>4 DEF Shutdown, GoDown, KilledInInit, Recovery, Restart, ConvertSnapshot,
                    NothingToConvert, ClearConverted
      <4>5. ASSUME UNCHANGED vars PROVE excused' = excused
        BY <4>5 DEF vars
      <4> QED
        BY <4>1, <4>2, <4>3, <4>4, <4>5 DEF Next
    <3> QED
      BY <2>3, <3>1
  <2>4. CASE \E b \in Backends : Deferred(b, m)
    BY <2>4, DeferredIsKept
  <2> QED
    BY <1>0, <2>1, <2>2, <2>3, <2>4 DEF SendIsKept
<1> QED
  BY <1>1, <1>2, <1>3
-----------------------------------------------------------------------------
(* Texts, snapshots and rows have a length.                                *)
Measured ==
    /\ \A b \in Backends : text[b].len \in Nat
    /\ snapshot.len \in Nat /\ snapshot.turn \in Messages \cup {None}
    /\ \A i \in DOMAIN log : log[i].len \in Nat

LEMMA Lengths == TypeOK => Measured
<1> SUFFICES ASSUME TypeOK PROVE Measured
  OBVIOUS
<1>1. /\ \A b \in Backends : text[b] \in Text
      /\ snapshot \in Text /\ log \in Seq(Row)
  BY DEF TypeOK
<1>2. \A i \in DOMAIN log : log[i] \in Row
  BY <1>1
<1> QED
  BY <1>1, <1>2, Numbers DEF Text, Row, Measured

LEMMA LengthsNext == TypeOK' => Measured'
  BY Lengths, PTL

(* A stored answer stays as it is.                                         *)
LEMMA RowsStay ==
  ASSUME IInv, [Next]_vars, NEW m \in Messages, NEW i \in AnswerRows(m)
  PROVE  i \in AnswerRows(m)' /\ log'[i] = log[i]
<1>1. i \in DOMAIN log
  BY DEF AnswerRows, Rows
<1>2. i \in DOMAIN log' /\ log'[i] = log[i]
  BY <1>1, LogGrows
<1> QED
  BY <1>2 DEF AnswerRows, Rows

(* The stages of the application, and what it never takes back.            *)
LEMMA AppMoves ==
  ASSUME [Next]_vars
  PROVE  /\ app' = "up" => app = "up" \/ NothingToConvert \/ ClearConverted
         /\ app' = "clear" => app = "clear" \/ ConvertSnapshot
         /\ missed \subseteq missed' /\ (missed' = missed \/ NothingToConvert)
         /\ session => session'
<1> DEFINE Good == /\ app' = "up" => app = "up" \/ NothingToConvert \/ ClearConverted
                   /\ app' = "clear" => app = "clear" \/ ConvertSnapshot
                   /\ missed \subseteq missed' /\ (missed' = missed \/ NothingToConvert)
                   /\ session => session'
<1>1. app' = app /\ missed' = missed /\ session' = session => Good
  OBVIOUS
<1>2. ASSUME NEW m \in Messages, Sender(m)
      PROVE  app' = app /\ missed' = missed /\ session' = session
  BY <1>2 DEF Sender, SendFindsBackend, SendRestarts, Defer, StoreNow, Store,
              Deliver, DeliverFails
<1>3. ASSUME NEW b \in Backends, Agent(b) \/ Bury(b)
      PROVE  app' = app /\ missed' = missed /\ session' = session
  BY <1>3 DEF Agent, AgentSays, AgentEndsTurn, AgentDies, Bury
<1>4. ASSUME NEW b \in Backends, Handler(b)
      PROVE  app' = app /\ missed' = missed /\ (session => session')
  BY <1>4 DEF Handler, RecordSession, HandleText, HandleWork, FlushSnapshot,
     HandleTurnEnd, StoreTurn, ClearSnapshot, LeaveLoop, FinalStore, CheckStale,
     FinalClear
<1>5. ASSUME Shutdown \/ GoDown \/ KilledInInit \/ Restart PROVE Good
  <2>1. missed' = missed /\ session' = session /\ app' \notin {"up", "clear"}
    BY <1>5 DEF Shutdown, GoDown, KilledInInit, Restart
  <2> QED
    BY <2>1
<1>6. ConvertSnapshot \/ NothingToConvert \/ ClearConverted => Good
  BY DEF ConvertSnapshot, NothingToConvert, ClearConverted
<1>7. ASSUME UNCHANGED vars PROVE app' = app /\ missed' = missed /\ session' = session
  BY <1>7 DEF vars
<1> HIDE DEF Good
<1>8. ASSUME NEW b \in Backends, Handler(b) PROVE Good
  BY <1>4, <1>8 DEF Good
<1>9. Good
  BY <1>1, <1>2, <1>3, <1>5, <1>6, <1>7, <1>8 DEF Next, Recovery
<1> QED
  BY <1>9 DEF Good

(* A text stays and grows until it is stored, unless the application goes  *)
(* down; only a handler that is shutting down throws it away.              *)
LEMMA TextIsKept ==
  ASSUME IInv, [Next]_vars, NEW b \in Backends, NEW m \in Messages, text[b].turn = m,
         app = "up", app' # "down"
  PROVE  \/ text'[b].turn = m /\ text'[b].len >= text[b].len
         \/ \E i \in AnswerRows(m)' : log'[i].len >= text[b].len
<1> DEFINE Good == \/ text'[b].turn = m /\ text'[b].len >= text[b].len
                   \/ \E i \in AnswerRows(m)' : log'[i].len >= text[b].len
<1>0. TypeOK /\ Holding /\ Pace(b) /\ m # None /\ text[b].len \in Nat
  <2>1. TypeOK /\ Holding /\ Pace(b)
    BY DEF IInv, Order
  <2> QED
    BY <2>1, Numbers, Lengths DEF Measured
<1>1. text'[b] = text[b] => Good
  BY <1>0
<1>2. ASSUME NEW c \in Backends, HandleText(c) PROVE Good
  <2>1. CASE c = b
    <3>1. /\ handler[b] = "loop" /\ output[b] # <<>>
          /\ text'[b] = [turn |-> Head(output[b])[2], len |-> text[b].len + 1]
      BY <1>0, <1>2, <2>1 DEF HandleText, Looping, NextEvent, TypeOK
    <3>2. Turn(b) = Head(output[b])[2] /\ output[b] \in Seq(Event)
      BY <1>0, <3>1 DEF Turn, FrontTurn, TypeOK
    <3>3. Turn(b) # None
      BY <3>1, <3>2, Numbers DEF Event
    <3>4. Turn(b) = m
      BY <1>0, <3>1, <3>3 DEF Pace
    <3> QED
      BY <1>0, <3>1, <3>2, <3>4
  <2>2. CASE c # b
    BY <1>0, <1>1, <1>2, <2>2 DEF HandleText, TypeOK
  <2> QED
    BY <2>1, <2>2
<1>3. ASSUME NEW c \in Backends, StoreTurn(c) \/ FinalStore(c) PROVE Good
  <2>1. CASE c = b
    <3>1. log' = log \o TurnRows(b)
      BY <1>3, <2>1 DEF StoreTurn, FinalStore
    <3>2. /\ Len(log) + 1 \in Rows("assistant", m)'
          /\ log'[Len(log) + 1].len = text[b].len
      BY <1>0, <3>1, TurnIsStored
    <3> QED
      BY <1>0, <3>2 DEF AnswerRows
  <2>2. CASE c # b
    BY <1>0, <1>1, <1>3, <2>2, Elsewhere DEF Handler
  <2> QED
    BY <2>1, <2>2
<1>4. ASSUME NEW k \in Messages, Sender(k) PROVE text' = text
  BY <1>4 DEF Sender, SendFindsBackend, SendRestarts, Defer, StoreNow, Store, Deliver,
              DeliverFails
<1>5. ASSUME NEW c \in Backends,
             \/ Agent(c) \/ RecordSession(c) \/ HandleWork(c) \/ FlushSnapshot(c)
             \/ HandleTurnEnd(c) \/ ClearSnapshot(c) \/ LeaveLoop(c) \/ CheckStale(c)
             \/ FinalClear(c) \/ Bury(c)
      PROVE  text' = text
  BY <1>5 DEF Agent, AgentSays, AgentEndsTurn, AgentDies, RecordSession, HandleWork,
     FlushSnapshot, HandleTurnEnd, ClearSnapshot, LeaveLoop, CheckStale, FinalClear, Bury
<1>6. ASSUME Shutdown \/ KilledInInit \/ Recovery PROVE text' = text
  BY <1>6 DEF Shutdown, KilledInInit, Recovery, Restart, ConvertSnapshot,
              NothingToConvert, ClearConverted
<1>7. ~GoDown
  BY DEF GoDown
<1>8. ASSUME UNCHANGED vars PROVE text' = text
  BY <1>8 DEF vars
<1> HIDE DEF Good
<1>9. Good
  BY <1>1, <1>2, <1>3, <1>4, <1>5, <1>6, <1>7, <1>8 DEF Next, Handler
<1> QED
  BY <1>9 DEF Good

LEMMA CoveredStep == IInv /\ [Next]_vars => Covered'
<1> SUFFICES ASSUME IInv, [Next]_vars, NEW m \in Messages, snapshot'.turn = m
             PROVE  /\ app' = "up" /\ m \notin missed' =>
                         \/ \E b \in Backends : /\ text'[b].turn = m
                                                /\ text'[b].len >= snapshot'.len
                         \/ \E i \in AnswerRows(m)' : log'[i].len >= snapshot'.len
                    /\ app' = "clear" =>
                         \E i \in AnswerRows(m)' : log'[i].len >= snapshot'.len
  <2>1. IInv /\ [Next]_vars => snapshot'.turn \in Messages \cup {None}
    BY TypeStep DEF TypeOK, Text
  <2> QED
    BY <2>1 DEF Covered
<1> DEFINE Held == \E b \in Backends : text'[b].turn = m /\ text'[b].len >= snapshot'.len
           Stored == \E i \in AnswerRows(m)' : log'[i].len >= snapshot'.len
<1>0. /\ TypeOK /\ TypeOK' /\ Holding /\ AllDown /\ Covered
      /\ m # None /\ snapshot'.len \in Nat
  <2>1. TypeOK /\ TypeOK' /\ Holding /\ AllDown /\ Covered
    BY TypeStep DEF IInv
  <2> QED
    BY <2>1, Numbers, LengthsNext DEF Measured
<1>1. snapshot' # NoText
  BY <1>0 DEF NoText
<1>2. ASSUME app' = "up", m \notin missed' PROVE Held \/ Stored
  <2>1. app = "up"
    <3>1. ~ClearConverted
      BY <1>1 DEF ClearConverted
    <3>2. ~NothingToConvert
      BY <1>0, <1>2 DEF NothingToConvert
    <3> QED
      BY <1>2, <3>1, <3>2, AppMoves
  <2>2. ASSUME NEW b \in Backends, text[b].turn = m, text[b].len >= snapshot'.len
        PROVE  Held \/ Stored
    <3>1. \/ text'[b].turn = m /\ text'[b].len >= text[b].len
          \/ \E i \in AnswerRows(m)' : log'[i].len >= text[b].len
      BY <1>2, <2>1, <2>2, TextIsKept
    <3>2. text[b].len \in Nat /\ text'[b].len \in Nat
      BY <1>0, Lengths, LengthsNext DEF Measured
    <3>3. ASSUME NEW i \in AnswerRows(m)', log'[i].len >= text[b].len
          PROVE  log'[i].len >= snapshot'.len
      <4>1. log'[i].len \in Nat
        BY <1>0, LengthsNext DEF AnswerRows, Rows, Measured
      <4> QED
        BY <1>0, <2>2, <3>2, <3>3, <4>1
    <3> QED
      BY <1>0, <2>2, <3>1, <3>2, <3>3
  <2>3. CASE snapshot' = snapshot
    <3>1. m \notin missed
      BY <1>2, AppMoves
    <3>2. \/ \E b \in Backends : text[b].turn = m /\ text[b].len >= snapshot'.len
          \/ \E i \in AnswerRows(m) : log[i].len >= snapshot'.len
      BY <1>0, <2>1, <2>3, <3>1 DEF Covered
    <3> QED
      BY <1>0, <2>2, <3>2, RowsStay
  <2>4. ASSUME NEW b \in Backends, snapshot' = text[b] PROVE Held \/ Stored
    BY <1>0, <2>2, <2>4
  <2> HIDE DEF Held, Stored
  <2> QED
    BY <1>1, <2>3, <2>4, SnapshotIsFlushed
<1>3. ASSUME app' = "clear" PROVE Stored
  <2>1. CASE ConvertSnapshot
    <3>1. snapshot' = snapshot /\ snapshot.len > 0
      BY <1>0, <2>1 DEF ConvertSnapshot, Holding, Shape, TypeOK, Text
    <3>2. CASE AlreadyStored
      <4>1. log' = log /\ log \in Seq(Row) /\ log # <<>>
        BY <1>0, <2>1, <3>2 DEF ConvertSnapshot, AlreadyStored, TypeOK
      <4>2. /\ Len(log) \in DOMAIN log' /\ log'[Len(log)].len = snapshot'.len
            /\ log'[Len(log)].turn = m /\ log'[Len(log)].role \in {"assistant", "recovered"}
        BY <3>1, <3>2, <4>1 DEF AlreadyStored
      <4> QED
        BY <1>0, <4>2 DEF AnswerRows, Rows
    <3>3. CASE ~AlreadyStored
      <4>1. log' = Append(log, TextRow("recovered", snapshot))
        BY <2>1, <3>1, <3>3 DEF ConvertSnapshot
      <4>2. TextRow("recovered", snapshot) \in Row
        BY <1>0 DEF TextRow, Row, TypeOK, Text
      <4>3. /\ log' \in Seq(Row) /\ Len(log') = Len(log) + 1
            /\ log'[Len(log')] = TextRow("recovered", snapshot)
        BY <1>0, <4>1, <4>2, RowIsStored
      <4>4. Len(log') \in DOMAIN log'
        BY <1>0, <4>3 DEF TypeOK
      <4> QED
        BY <1>0, <3>1, <4>3, <4>4 DEF TextRow, AnswerRows, Rows
    <3> QED
      BY <3>2, <3>3
  <2>2. CASE ~ConvertSnapshot
    <3>1. app = "clear"
      BY <1>3, <2>2, AppMoves
    <3>2. snapshot' = snapshot
      BY <1>0, <1>1, <3>1, SnapshotIsFlushed DEF AllDown
    <3>3. \E i \in AnswerRows(m) : log[i].len >= snapshot'.len
      BY <3>1, <3>2, <1>0 DEF Covered
    <3> QED
      BY <1>0, <3>3, RowsStay
  <2> QED
    BY <2>1, <2>2
<1> QED
  BY <1>2, <1>3
-----------------------------------------------------------------------------
(* A message or an answer that is stored now was not stored before.        *)
LEMMA StoredAtOneStep == IInv /\ [Next]_vars => StoredAtOne'
<1> SUFFICES ASSUME IInv, [Next]_vars, NEW m \in Messages
             PROVE  /\ \A i, j \in Rows("user", m)' : i = j
                    /\ \A i, j \in Rows("assistant", m)' : i = j
  BY DEF StoredAtOne
<1>0. /\ TypeOK /\ Sent /\ NotYetStored /\ AnswerIsOver /\ StoredAtOne
      /\ \A r \in {"user", "assistant"} : \A i, j \in Rows(r, m) : i = j
  BY DEF IInv, StoredAtOne
<1>1. \A i, j \in Rows("user", m)' : i = j
  <2>1. CASE Rows("user", m)' = Rows("user", m)
    BY <1>0, <2>1
  <2>2. CASE Store(m) \/ \E b \in Backends : taken[b] = m /\ Stores(b)
    <3>1. Rows("user", m) = {}
      BY <1>0, <2>2 DEF Store, Sent, NotYetStored, Deferred
    <3> QED
      BY <3>1, LogGrows
  <2> QED
    BY <2>1, <2>2, LogGrows
<1>2. \A i, j \in Rows("assistant", m)' : i = j
  <2>1. CASE Rows("assistant", m)' = Rows("assistant", m)
    BY <1>0, <2>1
  <2>2. CASE \E b \in Backends : text[b].turn = m
    <3>1. Rows("assistant", m) = {}
      BY <1>0, <2>2 DEF AnswerIsOver
    <3> QED
      BY <3>1, LogGrows
  <2> QED
    BY <2>1, <2>2, LogGrows
<1> QED
  BY <1>1, <1>2

(* When a message is stored there is no answer to it yet.                  *)
LEMMA UserBeforeAnswerStep == IInv /\ [Next]_vars => UserBeforeAnswer'
<1> SUFFICES ASSUME IInv, [Next]_vars, NEW m \in Messages,
                    NEW u \in Rows("user", m)', NEW a \in AnswerRows(m)'
             PROVE  u < a
  BY DEF UserBeforeAnswer, AnswerRows
<1>0. /\ TypeOK /\ Sent /\ OneBackend /\ NotYetStored /\ UserBeforeAnswer
      /\ \A b \in Backends : Pace(b)
      /\ Len(log) \in Nat /\ m # None
      /\ \A r : Rows(r, m) \subseteq 1..Len(log)
  BY Numbers, RowsAreInLog DEF IInv, Order
<1>1. a \in AnswerRows(m) \/ a = Len(log) + 1
  BY LogGrows DEF AnswerRows
<1>2. CASE u \in Rows("user", m)
  BY <1>0, <1>1, <1>2 DEF UserBeforeAnswer, AnswerRows
<1>3. CASE u \notin Rows("user", m)
  <2>1. Store(m) \/ \E b \in Backends : taken[b] = m /\ Stores(b)
    BY <1>3, LogGrows
  <2>2. AnswerRows(m) = {}
    BY <1>0, <2>1 DEF Store, Sent, NotYetStored, Deferred
  <2>3. \/ \E c \in Backends : text[c].turn = m /\ Stores(c)
        \/ ConvertSnapshot /\ snapshot.turn = m
    BY <2>2, LogGrows DEF AnswerRows
  <2>4. CASE Store(m)
    BY <1>0, <2>3, <2>4 DEF Store, Sent, At
  <2>5. ASSUME NEW b \in Backends, taken[b] = m, Stores(b) PROVE FALSE
    <3>1. ~ConvertSnapshot
      BY <2>5 DEF Stores, StoreTurn, FinalStore, Running, ConvertSnapshot
    <3>2. PICK c \in Backends : text[c].turn = m
      BY <2>3, <3>1
    <3>3. b = c
      BY <1>0, <2>5, <3>2 DEF OneBackend, At, Deferred
    <3> QED
      BY <1>0, <2>5, <3>2, <3>3 DEF Pace
  <2> QED
    BY <2>1, <2>4, <2>5
<1> QED
  BY <1>2, <1>3
-----------------------------------------------------------------------------
(* The invariant all the results below follow from.                        *)
THEOREM Invariant == Spec => []IInv
<1>1. Init => IInv
  BY InitInv
<1>2. IInv /\ [Next]_vars => IInv'
  BY TypeStep, HoldingStep, RoomStep, OrderStep, SentStep, OneBackendStep,
     NotYetStoredStep, AnswerIsOverStep, SendIsKeptStep, CoveredStep,
     StoredAtOneStep, UserBeforeAnswerStep DEF IInv
<1> QED
  BY <1>1, <1>2, PTL DEF Spec

(* The tables, the queues and the handlers' locals keep their types; in    *)
(* particular a text never outgrows its turn.                              *)
THEOREM TypeOKHolds == Spec => []TypeOK
<1>1. IInv => TypeOK
  BY DEF IInv
<1> QED
  BY <1>1, Invariant, PTL

(* A message and the answer to it are stored once, however the backends,   *)
(* the deferrals and the final stores overlap (manager.go, deferred user   *)
(* message).                                                               *)
THEOREM StoredOnceHolds == Spec => []StoredOnce
<1>1. IInv => StoredOnce
  <2> SUFFICES ASSUME IInv, NEW m \in Messages, NEW role \in {"user", "assistant"}
               PROVE  Cardinality(Rows(role, m)) <= 1
    BY DEF StoredOnce
  <2>1. \A i, j \in Rows(role, m) : i = j
    BY DEF IInv, StoredAtOne
  <2> QED
    BY <2>1, AtMostOne
<1> QED
  BY <1>1, Invariant, PTL

(* No answer, stored by its handler or recovered from the snapshot, stands *)
(* before the message it answers, although StoreOrDeferMessage may hold    *)
(* the message back until the end of the turn before.                      *)
THEOREM UserBeforeAnswerHolds == Spec => []UserBeforeAnswer
<1>1. IInv => UserBeforeAnswer
  BY DEF IInv
<1> QED
  BY <1>1, Invariant, PTL

(* What SendConversationMessage has acknowledged is stored, deferred, or   *)
(* one of the exceptions the code makes.                                   *)
THEOREM AckedIsKeptHolds == Spec => []AckedIsKept
<1>1. IInv => AckedIsKept
  BY DEF IInv, SendIsKept, AckedIsKept, Deferred
<1> QED
  BY <1>1, Invariant, PTL
-----------------------------------------------------------------------------
Live(b) == handler[b] \notin {"none", "ended"}

LEMMA OnlyOneLives ==
  ASSUME OneHandler, NEW b \in Backends, NEW c \in Backends, Live(b), Live(c)
  PROVE  b = c
<1> DEFINE S == {x \in Backends : Live(x)}
<1>1. Cardinality(S) <= 1
  BY DEF OneHandler, Live
<1>2. IsFiniteSet(S)
  <2>1. IsFiniteSet(Backends)
    BY Numbers, FS_Interval DEF Backends
  <2> QED
    BY <2>1, FS_Subset
<1>3. SUFFICES ASSUME b # c PROVE FALSE
  OBVIOUS
<1>4. Cardinality({b, c}) = 2 /\ IsFiniteSet({b, c})
  <2>1. Cardinality({b}) = 1 /\ IsFiniteSet({b})
    BY FS_Singleton
  <2>2. {b, c} = {b} \cup {c} /\ c \notin {b}
    BY <1>3
  <2> QED
    BY <2>1, <2>2, FS_AddElement
<1>5. {b, c} \subseteq S
  OBVIOUS
<1>6. Cardinality({b, c}) <= Cardinality(S) /\ Cardinality(S) \in Nat
  BY <1>2, <1>5, FS_Subset, FS_CardinalityType
<1> HIDE DEF S
<1> QED
  BY <1>1, <1>4, <1>6

(* While one handler is at work, what the snapshot holds is in its text or *)
(* in the log.                                                             *)
LEMMA SnapshotIsBacked ==
  ASSUME IInv, OneHandler, app = "up", NEW m \in Messages, snapshot.turn = m,
         m \notin missed, NEW b \in Backends, Live(b)
  PROVE  \/ /\ text[b].turn = m /\ text[b].len >= snapshot.len
            /\ handler[b] \in {"loop", "store", "final"}
         \/ \E i \in AnswerRows(m) : log[i].len >= snapshot.len
<1>0. TypeOK /\ Holding /\ Covered /\ m # None
  BY Numbers DEF IInv
<1>1. CASE \E i \in AnswerRows(m) : log[i].len >= snapshot.len
  BY <1>1
<1>2. ASSUME NEW c \in Backends, text[c].turn = m, text[c].len >= snapshot.len
      PROVE  /\ text[b].turn = m /\ text[b].len >= snapshot.len
             /\ handler[b] \in {"loop", "store", "final"}
  <2>1. handler[c] \in {"loop", "store", "final"}
    BY <1>0, <1>2 DEF Holding, Shape
  <2>2. c = b
    BY <2>1, OnlyOneLives DEF Live
  <2> QED
    BY <1>2, <2>1, <2>2
<1> QED
  BY <1>0, <1>1, <1>2 DEF Covered

(* Who writes the snapshot, until the application shuts down.              *)
LEMMA SnapshotWriters ==
  ASSUME [Next]_vars, app # "stopping"
  PROVE  \/ snapshot' = snapshot \/ ClearConverted
         \/ \E b \in Backends :
              /\ app = "up" /\ Live(b)
              /\ FlushSnapshot(b) \/ handler[b] \in {"clear", "finalClear"}
<1> DEFINE Good == \/ snapshot' = snapshot \/ ClearConverted
                   \/ \E b \in Backends :
                        /\ app = "up" /\ Live(b)
                        /\ FlushSnapshot(b) \/ handler[b] \in {"clear", "finalClear"}
<1>1. ASSUME NEW b \in Backends, FlushSnapshot(b) \/ ClearSnapshot(b) \/ FinalClear(b)
      PROVE  Good
  BY <1>1 DEF FlushSnapshot, ClearSnapshot, FinalClear, Looping, Running, Live
<1>2. ASSUME NEW m \in Messages, Sender(m) PROVE snapshot' = snapshot
  BY <1>2 DEF Sender, SendFindsBackend, SendRestarts, Defer, StoreNow, Store, Deliver,
              DeliverFails
<1>3. ASSUME NEW b \in Backends,
             \/ Agent(b) \/ RecordSession(b) \/ HandleText(b) \/ HandleWork(b)
             \/ HandleTurnEnd(b) \/ StoreTurn(b) \/ LeaveLoop(b) \/ FinalStore(b)
             \/ CheckStale(b) \/ Bury(b)
      PROVE  snapshot' = snapshot
  BY <1>3 DEF Agent, AgentSays, AgentEndsTurn, AgentDies, RecordSession, HandleText,
     HandleWork, HandleTurnEnd, StoreTurn, LeaveLoop, FinalStore, CheckStale, Bury
<1>4. ASSUME \/ Shutdown \/ GoDown \/ KilledInInit \/ Restart \/ ConvertSnapshot
             \/ NothingToConvert
      PROVE  snapshot' = snapshot
  BY <1>4 DEF Shutdown, GoDown, KilledInInit, Restart, ConvertSnapshot, NothingToConvert
<1>5. ASSUME UNCHANGED vars PROVE snapshot' = snapshot
  BY <1>5 DEF vars
<1> QED
  BY <1>1, <1>2, <1>3, <1>4, <1>5 DEF Next, Handler, Recovery

(* What would survive a kill survives every step.                          *)
LEMMA DurableStep ==
  ASSUME IInv, [Next]_vars, OneHandler, app # "stopping",
         NEW m \in Messages, NEW n \in Durable(m) \ {0}
  PROVE  \E k \in Durable(m)' : k >= n
<1>0. /\ TypeOK /\ Holding /\ Covered /\ Measured /\ m # None
      /\ \A k \in Nat : k >= k
  BY Numbers, Lengths DEF IInv
<1>1. ASSUME NEW i \in AnswerRows(m) PROVE log[i].len \in Durable(m)'
  <2>1. i \in AnswerRows(m)' /\ log'[i] = log[i]
    BY RowsStay
  <2> QED
    BY <2>1 DEF Durable, AnswerRows
<1>2. ASSUME NEW i \in AnswerRows(m), n = log[i].len PROVE \E k \in Durable(m)' : k >= n
  <2>1. n \in Nat
    BY <1>0, <1>2 DEF Measured, AnswerRows, Rows
  <2> QED
    BY <1>0, <1>1, <1>2, <2>1
<1>3. ASSUME session, m = snapshot.turn, m \notin missed, n = snapshot.len
      PROVE  \E k \in Durable(m)' : k >= n
  <2>1. session' /\ m \notin missed'
    <3>1. ~NothingToConvert
      BY <1>3 DEF NothingToConvert
    <3> QED
      BY <1>3, <3>1, AppMoves
  <2>2. snapshot'.turn = m => snapshot'.len \in Durable(m)'
    BY <2>1 DEF Durable
  <2>3. ASSUME \E i \in AnswerRows(m) : log[i].len >= snapshot.len
        PROVE  \E k \in Durable(m)' : k >= n
    BY <1>1, <1>3, <2>3
  <2>4. CASE snapshot' = snapshot
    BY <1>0, <1>3, <2>2, <2>4 DEF Measured
  <2>5. CASE ClearConverted
    BY <1>0, <1>3, <2>3, <2>5 DEF ClearConverted, Covered
  <2>6. ASSUME NEW b \in Backends, app = "up", Live(b),
               FlushSnapshot(b) \/ handler[b] \in {"clear", "finalClear"}
        PROVE  \E k \in Durable(m)' : k >= n
    <3>1. \/ /\ text[b].turn = m /\ text[b].len >= snapshot.len
             /\ handler[b] \in {"loop", "store", "final"}
          \/ \E i \in AnswerRows(m) : log[i].len >= snapshot.len
      BY <1>3, <2>6, SnapshotIsBacked
    <3>2. ASSUME text[b].turn = m, text[b].len >= snapshot.len, FlushSnapshot(b)
          PROVE  \E k \in Durable(m)' : k >= n
      <4>1. snapshot' = text[b]
        BY <3>2 DEF FlushSnapshot
      <4> QED
        BY <1>3, <2>2, <3>2, <4>1
    <3> QED
      BY <2>3, <2>6, <3>1, <3>2
  <2> QED
    BY <2>4, <2>5, <2>6, SnapshotWriters
<1>4. \/ \E i \in AnswerRows(m) : n = log[i].len
      \/ session /\ m = snapshot.turn /\ m \notin missed /\ n = snapshot.len
  BY DEF Durable, AnswerRows
<1> QED
  BY <1>2, <1>3, <1>4

(* Nothing of an answer that has become durable is lost, whatever is       *)
(* killed when: the debounced snapshot is written, cleared and converted   *)
(* only when the text it held is in a newer one or in the message table.   *)
THEOREM DurableStaysHolds == Spec => DurableStays
<1>1. IInv /\ [Next]_vars => [OneHandler /\ app # "stopping" => ~Forgets]_vars
  <2> SUFFICES ASSUME IInv, [Next]_vars, OneHandler, app # "stopping", Forgets
               PROVE  FALSE
    OBVIOUS
  <2>1. PICK m \in Messages : \E n \in Durable(m) \ {0} : \A k \in Durable(m)' : k < n
    BY DEF Forgets
  <2>2. PICK n \in Durable(m) \ {0} : \A k \in Durable(m)' : k < n
    BY <2>1
  <2>3. PICK k \in Durable(m)' : k >= n
    BY <2>2, DurableStep
  <2>4. n \in Nat /\ k \in Nat
    <3>1. \A x \in Durable(m) : x \in Nat
      BY Lengths DEF IInv, Durable, Measured, Rows
    <3>2. \A x \in Durable(m)' : x \in Nat
      BY TypeStep, LengthsNext DEF Durable, Measured, Rows
    <3> QED
      BY <3>1, <3>2
  <2> QED
    BY <2>2, <2>3, <2>4
<1> QED
  BY <1>1, Invariant, PTL DEF Spec, DurableStays
-----------------------------------------------------------------------------
(* A deferred message never waits for nobody: as long as it is pending,    *)
(* the handler that takes it at the end of the turn is in its loop         *)
(* (EndTurnAndTakePending is called on every way out).                     *)
PendingHasATaker ==
    \A b \in Backends : pending[b] # None => handler[b] = "loop" /\ active[b]

THEOREM PendingHasATakerHolds == Spec => []PendingHasATaker
<1>1. IInv => PendingHasATaker
  BY DEF IInv, Holding, PendingHasATaker
<1> QED
  BY <1>1, Invariant, PTL
=============================================================================
