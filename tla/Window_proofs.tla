---------------------------- MODULE Window_proofs ----------------------------
(* Theorems about the graph queues: for any number of graphs, buffers,      *)
(* events and widths, the lists that updater and window thread share        *)
(* without a lock stay whole, and a round never shows an old buffer.       *)
EXTENDS Window, Least

-----------------------------------------------------------------------------
(* TypeOK in four parts: the lists, the window thread, the flag done, the   *)
(* rest.                                                                   *)

ListTypes ==
  /\ nxt \in [Graphs -> [0..MaxFrames -> 0..MaxFrames]]
  /\ tail \in [Graphs -> 0..MaxFrames]
  /\ alive \in [Graphs -> SUBSET Frames]
  /\ frame \in 1..(MaxFrames + 1)
  /\ upd \in ({"link", "advance"} \X Graphs) \cup {<<"unlock", 0>>}
WinTypes ==
  /\ win \in {"lock", "events", "render", "closed", "crashed"}
  /\ graph \in 1..(GraphCount + 1)
  /\ back \in {"events", "lock"}
  /\ shown \in [Graphs -> 0..MaxFrames]
  /\ fresh \in 0..MaxFrames
DoneType == done \in BOOLEAN
EventTypes ==
  /\ mutex \in {"free", "held"}
  /\ width \in Widths
  /\ events \in Seq(Event) /\ posted \in 0..MaxEvents

LEMMA TypeParts == TypeOK <=> ListTypes /\ WinTypes /\ DoneType /\ EventTypes
  BY Zenon DEF TypeOK, ListTypes, WinTypes, DoneType, EventTypes

LEMMA Row ==
  ASSUME ListTypes, NEW g \in Graphs
  PROVE  /\ nxt[g] \in [0..MaxFrames -> 0..MaxFrames]
         /\ nxt[g][0] \in 0..MaxFrames
         /\ nxt[g][nxt[g][0]] \in 0..MaxFrames
         /\ tail[g] \in 0..MaxFrames
  <1>1. nxt[g] \in [0..MaxFrames -> 0..MaxFrames] /\ tail[g] \in 0..MaxFrames
    BY DEF ListTypes
  <1>2. nxt[g][0] \in 0..MaxFrames
    BY <1>1, WindowAssumption
  <1>3. nxt[g][nxt[g][0]] \in 0..MaxFrames
    BY <1>1, <1>2
  <1> QED BY <1>1, <1>2, <1>3

LEMMA IntervalGrows ==
  ASSUME NEW a \in Int, NEW b \in Int, a <= b
  PROVE  (a..(b - 1)) \cup {b} = a..b
  OBVIOUS

LEMMA IntervalShrinks ==
  ASSUME NEW a \in Int, NEW b \in Int
  PROVE  (a..b) \ {a} = (a + 1)..b
  OBVIOUS

LEMMA FrameNat == ASSUME ListTypes PROVE frame \in Nat /\ frame >= 1
  BY WindowAssumption DEF ListTypes

-----------------------------------------------------------------------------
(* How far a list reaches, by where the updater is.                        *)

LEMMA LinkedAtLink ==
  ASSUME NEW g \in Graphs, NEW h \in Graphs, upd = <<"link", h>>
  PROVE  Linked(g) = IF h > g THEN frame ELSE frame - 1
  BY DEF Linked

LEMMA LinkedAtAdvance ==
  ASSUME NEW g \in Graphs, NEW h \in Graphs, upd = <<"advance", h>>
  PROVE  Linked(g) = IF h >= g THEN frame ELSE frame - 1
  BY DEF Linked, Graphs

LEMMA LinkedAtUnlock ==
  ASSUME NEW g \in Graphs, upd = <<"unlock", 0>>
  PROVE  Linked(g) = frame
  BY DEF Linked

LEMMA UpdCases ==
  ASSUME ListTypes
  PROVE  \/ \E h \in Graphs : upd = <<"link", h>>
         \/ \E h \in Graphs : upd = <<"advance", h>>
         \/ upd = <<"unlock", 0>>
  BY DEF ListTypes

(* Every list holds the sets before the one being drawn.                   *)
LEMMA LinkedBound ==
  ASSUME ListTypes, NEW g \in Graphs
  PROVE  Linked(g) \in {frame - 1, frame}
  BY UpdCases, LinkedAtLink, LinkedAtAdvance, LinkedAtUnlock

-----------------------------------------------------------------------------
(* The inductive invariant.  An empty list has an empty head; the updater   *)
(* is past the first link only while it draws one of the sets.             *)

Whole(g, newest) ==
  /\ First(g) \in IF newest = 0 THEN {0} ELSE 1..newest
  /\ alive[g] = IF newest = 0 THEN {} ELSE First(g)..newest
  /\ \A f \in alive[g] : nxt[g][f] = (IF f = newest THEN 0 ELSE f + 1)

TailKnown(g) == upd # <<"advance", g>> => tail[g] = Linked(g)

ListInv ==
  /\ TypeOK
  /\ upd # <<"link", 1>> => frame \in Frames
  /\ \A g \in Graphs : Whole(g, Linked(g)) /\ TailKnown(g)

LEMMA InitList == Init => ListInv
  <1> SUFFICES ASSUME Init PROVE ListInv
    OBVIOUS
  <1> USE WindowAssumption
  <1>1. 1 \in Graphs /\ upd = <<"link", 1>> /\ frame = 1
    BY DEF Init, Graphs
  <1>2. TypeOK
    <2>1. ListTypes
      BY <1>1 DEF Init, ListTypes, Frames
    <2>2. WinTypes
      BY DEF Init, WinTypes
    <2>3. DoneType
      BY DEF Init, DoneType
    <2>4. EventTypes
      BY DEF Init, EventTypes
    <2> QED BY <2>1, <2>2, <2>3, <2>4, TypeParts
  <1>3. ASSUME NEW g \in Graphs PROVE Linked(g) = 0
    BY <1>1, LinkedAtLink DEF Graphs
  <1>4. \A g \in Graphs : Whole(g, Linked(g)) /\ TailKnown(g)
    BY <1>3 DEF Init, Whole, TailKnown, First
  <1> QED BY <1>1, <1>2, <1>4 DEF ListInv

-----------------------------------------------------------------------------
(* Types.                                                                  *)

(* Only these change a list, or what Linked looks at.                      *)
LEMMA OthersLeaveLists ==
  ASSUME [Next]_vars, ~Unlock,
         \A g \in Graphs : ~Link(g) /\ ~Advance(g) /\ ~Drop(g)
  PROVE  UNCHANGED <<listVars, updVars>>
  BY DEF Next, Updater, WindowThread, PostEvent, Lock, HandleEvent, EventsHandled, Rendered,
         Draw, DivideByZero, NoBuffer, vars

LEMMA ListTypesStep ==
  ASSUME ListInv, [Next]_vars
  PROVE  ListTypes'
  <1> USE WindowAssumption
  <1>t. ListTypes
    BY TypeParts DEF ListInv
  <1>same. ASSUME UNCHANGED <<listVars, updVars>> PROVE ListTypes'
    BY <1>t, <1>same DEF ListTypes, listVars, updVars
  <1>1. ASSUME NEW g \in Graphs, Link(g) PROVE ListTypes'
    <2>1. /\ frame \in Frames /\ frame' = frame /\ tail' = tail /\ upd' = <<"advance", g>>
          /\ nxt' = [nxt EXCEPT ![g] = [@ EXCEPT ![frame] = 0, ![tail[g]] = frame]]
          /\ alive' = [alive EXCEPT ![g] = @ \cup {frame}]
      BY <1>1 DEF Link
    <2>2. nxt' \in [Graphs -> [0..MaxFrames -> 0..MaxFrames]]
      <3> DEFINE row == [nxt[g] EXCEPT ![frame] = 0, ![tail[g]] = frame]
      <3>1. frame \in 0..MaxFrames /\ 0 \in 0..MaxFrames
        BY <2>1 DEF Frames
      <3>2. row \in [0..MaxFrames -> 0..MaxFrames]
        BY <1>t, <3>1, Row
      <3>3. nxt' = [nxt EXCEPT ![g] = row]
        BY <2>1
      <3> HIDE DEF row
      <3> QED BY <1>t, <3>2, <3>3 DEF ListTypes
    <2>3. alive' \in [Graphs -> SUBSET Frames]
      BY <1>t, <2>1 DEF ListTypes
    <2> QED BY <1>t, <2>1, <2>2, <2>3 DEF ListTypes
  <1>2. ASSUME NEW g \in Graphs, Advance(g) PROVE ListTypes'
    <2>1. frame \in Frames /\ UNCHANGED <<nxt, alive, frame>>
      BY <1>2 DEF ListInv, Advance
    <2>2. upd' \in ({"link", "advance"} \X Graphs) \cup {<<"unlock", 0>>}
      BY <1>2 DEF Advance, Graphs
    <2>3. tail' \in [Graphs -> 0..MaxFrames]
      BY <1>t, <1>2, <2>1 DEF ListTypes, Advance, Frames
    <2> QED BY <1>t, <2>1, <2>2, <2>3 DEF ListTypes
  <1>3. CASE Unlock
    <2>1. frame \in Frames /\ frame' = frame + 1 /\ upd' = <<"link", 1>> /\ UNCHANGED listVars
      BY <1>3 DEF ListInv, Unlock
    <2>2. upd' \in ({"link", "advance"} \X Graphs) \cup {<<"unlock", 0>>}
      BY <2>1 DEF Graphs
    <2>3. frame' \in 1..(MaxFrames + 1)
      BY <2>1 DEF Frames
    <2> QED BY <1>t, <2>1, <2>2, <2>3 DEF ListTypes, listVars
  <1>4. ASSUME NEW g \in Graphs, Drop(g) PROVE ListTypes'
    <2>1. /\ nxt' = [nxt EXCEPT ![g][0] = nxt[g][nxt[g][0]]]
          /\ tail' = [tail EXCEPT ![g] = IF nxt[g][nxt[g][0]] = 0 THEN 0 ELSE @]
          /\ alive' = [alive EXCEPT ![g] = @ \ {nxt[g][0]}]
          /\ UNCHANGED updVars
      BY <1>4 DEF Drop, First
    <2>2. nxt[g][nxt[g][0]] \in 0..MaxFrames
      BY <1>t, Row
    <2>3. nxt' \in [Graphs -> [0..MaxFrames -> 0..MaxFrames]]
      BY <1>t, <2>1, <2>2 DEF ListTypes
    <2>4. tail' \in [Graphs -> 0..MaxFrames] /\ alive' \in [Graphs -> SUBSET Frames]
      BY <1>t, <2>1 DEF ListTypes
    <2> QED BY <1>t, <2>1, <2>3, <2>4 DEF ListTypes, updVars
  <1> QED BY <1>same, <1>1, <1>2, <1>3, <1>4, OthersLeaveLists

LEMMA WinTypesStep ==
  ASSUME ListInv, [Next]_vars
  PROVE  WinTypes'
  <1> USE WindowAssumption
  <1>t. ListTypes /\ WinTypes
    BY TypeParts DEF ListInv
  <1>same. ASSUME UNCHANGED winVars PROVE WinTypes'
    BY <1>t, <1>same DEF WinTypes, winVars
  <1>1. CASE Updater \/ PostEvent \/ UNCHANGED vars
    BY <1>1, <1>same DEF Updater, Link, Advance, Unlock, PostEvent, vars
  <1>2. CASE Lock
    BY <1>t, <1>2, FrameNat DEF WinTypes, ListTypes, Lock
  <1>3. CASE HandleEvent
    BY <1>t, <1>3 DEF WinTypes, HandleEvent
  <1>4. CASE EventsHandled
    BY <1>t, <1>4 DEF WinTypes, EventsHandled
  <1>5. CASE Rendered
    BY <1>t, <1>5 DEF WinTypes, Rendered
  <1>6. ASSUME NEW g \in Graphs, Drop(g) PROVE WinTypes'
    BY <1>6, <1>same DEF Drop
  <1>7. ASSUME NEW g \in Graphs, Draw(g) PROVE WinTypes'
    <2>1. First(g) \in 0..MaxFrames
      BY <1>t DEF ListTypes, First
    <2>2. shown' \in [Graphs -> 0..MaxFrames]
      BY <1>t, <1>7, <2>1 DEF WinTypes, Draw
    <2> QED BY <1>t, <1>7, <2>2 DEF WinTypes, Draw, Graphs
  <1>8. ASSUME NEW g \in Graphs, DivideByZero(g) PROVE WinTypes'
    BY <1>t, <1>8 DEF WinTypes, DivideByZero
  <1>9. ASSUME NEW g \in Graphs, NoBuffer(g) PROVE WinTypes'
    BY <1>t, <1>9 DEF WinTypes, NoBuffer, Graphs
  <1> QED BY <1>1, <1>2, <1>3, <1>4, <1>5, <1>6, <1>7, <1>8, <1>9 DEF Next, WindowThread

LEMMA EventTypesStep ==
  ASSUME ListInv, [Next]_vars
  PROVE  DoneType' /\ EventTypes'
  <1>t. DoneType /\ EventTypes
    BY TypeParts DEF ListInv
  <1>1. CASE HandleEvent
    <2>1. Head(events) \in Event /\ events' \in Seq(Event)
      BY <1>t, <1>1 DEF EventTypes, HandleEvent
    <2>2. width' \in Widths
      BY <1>t, <1>1, <2>1 DEF EventTypes, HandleEvent, Event
    <2>3. DoneType'
      BY <1>t, <1>1, Zenon DEF DoneType, HandleEvent
    <2> QED BY <1>t, <1>1, <2>1, <2>2, <2>3 DEF EventTypes, HandleEvent
  <1>2. CASE PostEvent
    <2>1. EventTypes'
      BY <1>t, <1>2, WindowAssumption DEF EventTypes, PostEvent, winVars
    <2>2. DoneType'
      BY <1>t, <1>2 DEF DoneType, PostEvent, winVars
    <2> QED BY <2>1, <2>2
  <1>3. CASE Lock \/ Unlock
    <2>1. EventTypes'
      BY <1>t, <1>3 DEF EventTypes, Lock, Unlock, winVars
    <2>2. DoneType'
      BY <1>t, <1>3 DEF DoneType, Lock, Unlock, winVars
    <2> QED BY <2>1, <2>2
  <1>4. CASE ~(HandleEvent \/ PostEvent \/ Lock \/ Unlock)
    <2>1. UNCHANGED <<mutex, done, width, events, posted>>
      BY <1>4 DEF Next, Updater, WindowThread, Link, Advance, EventsHandled, Rendered, Drop,
                  Draw, DivideByZero, NoBuffer, vars, winVars
    <2> QED BY <1>t, <2>1 DEF DoneType, EventTypes
  <1> QED BY <1>1, <1>2, <1>3, <1>4

LEMMA TypeStep == ListInv /\ [Next]_vars => TypeOK'
  <1> SUFFICES ASSUME ListInv, [Next]_vars PROVE TypeOK'
    OBVIOUS
  <1>1. ListTypes' /\ WinTypes' /\ DoneType' /\ EventTypes'
    BY ListTypesStep, WinTypesStep, EventTypesStep
  <1>2. TypeOK' <=> ListTypes' /\ WinTypes' /\ DoneType' /\ EventTypes'
    BY Zenon DEF TypeOK, ListTypes, WinTypes, DoneType, EventTypes
  <1> QED BY <1>1, <1>2

-----------------------------------------------------------------------------
(* The lists.                                                              *)

LEMMA ListStep == ListInv /\ [Next]_vars => ListInv'
  <1> SUFFICES ASSUME ListInv, [Next]_vars PROVE ListInv'
    OBVIOUS
  <1> USE WindowAssumption
  <1>p. TypeOK'
    BY TypeStep
  <1>t. ListTypes /\ frame \in Nat
    BY TypeParts, FrameNat DEF ListInv
  <1>w. \A g \in Graphs : Whole(g, Linked(g)) /\ TailKnown(g)
    BY DEF ListInv
  <1>1. ASSUME NEW g \in Graphs, Link(g) PROVE ListInv'
    <2>1. /\ upd = <<"link", g>> /\ upd' = <<"advance", g>>
          /\ frame \in Frames /\ frame' = frame /\ tail' = tail
          /\ nxt' = [nxt EXCEPT ![g] = [@ EXCEPT ![frame] = 0, ![tail[g]] = frame]]
          /\ alive' = [alive EXCEPT ![g] = @ \cup {frame}]
      BY <1>1 DEF Link
    <2>2. Linked(g) = frame - 1 /\ Linked(g)' = frame /\ tail[g] = frame - 1
      BY <1>t, <1>w, <2>1, LinkedAtLink, LinkedAtAdvance DEF TailKnown, Linked, Graphs
    <2>3. Whole(g, frame)'
      <3>1. nxt[g] \in [0..MaxFrames -> 0..MaxFrames]
        BY <1>t DEF ListTypes
      <3>2. nxt'[g] = [nxt[g] EXCEPT ![frame] = 0, ![frame - 1] = frame]
        BY <1>t, <2>1, <2>2 DEF ListTypes
      <3>3. alive'[g] = alive[g] \cup {frame}
        BY <1>t, <2>1 DEF ListTypes
      <3>4. CASE frame = 1
        <4>1. nxt'[g][0] = 1 /\ nxt'[g][1] = 0
          BY <3>1, <3>2, <3>4
        <4>2. alive[g] = {}
          BY <1>w, <2>2, <3>4 DEF Whole
        <4>3. alive'[g] = 1..1
          BY <3>3, <3>4, <4>2
        <4>4. First(g)' = 1 /\ frame' = 1
          BY <2>1, <3>4, <4>1 DEF First
        <4>5. \A f \in alive'[g] : f = 1
          BY <4>3
        <4> QED BY <4>1, <4>3, <4>4, <4>5 DEF Whole
      <3>5. CASE frame > 1
        <4>1. nxt'[g][0] = nxt[g][0] /\ nxt'[g][frame] = 0 /\ nxt'[g][frame - 1] = frame
          BY <2>1, <3>1, <3>2, <3>5 DEF Frames
        <4>2. nxt[g][0] \in 1..(frame - 1) /\ alive[g] = nxt[g][0]..(frame - 1)
          <5>1. Whole(g, frame - 1) /\ frame - 1 # 0
            BY <1>w, <2>2, <3>5
          <5> QED BY <5>1 DEF Whole, First
        <4>3. alive'[g] = nxt[g][0]..frame
          <5>1. nxt[g][0] \in Int /\ frame \in Int /\ nxt[g][0] <= frame
            BY <1>t, <4>2
          <5> QED BY <3>3, <4>2, <5>1, IntervalGrows
        <4>4. ASSUME NEW f \in nxt[g][0]..(frame - 2) PROVE nxt'[g][f] = f + 1
          <5>1. f \in alive[g] /\ f # frame - 1 /\ f # frame /\ f \in 0..MaxFrames
            BY <2>1, <3>5, <4>2 DEF Frames
          <5>2. nxt'[g][f] = nxt[g][f]
            BY <3>1, <3>2, <5>1
          <5> QED BY <1>w, <2>2, <5>1, <5>2 DEF Whole
        <4>5. ASSUME NEW f \in alive'[g] PROVE nxt'[g][f] = IF f = frame THEN 0 ELSE f + 1
          <5>1. f \in Int /\ (f = frame \/ f = frame - 1 \/ f \in nxt[g][0]..(frame - 2))
            BY <1>t, <4>2, <4>3
          <5> QED BY <1>t, <4>1, <4>4, <5>1
        <4>6. nxt'[g][0] \in 1..frame /\ alive'[g] = nxt'[g][0]..frame
          BY <1>t, <4>1, <4>2, <4>3
        <4>7. First(g)' = nxt'[g][0] /\ frame' = frame /\ frame # 0
          BY <2>1, <3>5 DEF First
        <4> QED BY <4>5, <4>6, <4>7 DEF Whole
      <3> QED BY <2>1, <3>4, <3>5 DEF Frames
    <2>4. ASSUME NEW h \in Graphs, h # g PROVE Whole(h, Linked(h))' /\ TailKnown(h)'
      <3>1. Linked(h)' = Linked(h)
        BY <1>t, <2>1, <2>4 DEF Linked, Graphs
      <3>2. nxt'[h] = nxt[h] /\ alive'[h] = alive[h] /\ tail'[h] = tail[h]
        BY <1>t, <2>1, <2>4 DEF ListTypes
      <3>3. upd # <<"advance", h>>
        BY <2>1
      <3> QED BY <1>w, <3>1, <3>2, <3>3 DEF Whole, TailKnown, First
    <2>5. ASSUME NEW h \in Graphs PROVE Whole(h, Linked(h))' /\ TailKnown(h)'
      <3>1. CASE h = g
        BY <2>1, <2>2, <2>3, <3>1 DEF TailKnown, Whole
      <3> QED BY <2>4, <3>1
    <2> QED BY <1>p, <2>1, <2>5 DEF ListInv
  <1>2. ASSUME NEW g \in Graphs, Advance(g) PROVE ListInv'
    <2>1. /\ upd = <<"advance", g>> /\ frame \in Frames /\ UNCHANGED <<nxt, alive, frame>>
          /\ tail' = [tail EXCEPT ![g] = frame]
          /\ upd' = IF g < GraphCount THEN <<"link", g + 1>> ELSE <<"unlock", 0>>
      BY <1>2 DEF Advance, ListInv
    <2>2. ASSUME NEW h \in Graphs PROVE Linked(h)' = Linked(h)
      <3>1. CASE g < GraphCount
        BY <1>t, <2>1, <3>1 DEF Linked, Graphs
      <3>2. CASE ~(g < GraphCount)
        BY <1>t, <2>1, <3>2 DEF Linked, Graphs
      <3> QED BY <3>1, <3>2
    <2>3. Linked(g) = frame
      BY <2>1, LinkedAtAdvance DEF Graphs
    <2>4. ASSUME NEW h \in Graphs PROVE tail'[h] = Linked(h)
      <3>1. CASE h = g
        BY <1>t, <2>1, <2>3, <3>1 DEF ListTypes
      <3>2. CASE h # g
        BY <1>t, <1>w, <2>1, <3>2 DEF ListTypes, TailKnown
      <3> QED BY <3>1, <3>2
    <2>5. ASSUME NEW h \in Graphs PROVE Whole(h, Linked(h))' /\ TailKnown(h)'
      BY <1>w, <2>1, <2>2, <2>4 DEF Whole, TailKnown, First
    <2> QED BY <1>p, <2>1, <2>5 DEF ListInv
  <1>3. CASE Unlock
    <2>1. /\ upd = <<"unlock", 0>> /\ upd' = <<"link", 1>> /\ frame' = frame + 1
          /\ UNCHANGED <<nxt, alive, tail>>
      BY <1>3 DEF Unlock, listVars
    <2>2. ASSUME NEW h \in Graphs PROVE Linked(h)' = Linked(h)
      BY <1>t, <2>1 DEF Linked, Graphs, ListTypes
    <2>3. ASSUME NEW h \in Graphs PROVE Whole(h, Linked(h))' /\ TailKnown(h)'
      BY <1>w, <2>1, <2>2 DEF Whole, TailKnown, First
    <2> QED BY <1>p, <2>1, <2>3 DEF ListInv
  <1>4. ASSUME NEW g \in Graphs, Drop(g) PROVE ListInv'
    <2>1. /\ First(g) # 0 /\ nxt[g][First(g)] # 0
          /\ nxt' = [nxt EXCEPT ![g][0] = nxt[g][First(g)]]
          /\ tail' = tail
          /\ alive' = [alive EXCEPT ![g] = @ \ {First(g)}]
          /\ UNCHANGED <<frame, upd>>
      BY <1>t, <1>4 DEF Drop, HasNewer, updVars, ListTypes
    <2> DEFINE n == Linked(g)
    <2>2. n \in Nat /\ n # 0 /\ First(g) \in 1..n /\ alive[g] = First(g)..n
      <3>1. n \in Nat
        BY <1>t, LinkedBound, FrameNat
      <3>2. Whole(g, n)
        BY <1>w
      <3> QED BY <2>1, <3>1, <3>2 DEF Whole
    <2>3. First(g) # n /\ nxt[g][First(g)] = First(g) + 1
      BY <1>w, <2>1, <2>2 DEF Whole
    <2>4. ASSUME NEW h \in Graphs PROVE Linked(h)' = Linked(h)
      BY <2>1 DEF Linked
    <2>5. nxt'[g] = [nxt[g] EXCEPT ![0] = First(g) + 1] /\ alive'[g] = (First(g) + 1)..n
      <3>1. nxt'[g] = [nxt[g] EXCEPT ![0] = nxt[g][First(g)]] /\ alive'[g] = alive[g] \ {First(g)}
        BY <1>t, <2>1 DEF ListTypes
      <3>2. First(g) \in Int /\ n \in Int
        BY <2>2
      <3> QED BY <2>2, <2>3, <3>1, <3>2, IntervalShrinks
    <2>6. Whole(g, n)'
      <3>1. nxt'[g][0] = First(g) + 1
        BY <1>t, <2>5 DEF ListTypes
      <3>2. ASSUME NEW f \in alive'[g] PROVE f \in alive[g] /\ nxt'[g][f] = nxt[g][f]
        <4>1. f \in First(g)..n /\ f # 0
          BY <2>2, <2>5, <3>2
        <4>2. f \in alive[g] /\ f \in 0..MaxFrames
          <5>1. f \in alive[g]
            BY <2>2, <4>1
          <5>2. alive[g] \subseteq 1..MaxFrames
            BY <1>t DEF ListTypes, Frames
          <5> QED BY <5>1, <5>2
        <4> QED BY <1>t, <2>5, <4>1, <4>2, Row
      <3>3. n' = n
        BY <2>4
      <3> QED BY <1>w, <2>2, <2>3, <2>5, <3>1, <3>2, <3>3 DEF Whole, First
    <2>7. ASSUME NEW h \in Graphs PROVE Whole(h, Linked(h))' /\ TailKnown(h)'
      <3>1. CASE h = g
        BY <1>w, <2>1, <2>4, <2>6, <3>1 DEF TailKnown, Whole
      <3>2. CASE h # g
        <4>1. nxt'[h] = nxt[h] /\ alive'[h] = alive[h]
          BY <1>t, <2>1, <3>2 DEF ListTypes
        <4> QED BY <1>w, <2>1, <2>4, <4>1 DEF Whole, TailKnown, First
      <3> QED BY <3>1, <3>2
    <2> QED BY <1>p, <2>1, <2>7 DEF ListInv
  <1>5. CASE UNCHANGED <<listVars, updVars>>
    <2>1. ASSUME NEW h \in Graphs PROVE Whole(h, Linked(h))' /\ TailKnown(h)'
      BY <1>w, <1>5 DEF Whole, TailKnown, First, Linked, listVars, updVars
    <2> QED BY <1>p, <1>5, <2>1 DEF ListInv, updVars
  <1> QED BY <1>1, <1>2, <1>3, <1>4, <1>5, OthersLeaveLists

LEMMA ListInvImplies == ListInv => TypeOK /\ ListWhole
  <1> SUFFICES ASSUME ListInv PROVE TypeOK /\ ListWhole
    OBVIOUS
  <1>1. ASSUME NEW g \in Graphs PROVE Linked(g) \in Nat
    BY TypeParts, LinkedBound, FrameNat DEF ListInv
  <1>2. TypeOK
    BY DEF ListInv
  <1> QED BY <1>1, <1>2 DEF ListInv, Whole, TailKnown, ListWhole

(* Every variable of the updater and the window thread keeps its type: no   *)
(* pointer of a list ever names anything but a buffer or the head.         *)
THEOREM TypeCorrect == Spec => []TypeOK
  <1>1. Spec => []ListInv
    BY InitList, ListStep, PTL DEF Spec
  <1> QED BY <1>1, ListInvImplies, PTL

(* Without a lock around them, the lists stay whole at every interleaving   *)
(* of glwin_draw_data with render_buffer, and the updater never writes      *)
(* through a pointer into a buffer that render_buffer has freed.           *)
THEOREM ListsStayWhole == Spec => []ListWhole
  <1>1. Spec => []ListInv
    BY InitList, ListStep, PTL DEF Spec
  <1> QED BY <1>1, ListInvImplies, PTL

-----------------------------------------------------------------------------
(* What a round shows.                                                     *)

FreshInv == fresh <= frame - 1 /\ RenderIsFresh

LEMMA FreshStep == ListInv /\ FreshInv /\ [Next]_vars => FreshInv'
  <1> SUFFICES ASSUME ListInv, FreshInv, [Next]_vars PROVE FreshInv'
    OBVIOUS
  <1> USE WindowAssumption
  <1>t. ListTypes /\ WinTypes /\ frame \in Nat /\ frame >= 1
    BY TypeParts, FrameNat DEF ListInv
  <1>same. ASSUME UNCHANGED <<fresh, frame, win, graph, shown>> PROVE FreshInv'
    BY <1>same DEF FreshInv, RenderIsFresh
  <1>1. ASSUME NEW g \in Graphs, Link(g) \/ Advance(g) \/ Drop(g) PROVE FreshInv'
    BY <1>1, <1>same DEF Link, Advance, Drop, winVars, updVars
  <1>2. CASE Unlock
    <2>1. frame' = frame + 1 /\ UNCHANGED <<fresh, win, graph, shown>>
      BY <1>2 DEF Unlock, winVars
    <2>2. fresh' <= frame' - 1
      BY <1>t, <2>1 DEF FreshInv, WinTypes
    <2> QED BY <2>1, <2>2 DEF FreshInv, RenderIsFresh
  <1>3. CASE Lock
    BY <1>t, <1>3 DEF Lock, updVars, FreshInv, RenderIsFresh
  <1>4. CASE HandleEvent \/ EventsHandled
    <2>1. UNCHANGED <<fresh, frame, shown>> /\ (win' = "render" => graph' = 1)
      BY <1>4 DEF HandleEvent, EventsHandled, updVars
    <2> QED BY <2>1 DEF FreshInv, RenderIsFresh, Graphs
  <1>5. CASE Rendered
    <2>1. UNCHANGED <<fresh, frame, shown>> /\ graph' = 1
      BY <1>5 DEF Rendered, updVars
    <2> QED BY <2>1 DEF FreshInv, RenderIsFresh, Graphs
  <1>6. ASSUME NEW g \in Graphs, Draw(g) PROVE FreshInv'
    <2>1. Linked(g) \in Nat /\ Linked(g) >= frame - 1
      BY <1>t, LinkedBound
    <2>2. First(g) = Linked(g)
      <3>1. Whole(g, Linked(g)) /\ First(g) # 0 /\ nxt[g][First(g)] = 0
        BY <1>6 DEF ListInv, Draw, HasNewer
      <3> QED BY <2>1, <3>1 DEF Whole
    <2>3. /\ win = "render" /\ graph = g /\ graph' = g + 1
          /\ shown' = [shown EXCEPT ![g] = First(g)]
          /\ UNCHANGED <<fresh, frame, win>>
      BY <1>6 DEF Draw, Rendering, updVars
    <2>4. fresh \in Nat /\ fresh <= Linked(g)
      BY <1>t, <2>1, WindowAssumption DEF FreshInv, WinTypes
    <2>5. ASSUME NEW h \in Graphs, h < g + 1 PROVE shown'[h] >= fresh
      <3>1. CASE h = g
        BY <1>t, <2>2, <2>3, <2>4, <3>1 DEF WinTypes
      <3>2. CASE h # g
        <4>1. h < graph /\ shown'[h] = shown[h]
          BY <1>t, <2>3, <2>5, <3>2 DEF WinTypes, Graphs
        <4> QED BY <2>3, <4>1 DEF FreshInv, RenderIsFresh
      <3> QED BY <3>1, <3>2
    <2> QED BY <2>3, <2>5 DEF FreshInv, RenderIsFresh
  <1>7. ASSUME NEW g \in Graphs, NoBuffer(g) PROVE FreshInv'
    <2>1. First(g) = 0 /\ win = "render" /\ UNCHANGED <<fresh, frame, shown>>
      BY <1>7 DEF NoBuffer, Rendering, updVars
    <2>2. Linked(g) = 0
      <3>1. Whole(g, Linked(g)) /\ Linked(g) \in Nat
        BY <1>t, LinkedBound DEF ListInv
      <3> QED BY <2>1, <3>1 DEF Whole
    <2>3. frame = 1
      BY <1>t, <2>2, LinkedBound
    <2>4. fresh = 0
      BY <1>t, <2>3 DEF FreshInv, WinTypes
    <2>5. \A h \in Graphs : shown[h] >= 0
      BY <1>t DEF WinTypes
    <2> QED BY <2>1, <2>3, <2>4, <2>5 DEF FreshInv, RenderIsFresh
  <1>8. ASSUME NEW g \in Graphs, DivideByZero(g) PROVE FreshInv'
    BY <1>8 DEF DivideByZero, updVars, FreshInv, RenderIsFresh
  <1>9. CASE PostEvent \/ UNCHANGED vars
    BY <1>9, <1>same DEF PostEvent, vars, winVars, updVars
  <1> QED BY <1>1, <1>2, <1>3, <1>4, <1>5, <1>6, <1>7, <1>8, <1>9
          DEF Next, Updater, WindowThread

(* The wake-up is not a lock, and yet a round of the window thread shows on *)
(* every graph what was complete when it woke, or something newer.         *)
THEOREM RoundsAreFresh == Spec => []RenderIsFresh
  <1>1. Init => FreshInv
    BY DEF Init, FreshInv, RenderIsFresh
  <1>2. FreshInv => RenderIsFresh
    BY DEF FreshInv
  <1> QED BY <1>1, <1>2, InitList, ListStep, FreshStep, PTL DEF Spec

-----------------------------------------------------------------------------
(* The integers of render_line.                                            *)

LEMMA Division ==
  ASSUME NEW x \in Nat, NEW p \in Nat \ {0}
  PROVE  /\ x \div p \in Nat /\ (x % p) \in 0..(p - 1)
         /\ x = p * (x \div p) + (x % p)
  OBVIOUS

LEMMA DivisionUnique ==
  ASSUME NEW p \in Nat \ {0}, NEW q \in Nat, NEW r \in 0..(p - 1)
  PROVE  (p * q + r) \div p = q /\ (p * q + r) % p = r
  OBVIOUS

LEMMA Distribute ==
  ASSUME NEW p \in Int, NEW a \in Int, NEW b \in Int
  PROVE  p * (a + b) = p * a + p * b
  OBVIOUS

(* Adding n to x: the remainders add up, and a carry goes to the quotient.  *)
LEMMA Carry ==
  ASSUME NEW x \in Nat, NEW n \in Nat, NEW p \in Nat \ {0}
  PROVE  /\ (x + n) \div p = (x \div p) + (n \div p)
                                + (IF (x % p) + (n % p) >= p THEN 1 ELSE 0)
         /\ (x + n) % p = IF (x % p) + (n % p) >= p THEN (x % p) + (n % p) - p
                           ELSE (x % p) + (n % p)
  <1> DEFINE a == x \div p
             b == n \div p
             r == x % p
             t == n % p
  <1>1. /\ a \in Nat /\ b \in Nat /\ r \in 0..(p - 1) /\ t \in 0..(p - 1)
        /\ x = p * a + r /\ n = p * b + t
    BY Division
  <1> HIDE DEF a, b, r, t
  <1>2. /\ p * (a + b) = p * a + p * b
        /\ p * (a + b + 1) = p * (a + b) + p
        /\ p * a \in Int /\ p * b \in Int /\ p * (a + b) \in Int
    <2>1. p * (a + b) = p * a + p * b  BY <1>1, Distribute
    <2>2. p * ((a + b) + 1) = p * (a + b) + p * 1  BY <1>1, Distribute
    <2> QED  BY <1>1, <2>1, <2>2
  <1>3. CASE r + t < p
    <2>1. x + n = p * (a + b) + (r + t)  BY <1>1, <1>2
    <2>2. r + t \in 0..(p - 1) /\ a + b \in Nat  BY <1>1, <1>3
    <2>3. (x + n) \div p = a + b /\ (x + n) % p = r + t
      <3> DEFINE q == a + b
                 u == r + t
      <3>1. x + n = p * q + u /\ q \in Nat /\ u \in 0..(p - 1)  BY <2>1, <2>2
      <3> HIDE DEF q, u
      <3>2. (x + n) \div p = q /\ (x + n) % p = u  BY <3>1, DivisionUnique
      <3> QED  BY <3>2 DEF q, u
    <2> QED  BY <1>1, <1>3, <2>3 DEF a, b, r, t
  <1>4. CASE r + t >= p
    <2>1. x + n = p * (a + b + 1) + (r + t - p)  BY <1>1, <1>2
    <2>2. r + t - p \in 0..(p - 1) /\ a + b + 1 \in Nat  BY <1>1, <1>4
    <2>3. (x + n) \div p = a + b + 1 /\ (x + n) % p = r + t - p
      <3> DEFINE q == a + b + 1
                 u == r + t - p
      <3>1. x + n = p * q + u /\ q \in Nat /\ u \in 0..(p - 1)  BY <2>1, <2>2
      <3> HIDE DEF q, u
      <3>2. (x + n) \div p = q /\ (x + n) % p = u  BY <3>1, DivisionUnique
      <3> QED  BY <3>2 DEF q, u
    <2> QED  BY <1>1, <1>4, <2>3 DEF a, b, r, t
  <1>5. r + t < p \/ r + t >= p  BY <1>1
  <1> QED  BY <1>3, <1>4, <1>5

(* The recursion of Columns has one solution: in column k, the index is the *)
(* quotient and the error the remainder of k * samples by pixels.          *)
LEMMA ColumnsValue ==
  ASSUME NEW n \in Nat, NEW p \in Nat \ {0}
  PROVE  Columns(n, p) = [k \in 0..(p - 1) |-> (k * n) \div p]
  <1> DEFINE Sol == [k \in 0..(p - 1) |-> [i |-> (k * n) \div p, e |-> (k * n) % p]]
             F(g) == [k \in 0..(p - 1) |->
                        IF k = 0 THEN [i |-> 0, e |-> 0] ELSE Column(g[k - 1], n, p)]
             at == CHOOSE g : g = F(g)
  <1>1. Sol = F(Sol)
    <2>1. Sol[0] = [i |-> 0, e |-> 0] /\ 0 \in 0..(p - 1)
      <3>1. 0 * n = 0 /\ 0 \div p = 0 /\ 0 % p = 0 /\ 0 \in 0..(p - 1)  OBVIOUS
      <3> QED  BY <3>1
    <2>2. ASSUME NEW k \in 0..(p - 1), k # 0
          PROVE  Sol[k] = Column(Sol[k - 1], n, p)
      <3> DEFINE x == (k - 1) * n
      <3>1. k - 1 \in 0..(p - 1) /\ k - 1 \in Nat  BY <2>2
      <3>2. x \in Nat /\ k * n = x + n
        <4>1. n * ((k - 1) + 1) = n * (k - 1) + n * 1  BY <3>1, Distribute
        <4> QED  BY <2>2, <3>1, <4>1
      <3>3. Sol[k - 1] = [i |-> x \div p, e |-> (x % p)]  BY <3>1
      <3>4. Sol[k] = [i |-> (x + n) \div p, e |-> (x + n) % p]  BY <3>2
      <3> HIDE DEF x, Sol
      <3>5. PICK y \in Nat : y = x  BY <3>2
      <3>6. /\ (y + n) \div p = (y \div p) + (n \div p)
                                 + (IF (y % p) + (n % p) >= p THEN 1 ELSE 0)
            /\ (y + n) % p = IF (y % p) + (n % p) >= p THEN (y % p) + (n % p) - p
                             ELSE (y % p) + (n % p)
        BY <3>5, Carry
      <3>7. Column([i |-> y \div p, e |-> y % p], n, p)
              = [i |-> (y \div p) + (n \div p)
                         + (IF (y % p) + (n % p) >= p THEN 1 ELSE 0),
                 e |-> IF (y % p) + (n % p) >= p THEN (y % p) + (n % p) - p
                       ELSE (y % p) + (n % p)]
        BY DEF Column
      <3> HIDE DEF Column
      <3> QED  BY <3>3, <3>4, <3>5, <3>6, <3>7
    <2> HIDE DEF Column
    <2> QED  BY <2>1, <2>2
  <1>2. at = F(at)
    <2> HIDE DEF F, Sol
    <2> QED  BY <1>1
  <1>3. \A k \in 0..(p - 1) : at[k] = Sol[k]
    <2> DEFINE T == {k \in 0..(p - 1) : at[k] # Sol[k]}
    <2> SUFFICES ASSUME T # {} PROVE FALSE  OBVIOUS
    <2> HIDE DEF at, Sol
    <2>1. T \in SUBSET Nat  OBVIOUS
    <2>2. PICK k \in T : \A j \in T : k <= j  BY <2>1, LeastNumber
    <2>3. k \in 0..(p - 1) /\ at[k] # Sol[k]  BY <2>2
    <2>4. at[k] = IF k = 0 THEN [i |-> 0, e |-> 0] ELSE Column(at[k - 1], n, p)
      BY <1>2, <2>3
    <2>5. Sol[k] = IF k = 0 THEN [i |-> 0, e |-> 0] ELSE Column(Sol[k - 1], n, p)
      BY <1>1, <2>3
    <2>6. k # 0 => k - 1 \in 0..(p - 1) /\ ~(k <= k - 1)  BY <2>3
    <2>7. k # 0 => at[k - 1] = Sol[k - 1]  BY <2>2, <2>6
    <2> QED  BY <2>3, <2>4, <2>5, <2>7
  <1>4. Columns(n, p) = [k \in 0..(p - 1) |-> at[k].i]
    BY DEF Columns
  <1> HIDE DEF at
  <1>5. \A k \in 0..(p - 1) : at[k].i = (k * n) \div p
    <2>1. \A k \in 0..(p - 1) : Sol[k].i = (k * n) \div p  OBVIOUS
    <2> HIDE DEF Sol
    <2> QED  BY <1>3, <2>1
  <1> QED  BY <1>4, <1>5

(* Whatever the graphs hold and however wide the window is made, a line     *)
(* never reads past the end of its buffer, and its columns are spread       *)
(* evenly over it (render_line: Bresenham's error term loses nothing).      *)
THEOREM LinesStayInside == Spec => []LineStaysInside
  <1>1. TypeOK => LineStaysInside
    <2> SUFFICES ASSUME TypeOK, NEW g \in Graphs,
                        NEW k \in DOMAIN Columns(SamplesOf[g], Pixels)
                 PROVE  /\ Columns(SamplesOf[g], Pixels)[k] = (k * SamplesOf[g]) \div Pixels
                        /\ Columns(SamplesOf[g], Pixels)[k] < SamplesOf[g]
      BY DEF LineStaysInside
    <2>1. PICK n \in Nat \ {0} : n = SamplesOf[g]  BY WindowAssumption
    <2>2. PICK p \in Int : p = Pixels
      BY WindowAssumption DEF TypeOK, Pixels
    <2>3. DOMAIN Columns(n, p) = 0..(p - 1)  BY DEF Columns
    <2>4. k \in 0..(p - 1) /\ p \in Nat \ {0}  BY <2>1, <2>2, <2>3
    <2>5. Columns(n, p)[k] = (k * n) \div p
      <3>1. n \in Nat /\ p \in Nat \ {0}  BY <2>1, <2>4
      <3>2. Columns(n, p) = [j \in 0..(p - 1) |-> (j * n) \div p]
        BY <3>1, ColumnsValue
      <3> QED  BY <2>4, <3>2
    <2>6. (k * n) \div p < n
      <3> DEFINE q == (k * n) \div p
      <3>1. k * n \in Nat /\ q \in Nat /\ p * q <= k * n
        <4>1. k * n \in Nat  BY <2>1, <2>4
        <4>2. /\ q \in Nat /\ (k * n) % p \in 0..(p - 1)
              /\ k * n = p * q + ((k * n) % p)
          BY <2>4, <4>1, Division
        <4> QED  BY <2>4, <4>1, <4>2
      <3> HIDE DEF q
      <3>2. ASSUME q >= n PROVE FALSE
        <4>1. p * q >= p * n  BY <2>1, <2>4, <3>1, <3>2
        <4>2. p * n > k * n  BY <2>1, <2>4
        <4>3. p * n \in Int /\ p * q \in Int /\ k * n \in Int  BY <2>1, <2>4, <3>1
        <4> QED  BY <3>1, <4>1, <4>2, <4>3
      <3>3. q < n  BY <2>1, <3>1, <3>2
      <3> QED  BY <3>3 DEF q
    <2> QED  BY <2>1, <2>2, <2>5, <2>6
  <1> QED  BY TypeCorrect, <1>1, PTL
=============================================================================
