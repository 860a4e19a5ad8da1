------------------------------- MODULE Window -------------------------------
(***************************************************************************)
(* The graph queues and the window of display (display/glwin): the updater *)
(* appends a buffer to the STAILQ of each graph and unlocks draw_mutex; the *)
(* window thread locks it, handles the X events that are pending, and      *)
(* renders the newest buffer of each graph, freeing the older ones.        *)
(* draw_mutex wakes the window thread: it guards no list.  The lists are   *)
(* shared, at the granularity of their pointers.                           *)
(*                                                                         *)
(* The f-th buffer of a graph is f.  Cell 0 is the list head: its "next"   *)
(* is stqh_first, and stqh_last = 0 is &head.                              *)
(***************************************************************************)
EXTENDS RenderLine, Sequences

CONSTANTS
  GraphCount,    (* GRAPH_COUNT                                            *)
  SamplesOf,     (* the samples in a buffer of each graph                  *)
  Padding,       (* PADDING, in pixels                                     *)
  Widths,        (* the widths a window may be given                       *)
  MaxFrames,     (* bound: sets the updater draws                          *)
  MaxEvents      (* bound: X events                                        *)

Graphs == 1..GraphCount
Frames == 1..MaxFrames

ASSUME WindowAssumption ==
  /\ GraphCount \in Nat \ {0}
  /\ SamplesOf \in [Graphs -> Nat \ {0}]
  /\ Padding \in Nat \ {0}
  /\ Widths \subseteq Nat \ {0} /\ Widths # {}
  /\ MaxFrames \in Nat \ {0} /\ MaxEvents \in Nat

VARIABLES
  mutex,      (* draw_mutex: "free" or "held"                              *)
  nxt,        (* by graph: stqe_next of a buffer, stqh_first of the head   *)
  tail,       (* by graph: the cell stqh_last points into                  *)
  alive,      (* by graph: the buffers allocated and not freed             *)
  frame,      (* the set the updater is drawing                            *)
  upd,        (* updater: <<"link", g>>, <<"advance", g>>, or <<"unlock", 0>> *)
  win,        (* window thread: "lock", "events", "render"; terminal:      *)
              (* "closed", "crashed" (division by zero)                    *)
  graph,      (* the graph being rendered                                  *)
  back,       (* where render_graph returns to: "events" or "lock"         *)
  done,       (* done                                                      *)
  width,      (* GLWin.width                                               *)
  events,     (* the X events pending                                      *)
  posted,     (* X events so far                                           *)
  shown,      (* by graph: the buffer last drawn                           *)
  fresh       (* history: the sets unlocked when the window last locked    *)

listVars == <<nxt, tail, alive>>
updVars == <<frame, upd>>
winVars == <<win, graph, back, done, width, shown, fresh>>
vars == <<mutex, listVars, updVars, winVars, events, posted>>

Event == {<<"resize", w>> : w \in Widths} \cup {<<"expose", 0>>, <<"close", 0>>}
Gone == win \in {"closed", "crashed"}
Handled == posted - Len(events)

TypeOK ==
  /\ mutex \in {"free", "held"}
  /\ nxt \in [Graphs -> [0..MaxFrames -> 0..MaxFrames]]
  /\ tail \in [Graphs -> 0..MaxFrames]
  /\ alive \in [Graphs -> SUBSET Frames]
  /\ frame \in 1..(MaxFrames + 1)
  /\ upd \in ({"link", "advance"} \X Graphs) \cup {<<"unlock", 0>>}
  /\ win \in {"lock", "events", "render", "closed", "crashed"}
  /\ graph \in 1..(GraphCount + 1)
  /\ back \in {"events", "lock"} /\ done \in BOOLEAN
  /\ width \in Widths
  /\ events \in Seq(Event) /\ posted \in 0..MaxEvents
  /\ shown \in [Graphs -> 0..MaxFrames]
  /\ fresh \in 0..MaxFrames

(* glwin_draw_init; the updater starts after it.                           *)
Init ==
  /\ mutex = "free"
  /\ nxt = [g \in Graphs |-> [f \in 0..MaxFrames |-> 0]]
  /\ tail = [g \in Graphs |-> 0]
  /\ alive = [g \in Graphs |-> {}]
  /\ frame = 1 /\ upd = <<"link", 1>>
  /\ win = "lock" /\ graph = 1 /\ back = "lock" /\ done = FALSE
  /\ width \in Widths
  /\ events = <<>> /\ posted = 0
  /\ shown = [g \in Graphs |-> 0] /\ fresh = 0

-----------------------------------------------------------------------------
(* The updater: glwin_draw_data, glwin_draw_data_c, glwin_render_data.      *)

(* STAILQ_INSERT_TAIL, first half: *stqh_last = buf.                        *)
Link(g) ==
  /\ frame \in Frames /\ upd = <<"link", g>>
  /\ nxt' = [nxt EXCEPT ![g] = [@ EXCEPT ![frame] = 0, ![tail[g]] = frame]]
  /\ alive' = [alive EXCEPT ![g] = @ \cup {frame}]
  /\ upd' = <<"advance", g>>
  /\ UNCHANGED <<mutex, tail, frame, winVars, events, posted>>

(* Second half: stqh_last = &buf->next.                                    *)
Advance_PastEnd(g) ==                                     (* mutant of Advance *)
  /\ upd = <<"advance", g>>
  /\ tail' = [tail EXCEPT ![g] = frame]
  /\ upd' = IF g <= GraphCount THEN <<"link", g + 1>> ELSE <<"unlock", 0>>
  /\ UNCHANGED <<mutex, nxt, alive, frame, winVars, events, posted>>
Advance(g) ==
  /\ upd = <<"advance", g>>
  /\ tail' = [tail EXCEPT ![g] = frame]
  /\ upd' = IF g < GraphCount THEN <<"link", g + 1>> ELSE <<"unlock", 0>>
  /\ UNCHANGED <<mutex, nxt, alive, frame, winVars, events, posted>>

(* draw_unlock, by a thread that does not hold it: the next lock succeeds.  *)
Unlock_Held ==                                             (* mutant of Unlock *)
  /\ upd = <<"unlock", 0>>
  /\ frame' = frame + 1
  /\ upd' = <<"link", 1>>
  /\ UNCHANGED <<mutex, listVars, winVars, events, posted>>
Unlock ==
  /\ upd = <<"unlock", 0>>
  /\ mutex' = "free"
  /\ frame' = frame + 1
  /\ upd' = <<"link", 1>>
  /\ UNCHANGED <<listVars, winVars, events, posted>>

-----------------------------------------------------------------------------
(* The user and the X server.                                              *)

PostEvent ==
  /\ posted < MaxEvents /\ ~Gone
  /\ \E e \in Event : events' = Append(events, e)
  /\ posted' = posted + 1
  /\ UNCHANGED <<mutex, listVars, updVars, winVars>>

-----------------------------------------------------------------------------
(* The window thread: glwin_main.                                          *)

Lock ==
  /\ win = "lock" /\ mutex = "free"
  /\ mutex' = "held"
  /\ win' = "events"
  /\ fresh' = frame - 1
  /\ UNCHANGED <<listVars, updVars, graph, back, done, width, shown, events, posted>>

HandleEvent_Peeks ==                                  (* mutant of HandleEvent *)
  /\ win = "events" /\ events # <<>>
  /\ win' = "render" /\ graph' = 1 /\ back' = "lock"
  /\ LET e == Head(events)
     IN  /\ width' = IF e[1] = "resize" THEN e[2] ELSE width
         /\ done' = (done \/ e[1] = "close")
  /\ UNCHANGED <<mutex, listVars, updVars, shown, fresh, events, posted>>
HandleEvent ==
  /\ win = "events" /\ events # <<>>
  /\ events' = Tail(events)
  /\ LET e == Head(events)
     IN  /\ width' = IF e[1] = "resize" THEN e[2] ELSE width
         /\ done' = (done \/ e[1] = "close")
         /\ IF e[1] = "expose"
            THEN win' = "render" /\ graph' = 1 /\ back' = "events"
            ELSE UNCHANGED <<win, graph, back>>
  /\ UNCHANGED <<mutex, listVars, updVars, shown, fresh, posted>>

EventsHandled ==
  /\ win = "events" /\ events = <<>>
  /\ win' = "render" /\ graph' = 1 /\ back' = "lock"
  /\ UNCHANGED <<mutex, listVars, updVars, done, width, shown, fresh, events, posted>>

(* render_buffer, for graph g, and the buffer at the head of its list.      *)
First(g) == nxt[g][0]
HasNewer_Always(g) == First(g) # 0                       (* mutant of HasNewer *)
HasNewer_Never(g) == FALSE                               (* mutant of HasNewer *)
HasNewer(g) == First(g) # 0 /\ nxt[g][First(g)] # 0

Rendering(g) == win = "render" /\ graph = g

(* STAILQ_REMOVE_HEAD, which resets stqh_last when the list becomes empty,  *)
(* and del_buf.                                                            *)
Drop(g) ==
  LET b == First(g)
  IN  /\ Rendering(g) /\ HasNewer(g)
      /\ nxt' = [nxt EXCEPT ![g][0] = nxt[g][b]]
      /\ tail' = [tail EXCEPT ![g] = IF nxt[g][b] = 0 THEN 0 ELSE @]
      /\ alive' = [alive EXCEPT ![g] = @ \ {b}]
      /\ UNCHANGED <<mutex, updVars, winVars, events, posted>>

Pixels == width - 2 * Padding

(* render_line of the one that is left.  It divides by the pixels first.    *)
Draw(g) ==
  /\ Rendering(g) /\ First(g) # 0 /\ ~HasNewer(g)
  /\ Pixels # 0
  /\ shown' = [shown EXCEPT ![g] = First(g)]
  /\ graph' = g + 1
  /\ UNCHANGED <<mutex, listVars, updVars, win, back, done, width, fresh, events, posted>>

DivideByZero(g) ==
  /\ Rendering(g) /\ First(g) # 0 /\ ~HasNewer(g)
  /\ Pixels = 0
  /\ win' = "crashed"
  /\ UNCHANGED <<mutex, listVars, updVars, graph, back, done, width, shown, fresh,
                 events, posted>>

NoBuffer(g) ==
  /\ Rendering(g) /\ First(g) = 0
  /\ graph' = g + 1
  /\ UNCHANGED <<mutex, listVars, updVars, win, back, done, width, shown, fresh,
                 events, posted>>

(* render_graph returns; the loop tests done only after a full round.       *)
Rendered ==
  /\ win = "render" /\ graph = GraphCount + 1
  /\ win' = IF back = "lock" /\ done THEN "closed" ELSE back
  /\ graph' = 1 /\ back' = "lock"
  /\ UNCHANGED <<mutex, listVars, updVars, done, width, shown, fresh, events, posted>>

-----------------------------------------------------------------------------

(* A division by zero ends the process, the updater with it.                *)
Updater ==
  /\ win # "crashed"
  /\ Unlock \/ \E g \in Graphs : Link(g) \/ Advance(g)
WindowThread ==
  \/ Lock \/ HandleEvent \/ EventsHandled \/ Rendered
  \/ \E g \in Graphs : Drop(g) \/ Draw(g) \/ DivideByZero(g) \/ NoBuffer(g)
Next == Updater \/ WindowThread \/ PostEvent

(* The window thread is scheduled; sets need not come.                     *)
Spec == Init /\ [][Next]_vars /\ WF_vars(WindowThread)

-----------------------------------------------------------------------------

(* The updater and the window thread share the lists without a lock, and    *)
(* may: at every moment a list runs from its head through every allocated  *)
(* buffer, in order, to the newest; and whenever the updater is about to    *)
(* write through stqh_last, it points into the newest buffer or the head,   *)
(* never into one that render_buffer has freed.                            *)
Linked(g) ==
  IF upd \in {<<"unlock", 0>>, <<"advance", g>>} \/ upd[2] > g THEN frame ELSE frame - 1
ListWhole ==
  \A g \in Graphs :
    LET newest == Linked(g)
    IN  /\ newest > 0 => First(g) \in 1..newest
        /\ alive[g] = IF newest = 0 THEN {} ELSE First(g)..newest
        /\ \A f \in alive[g] : nxt[g][f] = (IF f = newest THEN 0 ELSE f + 1)
        /\ upd # <<"advance", g>> => tail[g] = newest

(* Every round of the window shows, on every graph, what had been unlocked  *)
(* when it locked, or something newer: never an older buffer.              *)
RenderIsFresh ==
  win = "render" => \A g \in Graphs : g < graph => shown[g] >= fresh

(* For every graph and width, the index in column k is the k-th of the      *)
(* buffer's samples spread evenly over the pixels, and inside the buffer.  *)
LineStaysInside ==
  \A g \in Graphs :
    LET line == Columns(SamplesOf[g], Pixels)
    IN  \A k \in DOMAIN line :
          /\ line[k] = (k * SamplesOf[g]) \div Pixels
          /\ line[k] < SamplesOf[g]

(* No unlock is lost: a set that has been unlocked is shown on every graph, *)
(* or a newer one is, as long as the window is open.                       *)
UnlockedIsShown ==
  \A f \in Frames : frame > f ~> (Gone \/ \A g \in Graphs : shown[g] >= f)

(* An event waits for the next set to be drawn, and no longer: when it is   *)
(* pending and draw_mutex is free, it is handled.                          *)
EventsWaitForData ==
  \A k \in 1..MaxEvents :
    (posted >= k /\ mutex = "free") ~> (Gone \/ Handled >= k)
=============================================================================
