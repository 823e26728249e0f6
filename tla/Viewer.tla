------------------------------- MODULE Viewer -------------------------------
(***************************************************************************)
(* The event loop of monks-viewer (monks/monks-viewer.c, ui.c): the list   *)
(* of events from head to tail, the cursor curr, the keys that move it,    *)
(* the window it is drawn into, and SIGWINCH at any moment.                *)
(*                                                                         *)
(* A node is an address: what free gives back calloc may hand out again,   *)
(* and a pointer left behind then points to the new node.  A step through  *)
(* NULL or freed memory ends in place "wild", of which nothing is known.   *)
(***************************************************************************)
EXTENDS Naturals, Sequences, FiniteSets

CONSTANTS
  Nodes,       (* bound: the addresses malloc and calloc may return        *)
  NULL,
  Infos,       (* events                                                   *)
  Hidden,      (* those filter_i leaves out                                *)
  MemLimit,    (* MEM_LIMIT                                                *)
  Heights      (* window heights the terminal may be given                 *)

ASSUME ViewerAssumption ==
  /\ NULL \notin Nodes \cup Infos
  /\ Hidden \subseteq Infos
  /\ MemLimit \in Nat \ {0, 1}
  /\ IsFiniteSet(Nodes) /\ Cardinality(Nodes) > MemLimit
  /\ Heights \subseteq Nat /\ Heights # {}

VARIABLES
  place,                 (* "wait": epoll_wait; "read": in the loop that   *)
                         (* reads the socket; "draw": before draw_data;    *)
                         (* "resized": scheduled_resize still to be        *)
                         (* cleared; "done"; "wild"                        *)
  live,                  (* nodes allocated and not freed                  *)
  info, prev, next,      (* their members                                  *)
  head, curr, tail,
  total_nodes,
  rows,                  (* what the last draw_data wrote into which row   *)
  scheduled_resize,
  lines,                 (* the height the terminal has                    *)
  win_data_height,
  missed                 (* history: SIGWINCH came before the flag of the  *)
                         (* last resize was cleared                        *)

listVars   == <<live, info, prev, next, head, tail, total_nodes>>
resizeVars == <<scheduled_resize, lines, win_data_height, missed>>
vars == <<place, listVars, curr, rows, resizeVars>>

Blank == [n \in Nodes |-> NULL]

(* main up to the event loop: one node, with no event.                     *)
Init ==
  /\ place = "wait"
  /\ head \in Nodes
  /\ tail = head /\ curr = head
  /\ live = {head}
  /\ info = Blank /\ prev = Blank /\ next = Blank
  /\ total_nodes = 0
  /\ rows = <<>>
  /\ scheduled_resize = FALSE
  /\ lines \in Heights
  /\ win_data_height = lines
  /\ missed = FALSE

(* The nodes from `node` on along the pointers `step`, until NULL or `end`. *)
Walk(node, step, end) ==
  LET at[k \in 1 .. Cardinality(Nodes) + 1] ==
        IF k = 1 THEN node ELSE IF at[k - 1] \in {NULL, end} THEN NULL ELSE step[at[k - 1]]
  IN  SubSeq(at, 1, Cardinality({k \in DOMAIN at : at[k] \notin {NULL, end}}))

-----------------------------------------------------------------------------
(* The socket                                                              *)

SocketReady ==
  /\ place = "wait"
  /\ place' = "read"
  /\ UNCHANGED <<listVars, curr, rows, resizeVars>>

(* The first event goes into the node that main made.                      *)
AddFirst(i) ==
  /\ info[head] = NULL
  /\ info' = [info EXCEPT ![head] = i]
  /\ total_nodes' = total_nodes + 1
  /\ UNCHANGED <<live, prev, next, head, tail, curr>>

(* A slip: one event too many is kept. *)
FullLate == total_nodes > MemLimit

(* A slip: the oldest event goes one too early. *)
FullEarly == total_nodes >= MemLimit - 1

Full == total_nodes >= MemLimit

(* A slip: in->prev is not set. *)
LinkForward(in, old) ==
  /\ prev' = [n \in Nodes |-> IF n \in old \cup {in} THEN NULL ELSE prev[n]]
  /\ next' = [n \in Nodes |-> IF n = tail THEN in
                              ELSE IF n \in old \cup {in} THEN NULL ELSE next[n]]

(* The new node behind tail, the old one forgotten; but not by the node    *)
(* after it, which keeps its pointer.                                      *)
Link(in, old) ==
  /\ prev' = [n \in Nodes |-> IF n = in THEN tail ELSE IF n \in old THEN NULL ELSE prev[n]]
  /\ next' = [n \in Nodes |-> IF n = tail THEN in
                              ELSE IF n \in old \cup {in} THEN NULL ELSE next[n]]

(* A slip: a cursor that has been moved up is taken along. *)
AutoScrollAlways(in) == curr' = in

AutoScroll(in) == curr' = IF curr = prev'[in] THEN in ELSE curr

(* All others get a new one; if there are too many the oldest makes room.  *)
AddNode(i) ==
  /\ info[head] # NULL
  /\ head' = IF Full THEN next[head] ELSE head
  /\ total_nodes' = IF Full THEN total_nodes ELSE total_nodes + 1
  /\ LET old == IF Full THEN {head} ELSE {}
     IN  \E in \in Nodes \ (live \ old) :
           /\ live' = (live \ old) \cup {in}
           /\ info' = [n \in Nodes |-> IF n = in THEN i
                                       ELSE IF n \in old THEN NULL ELSE info[n]]
           /\ Link(in, old)
           /\ tail' = in
           /\ AutoScroll(in)

AddData(i) ==
  /\ place = "read"
  /\ AddFirst(i) \/ AddNode(i)
  /\ UNCHANGED <<place, rows, resizeVars>>

(* calloc returns NULL, and nobody looks.                                  *)
AddFails ==
  /\ place = "read"
  /\ info[head] # NULL
  /\ place' = "wild"
  /\ UNCHANGED <<listVars, curr, rows, resizeVars>>

SocketEmpty ==
  /\ place = "read"
  /\ place' = IF curr = tail THEN "draw" ELSE "wait"
  /\ UNCHANGED <<listVars, curr, rows, resizeVars>>

-----------------------------------------------------------------------------
(* The keyboard                                                            *)

(* Moving on along `step` from a node that is in the list, over hidden     *)
(* ones, up to `end`, which is not asked whether it is hidden.  NULL: the  *)
(* loop has left the list.                                                 *)
Seek(step, end) ==
  LET at[k \in 0 .. 2 * Cardinality(Nodes)] ==
        IF k = 0 THEN step[curr]
        ELSE LET n == at[k - 1]
             IN  IF n \notin live THEN NULL
                 ELSE IF (k > 1 /\ n = end) \/ info[n] \notin Hidden THEN n
                 ELSE step[n]
  IN  at[2 * Cardinality(Nodes)]

(* A slip: curr->prev and curr->next are not tested first. *)
MoveUnguarded(step, end) ==
  /\ place = "wait"
  /\ IF curr \notin live \/ Seek(step, end) \notin live
     THEN place' = "wild" /\ UNCHANGED curr
     ELSE place' = "draw" /\ curr' = Seek(step, end)
  /\ UNCHANGED <<listVars, rows, resizeVars>>

(* read_from_kb, with KEY_UP or KEY_DOWN                                   *)
Move(step, end) ==
  /\ place = "wait"
  /\ IF curr \notin live \/ (step[curr] # NULL /\ Seek(step, end) \notin live)
     THEN place' = "wild" /\ UNCHANGED curr
     ELSE /\ place' = "draw"
          /\ curr' = IF step[curr] = NULL THEN curr ELSE Seek(step, end)
  /\ UNCHANGED <<listVars, rows, resizeVars>>

KeyUp   == Move(prev, head)
KeyDown == Move(next, tail)

OtherKey ==
  /\ place = "wait"
  /\ place' = "draw"
  /\ UNCHANGED <<listVars, curr, rows, resizeVars>>

(* 'q', and the end of main.  Its loop that frees the list does nothing.   *)
Quit ==
  /\ place = "wait"
  /\ place' = "done"
  /\ UNCHANGED <<listVars, curr, rows, resizeVars>>

-----------------------------------------------------------------------------
(* The screen                                                              *)

(* From the cursor back to the node behind head, at most.                  *)
Behind(node) == Walk(node, prev, head)

Shown(n) == info[n] \notin Hidden

(* A slip: a hidden event leaves its line empty. *)
DrawRowsGaps(height) ==
  LET nodes == Behind(curr)
      used  == {r \in 0 .. height - 1 : height - r + 1 <= Len(nodes)
                                           /\ Shown(nodes[height - r + 1])}
  IN  rows' = [r \in used |-> nodes[height - r + 1]]

(* The loop of draw_data: each visible node takes the row above the one    *)
(* before.  It starts at row win_data_height, one below the last one there *)
(* is: what it draws first is not seen.                                    *)
DrawRows(height) ==
  LET nodes    == Behind(curr)
      shown    == {k \in DOMAIN nodes : Shown(nodes[k])}
      Takes(k, r) == Cardinality({j \in shown : j < k}) + r = height
      used     == {r \in 0 .. height - 1 : \E k \in shown : Takes(k, r)}
  IN  rows' = [r \in used |-> nodes[CHOOSE k \in shown : Takes(k, r)]]

(* A slip: the size is not calculated again. *)
DrawDataOldSize ==
  /\ place = "draw"
  /\ IF scheduled_resize
     THEN place' = "resized" /\ missed' = FALSE /\ UNCHANGED rows
     ELSE /\ IF curr \in live THEN place' = "wait" /\ DrawRows(win_data_height)
                              ELSE place' = "wild" /\ UNCHANGED rows
          /\ UNCHANGED missed
  /\ UNCHANGED <<listVars, curr, scheduled_resize, lines, win_data_height>>

DrawData ==
  /\ place = "draw"
  /\ IF scheduled_resize
     THEN /\ place' = "resized"
          /\ win_data_height' = lines
          /\ missed' = FALSE
          /\ UNCHANGED rows
     ELSE /\ IF curr \in live THEN place' = "wait" /\ DrawRows(win_data_height)
                              ELSE place' = "wild" /\ UNCHANGED rows
          /\ UNCHANGED <<win_data_height, missed>>
  /\ UNCHANGED <<listVars, curr, scheduled_resize, lines>>

ClearFlag ==
  /\ place = "resized"
  /\ scheduled_resize' = FALSE
  /\ IF curr \in live THEN place' = "wait" /\ DrawRows(win_data_height)
                      ELSE place' = "wild" /\ UNCHANGED rows
  /\ UNCHANGED <<listVars, curr, lines, win_data_height, missed>>

(* SIGWINCH: schedule_resize                                               *)
ScheduleResize ==
  /\ place \notin {"done", "wild"}
  /\ lines' \in Heights \ {lines}
  /\ scheduled_resize' = TRUE
  /\ missed' = (missed \/ place = "resized")
  /\ UNCHANGED <<place, listVars, curr, rows, win_data_height>>

Next ==
  \/ SocketReady \/ (\E i \in Infos : AddData(i)) \/ AddFails \/ SocketEmpty
  \/ KeyUp \/ KeyDown \/ OtherKey \/ Quit
  \/ DrawData \/ ClearFlag \/ ScheduleResize

Spec == Init /\ [][Next]_vars

-----------------------------------------------------------------------------
TypeOK ==
  /\ place \in {"wait", "read", "draw", "resized", "done", "wild"}
  /\ live \subseteq Nodes
  /\ info \in [Nodes -> Infos \cup {NULL}]
  /\ prev \in [Nodes -> Nodes \cup {NULL}]
  /\ next \in [Nodes -> Nodes \cup {NULL}]
  /\ {head, curr, tail} \subseteq Nodes
  /\ total_nodes \in 0 .. MemLimit
  /\ \A r \in DOMAIN rows : r \in Nat /\ rows[r] \in Nodes
  /\ scheduled_resize \in BOOLEAN /\ missed \in BOOLEAN
  /\ lines \in Heights /\ win_data_height \in Heights

(* The nodes from head on.                                                 *)
List == Walk(head, next, NULL)

Index(n) == LET list == List IN CHOOSE k \in DOMAIN list : list[k] = n

(* The list leads from head to tail over the nodes that are allocated, and *)
(* back, but for the pointer of head; every node has an event, and they    *)
(* are as many as total_nodes says.                                        *)
ListLinked ==
  LET list == List
  IN  /\ Len(list) = Cardinality(live)
      /\ {list[k] : k \in DOMAIN list} = live
      /\ list[Len(list)] = tail
      /\ \A k \in 2 .. Len(list) : prev[list[k]] = list[k - 1]
      /\ total_nodes = Cardinality({n \in live : info[n] # NULL})
      /\ total_nodes # 0 => total_nodes = Len(list)

(* What the nodes hold; the one that main makes holds nothing at first.    *)
Events ==
  LET list == List
  IN  IF info[head] = NULL THEN <<>> ELSE [k \in DOMAIN list |-> info[list[k]]]

(* The list is the log of the last MemLimit events.                        *)
Log == INSTANCE EventLog WITH Limit <- MemLimit, log <- Events

Implements == Log!Spec

(* Auto-scroll: a cursor on the last event follows, any other stays.       *)
Follows ==
  [][tail' # tail => curr' = (IF curr = tail THEN tail' ELSE curr)]_vars

(* What is drawn are the visible events before the cursor in their order,  *)
(* from the bottom row up, with no empty line in between.                  *)
RowsInOrder ==
  [][rows' # rows =>
       \A r \in DOMAIN rows' :
         /\ Shown(rows'[r]) /\ Index(rows'[r]) < Index(curr)
         /\ r < win_data_height - 1 =>
              /\ r + 1 \in DOMAIN rows'
              /\ Index(rows'[r]) < Index(rows'[r + 1])
              /\ \A n \in live : Index(n) \in Index(rows'[r]) + 1 .. Index(rows'[r + 1]) - 1
                                   => ~Shown(n)]_vars

(* As long as the first event has not been dropped, and the first and the  *)
(* last are visible ones, the keys do not lead out of the list.            *)
KeysStayInList ==
  [][place = "wait" /\ curr \in live /\ prev[head] = NULL /\ Shown(head) /\ Shown(tail)
       => place' # "wild"]_vars

(* Between two draws the window has the height of the terminal, or a       *)
(* resize is scheduled: unless SIGWINCH came while the last was handled.   *)
ResizeSeen ==
  place \in {"wait", "read"} /\ ~scheduled_resize /\ ~missed => win_data_height = lines

-----------------------------------------------------------------------------
(* What a comment promises and the code does not do                        *)

(* ui.c:159: "We need to assign curr the next *visible* element (the one   *)
(* that will pass the filter options)".                                    *)
NextVisible == [][KeyUp \/ KeyDown => place' = "draw" /\ (curr' # curr => Shown(curr'))]_vars

=============================================================================
