------------------------------ MODULE WinMan ------------------------------
(***************************************************************************)
(* The window manager winman.cc: one thread runs the main loop of main()   *)
(* (lines 1048-1185): checkForMessages() selects on the client socket and  *)
(* the control pipe, handles one datagram (handleMessage) and one queued   *)
(* input notification (queueInputCallback), then renders every object of  *)
(* g_PendingWindows.  The kernel's input callback systemInputCallback      *)
(* pushes a notification and writes a byte to the pipe, one step that may *)
(* come between any two steps of the loop.  Clients are the environment:   *)
(* a forked client sends Create, then redraws, titles and syncs, and at    *)
(* last Destroy.                                                           *)
(*                                                                         *)
(* Windows and containers form a tree under the RootContainer.  The        *)
(* classes Window and Container (winman.h) are not in the repository; the  *)
(* model takes from their interface what winman.cc relies on: a Window is  *)
(* appended to its parent's children when constructed, a Container is     *)
(* not; getLeftSibling/getRightSibling are the neighbours in the children  *)
(* list; getLeft/Right/Up/Down return some tile of the tree other than the *)
(* window and its ancestors, or 0 at the screen's edge; getFocusWindow,    *)
(* followed down to a window, ends at some window of the container, and   *)
(* at 0 when it holds none.  Geometry, titles and rendering are not kept.  *)
(***************************************************************************)
EXTENDS Integers, Sequences, SequencesExt, FiniteSets

CONSTANTS
    Handles,      \* widget handles the clients name their windows by
    Null,         \* the null WObject* (and an absent g_Windows entry)
    Notes,        \* the InputNotifications the kernel may deliver
    RootLayouts,  \* the layouts the RootContainer may start with
    Width,        \* g_nWidth
    Height,       \* g_nHeight
    MaxObjs,      \* windows and containers allocated at most
    MaxClients,   \* client processes forked at most
    MaxInputs,    \* input notifications delivered at most
    MaxQueue      \* datagrams waiting on g_iSocket at most

Root == 0
Objs == 1..MaxObjs
Layouts == {"Stacked", "SideBySide"}
Arrows == {"left", "right", "up", "down"}

ASSUME Null \notin Objs \cup {Root} /\ RootLayouts \subseteq Layouts

VARIABLES
    kind,          \* per object: "free", "window", "container" or "deleted"
    parent,        \* per object: getParent()
    children,      \* per container: its children, in order
    layout,        \* per container: getLayout()
    nextObj,       \* the next object `new` returns
    focus,         \* g_pFocusWindow
    windows,       \* g_Windows: per handle, its Window or Null
    pending,       \* g_PendingWindows
    resizeMode,    \* queueInputCallback's static bResize
    status,        \* g_StatusField is not empty
    refresh,       \* the root container's refresh flag (norefresh/yesrefresh)
    cursor,        \* g_CursorX, g_CursorY
    cursorUpdate,  \* g_bCursorUpdate
    inputQueue,    \* g_InputQueue
    pipe,          \* bytes written to g_iControlPipe and not yet read
    sockQ,         \* datagrams waiting on g_iSocket
    mpc,           \* the main loop: "select", "pipe" or "render"
    client,        \* per handle: "none", "open" or "closing"
    forked,        \* clients forked that have not sent Create yet
    spawned,       \* clients forked so far
    inputs,        \* notifications delivered so far
    faults         \* null or dangling dereferences, by where they occur

treeVars == <<kind, parent, children, layout, nextObj>>
vars == <<kind, parent, children, layout, nextObj, focus, windows, pending,
          resizeMode, status, refresh, cursor, cursorUpdate, inputQueue, pipe,
          sockQ, mpc, client, forked, spawned, inputs, faults>>

-----------------------------------------------------------------------------
(* The window tree.                                                        *)

RECURSIVE Subtree(_)
Subtree(o) == {o} \cup UNION {Subtree(children[o][i]) : i \in 1..Len(children[o])}

RECURSIVE AncestorsOf(_)
AncestorsOf(o) == IF o = Root THEN {} ELSE {parent[o]} \cup AncestorsOf(parent[o])

Tree == Subtree(Root)
Windows == {o \in Tree : kind[o] = "window"}

\* getLeft, getRight, getUp, getDown: a tile of the tree other than the
\* window and the containers holding it.
Neighbours(w) == Tree \ ({Root, w} \cup AncestorsOf(w))

\* getLeftSibling and getRightSibling of o in container p.
Pos(p, o) == SelectInSeq(children[p], LAMBDA x : x = o)
LeftSibling(p, o) == IF Pos(p, o) > 1 THEN children[p][Pos(p, o) - 1] ELSE Null
RightSibling(p, o) ==
    IF Pos(p, o) < Len(children[p]) THEN children[p][Pos(p, o) + 1] ELSE Null

\* The `while(getType() == Container) s = getFocusWindow()` loops (lines
\* 283-287, 579-583): the windows the descent from s may end at.  None for
\* a container without windows, whose getFocusWindow() gives 0.
FocusWindows(s) == {o \in Subtree(s) : kind[o] = "window"}

\* The `if(g_pFocusWindow == pWindow)` of lines 299-305.
NewFocusKept(f, pW, nf) == f
NewFocus(f, pW, nf) == IF f = pW THEN nf ELSE f

\* g_Windows->erase(it), line 321.
EraseNone(m, h) == m
Erase(m, h) == [m EXCEPT ![h] = Null]

\* pWindow->setParent(pNewContainer), line 536.
ReparentNone(par, w, c) == par
Reparent(par, w, c) == [par EXCEPT ![w] = c]

Fault(f) == faults' = faults \cup {f}

-----------------------------------------------------------------------------
(* handleMessage, lines 136-345.                                           *)

\* Create, lines 144-187: a new Window in the focus window's container,
\* which takes the focus; g_Windows->insert keeps an existing entry.
CreateMsg(h) ==
    LET o == nextObj
        p == IF focus # Null THEN parent[focus] ELSE Root
    IN /\ nextObj <= MaxObjs
       /\ kind' = [kind EXCEPT ![o] = "window"]
       /\ parent' = [parent EXCEPT ![o] = p]
       /\ children' = [children EXCEPT ![p] = Append(@, o)]
       /\ nextObj' = nextObj + 1
       /\ focus' = o
       /\ windows' = IF windows[h] = Null THEN [windows EXCEPT ![h] = o] ELSE windows
       /\ pending' = pending \cup {o}
       /\ UNCHANGED <<layout, client, faults>>

\* RequestRedraw and SetTitle, lines 211-224 and 328-340.
RedrawMsg(h) ==
    /\ pending' = IF windows[h] # Null THEN pending \cup {windows[h]} ELSE pending
    /\ UNCHANGED <<treeVars, focus, windows, client, faults>>

\* Destroy, lines 225-323: pick the sibling to focus, unlink the window,
\* drop its container if that is left empty (one level only), descend
\* from the sibling to a window, move the focus if it was on this window,
\* answer the client and delete the window.
DestroyMsg(h) ==
    LET pW == windows[h]
        p == parent[pW]
        sib == IF LeftSibling(p, pW) # Null THEN LeftSibling(p, pW) ELSE RightSibling(p, pW)
        rest == Remove(children[p], pW)
        collapse == rest = <<>> /\ p # Root
        top == IF collapse THEN parent[p] ELSE p
    IN IF pW = Null THEN UNCHANGED <<treeVars, focus, windows, pending, client, faults>>
       ELSE
       \E s \in IF Len(children[p]) > 1 THEN {sib}
                ELSE IF Neighbours(pW) = {} THEN {Null} ELSE Neighbours(pW) :
          IF s # Null /\ FocusWindows(s) = {}
          THEN Fault("getFocusWindow") /\ UNCHANGED <<treeVars, focus, windows, pending, client>>
          ELSE \E nf \in IF s = Null THEN {Null} ELSE FocusWindows(s) :
             IF focus = pW /\ nf = Null
             THEN Fault("focus") /\ UNCHANGED <<treeVars, focus, windows, pending, client>>
             ELSE /\ children' = IF collapse
                                 THEN [children EXCEPT ![p] = rest,
                                                       ![parent[p]] = Remove(@, p)]
                                 ELSE [children EXCEPT ![p] = rest]
                  /\ kind' = [kind EXCEPT ![pW] = "deleted"]
                  /\ focus' = NewFocus(focus, pW, nf)
                  /\ pending' = pending \cup {top} \cup (IF focus = pW THEN {nf} ELSE {})
                  /\ windows' = Erase(windows, h)
                  /\ client' = [client EXCEPT ![h] = "none"]
                  /\ UNCHANGED <<parent, layout, nextObj, faults>>

\* Sync answers the client (lines 188-210); Nothing and unknown codes
\* change nothing.
HandleMessage(m) ==
    CASE m.code = "Create" -> CreateMsg(m.h)
      [] m.code = "Destroy" -> DestroyMsg(m.h)
      [] m.code \in {"RequestRedraw", "SetTitle"} -> RedrawMsg(m.h)
      [] OTHER -> UNCHANGED <<treeVars, focus, windows, pending, client, faults>>

-----------------------------------------------------------------------------
(* queueInputCallback, lines 415-737.                                      *)

\* startClient(), lines 93-112: fork may fail (-1); the child runs the
\* client, which will send Create.
StartClient ==
    \E ok \in BOOLEAN :
        IF ok /\ spawned < MaxClients
        THEN forked' = forked + 1 /\ spawned' = spawned + 1
        ELSE UNCHANGED <<forked, spawned>>

\* Lines 474-480: ALT-SHIFT-Q is refused for the root's only child.
QSafe == ~(parent[focus] = Root /\ Len(children[Root]) = 1)

\* The ALT combinations that set bHandled (lines 454-608).
AltHandles(n) ==
    /\ n.type = "Key" /\ n.alt /\ focus # Null
    /\ IF n.shift THEN n.key = "R" \/ (n.key = "Q" /\ QSafe)
       ELSE n.key \in {"\n", "v", "h", "r"} \cup Arrows

\* ALT-v and ALT-h, lines 510-544: set the layout of a container holding
\* only the focus window, or put the focus window in a new container of
\* that layout in its place.
Split(l) ==
    LET fp == parent[focus]
        c == nextObj
    IN IF Len(children[fp]) = 1
       THEN layout' = [layout EXCEPT ![fp] = l] /\ UNCHANGED <<kind, parent, children, nextObj>>
       ELSE IF layout[fp] # l
       THEN /\ nextObj <= MaxObjs
            /\ kind' = [kind EXCEPT ![c] = "container"]
            /\ parent' = [Reparent(parent, focus, c) EXCEPT ![c] = fp]
            /\ children' = [children EXCEPT ![c] = <<focus>>,
                                            ![fp] = ReplaceAll(@, focus, c)]
            /\ layout' = [layout EXCEPT ![c] = l]
            /\ nextObj' = nextObj + 1
       ELSE UNCHANGED treeVars

\* ALT and an arrow, lines 557-607: focus the window found past the edge
\* in that direction, if any.
Navigate ==
    \E s \in Neighbours(focus) \cup {Null} :
        IF s = Null THEN UNCHANGED <<focus, pending, faults>>
        ELSE IF FocusWindows(s) = {} THEN Fault("getFocusWindow") /\ UNCHANGED <<focus, pending>>
        ELSE \E nf \in FocusWindows(s) :
               /\ focus' = nf
               /\ pending' = pending \cup {focus, nf}
               /\ UNCHANGED faults

AltKey(n) ==
    /\ CASE n.key = "\n" -> StartClient /\ UNCHANGED <<treeVars, focus, pending, faults>>
         [] n.key \in {"v", "h"} /\ ~n.shift ->
              Split(IF n.key = "v" THEN "Stacked" ELSE "SideBySide")
              /\ UNCHANGED <<focus, pending, forked, spawned, faults>>
         [] n.key \in Arrows -> Navigate /\ UNCHANGED <<treeVars, forked, spawned>>
         [] OTHER -> UNCHANGED <<treeVars, focus, pending, forked, spawned, faults>>
    /\ IF n.key = "r"
       THEN resizeMode' = TRUE /\ status' = TRUE /\ refresh' = FALSE
       ELSE UNCHANGED <<resizeMode, status, refresh>>
    /\ UNCHANGED <<cursor, cursorUpdate>>

\* Resize mode, lines 610-667: Escape leaves it; an arrow resizes the tile
\* found in that direction (geometry is not kept); either queues the tile
\* found, 0 when there is none or the key was Escape, and the focus window.
ResizeKey(n) ==
    /\ IF n.key = "esc"
       THEN /\ resizeMode' = FALSE /\ status' = TRUE /\ refresh' = TRUE
            /\ pending' = pending \cup {Null, focus}
       ELSE /\ IF n.key \in Arrows
               THEN \E s \in Neighbours(focus) \cup {Null} : pending' = pending \cup {s, focus}
               ELSE UNCHANGED pending
            /\ UNCHANGED <<resizeMode, status, refresh>>
    /\ UNCHANGED <<treeVars, focus, cursor, cursorUpdate, forked, spawned, faults>>

\* Lines 678-689: the cursor is kept on the screen.
ClampNoLower(v, m) == IF v >= m THEN m - 1 ELSE v
Clamp(v, m) == IF v < 0 THEN 0 ELSE IF v >= m THEN m - 1 ELSE v

\* The mouse, lines 670-692; anything else unhandled is only forwarded to
\* the focus window's client (lines 694-736).
MouseOrForward(n) ==
    /\ IF n.type = "Mouse"
       THEN /\ cursor' = [x |-> Clamp(cursor.x + n.relx, Width),
                          y |-> Clamp(cursor.y - n.rely, Height)]
            /\ cursorUpdate' = TRUE
       ELSE UNCHANGED <<cursor, cursorUpdate>>
    /\ UNCHANGED <<treeVars, focus, pending, resizeMode, status, refresh, forked,
                   spawned, faults>>

QueueInput(n) ==
    IF AltHandles(n) THEN AltKey(n)
    ELSE IF n.type = "Key" /\ resizeMode /\ focus # Null THEN ResizeKey(n)
    ELSE MouseOrForward(n)

-----------------------------------------------------------------------------
(* The main loop and the input callback.                                  *)

\* checkForMessages, lines 347-375: select() waits for the socket or the
\* pipe; one datagram is received and handled.
Select ==
    /\ mpc = "select" /\ faults = {}
    /\ sockQ # <<>> \/ pipe > 0
    /\ mpc' = IF pipe > 0 THEN "pipe" ELSE "render"
    /\ IF sockQ # <<>>
       THEN sockQ' = Tail(sockQ) /\ HandleMessage(Head(sockQ))
       ELSE UNCHANGED <<sockQ, treeVars, focus, windows, pending, client, faults>>
    /\ UNCHANGED <<resizeMode, status, refresh, cursor, cursorUpdate, inputQueue,
                   pipe, forked, spawned, inputs>>

\* Lines 376-391: read one byte of the pipe and handle one notification.
ReadPipe ==
    /\ mpc = "pipe" /\ faults = {}
    /\ pipe' = pipe - 1
    /\ mpc' = "render"
    /\ IF inputQueue # <<>>
       THEN inputQueue' = Tail(inputQueue) /\ QueueInput(Head(inputQueue))
       ELSE UNCHANGED <<inputQueue, treeVars, focus, pending, resizeMode, status,
                        refresh, cursor, cursorUpdate, forked, spawned, faults>>
    /\ UNCHANGED <<windows, sockQ, client, inputs>>

\* Lines 1054-1147: every pending object is dereferenced ((*it)->getType(),
\* line 1065) and rendered, and the set is cleared.  A non-empty status
\* counts as dirty (1059), so the `continue` of 1139-1143 is not taken and
\* infoPanel (1147) draws it and clears g_StatusField (778).
\* g_bCursorUpdate is reset only inside `#if 0` (1168), so it stays set.
Render ==
    /\ mpc = "render" /\ faults = {}
    /\ mpc' = "select"
    /\ IF pending = {} /\ ~status /\ ~cursorUpdate
       THEN UNCHANGED <<pending, status, faults>>
       ELSE IF \E o \in pending : o = Null \/ kind[o] \notin {"window", "container"}
       THEN Fault("render") /\ UNCHANGED <<pending, status>>
       ELSE pending' = {} /\ status' = FALSE /\ UNCHANGED faults
    /\ UNCHANGED <<treeVars, focus, windows, resizeMode, refresh, cursor, cursorUpdate,
                   inputQueue, pipe, sockQ, client, forked, spawned, inputs>>

\* systemInputCallback, lines 740-748.
SystemInput(n) ==
    /\ faults = {} /\ inputs < MaxInputs
    /\ inputQueue' = Append(inputQueue, n)
    /\ pipe' = pipe + 1
    /\ inputs' = inputs + 1
    /\ UNCHANGED <<treeVars, focus, windows, pending, resizeMode, status, refresh,
                   cursor, cursorUpdate, sockQ, mpc, client, forked, spawned, faults>>

\* A forked client sends Create for its window; an open client sends
\* redraws, titles and syncs, and at last Destroy.
ClientSend(h, code) ==
    /\ faults = {} /\ Len(sockQ) < MaxQueue
    /\ CASE code = "Create" -> client[h] = "none" /\ forked > 0
                              /\ client' = [client EXCEPT ![h] = "open"]
                              /\ forked' = forked - 1
         [] code = "Destroy" -> client[h] = "open"
                               /\ client' = [client EXCEPT ![h] = "closing"]
                               /\ UNCHANGED forked
         [] OTHER -> client[h] = "open" /\ UNCHANGED <<client, forked>>
    /\ sockQ' = Append(sockQ, [code |-> code, h |-> h])
    /\ UNCHANGED <<treeVars, focus, windows, pending, resizeMode, status, refresh,
                   cursor, cursorUpdate, inputQueue, pipe, mpc, spawned, inputs, faults>>

\* main(), lines 1000-1044: the root container, an empty g_Windows, the
\* input callback installed and the first client forked.
Init ==
    /\ kind = [o \in Objs \cup {Root} |-> IF o = Root THEN "container" ELSE "free"]
    /\ parent = [o \in Objs \cup {Root} |-> Null]
    /\ children = [o \in Objs \cup {Root} |-> <<>>]
    /\ layout \in [Objs \cup {Root} -> RootLayouts]
    /\ nextObj = 1
    /\ focus = Null
    /\ windows = [h \in Handles |-> Null]
    /\ pending = {}
    /\ resizeMode = FALSE /\ status = FALSE /\ refresh = TRUE
    /\ cursor = [x |-> 0, y |-> 0] /\ cursorUpdate = FALSE
    /\ inputQueue = <<>> /\ pipe = 0 /\ sockQ = <<>>
    /\ mpc = "select"
    /\ client = [h \in Handles |-> "none"]
    /\ forked \in {0, 1} /\ spawned = 1
    /\ inputs = 0
    /\ faults = {}

Next ==
    \/ Select \/ ReadPipe \/ Render
    \/ \E n \in Notes : SystemInput(n)
    \/ \E h \in Handles, code \in {"Create", "Destroy", "RequestRedraw", "SetTitle", "Sync"} :
          ClientSend(h, code)

Spec == Init /\ [][Next]_vars

-----------------------------------------------------------------------------
(* Properties.                                                             *)

\* Every variable has its type; in particular the mouse handler's clamp
\* (lines 678-689) keeps g_CursorX/g_CursorY on the screen.
TypeOK ==
    /\ kind \in [Objs \cup {Root} -> {"free", "window", "container", "deleted"}]
    /\ focus \in Objs \cup {Null}
    /\ windows \in [Handles -> Objs \cup {Null}]
    /\ pending \subseteq Objs \cup {Root, Null}
    /\ mpc \in {"select", "pipe", "render"}
    /\ cursor \in [x : 0..Width - 1, y : 0..Height - 1]
    /\ client \in [Handles -> {"none", "open", "closing"}]
    /\ faults \subseteq {"getFocusWindow", "focus", "render"}

Mapped == {h \in Handles : windows[h] # Null}

\* g_Windows and the tree agree: the windows the tree holds are exactly
\* those g_Windows maps a live client's handle to, one handle each, through
\* every Create, Destroy (with its container collapse) and ALT-v/ALT-h
\* re-parenting, so a message names the window it was meant for.
WindowsTracked ==
    /\ {windows[h] : h \in Mapped} = Windows
    /\ \A h1, h2 \in Mapped : h1 # h2 => windows[h1] # windows[h2]
    /\ \A h \in Mapped : client[h] # "none"

\* g_pFocusWindow is 0 exactly when there is no window, and otherwise a
\* window of the tree, never one Destroy has deleted: every path that
\* deletes or moves the focus window hands the focus on.
FocusValid ==
    /\ (focus = Null) = (Windows = {})
    /\ focus # Null => focus \in Windows

\* Parent pointers agree with the children lists: every object of the tree
\* but the root sits once in the list of the container getParent() names,
\* which Create (line 153) and ALT-v/ALT-h (line 538) rely on.
TreeConsistent ==
    \A o \in Tree \ {Root} :
        /\ kind[parent[o]] = "container"
        /\ Cardinality({i \in 1..Len(children[parent[o]]) : children[parent[o]][i] = o}) = 1
        /\ \A c \in Tree \ {parent[o]} : ~Contains(children[c], o)

\* No object winman dereferences is 0 or deleted: no null focus after a
\* Destroy, no empty container on the getFocusWindow descent, and no 0 in
\* g_PendingWindows when it is rendered.
NoNullDeref == faults = {}

\* No container but the root is left without children: Destroy removes a
\* container it empties (lines 266-278).
NoEmptyContainer ==
    \A c \in Tree \ {Root} : kind[c] = "container" => children[c] # <<>>

=============================================================================
