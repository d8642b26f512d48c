----------------------------- MODULE HeadlessDom -----------------------------
(***************************************************************************)
(* The synthetic DOM in which an Elm program runs (headless_dom.js): a     *)
(* tree of nodes whose two directions, parentNode and childNodes, are kept *)
(* by hand, listeners, and the dispatch of one event through its path.     *)
(*                                                                         *)
(* Listeners are called one at a time, and may meanwhile edit the tree and *)
(* the listeners, move the focus, stop the event, or throw, which ends the *)
(* program (elm_host.cc:745-755).  Between events the program does the     *)
(* same from timers and animation frames.                                  *)
(*                                                                         *)
(* One type of event is modelled: others have lists of their own.  The     *)
(* html element is left out (body stands for both), as are attributes,     *)
(* styles, text and preventDefault, which no other step depends on.        *)
(***************************************************************************)
EXTENDS Integers, Sequences, FiniteSets, SequencesExt, Subsequences

CONSTANTS
  None,
  Window, Document, Body,  \* what is there from the beginning
  Root,                    \* the div the program is mounted on
  Canvas,                  \* the element with the id elm-regl-canvas
  Other,                   \* further elements
  Fragment,                \* document fragments
  Text,                    \* text nodes
  Callback,
  Listening,               \* the listeners at the beginning
  MaxEdits,                \* how many calls the program makes in all
  Moves                    \* may a node be put elsewhere in its own parent?

Element == {Body, Root, Canvas} \cup Other
Inner   == Element \cup Fragment \cup {Document}
Node    == Inner \cup Text
Target  == Node \cup {Window}
Hears   == Element \cup {Document, Window}

Listener == [callback : Callback, capture : BOOLEAN]

Distinct(s) == \A i, j \in DOMAIN s : s[i] = s[j] => i = j

ASSUME NodeAssumption ==
  /\ None \notin Target /\ Window \notin Node /\ Document \notin Element
  /\ Fragment \cap (Element \cup {Document}) = {} /\ Text \cap Inner = {}
  /\ Body # Root /\ Canvas \notin {Body, Root}
ASSUME ListenerAssumption ==
  /\ Listening \in [Target -> Seq(Listener)]
  /\ \A n \in Target : Distinct(Listening[n])
ASSUME EditAssumption == MaxEdits \in Nat /\ Moves \in BOOLEAN

VARIABLES
  tree,       \* parentNode and childNodes of every node
  listeners,  \* [target -> its listeners in the order they were added]
  active,     \* document.activeElement
  event,      \* the event that is dispatched
  failed,     \* a listener has thrown
  edits,      \* calls made so far
  heard,      \* the calls of listeners for the last event
  began       \* the last event, the tree when it began, the listeners kept since,
              \* and who stopped it

vars == <<tree, listeners, active, event, failed, edits, heard, began>>

NoEvent == [on |-> FALSE]

\* A call the program makes, between events or when a listener is called; what
\* was heard of an earlier event is forgotten.
Program(since) ==
  /\ ~failed /\ (event.on => event.calling)
  /\ edits < MaxEdits /\ edits' = edits + 1
  /\ heard' = IF event.on THEN heard ELSE <<>>
  /\ began' = IF event.on THEN since ELSE NoEvent
  /\ UNCHANGED <<event, failed>>

-----------------------------------------------------------------------------
(* The tree.                                                               *)

\* The parent of a node, the parent's parent, and so on.
Ancestors(t, n) ==
  LET up[m \in Node] == IF t.parent[m] = None THEN <<>>
                        ELSE <<t.parent[m]>> \o up[t.parent[m]]
  IN up[n]

Above(t, n) == ToSet(Ancestors(t, n))

\* Mutation: a node that is taken from its parent is still its child.
Detached_Half(t, n) == [t EXCEPT !.parent[n] = None]

\* A node leaves its parent, if it has one.
Detached(t, n) ==
  IF t.parent[n] = None THEN t
  ELSE [parent   |-> [t.parent EXCEPT ![n] = None],
        children |-> [t.children EXCEPT ![t.parent[n]] = RemoveFirst(@, n)]]

IndexOf(s, e) == SelectInSeq(s, LAMBDA x : x = e)

\* What a node or a fragment brings.
Brought(t, n) == IF n \in Fragment THEN t.children[n] ELSE <<n>>

\* The place is looked up before the node leaves its parent; None is the end.
PutOne(t, p, n, before) ==
  LET index == IndexOf(t.children[p], before)
      u     == Detached(t, n)
      end   == Len(u.children[p]) + 1
      at    == IF before = None \/ index > end THEN end ELSE index
  IN [parent   |-> [u.parent EXCEPT ![n] = p],
      children |-> [u.children EXCEPT ![p] = InsertAt(@, at, n)]]

\* What is brought is put one by one.
Put(t, p, n, before) ==
  LET nodes == Brought(t, n)
      after[i \in 0 .. Len(nodes)] ==
        IF i = 0 THEN t ELSE PutOne(after[i - 1], p, nodes[i], before)
  IN after[Len(nodes)]

AppendChild(t, p, n)          == Put(t, p, n, None)
InsertBefore(t, p, n, before) == Put(t, p, n, before)

RemoveChild(t, p, n) == Detached(t, n)

\* The last statement writes to the place that was looked up at first.
ReplaceChild(t, p, n, old) ==
  LET index == IndexOf(t.children[p], old)
      u     == Detached(t, n)
  IN [parent   |-> [u.parent EXCEPT ![n] = p, ![old] = None],
      children |-> [u.children EXCEPT ![p] = IF index > Len(@) THEN Append(@, n)
                                             ELSE ReplaceAt(@, index, n)]]

\* textContent = "" or a text, which is a new node.
SetText(t, p, texts) ==
  LET u == [parent   |-> [n \in Node |-> IF t.parent[n] = p THEN None ELSE t.parent[n]],
            children |-> [t.children EXCEPT ![p] = <<>>]]
  IN IF texts = <<>> THEN u ELSE PutOne(u, p, texts[1], None)

-----------------------------------------------------------------------------
(* The beginning: the document with its body and the div in it, and the    *)
(* same once the program has shown its canvas there.                       *)

Bare ==
  [parent   |-> [n \in Node |-> IF n = Root THEN Body ELSE IF n = Body THEN Document ELSE None],
   children |-> [n \in Node |-> IF n = Body THEN <<Root>>
                                ELSE IF n = Document THEN <<Body>> ELSE <<>>]]

Init ==
  /\ tree \in {Bare, AppendChild(Bare, Root, Canvas)}
  /\ listeners = Listening
  /\ active = None /\ event = NoEvent /\ failed = FALSE /\ edits = 0
  /\ heard = <<>> /\ began = NoEvent

\* A program puts a node where it is not above, a node that is not the document's;
\* Elm's virtual DOM removes a node before it puts it elsewhere in its parent.
MayPut(p, n) == n \notin {Document, Body, p} \cup Above(tree, p)
MayMove(p, n) == MayPut(p, n) /\ (Moves \/ tree.parent[n] # p)

Edit ==
  /\ Program(began)
  /\ \E p \in Inner :
       \/ \E n \in Node : MayPut(p, n) /\ tree' = AppendChild(tree, p, n)
       \/ \E n \in Node, b \in ToSet(tree.children[p]) :
            MayMove(p, n) /\ n # b /\ tree' = InsertBefore(tree, p, n, b)
       \/ \E n \in ToSet(tree.children[p]) \ {Body} : tree' = RemoveChild(tree, p, n)
       \/ \E n \in Node \ Fragment, old \in ToSet(tree.children[p]) \ {Body} :
            MayMove(p, n) /\ n # old /\ tree' = ReplaceChild(tree, p, n, old)
       \/ /\ p \notin {Document, Body}
          /\ tree' = SetText(tree, p, <<>>) \/
             \E x \in Text : tree.parent[x] = None /\ tree' = SetText(tree, p, <<x>>)
  /\ UNCHANGED <<listeners, active>>

-----------------------------------------------------------------------------
(* Listeners and the focus.                                                *)

\* A program adds a listener once.
AddEventListener(n, l) ==
  /\ Program(began)
  /\ l \notin ToSet(listeners[n])
  /\ listeners' = [listeners EXCEPT ![n] = Append(@, l)]
  /\ UNCHANGED <<tree, active>>

Without(list, l) == Pick(list, {i \in DOMAIN list : list[i] # l})

\* What has been kept, once a listener is removed.
KeptWithout(n, l) == [began.listeners EXCEPT ![n] = @ \ {l}]

RemoveEventListener(n, l) ==
  /\ Program([began EXCEPT !.listeners = KeptWithout(n, l)])
  /\ l \in ToSet(listeners[n])
  /\ listeners' = [listeners EXCEPT ![n] = Without(@, l)]
  /\ UNCHANGED <<tree, active>>

Focus(n) ==
  /\ Program(began) /\ n # active
  /\ active' = n
  /\ UNCHANGED <<tree, listeners>>

Blur(n) ==
  /\ Program(began) /\ n = active
  /\ active' = None
  /\ UNCHANGED <<tree, listeners>>

-----------------------------------------------------------------------------
(* The dispatch of an event.                                               *)

\* The window is no node.
AboveTarget(t, n) == IF n = Window THEN <<>> ELSE Ancestors(t, n)

\* Mutation: what is not in the document does not reach it.
PathOf_Attached(t, n) ==
  LET up == AboveTarget(t, n) IN IF Document \in ToSet(up) THEN up \o <<Window>> ELSE up

\* The path ends in the document and the window, wherever the target is.
PathOf(t, n) ==
  LET up  == AboveTarget(t, n)
      doc == IF n # Document /\ Document \notin ToSet(up) THEN Append(up, Document) ELSE up
  IN IF n # Window THEN Append(doc, Window) ELSE doc

Visit(n, capture, phase) == [node |-> n, capture |-> capture, phase |-> phase]

\* Down the path, to the target for both kinds of listeners, and up again.
Visits(n, path, bubbles) ==
  Reverse([i \in DOMAIN path |-> Visit(path[i], TRUE, 1)])
    \o <<Visit(n, TRUE, 2), Visit(n, FALSE, 2)>>
    \o IF bubbles THEN [i \in DOMAIN path |-> Visit(path[i], FALSE, 3)] ELSE <<>>

Called(list, capture) == Pick(list, {i \in DOMAIN list : list[i].capture = capture})

\* callListeners copies the list: what is added or removed later is not seen.
Entered(e, i) ==
  [e EXCEPT !.at   = i,
            !.rest = Called(listeners[e.visits[i].node], e.visits[i].capture)]

\* getElementById finds what is in the document.
PointerTarget == IF Document \in Above(tree, Canvas) THEN Canvas ELSE Root

Dispatch(n, bubbles) ==
  LET e == [on |-> TRUE, target |-> n, visits |-> Visits(n, PathOf(tree, n), bubbles), at |-> 1,
            rest |-> <<>>, calling |-> FALSE, stop |-> FALSE, stopNow |-> FALSE]
  IN /\ ~event.on /\ ~failed
     /\ event' = Entered(e, 1)
     /\ heard' = <<>>
     /\ began' = [on |-> TRUE, target |-> n, bubbles |-> bubbles, tree |-> tree,
                  listeners |-> [m \in Target |-> ToSet(listeners[m])],
                  stoppedBy |-> None, atOnce |-> FALSE]
     /\ UNCHANGED <<tree, listeners, active, failed, edits>>

\* __declglDispatch and __declglDispatchResize.
DispatchPointer == Dispatch(PointerTarget, TRUE)
DispatchKey     == Dispatch(IF active = None THEN PointerTarget ELSE active, TRUE)
DispatchResize  == Dispatch(Window, FALSE)

CallListener ==
  LET v == event.visits[event.at]
  IN /\ event.on /\ ~event.calling /\ event.rest # <<>>
     /\ event' = [event EXCEPT !.calling = TRUE]
     /\ heard' = Append(heard, [node |-> v.node, capture |-> v.capture, phase |-> v.phase,
                               callback  |-> Head(event.rest).callback,
                               stoppedBy |-> began.stoppedBy, atOnce |-> began.atOnce])
     /\ UNCHANGED <<tree, listeners, active, failed, edits, began>>

StopPropagation ==
  /\ event.on /\ event.calling /\ ~event.stop
  /\ event' = [event EXCEPT !.stop = TRUE]
  /\ began' = [began EXCEPT !.stoppedBy = event.visits[event.at].node]
  /\ UNCHANGED <<tree, listeners, active, failed, edits, heard>>

StopImmediatePropagation ==
  /\ event.on /\ event.calling /\ ~event.stopNow
  /\ event' = [event EXCEPT !.stop = TRUE, !.stopNow = TRUE]
  /\ began' = [began EXCEPT !.stoppedBy = event.visits[event.at].node, !.atOnce = TRUE]
  /\ UNCHANGED <<tree, listeners, active, failed, edits, heard>>

ListenerReturns ==
  /\ event.on /\ event.calling
  /\ event' = [event EXCEPT !.calling = FALSE,
                            !.rest = IF event.stopNow THEN <<>> ELSE Tail(@)]
  /\ UNCHANGED <<tree, listeners, active, failed, edits, heard, began>>

ListenerThrows ==
  /\ event.on /\ event.calling
  /\ failed' = TRUE /\ event' = NoEvent /\ heard' = <<>> /\ began' = NoEvent
  /\ UNCHANGED <<tree, listeners, active, edits>>

\* Mutation: a stop is only looked at on the way down.
MayVisit_Bubbles(e, v) == IF v.phase = 1 THEN ~e.stop ELSE ~e.stopNow

\* Both visits of the target are made if the first is.
MayVisit(e, v) == IF v.phase = 2 /\ ~v.capture THEN ~e.stopNow ELSE ~e.stop

\* callListeners clears stopNow at its end, before anyone else looks at it.
NextVisit ==
  LET e == [event EXCEPT !.stopNow = FALSE]
  IN /\ event.on /\ ~event.calling /\ event.rest = <<>>
     /\ event' = IF e.at < Len(e.visits) /\ MayVisit(e, e.visits[e.at + 1])
                 THEN Entered(e, e.at + 1) ELSE NoEvent
     /\ UNCHANGED <<tree, listeners, active, failed, edits, heard, began>>

Next ==
  \/ Edit
  \/ \E n \in Hears, l \in Listener : AddEventListener(n, l) \/ RemoveEventListener(n, l)
  \/ \E n \in Element : Focus(n) \/ Blur(n)
  \/ DispatchPointer \/ DispatchKey \/ DispatchResize
  \/ CallListener \/ StopPropagation \/ StopImmediatePropagation
  \/ ListenerReturns \/ ListenerThrows \/ NextVisit

Spec == Init /\ [][Next]_vars

-----------------------------------------------------------------------------
(* Properties.                                                             *)

(* The two directions of the tree agree: a node is a child of its parent,  *)
(* once, and of no one else, whatever is appended, inserted, replaced,     *)
(* moved out of a fragment or overwritten by a text, between events and    *)
(* within them (headless_dom.js:87-134).                                   *)
TreeIsSound ==
  /\ tree.parent \in [Node -> Inner \cup {None}] /\ active \in Element \cup {None}
  /\ \A n \in Node, p \in Inner :
       Cardinality({i \in DOMAIN tree.children[p] : tree.children[p][i] = n})
         = IF tree.parent[n] = p THEN 1 ELSE 0

\* The nodes an event passes on its way from the window to its target.
OnPath ==
  {Document, Window} \cup IF began.target = Window THEN {} ELSE Above(began.tree, began.target)

Outside(n, m) ==
  \/ n = Window /\ m # Window
  \/ n = Document /\ m \notin {Document, Window}
  \/ m \notin {Document, Window} /\ n \in Above(began.tree, m)

(* The calls for an event go down from the window, to the target, and up,  *)
(* along the path the target had when the event began, although listeners  *)
(* take the tree apart meanwhile; once it is stopped, only further         *)
(* listeners of that node are called (headless_dom.js:57-77).              *)
EventsFollowThePath ==
  \A j \in DOMAIN heard :
    LET h == heard[j]
    IN /\ IF h.node = began.target THEN h.phase = 2 ELSE h.node \in OnPath /\ h.phase # 2
       /\ h.phase = 1 => h.capture
       /\ h.phase = 3 => ~h.capture /\ began.bubbles
       /\ h.stoppedBy \in {None, h.node}
       /\ \A i \in 1 .. j - 1 :
            /\ heard[i].phase <= h.phase
            /\ heard[i].phase = h.phase /\ heard[i].node # h.node =>
                 IF h.phase = 1 THEN Outside(heard[i].node, h.node)
                 ELSE Outside(h.node, heard[i].node)

(* When an event that no one stopped is over, every listener of its path   *)
(* that was there all the time was called, once; document and window hear  *)
(* it even if its target, a focused element for a key, has left the        *)
(* document (headless_dom.js:45-77, 243-247).                              *)
ListenersHearEvents ==
  began.on /\ ~event.on /\ ~failed =>
    \A n \in {began.target} \cup OnPath : \A l \in began.listeners[n] :
      LET calls == {i \in DOMAIN heard : /\ heard[i].node = n /\ heard[i].capture = l.capture
                                        /\ heard[i].callback = l.callback}
      IN /\ Cardinality(calls) <= 1
         /\ began.stoppedBy = None /\ (l.capture \/ n = began.target \/ began.bubbles) =>
              Cardinality(calls) = 1

-----------------------------------------------------------------------------
(* Claims that the code does not keep.                                     *)

(* "if (!event.__stopImmediate) callListeners(target, event, false, 2)"    *)
(* (headless_dom.js:68): after stopImmediatePropagation no listener is     *)
(* called.  callListeners has cleared the flag before that line reads it.  *)
StopImmediateStops == \A i \in DOMAIN heard : ~heard[i].atOnce
=============================================================================
