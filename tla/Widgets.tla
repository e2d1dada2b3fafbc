------------------------------- MODULE Widgets -------------------------------
(***************************************************************************)
(* The widgets of a UI context (niUI/src/Widget.cpp, UIContext.cpp,        *)
(* UIContext_Focus.cpp): who has the input focus, who is active, which     *)
(* widgets are exclusive or capture the input, and how a widget leaves all *)
(* of these when it is hidden or destroyed.                                *)
(*                                                                         *)
(* One thread runs it all, but every step of an operation may send a       *)
(* message, and the handler of a message may call any operation before the *)
(* interrupted one goes on.  todo is the stack of what is still to be      *)
(* done: the statement at its head is replaced by those it consists of.    *)
(*                                                                         *)
(* Visible and enabled are one attribute, shown; both are tested together  *)
(* and set alike.  Fingers, layout and drawing are left out.               *)
(***************************************************************************)
EXTENDS Naturals, Sequences, FiniteSets, SequencesExt

CONSTANTS
  Widget,     \* the widgets
  Root,       \* the root widget, which is neither hidden nor destroyed
  ParentOf,   \* the initial parent of each widget, None for the root
  HoldFocus,  \* the widgets with eWidgetStyle_HoldFocus
  Activate,   \* the widgets with eWidgetStyle_FocusActivate
  MaxCalls,   \* bound: the operations that handlers call during one of the program
  Careful,    \* the handlers leave alone what an interrupted operation is at
  None

ASSUME WidgetAssumption ==
  /\ Root \in Widget /\ None \notin Widget
  /\ IsFiniteSet(Widget)
  /\ ParentOf \in [Widget -> Widget \cup {None}] /\ ParentOf[Root] = None
  /\ \E depth \in [Widget -> 0 .. Cardinality(Widget)] :
       \A w \in Widget \ {Root} : ParentOf[w] # None /\ depth[ParentOf[w]] < depth[w]
  /\ HoldFocus \subseteq Widget /\ Activate \subseteq Widget
  /\ MaxCalls \in Nat /\ Careful \in BOOLEAN

VARIABLES
  status,     \* "alive", "destroyed" (was told), "invalid", "gone" (no context)
  parent,     \* mpwParent
  shown,      \* the widgets that are visible and enabled
  captures,   \* those with WDGSTATUS_CAPTURE_ALL
  exclusives, \* those with WDGSTATUS_EXCLUSIVE
  focus,      \* cUIContext::mpwFocusInput
  active,     \* mpwActive
  top,        \* mpwTopWidget
  exclusiveStack, \* mlstExclusiveStack
  captureStack,   \* mlstCaptureAllStack
  captureAll,     \* mpwCaptureAll
  todo,       \* the statements still to be done
  calls,      \* the operations called by handlers
  \* history
  crashed     \* a null pointer was used

widgetVars  == <<status, parent, shown, captures, exclusives>>
focusVars   == <<focus, active>>
stackVars   == <<top, exclusiveStack, captureStack, captureAll>>
vars == <<widgetVars, focusVars, stackVars, todo, calls, crashed>>

Operations == {"Destroy", "SetFocus", "SetVisible", "SetCapture", "SetExclusive"}
Statements == Operations \cup
  {"SendDestroy", "FlagDestroyed", "MarkInvalid", "Unparent",
   "InvalidateTarget", "Refocus", "Forget", "CheckCapture", "FocusParent",
   "SetFocusInput", "SetActive", "PutActive", "Send", "Handling",
   "RemoveExclusive", "PushExclusive", "ApplyTop", "FlagExclusive",
   "RemoveCapture", "PushCapture", "FlagCapture"}

OrNone == Widget \cup {None}

TypeOK ==
  /\ status \in [Widget -> {"alive", "destroyed", "invalid", "gone"}]
  /\ parent \in [Widget -> OrNone]
  /\ shown \subseteq Widget
  /\ captures \subseteq Widget /\ exclusives \subseteq Widget
  /\ focus \in OrNone /\ active \in OrNone /\ captureAll \in OrNone
  /\ top \in Widget
  /\ exclusiveStack \in Seq(Widget) /\ captureStack \in Seq(Widget)
  /\ todo \in Seq([op : Statements, w : Widget, on : BOOLEAN])
  /\ calls \in 0..MaxCalls
  /\ crashed \in BOOLEAN

Init ==
  /\ status = [w \in Widget |-> "alive"]
  /\ parent = ParentOf
  /\ shown = Widget
  /\ captures = {} /\ exclusives = {}
  /\ focus = None /\ active = None /\ captureAll = None
  /\ top = Root
  /\ exclusiveStack = <<>> /\ captureStack = <<>>
  /\ todo = <<>> /\ calls = 0
  /\ crashed = FALSE

(***************************************************************************)
(* The tree.                                                               *)
(***************************************************************************)

Valid(w) == status[w] \in {"alive", "destroyed"}
OK(w) == w # None /\ Valid(w)
Children(w) == SetToSeq({c \in Widget : parent[c] = w})

\* w and its ancestors: no smaller set has w and the parents of its members.
Path(w) ==
  LET Lines == {S \in SUBSET Widget :
                  w \in S /\ \A x \in S : parent[x] # None => parent[x] \in S}
  IN  {v \in Widget : \A S \in Lines : v \in S}

\* _GetFocusTarget and _GetFocusActivateWidget climb the tree, to the first of S.
Nearest(S) == CHOOSE v \in S : S \subseteq Path(v)
FocusTarget(w) == Nearest({v \in Path(w) : v \in HoldFocus \/ parent[v] = None})
FocusActivate(w) ==
  LET S == Path(w) \cap Activate IN IF S = {} THEN None ELSE Nearest(S)

(***************************************************************************)
(* Statements.                                                             *)
(***************************************************************************)

Stmt(op, w) == [op |-> op, w |-> w, on |-> FALSE]
Set(op, w, on) == [op |-> op, w |-> w, on |-> on]
When(c, s) == IF c THEN s ELSE <<>>

\* astl::find_erase: without the first that is w.
FindErase(s, w) ==
  IF w \in Range(s)
  THEN RemoveAt(s, CHOOSE i \in DOMAIN s :
                     s[i] = w /\ \A j \in DOMAIN s : s[j] = w => i <= j)
  ELSE s

\* The head of todo is this statement, and it is replaced by the sequence s.
At(op, w) == todo # <<>> /\ Head(todo).op = op /\ Head(todo).w = w
AtSet(op, w, on) == At(op, w) /\ Head(todo).on = on
Then(s) == todo' = s \o Tail(todo) /\ UNCHANGED calls

Skip == Then(<<>>) /\ UNCHANGED <<widgetVars, focusVars, stackVars, crashed>>

(***************************************************************************)
(* Messages.  A handler is called only if the widget is valid, and may     *)
(* call operations, one after the other, before it returns.                *)
(*                                                                         *)
(* Many statements do not test again, after a handler, that their widget   *)
(* is valid and visible.  Careful handlers know: they do not hide a widget *)
(* or switch its capture or exclusivity while either is being switched;    *)
(* and they destroy no widget that, or above one that, is being switched   *)
(* or destroyed, or is about to be given the focus or to be activated.     *)
(***************************************************************************)

Send(w) == At("Send", w) /\ Skip

Switching  == {"PushCapture", "FlagCapture", "PushExclusive", "FlagExclusive"}
Giving     == {"FocusParent", "SetFocusInput", "SetActive", "PutActive"}
Destroying == {"MarkInvalid", "Unparent", "InvalidateTarget", "Forget"}

Waits(ops) == {todo[i].w : i \in {j \in 2..Len(todo) : todo[j].op \in ops}}

Calls == {c \in [op : Operations, w : Widget, on : BOOLEAN] :
            c.op \in {"Destroy", "SetFocus"} => ~c.on}

\* The root is neither hidden nor destroyed, whoever asks.
Allowed(call) ==
  \/ call.op = "SetFocus"
  \/ /\ call.w # Root
     /\ Careful =>
          IF call.op = "Destroy"
          THEN \A w \in Waits(Switching \cup Giving \cup Destroying) :
                 call.w \notin Path(w)
          ELSE call.w \notin Waits(Switching)

HandlerCalls(w) ==
  /\ \/ At("Send", w) /\ Valid(w)
     \/ At("Handling", w)
  /\ calls < MaxCalls /\ calls' = calls + 1
  /\ \E call \in Calls :
       /\ Allowed(call)
       /\ todo' = <<call, Stmt("Handling", w)>> \o Tail(todo)
  /\ UNCHANGED <<widgetVars, focusVars, stackVars, crashed>>

HandlerReturns(w) == At("Handling", w) /\ Skip

ProgramCalls ==
  /\ todo = <<>> /\ calls' = 0
  /\ \E call \in Calls : Allowed(call) /\ todo' = <<call>>
  /\ UNCHANGED <<widgetVars, focusVars, stackVars, crashed>>

(***************************************************************************)
(* The input focus and the active widget.                                  *)
(***************************************************************************)

SetFocus(w) ==
  /\ At("SetFocus", w)
  /\ Then(When(Valid(w), <<Stmt("SetFocusInput", w)>>))
  /\ UNCHANGED <<widgetVars, focusVars, stackVars, crashed>>

\* The focus goes to the holder of w, unless w is outside the top widget.
SetFocusInput(w) ==
  /\ At("SetFocusInput", w)
  /\ LET new == FocusTarget(w)
         act == FocusActivate(new)
         refused == Valid(top) /\ top # Root /\ top \notin Path(w)
     IN IF w = focus \/ refused \/ new = focus
        THEN Skip
        ELSE /\ focus' = new
             /\ Then(When(OK(new) /\ OK(act), <<Stmt("SetActive", act)>>)
                     \o When(OK(focus), <<Stmt("Send", focus)>>)
                     \o <<Stmt("Send", new)>>)
             /\ UNCHANGED <<widgetVars, active, stackVars, crashed>>

SetActive(w) ==
  /\ At("SetActive", w)
  /\ Then(When(active # w, When(OK(active), <<Stmt("Send", active)>>)
                           \o <<Stmt("PutActive", w)>>))
  /\ UNCHANGED <<widgetVars, focusVars, stackVars, crashed>>

PutActive(w) ==
  /\ At("PutActive", w)
  /\ active' = w
  /\ Then(<<Stmt("Send", w)>>)
  /\ UNCHANGED <<widgetVars, focus, stackVars, crashed>>

(***************************************************************************)
(* Visibility: a widget that is hidden gives up capture, exclusivity, and  *)
(* the focus, which goes to its parent.                                    *)
(***************************************************************************)

SetVisible(w, on) ==
  /\ AtSet("SetVisible", w, on)
  /\ IF Valid(w) /\ (w \in shown) # on
     THEN /\ shown' = IF on THEN shown \cup {w} ELSE shown \ {w}
          /\ Then(<<Stmt("CheckCapture", w), Stmt("Send", w)>>)
          /\ UNCHANGED <<status, parent, captures, exclusives, focusVars,
                         stackVars, crashed>>
     ELSE Skip

\* Mutant: exclusivity is not given up.
CheckCaptureOnly(w) ==
  /\ At("CheckCapture", w)
  /\ Then(When(Valid(w) /\ w \notin shown,
               <<Set("SetCapture", w, FALSE), Stmt("FocusParent", w)>>))
  /\ UNCHANGED <<widgetVars, focusVars, stackVars, crashed>>

\* _CheckCaptureAndExclusive.
CheckCapture(w) ==
  /\ At("CheckCapture", w)
  /\ Then(When(Valid(w) /\ w \notin shown,
               <<Set("SetCapture", w, FALSE), Set("SetExclusive", w, FALSE),
                 Stmt("FocusParent", w)>>))
  /\ UNCHANGED <<widgetVars, focusVars, stackVars, crashed>>

FocusParent(w) ==
  /\ At("FocusParent", w)
  /\ crashed' = (crashed \/ status[w] = "gone" \/ (focus = w /\ parent[w] = None))
  /\ Then(When(focus = w /\ parent[w] # None,
               <<Stmt("SetFocusInput", parent[w])>>))
  /\ UNCHANGED <<widgetVars, focusVars, stackVars>>

(***************************************************************************)
(* Capture.                                                                *)
(***************************************************************************)

\* The flag is set after the stack was changed and all messages were handled.
SetCapture(w, on) ==
  /\ AtSet("SetCapture", w, on)
  /\ Then(When(Valid(w) /\ (w \in captures) # on /\ (on => w \in shown),
               <<Stmt("RemoveCapture", w)>> \o When(on, <<Stmt("PushCapture", w)>>)
               \o <<Set("FlagCapture", w, on)>>))
  /\ UNCHANGED <<widgetVars, focusVars, stackVars, crashed>>

\* Mutant: only the captor is taken out.
RemoveCaptureOfCaptor(w) ==
  /\ At("RemoveCapture", w)
  /\ IF captureStack = <<>> \/ captureAll # w THEN Skip
     ELSE LET left == FindErase(captureStack, w)
              all == IF left = <<>> THEN None ELSE Last(left)
          IN /\ captureStack' = left
             /\ captureAll' = all
             /\ Then(When(OK(all), <<Stmt("CheckCapture", all)>>))
             /\ UNCHANGED <<widgetVars, focusVars, top, exclusiveStack, crashed>>

\* The widget that captured before captures again, or gives up if it is hidden.
RemoveCapture(w) ==
  /\ At("RemoveCapture", w)
  /\ IF captureStack = <<>> THEN Skip
     ELSE LET left == FindErase(captureStack, w)
              all == CASE captureAll # w -> captureAll
                       [] left = <<>>    -> None
                       [] OTHER          -> Last(left)
          IN /\ captureStack' = left
             /\ captureAll' = all
             /\ Then(When(OK(all), <<Stmt("CheckCapture", all)>>))
             /\ UNCHANGED <<widgetVars, focusVars, top, exclusiveStack, crashed>>

PushCapture(w) ==
  /\ At("PushCapture", w)
  /\ captureStack' = Append(captureStack, w)
  /\ captureAll' = w
  /\ Then(<<Stmt("SetFocus", w)>>)
  /\ UNCHANGED <<widgetVars, focusVars, top, exclusiveStack, crashed>>

FlagCapture(w, on) ==
  /\ AtSet("FlagCapture", w, on)
  /\ captures' = IF on THEN captures \cup {w} ELSE captures \ {w}
  /\ Then(<<>>)
  /\ UNCHANGED <<status, parent, shown, exclusives, focusVars, stackVars, crashed>>

(***************************************************************************)
(* Exclusivity: the last exclusive widget is the top widget.               *)
(***************************************************************************)

SetExclusive(w, on) ==
  /\ AtSet("SetExclusive", w, on)
  /\ Then(When(Valid(w) /\ (w \in exclusives) # on /\ (on => w \in shown),
               <<Stmt("RemoveExclusive", w)>> \o When(on, <<Stmt("PushExclusive", w)>>)
               \o <<Set("FlagExclusive", w, on)>>))
  /\ UNCHANGED <<widgetVars, focusVars, stackVars, crashed>>

\* Mutant: SetTopWidget does not take the root when nothing is exclusive.
RemoveExclusiveToNone(w) ==
  /\ At("RemoveExclusive", w)
  /\ LET left == FindErase(exclusiveStack, w) IN
       /\ exclusiveStack' = left
       /\ IF w \in Range(exclusiveStack) /\ top = w
          THEN /\ top' = IF left = <<>> THEN None ELSE Last(left)
               /\ Then(<<Stmt("ApplyTop", Root)>>)
          ELSE Then(<<>>) /\ UNCHANGED top
  /\ UNCHANGED <<widgetVars, focusVars, captureStack, captureAll, crashed>>

\* SetTopWidget takes the root for a widget that is not valid any more.
RemoveExclusive(w) ==
  /\ At("RemoveExclusive", w)
  /\ LET left == FindErase(exclusiveStack, w) IN
       /\ exclusiveStack' = left
       /\ IF w \in Range(exclusiveStack) /\ top = w
          THEN /\ top' = IF left # <<>> /\ Valid(Last(left)) THEN Last(left) ELSE Root
               /\ Then(<<Stmt("ApplyTop", Root)>>)
          ELSE Then(<<>>) /\ UNCHANGED top
  /\ UNCHANGED <<widgetVars, focusVars, captureStack, captureAll, crashed>>

PushExclusive(w) ==
  /\ At("PushExclusive", w)
  /\ exclusiveStack' = Append(exclusiveStack, w)
  /\ top' = IF Valid(w) THEN w ELSE Root
  /\ Then(<<Stmt("ApplyTop", Root)>>)
  /\ UNCHANGED <<widgetVars, focusVars, captureStack, captureAll, crashed>>

ApplyTop ==
  /\ At("ApplyTop", Root)
  /\ Then(When(Valid(top), <<Stmt("SetFocusInput", top), Stmt("CheckCapture", top)>>))
  /\ UNCHANGED <<widgetVars, focusVars, stackVars, crashed>>

FlagExclusive(w, on) ==
  /\ AtSet("FlagExclusive", w, on)
  /\ exclusives' = IF on THEN exclusives \cup {w} ELSE exclusives \ {w}
  /\ Then(<<>>)
  /\ UNCHANGED <<status, parent, shown, captures, focusVars, stackVars, crashed>>

(***************************************************************************)
(* Destruction.                                                            *)
(***************************************************************************)

\* Mutant: the context is taken away before the widget is taken out of it.
DestroyForgetsFirst(w) ==
  /\ At("Destroy", w)
  /\ Then(When(Valid(w), <<Stmt("SendDestroy", w), Stmt("MarkInvalid", w),
                           Stmt("Unparent", w), Stmt("Forget", w),
                           Stmt("InvalidateTarget", w)>>))
  /\ UNCHANGED <<widgetVars, focusVars, stackVars, crashed>>

\* Invalidate: the subtree is told to save (SaveConfig is broadcast) and that it is
\* destroyed, unless it was, then invalidated.
Destroy(w) ==
  /\ At("Destroy", w)
  /\ LET below == SetToSeq({v \in Widget : w \in Path(v)})
         tell == [i \in DOMAIN below |-> Stmt("Send", below[i])]
     IN Then(When(Valid(w),
               When(status[w] = "alive", tell \o <<Stmt("SendDestroy", w)>>)
               \o <<Stmt("MarkInvalid", w), Stmt("Unparent", w),
                    Stmt("InvalidateTarget", w), Stmt("Forget", w)>>))
  /\ UNCHANGED <<widgetVars, focusVars, stackVars, crashed>>

SendDestroy(w) ==
  /\ At("SendDestroy", w)
  /\ LET told == Children(w) IN
       Then([i \in DOMAIN told |-> Stmt("SendDestroy", told[i])]
            \o When(status[w] = "alive",
                    <<Stmt("Send", w), Stmt("FlagDestroyed", w)>>))
  /\ UNCHANGED <<widgetVars, focusVars, stackVars, crashed>>

FlagDestroyed(w) ==
  /\ At("FlagDestroyed", w)
  /\ status' = [status EXCEPT ![w] = IF @ = "alive" THEN "destroyed" ELSE @]
  /\ Then(<<>>)
  /\ UNCHANGED <<parent, shown, captures, exclusives, focusVars, stackVars, crashed>>

\* The status loses all its flags, and the children are invalidated.
MarkInvalid(w) ==
  /\ At("MarkInvalid", w)
  /\ status' = [status EXCEPT ![w] = "invalid"]
  /\ shown' = shown \ {w}
  /\ captures' = captures \ {w}
  /\ exclusives' = exclusives \ {w}
  /\ LET below == Children(w) IN
       Then([i \in DOMAIN below |-> Stmt("Destroy", below[i])])
  /\ UNCHANGED <<parent, focusVars, stackVars, crashed>>

\* DoSetParent(NULL); a parent that is still valid is told.
Unparent(w) ==
  /\ At("Unparent", w)
  /\ parent' = [parent EXCEPT ![w] = None]
  /\ Then(When(OK(parent[w]), <<Stmt("Send", parent[w])>>))
  /\ UNCHANGED <<status, shown, captures, exclusives, focusVars, stackVars, crashed>>

\* Mutant: the capture of a destroyed widget stays.
InvalidateTargetKeepsCapture(w) ==
  /\ At("InvalidateTarget", w)
  /\ crashed' = (crashed \/ status[w] = "gone")
  /\ active' = IF active = w THEN None ELSE active
  /\ focus' = IF focus = w THEN None ELSE focus
  /\ Then(<<Stmt("RemoveExclusive", w)>>
          \o When(focus = w, <<Stmt("Refocus", Root)>>))
  /\ UNCHANGED <<widgetVars, stackVars>>

\* Everything the context has of the widget.
InvalidateTarget(w) ==
  /\ At("InvalidateTarget", w)
  /\ crashed' = (crashed \/ status[w] = "gone")
  /\ active' = IF active = w THEN None ELSE active
  /\ focus' = IF focus = w THEN None ELSE focus
  /\ Then(<<Stmt("RemoveExclusive", w), Stmt("RemoveCapture", w)>>
          \o When(focus = w, <<Stmt("Refocus", Root)>>))
  /\ UNCHANGED <<widgetVars, stackVars>>

\* GetMessageTargetByPos: a widget under the mouse that is visible up to the top
\* widget, or the top widget.
Refocus(v) ==
  /\ At("Refocus", Root)
  /\ \/ v = top
     \/ top \in Path(v) /\ {p \in Path(v) : top \in Path(p)} \subseteq shown
  /\ Then(When(Valid(v), <<Stmt("SetFocusInput", v)>>))
  /\ UNCHANGED <<widgetVars, focusVars, stackVars, crashed>>

Forget(w) ==
  /\ At("Forget", w)
  /\ status' = [status EXCEPT ![w] = "gone"]
  /\ Then(<<>>)
  /\ UNCHANGED <<parent, shown, captures, exclusives, focusVars, stackVars, crashed>>

Next ==
  \/ ApplyTop
  \/ ProgramCalls
  \/ \E w \in Widget :
       \/ Send(w) \/ HandlerCalls(w) \/ HandlerReturns(w)
       \/ SetFocus(w) \/ SetFocusInput(w) \/ SetActive(w) \/ PutActive(w)
       \/ CheckCapture(w) \/ FocusParent(w)
       \/ RemoveCapture(w) \/ PushCapture(w)
       \/ RemoveExclusive(w) \/ PushExclusive(w)
       \/ Destroy(w) \/ SendDestroy(w) \/ FlagDestroyed(w) \/ MarkInvalid(w)
       \/ Unparent(w) \/ InvalidateTarget(w) \/ Refocus(w) \/ Forget(w)
       \/ \E on \in BOOLEAN :
            \/ SetVisible(w, on) \/ SetCapture(w, on) \/ FlagCapture(w, on)
            \/ SetExclusive(w, on) \/ FlagExclusive(w, on)

Spec == Init /\ [][Next]_vars

(***************************************************************************)
(* What holds between operations of the program.                           *)
(***************************************************************************)

\* A widget that was destroyed is nowhere in the context: it has no focus, is not
\* active, not on top and on no stack; and what is left of the tree is a tree of
\* valid widgets.
DeadAreForgotten ==
  todo = <<>> =>
    /\ \A w \in {focus, active, top, captureAll} \ {None} : Valid(w)
    /\ \A w \in Range(exclusiveStack) \cup Range(captureStack) : Valid(w)
    /\ \A w \in Widget : IF Valid(w) THEN w = Root \/ OK(parent[w])
                                     ELSE status[w] = "gone"

\* The flags of the widgets and the stacks of the context agree, which GetCapture
\* and GetExclusive assert; the captor is the last to capture, and the top widget the
\* last exclusive one or the root (also while others are exclusive, after a widget and
\* its exclusive parent were destroyed together); and none of them is hidden.
StacksAgree ==
  todo = <<>> =>
    /\ captures = Range(captureStack) /\ exclusives = Range(exclusiveStack)
    /\ top # Root => exclusiveStack # <<>> /\ top = Last(exclusiveStack)
    /\ captureAll = IF captureStack = <<>> THEN None ELSE Last(captureStack)
    /\ captures \cup exclusives \subseteq shown

\* GetCapture and GetExclusive find that flag and stack agree, when SetCapture and
\* SetExclusive ask.
GettersAgree ==
  \A w \in Widget, on \in BOOLEAN :
    Valid(w) =>
      /\ AtSet("SetCapture", w, on) => (w \in captures <=> w \in Range(captureStack))
      /\ AtSet("SetExclusive", w, on) =>
           (w \in exclusives <=> w \in Range(exclusiveStack))

\* No operation uses the context of a widget that has lost it, or moves the focus
\* to the parent of a widget without one.
NoNullContext == ~crashed
=============================================================================
