------------------------------ MODULE ScreenSaver -----------------------------
(***************************************************************************)
(* ScreenSaverService of the baby station: a canvas that is put into the   *)
(* page and made full screen by the browser, or, where the browser cannot, *)
(* a container laid over the page.  One action per state class, a disjunct *)
(* per handler that does something; the browser's side is asynchronous.    *)
(***************************************************************************)
EXTENDS Naturals

CONSTANT MaxCanvases   \* bound: canvases (or containers) created

VARIABLES
  saver,    \* the name of the service's state
  canvas,   \* the canvas (or container) the state holds, 0 for none
  made,     \* canvases created so far
  attached, \* canvases that are children of document.body
  asked,    \* canvases whose requestFullscreen is unanswered
  refused,  \* history: canvases whose requestFullscreen was rejected
  element,  \* document.fullscreenElement, 0 for none
  changes   \* fullscreenchange events the browser has still to fire

saverVars == <<saver, canvas, made, attached, asked, refused, element, changes>>
page      == <<asked, refused, element, changes>>

SaverStates == {"not_running", "entering_fullscreen", "running", "exiting_fullscreen",
                "fallback_not_running", "fallback_running"}

SaverInit ==
  /\ saver \in {"not_running", "fallback_not_running"}
  /\ canvas = 0 /\ made = 0 /\ attached = {}
  /\ asked = {} /\ refused = {} /\ element = 0 /\ changes = 0

NewCanvas(state) ==
  /\ made < MaxCanvases
  /\ made' = made + 1
  /\ canvas' = made'
  /\ attached' = attached \cup {made'}
  /\ saver' = state

\* Mutant of Remove: the canvas stays in the page.
Forget(state) ==
  /\ saver' = state
  /\ canvas' = 0
  /\ UNCHANGED <<made, attached>>

\* set_state(NotRunning), document.body.removeChild(canvas).
Remove(state) ==
  /\ saver' = state
  /\ attached' = attached \ {canvas}
  /\ canvas' = 0
  /\ UNCHANGED made

Fire == changes > 0 /\ changes' = changes - 1

NotRunning ==
  /\ saver = "not_running"
  /\ \/ /\ NewCanvas("entering_fullscreen")
        /\ asked' = asked \cup {canvas'}
        /\ UNCHANGED <<refused, element, changes>>
     \/ /\ Fire
        /\ UNCHANGED <<saver, canvas, made, attached, asked, refused, element>>

\* A rejected request leaves the canvas in the page.
EnteringFullScreen ==
  /\ saver = "entering_fullscreen"
  /\ \/ /\ canvas \in asked
        /\ saver' = "running"
        /\ element' = canvas
        /\ changes' = changes + 1
        /\ asked' = asked \ {canvas}
        /\ UNCHANGED <<canvas, made, attached, refused>>
     \/ /\ canvas \in asked
        /\ saver' = "not_running"
        /\ asked' = asked \ {canvas}
        /\ refused' = refused \cup {canvas}
        /\ canvas' = 0
        /\ UNCHANGED <<made, attached, element, changes>>
     \/ /\ Fire
        /\ UNCHANGED <<saver, canvas, made, attached, asked, refused, element>>

\* handle_fullscreenchange of Running and of ExitingFullScreen.
Changed ==
  /\ Fire
  /\ \/ /\ element = canvas
        /\ UNCHANGED <<saver, canvas, made, attached>>
     \/ /\ element # canvas
        /\ Remove("not_running")
  /\ UNCHANGED <<asked, refused, element>>

\* A click asks the browser to leave (it refuses when it already left; the
\* handler of that throws and changes nothing).
Running ==
  /\ saver = "running"
  /\ \/ /\ saver' = "exiting_fullscreen"
        /\ UNCHANGED <<canvas, made, attached, page>>
     \/ Changed

ExitingFullScreen ==
  /\ saver = "exiting_fullscreen"
  /\ Changed

FallbackNotRunning ==
  /\ saver = "fallback_not_running"
  /\ NewCanvas("fallback_running")
  /\ UNCHANGED page

FallbackRunning ==
  /\ saver = "fallback_running"
  /\ Remove("fallback_not_running")
  /\ UNCHANGED page

\* The browser leaves full screen: exitFullscreen, or the user's Escape.
LeaveFullScreen ==
  /\ element # 0
  /\ element' = 0
  /\ changes' = changes + 1
  /\ UNCHANGED <<saver, canvas, made, attached, asked, refused>>

SaverNext ==
  \/ NotRunning \/ EnteringFullScreen \/ Running \/ ExitingFullScreen
  \/ FallbackNotRunning \/ FallbackRunning \/ LeaveFullScreen

SaverSpec == SaverInit /\ [][SaverNext]_saverVars

\* What the browser does by itself: answer, leave when asked to, fire events.
SaverAnswered == SaverNext /\ asked # {} /\ asked' # asked
SaverLeft     == saver = "exiting_fullscreen" /\ LeaveFullScreen
SaverFired    == SaverNext /\ changes' < changes

-----------------------------------------------------------------------------
SaverTypeOK ==
  /\ saver \in SaverStates
  /\ made \in 0..MaxCanvases
  /\ canvas \in 0..made /\ element \in 0..made
  /\ attached \cup asked \cup refused \subseteq 1..made
  /\ changes \in 0..(2 * MaxCanvases)

(***************************************************************************)
(* The page is given back: a canvas left in it is the one the state will   *)
(* remove, or one whose full screen request was rejected, which            *)
(* handle_request_fullscreen_rejected forgets there; and what covers the   *)
(* screen is the canvas of Running or ExitingFullScreen, so that a click   *)
(* on it is answered, however late the browser's events arrive.            *)
(***************************************************************************)
CanvasIsKnown ==
  /\ attached \subseteq ({canvas} \cup refused)
  /\ element # 0 => saver \in {"running", "exiting_fullscreen"} /\ element = canvas

(***************************************************************************)
(* Neither transition is for ever: the request is answered, and a screen   *)
(* saver that is being left is gone once the browser has fired its event.  *)
(***************************************************************************)
SaverWaits == <<saver = "entering_fullscreen", saver = "exiting_fullscreen">>

SaverSettles == \A n \in 1..2 : SaverWaits[n] ~> ~SaverWaits[n]
=============================================================================
