--------------------------------- MODULE Zoom ---------------------------------
(***************************************************************************)
(* The camera zoom of the baby station: fingers on the canvas become       *)
(* gestures (GestureHandler), gestures move the viewport                   *)
(* (ViewportService), and the viewport reaches the canvas through a React  *)
(* state and the effects of the MediaStream page (CanvasRenderer).         *)
(*                                                                         *)
(* Two fingers touch the canvas at most; a third one touches elsewhere.    *)
(* The two axes are treated alike and apart from each other: one is        *)
(* modelled.  A scale is a number of eighths, which a pinch doubles or      *)
(* halves; a finger drags a third of the wider frame.                      *)
(***************************************************************************)
EXTENDS Integers

CONSTANTS
  Frames,       \* widths of the cameras' frames, multiples of 12
  MaxGestures,  \* bound: pinches
  MaxElsewhere, \* bound: fingers that touch the page outside the canvas
  MaxCameras    \* bound: media streams of the cameras

VARIABLES
  fingers,    \* how many touch the canvas
  elsewhere,  \* how many touch the rest of the page
  gesture,    \* the state of the GestureHandler
  identifier, \* of the last Zooming state
  view,       \* the fields of the ViewportService
  stream,     \* the width of the stream's frame, 0 while there is none
  streams,    \* streams so far
  loaded,     \* the video element has fired loadedmetadata
  shown,      \* the viewport of the React state
  closure,    \* the viewport the renderer effect was rendered with, until it is used
  drawn       \* the viewport of the active renderer, NoView if there is none

zoomVars == <<fingers, elsewhere, gesture, identifier, view, stream, streams, loaded, shown,
              closure, drawn>>

One      == 8    \* the scale 1.0
MaxScale == 24   \* max_scale, 3.0
NoView   == [width |-> -1, offset |-> 0]

-----------------------------------------------------------------------------
(* ViewportService.                                                        *)

Viewport(v) == [width |-> v.width, offset |-> v.offset]

NewView(max) == [max |-> max, width |-> max, offset |-> 0, scale |-> One, last |-> One, zoom |-> 0]

\* Mutant of ClampOffset: the offset is held above zero only.
ClampLow(v) == [v EXCEPT !.offset = IF @ < 0 THEN 0 ELSE @]

\* maxOffset is max - width from one zoom to the next.
ClampOffset(v) ==
  [v EXCEPT !.offset = IF @ < 0 THEN 0 ELSE IF @ > v.max - v.width THEN v.max - v.width ELSE @]

HandlePan(v, d) == ClampOffset([v EXCEPT !.offset = @ + d])

\* reset: nothing happens when the frame is as wide as before.
Reset(v, max) ==
  IF v.max = max THEN v ELSE [NewView(max) EXCEPT !.last = v.last, !.zoom = v.zoom]

\* Up to 1.0 the viewport is reset, to the frame it has.
SetScale(v, scale) ==
  IF scale <= One
  THEN Reset([v EXCEPT !.scale = scale], v.max)
  ELSE LET capped == IF scale > MaxScale THEN MaxScale ELSE scale
           width  == (v.max * One) \div capped
           centre == v.offset + v.width \div 2
       IN  ClampOffset([v EXCEPT !.scale = capped, !.width = width,
                                 !.offset = centre - width \div 2])

\* The scale of a pinch is relative to the scale it began with.
HandleZoom(v, id, halves) ==
  LET begun == IF v.zoom = id THEN v ELSE [v EXCEPT !.zoom = id, !.last = v.scale]
  IN  SetScale(begun, (begun.last * halves) \div 2)

-----------------------------------------------------------------------------
(* GestureHandler.  event.touches has every finger on the page, while the  *)
(* canvas hears of its own fingers only.                                   *)

ZoomInit ==
  /\ fingers = 0 /\ elsewhere = 0 /\ gesture = "Ready" /\ identifier = 0
  /\ view = NewView(0) /\ stream = 0 /\ streams = 0 /\ loaded = FALSE
  /\ shown = Viewport(view) /\ closure = NoView /\ drawn = NoView

Unrendered == UNCHANGED <<stream, streams, loaded, shown, closure, drawn>>

HandleTouches(touches) ==
  /\ gesture' = CASE touches = 1 -> "Panning"
                  [] touches = 2 -> "Zooming"
                  [] OTHER       -> "Ready"
  /\ identifier' = IF touches = 2 THEN identifier + 1 ELSE identifier
  /\ touches = 2 => identifier < MaxGestures

TouchStart ==
  /\ stream # 0 /\ fingers < 2
  /\ fingers' = fingers + 1
  /\ HandleTouches(fingers' + elsewhere)
  /\ UNCHANGED <<elsewhere, view>> /\ Unrendered

TouchEnd ==
  /\ fingers > 0
  /\ fingers' = fingers - 1
  /\ HandleTouches(fingers' + elsewhere)
  /\ UNCHANGED <<elsewhere, view>> /\ Unrendered

\* The browser takes a finger away.
TouchCancel ==
  /\ fingers > 0
  /\ fingers' = fingers - 1
  /\ gesture' = "Ready"
  /\ UNCHANGED <<elsewhere, identifier, view>> /\ Unrendered

TouchElsewhere ==
  /\ \/ elsewhere < MaxElsewhere /\ elsewhere' = elsewhere + 1
     \/ elsewhere > 0 /\ elsewhere' = elsewhere - 1
  /\ UNCHANGED <<fingers, gesture, identifier, view>> /\ Unrendered

Pan(d) ==
  /\ gesture = "Panning" /\ fingers > 0
  /\ view' = HandlePan(view, d)
  /\ UNCHANGED <<fingers, elsewhere, gesture, identifier>> /\ Unrendered

\* With one finger left on the page touches[1] is undefined: the handler throws.
Zoom(halves) ==
  /\ gesture = "Zooming" /\ fingers > 0 /\ fingers + elsewhere > 1
  /\ view' = HandleZoom(view, identifier, halves)
  /\ UNCHANGED <<fingers, elsewhere, gesture, identifier>> /\ Unrendered

-----------------------------------------------------------------------------
(* The MediaStream page.                                                   *)

\* The stream goes, and with it the elements, the renderer and the listeners;
\* fingers stay where they are, on a canvas that is no longer there.
LoseStream ==
  /\ stream # 0
  /\ stream' = 0 /\ loaded' = FALSE /\ drawn' = NoView /\ closure' = NoView
  /\ fingers' = 0 /\ elsewhere' = elsewhere + fingers
  /\ UNCHANGED <<gesture, identifier, view, streams, shown>>

\* The page is rendered with a stream; its effect keeps the viewport of the day.
GetStream ==
  /\ stream = 0 /\ streams < MaxCameras
  /\ stream' \in Frames
  /\ streams' = streams + 1
  /\ closure' = shown
  /\ UNCHANGED <<fingers, elsewhere, gesture, identifier, view, loaded, shown, drawn>>

\* Both listeners: the viewport is reset, then the renderer is created with the
\* viewport of the effect.
LoadMetadata ==
  /\ stream # 0 /\ ~loaded
  /\ loaded' = TRUE
  /\ view' = Reset(view, stream)
  /\ drawn' = closure /\ closure' = NoView
  /\ UNCHANGED <<fingers, elsewhere, gesture, identifier, stream, streams, shown>>

\* viewport_changed set the React state: the page is rendered again.
Rerender ==
  /\ \/ shown # Viewport(view)
     \/ drawn \notin {NoView, shown}
  /\ shown' = Viewport(view)
  /\ drawn' = IF drawn = NoView THEN NoView ELSE shown'
  /\ UNCHANGED <<fingers, elsewhere, gesture, identifier, view, stream, streams, loaded, closure>>

ZoomNext ==
  \/ TouchStart \/ TouchEnd \/ TouchCancel \/ TouchElsewhere
  \/ \E d \in {-8, 8} : Pan(d)
  \/ \E halves \in {1, 4} : Zoom(halves)
  \/ LoseStream \/ GetStream \/ LoadMetadata \/ Rerender

ZoomSpec == ZoomInit /\ [][ZoomNext]_zoomVars

-----------------------------------------------------------------------------
ZoomTypeOK ==
  /\ fingers \in 0..2 /\ elsewhere \in Nat /\ identifier \in 0..MaxGestures
  /\ gesture \in {"Ready", "Panning", "Zooming"}
  /\ stream \in Frames \cup {0} /\ streams \in 0..MaxCameras
  /\ loaded = (drawn # NoView)
  /\ loaded => stream # 0

(***************************************************************************)
(* However pans, pinches and cameras alternate, the viewport lies within   *)
(* the frame the service knows, and a scale above 1.0 is the scale that is *)
(* shown: drawImage is never asked for pixels beside the frame.            *)
(***************************************************************************)
ViewIsInFrame ==
  /\ 0 <= view.offset /\ view.offset + view.width <= view.max
  /\ view.scale > One => view.width * view.scale = view.max * One
  /\ view.scale <= MaxScale

(***************************************************************************)
(* What frontend/README.md:11 says of pinching in: zoom out to 100%.       *)
(***************************************************************************)
ZoomedOutShowsFrame == view.scale <= One => view.width = view.max

(***************************************************************************)
(* A renderer comes to draw the viewport of the service, although it is    *)
(* created with one that may be of an earlier camera.                      *)
(***************************************************************************)
Behind == loaded /\ drawn # Viewport(view)

DrawnFollows == Behind ~> ~Behind
=============================================================================
