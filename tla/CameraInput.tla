---------------------------- MODULE CameraInput ----------------------------
(***************************************************************************)
(* Keyboard and gamepad control of the camera: szenegraph/camera.ts and    *)
(* keyboard/gamecontroller.ts.  Key events and gamepad events are tasks of *)
(* the page and run between two frames.  The devices are the environment:  *)
(* keys are pressed and released whether or not the page has the focus,    *)
(* and a gamepad may have changed again when its event is handled.         *)
(***************************************************************************)
EXTENDS Integers, Sequences

CONSTANTS
  Keys,         \* the keys of the keyboard, as KeyboardEvent.key names them
  Pads,         \* gamepads
  FirstPad,     \* the gamepad at index 0
  NoPad,        \* null or undefined instead of a Gamepad
  Axes,         \* the number of axes of each gamepad
  MaxEvents     \* bound on gamepad events under way

\* What a key that is known to Camera.rotate does.
Thrust ==
  [ArrowDown |-> [axis |-> "pz", dir |-> 1], ArrowUp    |-> [axis |-> "pz", dir |-> -1],
   ArrowLeft |-> [axis |-> "px", dir |-> -1], ArrowRight |-> [axis |-> "px", dir |-> 1],
   w |-> [axis |-> "x", dir |-> -1], s |-> [axis |-> "x", dir |-> 1],
   a |-> [axis |-> "y", dir |-> 1],  d |-> [axis |-> "y", dir |-> -1],
   q |-> [axis |-> "z", dir |-> 1],  e |-> [axis |-> "z", dir |-> -1]]
CameraAxes == {"px", "pz", "x", "y", "z"}
Still == [x \in CameraAxes |-> 0]

ASSUME InputAssumption ==
  /\ Pads # {} => FirstPad \in Pads
  /\ NoPad \notin Pads
  /\ Axes \in [Pads -> Nat]
  /\ MaxEvents \in Nat

VARIABLES
  held,        \* keys that are down
  focused,     \* the page gets the key events
  velocity,    \* px, pz, x, y, z of the camera
  missed,      \* history: a key went up unseen while the camera was moving
  plugged,     \* gamepads the browser sees
  events,      \* gamepadconnected and gamepaddisconnected, not yet handled
  gp,          \* GameController.gp
  vanished,    \* history: a pad was gone again when its connection was handled
  fewAxes      \* history: a pad with too few axes has become the controller

keyVars == <<held, focused, velocity, missed>>
padVars == <<plugged, events, gp, vanished, fewAxes>>
inputVars == <<keyVars, padVars>>

Event(type, p) == [type |-> type, pad |-> p]

InputInit ==
  /\ held = {}
  /\ focused = TRUE
  /\ velocity = Still
  /\ missed = FALSE
  /\ \/ plugged = {} /\ events = <<>>
     \/ FirstPad \in Pads /\ plugged = {FirstPad} /\ events = <<Event("connected", FirstPad)>>
  /\ gp = [connected |-> FALSE,
           controller |-> IF FirstPad \in plugged THEN FirstPad ELSE NoPad]
  /\ vanished = FALSE
  /\ fewAxes = FALSE

-----------------------------------------------------------------------------
\* Defective variant: a released key stops only the shifts.
RotateKeepsTurning(k, status) ==
  velocity' = CASE status = 0 -> [velocity EXCEPT !["px"] = 0, !["pz"] = 0]
                [] status = 1 /\ k \in DOMAIN Thrust ->
                     [velocity EXCEPT ![Thrust[k].axis] = Thrust[k].dir]
                [] OTHER -> velocity

\* Camera.rotate(code, status)
Rotate(k, status) ==
  velocity' = CASE status = 0 -> Still
                [] status = 1 /\ k \in DOMAIN Thrust ->
                     [velocity EXCEPT ![Thrust[k].axis] = Thrust[k].dir]
                [] OTHER -> velocity

\* A key goes down, or repeats while it is down.
KeyDown(k) ==
  /\ held' = held \cup {k}
  /\ IF focused THEN Rotate(k, 1) ELSE UNCHANGED velocity
  /\ UNCHANGED <<focused, missed, padVars>>

KeyUp(k) ==
  /\ k \in held
  /\ held' = held \ {k}
  /\ IF focused
       THEN Rotate(k, 0) /\ missed' = FALSE
       ELSE missed' = (missed \/ velocity # Still) /\ UNCHANGED velocity
  /\ UNCHANGED <<focused, padVars>>

\* The window loses or gets the keyboard focus: no line of the code reacts.
ChangeFocus ==
  /\ focused' = ~focused
  /\ UNCHANGED <<held, velocity, missed, padVars>>

-----------------------------------------------------------------------------
PlugIn(p) ==
  /\ p \notin plugged
  /\ Len(events) < MaxEvents
  /\ plugged' = plugged \cup {p}
  /\ events' = Append(events, Event("connected", p))
  /\ UNCHANGED <<gp, vanished, fewAxes, keyVars>>

PullOut(p) ==
  /\ p \in plugged
  /\ Len(events) < MaxEvents
  /\ plugged' = plugged \ {p}
  /\ events' = Append(events, Event("disconnected", p))
  /\ UNCHANGED <<gp, vanished, fewAxes, keyVars>>

\* axesAction reads axes[0], [1], [3] and [4].
AxesRead == 5

\* connecthandler: navigator.getGamepads() has null where a pad is gone.
HandleConnected(p) ==
  /\ gp' = [connected |-> TRUE, controller |-> IF p \in plugged THEN p ELSE NoPad]
  /\ vanished' = (vanished \/ p \notin plugged)
  /\ fewAxes' = (fewAxes \/ (p \in plugged /\ Axes[p] < AxesRead))

\* Defective variants: the event is ignored; connected is not reset.
HandleDisconnectedNot(p) == UNCHANGED <<gp, vanished, fewAxes>>
HandleDisconnectedHalf(p) ==
  /\ gp' = IF gp.controller = p THEN [gp EXCEPT !.controller = NoPad] ELSE gp
  /\ UNCHANGED <<vanished, fewAxes>>

\* disconnecthandler: without a controller, reading its index throws, and
\* nothing is changed.
HandleDisconnected(p) ==
  /\ gp' = IF gp.controller = p THEN [connected |-> FALSE, controller |-> NoPad] ELSE gp
  /\ UNCHANGED <<vanished, fewAxes>>

HandleGamepadEvent ==
  /\ events # <<>>
  /\ events' = Tail(events)
  /\ LET event == Head(events) IN
       \/ event.type = "connected" /\ HandleConnected(event.pad)
       \/ event.type = "disconnected" /\ HandleDisconnected(event.pad)
  /\ UNCHANGED <<plugged, keyVars>>

-----------------------------------------------------------------------------
\* updateStatus() moves the camera by what the controller's buttons and axes
\* say; connected to nothing, it throws.
UpdateThrows == gp.connected /\ gp.controller = NoPad

\* An axis that the controller has not is undefined, and turning the camera
\* by it makes the camera's matrix NaN.
AxesMissing ==
  gp.connected /\ gp.controller # NoPad /\ Axes[gp.controller] < AxesRead

\* Between two frames.
InputNext ==
  \/ \E k \in Keys : KeyDown(k) \/ KeyUp(k)
  \/ ChangeFocus
  \/ \E p \in Pads : PlugIn(p) \/ PullOut(p)
  \/ HandleGamepadEvent

-----------------------------------------------------------------------------
InputTypeOK ==
  /\ held \subseteq Keys
  /\ focused \in BOOLEAN
  /\ velocity \in [CameraAxes -> {-1, 0, 1}]
  /\ missed \in BOOLEAN
  /\ plugged \subseteq Pads
  /\ events \in Seq([type : {"connected", "disconnected"}, pad : Pads])
  /\ gp \in [connected : BOOLEAN, controller : Pads \cup {NoPad}]
  /\ vanished \in BOOLEAN
  /\ fewAxes \in BOOLEAN

\* The camera moves along an axis only while a key for just that movement is
\* held down, unless a release was lost to another window (keydown sets the
\* velocity, any keyup clears all of it: camera.ts).
HeldKeysDrive ==
  \A x \in CameraAxes :
    velocity[x] # 0 =>
      \/ missed
      \/ \E k \in held \cap DOMAIN Thrust : Thrust[k] = [axis |-> x, dir |-> velocity[x]]

\* The pad the camera obeys is plugged in, or its disconnection is already
\* on the way (gp.connected and gp.controller of gamecontroller.ts), however
\* pads are swapped between the events.
ControllingPadPresent ==
  gp.connected /\ gp.controller # NoPad =>
    \/ gp.controller \in plugged
    \/ \E i \in DOMAIN events : events[i] = Event("disconnected", gp.controller)
=============================================================================
