------------------------- MODULE SolarSystem_proofs -------------------------
(***************************************************************************)
(* What the page owes its user at the keyboard and the gamepads, for every *)
(* keyboard, number of pads and order of events, and whatever is drawn in  *)
(* between.                                                                *)
(***************************************************************************)
EXTENDS SolarSystem, TLAPS

\* Without a controller the flag connected is set only by a vanished pad, and
\* the controller lacks axes only if one came that does.
ControllerFit == (UpdateThrows => vanished) /\ (AxesMissing => fewAxes)

InputInv ==
  /\ InputTypeOK
  /\ HeldKeysDrive
  /\ ControllingPadPresent
  /\ ControllerFit

\* The camera's matrix is spoilt only by a pad with too few axes.
CameraFit == cameraMatrix \in {"regular", "NaN"} /\ (cameraMatrix = "NaN" => fewAxes)

IInv == InputInv /\ CameraFit /\ running \in BOOLEAN /\ EndsOnlyByUnfitPad

USE InputAssumption

-----------------------------------------------------------------------------
\* Every key of Thrust moves the camera along one axis.
LEMMA ThrustMoves ==
  ASSUME NEW k \in DOMAIN Thrust
  PROVE  /\ Thrust[k].axis \in CameraAxes
         /\ Thrust[k].dir \in {-1, 1}
         /\ Thrust[k] = [axis |-> Thrust[k].axis, dir |-> Thrust[k].dir]
BY DEF Thrust, CameraAxes

\* Nothing drives the camera while it stands still.
LEMMA StillTyped ==
  Still \in [CameraAxes -> {-1, 0, 1}] /\ \A x \in CameraAxes : Still[x] = 0
BY DEF Still

\* A key that goes down drives its own axis, and no key is let go.
LEMMA KeyDownInv ==
  ASSUME InputInv, NEW k \in Keys, KeyDown(k)
  PROVE  InputInv'
<1>1. held' = held \cup {k} /\ UNCHANGED <<focused, missed, plugged, events, gp, vanished, fewAxes>>
  BY DEF KeyDown, padVars
<1>2. \/ velocity' = velocity
      \/ /\ k \in DOMAIN Thrust
         /\ velocity' = [velocity EXCEPT ![Thrust[k].axis] = Thrust[k].dir]
  BY DEF KeyDown, Rotate
<1>3. velocity' \in [CameraAxes -> {-1, 0, 1}]
  BY <1>2, ThrustMoves DEF InputInv, InputTypeOK
<1>4. InputTypeOK'
  BY <1>1, <1>3 DEF InputInv, InputTypeOK
<1>5. HeldKeysDrive'
  <2> SUFFICES ASSUME NEW x \in CameraAxes, velocity'[x] # 0, ~missed
               PROVE  \E h \in held' \cap DOMAIN Thrust :
                        Thrust[h] = [axis |-> x, dir |-> velocity'[x]]
    BY <1>1 DEF HeldKeysDrive
  <2>1. CASE velocity'[x] = velocity[x]
    BY <1>1, <2>1 DEF InputInv, HeldKeysDrive
  <2>2. CASE velocity'[x] # velocity[x]
    <3>1. /\ k \in DOMAIN Thrust
          /\ Thrust[k].axis = x
          /\ velocity'[x] = Thrust[k].dir
      BY <1>2, <2>2, ThrustMoves DEF InputInv, InputTypeOK
    <3> QED  BY <1>1, <3>1, ThrustMoves
  <2> QED  BY <2>1, <2>2
<1> QED  BY <1>1, <1>4, <1>5
         DEF InputInv, ControllingPadPresent, ControllerFit, UpdateThrows, AxesMissing

\* A key that comes up stops the camera, or nobody sees it.
LEMMA KeyUpInv ==
  ASSUME InputInv, NEW k \in Keys, KeyUp(k)
  PROVE  InputInv'
<1>1. held' = held \ {k} /\ UNCHANGED <<focused, plugged, events, gp, vanished, fewAxes>>
  BY DEF KeyUp, padVars
<1>2. \/ velocity' = Still /\ missed' = FALSE
      \/ velocity' = velocity /\ missed' = (missed \/ velocity # Still)
  BY DEF KeyUp, Rotate
<1>3. InputTypeOK'
  BY <1>1, <1>2, StillTyped DEF InputInv, InputTypeOK
<1>4. HeldKeysDrive'
  <2>1. CASE velocity' = Still
    BY <2>1, StillTyped DEF HeldKeysDrive
  <2>2. CASE velocity' = velocity /\ missed' = (missed \/ velocity # Still)
    <3> SUFFICES ASSUME NEW x \in CameraAxes, velocity[x] # 0
                 PROVE  missed'
      BY <2>2 DEF HeldKeysDrive
    <3>1. velocity # Still
      BY StillTyped
    <3> QED  BY <2>2, <3>1
  <2> QED  BY <1>2, <2>1, <2>2
<1> QED  BY <1>1, <1>3, <1>4
         DEF InputInv, ControllingPadPresent, ControllerFit, UpdateThrows, AxesMissing

LEMMA ChangeFocusInv ==
  ASSUME InputInv, ChangeFocus
  PROVE  InputInv'
<1>1. focused' = ~focused
      /\ UNCHANGED <<held, velocity, missed, plugged, events, gp, vanished, fewAxes>>
  BY DEF ChangeFocus, padVars
<1>2. InputTypeOK'
  BY <1>1 DEF InputInv, InputTypeOK
<1>3. HeldKeysDrive'
  BY <1>1 DEF InputInv, HeldKeysDrive
<1> QED  BY <1>1, <1>2, <1>3
         DEF InputInv, ControllingPadPresent, ControllerFit, UpdateThrows, AxesMissing

\* The keys do not matter for the pads, nor the pads for the keys.
LEMMA KeysUntouched ==
  ASSUME InputInv, UNCHANGED <<held, focused, velocity, missed>>
  PROVE  HeldKeysDrive'
BY DEF InputInv, HeldKeysDrive

\* A pad comes, or goes and leaves word of it.
LEMMA PlugInv ==
  ASSUME InputInv, NEW p \in Pads, PlugIn(p) \/ PullOut(p)
  PROVE  InputInv'
<1>1. PICK type \in {"connected", "disconnected"} :
        /\ events' = Append(events, Event(type, p))
        /\ plugged' = plugged \cup {p} \/ (plugged' = plugged \ {p} /\ type = "disconnected")
        /\ UNCHANGED <<gp, vanished, fewAxes, held, focused, velocity, missed>>
  BY DEF PlugIn, PullOut, keyVars
<1>2. /\ events \in Seq([type : {"connected", "disconnected"}, pad : Pads])
      /\ Event(type, p) \in [type : {"connected", "disconnected"}, pad : Pads]
  BY DEF InputInv, InputTypeOK, Event
<1>3. InputTypeOK'
  BY <1>1, <1>2 DEF InputInv, InputTypeOK
<1>4. /\ \A i \in DOMAIN events : i \in DOMAIN events' /\ events'[i] = events[i]
      /\ Len(events) + 1 \in DOMAIN events'
      /\ events'[Len(events) + 1] = Event(type, p)
  BY <1>1, <1>2
<1>5. ControllingPadPresent'
  <2> SUFFICES ASSUME gp.connected, gp.controller # NoPad
               PROVE  \/ gp.controller \in plugged'
                      \/ \E i \in DOMAIN events' :
                           events'[i] = Event("disconnected", gp.controller)
    BY <1>1 DEF ControllingPadPresent
  <2>1. CASE gp.controller \in plugged
    BY <1>1, <1>4, <2>1
  <2>2. CASE \E i \in DOMAIN events : events[i] = Event("disconnected", gp.controller)
    BY <1>4, <2>2
  <2> QED  BY <2>1, <2>2 DEF InputInv, ControllingPadPresent
<1> QED  BY <1>1, <1>3, <1>5, KeysUntouched
         DEF InputInv, ControllerFit, UpdateThrows, AxesMissing

\* The next event of a pad is handled.
LEMMA HandleGamepadEventInv ==
  ASSUME InputInv, HandleGamepadEvent
  PROVE  InputInv'
<1> DEFINE E == [type : {"connected", "disconnected"}, pad : Pads]
<1>1. /\ events \in Seq(E)
      /\ events # <<>>
      /\ events' = Tail(events)
      /\ UNCHANGED <<plugged, held, focused, velocity, missed>>
  BY DEF InputInv, InputTypeOK, HandleGamepadEvent, keyVars
<1> HIDE DEF E
<1>2. Head(events) \in E /\ Tail(events) \in Seq(E)
  BY <1>1
<1>3. PICK p \in Pads :
        \/ HandleConnected(p)
        \/ Head(events) = Event("disconnected", p) /\ HandleDisconnected(p)
  BY <1>2 DEF HandleGamepadEvent, Event, E
<1>4. CASE HandleConnected(p)
  <2>1. /\ gp' = [connected |-> TRUE, controller |-> IF p \in plugged THEN p ELSE NoPad]
        /\ vanished' = (vanished \/ p \notin plugged)
        /\ fewAxes' = (fewAxes \/ (p \in plugged /\ Axes[p] < AxesRead))
    BY <1>4 DEF HandleConnected
  <2>2. InputTypeOK'
    BY <1>1, <1>2, <2>1 DEF InputInv, InputTypeOK, E
  <2>3. ControllingPadPresent'
    BY <1>1, <2>1 DEF ControllingPadPresent
  <2>4. ControllerFit'
    BY <2>1 DEF InputInv, ControllerFit, UpdateThrows, AxesMissing
  <2> QED  BY <1>1, <2>2, <2>3, <2>4, KeysUntouched DEF InputInv
<1>5. CASE Head(events) = Event("disconnected", p) /\ HandleDisconnected(p)
  <2>1. /\ gp' = IF gp.controller = p THEN [connected |-> FALSE, controller |-> NoPad] ELSE gp
        /\ UNCHANGED <<vanished, fewAxes>>
    BY <1>5 DEF HandleDisconnected
  <2>2. InputTypeOK'
    BY <1>1, <1>2, <2>1 DEF InputInv, InputTypeOK, E
  <2>3. ControllingPadPresent'
    <3> SUFFICES ASSUME gp'.connected, gp'.controller # NoPad
                 PROVE  \/ gp'.controller \in plugged
                        \/ \E i \in DOMAIN events' :
                             events'[i] = Event("disconnected", gp'.controller)
      BY <1>1 DEF ControllingPadPresent
    <3>1. gp' = gp /\ gp.controller # p
      BY <2>1
    <3>2. CASE gp.controller \in plugged
      BY <3>1, <3>2
    <3>3. ASSUME NEW i \in DOMAIN events, events[i] = Event("disconnected", gp.controller)
          PROVE  i - 1 \in DOMAIN events' /\ events'[i - 1] = events[i]
      <4>1. i # 1
        BY <1>1, <1>5, <3>1, <3>3 DEF Event
      <4> QED  BY <1>1, <4>1
    <3> QED  BY <3>1, <3>2, <3>3 DEF InputInv, ControllingPadPresent
  <2>4. ControllerFit'
    BY <2>1 DEF InputInv, ControllerFit, UpdateThrows, AxesMissing
  <2> QED  BY <1>1, <2>2, <2>3, <2>4, KeysUntouched DEF InputInv
<1> QED  BY <1>3, <1>4, <1>5

LEMMA InputNextInv ==
  ASSUME InputInv, InputNext
  PROVE  InputInv'
BY KeyDownInv, KeyUpInv, ChangeFocusInv, PlugInv, HandleGamepadEventInv DEF InputNext

-----------------------------------------------------------------------------
\* Drawing and downloading leave the keyboard and the pads alone.
LEMMA InputStays ==
  ASSUME InputInv, UNCHANGED inputVars
  PROVE  /\ InputInv'
         /\ UpdateThrows' <=> UpdateThrows
         /\ UNCHANGED <<vanished, fewAxes>>
<1>1. UNCHANGED <<held, focused, velocity, missed, plugged, events, gp, vanished, fewAxes>>
  BY DEF inputVars, keyVars, padVars
<1>2. InputTypeOK'
  BY <1>1 DEF InputInv, InputTypeOK
<1>3. ControllingPadPresent'
  BY <1>1 DEF InputInv, ControllingPadPresent
<1> QED  BY <1>1, <1>2, <1>3, KeysUntouched
         DEF InputInv, ControllerFit, UpdateThrows, AxesMissing

LEMMA InitInv == Init => IInv
<1> SUFFICES ASSUME Init PROVE IInv
  OBVIOUS
<1>1. InputTypeOK
  <2>1. FirstPad \in Pads => Event("connected", FirstPad)
                               \in [type : {"connected", "disconnected"}, pad : Pads]
    BY DEF Event
  <2>2. events \in Seq([type : {"connected", "disconnected"}, pad : Pads])
    <3>1. events = <<>> \/ (FirstPad \in Pads /\ events = <<Event("connected", FirstPad)>>)
      BY DEF Init, InputInit
    <3> DEFINE E == [type : {"connected", "disconnected"}, pad : Pads]
    <3> HIDE DEF E
    <3>2. \A event \in E : <<event>> \in Seq(E)
      OBVIOUS
    <3>3. <<>> \in Seq(E)
      OBVIOUS
    <3>4. FirstPad \in Pads => Event("connected", FirstPad) \in E
      BY <2>1 DEF E
    <3>5. events \in Seq(E)
      BY <3>1, <3>2, <3>3, <3>4
    <3> QED  BY <3>5 DEF E
  <2>3. gp \in [connected : BOOLEAN, controller : Pads \cup {NoPad}] /\ plugged \subseteq Pads
    BY DEF Init, InputInit
  <2>4. held \subseteq Keys /\ focused \in BOOLEAN /\ missed \in BOOLEAN
      /\ vanished \in BOOLEAN /\ fewAxes \in BOOLEAN
    BY DEF Init, InputInit
  <2>5. velocity \in [CameraAxes -> {-1, 0, 1}]
    BY StillTyped DEF Init, InputInit
  <2> QED  BY <2>2, <2>3, <2>4, <2>5 DEF InputTypeOK
<1>2. HeldKeysDrive
  BY StillTyped DEF Init, InputInit, HeldKeysDrive
<1>3. ControllingPadPresent /\ ControllerFit
  BY DEF Init, InputInit, ControllingPadPresent, ControllerFit, UpdateThrows, AxesMissing
<1> QED  BY <1>1, <1>2, <1>3 DEF Init, IInv, InputInv, CameraFit, EndsOnlyByUnfitPad

\* A frame leaves the camera's matrix as it is, or finds too few axes.
LEMMA StartFrameInv ==
  ASSUME IInv, StartFrame
  PROVE  IInv'
<1>1. UNCHANGED inputVars /\ UNCHANGED running
  BY DEF StartFrame
<1>2. InputInv' /\ UNCHANGED <<vanished, fewAxes>>
  BY <1>1, InputStays DEF IInv
<1>3. CameraFit'
  BY <1>2 DEF StartFrame, IInv, InputInv, ControllerFit, CameraFit
<1> QED  BY <1>1, <1>2, <1>3 DEF IInv, EndsOnlyByUnfitPad

LEMMA NextInv == IInv /\ [Next]_vars => IInv'
<1> SUFFICES ASSUME IInv, [Next]_vars
             PROVE  IInv'
  OBVIOUS
<1>1. CASE UNCHANGED vars \/ DrawStep \/ (\E t \in Textures : ImageDone(t))
  <2>1. UNCHANGED inputVars /\ UNCHANGED <<cameraMatrix, running>>
    BY <1>1 DEF vars, DrawStep, ImageDone
  <2> QED  BY <2>1, InputStays DEF IInv, CameraFit, EndsOnlyByUnfitPad
<1>2. CASE AbortFrame
  <2>1. UNCHANGED inputVars /\ UNCHANGED cameraMatrix /\ UpdateThrows /\ running' = FALSE
    BY <1>2 DEF AbortFrame
  <2>2. vanished
    BY <2>1 DEF IInv, InputInv, ControllerFit
  <2> QED  BY <2>1, <2>2, InputStays DEF IInv, CameraFit, EndsOnlyByUnfitPad
<1>3. CASE ThrowInDraw
  <2>1. /\ UNCHANGED inputVars /\ UNCHANGED cameraMatrix
        /\ cameraMatrix = "NaN" /\ running' = FALSE
    BY <1>3 DEF ThrowInDraw, CameraThrows
  <2>2. fewAxes
    BY <2>1 DEF IInv, CameraFit
  <2> QED  BY <2>1, <2>2, InputStays DEF IInv, CameraFit, EndsOnlyByUnfitPad
<1>4. CASE HandleInput
  <2>1. InputNext /\ UNCHANGED <<cameraMatrix, running>>
    BY <1>4 DEF HandleInput
  <2>2. (vanished => vanished') /\ (fewAxes => fewAxes')
    <3>1. CASE HandleGamepadEvent
      <4>1. \/ \E p : HandleConnected(p)
            \/ \E p : HandleDisconnected(p)
        BY <3>1 DEF HandleGamepadEvent
      <4>2. ASSUME NEW p, HandleConnected(p) PROVE (vanished => vanished') /\ (fewAxes => fewAxes')
        BY <4>2, Zenon DEF HandleConnected
      <4>3. ASSUME NEW p, HandleDisconnected(p) PROVE UNCHANGED <<vanished, fewAxes>>
        BY <4>3 DEF HandleDisconnected
      <4> QED  BY <4>1, <4>2, <4>3
    <3>2. CASE ~HandleGamepadEvent
      BY <2>1, <3>2 DEF InputNext, KeyDown, KeyUp, ChangeFocus, PlugIn, PullOut, padVars
    <3> QED  BY <3>1, <3>2
  <2> QED  BY <2>1, <2>2, InputNextInv DEF IInv, CameraFit, EndsOnlyByUnfitPad
<1> QED  BY <1>1, <1>2, <1>3, <1>4, StartFrameInv DEF Next

LEMMA Invariant == Spec => []IInv
BY InitInv, NextInv, PTL DEF Spec

-----------------------------------------------------------------------------
\* HeldKeysDrive: only a held key drives the camera, unless its release was
\* lost to another window (camera.ts).
THEOREM KeysSafe == Spec => []HeldKeysDrive
<1>1. IInv => HeldKeysDrive
  BY DEF IInv, InputInv
<1> QED  BY <1>1, Invariant, PTL

\* ControllingPadPresent: the pad that the camera obeys is plugged in, or its
\* disconnection waits to be handled (gamecontroller.ts).
THEOREM PadSafe == Spec => []ControllingPadPresent
<1>1. IInv => ControllingPadPresent
  BY DEF IInv, InputInv
<1> QED  BY <1>1, Invariant, PTL

\* EndsOnlyByUnfitPad: no order of gamepad events stops the animation, except
\* that of a pad gone before its connection was handled (gamecontroller.ts 32)
\* and the connection of one without the axes that are read (lines 72-74).
THEOREM AnimationSafe == Spec => []EndsOnlyByUnfitPad
<1>1. IInv => EndsOnlyByUnfitPad
  BY DEF IInv
<1> QED  BY <1>1, Invariant, PTL
=============================================================================
