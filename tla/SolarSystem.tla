---------------------------- MODULE SolarSystem ----------------------------
(***************************************************************************)
(* The page of Computergrafik/src/szenegraph/index.ts: drawScene runs once *)
(* per animation frame, asks the gamepad (updateStatus) and draws the      *)
(* scene; key events, gamepad events and the ends of image downloads are   *)
(* handled in between.                                                     *)
(***************************************************************************)
EXTENDS SceneGraph, CameraInput

VARIABLE running   \* requestAnimationFrame(drawScene) has been called

vars == <<sceneVars, cameraMatrix, inputVars, running>>

Init == SceneInit /\ cameraMatrix = "regular" /\ InputInit /\ running = TRUE

-----------------------------------------------------------------------------
\* drawScene, up to drawTraversal(root).  updateStatus reads the pad's axes.
StartFrame ==
  /\ running
  /\ ~UpdateThrows
  /\ BeginFrame
  /\ cameraMatrix' = IF AxesMissing THEN "NaN" ELSE cameraMatrix
  /\ UNCHANGED <<inputVars, running>>

\* updateStatus throws after the clock was read: the next frame, which the
\* last line of drawScene would have requested, never comes.
AbortFrame ==
  /\ running
  /\ calls = <<>>
  /\ UpdateThrows
  /\ running' = FALSE
  /\ lastDate' \in lastDate .. MaxClock
  /\ UNCHANGED <<calls, trafoStack, turned, gl, image, days, elapsed, uploaded,
                 drawn, cameraMatrix, inputVars>>

\* scene.draw throws, and again no next frame is requested.
ThrowInDraw ==
  /\ \E n \in NextKid : CameraThrows(n)
  /\ running' = FALSE
  /\ UNCHANGED <<cameraMatrix, inputVars>>

HandleInput ==
  calls = <<>> /\ InputNext /\ UNCHANGED <<sceneVars, cameraMatrix, running>>
DrawStep == Draw /\ UNCHANGED <<cameraMatrix, inputVars, running>>
ImageDone(t) ==
  /\ ImageLoaded(t) \/ ImageFailed(t)
  /\ UNCHANGED <<cameraMatrix, inputVars, running>>

Next ==
  \/ StartFrame
  \/ AbortFrame
  \/ ThrowInDraw
  \/ HandleInput
  \/ DrawStep
  \/ \E t \in Textures : ImageDone(t)

Spec == Init /\ [][Next]_vars

\* The browser runs a requested frame, a task that has begun, and each
\* download's event between some two frames; nobody has to touch a key.
Fairness ==
  /\ WF_vars(StartFrame \/ AbortFrame)
  /\ WF_vars(DrawStep \/ ThrowInDraw)
  /\ \A t \in Textures : SF_vars(ImageDone(t))
FairSpec == Spec /\ Fairness

-----------------------------------------------------------------------------
SolarTypeOK ==
  /\ InputTypeOK
  /\ running \in BOOLEAN
  /\ calls \in Seq([node : Nodes \cup {Scene}, child : Nat])
  /\ turned \in [Nodes -> Nat]
  /\ image \in [Textures -> {"loading", "loaded", "failed"}]
  /\ lastDate \in 0 .. MaxClock
  /\ days \in Nat
  /\ elapsed \in Nat
  /\ cameraMatrix \in {"regular", "NaN"}

\* The matrix stack follows the recursion: its k-th matrix is the product of
\* the trafos along the first k calls, all as they were before this frame,
\* and between two frames only the root's is left.  A child's multiplication
\* must not reach its parent's entry (MatrixStack clones), and every push
\* needs its pop.
StackInStep ==
  /\ Len(trafoStack) = IF calls = <<>> THEN 1 ELSE Len(calls)
  /\ trafoStack[1] = <<Factor(Root, 0)>>
  /\ \A k \in 2 .. Len(calls) :
       trafoStack[k] = Append(trafoStack[k - 1], Factor(calls[k].node, elapsed - days))

\* Only the exception that ends the animation leaves a matrix behind.
StackFollowsCalls == running => StackInStep

\* drawTraversal(root) has returned: drawn holds all calls of the frame.
FrameDone == Len(calls) = 1 /\ calls[1].child = 1

\* Every draw call of a frame reads the buffers of the node, and of the part,
\* that is being drawn, though all nodes bind theirs to the same attributes.
OwnBuffers ==
  FrameDone => \A d \in drawn :
    /\ \A data \in {"position", "normal", "texCoord"} :
         d[data] = Buffer(d.node, d.part, data)
    /\ d.node.kind = "sphere" => d.elements = Buffer(d.node, 0, "index")

\* Every body is drawn with its own texture and with the material that was
\* set last for its planet, whatever its siblings and the downloads that
\* ended before the frame left in the context.
OwnLook ==
  FrameDone => \A d \in drawn :
    [material |-> d.material, texture |-> d.texture] = Looks[d.node]

\* The node a node hangs on; only materials have several.
ParentOf(n) == CHOOSE m \in Nodes : \E i \in DOMAIN Kids[m] : Kids[m][i] = n
Lineage ==
  LET to[n \in Nodes] == IF n = Root THEN <<n>> ELSE Append(to[ParentOf(n)], n)
  IN  to
WorldMatrix(n) ==
  <<Factor(Root, 0)>>
    \o [i \in DOMAIN Lineage[n] |-> Factor(Lineage[n][i], elapsed - days)]

\* The root is nobody's child, and whatever hangs on several nodes is a
\* material and carries nothing.
ASSUME LineageAssumption ==
  /\ \A n \in Nodes :
       /\ Lineage[n] \in Seq(Nodes)
       /\ Lineage[n] = IF n = Root THEN <<n>> ELSE Append(Lineage[ParentOf(n)], n)
  /\ \A n \in Nodes : \A i \in DOMAIN Kids[n] :
       LET c == Kids[n][i] IN
       c # Root /\ (ParentOf(c) = n \/ (c.kind = "material" /\ Kids[c] = <<>>))

\* A frame shows one instant: each body stands where its ancestors, turned by
\* the time of all frames before this one, put it; no orbit is a frame ahead
\* of another or turned twice.
OneInstant ==
  FrameDone => \A d \in drawn : d.model = WorldMatrix(d.node)

Lights == OfKind({"light"})
CarriesLight(n) == \E l \in Lights : ParentOf(l) = n

\* No body is drawn with the camera or the light of an earlier frame; only
\* the body that carries the light is drawn before it.
FreshUniforms ==
  FrameDone => \A d \in drawn :
    /\ "projection" \in d.uploaded
    /\ CarriesLight(d.node) \/ \E l \in Lights :
         "light" \in d.uploaded /\ d.light = WorldMatrix(l)

TrianglesOf(d) == IF d.node.kind = "sphere" THEN SphereTriangles
                                            ELSE {CubeTriangle(d.position.part)}
CallsOf(b) == { d \in drawn : d.node = b }

\* At the end of a frame every body of the scene has been drawn as a closed
\* surface that faces outwards (gl.CULL_FACE hides what faces inwards), a cube
\* with outward normals and a texture that does not break along a square's
\* diagonal.
ClosedBodies ==
  FrameDone =>
    \A b \in Bodies :
      /\ ClosedSurface(UNION { TrianglesOf(d) : d \in CallsOf(b) })
      /\ b.kind = "sphere" => SphereOutward
      /\ b.kind = "cube" =>
           /\ \A d \in CallsOf(b) : \A i \in 1 .. 3 :
                Dot(FaceNormal(CubeTriangle(d.normal.part)),
                    CubeTriangle(d.position.part)[i]) > 0
           /\ \A c, d \in CallsOf(b) : \A i, j \in 1 .. 3 :
                /\ (c.part + 1) \div 2 = (d.part + 1) \div 2
                /\ CubeTriangle(c.position.part)[i] = CubeTriangle(d.position.part)[j]
                => PartTexture(c.texCoord.part)[i] = PartTexture(d.texCoord.part)[j]

\* A texture that has arrived is seen on its body, unless the animation ends.
ImagesShown ==
  \A b \in Bodies :
    image[Looks[b].texture] = "loaded" ~>
      \/ \E d \in CallsOf(b) : d.texture = Looks[b].texture /\ d.loaded
      \/ ~running

-----------------------------------------------------------------------------
\* The animation ends in two ways only: through a pad that was gone again
\* when its connection was handled (connecthandler stores what getGamepads()
\* has at that index), or through one with fewer axes than axesAction reads;
\* swapping, adding and removing pads otherwise never stops it.
EndsOnlyByUnfitPad == ~running => vanished \/ fewAxes

\* The page goes on drawing frames, whatever the user does at the keyboard
\* and with the pads, as long as no pad vanishes and all have their axes.
FramesGoOn == []<>(calls # <<>>) \/ <>vanished \/ <>fewAxes

-----------------------------------------------------------------------------
(* The inductive invariant of the drawing.                                 *)

\* The children of the k-th call that are still to be visited.
Pending(k) == calls[k].child + 1 .. Len(KidsOf(calls[k].node))
Ahead(k, i) == Below[KidsOf(calls[k].node)[i]]
ToCome(n) == \E k \in DOMAIN calls : \E i \in Pending(k) : n \in Ahead(k, i)

\* drawTraversal is called by Scenegraph.draw, and then by itself.
CallsDescend ==
  \A k \in DOMAIN calls : IF k = 1 THEN calls[k].node = Scene ELSE calls[k].node \in Nodes

\* A node has turned by the time of this frame exactly when it was visited.
TurnedInStep ==
  \A n \in Moving : turned[n] = IF ToCome(n) THEN elapsed - days ELSE elapsed

\* No node that turns waits in two places.
PendingApart ==
  \A k, l \in DOMAIN calls : \A i \in Pending(k), j \in Pending(l) :
    k # l \/ i # j => Moving \cap Ahead(k, i) \cap Ahead(l, j) = {}

\* The matrix of a call is the one of its node, if that has a single place.
Shared(n) == n.kind = "material" /\ Kids[n] = <<>>
CallsInPlace ==
  \A k \in 2 .. Len(calls) :
    Shared(calls[k].node) \/ trafoStack[k] = WorldMatrix(calls[k].node)

GlState == {"array", "elements", "position", "normal", "texCoord", "unit",
            "material", "light", "model"}

\* Each draw call of this frame was made with its node's matrix and buffers.
DrawnInPlace ==
  \A d \in drawn :
    /\ d.model = WorldMatrix(d.node)
    /\ \A data \in {"position", "normal", "texCoord"} :
         d[data] = Buffer(d.node, d.part, data)
    /\ d.node.kind = "sphere" => d.elements = Buffer(d.node, 0, "index")

DrawInv ==
  /\ calls \in Seq([node : Nodes \cup {Scene}, child : Nat])
  /\ trafoStack \in Seq(Seq([node : Nodes, days : Int]))
  /\ turned \in [Nodes -> Nat] /\ GlState \subseteq DOMAIN gl
  /\ image \in [Textures -> {"loading", "loaded", "failed"}]
  /\ lastDate \in 0 .. MaxClock /\ days \in Nat /\ elapsed \in Nat /\ days <= elapsed
  /\ CallsDescend /\ StackInStep
  /\ TurnedInStep /\ PendingApart
  /\ CallsInPlace /\ DrawnInPlace

-----------------------------------------------------------------------------
(* Scenes in which everything comes in the right order, and the invariants *)
(* of drawing them.                                                        *)

\* The j-th child of n is this part of the look of the i-th, and nothing that
\* is drawn between the two replaces it.
LookAt(n, i, j, part) ==
  LET look == Looks[Kids[n][i]][part]
  IN  /\ Kids[n][j] = look
      /\ \A h \in j .. i - 1 : OfKind({part}) \cap Below[Kids[n][h]] \subseteq {look}

\* The material and the texture of each body stand before it among the
\* children of its planet.
LooksPrecede ==
  /\ Root \notin Bodies
  /\ \A n \in Nodes : \A i \in DOMAIN Kids[n] :
       Kids[n][i] \in Bodies =>
         \A part \in {"material", "texture"} : \E j \in 1 .. i - 1 : LookAt(n, i, j, part)

\* All calls above are in the subtree of the child that a call visits.
CallsNested ==
  \A k, l \in DOMAIN calls :
    k < l => Below[calls[l].node] \subseteq Below[KidsOf(calls[k].node)[calls[k].child]]

\* A part of a look that was drawn stays in the context for the body after it.
Held(part) == IF part = "material" THEN gl.material ELSE gl.unit
LooksHeld ==
  \A k \in DOMAIN calls \ {1} : \A i \in Pending(k) :
    LET n == calls[k].node IN
    Kids[n][i] \in Bodies =>
      \A part \in {"material", "texture"} : \A j \in 1 .. calls[k].child :
        LookAt(n, i, j, part) => Held(part) = Looks[Kids[n][i]][part]

LookInv ==
  /\ CallsNested /\ LooksHeld
  /\ \A d \in drawn : [material |-> d.material, texture |-> d.texture] = Looks[d.node]

Lit(n) == Lights \cap Below[n] # {}
Unlit(n) == { b \in Bodies \cap Below[n] : ~CarriesLight(b) }

\* The camera is drawn first, and a light before every body that it does not
\* hang on.
LightFirst ==
  /\ Root.kind = "camera"
  /\ Lit(Root)
  /\ \A n \in Nodes \ Lights :
       Lit(n) =>
         /\ n \in Bodies => CarriesLight(n)
         /\ \E i \in DOMAIN Kids[n] :
              Lit(Kids[n][i]) /\ \A j \in 1 .. i - 1 : Unlit(Kids[n][j]) = {}

\* A light is among the next to be drawn, before all bodies that need it.
LightComes ==
  \E k \in DOMAIN calls : \E i \in Pending(k) :
    /\ Lit(KidsOf(calls[k].node)[i])
    /\ \A l \in DOMAIN calls : \A j \in Pending(l) :
         l > k \/ (l = k /\ j < i) => Unlit(KidsOf(calls[l].node)[j]) = {}

LightSet == "light" \in uploaded /\ \E l \in Lights : gl.light = WorldMatrix(l)

LightInv ==
  /\ Len(calls) > 1 => "projection" \in uploaded
  /\ calls # <<>> => LightComes \/ LightSet
  /\ \A d \in drawn :
       /\ "projection" \in d.uploaded
       /\ CarriesLight(d.node) \/ \E l \in Lights :
            "light" \in d.uploaded /\ d.light = WorldMatrix(l)

\* Every body is drawn with all its parts, or still to come.
DrawnWhole(b) ==
  IF b.kind = "sphere" THEN CallsOf(b) # {}
  ELSE \A k \in Parts : \E d \in CallsOf(b) : d.part = k
BodyInv ==
  /\ calls # <<>> => \A b \in Bodies : ToCome(b) \/ DrawnWhole(b)
  /\ \A d \in drawn : d.node \in Bodies /\ (d.node.kind = "cube" => d.part \in Parts)
=============================================================================
