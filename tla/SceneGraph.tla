----------------------------- MODULE SceneGraph -----------------------------
(***************************************************************************)
(* Drawing a scene graph with WebGL: szenegraph/scenegraph.ts, the nodes'  *)
(* draw methods, and the textures that the browser loads meanwhile.  One   *)
(* frame is one task: the recursion of drawTraversal is unfolded into      *)
(* steps, and no event is handled between them.                            *)
(*                                                                         *)
(* A matrix is the sequence of the factors it was multiplied from; the     *)
(* factor of a turning node carries the days it had turned by then         *)
(* (rotations about one axis add up).                                      *)
(***************************************************************************)
EXTENDS Surfaces

CONSTANTS
  Nodes, Root, Kids,    \* the scene graph: the children of a node, in order
  Moving,               \* nodes whose draw turns their own trafo
  Looks,                \* what each body is meant to be drawn with
  MaxClock              \* bound on Date.now()

Scene == [kind |-> "scene", of |-> "scene"]   \* the call of Scenegraph.draw
OfKind(kinds) == { n \in Nodes : n.kind \in kinds }
Bodies == OfKind({"sphere", "cube"})
Textures == OfKind({"texture"})

ASSUME SceneAssumption ==
  /\ Scene \notin Nodes
  /\ Root \in Nodes
  /\ Kids \in [Nodes -> Seq(Nodes)]
  /\ Moving \subseteq OfKind({"orbit", "planet"})
  /\ Looks \in [Bodies -> [material : OfKind({"material"}), texture : Textures]]
  /\ MaxClock \in Nat

\* A node and everything that is drawn with it.
Below[n \in Nodes] == {n} \cup UNION { Below[Kids[n][i]] : i \in DOMAIN Kids[n] }

\* No node is its own descendant, so that Below is well defined; every body can
\* be reached from the root, and every node that turns on one path.
ASSUME TreeAssumption ==
  /\ \A n \in Nodes :
       Below[n] = {n} \cup UNION { Below[Kids[n][i]] : i \in DOMAIN Kids[n] }
  /\ Moving \cup Bodies \subseteq Below[Root]
  /\ \A n \in Nodes : \A i \in DOMAIN Kids[n] :
       /\ n \notin Moving \cap Below[Kids[n][i]]
       /\ \A j \in DOMAIN Kids[n] \ {i} :
            Moving \cap Below[Kids[n][i]] \cap Below[Kids[n][j]] = {}

VARIABLES
  calls,        \* the JavaScript stack: <<>> between two frames
  trafoStack,   \* Scenegraph.trafoStack
  turned,       \* days that each node's own trafo has turned
  gl,           \* the state of the WebGL context
  image,        \* textures: loading, loaded or failed
  lastDate,     \* Timer.lastDate
  days,         \* Scenegraph.days, of the current frame
  elapsed,      \* history: the sum of all days
  uploaded,     \* history: uniforms written in this frame
  drawn,        \* history: draw calls of this frame
  cameraMatrix  \* Camera.cameraMatrix: regular, or NaN in an entry

sceneVars == <<calls, trafoStack, turned, gl, image, lastDate, days, elapsed,
               uploaded, drawn>>

Call(n, child) == [node |-> n, child |-> child]
KidsOf(n) == IF n = Scene THEN <<Root>> ELSE Kids[n]
Factor(n, turn) == [node |-> n, days |-> IF n \in Moving THEN turn ELSE 0]
Unset == [kind |-> "unset", of |-> "unset"]

\* Buffers are named by the data uploaded into them.
Buffer(n, part, data) == [of |-> n, part |-> part, data |-> data]
NoBuffer == Buffer(Unset, 0, "none")

SceneInit ==
  /\ calls = <<>>
  /\ trafoStack = << <<Factor(Root, 0)>> >>
  /\ turned = [n \in Nodes |-> 0]
  /\ gl = [array |-> NoBuffer, elements |-> NoBuffer, position |-> NoBuffer,
           normal |-> NoBuffer, texCoord |-> NoBuffer, unit |-> Unset,
           material |-> Unset, light |-> <<>>, model |-> <<>>]
  /\ image = [t \in Textures |-> "loading"]
  /\ lastDate = 0
  /\ days = 0
  /\ elapsed = 0
  /\ uploaded = {}
  /\ drawn = {}

-----------------------------------------------------------------------------
\* Defective variant: the pointer is set before the buffer is bound.
PointerFirst(g, attribute, b) == [g EXCEPT ![attribute] = g.array, !.array = b]

\* bindBuffer, then vertexAttribPointer: the attribute reads the buffer that
\* is bound at that moment.
BindPointer(g, attribute, b) == [g EXCEPT !.array = b, ![attribute] = b]

\* Sphere.bindBuffers
SphereGl(g, n) ==
  LET attributes == BindPointer(BindPointer(BindPointer(g,
                      "position", Buffer(n, 0, "position")),
                      "normal",   Buffer(n, 0, "normal")),
                      "texCoord", Buffer(n, 0, "texCoord"))
  IN  [attributes EXCEPT !.elements = Buffer(n, 0, "index")]

\* CubeNode.bindTex
CubeGl(g, n) == BindPointer(g, "texCoord", Buffer(n, 0, "texCoord"))

\* Square.draw, for one of its triangles: a new buffer with the coordinates
\* of the corners is created and bound, then Triangle.draw binds its own.
PartGl(g, n, part) ==
  BindPointer(BindPointer(BindPointer(g,
    "texCoord", Buffer(n, part, "texCoord")),
    "position", Buffer(n, part, "position")),
    "normal",   Buffer(n, part, "normal"))

\* What a draw call works with.
DrawCall(g, n, part) ==
  [node |-> n, part |-> part, elements |-> g.elements, position |-> g.position,
   normal |-> g.normal, texCoord |-> g.texCoord, material |-> g.material,
   texture |-> g.unit, light |-> g.light, model |-> g.model,
   loaded |-> g.unit \in Textures /\ image[g.unit] = "loaded",
   uploaded |-> uploaded]

-----------------------------------------------------------------------------
\* Defective variant: the difference of the clock readings is turned round.
BeginFrameReversed ==
  /\ calls = <<>>
  /\ \E first \in lastDate .. MaxClock : \E second \in first .. MaxClock :
       /\ days' = lastDate - first
       /\ lastDate' = second
  /\ elapsed' = elapsed + days'
  /\ calls' = <<Call(Scene, 0)>>
  /\ uploaded' = {}
  /\ drawn' = {}
  /\ UNCHANGED <<trafoStack, turned, gl, image>>

\* drawScene: timer.daysPassed() reads the clock twice; then scene.draw(time)
\* calls drawTraversal(root).
BeginFrame ==
  /\ calls = <<>>
  /\ \E first \in lastDate .. MaxClock : \E second \in first .. MaxClock :
       /\ days' = first - lastDate
       /\ lastDate' = second
  /\ elapsed' = elapsed + days'
  /\ calls' = <<Call(Scene, 0)>>
  /\ uploaded' = {}
  /\ drawn' = {}
  /\ UNCHANGED <<trafoStack, turned, gl, image>>

\* The child that the innermost call visits next, if any is left.
NextKid ==
  IF calls = <<>> THEN {}
  ELSE LET top == calls[Len(calls)]
           kids == KidsOf(top.node)
       IN  { kids[i] : i \in {top.child + 1} \cap DOMAIN kids }

\* drawTraversal(n) up to node.draw: push the product of the top of the stack
\* and n's trafo, and give it to the shaders.
Enter(n) ==
  /\ calls' = Append([calls EXCEPT ![Len(calls)].child = @ + 1], Call(n, 0))
  /\ trafoStack' = Append(trafoStack,
                          Append(trafoStack[Len(trafoStack)], Factor(n, turned[n])))
  /\ UNCHANGED <<image, lastDate, days, elapsed>>

\* The state of the context when node.draw is called.
Traversed == [gl EXCEPT !.model = trafoStack'[Len(trafoStack')]]

\* Camera.draw inverts its matrix and uploads the projection of this frame.
DrawCamera(n) ==
  /\ n.kind = "camera"
  /\ cameraMatrix = "regular"
  /\ gl' = Traversed
  /\ uploaded' = uploaded \cup {"projection"}
  /\ UNCHANGED <<turned, drawn>>

\* Defective variant: the last frame's turn instead of all of them.
DrawTurningOnce(n) ==
  /\ n.kind \in {"orbit", "planet"}
  /\ gl' = Traversed
  /\ turned' = IF n \in Moving THEN [turned EXCEPT ![n] = days] ELSE turned
  /\ UNCHANGED <<uploaded, drawn>>

\* Orbit.draw and Planet.draw
DrawTurning(n) ==
  /\ n.kind \in {"orbit", "planet"}
  /\ gl' = Traversed
  /\ turned' = IF n \in Moving THEN [turned EXCEPT ![n] = @ + days] ELSE turned
  /\ UNCHANGED <<uploaded, drawn>>

DrawMaterial(n) ==
  /\ n.kind = "material"
  /\ gl' = [Traversed EXCEPT !.material = n]
  /\ UNCHANGED <<turned, uploaded, drawn>>

\* Defective variant: a texture that is bound is left there.
DrawTextureIfUnbound(n) ==
  /\ n.kind = "texture"
  /\ gl' = [Traversed EXCEPT !.unit = IF @ = Unset THEN n ELSE @]
  /\ UNCHANGED <<turned, uploaded, drawn>>

DrawTexture(n) ==
  /\ n.kind = "texture"
  /\ gl' = [Traversed EXCEPT !.unit = n]
  /\ UNCHANGED <<turned, uploaded, drawn>>

\* updatePosition(trafo), then Light.draw
DrawLight(n) ==
  /\ n.kind = "light"
  /\ gl' = [Traversed EXCEPT !.light = Traversed.model]
  /\ uploaded' = uploaded \cup {"light"}
  /\ UNCHANGED <<turned, drawn>>

DrawSphere(n) ==
  /\ n.kind = "sphere"
  /\ gl' = SphereGl(Traversed, n)
  /\ drawn' = drawn \cup {DrawCall(gl', n, 0)}
  /\ UNCHANGED <<turned, uploaded>>

\* The context after each of the cube's triangles.
CubeSteps(g, n) ==
  LET after[k \in 0 .. 12] ==
        IF k = 0 THEN CubeGl(g, n) ELSE PartGl(after[k - 1], n, k)
  IN  after

DrawCube(n) ==
  /\ n.kind = "cube"
  /\ LET after == CubeSteps(Traversed, n)
     IN  /\ gl' = after[12]
         /\ drawn' = drawn \cup { DrawCall(after[k], n, k) : k \in Parts }
  /\ UNCHANGED <<turned, uploaded>>

DrawNode(n) ==
  /\ Enter(n)
  /\ \/ DrawCamera(n)
     \/ DrawTurning(n)
     \/ DrawMaterial(n)
     \/ DrawTexture(n)
     \/ DrawLight(n)
     \/ DrawSphere(n)
     \/ DrawCube(n)

\* A matrix with NaN has no inverse: mat4.invert returns null, and
\* multiplying by that throws out of all calls.  The matrix that was pushed
\* for the camera stays on the stack.
CameraThrows(n) ==
  /\ n.kind = "camera"
  /\ cameraMatrix = "NaN"
  /\ calls' = <<>>
  /\ trafoStack' = Append(trafoStack,
                          Append(trafoStack[Len(trafoStack)], Factor(n, turned[n])))
  /\ gl' = Traversed
  /\ UNCHANGED <<turned, image, lastDate, days, elapsed, uploaded, drawn>>

\* Defective variant: the matrix is not popped.
ReturnUnpopped ==
  /\ calls # <<>>
  /\ NextKid = {}
  /\ calls' = SubSeq(calls, 1, Len(calls) - 1)
  /\ UNCHANGED <<trafoStack, turned, gl, image, lastDate, days, elapsed, uploaded, drawn>>

\* All children are drawn: drawTraversal pops its matrix; the call of
\* Scenegraph.draw ends the frame.
Return ==
  /\ calls # <<>>
  /\ NextKid = {}
  /\ trafoStack' = IF calls[Len(calls)].node = Scene THEN trafoStack
                   ELSE SubSeq(trafoStack, 1, Len(trafoStack) - 1)
  /\ calls' = SubSeq(calls, 1, Len(calls) - 1)
  /\ UNCHANGED <<turned, gl, image, lastDate, days, elapsed, uploaded, drawn>>

Draw == (\E n \in NextKid : DrawNode(n)) \/ Return

\* image.onload: Texture.loadTexture binds the texture, uploads the image and
\* unbinds it; image.onerror only warns.
ImageLoaded(t) ==
  /\ calls = <<>>
  /\ image[t] = "loading"
  /\ image' = [image EXCEPT ![t] = "loaded"]
  /\ gl' = [gl EXCEPT !.unit = Unset]
  /\ UNCHANGED <<calls, trafoStack, turned, lastDate, days, elapsed, uploaded, drawn>>

ImageFailed(t) ==
  /\ calls = <<>>
  /\ image[t] = "loading"
  /\ image' = [image EXCEPT ![t] = "failed"]
  /\ UNCHANGED <<calls, trafoStack, turned, gl, lastDate, days, elapsed, uploaded, drawn>>
=============================================================================
