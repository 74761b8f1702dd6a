------------------------ MODULE SolarDrawing_proofs ------------------------
(***************************************************************************)
(* What is drawn, for every scene graph whose turning nodes are reached on *)
(* one path each, every number of textures and every clock: the matrix     *)
(* stack follows the recursion, each body is drawn whole, with its own     *)
(* buffers and where its ancestors put it; and, in scenes with the nodes   *)
(* in the right order, with its own look under the light of its frame.     *)
(***************************************************************************)
EXTENDS SolarSystem_proofs, Surfaces_proofs, SolarScene

-----------------------------------------------------------------------------
(* The WebGL context.                                                      *)

\* What binding buffers leaves alone.
Uniforms == {"model", "material", "unit", "light"}

\* An attribute reads the buffer that was bound to it.
LEMMA Bound ==
  ASSUME NEW g, GlState \subseteq DOMAIN g,
         NEW a \in {"position", "normal", "texCoord"}, NEW b
  PROVE  LET h == BindPointer(g, a, b) IN
         /\ DOMAIN h = DOMAIN g /\ h[a] = b
         /\ \A f \in DOMAIN g \ {a, "array"} : h[f] = g[f]
BY DEF BindPointer, GlState

\* Sphere.bindBuffers points all attributes at the sphere's buffers.
LEMMA SphereBound ==
  ASSUME NEW g, GlState \subseteq DOMAIN g, NEW n
  PROVE  LET h == SphereGl(g, n) IN
         /\ DOMAIN h = DOMAIN g /\ \A f \in Uniforms : h[f] = g[f]
         /\ h.elements = Buffer(n, 0, "index")
         /\ \A data \in {"position", "normal", "texCoord"} : h[data] = Buffer(n, 0, data)
<1> DEFINE g1 == BindPointer(g, "position", Buffer(n, 0, "position"))
           g2 == BindPointer(g1, "normal", Buffer(n, 0, "normal"))
           g3 == BindPointer(g2, "texCoord", Buffer(n, 0, "texCoord"))
<1>1. /\ DOMAIN g1 = DOMAIN g /\ g1["position"] = Buffer(n, 0, "position")
      /\ \A f \in Uniforms : g1[f] = g[f]
  BY DEF BindPointer, GlState, Uniforms
<1> HIDE DEF g1
<1>2. /\ DOMAIN g2 = DOMAIN g /\ g2["normal"] = Buffer(n, 0, "normal")
      /\ g2["position"] = Buffer(n, 0, "position") /\ \A f \in Uniforms : g2[f] = g[f]
  BY <1>1 DEF BindPointer, GlState, Uniforms
<1> HIDE DEF g2
<1>3. /\ DOMAIN g3 = DOMAIN g /\ g3["texCoord"] = Buffer(n, 0, "texCoord")
      /\ g3["position"] = Buffer(n, 0, "position") /\ g3["normal"] = Buffer(n, 0, "normal")
      /\ \A f \in Uniforms : g3[f] = g[f]
  BY <1>2, Bound DEF GlState, Uniforms
<1>4. SphereGl(g, n) = [g3 EXCEPT !.elements = Buffer(n, 0, "index")]
  BY DEF SphereGl, g1, g2
<1> HIDE DEF g3
<1> QED  BY <1>3, <1>4 DEF GlState, Uniforms

\* So does Square.draw for each triangle, whatever was bound before.
LEMMA PartBound ==
  ASSUME NEW g, GlState \subseteq DOMAIN g, NEW n, NEW part
  PROVE  LET h == PartGl(g, n, part) IN
         /\ DOMAIN h = DOMAIN g /\ \A f \in Uniforms : h[f] = g[f]
         /\ \A data \in {"position", "normal", "texCoord"} : h[data] = Buffer(n, part, data)
<1> DEFINE g1 == BindPointer(g, "texCoord", Buffer(n, part, "texCoord"))
           g2 == BindPointer(g1, "position", Buffer(n, part, "position"))
           g3 == BindPointer(g2, "normal", Buffer(n, part, "normal"))
<1>1. /\ DOMAIN g1 = DOMAIN g /\ g1["texCoord"] = Buffer(n, part, "texCoord")
      /\ \A f \in Uniforms : g1[f] = g[f]
  BY DEF BindPointer, GlState, Uniforms
<1> HIDE DEF g1
<1>2. /\ DOMAIN g2 = DOMAIN g /\ g2["position"] = Buffer(n, part, "position")
      /\ g2["texCoord"] = Buffer(n, part, "texCoord") /\ \A f \in Uniforms : g2[f] = g[f]
  BY <1>1 DEF BindPointer, GlState, Uniforms
<1> HIDE DEF g2
<1>3. /\ DOMAIN g3 = DOMAIN g /\ g3["normal"] = Buffer(n, part, "normal")
      /\ g3["position"] = Buffer(n, part, "position")
      /\ g3["texCoord"] = Buffer(n, part, "texCoord")
      /\ \A f \in Uniforms : g3[f] = g[f]
  BY <1>2, Bound DEF GlState, Uniforms
<1>4. PartGl(g, n, part) = g3
  BY DEF PartGl, g1, g2
<1> HIDE DEF g3
<1> QED  BY <1>3, <1>4

\* The recursion over the triangles of a cube is well defined: every triangle
\* binds all that the one before it had bound.
LEMMA CubeStepsDefined ==
  ASSUME NEW g, GlState \subseteq DOMAIN g, NEW n
  PROVE  CubeSteps(g, n) =
           [k \in 0 .. 12 |-> IF k = 0 THEN CubeGl(g, n)
                              ELSE PartGl(CubeSteps(g, n)[k - 1], n, k)]
<1> DEFINE F(f) == [k \in 0 .. 12 |-> IF k = 0 THEN CubeGl(g, n) ELSE PartGl(f[k - 1], n, k)]
<1>1. CubeSteps(g, n) = CHOOSE f : f = F(f)
  BY DEF CubeSteps
<1> DEFINE w == [k \in 0 .. 12 |-> IF k = 0 THEN CubeGl(g, n)
                                   ELSE PartGl(CubeGl(g, n), n, k)]
<1>2. DOMAIN CubeGl(g, n) = DOMAIN g
  BY Bound DEF CubeGl
<1>3. ASSUME NEW h, DOMAIN h = DOMAIN g, NEW j, NEW k
      PROVE  PartGl(PartGl(h, n, j), n, k) = PartGl(h, n, k)
  BY <1>3 DEF PartGl, BindPointer, GlState
<1>4. w = F(w)
  <2>1. ASSUME NEW k \in 1 .. 12
        PROVE  PartGl(w[k - 1], n, k) = PartGl(CubeGl(g, n), n, k)
    BY <1>2, <1>3
  <2> QED  BY <2>1
<1> HIDE DEF w, F
<1>5. (CHOOSE f : f = F(f)) = F(CHOOSE f : f = F(f))
  BY <1>4
<1>6. CubeSteps(g, n) = F(CubeSteps(g, n))
  BY <1>1, <1>5
<1> QED  BY <1>6 DEF F

\* All triangles of a cube are drawn with what was set before the first, and
\* each with its own buffers.
LEMMA CubeBound ==
  ASSUME NEW g, GlState \subseteq DOMAIN g, NEW n
  PROVE  /\ \A k \in 0 .. 12 : GlState \subseteq DOMAIN CubeSteps(g, n)[k]
                               /\ \A f \in Uniforms : CubeSteps(g, n)[k][f] = g[f]
         /\ \A k \in 1 .. 12 : \A data \in {"position", "normal", "texCoord"} :
              CubeSteps(g, n)[k][data] = Buffer(n, k, data)
<1> DEFINE c == CubeSteps(g, n)
           P(k) == GlState \subseteq DOMAIN c[k] /\ \A f \in Uniforms : c[k][f] = g[f]
<1>0. c = [k \in 0 .. 12 |-> IF k = 0 THEN CubeGl(g, n) ELSE PartGl(c[k - 1], n, k)]
  BY CubeStepsDefined
<1> HIDE DEF c
<1>1. c[0] = CubeGl(g, n) /\ \A k \in 1 .. 12 : c[k] = PartGl(c[k - 1], n, k)
  BY <1>0
<1>2. P(0)
  BY <1>1 DEF CubeGl, BindPointer, GlState, Uniforms
<1>3. ASSUME NEW k \in 1 .. 12, P(k - 1)
      PROVE  P(k) /\ \A data \in {"position", "normal", "texCoord"} :
                       c[k][data] = Buffer(n, k, data)
  <2> DEFINE h == c[k - 1]
  <2>1. c[k] = PartGl(h, n, k) /\ GlState \subseteq DOMAIN h /\ \A f \in Uniforms : h[f] = g[f]
    BY <1>1, <1>3
  <2> HIDE DEF h
  <2> QED  BY <2>1, PartBound
<1> HIDE DEF P
<1>4. \A k \in 0 .. 11 : P(k) => P(k + 1)
  <2>1. \A k \in 0 .. 11 : k + 1 \in 1 .. 12 /\ (k + 1) - 1 = k
    OBVIOUS
  <2> QED  BY <1>3, <2>1
<1>5. P(1) /\ P(2) /\ P(3)
  BY <1>2, <1>4
<1>6. P(4) /\ P(5) /\ P(6)
  BY <1>4, <1>5
<1>7. P(7) /\ P(8) /\ P(9)
  BY <1>4, <1>6
<1>8. P(10) /\ P(11) /\ P(12)
  BY <1>4, <1>7
<1>9. \A k \in 0 .. 12 : P(k)
  BY <1>2, <1>5, <1>6, <1>7, <1>8
<1>10. \A k \in 1 .. 12 : k - 1 \in 0 .. 12
  OBVIOUS
<1> QED  BY <1>3, <1>9, <1>10 DEF P, c

-----------------------------------------------------------------------------
(* The recursion.                                                          *)

\* The children of a call are nodes.
LEMMA KidsTyped ==
  ASSUME NEW n \in Nodes \cup {Scene}
  PROVE  KidsOf(n) \in Seq(Nodes)
BY SceneAssumption DEF KidsOf

\* The state that the recursion is in.
CallsOK == calls \in Seq([node : Nodes \cup {Scene}, child : Nat]) /\ CallsDescend

\* An element of a sequence.
LEMMA Element ==
  ASSUME NEW S, NEW s \in Seq(S)
  PROVE  /\ DOMAIN s = 1 .. Len(s) /\ Len(s) \in Nat
         /\ \A i \in DOMAIN s : s[i] \in S
OBVIOUS

\* A call that is on the stack.
LEMMA CallTyped ==
  ASSUME CallsOK, NEW k \in DOMAIN calls
  PROVE  /\ calls[k].node \in Nodes \cup {Scene} /\ calls[k].child \in Nat
         /\ KidsOf(calls[k].node) \in Seq(Nodes)
         /\ Pending(k) \subseteq DOMAIN KidsOf(calls[k].node)
         /\ \A i \in Pending(k) : KidsOf(calls[k].node)[i] \in Nodes
<1>1. calls[k] \in [node : Nodes \cup {Scene}, child : Nat]
  BY Element DEF CallsOK
<1>2. KidsOf(calls[k].node) \in Seq(Nodes)
  BY <1>1, KidsTyped
<1>3. Pending(k) \subseteq DOMAIN KidsOf(calls[k].node)
  BY <1>1, <1>2 DEF Pending
<1> QED  BY <1>1, <1>2, <1>3

\* The innermost call.
LEMMA TopCall ==
  ASSUME CallsOK, calls # <<>>
  PROVE  /\ Len(calls) \in Nat \ {0} /\ Len(calls) \in DOMAIN calls
         /\ calls[Len(calls)].child + 1 \in Nat
<1> DEFINE T == [node : Nodes \cup {Scene}, child : Nat]
<1>1. calls \in Seq(T)
  BY DEF CallsOK
<1> HIDE DEF T
<1>2. Len(calls) \in Nat \ {0} /\ Len(calls) \in DOMAIN calls
  BY <1>1
<1> QED  BY <1>2, CallTyped

\* One more call on top of a stack whose top has moved on.
LEMMA Deeper ==
  ASSUME NEW T, NEW s \in Seq(T), s # <<>>, NEW x \in T, NEW y \in T
  PROVE  LET t == Append([s EXCEPT ![Len(s)] = x], y) IN
         /\ t \in Seq(T) /\ Len(t) = Len(s) + 1 /\ t # <<>>
         /\ t[Len(s)] = x /\ t[Len(s) + 1] = y
         /\ \A k \in DOMAIN s \ {Len(s)} : t[k] = s[k]
<1> DEFINE d == [s EXCEPT ![Len(s)] = x]
<1>1. d \in Seq(T) /\ Len(d) = Len(s) /\ Len(s) \in Nat \ {0} /\ DOMAIN s = 1 .. Len(s)
  OBVIOUS
<1>2. d[Len(s)] = x /\ \A k \in DOMAIN s \ {Len(s)} : d[k] = s[k]
  BY <1>1
<1> HIDE DEF d
<1>3. Append(d, y) \in Seq(T) /\ Len(Append(d, y)) = Len(s) + 1
      /\ Append(d, y)[Len(s) + 1] = y /\ \A k \in 1 .. Len(s) : Append(d, y)[k] = d[k]
  BY <1>1
<1>4. /\ Append(d, y) \in Seq(T) /\ Len(Append(d, y)) = Len(s) + 1 /\ Append(d, y) # <<>>
      /\ Append(d, y)[Len(s)] = x /\ Append(d, y)[Len(s) + 1] = y
      /\ \A k \in DOMAIN s \ {Len(s)} : Append(d, y)[k] = s[k]
  BY <1>1, <1>2, <1>3
<1> QED  BY <1>4 DEF d

\* The next child, the c-th of the L-th call, is no longer ahead of its parent,
\* and its own children are ahead of it.
Moved(n, L, c) ==
  /\ L \in Nat \ {0} /\ L \in DOMAIN calls /\ c \in Pending(L)
  /\ n = KidsOf(calls[L].node)[c] /\ n \in Nodes /\ Ahead(L, c) = Below[n]
  /\ DOMAIN calls' = DOMAIN calls \cup {L + 1} /\ L + 1 \notin DOMAIN calls
  /\ \A k \in DOMAIN calls : calls'[k].node = calls[k].node
  /\ \A k \in DOMAIN calls \ {L} : calls'[k].child = calls[k].child
  /\ calls'[L].child = c /\ calls'[L + 1].child = 0
  /\ \A k \in DOMAIN calls \ {L} : Pending(k)' = Pending(k)
  /\ Pending(L)' = Pending(L) \ {c}
  /\ calls'[L + 1].node = n /\ Pending(L + 1)' = DOMAIN Kids[n]
  /\ \A i : Ahead(L + 1, i)' = Below[Kids[n][i]]
  /\ \A k \in DOMAIN calls : \A i : Ahead(k, i)' = Ahead(k, i)
  /\ CallsOK' /\ Len(calls') = L + 1

\* Visiting the next child takes it off what its parent has before it, and
\* puts the child's own children there.
LEMMA Entered ==
  ASSUME CallsOK, NEW n \in NextKid, Enter(n),
         NEW L \in Nat, L = Len(calls), NEW c \in Nat, c = calls[L].child + 1
  PROVE  Moved(n, L, c)
<1> DEFINE T == [node : Nodes \cup {Scene}, child : Nat]
           top == calls[L]
           moved == [top EXCEPT !.child = @ + 1]
<1>1. calls \in Seq(T) /\ calls # <<>>
  BY DEF CallsOK, NextKid
<1>2. L \in Nat \ {0} /\ DOMAIN calls = 1 .. L /\ L \in DOMAIN calls
  <2> HIDE DEF T
  <2> QED  BY <1>1
<1>3. top \in T
  <2> HIDE DEF T
  <2> QED  BY <1>1, <1>2, Element
<1>4. KidsOf(top.node) \in Seq(Nodes) /\ top.child \in Nat /\ top.node \in Nodes \cup {Scene}
  BY <1>3, KidsTyped
<1>5. /\ c \in DOMAIN KidsOf(top.node) /\ n = KidsOf(top.node)[c] /\ n \in Nodes
  BY <1>1, <1>4 DEF NextKid
<1>6. c \in Pending(L) /\ c \in Nat
  BY <1>4, <1>5 DEF Pending
<1>7. Ahead(L, c) = Below[n]
  BY <1>5 DEF Ahead
<1>8. moved \in T /\ moved.node = top.node /\ moved.child = c
  <2>1. PICK a \in Nodes \cup {Scene}, b \in Nat : top = [node |-> a, child |-> b]
    BY <1>3
  <2> HIDE DEF top
  <2>2. moved = [node |-> a, child |-> b + 1]
    BY <2>1
  <2>3. b + 1 \in Nat /\ c = b + 1
    BY <2>1 DEF top
  <2> QED  BY <2>1, <2>2, <2>3
<1>9. Call(n, 0) \in T /\ Call(n, 0).node = n /\ Call(n, 0).child = 0
  BY <1>5 DEF Call
<1>10. calls' = Append([calls EXCEPT ![L] = moved], Call(n, 0))
  BY DEF Enter
<1> HIDE DEF T, moved
<1>11. /\ calls' \in Seq(T) /\ Len(calls') = L + 1
       /\ calls'[L] = moved /\ calls'[L + 1] = Call(n, 0)
       /\ \A k \in DOMAIN calls \ {L} : calls'[k] = calls[k]
  BY <1>1, <1>8, <1>9, <1>10, Deeper
<1>12. DOMAIN calls' = DOMAIN calls \cup {L + 1} /\ L + 1 \notin DOMAIN calls
  <2>1. DOMAIN calls' = 1 .. L + 1
    BY <1>11, Element
  <2> QED  BY <1>2, <2>1
<1>13. /\ \A k \in DOMAIN calls : calls'[k].node = calls[k].node
       /\ \A k \in DOMAIN calls \ {L} : calls'[k].child = calls[k].child
       /\ calls'[L].child = c /\ calls'[L + 1].child = 0
  BY <1>8, <1>9, <1>11
<1>14. \A k \in DOMAIN calls \ {L} : Pending(k)' = Pending(k)
  BY <1>11 DEF Pending
<1>15. Pending(L)' = Pending(L) \ {c}
  <2>1. Pending(L)' = c + 1 .. Len(KidsOf(top.node))
    BY <1>8, <1>11 DEF Pending
  <2>2. Len(KidsOf(top.node)) \in Nat
    BY <1>4
  <2>3. Pending(L) = c .. Len(KidsOf(top.node))
    BY DEF Pending
  <2> QED  BY <1>6, <2>1, <2>2, <2>3
<1>16. calls'[L + 1].node = n /\ Pending(L + 1)' = DOMAIN Kids[n]
  <2>1. KidsOf(n) = Kids[n] /\ Kids[n] \in Seq(Nodes)
    BY <1>5, SceneAssumption DEF KidsOf
  <2>2. Pending(L + 1)' = 0 + 1 .. Len(Kids[n])
    BY <1>9, <1>11, <2>1 DEF Pending
  <2> QED  BY <1>9, <1>11, <2>1, <2>2
<1>17. /\ \A i : Ahead(L + 1, i)' = Below[Kids[n][i]]
       /\ \A k \in DOMAIN calls : \A i : Ahead(k, i)' = Ahead(k, i)
  <2>1. KidsOf(n) = Kids[n]
    BY <1>5, SceneAssumption DEF KidsOf
  <2> QED  BY <1>13, <1>16, <2>1 DEF Ahead
<1>18. CallsOK'
  <2>1. CallsDescend'
    <3>1. \A k \in DOMAIN calls : IF k = 1 THEN calls[k].node = Scene ELSE calls[k].node \in Nodes
      BY DEF CallsOK, CallsDescend
    <3>2. L + 1 # 1
      BY <1>2
    <3> QED  BY <1>5, <1>12, <1>13, <1>16, <3>1, <3>2 DEF CallsDescend
  <2> QED  BY <1>11, <2>1 DEF CallsOK, T
<1> QED  BY <1>2, <1>5, <1>6, <1>7, <1>11, <1>12, <1>13, <1>14, <1>15, <1>16, <1>17, <1>18
         DEF Moved

\* A sequence without its last element.
LEMMA Shallower ==
  ASSUME NEW T, NEW s \in Seq(T), s # <<>>
  PROVE  LET t == SubSeq(s, 1, Len(s) - 1) IN
         /\ t \in Seq(T) /\ Len(t) = Len(s) - 1
         /\ DOMAIN t = DOMAIN s \ {Len(s)} /\ Len(s) \in DOMAIN s
         /\ \A k \in DOMAIN t : t[k] = s[k]
<1>1. Len(s) \in Nat \ {0} /\ DOMAIN s = 1 .. Len(s)
  OBVIOUS
<1>2. \A k \in 1 .. Len(s) - 1 : s[k] \in T
  BY <1>1
<1> DEFINE t == SubSeq(s, 1, Len(s) - 1)
<1>3. t = [k \in 1 .. Len(s) - 1 |-> s[k]]
  BY <1>1
<1>4. Len(s) - 1 \in Nat
  BY <1>1
<1> HIDE DEF t
<1>5. t \in Seq(T) /\ Len(t) = Len(s) - 1 /\ DOMAIN t = 1 .. Len(s) - 1
  BY <1>2, <1>3, <1>4
<1>6. DOMAIN t = DOMAIN s \ {Len(s)}
  BY <1>1, <1>5
<1> QED  BY <1>1, <1>3, <1>5, <1>6 DEF t

\* A call returns when all its children are drawn, and leaves the others.
LEMMA Returned ==
  ASSUME CallsOK, Return, NEW L \in Nat, L = Len(calls)
  PROVE  /\ L \in Nat \ {0} /\ L \in DOMAIN calls /\ Pending(L) = {}
         /\ DOMAIN calls' = DOMAIN calls \ {L} /\ Len(calls') = L - 1
         /\ \A k \in DOMAIN calls' : calls'[k] = calls[k]
         /\ \A k \in DOMAIN calls' : Pending(k)' = Pending(k)
         /\ \A k \in DOMAIN calls' : \A i : Ahead(k, i)' = Ahead(k, i)
         /\ CallsOK'
<1> DEFINE T == [node : Nodes \cup {Scene}, child : Nat]
<1>1. calls \in Seq(T) /\ calls # <<>> /\ NextKid = {} /\ calls' = SubSeq(calls, 1, L - 1)
  BY DEF CallsOK, Return
<1> HIDE DEF T
<1>2. L \in Nat \ {0} /\ L \in DOMAIN calls
  BY <1>1, Shallower
<1>3. /\ calls' \in Seq(T) /\ Len(calls') = L - 1 /\ DOMAIN calls' = DOMAIN calls \ {L}
      /\ \A k \in DOMAIN calls' : calls'[k] = calls[k]
  BY <1>1, Shallower
<1>4. Pending(L) = {}
  <2>1. KidsOf(calls[L].node) \in Seq(Nodes) /\ calls[L].child \in Nat
    BY <1>2, CallTyped
  <2>2. ASSUME calls[L].child + 1 \in DOMAIN KidsOf(calls[L].node)
        PROVE  FALSE
    <3>1. KidsOf(calls[L].node)[calls[L].child + 1] \in NextKid
      BY <1>1, <2>2 DEF NextKid
    <3> QED  BY <1>1, <3>1
  <2>3. calls[L].child + 1 > Len(KidsOf(calls[L].node))
    BY <2>1, <2>2
  <2> QED  BY <2>1, <2>3 DEF Pending
<1>5. CallsOK'
  <2>1. CallsDescend'
    BY <1>3 DEF CallsOK, CallsDescend
  <2> QED  BY <1>3, <2>1 DEF CallsOK, T
<1>6. /\ \A k \in DOMAIN calls' : Pending(k)' = Pending(k)
      /\ \A k \in DOMAIN calls' : \A i : Ahead(k, i)' = Ahead(k, i)
  BY <1>3 DEF Pending, Ahead
<1> QED  BY <1>2, <1>3, <1>4, <1>5, <1>6

-----------------------------------------------------------------------------
(* Turning.                                                                *)

\* What is below a child is below its parent.
LEMMA BelowKids ==
  ASSUME NEW n \in Nodes
  PROVE  /\ n \in Below[n]
         /\ \A i \in DOMAIN Kids[n] : Below[Kids[n][i]] \subseteq Below[n]
         /\ \A m \in Below[n] \ {n} : \E i \in DOMAIN Kids[n] : m \in Below[Kids[n][i]]
<1>1. Below[n] = {n} \cup UNION { Below[Kids[n][i]] : i \in DOMAIN Kids[n] }
  BY TreeAssumption
<1> QED  BY <1>1

\* A node that turns is below one child of its ancestors only.
LEMMA KidsApart ==
  ASSUME NEW n \in Nodes, NEW i \in DOMAIN Kids[n], NEW m \in Moving,
         m \in Below[Kids[n][i]]
  PROVE  m # n /\ \A j \in DOMAIN Kids[n] : m \in Below[Kids[n][j]] => j = i
BY TreeAssumption

\* Only the node that is visited turns, and it does so if it is one that moves.
LEMMA Turns ==
  ASSUME NEW n \in Nodes, DrawNode(n)
  PROVE  turned' = IF n \in Moving THEN [turned EXCEPT ![n] = @ + days] ELSE turned
<1>1. n \in Moving => n.kind \in {"orbit", "planet"}
  BY SceneAssumption DEF OfKind
<1>2. CASE n.kind \in {"orbit", "planet"}
  <2>1. DrawTurning(n)
    BY <1>2 DEF DrawNode, DrawCamera, DrawTurning, DrawMaterial, DrawTexture, DrawLight,
                DrawSphere, DrawCube
  <2> QED  BY <2>1 DEF DrawTurning
<1>3. CASE n.kind \notin {"orbit", "planet"}
  <2>1. UNCHANGED turned
    BY <1>3 DEF DrawNode, DrawCamera, DrawTurning, DrawMaterial, DrawTexture, DrawLight,
                DrawSphere, DrawCube
  <2> QED  BY <1>1, <1>3, <2>1
<1> QED  BY <1>2, <1>3

\* A node that turns is visited once in a frame.
LEMMA EnterTurns ==
  ASSUME CallsOK, TurnedInStep, PendingApart, turned \in [Nodes -> Nat],
         days \in Nat, elapsed \in Nat, NEW n \in NextKid, DrawNode(n)
  PROVE  /\ TurnedInStep' /\ PendingApart'
         /\ n \in Moving => turned[n] = elapsed - days
<1>0. Enter(n) /\ calls # <<>>
  BY DEF DrawNode, NextKid
<1> PICK L \in Nat : L = Len(calls)
  BY <1>0, TopCall
<1> PICK c \in Nat : c = calls[L].child + 1
  BY <1>0, TopCall
<1>1. /\ L \in Nat /\ L \in DOMAIN calls
      /\ c \in Pending(L) /\ n \in Nodes /\ Ahead(L, c) = Below[n]
      /\ DOMAIN calls' = DOMAIN calls \cup {L + 1} /\ L + 1 \notin DOMAIN calls
      /\ \A k \in DOMAIN calls \ {L} : Pending(k)' = Pending(k)
      /\ Pending(L)' = Pending(L) \ {c} /\ Pending(L + 1)' = DOMAIN Kids[n]
      /\ \A i : Ahead(L + 1, i)' = Below[Kids[n][i]]
      /\ \A k \in DOMAIN calls : \A i : Ahead(k, i)' = Ahead(k, i)
  <2>1. Moved(n, L, c)
    BY <1>0, Entered
  <2> QED  BY <2>1 DEF Moved
<1>2. \A k \in DOMAIN calls : \A i \in Pending(k)' :
        i \in Pending(k) /\ (k # L \/ i # c)
  BY <1>1
<1>3. \A k \in DOMAIN calls : \A i \in Pending(k) :
        k # L \/ i # c => i \in Pending(k)'
  BY <1>1
<1>4. ASSUME NEW m \in Moving, m # n
      PROVE  ToCome(m)' <=> ToCome(m)
  <2>1. ASSUME ToCome(m)' PROVE ToCome(m)
    <3>1. PICK k \in DOMAIN calls' : \E i \in Pending(k)' : m \in Ahead(k, i)'
      BY <2>1 DEF ToCome
    <3>2. PICK i \in Pending(k)' : m \in Ahead(k, i)'
      BY <3>1
    <3>3. CASE k = L + 1
      <4>1. i \in DOMAIN Kids[n] /\ m \in Below[Kids[n][i]]
        BY <1>1, <3>2, <3>3
      <4>2. m \in Ahead(L, c)
        BY <1>1, <4>1, BelowKids
      <4> QED  BY <1>1, <4>2 DEF ToCome
    <3>4. CASE k \in DOMAIN calls
      <4>1. i \in Pending(k) /\ m \in Ahead(k, i)
        BY <1>1, <1>2, <3>2, <3>4
      <4> QED  BY <3>4, <4>1 DEF ToCome
    <3> QED  BY <1>1, <3>3, <3>4
  <2>2. ASSUME ToCome(m) PROVE ToCome(m)'
    <3>1. PICK k \in DOMAIN calls : \E i \in Pending(k) : m \in Ahead(k, i)
      BY <2>2 DEF ToCome
    <3>2. PICK i \in Pending(k) : m \in Ahead(k, i)
      BY <3>1
    <3>3. CASE k = L /\ i = c
      <4>1. PICK j \in DOMAIN Kids[n] : m \in Below[Kids[n][j]]
        BY <1>1, <1>4, <3>2, <3>3, BelowKids
      <4>2. L + 1 \in DOMAIN calls' /\ j \in Pending(L + 1)' /\ m \in Ahead(L + 1, j)'
        BY <1>1, <4>1
      <4> QED  BY <4>2 DEF ToCome
    <3>4. CASE ~(k = L /\ i = c)
      <4>1. k \in DOMAIN calls' /\ i \in Pending(k)' /\ m \in Ahead(k, i)'
        BY <1>1, <1>3, <3>2, <3>4
      <4> QED  BY <4>1 DEF ToCome
    <3> QED  BY <3>3, <3>4
  <2> QED  BY <2>1, <2>2
<1>5. n \in Moving => ToCome(n)
  <2>1. n \in Ahead(L, c)
    BY <1>1, BelowKids
  <2> QED  BY <1>1, <2>1 DEF ToCome
<1>6. ASSUME n \in Moving PROVE ~ToCome(n)'
  <2> SUFFICES ASSUME NEW k \in DOMAIN calls', NEW i \in Pending(k)', n \in Ahead(k, i)'
               PROVE  FALSE
    BY DEF ToCome
  <2>1. CASE k = L + 1
    <3>1. i \in DOMAIN Kids[n] /\ n \in Below[Kids[n][i]]
      BY <1>1, <2>1
    <3> QED  BY <1>1, <1>6, <3>1, KidsApart
  <2>2. CASE k \in DOMAIN calls
    <3>1. i \in Pending(k) /\ (k # L \/ i # c) /\ n \in Ahead(k, i) /\ n \in Ahead(L, c)
      BY <1>1, <1>2, <2>2, BelowKids
    <3> QED  BY <1>1, <1>6, <2>2, <3>1 DEF PendingApart
  <2> QED  BY <1>1, <2>1, <2>2
<1>7. n \in Moving => turned[n] = elapsed - days
  BY <1>5 DEF TurnedInStep
<1>8. TurnedInStep'
  <2>1. UNCHANGED <<days, elapsed>>
    BY DEF DrawNode, Enter
  <2>2. turned' = IF n \in Moving THEN [turned EXCEPT ![n] = @ + days] ELSE turned
    BY <1>1, Turns
  <2>3. ASSUME NEW m \in Moving
        PROVE  turned'[m] = IF ToCome(m)' THEN elapsed - days ELSE elapsed
    <3>1. CASE m = n
      <4>1. turned'[n] = turned[n] + days
        BY <1>1, <2>2, <2>3, <3>1
      <4> QED  BY <1>6, <1>7, <2>3, <3>1, <4>1
    <3>2. CASE m # n
      <4>1. turned'[m] = turned[m]
        BY <2>2, <3>2
      <4> QED  BY <1>4, <2>3, <3>2, <4>1 DEF TurnedInStep
    <3> QED  BY <3>1, <3>2
  <2> QED  BY <2>1, <2>3 DEF TurnedInStep
<1>9. PendingApart'
  <2> SUFFICES ASSUME NEW k \in DOMAIN calls', NEW l \in DOMAIN calls',
                      NEW i \in Pending(k)', NEW j \in Pending(l)', k # l \/ i # j,
                      NEW m \in Moving, m \in Ahead(k, i)', m \in Ahead(l, j)'
               PROVE  FALSE
    BY DEF PendingApart
  <2>1. CASE k \in DOMAIN calls /\ l \in DOMAIN calls
    <3>1. /\ i \in Pending(k) /\ j \in Pending(l)
          /\ m \in Ahead(k, i) /\ m \in Ahead(l, j)
      BY <1>1, <1>2, <2>1
    <3> QED  BY <2>1, <3>1 DEF PendingApart
  <2>2. CASE k = L + 1 /\ l = L + 1
    <3>1. /\ i \in DOMAIN Kids[n] /\ j \in DOMAIN Kids[n] /\ i # j
          /\ m \in Below[Kids[n][i]] /\ m \in Below[Kids[n][j]]
      BY <1>1, <2>2
    <3> QED  BY <1>1, <3>1, KidsApart
  <2>3. CASE k = L + 1 /\ l \in DOMAIN calls
    <3>1. i \in DOMAIN Kids[n] /\ m \in Below[Kids[n][i]]
      BY <1>1, <2>3
    <3>2. m \in Ahead(l, j) /\ j \in Pending(l) /\ (l # L \/ j # c)
      BY <1>1, <1>2, <2>3
    <3>3. m \in Ahead(L, c)
      BY <1>1, <3>1, BelowKids
    <3> QED  BY <1>1, <2>3, <3>2, <3>3 DEF PendingApart
  <2>4. CASE k \in DOMAIN calls /\ l = L + 1
    <3>1. j \in DOMAIN Kids[n] /\ m \in Below[Kids[n][j]]
      BY <1>1, <2>4
    <3>2. m \in Ahead(k, i) /\ i \in Pending(k) /\ (k # L \/ i # c)
      BY <1>1, <1>2, <2>4
    <3>3. m \in Ahead(L, c)
      BY <1>1, <3>1, BelowKids
    <3> QED  BY <1>1, <2>4, <3>2, <3>3 DEF PendingApart
  <2> QED  BY <1>1, <2>1, <2>2, <2>3, <2>4
<1> QED  BY <1>7, <1>8, <1>9

\* A call that returns leaves nothing to turn behind.
LEMMA ReturnTurns ==
  ASSUME CallsOK, TurnedInStep, PendingApart, Return
  PROVE  TurnedInStep' /\ PendingApart'
<1> PICK L \in Nat : L = Len(calls)
  BY TopCall DEF Return
<1>1. /\ Pending(L) = {} /\ DOMAIN calls' = DOMAIN calls \ {L}
      /\ \A k \in DOMAIN calls' : Pending(k)' = Pending(k)
      /\ \A k \in DOMAIN calls' : \A i : Ahead(k, i)' = Ahead(k, i)
  BY Returned
<1>2. ASSUME NEW n \in Moving
      PROVE  ToCome(n)' <=> ToCome(n)
  BY <1>1 DEF ToCome
<1>3. UNCHANGED <<turned, days, elapsed>>
  BY DEF Return
<1>4. TurnedInStep'
  BY <1>2, <1>3 DEF TurnedInStep
<1>5. PendingApart'
  BY <1>1 DEF PendingApart
<1> QED  BY <1>4, <1>5

-----------------------------------------------------------------------------
(* The matrices.                                                           *)

Matrices == Seq(Seq([node : Nodes, days : Int]))

\* The factor that a node has turned to.
LEMMA FactorTyped ==
  ASSUME NEW n \in Nodes, NEW t \in Int
  PROVE  Factor(n, t) \in [node : Nodes, days : Int]
BY DEF Factor

\* A sequence with one more element.
LEMMA Appended ==
  ASSUME NEW S, NEW s \in Seq(S), NEW e \in S
  PROVE  /\ Append(s, e) \in Seq(S)
         /\ \A i \in DOMAIN Append(s, e) : Append(s, e)[i] \in S
OBVIOUS

\* drawTraversal pushes the product of its parent's matrix and its own trafo.
LEMMA EnterStack ==
  ASSUME CallsOK, StackInStep, trafoStack \in Matrices,
         turned \in [Nodes -> Nat], days \in Nat, elapsed \in Nat,
         NEW n \in NextKid, Enter(n), n \in Moving => turned[n] = elapsed - days,
         NEW L \in Nat, L = Len(calls), NEW c \in Nat, c = calls[L].child + 1
  PROVE  /\ StackInStep' /\ trafoStack' \in Matrices
         /\ Len(trafoStack') = L + 1
         /\ trafoStack'[L + 1] = Append(trafoStack[L], Factor(n, elapsed - days))
         /\ \A k \in 1 .. L : trafoStack'[k] = trafoStack[k]
<1> DEFINE F == [node : Nodes, days : Int]
<1>1. Moved(n, L, c) /\ calls # <<>>
  BY Entered DEF NextKid
<1>2. L \in Nat \ {0} /\ n \in Nodes /\ Len(calls') = L + 1
  BY <1>1 DEF Moved
<1>3. Len(trafoStack) = L
  BY <1>1 DEF StackInStep
<1>4. Factor(n, turned[n]) = Factor(n, elapsed - days) /\ elapsed - days \in Int
  BY DEF Factor
<1> PICK f \in F : f = Factor(n, elapsed - days)
  BY <1>2, <1>4, FactorTyped
<1> HIDE DEF F
<1>5. trafoStack \in Seq(Seq(F))
  BY DEF Matrices, F
<1>6. trafoStack[L] \in Seq(F)
  BY <1>2, <1>3, <1>5, Element
<1> PICK s \in Seq(F) : s = trafoStack[L]
  BY <1>6
<1> PICK m \in Seq(F) : m = Append(s, f)
  BY Appended
<1>7. trafoStack' = Append(trafoStack, m)
  BY <1>3, <1>4 DEF Enter
<1>8. /\ trafoStack' \in Seq(Seq(F)) /\ Len(trafoStack') = L + 1
      /\ trafoStack'[L + 1] = m
      /\ \A k \in 1 .. L : trafoStack'[k] = trafoStack[k]
  BY <1>2, <1>3, <1>5, <1>7
<1>9. StackInStep'
  <2>1. calls' # <<>>
    BY <1>2
  <2>2. trafoStack'[1] = <<Factor(Root, 0)>>
    BY <1>2, <1>8 DEF StackInStep
  <2>3. \A k \in 1 .. L : calls'[k].node = calls[k].node
    <3>1. DOMAIN calls = 1 .. L
      BY Element DEF CallsOK
    <3> QED  BY <1>1, <3>1 DEF Moved
  <2>4. calls'[L + 1].node = n
    BY <1>1 DEF Moved
  <2>5. UNCHANGED <<days, elapsed>>
    BY DEF Enter
  <2>6. ASSUME NEW k \in 2 .. L + 1
        PROVE  trafoStack'[k] = Append(trafoStack'[k - 1], Factor(calls'[k].node, elapsed - days))
    <3>1. CASE k = L + 1
      <4>1. k - 1 = L /\ L \in 1 .. L
        BY <1>2, <3>1
      <4> QED  BY <1>8, <2>4, <3>1, <4>1
    <3>2. CASE k \in 2 .. L
      <4>1. k \in 1 .. L /\ k - 1 \in 1 .. L
        BY <1>2, <3>2
      <4>2. trafoStack[k] = Append(trafoStack[k - 1], Factor(calls[k].node, elapsed - days))
        BY <3>2 DEF StackInStep
      <4> QED  BY <1>8, <2>3, <4>1, <4>2
    <3> QED  BY <1>2, <2>6, <3>1, <3>2
  <2> QED  BY <1>2, <1>8, <2>1, <2>2, <2>5, <2>6 DEF StackInStep
<1> QED  BY <1>2, <1>8, <1>9 DEF Matrices, F

\* A call that returns pops its matrix; the root's stays.
LEMMA ReturnStack ==
  ASSUME CallsOK, StackInStep, trafoStack \in Matrices, Return,
         NEW L \in Nat, L = Len(calls)
  PROVE  /\ StackInStep' /\ trafoStack' \in Matrices
         /\ \A k \in 1 .. L - 1 : trafoStack'[k] = trafoStack[k]
<1>1. /\ L \in Nat \ {0} /\ L \in DOMAIN calls /\ DOMAIN calls = 1 .. L
      /\ Len(calls') = L - 1 /\ \A k \in DOMAIN calls' : calls'[k] = calls[k]
      /\ DOMAIN calls' = 1 .. L - 1
  BY Returned, Element DEF CallsOK
<1>2. Len(trafoStack) = L /\ calls # <<>>
  BY DEF StackInStep, Return
<1>3. calls[L].node = Scene <=> L = 1
  BY <1>1, SceneAssumption DEF CallsOK, CallsDescend
<1>4. UNCHANGED <<days, elapsed>>
  BY DEF Return
<1>5. CASE L = 1
  <2>1. trafoStack' = trafoStack /\ Len(calls') = 0 /\ calls' = <<>>
    BY <1>3, <1>5 DEF Return
  <2> QED  BY <1>2, <1>5, <2>1 DEF StackInStep
<1>6. CASE L # 1
  <2> DEFINE M == Seq([node : Nodes, days : Int])
  <2>1. trafoStack' = SubSeq(trafoStack, 1, L - 1)
    BY <1>2, <1>3, <1>6 DEF Return
  <2>2. trafoStack \in Seq(M) /\ trafoStack # <<>>
    BY <1>1, <1>2 DEF Matrices
  <2> HIDE DEF M
  <2>3. /\ trafoStack' \in Seq(M) /\ Len(trafoStack') = L - 1
        /\ DOMAIN trafoStack' = DOMAIN trafoStack \ {L}
        /\ \A k \in DOMAIN trafoStack' : trafoStack'[k] = trafoStack[k]
    BY <1>2, <2>1, <2>2, Shallower
  <2>4. DOMAIN trafoStack' = 1 .. L - 1
    BY <2>3, Element
  <2>5. calls' # <<>> /\ 1 \in 1 .. L - 1
    BY <1>1, <1>6
  <2>6. ASSUME NEW k \in 2 .. L - 1
        PROVE  trafoStack'[k] = Append(trafoStack'[k - 1], Factor(calls'[k].node, elapsed - days))
    <3>1. k \in 1 .. L - 1 /\ k - 1 \in 1 .. L - 1 /\ k \in 2 .. L
      BY <1>1
    <3>2. trafoStack[k] = Append(trafoStack[k - 1], Factor(calls[k].node, elapsed - days))
      BY <3>1 DEF StackInStep
    <3> QED  BY <1>1, <2>3, <2>4, <3>1, <3>2
  <2>7. trafoStack'[1] = <<Factor(Root, 0)>>
    BY <2>3, <2>4, <2>5 DEF StackInStep
  <2>8. StackInStep'
    BY <1>1, <1>4, <2>3, <2>5, <2>6, <2>7 DEF StackInStep
  <2> QED  BY <2>3, <2>4, <2>8 DEF Matrices, M
<1> QED  BY <1>5, <1>6

\* The matrix of the root, and of a node that hangs on another.
LEMMA WorldRoot ==
  ASSUME Root \in Nodes, elapsed - days \in Int
  PROVE  WorldMatrix(Root) = Append(<<Factor(Root, 0)>>, Factor(Root, elapsed - days))
<1>1. Lineage[Root] = <<Root>>
  BY LineageAssumption
<1>2. [i \in DOMAIN <<Root>> |-> Factor(<<Root>>[i], elapsed - days)]
        = <<Factor(Root, elapsed - days)>>
  OBVIOUS
<1> QED  BY <1>1, <1>2 DEF WorldMatrix

\* Sequences with the same elements are the same.
LEMMA SameSequence ==
  ASSUME NEW S, NEW s \in Seq(S), NEW t \in Seq(S), Len(s) = Len(t),
         \A i \in 1 .. Len(s) : s[i] = t[i]
  PROVE  s = t
OBVIOUS

\* Sequences of factors grow at their end.
LEMMA FactorsGrow ==
  ASSUME NEW s \in Seq(Nodes), NEW n \in Nodes, NEW t \in Int
  PROVE  [i \in DOMAIN Append(s, n) |-> Factor(Append(s, n)[i], t)]
           = Append([i \in DOMAIN s |-> Factor(s[i], t)], Factor(n, t))
<1> DEFINE a == [i \in DOMAIN Append(s, n) |-> Factor(Append(s, n)[i], t)]
           v == [i \in DOMAIN s |-> Factor(s[i], t)]
           F == [node : Nodes, days : Int]
<1>1. /\ \A i \in DOMAIN s : Factor(s[i], t) \in F
      /\ \A i \in DOMAIN Append(s, n) : Factor(Append(s, n)[i], t) \in F
  <2>1. \A i \in DOMAIN s : s[i] \in Nodes
    BY Element
  <2>2. \A i \in DOMAIN Append(s, n) : Append(s, n)[i] \in Nodes
    BY Appended
  <2> HIDE DEF F
  <2>3. \A x \in Nodes : Factor(x, t) \in F
    BY FactorTyped DEF F
  <2> QED  BY <2>1, <2>2, <2>3
<1> HIDE DEF F
<1> PICK f \in F : f = Factor(n, t)
  BY FactorTyped DEF F
<1>2. /\ DOMAIN s = 1 .. Len(s) /\ Len(s) \in Nat
      /\ DOMAIN Append(s, n) = 1 .. Len(s) + 1
      /\ \A i \in DOMAIN s : Append(s, n)[i] = s[i]
      /\ Append(s, n)[Len(s) + 1] = n
  OBVIOUS
<1>3. /\ a \in Seq(F) /\ Len(a) = Len(s) + 1 /\ a[Len(s) + 1] = f
      /\ \A i \in DOMAIN s : a[i] = Factor(s[i], t)
  BY <1>1, <1>2
<1>4. v \in Seq(F) /\ Len(v) = Len(s) /\ \A i \in DOMAIN s : v[i] = Factor(s[i], t)
  BY <1>1, <1>2
<1> HIDE DEF a, v
<1>5. /\ Append(v, f) \in Seq(F) /\ Len(Append(v, f)) = Len(s) + 1
      /\ Append(v, f)[Len(s) + 1] = f
      /\ \A i \in DOMAIN s : Append(v, f)[i] = v[i]
  BY <1>2, <1>4
<1>6. ASSUME NEW i \in 1 .. Len(s) + 1
      PROVE  a[i] = Append(v, f)[i]
  <2>1. i = Len(s) + 1 \/ i \in DOMAIN s
    BY <1>2
  <2> QED  BY <1>3, <1>4, <1>5, <2>1
<1>7. a = Append(v, f)
  BY <1>3, <1>5, <1>6, SameSequence
<1> QED  BY <1>7 DEF a, v

\* A node that hangs on m stands where m stands, turned by its own trafo.
LEMMA WorldGrows ==
  ASSUME NEW n \in Nodes, n # Root, NEW m \in Nodes, ParentOf(n) = m,
         elapsed - days \in Int
  PROVE  WorldMatrix(n) = Append(WorldMatrix(m), Factor(n, elapsed - days))
<1> PICK t \in Int : t = elapsed - days
  OBVIOUS
<1> DEFINE F == [node : Nodes, days : Int]
           V(x) == [i \in DOMAIN Lineage[x] |-> Factor(Lineage[x][i], t)]
<1>1. Lineage[m] \in Seq(Nodes) /\ Lineage[n] = Append(Lineage[m], n)
  BY LineageAssumption
<1>2. V(n) = Append(V(m), Factor(n, t))
  BY <1>1, FactorsGrow
<1>3. V(m) \in Seq(F) /\ Factor(n, t) \in F /\ Factor(Root, 0) \in F
  <2>1. \A i \in DOMAIN Lineage[m] : Factor(Lineage[m][i], t) \in F
    BY <1>1, Element, FactorTyped
  <2>2. Factor(n, t) \in F /\ Factor(Root, 0) \in F
    <3>1. Root \in Nodes /\ 0 \in Int
      BY SceneAssumption
    <3> QED  BY <3>1, FactorTyped
  <2> HIDE DEF F
  <2> QED  BY <1>1, <2>1, <2>2
<1> HIDE DEF F, V
<1>4. \A u, v : u \in Seq(F) /\ v \in F =>
        <<Factor(Root, 0)>> \o Append(u, v) = Append(<<Factor(Root, 0)>> \o u, v)
  BY <1>3
<1>5. <<Factor(Root, 0)>> \o V(n) = Append(<<Factor(Root, 0)>> \o V(m), Factor(n, t))
  BY <1>2, <1>3, <1>4
<1> QED  BY <1>5 DEF WorldMatrix, V

\* The place of a node depends on the time of the earlier frames only.
LEMMA WorldStays ==
  ASSUME UNCHANGED <<days, elapsed>>
  PROVE  \A n : WorldMatrix(n)' = WorldMatrix(n)
BY DEF WorldMatrix

\* The call of a child has the matrix of its node, because its parent's call
\* has.
LEMMA EnterInPlace ==
  ASSUME CallsOK, StackInStep, CallsInPlace, trafoStack \in Matrices,
         turned \in [Nodes -> Nat], days \in Nat, elapsed \in Nat,
         NEW n \in NextKid, Enter(n), n \in Moving => turned[n] = elapsed - days
  PROVE  /\ CallsInPlace' /\ StackInStep' /\ trafoStack' \in Matrices
         /\ n.kind # "material" => trafoStack'[Len(trafoStack')] = WorldMatrix(n)
<1>0. calls # <<>>
  BY DEF NextKid
<1> PICK L \in Nat : L = Len(calls)
  BY <1>0, TopCall
<1> PICK c \in Nat : c = calls[L].child + 1
  BY <1>0, TopCall
<1>1. /\ StackInStep' /\ trafoStack' \in Matrices
      /\ Len(trafoStack') = L + 1
      /\ trafoStack'[L + 1] = Append(trafoStack[L], Factor(n, elapsed - days))
      /\ \A k \in 1 .. L : trafoStack'[k] = trafoStack[k]
  BY EnterStack
<1>2. Moved(n, L, c)
  BY Entered
<1>3. /\ L \in Nat \ {0} /\ n \in Nodes /\ n = KidsOf(calls[L].node)[c]
      /\ L \in DOMAIN calls /\ c \in Pending(L) /\ Len(calls') = L + 1
      /\ \A k \in DOMAIN calls : calls'[k].node = calls[k].node
      /\ calls'[L + 1].node = n
  BY <1>2 DEF Moved
<1>4. c \in DOMAIN KidsOf(calls[L].node)
  BY <1>3, CallTyped
<1>5. elapsed - days \in Int
  OBVIOUS
<1>6. Shared(n) \/ trafoStack'[L + 1] = WorldMatrix(n)
  <2>1. CASE L = 1
    <3>1. calls[1].node = Scene
      BY <1>3, <2>1 DEF CallsOK, CallsDescend
    <3>2. n = Root
      BY <1>3, <1>4, <2>1, <3>1 DEF KidsOf
    <3>3. trafoStack[1] = <<Factor(Root, 0)>>
      BY DEF StackInStep
    <3> QED  BY <1>1, <1>3, <1>5, <2>1, <3>2, <3>3, WorldRoot
  <2>2. CASE L # 1
    <3> DEFINE m == calls[L].node
    <3>1. m \in Nodes /\ m # Scene
      BY <1>3, <2>2, SceneAssumption DEF CallsOK, CallsDescend
    <3>2. c \in DOMAIN Kids[m] /\ n = Kids[m][c]
      BY <1>3, <1>4, <3>1 DEF KidsOf
    <3>3. ~Shared(m)
      BY <3>2 DEF Shared
    <3>4. trafoStack[L] = WorldMatrix(m)
      <4>1. L \in 2 .. Len(calls)
        BY <1>3, <2>2
      <4> QED  BY <3>3, <4>1 DEF CallsInPlace
    <3>5. n # Root /\ (ParentOf(n) = m \/ Shared(n))
      BY <3>1, <3>2, LineageAssumption DEF Shared
    <3> HIDE DEF m
    <3> QED  BY <1>1, <1>3, <1>5, <3>1, <3>4, <3>5, WorldGrows
  <2> QED  BY <2>1, <2>2
<1>7. CallsInPlace'
  <2>1. UNCHANGED <<days, elapsed>>
    BY DEF Enter
  <2>2. ASSUME NEW k \in 2 .. L + 1
        PROVE  Shared(calls'[k].node) \/ trafoStack'[k] = WorldMatrix(calls'[k].node)
    <3>1. CASE k = L + 1
      BY <1>3, <1>6, <3>1
    <3>2. CASE k \in 2 .. L
      <4>1. k \in 1 .. L /\ DOMAIN calls = 1 .. L
        BY <3>2, Element DEF CallsOK
      <4>2. Shared(calls[k].node) \/ trafoStack[k] = WorldMatrix(calls[k].node)
        BY <3>2 DEF CallsInPlace
      <4> QED  BY <1>1, <1>3, <4>1, <4>2
    <3> QED  BY <1>3, <2>2, <3>1, <3>2
  <2>3. \A x : WorldMatrix(x)' = WorldMatrix(x)
    BY <2>1, WorldStays
  <2> QED  BY <1>3, <2>2, <2>3 DEF CallsInPlace, Shared
<1>8. n.kind # "material" => trafoStack'[Len(trafoStack')] = WorldMatrix(n)
  BY <1>1, <1>6 DEF Shared
<1> QED  BY <1>1, <1>7, <1>8

\* The calls that are left keep their matrices.
LEMMA ReturnInPlace ==
  ASSUME CallsOK, StackInStep, CallsInPlace, trafoStack \in Matrices, Return
  PROVE  CallsInPlace' /\ StackInStep' /\ trafoStack' \in Matrices
<1> PICK L \in Nat : L = Len(calls)
  BY TopCall DEF Return
<1>1. /\ StackInStep' /\ trafoStack' \in Matrices
      /\ \A k \in 1 .. L - 1 : trafoStack'[k] = trafoStack[k]
  BY ReturnStack
<1>2. Len(calls') = L - 1 /\ \A k \in DOMAIN calls' : calls'[k] = calls[k]
  BY Returned
<1>3. DOMAIN calls' = 1 .. L - 1
  BY <1>2, Returned, Element DEF CallsOK
<1>4. \A x : WorldMatrix(x)' = WorldMatrix(x)
  BY WorldStays DEF Return
<1>5. ASSUME NEW k \in 2 .. L - 1
      PROVE  Shared(calls'[k].node) \/ trafoStack'[k] = WorldMatrix(calls'[k].node)
  <2>1. k \in 1 .. L - 1 /\ k \in 2 .. Len(calls)
    OBVIOUS
  <2>2. Shared(calls[k].node) \/ trafoStack[k] = WorldMatrix(calls[k].node)
    BY <2>1 DEF CallsInPlace
  <2> QED  BY <1>1, <1>2, <1>3, <2>1, <2>2
<1>6. CallsInPlace'
  BY <1>2, <1>4, <1>5 DEF CallsInPlace, Shared
<1> QED  BY <1>1, <1>6

-----------------------------------------------------------------------------
(* The draw calls.                                                         *)

\* What a draw call remembers of the context.
LEMMA DrawCallOf ==
  ASSUME NEW g, NEW n, NEW part
  PROVE  LET d == DrawCall(g, n, part) IN
         /\ d.node = n /\ d.part = part /\ d.model = g.model /\ d.elements = g.elements
         /\ d["position"] = g["position"] /\ d["normal"] = g["normal"]
         /\ d["texCoord"] = g["texCoord"]
         /\ d.material = g.material /\ d.texture = g.unit /\ d.light = g.light
         /\ d.uploaded = uploaded
BY DEF DrawCall

\* A draw call that is in its place and reads its own buffers.
InPlace(d) ==
  /\ d.model = WorldMatrix(d.node)
  /\ \A data \in {"position", "normal", "texCoord"} :
       d[data] = Buffer(d.node, d.part, data)
  /\ d.node.kind = "sphere" => d.elements = Buffer(d.node, 0, "index")

\* A body is drawn in its place, with its own buffers.
LEMMA NodeDrawn ==
  ASSUME DrawnInPlace, GlState \subseteq DOMAIN gl, NEW n \in Nodes, DrawNode(n),
         n \in Bodies => trafoStack'[Len(trafoStack')] = WorldMatrix(n)
  PROVE  DrawnInPlace' /\ GlState \subseteq DOMAIN gl'
<1>1. \A x : WorldMatrix(x)' = WorldMatrix(x)
  BY WorldStays DEF DrawNode, Enter
<1>2. \A d \in drawn : InPlace(d)
  BY DEF DrawnInPlace, InPlace
<1> DEFINE g == Traversed
<1>3. GlState \subseteq DOMAIN g /\ g.model = trafoStack'[Len(trafoStack')]
  BY DEF Traversed, GlState
<1>4. SUFFICES (\A d \in drawn' : InPlace(d)) /\ GlState \subseteq DOMAIN gl'
  BY <1>1, <1>4 DEF DrawnInPlace, InPlace
<1> HIDE DEF g
<1>5. CASE DrawCamera(n)
  BY <1>2, <1>3, <1>5 DEF DrawCamera, g
<1>6. CASE DrawTurning(n)
  BY <1>2, <1>3, <1>6 DEF DrawTurning, g
<1>7. CASE DrawMaterial(n)
  <2>1. gl' = [g EXCEPT !.material = n] /\ drawn' = drawn
    BY <1>7 DEF DrawMaterial, g
  <2> QED  BY <1>2, <1>3, <2>1
<1>8. CASE DrawTexture(n)
  <2>1. gl' = [g EXCEPT !.unit = n] /\ drawn' = drawn
    BY <1>8 DEF DrawTexture, g
  <2> QED  BY <1>2, <1>3, <2>1
<1>9. CASE DrawLight(n)
  <2>1. gl' = [g EXCEPT !.light = g.model] /\ drawn' = drawn
    BY <1>9 DEF DrawLight, g
  <2> QED  BY <1>2, <1>3, <2>1
<1>10. CASE DrawSphere(n)
  <2>1. gl' = SphereGl(g, n) /\ drawn' = drawn \cup {DrawCall(gl', n, 0)} /\ n \in Bodies
    BY <1>10 DEF DrawSphere, g, Bodies, OfKind
  <2>2. /\ GlState \subseteq DOMAIN gl' /\ gl'.model = WorldMatrix(n)
        /\ gl'.elements = Buffer(n, 0, "index")
        /\ \A data \in {"position", "normal", "texCoord"} : gl'[data] = Buffer(n, 0, data)
    BY <1>3, <2>1, SphereBound DEF Uniforms
  <2>3. InPlace(DrawCall(gl', n, 0))
    BY <2>2, DrawCallOf DEF InPlace
  <2> QED  BY <1>2, <2>1, <2>2, <2>3
<1>11. CASE DrawCube(n)
  <2> DEFINE after == CubeSteps(g, n)
  <2>1. /\ gl' = after[12] /\ n \in Bodies /\ n.kind = "cube"
        /\ drawn' = drawn \cup { DrawCall(after[k], n, k) : k \in Parts }
    BY <1>11 DEF DrawCube, g, Bodies, OfKind
  <2>2. /\ \A k \in 0 .. 12 : GlState \subseteq DOMAIN after[k] /\ after[k].model = g.model
        /\ \A k \in 1 .. 12 : \A data \in {"position", "normal", "texCoord"} :
             after[k][data] = Buffer(n, k, data)
    BY <1>3, CubeBound DEF Uniforms
  <2> HIDE DEF after
  <2>3. GlState \subseteq DOMAIN gl'
    BY <2>1, <2>2
  <2>4. ASSUME NEW k \in Parts
        PROVE  InPlace(DrawCall(after[k], n, k))
    <3>1. k \in 1 .. 12 /\ k \in 0 .. 12
      BY DEF Parts
    <3>2. after[k].model = WorldMatrix(n)
      BY <1>3, <2>1, <2>2, <3>1
    <3>3. \A data \in {"position", "normal", "texCoord"} : after[k][data] = Buffer(n, k, data)
      BY <2>2, <3>1
    <3> QED  BY <2>1, <3>2, <3>3, DrawCallOf DEF InPlace
  <2> QED  BY <1>2, <2>1, <2>3, <2>4
<1> QED  BY <1>5, <1>6, <1>7, <1>8, <1>9, <1>10, <1>11 DEF DrawNode

\* What a node leaves in the context for those after it.
LEMMA NodeContext ==
  ASSUME GlState \subseteq DOMAIN gl, NEW n \in Nodes, DrawNode(n)
  PROVE  /\ gl'.material = IF n.kind = "material" THEN n ELSE gl.material
         /\ gl'.unit = IF n.kind = "texture" THEN n ELSE gl.unit
         /\ gl'.light = IF n.kind = "light" THEN trafoStack'[Len(trafoStack')] ELSE gl.light
         /\ uploaded' = uploaded \cup (CASE n.kind = "camera" -> {"projection"}
                                         [] n.kind = "light" -> {"light"}
                                         [] OTHER -> {})
<1> DEFINE g == Traversed
<1>1. /\ GlState \subseteq DOMAIN g /\ g.model = trafoStack'[Len(trafoStack')]
      /\ g.material = gl.material /\ g.unit = gl.unit /\ g.light = gl.light
  BY DEF Traversed, GlState
<1> HIDE DEF g
<1>2. CASE DrawCamera(n)
  BY <1>1, <1>2 DEF DrawCamera, g
<1>3. CASE DrawTurning(n)
  BY <1>1, <1>3 DEF DrawTurning, g
<1>4. CASE DrawMaterial(n)
  <2>1. gl' = [g EXCEPT !.material = n] /\ uploaded' = uploaded /\ n.kind = "material"
    BY <1>4 DEF DrawMaterial, g
  <2> QED  BY <1>1, <2>1 DEF GlState
<1>5. CASE DrawTexture(n)
  <2>1. gl' = [g EXCEPT !.unit = n] /\ uploaded' = uploaded /\ n.kind = "texture"
    BY <1>5 DEF DrawTexture, g
  <2> QED  BY <1>1, <2>1 DEF GlState
<1>6. CASE DrawLight(n)
  <2>1. gl' = [g EXCEPT !.light = g.model] /\ n.kind = "light"
        /\ uploaded' = uploaded \cup {"light"}
    BY <1>6 DEF DrawLight, g
  <2> QED  BY <1>1, <2>1 DEF GlState
<1>7. CASE DrawSphere(n)
  <2>1. gl' = SphereGl(g, n) /\ uploaded' = uploaded /\ n.kind = "sphere"
    BY <1>7 DEF DrawSphere, g
  <2> QED  BY <1>1, <2>1, SphereBound DEF Uniforms
<1>8. CASE DrawCube(n)
  <2>1. gl' = CubeSteps(g, n)[12] /\ uploaded' = uploaded /\ n.kind = "cube"
    BY <1>8 DEF DrawCube, g
  <2>2. 12 \in 0 .. 12
    OBVIOUS
  <2> QED  BY <1>1, <2>1, <2>2, CubeBound DEF Uniforms
<1> QED  BY <1>2, <1>3, <1>4, <1>5, <1>6, <1>7, <1>8 DEF DrawNode

\* A body is drawn with what the nodes before it left, and with all its parts.
LEMMA NodeCalls ==
  ASSUME GlState \subseteq DOMAIN gl, NEW n \in Nodes, DrawNode(n)
  PROVE  /\ drawn \subseteq drawn'
         /\ \A d \in drawn' \ drawn :
              /\ d.node = n /\ n \in Bodies
              /\ n.kind = "cube" => d.part \in Parts
              /\ d.material = gl.material /\ d.texture = gl.unit /\ d.light = gl.light
              /\ d.uploaded = uploaded
         /\ n \in Bodies => DrawnWhole(n)'
<1> DEFINE g == Traversed
<1>1. /\ GlState \subseteq DOMAIN g
      /\ g.material = gl.material /\ g.unit = gl.unit /\ g.light = gl.light
  BY DEF Traversed, GlState
<1> HIDE DEF g
<1>2. CASE n.kind \notin {"sphere", "cube"}
  <2>1. drawn' = drawn
    BY <1>2 DEF DrawNode, DrawCamera, DrawTurning, DrawMaterial, DrawTexture, DrawLight,
                DrawSphere, DrawCube
  <2> QED  BY <1>2, <2>1 DEF Bodies, OfKind
<1>3. CASE n.kind = "sphere"
  <2>1. gl' = SphereGl(g, n) /\ drawn' = drawn \cup {DrawCall(gl', n, 0)} /\ n \in Bodies
    BY <1>3 DEF DrawNode, DrawCamera, DrawTurning, DrawMaterial, DrawTexture, DrawLight,
                DrawSphere, DrawCube, g, Bodies, OfKind
  <2>2. gl'.material = gl.material /\ gl'.unit = gl.unit /\ gl'.light = gl.light
    BY <1>1, <2>1, SphereBound DEF Uniforms
  <2>3. DrawnWhole(n)'
    BY <1>3, <2>1, DrawCallOf DEF DrawnWhole, CallsOf
  <2> QED  BY <1>3, <2>1, <2>2, <2>3, DrawCallOf
<1>4. CASE n.kind = "cube"
  <2> DEFINE after == CubeSteps(g, n)
  <2>1. /\ drawn' = drawn \cup { DrawCall(after[k], n, k) : k \in Parts } /\ n \in Bodies
    BY <1>4 DEF DrawNode, DrawCamera, DrawTurning, DrawMaterial, DrawTexture, DrawLight,
                DrawSphere, DrawCube, g, Bodies, OfKind
  <2>2. \A k \in Parts : /\ after[k].material = gl.material /\ after[k].unit = gl.unit
                         /\ after[k].light = gl.light
    BY <1>1, CubeBound DEF Uniforms, Parts
  <2> HIDE DEF after
  <2>3. DrawnWhole(n)'
    BY <1>4, <2>1, DrawCallOf DEF DrawnWhole, CallsOf
  <2> QED  BY <1>4, <2>1, <2>2, <2>3, DrawCallOf
<1> QED  BY <1>2, <1>3, <1>4
-----------------------------------------------------------------------------
(* The steps of the page.                                                  *)

\* A node that turns is ahead of the first frame as it is of every other.
LEMMA DrawInit == Init => DrawInv
<1> SUFFICES ASSUME Init PROVE DrawInv
  OBVIOUS
<1> DEFINE F == [node : Nodes, days : Int]
<1>1. /\ calls = <<>> /\ trafoStack = << <<Factor(Root, 0)>> >>
      /\ turned = [n \in Nodes |-> 0] /\ image = [t \in Textures |-> "loading"]
      /\ lastDate = 0 /\ days = 0 /\ elapsed = 0 /\ drawn = {}
  BY DEF Init, SceneInit
<1>2. Factor(Root, 0) \in F
  <2>1. Root \in Nodes /\ 0 \in Int
    BY SceneAssumption
  <2> QED  BY <2>1, FactorTyped
<1>3. trafoStack \in Seq(Seq(F))
  <2> HIDE DEF F
  <2> QED  BY <1>1, <1>2
<1>4. GlState \subseteq DOMAIN gl
  BY DEF Init, SceneInit, GlState
<1>5. lastDate \in 0 .. MaxClock
  BY <1>1, SceneAssumption
<1>6. calls \in Seq([node : Nodes \cup {Scene}, child : Nat]) /\ DOMAIN calls = {}
      /\ Len(calls) = 0
  BY <1>1
<1>7. CallsDescend /\ StackInStep /\ PendingApart /\ CallsInPlace
  BY <1>1, <1>6 DEF CallsDescend, StackInStep, PendingApart, CallsInPlace
<1>8. TurnedInStep
  <2>1. Moving \subseteq Nodes
    BY SceneAssumption DEF OfKind
  <2> QED  BY <1>1, <1>6, <2>1 DEF TurnedInStep, ToCome
<1>9. DrawnInPlace
  BY <1>1 DEF DrawnInPlace
<1>10. /\ turned \in [Nodes -> Nat]
       /\ image \in [Textures -> {"loading", "loaded", "failed"}]
       /\ days \in Nat /\ elapsed \in Nat /\ days <= elapsed
  BY <1>1
<1> QED  BY <1>3, <1>4, <1>5, <1>6, <1>7, <1>8, <1>9, <1>10 DEF DrawInv, F

\* At the start of a frame every node that turns is ahead, and all have turned
\* by the time of the frames before.
LEMMA BeginFrameInv ==
  ASSUME DrawInv, BeginFrame
  PROVE  DrawInv'
<1>1. PICK first \in lastDate .. MaxClock :
        \E second \in first .. MaxClock : days' = first - lastDate /\ lastDate' = second
  BY DEF BeginFrame
<1>2. PICK second \in first .. MaxClock : days' = first - lastDate /\ lastDate' = second
  BY <1>1
<1>3. /\ days' \in Nat /\ elapsed' \in Nat /\ days' <= elapsed'
      /\ elapsed' - days' = elapsed /\ lastDate' \in 0 .. MaxClock
  <2>1. elapsed' = elapsed + days' /\ elapsed \in Nat /\ lastDate \in 0 .. MaxClock
    BY DEF BeginFrame, DrawInv
  <2>2. MaxClock \in Nat
    BY SceneAssumption
  <2> QED  BY <1>2, <2>1, <2>2
<1>4. /\ calls = <<>> /\ calls' = <<Call(Scene, 0)>> /\ drawn' = {}
      /\ UNCHANGED <<trafoStack, turned, gl, image>>
  BY DEF BeginFrame
<1>5. /\ Len(calls') = 1 /\ DOMAIN calls' = {1} /\ calls'[1] = Call(Scene, 0)
      /\ DOMAIN calls = {} /\ Len(calls) = 0
  BY <1>4
<1>6. calls' \in Seq([node : Nodes \cup {Scene}, child : Nat])
  <2> DEFINE T == [node : Nodes \cup {Scene}, child : Nat]
  <2>1. Call(Scene, 0) \in T
    BY DEF Call
  <2> HIDE DEF T
  <2>2. <<Call(Scene, 0)>> \in Seq(T)
    BY <2>1
  <2> QED  BY <1>4, <2>2 DEF T
<1>7. CallsDescend'
  BY <1>5 DEF CallsDescend, Call
<1>8. StackInStep'
  BY <1>4, <1>5 DEF StackInStep, DrawInv
<1>9. CallsInPlace' /\ DrawnInPlace'
  BY <1>4, <1>5 DEF CallsInPlace, DrawnInPlace
<1>10. Pending(1)' = {1} /\ Ahead(1, 1)' = Below[Root]
  <2>1. KidsOf(Scene) = <<Root>> /\ Len(<<Root>>) = 1 /\ <<Root>>[1] = Root
    BY DEF KidsOf
  <2>2. calls'[1].node = Scene /\ calls'[1].child = 0
    BY <1>5 DEF Call
  <2>3. Pending(1)' = 0 + 1 .. 1
    BY <2>1, <2>2 DEF Pending
  <2>4. Ahead(1, 1)' = Below[Root]
    BY <2>1, <2>2 DEF Ahead
  <2> QED  BY <2>3, <2>4
<1>11. PendingApart'
  BY <1>5, <1>10 DEF PendingApart
<1>12. TurnedInStep'
  <2>1. ASSUME NEW n \in Moving
        PROVE  turned[n] = elapsed /\ ToCome(n)'
    <3>1. ~ToCome(n)
      BY <1>5 DEF ToCome
    <3>2. turned[n] = elapsed
      BY <3>1 DEF DrawInv, TurnedInStep
    <3>3. n \in Below[Root]
      BY TreeAssumption
    <3>4. 1 \in DOMAIN calls' /\ 1 \in Pending(1)' /\ n \in Ahead(1, 1)'
      BY <1>5, <1>10, <3>3
    <3> QED  BY <3>2, <3>4 DEF ToCome
  <2> QED  BY <1>3, <1>4, <2>1 DEF TurnedInStep
<1> QED  BY <1>3, <1>4, <1>6, <1>7, <1>8, <1>9, <1>11, <1>12 DEF DrawInv

\* What the drawing invariant says of the calls and the matrices.
LEMMA DrawInvParts ==
  ASSUME DrawInv
  PROVE  /\ CallsOK /\ StackInStep /\ TurnedInStep /\ PendingApart
         /\ CallsInPlace /\ DrawnInPlace /\ trafoStack \in Matrices
         /\ turned \in [Nodes -> Nat] /\ days \in Nat /\ elapsed \in Nat
         /\ GlState \subseteq DOMAIN gl
BY DEF DrawInv, CallsOK, Matrices

\* Visiting a node.
LEMMA DrawNodeInv ==
  ASSUME DrawInv, NEW n \in NextKid, DrawNode(n)
  PROVE  DrawInv'
<1>1. /\ CallsOK /\ StackInStep /\ TurnedInStep /\ PendingApart
      /\ CallsInPlace /\ DrawnInPlace /\ trafoStack \in Matrices
      /\ turned \in [Nodes -> Nat] /\ days \in Nat /\ elapsed \in Nat
      /\ GlState \subseteq DOMAIN gl
  BY DrawInvParts
<1>2. Enter(n)
  BY DEF DrawNode
<1>3. CallsOK' /\ n \in Nodes
  <2>0. calls # <<>>
    BY DEF NextKid
  <2> PICK L \in Nat : L = Len(calls)
    BY <1>1, <2>0, TopCall
  <2> PICK c \in Nat : c = calls[L].child + 1
    BY <1>1, <2>0, TopCall
  <2>1. Moved(n, L, c)
    BY <1>1, <1>2, Entered
  <2> QED  BY <2>1 DEF Moved
<1>4. /\ TurnedInStep' /\ PendingApart'
      /\ n \in Moving => turned[n] = elapsed - days
  BY <1>1, EnterTurns
<1>5. /\ CallsInPlace' /\ StackInStep' /\ trafoStack' \in Matrices
      /\ n \in Bodies => trafoStack'[Len(trafoStack')] = WorldMatrix(n)
  <2>1. n \in Bodies => n.kind # "material"
    BY DEF Bodies, OfKind
  <2> QED  BY <1>1, <1>2, <1>4, <2>1, EnterInPlace
<1>6. DrawnInPlace' /\ GlState \subseteq DOMAIN gl'
  BY <1>1, <1>3, <1>5, NodeDrawn
<1>7. turned' \in [Nodes -> Nat]
  <2>1. turned' = IF n \in Moving THEN [turned EXCEPT ![n] = @ + days] ELSE turned
    BY <1>3, Turns
  <2> QED  BY <1>1, <1>3, <2>1
<1>8. UNCHANGED <<image, lastDate, days, elapsed>>
  BY <1>2 DEF Enter
<1> QED  BY <1>3, <1>4, <1>5, <1>6, <1>7, <1>8 DEF DrawInv, CallsOK, Matrices

\* Returning from a node, or from the frame.
LEMMA ReturnInv ==
  ASSUME DrawInv, Return
  PROVE  DrawInv'
<1>1. /\ CallsOK /\ StackInStep /\ TurnedInStep /\ PendingApart
      /\ CallsInPlace /\ DrawnInPlace /\ trafoStack \in Matrices
  BY DrawInvParts
<1>2. CallsOK'
  <2> PICK L \in Nat : L = Len(calls)
    BY <1>1, TopCall DEF Return
  <2> QED  BY <1>1, Returned
<1>3. TurnedInStep' /\ PendingApart'
  BY <1>1, ReturnTurns
<1>4. CallsInPlace' /\ StackInStep' /\ trafoStack' \in Matrices
  BY <1>1, ReturnInPlace
<1>5. UNCHANGED <<turned, gl, image, lastDate, days, elapsed, drawn>>
  BY DEF Return
<1>6. DrawnInPlace'
  BY <1>1, <1>5, WorldStays DEF DrawnInPlace
<1> QED  BY <1>2, <1>3, <1>4, <1>5, <1>6 DEF DrawInv, CallsOK, Matrices

\* Nothing else touches the calls, the matrices, the turning and the draw calls.
LEMMA DrawingStays ==
  ASSUME DrawInv, UNCHANGED <<calls, trafoStack, turned, days, elapsed, drawn>>,
         GlState \subseteq DOMAIN gl', lastDate' \in 0 .. MaxClock,
         image' \in [Textures -> {"loading", "loaded", "failed"}]
  PROVE  DrawInv'
<1>1. CallsDescend' /\ StackInStep' /\ PendingApart'
  BY DEF DrawInv, CallsDescend, StackInStep, PendingApart, Pending, Ahead
<1>2. TurnedInStep'
  <2>1. \A n \in Moving : ToCome(n)' <=> ToCome(n)
    BY DEF ToCome, Pending, Ahead
  <2> QED  BY <2>1 DEF DrawInv, TurnedInStep
<1>3. CallsInPlace' /\ DrawnInPlace'
  BY WorldStays DEF DrawInv, CallsInPlace, DrawnInPlace, Shared
<1> QED  BY <1>1, <1>2, <1>3 DEF DrawInv

\* Every step after which the page goes on keeps the drawing in order.
LEMMA DrawNext == DrawInv /\ [Next]_vars /\ running' => DrawInv'
<1> SUFFICES ASSUME DrawInv, [Next]_vars, running' PROVE DrawInv'
  OBVIOUS
<1>1. CASE StartFrame
  BY <1>1, BeginFrameInv DEF StartFrame
<1>2. CASE AbortFrame \/ ThrowInDraw
  BY <1>2 DEF AbortFrame, ThrowInDraw
<1>3. CASE HandleInput \/ UNCHANGED vars
  <2>1. UNCHANGED <<calls, trafoStack, turned, gl, image, lastDate, days, elapsed, drawn>>
    BY <1>3 DEF HandleInput, vars, sceneVars
  <2> QED  BY <2>1, DrawingStays DEF DrawInv
<1>4. CASE DrawStep
  <2>1. CASE Return
    BY <2>1, ReturnInv
  <2>2. CASE \E n \in NextKid : DrawNode(n)
    <3>1. PICK n \in NextKid : DrawNode(n)
      BY <2>2
    <3> QED  BY <3>1, DrawNodeInv
  <2> QED  BY <1>4, <2>1, <2>2 DEF DrawStep, Draw
<1>5. CASE \E t \in Textures : ImageDone(t)
  <2>1. PICK t \in Textures : ImageLoaded(t) \/ ImageFailed(t)
    BY <1>5 DEF ImageDone
  <2>2. UNCHANGED <<calls, trafoStack, turned, lastDate, days, elapsed, drawn>>
    BY <2>1 DEF ImageLoaded, ImageFailed
  <2>3. GlState \subseteq DOMAIN gl'
    BY <2>1 DEF ImageLoaded, ImageFailed, DrawInv
  <2>4. image' \in [Textures -> {"loading", "loaded", "failed"}]
    BY <2>1 DEF ImageLoaded, ImageFailed, DrawInv
  <2> QED  BY <2>2, <2>3, <2>4, DrawingStays DEF DrawInv
<1> QED  BY <1>1, <1>2, <1>3, <1>4, <1>5 DEF Next

\* After the exception that ends the animation no call is left.
Stopped ==
  /\ calls = <<>>
  /\ turned \in [Nodes -> Nat] /\ image \in [Textures -> {"loading", "loaded", "failed"}]
  /\ lastDate \in 0 .. MaxClock /\ days \in Nat /\ elapsed \in Nat
PageInv == IF running THEN DrawInv ELSE Stopped

\* The animation ends with an exception, and is not begun again.
LEMMA PageEnds ==
  ASSUME [Next]_vars, running \in BOOLEAN, running' # running
  PROVE  running /\ (AbortFrame \/ ThrowInDraw) /\ running' = FALSE
<1>1. AbortFrame \/ ThrowInDraw
  BY DEF Next, vars, StartFrame, HandleInput, DrawStep, ImageDone
<1> QED  BY <1>1 DEF AbortFrame, ThrowInDraw

LEMMA PageNext == running \in BOOLEAN /\ PageInv /\ [Next]_vars => PageInv'
<1> SUFFICES ASSUME running \in BOOLEAN, PageInv, [Next]_vars PROVE PageInv'
  OBVIOUS
<1>1. CASE running /\ running'
  BY <1>1, DrawNext DEF PageInv
<1>2. CASE running' # running
  <2>1. running /\ DrawInv /\ (AbortFrame \/ ThrowInDraw) /\ running' = FALSE
    BY <1>2, PageEnds DEF PageInv
  <2>2. calls' = <<>> /\ UNCHANGED <<turned, image, days, elapsed>>
    BY <2>1 DEF AbortFrame, ThrowInDraw, CameraThrows
  <2>3. lastDate' \in lastDate .. MaxClock \/ lastDate' = lastDate
    BY <2>1 DEF AbortFrame, ThrowInDraw, CameraThrows
  <2>4. lastDate' \in 0 .. MaxClock
    BY <2>1, <2>3, SceneAssumption DEF DrawInv
  <2> QED  BY <2>1, <2>2, <2>4 DEF DrawInv, Stopped, PageInv
<1>3. CASE ~running /\ ~running'
  <2>1. Stopped /\ NextKid = {}
    BY <1>3 DEF PageInv, Stopped, NextKid
  <2>2. ~StartFrame /\ ~AbortFrame /\ ~ThrowInDraw /\ ~DrawStep
    BY <1>3, <2>1 DEF StartFrame, AbortFrame, ThrowInDraw, DrawStep, Draw, Return, Stopped
  <2>3. CASE \E t \in Textures : ImageDone(t)
    BY <2>1, <2>3, <1>3 DEF ImageDone, ImageLoaded, ImageFailed, Stopped, PageInv
  <2>4. CASE HandleInput \/ UNCHANGED vars
    BY <2>1, <2>4, <1>3 DEF HandleInput, vars, sceneVars, Stopped, PageInv
  <2> QED  BY <2>2, <2>3, <2>4 DEF Next
<1> QED  BY <1>1, <1>2, <1>3

LEMMA PageInvariant == Spec => [](PageInv /\ IInv)
<1>1. Init => PageInv
  BY DrawInit DEF Init, PageInv
<1>2. IInv => running \in BOOLEAN
  BY DEF IInv
<1>3. IInv /\ PageInv /\ [Next]_vars => PageInv'
  BY <1>2, PageNext
<1> QED  BY <1>1, <1>3, Invariant, PTL DEF Spec

\* What holds while the page runs, if it is known of all its frames.
LEMMA Stays ==
  ASSUME IInv, [Next]_vars, running'
  PROVE  running
BY PageEnds DEF IInv

\* No frame is at its end when the page has ended.
LEMMA NoFrameAfter ==
  ASSUME PageInv, ~running
  PROVE  ~FrameDone
<1>1. calls = <<>>
  BY DEF PageInv, Stopped
<1> QED  BY <1>1 DEF FrameDone

-----------------------------------------------------------------------------
\* As long as the page draws, a node that turns waits in one place at most,
\* and stands where the frames before this one have turned it until it is
\* visited (drawTraversal and the draw methods of Orbit and Planet).
THEOREM DrawingInvariant == Spec => [](running => DrawInv)
<1>1. PageInv => (running => DrawInv)
  BY DEF PageInv
<1> QED  BY <1>1, PageInvariant, PTL

\* Every variable of the page keeps its type.
THEOREM SolarTyped == Spec => []SolarTypeOK
<1>1. ASSUME PageInv, IInv PROVE SolarTypeOK
  <2>1. <<>> \in Seq([node : Nodes \cup {Scene}, child : Nat])
    OBVIOUS
  <2> QED  BY <1>1, <2>1 DEF PageInv, Stopped, DrawInv, IInv, InputInv, CameraFit, SolarTypeOK
<1> QED  BY <1>1, PageInvariant, PTL

\* The matrix stack follows the recursion of drawTraversal: clone, multiply,
\* push and pop fit together in every scene, until an exception ends it.
THEOREM StackSafe == Spec => []StackFollowsCalls
<1>1. PageInv => StackFollowsCalls
  BY DEF PageInv, DrawInv, StackFollowsCalls
<1> QED  BY <1>1, PageInvariant, PTL

\* In every scene, each body and each part of it is drawn from its own buffers.
THEOREM BuffersOwn == Spec => []OwnBuffers
<1>1. DrawInv => OwnBuffers
  BY DEF DrawInv, DrawnInPlace, OwnBuffers
<1>2. PageInv => OwnBuffers
  BY <1>1, NoFrameAfter DEF PageInv, OwnBuffers
<1> QED  BY <1>2, PageInvariant, PTL

\* In every scene, a frame shows all bodies at one instant.
THEOREM InstantSafe == Spec => []OneInstant
<1>1. DrawInv => OneInstant
  BY DEF DrawInv, DrawnInPlace, OneInstant
<1>2. PageInv => OneInstant
  BY <1>1, NoFrameAfter DEF PageInv, OneInstant
<1> QED  BY <1>2, PageInvariant, PTL

-----------------------------------------------------------------------------
(* What stands before a body in the scene.                                 *)

\* Where the recursion is when it visits a node.
LEMMA Visit ==
  ASSUME CallsOK, NEW n \in NextKid, DrawNode(n)
  PROVE  \E L \in Nat, c \in Nat :
           /\ Moved(n, L, c) /\ L = Len(calls) /\ c = calls[L].child + 1
           /\ DOMAIN calls = 1 .. L /\ DOMAIN calls' = 1 .. L + 1
           /\ IF L = 1 THEN n = Root
              ELSE /\ calls[L].node \in Nodes /\ c \in DOMAIN Kids[calls[L].node]
                   /\ n = Kids[calls[L].node][c]
<1>0. calls # <<>> /\ Enter(n)
  BY DEF NextKid, DrawNode
<1> PICK L \in Nat : L = Len(calls)
  BY <1>0, TopCall
<1> PICK c \in Nat : c = calls[L].child + 1
  BY <1>0, TopCall
<1>1. Moved(n, L, c)
  BY <1>0, Entered
<1>2. L \in DOMAIN calls /\ c \in Pending(L) /\ n = KidsOf(calls[L].node)[c]
      /\ Len(calls') = L + 1 /\ CallsOK'
  BY <1>1 DEF Moved
<1>3. DOMAIN calls = 1 .. L /\ DOMAIN calls' = 1 .. L + 1
  BY <1>2, Element DEF CallsOK
<1>4. c \in DOMAIN KidsOf(calls[L].node)
  BY <1>2, CallTyped
<1>5. CASE L = 1
  <2>1. calls[1].node = Scene
    BY <1>2, <1>5 DEF CallsOK, CallsDescend
  <2> QED  BY <1>1, <1>2, <1>3, <1>4, <1>5, <2>1 DEF KidsOf
<1>6. CASE L # 1
  <2>1. calls[L].node \in Nodes /\ calls[L].node # Scene
    BY <1>2, <1>6, SceneAssumption DEF CallsOK, CallsDescend
  <2> QED  BY <1>1, <1>2, <1>3, <1>4, <1>6, <2>1 DEF KidsOf
<1> QED  BY <1>5, <1>6

\* A step after which the page goes on begins a frame, visits a node, returns
\* from one, or leaves what is drawn alone, and within a frame the context too.
LEMMA StepKinds ==
  ASSUME [Next]_vars, running'
  PROVE  \/ BeginFrame
         \/ \E n \in NextKid : DrawNode(n)
         \/ Return
         \/ /\ UNCHANGED <<calls, days, elapsed, uploaded, drawn>>
            /\ calls # <<>> => gl' = gl
<1>1. CASE StartFrame
  BY <1>1 DEF StartFrame
<1>2. CASE AbortFrame \/ ThrowInDraw
  BY <1>2 DEF AbortFrame, ThrowInDraw
<1>3. CASE HandleInput \/ UNCHANGED vars
  BY <1>3 DEF HandleInput, vars, sceneVars
<1>4. CASE DrawStep
  BY <1>4 DEF DrawStep, Draw
<1>5. CASE \E t \in Textures : ImageDone(t)
  BY <1>5 DEF ImageDone, ImageLoaded, ImageFailed
<1> QED  BY <1>1, <1>2, <1>3, <1>4, <1>5 DEF Next

\* At the start of a frame only the root is ahead.
LEMMA FrameStarts ==
  ASSUME BeginFrame
  PROVE  /\ Len(calls') = 1 /\ DOMAIN calls' = {1} /\ calls'[1] = Call(Scene, 0)
         /\ Pending(1)' = {1} /\ KidsOf(calls'[1].node)[1] = Root
         /\ Ahead(1, 1)' = Below[Root] /\ drawn' = {} /\ calls' # <<>>
<1>1. calls' = <<Call(Scene, 0)>> /\ drawn' = {}
  BY DEF BeginFrame
<1>2. /\ Len(calls') = 1 /\ DOMAIN calls' = {1} /\ calls'[1] = Call(Scene, 0)
      /\ calls' # <<>>
  BY <1>1
<1>3. KidsOf(Scene) = <<Root>> /\ Len(<<Root>>) = 1 /\ <<Root>>[1] = Root
  BY DEF KidsOf
<1>4. calls'[1].node = Scene /\ calls'[1].child = 0
  BY <1>2 DEF Call
<1>5. Pending(1)' = 0 + 1 .. 1
  BY <1>3, <1>4 DEF Pending
<1>6. Ahead(1, 1)' = Below[Root]
  BY <1>3, <1>4 DEF Ahead
<1> QED  BY <1>1, <1>2, <1>3, <1>4, <1>5, <1>6

-----------------------------------------------------------------------------
(* The look of a body.                                                     *)

LEMMA HeldAfter ==
  ASSUME GlState \subseteq DOMAIN gl, NEW n \in Nodes, DrawNode(n),
         NEW part \in {"material", "texture"}
  PROVE  Held(part)' = IF n.kind = part THEN n ELSE Held(part)
BY NodeContext DEF Held

\* The calls above the node that is visited next are all in the subtree that
\* the call they stand for visits.
LEMMA NestedEnter ==
  ASSUME CallsOK, CallsNested, NEW n \in NextKid, DrawNode(n)
  PROVE  CallsNested'
<1> PICK L \in Nat, c \in Nat :
      /\ Moved(n, L, c) /\ L = Len(calls) /\ c = calls[L].child + 1
      /\ DOMAIN calls = 1 .. L /\ DOMAIN calls' = 1 .. L + 1
      /\ IF L = 1 THEN n = Root
         ELSE /\ calls[L].node \in Nodes /\ c \in DOMAIN Kids[calls[L].node]
              /\ n = Kids[calls[L].node][c]
  BY Visit
<1>1. /\ \A k \in DOMAIN calls : calls'[k].node = calls[k].node
      /\ \A k \in DOMAIN calls \ {L} : calls'[k].child = calls[k].child
      /\ calls'[L].child = c /\ calls'[L + 1].node = n
      /\ n = KidsOf(calls[L].node)[c] /\ L \in Nat \ {0}
  BY DEF Moved
<1> SUFFICES ASSUME NEW k \in 1 .. L + 1, NEW l \in 1 .. L + 1, k < l
             PROVE  Below[calls'[l].node] \subseteq Below[KidsOf(calls'[k].node)[calls'[k].child]]
  BY DEF CallsNested
<1>2. CASE l # L + 1
  <2>1. k \in DOMAIN calls \ {L} /\ l \in DOMAIN calls
    BY <1>2
  <2> QED  BY <1>1, <2>1 DEF CallsNested
<1>3. CASE l = L + 1 /\ k = L
  BY <1>1, <1>3
<1>4. CASE l = L + 1 /\ k # L
  <2>1. k \in DOMAIN calls \ {L} /\ L \in DOMAIN calls /\ k < L /\ L # 1
    BY <1>1, <1>4
  <2>2. Below[n] \subseteq Below[calls[L].node]
    BY <2>1, BelowKids
  <2>3. Below[calls[L].node] \subseteq Below[KidsOf(calls[k].node)[calls[k].child]]
    BY <2>1 DEF CallsNested
  <2> QED  BY <1>1, <1>4, <2>1, <2>2, <2>3
<1> QED  BY <1>2, <1>3, <1>4

\* A part of a look is replaced only by a child that stands where no body needs
\* the old one any more.
LEMMA HeldEnter ==
  ASSUME CallsOK, CallsNested, LooksHeld, GlState \subseteq DOMAIN gl,
         NEW n \in NextKid, DrawNode(n)
  PROVE  LooksHeld'
<1> PICK L \in Nat, c \in Nat :
      /\ Moved(n, L, c) /\ L = Len(calls) /\ c = calls[L].child + 1
      /\ DOMAIN calls = 1 .. L /\ DOMAIN calls' = 1 .. L + 1
      /\ IF L = 1 THEN n = Root
         ELSE /\ calls[L].node \in Nodes /\ c \in DOMAIN Kids[calls[L].node]
              /\ n = Kids[calls[L].node][c]
  BY Visit
<1>1. /\ \A k \in DOMAIN calls : calls'[k].node = calls[k].node
      /\ \A k \in DOMAIN calls \ {L} : calls'[k].child = calls[k].child
      /\ \A k \in DOMAIN calls \ {L} : Pending(k)' = Pending(k)
      /\ Pending(L)' = Pending(L) \ {c}
      /\ calls'[L].child = c /\ calls'[L + 1].child = 0 /\ calls'[L + 1].node = n
      /\ n \in Nodes /\ L \in Nat \ {0} /\ CallsOK'
  BY DEF Moved
<1>2. CallsNested'
  BY NestedEnter
<1>3. n \in Below[n]
  BY <1>1, BelowKids
<1> SUFFICES ASSUME NEW k \in 2 .. L + 1, NEW i \in Pending(k)',
                    Kids[calls'[k].node][i] \in Bodies,
                    NEW part \in {"material", "texture"}, NEW j \in 1 .. calls'[k].child,
                    LookAt(calls'[k].node, i, j, part)
             PROVE  Held(part)' = Looks[Kids[calls'[k].node][i]][part]
  BY DEF LooksHeld
<1> DEFINE N == calls[k].node
           look == Looks[Kids[calls'[k].node][i]][part]
<1>4. look \in OfKind({part})
  BY SceneAssumption DEF Textures
<1>5. calls'[k].child # 0
  BY <1>1
<1>6. k \in DOMAIN calls /\ k # 1 /\ calls'[k].node = N
  BY <1>1, <1>5
<1>7. N \in Nodes /\ N # Scene
  BY <1>6, SceneAssumption DEF CallsOK, CallsDescend
<1>8. i \in Nat /\ calls'[k].child \in Nat /\ calls'[k].child < i /\ i \in Pending(k)
  <2>1. calls'[k] \in [node : Nodes \cup {Scene}, child : Nat] /\ KidsOf(calls'[k].node) \in Seq(Nodes)
    <3>1. k \in DOMAIN calls'
      OBVIOUS
    <3>2. calls'[k] \in [node : Nodes \cup {Scene}, child : Nat]
      BY <1>1, <3>1, Element DEF CallsOK
    <3> QED  BY <3>2, KidsTyped
  <2>2. i \in calls'[k].child + 1 .. Len(KidsOf(calls'[k].node))
    BY DEF Pending
  <2>3. i \in Pending(k)
    BY <1>1, <1>6
  <2> QED  BY <2>1, <2>2, <2>3
<1>9. \A h \in j .. i - 1 : OfKind({part}) \cap Below[Kids[N][h]] \subseteq {look}
  BY <1>6 DEF LookAt
<1>10. Kids[N][j] = look
  BY <1>6 DEF LookAt
<1>11. calls'[k].child \in j .. i - 1
  BY <1>8
<1>12. n \in Below[Kids[N][calls'[k].child]]
  <2>1. k # L + 1 /\ k < L + 1
    BY <1>5, <1>1
  <2>2. Below[n] \subseteq Below[KidsOf(calls'[k].node)[calls'[k].child]]
    <3>1. \A l \in DOMAIN calls' : k < l =>
            Below[calls'[l].node] \subseteq Below[KidsOf(calls'[k].node)[calls'[k].child]]
      BY <1>2, <1>6 DEF CallsNested
    <3>2. L + 1 \in DOMAIN calls'
      BY <1>1
    <3> QED  BY <1>1, <2>1, <3>1, <3>2
  <2> QED  BY <1>3, <1>6, <1>7, <2>2 DEF KidsOf
<1>13. CASE n.kind = part
  <2>1. n \in OfKind({part})
    BY <1>1, <1>13 DEF OfKind
  <2>2. n = look
    BY <1>9, <1>11, <1>12, <2>1
  <2> QED  BY <1>1, <1>13, <2>2, HeldAfter
<1>14. CASE n.kind # part
  <2>1. j # c \/ k # L
    <3>1. look.kind = part
      BY <1>4 DEF OfKind
    <3>2. ASSUME j = c, k = L PROVE n = look
      BY <1>6, <1>7, <1>10, <3>2
    <3> QED  BY <1>14, <3>1, <3>2
  <2>2. j \in 1 .. calls[k].child
    <3>1. CASE k # L
      BY <1>1, <1>6, <3>1
    <3>2. CASE k = L
      <4>1. j \in 1 .. c /\ j # c /\ calls[L].child \in Nat
        BY <1>1, <1>6, <2>1, <3>2, CallTyped
      <4> QED  BY <3>2, <4>1
    <3> QED  BY <3>1, <3>2
  <2>3. Held(part) = look
    BY <1>6, <1>8, <2>2 DEF LooksHeld
  <2> QED  BY <1>1, <1>14, <2>3, HeldAfter
<1> QED  BY <1>13, <1>14

\* A body finds its look in the context.
LEMMA BodyLook ==
  ASSUME LooksPrecede, CallsOK, LooksHeld, NEW n \in NextKid, DrawNode(n), n \in Bodies
  PROVE  [material |-> gl.material, texture |-> gl.unit] = Looks[n]
<1> PICK L \in Nat, c \in Nat :
      /\ Moved(n, L, c) /\ L = Len(calls) /\ c = calls[L].child + 1
      /\ DOMAIN calls = 1 .. L /\ DOMAIN calls' = 1 .. L + 1
      /\ IF L = 1 THEN n = Root
         ELSE /\ calls[L].node \in Nodes /\ c \in DOMAIN Kids[calls[L].node]
              /\ n = Kids[calls[L].node][c]
  BY Visit
<1>1. L \in DOMAIN calls \ {1} /\ c \in Pending(L)
  BY DEF LooksPrecede, Moved
<1>2. n = Kids[calls[L].node][c] /\ calls[L].node \in Nodes /\ c \in DOMAIN Kids[calls[L].node]
  BY <1>1
<1>3. ASSUME NEW part \in {"material", "texture"}
      PROVE  Held(part) = Looks[n][part]
  <2>1. PICK j \in 1 .. c - 1 : LookAt(calls[L].node, c, j, part)
    BY <1>2 DEF LooksPrecede
  <2>2. j \in 1 .. calls[L].child
    BY <1>1, <2>1, CallTyped
  <2> QED  BY <1>1, <1>2, <2>1, <2>2 DEF LooksHeld
<1>4. Held("material") = gl.material /\ Held("texture") = gl.unit
  BY DEF Held
<1>5. Looks[n] \in [material : OfKind({"material"}), texture : Textures]
  BY SceneAssumption
<1>6. gl.material = Looks[n].material /\ gl.unit = Looks[n].texture
  BY <1>3, <1>4
<1> QED  BY <1>5, <1>6

\* Where the look of each body stands before it, it is in the context as long
\* as the body is to come.
LEMMA LookNext == LooksPrecede /\ DrawInv /\ LookInv /\ [Next]_vars /\ running' => LookInv'
<1> SUFFICES ASSUME LooksPrecede, DrawInv, LookInv, [Next]_vars, running'
             PROVE  LookInv'
  OBVIOUS
<1>1. CallsOK /\ CallsNested /\ LooksHeld /\ GlState \subseteq DOMAIN gl
  BY DrawInvParts DEF LookInv
<1>2. CASE BeginFrame
  BY <1>2, FrameStarts DEF LookInv, CallsNested, LooksHeld
<1>3. CASE \E n \in NextKid : DrawNode(n)
  <2> PICK n \in NextKid : DrawNode(n)
    BY <1>3
  <2>1. CallsNested' /\ LooksHeld' /\ n \in Nodes
    BY <1>1, NestedEnter, HeldEnter, Visit DEF Moved
  <2>2. ASSUME NEW d \in drawn'
        PROVE  [material |-> d.material, texture |-> d.texture] = Looks[d.node]
    <3>1. CASE d \in drawn
      BY <3>1 DEF LookInv
    <3>2. CASE d \notin drawn
      BY <1>1, <2>1, <3>2, NodeCalls, BodyLook
    <3> QED  BY <3>1, <3>2
  <2> QED  BY <2>1, <2>2 DEF LookInv
<1>4. CASE Return
  <2> PICK L \in Nat : L = Len(calls)
    BY <1>1, <1>4, TopCall DEF Return
  <2>1. /\ DOMAIN calls' \subseteq DOMAIN calls
        /\ \A k \in DOMAIN calls' : calls'[k] = calls[k] /\ Pending(k)' = Pending(k)
    BY <1>1, <1>4, Returned
  <2>2. UNCHANGED <<gl, drawn>>
    BY <1>4 DEF Return
  <2>3. CallsNested'
    BY <1>1, <2>1 DEF CallsNested
  <2>4. LooksHeld'
    BY <1>1, <2>1, <2>2 DEF LooksHeld, Held
  <2> QED  BY <2>2, <2>3, <2>4 DEF LookInv
<1>5. CASE /\ UNCHANGED <<calls, days, elapsed, uploaded, drawn>>
           /\ calls # <<>> => gl' = gl
  <2>1. CallsNested'
    BY <1>1, <1>5 DEF CallsNested
  <2>2. LooksHeld'
    <3>1. CASE calls = <<>>
      BY <1>5, <3>1 DEF LooksHeld
    <3>2. CASE calls # <<>>
      BY <1>1, <1>5, <3>2 DEF LooksHeld, Held, Pending
    <3> QED  BY <3>1, <3>2
  <2> QED  BY <1>5, <2>1, <2>2 DEF LookInv
<1> QED  BY <1>2, <1>3, <1>4, <1>5, StepKinds

\* In every scene where the look of a body stands before it, what is drawn
\* between, in whatever order images arrive, never shows on it.
THEOREM LookSafe ==
  ASSUME LooksPrecede
  PROVE  Spec => []OwnLook
<1>1. Init => LookInv
  BY DEF Init, SceneInit, LookInv, CallsNested, LooksHeld
<1>2. PageInv /\ (running => LookInv) => OwnLook
  BY NoFrameAfter DEF LookInv, OwnLook
<1>3. PageInv /\ IInv /\ (running => LookInv) /\ [Next]_vars => (running => LookInv)'
  BY LookNext, Stays DEF PageInv
<1> QED  BY <1>1, <1>2, <1>3, PageInvariant, PTL DEF Spec

-----------------------------------------------------------------------------
(* The light.                                                              *)

\* Nothing that needs light is drawn before the i-th child of the k-th call.
LightWaits(k, i) ==
  /\ k \in DOMAIN calls /\ i \in Pending(k) /\ Lit(KidsOf(calls[k].node)[i])
  /\ \A l \in DOMAIN calls : \A j \in Pending(l) :
       l > k \/ (l = k /\ j < i) => Unlit(KidsOf(calls[l].node)[j]) = {}

\* Until the light is set, it comes before every body that needs it.
LEMMA LightEnter ==
  ASSUME LightFirst, DrawInv, LightComes \/ LightSet, NEW n \in NextKid, DrawNode(n)
  PROVE  /\ LightComes' \/ LightSet'
         /\ n \in Bodies => CarriesLight(n) \/ LightSet
<1>0. CallsOK /\ GlState \subseteq DOMAIN gl
  BY DrawInvParts
<1> PICK L \in Nat, c \in Nat :
      /\ Moved(n, L, c) /\ L = Len(calls) /\ c = calls[L].child + 1
      /\ DOMAIN calls = 1 .. L /\ DOMAIN calls' = 1 .. L + 1
      /\ IF L = 1 THEN n = Root
         ELSE /\ calls[L].node \in Nodes /\ c \in DOMAIN Kids[calls[L].node]
              /\ n = Kids[calls[L].node][c]
  BY <1>0, Visit
<1>1. /\ L \in DOMAIN calls /\ c \in Pending(L)
      /\ n = KidsOf(calls[L].node)[c] /\ n \in Nodes
      /\ \A k \in DOMAIN calls : calls'[k].node = calls[k].node
      /\ \A k \in DOMAIN calls \ {L} : Pending(k)' = Pending(k)
      /\ Pending(L)' = Pending(L) \ {c}
      /\ calls'[L + 1].node = n /\ Pending(L + 1)' = DOMAIN Kids[n]
  BY DEF Moved
<1>2. KidsOf(n) = Kids[n] /\ Kids[n] \in Seq(Nodes)
  BY <1>1, SceneAssumption DEF KidsOf
<1>3. \A i \in Pending(L) : i \in Nat /\ (i # c => c < i)
  BY <1>0, <1>1, CallTyped DEF Pending
<1>4. \A x : WorldMatrix(x)' = WorldMatrix(x)
  BY WorldStays DEF DrawNode, Enter
<1>5. uploaded \subseteq uploaded'
  BY <1>0, <1>1, NodeContext
<1>6. n.kind = "light" => LightSet'
  <2> SUFFICES ASSUME n.kind = "light" PROVE LightSet'
    OBVIOUS
  <2>1. n \in Lights /\ "light" \in uploaded'
    BY <1>0, <1>1, NodeContext DEF Lights, OfKind
  <2>2. n \in Moving => turned[n] = elapsed - days
    BY DrawInvParts, EnterTurns
  <2>3. trafoStack'[Len(trafoStack')] = WorldMatrix(n)
    BY <2>2, DrawInvParts, EnterInPlace DEF DrawNode
  <2>4. gl'.light = WorldMatrix(n)
    BY <1>0, <1>1, <2>3, NodeContext
  <2> QED  BY <1>4, <2>1, <2>4 DEF LightSet
<1>7. CASE LightSet
  <2>1. CASE n.kind # "light"
    <3>1. gl'.light = gl.light
      BY <1>0, <1>1, <2>1, NodeContext
    <3> QED  BY <1>4, <1>5, <1>7, <3>1 DEF LightSet
  <2> QED  BY <1>6, <1>7, <2>1
<1>8. CASE LightComes
  <2> PICK k \in DOMAIN calls : \E i \in Pending(k) : LightWaits(k, i)
    BY <1>8 DEF LightComes, LightWaits
  <2> PICK i \in Pending(k) : LightWaits(k, i)
    OBVIOUS
  <2>0. k # L \/ i # c => Unlit(n) = {}
    <3> SUFFICES ASSUME k # L \/ i # c PROVE Unlit(n) = {}
      OBVIOUS
    <3>1. L > k \/ (L = k /\ c < i)
      <4>1. CASE k # L
        BY <4>1
      <4>2. CASE k = L
        BY <1>3, <4>2
      <4> QED  BY <4>1, <4>2
    <3>2. Unlit(KidsOf(calls[L].node)[c]) = {}
      BY <1>1, <3>1 DEF LightWaits
    <3> QED  BY <1>1, <3>2
  <2>1. n \in Bodies => CarriesLight(n)
    <3> SUFFICES ASSUME n \in Bodies PROVE CarriesLight(n)
      OBVIOUS
    <3>1. CASE k = L /\ i = c
      <4>1. Lit(n) /\ n \notin Lights
        BY <1>1, <3>1 DEF LightWaits, Lights, Bodies, OfKind
      <4> QED  BY <1>1, <4>1 DEF LightFirst
    <3>2. CASE k # L \/ i # c
      <4>1. Unlit(n) = {}
        BY <2>0, <3>2
      <4> QED  BY <1>1, <4>1, BelowKids DEF Unlit
    <3> QED  BY <3>1, <3>2
  <2>2. CASE n.kind # "light" /\ k = L /\ i = c
    <3>1. Lit(n) /\ n \in Nodes \ Lights
      BY <1>1, <2>2 DEF LightWaits, Lights, OfKind
    <3>2. PICK m \in DOMAIN Kids[n] :
            Lit(Kids[n][m]) /\ \A j \in 1 .. m - 1 : Unlit(Kids[n][j]) = {}
      BY <3>1 DEF LightFirst
    <3>3. L + 1 \in DOMAIN calls' /\ m \in Pending(L + 1)'
      BY <1>1, <3>2
    <3>4. ASSUME NEW l \in DOMAIN calls', NEW j \in Pending(l)',
                 l > L + 1 \/ (l = L + 1 /\ j < m)
          PROVE  Unlit(KidsOf(calls'[l].node)[j]) = {}
      <4>1. l = L + 1 /\ j \in DOMAIN Kids[n] /\ j < m
        BY <1>1, <3>4
      <4>2. j \in 1 .. m - 1
        BY <1>2, <3>2, <4>1
      <4> QED  BY <1>1, <1>2, <3>2, <4>1, <4>2
    <3>5. Lit(KidsOf(calls'[L + 1].node)[m])
      BY <1>1, <1>2, <3>2
    <3>6. LightComes'
      BY <3>3, <3>4, <3>5 DEF LightComes
    <3> QED  BY <2>1, <3>6
  <2>3. CASE n.kind # "light" /\ (k # L \/ i # c)
    <3>1. Unlit(n) = {}
      BY <2>0, <2>3
    <3>2. k \in DOMAIN calls' /\ i \in Pending(k)'
      BY <1>1, <2>3
    <3>3. Lit(KidsOf(calls'[k].node)[i])
      BY <1>1 DEF LightWaits
    <3>4. ASSUME NEW l \in DOMAIN calls', NEW j \in Pending(l)', l > k \/ (l = k /\ j < i)
          PROVE  Unlit(KidsOf(calls'[l].node)[j]) = {}
      <4>1. CASE l = L + 1
        <5>1. KidsOf(calls'[l].node)[j] = Kids[n][j] /\ j \in DOMAIN Kids[n]
          BY <1>1, <1>2, <4>1
        <5> QED  BY <1>1, <3>1, <5>1, BelowKids DEF Unlit
      <4>2. CASE l # L + 1
        <5>1. l \in DOMAIN calls /\ j \in Pending(l)
          BY <1>1, <4>2
        <5> QED  BY <1>1, <3>4, <5>1 DEF LightWaits
      <4> QED  BY <4>1, <4>2
    <3> QED  BY <2>1, <3>2, <3>3, <3>4 DEF LightComes
  <2> QED  BY <1>6, <2>1, <2>2, <2>3
<1> QED  BY <1>7, <1>8

\* Where a light comes before what needs it, no body is drawn with an old one.
LEMMA LightStep == LightFirst /\ DrawInv /\ LightInv /\ [Next]_vars /\ running' => LightInv'
<1> SUFFICES ASSUME LightFirst, DrawInv, LightInv, [Next]_vars, running'
             PROVE  LightInv'
  OBVIOUS
<1> DEFINE Fresh(d) ==
             /\ "projection" \in d.uploaded
             /\ CarriesLight(d.node) \/ \E l \in Lights :
                  "light" \in d.uploaded /\ d.light = WorldMatrix(l)
<1>0. CallsOK /\ GlState \subseteq DOMAIN gl
  BY DrawInvParts
<1>1. \A d \in drawn : Fresh(d)
  BY DEF LightInv
<1>2. CASE BeginFrame
  <2>1. LightComes'
    <3>1. 1 \in DOMAIN calls' /\ 1 \in Pending(1)' /\ Lit(KidsOf(calls'[1].node)[1])
      BY <1>2, FrameStarts DEF LightFirst
    <3>2. \A l \in DOMAIN calls' : \A j \in Pending(l)' : ~(l > 1 \/ (l = 1 /\ j < 1))
      BY <1>2, FrameStarts
    <3> QED  BY <3>1, <3>2 DEF LightComes
  <2>2. Len(calls') = 1 /\ drawn' = {}
    BY <1>2, FrameStarts
  <2>3. ~(Len(calls') > 1)
    BY <2>2
  <2> QED  BY <2>1, <2>2, <2>3 DEF LightInv
<1>3. CASE \E n \in NextKid : DrawNode(n)
  <2> PICK n \in NextKid : DrawNode(n)
    BY <1>3
  <2> PICK L \in Nat, c \in Nat :
        /\ Moved(n, L, c) /\ L = Len(calls) /\ c = calls[L].child + 1
        /\ DOMAIN calls = 1 .. L /\ DOMAIN calls' = 1 .. L + 1
        /\ IF L = 1 THEN n = Root
           ELSE /\ calls[L].node \in Nodes /\ c \in DOMAIN Kids[calls[L].node]
                /\ n = Kids[calls[L].node][c]
    BY <1>0, Visit
  <2>1. n \in Nodes /\ L \in Nat \ {0} /\ calls # <<>>
    BY DEF Moved, NextKid
  <2>2. \A x : WorldMatrix(x)' = WorldMatrix(x)
    BY WorldStays DEF DrawNode, Enter
  <2>3. LightComes \/ LightSet
    BY <2>1 DEF LightInv
  <2>4. /\ LightComes' \/ LightSet'
        /\ n \in Bodies => CarriesLight(n) \/ LightSet
    BY <2>3, LightEnter
  <2>5. L # 1 => "projection" \in uploaded
    BY <2>1 DEF LightInv
  <2>6. "projection" \in uploaded'
    <3>1. CASE L = 1
      BY <1>0, <2>1, <3>1, NodeContext DEF LightFirst
    <3>2. CASE L # 1
      BY <1>0, <2>1, <2>5, <3>2, NodeContext
    <3> QED  BY <3>1, <3>2
  <2>7. ASSUME NEW d \in drawn' \ drawn
        PROVE  Fresh(d)
    <3>1. d.node = n /\ n \in Bodies /\ d.light = gl.light /\ d.uploaded = uploaded
      BY <1>0, <2>1, NodeCalls
    <3>2. L # 1
      BY <3>1 DEF LightFirst, Bodies, OfKind
    <3> QED  BY <2>4, <2>5, <3>1, <3>2 DEF LightSet
  <2>8. \A d \in drawn' : Fresh(d)
    BY <1>1, <2>7
  <2> QED  BY <2>2, <2>4, <2>6, <2>8 DEF LightInv
<1>4. CASE Return
  <2> PICK L \in Nat : L = Len(calls)
    BY <1>0, <1>4, TopCall DEF Return
  <2>1. /\ L \in Nat \ {0} /\ Pending(L) = {} /\ DOMAIN calls' = DOMAIN calls \ {L}
        /\ Len(calls') = L - 1 /\ calls # <<>>
        /\ \A k \in DOMAIN calls' : calls'[k] = calls[k] /\ Pending(k)' = Pending(k)
    BY <1>0, <1>4, Returned DEF Return
  <2>2. UNCHANGED <<gl, drawn, uploaded, days, elapsed>>
    BY <1>4 DEF Return
  <2>3. \A x : WorldMatrix(x)' = WorldMatrix(x)
    BY <2>2, WorldStays
  <2>4. LightSet => LightSet'
    BY <2>2, <2>3 DEF LightSet
  <2>5. LightComes => LightComes'
    <3> SUFFICES ASSUME LightComes PROVE LightComes'
      OBVIOUS
    <3> PICK k \in DOMAIN calls : \E i \in Pending(k) : LightWaits(k, i)
      BY DEF LightComes, LightWaits
    <3> PICK i \in Pending(k) : LightWaits(k, i)
      OBVIOUS
    <3>1. k \in DOMAIN calls' /\ i \in Pending(k)' /\ Lit(KidsOf(calls'[k].node)[i])
      BY <2>1 DEF LightWaits
    <3>2. \A l \in DOMAIN calls' : \A j \in Pending(l)' :
            l > k \/ (l = k /\ j < i) => Unlit(KidsOf(calls'[l].node)[j]) = {}
      BY <2>1 DEF LightWaits
    <3> QED  BY <3>1, <3>2 DEF LightComes
  <2> QED  BY <1>1, <2>1, <2>2, <2>3, <2>4, <2>5 DEF LightInv
<1>5. CASE /\ UNCHANGED <<calls, days, elapsed, uploaded, drawn>>
           /\ calls # <<>> => gl' = gl
  <2>1. \A x : WorldMatrix(x)' = WorldMatrix(x)
    BY <1>5, WorldStays
  <2>2. LightComes => LightComes'
    <3>1. calls' = calls /\ \A k : Pending(k)' = Pending(k)
      BY <1>5 DEF Pending
    <3> QED  BY <3>1 DEF LightComes
  <2>3. calls # <<>> /\ LightSet => LightSet'
    BY <1>5, <2>1 DEF LightSet
  <2> QED  BY <1>1, <1>5, <2>1, <2>2, <2>3 DEF LightInv
<1> QED  BY <1>2, <1>3, <1>4, <1>5, StepKinds

\* In every scene that begins with the camera and has its light before the
\* bodies that do not carry it, each body is drawn with the camera and the
\* light of its own frame.
THEOREM LightSafe ==
  ASSUME LightFirst
  PROVE  Spec => []FreshUniforms
<1>1. Init => LightInv
  BY DEF Init, SceneInit, LightInv
<1>2. PageInv /\ (running => LightInv) => FreshUniforms
  BY NoFrameAfter DEF LightInv, FreshUniforms
<1>3. PageInv /\ IInv /\ (running => LightInv) /\ [Next]_vars => (running => LightInv)'
  BY LightStep, Stays DEF PageInv
<1> QED  BY <1>1, <1>2, <1>3, PageInvariant, PTL DEF Spec

-----------------------------------------------------------------------------
(* Every body is drawn.                                                    *)

\* A node that is to come stays so until it is visited itself.
LEMMA ComesNearer ==
  ASSUME CallsOK, NEW n \in NextKid, DrawNode(n), NEW b, b # n, ToCome(b)
  PROVE  ToCome(b)'
<1> PICK L \in Nat, c \in Nat : Moved(n, L, c)
  BY Visit
<1> PICK k \in DOMAIN calls : \E i \in Pending(k) : b \in Ahead(k, i)
  BY DEF ToCome
<1> PICK i \in Pending(k) : b \in Ahead(k, i)
  OBVIOUS
<1>1. CASE k = L /\ i = c
  <2>1. b \in Below[n] \ {n} /\ n \in Nodes
    BY <1>1 DEF Moved
  <2>2. PICK j \in DOMAIN Kids[n] : b \in Below[Kids[n][j]]
    BY <2>1, BelowKids
  <2>3. L + 1 \in DOMAIN calls' /\ j \in Pending(L + 1)' /\ b \in Ahead(L + 1, j)'
    BY <2>2 DEF Moved
  <2> QED  BY <2>3 DEF ToCome
<1>2. CASE k # L \/ i # c
  <2>1. k \in DOMAIN calls' /\ i \in Pending(k)' /\ b \in Ahead(k, i)'
    BY <1>2 DEF Moved
  <2> QED  BY <2>1 DEF ToCome
<1> QED  BY <1>1, <1>2

\* In every step of a frame, each body is drawn already or still to come.
LEMMA BodyStep == DrawInv /\ BodyInv /\ [Next]_vars /\ running' => BodyInv'
<1> SUFFICES ASSUME DrawInv, BodyInv, [Next]_vars, running'
             PROVE  BodyInv'
  OBVIOUS
<1>0. CallsOK /\ GlState \subseteq DOMAIN gl
  BY DrawInvParts
<1>1. ASSUME drawn \subseteq drawn', NEW b, DrawnWhole(b)
      PROVE  DrawnWhole(b)'
  BY <1>1 DEF DrawnWhole, CallsOf
<1>2. CASE BeginFrame
  <2>1. ASSUME NEW b \in Bodies PROVE ToCome(b)'
    <3>1. b \in Below[Root]
      BY TreeAssumption
    <3>2. 1 \in DOMAIN calls' /\ 1 \in Pending(1)' /\ b \in Ahead(1, 1)'
      BY <1>2, <3>1, FrameStarts
    <3> QED  BY <3>2 DEF ToCome
  <2> QED  BY <1>2, <2>1, FrameStarts DEF BodyInv
<1>3. CASE \E n \in NextKid : DrawNode(n)
  <2> PICK n \in NextKid : DrawNode(n)
    BY <1>3
  <2>1. n \in Nodes /\ calls # <<>>
    BY <1>0, Visit DEF Moved, NextKid
  <2>2. /\ drawn \subseteq drawn'
        /\ \A d \in drawn' \ drawn : d.node = n /\ n \in Bodies /\ (n.kind = "cube" => d.part \in Parts)
        /\ n \in Bodies => DrawnWhole(n)'
    BY <1>0, <2>1, NodeCalls
  <2>3. ASSUME NEW b \in Bodies PROVE (ToCome(b) \/ DrawnWhole(b))'
    <3>1. ToCome(b) \/ DrawnWhole(b)
      BY <2>1 DEF BodyInv
    <3>2. CASE b = n
      BY <2>2, <3>2
    <3>3. CASE b # n /\ ToCome(b)
      BY <1>0, <3>3, ComesNearer
    <3>4. CASE DrawnWhole(b)
      BY <1>1, <2>2, <3>4
    <3> QED  BY <3>1, <3>2, <3>3, <3>4
  <2>4. \A d \in drawn' : d.node \in Bodies /\ (d.node.kind = "cube" => d.part \in Parts)
    BY <2>2 DEF BodyInv
  <2> QED  BY <2>3, <2>4 DEF BodyInv
<1>4. CASE Return
  <2> PICK L \in Nat : L = Len(calls)
    BY <1>0, <1>4, TopCall DEF Return
  <2>1. /\ Pending(L) = {} /\ DOMAIN calls' = DOMAIN calls \ {L}
        /\ \A k \in DOMAIN calls' : Pending(k)' = Pending(k)
        /\ \A k \in DOMAIN calls' : \A i : Ahead(k, i)' = Ahead(k, i)
    BY <1>0, <1>4, Returned
  <2>2. drawn' = drawn /\ calls # <<>>
    BY <1>4 DEF Return
  <2>3. \A b : ToCome(b) => ToCome(b)'
    BY <2>1 DEF ToCome
  <2>4. \A b : DrawnWhole(b) => DrawnWhole(b)'
    BY <1>1, <2>2
  <2> QED  BY <2>2, <2>3, <2>4 DEF BodyInv
<1>5. CASE UNCHANGED <<calls, drawn>>
  BY <1>5 DEF BodyInv, ToCome, Pending, Ahead, DrawnWhole, CallsOf
<1> QED  BY <1>2, <1>3, <1>4, <1>5, StepKinds

\* At the end of a frame nothing is to come.
LEMMA FrameWhole ==
  ASSUME DrawInv, BodyInv, FrameDone, NEW b \in Bodies
  PROVE  DrawnWhole(b)
<1>1. CallsOK
  BY DrawInvParts
<1>2. Len(calls) = 1 /\ DOMAIN calls = {1} /\ calls # <<>>
  <2>1. Len(calls) = 1 /\ DOMAIN calls = 1 .. Len(calls)
    BY <1>1 DEF CallsOK, FrameDone
  <2> QED  BY <2>1
<1>3. calls[1].node = Scene /\ calls[1].child = 1
  BY <1>1, <1>2 DEF CallsOK, CallsDescend, FrameDone
<1>4. Pending(1) = {}
  BY <1>3 DEF Pending, KidsOf
<1>5. ~ToCome(b)
  BY <1>2, <1>4 DEF ToCome
<1> QED  BY <1>2, <1>5 DEF BodyInv

\* The buffers that a part of a cube is drawn from are those of that part.
LEMMA PartBuffers ==
  ASSUME DrawInv, BodyInv, NEW b \in Bodies, b.kind = "cube", NEW d \in CallsOf(b)
  PROVE  /\ d.part \in Parts
         /\ d.position.part = d.part /\ d.normal.part = d.part /\ d.texCoord.part = d.part
<1>1. d \in drawn /\ d.node = b
  BY DEF CallsOf
<1>2. \A data \in {"position", "normal", "texCoord"} : d[data] = Buffer(d.node, d.part, data)
  BY <1>1 DEF DrawInv, DrawnInPlace
<1>3. \A data \in {"position", "normal", "texCoord"} : d[data].part = d.part
  BY <1>2 DEF Buffer
<1>4. d.part \in Parts
  BY <1>1 DEF BodyInv
<1> QED  BY <1>3, <1>4

\* What is drawn of a body is its whole mesh.
LEMMA WholeMesh ==
  ASSUME DrawInv, BodyInv, NEW b \in Bodies, DrawnWhole(b)
  PROVE  UNION { TrianglesOf(d) : d \in CallsOf(b) }
           = IF b.kind = "sphere" THEN SphereTriangles ELSE CubeTriangles
<1>1. ASSUME NEW d \in CallsOf(b), b.kind # "sphere"
      PROVE  /\ d.part \in Parts
             /\ TrianglesOf(d) = {CubeTriangle(d.part)}
  <2>1. d \in drawn /\ d.node = b /\ b.kind = "cube"
    BY <1>1 DEF CallsOf, Bodies, OfKind
  <2>2. d.part \in Parts /\ d.position.part = d.part
    BY <1>1, <2>1, PartBuffers
  <2> QED  BY <1>1, <2>1, <2>2 DEF TrianglesOf
<1>2. CASE b.kind = "sphere"
  <2>1. CallsOf(b) # {}
    BY <1>2 DEF DrawnWhole
  <2>2. \A d \in CallsOf(b) : TrianglesOf(d) = SphereTriangles
    BY <1>2 DEF CallsOf, TrianglesOf
  <2> QED  BY <1>2, <2>1, <2>2
<1>3. CASE b.kind # "sphere"
  <2>1. \A k \in Parts : \E d \in CallsOf(b) : d.part = k
    BY <1>3 DEF DrawnWhole
  <2>2. \A d \in CallsOf(b) : d.part \in Parts /\ TrianglesOf(d) = {CubeTriangle(d.part)}
    BY <1>1, <1>3
  <2>3. ASSUME NEW t PROVE t \in UNION { TrianglesOf(d) : d \in CallsOf(b) } <=> t \in CubeTriangles
    BY <2>1, <2>2 DEF CubeTriangles
  <2> QED  BY <1>3, <2>3
<1> QED  BY <1>2, <1>3

\* Whatever the number of bands, however deep the scene: when a frame ends,
\* every sphere and cube of it has been drawn closed and facing outwards, and
\* the squares of the cubes carry an unbroken texture.
THEOREM BodiesClosed == Spec => []ClosedBodies
<1>1. Init => BodyInv
  BY DEF Init, SceneInit, BodyInv
<1>2. DrawInv /\ BodyInv => ClosedBodies
  <2> SUFFICES ASSUME DrawInv, BodyInv, FrameDone, NEW b \in Bodies
               PROVE  /\ ClosedSurface(UNION { TrianglesOf(d) : d \in CallsOf(b) })
                      /\ b.kind = "sphere" => SphereOutward
                      /\ b.kind = "cube" =>
                           /\ \A d \in CallsOf(b) : \A i \in 1 .. 3 :
                                Dot(FaceNormal(CubeTriangle(d.normal.part)),
                                    CubeTriangle(d.position.part)[i]) > 0
                           /\ \A c, d \in CallsOf(b) : \A i, j \in 1 .. 3 :
                                /\ (c.part + 1) \div 2 = (d.part + 1) \div 2
                                /\ CubeTriangle(c.position.part)[i] = CubeTriangle(d.position.part)[j]
                                => PartTexture(c.texCoord.part)[i] = PartTexture(d.texCoord.part)[j]
    BY DEF ClosedBodies
  <2>1. ClosedSurface(UNION { TrianglesOf(d) : d \in CallsOf(b) })
    BY FrameWhole, WholeMesh, SphereCloses, CubeCloses
  <2>2. SphereOutward
    BY SphereFacesOut
  <2>3. ASSUME b.kind = "cube", NEW d \in CallsOf(b), NEW i \in 1 .. 3
        PROVE  Dot(FaceNormal(CubeTriangle(d.normal.part)), CubeTriangle(d.position.part)[i]) > 0
    BY <2>3, PartBuffers, CubeOutward
  <2>4. ASSUME b.kind = "cube", NEW c \in CallsOf(b), NEW d \in CallsOf(b),
               NEW i \in 1 .. 3, NEW j \in 1 .. 3, (c.part + 1) \div 2 = (d.part + 1) \div 2,
               CubeTriangle(c.position.part)[i] = CubeTriangle(d.position.part)[j]
        PROVE  PartTexture(c.texCoord.part)[i] = PartTexture(d.texCoord.part)[j]
    <3>1. c.part \in Parts /\ d.part \in Parts
          /\ c.position.part = c.part /\ d.position.part = d.part
          /\ c.texCoord.part = c.part /\ d.texCoord.part = d.part
      BY <2>4, PartBuffers
    <3>2. CubeTriangle(c.part)[i] = CubeTriangle(d.part)[j]
      BY <2>4, <3>1
    <3>3. PartTexture(c.part)[i] = PartTexture(d.part)[j]
      BY <2>4, <3>1, <3>2, TextureWhole
    <3> QED  BY <3>1, <3>3
  <2> QED  BY <2>1, <2>2, <2>3, <2>4
<1>3. PageInv /\ (running => BodyInv) => ClosedBodies
  BY <1>2, NoFrameAfter DEF PageInv, ClosedBodies
<1>4. PageInv /\ IInv /\ (running => BodyInv) /\ [Next]_vars => (running => BodyInv)'
  BY BodyStep, Stays DEF PageInv
<1> QED  BY <1>1, <1>3, <1>4, PageInvariant, PTL DEF Spec

-----------------------------------------------------------------------------
(* The scene of index.ts, for every choice of planets.                     *)

OnPage == Nodes = SceneNodes /\ Root = Camera /\ Kids = Children /\ Looks = Look

LEMMA PageKinds ==
  /\ Camera.kind = "camera" /\ Light.kind = "light"
  /\ \A p : /\ Orbit(p).kind = "orbit" /\ Planet(p).kind = "planet"
            /\ Texture(p).kind = "texture" /\ Material(p).kind = "material"
            /\ Body(p).kind = IF p = "moon" THEN "cube" ELSE "sphere"
            /\ Orbit(p).of = p /\ Planet(p).of = p /\ Body(p).of = p
BY DEF Camera, Light, Orbit, Planet, Texture, Material, Body, Node

\* The nodes of the page.
LEMMA PageSets ==
  ASSUME OnPage, NEW n
  PROVE  n \in Nodes <=>
           \/ n \in {Camera, Light}
           \/ \E p \in Shown : n \in {Orbit(p), Planet(p), Texture(p), Body(p)}
           \/ \E p \in Shown : n = Material(ConstructedWith[p])
           \/ \E p \in Shown \cap DOMAIN SetMaterial : n = Material(SetMaterial[p])
<1> DEFINE A == UNION { {Orbit(p), Planet(p), Texture(p), Body(p)} : p \in Shown }
           B == { Material(ConstructedWith[p]) : p \in Shown }
           C == { Material(SetMaterial[p]) : p \in Shown \cap DOMAIN SetMaterial }
<1>1. Nodes = {Camera, Light} \cup A \cup B \cup C
  BY DEF OnPage, SceneNodes
<1>2. n \in A <=> \E p \in Shown : n \in {Orbit(p), Planet(p), Texture(p), Body(p)}
  OBVIOUS
<1>3. n \in B <=> \E p \in Shown : n = Material(ConstructedWith[p])
  OBVIOUS
<1>4. n \in C <=> \E p \in Shown \cap DOMAIN SetMaterial : n = Material(SetMaterial[p])
  OBVIOUS
<1> HIDE DEF A, B, C
<1> QED  BY <1>1, <1>2, <1>3, <1>4

LEMMA PageNodes ==
  ASSUME OnPage, NEW n \in Nodes
  PROVE  \/ n = Camera \/ n = Light
         \/ \E p \in Shown : n \in {Orbit(p), Planet(p), Texture(p), Body(p)}
         \/ \E name : n = Material(name)
<1>1. \/ n \in {Camera, Light}
      \/ \E p \in Shown : n \in {Orbit(p), Planet(p), Texture(p), Body(p)}
      \/ \E p \in Shown : n = Material(ConstructedWith[p])
      \/ \E p \in Shown \cap DOMAIN SetMaterial : n = Material(SetMaterial[p])
  BY PageSets
<1> QED  BY <1>1

LEMMA PageHas ==
  ASSUME OnPage
  PROVE  /\ Camera \in Nodes /\ Light \in Nodes
         /\ \A p \in Shown : /\ {Orbit(p), Planet(p), Texture(p), Body(p)} \subseteq Nodes
                             /\ Material(ConstructedWith[p]) \in Nodes
                             /\ p \in DOMAIN SetMaterial => Material(SetMaterial[p]) \in Nodes
<1>1. Camera \in Nodes /\ Light \in Nodes
  BY PageSets
<1>2. ASSUME NEW p \in Shown, NEW n \in {Orbit(p), Planet(p), Texture(p), Body(p)}
      PROVE  n \in Nodes
  <2>1. \E q \in Shown : n \in {Orbit(q), Planet(q), Texture(q), Body(q)}
    OBVIOUS
  <2> QED  BY <2>1, PageSets
<1>3. ASSUME NEW p \in Shown
      PROVE  Material(ConstructedWith[p]) \in Nodes
  <2>1. \E q \in Shown : Material(ConstructedWith[p]) = Material(ConstructedWith[q])
    OBVIOUS
  <2> QED  BY <2>1, PageSets
<1>4. ASSUME NEW p \in Shown, p \in DOMAIN SetMaterial
      PROVE  Material(SetMaterial[p]) \in Nodes
  <2>1. \E q \in Shown \cap DOMAIN SetMaterial :
          Material(SetMaterial[p]) = Material(SetMaterial[q])
    BY <1>4
  <2> QED  BY <2>1, PageSets
<1> QED  BY <1>1, <1>2, <1>3, <1>4

\* The children of the nodes of the page.
LEMMA PageKids ==
  ASSUME OnPage
  PROVE  /\ Kids[Camera] = <<Orbit("sun")>>
         /\ \A p \in Shown :
              /\ Kids[Orbit(p)] = OrbitChildren(p) /\ Kids[Planet(p)] = PlanetChildren(p)
              /\ Kids[Body(p)] = IF p = "sun" THEN <<Light>> ELSE <<>>
         /\ \A n \in Nodes : n.kind \in {"light", "texture", "material"} => Kids[n] = <<>>
<1>1. \A n \in Nodes : Kids[n] =
        CASE n = Camera -> <<Orbit("sun")>>
          [] n.kind = "orbit" -> OrbitChildren(n.of)
          [] n.kind = "planet" -> PlanetChildren(n.of)
          [] n = Body("sun") -> <<Light>>
          [] OTHER -> <<>>
  BY DEF OnPage, Children
<1>2. Kids[Camera] = <<Orbit("sun")>>
  BY <1>1, PageHas, PageKinds
<1>2a. ASSUME NEW n \in Nodes, n # Camera
      PROVE  /\ n.kind = "orbit" => Kids[n] = OrbitChildren(n.of)
             /\ n.kind = "planet" => Kids[n] = PlanetChildren(n.of)
  <2>1. n.kind \in {"orbit", "planet"} => n # Body("sun")
    BY PageKinds
  <2> QED  BY <1>1, <1>2a, <2>1
<1>3. ASSUME NEW p \in Shown
      PROVE  /\ Kids[Orbit(p)] = OrbitChildren(p) /\ Kids[Planet(p)] = PlanetChildren(p)
             /\ Kids[Body(p)] = IF p = "sun" THEN <<Light>> ELSE <<>>
  <2>1. Orbit(p) \in Nodes /\ Orbit(p) # Camera /\ Orbit(p).kind = "orbit" /\ Orbit(p).of = p
    BY PageHas, PageKinds
  <2>2. Planet(p) \in Nodes /\ Planet(p) # Camera /\ Planet(p).kind = "planet" /\ Planet(p).of = p
    BY PageHas, PageKinds
  <2>3. /\ Body(p) \in Nodes /\ Body(p) # Camera /\ Body(p).kind \notin {"orbit", "planet"}
        /\ Body(p) = Body("sun") <=> p = "sun"
    <3>1. Body(p).of = p /\ Body("sun").of = "sun"
      BY PageKinds
    <3> QED  BY <3>1, PageHas, PageKinds
  <2>4. Kids[Body(p)] = IF p = "sun" THEN <<Light>> ELSE <<>>
    BY <1>1, <2>3
  <2>5. Kids[Orbit(p)] = OrbitChildren(p)
    BY <1>2a, <2>1
  <2>6. Kids[Planet(p)] = PlanetChildren(p)
    BY <1>2a, <2>2
  <2> QED  BY <2>4, <2>5, <2>6
<1>4. ASSUME NEW n \in Nodes, n.kind \in {"light", "texture", "material"}
      PROVE  Kids[n] = <<>>
  <2>1. n # Camera /\ n # Body("sun")
    BY <1>4, PageKinds
  <2> QED  BY <1>1, <1>4, <2>1
<1> QED  BY <1>2, <1>3, <1>4

\* Nothing hangs on a leaf.
LEMMA BelowLeaf ==
  ASSUME NEW n \in Nodes, Kids[n] = <<>>
  PROVE  Below[n] = {n}
BY TreeAssumption

\* What sunOrbit, and every other orbit, is given first is its planet.
LEMMA OrbitFirst ==
  ASSUME NEW p \in Shown
  PROVE  /\ OrbitChildren(p) \in Seq({ Planet(q) : q \in Shown } \cup { Orbit(q) : q \in Shown })
         /\ OrbitChildren(p)[1] = Planet(p) /\ 1 \in DOMAIN OrbitChildren(p)
<1> DEFINE S == { Planet(q) : q \in Shown } \cup { Orbit(q) : q \in Shown }
           more == CASE p = "sun" -> OrbitsOfSun
                     [] p = "earth" /\ "moon" \in Shown -> <<Orbit("moon")>>
                     [] OTHER -> <<>>
<1>1. Planet(p) \in S /\ \A q \in Shown : Orbit(q) \in S
  OBVIOUS
<1> HIDE DEF S
<1>2. \A q : Built(q) \in Seq(S)
  BY <1>1 DEF Built
<1>3. \A s, t \in Seq(S) : s \o t \in Seq(S)
  OBVIOUS
<1>4. OrbitsOfSun \in Seq(S)
  BY <1>2, <1>3 DEF OrbitsOfSun
<1>5. more \in Seq(S)
  BY <1>1, <1>4
<1>6. OrbitChildren(p) = <<Planet(p)>> \o more
  BY DEF OrbitChildren
<1> HIDE DEF more
<1>7. <<Planet(p)>> \o more \in Seq(S) /\ (<<Planet(p)>> \o more)[1] = Planet(p)
      /\ Len(<<Planet(p)>> \o more) >= 1
  BY <1>1, <1>5
<1> QED  BY <1>6, <1>7 DEF S

\* Two sequences, one after the other.
LEMMA Joined ==
  ASSUME NEW S, NEW s \in Seq(S), NEW t \in Seq(S)
  PROVE  /\ s \o t \in Seq(S) /\ Len(s \o t) = Len(s) + Len(t)
         /\ \A i \in 1 .. Len(s) : (s \o t)[i] = s[i]
         /\ \A i \in 1 .. Len(t) : (s \o t)[Len(s) + i] = t[i]
OBVIOUS

\* A planet ends with its body, and the look of that stands before it.
LEMMA PlanetKids ==
  ASSUME NEW p \in Shown
  PROVE  LET kids == PlanetChildren(p) IN
         /\ kids[1] = Material(ConstructedWith[p]) /\ kids[2] = Texture(p)
         /\ p \in DOMAIN SetMaterial =>
              DOMAIN kids = 1 .. 4 /\ kids[3] = Material(SetMaterial[p]) /\ kids[4] = Body(p)
         /\ p \notin DOMAIN SetMaterial => DOMAIN kids = 1 .. 3 /\ kids[3] = Body(p)
<1> DEFINE first == <<Material(ConstructedWith[p]), Texture(p)>>
           later == IF p \in DOMAIN SetMaterial THEN <<Material(SetMaterial[p])>> ELSE <<>>
           S == {Material(ConstructedWith[p]), Texture(p), Material(SetMaterial[p]), Body(p)}
           both == first \o later
           all == both \o <<Body(p)>>
<1>1. /\ first \in Seq(S) /\ Len(first) = 2
      /\ first[1] = Material(ConstructedWith[p]) /\ first[2] = Texture(p)
  OBVIOUS
<1>2. /\ later \in Seq(S) /\ Len(later) = IF p \in DOMAIN SetMaterial THEN 1 ELSE 0
      /\ p \in DOMAIN SetMaterial => later[1] = Material(SetMaterial[p])
  <2>1. CASE p \in DOMAIN SetMaterial
    <3>1. later = <<Material(SetMaterial[p])>>
      BY <2>1
    <3> HIDE DEF later
    <3> QED  BY <2>1, <3>1
  <2>2. CASE p \notin DOMAIN SetMaterial
    <3>1. later = <<>>
      BY <2>2
    <3> HIDE DEF later, S
    <3> QED  BY <2>2, <3>1
  <2> QED  BY <2>1, <2>2
<1>3. <<Body(p)>> \in Seq(S) /\ Len(<<Body(p)>>) = 1 /\ <<Body(p)>>[1] = Body(p)
  OBVIOUS
<1>4. PlanetChildren(p) = all
  BY DEF PlanetChildren
<1> HIDE DEF first, later, S
<1>5. /\ both \in Seq(S) /\ Len(both) = 2 + Len(later)
      /\ \A i \in 1 .. 2 : both[i] = first[i]
      /\ \A i \in 1 .. Len(later) : both[2 + i] = later[i]
  BY <1>1, <1>2, Joined
<1> HIDE DEF both
<1>6. /\ all \in Seq(S) /\ Len(all) = Len(both) + 1
      /\ \A i \in 1 .. Len(both) : all[i] = both[i]
      /\ all[Len(both) + 1] = Body(p)
  <2>1. 1 \in 1 .. Len(<<Body(p)>>)
    BY <1>3
  <2> QED  BY <1>3, <1>5, <2>1, Joined
<1> HIDE DEF all
<1>7. all[1] = Material(ConstructedWith[p]) /\ all[2] = Texture(p)
  BY <1>1, <1>2, <1>5, <1>6
<1>8. ASSUME p \in DOMAIN SetMaterial
      PROVE  DOMAIN all = 1 .. 4 /\ all[3] = Material(SetMaterial[p]) /\ all[4] = Body(p)
  <2>1. Len(later) = 1 /\ later[1] = Material(SetMaterial[p])
    BY <1>2, <1>8
  <2>2. Len(both) = 3 /\ both[3] = later[1]
    BY <1>5, <2>1
  <2> QED  BY <1>6, <2>1, <2>2
<1>9. ASSUME p \notin DOMAIN SetMaterial
      PROVE  DOMAIN all = 1 .. 3 /\ all[3] = Body(p)
  BY <1>2, <1>5, <1>6, <1>9
<1> QED  BY <1>4, <1>7, <1>8, <1>9

\* Below the orbit of a planet hang its planet and, with the earth, the moon.
LEMMA OrbitKids ==
  ASSUME NEW p \in Shown, p # "sun", NEW i \in DOMAIN OrbitChildren(p)
  PROVE  \/ OrbitChildren(p)[i] = Planet(p)
         \/ p = "earth" /\ "moon" \in Shown /\ OrbitChildren(p)[i] = Orbit("moon")
<1> DEFINE more == CASE p = "sun" -> OrbitsOfSun
                     [] p = "earth" /\ "moon" \in Shown -> <<Orbit("moon")>>
                     [] OTHER -> <<>>
           S == {Planet(p), Orbit("moon")}
<1>1. OrbitChildren(p) = <<Planet(p)>> \o more
  BY DEF OrbitChildren
<1>2. CASE p = "earth" /\ "moon" \in Shown
  <2>1. more = <<Orbit("moon")>>
    BY <1>2
  <2>2. <<Planet(p)>> \in Seq(S) /\ <<Orbit("moon")>> \in Seq(S)
    OBVIOUS
  <2>3. <<Planet(p)>> \o <<Orbit("moon")>> \in Seq(S)
    BY <2>2, Joined
  <2>4. OrbitChildren(p)[i] \in S
    <3> HIDE DEF S, more
    <3> QED  BY <1>1, <2>1, <2>3, Element
  <2> QED  BY <1>2, <2>4
<1>3. CASE ~(p = "earth" /\ "moon" \in Shown)
  <2>1. more = <<>>
    BY <1>3
  <2>2. <<Planet(p)>> \o <<>> = <<Planet(p)>> /\ DOMAIN <<Planet(p)>> = {1}
    OBVIOUS
  <2> HIDE DEF more
  <2> QED  BY <1>1, <2>1, <2>2
<1> QED  BY <1>2, <1>3

\* Below a planet of the page, besides its body, there are only leaves.
LEMMA PlanetParts ==
  ASSUME NEW p \in Shown, NEW i \in DOMAIN PlanetChildren(p)
  PROVE  LET kids == PlanetChildren(p) IN
         /\ i \in Nat \ {0}
         /\ \/ kids[i].kind \in {"material", "texture"}
            \/ kids[i] = Body(p) /\ (kids[i].kind \in {"sphere", "cube"} =>
                 i = IF p \in DOMAIN SetMaterial THEN 4 ELSE 3)
<1>1. CASE p \in DOMAIN SetMaterial
  <2>1. i \in {1, 2, 3, 4}
    BY <1>1, PlanetKids
  <2> QED  BY <1>1, <2>1, PlanetKids, PageKinds
<1>2. CASE p \notin DOMAIN SetMaterial
  <2>1. i \in {1, 2, 3}
    BY <1>2, PlanetKids
  <2> QED  BY <1>2, <2>1, PlanetKids, PageKinds
<1> QED  BY <1>1, <1>2

\* A body of the page hangs on its planet.
LEMMA PageBodies ==
  ASSUME OnPage, NEW n \in Nodes, NEW i \in DOMAIN Kids[n], Kids[n][i] \in Bodies
  PROVE  \E p \in Shown :
           /\ n = Planet(p) /\ Kids[n] = PlanetChildren(p) /\ Kids[n][i] = Body(p)
           /\ i = IF p \in DOMAIN SetMaterial THEN 4 ELSE 3
<1>1. Kids[n][i].kind \in {"sphere", "cube"}
  BY DEF Bodies, OfKind
<1>2. Kids[n] # <<>> /\ DOMAIN << >> = {}
  OBVIOUS
<1>3. n # Camera
  <2>1. DOMAIN <<Orbit("sun")>> = {1} /\ <<Orbit("sun")>>[1] = Orbit("sun")
    OBVIOUS
  <2> QED  BY <1>1, <2>1, PageKids, PageKinds
<1>4. n.kind \notin {"light", "texture", "material"}
  BY <1>2, PageKids
<1>5. PICK p \in Shown : n \in {Orbit(p), Planet(p), Body(p)}
  BY <1>3, <1>4, PageNodes, PageKinds
<1>6. n # Body(p)
  <2>1. DOMAIN <<Light>> = {1} /\ <<Light>>[1] = Light
    OBVIOUS
  <2> QED  BY <1>1, <1>2, <2>1, PageKids, PageKinds
<1>7. n # Orbit(p)
  <2> SUFFICES ASSUME n = Orbit(p) PROVE FALSE
    OBVIOUS
  <2>1. Kids[n] = OrbitChildren(p)
    BY PageKids
  <2> DEFINE S == { Planet(q) : q \in Shown } \cup { Orbit(q) : q \in Shown }
  <2>2. \A s \in S : s.kind \in {"orbit", "planet"}
    BY PageKinds
  <2>3. OrbitChildren(p) \in Seq(S)
    BY OrbitFirst
  <2> HIDE DEF S
  <2>4. Kids[n][i] \in S
    BY <2>1, <2>3, Element
  <2> QED  BY <1>1, <2>2, <2>4
<1>8. n = Planet(p) /\ Kids[n] = PlanetChildren(p)
  BY <1>5, <1>6, <1>7, PageKids
<1>9. Kids[n][i] = Body(p) /\ i = IF p \in DOMAIN SetMaterial THEN 4 ELSE 3
  BY <1>1, <1>8, PlanetParts
<1> QED  BY <1>8, <1>9

\* The material and the texture of a body are set before it, and no other
\* between.
LEMMA PageLooks == OnPage => LooksPrecede
<1> SUFFICES ASSUME OnPage PROVE LooksPrecede
  OBVIOUS
<1>1. Root \notin Bodies
  BY PageKinds DEF OnPage, Bodies, OfKind
<1> SUFFICES ASSUME NEW n \in Nodes, NEW i \in DOMAIN Kids[n], Kids[n][i] \in Bodies,
                    NEW part \in {"material", "texture"}
             PROVE  \E j \in 1 .. i - 1 : LookAt(n, i, j, part)
  BY <1>1 DEF LooksPrecede
<1> PICK p \in Shown :
      /\ n = Planet(p) /\ Kids[n] = PlanetChildren(p) /\ Kids[n][i] = Body(p)
      /\ i = IF p \in DOMAIN SetMaterial THEN 4 ELSE 3
  BY PageBodies
<1> DEFINE c == ConstructedWith[p]
           s == SetMaterial[p]
<1>2. /\ Looks[Body(p)].material = Material(IF p \in DOMAIN SetMaterial THEN s ELSE c)
      /\ Looks[Body(p)].texture = Texture(p)
  <2>1. Body(p) \in { Body(q) : q \in Shown } /\ Body(p).of = p
    BY PageKinds
  <2>2. Looks[Body(p)] = [material |-> Material(IF p \in DOMAIN SetMaterial THEN s ELSE c),
                          texture |-> Texture(p)]
    BY <2>1 DEF OnPage, Look
  <2> QED  BY <2>2
<1>3. /\ Kids[n][1] = Material(c) /\ Kids[n][2] = Texture(p)
      /\ p \in DOMAIN SetMaterial => Kids[n][3] = Material(s)
  BY PlanetKids
<1>4. \A m \in Nodes : m.kind \in {"material", "texture"} => Below[m] = {m}
  BY PageKids, BelowLeaf
<1>5. /\ Below[Texture(p)] = {Texture(p)} /\ Below[Material(c)] = {Material(c)}
      /\ p \in DOMAIN SetMaterial => Below[Material(s)] = {Material(s)}
  BY <1>4, PageHas, PageKinds
<1>6. Texture(p) \notin OfKind({"material"}) /\ \A m : Material(m) \notin OfKind({"texture"})
  BY PageKinds DEF OfKind
<1>7. CASE p \in DOMAIN SetMaterial
  <2>1. i = 4 /\ 3 \in 1 .. i - 1 /\ 2 \in 1 .. i - 1 /\ 3 .. i - 1 = {3} /\ 2 .. i - 1 = {2, 3}
    BY <1>7
  <2>2. LookAt(n, i, 3, "material")
    BY <1>2, <1>3, <1>5, <1>7, <2>1 DEF LookAt
  <2>3. LookAt(n, i, 2, "texture")
    BY <1>2, <1>3, <1>5, <1>6, <1>7, <2>1 DEF LookAt
  <2> QED  BY <2>1, <2>2, <2>3
<1>8. CASE p \notin DOMAIN SetMaterial
  <2>1. i = 3 /\ 1 \in 1 .. i - 1 /\ 2 \in 1 .. i - 1 /\ 1 .. i - 1 = {1, 2} /\ 2 .. i - 1 = {2}
    BY <1>8
  <2>2. LookAt(n, i, 1, "material")
    BY <1>2, <1>3, <1>5, <1>6, <1>8, <2>1 DEF LookAt
  <2>3. LookAt(n, i, 2, "texture")
    BY <1>2, <1>3, <1>5, <1>6, <1>8, <2>1 DEF LookAt
  <2> QED  BY <2>1, <2>2, <2>3
<1> QED  BY <1>7, <1>8

\* Only the sun's branch of the page carries the light.
LEMMA PageLit ==
  ASSUME OnPage, NEW n \in Nodes, Lit(n), n \notin Lights
  PROVE  n \in {Camera, Orbit("sun"), Planet("sun"), Body("sun")}
<1>1. ASSUME NEW m \in Lights PROVE m = Light
  BY <1>1, PageNodes, PageKinds DEF Lights, OfKind
<1>2. ASSUME NEW m \in Nodes, Lit(m), m # Light
      PROVE  \E i \in DOMAIN Kids[m] : Lit(Kids[m][i])
  <2>1. Light \in Below[m] \ {m}
    BY <1>1, <1>2 DEF Lit
  <2>2. PICK i \in DOMAIN Kids[m] : Light \in Below[Kids[m][i]]
    BY <2>1, BelowKids
  <2>3. Light \in Lights
    BY PageHas, PageKinds DEF Lights, OfKind
  <2> QED  BY <2>2, <2>3 DEF Lit
<1>3. ASSUME NEW m \in Nodes, m # Light, Kids[m] = <<>>
      PROVE  ~Lit(m)
  BY <1>2, <1>3
<1>4. ASSUME NEW p \in Shown, p # "sun"
      PROVE  ~Lit(Body(p))
  <2>1. Body(p) \in Nodes /\ Body(p) # Light /\ Kids[Body(p)] = <<>>
    BY <1>4, PageHas, PageKids, PageKinds
  <2> QED  BY <1>3, <2>1
<1>5. ASSUME NEW m \in Nodes, m.kind \in {"material", "texture"}
      PROVE  ~Lit(m)
  <2>1. m # Light /\ Kids[m] = <<>>
    BY <1>5, PageKids, PageKinds
  <2> QED  BY <1>3, <2>1
<1>6. ASSUME NEW p \in Shown, p # "sun"
      PROVE  ~Lit(Planet(p))
  <2> SUFFICES ASSUME Lit(Planet(p)) PROVE FALSE
    OBVIOUS
  <2>1. Planet(p) \in Nodes /\ Planet(p) # Light /\ Kids[Planet(p)] = PlanetChildren(p)
    BY PageHas, PageKids, PageKinds
  <2>2. PICK i \in DOMAIN PlanetChildren(p) : Lit(PlanetChildren(p)[i])
    BY <1>2, <2>1
  <2>3. PlanetChildren(p)[i] \in Nodes
    <3>1. Kids[Planet(p)] \in Seq(Nodes)
      BY <2>1, SceneAssumption
    <3> QED  BY <2>1, <2>2, <3>1, Element
  <2> QED  BY <1>4, <1>5, <1>6, <2>2, <2>3, PlanetParts
<1>7. ASSUME NEW p \in Shown, p # "sun"
      PROVE  Lit(Orbit(p)) => p = "earth" /\ "moon" \in Shown /\ Lit(Orbit("moon"))
  <2> SUFFICES ASSUME Lit(Orbit(p)) PROVE p = "earth" /\ "moon" \in Shown /\ Lit(Orbit("moon"))
    OBVIOUS
  <2>1. Orbit(p) \in Nodes /\ Orbit(p) # Light /\ Kids[Orbit(p)] = OrbitChildren(p)
    BY PageHas, PageKids, PageKinds
  <2>2. PICK i \in DOMAIN OrbitChildren(p) : Lit(OrbitChildren(p)[i])
    BY <1>2, <2>1
  <2> QED  BY <1>6, <1>7, <2>2, OrbitKids
<1>8. ASSUME NEW p \in Shown, p # "sun"
      PROVE  ~Lit(Orbit(p))
  BY <1>7, <1>8
<1>9. n # Light
  BY PageHas, PageKinds DEF Lights, OfKind
<1>10. ~\E name : n = Material(name)
  BY <1>5, PageKinds
<1>11. \A p : n # Texture(p)
  BY <1>5, PageKinds
<1>12. n = Camera \/ \E p \in Shown : n \in {Orbit(p), Planet(p), Body(p)}
  BY <1>9, <1>10, <1>11, PageNodes
<1> QED  BY <1>4, <1>6, <1>8, <1>12

\* The camera comes first, and before the light only the body that carries it.
LEMMA PageLight == OnPage => LightFirst
<1> SUFFICES ASSUME OnPage PROVE LightFirst
  OBVIOUS
<1>1. "sun" \in Shown /\ "sun" \in DOMAIN SetMaterial
  BY ShownAssumption DEF SetMaterial
<1>2. /\ {Camera, Light, Orbit("sun"), Planet("sun"), Body("sun")} \subseteq Nodes
      /\ Light \in Lights
  BY <1>1, PageHas, PageKinds DEF Lights, OfKind
<1>3. Kids[Body("sun")] = <<Light>> /\ 1 \in DOMAIN <<Light>> /\ <<Light>>[1] = Light
  BY <1>1, PageKids
<1>4. /\ Kids[Planet("sun")] = PlanetChildren("sun")
      /\ 4 \in DOMAIN Kids[Planet("sun")] /\ Kids[Planet("sun")][4] = Body("sun")
  BY <1>1, PageKids, PlanetKids
<1>5. 1 \in DOMAIN Kids[Orbit("sun")] /\ Kids[Orbit("sun")][1] = Planet("sun")
  BY <1>1, PageKids, OrbitFirst
<1>6. 1 \in DOMAIN Kids[Camera] /\ Kids[Camera][1] = Orbit("sun")
  <2>1. 1 \in DOMAIN <<Orbit("sun")>> /\ <<Orbit("sun")>>[1] = Orbit("sun")
    OBVIOUS
  <2> QED  BY <2>1, PageKids
<1>7. Light \in Below[Light] /\ Light \in Below[Body("sun")]
  BY <1>2, <1>3, BelowKids
<1>8. Light \in Below[Planet("sun")]
  BY <1>2, <1>4, <1>7, BelowKids
<1>9. Light \in Below[Orbit("sun")]
  BY <1>2, <1>5, <1>8, BelowKids
<1>10. Light \in Below[Camera]
  BY <1>2, <1>6, <1>9, BelowKids
<1>11. \A n \in {Camera, Light, Orbit("sun"), Planet("sun"), Body("sun")} : Lit(n)
  BY <1>2, <1>7, <1>8, <1>9, <1>10 DEF Lit
<1>12. Root = Camera /\ Root.kind = "camera" /\ Lit(Root)
  BY <1>11, PageKinds DEF OnPage
<1>13. CarriesLight(Body("sun"))
  <2>1. ParentOf(Light) = Body("sun")
    <3>1. Kids[Body("sun")][1] = Light /\ 1 \in DOMAIN Kids[Body("sun")]
      BY <1>3
    <3>2. Light.kind # "material"
      BY PageKinds
    <3> QED  BY <1>2, <3>1, <3>2, LineageAssumption
  <2> QED  BY <1>2, <2>1 DEF CarriesLight
<1>14. ASSUME NEW j \in 1 .. 3
       PROVE  Unlit(Kids[Planet("sun")][j]) = {}
  <2> DEFINE m == Kids[Planet("sun")][j]
  <2>1. j \in DOMAIN PlanetChildren("sun")
    BY <1>1, PlanetKids
  <2>2. m.kind \in {"material", "texture"}
    <3>1. Body("sun").kind \in {"sphere", "cube"}
      BY PageKinds
    <3>2. j # 4
      OBVIOUS
    <3> QED  BY <1>1, <1>4, <2>1, <3>1, <3>2, PlanetParts
  <2>3. m \in Nodes
    <3>1. Kids[Planet("sun")] \in Seq(Nodes)
      BY <1>2, SceneAssumption
    <3> QED  BY <1>4, <2>1, <3>1, Element
  <2>4. Below[m] = {m}
    BY <2>2, <2>3, PageKids, BelowLeaf
  <2> QED  BY <2>2, <2>4 DEF Unlit, Bodies, OfKind
<1>15. ASSUME NEW n \in Nodes \ Lights, Lit(n)
       PROVE  /\ n \in Bodies => CarriesLight(n)
              /\ \E i \in DOMAIN Kids[n] :
                   Lit(Kids[n][i]) /\ \A j \in 1 .. i - 1 : Unlit(Kids[n][j]) = {}
  <2>1. n \in {Camera, Orbit("sun"), Planet("sun"), Body("sun")}
    BY <1>15, PageLit
  <2>2. CASE n = Camera
    BY <1>6, <1>11, <2>2, PageKinds DEF Bodies, OfKind
  <2>3. CASE n = Orbit("sun")
    BY <1>5, <1>11, <2>3, PageKinds DEF Bodies, OfKind
  <2>4. CASE n = Planet("sun")
    <3>1. \A j \in 1 .. 4 - 1 : Unlit(Kids[n][j]) = {}
      BY <1>14, <2>4
    <3> QED  BY <1>4, <1>11, <2>4, <3>1, PageKinds DEF Bodies, OfKind
  <2>5. CASE n = Body("sun")
    BY <1>3, <1>11, <1>13, <2>5
  <2> QED  BY <2>1, <2>2, <2>3, <2>4, <2>5
<1> QED  BY <1>12, <1>15 DEF LightFirst

\* Whichever planets the page is built with, each body is drawn with its own
\* look, and with the camera and the light of its own frame.
THEOREM PageSafe ==
  ASSUME OnPage
  PROVE  Spec => [](OwnLook /\ FreshUniforms)
<1>1. Spec => []OwnLook
  BY LookSafe, PageLooks
<1>2. Spec => []FreshUniforms
  BY LightSafe, PageLight
<1> QED  BY <1>1, <1>2, PTL
=============================================================================
