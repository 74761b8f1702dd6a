----------------------------- MODULE SolarScene -----------------------------
(***************************************************************************)
(* The scene that Computergrafik/src/szenegraph/index.ts builds once, when *)
(* the page is loaded.  A node is named by its class and by the planet, or *)
(* the material, it stands for; a Material object may be a child of        *)
(* several planets.                                                        *)
(***************************************************************************)
EXTENDS Naturals, Sequences

CONSTANT Shown   \* the planets that are built; all ten in the code

Planets == {"sun", "earth", "mars", "moon", "neptune", "uranus", "saturn",
            "jupiter", "venus", "mercury"}

ASSUME ShownAssumption ==
  /\ Shown \subseteq Planets
  /\ "sun" \in Shown
  /\ "moon" \in Shown => "earth" \in Shown

Node(kind, name) == [kind |-> kind, of |-> name]
Camera == Node("camera", "camera")
Light == Node("light", "light")
Orbit(p) == Node("orbit", p)
Planet(p) == Node("planet", p)
Texture(p) == Node("texture", p)
Material(name) == Node("material", name)
\* CubeNode for the moon, Sphere for all others.
Body(p) == Node(IF p = "moon" THEN "cube" ELSE "sphere", p)

-----------------------------------------------------------------------------
\* The third argument of new Planet, and the later calls of setMaterial.
ConstructedWith ==
  [p \in Planets |-> CASE p = "sun" -> "sunMaterial"
                       [] p = "earth" -> "earthMaterial"
                       [] p = "mercury" -> "silver"
                       [] OTHER -> "moonMaterial"]
SetMaterial == [sun |-> "sunMaterial", earth |-> "earthMaterial",
                mars |-> "marsMaterial", moon |-> "moonMaterial"]

\* Defective variant: the body is added before setMaterial is called.
PlanetChildrenBodyFirst(p) ==
  <<Material(ConstructedWith[p]), Texture(p), Body(p)>>
    \o (IF p \in DOMAIN SetMaterial THEN <<Material(SetMaterial[p])>> ELSE <<>>)

\* Children in the order of the constructor, setMaterial and addChild.
PlanetChildren(p) ==
  <<Material(ConstructedWith[p]), Texture(p)>>
    \o (IF p \in DOMAIN SetMaterial THEN <<Material(SetMaterial[p])>> ELSE <<>>)
    \o <<Body(p)>>

\* The orbits that sunOrbit is given, in the order of the code.
Built(p) == IF p \in Shown THEN <<Orbit(p)>> ELSE <<>>
OrbitsOfSun ==
  Built("earth") \o Built("mars") \o Built("neptune") \o Built("uranus") \o Built("venus")
    \o Built("mercury") \o Built("saturn") \o Built("jupiter")

\* Defective variant: the sun, with the light, is added last.
OrbitChildrenSunLast(p) ==
  (CASE p = "sun" -> OrbitsOfSun
     [] p = "earth" /\ "moon" \in Shown -> <<Orbit("moon")>>
     [] OTHER -> <<>>) \o <<Planet(p)>>

OrbitChildren(p) ==
  <<Planet(p)>> \o (CASE p = "sun" -> OrbitsOfSun
                      [] p = "earth" /\ "moon" \in Shown -> <<Orbit("moon")>>
                      [] OTHER -> <<>>)

SceneNodes ==
  {Camera, Light}
    \cup (UNION { {Orbit(p), Planet(p), Texture(p), Body(p)} : p \in Shown })
    \cup { Material(ConstructedWith[p]) : p \in Shown }
    \cup { Material(SetMaterial[p]) : p \in Shown \cap DOMAIN SetMaterial }

Children ==
  [n \in SceneNodes |->
     CASE n = Camera -> <<Orbit("sun")>>
       [] n.kind = "orbit" -> OrbitChildren(n.of)
       [] n.kind = "planet" -> PlanetChildren(n.of)
       [] n = Body("sun") -> <<Light>>
       [] OTHER -> <<>>]

\* sunOrbit has circulation 0; a planet always turns.
Turning == { n \in SceneNodes : n.kind \in {"orbit", "planet"} /\ n # Orbit("sun") }

\* What a body is meant to look like: its own texture, and the material set
\* last for its planet.
Look ==
  [n \in { Body(p) : p \in Shown } |->
     [material |-> Material(IF n.of \in DOMAIN SetMaterial THEN SetMaterial[n.of]
                                                           ELSE ConstructedWith[n.of]),
      texture  |-> Texture(n.of)]]
=============================================================================
