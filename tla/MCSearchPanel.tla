--------------------------- MODULE MCSearchPanel ---------------------------
(* Words with excerpts of the pages of html/search: all_c.js for the       *)
(* letter p, all_e.js for the label, all_0.js for the empty word.  One     *)
(* filter, All, is enough to step past the last one.                       *)
EXTENDS SearchPanel

MCTexts == {"", "Search", "ps", " ps", "p s"}
MCSpaceless == [t \in MCTexts |-> IF t \in {" ps", "p s"} THEN "ps" ELSE t]
MCUnled == [t \in MCTexts |-> IF t = " ps" THEN "ps" ELSE t]
MCSections == {0}

Row(name, kids) == [name |-> name, kids |-> kids]
PageP == <<Row("pse", 0), Row("port", 2), Row("pswd", 2)>>
PageS == <<Row("str", 0)>>
PageA == <<Row("authentication_c", 0), Row("authentication_h", 0)>>

MCData == [p \in [section : MCSections, query : MCTexts] |->
             CASE p.query = "" -> PageA
               [] p.query = "Search" -> PageS
               [] OTHER -> PageP]

MCMatching ==
  { <<"", row>> : row \in {"authentication_c", "authentication_h"} }
    \cup ({"ps"} \X {"pse", "pswd"})
=============================================================================
