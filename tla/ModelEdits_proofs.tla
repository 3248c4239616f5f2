------------------------- MODULE ModelEdits_proofs -------------------------
(***************************************************************************)
(* The edits of the model, proved for any starting models the engine can   *)
(* read, any length of the history, any values, studies and port names,    *)
(* and any number of edits.  First what each operator makes of one         *)
(* readable model; then the invariant, over every model that is open or    *)
(* kept for undo and redo; then the four properties.                       *)
(***************************************************************************)
EXTENDS ModelEdits, FiniteSetTheorems, SequenceTheorems, WellFoundedInduction, TLAPS

LinksOK(p) == LinksType(p) /\ LinksHold(p) /\ OneSource(p)

(* The ports of a part have different names.                                *)
LEMMA PortNames ==
    ASSUME NEW p, NEW n, PartsType(p, n), NEW e \in Els(p),
           NEW x \in PortsOf(p, e), NEW y \in PortsOf(p, e), x.id = y.id
    PROVE  x = y
  <1>1. p.els[e].def \in {"part", "script", Container} /\ "part" # "script"
    BY DEF PartsType, PartRecord
  <1>2. CASE p.els[e].def = "part"
    <2>1. PortsOf(p, e) = Static("part")
      BY <1>2 DEF PortsOf, PartsType
    <2> QED BY <2>1 DEF Static
  <1>3. CASE p.els[e].def # "part"
    <2>1. PortsOf(p, e) = p.els[e].dyn
      BY <1>3 DEF PortsOf, Static
    <2> QED BY <2>1 DEF PartsType
  <1> QED BY <1>2, <1>3

(* Looking up a port of a part finds it.                                    *)
LEMMA PortIs ==
    ASSUME NEW p, NEW n, PartsType(p, n), NEW e \in Els(p), NEW port \in PortsOf(p, e)
    PROVE  <<e, port.id>> \in Ends(p) /\ Port(p, <<e, port.id>>) = port
  <1>1. \A x \in PortsOf(p, e) : x.id = port.id => x = port
    BY PortNames
  <1>2. Port(p, <<e, port.id>>) = CHOOSE x \in PortsOf(p, e) : x.id = port.id
    BY DEF Port
  <1> QED BY <1>1, <1>2 DEF Ends

(* An end of a link is a part and the name of a port of it.                  *)
LEMMA EndIs ==
    ASSUME NEW p, NEW end \in Ends(p)
    PROVE  /\ end[1] \in Els(p) /\ end = <<end[1], end[2]>>
           /\ Port(p, end) \in PortsOf(p, end[1]) /\ Port(p, end).id = end[2]
  <1>1. PICK e \in Els(p) : \E port \in PortsOf(p, e) : end = <<e, port.id>>
    BY DEF Ends
  <1>2. PICK port \in PortsOf(p, e) : end = <<e, port.id>>
    BY <1>1
  <1> QED BY <1>2 DEF Port

(* Ports of parts of one kind with the same ports of their own are the same. *)
LEMMA SamePorts ==
    ASSUME NEW p, NEW q, NEW e \in Els(p), NEW f \in Els(q), NEW i,
           q.els[f].def = p.els[e].def, q.els[f].dyn = p.els[e].dyn
    PROVE  /\ PortsOf(q, f) = PortsOf(p, e)
           /\ Port(q, <<f, i>>) = Port(p, <<e, i>>)
           /\ <<e, i>> \in Ends(p) <=> <<f, i>> \in Ends(q)
  <1>1. PortsOf(q, f) = PortsOf(p, e)
    BY DEF PortsOf
  <1>2. Port(q, <<f, i>>) = Port(p, <<e, i>>)
    BY <1>1 DEF Port
  <1>3. <<e, i>> \in Ends(p) <=> \E port \in PortsOf(p, e) : port.id = i
    BY DEF Ends
  <1>4. <<f, i>> \in Ends(q) <=> \E port \in PortsOf(q, f) : port.id = i
    BY DEF Ends
  <1> QED BY <1>1, <1>2, <1>3, <1>4

(* What feeds an input, by the link it comes through.                        *)
LEMMA SourceIs ==
    ASSUME NEW p, NEW end, NEW src
    PROVE  src \in SourcesOf(p, end) <=>
             /\ src # end /\ Port(p, src).dir = "output"
             /\ \E l \in p.wires \cup p.bus : end \in l /\ src \in l
  BY DEF SourcesOf

(* Links that are copies of the links of a model, between parts g traces to  *)
(* different parts of it, hold when those do.                               *)
LEMMA Traced ==
    ASSUME NEW p, NEW q, NEW n, NEW m, PartsType(p, n), PartsType(q, m), LinksOK(p),
           NEW L \in SUBSET Els(q), NEW g \in [L -> Els(p)],
           \A x, y \in L : g[x] = g[y] => x = y,
           \A y \in L : q.els[y].def = p.els[g[y]].def /\ q.els[y].dyn = p.els[g[y]].dyn,
           \A l \in q.wires \cup q.bus : \A end \in l :
               end = <<end[1], end[2]>> /\ end[1] \in L,
           \A l \in q.wires : Renumbered(l, g) \in p.wires,
           \A l \in q.bus : Renumbered(l, g) \in p.bus,
           \A l \in q.wires : \A a, b \in l : q.els[a[1]].home = q.els[b[1]].home
    PROVE  LinksOK(q)
  <1> DEFINE Back(end) == <<g[end[1]], end[2]>>
  <1>1. ASSUME NEW l \in q.wires \cup q.bus, NEW end \in l
        PROVE  /\ end \in Ends(q) /\ Back(end) \in Ends(p)
               /\ Back(end) \in Renumbered(l, g) /\ Renumbered(l, g) \in p.wires \cup p.bus
               /\ Port(q, end) = Port(p, Back(end))
    <2>1. end = <<end[1], end[2]>> /\ end[1] \in L
      BY <1>1
    <2>2. Back(end) \in Renumbered(l, g) /\ Renumbered(l, g) \in p.wires \cup p.bus
      BY <1>1 DEF Renumbered
    <2>3. Back(end) \in Ends(p)
      BY <2>2 DEF LinksOK, LinksType
    <2>4. end[1] \in Els(q) /\ g[end[1]] \in Els(p)
      BY <2>1
    <2>5. /\ Port(q, <<end[1], end[2]>>) = Port(p, Back(end))
          /\ Back(end) \in Ends(p) <=> <<end[1], end[2]>> \in Ends(q)
      BY <2>1, <2>4, SamePorts
    <2> QED BY <2>1, <2>2, <2>3, <2>5
  <1>2. ASSUME NEW l \in q.wires \cup q.bus, NEW k \in q.wires \cup q.bus,
               NEW x \in l, NEW y \in k, Back(x) = Back(y)
        PROVE  x = y
    <2>1. x = <<x[1], x[2]>> /\ x[1] \in L /\ y = <<y[1], y[2]>> /\ y[1] \in L
      BY <1>2
    <2>2. g[x[1]] = g[y[1]] /\ x[2] = y[2]
      BY <1>2
    <2>3. x[1] = y[1]
      BY <2>1, <2>2
    <2> QED BY <2>1, <2>2, <2>3
  <1>3. LinksType(q)
    <2> SUFFICES ASSUME NEW l \in q.wires \cup q.bus
                 PROVE  \E a, b \in Ends(q) : l = {a, b}
      BY DEF LinksType
    <2>1. Renumbered(l, g) = {Back(end) : end \in l}
      BY DEF Renumbered
    <2>2. Renumbered(l, g) \in p.wires \cup p.bus
      OBVIOUS
    <2>3. PICK c, d \in Ends(p) : Renumbered(l, g) = {c, d}
      BY <2>2 DEF LinksOK, LinksType
    <2>4. PICK a \in l : Back(a) = c
      BY <2>1, <2>3
    <2>5. PICK b \in l : Back(b) = d
      BY <2>1, <2>3
    <2>6. \A x \in l : Back(x) = c \/ Back(x) = d
      BY <2>1, <2>3
    <2> HIDE DEF Back
    <2>7. \A x \in l : x = a \/ x = b
      BY <1>2, <2>4, <2>5, <2>6
    <2>8. l = {a, b} /\ a \in Ends(q) /\ b \in Ends(q)
      BY <1>1, <2>7
    <2> QED BY <2>8
  <1>4. LinksHold(q)
    <2>1. ASSUME NEW w \in q.wires, NEW a \in w, NEW b \in w
          PROVE  Port(q, a).kind = Port(q, b).kind
      <3>1. Renumbered(w, g) \in p.wires /\ Back(a) \in Renumbered(w, g) /\ Back(b) \in Renumbered(w, g)
        BY <1>1
      <3>2. Port(p, Back(a)).kind = Port(p, Back(b)).kind
        BY <3>1 DEF LinksOK, LinksHold
      <3> QED BY <1>1, <3>2
    <2>2. ASSUME NEW l \in q.bus, NEW a \in l
          PROVE  Port(q, a).kind = "signal"
      <3>1. Renumbered(l, g) \in p.bus /\ Back(a) \in Renumbered(l, g)
        BY <1>1
      <3>2. Port(p, Back(a)).kind = "signal"
        BY <3>1 DEF LinksOK, LinksHold
      <3> QED BY <1>1, <3>2
    <2> QED BY <2>1, <2>2 DEF LinksHold
  <1>5. OneSource(q)
    <2> SUFFICES ASSUME NEW end \in Ends(q), Port(q, end).dir = "input",
                        NEW x \in SourcesOf(q, end), NEW y \in SourcesOf(q, end)
                 PROVE  x = y
      BY DEF OneSource
    <2>1. PICK l \in q.wires \cup q.bus : end \in l /\ x \in l
      BY SourceIs
    <2>2. PICK k \in q.wires \cup q.bus : end \in k /\ y \in k
      BY SourceIs
    <2>3. /\ x # end /\ Port(q, x).dir = "output"
          /\ y # end /\ Port(q, y).dir = "output"
      BY SourceIs
    <2> HIDE DEF Back
    <2>4. Back(x) # Back(end) /\ Back(y) # Back(end)
      BY <1>2, <2>1, <2>2, <2>3
    <2>5. Port(p, Back(x)).dir = "output" /\ Port(p, Back(y)).dir = "output"
      BY <1>1, <2>1, <2>2, <2>3
    <2>6. Back(end) \in Ends(p) /\ Port(p, Back(end)).dir = "input"
      BY <1>1, <2>1
    <2>7. Back(x) \in SourcesOf(p, Back(end))
      BY <1>1, <2>1, <2>4, <2>5, SourceIs
    <2>8. Back(y) \in SourcesOf(p, Back(end))
      BY <1>1, <2>2, <2>4, <2>5, SourceIs
    <2>9. Back(x) = Back(y)
      BY <2>6, <2>7, <2>8 DEF LinksOK, OneSource
    <2> QED BY <1>2, <2>1, <2>2, <2>9
  <1> QED BY <1>3, <1>4, <1>5 DEF LinksOK

(* So do some of the links, when their ports stay as they were.              *)
LEMMA LinksLeft ==
    ASSUME NEW p, NEW q, LinksOK(p), q.wires \subseteq p.wires, q.bus \subseteq p.bus,
           \A l \in q.wires \cup q.bus : \A end \in l :
               /\ end \in Ends(q) /\ Port(q, end) = Port(p, end)
               /\ q.els[end[1]].home = p.els[end[1]].home
    PROVE  LinksOK(q)
  <1>1. LinksType(q)
    <2> SUFFICES ASSUME NEW l \in q.wires \cup q.bus
                 PROVE  \E a, b \in Ends(q) : l = {a, b}
      BY DEF LinksType
    <2>1. PICK a, b \in Ends(p) : l = {a, b}
      BY DEF LinksOK, LinksType
    <2> QED BY <2>1
  <1>2. LinksHold(q)
    BY DEF LinksOK, LinksHold
  <1>3. OneSource(q)
    <2> SUFFICES ASSUME NEW end \in Ends(q), Port(q, end).dir = "input",
                        NEW x \in SourcesOf(q, end), NEW y \in SourcesOf(q, end)
                 PROVE  x = y
      BY DEF OneSource
    <2>1. PICK l \in q.wires \cup q.bus : end \in l /\ x \in l
      BY SourceIs
    <2>2. PICK k \in q.wires \cup q.bus : end \in k /\ y \in k
      BY SourceIs
    <2>3. /\ x # end /\ Port(p, x).dir = "output"
          /\ y # end /\ Port(p, y).dir = "output"
          /\ Port(p, end).dir = "input"
      BY <2>1, <2>2, SourceIs
    <2>4. l \in p.wires \cup p.bus /\ k \in p.wires \cup p.bus
      OBVIOUS
    <2>5. x \in SourcesOf(p, end) /\ y \in SourcesOf(p, end)
      BY <2>1, <2>2, <2>3, <2>4, SourceIs
    <2>6. end \in Ends(p)
      BY <2>1, <2>4 DEF LinksOK, LinksType
    <2> QED BY <2>3, <2>5, <2>6 DEF LinksOK, OneSource
  <1> QED BY <1>1, <1>2, <1>3 DEF LinksOK

(* It is enough that the parts at their ends keep kind, ports and system.    *)
LEMMA FewerLinks ==
    ASSUME NEW p, NEW q, LinksOK(p), q.wires \subseteq p.wires, q.bus \subseteq p.bus,
           \A l \in q.wires \cup q.bus : \A end \in l :
               /\ end[1] \in Els(q)
               /\ q.els[end[1]].def = p.els[end[1]].def
               /\ q.els[end[1]].dyn = p.els[end[1]].dyn
               /\ q.els[end[1]].home = p.els[end[1]].home
    PROVE  LinksOK(q)
  <1>1. ASSUME NEW l \in q.wires \cup q.bus, NEW end \in l
        PROVE  /\ end \in Ends(q) /\ Port(q, end) = Port(p, end)
               /\ q.els[end[1]].home = p.els[end[1]].home
    <2>1. end \in Ends(p)
      BY <1>1 DEF LinksOK, LinksType
    <2>2. end = <<end[1], end[2]>> /\ end[1] \in Els(p)
      BY <2>1, EndIs
    <2>3. /\ Port(q, <<end[1], end[2]>>) = Port(p, <<end[1], end[2]>>)
          /\ <<end[1], end[2]>> \in Ends(p) <=> <<end[1], end[2]>> \in Ends(q)
      BY <1>1, <2>2, SamePorts
    <2> QED BY <1>1, <2>1, <2>2, <2>3
  <1> QED BY <1>1, LinksLeft

(* Two families of links that share no port hold together.                  *)
LEMMA Joined ==
    ASSUME NEW p, NEW r, NEW q, LinksOK(p), LinksOK(r), p.els = q.els, r.els = q.els,
           q.wires = p.wires \cup r.wires, q.bus = p.bus \cup r.bus,
           \A l \in p.wires \cup p.bus : \A k \in r.wires \cup r.bus : l \cap k = {}
    PROVE  LinksOK(q)
  <1>1. Ends(q) = Ends(p) /\ Ends(q) = Ends(r)
    BY DEF Ends, PortsOf, Els
  <1>2. \A end : Port(q, end) = Port(p, end) /\ Port(q, end) = Port(r, end)
    BY DEF Port, PortsOf
  <1>3. LinksType(q)
    BY <1>1 DEF LinksOK, LinksType
  <1>4. LinksHold(q)
    BY <1>2 DEF LinksOK, LinksHold
  <1>5. OneSource(q)
    <2> SUFFICES ASSUME NEW end \in Ends(q), Port(q, end).dir = "input",
                        NEW x \in SourcesOf(q, end), NEW y \in SourcesOf(q, end)
                 PROVE  x = y
      BY DEF OneSource
    <2>1. PICK l \in q.wires \cup q.bus : end \in l /\ x \in l
      BY SourceIs
    <2>2. PICK k \in q.wires \cup q.bus : end \in k /\ y \in k
      BY SourceIs
    <2>3. /\ x # end /\ Port(q, x).dir = "output"
          /\ y # end /\ Port(q, y).dir = "output"
      BY SourceIs
    <2>4. \/ l \in p.wires \cup p.bus /\ k \in p.wires \cup p.bus
          \/ l \in r.wires \cup r.bus /\ k \in r.wires \cup r.bus
      BY <2>1, <2>2
    <2>5. CASE l \in p.wires \cup p.bus /\ k \in p.wires \cup p.bus
      <3>1. x \in SourcesOf(p, end) /\ y \in SourcesOf(p, end)
        BY <1>2, <2>1, <2>2, <2>3, <2>5, SourceIs
      <3> QED BY <1>1, <1>2, <3>1 DEF LinksOK, OneSource
    <2>6. CASE l \in r.wires \cup r.bus /\ k \in r.wires \cup r.bus
      <3>1. x \in SourcesOf(r, end) /\ y \in SourcesOf(r, end)
        BY <1>2, <2>1, <2>2, <2>3, <2>6, SourceIs
      <3> QED BY <1>1, <1>2, <3>1 DEF LinksOK, OneSource
    <2> QED BY <2>4, <2>5, <2>6
  <1> QED BY <1>3, <1>4, <1>5 DEF LinksOK

(* A signal has a direction, nothing else has.                              *)
LEMMA Directions ==
    ASSUME NEW p, NEW n, PartsType(p, n), NEW end \in Ends(p)
    PROVE  IF Port(p, end).kind = "signal" THEN Port(p, end).dir \in {"input", "output"}
           ELSE Port(p, end).dir = "both"
  <1> DEFINE part == p.els[end[1]]
             port == Port(p, end)
  <1>1. part \in PartRecord /\ port \in Static(part.def) \cup part.dyn
    BY EndIs DEF PartsType, PortsOf
  <1>2. port \in Static(part.def) => IF port.kind = "signal" THEN port.dir \in {"input", "output"}
                                     ELSE port.dir = "both"
    BY DEF Static
  <1>3. port \in part.dyn => port.kind = "signal" /\ port.dir \in {"input", "output"}
    BY <1>1 DEF PartRecord, DynamicPort
  <1> QED BY <1>1, <1>2, <1>3

(* A link the data bus may take.                                            *)
LEMMA BusAdded ==
    ASSUME NEW p, NEW q, NEW n, PartsType(p, n), LinksOK(p), NEW a \in Ends(p), NEW b \in Ends(p),
           MayLink(p, a, b), q.els = p.els, q.wires = p.wires, q.bus = p.bus \cup {{a, b}}
    PROVE  LinksOK(q)
  <1>1. Ends(q) = Ends(p)
    BY DEF Ends, PortsOf, Els
  <1>2. \A end : Port(q, end) = Port(p, end)
    BY DEF Port, PortsOf
  <1>3. LinksType(q)
    BY <1>1 DEF LinksOK, LinksType
  <1>4. LinksHold(q)
    BY <1>2 DEF LinksOK, LinksHold, MayLink
  <1>5. OneSource(q)
    <2> SUFFICES ASSUME NEW end \in Ends(q), Port(q, end).dir = "input",
                        NEW x \in SourcesOf(q, end), NEW y \in SourcesOf(q, end)
                 PROVE  x = y
      BY DEF OneSource
    <2>1. PICK l \in q.wires \cup q.bus : end \in l /\ x \in l
      BY SourceIs
    <2>2. PICK k \in q.wires \cup q.bus : end \in k /\ y \in k
      BY SourceIs
    <2>3. /\ x # end /\ Port(p, x).dir = "output"
          /\ y # end /\ Port(p, y).dir = "output"
          /\ Port(p, end).dir = "input"
      BY <1>2, SourceIs
    <2>4. \/ l \in p.wires \cup p.bus
          \/ l = {a, b}
      OBVIOUS
    <2>5. \/ k \in p.wires \cup p.bus
          \/ k = {a, b}
      OBVIOUS
    <2>6. CASE l \in p.wires \cup p.bus /\ k \in p.wires \cup p.bus
      <3>1. x \in SourcesOf(p, end) /\ y \in SourcesOf(p, end)
        BY <2>1, <2>2, <2>3, <2>6, SourceIs
      <3> QED BY <1>1, <2>3, <3>1 DEF LinksOK, OneSource
    <2>7. CASE l = {a, b} \/ k = {a, b}
      <3> DEFINE input == {e \in {a, b} : Port(p, e).dir # "output"}
      <3>1. input = {end} /\ {a, b} \ {end} \subseteq {x, y}
        BY <2>1, <2>2, <2>3, <2>7
      <3>2. SourcesOf(p, end) = {}
        <4>1. Cardinality({end}) = 1
          BY FS_Singleton
        <4> QED BY <3>1, <4>1 DEF MayLink
      <3>3. ~(l \in p.wires \cup p.bus) /\ ~(k \in p.wires \cup p.bus)
        BY <2>1, <2>2, <2>3, <3>2, SourceIs
      <3> QED BY <2>1, <2>2, <2>3, <2>4, <2>5, <3>3
    <2> QED BY <2>4, <2>5, <2>6, <2>7
  <1> QED BY <1>3, <1>4, <1>5 DEF LinksOK

(* A wire of two ports of one kind that is no signal, drawn or moved.        *)
LEMMA WireAdded ==
    ASSUME NEW p, NEW q, NEW n, PartsType(p, n), LinksOK(p), NEW a \in Ends(p), NEW b \in Ends(p),
           NEW old, Port(p, a).kind = Port(p, b).kind, Port(p, a).kind # "signal",
           p.els[a[1]].home = p.els[b[1]].home,
           q.els = p.els, q.wires = (p.wires \ old) \cup {{a, b}}, q.bus = p.bus
    PROVE  LinksOK(q)
  <1>1. Ends(q) = Ends(p)
    BY DEF Ends, PortsOf, Els
  <1>2. \A end : Port(q, end) = Port(p, end)
    BY DEF Port, PortsOf
  <1>3. LinksType(q)
    BY <1>1 DEF LinksOK, LinksType
  <1>4. LinksHold(q)
    <2>1. ASSUME NEW w \in q.wires, NEW x \in w, NEW y \in w
          PROVE  Port(q, x).kind = Port(q, y).kind /\ q.els[x[1]].home = q.els[y[1]].home
      <3>1. CASE w \in p.wires
        BY <1>2, <3>1 DEF LinksOK, LinksHold
      <3>2. CASE w = {a, b}
        BY <1>2, <3>2
      <3> QED BY <3>1, <3>2
    <2>2. \A l \in q.bus : \A end \in l : Port(q, end).kind = "signal"
      BY <1>2 DEF LinksOK, LinksHold
    <2> QED BY <2>1, <2>2 DEF LinksHold
  <1>5. OneSource(q)
    <2> SUFFICES ASSUME NEW end \in Ends(q), Port(q, end).dir = "input",
                        NEW x \in SourcesOf(q, end), NEW y \in SourcesOf(q, end)
                 PROVE  x = y
      BY DEF OneSource
    <2>1. PICK l \in q.wires \cup q.bus : end \in l /\ x \in l
      BY SourceIs
    <2>2. PICK k \in q.wires \cup q.bus : end \in k /\ y \in k
      BY SourceIs
    <2>3. /\ x # end /\ Port(p, x).dir = "output"
          /\ y # end /\ Port(p, y).dir = "output"
          /\ Port(p, end).dir = "input"
      BY <1>2, SourceIs
    <2>4. Port(p, a).dir = "both" /\ Port(p, b).dir = "both"
      BY Directions
    <2>5. l \in p.wires \cup p.bus /\ k \in p.wires \cup p.bus
      BY <2>1, <2>2, <2>3, <2>4
    <2>6. x \in SourcesOf(p, end) /\ y \in SourcesOf(p, end)
      BY <2>1, <2>2, <2>3, <2>5, SourceIs
    <2> QED BY <1>1, <2>3, <2>6 DEF LinksOK, OneSource
  <1> QED BY <1>3, <1>4, <1>5 DEF LinksOK

ModelOK(p, n) == ModelType(p, n) /\ Readable(p)

(* What the systems of a readable model are.                                *)
LEMMA SystemsAre ==
    ASSUME NEW p, NEW n \in Nat, PartsType(p, n), SystemsOwned(p)
    PROVE  /\ Systems(p) \subseteq Nat /\ Root \in Systems(p) /\ Root \notin Els(p)
           /\ \A e \in Els(p) : e \in Systems(p) <=> p.els[e].def = Container
           /\ \A e \in Els(p) : p.els[e].home \in Systems(p) /\ p.els[e].home < e
           /\ \A t \in Systems(p) \ {Root} :
                t \in Els(p) /\ p.parent[t] = p.els[t].home /\ p.parent[t] \in Systems(p)
                /\ p.parent[t] # None
  <1>1. Els(p) \subseteq Nat \ {0}
    BY DEF PartsType
  <1>2. Systems(p) = {Root} \cup {e \in Els(p) : p.els[e].def = Container}
    BY DEF SystemsOwned
  <1>3. \A e \in Els(p) : p.els[e].home \in Systems(p) /\ p.els[e].home \in 0..(e - 1)
    BY DEF SystemsOwned
  <1>4. \A t \in Systems(p) \ {Root} : p.parent[t] = p.els[t].home
    BY DEF SystemsOwned
  <1>5. Root \notin Els(p) /\ Systems(p) \subseteq Nat
    BY <1>1, <1>2 DEF Root
  <1>6. \A e \in Els(p) : p.els[e].home < e
    BY <1>1, <1>3
  <1>7. \A t \in Systems(p) \ {Root} : t \in Els(p) /\ p.parent[t] \in Systems(p)
    BY <1>2, <1>3, <1>4
  <1>8. \A t \in Systems(p) \ {Root} : p.parent[t] # None
    BY <1>5, <1>7, LimitAssumption
  <1> QED BY <1>2, <1>3, <1>4, <1>5, <1>6, <1>7, <1>8

(* The systems under a system are itself and those whose parent is under it. *)
LEMMA TreeIs ==
    ASSUME NEW p, NEW n \in Nat, PartsType(p, n), SystemsOwned(p), NEW s \in Systems(p)
    PROVE  /\ s \in Tree(p, s) /\ Tree(p, s) \subseteq Systems(p)
           /\ \A t \in Systems(p) :
                t \in Tree(p, s) <=> t = s \/ (t > s /\ p.parent[t] \in Tree(p, s))
  <1> DEFINE D == Systems(p)
             Up(t, Z) == t = s \/ (t > s /\ p.parent[t] # None /\ p.parent[t] \in Z)
             Eq(f) == f = [t \in D \cup {s} |-> t = s \/ (t > s /\ p.parent[t] # None /\ f[p.parent[t]])]
             Closed(Z) == \A t \in D : Up(t, Z) => t \in Z
             G == {t \in D : \A Z \in SUBSET D : Closed(Z) => t \in Z}
             g == [t \in D \cup {s} |-> t \in G]
             u == CHOOSE f : Eq(f)
  <1>0. D \subseteq Nat /\ Root \in D
    BY SystemsAre
  <1>1. Closed(G)
    OBVIOUS
  <1>2. ASSUME NEW t \in G PROVE Up(t, G)
    <2>1. Closed({x \in G : Up(x, G)})
      <3> HIDE DEF G
      <3> QED BY <1>1
    <2>2. {x \in G : Up(x, G)} \in SUBSET D
      OBVIOUS
    <2> QED BY <1>2, <2>1, <2>2
  <1>3. \A t \in D : t > s => p.parent[t] \in D /\ p.parent[t] # None
    <2>1. ASSUME NEW t \in D, t > s PROVE t # Root
      BY <1>0, <2>1 DEF Root
    <2>2. \A t \in D \ {Root} : p.parent[t] \in D /\ p.parent[t] # None
      BY SystemsAre
    <2> QED BY <2>1, <2>2
  <1>4. D \cup {s} = D
    OBVIOUS
  <1> HIDE DEF D
  <1>5. \E f : Eq(f)
    <2> HIDE DEF G
    <2>1. \A t \in D : (t \in G) = Up(t, G)
      <3>1. \A t \in D : Up(t, G) => t \in G
        BY <1>1
      <3>2. \A t \in D : t \in G => Up(t, G)
        BY <1>2
      <3> QED BY <3>1, <3>2
    <2>2. \A t \in D : Up(t, G) = (t = s \/ (t > s /\ p.parent[t] # None /\ g[p.parent[t]]))
      BY <1>3
    <2>3. \A t \in D : (t \in G) = (t = s \/ (t > s /\ p.parent[t] # None /\ g[p.parent[t]]))
      BY <2>1, <2>2
    <2> HIDE DEF Up, g
    <2>4. Eq(g)
      BY <1>4, <2>3 DEF g
    <2> QED BY <2>4
  <1>6. Eq(u)
    BY <1>5
  <1>7. Tree(p, s) = {t \in D : u[t]}
    BY DEF Tree, D
  <1> HIDE DEF u
  <1>8. \A t \in D : u[t] = (t = s \/ (t > s /\ p.parent[t] # None /\ u[p.parent[t]]))
    BY <1>4, <1>6
  <1>9. s \in D
    BY DEF D
  <1>10. \A t \in D : t \in Tree(p, s) <=> t = s \/ (t > s /\ p.parent[t] \in Tree(p, s))
    BY <1>3, <1>7, <1>8
  <1>11. s \in Tree(p, s) /\ Tree(p, s) \subseteq D
    BY <1>7, <1>9, <1>10
  <1> QED BY <1>10, <1>11 DEF D

(* The conditions on a model, by the fields they are about.                 *)
Fields == {"els", "parent", "wires", "bus", "cases", "over", "studies"}
SystemsOK(p) == p.parent \in [Systems(p) -> Nat \cup {None}] /\ SystemsOwned(p)
CasesOK(p, n) ==
    /\ p.cases \in Seq(1..(n - 1)) /\ IsInjective(p.cases) /\ p.cases # <<>>
    /\ DOMAIN p.over = Cases(p) /\ p.studies \subseteq StudyIds

\* Together they are those of ModelType and Readable.
LEMMA Pieces ==
    ASSUME NEW p, NEW n
    PROVE  ModelOK(p, n) <=> /\ DOMAIN p = Fields /\ PartsType(p, n) /\ LinksOK(p)
                             /\ SystemsOK(p) /\ CasesOK(p, n)
  BY DEF ModelOK, ModelType, Readable, Fields, LinksOK, SystemsOK, CasesOK

(* No part of q is of another kind than in p, but for numbers from n.        *)
KindsKept(p, q, n) ==
    \A e \in Els(q) : e < n => e \in Els(p) /\ q.els[e].def = p.els[e].def

Same(p, q) ==
    Els(q) = Els(p) /\ q.parent = p.parent /\ q.cases = p.cases /\ q.studies = p.studies

(* A higher number that no part has had is one too.                          *)
LEMMA Later ==
    ASSUME NEW p, NEW n \in Nat, NEW m \in Nat, n <= m
    PROVE  /\ ModelOK(p, n) => ModelOK(p, m)
           /\ PartsType(p, n) => PartsType(p, m)
  <1>1. 1..(n - 1) \subseteq 1..(m - 1)
    OBVIOUS
  <1>2. PartsType(p, n) => PartsType(p, m)
    BY <1>1 DEF PartsType
  <1>3. \A s : s \in Seq(1..(n - 1)) => s \in Seq(1..(m - 1))
    BY <1>1, SeqMonotonic
  <1>4. CasesOK(p, n) => CasesOK(p, m)
    BY <1>3 DEF CasesOK
  <1> QED BY <1>2, <1>4, Pieces

(* Conditions that depend on some of the fields.                             *)
LEMMA SameSystems ==
    ASSUME NEW p, NEW q, SystemsOK(p), Els(q) = Els(p), q.parent = p.parent,
           \A e \in Els(p) : q.els[e].def = p.els[e].def /\ q.els[e].home = p.els[e].home
    PROVE  SystemsOK(q)
  <1>1. Systems(q) = Systems(p)
    BY DEF Systems
  <1> QED BY <1>1 DEF SystemsOK, SystemsOwned

\* The cases.
LEMMA SameCases ==
    ASSUME NEW p, NEW q, NEW n, CasesOK(p, n), q.cases = p.cases, q.over = p.over,
           q.studies = p.studies
    PROVE  CasesOK(q, n)
  BY DEF CasesOK, Cases

\* The links.
LEMMA SameLinks ==
    ASSUME NEW p, NEW q, LinksOK(p), q.els = p.els, q.wires = p.wires, q.bus = p.bus
    PROVE  LinksOK(q)
  <1>1. Ends(q) = Ends(p)
    BY DEF Ends, PortsOf, Els
  <1>2. \A end : Port(q, end) = Port(p, end)
    BY DEF Port, PortsOf
  <1>3. \A end : SourcesOf(q, end) = SourcesOf(p, end)
    BY <1>2 DEF SourcesOf
  <1> QED BY <1>1, <1>2, <1>3 DEF LinksOK, LinksType, LinksHold, OneSource

(* A model with more parts, with new numbers, and new links only among them.  *)
MorePart(p, q, n) ==
    /\ Els(p) \subseteq Els(q) /\ (\A e \in Els(p) : q.els[e] = p.els[e])
    /\ \A e \in Els(q) : e \in Els(p) \/ e >= n
    /\ Systems(p) \subseteq Systems(q)
    /\ p.wires \subseteq q.wires /\ p.bus \subseteq q.bus
    /\ \A l \in (q.wires \ p.wires) \cup (q.bus \ p.bus) : \A end \in l : end[1] >= n
    /\ q.cases = p.cases /\ q.over = p.over /\ q.studies = p.studies

(* Adding a part.                                                            *)
LEMMA PartAdded ==
    ASSUME NEW p, NEW n \in Nat \ {0}, ModelOK(p, n), NEW s \in Systems(p),
           NEW def \in {"part", "script", Container}
    PROVE  LET q == WithPart(p, n, NewPart(def, s), s) IN
           ModelOK(q, n + 1) /\ MorePart(p, q, n)
  <1> DEFINE part == NewPart(def, s)
             q == WithPart(p, n, part, s)
  <1>0. /\ DOMAIN p = Fields /\ PartsType(p, n) /\ LinksOK(p)
        /\ SystemsOK(p) /\ CasesOK(p, n)
    BY Pieces
  <1>1. /\ Systems(p) \subseteq Nat /\ Root \in Systems(p) /\ Root \notin Els(p)
        /\ Els(p) \subseteq 1..(n - 1) /\ n \notin Els(p) /\ n \notin Systems(p)
    <2>1. Systems(p) \subseteq {Root} \cup Els(p)
      BY <1>0 DEF SystemsOK, SystemsOwned
    <2>2. Els(p) \subseteq 1..(n - 1)
      BY <1>0 DEF PartsType
    <2>3. n \notin Els(p) /\ n # 0
      BY <2>2
    <2> QED BY <1>0, <2>1, <2>2, <2>3, SystemsAre DEF SystemsOK, Root
  <1>2. part \in PartRecord /\ part.dyn = {} /\ part.def = def /\ part.home = s
    BY <1>1 DEF NewPart, PartRecord
  <1>3. /\ DOMAIN q = Fields
        /\ q.els = [e \in Els(p) \cup {n} |-> IF e = n THEN part ELSE p.els[e]]
        /\ q.parent = IF def # Container THEN p.parent
                      ELSE [t \in Systems(p) \cup {n} |-> IF t = n THEN s ELSE p.parent[t]]
        /\ q.wires = p.wires /\ q.bus = p.bus
        /\ q.cases = p.cases /\ q.over = p.over /\ q.studies = p.studies
    BY <1>0, <1>2 DEF WithPart, Fields, Els, Systems
  <1> HIDE DEF part, q
  <1>4. Els(q) = Els(p) \cup {n}
    BY <1>3 DEF Els
  <1>5. PartsType(q, n + 1)
    <2>1. Els(q) \subseteq 1..((n + 1) - 1)
      BY <1>1, <1>4
    <2>2. q.els[n] = part /\ \A e \in Els(p) : q.els[e] = p.els[e]
      BY <1>1, <1>3
    <2>3. \A e \in Els(q) : q.els[e] \in PartRecord
      BY <1>0, <1>2, <1>4, <2>2 DEF PartsType
    <2>4. \A e \in Els(q) : /\ q.els[e].dyn # {} => q.els[e].def = "script"
                            /\ \A x, y \in q.els[e].dyn : x.id = y.id => x = y
      BY <1>0, <1>2, <1>4, <2>2 DEF PartsType
    <2>5. q.els \in [Els(q) -> PartRecord]
      BY <1>3, <1>4, <2>3
    <2> QED BY <2>1, <2>4, <2>5 DEF PartsType
  <1>6. LinksOK(q)
    <2>1. \A e \in Els(p) : q.els[e] = p.els[e] /\ e \in Els(q)
      BY <1>1, <1>3, <1>4
    <2>2. \A l \in p.wires \cup p.bus : \A end \in l : end[1] \in Els(p)
      BY <1>0, EndIs DEF LinksOK, LinksType
    <2> QED BY <1>0, <1>3, <1>5, <2>1, <2>2, FewerLinks
  <1>7. SystemsOK(q)
    <2>1. Systems(q) = IF def = Container THEN Systems(p) \cup {n} ELSE Systems(p)
      BY <1>3 DEF Systems
    <2>2. q.els[n] = part /\ \A e \in Els(p) : q.els[e] = p.els[e]
      BY <1>1, <1>3
    <2>3. \A t \in Systems(p) : q.parent[t] = p.parent[t]
      BY <1>1, <1>3
    <2>4. def = Container => q.parent[n] = s
      BY <1>3
    <2>5. q.parent \in [Systems(q) -> Nat \cup {None}]
      BY <1>0, <1>1, <1>3, <2>1 DEF SystemsOK
    <2>6. Systems(q) = {Root} \cup {e \in Els(q) : q.els[e].def = Container}
      BY <1>0, <1>2, <1>4, <2>1, <2>2 DEF SystemsOK, SystemsOwned
    <2>7. q.parent[Root] = None
      BY <1>0, <1>1, <2>3 DEF SystemsOK, SystemsOwned
    <2>8. \A t \in Systems(q) \ {Root} : q.parent[t] = q.els[t].home
      <3>1. \A t \in Systems(p) \ {Root} : t \in Els(p)
        BY <1>0 DEF SystemsOK, SystemsOwned
      <3> QED BY <1>0, <1>2, <2>1, <2>2, <2>3, <2>4, <3>1 DEF SystemsOK, SystemsOwned
    <2>9. \A e \in Els(q) : q.els[e].home \in Systems(q) \cap 0..(e - 1)
      <3>1. \A e \in Els(p) : p.els[e].home \in Systems(p) \cap 0..(e - 1)
        BY <1>0 DEF SystemsOK, SystemsOwned
      <3>2. Systems(p) \subseteq {Root} \cup Els(p)
        BY <1>0 DEF SystemsOK, SystemsOwned
      <3>3. s \in 0..(n - 1)
        BY <1>1, <3>2 DEF Root
      <3> QED BY <1>2, <1>4, <2>1, <2>2, <3>1, <3>3
    <2> QED BY <2>5, <2>6, <2>7, <2>8, <2>9 DEF SystemsOK, SystemsOwned
  <1>8. CasesOK(q, n + 1)
    <2>1. CasesOK(q, n)
      BY <1>0, <1>3, SameCases
    <2>2. 1..(n - 1) \subseteq 1..((n + 1) - 1)
      OBVIOUS
    <2>3. q.cases \in Seq(1..((n + 1) - 1))
      BY <2>1, <2>2, SeqMonotonic DEF CasesOK
    <2> QED BY <2>1, <2>3 DEF CasesOK
  <1>9. MorePart(p, q, n)
    <2>1. \A e \in Els(q) : e \in Els(p) \/ e >= n
      BY <1>4
    <2>2. Systems(p) \subseteq Systems(q) /\ \A e \in Els(p) : q.els[e] = p.els[e]
      BY <1>1, <1>3 DEF Systems
    <2> QED BY <1>3, <1>4, <2>1, <2>2 DEF MorePart
  <1> QED BY <1>3, <1>5, <1>6, <1>7, <1>8, <1>9, Pieces DEF part, q

(* A field of a part is set.                                                 *)
LEMMA ValueSet ==
    ASSUME NEW p, NEW n \in Nat, ModelOK(p, n), NEW e \in Els(p), NEW v \in Values
    PROVE  LET q == WithValue(p, e, v) IN
           ModelOK(q, n) /\ KindsKept(p, q, n) /\ Same(p, q)
  <1> DEFINE q == WithValue(p, e, v)
  <1>0. /\ DOMAIN p = Fields /\ PartsType(p, n) /\ LinksOK(p)
        /\ SystemsOK(p) /\ CasesOK(p, n)
    BY Pieces
  <1>1. /\ DOMAIN q = Fields
        /\ q.els = [p.els EXCEPT ![e].val = v] /\ q.parent = p.parent
        /\ q.wires = p.wires /\ q.bus = p.bus
        /\ q.cases = p.cases /\ q.over = p.over /\ q.studies = p.studies
    BY <1>0 DEF WithValue, Fields
  <1> HIDE DEF q
  <1>2. Els(q) = Els(p)
    BY <1>1 DEF Els
  <1>3. \A x \in Els(p) : /\ q.els[x].def = p.els[x].def /\ q.els[x].dyn = p.els[x].dyn
                          /\ q.els[x].home = p.els[x].home /\ q.els[x] \in PartRecord
    <2>1. \A x \in Els(p) : p.els[x] \in PartRecord
      BY <1>0 DEF PartsType
    <2>2. \A x \in Els(p) \ {e} : q.els[x] = p.els[x]
      BY <1>1 DEF Els
    <2>3. q.els[e] = [p.els[e] EXCEPT !.val = v]
      BY <1>1 DEF Els
    <2>4. /\ q.els[e].def = p.els[e].def /\ q.els[e].dyn = p.els[e].dyn
          /\ q.els[e].home = p.els[e].home /\ q.els[e] \in PartRecord
      BY <2>1, <2>3 DEF PartRecord
    <2> QED BY <2>1, <2>2, <2>4
  <1>4. PartsType(q, n)
    <2>1. q.els \in [Els(q) -> PartRecord]
      BY <1>1, <1>2, <1>3 DEF Els
    <2> QED BY <1>0, <1>2, <1>3, <2>1 DEF PartsType
  <1>5. LinksOK(q)
    <2>1. \A l \in p.wires \cup p.bus : \A end \in l : end[1] \in Els(p)
      BY <1>0, EndIs DEF LinksOK, LinksType
    <2> QED BY <1>0, <1>1, <1>2, <1>3, <2>1, FewerLinks
  <1>6. SystemsOK(q) /\ CasesOK(q, n)
    BY <1>0, <1>1, <1>2, <1>3, SameSystems, SameCases
  <1> QED BY <1>1, <1>2, <1>3, <1>4, <1>5, <1>6, Pieces DEF KindsKept, Same, q

(* The ports of a script are edited; links to a port that goes, go.          *)
LEMMA PortsSet ==
    ASSUME NEW p, NEW n \in Nat, ModelOK(p, n), NEW e \in Els(p), p.els[e].def = "script",
           NEW dyn \in PortEdits(p.els[e].dyn)
    PROVE  LET q == WithPorts(p, e, dyn) IN
           ModelOK(q, n) /\ KindsKept(p, q, n) /\ Same(p, q)
  <1> DEFINE q == WithPorts(p, e, dyn)
             old == p.els[e].dyn
  <1>0. /\ DOMAIN p = Fields /\ PartsType(p, n) /\ LinksOK(p)
        /\ SystemsOK(p) /\ CasesOK(p, n)
    BY Pieces
  <1>1. /\ DOMAIN q = Fields
        /\ q.els = [p.els EXCEPT ![e].dyn = dyn] /\ q.parent = p.parent
        /\ q.cases = p.cases /\ q.over = p.over /\ q.studies = p.studies
    BY <1>0 DEF WithPorts, Fields
  <1>2. /\ q.wires \subseteq p.wires /\ q.bus \subseteq p.bus
        /\ \A l \in q.wires \cup q.bus : l \subseteq Ends(q)
    <2> DEFINE r == [p EXCEPT !.els[e].dyn = dyn]
    <2>1. /\ q.wires = {l \in p.wires : l \subseteq Ends(r)}
          /\ q.bus = {l \in p.bus : l \subseteq Ends(r)} /\ q.els = r.els
      BY <1>0 DEF WithPorts, Fields
    <2>2. Ends(q) = Ends(r)
      BY <2>1 DEF Ends, PortsOf, Els
    <2> QED BY <2>1, <2>2
  <1> HIDE DEF q
  <1>3. Els(q) = Els(p)
    BY <1>1 DEF Els
  <1>4. p.els[e] \in PartRecord /\ \A x, y \in old : x.id = y.id => x = y
    BY <1>0 DEF PartsType
  <1>5. /\ dyn \in SUBSET DynamicPort
        /\ \A x, y \in dyn : x.id = y.id => x = y
        /\ \A x \in dyn, y \in old : x.id = y.id => x = y
    <2> DEFINE ids == {port.id : port \in old}
    <2>1. old \subseteq DynamicPort
      BY <1>4 DEF PartRecord
    <2>2. ASSUME NEW i \in PortIds \ ids, NEW d \in {"input", "output"},
                 dyn = old \cup {[id |-> i, kind |-> "signal", dir |-> d]}
          PROVE  <1>5!:
      <3>1. \A x \in old : x.id # i
        OBVIOUS
      <3>2. [id |-> i, kind |-> "signal", dir |-> d] \in DynamicPort
        <4>1. i \in PortIds
          OBVIOUS
        <4> QED BY <4>1 DEF DynamicPort
      <3> QED BY <1>4, <2>1, <2>2, <3>1, <3>2
    <2>3. ASSUME NEW port \in old, dyn = old \ {port}
          PROVE  <1>5!:
      BY <1>4, <2>1, <2>3
    <2>4. ASSUME NEW port \in old, NEW i \in PortIds \ ids,
                 dyn = (old \ {port}) \cup {[port EXCEPT !.id = i]}
          PROVE  <1>5!:
      <3>1. \A x \in old : x.id # i
        OBVIOUS
      <3>2. [port EXCEPT !.id = i] \in DynamicPort /\ [port EXCEPT !.id = i].id = i
        <4>1. i \in PortIds /\ port \in DynamicPort
          BY <2>1
        <4> QED BY <4>1 DEF DynamicPort
      <3> QED BY <1>4, <2>1, <2>4, <3>1, <3>2
    <2> QED BY <2>2, <2>3, <2>4 DEF PortEdits
  <1>6. /\ \A x \in Els(p) \ {e} : q.els[x] = p.els[x]
        /\ q.els[e] \in PartRecord /\ q.els[e].dyn = dyn /\ q.els[e].def = "script"
        /\ q.els[e].home = p.els[e].home
    <2>1. q.els[e] = [p.els[e] EXCEPT !.dyn = dyn]
      BY <1>1 DEF Els
    <2> QED BY <1>1, <1>4, <1>5, <2>1 DEF Els, PartRecord
  <1>7. \A x \in Els(p) : q.els[x].def = p.els[x].def /\ q.els[x].home = p.els[x].home
    BY <1>6
  <1>8. PartsType(q, n)
    <2>1. q.els \in [Els(q) -> PartRecord]
      BY <1>0, <1>1, <1>3, <1>6 DEF Els, PartsType
    <2>2. \A x \in Els(q) : /\ q.els[x].dyn # {} => q.els[x].def = "script"
                            /\ \A y, z \in q.els[x].dyn : y.id = z.id => y = z
      BY <1>0, <1>3, <1>5, <1>6 DEF PartsType
    <2> QED BY <1>0, <1>3, <2>1, <2>2 DEF PartsType
  <1>9. LinksOK(q)
    <2>1. ASSUME NEW l \in q.wires \cup q.bus, NEW end \in l
          PROVE  Port(q, end) = Port(p, end) /\ q.els[end[1]].home = p.els[end[1]].home
      <3>1. end \in Ends(q) /\ end \in Ends(p)
        BY <1>0, <1>2, <2>1 DEF LinksOK, LinksType
      <3>2. /\ end[1] \in Els(p)
            /\ Port(p, end) \in PortsOf(p, end[1]) /\ Port(p, end).id = end[2]
            /\ Port(q, end) \in PortsOf(q, end[1]) /\ Port(q, end).id = end[2]
        BY <3>1, EndIs
      <3>3. CASE end[1] # e
        BY <1>6, <3>2, <3>3 DEF Port, PortsOf
      <3>4. CASE end[1] = e
        <4>1. PortsOf(p, e) = old /\ PortsOf(q, e) = dyn
          BY <1>6 DEF PortsOf, Static
        <4> QED BY <1>5, <1>7, <3>2, <3>4, <4>1
      <3> QED BY <1>7, <3>2, <3>3, <3>4
    <2>2. \A l \in q.wires \cup q.bus : \A end \in l : end \in Ends(q)
      BY <1>2
    <2> QED BY <1>0, <1>2, <2>1, <2>2, LinksLeft
  <1>10. SystemsOK(q) /\ CasesOK(q, n)
    BY <1>0, <1>1, <1>3, <1>7, SameSystems, SameCases
  <1> QED BY <1>1, <1>3, <1>7, <1>8, <1>9, <1>10, Pieces DEF KindsKept, Same, q

(* Parts go with the systems they open and all that is in those.             *)
LEMMA PartsRemoved ==
    ASSUME NEW p, NEW n \in Nat, ModelOK(p, n), NEW ids, Root \notin ids, NEW links
    PROVE  LET q == Without(p, ids, links) IN
           /\ ModelOK(q, n) /\ KindsKept(p, q, n) /\ Els(q) \subseteq Els(p)
           /\ Root \in Systems(q) /\ q.cases = p.cases /\ q.studies = p.studies
  <1> DEFINE q == Without(p, ids, links)
             opened == ids \cap Systems(p)
             gone == ids \cup UNION {Inside(p, s) : s \in opened}
             closed == UNION {Tree(p, s) : s \in opened}
  <1>0. /\ DOMAIN p = Fields /\ PartsType(p, n) /\ LinksOK(p)
        /\ SystemsOK(p) /\ CasesOK(p, n)
    BY Pieces
  <1>1. /\ DOMAIN q = Fields
        /\ q.els = [e \in Els(p) \ gone |-> p.els[e]]
        /\ q.parent = [s \in Systems(p) \ closed |-> p.parent[s]]
        /\ q.wires = {l \in p.wires : l \notin links /\ ~Touches(l, gone)}
        /\ q.bus = {l \in p.bus : l \notin links /\ ~Touches(l, gone)}
        /\ q.cases = p.cases /\ q.over = p.over /\ q.studies = p.studies
    BY <1>0 DEF Without, Fields, Els, Systems
  <1>2. SystemsOwned(p)
    BY <1>0 DEF SystemsOK
  <1>3. /\ Systems(p) \subseteq Nat /\ Root \in Systems(p) /\ Root \notin Els(p)
        /\ \A e \in Els(p) : e \in Systems(p) <=> p.els[e].def = Container
        /\ \A e \in Els(p) : p.els[e].home \in Systems(p) /\ p.els[e].home < e
        /\ \A t \in Systems(p) \ {Root} :
             t \in Els(p) /\ p.parent[t] = p.els[t].home /\ p.parent[t] \in Systems(p)
    BY <1>0, <1>2, SystemsAre
  <1>4. ASSUME NEW s \in opened
        PROVE  /\ s \in Tree(p, s) /\ Tree(p, s) \subseteq Systems(p)
               /\ \A t \in Systems(p) :
                    t \in Tree(p, s) <=> t = s \/ (t > s /\ p.parent[t] \in Tree(p, s))
    BY <1>0, <1>2, TreeIs
  <1>5. ASSUME NEW s \in opened, NEW e \in Els(p)
        PROVE  e \in Inside(p, s) <=> p.els[e].home \in Tree(p, s)
    BY DEF Inside
  <1> HIDE DEF q
  <1>6. closed \subseteq Systems(p) /\ Root \notin closed
    <2>1. closed \subseteq Systems(p)
      BY <1>4
    <2>2. ASSUME NEW s \in opened PROVE Root \notin Tree(p, s)
      <3>1. s \in Nat /\ s # Root
        BY <1>3
      <3> QED BY <1>3, <1>4, <3>1 DEF Root
    <2> QED BY <2>1, <2>2
  <1>7. ASSUME NEW t \in Systems(p) \ {Root}
        PROVE  t \in closed <=> t \in gone
    <2>1. t \in Els(p) /\ p.parent[t] = p.els[t].home
      BY <1>3
    <2>2. ASSUME t \in closed PROVE t \in gone
      <3>1. PICK s \in opened : t \in Tree(p, s)
        BY <2>2
      <3>2. CASE t = s
        BY <3>2
      <3>3. CASE p.parent[t] \in Tree(p, s)
        BY <1>5, <2>1, <3>3
      <3> QED BY <1>4, <3>1, <3>2, <3>3
    <2>3. ASSUME t \in ids PROVE t \in closed
      <3>1. t \in opened /\ t \in Tree(p, t)
        BY <1>4, <2>3
      <3> QED BY <3>1
    <2>4. ASSUME NEW s \in opened, t \in Inside(p, s) PROVE t \in closed
      <3> DEFINE h == p.els[t].home
      <3>1. h \in Tree(p, s) /\ h \in Systems(p) /\ h < t
        BY <1>3, <1>5, <2>1, <2>4
      <3>2. h = s \/ h > s
        BY <1>4, <3>1
      <3>3. h \in Nat /\ s \in Nat /\ t \in Nat
        BY <1>3, <3>1
      <3>4. t > s
        BY <3>1, <3>2, <3>3
      <3>5. t \in Tree(p, s)
        BY <1>4, <2>1, <3>1, <3>4
      <3> QED BY <3>5
    <2> QED BY <2>2, <2>3, <2>4
  <1>8. \A e \in Els(p) \ gone : p.els[e].home \notin closed
    BY <1>5
  <1> HIDE DEF opened, gone, closed
  <1>9. Els(q) = Els(p) \ gone /\ \A e \in Els(q) : q.els[e] = p.els[e]
    BY <1>1 DEF Els
  <1>10. PartsType(q, n)
    <2>1. q.els \in [Els(q) -> PartRecord]
      BY <1>0, <1>1, <1>9 DEF PartsType
    <2> QED BY <1>0, <1>9, <2>1 DEF PartsType
  <1>11. LinksOK(q)
    <2>1. \A l \in q.wires \cup q.bus : \A end \in l : end[1] \in Els(q)
      <3>1. \A l \in p.wires \cup p.bus : \A end \in l : end[1] \in Els(p)
        BY <1>0, EndIs DEF LinksOK, LinksType
      <3> QED BY <1>1, <1>9, <3>1 DEF Touches
    <2>2. q.wires \subseteq p.wires /\ q.bus \subseteq p.bus
      BY <1>1
    <2> QED BY <1>0, <1>9, <2>1, <2>2, FewerLinks
  <1>12. SystemsOK(q)
    <2>1. Systems(q) = Systems(p) \ closed /\ \A t \in Systems(q) : q.parent[t] = p.parent[t]
      BY <1>1 DEF Systems
    <2>2. q.parent \in [Systems(q) -> Nat \cup {None}]
      BY <1>0, <1>1, <2>1 DEF SystemsOK
    <2>3. ASSUME NEW t \in Systems(q) \ {Root}
          PROVE  t \in Els(q) /\ q.els[t].def = Container
      BY <1>3, <1>7, <1>9, <2>1
    <2>4. ASSUME NEW e \in Els(q), q.els[e].def = Container
          PROVE  e \in Systems(q)
      BY <1>3, <1>7, <1>9, <2>1, <2>4
    <2>5. Root \in Systems(q)
      BY <1>3, <1>6, <2>1
    <2>6. Systems(q) = {Root} \cup {e \in Els(q) : q.els[e].def = Container}
      BY <2>3, <2>4, <2>5
    <2>7. q.parent[Root] = None
      BY <1>2, <2>1, <2>5 DEF SystemsOwned
    <2>8. \A t \in Systems(q) \ {Root} : q.parent[t] = q.els[t].home
      BY <1>3, <1>9, <2>1, <2>3
    <2>9. \A e \in Els(q) : q.els[e].home \in Systems(q) \cap 0..(e - 1)
      BY <1>2, <1>8, <1>9, <2>1 DEF SystemsOwned
    <2> QED BY <2>2, <2>6, <2>7, <2>8, <2>9 DEF SystemsOK, SystemsOwned
  <1>13. CasesOK(q, n)
    BY <1>0, <1>1, SameCases
  <1>14. Root \in Systems(q)
    BY <1>12 DEF SystemsOK, SystemsOwned
  <1> QED BY <1>1, <1>9, <1>10, <1>11, <1>12, <1>13, <1>14, Pieces DEF KindsKept, q

(* Only links change.                                                        *)
LEMMA LinksSet ==
    ASSUME NEW p, NEW n \in Nat, ModelOK(p, n), NEW q, DOMAIN q = Fields, q.els = p.els,
           q.parent = p.parent, q.cases = p.cases, q.over = p.over, q.studies = p.studies,
           LinksOK(q)
    PROVE  ModelOK(q, n) /\ KindsKept(p, q, n) /\ Same(p, q)
  <1>0. PartsType(p, n) /\ SystemsOK(p) /\ CasesOK(p, n)
    BY Pieces
  <1>1. Els(q) = Els(p)
    BY DEF Els
  <1>2. PartsType(q, n)
    BY <1>0, <1>1 DEF PartsType
  <1>3. SystemsOK(q) /\ CasesOK(q, n)
    BY <1>0, <1>1, SameSystems, SameCases
  <1> QED BY <1>1, <1>2, <1>3, Pieces DEF KindsKept, Same

(* Only cases, overrides or studies change.                                  *)
LEMMA CasesSet ==
    ASSUME NEW p, NEW n \in Nat, NEW m \in Nat, n <= m, ModelOK(p, n), NEW q, DOMAIN q = Fields,
           q.els = p.els, q.parent = p.parent, q.wires = p.wires, q.bus = p.bus, CasesOK(q, m)
    PROVE  ModelOK(q, m) /\ KindsKept(p, q, n) /\ Els(q) = Els(p)
  <1>0. PartsType(p, m) /\ SystemsOK(p) /\ LinksOK(p)
    BY Pieces, Later
  <1>1. Els(q) = Els(p)
    BY DEF Els
  <1>2. PartsType(q, m)
    BY <1>0, <1>1 DEF PartsType
  <1>3. SystemsOK(q) /\ LinksOK(q)
    BY <1>0, <1>1, SameSystems, SameLinks
  <1> QED BY <1>1, <1>2, <1>3, Pieces DEF KindsKept

(* InsertAt and RemoveAt, element by element, and as sets of cases.           *)
LEMMA Inserted ==
    ASSUME NEW S, NEW s \in Seq(S), NEW i \in 1..(Len(s) + 1), NEW c \in S
    PROVE  /\ InsertAt(s, i, c) \in Seq(S) /\ Len(InsertAt(s, i, c)) = Len(s) + 1
           /\ \A j \in 1..(Len(s) + 1) :
                InsertAt(s, i, c)[j] = IF j < i THEN s[j] ELSE IF j = i THEN c ELSE s[j - 1]
  <1> DEFINE a == SubSeq(s, 1, i - 1)
             b == SubSeq(s, i, Len(s))
             u == a \o <<c>>
             t == u \o b
  <1>0. Len(s) \in Nat /\ \A j \in 1..Len(s) : s[j] \in S
    OBVIOUS
  <1>1. /\ a \in Seq(S) /\ Len(a) = i - 1 /\ \A j \in 1..(i - 1) : a[j] = s[j]
    <2>1. i - 1 \in Int /\ \A j \in 1..(i - 1) : s[j] \in S
      BY <1>0
    <2>2. /\ a \in Seq(S) /\ Len(a) = IF 1 <= i - 1 THEN (i - 1) - 1 + 1 ELSE 0
          /\ \A j \in 1..((i - 1) - 1 + 1) : a[j] = s[1 + j - 1]
      BY <2>1, SubSeqProperties
    <2> HIDE DEF a
    <2> QED BY <2>2
  <1>2. /\ b \in Seq(S) /\ Len(b) = Len(s) - i + 1
        /\ \A j \in 1..(Len(s) - i + 1) : b[j] = s[i + j - 1]
    <2>1. i \in Int /\ Len(s) \in Int /\ \A j \in i..Len(s) : s[j] \in S
      BY <1>0
    <2>2. /\ b \in Seq(S) /\ Len(b) = IF i <= Len(s) THEN Len(s) - i + 1 ELSE 0
          /\ \A j \in 1..(Len(s) - i + 1) : b[j] = s[i + j - 1]
      BY <2>1, SubSeqProperties
    <2> HIDE DEF b
    <2> QED BY <2>2
  <1>3. InsertAt(s, i, c) = t
    BY DEF InsertAt
  <1> HIDE DEF a, b
  <1>4. /\ u \in Seq(S) /\ Len(u) = i
        /\ \A j \in 1..i : u[j] = IF j < i THEN s[j] ELSE c
    BY <1>1
  <1> HIDE DEF u
  <1>5. /\ t \in Seq(S) /\ Len(t) = Len(s) + 1
        /\ \A j \in 1..(Len(s) + 1) : t[j] = IF j <= i THEN u[j] ELSE b[j - i]
    <2>1. /\ t \in Seq(S) /\ Len(t) = Len(u) + Len(b)
          /\ \A j \in 1..(Len(u) + Len(b)) : t[j] = IF j <= Len(u) THEN u[j] ELSE b[j - Len(u)]
      BY <1>2, <1>4, ConcatProperties
    <2>2. Len(u) = i /\ Len(u) + Len(b) = Len(s) + 1
      BY <1>0, <1>2, <1>4
    <2> HIDE DEF t
    <2> QED BY <2>1, <2>2
  <1> HIDE DEF t
  <1>6. ASSUME NEW j \in 1..(Len(s) + 1)
        PROVE  t[j] = IF j < i THEN s[j] ELSE IF j = i THEN c ELSE s[j - 1]
    <2>1. CASE j <= i
      BY <1>4, <1>5, <2>1
    <2>2. CASE j > i
      <3>1. j - i \in 1..(Len(s) - i + 1) /\ i + (j - i) - 1 = j - 1
        BY <1>0, <2>2
      <3>2. b[j - i] = s[i + (j - i) - 1]
        BY <1>2, <3>1
      <3>3. t[j] = b[j - i] /\ j # i /\ ~(j < i)
        BY <1>5, <2>2
      <3> QED BY <3>1, <3>2, <3>3
    <2> QED BY <2>1, <2>2
  <1> QED BY <1>3, <1>5, <1>6

\* One element fewer.
LEMMA Removed ==
    ASSUME NEW S, NEW s \in Seq(S), NEW i \in 1..Len(s)
    PROVE  LET t == RemoveAt(s, i) IN
           /\ t \in Seq(S) /\ Len(t) = Len(s) - 1
           /\ \A j \in 1..Len(t) : t[j] = IF j < i THEN s[j] ELSE s[j + 1]
  <1> DEFINE a == SubSeq(s, 1, i - 1)
             b == SubSeq(s, i + 1, Len(s))
             t == a \o b
  <1>0. Len(s) \in Nat /\ \A j \in 1..Len(s) : s[j] \in S
    OBVIOUS
  <1>1. /\ a \in Seq(S) /\ Len(a) = i - 1 /\ \A j \in 1..(i - 1) : a[j] = s[j]
    <2>1. i - 1 \in Int /\ \A j \in 1..(i - 1) : s[j] \in S
      BY <1>0
    <2>2. /\ a \in Seq(S) /\ Len(a) = IF 1 <= i - 1 THEN (i - 1) - 1 + 1 ELSE 0
          /\ \A j \in 1..((i - 1) - 1 + 1) : a[j] = s[1 + j - 1]
      BY <2>1, SubSeqProperties
    <2> HIDE DEF a
    <2> QED BY <2>2
  <1>2. /\ b \in Seq(S) /\ Len(b) = Len(s) - i
        /\ \A j \in 1..(Len(s) - i) : b[j] = s[i + j]
    <2>1. i + 1 \in Int /\ Len(s) \in Int /\ \A j \in (i + 1)..Len(s) : s[j] \in S
      BY <1>0
    <2>2. /\ b \in Seq(S) /\ Len(b) = IF i + 1 <= Len(s) THEN Len(s) - (i + 1) + 1 ELSE 0
          /\ \A j \in 1..(Len(s) - (i + 1) + 1) : b[j] = s[(i + 1) + j - 1]
      BY <2>1, SubSeqProperties
    <2> HIDE DEF b
    <2> QED BY <2>2
  <1>3. RemoveAt(s, i) = t
    BY DEF RemoveAt
  <1> HIDE DEF a, b
  <1>4. /\ t \in Seq(S) /\ Len(t) = Len(s) - 1
        /\ \A j \in 1..(Len(s) - 1) : t[j] = IF j < i THEN a[j] ELSE b[j - (i - 1)]
    <2>1. /\ t \in Seq(S) /\ Len(t) = Len(a) + Len(b)
          /\ \A j \in 1..(Len(a) + Len(b)) : t[j] = IF j <= Len(a) THEN a[j] ELSE b[j - Len(a)]
      BY <1>1, <1>2, ConcatProperties
    <2>2. Len(a) = i - 1 /\ Len(a) + Len(b) = Len(s) - 1
      BY <1>0, <1>1, <1>2
    <2> HIDE DEF t
    <2>3. \A j \in 1..(Len(s) - 1) : j <= i - 1 <=> j < i
      OBVIOUS
    <2> QED BY <2>1, <2>2, <2>3
  <1> HIDE DEF t
  <1>5. ASSUME NEW j \in 1..(Len(s) - 1)
        PROVE  t[j] = IF j < i THEN s[j] ELSE s[j + 1]
    <2>1. CASE j < i
      BY <1>1, <1>4, <2>1
    <2>2. CASE j >= i
      <3>1. j - (i - 1) \in 1..(Len(s) - i) /\ i + (j - (i - 1)) = j + 1
        BY <1>0, <2>2
      <3>2. b[j - (i - 1)] = s[i + (j - (i - 1))]
        BY <1>2, <3>1
      <3>3. t[j] = b[j - (i - 1)] /\ ~(j < i)
        BY <1>4, <2>2
      <3> QED BY <3>1, <3>2, <3>3
    <2> QED BY <2>1, <2>2
  <1> QED BY <1>3, <1>4, <1>5

\* The set gains the element.
LEMMA InsertedSet ==
    ASSUME NEW S, NEW s \in Seq(S), NEW i \in 1..(Len(s) + 1), NEW c \in S, c \notin ToSet(s),
           IsInjective(s)
    PROVE  LET t == InsertAt(s, i, c) IN
           IsInjective(t) /\ ToSet(t) = ToSet(s) \cup {c} /\ t # <<>>
  <1> DEFINE t == InsertAt(s, i, c)
  <1>1. /\ t \in Seq(S) /\ Len(t) = Len(s) + 1
        /\ \A j \in 1..(Len(s) + 1) :
             t[j] = IF j < i THEN s[j] ELSE IF j = i THEN c ELSE s[j - 1]
    BY Inserted
  <1> HIDE DEF t
  <1>2. /\ Len(s) \in Nat /\ DOMAIN s = 1..Len(s) /\ DOMAIN t = 1..(Len(s) + 1)
        /\ \A j \in 1..Len(s) : s[j] # c
    BY <1>1 DEF ToSet
  <1>3. \A a, b \in 1..Len(s) : s[a] = s[b] => a = b
    BY <1>2 DEF IsInjective
  <1>4. ASSUME NEW j \in 1..(Len(s) + 1)
        PROVE  \/ j < i /\ j \in 1..Len(s) /\ t[j] = s[j]
               \/ j = i /\ t[j] = c
               \/ j > i /\ j - 1 \in 1..Len(s) /\ t[j] = s[j - 1]
    <2>1. t[j] = IF j < i THEN s[j] ELSE IF j = i THEN c ELSE s[j - 1]
      BY <1>1
    <2>2. CASE j < i
      BY <1>2, <2>1, <2>2
    <2>3. CASE j = i
      BY <2>1, <2>3
    <2>4. CASE j > i
      BY <1>2, <2>1, <2>4
    <2> QED BY <2>2, <2>3, <2>4
  <1>5. IsInjective(t)
    <2> SUFFICES ASSUME NEW j \in 1..(Len(s) + 1), NEW k \in 1..(Len(s) + 1), t[j] = t[k]
                 PROVE  j = k
      BY <1>2 DEF IsInjective
    <2>1. /\ \/ j < i /\ j \in 1..Len(s) /\ t[j] = s[j]
             \/ j = i /\ t[j] = c
             \/ j > i /\ j - 1 \in 1..Len(s) /\ t[j] = s[j - 1]
          /\ \/ k < i /\ k \in 1..Len(s) /\ t[k] = s[k]
             \/ k = i /\ t[k] = c
             \/ k > i /\ k - 1 \in 1..Len(s) /\ t[k] = s[k - 1]
      BY <1>4
    <2> QED BY <1>2, <1>3, <2>1
  <1>6. \A j \in 1..(Len(s) + 1) : t[j] = c \/ \E k \in 1..Len(s) : t[j] = s[k]
    BY <1>4
  <1>7. \E j \in 1..(Len(s) + 1) : t[j] = c
    BY <1>1, <1>2
  <1>8. ASSUME NEW j \in 1..Len(s)
        PROVE  \E k \in 1..(Len(s) + 1) : t[k] = s[j]
    <2>1. CASE j < i
      BY <1>1, <1>2, <2>1
    <2>2. CASE j >= i
      <3>1. j + 1 \in 1..Len(t) /\ ~(j + 1 < i) /\ j + 1 # i /\ (j + 1) - 1 = j
        BY <1>1, <1>2, <2>2
      <3>2. t[j + 1] = s[j]
        BY <1>1, <3>1
      <3> QED BY <1>1, <3>1, <3>2
    <2> QED BY <2>1, <2>2
  <1>9. ToSet(t) = ToSet(s) \cup {c}
    <2>1. \A x : x \in ToSet(s) <=> \E k \in 1..Len(s) : x = s[k]
      BY <1>2 DEF ToSet
    <2>2. \A x : x \in ToSet(t) <=> \E k \in 1..(Len(s) + 1) : x = t[k]
      BY <1>2 DEF ToSet
    <2>3. ASSUME NEW x, x \in ToSet(t) PROVE x \in ToSet(s) \cup {c}
      BY <1>6, <2>1, <2>2, <2>3
    <2>4. ASSUME NEW x, x \in ToSet(s) \cup {c} PROVE x \in ToSet(t)
      BY <1>7, <1>8, <2>1, <2>2, <2>4
    <2> QED BY <2>3, <2>4
  <1>10. t # <<>>
    BY <1>1, <1>2
  <1> QED BY <1>5, <1>9, <1>10 DEF t

\* The set loses the element, and is not empty yet.
LEMMA RemovedSet ==
    ASSUME NEW S, NEW s \in Seq(S), NEW i \in 1..Len(s), Len(s) > 1, IsInjective(s)
    PROVE  LET t == RemoveAt(s, i) IN
           IsInjective(t) /\ ToSet(t) = ToSet(s) \ {s[i]} /\ t # <<>> /\ t[1] \in ToSet(t)
  <1> DEFINE t == RemoveAt(s, i)
  <1>1. /\ t \in Seq(S) /\ Len(t) = Len(s) - 1
        /\ \A j \in 1..Len(t) : t[j] = IF j < i THEN s[j] ELSE s[j + 1]
    BY Removed
  <1> HIDE DEF t
  <1>2. Len(s) \in Nat /\ DOMAIN s = 1..Len(s) /\ DOMAIN t = 1..(Len(s) - 1)
    BY <1>1
  <1>3. \A a, b \in 1..Len(s) : s[a] = s[b] => a = b
    BY <1>2 DEF IsInjective
  <1>4. ASSUME NEW j \in 1..(Len(s) - 1)
        PROVE  \/ j < i /\ j \in 1..Len(s) /\ t[j] = s[j]
               \/ j >= i /\ j + 1 \in 1..Len(s) /\ t[j] = s[j + 1]
    <2>1. t[j] = IF j < i THEN s[j] ELSE s[j + 1]
      BY <1>1
    <2>2. CASE j < i
      BY <1>2, <2>1, <2>2
    <2>3. CASE j >= i
      BY <1>2, <2>1, <2>3
    <2> QED BY <2>2, <2>3
  <1>5. IsInjective(t)
    <2> SUFFICES ASSUME NEW j \in 1..(Len(s) - 1), NEW k \in 1..(Len(s) - 1), t[j] = t[k]
                 PROVE  j = k
      BY <1>2 DEF IsInjective
    <2>1. /\ \/ j < i /\ j \in 1..Len(s) /\ t[j] = s[j]
             \/ j >= i /\ j + 1 \in 1..Len(s) /\ t[j] = s[j + 1]
          /\ \/ k < i /\ k \in 1..Len(s) /\ t[k] = s[k]
             \/ k >= i /\ k + 1 \in 1..Len(s) /\ t[k] = s[k + 1]
      BY <1>4
    <2> QED BY <1>2, <1>3, <2>1
  <1>6. ASSUME NEW j \in 1..(Len(s) - 1)
        PROVE  \E k \in 1..Len(s) : k # i /\ t[j] = s[k]
    <2>1. CASE j < i
      BY <1>4, <2>1
    <2>2. CASE j >= i
      <3>1. j + 1 \in 1..Len(s) /\ j + 1 # i /\ t[j] = s[j + 1]
        BY <1>4, <2>2
      <3> QED BY <3>1
    <2> QED BY <2>1, <2>2
  <1>7. ASSUME NEW j \in 1..Len(s), j # i
        PROVE  \E k \in 1..(Len(s) - 1) : t[k] = s[j]
    <2>1. CASE j < i
      BY <1>1, <1>2, <2>1
    <2>2. CASE j > i
      <3>1. j - 1 \in 1..Len(t) /\ ~(j - 1 < i) /\ (j - 1) + 1 = j
        BY <1>1, <1>2, <2>2
      <3>2. t[j - 1] = s[j]
        BY <1>1, <3>1
      <3> QED BY <1>1, <3>1, <3>2
    <2> QED BY <1>7, <2>1, <2>2
  <1>8. ToSet(t) = ToSet(s) \ {s[i]}
    <2>1. \A x : x \in ToSet(s) <=> \E k \in 1..Len(s) : x = s[k]
      BY <1>2 DEF ToSet
    <2>2. \A x : x \in ToSet(t) <=> \E k \in 1..(Len(s) - 1) : x = t[k]
      BY <1>2 DEF ToSet
    <2>3. ASSUME NEW x, x \in ToSet(t) PROVE x \in ToSet(s) \ {s[i]}
      BY <1>3, <1>6, <2>1, <2>2, <2>3
    <2>4. ASSUME NEW x, x \in ToSet(s) \ {s[i]} PROVE x \in ToSet(t)
      BY <1>7, <2>1, <2>2, <2>4
    <2> QED BY <2>3, <2>4
  <1>9. t # <<>> /\ 1 \in DOMAIN t
    BY <1>1, <1>2
  <1>10. t[1] \in ToSet(t)
    BY <1>9 DEF ToSet
  <1> QED BY <1>5, <1>8, <1>9, <1>10 DEF t

(* A case is added, or taken away.                                           *)
LEMMA CaseAdded ==
    ASSUME NEW p, NEW n \in Nat \ {0}, ModelOK(p, n), NEW i \in 1..(Len(p.cases) + 1), NEW over
    PROVE  LET q == WithCase(p, i, n, over) IN
           /\ ModelOK(q, n + 1) /\ KindsKept(p, q, n) /\ Els(q) = Els(p)
           /\ Cases(q) = Cases(p) \cup {n} /\ q.parent = p.parent /\ q.studies = p.studies
  <1> DEFINE q == WithCase(p, i, n, over)
             s == p.cases
             t == InsertAt(s, i, n)
             S == 1..(n - 1)
  <1>0. DOMAIN p = Fields /\ CasesOK(p, n)
    BY Pieces
  <1>1. /\ DOMAIN q = Fields
        /\ q.els = p.els /\ q.parent = p.parent /\ q.wires = p.wires /\ q.bus = p.bus
        /\ q.cases = t /\ DOMAIN q.over = DOMAIN p.over \cup {n} /\ q.studies = p.studies
    BY <1>0 DEF WithCase, Fields
  <1>2. /\ s \in Seq(S) /\ IsInjective(s) /\ DOMAIN p.over = Cases(p)
        /\ p.studies \subseteq StudyIds /\ Len(s) \in Nat
    BY <1>0 DEF CasesOK
  <1>3. s \in Seq(1..n) /\ n \in 1..n /\ n \notin ToSet(s)
    <2>1. S \subseteq 1..n /\ n \notin S
      OBVIOUS
    <2>2. s \in Seq(1..n)
      BY <1>2, <2>1, SeqMonotonic
    <2> QED BY <1>2, <2>1, <2>2 DEF ToSet
  <1>4. t \in Seq(1..n)
    BY <1>3, Inserted
  <1>5. IsInjective(t) /\ ToSet(t) = ToSet(s) \cup {n} /\ t # <<>>
    BY <1>2, <1>3, InsertedSet
  <1> HIDE DEF q, t
  <1>8. Cases(q) = Cases(p) \cup {n}
    BY <1>1, <1>5 DEF Cases
  <1>9. CasesOK(q, n + 1)
    <2>1. 1..n = 1..((n + 1) - 1)
      OBVIOUS
    <2> QED BY <1>1, <1>2, <1>4, <1>5, <1>8, <2>1 DEF CasesOK
  <1>10. n \in Nat /\ n + 1 \in Nat /\ n <= n + 1
    OBVIOUS
  <1>11. ModelOK(q, n + 1) /\ KindsKept(p, q, n) /\ Els(q) = Els(p)
    BY <1>1, <1>9, <1>10, CasesSet
  <1> QED BY <1>1, <1>8, <1>11 DEF q

\* One case always stays.
LEMMA CaseRemoved ==
    ASSUME NEW p, NEW n \in Nat \ {0}, ModelOK(p, n), NEW c, Len(p.cases) > 1
    PROVE  LET q == WithoutCase(p, c) IN
           /\ ModelOK(q, n) /\ KindsKept(p, q, n) /\ Els(q) = Els(p)
           /\ Cases(q) = Cases(p) \ {c} /\ q.parent = p.parent /\ q.studies = p.studies
           /\ q.cases[1] \in Cases(q)
  <1> DEFINE q == WithoutCase(p, c)
             s == p.cases
             i == CHOOSE i \in DOMAIN p.cases : p.cases[i] = c
             t == RemoveAt(s, i)
             S == 1..(n - 1)
  <1>0. DOMAIN p = Fields /\ CasesOK(p, n)
    BY Pieces
  <1>1. /\ s \in Seq(S) /\ IsInjective(s) /\ DOMAIN p.over = Cases(p)
        /\ p.studies \subseteq StudyIds /\ Len(s) \in Nat /\ DOMAIN s = 1..Len(s)
    BY <1>0 DEF CasesOK
  <1>2. CASE c \notin Cases(p)
    <2>1. q = p
      BY <1>2 DEF WithoutCase
    <2>2. 1 \in DOMAIN s
      BY <1>1
    <2> QED BY <1>2, <2>1, <2>2 DEF KindsKept, Cases, ToSet
  <1>3. CASE c \in Cases(p)
    <2>1. /\ DOMAIN q = Fields
          /\ q.els = p.els /\ q.parent = p.parent /\ q.wires = p.wires /\ q.bus = p.bus
          /\ q.cases = t /\ DOMAIN q.over = DOMAIN p.over \ {c} /\ q.studies = p.studies
      BY <1>0, <1>3 DEF WithoutCase, Fields
    <2>2. i \in 1..Len(s) /\ s[i] = c
      BY <1>1, <1>3 DEF Cases, ToSet
    <2> HIDE DEF i
    <2>3. t \in Seq(S)
      BY <1>1, <2>2, Removed
    <2>4. IsInjective(t) /\ ToSet(t) = ToSet(s) \ {c} /\ t # <<>> /\ t[1] \in ToSet(t)
      BY <1>1, <2>2, RemovedSet
    <2> HIDE DEF q, t
    <2>8. Cases(q) = Cases(p) \ {c}
      BY <2>1, <2>4 DEF Cases
    <2>10. CasesOK(q, n)
      BY <1>1, <2>1, <2>3, <2>4, <2>8 DEF CasesOK
    <2>11. n \in Nat /\ n <= n
      OBVIOUS
    <2>12. ModelOK(q, n) /\ KindsKept(p, q, n) /\ Els(q) = Els(p)
      BY <2>1, <2>10, <2>11, CasesSet
    <2>13. q.cases[1] \in Cases(q)
      BY <2>1, <2>4 DEF Cases
    <2> QED BY <2>1, <2>8, <2>12, <2>13 DEF q
  <1> QED BY <1>2, <1>3

(* Copies of links hold between copies of parts.                             *)
LEMMA Copied ==
    ASSUME NEW p, NEW q, NEW n, NEW m, PartsType(p, n), LinksOK(p), PartsType(q, m),
           NEW D \in SUBSET Els(p), NEW id \in [D -> Els(q)],
           \A x, y \in D : id[x] = id[y] => x = y,
           \A x \in D : q.els[id[x]].def = p.els[x].def /\ q.els[id[x]].dyn = p.els[x].dyn,
           q.wires \subseteq Copies(p.wires, id), q.bus \subseteq Copies(p.bus, id),
           \A l \in q.wires : \A a, b \in l : q.els[a[1]].home = q.els[b[1]].home
    PROVE  /\ LinksOK(q)
           /\ \A l \in q.wires \cup q.bus : \A end \in l : \E x \in D : end[1] = id[x]
  <1> DEFINE L == {id[x] : x \in D}
             g == [y \in L |-> CHOOSE x \in D : id[x] = y]
  <1>1. \A x \in D : id[x] \in L /\ g[id[x]] = x
    <2>1. ASSUME NEW x \in D PROVE (CHOOSE z \in D : id[z] = id[x]) = x
      <3> DEFINE z == CHOOSE z \in D : id[z] = id[x]
      <3>1. z \in D /\ id[z] = id[x]
        OBVIOUS
      <3> HIDE DEF z
      <3>2. z = x
        BY <3>1
      <3> QED BY <3>2 DEF z
    <2> QED BY <2>1
  <1>2. \A y \in L : \E x \in D : y = id[x] /\ g[y] = x
    BY <1>1
  <1> HIDE DEF L, g
  <1>3. ASSUME NEW links \in {p.wires, p.bus}, NEW l \in Copies(links, id)
        PROVE  /\ \A end \in l : end = <<end[1], end[2]>> /\ \E x \in D : end[1] = id[x]
               /\ Renumbered(l, g) \in links
    <2>1. PICK k \in links : (\A end \in k : end[1] \in D) /\ l = Renumbered(k, id)
      BY <1>3 DEF Copies, Within
    <2>2. \A end \in k : end = <<end[1], end[2]>>
      <3>1. k \in p.wires \cup p.bus
        OBVIOUS
      <3> QED BY <3>1, EndIs DEF LinksOK, LinksType
    <2>3. \A end : end \in l <=> \E x \in k : end = <<id[x[1]], x[2]>>
      BY <2>1 DEF Renumbered
    <2>4. \A end \in l : end = <<end[1], end[2]>> /\ \E x \in D : end[1] = id[x]
      BY <2>1, <2>3
    <2>5. ASSUME NEW x \in k
          PROVE  <<id[x[1]], x[2]>> \in l /\ <<g[id[x[1]]], x[2]>> = x
      BY <1>1, <2>1, <2>2, <2>3
    <2>6. ASSUME NEW end \in l
          PROVE  \E x \in k : end = <<id[x[1]], x[2]>> /\ <<g[end[1]], end[2]>> = x
      <3>1. PICK x \in k : end = <<id[x[1]], x[2]>>
        BY <2>3
      <3>2. end[1] = id[x[1]] /\ end[2] = x[2]
        BY <3>1
      <3> QED BY <2>5, <3>1, <3>2
    <2>7. \A x : x \in k <=> \E end \in l : x = <<g[end[1]], end[2]>>
      <3>1. ASSUME NEW x \in k PROVE \E end \in l : x = <<g[end[1]], end[2]>>
        <4>1. <<id[x[1]], x[2]>>[1] = id[x[1]] /\ <<id[x[1]], x[2]>>[2] = x[2]
          OBVIOUS
        <4> QED BY <2>5, <4>1
      <3>2. ASSUME NEW end \in l PROVE <<g[end[1]], end[2]>> \in k
        BY <2>6
      <3> QED BY <3>1, <3>2
    <2>8. Renumbered(l, g) = k
      BY <2>7 DEF Renumbered
    <2> QED BY <2>4, <2>8
  <1>4. \A l \in q.wires \cup q.bus : \A end \in l :
            end = <<end[1], end[2]>> /\ \E x \in D : end[1] = id[x]
    BY <1>3
  <1>5. \A l \in q.wires \cup q.bus : \A end \in l : end = <<end[1], end[2]>> /\ end[1] \in L
    BY <1>1, <1>4
  <1>6. \A l \in q.wires : Renumbered(l, g) \in p.wires
    BY <1>3
  <1>7. \A l \in q.bus : Renumbered(l, g) \in p.bus
    BY <1>3
  <1>8. L \in SUBSET Els(q) /\ g \in [L -> Els(p)]
    <2>1. \A y \in L : y \in Els(q) /\ g[y] \in Els(p)
      BY <1>2
    <2>2. g = [y \in L |-> g[y]]
      BY DEF g
    <2> QED BY <2>1, <2>2
  <1>9. \A x, y \in L : g[x] = g[y] => x = y
    BY <1>2
  <1>10. \A y \in L : q.els[y].def = p.els[g[y]].def /\ q.els[y].dyn = p.els[g[y]].dyn
    BY <1>2
  <1>11. LinksOK(q)
    <2>1. PartsType(p, n) /\ PartsType(q, m) /\ LinksOK(p)
      OBVIOUS
    <2>2. \A l \in q.wires : \A a, b \in l : q.els[a[1]].home = q.els[b[1]].home
      OBVIOUS
    <2> QED BY ONLY <1>5, <1>6, <1>7, <1>8, <1>9, <1>10, <2>1, <2>2, Traced, SMTT(30)
  <1> QED BY <1>4, <1>11

(* A part is pasted, with the systems under it.                              *)
LEMMA PastedOne ==
    ASSUME NEW p, NEW n \in Nat \ {0}, ModelOK(p, n), NEW target \in Systems(p),
           NEW e \in 1..(n - 1), NEW part \in PartRecord,
           part.dyn # {} => part.def = "script",
           \A x, y \in part.dyn : x.id = y.id => x = y,
           e \in Els(p) => p.els[e].def = part.def,
           NEW acc, acc.p = p, acc.next = n
    PROVE  LET q == PasteOne(acc, e, part, target).p IN
           /\ ModelOK(q, 2 * n) /\ MorePart(p, q, n)
           /\ n + e \in Els(q) \ Els(p) /\ q.els[n + e].def = part.def
           /\ q.els[n + e].dyn = part.dyn /\ q.els[n + e].home = target
           /\ \A l \in q.wires \cup q.bus : \A end \in l : end[1] # n + e
  <1> DEFINE q == PasteOne(acc, e, part, target).p
             sub == IF e \in Systems(p) THEN Tree(p, e) ELSE {}
             inner == {x \in Els(p) : p.els[x].home \in sub}
             New(links) == UNION {Copies(links, [x \in In(p, s) |-> n + x]) : s \in sub}
             all == inner \cup {e}
             systems == {x \in inner : p.els[x].def = Container}
                        \cup IF part.def = Container THEN {e} ELSE {}
             Home(x) == IF x = e THEN target ELSE n + p.els[x].home
  <1>0. /\ DOMAIN p = Fields /\ PartsType(p, n) /\ LinksOK(p)
        /\ SystemsOK(p) /\ CasesOK(p, n)
    BY Pieces
  <1>1. /\ DOMAIN q = Fields
        /\ q.els = [y \in Els(p) \cup {n + x : x \in all} |->
                      IF y \in Els(p) THEN p.els[y]
                      ELSE [(IF y = n + e THEN part ELSE p.els[y - n]) EXCEPT !.home = Home(y - n)]]
        /\ q.parent = [t \in Systems(p) \cup {n + x : x \in systems} |->
                         IF t \in Systems(p) THEN p.parent[t] ELSE Home(t - n)]
        /\ q.wires = p.wires \cup New(p.wires) /\ q.bus = p.bus \cup New(p.bus)
        /\ q.cases = p.cases /\ q.over = p.over /\ q.studies = p.studies
    <2> DEFINE E == [y \in DOMAIN p.els \cup {n + x : x \in all} |->
                      IF y \in DOMAIN p.els THEN p.els[y]
                      ELSE [(IF y = n + e THEN part ELSE p.els[y - n]) EXCEPT !.home = Home(y - n)]]
               R == [t \in DOMAIN p.parent \cup {n + x : x \in systems} |->
                         IF t \in DOMAIN p.parent THEN p.parent[t] ELSE Home(t - n)]
               W == p.wires \cup New(p.wires)
               B == p.bus \cup New(p.bus)
    <2>1. q = [p EXCEPT !.els = E, !.parent = R, !.wires = W, !.bus = B]
      BY DEF PasteOne
    <2> HIDE DEF E, R, W, B, q
    <2>2. /\ DOMAIN q = Fields /\ q.els = E /\ q.parent = R /\ q.wires = W /\ q.bus = B
          /\ q.cases = p.cases /\ q.over = p.over /\ q.studies = p.studies
      BY <1>0, <2>1 DEF Fields
    <2> HIDE DEF all, systems, Home, New
    <2> QED BY <2>2 DEF E, R, W, B, Els, Systems
  <1>2. SystemsOwned(p)
    BY <1>0 DEF SystemsOK
  <1>3. /\ Systems(p) \subseteq Nat /\ Root \in Systems(p) /\ Root \notin Els(p)
        /\ \A x \in Els(p) : x \in Systems(p) <=> p.els[x].def = Container
        /\ \A x \in Els(p) : p.els[x].home \in Systems(p) /\ p.els[x].home < x
        /\ \A t \in Systems(p) \ {Root} :
             t \in Els(p) /\ p.parent[t] = p.els[t].home /\ p.parent[t] \in Systems(p)
    BY <1>0, <1>2, SystemsAre
  <1>4. Els(p) \subseteq 1..(n - 1) /\ Systems(p) \subseteq 0..(n - 1)
    BY <1>0, <1>3 DEF PartsType, Root
  <1>5. /\ sub \subseteq Systems(p)
        /\ \A t \in sub : t >= e /\ (t # e => p.parent[t] \in sub)
        /\ sub # {} => e \in sub /\ e \in Els(p) /\ part.def = Container
    <2>1. CASE e \notin Systems(p)
      BY <2>1
    <2>2. CASE e \in Systems(p)
      <3>1. /\ e \in Tree(p, e) /\ Tree(p, e) \subseteq Systems(p)
            /\ \A t \in Systems(p) :
                 t \in Tree(p, e) <=> t = e \/ (t > e /\ p.parent[t] \in Tree(p, e))
        BY <1>0, <1>2, <2>2, TreeIs
      <3>2. e # Root
        BY DEF Root
      <3>3. e \in Els(p) /\ p.els[e].def = Container
        BY <1>3, <2>2, <3>2
      <3> QED BY <1>3, <2>2, <3>1, <3>3
    <2> QED BY <2>1, <2>2
  <1> HIDE DEF q, sub, New
  <1>6. /\ inner \subseteq Els(p) /\ e \notin inner
        /\ \A x \in inner : p.els[x].home \in sub /\ p.els[x].home \in Nat
    <2>1. ASSUME e \in inner PROVE FALSE
      <3>1. p.els[e].home \in sub /\ p.els[e].home < e /\ p.els[e].home \in Systems(p)
        BY <1>3, <2>1
      <3>2. p.els[e].home >= e /\ p.els[e].home \in Nat
        BY <1>3, <1>5, <3>1
      <3> QED BY <3>1, <3>2
    <2> QED BY <1>3, <1>5, <2>1
  <1>7. /\ Els(q) = Els(p) \cup {n + x : x \in all}
        /\ \A x \in Els(p) : q.els[x] = p.els[x]
        /\ all \subseteq 1..(n - 1)
        /\ \A x \in all : n + x \notin Els(p) /\ (n + x) - n = x
    BY <1>1, <1>4, <1>6 DEF Els
  <1>8. q.els[n + e] = [part EXCEPT !.home = target]
    <2>1. n + e \in Els(p) \cup {n + x : x \in all} /\ n + e \notin Els(p) /\ (n + e) - n = e
      BY <1>7
    <2>2. q.els[n + e] = [part EXCEPT !.home = Home((n + e) - n)]
      BY <1>1, <2>1
    <2> QED BY <2>1, <2>2
  <1>9. ASSUME NEW x \in inner
        PROVE  q.els[n + x] = [p.els[x] EXCEPT !.home = n + p.els[x].home]
    <2>1. /\ n + x \in Els(p) \cup {n + y : y \in all} /\ n + x \notin Els(p)
          /\ (n + x) - n = x /\ x # e /\ n + x # n + e
      BY <1>4, <1>6, <1>7
    <2>2. q.els[n + x] = [p.els[(n + x) - n] EXCEPT !.home = Home((n + x) - n)]
      BY <1>1, <2>1
    <2> QED BY <2>1, <2>2
  <1>10. /\ sub \subseteq systems /\ systems \subseteq all
         /\ \A x \in inner : x \in systems <=> p.els[x].def = Container
         /\ e \in systems <=> part.def = Container
         /\ \A x \in all : x \in inner \/ x = e
    <2>1. ASSUME NEW t \in sub PROVE t \in systems
      <3>1. CASE t = e
        BY <1>5, <3>1
      <3>2. CASE t # e
        <4>1. t \in Systems(p) /\ t >= e /\ p.parent[t] \in sub /\ t # Root
          BY <1>5, <3>2 DEF Root
        <4>2. t \in Els(p) /\ p.els[t].home \in sub /\ p.els[t].def = Container
          BY <1>3, <4>1
        <4> QED BY <4>2
      <3> QED BY <3>1, <3>2
    <2> QED BY <1>6, <2>1
  <1>11. \A x \in all : Home(x) = q.els[n + x].home /\ Home(x) \in Nat
    <2>1. ASSUME NEW x \in inner PROVE Home(x) = q.els[n + x].home /\ Home(x) \in Nat
      <3>1. p.els[x] \in PartRecord /\ x # e /\ p.els[x].home \in Nat
        BY <1>0, <1>6 DEF PartsType
      <3>2. q.els[n + x].home = n + p.els[x].home
        BY <1>9, <3>1 DEF PartRecord
      <3> QED BY <3>1, <3>2
    <2>2. Home(e) = q.els[n + e].home /\ Home(e) \in Nat
      BY <1>3, <1>8 DEF PartRecord
    <2> QED BY <1>10, <2>1, <2>2
  <1> HIDE DEF inner, all, systems, Home
  <1>12. PartsType(q, 2 * n)
    <2>1. Els(q) \subseteq 1..(2 * n - 1)
      <3>1. \A x \in all : x \in 1..(n - 1) /\ n + x \in 1..(2 * n - 1)
        BY <1>7
      <3> QED BY <1>4, <1>7, <3>1
    <2>2. ASSUME NEW x \in Els(q)
          PROVE  /\ q.els[x] \in PartRecord
                 /\ q.els[x].dyn # {} => q.els[x].def = "script"
                 /\ \A y, z \in q.els[x].dyn : y.id = z.id => y = z
      <3>1. CASE x \in Els(p)
        BY <1>0, <1>7, <3>1 DEF PartsType
      <3>2. ASSUME NEW y \in inner, x = n + y
            PROVE  /\ q.els[x] \in PartRecord
                   /\ q.els[x].dyn # {} => q.els[x].def = "script"
                   /\ \A w, z \in q.els[x].dyn : w.id = z.id => w = z
        <4>1. /\ p.els[y] \in PartRecord
              /\ p.els[y].dyn # {} => p.els[y].def = "script"
              /\ \A w, z \in p.els[y].dyn : w.id = z.id => w = z
          BY <1>0, <1>6 DEF PartsType
        <4>2. n + p.els[y].home \in Nat
          BY <1>6
        <4>3. /\ q.els[x] \in PartRecord
              /\ q.els[x].def = p.els[y].def /\ q.els[x].dyn = p.els[y].dyn
          BY <1>9, <3>2, <4>1, <4>2 DEF PartRecord
        <4> QED BY <4>1, <4>3
      <3>3. CASE x = n + e
        <4>1. /\ q.els[x] \in PartRecord /\ q.els[x].def = part.def /\ q.els[x].dyn = part.dyn
          BY <1>3, <1>8, <3>3 DEF PartRecord
        <4> QED BY <4>1
      <3> QED BY <1>7, <1>10, <3>1, <3>2, <3>3
    <2>3. q.els \in [Els(q) -> PartRecord]
      <3>1. q.els = [x \in Els(q) |-> q.els[x]]
        BY <1>1 DEF Els
      <3> QED BY <2>2, <3>1
    <2> QED BY <2>1, <2>2, <2>3 DEF PartsType
  <1> DEFINE copy == [x \in inner |-> n + x]
             r1 == [els |-> q.els, wires |-> p.wires, bus |-> p.bus]
             r2 == [els |-> q.els, wires |-> New(p.wires), bus |-> New(p.bus)]
  <1>13. \A x \in inner : /\ q.els[n + x].def = p.els[x].def /\ q.els[n + x].dyn = p.els[x].dyn
                          /\ q.els[n + x].home = n + p.els[x].home
    <2> TAKE x \in inner
    <2>1. p.els[x] \in PartRecord
      BY <1>0, <1>6 DEF PartsType
    <2> QED BY <1>9, <2>1 DEF PartRecord
  <1>14. ASSUME NEW links \in {p.wires, p.bus}, NEW l \in New(links)
         PROVE  /\ l \in Copies(links, copy)
                /\ \A a, b \in l : q.els[a[1]].home = q.els[b[1]].home
    <2>1. PICK s \in sub : l \in Copies(links, [x \in In(p, s) |-> n + x])
      BY DEF New
    <2> DEFINE idS == [x \in In(p, s) |-> n + x]
    <2>2. PICK k \in links : (\A end \in k : end[1] \in In(p, s)) /\ l = Renumbered(k, idS)
      BY <2>1 DEF Copies, Within
    <2>3. In(p, s) \subseteq inner /\ \A x \in In(p, s) : p.els[x].home = s
      BY DEF In, inner
    <2>4. \A end \in k : idS[end[1]] = n + end[1] /\ copy[end[1]] = n + end[1]
      BY <2>2, <2>3
    <2>5. l = {<<n + end[1], end[2]>> : end \in k} /\ Renumbered(k, copy) = l
      <3>1. Renumbered(k, idS) = {<<n + end[1], end[2]>> : end \in k}
        BY <2>4 DEF Renumbered
      <3>2. Renumbered(k, copy) = {<<n + end[1], end[2]>> : end \in k}
        BY <2>4 DEF Renumbered
      <3> QED BY <2>2, <3>1, <3>2
    <2>6. k \in Within(links, DOMAIN copy)
      BY <2>2, <2>3 DEF Within
    <2>7. l \in Copies(links, copy)
      BY <2>5, <2>6 DEF Copies
    <2>8. \A a \in l : q.els[a[1]].home = n + s
      <3> TAKE a \in l
      <3>1. PICK end \in k : a = <<n + end[1], end[2]>>
        BY <2>5
      <3>2. a[1] = n + end[1] /\ end[1] \in inner /\ p.els[end[1]].home = s
        BY <2>2, <2>3, <3>1
      <3> QED BY <1>13, <3>2
    <2> QED BY <2>7, <2>8
  <1>15. LinksOK(r2) /\ \A l \in r2.wires \cup r2.bus : \A end \in l :
                            \E x \in inner : end[1] = n + x
    <2>1. PartsType(r2, 2 * n) /\ Els(r2) = Els(q)
      BY <1>12 DEF PartsType, Els
    <2>2. inner \in SUBSET Els(p) /\ copy \in [inner -> Els(r2)]
      BY <1>6, <1>7, <1>10, <2>1 DEF all, inner
    <2>3. \A x, y \in inner : copy[x] = copy[y] => x = y
      BY <1>4, <1>6
    <2>4. \A x \in inner : r2.els[copy[x]].def = p.els[x].def /\ r2.els[copy[x]].dyn = p.els[x].dyn
      BY <1>13
    <2>5. r2.wires \subseteq Copies(p.wires, copy) /\ r2.bus \subseteq Copies(p.bus, copy)
      BY <1>14
    <2>6. \A l \in r2.wires : \A a, b \in l : r2.els[a[1]].home = r2.els[b[1]].home
      <3>1. \A l \in New(p.wires) : \A a, b \in l : q.els[a[1]].home = q.els[b[1]].home
        BY <1>14
      <3>2. r2.wires = New(p.wires) /\ r2.els = q.els
        OBVIOUS
      <3> HIDE DEF r2
      <3> QED BY <3>1, <3>2
    <2> HIDE DEF r2, copy
    <2>7. /\ LinksOK(r2)
          /\ \A l \in r2.wires \cup r2.bus : \A end \in l : \E x \in inner : end[1] = copy[x]
      <3>1. PartsType(p, n) /\ LinksOK(p)
        BY <1>0
      <3> QED BY ONLY <3>1, <2>1, <2>2, <2>3, <2>4, <2>5, <2>6, Copied, SMTT(60)
    <2>8. \A x \in inner : copy[x] = n + x
      BY DEF copy
    <2> QED BY <2>7, <2>8
  <1>16. LinksOK(r1) /\ \A l \in r1.wires \cup r1.bus : \A end \in l : end[1] \in Els(p)
    <2>1. \A l \in p.wires \cup p.bus : \A end \in l : end[1] \in Els(p)
      BY <1>0, EndIs DEF LinksOK, LinksType
    <2>2. Els(r1) = Els(q)
      BY DEF Els
    <2> QED BY <1>0, <1>7, <2>1, <2>2, FewerLinks
  <1>17. \A x \in inner : n + x \notin Els(p) /\ n + x # n + e /\ n + x >= n
    <2> TAKE x \in inner
    <2>1. x \in Nat /\ x # e /\ x \in all
      BY <1>4, <1>6 DEF all
    <2> QED BY <1>7, <2>1
  <1>18. LinksOK(q)
    <2>1. \A l \in r1.wires \cup r1.bus : \A k \in r2.wires \cup r2.bus : l \cap k = {}
      BY <1>15, <1>16, <1>17
    <2>2. /\ r1.els = q.els /\ r2.els = q.els
          /\ q.wires = r1.wires \cup r2.wires /\ q.bus = r1.bus \cup r2.bus
      BY <1>1
    <2> HIDE DEF r1, r2
    <2> QED BY <1>15, <1>16, <2>1, <2>2, Joined
  <1>19. /\ p.wires \subseteq q.wires /\ p.bus \subseteq q.bus
         /\ \A l \in (q.wires \ p.wires) \cup (q.bus \ p.bus) : \A end \in l : end[1] >= n
         /\ \A l \in q.wires \cup q.bus : \A end \in l : end[1] # n + e
    <2>1. \A l \in q.wires \cup q.bus : l \in r1.wires \cup r1.bus \/ l \in r2.wires \cup r2.bus
      BY <1>1
    <2>2. n + e \notin Els(p)
      BY <1>7 DEF all
    <2> QED BY <1>1, <1>15, <1>16, <1>17, <2>1, <2>2
  <1>20. SystemsOK(q)
    <2>1. Systems(q) = Systems(p) \cup {n + x : x \in systems}
      BY <1>1 DEF Systems
    <2>2. \A x \in all : n + x \notin Systems(p) /\ x \in Nat
      BY <1>4, <1>7
    <2>3. \A t \in Systems(p) : q.parent[t] = p.parent[t]
      BY <1>1
    <2>4. \A x \in systems : q.parent[n + x] = Home(x)
      <3> TAKE x \in systems
      <3>1. n + x \in Systems(p) \cup {n + y : y \in systems} /\ n + x \notin Systems(p) /\ (n + x) - n = x
        BY <1>7, <1>10, <2>2
      <3> QED BY <1>1, <3>1
    <2>5. q.parent \in [Systems(q) -> Nat \cup {None}]
      <3>1. \A t \in Systems(p) : p.parent[t] \in Nat \cup {None}
        BY <1>0 DEF SystemsOK
      <3>2. \A t \in Systems(q) : q.parent[t] \in Nat \cup {None}
        BY <1>10, <1>11, <2>1, <2>3, <2>4, <3>1
      <3>3. q.parent = [t \in Systems(q) |-> q.parent[t]]
        BY <1>1 DEF Systems
      <3> QED BY <3>2, <3>3
    <2>6. \A x \in all : n + x \in Systems(q) <=> q.els[n + x].def = Container
      <3>1. \A x \in all : n + x \in Systems(q) <=> x \in systems
        BY <1>10, <2>1, <2>2
      <3>2. q.els[n + e].def = part.def
        BY <1>8 DEF PartRecord
      <3> QED BY <1>10, <1>13, <3>1, <3>2
    <2>7. \A x \in Els(p) : x \in Systems(q) <=> q.els[x].def = Container
      <3>1. \A x \in Els(p) : x \in Systems(q) <=> x \in Systems(p)
        BY <1>7, <1>10, <2>1
      <3> QED BY <1>3, <1>7, <3>1
    <2>8. \A t \in Systems(q) \ {Root} : t \in Els(q)
      BY <1>3, <1>7, <1>10, <2>1
    <2>9. Systems(q) = {Root} \cup {x \in Els(q) : q.els[x].def = Container}
      BY <1>3, <1>7, <2>1, <2>6, <2>7, <2>8
    <2>10. q.parent[Root] = None
      BY <1>2, <1>3, <2>3 DEF SystemsOwned
    <2>11. \A t \in Systems(q) \ {Root} : q.parent[t] = q.els[t].home
      <3>1. \A t \in Systems(p) \ {Root} : q.parent[t] = q.els[t].home
        BY <1>3, <1>7, <2>3
      <3>2. \A x \in systems : q.parent[n + x] = q.els[n + x].home
        BY <1>10, <1>11, <2>4
      <3> QED BY <2>1, <3>1, <3>2
    <2>12. \A x \in Els(q) : q.els[x].home \in Systems(q) \cap 0..(x - 1)
      <3>1. \A x \in Els(p) : q.els[x].home \in Systems(q) \cap 0..(x - 1)
        BY <1>2, <1>7, <2>1 DEF SystemsOwned
      <3>2. ASSUME NEW x \in inner
            PROVE  q.els[n + x].home \in Systems(q) \cap 0..((n + x) - 1)
        <4> DEFINE h == p.els[x].home
        <4>1. /\ q.els[n + x].home = n + h /\ h \in sub /\ h \in Nat /\ h < x /\ x \in Nat
          BY <1>3, <1>4, <1>6, <1>13
        <4>2. n + h \in Systems(q)
          BY <1>10, <2>1, <4>1
        <4> HIDE DEF h
        <4> QED BY <4>1, <4>2
      <3>3. q.els[n + e].home \in Systems(q) \cap 0..((n + e) - 1)
        <4>1. q.els[n + e].home = target /\ target \in 0..(n - 1)
          BY <1>4, <1>8 DEF PartRecord
        <4> QED BY <2>1, <4>1
      <3>4. \A x \in Els(q) : x \in Els(p) \/ x = n + e \/ \E y \in inner : x = n + y
        BY <1>7, <1>10
      <3> QED BY <3>1, <3>2, <3>3, <3>4
    <2> QED BY <2>5, <2>9, <2>10, <2>11, <2>12 DEF SystemsOK, SystemsOwned
  <1>21. CasesOK(q, 2 * n)
    <2>1. CasesOK(p, 2 * n)
      <3>1. n \in Nat /\ 2 * n \in Nat /\ n <= 2 * n
        OBVIOUS
      <3> QED BY <3>1, Later, Pieces
    <2> QED BY <1>1, <2>1, SameCases
  <1>22. ModelOK(q, 2 * n)
    BY <1>1, <1>12, <1>18, <1>20, <1>21, Pieces
  <1>23. MorePart(p, q, n)
    <2>1. \A x \in Els(q) : x \in Els(p) \/ x >= n
      <3>1. \A x \in all : n + x >= n
        BY <1>7
      <3> QED BY <1>7, <3>1
    <2>2. Systems(p) \subseteq Systems(q)
      BY <1>1 DEF Systems
    <2>3. Els(p) \subseteq Els(q) /\ \A x \in Els(p) : q.els[x] = p.els[x]
      BY <1>7
    <2> QED BY <1>1, <1>19, <2>1, <2>2, <2>3 DEF MorePart
  <1>24. /\ n + e \in Els(q) \ Els(p) /\ q.els[n + e].def = part.def
         /\ q.els[n + e].dyn = part.dyn /\ q.els[n + e].home = target
    <2>1. n + e \in Els(q) \ Els(p)
      BY <1>7 DEF all
    <2> QED BY <1>8, <2>1 DEF PartRecord
  <1> QED BY <1>19, <1>22, <1>23, <1>24 DEF q

\* A set of numbers has a least one.
LEMMA LeastNat ==
    ASSUME NEW T \in SUBSET Nat, T # {}
    PROVE  \E m \in T : \A x \in T : m <= x
  <1> DEFINE Below(x) == 0..x
             F == {Below(x) : x \in T}
  <1>1. F \subseteq FiniteSubsetsOf(Nat)
    <2>1. ASSUME NEW x \in T PROVE Below(x) \subseteq Nat /\ IsFiniteSet(Below(x))
      BY FS_Interval
    <2> QED BY <2>1 DEF FiniteSubsetsOf
  <1>2. PICK U \in F : \A V \in F : ~(<<V, U>> \in StrictSubsetOrdering(Nat))
    <2>1. F # {}
      OBVIOUS
    <2> HIDE DEF F
    <2> QED BY <1>1, <2>1, WFMin, FS_StrictSubsetOrderingWellFounded
  <1>3. PICK m \in T : U = Below(m)
    OBVIOUS
  <1>4. ASSUME NEW x \in T, x < m PROVE FALSE
    <2>1. Below(x) \in SUBSET Nat /\ Below(m) \in SUBSET Nat /\ Below(x) \subseteq Below(m)
      BY <1>4
    <2>2. m \in Below(m) /\ m \notin Below(x)
      BY <1>4
    <2>3. <<Below(x), Below(m)>> \in StrictSubsetOrdering(Nat)
      BY <2>1, <2>2 DEF StrictSubsetOrdering
    <2> QED BY <1>2, <1>3, <2>3
  <1> QED BY <1>4

(* What the first k parts of the clipboard add up to, in the order pasted.   *)
StepFrom(f, k, data, target) ==
    IF k \in DOMAIN data.els THEN PasteOne(f, k, data.els[k], target) ELSE f

IsUpTo(f, n, start, data, target) ==
    f = [e \in 0..(n - 1) |-> IF e = 0 THEN start
                              ELSE IF e \in DOMAIN data.els
                                   THEN PasteOne(f[e - 1], e, data.els[e], target)
                                   ELSE f[e - 1]]

\* There is such a function, as there is one for each shorter prefix.
LEMMA UpTo ==
    ASSUME NEW n \in Nat \ {0}, NEW start, NEW data, NEW target
    PROVE  \E f : IsUpTo(f, n, start, data, target)
  <1> DEFINE Good(f, k) == f = [e \in 0..k |->
                         IF e = 0 THEN start
                         ELSE IF e \in DOMAIN data.els
                              THEN PasteOne(f[e - 1], e, data.els[e], target)
                              ELSE f[e - 1]]
             T == {k \in Nat : ~\E f : Good(f, k)}
  <1>1. \E f : Good(f, 0)
    <2> DEFINE g == [e \in 0..0 |-> start]
    <2>1. Good(g, 0)
      OBVIOUS
    <2> QED BY <2>1
  <1>2. ASSUME NEW k \in Nat, NEW f, Good(f, k)
        PROVE  \E g : Good(g, k + 1)
    <2> DEFINE g == [e \in 0..(k + 1) |-> IF e <= k THEN f[e] ELSE StepFrom(f[k], k + 1, data, target)]
               h == [e \in 0..(k + 1) |->
                         IF e = 0 THEN start
                         ELSE IF e \in DOMAIN data.els
                              THEN PasteOne(g[e - 1], e, data.els[e], target)
                              ELSE g[e - 1]]
    <2>0. \A e \in 0..k : g[e] = f[e] /\ e \in 0..(k + 1)
      OBVIOUS
    <2>1. ASSUME NEW e \in 0..k PROVE g[e] = h[e]
      <3>1. f[e] = IF e = 0 THEN start
                   ELSE IF e \in DOMAIN data.els
                        THEN PasteOne(f[e - 1], e, data.els[e], target)
                        ELSE f[e - 1]
        BY <1>2
      <3>2. e # 0 => e - 1 \in 0..k
        OBVIOUS
      <3>3. e # 0 => g[e - 1] = f[e - 1]
        BY <2>0, <3>2
      <3>4. h[e] = IF e = 0 THEN start
                   ELSE IF e \in DOMAIN data.els
                        THEN PasteOne(g[e - 1], e, data.els[e], target)
                        ELSE g[e - 1]
        BY <2>0
      <3>5. g[e] = f[e]
        BY <2>0
      <3> HIDE DEF g, h
      <3> QED BY <3>1, <3>3, <3>4, <3>5
    <2>2. g[k + 1] = h[k + 1]
      <3>1. g[k] = f[k] /\ (k + 1) - 1 = k /\ k + 1 \in 0..(k + 1) /\ k + 1 # 0 /\ ~(k + 1 <= k)
        BY <2>0
      <3>2. g[k + 1] = StepFrom(f[k], k + 1, data, target)
        BY <3>1
      <3>3. h[k + 1] = IF k + 1 \in DOMAIN data.els
                       THEN PasteOne(g[(k + 1) - 1], k + 1, data.els[k + 1], target)
                       ELSE g[(k + 1) - 1]
        BY <3>1
      <3> HIDE DEF g, h
      <3> QED BY <3>1, <3>2, <3>3 DEF StepFrom
    <2>3. \A e \in 0..(k + 1) : e \in 0..k \/ e = k + 1
      OBVIOUS
    <2>4. \A e \in 0..(k + 1) : g[e] = h[e]
      BY <2>1, <2>2, <2>3
    <2>5. g = h
      <3>1. g = [e \in 0..(k + 1) |-> g[e]] /\ h = [e \in 0..(k + 1) |-> h[e]]
        OBVIOUS
      <3> HIDE DEF g, h
      <3> QED BY <2>4, <3>1
    <2>6. Good(g, k + 1)
      <3>1. Good(g, k + 1) <=> g = h
        OBVIOUS
      <3> QED BY <2>5, <3>1
    <2> QED BY <2>6
  <1> HIDE DEF Good
  <1>3. T = {}
    <2> SUFFICES ASSUME T # {} PROVE FALSE
      OBVIOUS
    <2>1. PICK m \in T : \A x \in T : m <= x
      BY LeastNat
    <2>2. m # 0 /\ m \in Nat /\ m - 1 \in Nat
      BY <1>1
    <2>3. m - 1 \notin T
      BY <2>1, <2>2
    <2>4. \E f : Good(f, m - 1)
      BY <2>2, <2>3
    <2>5. \E f : Good(f, (m - 1) + 1)
      BY <1>2, <2>2, <2>4
    <2> QED BY <2>2, <2>5
  <1>4. \E f : Good(f, n - 1)
    BY <1>3
  <1> QED BY <1>4 DEF Good, IsUpTo

(* What can be pasted: parts and links like those of a model, and of the     *)
(* same kinds as the parts that are still there.                            *)
Pastable(data, p, n) ==
    /\ PartsType(data, n) /\ LinksOK(data)
    /\ \A e \in Els(data) \cap Els(p) : p.els[e].def = data.els[e].def

\* After the parts up to k of data: their copies stand in a model that holds all
\* of p, each under a number of its own, with no link yet.
Pasting(acc, k, p, n, data, target) ==
    /\ acc.next \in Nat /\ acc.next >= n
    /\ ModelOK(acc.p, acc.next) /\ MorePart(p, acc.p, n)
    /\ acc.id \in [Els(data) \cap 1..k -> Els(acc.p)]
    /\ \A x \in DOMAIN acc.id :
         /\ acc.id[x] >= n /\ \A y \in DOMAIN acc.id : acc.id[x] = acc.id[y] => x = y
         /\ acc.p.els[acc.id[x]].def = data.els[x].def
         /\ acc.p.els[acc.id[x]].dyn = data.els[x].dyn
         /\ acc.p.els[acc.id[x]].home = target
         /\ \A l \in acc.p.wires \cup acc.p.bus : \A end \in l : end[1] # acc.id[x]

(* Adding parts twice adds parts.                                            *)
LEMMA MoreMore ==
    ASSUME NEW p, NEW q, NEW r, NEW n \in Nat, NEW m \in Nat, n <= m, PartsType(r, m + m),
           MorePart(p, q, n), MorePart(q, r, m),
           \A l \in r.wires \cup r.bus : \A end \in l : end[1] \in Nat
    PROVE  MorePart(p, r, n)
  <1>1. Els(r) \subseteq Nat
    BY DEF PartsType
  <1>2. \A e \in Els(r) : e \in Els(p) \/ e >= n
    <2> TAKE e \in Els(r)
    <2>1. e \in Els(q) \/ e >= m
      BY DEF MorePart
    <2>2. e \in Els(q) => e \in Els(p) \/ e >= n
      BY DEF MorePart
    <2>3. e \in Nat
      BY <1>1
    <2> QED BY <2>1, <2>2, <2>3
  <1>3. ASSUME NEW l \in (r.wires \ p.wires) \cup (r.bus \ p.bus), NEW end \in l
        PROVE  end[1] >= n
    <2>1. CASE l \in (q.wires \ p.wires) \cup (q.bus \ p.bus)
      BY <1>3, <2>1 DEF MorePart
    <2>2. CASE l \in (r.wires \ q.wires) \cup (r.bus \ q.bus)
      <3>1. end[1] >= m /\ end[1] \in Nat
        BY <1>3, <2>2 DEF MorePart
      <3> QED BY <3>1
    <2> QED BY <2>1, <2>2
  <1>4. Els(p) \subseteq Els(q) /\ Els(q) \subseteq Els(r)
    BY DEF MorePart
  <1>5. \A e \in Els(p) : r.els[e] = p.els[e]
    BY <1>4 DEF MorePart
  <1> QED BY <1>2, <1>3, <1>4, <1>5 DEF MorePart

(* One more part of the clipboard is pasted, or skipped if it is not there.   *)
LEMMA PastedNext ==
    ASSUME NEW p, NEW n \in Nat \ {0}, NEW data, Pastable(data, p, n),
           NEW target \in Systems(p), NEW k \in 1..(n - 1), NEW acc,
           Pasting(acc, k - 1, p, n, data, target)
    PROVE  Pasting(StepFrom(acc, k, data, target), k, p, n, data, target)
  <1>0. /\ acc.next \in Nat /\ acc.next >= n /\ acc.next \in Nat \ {0}
        /\ ModelOK(acc.p, acc.next) /\ MorePart(p, acc.p, n)
        /\ acc.id \in [Els(data) \cap 1..(k - 1) -> Els(acc.p)]
    BY DEF Pasting
  <1>1. CASE k \notin Els(data)
    <2>1. Els(data) \cap 1..k = Els(data) \cap 1..(k - 1)
      BY <1>1
    <2>2. StepFrom(acc, k, data, target) = acc
      BY <1>1 DEF StepFrom, Els
    <2>3. Pasting(acc, k, p, n, data, target)
      <3>1. acc.id \in [Els(data) \cap 1..k -> Els(acc.p)]
        BY <1>0, <2>1
      <3> QED BY <3>1 DEF Pasting
    <2> QED BY <2>2, <2>3
  <1>2. CASE k \in Els(data)
    <2> DEFINE part == data.els[k]
               res == PasteOne(acc, k, part, target)
               q == res.p
               m == acc.next
    <2>1. StepFrom(acc, k, data, target) = res
      BY <1>2 DEF StepFrom, Els
    <2>2. /\ part \in PartRecord
          /\ part.dyn # {} => part.def = "script"
          /\ \A x, y \in part.dyn : x.id = y.id => x = y
      BY <1>2 DEF Pastable, PartsType
    <2>3. k \in Els(acc.p) => acc.p.els[k].def = part.def
      <3>1. k \in Els(acc.p) => k \in Els(p) /\ acc.p.els[k] = p.els[k]
        BY <1>0 DEF MorePart
      <3> QED BY <1>2, <3>1 DEF Pastable
    <2>4. target \in Systems(acc.p) /\ k \in 1..(m - 1)
      BY <1>0 DEF MorePart
    <2>5. /\ ModelOK(q, 2 * m) /\ MorePart(acc.p, q, m)
          /\ m + k \in Els(q) \ Els(acc.p) /\ q.els[m + k].def = part.def
          /\ q.els[m + k].dyn = part.dyn /\ q.els[m + k].home = target
          /\ \A l \in q.wires \cup q.bus : \A end \in l : end[1] # m + k
      <3> HIDE DEF part
      <3>1. acc.p = acc.p /\ acc.next = acc.next
        OBVIOUS
      <3> QED BY <1>0, <2>2, <2>3, <2>4, <3>1, PastedOne
    <2>6. res.next = 2 * m /\ DOMAIN res.id = DOMAIN acc.id \cup {k}
          /\ res.id = [x \in DOMAIN acc.id \cup {k} |-> IF x = k THEN m + k ELSE acc.id[x]]
      BY DEF PasteOne
    <2> HIDE DEF res, part
    <2>7. /\ DOMAIN acc.id = Els(data) \cap 1..(k - 1) /\ k \notin DOMAIN acc.id
          /\ DOMAIN res.id = Els(data) \cap 1..k
      <3>1. DOMAIN acc.id = Els(data) \cap 1..(k - 1)
        BY <1>0
      <3>2. 1..k = 1..(k - 1) \cup {k} /\ k \notin 1..(k - 1)
        OBVIOUS
      <3> QED BY <1>2, <2>6, <3>1, <3>2
    <2>8. PartsType(q, 2 * m) /\ LinksOK(q) /\ PartsType(acc.p, m)
      BY <1>0, <2>5, Pieces
    <2>9. /\ Els(q) \subseteq Nat /\ Els(acc.p) \subseteq 1..(m - 1)
          /\ \A l \in q.wires \cup q.bus : \A end \in l : end[1] \in Nat
      <3>1. Els(q) \subseteq 1..(2 * m - 1) /\ Els(acc.p) \subseteq 1..(m - 1)
        BY <2>8 DEF PartsType
      <3>2. \A l \in q.wires \cup q.bus : \A end \in l : end[1] \in Els(q)
        BY <2>8, EndIs DEF LinksOK, LinksType
      <3> QED BY <1>0, <3>1, <3>2
    <2>10. MorePart(p, q, n)
      <3>1. PartsType(q, m + m)
        <4>1. m + m = 2 * m
          BY <1>0
        <4> QED BY <2>8, <4>1
      <3>2. n \in Nat /\ m \in Nat /\ n <= m
        BY <1>0
      <3> QED BY <1>0, <2>5, <2>9, <3>1, <3>2, MoreMore
    <2>11. /\ res.id[k] = m + k
           /\ \A x \in DOMAIN acc.id : res.id[x] = acc.id[x] /\ acc.id[x] \in Els(acc.p) /\ x # k
      BY <1>0, <2>6, <2>7
    <2>12. Els(acc.p) \subseteq Els(q) /\ \A x \in Els(acc.p) : q.els[x] = acc.p.els[x]
      BY <2>5 DEF MorePart
    <2>13. res.id \in [Els(data) \cap 1..k -> Els(q)]
      <3>1. \A x \in DOMAIN res.id : res.id[x] \in Els(q)
        BY <2>5, <2>6, <2>11, <2>12
      <3> QED BY <2>6, <2>7, <3>1
    <2>14. ASSUME NEW x \in DOMAIN acc.id
           PROVE  /\ res.id[x] >= n /\ \A y \in DOMAIN acc.id : res.id[x] = res.id[y] => x = y
                  /\ res.id[x] # m + k
                  /\ q.els[res.id[x]].def = data.els[x].def
                  /\ q.els[res.id[x]].dyn = data.els[x].dyn
                  /\ q.els[res.id[x]].home = target
                  /\ \A l \in q.wires \cup q.bus : \A end \in l : end[1] # res.id[x]
      <3>1. /\ acc.id[x] >= n /\ \A y \in DOMAIN acc.id : acc.id[x] = acc.id[y] => x = y
            /\ acc.p.els[acc.id[x]].def = data.els[x].def
            /\ acc.p.els[acc.id[x]].dyn = data.els[x].dyn
            /\ acc.p.els[acc.id[x]].home = target
            /\ \A l \in acc.p.wires \cup acc.p.bus : \A end \in l : end[1] # acc.id[x]
        BY DEF Pasting
      <3>2. acc.id[x] < m /\ acc.id[x] \in Nat
        BY <1>0, <2>9, <2>11
      <3>3. ASSUME NEW l \in q.wires \cup q.bus, NEW end \in l
            PROVE  end[1] # acc.id[x]
        <4>1. CASE l \in acc.p.wires \cup acc.p.bus
          BY <3>1, <3>3, <4>1
        <4>2. CASE l \notin acc.p.wires \cup acc.p.bus
          <5>1. end[1] >= m /\ end[1] \in Nat
            BY <2>5, <2>9, <3>3, <4>2 DEF MorePart
          <5> QED BY <1>0, <3>2, <5>1
        <4> QED BY <4>1, <4>2
      <3>4. res.id[x] # m + k
        BY <2>5, <2>11
      <3> QED BY <2>11, <2>12, <3>1, <3>3, <3>4
    <2>15. m + k >= n /\ data.els[k].def = part.def /\ data.els[k].dyn = part.dyn
      BY <1>0 DEF part
    <2>16. res.next \in Nat /\ res.next >= n
      BY <1>0, <2>6
    <2>17. ASSUME NEW x \in DOMAIN res.id
           PROVE  /\ res.id[x] >= n /\ \A y \in DOMAIN res.id : res.id[x] = res.id[y] => x = y
                  /\ q.els[res.id[x]].def = data.els[x].def
                  /\ q.els[res.id[x]].dyn = data.els[x].dyn
                  /\ q.els[res.id[x]].home = target
                  /\ \A l \in q.wires \cup q.bus : \A end \in l : end[1] # res.id[x]
      <3>1. CASE x = k
        <4>1. \A y \in DOMAIN res.id : y = k \/ y \in DOMAIN acc.id
          BY <2>6
        <4> QED BY <2>5, <2>11, <2>14, <2>15, <3>1, <4>1
      <3>2. CASE x \in DOMAIN acc.id
        <4>1. \A y \in DOMAIN res.id : y = k \/ y \in DOMAIN acc.id
          BY <2>6
        <4> QED BY <2>11, <2>14, <3>2, <4>1
      <3> QED BY <2>6, <3>1, <3>2
    <2>18. ModelOK(q, res.next)
      BY <2>5, <2>6
    <2>19. Pasting(res, k, p, n, data, target)
      BY <2>10, <2>13, <2>16, <2>17, <2>18 DEF Pasting
    <2> QED BY <2>1, <2>19
  <1> QED BY <1>1, <1>2

(* All of the clipboard is pasted, then the links among its parts.           *)
LEMMA Cloned ==
    ASSUME next \in Nat \ {0}, ModelOK(project, next), NEW data,
           Pastable(data, project, next), NEW target
    PROVE  LET all == CloneElementsInto(target, data) IN
           /\ all.next \in Nat /\ all.next >= next
           /\ ModelOK(all.p, all.next) /\ MorePart(project, all.p, next)
           /\ DOMAIN all.id \subseteq 1..(next - 1)
           /\ \A x \in DOMAIN all.id : all.id[x] \in Nat \ {0}
  <1> DEFINE none == [p |-> project, next |-> next, id |-> <<>>]
  <1>0. /\ none.p = project /\ none.next = next /\ DOMAIN none.id = {}
        /\ none.id \in [Els(data) \cap 1..0 -> Els(project)]
    <2>1. Els(data) \cap 1..0 = {}
      OBVIOUS
    <2>2. <<>> = [x \in {} |-> 0]
      OBVIOUS
    <2> QED BY <2>1, <2>2
  <1>1. MorePart(project, project, next)
    BY DEF MorePart
  <1>2. CASE target \notin Systems(project)
    <2>1. CloneElementsInto(target, data) = none
      BY <1>2 DEF CloneElementsInto
    <2> HIDE DEF none
    <2> QED BY <1>0, <1>1, <2>1
  <1>3. CASE target \in Systems(project)
    <2> DEFINE f == CHOOSE f : IsUpTo(f, next, none, data, target)
               acc == f[next - 1]
               W == acc.p.wires \cup Copies(data.wires, acc.id)
               B == acc.p.bus \cup Copies(data.bus, acc.id)
    <2>1. CloneElementsInto(target, data) = [acc EXCEPT !.p.wires = W, !.p.bus = B]
      BY <1>3 DEF CloneElementsInto, IsUpTo
    <2>2. IsUpTo(f, next, none, data, target)
      <3> HIDE DEF none
      <3> QED BY UpTo
    <2> HIDE DEF f
    <2>3. f[0] = none /\ \A e \in 1..(next - 1) : f[e] = StepFrom(f[e - 1], e, data, target)
      <3> HIDE DEF none
      <3>1. \A e \in 0..(next - 1) : f[e] =
                         IF e = 0 THEN none
                         ELSE IF e \in DOMAIN data.els
                              THEN PasteOne(f[e - 1], e, data.els[e], target)
                              ELSE f[e - 1]
        BY <2>2 DEF IsUpTo
      <3>2. 0 \in 0..(next - 1) /\ \A e \in 1..(next - 1) : e \in 0..(next - 1) /\ e # 0
        OBVIOUS
      <3> QED BY <3>1, <3>2 DEF StepFrom
    <2>4. Pasting(f[0], 0, project, next, data, target)
      <3>1. f[0].p = project /\ f[0].next = next /\ DOMAIN f[0].id = {}
            /\ f[0].id \in [Els(data) \cap 1..0 -> Els(project)]
        BY <1>0, <2>3
      <3> QED BY <1>1, <3>1 DEF Pasting
    <2>5. \A k \in 0..(next - 1) : Pasting(f[k], k, project, next, data, target)
      <3> DEFINE T == {k \in 0..(next - 1) : ~Pasting(f[k], k, project, next, data, target)}
      <3> SUFFICES ASSUME T # {} PROVE FALSE
        OBVIOUS
      <3>1. PICK m \in T : \A x \in T : m <= x
        <4>1. T \in SUBSET Nat
          OBVIOUS
        <4> HIDE DEF T
        <4> QED BY <4>1, LeastNat
      <3>2. m # 0 /\ m \in 1..(next - 1) /\ m - 1 \in 0..(next - 1) /\ m - 1 \notin T
        BY <2>4, <3>1
      <3>3. Pasting(f[m - 1], m - 1, project, next, data, target)
        BY <3>2
      <3>4. Pasting(StepFrom(f[m - 1], m, data, target), m, project, next, data, target)
        BY <1>3, <3>2, <3>3, PastedNext
      <3> QED BY <2>3, <3>2, <3>4
    <2>6. Pasting(acc, next - 1, project, next, data, target)
      BY <2>5
    <2>7. DOMAIN acc = {"p", "next", "id"} /\ DOMAIN acc.p = Fields
      <3>1. DOMAIN acc.p = Fields
        BY <2>6, Pieces DEF Pasting
      <3> DEFINE T == {k \in 0..(next - 1) : DOMAIN f[k] # {"p", "next", "id"}}
      <3>2. T = {}
        <4> SUFFICES ASSUME T # {} PROVE FALSE
          OBVIOUS
        <4>1. PICK m \in T : \A x \in T : m <= x
          <5>1. T \in SUBSET Nat
            OBVIOUS
          <5> HIDE DEF T
          <5> QED BY <5>1, LeastNat
        <4>2. DOMAIN f[0] = {"p", "next", "id"}
          BY <2>3
        <4>3. m # 0 /\ m \in 1..(next - 1) /\ m - 1 \in 0..(next - 1) /\ m - 1 \notin T
          BY <4>1, <4>2
        <4>4. DOMAIN f[m - 1] = {"p", "next", "id"} /\ f[m] = StepFrom(f[m - 1], m, data, target)
          BY <2>3, <4>3
        <4>5. DOMAIN f[m] = {"p", "next", "id"}
          BY <4>4 DEF StepFrom, PasteOne
        <4> QED BY <4>1, <4>5
      <3> QED BY <3>1, <3>2
    <2> HIDE DEF acc
    <2> DEFINE all == CloneElementsInto(target, data)
               q == all.p
               id == acc.id
    <2>8. /\ all.next = acc.next /\ all.id = id
          /\ DOMAIN q = Fields /\ q.els = acc.p.els /\ q.parent = acc.p.parent
          /\ q.wires = W /\ q.bus = B
          /\ q.cases = acc.p.cases /\ q.over = acc.p.over /\ q.studies = acc.p.studies
      <3> HIDE DEF W, B
      <3> QED BY <2>1, <2>7 DEF Fields
    <2> HIDE DEF all, q
    <2>9. /\ acc.next \in Nat /\ acc.next >= next
          /\ ModelOK(acc.p, acc.next) /\ MorePart(project, acc.p, next)
          /\ id \in [Els(data) \cap 1..(next - 1) -> Els(acc.p)]
      BY <2>6 DEF Pasting
    <2>10. Els(data) \subseteq 1..(next - 1) /\ PartsType(data, next) /\ LinksOK(data)
      BY DEF Pastable, PartsType
    <2>11. DOMAIN id = Els(data) /\ id \in [Els(data) -> Els(acc.p)] /\ Els(q) = Els(acc.p)
      BY <2>8, <2>9, <2>10 DEF Els
    <2>12. \A x \in Els(data) :
             /\ id[x] >= next /\ \A y \in Els(data) : id[x] = id[y] => x = y
             /\ q.els[id[x]].def = data.els[x].def
             /\ q.els[id[x]].dyn = data.els[x].dyn
             /\ q.els[id[x]].home = target
             /\ \A l \in acc.p.wires \cup acc.p.bus : \A end \in l : end[1] # id[x]
      BY <2>6, <2>8, <2>11 DEF Pasting
    <2> HIDE DEF id
    <2> DEFINE r2 == [els |-> q.els, wires |-> Copies(data.wires, id), bus |-> Copies(data.bus, id)]
    <2>13. LinksOK(r2) /\ \A l \in r2.wires \cup r2.bus : \A end \in l :
                            \E x \in Els(data) : end[1] = id[x]
      <3>1. PartsType(r2, acc.next) /\ Els(r2) = Els(acc.p)
        <4>1. PartsType(acc.p, acc.next)
          BY <2>9, Pieces
        <4>2. r2.els = acc.p.els
          BY <2>8
        <4> HIDE DEF r2
        <4> QED BY <4>1, <4>2 DEF PartsType, Els
      <3>2. Els(data) \in SUBSET Els(data) /\ id \in [Els(data) -> Els(r2)]
        BY <2>11, <3>1
      <3>3. \A x, y \in Els(data) : id[x] = id[y] => x = y
        BY <2>12
      <3>4. \A x \in Els(data) : r2.els[id[x]].def = data.els[x].def /\ r2.els[id[x]].dyn = data.els[x].dyn
        BY <2>12
      <3>5. r2.wires \subseteq Copies(data.wires, id) /\ r2.bus \subseteq Copies(data.bus, id)
        OBVIOUS
      <3>6. \A l \in r2.wires : \A a, b \in l : r2.els[a[1]].home = r2.els[b[1]].home
        <4>1. ASSUME NEW l \in Copies(data.wires, id), NEW a \in l
              PROVE  q.els[a[1]].home = target
          <5>1. PICK k \in data.wires : (\A end \in k : end[1] \in Els(data)) /\ l = Renumbered(k, id)
            BY <2>11 DEF Copies, Within
          <5>2. PICK end \in k : a = <<id[end[1]], end[2]>>
            BY <5>1 DEF Renumbered
          <5>3. a[1] = id[end[1]] /\ end[1] \in Els(data)
            BY <5>1, <5>2
          <5> QED BY <2>12, <5>3
        <4> QED BY <4>1
      <3> HIDE DEF r2
      <3> QED BY ONLY <2>10, <3>1, <3>2, <3>3, <3>4, <3>5, <3>6, Copied, SMTT(60)
    <2> DEFINE r1 == [els |-> q.els, wires |-> acc.p.wires, bus |-> acc.p.bus]
    <2>14. LinksOK(r1)
      <3>1. LinksOK(acc.p)
        BY <2>9, Pieces
      <3>2. r1.els = acc.p.els /\ r1.wires = acc.p.wires /\ r1.bus = acc.p.bus
        BY <2>8
      <3> HIDE DEF r1
      <3> QED BY <3>1, <3>2, SameLinks
    <2>15. LinksOK(q)
      <3>1. \A l \in r1.wires \cup r1.bus : \A k \in r2.wires \cup r2.bus : l \cap k = {}
        <4>1. \A l \in r1.wires \cup r1.bus : \A end \in l : \A x \in Els(data) : end[1] # id[x]
          BY <2>12
        <4> QED BY <2>13, <4>1
      <3>2. /\ r1.els = q.els /\ r2.els = q.els
            /\ q.wires = r1.wires \cup r2.wires /\ q.bus = r1.bus \cup r2.bus
        BY <2>8 DEF id
      <3> HIDE DEF r1, r2
      <3> QED BY <2>13, <2>14, <3>1, <3>2, Joined
    <2>16. ModelOK(q, all.next)
      <3>1. acc.next \in Nat
        BY <2>9
      <3> QED BY <2>8, <2>9, <2>15, <3>1, LinksSet
    <2>17. \A l \in (q.wires \ acc.p.wires) \cup (q.bus \ acc.p.bus) : \A end \in l : end[1] >= next
      <3>1. \A l \in (q.wires \ acc.p.wires) \cup (q.bus \ acc.p.bus) : l \in r2.wires \cup r2.bus
        BY <2>8 DEF id
      <3> QED BY <2>12, <2>13, <3>1
    <2>18. MorePart(project, q, next)
      <3>1. acc.p.wires \subseteq q.wires /\ acc.p.bus \subseteq q.bus
        BY <2>8
      <3>2. Els(q) = Els(acc.p) /\ Systems(q) = Systems(acc.p)
        BY <2>8 DEF Els, Systems
      <3>3. \A l \in (q.wires \ project.wires) \cup (q.bus \ project.bus) : \A end \in l : end[1] >= next
        BY <2>9, <2>17 DEF MorePart
      <3> QED BY <2>8, <2>9, <3>1, <3>2, <3>3 DEF MorePart
    <2>19. \A x \in Els(data) : id[x] \in Nat \ {0}
      <3>1. Els(acc.p) \subseteq Nat \ {0}
        BY <2>9, Pieces DEF PartsType
      <3> QED BY <2>11, <3>1
    <2> QED BY <2>8, <2>9, <2>10, <2>11, <2>16, <2>18, <2>19 DEF all, q
  <1> QED BY <1>2, <1>3

-----------------------------------------------------------------------------
(* The invariant: every model that is open or kept for undo and redo can be  *)
(* read, a number means one kind of part in all of them, and what is on the  *)
(* clipboard could have been copied from any of them.                        *)

AllOK(M, n, data) ==
    /\ n \in Nat \ {0}
    /\ \A p \in M : ModelOK(p, n)
    /\ \A p, q \in M : \A e \in Els(p) \cap Els(q) : p.els[e].def = q.els[e].def
    /\ data = None \/ \A p \in M : Pastable(data, p, n)

HistoryOK ==
    /\ past \in Seq(ToSet(past)) /\ Len(past) <= HISTORY_LIMIT
    /\ future \in Seq(ToSet(future)) /\ Len(future) <= HISTORY_LIMIT

IInv ==
    /\ AllOK(Models, next, clipboard) /\ HistoryOK /\ selectedElementId # Root
    /\ edits \in 0..MaxEdits /\ looks \in 0..MaxLooks

\* A model edited to q, of the same parts or with new ones.
Kept(p, q, n) ==
    /\ KindsKept(p, q, n) /\ q.studies = p.studies
    /\ Els(q) \subseteq Els(p) \/ MorePart(p, q, n)
Shows(p, q) == Systems(p) \subseteq Systems(q) /\ Cases(p) \subseteq Cases(q)

(* One more model of parts that are known, or new.                           *)
LEMMA OneMore ==
    ASSUME NEW M, NEW n, NEW data, AllOK(M, n, data), NEW p \in M, NEW q, NEW m \in Nat, n <= m,
           ModelOK(q, m), KindsKept(p, q, n), NEW N, N \subseteq M \cup {q}
    PROVE  AllOK(N, m, data)
  <1>1. n \in Nat \ {0} /\ m \in Nat \ {0}
    BY DEF AllOK
  <1>2. \A r \in M : ModelOK(r, m)
    BY <1>1, Later DEF AllOK
  <1>3. ASSUME NEW r \in M, NEW e \in Els(r) \cap Els(q) PROVE r.els[e].def = q.els[e].def
    <2>1. Els(r) \subseteq 1..(n - 1)
      BY Pieces DEF AllOK, PartsType
    <2>2. e \in Els(p) /\ q.els[e].def = p.els[e].def
      BY <1>1, <1>3, <2>1 DEF KindsKept
    <2> QED BY <1>3, <2>2 DEF AllOK
  <1>4. data = None \/ \A r \in N : Pastable(data, r, m)
    <2> SUFFICES ASSUME data # None, NEW r \in N PROVE Pastable(data, r, m)
      OBVIOUS
    <2>1. \A s \in M : Pastable(data, s, n)
      BY DEF AllOK
    <2>2. PartsType(data, m) /\ LinksOK(data) /\ Els(data) \subseteq 1..(n - 1)
      BY <1>1, <2>1, Later DEF Pastable, PartsType
    <2>3. \A e \in Els(data) \cap Els(r) : r.els[e].def = data.els[e].def
      <3>1. CASE r \in M
        BY <2>1, <3>1 DEF Pastable
      <3>2. CASE r = q
        <4>1. \A e \in Els(data) \cap Els(q) : e \in Els(p) /\ q.els[e].def = p.els[e].def
          BY <1>1, <2>2 DEF KindsKept
        <4> QED BY <2>1, <3>2, <4>1 DEF Pastable
      <3> QED BY <3>1, <3>2
    <2> QED BY <2>2, <2>3 DEF Pastable
  <1>5. \A r, s \in N : \A e \in Els(r) \cap Els(s) : r.els[e].def = s.els[e].def
    <2> SUFFICES ASSUME NEW r \in N, NEW s \in N, NEW e \in Els(r) \cap Els(s)
                 PROVE  r.els[e].def = s.els[e].def
      OBVIOUS
    <2>1. CASE r \in M /\ s \in M
      BY <2>1 DEF AllOK
    <2>2. CASE r = q \/ s = q
      BY <1>3, <2>2
    <2> QED BY <2>1, <2>2
  <1> QED BY <1>1, <1>2, <1>4, <1>5 DEF AllOK

(* Histories are sequences of models.                                        *)
LEMMA ToSetIs ==
    ASSUME NEW S, NEW s \in Seq(S)
    PROVE  s \in Seq(ToSet(s)) /\ ToSet(s) \subseteq S
  <1>1. DOMAIN s = 1..Len(s) /\ Len(s) \in Nat
    OBVIOUS
  <1>2. \A i \in 1..Len(s) : s[i] \in ToSet(s)
    BY <1>1 DEF ToSet
  <1>3. s \in Seq(ToSet(s))
    <2>1. s = [i \in 1..Len(s) |-> s[i]]
      BY <1>1
    <2>2. s \in [1..Len(s) -> ToSet(s)]
      BY <1>2, <2>1
    <2> QED BY <1>1, <2>2
  <1>4. \A x \in ToSet(s) : \E i \in 1..Len(s) : x = s[i]
    BY <1>1 DEF ToSet
  <1> QED BY <1>3, <1>4

\* Pushing keeps the limit.
LEMMA PushedIs ==
    ASSUME NEW S, NEW s \in Seq(S), NEW p \in S, Len(s) <= HISTORY_LIMIT
    PROVE  Pushed(s, p) \in Seq(S) /\ Len(Pushed(s, p)) <= HISTORY_LIMIT
  <1>1. HISTORY_LIMIT \in Nat \ {0} /\ Len(s) \in Nat
    BY LimitAssumption
  <1>2. CASE Len(s) < HISTORY_LIMIT
    BY <1>1, <1>2 DEF Pushed
  <1>3. CASE ~(Len(s) < HISTORY_LIMIT)
    <2>1. Len(s) = HISTORY_LIMIT /\ s # <<>>
      BY <1>1, <1>3
    <2>2. Tail(s) \in Seq(S) /\ Len(Tail(s)) = Len(s) - 1
      BY <2>1
    <2> HIDE DEF Pushed
    <2>3. Pushed(s, p) = Append(Tail(s), p)
      BY <1>3 DEF Pushed
    <2> QED BY <1>1, <2>1, <2>2, <2>3
  <1> QED BY <1>2, <1>3

\* What every step leaves of the history.
HistoryStep ==
    /\ past' \in Seq(Models) /\ Len(past') <= HISTORY_LIMIT
    /\ future' \in Seq(Models) /\ Len(future') <= HISTORY_LIMIT
    /\ edits' \in 0..MaxEdits /\ looks' \in 0..MaxLooks

\* Both histories are of known models.
LEMMA HistoryOf ==
    ASSUME IInv
    PROVE  /\ past \in Seq(Models) /\ future \in Seq(Models) /\ project \in Models
           /\ Len(past) <= HISTORY_LIMIT /\ Len(future) <= HISTORY_LIMIT
           /\ <<>> \in Seq(Models) /\ Len(<<>>) <= HISTORY_LIMIT
  <1>1. ToSet(past) \subseteq Models /\ ToSet(future) \subseteq Models /\ project \in Models
    BY DEF Models
  <1>2. past \in Seq(ToSet(past)) /\ future \in Seq(ToSet(future))
    BY DEF IInv, HistoryOK
  <1>3. past \in Seq(Models) /\ future \in Seq(Models)
    BY <1>1, <1>2, SeqMonotonic
  <1> QED BY <1>1, <1>3, LimitAssumption DEF IInv, HistoryOK

\* The bound on edits.
LEMMA Edited ==
    ASSUME IInv, Edit
    PROVE  edits' \in 0..MaxEdits /\ looks' \in 0..MaxLooks
  BY BoundsAssumption DEF IInv, Edit

\* An update records a step, or joins the last one.
LEMMA Updated ==
    ASSUME IInv, NEW q, NEW field, Update(q, field)
    PROVE  HistoryStep /\ project' = q
  <1>1. edits' \in 0..MaxEdits /\ looks' \in 0..MaxLooks /\ project' = q
    BY Edited DEF Update
  <1>2. CASE Record
    BY <1>1, <1>2, HistoryOf, PushedIs DEF Record, HistoryStep
  <1>3. CASE UNCHANGED <<past, future>>
    BY <1>1, <1>3, HistoryOf DEF HistoryStep
  <1> QED BY <1>1, <1>2, <1>3 DEF Update

(* A step to a model of parts that are known, or new, keeps the invariant.    *)
LEMMA Stepped ==
    ASSUME IInv, HistoryStep, NEW p \in Models, NEW m \in Nat, next <= m, next' = m,
           ModelOK(project', m), KindsKept(p, project', next),
           clipboard' = clipboard, selectedElementId' # Root
    PROVE  IInv'
  <1>1. ToSet(past') \subseteq Models /\ ToSet(future') \subseteq Models
        /\ past' \in Seq(ToSet(past')) /\ future' \in Seq(ToSet(future'))
    BY ToSetIs DEF HistoryStep
  <1>2. Models' \subseteq Models \cup {project'}
    <2>1. Models' = {project'} \cup ToSet(past') \cup ToSet(future')
      BY DEF Models
    <2> QED BY <1>1, <2>1
  <1>3. AllOK(Models, next, clipboard)
    BY DEF IInv
  <1>4. AllOK(Models', m, clipboard)
    BY <1>2, <1>3, OneMore
  <1>5. HistoryOK'
    BY <1>1 DEF HistoryStep, HistoryOK
  <1> QED BY <1>4, <1>5 DEF IInv, HistoryStep

(* Edits that keep the parts, and edits that add some, are edits of that kind. *)
LEMMA SameKept ==
    ASSUME NEW p, NEW q, NEW n, Same(p, q), KindsKept(p, q, n)
    PROVE  Kept(p, q, n) /\ Shows(p, q)
  BY DEF Same, Kept, Shows, Systems, Cases

\* With new parts nothing that was there is another.
LEMMA MoreKept ==
    ASSUME NEW p, NEW q, NEW n \in Nat, NEW m, ModelOK(q, m), MorePart(p, q, n)
    PROVE  Kept(p, q, n) /\ Shows(p, q)
  <1>1. Els(q) \subseteq Nat
    BY Pieces DEF PartsType
  <1>2. KindsKept(p, q, n)
    <2>1. \A e \in Els(q) : e < n => e \in Els(p)
      BY <1>1 DEF MorePart
    <2> QED BY <2>1 DEF MorePart, KindsKept
  <1> QED BY <1>2 DEF MorePart, Kept, Shows, Cases

(* Cases, overrides and studies do not touch the parts.                      *)
LEMMA CasesKept ==
    ASSUME NEW p, NEW n \in Nat, ModelOK(p, n), NEW q, DOMAIN q = Fields,
           q.els = p.els, q.parent = p.parent, q.wires = p.wires, q.bus = p.bus,
           q.cases = p.cases, DOMAIN q.over = DOMAIN p.over, q.studies \subseteq StudyIds
    PROVE  ModelOK(q, n) /\ KindsKept(p, q, n) /\ Els(q) = Els(p) /\ Shows(p, q)
  <1>1. CasesOK(q, n)
    BY Pieces DEF CasesOK, Cases
  <1>2. n <= n
    OBVIOUS
  <1>3. ModelOK(q, n) /\ KindsKept(p, q, n) /\ Els(q) = Els(p)
    BY <1>1, <1>2, CasesSet
  <1> QED BY <1>3 DEF Shows, Systems, Cases

\* The model itself.
LEMMA Itself ==
    ASSUME NEW p, NEW n
    PROVE  Kept(p, p, n) /\ Shows(p, p)
  BY DEF Kept, Shows, KindsKept

(* Copies of parts of the system shown, and of the links between them.        *)
LEMMA Selected ==
    ASSUME NEW p, NEW n, ModelOK(p, n), NEW s, NEW ids \in SUBSET In(p, s)
    PROVE  Pastable(Selection(p, s, ids), p, n)
  <1> DEFINE c == Selection(p, s, ids)
  <1>0. PartsType(p, n) /\ LinksOK(p)
    BY Pieces
  <1>1. /\ c.els = [e \in ids |-> p.els[e]]
        /\ c.wires = Within(p.wires, ids) /\ c.bus = Within(p.bus, ids)
    <2>1. ids \cap In(p, s) = ids
      OBVIOUS
    <2> QED BY <2>1 DEF Selection
  <1> HIDE DEF c
  <1>2. Els(c) = ids /\ ids \subseteq Els(p) /\ \A e \in ids : c.els[e] = p.els[e]
    BY <1>1 DEF Els, In
  <1>3. PartsType(c, n)
    <2>1. c.els \in [Els(c) -> PartRecord]
      BY <1>0, <1>1, <1>2 DEF PartsType
    <2> QED BY <1>0, <1>2, <2>1 DEF PartsType
  <1>4. LinksOK(c)
    <2>1. c.wires \subseteq p.wires /\ c.bus \subseteq p.bus
      BY <1>1 DEF Within
    <2>2. \A l \in c.wires \cup c.bus : \A end \in l : end[1] \in ids
      BY <1>1 DEF Within
    <2> QED BY <1>0, <1>2, <2>1, <2>2, FewerLinks
  <1> QED BY <1>2, <1>3, <1>4 DEF Pastable, c

(* The last of a set of numbers.                                             *)
LEMMA LastOf ==
    ASSUME NEW n \in Nat, NEW S \in SUBSET (1..n), S # {}
    PROVE  (CHOOSE e \in S : \A x \in S : x <= e) \in S
  <1> DEFINE T == {m \in 0..n : \A x \in S : x <= m}
  <1>1. PICK m \in T : \A y \in T : m <= y
    <2>1. n \in T /\ T \in SUBSET Nat
      OBVIOUS
    <2> HIDE DEF T
    <2> QED BY <2>1, LeastNat
  <1>2. m \in S
    <2> SUFFICES ASSUME m \notin S PROVE FALSE
      OBVIOUS
    <2>1. PICK x \in S : x <= m /\ x # m
      BY <1>1
    <2>2. m - 1 \in 0..n
      BY <1>1, <2>1
    <2>3. \A y \in S : y <= m - 1
      BY <1>1
    <2>4. m - 1 \in T
      BY <2>2, <2>3
    <2> QED BY <1>1, <2>4
  <1> QED BY <1>1, <1>2

-----------------------------------------------------------------------------
(* What every step does but undo, redo and those of the studies.             *)

Stands ==
    \/ Els(project') \subseteq Els(project)
    \/ LET old == Els(project)
           new == (project'.wires \ project.wires) \cup (project'.bus \ project.bus)
       IN /\ ~\E l \in new : Touches(l, old)
          /\ project.wires \subseteq project'.wires /\ project.bus \subseteq project'.bus
          /\ old \subseteq Els(project') /\ \A e \in old : project'.els[e] = project.els[e]
ShownThere(p, s, c) == s \in Systems(p) /\ c \in Cases(p)
ShownKept ==
    ShownThere(project, activeSystemId, activeCaseId)
        => ShownThere(project', activeSystemId', activeCaseId')
Fine == IInv' /\ Stands /\ ShownKept /\ project'.studies = project.studies

(* What the invariant says of the open model.                                *)
LEMMA ProjectOK ==
    ASSUME IInv
    PROVE  /\ next \in Nat \ {0} /\ ModelOK(project, next) /\ project \in Models
           /\ Els(project) \subseteq 1..(next - 1) /\ DOMAIN project = Fields
           /\ project.cases # <<>> /\ project.cases \in Seq(1..(next - 1))
           /\ DOMAIN project.over = Cases(project) /\ project.studies \subseteq StudyIds
           /\ Root \in Systems(project) /\ LinksOK(project) /\ PartsType(project, next)
  <1>1. next \in Nat \ {0} /\ project \in Models /\ ModelOK(project, next)
    BY HistoryOf DEF IInv, AllOK
  <1>2. /\ DOMAIN project = Fields /\ PartsType(project, next) /\ LinksOK(project)
        /\ SystemsOK(project) /\ CasesOK(project, next)
    BY <1>1, Pieces
  <1>3. Root \in Systems(project) /\ Els(project) \subseteq 1..(next - 1)
    BY <1>2 DEF SystemsOK, SystemsOwned, PartsType
  <1> QED BY <1>1, <1>2, <1>3 DEF CasesOK

(* New links of new parts touch no part that was there.                      *)
LEMMA StandsAlone ==
    ASSUME IInv, Kept(project, project', next),
           \A l \in project'.wires \cup project'.bus : \A end \in l : end[1] \in Nat
    PROVE  Stands
  <1>1. CASE Els(project') \subseteq Els(project)
    BY <1>1 DEF Stands
  <1>2. CASE MorePart(project, project', next)
    <2>1. ASSUME NEW l \in (project'.wires \ project.wires) \cup (project'.bus \ project.bus)
          PROVE  ~Touches(l, Els(project))
      <3>1. \A end \in l : end[1] >= next /\ end[1] \in Nat
        BY <1>2, <2>1 DEF MorePart
      <3>2. Els(project) \subseteq 1..(next - 1) /\ next \in Nat
        BY ProjectOK
      <3> QED BY <3>1, <3>2 DEF Touches
    <2> QED BY <1>2, <2>1 DEF MorePart, Stands
  <1> QED BY <1>1, <1>2 DEF Kept

(* An edit to a model with the same parts, or with new ones.                  *)
LEMMA FineEdit ==
    ASSUME IInv, HistoryStep, NEW m \in Nat, next <= m, next' = m,
           ModelOK(project', m), Kept(project, project', next),
           clipboard' = clipboard, selectedElementId' # Root, ShownKept
    PROVE  Fine
  <1>1. project \in Models /\ KindsKept(project, project', next) /\ project'.studies = project.studies
    BY ProjectOK DEF Kept
  <1>2. IInv'
    BY <1>1, Stepped
  <1>3. \A l \in project'.wires \cup project'.bus : \A end \in l : end[1] \in Nat
    <2>1. LinksOK(project') /\ PartsType(project', m)
      BY Pieces
    <2>2. Els(project') \subseteq Nat
      BY <2>1 DEF PartsType
    <2>3. \A l \in project'.wires \cup project'.bus : \A end \in l : end[1] \in Els(project')
      BY <2>1, EndIs DEF LinksOK, LinksType
    <2> QED BY <2>2, <2>3
  <1>4. Stands
    BY <1>3, StandsAlone
  <1> QED BY <1>1, <1>2, <1>4 DEF Fine

\* What is shown is still there.
LEMMA ShowsKept ==
    ASSUME Shows(project, project'), activeSystemId' = activeSystemId, activeCaseId' = activeCaseId
    PROVE  ShownKept
  BY DEF Shows, ShownKept, ShownThere

(* An edit that numbers nothing and leaves what is shown.                     *)
LEMMA FineInPlace ==
    ASSUME IInv, HistoryStep, ModelOK(project', next), Kept(project, project', next),
           Shows(project, project'), UNCHANGED <<shown, clipboard, next>>
    PROVE  Fine
  <1>1. /\ next \in Nat /\ next <= next /\ next' = next /\ clipboard' = clipboard
        /\ activeSystemId' = activeSystemId /\ activeCaseId' = activeCaseId
        /\ selectedElementId' # Root
    BY ProjectOK DEF shown, IInv
  <1>2. ShownKept
    BY <1>1, ShowsKept
  <1> QED BY <1>1, <1>2, FineEdit

\* A step recorded for what the model leaves out.
LEMMA FineSame ==
    ASSUME IInv, HistoryStep, project' = project, UNCHANGED <<shown, clipboard, next>>
    PROVE  Fine
  <1>1. ModelOK(project', next) /\ Kept(project, project', next) /\ Shows(project, project')
    BY ProjectOK, Itself
  <1> QED BY <1>1, FineInPlace

(* A selection, a copy, another system or case shown.                         *)
LEMMA FineLook ==
    ASSUME IInv, Look, ShownKept, selectedElementId' # Root,
           clipboard' = clipboard \/ (Pastable(clipboard', project, next) /\ Els(clipboard') \subseteq Els(project))
    PROVE  Fine
  <1>1. UNCHANGED <<project, past, future, next, edits>> /\ looks' \in 0..MaxLooks
    BY BoundsAssumption DEF Look, IInv, history
  <1>2. AllOK(Models, next, clipboard')
    <2>1. AllOK(Models, next, clipboard) /\ project \in Models
      BY ProjectOK DEF IInv
    <2>2. CASE clipboard' = clipboard
      BY <2>1, <2>2
    <2>3. CASE Pastable(clipboard', project, next) /\ Els(clipboard') \subseteq Els(project)
      <3>1. ASSUME NEW r \in Models PROVE Pastable(clipboard', r, next)
        <4>1. \A e \in Els(project) \cap Els(r) : r.els[e].def = project.els[e].def
          BY <2>1 DEF AllOK
        <4> QED BY <2>3, <4>1 DEF Pastable
      <3> QED BY <2>1, <3>1 DEF AllOK
    <2> QED BY <2>2, <2>3
  <1>3. IInv'
    <2>1. Models' = Models /\ HistoryOK'
      BY <1>1 DEF Models, IInv, HistoryOK
    <2>2. AllOK(Models', next', clipboard')
      BY <1>1, <1>2, <2>1
    <2>3. edits' \in 0..MaxEdits
      BY <1>1 DEF IInv
    <2> QED BY <1>1, <2>1, <2>2, <2>3 DEF IInv
  <1>4. Stands
    BY <1>1 DEF Stands
  <1> QED BY <1>1, <1>3, <1>4 DEF Fine

-----------------------------------------------------------------------------
(* The edits one by one.                                                     *)

\* addElement.
LEMMA FineAdd ==
    ASSUME IInv, NEW def \in {"part", "script", Container}, AddElement(def)
    PROVE  Fine
  <1> DEFINE s == activeSystemId
             q == IF s \in Systems(project) THEN WithPart(project, next, NewPart(def, s), s)
                  ELSE project
  <1>1. /\ Update(q, None) /\ selectedElementId' = next /\ next' = next + 1
        /\ activeSystemId' = s /\ activeCaseId' = activeCaseId /\ clipboard' = clipboard
    BY DEF AddElement
  <1>2. /\ next \in Nat \ {0} /\ ModelOK(project, next) /\ next + 1 \in Nat /\ next <= next + 1
        /\ selectedElementId' # Root
    BY <1>1, ProjectOK DEF Root
  <1>3. ModelOK(q, next + 1) /\ Kept(project, q, next) /\ Shows(project, q)
    <2>1. CASE s \in Systems(project)
      <3>1. ModelOK(q, next + 1) /\ MorePart(project, q, next)
        BY <1>2, <2>1, PartAdded
      <3> HIDE DEF q
      <3> QED BY <1>2, <3>1, MoreKept
    <2>2. CASE s \notin Systems(project)
      BY <1>2, <2>2, Later, Itself
    <2> QED BY <2>1, <2>2
  <1> HIDE DEF q
  <1>4. HistoryStep /\ project' = q
    BY <1>1, Updated
  <1>5. ShownKept
    BY <1>1, <1>3, <1>4, ShowsKept
  <1> QED BY <1>1, <1>2, <1>3, <1>4, <1>5, FineEdit

\* A drag on the canvas.
LEMMA FineDrag ==
    ASSUME IInv, Drag
    PROVE  Fine
  <1>1. edits' \in 0..MaxEdits /\ looks' \in 0..MaxLooks
    BY Edited DEF Drag
  <1>2. HistoryStep
    BY <1>1, HistoryOf, PushedIs DEF Drag, Record, HistoryStep
  <1> QED BY <1>2, FineSame DEF Drag

\* renameElement, setParameter, setTableOutside.
LEMMA FineValue ==
    ASSUME IInv, NEW e \in Els(project), NEW v \in Values, EditElement(e, v)
    PROVE  Fine
  <1> DEFINE q == WithValue(project, e, v)
  <1>1. Update(q, <<"part", e>>) /\ UNCHANGED <<shown, clipboard, next>>
    BY DEF EditElement
  <1>2. ModelOK(q, next) /\ KindsKept(project, q, next) /\ Same(project, q)
    BY ProjectOK, ValueSet
  <1> HIDE DEF q
  <1>3. HistoryStep /\ project' = q
    BY <1>1, Updated
  <1> QED BY <1>1, <1>2, <1>3, SameKept, FineInPlace

\* A pin moved: two entries.
LEMMA FineMovePin ==
    ASSUME IInv, NEW e \in Els(project), NEW v \in Values, MovePin(e, v)
    PROVE  Fine
  <1> DEFINE q == WithValue(project, e, v)
  <1>1. ModelOK(q, next) /\ KindsKept(project, q, next) /\ Same(project, q)
    BY ProjectOK, ValueSet
  <1>2. project' = q /\ UNCHANGED <<shown, clipboard, next>>
    BY DEF MovePin
  <1> HIDE DEF q
  <1>3. HistoryStep
    <2>1. edits' \in 0..MaxEdits /\ looks' \in 0..MaxLooks
      BY Edited DEF MovePin
    <2>2. past \in Seq(Models) /\ project \in Models /\ Len(past) <= HISTORY_LIMIT
      BY HistoryOf
    <2>3. Pushed(past, project) \in Seq(Models) /\ Len(Pushed(past, project)) <= HISTORY_LIMIT
      BY <2>2, PushedIs
    <2>4. past' = Pushed(Pushed(past, project), project) /\ future' = <<>>
      BY DEF MovePin
    <2>5. past' \in Seq(Models) /\ Len(past') <= HISTORY_LIMIT
      BY <2>2, <2>3, <2>4, PushedIs
    <2> QED BY <2>1, <2>4, <2>5, HistoryOf DEF HistoryStep
  <1> QED BY <1>1, <1>2, <1>3, SameKept, FineInPlace

\* removeElements.
LEMMA FineRemove ==
    ASSUME IInv, NEW ids, Root \notin ids, NEW links, RemoveElements(ids, links)
    PROVE  Fine
  <1> DEFINE q == Without(project, ids, links)
  <1>1. /\ Update(q, None) /\ activeSystemId' = ShownAfter(q, activeSystemId)
        /\ selectedElementId' \in {None, selectedElementId}
        /\ activeCaseId' = activeCaseId /\ clipboard' = clipboard /\ next' = next
    BY DEF RemoveElements
  <1>2. /\ ModelOK(q, next) /\ KindsKept(project, q, next) /\ Els(q) \subseteq Els(project)
        /\ Root \in Systems(q) /\ q.cases = project.cases /\ q.studies = project.studies
    BY ProjectOK, PartsRemoved
  <1> HIDE DEF q
  <1>3. HistoryStep /\ project' = q
    BY <1>1, Updated
  <1>4. selectedElementId' # Root
    BY <1>1, LimitAssumption DEF IInv, Root
  <1>5. ShownKept
    BY <1>1, <1>2, <1>3 DEF ShownKept, ShownThere, ShownAfter, Cases
  <1>6. Kept(project, q, next) /\ next \in Nat /\ next <= next
    BY <1>2, ProjectOK DEF Kept
  <1> QED BY <1>1, <1>2, <1>3, <1>4, <1>5, <1>6, FineEdit

\* Paste or duplicate.
LEMMA FineInsert ==
    ASSUME IInv, NEW data, Pastable(data, project, next), Insert(data)
    PROVE  Fine
  <1> DEFINE all == CloneElementsInto(activeSystemId, data)
             q == all.p
  <1>1. /\ Update(q, None) /\ next' = all.next
        /\ selectedElementId' = IF DOMAIN all.id = {} THEN selectedElementId
             ELSE all.id[CHOOSE e \in DOMAIN all.id : \A x \in DOMAIN all.id : x <= e]
        /\ activeSystemId' = activeSystemId /\ activeCaseId' = activeCaseId /\ clipboard' = clipboard
    BY DEF Insert
  <1>2. /\ all.next \in Nat /\ all.next >= next
        /\ ModelOK(q, all.next) /\ MorePart(project, q, next)
        /\ DOMAIN all.id \subseteq 1..(next - 1)
        /\ \A x \in DOMAIN all.id : all.id[x] \in Nat \ {0}
    BY ProjectOK, Cloned
  <1> HIDE DEF all
  <1>3. HistoryStep /\ project' = q
    BY <1>1, Updated
  <1>4. next \in Nat /\ next <= all.next
    BY <1>2, ProjectOK
  <1>5. Kept(project, q, next) /\ Shows(project, q)
    BY <1>2, <1>4, MoreKept
  <1>6. selectedElementId' # Root
    <2>1. CASE DOMAIN all.id = {}
      BY <1>1, <2>1 DEF IInv
    <2>2. CASE DOMAIN all.id # {}
      <3>1. next - 1 \in Nat
        BY ProjectOK
      <3>2. (CHOOSE e \in DOMAIN all.id : \A x \in DOMAIN all.id : x <= e) \in DOMAIN all.id
        BY <1>2, <2>2, <3>1, LastOf
      <3> QED BY <1>1, <1>2, <2>2, <3>2 DEF Root
    <2> QED BY <2>1, <2>2
  <1>7. ShownKept
    BY <1>1, <1>3, <1>5, ShowsKept
  <1> QED BY <1>1, <1>2, <1>3, <1>4, <1>5, <1>6, <1>7, FineEdit

\* copyElements and duplicateElements.
LEMMA FineCopies ==
    ASSUME IInv, NEW ids \in SUBSET In(project, activeSystemId)
    PROVE  /\ CopyElements(ids) => Fine
           /\ DuplicateElements(ids) => Fine
  <1> DEFINE c == Selection(project, activeSystemId, ids)
  <1>1. Pastable(c, project, next)
    BY ProjectOK, Selected
  <1>2. Els(c) \subseteq Els(project)
    BY DEF Selection, Els, In
  <1>3. ASSUME CopyElements(ids) PROVE Fine
    <2>1. Look /\ clipboard' = c /\ project' = project
          /\ activeSystemId' = activeSystemId /\ activeCaseId' = activeCaseId
          /\ selectedElementId' # Root
      BY <1>3 DEF CopyElements, shown, Look, IInv
    <2>2. ShownKept
      BY <2>1, Itself, ShowsKept
    <2> HIDE DEF c
    <2> QED BY <1>1, <1>2, <2>1, <2>2, FineLook
  <1>4. ASSUME DuplicateElements(ids) PROVE Fine
    BY <1>1, <1>4, FineInsert DEF DuplicateElements
  <1> QED BY <1>3, <1>4

\* pasteClipboard.
LEMMA FinePaste ==
    ASSUME IInv, PasteClipboard
    PROVE  Fine
  <1>1. Pastable(clipboard, project, next)
    BY ProjectOK DEF IInv, AllOK, PasteClipboard
  <1> QED BY <1>1, FineInsert DEF PasteClipboard

\* addDataBus.
LEMMA FineDataBus ==
    ASSUME IInv, NEW a \in Ends(project), NEW b \in Ends(project), AddDataBus(a, b)
    PROVE  Fine
  <1> DEFINE q == [project EXCEPT !.bus = @ \cup {{a, b}}]
  <1>1. MayLink(project, a, b) /\ Update(q, None) /\ UNCHANGED <<shown, clipboard, next>>
    BY DEF AddDataBus
  <1>2. /\ DOMAIN q = Fields /\ q.els = project.els /\ q.parent = project.parent
        /\ q.wires = project.wires /\ q.bus = project.bus \cup {{a, b}}
        /\ q.cases = project.cases /\ q.over = project.over /\ q.studies = project.studies
    BY ProjectOK DEF Fields
  <1> HIDE DEF q
  <1>3. LinksOK(q)
    BY <1>1, <1>2, ProjectOK, BusAdded
  <1>4. ModelOK(q, next) /\ KindsKept(project, q, next) /\ Same(project, q)
    BY <1>2, <1>3, ProjectOK, LinksSet
  <1>5. HistoryStep /\ project' = q
    BY <1>1, Updated
  <1> QED BY <1>1, <1>4, <1>5, SameKept, FineInPlace

\* addConnection: to the data bus, or a wire.
LEMMA FineConnection ==
    ASSUME IInv, NEW a \in Ends(project), NEW b \in Ends(project), NEW old,
           project.els[a[1]].home = project.els[b[1]].home, AddConnection(a, b, old)
    PROVE  Fine
  <1>1. CASE AddDataBus(a, b)
    BY <1>1, FineDataBus
  <1>2. CASE ~AddDataBus(a, b)
    <2> DEFINE q == [project EXCEPT !.wires = (@ \ old) \cup {{a, b}}]
    <2>1. /\ Port(project, a).kind = Port(project, b).kind /\ Port(project, a).kind # "signal"
          /\ Update(q, None) /\ UNCHANGED <<shown, clipboard, next>>
      BY <1>2 DEF AddConnection
    <2>2. /\ DOMAIN q = Fields /\ q.els = project.els /\ q.parent = project.parent
          /\ q.wires = (project.wires \ old) \cup {{a, b}} /\ q.bus = project.bus
          /\ q.cases = project.cases /\ q.over = project.over /\ q.studies = project.studies
      BY ProjectOK DEF Fields
    <2> HIDE DEF q
    <2>3. LinksOK(q)
      <3>1. PartsType(project, next) /\ LinksOK(project)
        BY ProjectOK
      <3>2. project.els[a[1]].home = project.els[b[1]].home
        OBVIOUS
      <3>3. a \in Ends(project) /\ b \in Ends(project)
        OBVIOUS
      <3> QED BY ONLY <2>1, <2>2, <3>1, <3>2, <3>3, WireAdded
    <2>4. ModelOK(q, next) /\ KindsKept(project, q, next) /\ Same(project, q)
      BY <2>2, <2>3, ProjectOK, LinksSet
    <2>5. HistoryStep /\ project' = q
      BY <2>1, Updated
    <2> QED BY <2>1, <2>4, <2>5, SameKept, FineInPlace
  <1> QED BY <1>1, <1>2

\* removeDataBus.
LEMMA FineRemoveLink ==
    ASSUME IInv, NEW l, RemoveDataBus(l)
    PROVE  Fine
  <1> DEFINE q == [project EXCEPT !.bus = @ \ {l}]
  <1>1. Update(q, None) /\ UNCHANGED <<shown, clipboard, next>>
    BY DEF RemoveDataBus
  <1>2. /\ DOMAIN q = Fields /\ q.els = project.els /\ q.parent = project.parent
        /\ q.wires = project.wires /\ q.bus = project.bus \ {l}
        /\ q.cases = project.cases /\ q.over = project.over /\ q.studies = project.studies
    BY ProjectOK DEF Fields
  <1> HIDE DEF q
  <1>3. LinksOK(q)
    <2>1. \A k \in project.wires \cup project.bus : \A end \in k : end[1] \in Els(project)
      BY ProjectOK, EndIs DEF LinksOK, LinksType
    <2>2. Els(q) = Els(project) /\ q.wires \subseteq project.wires /\ q.bus \subseteq project.bus
      BY <1>2 DEF Els
    <2>3. \A k \in q.wires \cup q.bus : \A end \in k : end[1] \in Els(q)
      BY <2>1, <2>2
    <2>4. LinksOK(project) /\ q.els = project.els
      BY <1>2, ProjectOK
    <2> QED BY <2>2, <2>3, <2>4, FewerLinks
  <1>4. ModelOK(q, next) /\ KindsKept(project, q, next) /\ Same(project, q)
    BY <1>2, <1>3, ProjectOK, LinksSet
  <1>5. HistoryStep /\ project' = q
    BY <1>1, Updated
  <1> QED BY <1>1, <1>4, <1>5, SameKept, FineInPlace

\* setDynamicPorts.
LEMMA FinePorts ==
    ASSUME IInv, NEW e \in Els(project), PortsEditor(e)
    PROVE  Fine
  <1>1. PICK dyn \in PortEdits(project.els[e].dyn) : SetDynamicPorts(e, dyn)
    BY DEF PortsEditor
  <1>2. project.els[e].def = "script"
    BY DEF PortsEditor
  <1> DEFINE q == WithPorts(project, e, dyn)
  <1>3. Update(q, None) /\ UNCHANGED <<shown, clipboard, next>>
    BY <1>1 DEF SetDynamicPorts
  <1>4. ModelOK(q, next) /\ KindsKept(project, q, next) /\ Same(project, q)
    BY <1>2, ProjectOK, PortsSet
  <1> HIDE DEF q
  <1>5. HistoryStep /\ project' = q
    BY <1>3, Updated
  <1> QED BY <1>3, <1>4, <1>5, SameKept, FineInPlace

\* addCase.
LEMMA FineAddCase ==
    ASSUME IInv, AddCase
    PROVE  Fine
  <1> DEFINE q == WithCase(project, Len(project.cases) + 1, next, <<>>)
  <1>1. /\ Update(q, None) /\ activeCaseId' = next /\ next' = next + 1
        /\ activeSystemId' = activeSystemId /\ selectedElementId' = selectedElementId
        /\ clipboard' = clipboard
    BY DEF AddCase
  <1>2. /\ ModelOK(q, next + 1) /\ KindsKept(project, q, next) /\ Els(q) = Els(project)
        /\ Cases(q) = Cases(project) \cup {next} /\ q.parent = project.parent
        /\ q.studies = project.studies
    <2>1. Len(project.cases) + 1 \in 1..(Len(project.cases) + 1)
      BY ProjectOK
    <2> QED BY <2>1, ProjectOK, CaseAdded
  <1> HIDE DEF q
  <1>3. HistoryStep /\ project' = q
    BY <1>1, Updated
  <1>4. ShownKept
    BY <1>1, <1>2, <1>3 DEF ShownKept, ShownThere, Systems
  <1>5. Kept(project, q, next)
    BY <1>2 DEF Kept
  <1>6. next + 1 \in Nat /\ next <= next + 1 /\ selectedElementId' # Root
    BY <1>1, ProjectOK DEF IInv
  <1> QED BY <1>1, <1>2, <1>3, <1>4, <1>5, <1>6, FineEdit

\* duplicateCase, of a case that may be gone.
LEMMA FineDuplicateCase ==
    ASSUME IInv, DuplicateCase(activeCaseId)
    PROVE  Fine
  <1> DEFINE c == activeCaseId
             i == CHOOSE i \in DOMAIN project.cases : project.cases[i] = c
             q == IF c \notin Cases(project) THEN project
                  ELSE WithCase(project, 1 + i, next, project.over[c])
  <1>1. /\ Update(q, None) /\ activeCaseId' = next /\ next' = next + 1
        /\ activeSystemId' = activeSystemId /\ selectedElementId' = selectedElementId
        /\ clipboard' = clipboard
    BY DEF DuplicateCase
  <1>2. CASE c \notin Cases(project)
    <2>1. q = project /\ HistoryStep /\ project' = q
      BY <1>1, <1>2, Updated
    <2>2. ShownKept
      BY <1>2 DEF ShownKept, ShownThere
    <2>3. next + 1 \in Nat /\ next <= next + 1 /\ selectedElementId' # Root
      BY <1>1, ProjectOK DEF IInv
    <2>4. ModelOK(project', next + 1) /\ Kept(project, project', next)
      BY <2>1, <2>3, ProjectOK, Later, Itself
    <2> QED BY <1>1, <2>1, <2>2, <2>3, <2>4, FineEdit
  <1>3. CASE c \in Cases(project)
    <2>1. q = WithCase(project, 1 + i, next, project.over[c])
      BY <1>3
    <2>2. i \in DOMAIN project.cases
      BY <1>3 DEF Cases, ToSet
    <2>3. 1 + i \in 1..(Len(project.cases) + 1)
      <3> HIDE DEF i
      <3> QED BY <2>2, ProjectOK
    <2> HIDE DEF i
    <2>4. /\ ModelOK(q, next + 1) /\ KindsKept(project, q, next) /\ Els(q) = Els(project)
          /\ Cases(q) = Cases(project) \cup {next} /\ q.parent = project.parent
          /\ q.studies = project.studies
      <3> DEFINE over == project.over[c]
      <3> HIDE DEF over
      <3>1. q = WithCase(project, 1 + i, next, over)
        BY <2>1 DEF over
      <3> HIDE DEF q
      <3> QED BY <2>3, <3>1, ProjectOK, CaseAdded
    <2> HIDE DEF q
    <2>5. HistoryStep /\ project' = q
      BY <1>1, Updated
    <2>6. ShownKept
      BY <1>1, <2>4, <2>5 DEF ShownKept, ShownThere, Systems
    <2>7. Kept(project, q, next)
      BY <2>4 DEF Kept
    <2>8. next + 1 \in Nat /\ next <= next + 1 /\ selectedElementId' # Root
      BY <1>1, ProjectOK DEF IInv
    <2> QED BY <1>1, <2>4, <2>5, <2>6, <2>7, <2>8, FineEdit
  <1> QED BY <1>2, <1>3

\* removeCase.
LEMMA FineRemoveCase ==
    ASSUME IInv, NEW c, RemoveCase(c)
    PROVE  Fine
  <1> DEFINE q == WithoutCase(project, c)
  <1>1. /\ Len(project.cases) > 1 /\ Update(q, None) /\ activeCaseId' = CaseAfter(q, c)
        /\ activeSystemId' = activeSystemId /\ selectedElementId' = selectedElementId
        /\ clipboard' = clipboard /\ next' = next
    BY DEF RemoveCase
  <1>2. /\ ModelOK(q, next) /\ KindsKept(project, q, next) /\ Els(q) = Els(project)
        /\ Cases(q) = Cases(project) \ {c} /\ q.parent = project.parent
        /\ q.studies = project.studies /\ q.cases[1] \in Cases(q)
    BY <1>1, ProjectOK, CaseRemoved
  <1> HIDE DEF q
  <1>3. HistoryStep /\ project' = q
    BY <1>1, Updated
  <1>4. ShownKept
    BY <1>1, <1>2, <1>3 DEF ShownKept, ShownThere, Systems, CaseAfter
  <1>5. Kept(project, q, next)
    BY <1>2 DEF Kept
  <1>6. next \in Nat /\ next <= next /\ selectedElementId' # Root
    BY <1>1, ProjectOK DEF IInv
  <1> QED BY <1>1, <1>2, <1>3, <1>4, <1>5, <1>6, FineEdit

(* The case the panels show is one of the model.                             *)
LEMMA CaseIsThere ==
    ASSUME IInv
    PROVE  CaseOfPanel \in Cases(project)
  <1>1. 1 \in DOMAIN project.cases
    BY ProjectOK
  <1> QED BY <1>1 DEF CaseOfPanel, Cases, ToSet

\* setCaseOverride and clearCaseOverride.
LEMMA FineOverrides ==
    ASSUME IInv, CaseOverrides
    PROVE  Fine
  <1> DEFINE c == CaseOfPanel
  <1>1. ASSUME NEW over, NEW field, Update([project EXCEPT !.over[c] = over], field),
               UNCHANGED <<shown, clipboard, next>>
        PROVE  Fine
    <2> DEFINE q == [project EXCEPT !.over[c] = over]
    <2>1. /\ DOMAIN q = Fields /\ q.els = project.els /\ q.parent = project.parent
          /\ q.wires = project.wires /\ q.bus = project.bus
          /\ q.cases = project.cases /\ DOMAIN q.over = DOMAIN project.over
          /\ q.studies = project.studies
      BY ProjectOK DEF Fields
    <2>2. Update(q, field)
      BY <1>1
    <2> HIDE DEF q
    <2>3. ModelOK(q, next) /\ KindsKept(project, q, next) /\ Els(q) = Els(project) /\ Shows(project, q)
      BY <2>1, ProjectOK, CasesKept
    <2>4. Kept(project, q, next)
      BY <2>1, <2>3 DEF Kept
    <2>5. HistoryStep /\ project' = q
      BY <2>2, Updated
    <2> QED BY <1>1, <2>3, <2>4, <2>5, FineInPlace
  <1>2. ASSUME NEW e \in Els(project), NEW v \in Values, SetCaseOverride(c, e, v)
        PROVE  Fine
    <2> DEFINE over == [x \in DOMAIN project.over[c] \cup {e} |-> IF x = e THEN v ELSE project.over[c][x]]
    <2>1. Update([project EXCEPT !.over[c] = over], <<"over", c, e>>) /\ UNCHANGED <<shown, clipboard, next>>
      BY <1>2 DEF SetCaseOverride
    <2> HIDE DEF over
    <2> QED BY <1>1, <2>1
  <1>3. ASSUME NEW e, ClearCaseOverride(c, e)
        PROVE  Fine
    <2> DEFINE over == [x \in DOMAIN project.over[c] \ {e} |-> project.over[c][x]]
    <2>1. Update([project EXCEPT !.over[c] = over], None) /\ UNCHANGED <<shown, clipboard, next>>
      BY <1>3 DEF ClearCaseOverride
    <2> HIDE DEF over
    <2> QED BY <1>1, <2>1
  <1> QED BY <1>2, <1>3 DEF CaseOverrides

\* The tabs that choose, add, copy and remove cases.
LEMMA FineSimulations ==
    ASSUME IInv, ChooseCase \/ SimulationsTab
    PROVE  Fine
  <1>1. CASE ChooseCase
    <2>1. PICK c \in Cases(project) : SetActiveCase(c)
      BY <1>1 DEF ChooseCase
    <2>2. /\ Look /\ project' = project /\ clipboard' = clipboard
          /\ activeSystemId' = activeSystemId /\ activeCaseId' = c
          /\ selectedElementId' # Root
      BY <2>1 DEF SetActiveCase, Look, IInv
    <2>3. ShownKept
      BY <2>2 DEF ShownKept, ShownThere
    <2> QED BY <2>2, <2>3, FineLook
  <1> QED BY <1>1, FineAddCase, FineDuplicateCase, FineRemoveCase DEF SimulationsTab

\* setActiveSystem.
LEMMA FineShow ==
    ASSUME IInv, NEW s \in Systems(project), SetActiveSystem(s)
    PROVE  Fine
  <1>1. /\ Look /\ project' = project /\ clipboard' = clipboard
        /\ activeSystemId' = s /\ activeCaseId' = activeCaseId
        /\ selectedElementId' # Root
    BY LimitAssumption DEF SetActiveSystem, Look, Root
  <1>2. ShownKept
    BY <1>1 DEF ShownKept, ShownThere
  <1> QED BY <1>1, <1>2, FineLook

\* select and the jump from a data check.
LEMMA FineSelect ==
    ASSUME IInv, NEW e \in Els(project), Select(e) \/ JumpTo(e)
    PROVE  Fine
  <1>1. /\ Look /\ project' = project /\ clipboard' = clipboard
        /\ activeCaseId' = activeCaseId /\ selectedElementId' = e
    BY DEF Select, JumpTo, Look
  <1>2. e # Root
    BY ProjectOK DEF Root
  <1>3. project.els[e].home \in Systems(project)
    BY ProjectOK, Pieces DEF SystemsOK, SystemsOwned
  <1>4. ShownKept
    BY <1>1, <1>3 DEF ShownKept, ShownThere, Select, JumpTo
  <1> QED BY <1>1, <1>2, <1>4, FineLook

\* What the panels call.
LEMMA FinePanels ==
    ASSUME IInv, Panels
    PROVE  Fine \/ Undo \/ Redo \/ SavedStudies \/ SaveStudy
  <1>1. CASE HomeTab
    <2>1. ASSUME selectedElementId # None, RemoveElements({selectedElementId}, {}) PROVE Fine
      <3>1. Root \notin {selectedElementId}
        BY DEF IInv
      <3> QED BY <2>1, <3>1, FineRemove
    <2> QED BY <1>1, <2>1 DEF HomeTab
  <1>2. CASE ProjectTab
    BY <1>2, Updated, FineSame DEF ProjectTab, RenameSystem
  <1>3. CASE SimulationsTab
    BY <1>3, FineSimulations
  <1>4. CASE CaseSettings
    <2>1. ASSUME NEW c, SetCaseField(c) PROVE Fine
      BY <2>1, Updated, FineSame DEF SetCaseField
    <2> QED BY <1>4, <2>1, FineSimulations DEF CaseSettings
  <1>5. CASE CaseOverrides
    BY <1>5, FineOverrides
  <1>6. CASE ElementsPanel
    <2>1. PICK e \in In(project, activeSystemId) :
              Select(e) \/ (e \in Systems(project) /\ SetActiveSystem(e))
      BY <1>6 DEF ElementsPanel
    <2>2. e \in Els(project)
      BY DEF In
    <2> QED BY <2>1, <2>2, FineSelect, FineShow
  <1>7. CASE MonitorsPanel \/ ChecksPanel
    BY <1>7, FineSelect DEF MonitorsPanel, ChecksPanel
  <1>8. CASE DataBusPanel
    BY <1>8, FineDataBus, FineRemoveLink DEF DataBusPanel
  <1>9. CASE ElementForm
    BY <1>9, FinePorts, FineValue, FineShow DEF ElementForm
  <1> QED BY <1>1, <1>2, <1>3, <1>4, <1>5, <1>6, <1>7, <1>8, <1>9 DEF Panels

\* What the canvas calls.
LEMMA FineDiagram ==
    ASSUME IInv, Diagram
    PROVE  Fine
  <1> DEFINE shownParts == In(project, activeSystemId)
             shownEnds == {end \in Ends(project) : end[1] \in shownParts}
  <1>1. shownParts \subseteq Els(project) /\ Root \notin shownParts
    BY ProjectOK DEF In, Root
  <1>2. ASSUME NEW ids \in SUBSET shownParts, NEW links, RemoveElements(ids, links)
        PROVE  Fine
    <2>1. Root \notin ids
      BY <1>1
    <2> QED BY <1>2, <2>1, FineRemove
  <1>3. ASSUME NEW a \in shownEnds, NEW b \in shownEnds, NEW old, AddConnection(a, b, old)
        PROVE  Fine
    <2>1. project.els[a[1]].home = project.els[b[1]].home
      BY DEF In
    <2> QED BY <1>3, <2>1, FineConnection
  <1>4. ASSUME NEW s \in Breadcrumb \cup (shownParts \cap Systems(project)), SetActiveSystem(s)
        PROVE  Fine
    BY <1>4, FineShow DEF Breadcrumb
  <1>5. ASSUME NEW e \in shownParts, NEW v \in Values, MovePin(e, v) PROVE Fine
    BY <1>1, <1>5, FineMovePin
  <1>6. ASSUME NEW ids \in SUBSET shownParts, CopyElements(ids) \/ DuplicateElements(ids) PROVE Fine
    BY <1>6, FineCopies
  <1> QED BY <1>2, <1>3, <1>4, <1>5, <1>6, FineAdd, FinePaste, FineDrag DEF Diagram

-----------------------------------------------------------------------------
(* Studies, undo and redo.                                                   *)

\* updateProject without history.
LEMMA QuietKept ==
    ASSUME IInv, NEW studies \in SUBSET StudyIds, Quiet([project EXCEPT !.studies = studies]),
           UNCHANGED <<shown, clipboard, next>>
    PROVE  IInv' /\ Els(project') = Els(project) /\ ShownKept
  <1> DEFINE q == [project EXCEPT !.studies = studies]
  <1>1. /\ DOMAIN q = Fields /\ q.els = project.els /\ q.parent = project.parent
        /\ q.wires = project.wires /\ q.bus = project.bus
        /\ q.cases = project.cases /\ q.over = project.over /\ q.studies \subseteq StudyIds
    BY ProjectOK DEF Fields
  <1>2. project' = q /\ UNCHANGED <<past, future>> /\ Edit
    BY DEF Quiet, history
  <1> HIDE DEF q
  <1>3. ModelOK(q, next) /\ KindsKept(project, q, next) /\ Els(q) = Els(project) /\ Shows(project, q)
    BY <1>1, ProjectOK, CasesKept
  <1>4. HistoryStep
    BY <1>2, Edited, HistoryOf DEF HistoryStep
  <1>5. /\ next \in Nat /\ next <= next /\ next' = next /\ clipboard' = clipboard
        /\ activeSystemId' = activeSystemId /\ activeCaseId' = activeCaseId
        /\ selectedElementId' # Root /\ project \in Models
    BY ProjectOK DEF shown, IInv
  <1>6. IInv'
    BY <1>2, <1>3, <1>4, <1>5, Stepped
  <1> QED BY <1>2, <1>3, <1>5, <1>6, ShowsKept

\* saveStudy and removeStudy.
LEMMA StudiesStep ==
    ASSUME IInv, SaveStudy \/ SavedStudies
    PROVE  IInv' /\ Els(project') = Els(project) /\ ShownKept
  <1>1. project.studies \subseteq StudyIds
    BY ProjectOK
  <1>2. ASSUME NEW s \in StudyIds, Quiet([project EXCEPT !.studies = @ \cup {s}]),
               UNCHANGED <<shown, clipboard, next>>
        PROVE  IInv' /\ Els(project') = Els(project) /\ ShownKept
    <2>1. project.studies \cup {s} \in SUBSET StudyIds
      BY <1>1
    <2> QED BY <1>2, <2>1, QuietKept
  <1>3. ASSUME NEW s, RemoveStudy(s)
        PROVE  IInv' /\ Els(project') = Els(project) /\ ShownKept
    <2>1. project.studies \ {s} \in SUBSET StudyIds
      BY <1>1
    <2> QED BY <1>3, <2>1, QuietKept DEF RemoveStudy
  <1> QED BY <1>2, <1>3 DEF SaveStudy, SavedStudies

\* A model of the history comes back with the studies there are now.
LEMMA BackOrForth ==
    ASSUME IInv, NEW p \in Models, project' = KeepStudies(p, project), HistoryStep,
           UNCHANGED <<shown, clipboard, next>>
    PROVE  IInv' /\ project'.studies = project.studies
  <1> DEFINE q == KeepStudies(p, project)
  <1>0. next \in Nat /\ ModelOK(p, next) /\ DOMAIN p = Fields
    BY Pieces DEF IInv, AllOK
  <1>1. /\ DOMAIN q = Fields /\ q.els = p.els /\ q.parent = p.parent
        /\ q.wires = p.wires /\ q.bus = p.bus
        /\ q.cases = p.cases /\ q.over = p.over /\ q.studies = project.studies
    BY <1>0 DEF KeepStudies, Fields
  <1> HIDE DEF q
  <1>2. q.studies \subseteq StudyIds
    BY <1>1, ProjectOK
  <1>3. ModelOK(q, next) /\ KindsKept(p, q, next)
    BY <1>0, <1>1, <1>2, CasesKept
  <1>4. /\ next <= next /\ next' = next /\ clipboard' = clipboard /\ selectedElementId' # Root
        /\ project' = q
    BY <1>0 DEF shown, IInv, q
  <1>5. IInv'
    BY <1>0, <1>3, <1>4, Stepped
  <1> QED BY <1>1, <1>4, <1>5

\* All but the last of a history.
LEMMA FrontLast ==
    ASSUME NEW S, NEW s \in Seq(S), s # <<>>
    PROVE  Last(s) \in S /\ Front(s) \in Seq(S) /\ Len(Front(s)) = Len(s) - 1
  <1>1. Len(s) \in Nat \ {0} /\ \A i \in 1..Len(s) : s[i] \in S
    OBVIOUS
  <1>2. Len(s) - 1 \in Int /\ \A i \in 1..(Len(s) - 1) : s[i] \in S
    BY <1>1
  <1> DEFINE f == SubSeq(s, 1, Len(s) - 1)
  <1>3. f \in Seq(S) /\ Len(f) = IF 1 <= Len(s) - 1 THEN (Len(s) - 1) - 1 + 1 ELSE 0
    BY <1>2, SubSeqProperties
  <1> HIDE DEF f
  <1>4. f \in Seq(S) /\ Len(f) = Len(s) - 1
    BY <1>1, <1>3
  <1>5. Front(s) = f /\ Last(s) \in S
    BY <1>1 DEF Front, Last, f
  <1> QED BY <1>4, <1>5

(* Undo brings back the last model of the past, redo the first of the future. *)
LEMMA UndoKept ==
    ASSUME IInv, Undo
    PROVE  IInv' /\ project'.studies = project.studies
  <1>1. /\ past # <<>> /\ project' = KeepStudies(Last(past), project) /\ past' = Front(past)
        /\ future' = <<project>> \o (IF Len(future) < HISTORY_LIMIT THEN future ELSE Front(future))
        /\ UNCHANGED <<shown, clipboard, next>> /\ Edit
    BY DEF Undo
  <1>2. /\ past \in Seq(Models) /\ future \in Seq(Models) /\ project \in Models
        /\ Len(past) <= HISTORY_LIMIT /\ Len(future) <= HISTORY_LIMIT
    BY HistoryOf
  <1> HIDE DEF Models
  <1>3. HISTORY_LIMIT \in Nat \ {0}
    BY LimitAssumption
  <1>4. Last(past) \in Models /\ Front(past) \in Seq(Models) /\ Len(Front(past)) = Len(past) - 1
    BY <1>1, <1>2, FrontLast
  <1>5. past' \in Seq(Models) /\ Len(past') <= HISTORY_LIMIT
    BY <1>1, <1>2, <1>3, <1>4
  <1> DEFINE rest == IF Len(future) < HISTORY_LIMIT THEN future ELSE Front(future)
  <1>6. rest \in Seq(Models) /\ Len(rest) < HISTORY_LIMIT
    <2>1. CASE Len(future) < HISTORY_LIMIT
      BY <1>2, <2>1
    <2>2. CASE ~(Len(future) < HISTORY_LIMIT)
      <3>1. future # <<>> /\ Len(future) = HISTORY_LIMIT
        BY <1>2, <1>3, <2>2
      <3>2. Front(future) \in Seq(Models) /\ Len(Front(future)) = Len(future) - 1
        BY <1>2, <3>1, FrontLast
      <3> QED BY <1>3, <2>2, <3>1, <3>2
    <2> QED BY <2>1, <2>2
  <1> HIDE DEF rest
  <1>7. future' \in Seq(Models) /\ Len(future') <= HISTORY_LIMIT
    <2>1. future' = <<project>> \o rest
      BY <1>1 DEF rest
    <2>2. <<project>> \in Seq(Models) /\ Len(<<project>>) = 1
      BY <1>2
    <2>3. future' \in Seq(Models) /\ Len(future') = 1 + Len(rest) /\ Len(rest) \in Nat
      BY <1>6, <2>1, <2>2, ConcatProperties
    <2> QED BY <1>3, <1>6, <2>3
  <1>8. HistoryStep
    BY <1>1, <1>5, <1>7, Edited DEF HistoryStep
  <1> QED BY <1>1, <1>4, <1>8, BackOrForth

\* Redo, likewise.
LEMMA RedoKept ==
    ASSUME IInv, Redo
    PROVE  IInv' /\ project'.studies = project.studies
  <1>1. /\ future # <<>> /\ project' = KeepStudies(Head(future), project)
        /\ future' = Tail(future) /\ past' = Pushed(past, project)
        /\ UNCHANGED <<shown, clipboard, next>> /\ Edit
    BY DEF Redo
  <1>2. /\ past \in Seq(Models) /\ future \in Seq(Models) /\ project \in Models
        /\ Len(past) <= HISTORY_LIMIT /\ Len(future) <= HISTORY_LIMIT
    BY HistoryOf
  <1> HIDE DEF Models
  <1>3. Head(future) \in Models /\ Tail(future) \in Seq(Models) /\ Len(Tail(future)) = Len(future) - 1
    BY <1>1, <1>2
  <1>4. future' \in Seq(Models) /\ Len(future') <= HISTORY_LIMIT
    BY <1>1, <1>2, <1>3, LimitAssumption
  <1>5. past' \in Seq(Models) /\ Len(past') <= HISTORY_LIMIT
    BY <1>1, <1>2, PushedIs
  <1>6. HistoryStep
    BY <1>1, <1>4, <1>5, Edited DEF HistoryStep
  <1> QED BY <1>1, <1>3, <1>6, BackOrForth

-----------------------------------------------------------------------------
(* The theorems.                                                             *)

LEMMA InitInv == Init => IInv
  <1> SUFFICES ASSUME Init PROVE IInv
    OBVIOUS
  <1>1. project \in Starts /\ past = <<>> /\ future = <<>> /\ next = FirstNew /\ clipboard = None
    BY DEF Init
  <1>2. Models = {project}
    BY <1>1 DEF Models, ToSet
  <1>3. ModelOK(project, next) /\ next \in Nat \ {0}
    BY <1>1, StartsAssumption, LimitAssumption DEF ModelOK
  <1>4. HistoryOK
    <2>1. past = <<>> /\ future = <<>> /\ <<>> \in Seq(ToSet(<<>>)) /\ Len(<<>>) = 0
      BY <1>1
    <2> QED BY <2>1, LimitAssumption DEF HistoryOK
  <1>5. edits \in 0..MaxEdits /\ looks \in 0..MaxLooks /\ selectedElementId # Root
    BY BoundsAssumption, LimitAssumption DEF Init, Root
  <1> QED BY <1>1, <1>2, <1>3, <1>4, <1>5 DEF IInv, AllOK

(* Every step keeps the invariant, and does what the properties say.          *)
LEMMA Steps ==
    ASSUME IInv, Next
    PROVE  /\ IInv'
           /\ Stands \/ Undo \/ Redo
           /\ ShownKept \/ Undo \/ Redo
           /\ project'.studies # project.studies => SaveStudy \/ SavedStudies
  <1>1. Fine \/ Undo \/ Redo \/ SavedStudies \/ SaveStudy
    BY FinePanels, FineDiagram DEF Next
  <1>2. CASE Fine
    BY <1>2 DEF Fine
  <1>3. CASE Undo
    BY <1>3, UndoKept
  <1>4. CASE Redo
    BY <1>4, RedoKept
  <1>5. CASE SaveStudy \/ SavedStudies
    BY <1>5, StudiesStep DEF Stands
  <1> QED BY <1>1, <1>2, <1>3, <1>4, <1>5

\* Nothing changes.
LEMMA Stutters ==
    ASSUME IInv, UNCHANGED vars
    PROVE  IInv'
  <1>1. /\ project' = project /\ past' = past /\ future' = future /\ next' = next
        /\ clipboard' = clipboard /\ edits' = edits /\ looks' = looks
        /\ selectedElementId' = selectedElementId
    BY DEF vars, history, shown
  <1>2. Models' = Models
    BY <1>1 DEF Models
  <1> QED BY <1>1, <1>2 DEF IInv, HistoryOK

(* The invariant holds in every state.                                       *)
LEMMA Inductive == Spec => []IInv
  <1>1. Init => IInv
    BY InitInv
  <1>2. IInv /\ [Next]_vars => IInv'
    BY Steps, Stutters
  <1> QED BY <1>1, <1>2, PTL DEF Spec

\* The model stays one the engine can read, whatever is edited, copied, removed,
\* undone and redone; the models of the history and the clipboard stay typed.
THEOREM ModelWellFormed == Spec => []WellFormed
  <1>1. IInv => WellFormed
    <2> SUFFICES ASSUME IInv PROVE WellFormed
      OBVIOUS
    <2>1. \A p \in Models : ModelOK(p, next)
      BY DEF IInv, AllOK
    <2>2. project \in Models
      BY ProjectOK
    <2>3. clipboard = None \/ Pastable(clipboard, project, next)
      BY <2>2 DEF IInv, AllOK
    <2>4. clipboard = None \/ (PartsType(clipboard, next) /\ LinksType(clipboard))
      BY <2>3 DEF Pastable, LinksOK
    <2>5. TypeOK
      BY <2>1, <2>4 DEF TypeOK, ModelOK, IInv, HistoryOK
    <2> QED BY <2>1, <2>2, <2>5 DEF WellFormed, ModelOK
  <1> QED BY <1>1, Inductive, PTL

\* Paste and duplicate link copies only to one another and change nothing that
\* was there: CloneElementsInto numbers copies anew and adds links among them.
THEOREM ModelCopies == Spec => CopiesStandAlone
  <1> DEFINE A == \/ Els(project') \subseteq Els(project) \/ Undo \/ Redo
                  \/ LET old == Els(project)
                         new == (project'.wires \ project.wires) \cup (project'.bus \ project.bus)
                     IN /\ ~\E l \in new : Touches(l, old)
                        /\ project.wires \subseteq project'.wires /\ project.bus \subseteq project'.bus
                        /\ old \subseteq Els(project') /\ \A e \in old : project'.els[e] = project.els[e]
  <1>1. IInv /\ [Next]_vars => [A]_vars
    BY Steps DEF Stands
  <1> QED BY <1>1, Inductive, PTL DEF Spec, CopiesStandAlone

\* Only undo and redo take the system or the case on screen away: every other
\* edit shows one that is there (removeElements, removeCase and what selects).
THEOREM ModelShown == Spec => ShownStays
  <1> DEFINE A == \/ activeSystemId' \in Systems(project') /\ activeCaseId' \in Cases(project')
                  \/ Undo \/ Redo
                  \/ activeSystemId \notin Systems(project) \/ activeCaseId \notin Cases(project)
  <1>1. IInv /\ [Next]_vars => [A]_vars
    BY Steps DEF ShownKept, ShownThere
  <1> QED BY <1>1, Inductive, PTL DEF Spec, ShownStays

\* Only a sweep and the removal of its table change the studies: undo and redo
\* put the current ones into the model they bring back (keepStudies).
THEOREM ModelStudies == Spec => StudiesKept
  <1> DEFINE A == project'.studies # project.studies => SaveStudy \/ SavedStudies
  <1>1. IInv /\ [Next]_vars => [A]_vars
    BY Steps
  <1> QED BY <1>1, Inductive, PTL DEF Spec, StudiesKept
=============================================================================
