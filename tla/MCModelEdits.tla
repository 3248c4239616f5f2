---------------------------- MODULE MCModelEdits ----------------------------
(* Values for checking ModelEdits with TLC: a container with a part that      *)
(* sends a signal to the script next to it.                                  *)
EXTENDS ModelEdits

Part(def, home, dyn) == [def |-> def, home |-> home, dyn |-> dyn, val |-> 0]
NoPorts == {}
OneInput == {[id |-> "d1", kind |-> "signal", dir |-> "input"]}
Model(els, wires, bus) ==
    [els |-> els, wires |-> wires, bus |-> bus,
     parent |-> [s \in {0} \cup {e \in DOMAIN els : els[e].def = Container} |->
                   IF s = 0 THEN None ELSE els[s].home],
     cases |-> <<1>>, over |-> (1 :> <<>>), studies |-> {}]

Nested == Model((1 :> Part(Container, 0, NoPorts)) @@ (2 :> Part("part", 1, NoPorts))
                  @@ (3 :> Part("script", 1, OneInput)),
                {}, {{<<2, "out">>, <<3, "d1">>}})
StartsValue == {Nested}
=============================================================================
