---------------------------- MODULE MCMapEditor ----------------------------
(* Instances of MapEditor for TLC. *)
EXTENDS MapEditor

FirstIsFloor == {1}
ThreeTypes == {"floor", "addesk", "localdesk"}

\* Of what can go on at once - a form, a drag, the alignment tool, a request, a
\* handler whose answer is lost - a behaviour has two at a time.
TwoAtATime ==
    LET goesOn == <<form # NoForm, drag # NoDrag, tool.step # "off", requests # {},
                    \E h \in handlers : h.lost>>
    IN  Cardinality({n \in 1..5 : goesOn[n]}) =< 2
=============================================================================
