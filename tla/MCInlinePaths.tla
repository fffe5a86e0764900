---------------------------- MODULE MCInlinePaths ----------------------------
(* TLC instance of the inline access paths: named properties through their   *)
(* caches, or elements and lengths, one of them per behaviour.               *)
EXTENDS PropertyCaches, ElementAccess

VARIABLE path   \* the accesses this behaviour makes

MCProtoKinds == [get |-> {"data", "getset1"}, set |-> {"readonly", "getset1"}, init |-> {"readonly"},
                 accessor |-> {"getset1", "getset2"}]
MCStartKinds == [get |-> {"none"}, set |-> {"none"}, init |-> {"none"}, accessor |-> {"getset1"}]
MCOwnNames == [get |-> {"x", "y"}, set |-> {"y", "z"}, init |-> {"y", "z"}, accessor |-> {}]

MCSite(pred, poly, args) == [pred |-> pred, poly |-> poly, args |-> args]
MCSites == {MCSite("Int8", FALSE, TRUE), MCSite(NONE, TRUE, TRUE)}
MCPairs == {<<"Array", "Object">>, <<"Int8", "Uint8">>, <<"Uint8Clamped", "Float64">>,
            <<"Arguments", "Uint32">>, <<"String", "Proxy">>}
MCNumbers == {I32(-1), I32(3), Dbl(5), Dbl(-1), Dbl(-16), NotANumber}

\* The other path stays in one of its first states.
PropIdle == PropInit /\ fam = "init" /\ young = {}
ElemIdle == ElemInit /\ things.A.cls = "Array"

Init == \/ path = "property" /\ PropInit /\ ElemIdle
        \/ path = "element" /\ ElemInit /\ PropIdle
Next == \/ path = "property" /\ PropNext /\ UNCHANGED <<path, elemVars>>
        \/ path = "element" /\ ElemNext /\ UNCHANGED <<path, propVars>>
Spec == Init /\ [][Next]_<<path, propVars, elemVars>>
=============================================================================
