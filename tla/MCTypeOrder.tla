---------------------------- MODULE MCTypeOrder ----------------------------
(***************************************************************************)
(* Small families of documents for TypeOrder.  The constraints keep them   *)
(* to what the analyzer hands over: an enum or an opaque type uses no      *)
(* type, and an alias is registered only after the aliases it uses.        *)
(***************************************************************************)
EXTENDS TypeOrder

AnalyzerAccepts(kind, uses) ==
    /\ \A t \in Types : kind[t] \in {"enum", "opaque"} => uses[t] = <<>>
    /\ \E rank \in [Types -> Positions] : \A t \in Types :
         \A j \in DOMAIN uses[t] :
            kind[t] = "alias" /\ kind[uses[t][j].of] = "alias"
                => rank[uses[t][j].of] < rank[t]

DocumentsOver(kinds, lists) ==
    {d \in [kind : kinds, uses : [Types -> lists]] : AnalyzerAccepts(d.kind, d.uses)}

\* At most two uses each, with repeated targets in both orders of strength.
ShortLists == {l \in UNION {[1 .. n -> Uses] : n \in 0 .. 2} :
                 Len(l) = 2 => l[1].of <= l[2].of /\ l[1] # l[2]}

\* Every mixture of three kinds; type 0 may also use itself.
MixedDocuments ==
    {d \in DocumentsOver([Types -> Kinds], ShortLists) :
        \A t \in Types \ {0} : \A j \in DOMAIN d.uses[t] : d.uses[t][j].of # t}

\* One struct that only points to another.
PointerDocuments ==
    {[kind |-> [t \in Types |-> "struct"],
      uses |-> [t \in Types |-> IF t = 0 THEN <<[by |-> "pointer", of |-> 1]>> ELSE <<>>]]}
=============================================================================
