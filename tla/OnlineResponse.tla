---------------------------- MODULE OnlineResponse ----------------------------
(***************************************************************************)
(* online_response.py: OnlineResponse, the client-side view of a          *)
(* GetOnlineFeaturesResponse (its constructor strips the dummy entity and  *)
(* to_dict renders one list per feature), and _infer_online_entity_rows,   *)
(* which types the entity rows a caller passes to get_online_features.    *)
(* Both are pure; their inputs are picked in Init and no step changes them.*)
(*                                                                         *)
(* A Value is its oneof case t ("none" when unset) and a payload v.  Every *)
(* record of a response holds a field for each requested feature (the      *)
(* server fills unknown ones with an unset Value).  An entity value is a   *)
(* proto Value (proto = TRUE) of a feast ValueType, or a Python value of a *)
(* ValueType or None (type = Null).                                        *)
(***************************************************************************)
EXTENDS Naturals, Sequences, SequencesExt, Functions

CONSTANTS
    Features,      \* feature names of a response; contains Dummy
    Dummy,         \* DUMMY_ENTITY_ID
    OneofCases,    \* Value oneof cases, e.g. int64_val, int64_list_val
    Payload,       \* Payload[t]: the value a set case t carries
    Default,       \* Default[t]: getattr of case t on a Value where t is unset
    EntityKeys,    \* entity names of entity rows
    ValueTypes,    \* feast ValueTypes an entity value can have
    Null,          \* the ValueType of a Python None
    MaxRows,       \* records of a response, rows of an entity list
    None           \* Python None

ASSUME Dummy \in Features

VARIABLES resp, rows

ovars == <<resp, rows>>

Unset == [t |-> "none", v |-> None]

Values == {Unset} \cup {[t |-> c, v |-> Payload[c]] : c \in OneofCases}

-----------------------------------------------------------------------------
(* OnlineResponse                                                          *)

\* __init__: delete DUMMY_ENTITY_ID from every record's statuses and fields.
\* keys stands for the status keys, which to_dict reads from record 0.
Strip(r) ==
    [keys |-> r.keys \ {Dummy},
     records |-> [i \in 1..Len(r.records) |->
                    Restrict(r.records[i], DOMAIN r.records[i] \ {Dummy})]]

\* row[feature] on the protobuf map of Values: a missing key reads (and
\* inserts) an unset Value instead of raising KeyError
Field(row, f) == IF f \in DOMAIN row THEN row[f] ELSE Unset

\* Mutant: the scan stops at the first row whether or not it is set
ValType_FirstRow(recs, f) == IF recs = <<>> THEN "none" ELSE Field(recs[1], f).t

\* The first loop of to_dict: the oneof case of the first row whose field
\* is set (WhichOneof("val")), or "none" when no row sets it.
ValType(recs, f) ==
    LET i == SelectInSeq(recs, LAMBDA row : Field(row, f).t # "none")
    IN IF i = 0 THEN "none" ELSE Field(recs[i], f).t

\* getattr(row[feature], val_type), then list(val.val) for a list case:
\* the payload of the case, or its default when the row sets another case
\* or none.
Render(val, t) == IF val.t = t THEN val.v ELSE Default[t]

\* to_dict: one list per status key of record 0 ("IndexError" when the
\* response has no record); [None] * len(rows) for a feature no row sets.
ToDict(r) ==
    LET recs == r.records
    IN IF recs = <<>> THEN "IndexError"
       ELSE [f \in r.keys |->
               LET t == ValType(recs, f)
               IN IF t = "none" THEN [i \in 1..Len(recs) |-> None]
                  ELSE [i \in 1..Len(recs) |-> Render(Field(recs[i], f), t)]]

-----------------------------------------------------------------------------
(* _infer_online_entity_rows                                               *)

\* The rows that hold key k
RowsWith(rs, k) == {i \in 1..Len(rs) : k \in DOMAIN rs[i]}

KeysOf(rs) == UNION {DOMAIN rs[i] : i \in 1..Len(rs)}

\* _proto_value_to_value_type of the proto values given for k
ProtoTypes(rs, k) == {rs[i][k].type : i \in {j \in RowsWith(rs, k) : rs[j][k].proto}}

\* entity_python_values_map[k]: the Python values given for k, in row order
PyValues(rs, k) ==
    LET idx == SetToSortSeq({j \in RowsWith(rs, k) : ~rs[j][k].proto}, <)
    IN [n \in 1..Len(idx) |-> rs[idx[n]][k]]

\* python_values_to_feast_value_type (type_map.py, outside this
\* repository): the one type of the non-None values; TypeError for two,
\* ValueError when every value is None.
PyInfer(vals) ==
    LET ts == {vals[n].type : n \in 1..Len(vals)} \ {Null}
    IN IF ts = {} THEN "ValueError"
       ELSE IF Cardinality(ts) > 1 THEN "TypeError"
       ELSE CHOOSE t \in ts : TRUE

\* Mutant: the second loop does not compare with the proto values' type
KeyError_NoProtoCheck(rs, k) ==
    IF PyValues(rs, k) = <<>> THEN "ok" ELSE
    LET ty == PyInfer(PyValues(rs, k))
    IN IF ty \in {"TypeError", "ValueError"} THEN ty ELSE "ok"

\* One pass of the second loop for key k: the error raised, or "ok"
KeyError(rs, k) ==
    IF PyValues(rs, k) = <<>> THEN "ok" ELSE
    LET ty == PyInfer(PyValues(rs, k))
    IN IF ty \in {"TypeError", "ValueError"} THEN ty
       ELSE IF ProtoTypes(rs, k) \notin {{}, {ty}} THEN "TypeError"
       ELSE "ok"

\* entity_type_map after both loops
TypeMap(rs) ==
    [k \in KeysOf(rs) |->
        IF PyValues(rs, k) # <<>> THEN PyInfer(PyValues(rs, k))
        ELSE CHOOSE t \in ProtoTypes(rs, k) : TRUE]

\* _python_value_to_proto_value(type, [value])[0]; None gives an unset Value
ToProto(t, val) == [proto |-> TRUE, type |-> IF val.type = Null THEN Null ELSE t]

\* An outcome of a call: the exception raised, or "none" and the result
Raised(e) == [raised |-> e, result |-> <<>>]
Returned(r) == [raised |-> "none", result |-> r]

\* _infer_online_entity_rows: the set of outcomes (an error, or the typed
\* rows).  The first loop raises TypeError on two proto types for one key;
\* the second loop visits the keys in dict insertion order, so when two
\* keys fail differently either error may be raised.
InferOnlineEntityRows(rs) ==
    IF \E k \in KeysOf(rs) : Cardinality(ProtoTypes(rs, k)) > 1 THEN {Raised("TypeError")}
    ELSE LET errs == {KeyError(rs, k) : k \in KeysOf(rs)} \ {"ok"}
         IN IF errs # {} THEN {Raised(e) : e \in errs}
            ELSE {Returned([i \in 1..Len(rs) |->
                     [k \in DOMAIN rs[i] |->
                        IF rs[i][k].proto THEN rs[i][k]
                        ELSE ToProto(TypeMap(rs)[k], rs[i][k])]])}

-----------------------------------------------------------------------------

\* A response to a request for some features: every record has a field for
\* each of them; the dummy entity comes back for entityless views.
Responses ==
    UNION {{[keys |-> ks, records |-> recs] :
               recs \in UNION {[1..n -> [ks -> Values]] : n \in 0..MaxRows}} :
           ks \in {fs \in SUBSET Features : fs \ {Dummy} # {}}}

EntityValues ==
    [proto : {TRUE}, type : ValueTypes] \cup [proto : {FALSE}, type : ValueTypes \cup {Null}]

EntityRows == UNION {[1..n -> UNION {[ks -> EntityValues] : ks \in SUBSET EntityKeys}] :
                        n \in 1..MaxRows}

Init == resp \in Responses /\ rows \in EntityRows

Next == UNCHANGED ovars

Spec == Init /\ [][Next]_ovars

-----------------------------------------------------------------------------
(* Properties                                                              *)

\* OnlineResponse(proto).to_dict() of a non-empty response has one column
\* per requested feature, the dummy entity left out, with one entry per
\* record; a feature no record sets is all None; otherwise some case of
\* the feature's values renders every record that sets it as its own value
\* ("find the first non-null instance of each feature").
ToDictFaithful ==
    LET recs == resp.records
        d == ToDict(Strip(resp))
    IN recs # <<>> =>
       /\ DOMAIN d = resp.keys \ {Dummy}
       /\ \A f \in DOMAIN d :
            /\ Len(d[f]) = Len(recs)
            /\ (\A i \in 1..Len(recs) : recs[i][f].t = "none") =>
                   \A i \in 1..Len(recs) : d[f][i] = None
            /\ (\E i \in 1..Len(recs) : recs[i][f].t # "none") =>
                   \E t \in OneofCases :
                      /\ \E i \in 1..Len(recs) : recs[i][f].t = t
                      /\ \A i \in 1..Len(recs) : recs[i][f].t = t => d[f][i] = recs[i][f].v

\* _infer_online_entity_rows accepts the rows exactly when every entity has
\* one type across its non-None values, proto and Python alike, and its
\* Python values are not all None; it then returns one EntityRow per row
\* with the same entities, each value typed with its entity's type.
\* Otherwise it raises TypeError or ValueError.
EntityRowsMatchReference ==
    LET types(k) == {rows[i][k].type : i \in RowsWith(rows, k)} \ {Null}
        py(k) == {i \in RowsWith(rows, k) : ~rows[i][k].proto}
        accept == \A k \in KeysOf(rows) :
                    /\ Cardinality(types(k)) = 1
                    /\ py(k) # {} => \E i \in py(k) : rows[i][k].type # Null
        expected ==
            [i \in 1..Len(rows) |->
                [k \in DOMAIN rows[i] |->
                    [proto |-> TRUE,
                     type |-> IF rows[i][k].type = Null THEN Null
                              ELSE CHOOSE t \in types(k) : TRUE]]]
    IN IF accept THEN InferOnlineEntityRows(rows) = {Returned(expected)}
       ELSE \A o \in InferOnlineEntityRows(rows) : o.raised \in {"TypeError", "ValueError"}

=============================================================================
