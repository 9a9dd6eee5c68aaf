----------------------------- MODULE JSONCodec ------------------------------
(***************************************************************************)
(* The session codec JSONCodec of middleware/session/jsonCodec.go.  Encode *)
(* marshals Aux{V: values, CR: csrfToken} with sonic; Decode unmarshals    *)
(* into an Aux whose V is a map[string]interface{}.  What the conversion   *)
(* does to a value is what JSON does to a Go value held in an interface{}:  *)
(* every Go number is written as a JSON number and read back as a float64; *)
(* strings and bools are read back as themselves.  A session value is a    *)
(* record [type, data]; data is an opaque payload JSON carries unchanged.  *)
(* A blob that does not unmarshal is the model value Corrupt.              *)
(***************************************************************************)
CONSTANT Corrupt

GoTypes == {"string", "bool", "int", "float64"}

JSONKind(type) ==
    CASE type \in {"int", "float64"} -> "number"
      [] type = "string"             -> "string"
      [] type = "bool"               -> "bool"

\* the Go type encoding/json-compatible decoding gives a JSON kind in interface{}
GoTypeOfKind(kind) ==
    CASE kind = "number" -> "float64"
      [] kind = "string" -> "string"
      [] kind = "bool"   -> "bool"

Encode(csrfToken, values) ==
    [CR |-> csrfToken,
     V  |-> [k \in DOMAIN values |-> [kind |-> JSONKind(values[k].type),
                                      data |-> values[k].data]]]

\* Decode of a blob that unmarshals; callers test DecodeFails first.
Decode(blob) ==
    [csrfToken |-> blob.CR,
     values    |-> [k \in DOMAIN blob.V |-> [type |-> GoTypeOfKind(blob.V[k].kind),
                                             data |-> blob.V[k].data]]]

DecodeFails(blob) == blob = Corrupt

=============================================================================
