----------------------------- MODULE JsonProtocol -----------------------------
(***************************************************************************)
(* skitter::protocol (src/protocol/json_protocol.cpp): how a request or a  *)
(* response becomes a JSON document and comes back, and what nlohmann's    *)
(* dump() and parse() do to the document on its way.  There is no state.   *)
(*                                                                         *)
(* A Value or a document (nlohmann::json) is a tree: a function from the   *)
(* paths of its nodes (JSON pointers: the keys and the indices that lead   *)
(* there, all of them strings; the root is at <<>>) to the nodes.  The     *)
(* node of a Value is a record with its type, that of a document one with  *)
(* its kind.  A conversion that calls itself on every child is one that    *)
(* converts the node at every path.  A std::vector<Value> is the array it  *)
(* makes, a std::optional a set of at most one element, the text on a line *)
(* the document it holds, or Garbage.                                      *)
(***************************************************************************)
EXTENDS Integers, Sequences

CONSTANTS
  SignBit,     \* 2^63: the int64_t are -2^63 .. 2^63 - 1
  IntSignBit,  \* 2^31: the ints, which error codes are
  Strings      \* the std::strings

(* The keys, the numbers of array elements and the texts of the code. *)
Keys  == {"jsonrpc", "method", "params", "id", "result", "error", "code", "message", "data"}
Texts == {"", "2.0", "notUtf8", "JSON parse error", "Top-level JSON is not an object",
          "Missing or invalid 'method'", "'method' cannot be empty", "'params' must be an array"}

ASSUME JsonAssumption ==
  /\ SignBit \in Nat \ {0}
  /\ IntSignBit \in Nat /\ IntSignBit >= 32768
  /\ Keys \cup {"0", "1"} \cup Texts \subseteq Strings

MaxInt == SignBit - 1
MinInt == -SignBit

Ints   == -IntSignBit .. IntSignBit - 1

(* The number that is left of n in a type with this sign bit. *)
Wrap(n, bit) == ((n + bit) % (2 * bit)) - bit

(* static_cast<int64_t>; get<int>(). *)
ToInt64(n) == Wrap(n, SignBit)
ToInt(n)   == Wrap(n, IntSignBit)

The(option) == CHOOSE x \in option : TRUE

-------------------------------------------------------------------------------
(* Trees *)
Leaf(node) == [p \in {<<>>} |-> node]

(* A node with children: o maps each key to the tree there, if there is one. *)
Above(node, o) ==
  [p \in {<<>>} \cup UNION {UNION {{<<k>> \o q : q \in DOMAIN t} : t \in o[k]} : k \in DOMAIN o} |->
     IF p = <<>> THEN node ELSE The(o[Head(p)])[Tail(p)]]

Has(t, key)   == <<key>> \in DOMAIN t
Child(t, key) ==
  [p \in {Tail(q) : q \in {r \in DOMAIN t : r # <<>> /\ Head(r) = key}} |-> t[<<key>> \o p]]

(* core::Value.  A double is "half" (1/2) or "NaN"; a string is known by   *)
(* name, the one called "notUtf8" holds bytes that are not UTF-8.          *)
VNull      == Leaf([type |-> "Null"])
VBool(b)   == Leaf([type |-> "Bool", bool |-> b])
VInt(n)    == Leaf([type |-> "Int", int |-> n])
VDouble(d) == Leaf([type |-> "Double", double |-> d])
VString(s) == Leaf([type |-> "String", string |-> s])
VArray(o)  == Above([type |-> "Array"], o)
VObject(o) == Above([type |-> "Object"], o)
VBinary    == Leaf([type |-> "Binary"])
VDateTime  == Leaf([type |-> "DateTime"])

(* nlohmann::json *)
JNull        == Leaf([kind |-> "null"])
JBool(b)     == Leaf([kind |-> "boolean", bool |-> b])
JInteger(n)  == Leaf([kind |-> "integer", num |-> n])
JUnsigned(n) == Leaf([kind |-> "unsigned", num |-> n])
JFloat(d)    == Leaf([kind |-> "float", double |-> d])
JString(s)   == Leaf([kind |-> "string", string |-> s])
JArray(o)    == Above([kind |-> "array"], o)
JObject(o)   == Above([kind |-> "object"], o)

(* A line that is not JSON, and whether that which the parser quotes of it *)
(* in its error is UTF-8.  What it quotes may end inside a character.      *)
Garbage(utf8) == Leaf([kind |-> "garbage", utf8 |-> utf8])

Kind(j) == j[<<>>].kind

-------------------------------------------------------------------------------
NodeToJson(v) ==
  CASE v.type = "Bool"   -> [kind |-> "boolean", bool |-> v.bool]
    [] v.type = "Int"    -> [kind |-> "integer", num |-> v.int]
    [] v.type = "Double" -> [kind |-> "float", double |-> v.double]
    [] v.type = "String" -> [kind |-> "string", string |-> v.string]
    [] v.type = "Array"  -> [kind |-> "array"]
    [] v.type = "Object" -> [kind |-> "object"]
    [] OTHER             -> [kind |-> "null"]

ValueToJson(v) == [p \in DOMAIN v |-> NodeToJson(v[p])]

(* j.get<int64_t>() *)
NumberToInt(n) == ToInt64(n)

(* is_number_integer() holds of unsigned numbers too: the next branch of   *)
(* the code is never taken.                                                *)
NodeToValue(j) ==
  CASE j.kind = "boolean"                 -> [type |-> "Bool", bool |-> j.bool]
    [] j.kind \in {"integer", "unsigned"} -> [type |-> "Int", int |-> NumberToInt(j.num)]
    [] j.kind = "float"                   -> [type |-> "Double", double |-> j.double]
    [] j.kind = "string"                  -> [type |-> "String", string |-> j.string]
    [] j.kind = "array"                   -> [type |-> "Array"]
    [] j.kind = "object"                  -> [type |-> "Object"]
    [] OTHER                              -> [type |-> "Null"]

JsonToValue(j) == [p \in DOMAIN j |-> NodeToValue(j[p])]

-------------------------------------------------------------------------------
(* json::dump() throws type_error on a string, or a key, that is not UTF-8. *)
Dumps(j) ==
  \A p \in DOMAIN j :
    /\ j[p] # [kind |-> "string", string |-> "notUtf8"]
    /\ \A i \in DOMAIN p : p[i] # "notUtf8"

(* json::parse() of the text that dump() wrote: NaN is written as null,    *)
(* and an integer without a sign is read as an unsigned one.               *)
NodeReread(j) ==
  CASE j.kind = "integer" /\ j.num >= 0     -> [kind |-> "unsigned", num |-> j.num]
    [] j.kind = "float" /\ j.double = "NaN" -> [kind |-> "null"]
    [] OTHER                                -> j

Reread(j) == [p \in DOMAIN j |-> NodeReread(j[p])]

-------------------------------------------------------------------------------
(* Mutant of IdMember: an id that is null is taken for none. *)
IdMemberUnlessNull(id) == {ValueToJson(v) : v \in id \ {VNull}}

(* How both messages write their id: not at all if there is none. *)
IdMember(id) == {ValueToJson(v) : v \in id}

(* to_json(const RpcRequest&), up to dump() *)
RequestToJson(req) ==
  JObject([jsonrpc |-> {JString("2.0")},
           method  |-> {JString(req.method)},
           params  |-> {ValueToJson(req.params)},
           id      |-> IdMember(req.id)])

(* What the two functions that read return: the message, or no message and *)
(* what is left in out_error.                                              *)
Accepted(message) == [message |-> {message}, error |-> ""]
Rejected(why)     == [message |-> {}, error |-> why]

Read(j, key) == IF Has(j, key) THEN {JsonToValue(Child(j, key))} ELSE {}

FromJsonRequest(j) ==
  CASE Kind(j) = "garbage" ->
         Rejected(IF j[<<>>].utf8 THEN "JSON parse error" ELSE "JSON parse error: notUtf8")
    [] Kind(j) \notin {"garbage", "object"} -> Rejected("Top-level JSON is not an object")
    [] Kind(j) = "object" ->
         IF ~Has(j, "method") \/ j[<<"method">>].kind # "string"
           THEN Rejected("Missing or invalid 'method'")
         ELSE IF j[<<"method">>].string = ""
           THEN Rejected("'method' cannot be empty")
         ELSE IF Has(j, "params") /\ j[<<"params">>].kind # "array"
           THEN Rejected("'params' must be an array")
         ELSE Accepted([method |-> j[<<"method">>].string,
                        params |-> IF Has(j, "params") THEN JsonToValue(Child(j, "params"))
                                                       ELSE VArray(<<>>),
                        id     |-> Read(j, "id")])

-------------------------------------------------------------------------------
ErrorToJson(e) ==
  JObject([code    |-> {JInteger(e.code)},
           message |-> {JString(e.text)},
           data    |-> {ValueToJson(v) : v \in e.data}])

(* The members "result" and "error": the result if there is one, else the  *)
(* error if there is one, else a result that is null.                      *)
ResultMember(res) ==
  IF res.result = {} /\ res.error = {} THEN {JNull} ELSE {ValueToJson(v) : v \in res.result}
ErrorMember(res) ==
  IF res.result # {} THEN {} ELSE {ErrorToJson(e) : e \in res.error}

(* to_json(const RpcResponse&), up to dump() *)
ResponseToJson(res) ==
  JObject([jsonrpc |-> {JString("2.0")},
           result  |-> ResultMember(res),
           error   |-> ErrorMember(res),
           id      |-> IdMember(res.id)])

(* e["code"].get<int>() drops what does not fit, truncates doubles, takes  *)
(* booleans for 0 and 1, and throws on the rest.                           *)
IsCode(j) == j.kind \in {"integer", "unsigned", "float", "boolean"}
CodeOf(j) ==
  CASE j.kind \in {"integer", "unsigned"}                  -> ToInt(j.num)
    [] j.kind = "float" \/ (j.kind = "boolean" /\ ~j.bool) -> 0
    [] j.kind = "boolean" /\ j.bool                        -> 1

FromJsonError(e) ==
  IF Kind(e) # "object" \/ ~Has(e, "code") \/ ~Has(e, "message")
    THEN Rejected("Invalid 'error' object")
  ELSE IF ~IsCode(e[<<"code">>]) \/ e[<<"message">>].kind # "string"
    THEN Rejected("Error")
  ELSE Accepted([code |-> CodeOf(e[<<"code">>]),
                 text |-> e[<<"message">>].string,
                 data |-> Read(e, "data")])

FromJsonResponse(j) ==
  CASE Kind(j) = "garbage"                  -> Rejected("JSON parse error")
    [] Kind(j) \notin {"garbage", "object"} -> Rejected("Top-level JSON is not an object")
    [] Kind(j) = "object" ->
         IF Has(j, "result") /\ Has(j, "error")
           THEN Rejected("Response cannot have both 'result' and 'error'")
         ELSE IF ~Has(j, "error")
           THEN Accepted([result |-> Read(j, "result"), error |-> {}, id |-> Read(j, "id")])
         ELSE LET e == FromJsonError(Child(j, "error"))
              IN  IF e.message = {} THEN Rejected(e.error)
                  ELSE Accepted([result |-> {}, error |-> e.message, id |-> Read(j, "id")])

-------------------------------------------------------------------------------
(* What Values and documents are. *)
IsTree(t) ==
  /\ t = [p \in DOMAIN t |-> t[p]]
  /\ DOMAIN t \subseteq Seq(Strings)
  /\ <<>> \in DOMAIN t

ValueNodes ==
       [type : {"Null", "Array", "Object", "Binary", "DateTime"}]
  \cup [type : {"Bool"}, bool : BOOLEAN]
  \cup [type : {"Int"}, int : MinInt .. MaxInt]
  \cup [type : {"Double"}, double : {"half", "NaN"}]
  \cup [type : {"String"}, string : Strings]

IsValue(v) == IsTree(v) /\ \A p \in DOMAIN v : v[p] \in ValueNodes

(* What the parser makes of a text: it keeps integers with a sign and      *)
(* without apart and knows no NaN.  How many bits it has for an integer,   *)
(* and that what is under an array is numbered, is of no importance here.  *)
ParsedNodes ==
       [kind : {"null", "array", "object"}]
  \cup [kind : {"boolean"}, bool : BOOLEAN]
  \cup [kind : {"integer"}, num : Int \ Nat]
  \cup [kind : {"unsigned"}, num : Nat]
  \cup [kind : {"float"}, double : {"half"}]
  \cup [kind : {"string"}, string : Strings]

IsParsed(j) == IsTree(j) /\ \A p \in DOMAIN j : j[p] \in ParsedNodes

(* A line: the parser is as strict about UTF-8 as dump(). *)
IsText(j) == (IsParsed(j) /\ Dumps(j)) \/ j \in {Garbage(TRUE), Garbage(FALSE)}

IsRequest(req) ==
  /\ req = [method |-> req.method, params |-> req.params, id |-> req.id]
  /\ req.method \in Strings
  /\ IsValue(req.params) /\ req.params[<<>>].type = "Array"
  /\ req.id = {} \/ \E v \in req.id : req.id = {v} /\ IsValue(v)
===============================================================================
