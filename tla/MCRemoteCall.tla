---------------------------- MODULE MCRemoteCall ----------------------------
(* RemoteCall for TLC: numbers of three bits, small messages. *)
EXTENDS RemoteCall, TLC

MCStrings == STRING

(* The children of arrays of at most two elements, and of objects of one member. *)
Items(s)  == [k \in {<<"0", "1">>[i] : i \in DOMAIN s} |-> {s[IF k = "0" THEN 1 ELSE 2]}]
Obj(k, x) == k :> {x}

(* Values: every type; containers of scalars; one container in another. *)
MCScalars ==
  {VNull, VBool(TRUE), VDouble("half"), VDouble("NaN"), VString("text"), VString("notUtf8"),
   VBinary, VDateTime} \cup {VInt(n) : n \in MinInt .. MaxInt}
MCFlat   == {VArray(<<>>), VObject(<<>>), VArray(Items(<<VNull, VInt(2)>>))}
              \cup {VArray(Items(<<v>>)) : v \in MCScalars}
              \cup {VObject(Obj(k, v)) : k \in {"key", "notUtf8"}, v \in MCScalars}
MCValues == MCScalars \cup MCFlat \cup {VObject(Obj("key", v)) : v \in MCFlat}

MCRequests ==
  [method : {"echo", "add", "fail", "other", ""},
   params : {VArray(<<>>)} \cup {VArray(Items(<<v>>)) : v \in MCValues},
   id     : {{}, {VNull}, {VInt(-1)}, {VString("text")}, {VBinary}}]
  \cup
  [method : {"add"},
   params : {VArray(Items(<<VInt(m), VInt(n)>>)) : m, n \in MinInt .. MaxInt},
   id     : {{VInt(1)}}]

(* Lines: numbers as the parser reads them, up to the largest uint64_t;    *)
(* every member missing, of a wrong kind, or as it should be.              *)
MCNumbers ==
  {JInteger(n) : n \in MinInt .. -1} \cup {JUnsigned(n) : n \in 0 .. 2 * SignBit - 1}

(* No document, or one of them. *)
Maybe(docs) == {{}} \cup {{j} : j \in docs}

MCIds == MCNumbers \cup {JNull, JString("text"), JFloat("half"),
                         JArray(Items(<<JUnsigned(2 * SignBit - 1)>>))}

MCLines ==
  {Garbage(TRUE), Garbage(FALSE), JNull, JArray(<<>>)}
  \cup {JObject([method |-> m, params |-> p, id |-> i]) :
          m \in Maybe({JNull, JString(""), JString("echo"), JString("other")}),
          p \in Maybe({JNull, JArray(<<>>), JArray(Items(<<JObject(Obj("key", JNull))>>))}
                        \cup {JArray(Items(<<j>>)) : j \in MCIds}),
          i \in Maybe(MCIds)}
  \cup {JObject([method |-> {JString("add")}, params |-> {JArray(Items(p))}]) :
          p \in MCNumbers \X MCNumbers}

MCErrors ==
  {JNull} \cup {JObject([code |-> c, message |-> m, data |-> d]) :
     c \in Maybe({JInteger(-32000), JUnsigned(IntSignBit), JFloat("half"), JBool(TRUE), JNull}),
     m \in Maybe({JString("text"), JNull}),
     d \in Maybe({JNull, JString("text")})}

MCAnswers ==
  {Garbage(TRUE), JNull}
  \cup {JObject([result |-> r, error |-> e, id |-> i]) :
          r \in Maybe({JNull, JUnsigned(1), JFloat("half")}),
          e \in Maybe(MCErrors),
          i \in Maybe({JNull, JUnsigned(2 * SignBit - 1)})}

(* The ends of the range of server errors, and the codes next to them. *)
MCCodes == {-32100, -32099, -32000, -31999}
=============================================================================
