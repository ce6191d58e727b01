----------------------------- MODULE JrpcProto -----------------------------
(***************************************************************************)
(* NBRaft/jrpcproto.{h,cpp} and the validation of rpcprocedure.h: requests *)
(* and responses of JSON-RPC as they are created, written to text, parsed  *)
(* and accepted.                                                           *)
(*                                                                         *)
(* A Json::Value is a type with the part of its content that is looked at: *)
(* params is a function from the keys present to values, a value is a      *)
(* type with a number.  type maps the members that are present to their    *)
(* types.  Writing a value with jsoncpp and parsing the text gives the     *)
(* same value, so on the wire there is a document, which is an object, a   *)
(* value of another type, or text that is no JSON.                         *)
(***************************************************************************)
EXTENDS Integers

ValueTypes == {"nullValue", "intValue", "stringValue", "booleanValue", "arrayValue", "objectValue"}

IsMember(o, member) == member \in DOMAIN o.type
HasType(o, member, t) == IsMember(o, member) /\ o.type[member] = t

Document(o) == [form |-> "json", value |-> o]
Value(t)    == [form |-> "value", type |-> t]
Text(words) == [form |-> "text", words |-> words]

-----------------------------------------------------------------------------
(* Requests.  The four constructors put in what they are given; a template *)
(* factory and one from a map exist for calls and for notifications.       *)
RequestTypes == [jsonrpc |-> "stringValue", method |-> "stringValue", params |-> "objectValue"]
WithId(types) == [m \in DOMAIN types \cup {"id"} |-> IF m = "id" THEN "stringValue" ELSE types[m]]

CreateReturnCall(method, id, params) ==
    [type |-> WithId(RequestTypes), method |-> method, id |-> id, params |-> params]

CreateNotifyCall(method, params) ==
    [type |-> RequestTypes, method |-> method, id |-> "", params |-> params]

(* The template for notifications uses the constructor with an id and      *)
(* passes "".                                                              *)
CreateNotifyCallTemplate(method, params) == CreateReturnCall(method, "", params)

IsReturnCall(r)   == IsMember(r, "id")
IsNotification(r) == ~IsMember(r, "id")
GetMethod(r) == IF IsMember(r, "method") THEN r.method ELSE ""
GetId(r)     == IF IsMember(r, "id") THEN r.id ELSE ""

RequestFieldsExist(r) ==
    /\ HasType(r, "jsonrpc", "stringValue")
    /\ HasType(r, "method", "stringValue")
    /\ HasType(r, "params", "objectValue")

(* createFromJsonStr: isMember throws Json::LogicError at a value that is  *)
(* neither an object nor null (which has no members); else, whether text   *)
(* is a request.                                                           *)
ParseThrows(text) == text.form = "value" /\ text.type # "nullValue"
IsRequest(text) == text.form = "json" /\ RequestFieldsExist(text.value)

(* validateGeneric: every parameter is known and has its type; none is     *)
(* missed when it is absent.                                               *)
ValidateAnything(types, r) == TRUE
ValidateGeneric(types, r) ==
    /\ IsMember(r, "params")
    /\ \A key \in DOMAIN r.params :
         key \in DOMAIN types /\ types[key] = r.params[key].type

-----------------------------------------------------------------------------
(* Responses, as the procedures create them from the request.              *)
CreateResponse(id, result) ==
    [type |-> [jsonrpc |-> "stringValue", result |-> "objectValue", id |-> "stringValue"],
     id |-> id, result |-> result]

EmptyResponse == [type |-> <<>>, id |-> "", result |-> 0]

CreateResponseFromRequest(r, result) ==
    IF RequestFieldsExist(r) THEN CreateResponse(r.id, result) ELSE EmptyResponse

ResponseFieldsExist(s) ==
    /\ IsMember(s, "jsonrpc") /\ IsMember(s, "id")
    /\ IsMember(s, "error") \/ IsMember(s, "result")
    /\ ~(IsMember(s, "error") /\ IsMember(s, "result"))

(* createResponseFromJsonStr: whether the client accepts the text.         *)
IsResponse(text) == text.form = "json" /\ ResponseFieldsExist(text.value)

-----------------------------------------------------------------------------
(* Errors.  toInt gives the code of JSON-RPC, createFromInt expects the    *)
(* number of the error in its own list: every code is an InternalError.    *)
ToInt(error) ==
    CASE error = "ParseError"     -> -32700
      [] error = "InvalidRequest" -> -32600
      [] error = "MethodNotFound" -> -32601
      [] error = "InvalidParams"  -> -32602
      [] error = "InternalError"  -> -32603

CreateFromInt(code) ==
    CASE code = 0 -> "ParseError"
      [] code = 1 -> "InvalidRequest"
      [] code = 2 -> "MethodNotFound"
      [] code = 3 -> "InvalidParams"
      [] OTHER    -> "InternalError"
=============================================================================
