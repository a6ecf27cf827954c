------------------------------ MODULE MCBodies ------------------------------
(* Streams and Bindings for TLC. They are checked side by side: a behaviour is    *)
(* one of the bodies that stream, or one of the calls of a guest to its bindings  *)
(* and what they carry.                                                           *)
EXTENDS MCStreams

CONSTANTS None, Null

VARIABLES
    part,       \* what moves: "streams" or "bindings"
    kind, store, calls, mine

bVars == <<kind, store, calls, mine>>

MCType ==
    [KV |-> "kv", BUCKET |-> "storage", DB |-> "d1", DB2 |-> "d1", SQL |-> "database",
     SERVICE |-> "worker", OBJECTS |-> "durable_object", HOST |-> "invoke"]

StoreCalls(n, values, others) ==
    {[name |-> n, method |-> m, key |-> 1] : m \in {"get", "delete"} \cup others}
      \cup {[name |-> n, method |-> "put", key |-> 1, value |-> v] : v \in values}
      \cup {[name |-> n, method |-> "list", limit |-> l] : l \in {None, 0, 1}}

Statement(n, sql, v) == [binding |-> n, sql |-> sql, value |-> v]

D1Call(n, method, statements, column) ==
    [name |-> n, method |-> method, statements |-> statements, column |-> column]

D1Calls ==
    {D1Call("DB", m, <<Statement("DB", s, "blob")>>, None) : m \in {"all", "raw"}, s \in {"join", "insert"}}
      \cup {D1Call("DB2", "all", <<Statement("DB2", s, "text")>>, None) : s \in {"select", "insert"}}
      \cup {D1Call("DB", "first", <<Statement("DB", "select", "text")>>, c) : c \in {None, "v", "w"}}
      \cup {D1Call("DB", "batch", <<Statement("DB", "insert", v), Statement(n, "insert", "text")>>, None) :
               v \in {Null, "boolean", "number", "date"}, n \in {"DB", "DB2"}}
      \cup {D1Call("DB", "batch", <<>>, None)}
      \cup {D1Call("DB", "exec", <<Statement("DB", "insert", "text"), Statement("DB", "insert", "number")>>, None)}

FetchCall(n, of, input, used, body, typed) ==
    [name |-> n, verb |-> "known", method |-> "fetch", id |-> of, input |-> input, used |-> used, body |-> body, typed |-> typed]

FetchCalls ==
    {FetchCall("SERVICE", None, "request", u, "unset", FALSE) : u \in BOOLEAN}
      \cup {FetchCall("SERVICE", None, "url", FALSE, "form", t) : t \in BOOLEAN}
      \cup {FetchCall("SERVICE", None, "url", FALSE, b, FALSE) : b \in {"params", "unset", "object"}}
      \cup {[FetchCall("SERVICE", None, "url", FALSE, "unset", FALSE) EXCEPT !.verb = "unknown"]}
      \cup {FetchCall("OBJECTS", [binding |-> n], "request", FALSE, "text", FALSE) : n \in {"OBJECTS", "OTHER"}}

MCCalls ==
    [kv |-> StoreCalls("KV", {"", "text", "none"}, {}),
     storage |-> StoreCalls("BUCKET", {"", "text", "bytes", "number", "none"}, {"head", "fetch"}),
     d1 |-> D1Calls, fetch |-> FetchCalls,
     other |-> {[name |-> "SQL", method |-> "query", text |-> t] : t \in {"text", "number"}}
                 \cup {[name |-> "HOST", method |-> "invoke", text |-> t] : t \in {"text", "number"}}]

B == INSTANCE Bindings WITH Type <- MCType, Keys <- {1, 2}, Calls <- MCCalls, N <- 2

\* A part that does not move has one initial state.
MCBodiesInit ==
    /\ part \in {"streams", "bindings"}
    /\ Init /\ B!Init
    /\ part = "streams" => kind = "other"

bodiesVars == <<part, vars, bVars>>

MCBodiesNext ==
    \/ part = "streams" /\ (Next \/ Terminating) /\ UNCHANGED bVars
    \/ part = "bindings" /\ B!Next /\ UNCHANGED vars

\* The guest has made its calls, and they have settled.
CallsEnd ==
    /\ part = "bindings" /\ Len(calls) = 2 /\ \A i \in DOMAIN calls : calls[i].at = "settled"
    /\ UNCHANGED bodiesVars

\* The fairness is that of Streams: the calls of Bindings are only checked for safety.
MCBodiesSpec ==
    MCBodiesInit /\ [][(MCBodiesNext /\ UNCHANGED part) \/ CallsEnd]_bodiesVars /\ Fairness

-----------------------------------------------------------------------------
(* The property of Bindings *)

\* What the guest wrote through a binding is what it reads back.
ReadsWhatItWrote == B!ReadsWhatItWrote
=============================================================================
