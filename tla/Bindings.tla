------------------------------ MODULE Bindings ------------------------------
(***************************************************************************)
(* The bindings of env: what a call of the guest becomes on its way to the *)
(* host, and what the host's answer becomes on its way back (js/env.js,    *)
(* the natives of runtime/bindings/fetch.rs, and callback_handlers.rs).    *)
(*                                                                         *)
(* A call goes through env.js and a native, which throw or send an op to   *)
(* the host. The host, external here, keeps a store for each binding and   *)
(* answers the ops in any order, with a result or an error. The result is  *)
(* turned into an object and then into what the promise gives. The guest   *)
(* thinks in values, the host in JSON, bytes and SQL values: the           *)
(* conversions between them are what this module is about. That an answer  *)
(* reaches its own promise once is Scheduler's.                            *)
(*                                                                         *)
(* A definition named X_Variant is a plausible mistake in X; no            *)
(* specification uses one.                                                 *)
(***************************************************************************)
EXTENDS Naturals, Sequences, SequencesExt

CONSTANTS
    Type,           \* the bindings of env, and the type of each
    Keys,           \* of the stores, as naturals: a list is in their order
    Calls,          \* bound: the calls a guest may make, by kind of binding
    N,              \* bound: the calls of a guest
    None, Null

VARIABLES
    kind,           \* the kind of bindings that the guest uses
    store,          \* what the host keeps for each binding
    calls,          \* the calls made: the call, its op, its result and its answer
    mine            \* history: what the guest put and deleted, as it sees it

vars == <<kind, store, calls, mine>>

Names == DOMAIN Type

\* No op for the host: the call throws, or has its answer already.
Throws == [op |-> "throws"]

Returns == [op |-> "returns"]

Rejects == [ok |-> FALSE, value |-> Null]

-----------------------------------------------------------------------------
(* Values *)

\* TextEncoder and TextDecoder; bytes that the guest gives go as they are.
Encode(v) == CASE v = "" -> <<>> [] v = "text" -> <<1>> [] v = "bytes" -> <<2>>

Decode(b) == CASE b = <<>> -> "" [] b = <<1>> -> "text" [] b = <<2>> -> "bytes as text"

\* A SQL value as the guest sees it: a blob is an array of its bytes, NULL is null.
SqlValue(v) == IF v = "blob" THEN "array of bytes" ELSE v

\* A value that a statement may bind.
D1Value(v) == v \in {Null, "boolean", "number", "text", "blob"}

-----------------------------------------------------------------------------
(* The call: env.js and the native, which give an op or throw *)

\* A limit of 0 is none.
KvLimit(c) == IF c.limit = 0 THEN None ELSE c.limit

\* kv: null and undefined are no value.
KvOp(c) ==
    CASE c.method = "put"  -> IF c.value = "none" THEN Throws
                              ELSE [op |-> "put", key |-> c.key, value |-> c.value]
      [] c.method = "list" -> [op |-> "list", limit |-> KvLimit(c)]
      [] OTHER             -> [op |-> c.method, key |-> c.key]

\* storage: a string is encoded, and anything else has to be bytes.
StorageOp(c) ==
    CASE c.method = "put"  -> IF c.value \in {"none", "number"} THEN Throws
                              ELSE [op |-> "put", key |-> c.key, value |-> Encode(c.value)]
      [] c.method = "list" -> [op |-> "list", limit |-> c.limit]
      [] OTHER             -> [op |-> c.method, key |-> c.key]

\* A statement is frozen with the binding that prepared it and the values it binds.
\* batch() takes those of its own binding only.
OwnStatement_Any(c, s) == TRUE

OwnStatement(c, s) == s.binding = c.name

D1Op(c) ==
    CASE \E i \in DOMAIN c.statements : ~D1Value(c.statements[i].value) -> Throws
      [] c.method = "batch" ->
           IF \E i \in DOMAIN c.statements : ~OwnStatement(c, c.statements[i]) THEN Throws
           ELSE IF c.statements = <<>> THEN Returns
           ELSE [op |-> "batch", statements |-> c.statements]
      [] OTHER -> [op |-> IF c.method = "exec" THEN "exec" ELSE "query", statements |-> c.statements]

\* A Request gives its body unless it was used or the options have one.
NormalizedBody(c) ==
    CASE c.body # "unset"                      -> c.body
      [] c.input = "request" /\ ~c.used        -> "stream"
      [] OTHER                                 -> "null"

\* A stream is read to its end first.
Buffered(body) == IF body = "stream" THEN "bytes of the stream" ELSE body

\* The body goes as bytes, with the content type that it implies if the caller set none.
EncodedBody(c) ==
    LET body == Buffered(NormalizedBody(c))
        implied == CASE body = "form" -> "multipart" [] body = "params" -> "urlencoded" [] OTHER -> "none"
    IN  [bytes |-> IF body = "null" THEN None ELSE body,
         contentType |-> IF c.typed THEN "own" ELSE implied]

\* An id of an object is frozen with its namespace.
OwnId(c) == c.id = None \/ c.id.binding = c.name

\* The native takes a method it knows, and a body of bytes or none.
IsRequest(c) == c.verb # "unknown" /\ EncodedBody(c).bytes # "object"

\* fetch of assets, of a worker or of an object.
FetchOp(c) == IF OwnId(c) /\ IsRequest(c) THEN [op |-> "fetch", request |-> EncodedBody(c)] ELSE Throws

\* query takes SQL as a string, invoke a command.
DatabaseOp(c) == IF c.text = "text" THEN [op |-> "rows"] ELSE Throws

InvokeOp(c) == IF c.text = "text" THEN [op |-> "invoke"] ELSE Throws

Op(c) ==
    CASE Type[c.name] = "kv"       -> KvOp(c)
      [] Type[c.name] = "storage"  -> StorageOp(c)
      [] Type[c.name] = "d1"       -> D1Op(c)
      [] Type[c.name] = "database" -> DatabaseOp(c)
      [] Type[c.name] = "invoke"   -> InvokeOp(c)
      [] OTHER                     -> FetchOp(c)

-----------------------------------------------------------------------------
(* The host *)

Error == [kind |-> "error"]

\* The keys that the host lists, in their order, and how many at most.
Listed(entries, limit) ==
    LET all == SetToSortSeq({k \in Keys : entries[k] # None}, <)
    IN  IF limit = None \/ limit >= Len(all) THEN all ELSE SubSeq(all, 1, limit)

\* A statement reads the rows, as one column or as two of the same name, or adds one.
Queried(rows, s) ==
    CASE s.sql = "select" -> [columns |-> <<"v">>, rows |-> [i \in DOMAIN rows |-> <<rows[i]>>]]
      [] s.sql = "join"   -> [columns |-> <<"v", "v">>, rows |-> [i \in DOMAIN rows |-> <<"number", rows[i]>>]]
      [] s.sql = "insert" -> [columns |-> <<>>, rows |-> <<>>]

Inserted(rows, s) == IF s.sql = "insert" THEN Append(rows, s.value) ELSE rows

\* The rows before the i-th statement.
Before(rows, statements, i) == FoldLeft(Inserted, rows, SubSeq(statements, 1, i - 1))

\* What the store becomes.
Stored(kept, op) ==
    CASE op.op = "put"                      -> [kept EXCEPT ![op.key] = op.value]
      [] op.op = "delete"                   -> [kept EXCEPT ![op.key] = None]
      [] op.op \in {"query", "batch", "exec"} -> FoldLeft(Inserted, kept, op.statements)
      [] OTHER                              -> kept

\* The results that the host may give. A response has its body as bytes or as a stream.
Results(kept, op) ==
    CASE op.op = "get"    -> {[kind |-> "value", value |-> kept[op.key]]}
      [] op.op = "head"   -> {IF kept[op.key] = None THEN Error
                              ELSE [kind |-> "head", size |-> Len(kept[op.key])]}
      [] op.op = "list"   -> {[kind |-> "keys", keys |-> Listed(kept, op.limit)]}
      [] op.op \in {"put", "delete"} -> {[kind |-> "ok"]}
      [] op.op \in {"query", "batch", "exec"} ->
           {[kind |-> op.op, results |-> [i \in DOMAIN op.statements |->
                                             Queried(Before(kept, op.statements, i), op.statements[i])]]}
      [] op.op = "rows"   -> {[kind |-> "rows", form |-> f] : f \in {"json", "no json", "table"}}
      [] op.op = "invoke" -> {[kind |-> "invoke", large |-> l] : l \in BOOLEAN}
      [] op.op = "fetch"  ->
           {[kind |-> "response", status |-> s, body |-> b] : s \in {200, 204}, b \in {"bytes", "stream", "none"}}
             \cup {[kind |-> "response", status |-> 101, body |-> "socket"]}

-----------------------------------------------------------------------------
(* The answer: callback_handlers.rs, then what env.js makes of the object *)

Resolves(value) == [ok |-> TRUE, value |-> value]

\* A status without a body cancels the stream it came with. A socket can only be handed on.
Response(meta) ==
    LET nullBody == meta.status \in {101, 204}
    IN  [status |-> meta.status,
         body |-> IF nullBody \/ meta.body = "none" THEN Null ELSE meta.body,
         cancelled |-> nullBody /\ meta.body = "stream",
         socket |-> meta.body = "socket"]

\* The body of a response to fetch always comes as a stream, if it is not a socket.
FetchMeta(result) ==
    [status |-> result.status, body |-> IF result.body = "socket" THEN "socket" ELSE "stream"]

\* storage: the body of a key is there or not, and an empty one is there. The body of a
\* response comes as the host has it.
StorageValue(result) ==
    CASE result.kind = "value"    -> IF result.value = None THEN Null ELSE Decode(result.value)
      [] result.kind = "head"     -> result.size
      [] result.kind = "keys"     -> result.keys
      [] result.kind = "response" -> Response(result)
      [] OTHER                    -> "undefined"

\* kv: the JSON value, or null.
KvValue(result) ==
    CASE result.kind = "value" -> IF result.value = None THEN Null ELSE result.value
      [] result.kind = "keys"  -> result.keys
      [] OTHER                 -> "undefined"

\* database: rows of JSON or of a table; what is no JSON is given as it came.
DatabaseRows(result) == IF result.form = "no json" THEN "string" ELSE "rows"

\* invoke: JSON, unless it is too large for a string.
InvokeAnswer(result) == IF result.large THEN Rejects ELSE Resolves("json")

\* An object of a row: of columns with one name, the last.
Row(columns, values) ==
    [c \in ToSet(columns) |->
        SqlValue(values[CHOOSE i \in DOMAIN columns : columns[i] = c /\ \A j \in DOMAIN columns : columns[j] = c => j <= i])]

\* d1Result of a statement; raw() keeps the values apart.
Rows(r) == [i \in DOMAIN r.rows |-> Row(r.columns, r.rows[i])]

RawRows(r) == [i \in DOMAIN r.rows |-> [j \in DOMAIN r.columns |-> SqlValue(r.rows[i][j])]]

\* first(): null without a row, the value of a column or the row.
First(c, r) ==
    CASE r.rows = <<>>                    -> Resolves(Null)
      [] c.column = None                  -> Resolves(Rows(r)[1])
      [] c.column \notin ToSet(r.columns) -> Rejects
      [] OTHER                            -> Resolves(Rows(r)[1][c.column])

D1Answer(c, result) ==
    CASE c.method = "first" -> First(c, result.results[1])
      [] c.method = "all"   -> Resolves(Rows(result.results[1]))
      [] c.method = "raw"   -> Resolves(RawRows(result.results[1]))
      [] c.method = "batch" -> Resolves([i \in DOMAIN result.results |-> Rows(result.results[i])])
      [] c.method = "exec"  -> Resolves(Len(result.results))

\* How the promise of the call settles.
Answer(c, result) ==
    CASE result.kind = "error"        -> Rejects
      [] Type[c.name] = "kv"          -> Resolves(KvValue(result))
      [] Type[c.name] = "storage"     -> Resolves(StorageValue(result))
      [] Type[c.name] = "database"    -> Resolves(DatabaseRows(result))
      [] Type[c.name] = "invoke"      -> InvokeAnswer(result)
      [] Type[c.name] = "d1"          -> D1Answer(c, result)
      [] OTHER                        -> Resolves(Response(FetchMeta(result)))

-----------------------------------------------------------------------------
(* Steps *)

\* What a store holds at first, and the guest knows of.
Initially(type) ==
    CASE type = "kv"      -> [Keys -> {None, "text"}]
      [] type = "storage" -> [Keys -> {None, <<>>, <<1>>}]
      [] type = "d1"      -> {<<>>, <<"blob">>}
      [] OTHER            -> {None}

Known(type, kept) ==
    CASE type = "kv"      -> [k \in Keys |-> IF kept[k] = None THEN Null ELSE kept[k]]
      [] type = "storage" -> [k \in Keys |-> IF kept[k] = None THEN Null ELSE Decode(kept[k])]
      [] OTHER            -> kept

Init ==
    /\ kind \in DOMAIN Calls
    /\ \E first \in Initially(kind) : store = [n \in Names |-> IF Type[n] = kind THEN first ELSE None]
    /\ mine = [n \in Names |-> IF Type[n] = kind THEN Known(kind, store[n]) ELSE None]
    /\ calls = <<>>

\* The guest calls; a throw rejects the promise, and an empty batch needs no host.
Call(c) ==
    /\ Len(calls) < N /\ c \in Calls[kind]
    /\ LET op == Op(c)
       IN  calls' = Append(calls, [call |-> c, op |-> op, result |-> None, seen |-> mine[c.name],
                                   at |-> IF op \in {Throws, Returns} THEN "settled" ELSE "asked",
                                   answer |-> IF op = Returns THEN Resolves(<<>>) ELSE Rejects])
    /\ UNCHANGED <<kind, store, mine>>

\* history: what the call does to what the guest put, in the guest's own terms.
\* A statement is for the database that prepared it.
Meant(c) ==
    CASE c.method = "put"    -> [mine EXCEPT ![c.name][c.key] = IF c.value = "bytes" THEN "bytes as text" ELSE c.value]
      [] c.method = "delete" -> [mine EXCEPT ![c.name][c.key] = Null]
      [] Type[c.name] = "d1" ->
           [n \in Names |-> FoldLeft(Inserted, mine[n], SelectSeq(c.statements, LAMBDA s : s.binding = n))]
      [] OTHER               -> mine

\* The host runs the op, or fails and leaves the store as it was.
Run(i) ==
    /\ calls[i].at = "asked"
    /\ LET c == calls[i].call
           n == c.name
       IN  \/ \E result \in Results(store[n], calls[i].op) :
                /\ store' = [store EXCEPT ![n] = Stored(@, calls[i].op)]
                /\ mine' = Meant(c)
                /\ calls' = [calls EXCEPT ![i].at = "told", ![i].result = result, ![i].seen = mine[n]]
           \/ /\ calls' = [calls EXCEPT ![i].at = "told", ![i].result = Error, ![i].seen = mine[n]]
              /\ UNCHANGED <<store, mine>>
    /\ UNCHANGED kind

Settle(i) ==
    /\ calls[i].at = "told"
    /\ calls' = [calls EXCEPT ![i].at = "settled", ![i].answer = Answer(calls[i].call, calls[i].result)]
    /\ UNCHANGED <<kind, store, mine>>

Next ==
    \/ \E c \in Calls[kind] : Call(c)
    \/ \E i \in DOMAIN calls : Run(i) \/ Settle(i)

Spec == Init /\ [][Next]_vars

-----------------------------------------------------------------------------
(* Properties *)

\* The calls whose promise gave a value.
Resolved == {i \in DOMAIN calls : calls[i].at = "settled" /\ calls[i].answer.ok}

\* What the guest bound to a statement, as it reads it: the bytes of a buffer in an array.
Gives(value, bound) == value = IF bound = "blob" THEN "array of bytes" ELSE bound

\* What the guest wrote through a binding, and not through another one, is what it reads
\* back, in its own terms and whatever the host keeps it as: a value that is there is
\* never taken for one that is not, an empty one included; first(), raw() and all() give
\* the values that statements of this database inserted, in their order, so first() gives
\* null without a row and the value of a column else, which may be null too; and every
\* stream of a response is either given to the guest or cancelled.
ReadsWhatItWrote ==
    \A j \in Resolved :
       LET r == calls[j]
           c == r.call
       IN  CASE c.method = "get"                    -> r.answer.value = r.seen[c.key]
             [] c.method = "list" /\ c.limit = None -> ToSet(r.answer.value) = {k \in Keys : r.seen[k] # Null}
             [] c.method = "first" /\ c.statements[1].sql = "select" ->
                  CASE r.seen = <<>>   -> r.answer.value = Null
                    [] c.column = None -> r.answer.value # Null /\ Gives(r.answer.value["v"], r.seen[1])
                    [] OTHER           -> Gives(r.answer.value, r.seen[1])
             [] c.method \in {"all", "raw"} /\ c.statements[1].sql # "insert" ->
                  /\ Len(r.answer.value) = Len(r.seen)
                  /\ \A i \in DOMAIN r.seen :
                        Gives(r.answer.value[i][IF c.method = "all" THEN "v" ELSE Len(r.answer.value[i])], r.seen[i])
             [] c.method = "fetch" ->
                  (Type[c.name] # "storage" /\ ~r.answer.value.socket) \/ r.result.body = "stream"
                     => r.answer.value.body = "stream" \/ r.answer.value.cancelled
             [] OTHER -> TRUE
=============================================================================
