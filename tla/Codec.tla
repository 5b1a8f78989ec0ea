-------------------------------- MODULE Codec --------------------------------
(***************************************************************************)
(* The binary protocol (protocol.rs over core binary.rs): one frame per    *)
(* message.  A frame is a sequence of tokens, one per primitive the code   *)
(* writes (an integer of some width, a length-prefixed string, a flag, a   *)
(* tag, the payload of a value), so that cutting a frame between tokens    *)
(* stands for cutting it anywhere in its bytes.  An option is a sequence   *)
(* of at most one element.  The checksum token carries what it covers: the *)
(* version, the kind and the payload.                                      *)
(*                                                                         *)
(* Encoder and decoder are separate definitions, as in the code: they      *)
(* agree only if every field is read where it was written.                 *)
(***************************************************************************)
EXTENDS Naturals, Sequences, SequencesExt

Version == 2

(* The kind bytes. *)
ClientKinds == <<"Handshake", "Authenticate", "AttachWorld", "InputFrame", "Subscribe",
                 "Unsubscribe", "Resync", "Ping", "DetachWorld", "CallReducer">>
ServerKinds == <<"HandshakeResponse", "AuthResult", "AttachResult", "TickUpdate",
                 "SubscriptionSnapshot", "SubscriptionDelta", "StaleNotification", "Error",
                 "Pong", "Disconnect", "DetachResult", "ReducerResult",
                 "SubscriptionDeltaBatch">>
TagIn(table, name) == SelectInSeq(table, LAMBDA x : x = name)
KindTag(k) == IF k \in ToSet(ClientKinds) THEN TagIn(ClientKinds, k)
              ELSE 128 + TagIn(ServerKinds, k)

(* The tag tables; the tags of deltas and changes start at one, the others *)
(* at zero.                                                                *)
ColumnTypes == <<"Bool", "I8", "I16", "I32", "I64", "U8", "U16", "U32", "U64",
                 "F32", "F64", "String", "Bytes">>
Ops == <<"Eq", "Ne", "Lt", "Lte", "Gt", "Gte">>
Directions == <<"Ascending", "Descending">>
DeltaKinds == <<"Insert", "Update", "Delete">>
-----------------------------------------------------------------------------
(* Encoding *)

U64(n) == <<"u64", n>>
U32(n) == <<"u32", n>>
U16(n) == <<"u16", n>>
Byte(n) == <<"byte", n>>
Str(s) == <<"str", s>>
Flag(b) == Byte(IF b THEN 1 ELSE 0)

Each(xs, P(_)) == FlattenSeq([i \in DOMAIN xs |-> P(xs[i])])
PutList(xs, P(_)) == <<U64(Len(xs))>> \o Each(xs, P)
PutOpt(xs, P(_)) == <<Flag(xs # <<>>)>> \o Each(xs, P)

PutValue(v) == <<Byte(TagIn(ColumnTypes, v[1]) - 1), <<v[1], v[2]>>>>
PutRow(row) == PutList(row, PutValue)
PutVersion(v) == <<U64(v)>>
PutStr(s) == <<Str(s)>>

PutCommand(c) == <<U64(c.source), Str(c.kind)>> \o PutOpt(c.payload, PutValue)
PutPredicate(p) == <<Str(p.column), Byte(TagIn(Ops, p.op) - 1)>> \o PutValue(p.value)
PutOrder(o) == <<Str(o.column), Byte(TagIn(Directions, o.direction) - 1)>>
PutLimit(n) == <<U32(n)>>
PutColumns(cs) == PutList(cs, PutStr)
PutQuery(q) == <<Str(q.table)>> \o PutList(q.predicates, PutPredicate)
               \o PutOpt(q.order, PutOrder) \o PutOpt(q.limit, PutLimit)
               \o PutOpt(q.project, PutColumns)
PutArg(a) == <<Str(a[1])>> \o PutValue(a[2])
PutChange(c) == <<U64(c.table), Byte(TagIn(DeltaKinds, c.kind)), U64(c.row_id)>>
                \o PutOpt(c.old_row, PutRow) \o PutOpt(c.new_row, PutRow)
                \o PutOpt(c.old_version, PutVersion) \o PutOpt(c.new_version, PutVersion)
PutDelivered(r) == <<U64(r.row_id)>> \o PutRow(r.row)

(* A delete carries no row; the row of another delta follows its identity. *)
PutDelta(d) == <<U64(d.seq), Byte(TagIn(DeltaKinds, d.kind)), U64(d.row_id)>>
               \o (IF d.kind = "Delete" THEN <<>> ELSE Each(d.row, PutRow))

ClientPayload(m) ==
    CASE m.k = "Handshake"    -> <<U16(m.version), Str(m.name)>>
      [] m.k = "Authenticate" -> <<Str(m.credentials)>>
      [] m.k = "AttachWorld"  -> <<U64(m.world)>>
      [] m.k = "InputFrame"   -> <<U64(m.tick)>> \o PutList(m.commands, PutCommand)
      [] m.k = "Subscribe"    -> <<U64(m.request_id)>> \o PutQuery(m.query)
      [] m.k \in {"Unsubscribe", "Resync"} -> <<U64(m.subscription)>>
      [] m.k = "Ping"         -> <<U64(m.nonce)>>
      [] m.k = "DetachWorld"  -> <<>>
      [] m.k = "CallReducer"  -> <<U64(m.request_id), Str(m.reducer)>>
                                 \o PutList(m.args, PutArg)

(* A result is its outcome flag and then either its values or its error. *)
Result(m, values) == <<Flag(m.ok)>> \o (IF m.ok THEN values ELSE <<Str(m.error)>>)

ServerPayload(m) ==
    CASE m.k = "HandshakeResponse" -> <<U16(m.version), Str(m.name)>>
      [] m.k = "AuthResult"   -> Result(m, <<U64(m.id), Str(m.name)>>)
      [] m.k = "AttachResult" -> Result(m, <<U64(m.world)>>)
      [] m.k = "DetachResult" -> Result(m, <<>>)
      [] m.k = "TickUpdate"   -> <<U64(m.world), U64(m.tick), U64(m.tx_id)>>
                                 \o PutList(m.changes, PutChange)
                                 \o PutList(m.events, PutArg)
      [] m.k = "SubscriptionSnapshot" -> <<U64(m.request_id), U64(m.subscription), U64(m.seq)>>
                                         \o PutList(m.rows, PutDelivered)
      [] m.k = "SubscriptionDelta"    -> <<U64(m.subscription)>> \o PutDelta(m.delta)
      [] m.k = "SubscriptionDeltaBatch" -> <<U64(m.subscription), U64(m.request_id)>>
                                           \o PutList(m.deltas, PutDelta)
      [] m.k = "StaleNotification" -> <<U64(m.subscription), U64(m.seq)>>
      [] m.k = "Error"        -> <<U16(m.code), Str(m.message), U64(m.request_id)>>
      [] m.k = "Pong"         -> <<U64(m.nonce)>>
      [] m.k = "Disconnect"   -> <<Str(m.reason)>>
      [] m.k = "ReducerResult" -> <<U64(m.request_id)>>
                                  \o Result(m, IF m.ok THEN PutValue(m.value) ELSE <<>>)

Payload(m) == IF m.k \in ToSet(ClientKinds) THEN ClientPayload(m) ELSE ServerPayload(m)

(* build_frame; a frame is refused when its payload exceeds the limit. *)
Checksum(kind, payload) == <<"crc", <<Version, kind, payload>>>>
Frame(m) == <<<<"header", [version |-> Version, kind |-> KindTag(m.k), len |-> Len(Payload(m))]>>>>
            \o Payload(m) \o <<Checksum(KindTag(m.k), Payload(m))>>
-----------------------------------------------------------------------------
(* Decoding.  A cursor is the tokens left, the values read so far, and     *)
(* whether every read has succeeded.                                       *)

Start(tokens) == [rest |-> tokens, out |-> <<>>, ok |-> TRUE]
Fail(c) == [c EXCEPT !.ok = FALSE]

(* take: fails at the end of the input. *)
Get(t, c) == IF c.ok /\ c.rest # <<>> /\ Head(c.rest)[1] = t
             THEN [c EXCEPT !.rest = Tail(@), !.out = Append(@, Head(c.rest)[2])]
             ELSE Fail(c)
Gets(ts, c) == FoldLeft(LAMBDA d, t : Get(t, d), c, ts)

(* The last value read is replaced by what it stands for. *)
Top(c) == Last(c.out)
Retop(c, v) == [c EXCEPT !.out = Append(Front(@), v)]

(* A structure is parsed apart and pushed as one value. *)
Sub(P(_), Make(_), c) ==
    LET d == P([c EXCEPT !.out = <<>>])
    IN IF d.ok THEN [d EXCEPT !.out = Append(c.out, Make(d.out))] ELSE Fail(c)

Same(o) == o
One(o) == o[1]

GetTag(table, base, c) ==
    LET d == Get("byte", c)
    IN IF d.ok /\ Top(d) - base + 1 \in DOMAIN table THEN Retop(d, table[Top(d) - base + 1])
       ELSE Fail(d)
GetBool(c) ==
    LET d == Get("byte", c)
    IN IF d.ok /\ Top(d) \in {0, 1} THEN Retop(d, Top(d) = 1) ELSE Fail(d)

(* A counted list; a count beyond the input fails at the first element     *)
(* that is missing.                                                        *)
GetList(P(_), Make(_), c) ==
    LET d == Get("u64", c)
        Elements(o) == FoldLeft(LAMBDA e, i : Sub(P, Make, e), o, [i \in 1..Top(d) |-> i])
    IN IF d.ok THEN Sub(Elements, Same, [d EXCEPT !.out = c.out]) ELSE Fail(c)

(* A flag and, when it is set, a value: a sequence of at most one. *)
Option(d, P(_), Make(_), c) ==
    LET Part(o) == IF Top(d) THEN Sub(P, Make, o) ELSE o
    IN IF d.ok THEN Sub(Part, Same, [d EXCEPT !.out = c.out]) ELSE Fail(c)
GetOpt(P(_), Make(_), c) == Option(GetBool(c), P, Make, c)

(* The optional parts of a query read any byte but 1 as absent. *)
GetFlag(c) == LET d == Get("byte", c) IN IF d.ok THEN Retop(d, Top(d) = 1) ELSE d
GetPart(P(_), Make(_), c) == Option(GetFlag(c), P, Make, c)

GetValue(c) ==
    LET d == GetTag(ColumnTypes, 0, c)
        v == Get(Top(d), d)
    IN IF ~d.ok THEN d
       ELSE IF ~v.ok THEN v
       ELSE [v EXCEPT !.out = Append(c.out, <<Top(d), Top(v)>>)]
GetRow(c) == GetList(GetValue, One, c)
GetVersion(c) == Get("u64", c)
GetStr(c) == Get("str", c)

GetCommand(c) ==
    LET d == Gets(<<"u64", "str">>, c)
    IN IF d.ok /\ Top(d) = "" THEN Fail(d) ELSE GetOpt(GetValue, One, d)
MakeCommand(o) == [source |-> o[1], kind |-> o[2], payload |-> o[3]]
GetPredicate(c) == GetValue(GetTag(Ops, 0, Get("str", c)))
MakePredicate(o) == [column |-> o[1], op |-> o[2], value |-> o[3]]
GetOrder(c) == GetTag(Directions, 0, Get("str", c))
MakeOrder(o) == [column |-> o[1], direction |-> o[2]]
GetLimit(c) == Get("u32", c)
GetColumns(c) == GetList(GetStr, One, c)
GetQuery(c) == GetPart(GetColumns, One, GetPart(GetLimit, One, GetPart(GetOrder, MakeOrder,
                   GetList(GetPredicate, MakePredicate, Get("str", c)))))
MakeQuery(o) == [table |-> o[1], predicates |-> o[2], order |-> o[3], limit |-> o[4],
                 project |-> o[5]]
GetArg(c) == GetValue(Get("str", c))
GetDelivered(c) == GetRow(Get("u64", c))
MakeDelivered(o) == [row_id |-> o[1], row |-> o[2]]

(* A change must carry the rows and versions its kind needs. *)
GetChange(c) ==
    LET d == GetOpt(GetVersion, One, GetOpt(GetVersion, One, GetOpt(GetRow, One, GetOpt(GetRow, One,
                 Get("u64", GetTag(DeltaKinds, 1, Get("u64", c)))))))
        o == SubSeq(d.out, Len(c.out) + 1, Len(d.out))
    IN IF /\ d.ok
          /\ o[2] # "Insert" => o[4] # <<>> /\ o[6] # <<>>
          /\ o[2] # "Delete" => o[5] # <<>> /\ o[7] # <<>>
       THEN d ELSE Fail(d)
MakeChange(o) == [table |-> o[1], kind |-> o[2], row_id |-> o[3], old_row |-> o[4],
                  new_row |-> o[5], old_version |-> o[6], new_version |-> o[7]]

GetDelta(c) ==
    LET d == Get("u64", GetTag(DeltaKinds, 1, Get("u64", c)))
        Part(o) == IF d.out[Len(d.out) - 1] = "Delete" THEN o ELSE Sub(GetRow, One, o)
    IN IF d.ok THEN Sub(Part, Same, d) ELSE d
MakeDelta(o) == [seq |-> o[1], kind |-> o[2], row_id |-> o[3], row |-> o[4]]

(* Mutant: trailing bytes after the payload are ignored. *)
ConsumedSoFar(c) == c.ok

(* ensure_consumed *)
Consumed(c) == c.ok /\ c.rest = <<>>

(* The decoded message: a sequence of at most one. *)
Finish(c, Make(_)) == IF Consumed(c) THEN <<Make(c.out)>> ELSE <<>>

DecodeClient(kind, tokens) ==
    LET c == Start(tokens) IN
    CASE kind = 1 -> Finish(Gets(<<"u16", "str">>, c), LAMBDA o :
                        [k |-> "Handshake", version |-> o[1], name |-> o[2]])
      [] kind = 2 -> Finish(GetStr(c), LAMBDA o : [k |-> "Authenticate", credentials |-> o[1]])
      [] kind = 3 -> Finish(Get("u64", c), LAMBDA o : [k |-> "AttachWorld", world |-> o[1]])
      [] kind = 4 -> Finish(GetList(GetCommand, MakeCommand, Get("u64", c)), LAMBDA o :
                        [k |-> "InputFrame", tick |-> o[1], commands |-> o[2]])
      [] kind = 5 -> Finish(Sub(GetQuery, MakeQuery, Get("u64", c)), LAMBDA o :
                        [k |-> "Subscribe", request_id |-> o[1], query |-> o[2]])
      [] kind = 6 -> Finish(Get("u64", c), LAMBDA o : [k |-> "Unsubscribe", subscription |-> o[1]])
      [] kind = 7 -> Finish(Get("u64", c), LAMBDA o : [k |-> "Resync", subscription |-> o[1]])
      [] kind = 8 -> Finish(Get("u64", c), LAMBDA o : [k |-> "Ping", nonce |-> o[1]])
      [] kind = 9 -> Finish(c, LAMBDA o : [k |-> "DetachWorld"])
      [] kind = 10 ->
           LET d == Gets(<<"u64", "str">>, c)
           IN Finish(IF d.ok /\ Top(d) = "" THEN Fail(d) ELSE GetList(GetArg, Same, d), LAMBDA o :
                  [k |-> "CallReducer", request_id |-> o[1], reducer |-> o[2], args |-> o[3]])
      [] OTHER -> <<>>

(* The parts of a result that was a success, or its error. *)
GetResult(c, P(_)) ==
    LET d == GetBool(c) IN IF ~d.ok THEN d ELSE IF Top(d) THEN P(d) ELSE GetStr(d)
Failed(k, error) == [k |-> k, ok |-> FALSE, error |-> error]

DecodeServer(kind, tokens) ==
    LET c == Start(tokens) IN
    CASE kind = 129 -> Finish(Gets(<<"u16", "str">>, c), LAMBDA o :
                          [k |-> "HandshakeResponse", version |-> o[1], name |-> o[2]])
      [] kind = 130 -> Finish(GetResult(c, LAMBDA d : Gets(<<"u64", "str">>, d)), LAMBDA o :
                          IF o[1] THEN [k |-> "AuthResult", ok |-> TRUE, id |-> o[2], name |-> o[3]]
                          ELSE Failed("AuthResult", o[2]))
      [] kind = 131 -> Finish(GetResult(c, LAMBDA d : Get("u64", d)), LAMBDA o :
                          IF o[1] THEN [k |-> "AttachResult", ok |-> TRUE, world |-> o[2]]
                          ELSE Failed("AttachResult", o[2]))
      [] kind = 132 -> Finish(GetList(GetArg, Same, GetList(GetChange, MakeChange,
                              Gets(<<"u64", "u64", "u64">>, c))), LAMBDA o :
                          [k |-> "TickUpdate", world |-> o[1], tick |-> o[2], tx_id |-> o[3],
                           changes |-> o[4], events |-> o[5]])
      [] kind = 133 -> Finish(GetList(GetDelivered, MakeDelivered,
                              Gets(<<"u64", "u64", "u64">>, c)), LAMBDA o :
                          [k |-> "SubscriptionSnapshot", request_id |-> o[1],
                           subscription |-> o[2], seq |-> o[3], rows |-> o[4]])
      [] kind = 134 -> Finish(Sub(GetDelta, MakeDelta, Get("u64", c)), LAMBDA o :
                          [k |-> "SubscriptionDelta", subscription |-> o[1], delta |-> o[2]])
      [] kind = 135 -> Finish(Gets(<<"u64", "u64">>, c), LAMBDA o :
                          [k |-> "StaleNotification", subscription |-> o[1], seq |-> o[2]])
      [] kind = 136 -> Finish(Gets(<<"u16", "str", "u64">>, c), LAMBDA o :
                          [k |-> "Error", code |-> o[1], message |-> o[2], request_id |-> o[3]])
      [] kind = 137 -> Finish(Get("u64", c), LAMBDA o : [k |-> "Pong", nonce |-> o[1]])
      [] kind = 138 -> Finish(GetStr(c), LAMBDA o : [k |-> "Disconnect", reason |-> o[1]])
      [] kind = 139 -> Finish(GetResult(c, Same), LAMBDA o :
                          IF o[1] THEN [k |-> "DetachResult", ok |-> TRUE]
                          ELSE Failed("DetachResult", o[2]))
      [] kind = 140 -> Finish(GetResult(Get("u64", c), GetValue), LAMBDA o :
                          IF o[2] THEN [k |-> "ReducerResult", request_id |-> o[1], ok |-> TRUE,
                                        value |-> o[3]]
                          ELSE [k |-> "ReducerResult", request_id |-> o[1], ok |-> FALSE,
                                error |-> o[3]])
      [] kind = 141 -> Finish(GetList(GetDelta, MakeDelta, Gets(<<"u64", "u64">>, c)), LAMBDA o :
                          [k |-> "SubscriptionDeltaBatch", subscription |-> o[1],
                           request_id |-> o[2], deltas |-> o[3]])
      [] OTHER -> <<>>

(* Header, payload and checksum. *)
Total(header) == header.len + 2


Incomplete(tokens) == Len(tokens) < Total(Head(tokens)[2])

(* parse_frame on the front of a buffer: more is needed, a frame, or an    *)
(* error.                                                                  *)
Parse(tokens, max) ==
    IF tokens = <<>> THEN "more"
    ELSE IF Head(tokens)[1] # "header" \/ Head(tokens)[2].version # Version THEN "error"
    ELSE IF Head(tokens)[2].len > max THEN "error"
    ELSE IF Incomplete(tokens) THEN "more"
    ELSE IF tokens[Total(Head(tokens)[2])] # Checksum(Head(tokens)[2].kind,
                                        SubSeq(tokens, 2, Head(tokens)[2].len + 1)) THEN "error"
    ELSE "frame"

(* decode_frame checks the complete frame again; then the payload. *)
Decode(frame, max, fromClient) ==
    IF Parse(frame, max) # "frame" THEN <<>>
    ELSE LET tokens == SubSeq(frame, 2, Head(frame)[2].len + 1)
         IN IF fromClient THEN DecodeClient(Head(frame)[2].kind, tokens)
            ELSE DecodeServer(Head(frame)[2].kind, tokens)
=============================================================================
