------------------------------- MODULE MCTick -------------------------------
(* Instances of module Tick: programs, registrations and inputs.           *)
EXTENDS Tick

MCTables == {"a", "b"}

MCRows == [a |-> {1, 2}, b |-> {1}]

Program(name, looks, scans, puts, emits, sends) ==
    [name |-> name, looks |-> looks, scans |-> scans, puts |-> puts,
     emits |-> emits, sends |-> sends, fails |-> FALSE]

Registered(p, homes) == [homes |-> homes] @@ p

Declared(p, id, priority, reads, writes, opaque) ==
    [id |-> id, priority |-> priority, reads |-> reads, writes |-> writes,
     opaque |-> opaque] @@ p

MCReducers ==
    "hit"  :> Registered(Program("hit", {<<"a", 1>>}, {}, {<<"a", 1>>}, 1, 0), {"native"})
    @@ "mod"  :> Registered(Program("mod", {}, {"a"}, {<<"b", 1>>}, 0, 0), {"wasm"})
    @@ "fail" :> Registered([Program("fail", {}, {}, {<<"a", 2>>}, 1, 0) EXCEPT !.fails = TRUE],
                            {"native", "wasm"})

\* Honest and wrong declarations: "peek", "steal" and "audit" touch what they do
\* not declare, "all" is opaque.
MCSystems ==
    { Declared(Program("move", {<<"a", 2>>}, {}, {<<"a", 1>>}, 1, 1), 2, 0, {"a"}, {"a"}, FALSE),
      Declared(Program("heal", {<<"b", 1>>}, {}, {<<"b", 1>>}, 0, 1), 1, 1, {}, {"b"}, FALSE),
      Declared(Program("score", {}, {"a"}, {<<"b", 1>>}, 0, 0), 4, 0, {"a"}, {"b"}, FALSE),
      Declared(Program("peek", {<<"a", 1>>}, {}, {<<"b", 1>>}, 1, 0), 3, 1, {}, {"b"}, FALSE),
      Declared(Program("steal", {}, {}, {<<"a", 1>>}, 0, 0), 6, 1, {}, {"b"}, FALSE),
      Declared(Program("audit", {}, {"a"}, {<<"b", 1>>}, 0, 0), 7, 2, {}, {"b"}, FALSE),
      Declared(Program("all", {}, {"b"}, {<<"a", 2>>}, 0, 0), 5, 1, {}, {}, TRUE) }

Msg(sent, from, seq, name) == [sent |-> sent, from |-> from, seq |-> seq, name |-> name]

MCBatches == { <<>>, <<Msg(1, 2, 1, "hit"), Msg(1, 2, 0, "mod")>>, <<Msg(0, 3, 0, "fail")>> }

MCCalls == { <<>>, <<[name |-> "fail"], [name |-> "mod"]>> }
=============================================================================
