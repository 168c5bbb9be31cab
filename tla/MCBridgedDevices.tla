--------------------------- MODULE MCBridgedDevices ---------------------------
(***************************************************************************)
(* The instance of BridgedDevices for TLC: two entities of one device on   *)
(* one broker, with a goroutine of requests and one of discovery messages, *)
(* a reconnect and a refusal, and two deviceSubs in all (both mappings, or *)
(* one subscribed a second time); and what a device of five kinds reports, *)
(* declares and is written.                                                *)
(***************************************************************************)
EXTENDS BridgedDevices

CONSTANTS m1, m2, r1, d1

MCObjs == 0..2
MCTopics == {"state"}
MCDeviceTopics == <<"state">>
Sym == Permutations({m1, m2})

MCReported == {<<"button", 1>>, <<"action", 1>>}
MCDeclares == {<<"sensor", 1>>, <<"input", 1>>}
W(f, i, fi, v, s) == [family |-> f, index |-> i, field |-> fi, value |-> v, spelling |-> s]
MCWrites == {W("input", 1, "group", 3, "lower"), W("input", 1, "function", 0, "upper"),
             W("input", 1, "group", 3, "upper"), W("output", 0, "function", 0, "upper")}
=============================================================================
