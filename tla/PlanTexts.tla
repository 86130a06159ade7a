------------------------------ MODULE PlanTexts ------------------------------
(* The adapters and the step texts the instances of Plan are written with.  *)
EXTENDS TLC

Adapter(form, role, type, from, needs, provides, open) ==
  [form |-> form, role |-> role, type |-> type, from |-> from, needs |-> needs, branches |-> {},
   provides |-> provides, open |-> open, native |-> FALSE, dynamic |-> FALSE]

Adapters ==
  [group   |-> Adapter("group", "source", "*", "", {}, {}, TRUE),
   people  |-> Adapter("adapter", "source", "person", "", {}, {"f"}, FALSE),
   enrich  |-> Adapter("adapter", "enrich", "person", "", {"f"}, {"g"}, FALSE),
   judge   |-> Adapter("participant", "filter", "*", "", {}, {}, FALSE),
   write   |-> Adapter("participant", "compose", "*", "", {}, {"f"}, FALSE),
   firms   |-> Adapter("adapter", "traverse", "company", "person", {"g"}, {"h"}, FALSE),
   known   |-> Adapter("sql", "traverse", "person", "", {}, {}, TRUE),
   send    |-> [Adapter("adapter", "deliver", "*", "", {"f"}, {}, FALSE) EXCEPT !.dynamic = TRUE],
   post    |-> [Adapter("adapter", "deliver", "company", "", {}, {}, FALSE)
                  EXCEPT !.branches = {{"f"}, {"h"}}],
   handoff |-> Adapter("handoff", "deliver", "*", "", {}, {}, FALSE),
   gone    |-> Adapter("missing", "none", "", "", {}, {}, FALSE)]

Text(use, fields, declares, keys, group) ==
  [use |-> use, fields |-> fields, declares |-> declares, keys |-> keys, group |-> group]

(* A step of every kind, right and wrong.                                   *)
EveryText ==
  {Text("group", {}, {}, {}, "typed"), Text("group", {}, {}, {}, "blind"),
   Text("people", {}, {}, {}, ""),
   Text("enrich", {}, {}, {}, ""),
   Text("judge", {"g"}, {}, {"uses"}, ""), Text("judge", {"h"}, {}, {"uses", "of"}, ""),
   Text("write", {"f"}, {"h"}, {"uses", "provides"}, ""),
   Text("firms", {}, {}, {}, ""), Text("known", {}, {}, {}, ""),
   Text("send", {"h"}, {}, {"variables"}, ""), Text("post", {}, {}, {}, ""),
   Text("handoff", {}, {}, {}, "new"), Text("gone", {}, {}, {}, "")}

(* A group of people, one older than types, two the run would create.       *)
GroupsBefore == [typed |-> "person", blind |-> "", new |-> "absent", touched |-> "absent"]

(* A leg of people that is delivered, a leg of their firms that is too.     *)
TwoDeliveries == {Text("people", {}, {}, {}, ""), Text("write", {"f"}, {"g"}, {"uses", "provides"}, ""),
                  Text("send", {}, {}, {}, ""), Text("firms", {}, {}, {}, ""),
                  Text("post", {}, {}, {}, "")}
=============================================================================
