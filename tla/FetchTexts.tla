----------------------------- MODULE FetchTexts ------------------------------
(* The bindings, replies and vendor the instances of Fetch are written with. *)
EXTENDS TLC

NoErrors == [entry \in {"404", "4xx", "5xx", "default"} |-> <<>>]
ErrorRule(match, verdict, class) == [match |-> match, verdict |-> verdict, class |-> class]

Plain ==
  [role |-> "enrich", strategy |-> "none", size |-> 0, max |-> 0, limit |-> 0, total |-> FALSE,
   short |-> FALSE, attempts |-> 2, accepts |-> TRUE, credential |-> TRUE, errors |-> NoErrors]

(* A quota by its body, a bad key by its status, a server to be asked again. *)
Verdicts == [NoErrors EXCEPT
  !["404"] = <<ErrorRule("quota", "fail_run", ""), ErrorRule("", "fail_record", "")>>,
  !["4xx"] = <<ErrorRule("quota", "skip", "auth")>>,
  !["5xx"] = <<ErrorRule("", "retry", "")>>]
AnyError == [NoErrors EXCEPT !["default"] = <<ErrorRule("", "retry", "rate_limit")>>]

Paged(role, strategy) == [Plain EXCEPT !.role = role, !.strategy = strategy]

SomeBindings ==
  {[Paged("source", "page")     EXCEPT !.total = TRUE],
   [Paged("source", "offset")   EXCEPT !.short = TRUE, !.size = 2, !.limit = 2],
   [Paged("source", "cursor")   EXCEPT !.max = 2, !.size = 1, !.errors = Verdicts],
   [Paged("source", "none")     EXCEPT !.errors = AnyError],
   [Paged("traverse", "offset") EXCEPT !.size = 1, !.errors = Verdicts],
   [Paged("traverse", "page")   EXCEPT !.limit = 1, !.accepts = FALSE, !.errors = Verdicts],
   [Plain EXCEPT !.errors = Verdicts], [Plain EXCEPT !.credential = FALSE],
   [Plain EXCEPT !.role = "deliver", !.errors = Verdicts],
   [Plain EXCEPT !.role = "deliver", !.errors = AnyError, !.accepts = FALSE],
   [Plain EXCEPT !.role = "http/deliver", !.credential = FALSE],
   [Plain EXCEPT !.role = "http/enrich", !.credential = FALSE]}

Reply(status, body, kind, copies) ==
  [status |-> status, body |-> body, kind |-> kind, copies |-> copies]

Decoded == Reply(200, "", "none", 1)
(* The target took the request, its answer is no JSON: "ok", or a page.      *)
PlainOk == Reply(200, "", "provider", 1)
Cut     == Reply(0, "", "network", 1)

EveryReply ==
  {Decoded, PlainOk, Cut, Reply(0, "", "network", 0), Reply(401, "", "auth", 0),
   Reply(401, "quota", "auth", 0), Reply(404, "", "provider", 0),
   Reply(404, "quota", "provider", 0), Reply(429, "", "rate_limit", 0),
   Reply(500, "", "provider", 0), Reply(500, "", "provider", 1)}

(* Two lists with records that extract to nothing.                           *)
TwoLists == <<<<FALSE, TRUE, TRUE>>, <<TRUE, FALSE>>>>
=============================================================================
