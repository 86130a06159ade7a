-------------------------------- MODULE Fetch --------------------------------
(***************************************************************************)
(* One binding at work: the engine's session (binding/engine.go), the      *)
(* attempts of each request (httpx.go), pagination, the errors: map and    *)
(* what the session says of each record.  http/deliver is the same engine  *)
(* with no map and no ERROR (httpdeliver.go), http/enrich a session that   *)
(* never retries and only logs (httpenrich.go).                            *)
(*                                                                         *)
(* The vendor is external: it serves Items by page, offset or cursor, and  *)
(* answers an attempt with any of Replies.                                 *)
(***************************************************************************)
EXTENDS Integers, Sequences, Picks

CONSTANTS
  Bindings,     \* the bindings: see IsBinding
  Replies,      \* what may become of one attempt: see IsReply
  Items,        \* for each record given, what the vendor lists: FALSE extracts to nothing
  PageDefault,  \* the vendor's page size when none is asked for
  MaxSessions   \* bound: sessions over the same records

Records == DOMAIN Items
Roles   == {"source", "traverse", "enrich", "deliver", "http/deliver", "http/enrich"}
Classes == {"auth", "rate_limit", "network", "provider"}

NoText  == ""   \* no match:, an empty body
NoClass == ""   \* no class:

Rules == [match : {NoText, "quota"}, verdict : {"fail_run", "retry", "skip", "fail_record"},
          class : Classes \cup {NoClass}]

(* check refuses a rule behind one without a match.                        *)
IsBinding(b) ==
  /\ b.role \in Roles /\ b.strategy \in {"none", "page", "offset", "cursor"}
  /\ {b.size, b.max, b.limit} \subseteq Nat /\ {b.total, b.short} \subseteq BOOLEAN
  /\ b.attempts \in Nat \ {0} /\ {b.accepts, b.credential} \subseteq BOOLEAN
  /\ \A entry \in {"404", "4xx", "5xx", "default"} :
       /\ b.errors[entry] \in Seq(Rules)
       /\ \A k \in DOMAIN b.errors[entry] :
            b.errors[entry][k].match = NoText => k = Len(b.errors[entry])

(* status 0: no answer.  kind is httpx's, "none" for an answer it decodes; *)
(* copies is 1 where the target acted on the request: it did if it says    *)
(* so, and not if it refused it.                                           *)
IsReply(a) ==
  /\ a.status \in {0, 200, 401, 404, 429, 500} /\ a.body \in {NoText, "quota"}
  /\ a.kind \in Classes \cup {"none"} /\ a.copies \in {0, 1}
  /\ a.kind = "none" => a.status = 200 /\ a.copies = 1
  /\ a.status \in {401, 404, 429} => a.copies = 0

FetchAssumption ==
  /\ \A b \in Bindings : IsBinding(b)
  /\ \A a \in Replies : IsReply(a)
  /\ Items \in Seq(Seq(BOOLEAN)) /\ Items # <<>>
  /\ PageDefault \in Nat \ {0} /\ MaxSessions \in Nat \ {0}

VARIABLES
  bind,      \* the binding of the step
  phase,     \* "new", "reading", "calling", "ended" or "died"
  given,     \* the records this session is given
  at,        \* the record whose request is made, 0 before the first
  tries,     \* attempts of that request that failed
  page,      \* [num, offset, cursor] of that request
  emitted,   \* positions emitted so far, for each record (a source has one)
  served,    \* pages served
  billed,    \* units a COST reported
  said,      \* what the session answered for each record
  class,     \* the class of the error it died of
  sessions,  \* sessions opened so far
  copies,    \* history: copies of each record the target took
  unsure     \* history: attempts that failed without saying what the target did

vars == <<bind, phase, given, at, tries, page, emitted, served, billed, said, class,
          sessions, copies, unsure>>

Pages    == bind.role \in {"source", "traverse"}
Delivers == bind.role \in {"deliver", "http/deliver"}
(* The record a verdict can name: a source's request belongs to none.      *)
Keyed    == bind.role # "source"
FirstPage == [num |-> 1, offset |-> 0, cursor |-> 0]

Init ==
  /\ bind \in Bindings
  /\ phase = "new" /\ given = (IF bind.role = "source" THEN {1} ELSE Records)
  /\ at = 0 /\ tries = 0 /\ page = FirstPage
  /\ emitted = [i \in Records |-> <<>>] /\ served = [i \in Records |-> 0]
  /\ billed  = [i \in Records |-> 0]
  /\ said    = [i \in Records |-> <<>>] /\ class = "none" /\ sessions = 1
  /\ copies  = [i \in Records |-> 0] /\ unsure = [i \in Records |-> 0]

-----------------------------------------------------------------------------
(* The session.                                                            *)

Left     == {i \in given : i > at}
First(S) == CHOOSE i \in S : \A j \in S : i <= j

(* OPEN: a named binding whose credential is not set dies before any call. *)
Open ==
  /\ phase = "new"
  /\ IF bind.credential \/ bind.role \in {"http/deliver", "http/enrich"}
       THEN phase' = "reading" /\ UNCHANGED class
       ELSE phase' = "died" /\ class' = "auth"
  /\ UNCHANGED <<bind, given, at, tries, page, emitted, served, billed, said, sessions,
                 copies, unsure>>

(* The next RECORD, or a source's own request, which comes with OPEN.      *)
Read ==
  /\ phase = "reading" /\ Left # {}
  /\ at' = First(Left)
  /\ phase' = "calling" /\ tries' = 0 /\ page' = FirstPage
  /\ UNCHANGED <<bind, given, emitted, served, billed, said, class, sessions, copies, unsure>>

Close ==
  /\ phase = "reading" /\ Left = {}
  /\ phase' = "ended"
  /\ UNCHANGED <<bind, given, at, tries, page, emitted, served, billed, said, class, sessions,
                 copies, unsure>>

(* Ctrl-C, seen before a page, in an attempt or between two.               *)
Cancel ==
  /\ phase = "calling"
  /\ phase' = "died" /\ class' = "none"
  /\ UNCHANGED <<bind, given, at, tries, page, emitted, served, billed, said, sessions,
                 copies, unsure>>

(* A record not acknowledged is given to the session of a later attempt at *)
(* the step.                                                               *)
Again ==
  /\ phase \in {"ended", "died"} /\ ~Pages /\ sessions < MaxSessions
  /\ given' = {i \in given : said[i] # <<"RECORD">>}
  /\ given' # {}
  /\ sessions' = sessions + 1
  /\ phase' = "new" /\ at' = 0 /\ tries' = 0 /\ class' = "none"
  /\ said' = [i \in Records |-> IF i \in given' THEN <<>> ELSE said[i]]
  /\ UNCHANGED <<bind, page, emitted, served, billed, copies, unsure>>

-----------------------------------------------------------------------------
(* What becomes of an attempt.                                             *)

Entries(a) == CASE a.status = 404 -> <<"404", "4xx", "default">>
                [] a.status \in {401, 429} -> <<"4xx", "default">>
                [] a.status = 500 -> <<"5xx", "default">>
                [] OTHER -> <<"default">>

(* errorRule: the entries from the exact status to default, in each the    *)
(* first rule whose match the body contains.                               *)
Fitting(a, entry) ==
  {k \in DOMAIN bind.errors[entry] : bind.errors[entry][k].match \in {NoText, a.body}}
Telling(a) == {n \in DOMAIN Entries(a) : Fitting(a, Entries(a)[n]) # {}}
HasRule(a) == a.status # 0 /\ Telling(a) # {}
Rule(a)    == LET entry == Entries(a)[First(Telling(a))]
              IN  bind.errors[entry][First(Fitting(a, entry))]

(* Error.Retryable, and the binding's own retryable.                       *)
Retryable(a) ==
  \/ a.kind \in {"rate_limit", "network"}
  \/ a.kind = "provider" /\ a.status >= 500
  \/ HasRule(a) /\ Rule(a).verdict = "retry"

Attempts == IF bind.role = "http/enrich" THEN 1 ELSE bind.attempts
MoreTries(a) == Retryable(a) /\ tries + 1 < Attempts

(* The class the error is reported under (ruleClass).                      *)
ClassOf(a) == IF ~HasRule(a) THEN a.kind
              ELSE IF Rule(a).class # NoClass THEN Rule(a).class
              ELSE IF Rule(a).match # NoText THEN "provider" ELSE a.kind

(* Attempts that fail without telling whether the target acted.            *)
Unsure(a) == a.kind # "none" /\ a.status \in {0, 200, 500}

Reached(a) ==
  /\ copies' = [copies EXCEPT ![at] = @ + (IF Delivers THEN a.copies ELSE 0)]
  /\ unsure' = [unsure EXCEPT ![at] = @ + (IF Unsure(a) THEN 1 ELSE 0)]

Retry(a) ==
  /\ phase = "calling" /\ a.kind # "none" /\ MoreTries(a)
  /\ tries' = tries + 1
  /\ Reached(a)
  /\ UNCHANGED <<bind, phase, given, at, page, emitted, served, billed, said, class, sessions>>

Say(m) == said' = [said EXCEPT ![at] = Append(@, m)]
Goes   == phase' = "reading" /\ UNCHANGED class
Dies(c) == phase' = "died" /\ class' = c

(* mapError: what is only logged, what is said of the record, what ends    *)
(* the session as well.  http/enrich logs whatever happened.               *)
Logs(a)  == \/ bind.role = "http/enrich"
            \/ HasRule(a) /\ Rule(a).verdict \in {"skip", "fail_record"} /\ ~Keyed
Names(a) == HasRule(a) /\ bind.accepts /\ (Rule(a).verdict = "fail_run" \/ Keyed)

Stops(a) == ~Names(a) \/ Rule(a).verdict = "fail_run" \/ Rule(a).class = "auth"

GiveUp(a) ==
  /\ phase = "calling" /\ a.kind # "none" /\ ~MoreTries(a)
  /\ Reached(a)
  /\ \/ Logs(a) /\ Say("LOG") /\ Goes
     \/ /\ ~Logs(a)
        /\ IF Names(a) THEN Say("ERROR") ELSE UNCHANGED said
        /\ IF Stops(a) THEN Dies(ClassOf(a)) ELSE Goes
  /\ UNCHANGED <<bind, given, at, tries, page, emitted, served, billed, sessions>>

-----------------------------------------------------------------------------
(* An answer the engine decodes.                                           *)

(* Of the n positions of a list behind from, those that hold something.    *)
Filled(list, from, n) ==
  Picked([k \in 1 .. n |-> from + k], {k \in 1 .. n : list[from + k]})

Listed == Items[at]
Size   == IF bind.size > 0 THEN bind.size ELSE PageDefault
From   == CASE bind.strategy = "page"   -> (page.num - 1) * Size
            [] bind.strategy = "offset" -> page.offset
            [] bind.strategy = "cursor" -> page.cursor
            [] OTHER -> 0
Smaller(x, y) == IF x < y THEN x ELSE y
Until  == IF bind.strategy = "none" THEN Len(Listed) ELSE Smaller(From + Size, Len(Listed))
Got    == IF Until > From THEN Until - From ELSE 0
Fresh  == Filled(Listed, From, Got)
Taken  == IF bind.limit = 0 THEN Fresh
          ELSE SubSeq(Fresh, 1, Smaller(bind.limit - Len(emitted[at]), Len(Fresh)))
Full   == bind.limit > 0 /\ Len(emitted[at]) + Len(Taken) >= bind.limit

(* terminated, in its order; the cursor of the next page is its first item. *)
Terminated ==
  \/ bind.strategy = "none" \/ Got = 0
  \/ bind.max > 0 /\ served[at] + 1 >= bind.max
  \/ bind.total /\ page.num * Size >= Len(Listed)
  \/ bind.short /\ bind.size > 0 /\ Got < bind.size
  \/ bind.strategy = "cursor" /\ Until = Len(Listed)

(* Mutant of NextPage: the offset counts what was emitted.                 *)
NextPageEmitted == [num |-> page.num + 1, offset |-> page.offset + Len(Taken), cursor |-> Until]
NextPage == [num |-> page.num + 1, offset |-> page.offset + Got, cursor |-> Until]

Answer200 == \E a \in Replies : a.kind = "none" /\ phase = "calling" /\ Reached(a)

(* paginate: the records, STATE, then the next page or the COST.           *)
Page ==
  /\ Answer200 /\ Pages
  /\ emitted' = [emitted EXCEPT ![at] = @ \o Taken]
  /\ served'  = [served EXCEPT ![at] = @ + 1]
  /\ tries' = 0
  /\ IF Full \/ Terminated
       THEN /\ billed' = [billed EXCEPT ![at] = Len(emitted'[at])]
            /\ phase' = "reading" /\ UNCHANGED page
       ELSE page' = NextPage /\ UNCHANGED <<billed, phase>>
  /\ UNCHANGED <<bind, given, at, said, class, sessions>>

(* enrichRecord, deliverRecord, fetch: COST and RECORD, or a LOG when      *)
(* nothing was extracted.                                                  *)
Single ==
  /\ Answer200 /\ ~Pages
  /\ Say(IF Delivers \/ Listed[1] THEN "RECORD" ELSE "LOG") /\ Goes
  /\ billed' = [billed EXCEPT ![at] = IF bind.role \in {"enrich", "deliver"} THEN @ + 1 ELSE @]
  /\ UNCHANGED <<bind, given, at, tries, page, emitted, served, sessions>>

Next ==
  \/ Open \/ Read \/ Close \/ Cancel \/ Again \/ Page \/ Single
  \/ \E a \in Replies : Retry(a) \/ GiveUp(a)

Spec == Init /\ [][Next]_vars

-----------------------------------------------------------------------------
TypeOK ==
  /\ bind \in Bindings /\ phase \in {"new", "reading", "calling", "ended", "died"}
  /\ given \subseteq Records /\ at \in Records \cup {0} /\ tries \in 0 .. bind.attempts
  /\ page \in [num : Nat, offset : Nat, cursor : Nat]
  /\ emitted \in [Records -> Seq(Nat)]
  /\ \A counter \in {served, billed, copies, unsure} : counter \in [Records -> Nat]
  /\ said \in [Records -> Seq({"RECORD", "ERROR", "LOG"})]
  /\ class \in Classes \cup {"none"} /\ sessions \in 1 .. MaxSessions

(* Dealt with in this session.                                             *)
Over(i) == i \in given /\ (i < at \/ (i = at /\ phase \in {"reading", "ended"}))

(* The records within the binding's reach, blank ones dropped, cut at the  *)
(* limit: what a source or a parent's traverse is to bring in.             *)
Wanted(i) ==
  LET reach == IF bind.strategy # "none" /\ bind.max > 0
                 THEN Smaller(bind.max * Size, Len(Items[i])) ELSE Len(Items[i])
      full  == Filled(Items[i], 0, reach)
  IN  IF bind.limit = 0 THEN full ELSE SubSeq(full, 1, Smaller(bind.limit, Len(full)))

Begins(s, t) == Len(s) <= Len(t) /\ \A k \in 1 .. Len(s) : s[k] = t[k]

(* However the vendor pages, with blank records, retried pages, a limit in *)
(* the middle of a page and a total in agreement with it, no record is     *)
(* emitted twice, none is passed over, and one that ended well brought in  *)
(* everything and billed exactly that (engine.go paginate, terminated).    *)
SourceIsExact == Pages => \A i \in Records :
  /\ Begins(emitted[i], Wanted(i))
  /\ (Over(i) /\ said[i] = <<>>) => emitted[i] = Wanted(i) /\ billed[i] = Len(Wanted(i))

(* A session says one thing of each record before it turns to the next;    *)
(* it acknowledges a delivery only if the target took it; and the target   *)
(* has a second copy only after an attempt that failed without telling     *)
(* whether it acted (engine.go deliverRecord, mapError; httpx.go JSON).    *)
SessionIsTruthful == ~Pages => \A i \in Records :
  /\ Over(i) => Len(said[i]) = 1
  /\ (Delivers /\ said[i] = <<"RECORD">>) => copies[i] > 0
  /\ copies[i] <= 1 + unsure[i]

FetchHolds == SourceIsExact /\ SessionIsTruthful

(* A delivery is made at most once, also when the step is tried again      *)
(* (SPEC.md:1386-1388).                                                    *)
AtMostOneCopy == Delivers => \A i \in Records : copies[i] <= 1
=============================================================================
