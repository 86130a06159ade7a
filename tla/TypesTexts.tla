----------------------------- MODULE TypesTexts -----------------------------
(* Type files small enough to check every order of: an embedded person, and *)
(* a job that may be defined by two contents, by none that is sound, or     *)
(* under another's name.                                                    *)
EXTENDS Sequences

TypeField(rule) == [rule |-> rule, reference |-> {}]
ByField(f) == [field |-> f, hash |-> <<>>]
ByHash(components) == [field |-> "no field", hash |-> components]
Joined(names) == [names |-> names, ruled |-> FALSE]
Ruled(f) == [names |-> <<f>>, ruled |-> TRUE]

TypeFile(entity, kind, fields, identity) ==
  [valid |-> TRUE, entity |-> entity, kind |-> kind, fields |-> fields,
   identity |-> identity, again |-> "no field"]

\* person: by email, else by a name, in two parts or one, salted by the email.
PersonFields ==
  [f \in {"email", "first", "last"} |-> TypeField(IF f = "email" THEN "email" ELSE "trim")]
NameHash == ByHash(<<<<Joined(<<"first", "last">>), Ruled("last")>>, <<Ruled("email")>>>>)
Person == TypeFile("person", "subject", PersonFields, <<ByField("email"), NameHash>>)

\* job by its url, or by another field; a signal with a hash; one misnamed.
JobFields == [f \in {"url", "title"} |-> TypeField(IF f = "url" THEN "url" ELSE "trim")]
JobByUrl == TypeFile("job", "signal", JobFields, <<ByField("url")>>)
JobByTitle == TypeFile("job", "subject", JobFields, <<ByHash(<<<<Ruled("title")>>>>)>>)
JobUnsound == TypeFile("job", "signal", JobFields, <<ByHash(<<<<Ruled("title")>>>>)>>)
JobMisnamed == TypeFile("person", "subject", JobFields, <<ByField("url")>>)

SmallEmbedded == [n \in {"person"} |-> Person]
SmallDocuments == {JobByUrl, JobByTitle, JobUnsound, JobMisnamed}
=============================================================================
