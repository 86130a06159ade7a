---------------------------------- MODULE Wire ----------------------------------
(***************************************************************************)
(* One adapter session at the level of its pipes (adapters/session.go,     *)
(* protocol/protocol.go): SendStream's goroutine writes OPEN, the records  *)
(* and END and closes the adapter's input, the runner reads lines until    *)
(* the stream ends or one is no message, and then waits for the adapter.   *)
(* A built-in adapter speaks over io.Pipes, where a write returns when it  *)
(* was read; an external one over kernel pipes that hold a few lines.      *)
(***************************************************************************)
EXTENDS Integers, Sequences

CONSTANTS
  Kinds,    \* "builtin", "process"
  Messages, \* how many SendStream writes
  Room,     \* lines a kernel pipe holds
  MaxLines  \* bound: lines an adapter writes

WireAssumption ==
  /\ Kinds \subseteq {"builtin", "process"}
  /\ Messages \in Nat /\ Room \in Nat \ {0} /\ MaxLines \in Nat

VARIABLES
  kind,
  sender,  \* SendStream: "sending", "done", or "broken" (a write failed)
  put,     \* messages it has written
  input,   \* messages in the adapter's stdin
  shut,    \* stdin is closed
  adapter, \* "free", "reading", "writing", "exited"
  drained, \* it has read the end of its stdin
  line,    \* what it is about to write: "good", or "bad" for no message
  lines,   \* how many it wrote
  code,    \* its exit code, or the error of Run: "ok", "error"
  output,  \* lines in its stdout
  reader,  \* the runner: "reading", "waiting" for the exit, "joining" the sender, "over"
  heard,   \* lines it has taken for messages
  garbled, \* it read a bad line
  result   \* of the session: "none", "ok", "crashed"

sendVars == <<sender, put, shut>>
adapterVars == <<adapter, drained, line, lines, code>>
readVars == <<reader, heard, garbled, result>>
wvars == <<kind, sendVars, input, adapterVars, output, readVars>>

Gone == adapter = "exited"
(* A write to an io.Pipe returns once its line was read.                   *)
Returned(pending) == kind = "process" \/ pending = 0
Capacity == IF kind = "process" THEN Room ELSE 1

Init ==
  /\ kind \in Kinds
  /\ sender = "sending" /\ put = 0 /\ input = 0 /\ shut = FALSE
  /\ adapter = "free" /\ drained = FALSE /\ line = "good" /\ lines = 0 /\ code = "ok"
  /\ output = <<>>
  /\ reader = "reading" /\ heard = 0 /\ garbled = FALSE /\ result = "none"

-----------------------------------------------------------------------------
(* SendStream.                                                             *)
Send ==
  /\ sender = "sending" /\ put < Messages /\ ~Gone
  /\ Returned(input) /\ input < Capacity
  /\ put' = put + 1 /\ input' = input + 1
  /\ UNCHANGED <<kind, sender, shut, adapterVars, output, readVars>>
SendFails ==
  /\ sender = "sending" /\ Gone /\ (put < Messages \/ ~Returned(input))
  /\ sender' = "broken" /\ shut' = TRUE
  /\ UNCHANGED <<kind, put, input, adapterVars, output, readVars>>
CloseSend ==
  /\ sender = "sending" /\ put = Messages /\ Returned(input)
  /\ sender' = "done" /\ shut' = TRUE
  /\ UNCHANGED <<kind, put, input, adapterVars, output, readVars>>

(* The adapter reads, writes and exits as it likes; once it reads or writes *)
(* it stays at it.                                                         *)
Choose ==
  /\ adapter = "free" /\ Returned(Len(output))
  /\ \/ adapter' = "reading" /\ ~drained /\ UNCHANGED <<line, code>>
     \/ adapter' = "writing" /\ lines < MaxLines /\ line' \in {"good", "bad"} /\ UNCHANGED code
     \/ adapter' = "exited" /\ code' \in {"ok", "error"} /\ UNCHANGED line
  /\ UNCHANGED <<kind, sendVars, input, drained, lines, output, readVars>>
AdapterReads ==
  /\ adapter = "reading" /\ adapter' = "free"
  /\ \/ input > 0 /\ input' = input - 1 /\ UNCHANGED drained
     \/ input = 0 /\ shut /\ drained' = TRUE /\ UNCHANGED input
  /\ UNCHANGED <<kind, sendVars, line, lines, code, output, readVars>>
AdapterWrites ==
  /\ adapter = "writing" /\ Len(output) < Capacity
  /\ adapter' = "free" /\ lines' = lines + 1 /\ output' = Append(output, line)
  /\ UNCHANGED <<kind, sendVars, input, drained, line, code, readVars>>
(* An interrupt kills an external adapter, perhaps in the middle of a line. *)
Killed ==
  /\ kind = "process" /\ ~Gone
  /\ adapter' = "exited" /\ code' = "error"
  /\ \/ UNCHANGED <<lines, output>>
     \/ adapter = "writing" /\ Len(output) < Capacity
        /\ lines' = lines + 1 /\ output' = Append(output, "bad")
  /\ UNCHANGED <<kind, sendVars, input, drained, line, readVars>>

(* processChunk's loop.  Mutant of Listens: the runner writes all it has to *)
(* say before it reads.                                                    *)
ListensOnceSent == reader = "reading" /\ sender # "sending"
Listens == reader = "reading"
Hear ==
  /\ Listens /\ output # <<>>
  /\ output' = Tail(output)
  /\ IF Head(output) = "good"
     THEN heard' = heard + 1 /\ UNCHANGED <<reader, garbled, result>>
     ELSE garbled' = TRUE /\ reader' = "waiting" /\ UNCHANGED <<heard, result>>
  /\ UNCHANGED <<kind, sendVars, input, adapterVars>>
EndOfStream ==
  /\ Listens /\ output = <<>> /\ Gone
  /\ reader' = "waiting"
  /\ UNCHANGED <<kind, sendVars, input, adapterVars, output, heard, garbled, result>>
(* Session.Wait: the adapter's own error is the session's.                  *)
Wait ==
  /\ reader = "waiting" /\ Gone
  /\ IF garbled \/ code = "error" THEN reader' = "over" /\ result' = "crashed"
     ELSE reader' = "joining" /\ UNCHANGED result
  /\ UNCHANGED <<kind, sendVars, input, adapterVars, output, heard, garbled>>
(* A pipe broken by an adapter that stopped reading early is no failure.    *)
Join ==
  /\ reader = "joining" /\ sender # "sending"
  /\ reader' = "over" /\ result' = "ok"
  /\ UNCHANGED <<kind, sendVars, input, adapterVars, output, heard, garbled>>

Sender  == Send \/ SendFails \/ CloseSend
Adapter == Choose \/ AdapterReads \/ AdapterWrites
Runner  == Hear \/ EndOfStream \/ Wait \/ Join
Next == Sender \/ Adapter \/ Killed \/ Runner

(* The goroutine and the runner go on; an adapter is assumed to do         *)
(* something, read, write or exit, whenever it is let: nothing in the code  *)
(* bounds how long it may think.                                           *)
Fairness == WF_wvars(Sender) /\ WF_wvars(Adapter) /\ WF_wvars(Runner)
Spec == Init /\ [][Next]_wvars /\ Fairness

-----------------------------------------------------------------------------
TypeOK ==
  /\ kind \in Kinds
  /\ sender \in {"sending", "done", "broken"} /\ put \in 0..Messages /\ shut \in BOOLEAN
  /\ input \in 0..Capacity
  /\ adapter \in {"free", "reading", "writing", "exited"} /\ drained \in BOOLEAN
  /\ line \in {"good", "bad"} /\ lines \in 0..MaxLines /\ code \in {"ok", "error"}
  /\ output \in Seq({"good", "bad"}) /\ Len(output) <= Capacity
  /\ reader \in {"reading", "waiting", "joining", "over"} /\ heard \in 0..MaxLines
  /\ garbled \in BOOLEAN /\ result \in {"none", "ok", "crashed"}

(* Waived: after a bad line the runner stops reading and waits for the exit *)
(* (step.go:1148), while the adapter waits for somebody to read: a session  *)
(* in that state ends by an interrupt only, and a built-in one not at all.  *)
Deaf ==
  /\ garbled /\ reader = "waiting"
  /\ \/ adapter = "writing" /\ Len(output) = Capacity
     \/ adapter = "free" /\ ~Returned(Len(output))

(* Every session ends, whoever writes before reading, stops reading early,  *)
(* exits at once or is killed (session.go:80: sending "has to be concurrent *)
(* with reading").  And it ends truthfully: well only if the adapter exited *)
(* well, and with every line it wrote until then taken, in either case      *)
(* unless a line was bad (protocol.go: "silently dropping a record would    *)
(* lose data").                                                            *)
EndsTruthfully ==
  reader = "over" =>
    /\ result = "ok" <=> code = "ok" /\ ~garbled
    /\ garbled \/ (heard = lines /\ output = <<>>)
SessionEnds == <>(reader = "over" \/ Deaf) /\ []EndsTruthfully
=============================================================================
