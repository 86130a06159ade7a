-------------------------- MODULE DeliveryPromise --------------------------
(***************************************************************************)
(* What the deliver step promises about one destination, whatever the      *)
(* runs, processes and crashes behind it: a key that is delivered stays    *)
(* delivered, a held key is sent again only after an operator released it  *)
(* or by a process that had passed the check before it was held, and       *)
(* otherwise at most one copy of a key is ever at the target               *)
(* (DECISIONS.md, ADR-060).  A key is waived when one of the windows the   *)
(* detailed specification names has cost the ledger its evidence.          *)
(***************************************************************************)
EXTENDS Naturals

CONSTANT Keys       \* idempotency keys of one (target, scope)

VARIABLES
  claim,    \* what the deliveries table claims of each key
  copies,   \* requests that may be at the target: none, one, more than one
  waived    \* keys about which nothing is promised any more

promiseVars == <<claim, copies, waived>>

Claims == {"free", "held", "released", "delivered"}

Init ==
  /\ claim  = [k \in Keys |-> "free"]
  /\ copies = [k \in Keys |-> 0]
  /\ waived = {}

(* A request leaves for the target: nobody has claimed the key, or the    *)
(* operator released it, and no earlier copy is unaccounted for.           *)
Send(k) ==
  /\ claim[k] \in {"free", "released"}
  /\ claim'[k] = claim[k]
  /\ copies[k] = 0
  /\ copies'[k] = 1

(* The adapter answered that the request was not delivered: the table says *)
(* what it said before the process took the key, or what an operator had it *)
(* say meanwhile.                                                          *)
Refuse(k) ==
  /\ \/ claim[k] = "free" /\ claim'[k] = "free"
     \/ claim[k] = "released" /\ claim'[k] \in {"held", "delivered"}
  /\ copies'[k] = 0

(* The adapter's acknowledgement reaches the deliveries table.             *)
Deliver(k) ==
  /\ claim[k] \in {"free", "released"}
  /\ claim'[k] = "delivered"
  /\ copies[k] = 1
  /\ copies'[k] = 1

(* A send that may have left is held; a release that was not used up goes  *)
(* back to being held.  A hold does not call back a process that already   *)
(* passed the check: the key stays with that process.                      *)
Hold(k) ==
  /\ \/ claim[k] \in {"free", "released"} /\ claim'[k] = "held"
     \/ claim[k] = "free" /\ claim'[k] = "released"
  /\ copies'[k] = copies[k]

(* The operator checked the target: the copy is not there.                 *)
Release(k) ==
  /\ claim[k] = "held"
  /\ claim'[k] = "released"
  /\ copies'[k] = 0

(* The operator checked the target: the copy is there.  When a process had *)
(* the key already, that shows once the process gives it up.               *)
Settle(k) ==
  /\ claim[k] \in {"held", "released"}
  /\ claim'[k] = "delivered"
  /\ copies'[k] = copies[k]

Stay(k) == claim'[k] = claim[k] /\ copies'[k] = copies[k]

(* A waived key keeps one promise: delivered stays delivered.              *)
Waived(k) == k \in waived' /\ (claim[k] = "delivered" => claim'[k] = "delivered")

(* One step of the system may touch several keys: a process that dies      *)
(* takes all of its sessions with it.                                      *)
Next ==
  /\ waived \subseteq waived'
  /\ \A k \in Keys :
       \/ Stay(k) \/ Send(k) \/ Refuse(k) \/ Deliver(k)
       \/ Hold(k) \/ Release(k) \/ Settle(k) \/ Waived(k)

Spec == Init /\ [][Next]_promiseVars
=============================================================================
