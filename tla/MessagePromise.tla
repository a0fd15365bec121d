--------------------------- MODULE MessagePromise ---------------------------
(****************************************************************************)
(* What the sending of a WhatsApp message promises: what the inbox shows of *)
(* a request, set against what the customer was given.  Jobs, claims,       *)
(* calls, retries and the wire do not appear; one message is given at most  *)
(* once, shown as sent only if it was, and shown as refused only if it      *)
(* never will be.  What receipts may do to it is said twice: in Spec as far *)
(* as receipts of progress go, in Monotonic for reported failures as well.  *)
(****************************************************************************)
EXTENDS Naturals

CONSTANT Requests

VARIABLES
  shown,   \* the status the inbox shows, "absent" before the request
  given,   \* how often the customer was given the message
  reason   \* why it failed: "refused", "denied", "unknown" or "reported"

pvars == <<shown, given, reason>>

Init ==
  /\ shown  = [r \in Requests |-> "absent"]
  /\ given  = [r \in Requests |-> 0]
  /\ reason = [r \in Requests |-> "none"]

Told(r, s, why) == shown'[r] = s /\ reason'[r] = why /\ given'[r] = given[r]

Ask(r) == shown[r] = "absent" /\ Told(r, "queued", "none")

(* The provider takes the message, once.  It may do so after the sender has *)
(* stopped waiting, or had its request denied; never after a refusal.       *)
Give(r) ==
  /\ shown[r] \in {"queued", "failed"} /\ reason[r] # "refused"
  /\ given[r] = 0 /\ given'[r] = 1
  /\ shown'[r] = shown[r] /\ reason'[r] = reason[r]

\* The sender has the provider's word for it.
Confirm(r) == shown[r] = "queued" /\ given[r] = 1 /\ Told(r, "sent", "none")

\* The sender gives up; it is certain of a refusal and of nothing else.
Fail(r) ==
  /\ shown[r] = "queued"
  /\ \E why \in {"refused", "denied", "unknown"} :
       /\ why = "refused" => given[r] = 0
       /\ Told(r, "failed", why)

Receipts == {"sent", "delivered", "read", "failed"}

\* The order in which the documents say receipts are applied.
Onward == [sent      |-> Receipts,
           delivered |-> {"delivered", "read"},
           read      |-> {"read"},
           failed    |-> {"failed"}]

(* A receipt speaks of a message the customer was given and the sender has  *)
(* confirmed.  While all it reports is progress, a late one of lower rank   *)
(* takes nothing back (whatsapp-cloud-api.md:103-104).                      *)
Report(r) ==
  /\ given[r] = 1
  /\ shown[r] \in {"sent", "delivered", "read"} \/ reason[r] = "reported"
  /\ \E s \in Receipts :
       /\ s # "failed" /\ reason[r] # "reported" => s \in Onward[shown[r]]
       /\ Told(r, s, IF s = "failed" THEN "reported" ELSE "none")

Same(r) == Told(r, shown[r], reason[r])

Step(r) == Ask(r) \/ Give(r) \/ Confirm(r) \/ Fail(r) \/ Report(r) \/ Same(r)

Next ==
  /\ \A r \in Requests : Step(r)
  /\ DOMAIN shown' = Requests /\ DOMAIN given' = Requests /\ DOMAIN reason' = Requests

Spec == Init /\ [][Next]_pvars

(* "Status application is ... monotonic" (threat-model.md:229), failures    *)
(* included ("apply sent/delivered/read/failed monotonically",              *)
(* whatsapp-cloud-api.md:23): a status never falls behind one it replaced.  *)
Monotonic ==
  [][\A r \in Requests : shown[r] \in Receipts => shown'[r] \in Onward[shown[r]]]_pvars
=============================================================================
