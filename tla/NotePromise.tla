---------------------------- MODULE NotePromise ----------------------------
(****************************************************************************)
(* What the work on a voice note promises: what is bought of the provider,  *)
(* and what the customer is told.  Claims, calls, leases, checkpoints and   *)
(* retries do not appear; a file is bought before the transcription made of *)
(* it, each once; a transcript is told only of a transcription bought; the  *)
(* note ends once, with one thing told; and nothing is bought for a note    *)
(* that ended, unless it ended as one whose outcome is unknown.             *)
(****************************************************************************)
EXTENDS Naturals

VARIABLES
  bought,       \* how many files and transcriptions the provider accepted
  transcripts,  \* transcripts the customer's conversation was given
  fallbacks,    \* fallback replies
  end           \* "open", then "completed", "failed" or "unknown"

nvars == <<bought, transcripts, fallbacks, end>>

Init ==
  /\ bought = [files |-> 0, texts |-> 0]
  /\ transcripts = 0 /\ fallbacks = 0
  /\ end = "open"

MayBuy == end \in {"open", "unknown"}

BuyFile ==
  /\ MayBuy /\ bought.files = 0
  /\ bought' = [bought EXCEPT !.files = 1]
  /\ UNCHANGED <<transcripts, fallbacks, end>>

BuyText ==
  /\ MayBuy /\ bought = [files |-> 1, texts |-> 0]
  /\ bought' = [bought EXCEPT !.texts = 1]
  /\ UNCHANGED <<transcripts, fallbacks, end>>

Tell ==
  /\ end = "open" /\ bought = [files |-> 1, texts |-> 1]
  /\ end' = "completed" /\ transcripts' = transcripts + 1
  /\ UNCHANGED <<bought, fallbacks>>

GiveUp ==
  /\ end = "open"
  /\ end' \in {"failed", "unknown"} /\ fallbacks' = fallbacks + 1
  /\ UNCHANGED <<bought, transcripts>>

Next == BuyFile \/ BuyText \/ Tell \/ GiveUp

Spec == Init /\ [][Next]_nvars
=============================================================================
