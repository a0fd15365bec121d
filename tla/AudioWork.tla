----------------------------- MODULE AudioWork -----------------------------
(****************************************************************************)
(* The transcription of one voice note: the row of                          *)
(* messaging.audio_transcription_work, the claims of its job, and the paid  *)
(* requests its calls make.  The provider has no idempotency key: a POST    *)
(* whose answer is lost must never be made again.                           *)
(*                                                                          *)
(* A call is known by the number of its claim.  Every transaction demands   *)
(* that claim, under an unexpired lease, and a row of the version the call  *)
(* last saw; it may be refused, or commit with its acknowledgement lost.    *)
(* Time is left out: a lease, a pause or the age limit may end any time.    *)
(****************************************************************************)
EXTENDS Naturals

CONSTANTS
  MaxClaims,  \* ops.jobs.max_attempts of the job
  MaxTries    \* maxAttempts of runAudioTranscriptionWork

ASSUME AudioAssumption == MaxClaims \in Nat /\ MaxTries \in Nat \ {0}

VARIABLES
  row,          \* phase, version, attempts, what is known, cleanup
  resting,      \* next_attempt_at is in the future
  old,          \* maxAgeMs has passed since created_at
  job,          \* ops.jobs.status; "deferred" is queued until next_attempt_at
  claims,       \* ops.jobs.attempts: the number of the latest claim
  leased,       \* its lease has not expired
  pc,           \* where the call of a claim is
  seen,         \* its record: the row as it last read or wrote it
  verdict,      \* the phase it is about to end the work in
  wire,         \* its POST: on the way to the provider, or taken by it
  uploads,      \* files the provider accepted
  submits,      \* transcriptions it accepted
  transcripts,  \* transcripts published
  fallbacks     \* fallback replies, each with its task and alert

avars == <<row, resting, old, job, claims, leased, pc, seen, verdict, wire,
           uploads, submits, transcripts, fallbacks>>
queue == <<job, claims, leased>>
money == <<wire, uploads, submits>>
words == <<transcripts, fallbacks>>

Calls == 1..MaxClaims

Inflight == {"upload_inflight", "submit_inflight"}
Resumed  == {"new", "uploaded", "submitted"}
Settled  == {"completed", "failed", "unknown"}
Phases   == Inflight \cup Resumed \cup Settled

Paid == {"upload", "submit"}
Places == {"idle", "load", "attempt", "read", "mark", "post", "await", "record",
           "poll", "publish", "keep", "keepTicket", "retry", "terminal",
           "cleanup", "defer", "finish", "over"}

Fresh == [phase |-> "new", version |-> 0, attempts |-> 0,
          file |-> FALSE, ticket |-> FALSE, cleanup |-> "none"]

AudioInit ==
  /\ row = Fresh
  /\ resting = FALSE /\ old = FALSE
  /\ job = "queued" /\ claims = 0 /\ leased = FALSE
  /\ pc      = [c \in Calls |-> "idle"]
  /\ seen    = [c \in Calls |-> Fresh]
  /\ verdict = [c \in Calls |-> "unknown"]
  /\ wire    = [c \in Calls |-> "none"]
  /\ uploads = 0 /\ submits = 0
  /\ transcripts = 0 /\ fallbacks = 0

-----------------------------------------------------------------------------
(* The queue, its clocks, and the process a call runs in.                   *)

Claim ==
  /\ claims < MaxClaims
  /\ \/ job = "queued"
     \/ job = "deferred" /\ ~resting
     \/ job = "running" /\ ~leased
  /\ job' = "running" /\ leased' = TRUE
  /\ claims' = claims + 1
  /\ pc' = [pc EXCEPT ![claims + 1] = "load"]
  /\ UNCHANGED <<row, resting, old, seen, verdict, money, words>>

\* The last claim was abandoned.
Sweep ==
  /\ job = "running" /\ ~leased /\ claims = MaxClaims
  /\ job' = "dead"
  /\ UNCHANGED <<row, resting, old, claims, leased, pc, seen, verdict, money, words>>

Lapse ==
  /\ leased
  /\ leased' = FALSE
  /\ UNCHANGED <<row, resting, old, job, claims, pc, seen, verdict, money, words>>

Wake ==
  /\ resting
  /\ resting' = FALSE
  /\ UNCHANGED <<row, old, queue, pc, seen, verdict, money, words>>

GrowOld ==
  /\ ~old /\ claims > 0
  /\ old' = TRUE
  /\ UNCHANGED <<row, resting, queue, pc, seen, verdict, money, words>>

Crash(c) ==
  /\ pc[c] \notin {"idle", "over"}
  /\ pc' = [pc EXCEPT ![c] = "over"]
  /\ UNCHANGED <<row, resting, old, queue, seen, verdict, money, words>>

-----------------------------------------------------------------------------
(* The fence of every transaction, and what a thrown one does to its call.  *)
(* Definitions with _Faulty in their name are plausible slips of the        *)
(* definition they precede.                                                 *)

Owned(c) == job = "running" /\ claims = c /\ leased

\* guard(): the claim and the version, in a transaction of its own.
Current(c) == Owned(c) /\ seen[c].version = row.version

Goto(c, place) ==
  /\ pc' = [pc EXCEPT ![c] = place]
  /\ UNCHANGED verdict

\* return terminal(phase, ...), after keeping what the answer told, if anything.
Conclude(c, phase, place) ==
  /\ pc' = [pc EXCEPT ![c] = place]
  /\ verdict' = [verdict EXCEPT ![c] = phase]

(* The error leaves the call, whose handler fails the job: for good if a    *)
(* TypeError withdrew its other attempts, and only under a live claim.      *)
Abandon(c) ==
  /\ Goto(c, "over")
  /\ \/ UNCHANGED <<job, leased>>
     \/ /\ Owned(c)
        /\ job' \in {"dead", IF claims < MaxClaims THEN "queued" ELSE "dead"}
        /\ leased' = FALSE

(* A throw.  The adapter catches one that recorded an accepted POST; one in *)
(* readPrivateAudio passes for a missing object.                            *)
Thrown(c) ==
  \/ /\ pc[c] = "record"
     /\ Conclude(c, "unknown", IF seen[c].file THEN "keepTicket" ELSE "keep")
     /\ UNCHANGED <<job, leased>>
  \/ pc[c] = "read" /\ Conclude(c, "failed", "terminal") /\ UNCHANGED <<job, leased>>
  \/ pc[c] # "record" /\ Abandon(c)

\* No claim, no version, no authorization any more, or no database.
Refused(c) ==
  /\ pc[c] \notin {"idle", "over", "await"}
  /\ Thrown(c)
  /\ UNCHANGED <<row, resting, old, claims, seen, money, words>>

\* What advance_audio_transcription lets a phase become.
Moves ==
  [new             |-> {"upload_inflight", "failed", "unknown"},
   upload_inflight |-> {"uploaded", "new", "failed", "unknown"},
   uploaded        |-> {"submit_inflight", "failed", "unknown"},
   submit_inflight |-> {"submitted", "uploaded", "failed", "unknown"},
   submitted       |-> {"completed", "failed", "unknown"},
   completed |-> {}, failed |-> {}, unknown |-> {}]

\* The row becomes next, one version on; the call learns of it, or throws.
CompareAndSet(c, next, place) ==
  /\ Current(c)
  /\ next.phase = row.phase \/ next.phase \in Moves[row.phase]
  /\ row' = [next EXCEPT !.version = row.version + 1]
  /\ \/ /\ seen' = [seen EXCEPT ![c] = [next EXCEPT !.version = row.version + 1]]
        /\ Goto(c, place)
        /\ UNCHANGED <<job, leased>>
     \/ Thrown(c) /\ UNCHANGED seen

-----------------------------------------------------------------------------
(* One call of runAudioTranscriptionWork.                                   *)

\* The retry budget forgotten where a call resumes.
Load_FaultyNoBudget(c) ==
  /\ pc[c] = "load" /\ Owned(c)
  /\ seen' = [seen EXCEPT ![c] = row]
  /\ \/ row.phase \in Settled /\ Goto(c, "cleanup")
     \/ row.phase \in Inflight /\ Conclude(c, "unknown", "terminal")
     \/ row.phase \in Resumed /\ Conclude(c, "failed", "terminal")
     \/ row.phase \in Resumed /\ Goto(c, IF resting THEN "defer" ELSE "attempt")
  /\ UNCHANGED <<row, resting, old, queue, money, words>>

(* A settled row has only its cleanup left; a POST may be unanswered; then  *)
(* the budget, a worker without a transcriber, and the pause.               *)
Load(c) ==
  /\ pc[c] = "load" /\ Owned(c)
  /\ seen' = [seen EXCEPT ![c] = row]
  /\ \/ row.phase \in Settled /\ Goto(c, "cleanup")
     \/ row.phase \in Inflight /\ Conclude(c, "unknown", "terminal")
     \/ row.phase \in Resumed /\ Conclude(c, "failed", "terminal")
     \/ /\ row.phase \in Resumed /\ row.attempts < MaxTries /\ ~old
        /\ Goto(c, IF resting THEN "defer" ELSE "attempt")
  /\ UNCHANGED <<row, resting, old, queue, money, words>>

Attempt(c) ==
  /\ pc[c] = "attempt"
  /\ CompareAndSet(c, [seen[c] EXCEPT !.attempts = @ + 1],
                   IF seen[c].phase = "submitted" THEN "poll" ELSE "read")
  /\ UNCHANGED <<resting, old, claims, money, words>>

\* The object, and the adapter's checks of its bytes.
Read(c) ==
  /\ pc[c] = "read"
  /\ \/ Current(c) /\ Goto(c, "mark")
     \/ Conclude(c, "failed", "terminal")
  /\ UNCHANGED <<row, resting, old, queue, seen, money, words>>

\* The checkpoint before a paid request.
Mark(c) ==
  /\ pc[c] = "mark"
  /\ CompareAndSet(c, [seen[c] EXCEPT !.phase = IF seen[c].file THEN "submit_inflight"
                                                ELSE "upload_inflight"], "post")
  /\ UNCHANGED <<resting, old, claims, money, words>>

\* The guard, then the request.
Post(c) ==
  /\ pc[c] = "post" /\ Current(c)
  /\ wire' = [wire EXCEPT ![c] = IF seen[c].phase = "submit_inflight" THEN "submit"
                                 ELSE "upload"]
  /\ Goto(c, "await")
  /\ UNCHANGED <<row, resting, old, queue, seen, uploads, submits, words>>

-----------------------------------------------------------------------------
(* The provider, and what its answer makes of the call.                     *)

\* It accepts a request, even one whose caller has given up.
Accept(c) ==
  /\ wire[c] \in Paid
  /\ uploads' = IF wire[c] = "upload" THEN uploads + 1 ELSE uploads
  /\ submits' = IF wire[c] = "submit" THEN submits + 1 ELSE submits
  /\ wire' = [wire EXCEPT ![c] = "taken"]
  /\ UNCHANGED <<row, resting, old, queue, pc, seen, verdict, words>>

\* The request is lost, or refused after the caller stopped listening.
Lose(c) ==
  /\ wire[c] \in Paid
  /\ wire' = [wire EXCEPT ![c] = "none"]
  /\ UNCHANGED <<row, resting, old, queue, pc, seen, verdict, uploads, submits, words>>

\* 201 with the identity of the file or of the transcription.
Answered(c) ==
  /\ pc[c] = "await" /\ wire[c] = "taken"
  /\ wire' = [wire EXCEPT ![c] = "none"]
  /\ Goto(c, "record")
  /\ UNCHANGED <<row, resting, old, queue, seen, uploads, submits, words>>

\* 429 asks for another try later; any other 4xx is final.
Rejected(c) ==
  /\ pc[c] = "await" /\ wire[c] \in Paid
  /\ wire' = [wire EXCEPT ![c] = "none"]
  /\ \/ Goto(c, "retry")
     \/ Conclude(c, "failed", IF seen[c].file THEN "keep" ELSE "terminal")
  /\ UNCHANGED <<row, resting, old, queue, seen, uploads, submits, words>>

\* A 5xx or a timeout answers like a 429.
Unanswered_FaultyRetry(c) ==
  /\ pc[c] = "await"
  /\ Goto(c, "retry")
  /\ UNCHANGED <<row, resting, old, queue, seen, money, words>>

\* A 5xx or a timeout passes for a refusal.
Unanswered_FaultyFailed(c) ==
  /\ pc[c] = "await"
  /\ Conclude(c, "failed", IF seen[c].file THEN "keep" ELSE "terminal")
  /\ UNCHANGED <<row, resting, old, queue, seen, money, words>>

\* A timeout, a 5xx or an answer without an identity: the outcome is unknown.
Unanswered(c) ==
  /\ pc[c] = "await"
  /\ Conclude(c, "unknown", IF seen[c].file THEN "keep" ELSE "terminal")
  /\ UNCHANGED <<row, resting, old, queue, seen, money, words>>

\* The checkpoint after an accepted request.
Record(c) ==
  /\ pc[c] = "record"
  /\ IF seen[c].file
       THEN CompareAndSet(c, [seen[c] EXCEPT !.phase = "submitted", !.ticket = TRUE],
                          "retry")
       ELSE CompareAndSet(c, [seen[c] EXCEPT !.phase = "uploaded", !.file = TRUE],
                          "mark")
  /\ UNCHANGED <<resting, old, claims, money, words>>

\* One poll: not yet, the transcript, or a final failure.
Poll(c) ==
  /\ pc[c] = "poll" /\ Current(c)
  /\ \/ Goto(c, "retry")
     \/ Goto(c, "publish")
     \/ Conclude(c, "failed", "keepTicket")
  /\ UNCHANGED <<row, resting, old, queue, seen, money, words>>

-----------------------------------------------------------------------------
(* The ends of a call.                                                      *)

\* A result that names a file or a ticket is kept before the work ends.
Keep(c) ==
  /\ pc[c] \in {"keep", "keepTicket"}
  /\ CompareAndSet(c, [seen[c] EXCEPT !.file = TRUE,
                                      !.ticket = @ \/ pc[c] = "keepTicket"], "terminal")
  /\ UNCHANGED <<resting, old, claims, money, words>>

\* What a request that may be made again falls back to.
Before(phase) ==
  CASE phase = "upload_inflight" -> "new"
    [] phase = "submit_inflight" -> "uploaded"
    [] OTHER -> "submitted"

\* Another step later, unless the budget will have passed by then.
Retry(c) ==
  /\ pc[c] = "retry"
  /\ \/ Conclude(c, "failed", "terminal") /\ UNCHANGED <<row, resting, job, leased, seen>>
     \/ /\ seen[c].attempts < MaxTries /\ ~old
        /\ CompareAndSet(c, [seen[c] EXCEPT !.phase = Before(@)], "defer")
        /\ resting' = TRUE
  /\ UNCHANGED <<old, claims, money, words>>

\* The fallback in a transaction before the one that settles the row.
Terminal_FaultyTwoTransactions(c) ==
  /\ pc[c] = "terminal"
  /\ \/ /\ Current(c)
        /\ Abandon(c)
        /\ UNCHANGED <<row, seen>>
     \/ CompareAndSet(c, [seen[c] EXCEPT !.phase = verdict[c],
                            !.cleanup = IF verdict[c] = "unknown" THEN "blocked"
                                        ELSE "pending"], "cleanup")
  /\ fallbacks' = fallbacks + 1
  /\ UNCHANGED <<resting, old, claims, money, transcripts>>

\* The fallback, its task and its alert, and the end of the work, in one.
Terminal(c) ==
  /\ pc[c] = "terminal"
  /\ CompareAndSet(c, [seen[c] EXCEPT !.phase = verdict[c],
                         !.cleanup = IF verdict[c] = "unknown" THEN "blocked"
                                     ELSE "pending"], "cleanup")
  /\ fallbacks' = fallbacks + 1
  /\ UNCHANGED <<resting, old, claims, money, transcripts>>

\* The transcript, the jobs that answer it, and the end of the work, in one.
Publish(c) ==
  /\ pc[c] = "publish"
  /\ CompareAndSet(c, [seen[c] EXCEPT !.phase = "completed", !.cleanup = "pending"],
                   "cleanup")
  /\ transcripts' = transcripts + 1
  /\ UNCHANGED <<resting, old, claims, money, fallbacks>>

\* The provider's copies are left to an operator: no cleanup port is supplied.
Cleanup(c) ==
  /\ pc[c] = "cleanup"
  /\ \/ /\ seen[c].cleanup = "blocked"
        /\ Goto(c, "finish")
        /\ UNCHANGED <<row, job, leased, seen>>
     \/ /\ seen[c].cleanup # "blocked" /\ resting
        /\ Goto(c, "defer")
        /\ UNCHANGED <<row, job, leased, seen>>
     \/ /\ seen[c].cleanup # "blocked" /\ ~resting
        /\ CompareAndSet(c, [seen[c] EXCEPT !.cleanup = "blocked"], "finish")
  /\ UNCHANGED <<resting, old, claims, money, words>>

\* The job waits until next_attempt_at, or has succeeded.
Settle(c) ==
  /\ pc[c] \in {"defer", "finish"} /\ Owned(c)
  /\ job' = IF pc[c] = "defer" THEN "deferred" ELSE "succeeded"
  /\ leased' = FALSE
  /\ Goto(c, "over")
  /\ UNCHANGED <<row, resting, old, claims, seen, money, words>>

-----------------------------------------------------------------------------
AudioNext ==
  \/ Claim \/ Sweep \/ Lapse \/ Wake \/ GrowOld
  \/ \E c \in Calls :
       \/ Crash(c)   \/ Refused(c)
       \/ Load(c)    \/ Attempt(c) \/ Read(c) \/ Mark(c) \/ Post(c)
       \/ Accept(c)  \/ Lose(c)
       \/ Answered(c) \/ Rejected(c) \/ Unanswered(c) \/ Record(c) \/ Poll(c)
       \/ Keep(c)    \/ Retry(c) \/ Terminal(c) \/ Publish(c)
       \/ Cleanup(c) \/ Settle(c)

AudioSpec == AudioInit /\ [][AudioNext]_avars

-----------------------------------------------------------------------------
Rows == [phase : Phases, version : Nat, attempts : 0..MaxTries,
         file : BOOLEAN, ticket : BOOLEAN, cleanup : {"none", "pending", "blocked"}]

(* The row stays what the table's CHECKs allow, its attempts within the     *)
(* budget, and every call is somewhere in runAudioTranscriptionWork.        *)
AudioTypeOK ==
  /\ row \in Rows
  /\ resting \in BOOLEAN /\ old \in BOOLEAN
  /\ job \in {"queued", "deferred", "running", "succeeded", "dead"}
  /\ claims \in 0..MaxClaims /\ leased \in BOOLEAN
  /\ pc      \in [Calls -> Places]
  /\ seen    \in [Calls -> Rows]
  /\ verdict \in [Calls -> {"failed", "unknown"}]
  /\ wire    \in [Calls -> {"none", "taken"} \cup Paid]
  /\ uploads \in Nat /\ submits \in Nat
  /\ transcripts \in Nat /\ fallbacks \in Nat

(* The provider is never paid twice for a voice note: one file and one      *)
(* transcription are accepted at most, whatever crashes, lost answers, lost *)
(* acknowledgements and overlapping calls there are                         *)
(* (audio-transcription-work.ts:233, audio-transcription.ts:317).           *)
PaidOnce == uploads <= 1 /\ submits <= 1

(* Unless the row says that a request is in flight, or that its outcome is  *)
(* unknown, no request is under way, also none of a call that lost its      *)
(* claim, and the row names exactly what the provider accepted: a retry is  *)
(* safe, and an operator who reads "failed" has nothing else to look for.   *)
OutcomeKnown ==
  row.phase \notin Inflight \cup {"unknown"} =>
    /\ \A c \in Calls : wire[c] \notin Paid
    /\ row.file = (uploads = 1) /\ row.ticket = (submits = 1)

(* The customer hears one thing of the note: its transcript is worked on or *)
(* the fallback is sent, never both and neither twice, as the row says; and *)
(* a job that succeeded has told one of them.                               *)
OneOutcome ==
  /\ transcripts = IF row.phase = "completed" THEN 1 ELSE 0
  /\ fallbacks = IF row.phase \in {"failed", "unknown"} THEN 1 ELSE 0
  /\ job = "succeeded" => row.phase \in Settled
(* The work keeps NotePromise: however claims overlap, die and are retried, *)
(* the provider is paid for one file and then one transcription, the        *)
(* customer hears one thing, a transcript only of a transcription that was  *)
(* made, and a note said to have failed is never paid for afterwards        *)
(* (audio-transcription-work.ts:233, messaging-work.ts terminal and publish).*)
Promise == INSTANCE NotePromise WITH
  bought <- [files |-> uploads, texts |-> submits],
  end    <- IF row.phase \in Settled THEN row.phase ELSE "open"

ImplementsNotePromise == Promise!Spec
=============================================================================
