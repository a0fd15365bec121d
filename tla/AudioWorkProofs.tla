-------------------------- MODULE AudioWorkProofs --------------------------
(****************************************************************************)
(* For any number of claims and attempts: a voice note is paid for once,    *)
(* its row names what was paid unless it says it cannot, and the customer   *)
(* hears one thing of it.                                                   *)
(****************************************************************************)
EXTENDS AudioWork, TLAPS

-----------------------------------------------------------------------------
(* The parts of the inductive invariant.                                    *)

\* What a phase says of the file and the ticket.
Shape(r) ==
  /\ r.phase = "new" => ~r.file
  /\ r.phase \in {"new", "upload_inflight", "uploaded"} => ~r.ticket
  /\ r.phase \in {"uploaded", "submit_inflight", "submitted", "completed"} => r.file
  /\ r.phase \in {"submitted", "completed"} => r.ticket

\* A record of the row's version is the row; an older one is behind it.
Records ==
  /\ Shape(row)
  /\ \A c \in Calls :
       /\ Shape(seen[c])
       /\ seen[c].version <= row.version
       /\ seen[c].version = row.version => seen[c] = row
       /\ seen[c].phase \in Settled => row.phase \in Settled

\* The answer to a request in flight has told nothing yet.
Bare(r) ==
  /\ r.phase = "upload_inflight" => ~r.file
  /\ r.phase = "submit_inflight" => ~r.ticket

\* The record of a call fits the place the call is at.
Placed(c) ==
  /\ pc[c] = "attempt" => seen[c].phase \in Resumed /\ seen[c].attempts < MaxTries
  /\ pc[c] \in {"read", "mark"} => seen[c].phase \in {"new", "uploaded"}
  /\ pc[c] \in {"post", "await", "record"} => seen[c].phase \in Inflight /\ Bare(seen[c])
  /\ pc[c] \in {"poll", "publish"} => seen[c].phase = "submitted"
  /\ pc[c] = "retry" => seen[c].phase \in Inflight \cup {"submitted"} /\ Bare(seen[c])
  /\ pc[c] = "keep" => /\ seen[c].phase \in Inflight
                       /\ verdict[c] = "failed" => /\ seen[c].phase = "submit_inflight"
                                                   /\ Bare(seen[c])
  /\ pc[c] = "keepTicket" =>
       seen[c].phase = IF verdict[c] = "failed" THEN "submitted" ELSE "submit_inflight"
  /\ pc[c] = "terminal" => /\ seen[c].phase \notin Settled
                           /\ verdict[c] = "failed" => Bare(seen[c])
  /\ pc[c] \in {"cleanup", "finish"} => seen[c].phase \in Settled

AllPlaced == \A c \in Calls : Placed(c)

Count(k) == IF k = "upload" THEN uploads ELSE submits
Quiet(k) == \A d \in Calls : wire[d] # k

\* A paid request of one kind is made once.
Once(k) ==
  /\ Count(k) <= 1
  /\ \A c \in Calls : wire[c] = k =>
       Count(k) = 0 /\ \A d \in Calls : wire[d] = k => d = c

\* What the phase says of the requests.
Accounts ==
  /\ row.phase = "new" => Count("upload") = 0 /\ Quiet("upload")
  /\ row.phase \in {"new", "upload_inflight", "uploaded"} =>
       Count("submit") = 0 /\ Quiet("submit")
  /\ row.phase \in {"uploaded", "submit_inflight", "submitted", "completed"} =>
       Count("upload") = 1 /\ Quiet("upload")
  /\ row.phase \in {"submitted", "completed"} => Count("submit") = 1 /\ Quiet("submit")
  /\ row.phase = "failed" =>
       /\ Quiet("upload") /\ Quiet("submit")
       /\ row.file = (uploads = 1) /\ row.ticket = (submits = 1)

\* The call may still settle what became of the request in flight.
Holds(c) ==
  /\ seen[c].version = row.version
  /\ row.phase \in Inflight
  /\ \/ pc[c] \in {"post", "await", "record", "retry"}
     \/ pc[c] \in {"keep", "terminal"} /\ verdict[c] = "failed"

OneHolder == \A c, d \in Calls : Holds(c) /\ Holds(d) => c = d

\* What the holder knows of the requests of kind k, the phase being p.
Turn(c, k, p) ==
  Holds(c) /\ row.phase = p =>
    /\ pc[c] \in {"post", "retry", "keep", "terminal"} => Count(k) = 0 /\ Quiet(k)
    /\ pc[c] = "await" =>
         /\ wire[c] \in {k, "taken", "none"}
         /\ \A d \in Calls : wire[d] = k => d = c
         /\ Count(k) = IF wire[c] = "taken" THEN 1 ELSE 0
    /\ pc[c] = "record" => Count(k) = 1 /\ Quiet(k)

Turns == \A c \in Calls : /\ Turn(c, "upload", "upload_inflight")
                          /\ Turn(c, "submit", "submit_inflight")

Money == Once("upload") /\ Once("submit") /\ Accounts /\ OneHolder /\ Turns

IInv == AudioTypeOK /\ Records /\ AllPlaced /\ Money /\ OneOutcome

(* Nothing has been asked of the provider yet.                              *)
LEMMA InitIInv == AudioInit => IInv
<1> SUFFICES ASSUME AudioInit PROVE IInv
  OBVIOUS
<1> USE AudioAssumption DEF AudioAssumption, AudioInit
<1>1. AudioTypeOK
  <2>1. Fresh \in Rows
    BY DEF Fresh, Rows, Phases, Resumed
  <2>2. row \in Rows /\ resting \in BOOLEAN /\ old \in BOOLEAN
    BY <2>1
  <2>3. job \in {"queued", "deferred", "running", "succeeded", "dead"}
    OBVIOUS
  <2>4. claims \in 0..MaxClaims /\ leased \in BOOLEAN
    <3>1. claims = 0 /\ leased \in BOOLEAN
      OBVIOUS
    <3>2. MaxClaims \in Nat
      BY AudioAssumption
    <3>. QED  BY <3>1, <3>2
  <2>5. pc \in [Calls -> Places] /\ seen \in [Calls -> Rows]
    BY <2>1 DEF Places
  <2>6. verdict \in [Calls -> {"failed", "unknown"}] /\ wire \in [Calls -> {"none", "taken"} \cup Paid]
    OBVIOUS
  <2>. QED  BY <2>2, <2>3, <2>4, <2>5, <2>6 DEF AudioTypeOK
<1> USE DEF Fresh
<1>2. Records
  BY DEF Records, Shape, Settled
<1>3. AllPlaced
  BY DEF AllPlaced, Placed
<1>4. Money
  BY DEF Money, Once, Accounts, OneHolder, Turns, Turn, Holds, Count, Quiet, Inflight
<1>5. OneOutcome
  BY DEF OneOutcome
<1>. QED  BY <1>1, <1>2, <1>3, <1>4, <1>5 DEF IInv

-----------------------------------------------------------------------------
(* What a transaction that writes the row does.                             *)

\* A thrown error moves its call only, and takes the lease at most.
LEMMA ThrownFacts ==
  ASSUME AudioTypeOK, NEW c \in Calls, Thrown(c)
  PROVE  /\ pc' \in [Calls -> Places]
         /\ verdict' \in [Calls -> {"failed", "unknown"}]
         /\ job' = job \/ job' \in {"dead", "queued"}
         /\ leased' \in BOOLEAN
         /\ \A d \in Calls : d # c => pc'[d] = pc[d] /\ verdict'[d] = verdict[d]
         /\ \/ pc'[c] = "over"
            \/ /\ pc[c] = "record" /\ verdict'[c] = "unknown"
               /\ pc'[c] = IF seen[c].file THEN "keepTicket" ELSE "keep"
            \/ pc[c] = "read" /\ pc'[c] = "terminal" /\ verdict'[c] = "failed"
  BY DEF AudioTypeOK, Thrown, Abandon, Conclude, Goto, Owned, Places

(* The row was the record, and is one version on; the record follows when   *)
(* the call learns of it.                                                   *)
LEMMA CasFacts ==
  ASSUME AudioTypeOK, Records, NEW c \in Calls, NEW next \in Rows, NEW place \in Places,
         CompareAndSet(c, next, place)
  PROVE  /\ row = seen[c]
         /\ next.phase = row.phase \/ next.phase \in Moves[row.phase]
         /\ row' = [next EXCEPT !.version = row.version + 1]
         /\ row' \in Rows
         /\ row'.version = row.version + 1 /\ row'.phase = next.phase
         /\ row'.file = next.file /\ row'.ticket = next.ticket
         /\ row'.attempts = next.attempts
         /\ \A d \in Calls : d # c => /\ pc'[d] = pc[d] /\ verdict'[d] = verdict[d]
                                      /\ seen'[d] = seen[d]
         /\ \/ seen'[c] = row' /\ pc'[c] = place /\ verdict'[c] = verdict[c]
            \/ seen'[c] = seen[c] /\ Thrown(c)
         /\ pc' \in [Calls -> Places] /\ verdict' \in [Calls -> {"failed", "unknown"}]
         /\ seen' \in [Calls -> Rows]
         /\ job' = job \/ job' \in {"dead", "queued"}
         /\ leased' \in BOOLEAN
<1>1. /\ row = seen[c]
      /\ next.phase = row.phase \/ next.phase \in Moves[row.phase]
      /\ row' = [next EXCEPT !.version = row.version + 1]
  BY DEF CompareAndSet, Current, Records
<1>2. /\ row' \in Rows
      /\ row'.version = row.version + 1 /\ row'.phase = next.phase
      /\ row'.file = next.file /\ row'.ticket = next.ticket
      /\ row'.attempts = next.attempts
  BY <1>1 DEF AudioTypeOK, Rows
<1>3. CASE /\ seen' = [seen EXCEPT ![c] = [next EXCEPT !.version = row.version + 1]]
           /\ Goto(c, place)
           /\ UNCHANGED <<job, leased>>
  BY <1>1, <1>2, <1>3 DEF AudioTypeOK, Goto
<1>4. CASE Thrown(c) /\ UNCHANGED seen
  BY <1>1, <1>2, <1>4, ThrownFacts DEF AudioTypeOK
<1>. QED  BY <1>3, <1>4 DEF CompareAndSet

\* The transactions, each with the row it writes and where its call goes on.
LEMMA Written ==
  ASSUME AudioTypeOK, Records, AllPlaced, NEW c \in Calls
  PROVE  /\ Attempt(c) => \E next \in Rows, place \in Places :
              /\ CompareAndSet(c, next, place) /\ place \in {"poll", "read"}
              /\ next = [seen[c] EXCEPT !.attempts = @ + 1]
              /\ place = IF seen[c].phase = "submitted" THEN "poll" ELSE "read"
         /\ Mark(c) => \E next \in Rows :
              /\ CompareAndSet(c, next, "post")
              /\ next = [seen[c] EXCEPT !.phase = IF seen[c].file THEN "submit_inflight"
                                                  ELSE "upload_inflight"]
         /\ Record(c) => \E next \in Rows :
              \/ /\ seen[c].file /\ CompareAndSet(c, next, "retry")
                 /\ next = [seen[c] EXCEPT !.phase = "submitted", !.ticket = TRUE]
              \/ /\ ~seen[c].file /\ CompareAndSet(c, next, "mark")
                 /\ next = [seen[c] EXCEPT !.phase = "uploaded", !.file = TRUE]
         /\ Keep(c) => \E next \in Rows :
              /\ CompareAndSet(c, next, "terminal")
              /\ next = [seen[c] EXCEPT !.file = TRUE,
                                        !.ticket = @ \/ pc[c] = "keepTicket"]
         /\ Terminal(c) => \E next \in Rows :
              /\ CompareAndSet(c, next, "cleanup")
              /\ next = [seen[c] EXCEPT !.phase = verdict[c],
                           !.cleanup = IF verdict[c] = "unknown" THEN "blocked"
                                       ELSE "pending"]
         /\ Publish(c) => \E next \in Rows :
              /\ CompareAndSet(c, next, "cleanup")
              /\ next = [seen[c] EXCEPT !.phase = "completed", !.cleanup = "pending"]
         /\ Retry(c) => \/ /\ Conclude(c, "failed", "terminal")
                           /\ UNCHANGED <<row, resting, job, leased, seen>>
                        \/ \E next \in Rows :
                             /\ CompareAndSet(c, next, "defer") /\ resting' = TRUE
                             /\ next = [seen[c] EXCEPT !.phase = Before(@)]
         /\ Cleanup(c) => \/ /\ Goto(c, "finish") \/ Goto(c, "defer")
                             /\ UNCHANGED <<row, job, leased, seen>>
                          \/ \E next \in Rows :
                               /\ CompareAndSet(c, next, "finish")
                               /\ next = [seen[c] EXCEPT !.cleanup = "blocked"]
<1>. DEFINE s == seen[c]
<1>1. s \in Rows /\ s.phase \in Phases /\ pc[c] \in Places
      /\ verdict[c] \in {"failed", "unknown"}
  BY DEF AudioTypeOK, Rows
<1> USE <1>1
<1>2. ASSUME Attempt(c)
      PROVE  /\ [s EXCEPT !.attempts = @ + 1] \in Rows
             /\ (IF s.phase = "submitted" THEN "poll" ELSE "read") \in Places
  <2>1. s.attempts < MaxTries
    BY <1>2 DEF Attempt, AllPlaced, Placed
  <2>2. MaxTries \in Nat
    BY AudioAssumption DEF AudioAssumption
  <2>3. s.attempts + 1 \in 0..MaxTries
    BY <2>1, <2>2 DEF Rows
  <2>. QED  BY <2>3 DEF Rows, Places
<1>3. [s EXCEPT !.phase = IF s.file THEN "submit_inflight" ELSE "upload_inflight"] \in Rows
  BY DEF Rows, Phases, Inflight
<1>4. /\ [s EXCEPT !.phase = "submitted", !.ticket = TRUE] \in Rows
      /\ [s EXCEPT !.phase = "uploaded", !.file = TRUE] \in Rows
  BY DEF Rows, Phases, Resumed
<1>5. [s EXCEPT !.file = TRUE, !.ticket = @ \/ pc[c] = "keepTicket"] \in Rows
  BY DEF Rows
<1>6. [s EXCEPT !.phase = verdict[c],
                !.cleanup = IF verdict[c] = "unknown" THEN "blocked" ELSE "pending"] \in Rows
  BY DEF Rows, Phases, Settled
<1>7. [s EXCEPT !.phase = "completed", !.cleanup = "pending"] \in Rows
  BY DEF Rows, Phases, Settled
<1>8. [s EXCEPT !.phase = Before(@)] \in Rows
  <2>1. Before(s.phase) \in Phases
    BY DEF Before, Phases, Resumed
  <2>. QED  BY <2>1 DEF Rows
<1>9. [s EXCEPT !.cleanup = "blocked"] \in Rows
  BY DEF Rows
<1>10. "poll" \in Places /\ "read" \in Places
  BY DEF Places
<1>. QED  BY <1>2, <1>3, <1>4, <1>5, <1>6, <1>7, <1>8, <1>9
          DEF Attempt, Mark, Record, Keep, Terminal, Publish, Retry, Cleanup

\* A step that writes the row, and one that does not.
LEMMA RowSteps ==
  ASSUME AudioTypeOK, Records, AllPlaced, [AudioNext]_avars
  PROVE  \/ UNCHANGED <<row, seen>>
         \/ \E c \in Calls : Load(c)
         \/ \E c \in Calls, next \in Rows, place \in Places :
              /\ CompareAndSet(c, next, place)
              /\ Shape(next)
<1>1. CASE UNCHANGED avars
  BY <1>1 DEF avars
<1>2. CASE Claim \/ Sweep \/ Lapse \/ Wake \/ GrowOld
  BY <1>2 DEF Claim, Sweep, Lapse, Wake, GrowOld
<1>3. ASSUME NEW c \in Calls,
             \/ Crash(c) \/ Refused(c) \/ Read(c) \/ Post(c) \/ Accept(c) \/ Lose(c)
             \/ Answered(c) \/ Rejected(c) \/ Unanswered(c) \/ Poll(c) \/ Settle(c)
      PROVE UNCHANGED <<row, seen>>
  BY <1>3 DEF Crash, Refused, Read, Post, Accept, Lose, Answered, Rejected, Unanswered,
              Poll, Settle
<1>4. ASSUME NEW c \in Calls,
             \/ Attempt(c) \/ Mark(c) \/ Record(c) \/ Keep(c)
             \/ Retry(c) \/ Terminal(c) \/ Publish(c) \/ Cleanup(c)
      PROVE \/ UNCHANGED <<row, seen>>
            \/ \E next \in Rows, place \in Places :
                 CompareAndSet(c, next, place) /\ Shape(next)
  <2>. DEFINE s == seen[c]
              Writes(place, next) == next \in Rows /\ place \in Places
                                     /\ CompareAndSet(c, next, place)
  <2>1. s \in Rows /\ Shape(s) /\ Placed(c)
    BY DEF AudioTypeOK, Records, AllPlaced
  <2>2. CASE Attempt(c)
    <3>1. PICK next \in Rows, place \in Places :
            CompareAndSet(c, next, place) /\ next = [s EXCEPT !.attempts = @ + 1]
      BY <2>2, Written
    <3>2. Shape(next)
      BY <2>1, <3>1 DEF Shape, Rows
    <3>. QED  BY <3>1, <3>2
  <2>3. CASE Mark(c)
    <3>1. PICK next \in Rows :
            /\ CompareAndSet(c, next, "post")
            /\ next = [s EXCEPT !.phase = IF s.file THEN "submit_inflight"
                                          ELSE "upload_inflight"]
      BY <2>3, Written
    <3>2. s.phase \in {"new", "uploaded"}
      BY <2>1, <2>3 DEF Mark, Placed
    <3>3. Shape(next)
      BY <2>1, <3>1, <3>2 DEF Shape, Rows
    <3>. QED  BY <3>1, <3>3 DEF Places
  <2>4. CASE Record(c)
    <3>0. s.phase \in Inflight /\ Bare(s)
      BY <2>1, <2>4 DEF Record, Placed
    <3>1. PICK next \in Rows :
            \/ /\ s.file /\ CompareAndSet(c, next, "retry")
               /\ next = [s EXCEPT !.phase = "submitted", !.ticket = TRUE]
            \/ /\ ~s.file /\ CompareAndSet(c, next, "mark")
               /\ next = [s EXCEPT !.phase = "uploaded", !.file = TRUE]
      BY <2>4, Written
    <3>2. Shape(next)
      BY <2>1, <3>0, <3>1 DEF Shape, Bare, Inflight, Rows
    <3>. QED  BY <3>1, <3>2 DEF Places
  <2>5. CASE Keep(c)
    <3>1. PICK next \in Rows :
            /\ CompareAndSet(c, next, "terminal")
            /\ next = [s EXCEPT !.file = TRUE, !.ticket = @ \/ pc[c] = "keepTicket"]
      BY <2>5, Written
    <3>2. \/ pc[c] = "keep" /\ s.phase \in Inflight
          \/ pc[c] = "keepTicket" /\ s.phase \in {"submitted", "submit_inflight"}
      BY <2>1, <2>5 DEF Keep, Placed
    <3>3. Shape(next)
      BY <2>1, <3>1, <3>2 DEF Shape, Inflight, Rows
    <3>. QED  BY <3>1, <3>3 DEF Places
  <2>6. CASE Terminal(c)
    <3>1. PICK next \in Rows :
            /\ CompareAndSet(c, next, "cleanup")
            /\ next = [s EXCEPT !.phase = verdict[c],
                         !.cleanup = IF verdict[c] = "unknown" THEN "blocked"
                                     ELSE "pending"]
      BY <2>6, Written
    <3>2. next.phase \in {"failed", "unknown"}
      BY <2>1, <3>1 DEF AudioTypeOK, Rows
    <3>3. Shape(next)
      BY <3>2 DEF Shape
    <3>. QED  BY <3>1, <3>3 DEF Places
  <2>7. CASE Publish(c)
    <3>1. PICK next \in Rows :
            /\ CompareAndSet(c, next, "cleanup")
            /\ next = [s EXCEPT !.phase = "completed", !.cleanup = "pending"]
      BY <2>7, Written
    <3>2. s.phase = "submitted"
      BY <2>1, <2>7 DEF Publish, Placed
    <3>3. Shape(next)
      BY <2>1, <3>1, <3>2 DEF Shape, Rows
    <3>. QED  BY <3>1, <3>3 DEF Places
  <2>8. CASE Retry(c)
    <3>1. CASE UNCHANGED <<row, seen>>
      BY <3>1
    <3>2. ASSUME NEW next \in Rows, CompareAndSet(c, next, "defer"),
                 next = [s EXCEPT !.phase = Before(@)]
          PROVE  Shape(next)
      <4>1. s.phase \in Inflight \cup {"submitted"} /\ Bare(s)
        BY <2>1, <2>8 DEF Retry, Placed
      <4>. QED  BY <2>1, <3>2, <4>1 DEF Shape, Bare, Before, Inflight, Rows
    <3>. QED  BY <2>8, <3>1, <3>2, Written DEF Places
  <2>9. CASE Cleanup(c)
    <3>1. CASE UNCHANGED <<row, seen>>
      BY <3>1
    <3>2. ASSUME NEW next \in Rows, CompareAndSet(c, next, "finish"),
                 next = [s EXCEPT !.cleanup = "blocked"]
          PROVE  Shape(next)
      BY <2>1, <3>2 DEF Shape, Rows
    <3>. QED  BY <2>9, <3>1, <3>2, Written DEF Places
  <2>. QED  BY <1>4, <2>2, <2>3, <2>4, <2>5, <2>6, <2>7, <2>8, <2>9
<1>. QED  BY <1>1, <1>2, <1>3, <1>4 DEF AudioNext

(* Records stay true to the row: it changes by one version at a time, and   *)
(* nothing leads out of a settled phase.                                    *)
LEMMA RecordsStep ==
  ASSUME AudioTypeOK, Records, AllPlaced, [AudioNext]_avars
  PROVE  Records'
<1>1. CASE UNCHANGED <<row, seen>>
  BY <1>1 DEF Records, Shape
<1>2. ASSUME NEW c \in Calls, Load(c) PROVE Records'
  <2>1. /\ row' = row /\ seen'[c] = row
        /\ \A d \in Calls : d # c => seen'[d] = seen[d]
    BY <1>2 DEF Load, AudioTypeOK
  <2>2. row.version \in Nat
    BY DEF AudioTypeOK, Rows
  <2>. QED  BY <2>1, <2>2 DEF Records, Shape
<1>3. ASSUME NEW c \in Calls, NEW next \in Rows, NEW place \in Places,
             CompareAndSet(c, next, place), Shape(next)
      PROVE Records'
  <2>1. /\ row = seen[c]
        /\ next.phase = row.phase \/ next.phase \in Moves[row.phase]
        /\ row'.version = row.version + 1 /\ row'.phase = next.phase
        /\ row'.file = next.file /\ row'.ticket = next.ticket
        /\ \A d \in Calls : d # c => seen'[d] = seen[d]
        /\ seen'[c] = row' \/ seen'[c] = seen[c]
    BY <1>3, CasFacts
  <2>2. row.version \in Nat /\ row.phase \in Phases
        /\ \A d \in Calls : seen[d].version \in Nat
    BY DEF AudioTypeOK, Rows
  <2>3. Shape(row)'
    BY <1>3, <2>1 DEF Shape
  <2>4. row.phase \in Settled => row'.phase \in Settled
    BY <2>1 DEF Settled, Moves
  <2>5. \A d \in Calls : /\ Shape(seen[d])'
                         /\ seen'[d].version <= row'.version
                         /\ seen'[d].version = row'.version => seen'[d] = row'
                         /\ seen'[d].phase \in Settled => row'.phase \in Settled
    <3>. TAKE d \in Calls
    <3>1. CASE seen'[d] = row'
      BY <2>1, <2>2, <2>3, <3>1 DEF Shape
    <3>2. CASE seen'[d] = seen[d]
      <4>1. Shape(seen[d]) /\ seen[d].version <= row.version
            /\ (seen[d].phase \in Settled => row.phase \in Settled)
        BY DEF Records
      <4>. QED  BY <2>1, <2>2, <2>4, <3>2, <4>1 DEF Shape
    <3>. QED  BY <2>1, <3>1, <3>2
  <2>. QED  BY <2>3, <2>5 DEF Records
<1>. QED  BY <1>1, <1>2, <1>3, RowSteps

(* Every step keeps the types.                                              *)
LEMMA TypeStep ==
  ASSUME AudioTypeOK, Records, AllPlaced, [AudioNext]_avars
  PROVE  AudioTypeOK'
<1> USE DEF queue, money, words
<1>1. CASE UNCHANGED avars
  BY <1>1 DEF AudioTypeOK, avars
<1>2. CASE Claim
  <2>1. claims' \in 0..MaxClaims
    BY <1>2, AudioAssumption DEF Claim, AudioTypeOK, AudioAssumption
  <2>2. pc' \in [Calls -> Places]
    BY <1>2 DEF Claim, AudioTypeOK, Places
  <2>. QED  BY <1>2, <2>1, <2>2 DEF Claim, AudioTypeOK
<1>3. CASE Sweep \/ Lapse \/ Wake \/ GrowOld
  BY <1>3 DEF Sweep, Lapse, Wake, GrowOld, AudioTypeOK
<1>4. ASSUME NEW c \in Calls, Crash(c) PROVE AudioTypeOK'
  BY <1>4 DEF Crash, AudioTypeOK, Places
<1>5. ASSUME NEW c \in Calls, Refused(c) PROVE AudioTypeOK'
  BY <1>5, ThrownFacts DEF Refused, AudioTypeOK
<1>6. ASSUME NEW c \in Calls, Load(c) PROVE AudioTypeOK'
  <2>1. /\ pc' \in [Calls -> Places]
        /\ verdict' \in [Calls -> {"failed", "unknown"}]
    BY <1>6 DEF Load, Goto, Conclude, AudioTypeOK, Places
  <2>2. seen' \in [Calls -> Rows]
    BY <1>6 DEF Load, AudioTypeOK
  <2>. QED  BY <1>6, <2>1, <2>2 DEF Load, AudioTypeOK
<1>7. ASSUME NEW c \in Calls, Read(c) \/ Poll(c) \/ Unanswered(c) PROVE AudioTypeOK'
  <2>1. /\ pc' \in [Calls -> Places]
        /\ verdict' \in [Calls -> {"failed", "unknown"}]
    BY <1>7 DEF Read, Poll, Unanswered, Goto, Conclude, AudioTypeOK, Places
  <2>. QED  BY <1>7, <2>1 DEF Read, Poll, Unanswered, AudioTypeOK
<1>8. ASSUME NEW c \in Calls, Post(c) PROVE AudioTypeOK'
  <2>1. wire' \in [Calls -> {"none", "taken"} \cup Paid]
    BY <1>8 DEF Post, AudioTypeOK, Paid
  <2>2. pc' \in [Calls -> Places]
    BY <1>8 DEF Post, Goto, AudioTypeOK, Places
  <2>. QED  BY <1>8, <2>1, <2>2 DEF Post, Goto, AudioTypeOK
<1>9. ASSUME NEW c \in Calls, Accept(c) \/ Lose(c) PROVE AudioTypeOK'
  BY <1>9 DEF Accept, Lose, AudioTypeOK
<1>10. ASSUME NEW c \in Calls, Answered(c) \/ Rejected(c) PROVE AudioTypeOK'
  <2>1. /\ pc' \in [Calls -> Places]
        /\ verdict' \in [Calls -> {"failed", "unknown"}]
    BY <1>10 DEF Answered, Rejected, Goto, Conclude, AudioTypeOK, Places
  <2>2. wire' \in [Calls -> {"none", "taken"} \cup Paid]
    BY <1>10 DEF Answered, Rejected, AudioTypeOK
  <2>. QED  BY <1>10, <2>1, <2>2 DEF Answered, Rejected, AudioTypeOK
<1>11. ASSUME NEW c \in Calls, Settle(c) PROVE AudioTypeOK'
  BY <1>11 DEF Settle, Goto, AudioTypeOK, Places
<1>12. ASSUME NEW c \in Calls, NEW next \in Rows, NEW place \in Places,
              CompareAndSet(c, next, place),
              resting' \in BOOLEAN, UNCHANGED <<old, claims, money>>,
              transcripts' \in Nat, fallbacks' \in Nat
       PROVE  AudioTypeOK'
  <2>1. /\ row' \in Rows /\ seen' \in [Calls -> Rows]
        /\ pc' \in [Calls -> Places]
        /\ verdict' \in [Calls -> {"failed", "unknown"}]
        /\ job' = job \/ job' \in {"dead", "queued"}
        /\ leased' \in BOOLEAN
    BY <1>12, CasFacts
  <2>. QED  BY <1>12, <2>1 DEF AudioTypeOK
<1>13. ASSUME NEW c \in Calls,
              Attempt(c) \/ Mark(c) \/ Record(c) \/ Keep(c) \/ Terminal(c) \/ Publish(c)
       PROVE  AudioTypeOK'
  <2>1. \E next \in Rows, place \in Places : CompareAndSet(c, next, place)
    <3>1. CASE Attempt(c)
      BY <3>1, Written
    <3>2. CASE Mark(c) \/ Keep(c)
      BY <3>2, Written DEF Places
    <3>3. CASE Record(c)
      BY <3>3, Written DEF Places
    <3>4. CASE Terminal(c)
      BY <3>4, Written DEF Places
    <3>5. CASE Publish(c)
      BY <3>5, Written DEF Places
    <3>. QED  BY <1>13, <3>1, <3>2, <3>3, <3>4, <3>5
  <2>2. /\ resting' \in BOOLEAN /\ UNCHANGED <<old, claims, money>>
        /\ transcripts' \in Nat /\ fallbacks' \in Nat
    BY <1>13 DEF Attempt, Mark, Record, Keep, Terminal, Publish, AudioTypeOK
  <2>. QED  BY <2>1, <2>2, <1>12
<1>14. ASSUME NEW c \in Calls, Retry(c) PROVE AudioTypeOK'
  <2>1. CASE \E next \in Rows : CompareAndSet(c, next, "defer") /\ resting' = TRUE
    BY <1>14, <2>1, <1>12 DEF Retry, AudioTypeOK, Places
  <2>2. CASE Conclude(c, "failed", "terminal") /\ UNCHANGED <<row, resting, job, leased, seen>>
    BY <1>14, <2>2 DEF Retry, Conclude, AudioTypeOK, Places
  <2>. QED  BY <1>14, <2>1, <2>2, Written
<1>15. ASSUME NEW c \in Calls, Cleanup(c) PROVE AudioTypeOK'
  <2>1. CASE \E next \in Rows : CompareAndSet(c, next, "finish")
    BY <1>15, <2>1, <1>12 DEF Cleanup, AudioTypeOK, Places
  <2>2. CASE /\ Goto(c, "finish") \/ Goto(c, "defer")
             /\ UNCHANGED <<row, job, leased, seen>>
    BY <1>15, <2>2 DEF Cleanup, Goto, AudioTypeOK, Places
  <2>. QED  BY <1>15, <2>1, <2>2, Written
<1>. QED  BY <1>1, <1>2, <1>3, <1>4, <1>5, <1>6, <1>7, <1>8, <1>9, <1>10, <1>11, <1>13,
             <1>14, <1>15 DEF AudioNext

(* Every call stays where its record lets it be.                            *)
LEMMA PlacedStep ==
  ASSUME AudioTypeOK, Records, AllPlaced, [AudioNext]_avars
  PROVE  AllPlaced'
<1>1. CASE UNCHANGED avars
  BY <1>1 DEF avars, AllPlaced, Placed
<1>2. CASE Claim
  BY <1>2 DEF Claim, AudioTypeOK, AllPlaced, Placed
<1>3. CASE Sweep \/ Lapse \/ Wake \/ GrowOld
  BY <1>3 DEF Sweep, Lapse, Wake, GrowOld, AllPlaced, Placed
<1>4. ASSUME NEW c \in Calls, Crash(c) \/ Settle(c) PROVE AllPlaced'
  BY <1>4 DEF Crash, Settle, Goto, AudioTypeOK, AllPlaced, Placed
<1>5. ASSUME NEW c \in Calls, Thrown(c), seen'[c] = seen[c] PROVE Placed(c)'
  <2>1. \/ pc'[c] = "over"
        \/ /\ pc[c] = "record" /\ verdict'[c] = "unknown"
           /\ pc'[c] = IF seen[c].file THEN "keepTicket" ELSE "keep"
        \/ pc[c] = "read" /\ pc'[c] = "terminal" /\ verdict'[c] = "failed"
    BY <1>5, ThrownFacts
  <2>2. Placed(c) /\ Shape(seen[c])
    BY DEF AllPlaced, Records
  <2>3. CASE pc'[c] = "over"
    BY <2>3 DEF Placed
  <2>4. CASE /\ pc[c] = "record" /\ verdict'[c] = "unknown"
             /\ pc'[c] = IF seen[c].file THEN "keepTicket" ELSE "keep"
    BY <1>5, <2>2, <2>4 DEF Placed, Bare, Inflight
  <2>5. CASE pc[c] = "read" /\ pc'[c] = "terminal" /\ verdict'[c] = "failed"
    BY <1>5, <2>2, <2>5 DEF Placed, Bare, Settled
  <2>. QED  BY <2>1, <2>3, <2>4, <2>5
<1>6. ASSUME NEW c \in Calls, Refused(c) PROVE AllPlaced'
  <2>1. /\ Thrown(c) /\ UNCHANGED seen
        /\ \A d \in Calls : d # c => pc'[d] = pc[d] /\ verdict'[d] = verdict[d]
    BY <1>6, ThrownFacts DEF Refused
  <2>2. ASSUME NEW d \in Calls, d # c PROVE Placed(d)'
    BY <2>1, <2>2 DEF AllPlaced, Placed
  <2>. QED  BY <1>5, <2>1, <2>2 DEF AllPlaced
<1>7. ASSUME NEW c \in Calls, Load(c) PROVE AllPlaced'
  <2>1. /\ seen'[c] = row
        /\ \A d \in Calls : d # c => /\ pc'[d] = pc[d] /\ verdict'[d] = verdict[d]
                                     /\ seen'[d] = seen[d]
    BY <1>7 DEF Load, Goto, Conclude, AudioTypeOK
  <2>2. \/ row.phase \in Settled /\ pc'[c] = "cleanup"
        \/ row.phase \in Inflight /\ pc'[c] = "terminal" /\ verdict'[c] = "unknown"
        \/ row.phase \in Resumed /\ pc'[c] = "terminal"
        \/ /\ row.phase \in Resumed /\ row.attempts < MaxTries
           /\ pc'[c] \in {"defer", "attempt"}
    BY <1>7 DEF Load, Goto, Conclude, AudioTypeOK
  <2>3. Placed(c)'
    BY <2>1, <2>2 DEF Placed, Bare, Settled, Inflight, Resumed
  <2>4. ASSUME NEW d \in Calls, d # c PROVE Placed(d)'
    BY <2>1, <2>4 DEF AllPlaced, Placed
  <2>. QED  BY <2>3, <2>4 DEF AllPlaced
<1>8. ASSUME NEW c \in Calls,
             \/ Read(c) \/ Poll(c) \/ Unanswered(c) \/ Post(c) \/ Answered(c) \/ Rejected(c)
      PROVE  AllPlaced'
  <2>1. /\ UNCHANGED seen
        /\ \A d \in Calls : d # c => pc'[d] = pc[d] /\ verdict'[d] = verdict[d]
    BY <1>8 DEF Read, Poll, Unanswered, Post, Answered, Rejected, Goto, Conclude, AudioTypeOK
  <2>2. \/ pc[c] = "read" /\ pc'[c] = "mark"
        \/ pc[c] = "read" /\ pc'[c] = "terminal" /\ verdict'[c] = "failed"
        \/ pc[c] = "poll" /\ pc'[c] \in {"retry", "publish"}
        \/ pc[c] = "poll" /\ pc'[c] = "keepTicket" /\ verdict'[c] = "failed"
        \/ pc[c] = "post" /\ pc'[c] = "await"
        \/ pc[c] = "await" /\ pc'[c] \in {"record", "retry"}
        \/ /\ pc[c] = "await" /\ verdict'[c] \in {"failed", "unknown"}
           /\ pc'[c] = IF seen[c].file THEN "keep" ELSE "terminal"
    BY <1>8 DEF Read, Poll, Unanswered, Post, Answered, Rejected, Goto, Conclude, AudioTypeOK
  <2>3. Placed(c) /\ Shape(seen[c]) /\ seen[c].phase \in Phases
    BY DEF AllPlaced, Records, AudioTypeOK, Rows
  <2>4. Placed(c)'
    <3>1. CASE pc[c] \in {"read", "poll"}
      BY <2>1, <2>2, <2>3, <3>1 DEF Placed, Bare, Settled
    <3>2. CASE pc[c] \in {"post", "await"}
      BY <2>1, <2>2, <2>3, <3>2 DEF Placed, Bare, Settled, Inflight
    <3>. QED  BY <2>2, <3>1, <3>2
  <2>5. ASSUME NEW d \in Calls, d # c PROVE Placed(d)'
    BY <2>1, <2>5 DEF AllPlaced, Placed
  <2>. QED  BY <2>4, <2>5 DEF AllPlaced
<1>9. ASSUME NEW c \in Calls, Accept(c) \/ Lose(c) PROVE AllPlaced'
  BY <1>9 DEF Accept, Lose, AllPlaced, Placed
<1>10. ASSUME NEW c \in Calls, NEW next \in Rows, NEW place \in Places,
              CompareAndSet(c, next, place),
              seen'[c] = row' /\ pc'[c] = place /\ verdict'[c] = verdict[c] => Placed(c)'
       PROVE  AllPlaced'
  <2>1. /\ \A d \in Calls : d # c => /\ pc'[d] = pc[d] /\ verdict'[d] = verdict[d]
                                     /\ seen'[d] = seen[d]
        /\ \/ seen'[c] = row' /\ pc'[c] = place /\ verdict'[c] = verdict[c]
           \/ seen'[c] = seen[c] /\ Thrown(c)
    BY <1>10, CasFacts
  <2>2. ASSUME NEW d \in Calls, d # c PROVE Placed(d)'
    BY <2>1, <2>2 DEF AllPlaced, Placed
  <2>3. CASE seen'[c] = seen[c] /\ Thrown(c)
    BY <1>5, <2>2, <2>3 DEF AllPlaced
  <2>4. CASE seen'[c] = row' /\ pc'[c] = place /\ verdict'[c] = verdict[c]
    BY <1>10, <2>2, <2>4 DEF AllPlaced
  <2>. QED  BY <2>1, <2>3, <2>4
<1>11. ASSUME NEW c \in Calls, Attempt(c) PROVE AllPlaced'
  <2>1. PICK next \in Rows, place \in Places :
          /\ CompareAndSet(c, next, place)
          /\ next = [seen[c] EXCEPT !.attempts = @ + 1]
          /\ place = IF seen[c].phase = "submitted" THEN "poll" ELSE "read"
    BY <1>11, Written
  <2>2. seen[c].phase \in Resumed /\ next.phase = seen[c].phase
    BY <1>11, <2>1 DEF Attempt, AllPlaced, Placed, AudioTypeOK, Rows
  <2>3. row'.phase = next.phase
    BY <2>1, CasFacts
  <2>. QED  BY <1>10, <2>1, <2>2, <2>3 DEF Placed, Resumed
<1>12. ASSUME NEW c \in Calls, Mark(c) PROVE AllPlaced'
  <2>1. PICK next \in Rows :
          /\ CompareAndSet(c, next, "post")
          /\ next = [seen[c] EXCEPT !.phase = IF seen[c].file THEN "submit_inflight"
                                              ELSE "upload_inflight"]
    BY <1>12, Written
  <2>2. seen[c].phase \in {"new", "uploaded"} /\ Shape(seen[c])
    BY <1>12 DEF Mark, AllPlaced, Placed, Records
  <2>3. next.phase \in Inflight /\ Bare(next)
    BY <2>1, <2>2 DEF AudioTypeOK, Rows, Inflight, Bare, Shape
  <2>4. row'.phase = next.phase /\ row'.file = next.file /\ row'.ticket = next.ticket
    BY <2>1, CasFacts DEF Places
  <2>. QED  BY <1>10, <2>1, <2>3, <2>4 DEF Placed, Bare, Places
<1>13. ASSUME NEW c \in Calls, Record(c) PROVE AllPlaced'
  <2>1. PICK next \in Rows :
          \/ /\ seen[c].file /\ CompareAndSet(c, next, "retry")
             /\ next = [seen[c] EXCEPT !.phase = "submitted", !.ticket = TRUE]
          \/ /\ ~seen[c].file /\ CompareAndSet(c, next, "mark")
             /\ next = [seen[c] EXCEPT !.phase = "uploaded", !.file = TRUE]
    BY <1>13, Written
  <2>2. seen[c] \in Rows
    BY DEF AudioTypeOK
  <2>3. CASE CompareAndSet(c, next, "retry") /\ next.phase = "submitted"
    <3>1. row'.phase = "submitted"
      BY <2>3, CasFacts DEF Places
    <3>. QED  BY <1>10, <2>3, <3>1 DEF Placed, Bare, Places
  <2>4. CASE CompareAndSet(c, next, "mark") /\ next.phase = "uploaded"
    <3>1. row'.phase = "uploaded"
      BY <2>4, CasFacts DEF Places
    <3>. QED  BY <1>10, <2>4, <3>1 DEF Placed, Places
  <2>. QED  BY <2>1, <2>2, <2>3, <2>4 DEF Rows
<1>14. ASSUME NEW c \in Calls, Keep(c) PROVE AllPlaced'
  <2>1. PICK next \in Rows :
          /\ CompareAndSet(c, next, "terminal")
          /\ next = [seen[c] EXCEPT !.file = TRUE, !.ticket = @ \/ pc[c] = "keepTicket"]
    BY <1>14, Written
  <2>2. Placed(c) /\ pc[c] \in {"keep", "keepTicket"}
    BY <1>14 DEF Keep, AllPlaced
  <2>3. /\ next.phase = seen[c].phase
        /\ next.ticket = (seen[c].ticket \/ pc[c] = "keepTicket")
    BY <2>1 DEF AudioTypeOK, Rows
  <2>4. next.phase \notin Settled /\ (verdict[c] = "failed" => Bare(next))
    BY <2>2, <2>3 DEF Placed, Bare, Settled, Inflight
  <2>5. row'.phase = next.phase /\ row'.file = next.file /\ row'.ticket = next.ticket
    BY <2>1, CasFacts DEF Places
  <2>. QED  BY <1>10, <2>1, <2>4, <2>5 DEF Placed, Bare, Places
<1>15. ASSUME NEW c \in Calls, Terminal(c) \/ Publish(c) PROVE AllPlaced'
  <2>1. PICK next \in Rows :
          CompareAndSet(c, next, "cleanup") /\ next.phase \in Settled
    <3>1. CASE Terminal(c)
      <4>1. PICK next \in Rows :
              /\ CompareAndSet(c, next, "cleanup")
              /\ next = [seen[c] EXCEPT !.phase = verdict[c],
                           !.cleanup = IF verdict[c] = "unknown" THEN "blocked"
                                       ELSE "pending"]
        BY <3>1, Written
      <4>2. next.phase \in Settled
        BY <4>1 DEF AudioTypeOK, Rows, Settled
      <4>. QED  BY <4>1, <4>2
    <3>2. CASE Publish(c)
      <4>1. PICK next \in Rows :
              /\ CompareAndSet(c, next, "cleanup")
              /\ next = [seen[c] EXCEPT !.phase = "completed", !.cleanup = "pending"]
        BY <3>2, Written
      <4>2. next.phase \in Settled
        BY <4>1 DEF AudioTypeOK, Rows, Settled
      <4>. QED  BY <4>1, <4>2
    <3>. QED  BY <1>15, <3>1, <3>2
  <2>2. row'.phase = next.phase
    BY <2>1, CasFacts DEF Places
  <2>. QED  BY <1>10, <2>1, <2>2 DEF Placed, Places
<1>16. ASSUME NEW c \in Calls, Retry(c) PROVE AllPlaced'
  <2>1. CASE \E next \in Rows : CompareAndSet(c, next, "defer")
    BY <1>10, <2>1 DEF Placed, Places
  <2>2. CASE Conclude(c, "failed", "terminal") /\ UNCHANGED seen
    <3>1. seen[c].phase \notin Settled /\ Bare(seen[c])
      BY <1>16 DEF Retry, AllPlaced, Placed, Settled, Inflight
    <3>2. Placed(c)'
      BY <2>2, <3>1 DEF Conclude, AudioTypeOK, Placed, Bare
    <3>3. ASSUME NEW d \in Calls, d # c PROVE Placed(d)'
      BY <2>2, <3>3 DEF Conclude, AudioTypeOK, AllPlaced, Placed
    <3>. QED  BY <3>2, <3>3 DEF AllPlaced
  <2>. QED  BY <1>16, <2>1, <2>2, Written
<1>17. ASSUME NEW c \in Calls, Cleanup(c) PROVE AllPlaced'
  <2>0. seen[c].phase \in Settled
    BY <1>17 DEF Cleanup, AllPlaced, Placed
  <2>1. CASE \E next \in Rows : /\ CompareAndSet(c, next, "finish")
                                /\ next = [seen[c] EXCEPT !.cleanup = "blocked"]
    <3>1. PICK next \in Rows : /\ CompareAndSet(c, next, "finish")
                               /\ next = [seen[c] EXCEPT !.cleanup = "blocked"]
      BY <2>1
    <3>2. next.phase = seen[c].phase
      BY <3>1 DEF AudioTypeOK, Rows
    <3>3. row'.phase = next.phase
      BY <3>1, CasFacts DEF Places
    <3>. QED  BY <1>10, <2>0, <3>1, <3>2, <3>3 DEF Placed, Places
  <2>2. CASE (Goto(c, "finish") \/ Goto(c, "defer")) /\ UNCHANGED seen
    <3>1. Placed(c)'
      BY <2>0, <2>2 DEF Goto, AudioTypeOK, Placed
    <3>2. ASSUME NEW d \in Calls, d # c PROVE Placed(d)'
      BY <2>2, <3>2 DEF Goto, AudioTypeOK, AllPlaced, Placed
    <3>. QED  BY <3>1, <3>2 DEF AllPlaced
  <2>. QED  BY <1>17, <2>1, <2>2, Written
<1>. QED  BY <1>1, <1>2, <1>3, <1>4, <1>6, <1>7, <1>8, <1>9, <1>11, <1>12, <1>13, <1>14,
             <1>15, <1>16, <1>17 DEF AudioNext

-----------------------------------------------------------------------------
(* The requests and what is known of them.                                  *)

\* A step that makes no request, writes no row and makes no call a holder.
LEMMA MoneySteady ==
  ASSUME Money, UNCHANGED <<row, wire, uploads, submits>>,
         \A c \in Calls : Holds(c)' =>
           /\ Holds(c)
           /\ pc'[c] = pc[c] \/ (pc[c] = "retry" /\ pc'[c] = "terminal")
  PROVE  Money'
<1>1. Once("upload")' /\ Once("submit")' /\ Accounts'
  BY DEF Money, Once, Accounts, Count, Quiet
<1>2. OneHolder'
  BY DEF Money, OneHolder
<1>3. ASSUME NEW k, NEW p, NEW c \in Calls, Turn(c, k, p) PROVE Turn(c, k, p)'
  BY <1>3 DEF Turn, Count, Quiet
<1>4. Turns'
  BY <1>3 DEF Money, Turns
<1>. QED  BY <1>1, <1>2, <1>4 DEF Money

\* A step that writes the row: only the call that wrote it can be a holder.
LEMMA MoneyWrite ==
  ASSUME AudioTypeOK, Records, Money, UNCHANGED money,
         NEW c \in Calls, NEW next \in Rows, NEW place \in Places,
         CompareAndSet(c, next, place), Accounts',
         seen'[c] = row' /\ pc'[c] = place /\ verdict'[c] = verdict[c] =>
           Turn(c, "upload", "upload_inflight")' /\ Turn(c, "submit", "submit_inflight")'
  PROVE  Money'
<1>1. /\ row'.version = row.version + 1
      /\ \A d \in Calls : d # c => seen'[d] = seen[d]
      /\ \/ seen'[c] = row' /\ pc'[c] = place /\ verdict'[c] = verdict[c]
         \/ seen'[c] = seen[c]
  BY CasFacts
<1>2. \A d \in Calls : /\ row.version \in Nat /\ seen[d].version \in Nat
                       /\ seen[d].version <= row.version
  BY DEF AudioTypeOK, Rows, Records
<1>3. \A d \in Calls : seen'[d] = seen[d] => ~Holds(d)'
  BY <1>1, <1>2 DEF Holds
<1>4. Once("upload")' /\ Once("submit")'
  BY DEF Money, Once, Count, Quiet, money
<1>5. OneHolder'
  BY <1>1, <1>3 DEF OneHolder
<1>6. Turns'
  BY <1>1, <1>3 DEF Turns, Turn
<1>. QED  BY <1>4, <1>5, <1>6 DEF Money

\* The holder of a request in flight and its kind.
LEMMA InFlightFacts ==
  ASSUME AudioTypeOK, Records, Money, NEW c \in Calls, Holds(c)
  PROVE  /\ seen[c] = row
         /\ row.phase = "upload_inflight" => Turn(c, "upload", "upload_inflight")
         /\ row.phase = "submit_inflight" => Turn(c, "submit", "submit_inflight")
         /\ row.phase \in {"upload_inflight", "submit_inflight"}
  BY DEF Holds, Records, Money, Turns, Inflight

(* The transactions leave the books in order.                               *)
LEMMA MoneyWrites ==
  ASSUME AudioTypeOK, Records, AllPlaced, Money, UNCHANGED money, NEW c \in Calls,
         \/ Attempt(c) \/ Mark(c) \/ Record(c) \/ Keep(c)
         \/ Retry(c) \/ Terminal(c) \/ Publish(c) \/ Cleanup(c)
  PROVE  Money'
<1>0. /\ Placed(c) /\ Shape(seen[c]) /\ seen[c] \in Rows
      /\ Accounts
  BY DEF AllPlaced, Records, AudioTypeOK, Money
<1>a. \A k : Count(k)' = Count(k) /\ Quiet(k)' = Quiet(k)
  BY DEF Count, Quiet, money
<1>b. uploads' = uploads /\ submits' = submits
  BY DEF money
<1>c. ASSUME NEW next \in Rows, NEW place \in Places, CompareAndSet(c, next, place)
      PROVE  /\ row = seen[c] /\ row.version = seen[c].version
             /\ row'.phase = next.phase /\ row'.file = next.file
             /\ row'.ticket = next.ticket
  BY <1>c, CasFacts
<1>1. CASE Attempt(c)
  <2>1. PICK next \in Rows, place \in Places :
          /\ CompareAndSet(c, next, place)
          /\ next = [seen[c] EXCEPT !.attempts = @ + 1]
    BY <1>1, Written
  <2>2. row'.phase = row.phase /\ row.phase \in Resumed
    BY <1>0, <1>1, <1>c, <2>1 DEF Attempt, Placed, Rows
  <2>3. Accounts'
    BY <1>0, <1>a, <2>2 DEF Accounts, Resumed
  <2>4. ~Holds(c)'
    BY <2>2 DEF Holds, Inflight, Resumed
  <2>. QED  BY <2>1, <2>3, <2>4, MoneyWrite DEF Turn
<1>2. CASE Mark(c)
  <2>1. PICK next \in Rows :
          /\ CompareAndSet(c, next, "post")
          /\ next = [seen[c] EXCEPT !.phase = IF seen[c].file THEN "submit_inflight"
                                              ELSE "upload_inflight"]
    BY <1>2, Written
  <2>2. \/ row.phase = "new" /\ row'.phase = "upload_inflight"
        \/ row.phase = "uploaded" /\ row'.phase = "submit_inflight"
    BY <1>0, <1>2, <1>c, <2>1 DEF Mark, Placed, Shape, Rows, Places
  <2>3. Accounts'
    BY <1>0, <1>a, <2>2 DEF Accounts
  <2>4. ASSUME pc'[c] = "post"
        PROVE  Turn(c, "upload", "upload_inflight")' /\ Turn(c, "submit", "submit_inflight")'
    <3>1. row'.phase = "upload_inflight" => Count("upload")' = 0 /\ Quiet("upload")'
      BY <1>0, <1>a, <2>2 DEF Accounts
    <3>2. row'.phase = "submit_inflight" => Count("submit")' = 0 /\ Quiet("submit")'
      BY <1>0, <1>a, <2>2 DEF Accounts
    <3>. QED  BY <2>4, <3>1, <3>2 DEF Turn
  <2>. QED  BY <2>1, <2>3, <2>4, MoneyWrite DEF Places
<1>3. CASE Record(c)
  <2>1. PICK next \in Rows :
          \/ /\ seen[c].file /\ CompareAndSet(c, next, "retry")
             /\ next = [seen[c] EXCEPT !.phase = "submitted", !.ticket = TRUE]
          \/ /\ ~seen[c].file /\ CompareAndSet(c, next, "mark")
             /\ next = [seen[c] EXCEPT !.phase = "uploaded", !.file = TRUE]
    BY <1>3, Written
  <2>2. PICK place \in {"retry", "mark"} : CompareAndSet(c, next, place)
    BY <2>1
  <2>3. place \in Places
    BY DEF Places
  <2>4. row = seen[c] /\ row'.phase = next.phase
    BY <1>c, <2>2, <2>3
  <2>5. pc[c] = "record" /\ row.phase \in Inflight /\ Holds(c) /\ Bare(row)
    BY <1>0, <1>3, <2>4 DEF Record, Placed, Holds
  <2>6. \/ row.phase = "upload_inflight" /\ row'.phase = "uploaded"
        \/ row.phase = "submit_inflight" /\ row'.phase = "submitted"
    <3>1. row.phase = "submit_inflight" <=> row.file
      BY <1>0, <2>4, <2>5 DEF Bare, Shape, Inflight
    <3>2. row'.phase = IF row.file THEN "submitted" ELSE "uploaded"
      BY <1>0, <2>1, <2>4 DEF Rows
    <3>. QED  BY <2>5, <3>1, <3>2 DEF Inflight
  <2>7. row.phase = "upload_inflight" => Count("upload") = 1 /\ Quiet("upload")
    BY <2>5, InFlightFacts DEF Turn
  <2>8. row.phase = "submit_inflight" => Count("submit") = 1 /\ Quiet("submit")
    BY <2>5, InFlightFacts DEF Turn
  <2>9. Accounts'
    BY <1>0, <1>a, <2>6, <2>7, <2>8 DEF Accounts
  <2>10. ~Holds(c)'
    BY <2>6 DEF Holds, Inflight
  <2>. QED  BY <2>2, <2>3, <2>9, <2>10, MoneyWrite DEF Turn
<1>4. CASE Keep(c)
  <2>1. PICK next \in Rows :
          /\ CompareAndSet(c, next, "terminal")
          /\ next = [seen[c] EXCEPT !.file = TRUE, !.ticket = @ \/ pc[c] = "keepTicket"]
    BY <1>4, Written
  <2>2. row = seen[c] /\ row'.phase = row.phase
    BY <1>0, <1>c, <2>1 DEF Places, Rows
  <2>3. row.phase \in {"upload_inflight", "submit_inflight", "submitted"}
    BY <1>0, <1>4, <2>2 DEF Keep, Placed, Inflight
  <2>4. Accounts'
    BY <1>0, <1>a, <2>2, <2>3 DEF Accounts
  <2>5. ASSUME Holds(c)', verdict'[c] = verdict[c], pc'[c] = "terminal"
        PROVE  Holds(c) /\ pc[c] = "keep"
    <3>1. verdict[c] = "failed" /\ row.phase \in Inflight
      BY <2>2, <2>5 DEF Holds
    <3>2. pc[c] = "keep"
      BY <1>0, <1>4, <2>2, <3>1 DEF Keep, Placed, Inflight
    <3>. QED  BY <2>2, <3>1, <3>2 DEF Holds
  <2>6. ASSUME verdict'[c] = verdict[c], pc'[c] = "terminal"
        PROVE  Turn(c, "upload", "upload_inflight")' /\ Turn(c, "submit", "submit_inflight")'
    <3>1. CASE Holds(c)'
      <4>1. Turn(c, "upload", "upload_inflight") /\ Turn(c, "submit", "submit_inflight")
            /\ Holds(c) /\ pc[c] = "keep"
        BY <2>5, <2>6, <3>1 DEF Money, Turns
      <4>. QED  BY <1>a, <2>2, <2>6, <4>1 DEF Turn
    <3>2. CASE ~Holds(c)'
      BY <3>2 DEF Turn
    <3>. QED  BY <3>1, <3>2
  <2>. QED  BY <2>1, <2>4, <2>6, MoneyWrite DEF Places
<1>5. CASE Retry(c)
  <2>1. CASE \E next \in Rows : /\ CompareAndSet(c, next, "defer")
                                /\ next = [seen[c] EXCEPT !.phase = Before(@)]
    <3>1. PICK next \in Rows : /\ CompareAndSet(c, next, "defer")
                               /\ next = [seen[c] EXCEPT !.phase = Before(@)]
      BY <2>1
    <3>2. row = seen[c] /\ row'.phase = Before(row.phase)
      BY <1>0, <1>c, <3>1 DEF Places, Rows
    <3>3. pc[c] = "retry" /\ row.phase \in Inflight \cup {"submitted"}
      BY <1>0, <1>5, <3>2 DEF Retry, Placed
    <3>4. row.phase = "upload_inflight" => Count("upload") = 0 /\ Quiet("upload")
      BY <3>2, <3>3, InFlightFacts DEF Turn, Holds
    <3>5. row.phase = "submit_inflight" => Count("submit") = 0 /\ Quiet("submit")
      BY <3>2, <3>3, InFlightFacts DEF Turn, Holds
    <3>6. Accounts'
      BY <1>0, <1>a, <3>2, <3>3, <3>4, <3>5 DEF Accounts, Before, Inflight
    <3>7. ~Holds(c)'
      BY <3>2, <3>3 DEF Holds, Inflight, Before
    <3>. QED  BY <3>1, <3>6, <3>7, MoneyWrite DEF Turn, Places
  <2>2. CASE Conclude(c, "failed", "terminal") /\ UNCHANGED <<row, seen>>
    <3>1. \A d \in Calls : d # c => pc'[d] = pc[d] /\ verdict'[d] = verdict[d]
      BY <2>2 DEF Conclude, AudioTypeOK
    <3>2. pc[c] = "retry" /\ pc'[c] = "terminal"
      BY <1>5, <2>2 DEF Retry, Conclude, AudioTypeOK
    <3>3. \A d \in Calls : Holds(d)' =>
            /\ Holds(d)
            /\ pc'[d] = pc[d] \/ (pc[d] = "retry" /\ pc'[d] = "terminal")
      BY <2>2, <3>1, <3>2 DEF Holds
    <3>. QED  BY <2>2, <3>3, MoneySteady DEF money
  <2>. QED  BY <1>5, <2>1, <2>2, Written
<1>6. CASE Terminal(c)
  <2>1. PICK next \in Rows :
          /\ CompareAndSet(c, next, "cleanup")
          /\ next = [seen[c] EXCEPT !.phase = verdict[c],
                       !.cleanup = IF verdict[c] = "unknown" THEN "blocked" ELSE "pending"]
    BY <1>6, Written
  <2>2. /\ row = seen[c] /\ row'.phase = verdict[c]
        /\ row'.file = row.file /\ row'.ticket = row.ticket
    BY <1>0, <1>c, <2>1 DEF Places, Rows
  <2>3. pc[c] = "terminal" /\ row.phase \notin Settled /\ row.phase \in Phases
        /\ verdict[c] \in {"failed", "unknown"}
    BY <1>0, <1>6, <2>2 DEF Terminal, Placed, Rows, AudioTypeOK
  <2>4. ASSUME verdict[c] = "unknown" PROVE Accounts'
    BY <2>2, <2>4 DEF Accounts
  <2>5. ASSUME verdict[c] = "failed" PROVE Accounts'
    <3>1. Bare(row) /\ Shape(row)
      BY <1>0, <2>2, <2>3, <2>5 DEF Placed
    <3>2. row.phase \in Inflight => Holds(c)
      BY <2>2, <2>3, <2>5 DEF Holds
    <3>3. row.phase = "upload_inflight" => Count("upload") = 0 /\ Quiet("upload")
      BY <2>3, <3>2, InFlightFacts DEF Turn, Inflight
    <3>4. row.phase = "submit_inflight" => Count("submit") = 0 /\ Quiet("submit")
      BY <2>3, <3>2, InFlightFacts DEF Turn, Inflight
    <3>5. row.file \in BOOLEAN /\ row.ticket \in BOOLEAN
      BY DEF AudioTypeOK, Rows
    <3>6. /\ Quiet("upload") /\ Quiet("submit")
          /\ row.file = (uploads = 1) /\ row.ticket = (submits = 1)
      BY <1>0, <2>3, <3>1, <3>3, <3>4, <3>5
         DEF Accounts, Shape, Bare, Count, Phases, Inflight, Resumed, Settled
    <3>. QED  BY <1>a, <1>b, <2>2, <2>5, <3>6 DEF Accounts
  <2>6. ~Holds(c)'
    BY <2>2, <2>3 DEF Holds, Inflight
  <2>. QED  BY <2>1, <2>3, <2>4, <2>5, <2>6, MoneyWrite DEF Turn, Places
<1>7. CASE Publish(c)
  <2>1. PICK next \in Rows :
          /\ CompareAndSet(c, next, "cleanup")
          /\ next = [seen[c] EXCEPT !.phase = "completed", !.cleanup = "pending"]
    BY <1>7, Written
  <2>2. row.phase = "submitted" /\ row'.phase = "completed"
    BY <1>0, <1>7, <1>c, <2>1 DEF Publish, Placed, Places, Rows
  <2>3. Accounts'
    BY <1>0, <1>a, <2>2 DEF Accounts
  <2>4. ~Holds(c)'
    BY <2>2 DEF Holds, Inflight
  <2>. QED  BY <2>1, <2>3, <2>4, MoneyWrite DEF Turn, Places
<1>8. CASE Cleanup(c)
  <2>1. CASE \E next \in Rows : /\ CompareAndSet(c, next, "finish")
                                /\ next = [seen[c] EXCEPT !.cleanup = "blocked"]
    <3>1. PICK next \in Rows : /\ CompareAndSet(c, next, "finish")
                               /\ next = [seen[c] EXCEPT !.cleanup = "blocked"]
      BY <2>1
    <3>2. /\ row'.phase = row.phase /\ row'.file = row.file /\ row'.ticket = row.ticket
          /\ row.phase \in Settled
      BY <1>0, <1>8, <1>c, <3>1 DEF Cleanup, Placed, Places, Rows
    <3>3. Accounts'
      BY <1>0, <1>a, <1>b, <3>2 DEF Accounts
    <3>4. ~Holds(c)'
      BY <3>2 DEF Holds, Inflight, Settled
    <3>. QED  BY <3>1, <3>3, <3>4, MoneyWrite DEF Turn, Places
  <2>2. CASE (Goto(c, "finish") \/ Goto(c, "defer")) /\ UNCHANGED <<row, seen>>
    <3>1. /\ \A d \in Calls : d # c => pc'[d] = pc[d] /\ verdict'[d] = verdict[d]
          /\ pc'[c] \in {"finish", "defer"}
      BY <2>2 DEF Goto, AudioTypeOK
    <3>2. \A d \in Calls : Holds(d)' => Holds(d) /\ pc'[d] = pc[d]
      BY <2>2, <3>1 DEF Holds
    <3>. QED  BY <2>2, <3>2, MoneySteady DEF money
  <2>. QED  BY <1>8, <2>1, <2>2, Written
<1>. QED  BY <1>1, <1>2, <1>3, <1>4, <1>5, <1>6, <1>7, <1>8

(* So do the requests and their answers.                                    *)
LEMMA MoneyRequests ==
  ASSUME AudioTypeOK, Records, AllPlaced, Money, NEW c \in Calls,
         Post(c) \/ Accept(c) \/ Lose(c) \/ Answered(c) \/ Rejected(c)
  PROVE  Money'
<1>0. /\ Placed(c) /\ Once("upload") /\ Once("submit") /\ Accounts /\ OneHolder /\ Turns
      /\ uploads \in Nat /\ submits \in Nat
  BY DEF AllPlaced, Money, AudioTypeOK
<1>1. UNCHANGED <<row, seen>>
  BY DEF Post, Accept, Lose, Answered, Rejected
<1>2. ASSUME NEW d \in Calls, d # c
      PROVE  pc'[d] = pc[d] /\ verdict'[d] = verdict[d] /\ wire'[d] = wire[d]
  BY <1>2 DEF Post, Accept, Lose, Answered, Rejected, Goto, Conclude, AudioTypeOK
<1>3. ASSUME NEW d \in Calls, d # c PROVE Holds(d)' <=> Holds(d)
  BY <1>1, <1>2, <1>3 DEF Holds
<1>4. CASE Post(c)
  <2>1. Holds(c) /\ pc[c] = "post" /\ Holds(c)' /\ pc'[c] = "await"
    <3>1. pc[c] = "post" /\ seen[c].version = row.version /\ pc'[c] = "await"
      BY <1>4 DEF Post, Current, Goto, AudioTypeOK
    <3>2. row.phase \in Inflight
      BY <1>0, <3>1 DEF Placed, Records
    <3>. QED  BY <1>1, <3>1, <3>2 DEF Holds
  <2>2. PICK k \in Paid : wire' = [wire EXCEPT ![c] = k]
                          /\ k = IF seen[c].phase = "submit_inflight" THEN "submit"
                                 ELSE "upload"
    BY <1>4 DEF Post, Paid
  <2>3. /\ seen[c] = row
        /\ \/ row.phase = "upload_inflight" /\ k = "upload"
           \/ row.phase = "submit_inflight" /\ k = "submit"
    BY <2>1, <2>2, InFlightFacts
  <2>4. Count(k) = 0 /\ Quiet(k)
    BY <2>1, <2>3, InFlightFacts DEF Turn
  <2>5. uploads' = uploads /\ submits' = submits
    BY <1>4 DEF Post
  <2>6. wire'[c] = k /\ \A d \in Calls : d # c => wire'[d] = wire[d]
    BY <2>2 DEF AudioTypeOK
  <2>7. Once("upload")' /\ Once("submit")'
    BY <1>0, <2>3, <2>4, <2>5, <2>6 DEF Once, Count, Quiet
  <2>8. Accounts'
    BY <1>0, <1>1, <2>3, <2>5, <2>6 DEF Accounts, Count, Quiet
  <2>9. \A d \in Calls : Holds(d)' => d = c
    BY <1>0, <1>3, <2>1 DEF OneHolder
  <2>10. Turns'
    <3>1. Turn(c, k, row.phase)'
      BY <2>1, <2>3, <2>4, <2>5, <2>6 DEF Turn, Count, Quiet, Paid
    <3>2. Turn(c, "upload", "upload_inflight")' /\ Turn(c, "submit", "submit_inflight")'
      BY <1>1, <2>3, <3>1 DEF Turn
    <3>. QED  BY <2>9, <3>2 DEF Turns, Turn
  <2>. QED  BY <2>7, <2>8, <2>9, <2>10 DEF Money, OneHolder
<1>5. CASE Accept(c)
  <2>1. PICK k \in Paid : wire[c] = k
    BY <1>5 DEF Accept
  <2>2. /\ wire'[c] = "taken" /\ \A d \in Calls : d # c => wire'[d] = wire[d]
        /\ UNCHANGED <<pc, verdict>>
        /\ uploads' = IF k = "upload" THEN uploads + 1 ELSE uploads
        /\ submits' = IF k = "submit" THEN submits + 1 ELSE submits
    BY <1>5, <2>1 DEF Accept, AudioTypeOK
  <2>3. /\ Count(k) = 0 /\ Count(k)' = 1
        /\ \A d \in Calls : wire[d] = k => d = c
    BY <1>0, <2>1, <2>2 DEF Once, Count, Paid
  <2>4. \A q \in Paid : q # k => Count(q)' = Count(q)
    BY <2>1, <2>2 DEF Count, Paid
  <2>5. Once("upload")' /\ Once("submit")'
    BY <1>0, <2>1, <2>2, <2>3, <2>4 DEF Once, Count, Paid
  <2>6. ~Quiet(k)
    BY <2>1 DEF Quiet
  <2>7. Accounts'
    BY <1>0, <1>1, <2>1, <2>2, <2>4, <2>6 DEF Accounts, Quiet, Paid
  <2>8. \A d \in Calls : Holds(d)' <=> Holds(d)
    BY <1>1, <2>2 DEF Holds
  <2>9. ASSUME NEW d \in Calls, NEW q \in Paid, NEW p, Turn(d, q, p)
        PROVE  Turn(d, q, p)'
    <3>1. CASE q = k
      BY <1>1, <2>1, <2>2, <2>3, <2>6, <2>8, <2>9, <3>1 DEF Turn, Holds, Paid
    <3>2. CASE q # k
      BY <1>1, <2>1, <2>2, <2>4, <2>8, <2>9, <3>2 DEF Turn, Quiet, Paid
    <3>. QED  BY <3>1, <3>2
  <2>10. Turns'
    BY <1>0, <2>9 DEF Turns, Paid
  <2>. QED  BY <1>0, <2>5, <2>7, <2>8, <2>10 DEF Money, OneHolder
<1>6. CASE Lose(c) \/ Answered(c) \/ Rejected(c)
  <2>1. /\ wire'[c] = "none" /\ \A d \in Calls : d # c => wire'[d] = wire[d]
        /\ UNCHANGED <<uploads, submits>>
    BY <1>6 DEF Lose, Answered, Rejected, AudioTypeOK
  <2>2. \A q \in Paid : /\ Count(q)' = Count(q) /\ (Quiet(q) => Quiet(q)')
                        /\ \A d \in Calls : wire'[d] = q => wire[d] = q
    BY <2>1 DEF Count, Quiet, Paid
  <2>3. Once("upload")' /\ Once("submit")'
    BY <1>0, <2>2 DEF Once, Paid
  <2>4. Accounts'
    BY <1>0, <1>1, <2>1, <2>2 DEF Accounts, Paid
  <2>5. Holds(c)' => Holds(c)
    BY <1>1, <1>6 DEF Holds, Lose, Answered, Rejected
  <2>6. OneHolder'
    BY <1>0, <1>3, <2>5 DEF OneHolder
  <2>7. ASSUME NEW d \in Calls, d # c, NEW q \in Paid, NEW p, Turn(d, q, p)
        PROVE  Turn(d, q, p)'
    BY <1>1, <1>2, <1>3, <2>2, <2>7 DEF Turn
  <2>8. ASSUME NEW q \in Paid, NEW p, Turn(c, q, p), Once(q)
        PROVE  Turn(c, q, p)'
    <3>1. CASE Lose(c)
      <4>1. wire[c] \in Paid /\ pc'[c] = pc[c]
        BY <3>1 DEF Lose
      <4>. QED  BY <1>1, <2>1, <2>2, <2>5, <2>8, <4>1 DEF Turn, Once, Paid
    <3>2. CASE Answered(c)
      <4>1. wire[c] = "taken" /\ pc[c] = "await" /\ pc'[c] = "record"
        BY <3>2 DEF Answered, Goto, AudioTypeOK
      <4>. QED  BY <1>1, <2>1, <2>2, <2>5, <2>8, <4>1 DEF Turn, Quiet, Paid
    <3>3. CASE Rejected(c)
      <4>1. wire[c] \in Paid /\ pc[c] = "await" /\ pc'[c] \in {"retry", "keep", "terminal"}
        BY <3>3 DEF Rejected, Goto, Conclude, AudioTypeOK
      <4>. QED  BY <1>1, <2>1, <2>2, <2>5, <2>8, <4>1 DEF Turn, Quiet, Paid
    <3>. QED  BY <1>6, <3>1, <3>2, <3>3
  <2>9. Turns'
    BY <1>0, <2>7, <2>8 DEF Turns, Paid
  <2>. QED  BY <2>3, <2>4, <2>6, <2>9 DEF Money
<1>. QED  BY <1>4, <1>5, <1>6

(* Nothing a call, a crash or the provider does disturbs the books.         *)
LEMMA MoneyStep ==
  ASSUME AudioTypeOK, Records, AllPlaced, Money, [AudioNext]_avars
  PROVE  Money'
<1>1. CASE UNCHANGED avars
  BY <1>1, MoneySteady DEF avars, Holds
<1>2. CASE Claim
  <2>1. \A d \in Calls : Holds(d)' => Holds(d) /\ pc'[d] = pc[d]
    BY <1>2 DEF Claim, Holds, AudioTypeOK
  <2>. QED  BY <1>2, <2>1, MoneySteady DEF Claim, money
<1>3. CASE Sweep \/ Lapse \/ Wake \/ GrowOld
  <2>1. UNCHANGED <<row, seen, pc, verdict, wire, uploads, submits>>
    BY <1>3 DEF Sweep, Lapse, Wake, GrowOld, money
  <2>. QED  BY <2>1, MoneySteady DEF Holds
<1>4. ASSUME NEW c \in Calls,
             \/ Crash(c) \/ Refused(c) \/ Load(c) \/ Read(c) \/ Unanswered(c)
             \/ Poll(c) \/ Settle(c)
      PROVE  Money'
  <2>1. /\ UNCHANGED <<row, wire, uploads, submits>>
        /\ \A d \in Calls : d # c => /\ pc'[d] = pc[d] /\ verdict'[d] = verdict[d]
                                     /\ seen'[d] = seen[d]
    <3>1. CASE Refused(c)
      BY <3>1, ThrownFacts DEF Refused, money
    <3>2. CASE Crash(c) \/ Load(c) \/ Read(c) \/ Unanswered(c) \/ Poll(c) \/ Settle(c)
      BY <3>2 DEF Crash, Load, Read, Unanswered, Poll, Settle, Goto, Conclude,
                  AudioTypeOK, money
    <3>. QED  BY <1>4, <3>1, <3>2
  <2>2. ~Holds(c)'
    <3>1. CASE Crash(c) \/ Settle(c)
      BY <3>1 DEF Crash, Settle, Goto, Holds, AudioTypeOK
    <3>2. CASE Refused(c)
      <4>1. /\ UNCHANGED seen
            /\ \/ pc'[c] = "over"
               \/ verdict'[c] = "unknown" /\ pc'[c] \in {"keepTicket", "keep"}
               \/ pc[c] = "read" /\ pc'[c] = "terminal" /\ verdict'[c] = "failed"
        BY <3>2, ThrownFacts DEF Refused
      <4>2. CASE pc[c] = "read"
        BY <2>1, <4>1, <4>2 DEF AllPlaced, Placed, Records, Holds, Inflight
      <4>. QED  BY <4>1, <4>2 DEF Holds
    <3>3. CASE Load(c)
      BY <2>1, <3>3 DEF Load, Goto, Conclude, Holds, AudioTypeOK, Inflight, Resumed, Settled
    <3>4. CASE Read(c)
      BY <2>1, <3>4 DEF Read, Goto, Conclude, AllPlaced, Placed, Records, Holds, Inflight,
                        AudioTypeOK
    <3>5. CASE Unanswered(c)
      BY <3>5 DEF Unanswered, Conclude, Holds, AudioTypeOK
    <3>6. CASE Poll(c)
      BY <2>1, <3>6 DEF Poll, Goto, Conclude, AllPlaced, Placed, Records, Holds, Inflight,
                        AudioTypeOK
    <3>. QED  BY <1>4, <3>1, <3>2, <3>3, <3>4, <3>5, <3>6
  <2>3. \A d \in Calls : Holds(d)' => Holds(d) /\ pc'[d] = pc[d]
    BY <2>1, <2>2 DEF Holds
  <2>. QED  BY <2>1, <2>3, MoneySteady
<1>5. ASSUME NEW c \in Calls,
             \/ Attempt(c) \/ Mark(c) \/ Record(c) \/ Keep(c)
             \/ Retry(c) \/ Terminal(c) \/ Publish(c) \/ Cleanup(c)
      PROVE  Money'
  <2>1. UNCHANGED money
    BY <1>5 DEF Attempt, Mark, Record, Keep, Retry, Terminal, Publish, Cleanup
  <2>. QED  BY <1>5, <2>1, MoneyWrites
<1>. QED  BY <1>1, <1>2, <1>3, <1>4, <1>5, MoneyRequests DEF AudioNext

(* The words to the customer go with the phase.                             *)
LEMMA OutcomeStep ==
  ASSUME AudioTypeOK, Records, AllPlaced, OneOutcome, [AudioNext]_avars
  PROVE  OneOutcome'
<1> USE DEF OneOutcome
<1>1. CASE UNCHANGED avars
  BY <1>1 DEF avars
<1>2. CASE Claim \/ Sweep \/ Lapse \/ Wake \/ GrowOld
  BY <1>2 DEF Claim, Sweep, Lapse, Wake, GrowOld, words, queue
<1>3. ASSUME NEW c \in Calls,
             \/ Crash(c) \/ Load(c) \/ Read(c) \/ Post(c) \/ Accept(c) \/ Lose(c)
             \/ Answered(c) \/ Rejected(c) \/ Unanswered(c) \/ Poll(c)
      PROVE  OneOutcome'
  BY <1>3 DEF Crash, Load, Read, Post, Accept, Lose, Answered, Rejected, Unanswered, Poll,
              words, queue
<1>4. ASSUME NEW c \in Calls, Refused(c) PROVE OneOutcome'
  BY <1>4, ThrownFacts DEF Refused, words
<1>5. ASSUME NEW c \in Calls, Settle(c) PROVE OneOutcome'
  <2>1. pc[c] = "finish" => row.phase \in Settled
    BY DEF AllPlaced, Placed, Records
  <2>. QED  BY <1>5, <2>1 DEF Settle, words
<1>6. ASSUME NEW c \in Calls, NEW next \in Rows, NEW place \in Places,
             CompareAndSet(c, next, place)
      PROVE  /\ row = seen[c] /\ row'.phase = next.phase
             /\ job' = "succeeded" => job = "succeeded"
             /\ row.phase \in Settled => next.phase = row.phase
  <2>1. /\ row = seen[c] /\ row'.phase = next.phase
        /\ job' = job \/ job' \in {"dead", "queued"}
        /\ next.phase = row.phase \/ next.phase \in Moves[row.phase]
    BY <1>6, CasFacts
  <2>. QED  BY <2>1 DEF Moves, Settled
<1>7. ASSUME NEW c \in Calls, Attempt(c) \/ Mark(c) \/ Record(c) \/ Keep(c)
      PROVE  OneOutcome'
  <2>1. /\ seen[c].phase \in {"new", "uploaded", "submitted", "upload_inflight",
                              "submit_inflight"}
        /\ seen[c] \in Rows
    BY <1>7 DEF Attempt, Mark, Record, Keep, AllPlaced, Placed, Resumed, Inflight,
                AudioTypeOK
  <2>2. PICK next \in Rows, place \in Places :
          /\ CompareAndSet(c, next, place)
          /\ next.phase \notin Settled
    <3>1. CASE Attempt(c)
      <4>1. PICK next \in Rows, place \in Places :
              CompareAndSet(c, next, place) /\ next = [seen[c] EXCEPT !.attempts = @ + 1]
        BY <3>1, Written
      <4>. QED  BY <2>1, <4>1 DEF Rows, Settled
    <3>2. CASE Mark(c)
      <4>1. PICK next \in Rows :
              /\ CompareAndSet(c, next, "post")
              /\ next = [seen[c] EXCEPT !.phase = IF seen[c].file THEN "submit_inflight"
                                                  ELSE "upload_inflight"]
        BY <3>2, Written
      <4>. QED  BY <2>1, <4>1 DEF Rows, Settled, Places
    <3>3. CASE Record(c)
      <4>1. PICK next \in Rows :
              \/ /\ CompareAndSet(c, next, "retry")
                 /\ next = [seen[c] EXCEPT !.phase = "submitted", !.ticket = TRUE]
              \/ /\ CompareAndSet(c, next, "mark")
                 /\ next = [seen[c] EXCEPT !.phase = "uploaded", !.file = TRUE]
        BY <3>3, Written
      <4>. QED  BY <2>1, <4>1 DEF Rows, Settled, Places
    <3>4. CASE Keep(c)
      <4>1. PICK next \in Rows :
              /\ CompareAndSet(c, next, "terminal")
              /\ next = [seen[c] EXCEPT !.file = TRUE,
                                        !.ticket = @ \/ pc[c] = "keepTicket"]
        BY <3>4, Written
      <4>. QED  BY <2>1, <4>1 DEF Rows, Settled, Places
    <3>. QED  BY <1>7, <3>1, <3>2, <3>3, <3>4
  <2>3. UNCHANGED words
    BY <1>7 DEF Attempt, Mark, Record, Keep
  <2>. QED  BY <1>6, <2>1, <2>2, <2>3 DEF words, Settled
<1>8. ASSUME NEW c \in Calls, Terminal(c) \/ Publish(c) PROVE OneOutcome'
  <2>1. seen[c].phase \notin Settled /\ seen[c] \in Rows
        /\ verdict[c] \in {"failed", "unknown"}
    BY <1>8 DEF Terminal, Publish, AllPlaced, Placed, Settled, AudioTypeOK
  <2>2. CASE Terminal(c)
    <3>1. PICK next \in Rows :
            /\ CompareAndSet(c, next, "cleanup")
            /\ next = [seen[c] EXCEPT !.phase = verdict[c],
                         !.cleanup = IF verdict[c] = "unknown" THEN "blocked"
                                     ELSE "pending"]
      BY <2>2, Written
    <3>2. next.phase = verdict[c]
      BY <2>1, <3>1 DEF Rows
    <3>3. row = seen[c] /\ row'.phase = verdict[c]
      BY <1>6, <3>1, <3>2 DEF Places
    <3>4. transcripts' = transcripts /\ fallbacks' = fallbacks + 1
      BY <2>2 DEF Terminal
    <3>. QED  BY <2>1, <3>3, <3>4 DEF Settled
  <2>3. CASE Publish(c)
    <3>1. PICK next \in Rows :
            /\ CompareAndSet(c, next, "cleanup")
            /\ next = [seen[c] EXCEPT !.phase = "completed", !.cleanup = "pending"]
      BY <2>3, Written
    <3>2. next.phase = "completed"
      BY <2>1, <3>1 DEF Rows
    <3>3. row = seen[c] /\ row'.phase = "completed"
      BY <1>6, <3>1, <3>2 DEF Places
    <3>4. fallbacks' = fallbacks /\ transcripts' = transcripts + 1
      BY <2>3 DEF Publish
    <3>. QED  BY <2>1, <3>3, <3>4 DEF Settled
  <2>. QED  BY <1>8, <2>2, <2>3
<1>9. ASSUME NEW c \in Calls, Retry(c) PROVE OneOutcome'
  <2>0. /\ seen[c].phase \in Inflight \cup {"submitted"} /\ seen[c] \in Rows
        /\ UNCHANGED words
    BY <1>9 DEF Retry, AllPlaced, Placed, AudioTypeOK
  <2>1. CASE \E next \in Rows : /\ CompareAndSet(c, next, "defer")
                                /\ next = [seen[c] EXCEPT !.phase = Before(@)]
    <3>1. PICK next \in Rows : /\ CompareAndSet(c, next, "defer")
                               /\ next = [seen[c] EXCEPT !.phase = Before(@)]
      BY <2>1
    <3>2. next.phase \in {"new", "uploaded", "submitted"}
      BY <2>0, <3>1 DEF Rows, Before
    <3>. QED  BY <1>6, <2>0, <3>1, <3>2 DEF words, Settled, Inflight, Places
  <2>2. CASE UNCHANGED <<row, resting, job, leased, seen>>
    BY <2>0, <2>2 DEF words
  <2>. QED  BY <1>9, <2>1, <2>2, Written
<1>10. ASSUME NEW c \in Calls, Cleanup(c) PROVE OneOutcome'
  <2>0. /\ seen[c].phase \in Settled /\ seen[c] \in Rows /\ UNCHANGED words
    BY <1>10 DEF Cleanup, AllPlaced, Placed, AudioTypeOK
  <2>1. CASE \E next \in Rows : CompareAndSet(c, next, "finish")
    BY <1>6, <2>0, <2>1 DEF words, Places
  <2>2. CASE UNCHANGED <<row, job, leased, seen>>
    BY <2>0, <2>2 DEF words
  <2>. QED  BY <1>10, <2>1, <2>2, Written
<1>. QED  BY <1>1, <1>2, <1>3, <1>4, <1>5, <1>7, <1>8, <1>9, <1>10 DEF AudioNext

-----------------------------------------------------------------------------
LEMMA NextIInv == IInv /\ [AudioNext]_avars => IInv'
  BY TypeStep, RecordsStep, PlacedStep, MoneyStep, OutcomeStep DEF IInv

LEMMA SpecIInv == AudioSpec => []IInv
  BY InitIInv, NextIInv, PTL DEF AudioSpec

(* The row, the job and every call stay what the code lets them be, and the *)
(* attempts within their budget.                                            *)
THEOREM AudioTypeCorrect == AudioSpec => []AudioTypeOK
<1>1. IInv => AudioTypeOK
  BY DEF IInv
<1>. QED  BY <1>1, SpecIInv, PTL

(* However many claims a job has, and whatever becomes of them, the         *)
(* provider accepts one file and one transcription for a voice note.        *)
THEOREM NoSecondPayment == AudioSpec => []PaidOnce
<1>1. IInv => PaidOnce
  BY DEF IInv, Money, Once, Count, PaidOnce
<1>. QED  BY <1>1, SpecIInv, PTL

(* A row that names no request in flight and no unknown outcome can be      *)
(* believed: nothing is under way, and it names what was accepted.          *)
THEOREM RowsTellThePayments == AudioSpec => []OutcomeKnown
<1>1. IInv => OutcomeKnown
  <2> SUFFICES ASSUME IInv PROVE OutcomeKnown
    OBVIOUS
  <2>1. /\ Accounts /\ Shape(row) /\ row.phase \in Phases
        /\ row.file \in BOOLEAN /\ row.ticket \in BOOLEAN
    BY DEF IInv, Money, Records, AudioTypeOK, Rows
  <2>2. ASSUME row.phase \notin Inflight \cup {"unknown"}
        PROVE  /\ Quiet("upload") /\ Quiet("submit")
               /\ row.file = (uploads = 1) /\ row.ticket = (submits = 1)
    BY <2>1, <2>2 DEF Accounts, Shape, Count, Phases, Inflight, Resumed, Settled
  <2>. QED  BY <2>2 DEF OutcomeKnown, Quiet, Paid
<1>. QED  BY <1>1, SpecIInv, PTL

(* The customer hears one thing of a voice note, and a job that succeeded   *)
(* has told it.                                                             *)
THEOREM OneThingIsTold == AudioSpec => []OneOutcome
<1>1. IInv => OneOutcome
  BY DEF IInv
<1>. QED  BY <1>1, SpecIInv, PTL
-----------------------------------------------------------------------------
(* The work keeps NotePromise.                                              *)

(* A transcription is asked for, or was accepted, of an accepted file only. *)
FileFirst ==
  submits > 0 \/ (\E c \in Calls : wire[c] = "submit") => uploads = 1

\* Only the provider buys, and only a transaction moves the phase.
LEMMA PhaseStep ==
  ASSUME AudioTypeOK, Records, AllPlaced, [AudioNext]_avars
  PROVE  row'.phase = row.phase \/ row'.phase \in Moves[row.phase]
<1>1. ASSUME NEW c \in Calls, NEW next \in Rows, NEW place \in Places,
             CompareAndSet(c, next, place)
      PROVE  row'.phase = row.phase \/ row'.phase \in Moves[row.phase]
  BY <1>1, CasFacts
<1>. QED  BY <1>1, RowSteps DEF Load

LEMMA BooksStep ==
  ASSUME AudioTypeOK, [AudioNext]_avars
  PROVE  \/ \E c \in Calls : Accept(c)
         \/ /\ UNCHANGED <<uploads, submits>>
            /\ \/ \E c \in Calls : Post(c)
               \/ \A c \in Calls : wire'[c] = wire[c] \/ wire'[c] = "none"
<1>1. CASE UNCHANGED avars
  BY <1>1 DEF avars
<1>2. CASE Claim \/ Sweep \/ Lapse \/ Wake \/ GrowOld
  BY <1>2 DEF Claim, Sweep, Lapse, Wake, GrowOld, money
<1>3. ASSUME NEW c \in Calls,
             \/ Crash(c) \/ Refused(c) \/ Load(c) \/ Read(c) \/ Unanswered(c) \/ Poll(c)
             \/ Settle(c) \/ Attempt(c) \/ Mark(c) \/ Record(c) \/ Keep(c) \/ Retry(c)
             \/ Terminal(c) \/ Publish(c) \/ Cleanup(c)
      PROVE  UNCHANGED money
  BY <1>3 DEF Crash, Refused, Load, Read, Unanswered, Poll, Settle, Attempt, Mark, Record,
              Keep, Retry, Terminal, Publish, Cleanup, money
<1>4. ASSUME NEW c \in Calls, Lose(c) \/ Answered(c) \/ Rejected(c)
      PROVE  /\ UNCHANGED <<uploads, submits>>
             /\ \A d \in Calls : wire'[d] = wire[d] \/ wire'[d] = "none"
  BY <1>4 DEF Lose, Answered, Rejected, AudioTypeOK
<1>5. ASSUME NEW c \in Calls, Post(c) PROVE UNCHANGED <<uploads, submits>>
  BY <1>5 DEF Post
<1>. QED  BY <1>1, <1>2, <1>3, <1>4, <1>5 DEF AudioNext, money

\* What the provider accepts, and what the row says meanwhile.
LEMMA AcceptFacts ==
  ASSUME IInv, FileFirst, NEW c \in Calls, Accept(c)
  PROVE  /\ UNCHANGED <<row, transcripts, fallbacks>>
         /\ row.phase \in Inflight \cup {"unknown"}
         /\ \/ /\ wire[c] = "upload" /\ uploads = 0 /\ submits = 0
               /\ uploads' = 1 /\ submits' = 0
            \/ /\ wire[c] = "submit" /\ uploads = 1 /\ submits = 0
               /\ uploads' = 1 /\ submits' = 1
         /\ \A d \in Calls : wire'[d] = wire[d] \/ wire'[d] = "taken"
<1>1. UNCHANGED <<row, transcripts, fallbacks>>
  BY DEF Accept, words
<1>2. /\ AudioTypeOK /\ Once("upload") /\ Once("submit") /\ Accounts
      /\ uploads \in Nat /\ submits \in Nat /\ row.phase \in Phases
  BY DEF IInv, Money, AudioTypeOK, Rows
<1>3. wire[c] \in Paid /\ \A d \in Calls : wire'[d] = wire[d] \/ wire'[d] = "taken"
  BY <1>2 DEF Accept, AudioTypeOK
<1>4. ~Quiet(wire[c])
  BY DEF Quiet
<1>5. row.phase \in Inflight \cup {"unknown"}
  BY <1>2, <1>3, <1>4 DEF Accounts, Phases, Inflight, Resumed, Settled, Paid
<1>6. CASE wire[c] = "upload"
  <2>1. uploads = 0 /\ uploads' = uploads + 1 /\ submits' = submits
    BY <1>2, <1>6 DEF Once, Count, Accept
  <2>2. submits = 0
    BY <1>2, <2>1 DEF FileFirst
  <2>. QED  BY <1>1, <1>3, <1>5, <1>6, <2>1, <2>2
<1>7. CASE wire[c] = "submit"
  <2>1. submits = 0 /\ submits' = submits + 1 /\ uploads' = uploads
    BY <1>2, <1>7 DEF Once, Count, Accept
  <2>2. uploads = 1
    BY <1>7 DEF FileFirst
  <2>. QED  BY <1>1, <1>3, <1>5, <1>7, <2>1, <2>2
<1>. QED  BY <1>3, <1>6, <1>7 DEF Paid

LEMMA FileFirstStep ==
  ASSUME IInv, FileFirst, [AudioNext]_avars
  PROVE  FileFirst'
<1>1. ASSUME NEW c \in Calls, Accept(c) PROVE FileFirst'
  BY <1>1, AcceptFacts DEF FileFirst
<1>2. ASSUME NEW c \in Calls, Post(c), UNCHANGED <<uploads, submits>> PROVE FileFirst'
  <2>1. \A d \in Calls : wire'[d] = "submit" =>
          wire[d] = "submit" \/ (d = c /\ seen[c].phase = "submit_inflight")
    BY <1>2 DEF Post, IInv, AudioTypeOK
  <2>2. seen[c] = row
    BY <1>2 DEF Post, Current, IInv, Records
  <2>3. row.phase = "submit_inflight" => uploads = 1
    BY DEF IInv, Money, Accounts, Count
  <2>. QED  BY <1>2, <2>1, <2>2, <2>3 DEF FileFirst
<1>3. CASE /\ UNCHANGED <<uploads, submits>>
           /\ \A c \in Calls : wire'[c] = wire[c] \/ wire'[c] = "none"
  BY <1>3 DEF FileFirst
<1>4. AudioTypeOK
  BY DEF IInv
<1>. QED  BY <1>1, <1>2, <1>3, <1>4, BooksStep

LEMMA PromiseStep ==
  ASSUME IInv, IInv', FileFirst, [AudioNext]_avars
  PROVE  [Promise!Next]_(Promise!nvars)
<1> DEFINE End(phase) == IF phase \in Settled THEN phase ELSE "open"
<1> USE DEF Promise!Next, Promise!nvars, Promise!MayBuy, Promise!BuyFile, Promise!BuyText,
            Promise!Tell, Promise!GiveUp
<1>0. /\ AudioTypeOK /\ Records /\ AllPlaced /\ OneOutcome /\ OneOutcome' /\ Accounts
      /\ row.phase \in Phases
  BY DEF IInv, Money, AudioTypeOK, Rows
<1>1. ASSUME NEW c \in Calls, Accept(c) PROVE Promise!BuyFile \/ Promise!BuyText
  <2>1. End(row.phase) \in {"open", "unknown"} /\ End(row'.phase) = End(row.phase)
    BY <1>1, AcceptFacts DEF Inflight, Settled
  <2>2. CASE uploads = 0 /\ submits = 0 /\ uploads' = 1 /\ submits' = 0
    BY <1>1, <2>1, <2>2, AcceptFacts
  <2>3. CASE uploads = 1 /\ submits = 0 /\ uploads' = 1 /\ submits' = 1
    BY <1>1, <2>1, <2>3, AcceptFacts
  <2>. QED  BY <1>1, <2>2, <2>3, AcceptFacts
<1>2. CASE UNCHANGED <<uploads, submits>>
  <2>1. row'.phase = row.phase \/ row'.phase \in Moves[row.phase]
    BY <1>0, PhaseStep
  <2>2. CASE row'.phase = row.phase
    BY <1>0, <1>2, <2>2 DEF OneOutcome
  <2>3. CASE row'.phase # row.phase
    <3>1. row.phase \notin Settled /\ transcripts = 0 /\ fallbacks = 0
      BY <1>0, <2>1, <2>3 DEF Moves, Settled, OneOutcome
    <3>2. CASE row'.phase = "completed"
      <4>1. row.phase = "submitted"
        BY <1>0, <2>1, <2>3, <3>2 DEF Moves, Phases, Inflight, Resumed, Settled
      <4>2. uploads = 1 /\ submits = 1
        BY <1>0, <4>1 DEF Accounts, Count
      <4>3. transcripts' = 1 /\ fallbacks' = 0
        BY <1>0, <3>2 DEF OneOutcome
      <4>. QED  BY <1>2, <3>1, <3>2, <4>2, <4>3 DEF Settled
    <3>3. CASE row'.phase \in {"failed", "unknown"}
      <4>1. transcripts' = 0 /\ fallbacks' = 1
        BY <1>0, <3>3 DEF OneOutcome
      <4>. QED  BY <1>2, <3>1, <3>3, <4>1 DEF Settled
    <3>4. CASE row'.phase \notin Settled
      <4>1. transcripts' = 0 /\ fallbacks' = 0
        BY <1>0, <3>4 DEF OneOutcome, Settled
      <4>. QED  BY <1>2, <3>1, <3>4, <4>1
    <3>. QED  BY <3>2, <3>3, <3>4 DEF Settled
  <2>. QED  BY <2>2, <2>3
<1>. QED  BY <1>0, <1>1, <1>2, BooksStep

(* However often the job is claimed, dies, overlaps with itself or is tried *)
(* again, the work buys one file and then one transcription, tells one      *)
(* thing, a transcript only of a transcription that was bought, and buys    *)
(* nothing for a note it has said to have failed.                           *)
THEOREM WorkKeepsPromise == AudioSpec => ImplementsNotePromise
<1>1. AudioInit => FileFirst
  BY DEF AudioInit, FileFirst
<1>2. IInv /\ FileFirst /\ [AudioNext]_avars => FileFirst'
  BY FileFirstStep
<1>3. AudioInit => Promise!Init
  BY DEF AudioInit, Fresh, Settled, Promise!Init
<1>4. IInv /\ IInv' /\ FileFirst /\ [AudioNext]_avars => [Promise!Next]_(Promise!nvars)
  BY PromiseStep
<1>. QED  BY <1>1, <1>2, <1>3, <1>4, SpecIInv, PTL
          DEF AudioSpec, ImplementsNotePromise, Promise!Spec
=============================================================================
