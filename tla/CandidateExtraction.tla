------------------------- MODULE CandidateExtraction -------------------------
(***************************************************************************)
(* Extraction of candidates from a conversation.  One durable run per      *)
(* revision of the conversation; an attempt holds the run by a lease with  *)
(* a token of its own, reloads the exact snapshot, lets an extractor run   *)
(* outside any transaction, and commits candidates and the end of the run  *)
(* together.  Turns are appended and messages deleted meanwhile.           *)
(*                                                                         *)
(* The extractor is deterministic and local, or a language model behind a  *)
(* provider, whose request must never be sent twice.  A run is known by    *)
(* its conversation revision, its token by a claim counter; hash, counts,  *)
(* audit rows and error codes are left out.                                *)
(***************************************************************************)
EXTENDS CandidateMemory

CONSTANTS
    Workers,       \* concurrent trigger commands
    LeaseTtl,      \* LEASE_TTL_S, in ticks
    MinRemaining,  \* FINALIZE_MIN_REMAINING_S
    RetryDelay,    \* the 5 s and 30 s delays
    MaxAttempts,   \* MAX_ATTEMPTS (3 in the code)
    Permits,       \* the semaphore around the provider (4 in the code)
    Modes,         \* the extractors the active profile mapping may select
    Driven,        \* whether anything calls the recovery operations
    MaxRuns,       \* bound on conversation revisions
    MaxTime,       \* bound on the clock
    MaxCrashes     \* bound on crashes

ASSUME ExtractionAssumption ==
    /\ {LeaseTtl, MinRemaining, RetryDelay, MaxAttempts, Permits, MaxRuns} \subseteq Nat \ {0}
    /\ MinRemaining <= LeaseTtl
    /\ Modes \subseteq {"deterministic", "llm"} /\ Driven \in BOOLEAN
    /\ MaxTime \in Nat /\ MaxCrashes \in Nat

Revisions == 0..MaxRuns

VARIABLES
    revision,  \* conversation.revision; the conversation is deleted when exists is FALSE
    exists,
    born,      \* the user messages that were ever appended
    answer,    \* the messages of the other role: the turns whose answer exists
    run,       \* candidate_extraction_run and its snapshot rows, by revision
    worker,    \* the trigger each worker serves
    claims,    \* tokens issued so far
    now,
    crashes,
    sent,      \* history: requests sent to the provider for each run
    ingested   \* history: batches whose candidates were committed for each run

runVars == <<revision, exists, born, answer, run, claims>>
extractVars == <<runVars, worker, now, crashes, sent, ingested>>
extractionVars == <<candidateVars, extractVars>>

NoRun == [status |-> "none", extractor |-> "none", attempt |-> 0, token |-> 0,
          expires |-> 0, next |-> 0, snapshot |-> {}]

Resting == [pc |-> "idle", revision |-> 0, mode |-> "none", token |-> 0, attempt |-> 0,
            messages |-> {}, send |-> FALSE, batch |-> {}]

ExtractionInit ==
    /\ CandidateInit
    /\ revision = 0 /\ exists = TRUE /\ born = {} /\ answer = {}
    /\ run = [r \in Revisions |-> NoRun]
    /\ worker = [w \in Workers |-> Resting]
    /\ claims = 0 /\ now = 1 /\ crashes = 0
    /\ sent = [r \in Revisions |-> 0]
    /\ ingested = [r \in Revisions |-> 0]

-----------------------------------------------------------------------------
(* Runs *)

Terminal == {"completed", "failed", "snapshot_invalidated"}

\* A run that is over keeps neither token nor lease nor snapshot rows.
Over(row, status) == [row EXCEPT !.status = status, !.token = 0, !.expires = 0, !.next = 0,
                                 !.snapshot = {}]

\* A new attempt with a token of its own.
Claimed(row) == [row EXCEPT !.status = "processing", !.attempt = @ + 1, !.token = claims + 1,
                            !.expires = now + LeaseTtl, !.next = 0]

\* validate_fence
Fenced(w) ==
    LET row == run[worker[w].revision]
    IN  /\ row.status = "processing"
        /\ row.attempt = worker[w].attempt /\ row.token = worker[w].token
        /\ row.expires > now

\* build_snapshot selects the user messages that have their answer.
Selectable == message \cap answer

\* reload_and_validate_snapshot: every selected message is there, with its answer.
SnapshotHolds(r) == run[r].snapshot \subseteq Selectable

To(w, pc) == worker' = [worker EXCEPT ![w].pc = pc]
Rest(w) == worker' = [worker EXCEPT ![w] = Resting]

\* The worker takes the attempt just claimed.
Take(w, r, mode, send) ==
    worker' = [worker EXCEPT ![w] =
       [Resting EXCEPT !.pc = "reload", !.revision = r, !.mode = mode, !.token = claims + 1,
                       !.attempt = run'[r].attempt, !.messages = run'[r].snapshot,
                       !.send = send]]

-----------------------------------------------------------------------------
(* The trigger command *)

\* Mutant: the attempt taken over sends the request again.
TakenOverSends(mode) == TRUE

\* handle_existing_run: an attempt taken over from an LLM run only records the failure.
TakenOver(mode) == mode = "deterministic"

\* Mutant: a run in processing is answered as it is, whatever its lease.
TriggerNewOnly(w) ==
    /\ worker[w].pc = "idle" /\ exists
    /\ run[revision].status = "none"
    /\ \E m \in Modes :
         worker' = [worker EXCEPT ![w] = [Resting EXCEPT !.pc = "start", !.mode = m]]
    /\ UNCHANGED <<candidateVars, runVars, now, crashes, sent, ingested>>

\* trigger_candidate_extraction: look for a run of the current revision.
Trigger(w) ==
    /\ worker[w].pc = "idle" /\ exists
    /\ LET row == run[revision]
       IN  \/ /\ row.status = "none"
              /\ \E m \in Modes :
                   worker' = [worker EXCEPT ![w] = [Resting EXCEPT !.pc = "start", !.mode = m]]
           \/ /\ row.status = "processing" /\ row.extractor = "llm" /\ row.expires <= now
              /\ worker' = [worker EXCEPT ![w] = [Resting EXCEPT !.pc = "take_over", !.mode = "llm"]]
    /\ UNCHANGED <<candidateVars, runVars, now, crashes, sent, ingested>>

\* An LLM attempt sends when its profile is readable and a permit came in time.
MaySend(mode) ==
    IF mode = "deterministic" THEN {TRUE}
    ELSE {FALSE} \cup {b \in {TRUE} : Cardinality({v \in Workers : worker[v].send}) < Permits}

\* start_candidate_extraction; a run of this revision that appeared meanwhile, or a
\* conversation with nothing to select, ends the command.
Start(w) ==
    /\ worker[w].pc = "start"
    /\ IF exists /\ run[revision].status = "none" /\ Selectable # {}
       THEN \E send \in MaySend(worker[w].mode) :
              /\ run' = [run EXCEPT ![revision] =
                           [Claimed(NoRun) EXCEPT !.extractor = worker[w].mode,
                                                  !.snapshot = Selectable]]
              /\ claims' = claims + 1
              /\ Take(w, revision, worker[w].mode, send)
       ELSE Rest(w) /\ UNCHANGED <<run, claims>>
    /\ UNCHANGED <<candidateVars, revision, exists, born, answer, now, crashes, sent, ingested>>

\* A run of the conversation, of any revision, whose lease ran out.
Expired(r, mode) ==
    run[r].status = "processing" /\ run[r].extractor = mode /\ run[r].expires <= now

\* take_over_expired_extraction_lease
TakeOver(w, r) ==
    /\ worker[w].pc = "take_over"
    /\ Expired(r, worker[w].mode)
    /\ IF run[r].attempt >= MaxAttempts
       THEN run' = [run EXCEPT ![r] = Over(@, "failed")] /\ Rest(w) /\ UNCHANGED claims
       ELSE IF ~SnapshotHolds(r)
       THEN run' = [run EXCEPT ![r] = Over(@, "snapshot_invalidated")] /\ Rest(w)
            /\ UNCHANGED claims
       ELSE /\ run' = [run EXCEPT ![r] = Claimed(@)]
            /\ claims' = claims + 1
            /\ Take(w, r, worker[w].mode, TakenOver(worker[w].mode))
    /\ UNCHANGED <<candidateVars, revision, exists, born, answer, now, crashes, sent, ingested>>

\* The lease that was to be taken over is there no more.
NothingToTakeOver(w) ==
    /\ worker[w].pc = "take_over"
    /\ \A r \in Revisions : ~Expired(r, worker[w].mode)
    /\ Rest(w)
    /\ UNCHANGED <<candidateVars, runVars, now, crashes, sent, ingested>>

\* Operations the repository offers and no command calls: claim_due_extraction_retry,
\* and the take-over of deterministic runs.
ClaimDueRetry(w, r) ==
    /\ Driven /\ worker[w].pc = "idle"
    /\ run[r].status = "retry_wait" /\ run[r].next <= now /\ run[r].attempt < MaxAttempts
    /\ IF SnapshotHolds(r)
       THEN /\ run' = [run EXCEPT ![r] = Claimed(@)]
            /\ claims' = claims + 1
            /\ Take(w, r, run[r].extractor, TRUE)
       ELSE run' = [run EXCEPT ![r] = Over(@, "snapshot_invalidated")] /\ UNCHANGED <<claims, worker>>
    /\ UNCHANGED <<candidateVars, revision, exists, born, answer, now, crashes, sent, ingested>>

RecoverExpired(w) ==
    /\ Driven /\ worker[w].pc = "idle"
    /\ \E r \in Revisions : Expired(r, "deterministic")
    /\ worker' = [worker EXCEPT ![w] = [Resting EXCEPT !.pc = "take_over",
                                                       !.mode = "deterministic"]]
    /\ UNCHANGED <<candidateVars, runVars, now, crashes, sent, ingested>>

\* renew_extraction_lease
RenewLease(w) ==
    /\ Driven /\ worker[w].pc \in {"reload", "extract", "batch"}
    /\ Fenced(w)
    /\ run' = [run EXCEPT ![worker[w].revision].expires = now + LeaseTtl]
    /\ UNCHANGED <<candidateVars, revision, exists, born, answer, claims, worker, now, crashes, sent,
                   ingested>>

-----------------------------------------------------------------------------
(* One attempt *)

\* reload_candidate_extraction_request
Reload(w) ==
    /\ worker[w].pc = "reload"
    /\ LET r == worker[w].revision
       IN  \/ ~Fenced(w) /\ Rest(w) /\ UNCHANGED run
           \/ /\ Fenced(w) /\ ~SnapshotHolds(r)
              /\ run' = [run EXCEPT ![r] = Over(@, "snapshot_invalidated")]
              /\ Rest(w)
           \/ Fenced(w) /\ SnapshotHolds(r) /\ To(w, "extract") /\ UNCHANGED run
    /\ UNCHANGED <<candidateVars, revision, exists, born, answer, claims, now, crashes, sent, ingested>>

\* A batch as classify_batch accepts it: contents with messages of the request.
Batches(messages) ==
    UNION {[S -> (SUBSET messages) \ {{}}] : S \in SUBSET Contents}

\* The extractor runs, without a transaction.  An LLM attempt without permission to send
\* and one that was taken over fail at once.
Extract(w) ==
    /\ worker[w].pc = "extract"
    /\ IF worker[w].send
       THEN /\ sent' = [sent EXCEPT ![worker[w].revision] =
                          IF worker[w].mode = "llm" THEN @ + 1 ELSE @]
            /\ To(w, "extracting")
       ELSE To(w, "failed") /\ UNCHANGED sent
    /\ UNCHANGED <<candidateVars, runVars, now, crashes, ingested>>

\* It answers with a batch, or fails, times out or panics.  The permit is given back.
ExtractorReturns(w) ==
    /\ worker[w].pc = "extracting"
    /\ \/ \E b \in Batches(worker[w].messages) :
            worker' = [worker EXCEPT ![w].pc = "batch", ![w].batch = b, ![w].send = FALSE]
       \/ \E pc \in {"failed", "retry"} :
            /\ pc = "retry" => worker[w].mode = "deterministic"
            /\ worker' = [worker EXCEPT ![w].pc = pc, ![w].send = FALSE]
    /\ UNCHANGED <<candidateVars, runVars, now, crashes, sent, ingested>>

\* The pending candidate of a content, or an id that was never used.
Target(content) ==
    IF \E c \in Candidates : Pending(c) /\ candidate[c].content = content
    THEN CHOOSE c \in Candidates : Pending(c) /\ candidate[c].content = content
    ELSE CHOOSE c \in Candidates : candidate[c].status = "unborn"

\* The candidates and evidence of a batch: new ones, or more evidence for pending ones.
Ingest(batch) ==
    /\ candidate' = [c \in Candidates |->
         IF ~Pending(c) /\ \E x \in DOMAIN batch : Target(x) = c
         THEN Proposed(CHOOSE x \in DOMAIN batch : Target(x) = c, "conversation")
         ELSE candidate[c]]
    /\ evidence' = evidence \cup UNION {{Target(x)} \X batch[x] : x \in DOMAIN batch}
    /\ UNCHANGED <<message, memory, due, scan>>

\* Bound: there are ids for the new candidates of a batch, and never two for one id.
Fits(batch) ==
    LET new == {x \in DOMAIN batch : \A c \in Candidates : ~(Pending(c) /\ candidate[c].content = x)}
    IN  Cardinality(new) <= 1
        /\ (new # {} => \E c \in Candidates : candidate[c].status = "unborn")

\* validate_snapshot_commitment
CommitmentHolds(w) ==
    /\ run[worker[w].revision].snapshot = worker[w].messages
    /\ worker[w].messages \subseteq message

\* finalize_candidate_extraction_atomic.  A refusal, a batch classify_batch rejects
\* included, leaves the run as it is, to its lease.
FinalizeRun(w) ==
    /\ worker[w].pc = "batch"
    /\ LET r == worker[w].revision
           ready == /\ Fenced(w)
                    /\ run[r].expires - now >= MinRemaining
                    /\ CommitmentHolds(w)
       IN  \/ /\ ready /\ Fits(worker[w].batch)
              /\ Ingest(worker[w].batch)
              /\ run' = [run EXCEPT ![r] = Over(@, "completed")]
              /\ ingested' = [ingested EXCEPT ![r] = @ + 1]
           \/ UNCHANGED <<candidateVars, run, ingested>>
    /\ Rest(w)
    /\ UNCHANGED <<revision, exists, born, answer, claims, now, crashes, sent>>

\* fail_candidate_extraction_attempt
FailRun(w) ==
    /\ worker[w].pc \in {"failed", "retry"}
    /\ LET r == worker[w].revision
       IN  run' = [run EXCEPT ![r] =
             CASE ~Fenced(w) -> @
               [] Fenced(w) /\ worker[w].pc = "retry" /\ worker[w].attempt < MaxAttempts ->
                    [@ EXCEPT !.status = "retry_wait", !.token = 0, !.expires = 0,
                              !.next = now + RetryDelay]
               [] OTHER -> Over(@, "failed")]
    /\ Rest(w)
    /\ UNCHANGED <<candidateVars, revision, exists, born, answer, claims, now, crashes, sent, ingested>>

\* The process dies; the run keeps its lease.
Crash(w) ==
    /\ worker[w].pc # "idle" /\ crashes < MaxCrashes
    /\ crashes' = crashes + 1
    /\ Rest(w)
    /\ UNCHANGED <<candidateVars, runVars, now, sent, ingested>>

-----------------------------------------------------------------------------
(* The conversation *)

\* append_turn: a user message and its answer, one revision further.
AppendTurn(m) ==
    /\ exists /\ m \notin born /\ revision < MaxRuns
    /\ born' = born \cup {m}
    /\ message' = message \cup {m} /\ answer' = answer \cup {m}
    /\ revision' = revision + 1
    /\ UNCHANGED <<candidate, evidence, memory, due, scan, exists, run, claims, worker, now,
                   crashes, sent, ingested>>

\* invalidate_snapshots_for_deleted_user_message
Invalidated(m) ==
    [r \in Revisions |->
       IF run[r].status \in {"processing", "retry_wait"} /\ m \in run[r].snapshot
       THEN Over(run[r], "snapshot_invalidated") ELSE run[r]]

\* delete_conversation_message_governed, of a user message: its evidence goes, and the
\* candidates that rested on it alone.  Its answer stays.
DeleteMessage(m) ==
    /\ exists /\ m \in message /\ revision < MaxRuns
    /\ DeleteSources({m})
    /\ run' = Invalidated(m)
    /\ revision' = revision + 1
    /\ UNCHANGED <<exists, born, answer, claims, worker, now, crashes, sent, ingested>>

\* The same of an answer: runs that selected the user message of its turn, if that is
\* still there, are invalidated too, but the message, its evidence and the candidates stay.
DeleteAnswer(m) ==
    /\ exists /\ m \in answer /\ revision < MaxRuns
    /\ answer' = answer \ {m}
    /\ run' = IF m \in message THEN Invalidated(m) ELSE run
    /\ revision' = revision + 1
    /\ UNCHANGED <<candidateVars, exists, born, claims, worker, now, crashes, sent, ingested>>

\* delete_conversation: messages, runs and snapshots cascade
DeleteConversation ==
    /\ exists
    /\ exists' = FALSE /\ answer' = {}
    /\ DeleteSources(message)
    /\ run' = [r \in Revisions |-> NoRun]
    /\ UNCHANGED <<revision, born, claims, worker, now, crashes, sent, ingested>>

Tick ==
    /\ now < MaxTime
    /\ now' = now + 1
    /\ UNCHANGED <<candidateVars, runVars, worker, crashes, sent, ingested>>

AttemptStep(w) ==
    \/ Start(w)
    \/ \E r \in Revisions : TakeOver(w, r)
    \/ NothingToTakeOver(w)
    \/ Reload(w)
    \/ Extract(w)
    \/ ExtractorReturns(w)
    \/ FinalizeRun(w)
    \/ FailRun(w)

ExtractionNext ==
    \/ \E w \in Workers : Trigger(w) \/ AttemptStep(w) \/ RenewLease(w) \/ RecoverExpired(w)
                          \/ Crash(w) \/ \E r \in Revisions : ClaimDueRetry(w, r)
    \/ \E m \in Messages : AppendTurn(m) \/ DeleteMessage(m) \/ DeleteAnswer(m)
    \/ DeleteConversation
    \/ Tick
    \/ ReviewStep /\ UNCHANGED extractVars

ExtractionSpec == ExtractionInit /\ [][ExtractionNext]_extractionVars

-----------------------------------------------------------------------------
(* Properties *)

\* Types, and what a run of each status holds: a token and a snapshot exactly while an
\* attempt may use them.
ExtractionTypeOK ==
    /\ CandidateTypes
    /\ revision \in Revisions /\ message \subseteq born /\ answer \subseteq born
    /\ \A r \in Revisions :
         /\ run[r].attempt \in 0..MaxAttempts
         /\ (run[r].token # 0) <=> (run[r].status = "processing")
         /\ (run[r].snapshot # {}) <=> (run[r].status \in {"processing", "retry_wait"})
         /\ (run[r].status = "none") => run[r] = NoRun
    /\ \A w \in Workers : worker[w].revision \in Revisions /\ worker[w].token <= claims

\* "Recovery must never replay it": whatever crashes, expires or is taken over, at most
\* one request goes to the provider for a run.
NeverSentTwice == \A r \in Revisions : sent[r] <= 1

\* Candidates of a run are committed at most once, together with its completion: an
\* attempt that was taken over cannot add its batch to that of its successor.
IngestedOnce ==
    \A r \in Revisions :
        /\ ingested[r] <= 1
        /\ exists => ((ingested[r] = 1) <=> (run[r].status = "completed"))

\* Every pending candidate of the conversation rests on a message that is still there:
\* no deletion, however it races with an extraction, leaves one behind or lets one appear.
NothingFromDeletedMessages ==
    /\ \A e \in evidence : e[2] \in message /\ Pending(e[1])
    /\ \A c \in Candidates : Pending(c) /\ candidate[c].source = "conversation" => EvidenceOf(c) # {}

\* A run that is over stays so, attempts only go up, and a token is never used again.
RunsOnlyAdvance ==
    [][\A r \in Revisions :
         /\ run[r].status \in Terminal => run'[r] = run[r] \/ ~exists'
         /\ exists' => run'[r].attempt >= run[r].attempt
         /\ run'[r].token \notin {0, run[r].token} => run'[r].token > claims]_extractionVars

\* What CurrentRunEnds assumes of the user: the button that triggers an extraction is
\* pressed again, whenever no command runs.
ExtractionIsTriggered == WF_extractionVars(\E w \in Workers : Trigger(w))

\* Once processes stop dying, an LLM run of the current revision does not stay in
\* processing for ever, although the one that sent its request died: a later trigger
\* closes it, if the user asks for one.  (The lease must end within the bound on the
\* clock, and a new turn moves the revision on, away from the run.)
CurrentRunEnds ==
    ExtractionIsTriggered =>
      \A r \in Revisions :
        (/\ run[r].status = "processing" /\ run[r].extractor = "llm"
         /\ run[r].expires <= MaxTime /\ crashes = MaxCrashes) ~>
        (run[r].status # "processing" \/ revision # r)

\* Takeovers, expired leases and deletions leave neither a second request, nor a
\* second batch, nor a candidate without its message.
ExtractionSafe ==
    /\ ExtractionTypeOK /\ TablesAgree /\ NeverSentTwice /\ IngestedOnce
    /\ NothingFromDeletedMessages
==============================================================================
