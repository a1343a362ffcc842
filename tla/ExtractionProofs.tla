-------------------------- MODULE ExtractionProofs ---------------------------
(***************************************************************************)
(* Extraction for any messages, revisions, contents, candidates, workers   *)
(* and bounds: however attempts are taken over, retried, invalidated or    *)
(* killed, the request of a run is sent at most once, its batch is         *)
(* ingested at most once and exactly when the run completes, and every     *)
(* pending candidate of the conversation has evidence.  Runs only advance. *)
(***************************************************************************)
EXTENDS CandidateExtraction, CandidateProofs

RunStatuses == {"none", "processing", "retry_wait"} \cup Terminal
Extractors == {"none", "deterministic", "llm"}

RunRow ==
    [status : RunStatuses, extractor : Extractors, attempt : 0..MaxAttempts, token : Nat,
     expires : Nat, next : Nat, snapshot : SUBSET Messages]

\* A batch as an extractor returns it, for the messages of a request.
AllBatches == UNION {[S -> SUBSET Messages] : S \in SUBSET Contents}

WorkerPcs == {"idle", "start", "take_over", "reload", "extract", "extracting", "batch", "failed", "retry"}

WorkerRow ==
    [pc : WorkerPcs, revision : Revisions, mode : Extractors, token : Nat, attempt : Nat,
     messages : SUBSET Messages, send : BOOLEAN, batch : {{}} \cup AllBatches]

ExtractionTyped ==
    /\ revision \in Revisions /\ exists \in BOOLEAN
    /\ message \subseteq born /\ answer \subseteq born /\ born \subseteq Messages
    /\ run \in [Revisions -> RunRow] /\ worker \in [Workers -> WorkerRow]
    /\ claims \in Nat /\ now \in Nat /\ crashes \in Nat
    /\ sent \in [Revisions -> Nat] /\ ingested \in [Revisions -> Nat]

Unfinished == {"processing", "retry_wait"}

\* A run has a token while it is processed, the messages it was made from until it is over,
\* and is still without a row while nothing was claimed for its revision.  Only a
\* deterministic run waits for a retry.
RunsSound ==
    \A r \in Revisions :
        /\ (run[r].token # 0) <=> (run[r].status = "processing")
        /\ run[r].token <= claims
        /\ (run[r].snapshot # {}) <=> (run[r].status \in Unfinished)
        /\ run[r].snapshot \subseteq message
        /\ run[r].status = "none" => run[r] = NoRun
        /\ run[r].status = "retry_wait" => run[r].extractor = "deterministic"
        /\ ~exists => run[r] = NoRun

AtWork(w) == worker[w].pc \notin {"idle", "start", "take_over"}

\* The attempt a worker is at is one that was claimed for its run and its extractor, and
\* a batch it holds is of messages of its request.
WorkersSound ==
    \A w \in Workers :
        /\ worker[w].token <= claims
        /\ (worker[w].token # 0) <=> AtWork(w)
        /\ AtWork(w) /\ run[worker[w].revision].token = worker[w].token =>
             run[worker[w].revision].extractor = worker[w].mode
        /\ worker[w].pc = "retry" => worker[w].mode = "deterministic"
        /\ worker[w].pc = "batch" => worker[w].batch \in Batches(worker[w].messages)

\* The worker that may still send the request of run r.
MaySendFor(w, r) ==
    /\ worker[w].pc \in {"reload", "extract"} /\ worker[w].send
    /\ worker[w].mode = "llm" /\ worker[w].revision = r

\* Sent, or to be sent by one worker; a run that is not there yet has neither.
SendingSound ==
    \A r \in Revisions :
        /\ sent[r] <= 1
        /\ exists /\ run[r].status = "none" => sent[r] = 0
        /\ \A w \in Workers : MaySendFor(w, r) =>
             /\ sent[r] = 0
             /\ exists => run[r].status # "none"
             /\ \A v \in Workers : MaySendFor(v, r) => v = w

IngestingSound ==
    \A r \in Revisions :
        /\ ingested[r] <= 1
        /\ exists => ((ingested[r] = 1) <=> (run[r].status = "completed"))

\* A pending candidate of the conversation has evidence.
EvidenceSound ==
    \A c \in Candidates : Pending(c) /\ candidate[c].source = "conversation" => EvidenceOf(c) # {}

ExtractionInv ==
    /\ CandidatesSound /\ ExtractionTyped /\ RunsSound /\ WorkersSound
    /\ SendingSound /\ IngestingSound /\ EvidenceSound

-----------------------------------------------------------------------------
(* One run and one worker *)

\* The next row x of run r: it is there, keeps its token or loses it or gets a new one, and
\* changes its extractor only when it appears.
RowNext(r, x) ==
    /\ x \in RunRow /\ x.status # "none" /\ exists
    /\ (x.token # 0) <=> (x.status = "processing")
    /\ (x.snapshot # {}) <=> (x.status \in Unfinished)
    /\ x.snapshot \subseteq message
    /\ x.status = "retry_wait" => x.extractor = "deterministic"
    /\ x.token \in {0, run[r].token} \/ (x.token = claims + 1 /\ claims' = claims + 1)
    /\ run[r].status # "none" => x.extractor = run[r].extractor

\* The next record y of worker w: an attempt that was claimed for its run, and permission to
\* send only where w had it, or for a run that has just appeared.
WorkerNext(w, y) ==
    /\ y \in WorkerRow /\ y.token <= claims'
    /\ (y.token # 0) <=> (y.pc \notin {"idle", "start", "take_over"})
    /\ y.token # 0 /\ run'[y.revision].token = y.token => run'[y.revision].extractor = y.mode
    /\ y.pc = "retry" => y.mode = "deterministic"
    /\ y.pc = "batch" => y.batch \in Batches(y.messages)
    /\ y.pc \in {"reload", "extract"} /\ y.send /\ y.mode = "llm" =>
         \/ MaySendFor(w, y.revision)
         \/ exists /\ run[y.revision].status = "none" /\ run'[y.revision].status # "none"

\* A request is sent by the worker that may, and it may not again.
SendNext(w, y) ==
    \/ sent' = sent
    \/ \E q \in Revisions : /\ MaySendFor(w, q) /\ y.pc \notin {"reload", "extract"}
                            /\ sent' = [sent EXCEPT ![q] = @ + 1]

IngestNext(r, x) ==
    \/ ingested' = ingested /\ (x.status = "completed" <=> run[r].status = "completed")
    \/ /\ ingested' = [ingested EXCEPT ![r] = @ + 1]
       /\ exists /\ x.status = "completed" /\ run[r].status # "completed"

\* What one worker does to one run.
LEMMA AttemptChange ==
  ASSUME ExtractionInv, NEW r \in Revisions, NEW x, NEW w \in Workers, NEW y,
         UNCHANGED <<revision, exists, born, answer, message>>, claims' \in {claims, claims + 1},
         now' \in Nat, crashes' \in Nat,
         run' = [run EXCEPT ![r] = x], worker' = [worker EXCEPT ![w] = y],
         x = run[r] \/ RowNext(r, x), WorkerNext(w, y), SendNext(w, y), IngestNext(r, x)
  PROVE  ExtractionTyped' /\ RunsSound' /\ WorkersSound' /\ SendingSound' /\ IngestingSound'
<1>1. /\ run \in [Revisions -> RunRow] /\ worker \in [Workers -> WorkerRow] /\ claims \in Nat
      /\ sent \in [Revisions -> Nat] /\ ingested \in [Revisions -> Nat]
  BY DEF ExtractionInv, ExtractionTyped
<1>2. /\ run'[r] = x /\ \A q \in Revisions \ {r} : run'[q] = run[q]
      /\ worker'[w] = y /\ \A v \in Workers \ {w} : worker'[v] = worker[v]
  BY <1>1
<1>3. /\ \A q \in Revisions : run[q].token \in Nat /\ run[q].token <= claims
      /\ \A v \in Workers : worker[v].token \in Nat /\ worker[v].token <= claims
      /\ \A v \in Workers : worker[v].revision \in Revisions
  BY <1>1 DEF ExtractionInv, RunsSound, WorkersSound, RunRow, WorkerRow
<1>8. /\ \A q \in Revisions : run[q].token <= claims' /\ run[q].token # claims + 1
      /\ \A v \in Workers : worker[v].token <= claims' /\ worker[v].token # claims + 1
      /\ claims' \in Nat
  <2>1. \A n \in Nat : n <= claims => n <= claims' /\ n # claims + 1
    <3>1. CASE claims' = claims
      BY <1>1, <3>1
    <3>2. CASE claims' = claims + 1
      BY <1>1, <3>2
    <3> QED
      BY <3>1, <3>2
  <2>2. claims' \in Nat
    BY <1>1
  <2> QED
    BY <1>3, <2>1, <2>2
<1>4. RunsSound'
  <2>1. \A q \in Revisions \ {r} :
          /\ (run'[q].token # 0) <=> (run'[q].status = "processing")
          /\ run'[q].token <= claims'
          /\ (run'[q].snapshot # {}) <=> (run'[q].status \in Unfinished)
          /\ run'[q].snapshot \subseteq message'
          /\ run'[q].status = "none" => run'[q] = NoRun
          /\ run'[q].status = "retry_wait" => run'[q].extractor = "deterministic"
          /\ ~exists' => run'[q] = NoRun
    <3> QED
      BY <1>2, <1>8 DEF ExtractionInv, RunsSound
  <2>2. CASE x = run[r]
    <3>1. /\ (x.token # 0) <=> (x.status = "processing")
          /\ x.token <= claims'
          /\ (x.snapshot # {}) <=> (x.status \in Unfinished)
          /\ x.snapshot \subseteq message'
          /\ x.status = "none" => x = NoRun
          /\ x.status = "retry_wait" => x.extractor = "deterministic"
          /\ ~exists' => x = NoRun
      BY <1>8, <2>2 DEF ExtractionInv, RunsSound
    <3> QED
      BY <1>2, <2>1, <3>1 DEF RunsSound
  <2>3. CASE RowNext(r, x)
    <3>1. x.token <= claims'
      <4>1. CASE x.token = 0
        BY <1>8, <4>1
      <4>2. CASE x.token = run[r].token
        BY <1>8, <4>2
      <4>3. CASE x.token = claims + 1 /\ claims' = claims + 1
        BY <1>8, <4>3
      <4> QED
        BY <2>3, <4>1, <4>2, <4>3 DEF RowNext
    <3> QED
      BY <1>2, <2>1, <2>3, <3>1 DEF RunsSound, RowNext
  <2> QED
    BY <2>2, <2>3
<1>5. WorkersSound'
  <2> SUFFICES ASSUME NEW v \in Workers
               PROVE  /\ worker'[v].token <= claims'
                      /\ (worker'[v].token # 0) <=> AtWork(v)'
                      /\ AtWork(v)' /\ run'[worker'[v].revision].token = worker'[v].token =>
                           run'[worker'[v].revision].extractor = worker'[v].mode
                      /\ worker'[v].pc = "retry" => worker'[v].mode = "deterministic"
                      /\ worker'[v].pc = "batch" => worker'[v].batch \in Batches(worker'[v].messages)
    BY DEF WorkersSound, Batches
  <2>1. CASE v = w
    BY <1>2, <2>1 DEF WorkerNext, AtWork
  <2>2. CASE v # w
    <3>1. worker'[v] = worker[v] /\ worker[v].token <= claims'
      BY <1>2, <1>8, <2>2
    <3>2. AtWork(v) /\ run'[worker[v].revision].token = worker[v].token =>
            run'[worker[v].revision].extractor = worker[v].mode
      <4> SUFFICES ASSUME AtWork(v), run'[worker[v].revision].token = worker[v].token
                   PROVE  run'[worker[v].revision].extractor = worker[v].mode
        OBVIOUS
      <4>1. worker[v].token # 0
        BY DEF ExtractionInv, WorkersSound
      <4>2. CASE worker[v].revision # r \/ x = run[r]
        BY <1>2, <1>3, <4>2 DEF ExtractionInv, WorkersSound
      <4>3. CASE worker[v].revision = r /\ RowNext(r, x)
        <5>1. x.token = run[r].token
          BY <1>2, <1>8, <4>1, <4>3 DEF RowNext
        <5>2. run[r].status # "none"
          BY <1>2, <4>1, <4>3, <5>1 DEF ExtractionInv, RunsSound
        <5> QED
          BY <1>2, <4>3, <5>1, <5>2 DEF RowNext, ExtractionInv, WorkersSound
      <4> QED
        BY <4>2, <4>3
    <3> QED
      BY <3>1, <3>2 DEF ExtractionInv, WorkersSound, AtWork
  <2> QED
    BY <2>1, <2>2
<1>6. SendingSound'
  <2>1. \A v \in Workers, q \in Revisions : v # w => (MaySendFor(v, q)' <=> MaySendFor(v, q))
    BY <1>2 DEF MaySendFor
  <2>2. \A q \in Revisions : MaySendFor(w, q)' =>
          MaySendFor(w, q) \/ (exists /\ run[q].status = "none" /\ run'[q].status # "none")
    BY <1>2 DEF MaySendFor, WorkerNext
  <2>3. \A q \in Revisions : run'[q].status = "none" => run[q].status = "none"
    BY <1>2 DEF RowNext
  <2>4. \A q \in Revisions : exists /\ run[q].status = "none" =>
          sent[q] = 0 /\ \A v \in Workers : ~MaySendFor(v, q)
    BY DEF ExtractionInv, SendingSound
  <2>5. CASE sent' = sent
    <3>1. \A q \in Revisions : sent'[q] <= 1 /\ (exists' /\ run'[q].status = "none" => sent'[q] = 0)
      BY <2>3, <2>5 DEF ExtractionInv, SendingSound
    <3>2. ASSUME NEW q \in Revisions, NEW u \in Workers, MaySendFor(u, q)'
          PROVE  /\ sent'[q] = 0
                 /\ exists' => run'[q].status # "none"
                 /\ \A v \in Workers : MaySendFor(v, q)' => v = u
      <4>1. CASE MaySendFor(u, q)
        <5>1. sent[q] = 0 /\ (exists => run[q].status # "none") /\ \A v \in Workers : MaySendFor(v, q) => v = u
          BY <4>1 DEF ExtractionInv, SendingSound
        <5>2. \A v \in Workers : MaySendFor(v, q)' => MaySendFor(v, q)
          BY <2>1, <2>2, <2>4, <4>1
        <5> QED
          BY <2>3, <2>5, <5>1, <5>2
      <4>2. CASE ~MaySendFor(u, q)
        <5>1. u = w /\ exists /\ run[q].status = "none" /\ run'[q].status # "none"
          BY <2>1, <2>2, <3>2, <4>2
        <5> QED
          BY <2>1, <2>4, <2>5, <5>1
      <4> QED
        BY <4>1, <4>2
    <3> HIDE DEF MaySendFor
    <3> QED
      BY <3>1, <3>2 DEF SendingSound
  <2>6. ASSUME NEW p \in Revisions, MaySendFor(w, p), y.pc \notin {"reload", "extract"},
               sent' = [sent EXCEPT ![p] = @ + 1]
        PROVE  SendingSound'
    <3>1. sent[p] = 0 /\ (exists => run[p].status # "none") /\ \A v \in Workers : MaySendFor(v, p) => v = w
      BY <2>6 DEF ExtractionInv, SendingSound
    <3>2. sent'[p] = 1 /\ \A q \in Revisions \ {p} : sent'[q] = sent[q]
      BY <1>1, <2>6, <3>1
    <3>3. \A q \in Revisions : ~MaySendFor(w, q)'
      BY <1>2, <2>6 DEF MaySendFor
    <3>4. \A q \in Revisions : sent'[q] <= 1 /\ (exists' /\ run'[q].status = "none" => sent'[q] = 0)
      BY <2>3, <3>1, <3>2 DEF ExtractionInv, SendingSound
    <3>5. \A q \in Revisions : \A u \in Workers : MaySendFor(u, q)' =>
            /\ sent'[q] = 0
            /\ exists' => run'[q].status # "none"
            /\ \A v \in Workers : MaySendFor(v, q)' => v = u
      BY <2>1, <2>3, <3>1, <3>2, <3>3 DEF ExtractionInv, SendingSound
    <3> QED
      BY <3>4, <3>5 DEF SendingSound
  <2> QED
    BY <2>5, <2>6 DEF SendNext
<1>7. IngestingSound'
  <2>1. \A q \in Revisions : ingested[q] <= 1 /\ (exists => ((ingested[q] = 1) <=> (run[q].status = "completed")))
    BY DEF ExtractionInv, IngestingSound
  <2>2. CASE ingested' = ingested /\ (x.status = "completed" <=> run[r].status = "completed")
    BY <1>2, <2>1, <2>2 DEF IngestingSound
  <2>3. CASE /\ ingested' = [ingested EXCEPT ![r] = @ + 1]
             /\ exists /\ x.status = "completed" /\ run[r].status # "completed"
    <3>1. ingested[r] = 0
      BY <1>1, <2>1, <2>3
    <3>2. ingested'[r] = 1 /\ \A q \in Revisions \ {r} : ingested'[q] = ingested[q]
      BY <1>1, <2>3, <3>1
    <3> QED
      BY <1>2, <2>1, <2>3, <3>2 DEF IngestingSound
  <2> QED
    BY <2>2, <2>3 DEF IngestNext
<1>9. ExtractionTyped'
  <2>1. x \in RunRow /\ y \in WorkerRow
    BY <1>1 DEF RowNext, WorkerNext
  <2>2. sent' \in [Revisions -> Nat] /\ ingested' \in [Revisions -> Nat]
    BY <1>1 DEF SendNext, IngestNext
  <2> QED
    BY <1>1, <1>8, <2>1, <2>2 DEF ExtractionInv, ExtractionTyped
<1> QED
  BY <1>4, <1>5, <1>6, <1>7, <1>9

-----------------------------------------------------------------------------
(* The attempts *)

AttemptsSound == ExtractionTyped /\ RunsSound /\ WorkersSound /\ SendingSound /\ IngestingSound

\* What is still the same when a worker only goes on.
StillTheSame ==
    /\ UNCHANGED <<revision, exists, born, answer, message>>
    /\ now' = now /\ crashes' \in Nat

\* The fields of runs and of workers.
LEMMA TypesOfRows ==
  ASSUME ExtractionInv
  PROVE  /\ run \in [Revisions -> RunRow] /\ worker \in [Workers -> WorkerRow] /\ claims \in Nat /\ now \in Nat
         /\ revision \in Revisions /\ exists \in BOOLEAN /\ crashes \in Nat
         /\ \A r \in Revisions : run[r] \in RunRow /\ run[r].attempt \in 0..MaxAttempts /\ run[r].token \in Nat
         /\ \A w \in Workers : worker[w] \in WorkerRow /\ worker[w].revision \in Revisions
         /\ {LeaseTtl, MinRemaining, RetryDelay, MaxAttempts, Permits, MaxRuns} \subseteq Nat \ {0}
         /\ Resting \in WorkerRow
<1>1. run \in [Revisions -> RunRow] /\ worker \in [Workers -> WorkerRow]
  BY DEF ExtractionInv, ExtractionTyped
<1>2. 0 \in Revisions
  BY ExtractionAssumption DEF Revisions
<1>3. Resting \in WorkerRow
  BY <1>2 DEF Resting, WorkerRow, WorkerPcs, Extractors
<1>4. \A r \in Revisions : run[r].attempt \in 0..MaxAttempts /\ run[r].token \in Nat
  BY <1>1 DEF RunRow
<1>5. \A w \in Workers : worker[w].revision \in Revisions
  BY <1>1 DEF WorkerRow
<1> QED
  BY <1>1, <1>3, <1>4, <1>5, ExtractionAssumption DEF ExtractionInv, ExtractionTyped

\* A worker that only goes on from where it is, without a permission it had not.
LEMMA WorkerGoesOn ==
  ASSUME ExtractionInv, NEW w \in Workers, NEW y \in WorkerRow, StillTheSame,
         UNCHANGED <<run, claims, ingested>>, worker' = [worker EXCEPT ![w] = y], SendNext(w, y),
         y.token = 0 \/ (y.token = worker[w].token /\ y.revision = worker[w].revision /\ y.mode = worker[w].mode),
         (y.token # 0) <=> (y.pc \notin {"idle", "start", "take_over"}),
         y.pc = "retry" => y.mode = "deterministic",
         y.pc = "batch" => y.batch \in Batches(y.messages),
         y.pc \in {"reload", "extract"} /\ y.send => worker[w].pc \in {"reload", "extract"} /\ worker[w].send
  PROVE  AttemptsSound'
<1>1. PICK r \in Revisions : r = worker[w].revision
  BY TypesOfRows
<1>2. run' = [run EXCEPT ![r] = run[r]]
  BY TypesOfRows
<1>3. y.token \in Nat /\ y.token <= claims
  <2>1. worker[w].token <= claims /\ worker[w].token \in Nat /\ claims \in Nat
    BY TypesOfRows DEF ExtractionInv, WorkersSound, WorkerRow
  <2> QED
    BY <2>1
<1>4. WorkerNext(w, y)
  <2>1. y.token # 0 /\ run'[y.revision].token = y.token => run'[y.revision].extractor = y.mode
    BY DEF ExtractionInv, WorkersSound, AtWork
  <2>2. y.pc \in {"reload", "extract"} /\ y.send /\ y.mode = "llm" => MaySendFor(w, y.revision)
    BY DEF MaySendFor
  <2> QED
    BY <1>3, <2>1, <2>2 DEF WorkerNext
<1>5. claims' \in {claims, claims + 1} /\ now' \in Nat /\ crashes' \in Nat
  BY TypesOfRows DEF StillTheSame
<1>6. IngestNext(r, run[r])
  BY DEF IngestNext
<1> QED
  BY <1>2, <1>4, <1>5, <1>6, AttemptChange DEF StillTheSame, AttemptsSound

\* A run changes, without a claim, and the worker ends or stays as it is.
LEMMA RunGoesOn ==
  ASSUME ExtractionInv, NEW r \in Revisions, NEW x, NEW w \in Workers, StillTheSame,
         run' = [run EXCEPT ![r] = x], RowNext(r, x), IngestNext(r, x), UNCHANGED <<claims, sent>>,
         x.token \in {0, run[r].token},
         worker' = worker \/ Rest(w)
  PROVE  AttemptsSound'
<1>1. PICK y : /\ worker' = [worker EXCEPT ![w] = y]
               /\ y = IF worker' = worker THEN worker[w] ELSE Resting
  BY TypesOfRows DEF Rest
<1>2. y \in WorkerRow
  BY <1>1, TypesOfRows
<1>3. WorkerNext(w, y)
  <2>1. CASE y = Resting
    BY <1>2, <2>1, TypesOfRows DEF WorkerNext, Resting
  <2>2. CASE y = worker[w]
    <3>1. y.token # 0 /\ run'[y.revision].token = y.token => run'[y.revision].extractor = y.mode
      <4> SUFFICES ASSUME y.token # 0, run'[y.revision].token = y.token
                   PROVE  run'[y.revision].extractor = y.mode
        OBVIOUS
      <4>1. AtWork(w) /\ y.revision \in Revisions
        BY <2>2, TypesOfRows DEF ExtractionInv, WorkersSound
      <4>2. run[y.revision].token = y.token
        BY <4>1, TypesOfRows
      <4>3. run[y.revision].extractor = y.mode /\ run[y.revision].status # "none"
        BY <2>2, <4>1, <4>2 DEF ExtractionInv, WorkersSound, RunsSound
      <4> QED
        BY <4>1, <4>3, TypesOfRows DEF RowNext
    <3>2. y.pc \in {"reload", "extract"} /\ y.send /\ y.mode = "llm" => MaySendFor(w, y.revision)
      BY <2>2 DEF MaySendFor
    <3> QED
      BY <1>2, <2>2, <3>1, <3>2 DEF WorkerNext, ExtractionInv, WorkersSound, AtWork
  <2> QED
    BY <1>1, <2>1, <2>2
<1>4. SendNext(w, y)
  BY DEF SendNext
<1>5. claims' \in {claims, claims + 1} /\ now' \in Nat /\ crashes' \in Nat
  BY TypesOfRows DEF StillTheSame
<1> QED
  BY <1>1, <1>3, <1>4, <1>5, AttemptChange DEF StillTheSame, AttemptsSound

\* A claimed row.
LEMMA ClaimedRow ==
  ASSUME ExtractionInv, NEW row \in RunRow, row.attempt < MaxAttempts
  PROVE  /\ Claimed(row) \in RunRow /\ Claimed(row).status = "processing" /\ Claimed(row).token = claims + 1
         /\ Claimed(row).snapshot = row.snapshot /\ Claimed(row).extractor = row.extractor
<1>1. row.attempt + 1 \in 0..MaxAttempts /\ claims + 1 \in Nat /\ now + LeaseTtl \in Nat
  BY TypesOfRows DEF RunRow
<1> QED
  BY <1>1 DEF Claimed, RunRow, RunStatuses

\* A run is claimed, and the worker takes the attempt.
LEMMA ClaimKeeps ==
  ASSUME ExtractionInv, NEW r \in Revisions, NEW x \in RunRow, NEW w \in Workers,
         NEW send \in BOOLEAN, StillTheSame, exists,
         run' = [run EXCEPT ![r] = x], claims' = claims + 1,
         Take(w, r, x.extractor, send), UNCHANGED <<sent, ingested>>,
         x.status = "processing", x.token = claims + 1, x.snapshot # {}, x.snapshot \subseteq message,
         run[r].status \notin Terminal,
         run[r].status # "none" => x.extractor = run[r].extractor,
         x.extractor = "llm" /\ run[r].status # "none" => send = FALSE
  PROVE  AttemptsSound'
<1>3. RowNext(r, x)
  BY TypesOfRows DEF RowNext, Unfinished
<1>4. PICK y : y = [Resting EXCEPT !.pc = "reload", !.revision = r, !.mode = x.extractor, !.token = claims + 1,
                       !.attempt = run'[r].attempt, !.messages = run'[r].snapshot, !.send = send]
  OBVIOUS
<1>5. run'[r] = x
  BY TypesOfRows
<1>6. /\ y \in WorkerRow /\ y.pc = "reload" /\ y.revision = r /\ y.mode = x.extractor
      /\ y.token = claims + 1 /\ y.send = send
  <2>1. x.attempt \in Nat /\ x.snapshot \subseteq Messages /\ x.extractor \in Extractors /\ claims + 1 \in Nat
    BY TypesOfRows DEF RunRow
  <2> QED
    BY <1>4, <1>5, <2>1, TypesOfRows DEF WorkerRow, WorkerPcs, Resting
<1>7. WorkerNext(w, y)
  BY <1>5, <1>6, TypesOfRows DEF WorkerNext
<1>8. SendNext(w, y) /\ IngestNext(r, x)
  BY TypesOfRows DEF SendNext, IngestNext, Terminal
<1>9. worker' = [worker EXCEPT ![w] = y]
  BY <1>4 DEF Take
<1>10. claims' \in {claims, claims + 1} /\ now' \in Nat /\ crashes' \in Nat
  BY TypesOfRows DEF StillTheSame
<1> QED
  BY <1>3, <1>7, <1>8, <1>9, <1>10, AttemptChange DEF StillTheSame, AttemptsSound

\* A run that is over.
LEMMA OverRow ==
  ASSUME ExtractionInv, NEW r \in Revisions, run[r].status \in Unfinished, NEW status \in Terminal
  PROVE  /\ RowNext(r, Over(run[r], status)) /\ Over(run[r], status).token = 0
         /\ Over(run[r], status).status = status
<1>1. run[r] \in RunRow
  BY TypesOfRows
<1>2. Over(run[r], status) \in RunRow
  BY <1>1 DEF Over, RunRow, RunStatuses
<1>3. exists
  BY DEF ExtractionInv, ExtractionTyped, RunsSound, NoRun, Unfinished
<1> QED
  BY <1>1, <1>2, <1>3 DEF Over, RowNext, RunRow, Terminal, Unfinished

-----------------------------------------------------------------------------
(* What a worker does *)

\* The tables as they are stay sound as long as no message goes.
LEMMA TablesStay ==
  ASSUME ExtractionInv, UNCHANGED candidateVars
  PROVE  CandidatesSound' /\ EvidenceSound'
<1>1. /\ candidate' = candidate /\ evidence' = evidence /\ message' = message
      /\ memory' = memory /\ due' = due /\ scan' = scan
  BY DEF candidateVars
<1>2. CandidatesSound'
  BY <1>1 DEF ExtractionInv, CandidatesSound, CandidateTypes, TablesAgree, Pending
<1>3. EvidenceSound'
  BY <1>1 DEF ExtractionInv, EvidenceSound, EvidenceOf, Pending
<1> QED
  BY <1>2, <1>3

\* A worker is asked for a revision.
LEMMA TriggerKeeps ==
  ASSUME ExtractionInv, NEW w \in Workers, Trigger(w) \/ RecoverExpired(w) \/ NothingToTakeOver(w) \/ Crash(w)
  PROVE  ExtractionInv'
<1>1. StillTheSame /\ UNCHANGED <<run, claims, ingested, sent>> /\ UNCHANGED candidateVars
  <2>1. UNCHANGED <<candidateVars, runVars, now, sent, ingested>> /\ crashes' \in {crashes, crashes + 1}
    BY DEF Trigger, RecoverExpired, NothingToTakeOver, Crash
  <2> QED
    BY <2>1, TypesOfRows DEF StillTheSame, runVars, candidateVars
<1>2. PICK y : /\ worker' = [worker EXCEPT ![w] = y]
               /\ \/ y = Resting
                  \/ \E pc \in {"start", "take_over"}, m \in Extractors : y = [Resting EXCEPT !.pc = pc, !.mode = m]
  <2>1. CASE Trigger(w)
    <3>1. PICK pc \in {"start", "take_over"}, m \in Extractors : worker' = [worker EXCEPT ![w] = [Resting EXCEPT !.pc = pc, !.mode = m]]
      BY <2>1, ExtractionAssumption DEF Trigger, Extractors
    <3> QED
      BY <3>1
  <2>2. CASE RecoverExpired(w)
    BY <2>2 DEF RecoverExpired, Extractors
  <2>3. CASE NothingToTakeOver(w) \/ Crash(w)
    BY <2>3 DEF NothingToTakeOver, Crash, Rest
  <2> QED
    BY <2>1, <2>2, <2>3
<1>4. /\ y \in WorkerRow /\ y.token = 0 /\ y.pc \in {"idle", "start", "take_over"}
      /\ worker' = [worker EXCEPT ![w] = y]
  <2>1. CASE y = Resting
    BY <1>2, <2>1, TypesOfRows DEF Resting
  <2>2. ASSUME NEW pc \in {"start", "take_over"}, NEW m \in Extractors, y = [Resting EXCEPT !.pc = pc, !.mode = m]
        PROVE  y \in WorkerRow /\ y.token = 0 /\ y.pc = pc
    BY <2>2, TypesOfRows DEF Resting, WorkerRow, WorkerPcs
  <2> QED
    BY <1>2, <2>1, <2>2
<1>5. SendNext(w, y)
  BY <1>1 DEF SendNext
<1>6. AttemptsSound'
  BY <1>1, <1>4, <1>5, WorkerGoesOn
<1> QED
  BY <1>1, <1>6, TablesStay DEF ExtractionInv, AttemptsSound

\* A worker starts a run that is not there yet, or finds one.
LEMMA StartKeeps ==
  ASSUME ExtractionInv, NEW w \in Workers, Start(w)
  PROVE  ExtractionInv'
<1>1. StillTheSame /\ UNCHANGED <<ingested, sent>> /\ UNCHANGED candidateVars
  BY TypesOfRows DEF Start, StillTheSame, candidateVars
<1>2. CASE exists /\ run[revision].status = "none" /\ Selectable # {}
  <2>1. PICK send \in MaySend(worker[w].mode) :
          /\ run' = [run EXCEPT ![revision] =
                           [Claimed(NoRun) EXCEPT !.extractor = worker[w].mode, !.snapshot = Selectable]]
          /\ claims' = claims + 1
          /\ Take(w, revision, worker[w].mode, send)
    BY <1>2 DEF Start
  <2>2. send \in BOOLEAN
    BY DEF MaySend
  <2>3. PICK x : x = [Claimed(NoRun) EXCEPT !.extractor = worker[w].mode, !.snapshot = Selectable]
    OBVIOUS
  <2>4. /\ x \in RunRow /\ x.status = "processing" /\ x.token = claims + 1 /\ x.snapshot = Selectable
        /\ x.extractor = worker[w].mode
    <3>1. /\ worker[w].mode \in Extractors /\ Selectable \subseteq Messages
          /\ 1 \in 0..MaxAttempts /\ claims + 1 \in Nat /\ now + LeaseTtl \in Nat
      BY TypesOfRows DEF WorkerRow, ExtractionInv, ExtractionTyped, Selectable
    <3>2. NoRun \in RunRow /\ NoRun.attempt = 0 /\ 0 < MaxAttempts
      BY TypesOfRows DEF NoRun, RunRow, RunStatuses, Extractors
    <3>3. Claimed(NoRun) \in RunRow /\ Claimed(NoRun).status = "processing" /\ Claimed(NoRun).token = claims + 1
      BY <3>2, ClaimedRow
    <3> HIDE DEF Claimed
    <3> QED
      BY <2>3, <3>1, <3>3 DEF RunRow
  <2>5. AttemptsSound'
    <3>1. /\ run' = [run EXCEPT ![revision] = x] /\ claims' = claims + 1
          /\ Take(w, revision, x.extractor, send)
      BY <2>1, <2>3, <2>4
    <3>2. x.snapshot # {} /\ x.snapshot \subseteq message
      BY <1>2, <2>4 DEF Selectable
    <3> QED
      BY <1>1, <1>2, <2>2, <2>4, <3>1, <3>2, ClaimKeeps, TypesOfRows DEF Terminal
  <2> QED
    BY <1>1, <2>5, TablesStay DEF ExtractionInv, AttemptsSound
<1>3. CASE ~(exists /\ run[revision].status = "none" /\ Selectable # {})
  <2>1. worker' = [worker EXCEPT ![w] = Resting] /\ UNCHANGED <<run, claims>>
    BY <1>3 DEF Start, Rest
  <2>2. Resting \in WorkerRow /\ Resting.token = 0 /\ Resting.pc = "idle"
    BY TypesOfRows DEF Resting
  <2>3. SendNext(w, Resting)
    BY <1>1 DEF SendNext
  <2>4. AttemptsSound'
    BY <1>1, <2>1, <2>2, <2>3, WorkerGoesOn
  <2> QED
    BY <1>1, <2>4, TablesStay DEF ExtractionInv, AttemptsSound
<1> QED
  BY <1>2, <1>3

\* A run that ends, with the worker or without it, and without a batch.
LEMMA EndsEmpty ==
  ASSUME ExtractionInv, NEW r \in Revisions, NEW w \in Workers, NEW status \in Terminal \ {"completed"},
         run[r].status \in Unfinished, run' = [run EXCEPT ![r] = Over(@, status)], StillTheSame,
         UNCHANGED <<claims, sent, ingested>>, worker' = worker \/ Rest(w)
  PROVE  AttemptsSound'
<1>1. PICK x : x = Over(run[r], status)
  OBVIOUS
<1>2. RowNext(r, x) /\ x.token = 0 /\ x.status = status /\ run' = [run EXCEPT ![r] = x]
  BY <1>1, OverRow, TypesOfRows
<1>3. IngestNext(r, x)
  BY <1>2 DEF IngestNext, Unfinished
<1> QED
  BY <1>2, <1>3, RunGoesOn

\* A worker takes over a run whose claim has expired, or ends it.
LEMMA TakeOverKeeps ==
  ASSUME ExtractionInv, NEW w \in Workers, NEW r \in Revisions, TakeOver(w, r)
  PROVE  ExtractionInv'
<1>1. StillTheSame /\ UNCHANGED <<ingested, sent>> /\ UNCHANGED candidateVars
  BY TypesOfRows DEF TakeOver, StillTheSame, candidateVars
<1>2. run[r].status = "processing" /\ run[r].extractor = worker[w].mode
  BY DEF TakeOver, Expired
<1>3. exists /\ run[r].snapshot # {}
  BY <1>2 DEF ExtractionInv, RunsSound, ExtractionTyped, NoRun, Unfinished
<1>4. AttemptsSound'
  <2>1. CASE run[r].attempt >= MaxAttempts \/ ~SnapshotHolds(r)
    <3>1. /\ \E status \in {"failed", "snapshot_invalidated"} : run' = [run EXCEPT ![r] = Over(@, status)]
          /\ Rest(w) /\ UNCHANGED claims
      BY <2>1 DEF TakeOver
    <3> QED
      BY <1>1, <1>2, <3>1, EndsEmpty DEF Terminal, Unfinished
  <2>2. CASE ~(run[r].attempt >= MaxAttempts) /\ SnapshotHolds(r)
    <3>1. /\ run' = [run EXCEPT ![r] = Claimed(@)] /\ claims' = claims + 1
          /\ Take(w, r, worker[w].mode, TakenOver(worker[w].mode))
      BY <2>2 DEF TakeOver
    <3>3. run[r].attempt < MaxAttempts
      BY <2>2, TypesOfRows
    <3>4. PICK x : x = Claimed(run[r])
      OBVIOUS
    <3>5. run' = [run EXCEPT ![r] = x]
      BY <3>1, <3>4, TypesOfRows
    <3>6. /\ x \in RunRow /\ x.status = "processing" /\ x.token = claims + 1
          /\ x.snapshot = run[r].snapshot /\ x.extractor = run[r].extractor
      BY <3>3, <3>4, ClaimedRow, TypesOfRows
    <3>7. run[r].status \notin Terminal /\ x.snapshot \subseteq message /\ x.snapshot # {}
      BY <1>2, <1>3, <2>2, <3>6 DEF Terminal, SnapshotHolds, Selectable
    <3>8. CASE worker[w].mode = "deterministic"
      <4>1. Take(w, r, x.extractor, TRUE) /\ TRUE \in BOOLEAN /\ x.extractor # "llm"
        BY <1>2, <3>1, <3>6, <3>8 DEF TakenOver, Take
      <4> QED
        BY <1>1, <1>2, <1>3, <3>1, <3>5, <3>6, <3>7, <4>1, ClaimKeeps
    <3>9. CASE worker[w].mode # "deterministic"
      <4>1. Take(w, r, x.extractor, FALSE) /\ FALSE \in BOOLEAN
        BY <1>2, <3>1, <3>6, <3>9 DEF TakenOver, Take
      <4> QED
        BY <1>1, <1>2, <1>3, <3>1, <3>5, <3>6, <3>7, <4>1, ClaimKeeps
    <3> QED
      BY <3>8, <3>9
  <2> QED
    BY <2>1, <2>2
<1> QED
  BY <1>1, <1>4, TablesStay DEF ExtractionInv, AttemptsSound

\* A worker claims a run whose retry is due.
LEMMA ClaimDueKeeps ==
  ASSUME ExtractionInv, NEW w \in Workers, NEW r \in Revisions, ClaimDueRetry(w, r)
  PROVE  ExtractionInv'
<1>1. StillTheSame /\ UNCHANGED <<ingested, sent>> /\ UNCHANGED candidateVars
  BY TypesOfRows DEF ClaimDueRetry, StillTheSame, candidateVars
<1>2. run[r].status = "retry_wait" /\ run[r].extractor = "deterministic" /\ run[r].attempt < MaxAttempts
  BY DEF ClaimDueRetry, ExtractionInv, RunsSound
<1>3. exists /\ run[r].snapshot # {}
  BY <1>2 DEF ExtractionInv, RunsSound, ExtractionTyped, NoRun, Unfinished
<1>4. AttemptsSound'
  <2>1. CASE ~SnapshotHolds(r)
    <3>1. run' = [run EXCEPT ![r] = Over(@, "snapshot_invalidated")] /\ UNCHANGED <<claims, worker>>
      BY <2>1 DEF ClaimDueRetry
    <3> QED
      BY <1>1, <1>2, <3>1, EndsEmpty DEF Terminal, Unfinished
  <2>2. CASE SnapshotHolds(r)
    <3>1. /\ run' = [run EXCEPT ![r] = Claimed(@)] /\ claims' = claims + 1
          /\ Take(w, r, run[r].extractor, TRUE)
      BY <2>2 DEF ClaimDueRetry
    <3>4. PICK x : x = Claimed(run[r])
      OBVIOUS
    <3>5. run' = [run EXCEPT ![r] = x]
      BY <3>1, <3>4, TypesOfRows
    <3>6. /\ x \in RunRow /\ x.status = "processing" /\ x.token = claims + 1
          /\ x.snapshot = run[r].snapshot /\ x.extractor = run[r].extractor
      BY <1>2, <3>4, ClaimedRow, TypesOfRows
    <3>7. /\ run[r].status \notin Terminal /\ x.snapshot \subseteq message /\ x.snapshot # {}
          /\ Take(w, r, x.extractor, TRUE) /\ TRUE \in BOOLEAN
      BY <1>2, <1>3, <2>2, <3>1, <3>6 DEF Terminal, SnapshotHolds, Selectable
    <3> QED
      BY <1>1, <1>2, <1>3, <3>1, <3>5, <3>6, <3>7, ClaimKeeps
  <2> QED
    BY <2>1, <2>2
<1> QED
  BY <1>1, <1>4, TablesStay DEF ExtractionInv, AttemptsSound

\* A worker whose fence holds has the run of its record.
LEMMA FenceHolds ==
  ASSUME ExtractionInv, NEW w \in Workers, Fenced(w), AtWork(w)
  PROVE  /\ worker[w].revision \in Revisions /\ run[worker[w].revision].status = "processing"
         /\ run[worker[w].revision].extractor = worker[w].mode /\ exists
         /\ run[worker[w].revision].token # 0
<1>1. worker[w].revision \in Revisions /\ run[worker[w].revision].status = "processing"
      /\ run[worker[w].revision].token = worker[w].token
  BY TypesOfRows DEF Fenced
<1> QED
  BY <1>1 DEF ExtractionInv, RunsSound, WorkersSound, ExtractionTyped, NoRun

\* A worker renews its claim, or finds that it was lost.
LEMMA RenewKeeps ==
  ASSUME ExtractionInv, NEW w \in Workers, RenewLease(w)
  PROVE  ExtractionInv'
<1>1. StillTheSame /\ UNCHANGED <<ingested, sent, claims, worker>> /\ UNCHANGED candidateVars
  BY TypesOfRows DEF RenewLease, StillTheSame, candidateVars
<1>2. PICK r \in Revisions : r = worker[w].revision
  BY TypesOfRows
<1>3. run[r].status = "processing" /\ exists /\ run[r].token # 0
  BY <1>2, FenceHolds DEF RenewLease, AtWork
<1>4. PICK x : x = [run[r] EXCEPT !.expires = now + LeaseTtl]
  OBVIOUS
<1>5. /\ x \in RunRow /\ x.status = "processing" /\ x.token = run[r].token /\ x.snapshot = run[r].snapshot
      /\ x.extractor = run[r].extractor
  <2>1. now + LeaseTtl \in Nat
    BY TypesOfRows
  <2> QED
    BY <1>3, <1>4, <2>1, TypesOfRows DEF RunRow
<1>6. RowNext(r, x)
  BY <1>3, <1>5 DEF RowNext, ExtractionInv, RunsSound
<1>7. IngestNext(r, x)
  BY <1>1, <1>3, <1>5 DEF IngestNext
<1>8. run' = [run EXCEPT ![r] = x]
  BY <1>2, <1>4, TypesOfRows DEF RenewLease
<1>9. AttemptsSound'
  BY <1>1, <1>5, <1>6, <1>7, <1>8, RunGoesOn
<1> QED
  BY <1>1, <1>9, TablesStay DEF ExtractionInv, AttemptsSound

\* A worker reads the messages of the run again.
LEMMA ReloadKeeps ==
  ASSUME ExtractionInv, NEW w \in Workers, Reload(w)
  PROVE  ExtractionInv'
<1>1. StillTheSame /\ UNCHANGED <<ingested, sent, claims>> /\ UNCHANGED candidateVars /\ worker[w].pc = "reload"
  BY TypesOfRows DEF Reload, StillTheSame, candidateVars
<1>2. PICK r \in Revisions : r = worker[w].revision
  BY TypesOfRows
<1>3. AttemptsSound'
  <2>1. CASE Rest(w) /\ UNCHANGED run
    <3>1. Resting \in WorkerRow /\ Resting.token = 0 /\ Resting.pc = "idle" /\ SendNext(w, Resting)
      BY <1>1, TypesOfRows DEF Resting, SendNext
    <3> QED
      BY <1>1, <2>1, <3>1, WorkerGoesOn DEF Rest
  <2>2. CASE Fenced(w) /\ run' = [run EXCEPT ![r] = Over(@, "snapshot_invalidated")] /\ Rest(w)
    <3>1. run[r].status = "processing"
      BY <1>1, <1>2, <2>2, FenceHolds DEF AtWork
    <3> QED
      BY <1>1, <2>2, <3>1, EndsEmpty DEF Terminal, Unfinished
  <2>3. CASE To(w, "extract") /\ UNCHANGED run
    <3>1. PICK y : y = [worker[w] EXCEPT !.pc = "extract"]
      OBVIOUS
    <3>2. /\ y \in WorkerRow /\ y.token = worker[w].token /\ y.revision = worker[w].revision
          /\ y.mode = worker[w].mode /\ y.pc = "extract" /\ y.send = worker[w].send
          /\ worker' = [worker EXCEPT ![w] = y]
      BY <2>3, <3>1, TypesOfRows DEF To, WorkerRow, WorkerPcs
    <3>3. y.token # 0 /\ SendNext(w, y)
      BY <1>1, <3>2 DEF ExtractionInv, WorkersSound, AtWork, SendNext
    <3> QED
      BY <1>1, <2>3, <3>2, <3>3, WorkerGoesOn
  <2> QED
    BY <1>2, <2>1, <2>2, <2>3 DEF Reload
<1> QED
  BY <1>1, <1>3, TablesStay DEF ExtractionInv, AttemptsSound

\* A worker asks the extractor: this is where the request is sent.
LEMMA ExtractKeeps ==
  ASSUME ExtractionInv, NEW w \in Workers, Extract(w)
  PROVE  ExtractionInv'
<1>1. StillTheSame /\ UNCHANGED <<ingested, claims, run>> /\ UNCHANGED candidateVars /\ worker[w].pc = "extract"
  BY TypesOfRows DEF Extract, StillTheSame, candidateVars, runVars
<1>2. worker[w].token # 0
  BY <1>1 DEF ExtractionInv, WorkersSound, AtWork
<1>3. PICK pc \in {"extracting", "failed"} : worker' = [worker EXCEPT ![w].pc = pc]
  BY DEF Extract, To
<1>4. PICK y : y = [worker[w] EXCEPT !.pc = pc]
  OBVIOUS
<1>5. /\ y \in WorkerRow /\ y.token = worker[w].token /\ y.revision = worker[w].revision
      /\ y.mode = worker[w].mode /\ y.pc = pc /\ worker' = [worker EXCEPT ![w] = y]
  BY <1>3, <1>4, TypesOfRows DEF WorkerRow, WorkerPcs
<1>6. SendNext(w, y)
  <2>1. CASE worker[w].send /\ worker[w].mode = "llm"
    <3>1. MaySendFor(w, worker[w].revision) /\ worker[w].revision \in Revisions
      BY <1>1, <2>1, TypesOfRows DEF MaySendFor
    <3>2. sent' = [sent EXCEPT ![worker[w].revision] = @ + 1]
      BY <2>1 DEF Extract
    <3> QED
      BY <1>5, <3>1, <3>2 DEF SendNext
  <2>2. CASE ~(worker[w].send /\ worker[w].mode = "llm")
    <3>1. sent' = sent
      BY <2>2 DEF Extract, ExtractionInv, ExtractionTyped
    <3> QED
      BY <3>1 DEF SendNext
  <2> QED
    BY <2>1, <2>2
<1>7. AttemptsSound'
  BY <1>1, <1>2, <1>5, <1>6, WorkerGoesOn
<1> QED
  BY <1>1, <1>7, TablesStay DEF ExtractionInv, AttemptsSound

\* The extractor returns a batch, or fails.
LEMMA ReturnsKeeps ==
  ASSUME ExtractionInv, NEW w \in Workers, ExtractorReturns(w)
  PROVE  ExtractionInv'
<1>1. /\ StillTheSame /\ UNCHANGED <<ingested, claims, run, sent>> /\ UNCHANGED candidateVars
      /\ worker[w].pc = "extracting"
  BY TypesOfRows DEF ExtractorReturns, StillTheSame, candidateVars, runVars
<1>2. worker[w].token # 0
  BY <1>1 DEF ExtractionInv, WorkersSound, AtWork
<1>3. PICK y : /\ worker' = [worker EXCEPT ![w] = y]
               /\ \/ \E b \in Batches(worker[w].messages) :
                       y = [worker[w] EXCEPT !.pc = "batch", !.batch = b, !.send = FALSE]
                  \/ \E pc \in {"failed", "retry"} :
                       /\ pc = "retry" => worker[w].mode = "deterministic"
                       /\ y = [worker[w] EXCEPT !.pc = pc, !.send = FALSE]
  <2>1. ASSUME NEW b \in Batches(worker[w].messages),
               worker' = [worker EXCEPT ![w].pc = "batch", ![w].batch = b, ![w].send = FALSE]
        PROVE  worker' = [worker EXCEPT ![w] = [worker[w] EXCEPT !.pc = "batch", !.batch = b, !.send = FALSE]]
    BY <2>1, TypesOfRows
  <2>2. ASSUME NEW pc \in {"failed", "retry"}, worker' = [worker EXCEPT ![w].pc = pc, ![w].send = FALSE]
        PROVE  worker' = [worker EXCEPT ![w] = [worker[w] EXCEPT !.pc = pc, !.send = FALSE]]
    BY <2>2, TypesOfRows
  <2>3. CASE \E b \in Batches(worker[w].messages) :
               worker' = [worker EXCEPT ![w].pc = "batch", ![w].batch = b, ![w].send = FALSE]
    BY <2>1, <2>3
  <2>4. CASE \E pc \in {"failed", "retry"} :
               /\ pc = "retry" => worker[w].mode = "deterministic"
               /\ worker' = [worker EXCEPT ![w].pc = pc, ![w].send = FALSE]
    BY <2>2, <2>4
  <2> QED
    BY <2>3, <2>4 DEF ExtractorReturns
<1>4. /\ y \in WorkerRow /\ y.token = worker[w].token /\ y.revision = worker[w].revision
      /\ y.mode = worker[w].mode /\ ~y.send /\ y.pc \in {"batch", "failed", "retry"}
      /\ y.pc = "retry" => y.mode = "deterministic"
      /\ y.pc = "batch" => y.batch \in Batches(y.messages)
  <2>1. ASSUME NEW b \in Batches(worker[w].messages), y = [worker[w] EXCEPT !.pc = "batch", !.batch = b, !.send = FALSE]
        PROVE  /\ y \in WorkerRow /\ y.token = worker[w].token /\ y.revision = worker[w].revision
               /\ y.mode = worker[w].mode /\ ~y.send /\ y.pc = "batch" /\ y.batch \in Batches(y.messages)
    <3>1. worker[w].messages \subseteq Messages /\ worker[w] \in WorkerRow
      BY TypesOfRows DEF WorkerRow
    <3>2. b \in AllBatches
      BY <3>1 DEF Batches, AllBatches
    <3> QED
      BY <2>1, <3>1, <3>2 DEF WorkerRow, WorkerPcs
  <2>2. ASSUME NEW pc \in {"failed", "retry"}, y = [worker[w] EXCEPT !.pc = pc, !.send = FALSE]
        PROVE  /\ y \in WorkerRow /\ y.token = worker[w].token /\ y.revision = worker[w].revision
               /\ y.mode = worker[w].mode /\ ~y.send /\ y.pc = pc
    BY <2>2, TypesOfRows DEF WorkerRow, WorkerPcs
  <2> QED
    BY <1>3, <2>1, <2>2
<1>5. SendNext(w, y)
  BY <1>1 DEF SendNext
<1>7. AttemptsSound'
  BY <1>1, <1>2, <1>3, <1>4, <1>5, WorkerGoesOn
<1> QED
  BY <1>1, <1>7, TablesStay DEF ExtractionInv, AttemptsSound

\* An attempt that failed ends the run or leaves it to a retry.
LEMMA FailKeeps ==
  ASSUME ExtractionInv, NEW w \in Workers, FailRun(w)
  PROVE  ExtractionInv'
<1>1. /\ StillTheSame /\ UNCHANGED <<ingested, claims, sent>> /\ UNCHANGED candidateVars
      /\ worker[w].pc \in {"failed", "retry"} /\ Rest(w)
  BY TypesOfRows DEF FailRun, StillTheSame, candidateVars
<1>2. PICK r \in Revisions : r = worker[w].revision
  BY TypesOfRows
<1>3. AttemptsSound'
  <2>1. CASE ~Fenced(w)
    <3>1. run' = run
      BY <2>1, TypesOfRows DEF FailRun
    <3>2. Resting \in WorkerRow /\ Resting.token = 0 /\ Resting.pc = "idle" /\ SendNext(w, Resting)
      BY <1>1, TypesOfRows DEF Resting, SendNext
    <3> QED
      BY <1>1, <3>1, <3>2, WorkerGoesOn DEF Rest
  <2>2. CASE Fenced(w) /\ worker[w].pc = "retry" /\ worker[w].attempt < MaxAttempts
    <3>1. run[r].status = "processing" /\ run[r].extractor = "deterministic" /\ exists
      BY <1>1, <1>2, <2>2, FenceHolds DEF AtWork, ExtractionInv, WorkersSound
    <3>2. PICK x : x = [run[r] EXCEPT !.status = "retry_wait", !.token = 0, !.expires = 0, !.next = now + RetryDelay]
      OBVIOUS
    <3>3. run' = [run EXCEPT ![r] = x]
      BY <1>2, <2>2, <3>2, TypesOfRows DEF FailRun
    <3>4. /\ x \in RunRow /\ x.status = "retry_wait" /\ x.token = 0 /\ x.snapshot = run[r].snapshot
          /\ x.extractor = run[r].extractor
      <4>1. now + RetryDelay \in Nat
        BY TypesOfRows
      <4> QED
        BY <3>2, <4>1, TypesOfRows DEF RunRow, RunStatuses
    <3>5. RowNext(r, x) /\ IngestNext(r, x)
      BY <1>1, <3>1, <3>4 DEF RowNext, IngestNext, ExtractionInv, RunsSound, Unfinished
    <3> QED
      BY <1>1, <3>3, <3>4, <3>5, RunGoesOn
  <2>3. CASE Fenced(w) /\ ~(worker[w].pc = "retry" /\ worker[w].attempt < MaxAttempts)
    <3>1. run[r].status = "processing"
      BY <1>1, <1>2, <2>3, FenceHolds DEF AtWork
    <3>2. run' = [run EXCEPT ![r] = Over(@, "failed")]
      BY <1>2, <2>3, TypesOfRows DEF FailRun
    <3> QED
      BY <1>1, <3>1, <3>2, EndsEmpty DEF Terminal, Unfinished
  <2> QED
    BY <2>1, <2>2, <2>3
<1> QED
  BY <1>1, <1>3, TablesStay DEF ExtractionInv, AttemptsSound

-----------------------------------------------------------------------------
(* A batch, and what is deleted at the source *)

\* The fields of the tables of candidates.
LEMMA TableTypes ==
  ASSUME CandidatesSound
  PROVE  /\ candidate \in [Candidates -> CandidateRow] /\ evidence \subseteq Candidates \X Messages
         /\ message \subseteq Messages
         /\ memory \subseteq [candidate : Candidates, request : Requests, content : Contents]
         /\ \A e \in evidence : e[1] \in Candidates /\ e[2] \in message /\ Pending(e[1])
         /\ \A r \in memory : r.candidate \in Candidates /\ candidate[r.candidate].status \in {"accepted", "gone"}
         /\ MaxRevision \in Nat \ {0} /\ Null \notin Contents
BY CandidateAssumption DEF CandidatesSound, CandidateTypes, CandidateRow, TablesAgree

\* Every content of a batch goes to a pending candidate or to an id that was never used.
LEMMA TargetIsFree ==
  ASSUME NEW batch, Fits(batch), NEW x \in DOMAIN batch
  PROVE  Target(x) \in Candidates /\ (Pending(Target(x)) \/ candidate[Target(x)].status = "unborn")
<1>1. CASE \E c \in Candidates : Pending(c) /\ candidate[c].content = x
  BY <1>1 DEF Target
<1>2. CASE ~\E c \in Candidates : Pending(c) /\ candidate[c].content = x
  <2>1. \E c \in Candidates : candidate[c].status = "unborn"
    BY <1>2 DEF Fits
  <2> QED
    BY <1>2, <2>1 DEF Target
<1> QED
  BY <1>1, <1>2

\* Ingesting a batch keeps the tables sound and gives every pending candidate evidence.
LEMMA IngestKeeps ==
  ASSUME CandidatesSound, EvidenceSound, NEW messages \in SUBSET message, NEW batch \in Batches(messages),
         Fits(batch), Ingest(batch)
  PROVE  CandidatesSound' /\ EvidenceSound'
<1> DEFINE Fresh(c) == ~Pending(c) /\ \E x \in DOMAIN batch : Target(x) = c
           Row(c) == Proposed(CHOOSE x \in DOMAIN batch : Target(x) = c, "conversation")
<1>1. /\ DOMAIN batch \subseteq Contents
      /\ \A x \in DOMAIN batch : batch[x] \subseteq messages /\ batch[x] # {}
  BY DEF Batches
<1>2. \A x \in DOMAIN batch : Target(x) \in Candidates /\ (Pending(Target(x)) \/ candidate[Target(x)].status = "unborn")
  BY TargetIsFree
<1>3. /\ \A c \in Candidates : candidate'[c] = IF Fresh(c) THEN Row(c) ELSE candidate[c]
      /\ candidate' = [c \in Candidates |-> IF Fresh(c) THEN Row(c) ELSE candidate[c]]
      /\ evidence' = evidence \cup UNION {{Target(x)} \X batch[x] : x \in DOMAIN batch}
      /\ message' = message /\ memory' = memory /\ due' = due /\ scan' = scan
  BY DEF Ingest
<1>4. \A c \in Candidates : Fresh(c) =>
        /\ candidate[c].status = "unborn"
        /\ Row(c) \in CandidateRow /\ Row(c).status = "pending" /\ Row(c).revision = 1
        /\ Row(c).content \in Contents
  <2> SUFFICES ASSUME NEW c \in Candidates, Fresh(c)
               PROVE  /\ candidate[c].status = "unborn"
                      /\ Row(c) \in CandidateRow /\ Row(c).status = "pending" /\ Row(c).revision = 1
                      /\ Row(c).content \in Contents
    OBVIOUS
  <2>1. PICK x : x = CHOOSE z \in DOMAIN batch : Target(z) = c
    OBVIOUS
  <2>2. x \in DOMAIN batch /\ Target(x) = c
    BY <2>1
  <2>3. PICK row : row = Proposed(x, "conversation")
    OBVIOUS
  <2>4. row \in CandidateRow /\ row.status = "pending" /\ row.revision = 1 /\ row.content \in Contents
    BY <1>1, <2>2, <2>3, TableTypes DEF Proposed, CandidateRow, CandidateStatuses
  <2>5. Row(c) = row
    BY <2>1, <2>3
  <2>6. candidate[c].status = "unborn"
    BY <1>2, <2>2 DEF Pending
  <2> HIDE DEF Row
  <2> QED
    BY <2>4, <2>5, <2>6
<1> HIDE DEF Fresh, Row
<1>5. candidate' \in [Candidates -> CandidateRow]
  BY <1>3, <1>4, TableTypes
<1>6. \A e \in evidence' : \/ e \in evidence
                           \/ \E x \in DOMAIN batch : e[1] = Target(x) /\ e[2] \in batch[x] /\ e \in Candidates \X Messages
  <2> SUFFICES ASSUME NEW e \in evidence', e \notin evidence
               PROVE  \E x \in DOMAIN batch : e[1] = Target(x) /\ e[2] \in batch[x] /\ e \in Candidates \X Messages
    OBVIOUS
  <2>1. PICK x \in DOMAIN batch : e \in {Target(x)} \X batch[x]
    BY <1>3
  <2>2. batch[x] \subseteq Messages /\ Target(x) \in Candidates
    BY <1>1, <1>2, TableTypes
  <2> QED
    BY <2>1, <2>2
<1>7. \A x \in DOMAIN batch : candidate'[Target(x)].status = "pending"
  <2> SUFFICES ASSUME NEW x \in DOMAIN batch
               PROVE  candidate'[Target(x)].status = "pending"
    OBVIOUS
  <2>1. Target(x) \in Candidates /\ (Pending(Target(x)) \/ Fresh(Target(x)))
    BY <1>2 DEF Fresh
  <2> QED
    BY <1>3, <1>4, <2>1 DEF Fresh, Pending
<1>8. \A c \in Candidates : Pending(c) => candidate'[c] = candidate[c]
  BY <1>3 DEF Fresh
<1>9. \A e \in evidence' : candidate'[e[1]].status = "pending" /\ e[2] \in message
  BY <1>1, <1>6, <1>7, <1>8, TableTypes DEF Pending
<1>10. CandidateTypes'
  <2>1. evidence' \subseteq Candidates \X Messages
    BY <1>6, TableTypes
  <2> QED
    BY <1>3, <1>5, <2>1 DEF CandidatesSound, CandidateTypes, CandidateRow
<1>11. \A c \in Candidates : candidate'[c].status = "pending" =>
         candidate'[c].revision \in 1..MaxRevision
  BY <1>3, <1>4, TableTypes DEF CandidatesSound, Pending
<1>12. \A r \in memory : candidate'[r.candidate] = candidate[r.candidate]
  BY <1>3, <1>4, TableTypes
<1>13. TablesAgree'
  <2>1. \A c \in Candidates : candidate'[c].status = "pending" <=> candidate'[c].content # Null
    BY <1>3, <1>4, TableTypes DEF CandidatesSound, TablesAgree, Pending
  <2>2. \A c \in Candidates : candidate'[c].status = "accepted" => candidate'[c] = candidate[c]
    BY <1>3, <1>4
  <2>3. \A c \in Candidates : candidate'[c].status = "accepted" =>
          \E r \in memory' : r.candidate = c /\ r.request = candidate'[c].request
    BY <1>3, <2>2 DEF CandidatesSound, TablesAgree
  <2>4. \A r, s \in memory' : r.candidate = s.candidate => r = s
    BY <1>3 DEF CandidatesSound, TablesAgree
  <2> QED
    BY <1>3, <1>9, <2>1, <2>3, <2>4 DEF TablesAgree, Pending
<1>14. EvidenceSound'
  <2> SUFFICES ASSUME NEW c \in Candidates, candidate'[c].status = "pending", candidate'[c].source = "conversation"
               PROVE  \E e \in evidence' : e[1] = c
    BY DEF EvidenceSound, Pending, EvidenceOf
  <2>1. CASE Pending(c)
    <3>1. \E e \in evidence : e[1] = c
      BY <1>8, <2>1 DEF EvidenceSound, EvidenceOf
    <3> QED
      BY <1>3, <3>1
  <2>2. CASE ~Pending(c)
    <3>1. PICK x \in DOMAIN batch : Target(x) = c
      BY <1>3, <2>2 DEF Fresh, Pending
    <3>2. PICK m : m \in batch[x]
      BY <1>1
    <3>3. <<c, m>> \in evidence' /\ <<c, m>>[1] = c
      BY <1>3, <3>1, <3>2
    <3> QED
      BY <3>3
  <2> QED
    BY <2>1, <2>2
<1> QED
  BY <1>3, <1>10, <1>11, <1>12, <1>13, <1>14, TableTypes DEF CandidatesSound, Pending

\* Taking messages away invalidates the candidates that are left without evidence.
LEMMA SourcesKeep ==
  ASSUME CandidatesSound, EvidenceSound, NEW deleted, DeleteSources(deleted)
  PROVE  CandidatesSound' /\ EvidenceSound' /\ message' = message \ deleted
<1>1. PICK row : row = [Unborn EXCEPT !.status = "gone"]
  OBVIOUS
<1>2. row \in CandidateRow /\ row.status = "gone" /\ row.content = Null
  BY <1>1, TableTypes DEF Unborn, CandidateRow, CandidateStatuses
<1>3. /\ \A c \in Candidates : candidate'[c] = IF c \in Orphans(deleted) THEN row ELSE candidate[c]
      /\ candidate' = [c \in Candidates |-> IF c \in Orphans(deleted) THEN row ELSE candidate[c]]
      /\ evidence' = {e \in evidence : e[2] \notin deleted}
      /\ message' = message \ deleted /\ memory' = memory /\ due' = due /\ scan' = scan
  BY <1>1 DEF DeleteSources
<1>4. \A c \in Orphans(deleted) : Pending(c) /\ \A e \in evidence : e[1] = c => e[2] \in deleted
  BY DEF Orphans, EvidenceOf
<1>5. \A e \in evidence' : e \in evidence /\ e[1] \notin Orphans(deleted)
  BY <1>3, <1>4
<1>6. CandidateTypes'
  <2>1. candidate' \in [Candidates -> CandidateRow]
    BY <1>2, <1>3, TableTypes
  <2> QED
    BY <1>3, <2>1 DEF CandidatesSound, CandidateTypes, CandidateRow
<1>7. \A c \in Candidates : candidate'[c].status = "pending" => candidate'[c] = candidate[c]
  BY <1>2, <1>3
<1>8. \A r \in memory : candidate'[r.candidate] = candidate[r.candidate]
  BY <1>3, <1>4, TableTypes DEF Pending
<1>9. TablesAgree'
  <2>1. \A c \in Candidates : candidate'[c].status = "pending" <=> candidate'[c].content # Null
    BY <1>2, <1>3 DEF CandidatesSound, TablesAgree, Pending
  <2>2. \A e \in evidence' : candidate'[e[1]].status = "pending" /\ e[2] \in message'
    BY <1>3, <1>5, TableTypes DEF Pending
  <2>3. \A c \in Candidates : candidate'[c].status = "accepted" => candidate'[c] = candidate[c]
    BY <1>2, <1>3
  <2>4. \A c \in Candidates : candidate'[c].status = "accepted" =>
          \E r \in memory' : r.candidate = c /\ r.request = candidate'[c].request
    BY <1>3, <2>3 DEF CandidatesSound, TablesAgree
  <2>5. \A r, s \in memory' : r.candidate = s.candidate => r = s
    BY <1>3 DEF CandidatesSound, TablesAgree
  <2> QED
    BY <2>1, <2>2, <2>4, <2>5 DEF TablesAgree, Pending
<1>10. EvidenceSound'
  <2> SUFFICES ASSUME NEW c \in Candidates, candidate'[c].status = "pending", candidate'[c].source = "conversation"
               PROVE  \E e \in evidence' : e[1] = c
    BY DEF EvidenceSound, Pending, EvidenceOf
  <2>1. Pending(c) /\ candidate[c].source = "conversation" /\ c \notin Orphans(deleted)
    BY <1>2, <1>3 DEF Pending
  <2>2. EvidenceOf(c) # {} /\ ~(\A e \in EvidenceOf(c) : e[2] \in deleted)
    BY <2>1 DEF EvidenceSound, Orphans
  <2> QED
    BY <1>3, <2>2 DEF EvidenceOf
<1> QED
  BY <1>3, <1>6, <1>7, <1>8, <1>9, <1>10, TableTypes DEF CandidatesSound, Pending

-----------------------------------------------------------------------------
(* The end of an attempt, and the conversation *)

\* An attempt that returned a batch completes the run, or finds that it is too late.
LEMMA FinalizeKeeps ==
  ASSUME ExtractionInv, NEW w \in Workers, FinalizeRun(w)
  PROVE  ExtractionInv'
<1>1. /\ UNCHANGED <<revision, exists, born, answer, claims, now, crashes, sent>> /\ worker[w].pc = "batch" /\ Rest(w)
      /\ worker[w].batch \in Batches(worker[w].messages)
  BY DEF FinalizeRun, ExtractionInv, WorkersSound
<1>2. PICK r \in Revisions : r = worker[w].revision
  BY TypesOfRows
<1>3. CASE /\ Fenced(w) /\ CommitmentHolds(w) /\ Fits(worker[w].batch) /\ Ingest(worker[w].batch)
           /\ run' = [run EXCEPT ![r] = Over(@, "completed")]
           /\ ingested' = [ingested EXCEPT ![r] = @ + 1]
  <2>1. run[r].status = "processing" /\ exists
    BY <1>1, <1>2, <1>3, FenceHolds DEF AtWork
  <2>2. PICK x : x = Over(run[r], "completed")
    OBVIOUS
  <2>3. RowNext(r, x) /\ x.token = 0 /\ x.status = "completed" /\ run' = [run EXCEPT ![r] = x]
    BY <1>3, <2>1, <2>2, OverRow, TypesOfRows DEF Unfinished, Terminal
  <2>4. IngestNext(r, x)
    BY <1>3, <2>1, <2>3 DEF IngestNext
  <2>5. message' = message
    BY <1>3 DEF Ingest
  <2>6. AttemptsSound'
    BY <1>1, <2>3, <2>4, <2>5, RunGoesOn, TypesOfRows DEF StillTheSame
  <2>7. CandidatesSound' /\ EvidenceSound'
    BY <1>1, <1>3, IngestKeeps DEF CommitmentHolds, ExtractionInv
  <2> QED
    BY <2>6, <2>7 DEF ExtractionInv, AttemptsSound
<1>4. CASE UNCHANGED <<candidateVars, run, ingested>>
  <2>1. StillTheSame
    BY <1>1, <1>4, TypesOfRows DEF StillTheSame, candidateVars
  <2>2. Resting \in WorkerRow /\ Resting.token = 0 /\ Resting.pc = "idle" /\ SendNext(w, Resting)
    BY <1>1, TypesOfRows DEF Resting, SendNext
  <2>3. AttemptsSound'
    BY <1>1, <1>4, <2>1, <2>2, WorkerGoesOn DEF Rest
  <2> QED
    BY <1>4, <2>3, TablesStay DEF ExtractionInv, AttemptsSound
<1> QED
  BY <1>2, <1>3, <1>4 DEF FinalizeRun

\* Runs that selected a message are invalidated, and the message goes or stays.
LEMMA InvalidatedKeeps ==
  ASSUME ExtractionInv, NEW m \in Messages, exists, revision < MaxRuns,
         UNCHANGED <<exists, born, claims, worker, now, crashes, sent, ingested>>,
         run' = Invalidated(m), revision' = revision + 1,
         CandidatesSound', EvidenceSound', message' \in {message, message \ {m}},
         answer' \subseteq born
  PROVE  ExtractionInv'
<1>1. /\ UNCHANGED <<exists, born, claims, worker, now, crashes, sent, ingested>> /\ exists
      /\ run' = Invalidated(m) /\ revision' = revision + 1 /\ revision < MaxRuns
  OBVIOUS
<1>2. /\ CandidatesSound' /\ EvidenceSound' /\ message \ {m} \subseteq message'
      /\ message' \subseteq message /\ answer' \subseteq born
  OBVIOUS
<1>3. \A r \in Revisions :
        \/ /\ run'[r] = run[r]
           /\ run[r].status \in Unfinished => m \notin run[r].snapshot
        \/ /\ run[r].status \in Unfinished /\ run'[r] \in RunRow /\ run'[r].status = "snapshot_invalidated"
           /\ run'[r].token = 0 /\ run'[r].snapshot = {}
  <2> SUFFICES ASSUME NEW r \in Revisions
               PROVE  \/ /\ run'[r] = run[r]
                         /\ run[r].status \in Unfinished => m \notin run[r].snapshot
                      \/ /\ run[r].status \in Unfinished /\ run'[r] \in RunRow /\ run'[r].status = "snapshot_invalidated"
                         /\ run'[r].token = 0 /\ run'[r].snapshot = {}
    OBVIOUS
  <2>1. CASE run[r].status \in Unfinished /\ m \in run[r].snapshot
    <3>1. PICK x : x = Over(run[r], "snapshot_invalidated")
      OBVIOUS
    <3>2. x \in RunRow /\ x.status = "snapshot_invalidated" /\ x.token = 0 /\ x.snapshot = {}
      BY <3>1, TypesOfRows DEF Over, RunRow, RunStatuses, Terminal
    <3>3. run'[r] = x
      BY <1>1, <2>1, <3>1 DEF Invalidated, Unfinished
    <3> QED
      BY <2>1, <3>2, <3>3
  <2>2. CASE ~(run[r].status \in Unfinished /\ m \in run[r].snapshot)
    BY <1>1, <2>2 DEF Invalidated, Unfinished
  <2> QED
    BY <2>1, <2>2
<1>4. ExtractionTyped'
  <2>1. run' \in [Revisions -> RunRow]
    <3>1. \A r \in Revisions : run'[r] \in RunRow
      BY <1>3, TypesOfRows
    <3>2. run' = [r \in Revisions |-> run'[r]]
      BY <1>1 DEF Invalidated
    <3> QED
      BY <3>1, <3>2
  <2>2. revision' \in Revisions
    BY <1>1, TypesOfRows DEF Revisions
  <2> QED
    BY <1>1, <1>2, <2>1, <2>2 DEF ExtractionInv, ExtractionTyped
<1>5. RunsSound'
  <2> SUFFICES ASSUME NEW r \in Revisions
               PROVE  /\ (run'[r].token # 0) <=> (run'[r].status = "processing")
                      /\ run'[r].token <= claims
                      /\ (run'[r].snapshot # {}) <=> (run'[r].status \in Unfinished)
                      /\ run'[r].snapshot \subseteq message'
                      /\ run'[r].status = "none" => run'[r] = NoRun
                      /\ run'[r].status = "retry_wait" => run'[r].extractor = "deterministic"
                      /\ ~exists => run'[r] = NoRun
    BY <1>1 DEF RunsSound
  <2>1. CASE run'[r] = run[r] /\ (run[r].status \in Unfinished => m \notin run[r].snapshot)
    BY <1>2, <2>1 DEF ExtractionInv, RunsSound
  <2>2. CASE /\ run[r].status \in Unfinished /\ run'[r] \in RunRow /\ run'[r].status = "snapshot_invalidated"
             /\ run'[r].token = 0 /\ run'[r].snapshot = {}
    BY <1>1, <2>2, TypesOfRows DEF Unfinished
  <2> QED
    BY <1>3, <2>1, <2>2
<1>6. WorkersSound'
  <2>1. \A w \in Workers : AtWork(w) /\ run'[worker[w].revision].token = worker[w].token =>
          run'[worker[w].revision] = run[worker[w].revision]
    BY <1>3, TypesOfRows DEF ExtractionInv, WorkersSound
  <2> QED
    BY <1>1, <2>1 DEF ExtractionInv, WorkersSound, AtWork, Batches
<1>7. SendingSound' /\ IngestingSound'
  <2>1. \A r \in Revisions : /\ run'[r].status = "none" <=> run[r].status = "none"
                             /\ run'[r].status = "completed" <=> run[r].status = "completed"
    BY <1>3 DEF Unfinished
  <2> QED
    BY <1>1, <2>1 DEF ExtractionInv, SendingSound, IngestingSound, MaySendFor
<1> QED
  BY <1>2, <1>4, <1>5, <1>6, <1>7 DEF ExtractionInv

\* A deleted user message invalidates the runs made from it and the evidence it was.
LEMMA DeleteMessageKeeps ==
  ASSUME ExtractionInv, NEW m \in Messages, DeleteMessage(m)
  PROVE  ExtractionInv'
<1>1. CandidatesSound' /\ EvidenceSound' /\ message' = message \ {m}
  BY SourcesKeep DEF DeleteMessage, ExtractionInv
<1>2. answer' \subseteq born
  BY DEF DeleteMessage, ExtractionInv, ExtractionTyped
<1> QED
  BY <1>1, <1>2, InvalidatedKeeps DEF DeleteMessage

\* A deleted conversation takes its runs along.
LEMMA DeleteConversationKeeps ==
  ASSUME ExtractionInv, DeleteConversation
  PROVE  ExtractionInv'
<1>1. /\ UNCHANGED <<revision, born, claims, worker, now, crashes, sent, ingested>> /\ ~exists' /\ exists' \in BOOLEAN
      /\ run' = [r \in Revisions |-> NoRun] /\ answer' = {}
  BY DEF DeleteConversation
<1>2. CandidatesSound' /\ EvidenceSound' /\ message' = message \ message
  BY SourcesKeep DEF DeleteConversation, ExtractionInv
<1>3. NoRun \in RunRow /\ NoRun.token = 0 /\ NoRun.status = "none" /\ NoRun.snapshot = {}
  BY TypesOfRows DEF NoRun, RunRow, RunStatuses, Extractors
<1>4. ExtractionTyped'
  BY <1>1, <1>2, <1>3 DEF ExtractionInv, ExtractionTyped
<1>5. RunsSound'
  BY <1>1, <1>2, <1>3, TypesOfRows DEF RunsSound, Unfinished
<1>6. WorkersSound'
  <2>1. \A w \in Workers : AtWork(w) => run'[worker[w].revision].token # worker[w].token
    BY <1>1, <1>3, TypesOfRows DEF ExtractionInv, WorkersSound
  <2> QED
    BY <1>1, <2>1 DEF ExtractionInv, WorkersSound, AtWork, Batches
<1>7. SendingSound' /\ IngestingSound'
  BY <1>1 DEF ExtractionInv, SendingSound, IngestingSound, MaySendFor
<1> QED
  BY <1>2, <1>4, <1>5, <1>6, <1>7 DEF ExtractionInv

\* Steps that leave runs and workers alone and take no message away.
LEMMA AroundKeeps ==
  ASSUME ExtractionInv, UNCHANGED <<exists, run, worker, claims, sent, ingested>>,
         revision' \in Revisions, now' \in Nat, crashes' \in Nat,
         message \subseteq message', message' \subseteq born', born' \subseteq Messages,
         answer' \subseteq born'
  PROVE  AttemptsSound'
<1>1. ExtractionTyped'
  BY DEF ExtractionInv, ExtractionTyped
<1>2. RunsSound'
  BY DEF ExtractionInv, RunsSound
<1>3. WorkersSound'
  BY DEF ExtractionInv, WorkersSound, AtWork, Batches
<1>4. SendingSound' /\ IngestingSound'
  BY DEF ExtractionInv, SendingSound, IngestingSound, MaySendFor
<1> QED
  BY <1>1, <1>2, <1>3, <1>4 DEF AttemptsSound

\* A deleted answer invalidates the runs made from its user message, and nothing else.
LEMMA DeleteAnswerKeeps ==
  ASSUME ExtractionInv, NEW m \in Messages, DeleteAnswer(m)
  PROVE  ExtractionInv'
<1>1. CandidatesSound' /\ EvidenceSound' /\ message' = message
  BY TablesStay DEF DeleteAnswer, ExtractionInv, candidateVars
<1>2. answer' \subseteq born
  BY DEF DeleteAnswer, ExtractionInv, ExtractionTyped
<1>3. CASE m \in message
  BY <1>1, <1>2, <1>3, InvalidatedKeeps DEF DeleteAnswer
<1>4. CASE m \notin message
  <2>1. /\ UNCHANGED <<exists, run, worker, claims, sent, ingested, born>> /\ now' \in Nat
        /\ crashes' \in Nat /\ revision' \in Revisions
    BY <1>4, TypesOfRows DEF DeleteAnswer, Revisions
  <2>2. message \subseteq message' /\ message' \subseteq born' /\ born' \subseteq Messages
    BY <1>1, <2>1 DEF ExtractionInv, ExtractionTyped
  <2>3. AttemptsSound'
    BY <1>2, <2>1, <2>2, AroundKeeps
  <2> QED
    BY <1>1, <2>3 DEF ExtractionInv, AttemptsSound
<1> QED
  BY <1>3, <1>4

\* A new turn makes a new revision.
LEMMA AppendKeeps ==
  ASSUME ExtractionInv, NEW m \in Messages, AppendTurn(m)
  PROVE  ExtractionInv'
<1>1. /\ UNCHANGED <<candidate, evidence, memory, due, scan, exists, run, claims, worker, now,
                     crashes, sent, ingested>>
      /\ born' = born \cup {m} /\ message' = message \cup {m} /\ answer' = answer \cup {m} /\ revision' \in Revisions
  BY TypesOfRows DEF AppendTurn, Revisions
<1>2. AttemptsSound'
  <2>1. /\ message \subseteq message' /\ message' \subseteq born' /\ born' \subseteq Messages
        /\ answer' \subseteq born'
    BY <1>1 DEF ExtractionInv, ExtractionTyped
  <2>2. now' \in Nat /\ crashes' \in Nat
    BY <1>1, TypesOfRows
  <2> QED
    BY <1>1, <2>1, <2>2, AroundKeeps
<1>3. CandidatesSound'
  BY <1>1 DEF ExtractionInv, CandidatesSound, CandidateTypes, TablesAgree, Pending
<1>4. EvidenceSound'
  BY <1>1 DEF ExtractionInv, EvidenceSound, EvidenceOf, Pending
<1> QED
  BY <1>2, <1>3, <1>4 DEF ExtractionInv, AttemptsSound

\* Time passes, or the process dies and starts again.
LEMMA TickKeeps ==
  ASSUME ExtractionInv, Tick
  PROVE  ExtractionInv'
<1>1. /\ UNCHANGED <<candidateVars, runVars, worker, crashes, sent, ingested>>
      /\ now' \in Nat /\ crashes' \in Nat /\ UNCHANGED <<exists, run, worker, claims>>
      /\ UNCHANGED <<revision, message, born, answer>>
  BY TypesOfRows DEF Tick, runVars, candidateVars
<1>2. AttemptsSound'
  <2>1. /\ message \subseteq message' /\ message' \subseteq born' /\ born' \subseteq Messages
        /\ answer' \subseteq born' /\ revision' \in Revisions
    BY <1>1, TypesOfRows DEF ExtractionInv, ExtractionTyped
  <2> QED
    BY <1>1, <2>1, AroundKeeps
<1> QED
  BY <1>1, <1>2, TablesStay DEF ExtractionInv, AttemptsSound

\* Review of the candidates, while extraction goes on.
LEMMA ReviewStepKeeps ==
  ASSUME ExtractionInv, ReviewStep, UNCHANGED extractVars
  PROVE  ExtractionInv'
<1>1. CandidatesSound' /\ message' = message
  BY ReviewKeeps, ReviewKeepsEvidence DEF ExtractionInv
<1>2. EvidenceSound'
  <2>1. ASSUME NEW c \in Candidates, Pending(c)', candidate'[c].source = "conversation"
        PROVE  \E e \in evidence' : e[1] = c
    <3>1. Pending(c) /\ candidate[c].source = "conversation" /\ \A e \in EvidenceOf(c) : e \in evidence'
      BY <2>1, ReviewKeepsEvidence DEF ExtractionInv
    <3> QED
      BY <3>1 DEF ExtractionInv, EvidenceSound, EvidenceOf
  <2> QED
    BY <2>1 DEF EvidenceSound, EvidenceOf
<1>3. AttemptsSound'
  <2>1. UNCHANGED <<exists, run, worker, claims, sent, ingested, revision, now, crashes, born, answer>>
    BY DEF extractVars, runVars
  <2>2. /\ message \subseteq message' /\ message' \subseteq born' /\ born' \subseteq Messages
        /\ answer' \subseteq born'
        /\ revision' \in Revisions /\ now' \in Nat /\ crashes' \in Nat
    BY <1>1, <2>1, TypesOfRows DEF ExtractionInv, ExtractionTyped
  <2> QED
    BY <2>1, <2>2, AroundKeeps
<1> QED
  BY <1>1, <1>2, <1>3 DEF ExtractionInv, AttemptsSound

-----------------------------------------------------------------------------
(* The theorems *)

\* The invariant holds at first.
LEMMA ExtractionStart ==
  ASSUME ExtractionInit
  PROVE  ExtractionInv
<1>1. CandidatesSound
  <2>1. CandidateTypes
    BY CandidateAssumption DEF ExtractionInit, CandidateInit, CandidateTypes, Unborn, CandidateStatuses
  <2>2. TablesAgree /\ \A c \in Candidates : ~Pending(c)
    BY DEF ExtractionInit, CandidateInit, TablesAgree, Pending, Unborn
  <2> QED
    BY <2>1, <2>2 DEF CandidatesSound, ExtractionInit, CandidateInit
<1>2. EvidenceSound
  BY DEF ExtractionInit, CandidateInit, EvidenceSound, Pending, Unborn
<1>3. 0 \in Revisions
  BY ExtractionAssumption DEF Revisions
<1>4. NoRun \in RunRow /\ NoRun.token = 0 /\ NoRun.status = "none" /\ NoRun.snapshot = {}
  BY ExtractionAssumption DEF NoRun, RunRow, RunStatuses, Extractors
<1>5. Resting \in WorkerRow /\ Resting.token = 0 /\ Resting.pc = "idle"
  BY <1>3 DEF Resting, WorkerRow, WorkerPcs, Extractors
<1>6. ExtractionTyped
  BY <1>3, <1>4, <1>5 DEF ExtractionInit, CandidateInit, ExtractionTyped
<1>7. RunsSound
  BY <1>4 DEF ExtractionInit, CandidateInit, RunsSound, Unfinished
<1>8. WorkersSound
  BY <1>5 DEF ExtractionInit, WorkersSound, AtWork
<1>9. SendingSound /\ IngestingSound
  BY <1>4, <1>5 DEF ExtractionInit, SendingSound, IngestingSound, MaySendFor
<1> QED
  BY <1>1, <1>2, <1>6, <1>7, <1>8, <1>9 DEF ExtractionInv

\* Every step keeps it.
LEMMA ExtractionStep ==
  ASSUME ExtractionInv, [ExtractionNext]_extractionVars
  PROVE  ExtractionInv'
<1>1. ASSUME NEW w \in Workers, Trigger(w) \/ AttemptStep(w) \/ RenewLease(w) \/ RecoverExpired(w) \/ Crash(w)
      PROVE  ExtractionInv'
  BY <1>1, TriggerKeeps, StartKeeps, TakeOverKeeps, ReloadKeeps, ExtractKeeps, ReturnsKeeps, FinalizeKeeps,
     FailKeeps, RenewKeeps DEF AttemptStep
<1>2. ASSUME NEW w \in Workers, NEW r \in Revisions, ClaimDueRetry(w, r)
      PROVE  ExtractionInv'
  BY <1>2, ClaimDueKeeps
<1>3. ASSUME NEW m \in Messages, AppendTurn(m) \/ DeleteMessage(m) \/ DeleteAnswer(m)
      PROVE  ExtractionInv'
  BY <1>3, AppendKeeps, DeleteMessageKeeps, DeleteAnswerKeeps
<1>4. CASE DeleteConversation \/ Tick \/ (ReviewStep /\ UNCHANGED extractVars)
  BY <1>4, DeleteConversationKeeps, TickKeeps, ReviewStepKeeps
<1>5. CASE UNCHANGED extractionVars
  <2>1. UNCHANGED candidateVars /\ UNCHANGED <<exists, run, worker, claims, sent, ingested, revision, now, crashes, born, answer,
                                                       message>>
    BY <1>5 DEF extractionVars, extractVars, runVars, candidateVars
  <2>2. /\ message \subseteq message' /\ message' \subseteq born' /\ born' \subseteq Messages
        /\ answer' \subseteq born'
        /\ revision' \in Revisions /\ now' \in Nat /\ crashes' \in Nat
    BY <2>1, TypesOfRows DEF ExtractionInv, ExtractionTyped
  <2> QED
    BY <2>1, <2>2, AroundKeeps, TablesStay DEF ExtractionInv, AttemptsSound
<1> QED
  BY <1>1, <1>2, <1>3, <1>4, <1>5 DEF ExtractionNext

\* Whatever crashes, expires, is taken over or deleted: at most one request goes to the
\* provider for a run, at most one batch is committed for it, together with its completion,
\* and no candidate rests on a message that was deleted.
THEOREM ExtractedOnce == ExtractionSpec => []ExtractionSafe
<1>1. ExtractionInit => ExtractionInv
  BY ExtractionStart
<1>2. ExtractionInv /\ [ExtractionNext]_extractionVars => ExtractionInv'
  BY ExtractionStep
<1>3. ExtractionInv => ExtractionSafe
  <2> SUFFICES ASSUME ExtractionInv
               PROVE  ExtractionSafe
    OBVIOUS
  <2>1. ExtractionTypeOK
    BY TypesOfRows DEF ExtractionInv, ExtractionTyped, ExtractionTypeOK, CandidatesSound, RunsSound, WorkersSound,
       Unfinished
  <2>2. TablesAgree /\ NeverSentTwice /\ IngestedOnce
    BY DEF ExtractionInv, CandidatesSound, SendingSound, IngestingSound, NeverSentTwice, IngestedOnce
  <2>3. NothingFromDeletedMessages
    BY DEF ExtractionInv, CandidatesSound, TablesAgree, EvidenceSound, NothingFromDeletedMessages
  <2> QED
    BY <2>1, <2>2, <2>3 DEF ExtractionSafe
<1> QED
  BY <1>1, <1>2, <1>3, PTL DEF ExtractionSpec

\* One row of a run only advances: what is over stays, attempts go up, a new token is one
\* that was never issued.
RowAdvances(r) ==
    /\ run[r].status \in Terminal => run'[r] = run[r] \/ ~exists'
    /\ exists' => run'[r].attempt >= run[r].attempt
    /\ run'[r].token \notin {0, run[r].token} => run'[r].token > claims

\* A run that stays as it is.
LEMMA SameRowAdvances ==
  ASSUME ExtractionInv, NEW r \in Revisions, run'[r] = run[r]
  PROVE  RowAdvances(r)
BY TypesOfRows DEF RowAdvances

\* Changing one run.
LEMMA OneAdvances ==
  ASSUME ExtractionInv, NEW r \in Revisions, NEW x, run' = [run EXCEPT ![r] = x], run[r].status \notin Terminal,
         x.attempt \in {run[r].attempt, run[r].attempt + 1}, x.token \in {0, run[r].token, claims + 1}
  PROVE  \A q \in Revisions : RowAdvances(q)
<1>1. \A q \in Revisions \ {r} : RowAdvances(q)
  BY SameRowAdvances, TypesOfRows
<1>2. RowAdvances(r)
  BY TypesOfRows DEF RowAdvances
<1> QED
  BY <1>1, <1>2

\* Every step only advances runs.
LEMMA RunsAdvance ==
  ASSUME ExtractionInv, [ExtractionNext]_extractionVars
  PROVE  \A r \in Revisions : RowAdvances(r)
<1> DEFINE Goal == \A q \in Revisions : RowAdvances(q)
<1>1. ASSUME run' = run
      PROVE  Goal
  BY <1>1, SameRowAdvances
<1>2. ASSUME NEW r \in Revisions, run[r].status \in Unfinished,
             \E status \in Terminal : run' = [run EXCEPT ![r] = Over(@, status)]
      PROVE  Goal
  <2>1. PICK x : run' = [run EXCEPT ![r] = x] /\ x.attempt = run[r].attempt /\ x.token = 0
    <3>1. PICK status \in Terminal : run' = [run EXCEPT ![r] = Over(run[r], status)]
      BY <1>2
    <3>2. Over(run[r], status).attempt = run[r].attempt /\ Over(run[r], status).token = 0
      BY TypesOfRows DEF Over, RunRow
    <3> QED
      BY <3>1, <3>2
  <2> QED
    BY <1>2, <2>1, OneAdvances DEF Unfinished, Terminal
<1>3. ASSUME NEW r \in Revisions, run[r].status \in Unfinished \cup {"none"}, run' = [run EXCEPT ![r] = Claimed(@)]
      PROVE  Goal
  <2>1. PICK x : x = Claimed(run[r])
    OBVIOUS
  <2>2. run' = [run EXCEPT ![r] = x] /\ x.attempt = run[r].attempt + 1 /\ x.token = claims + 1
    BY <1>3, <2>1, TypesOfRows DEF Claimed, RunRow
  <2> QED
    BY <1>3, <2>2, OneAdvances DEF Unfinished, Terminal
<1>4. ASSUME NEW w \in Workers, Start(w)
      PROVE  Goal
  <2>1. CASE exists /\ run[revision].status = "none" /\ Selectable # {}
    <3>1. PICK x : x = [Claimed(NoRun) EXCEPT !.extractor = worker[w].mode, !.snapshot = Selectable]
      OBVIOUS
    <3>2. run' = [run EXCEPT ![revision] = x] /\ run[revision] = NoRun
      BY <1>4, <2>1, <3>1, TypesOfRows DEF Start, ExtractionInv, RunsSound
    <3>3. x.attempt = NoRun.attempt + 1 /\ x.token = claims + 1
      BY <3>1 DEF Claimed, NoRun
    <3> QED
      BY <2>1, <3>2, <3>3, OneAdvances, TypesOfRows DEF Terminal
  <2>2. CASE ~(exists /\ run[revision].status = "none" /\ Selectable # {})
    BY <1>1, <1>4, <2>2 DEF Start
  <2> QED
    BY <2>1, <2>2
<1>5. ASSUME NEW w \in Workers, NEW r \in Revisions, TakeOver(w, r) \/ ClaimDueRetry(w, r)
      PROVE  Goal
  BY <1>2, <1>3, <1>5 DEF TakeOver, ClaimDueRetry, Expired, Unfinished, Terminal
<1>6. ASSUME NEW w \in Workers, RenewLease(w)
      PROVE  Goal
  <2>1. PICK r \in Revisions : r = worker[w].revision
    BY TypesOfRows
  <2>2. run[r].status = "processing"
    BY <1>6, <2>1, FenceHolds DEF RenewLease, AtWork
  <2>3. PICK x : x = [run[r] EXCEPT !.expires = now + LeaseTtl]
    OBVIOUS
  <2>4. run' = [run EXCEPT ![r] = x] /\ x.attempt = run[r].attempt /\ x.token = run[r].token
    BY <1>6, <2>1, <2>3, TypesOfRows DEF RenewLease, RunRow
  <2> QED
    BY <2>2, <2>4, OneAdvances DEF Terminal
<1>7. ASSUME NEW w \in Workers, Reload(w) \/ FinalizeRun(w) \/ FailRun(w)
      PROVE  Goal
  <2>1. PICK r \in Revisions : r = worker[w].revision
    BY TypesOfRows
  <2>2. AtWork(w)
    BY <1>7 DEF Reload, FinalizeRun, FailRun, AtWork
  <2>3. Fenced(w) => run[r].status = "processing"
    BY <2>1, <2>2, FenceHolds
  <2>4. \/ run' = run
        \/ Fenced(w) /\ \E status \in Terminal : run' = [run EXCEPT ![r] = Over(@, status)]
        \/ /\ Fenced(w)
           /\ run' = [run EXCEPT ![r] = [@ EXCEPT !.status = "retry_wait", !.token = 0, !.expires = 0,
                                                  !.next = now + RetryDelay]]
    <3>1. CASE Reload(w)
      BY <2>1, <3>1 DEF Reload, Terminal
    <3>2. CASE FinalizeRun(w)
      BY <2>1, <3>2 DEF FinalizeRun, Terminal
    <3>3. CASE FailRun(w) /\ ~Fenced(w)
      BY <2>1, <3>3, TypesOfRows DEF FailRun
    <3>4. CASE FailRun(w) /\ Fenced(w) /\ worker[w].pc = "retry" /\ worker[w].attempt < MaxAttempts
      BY <2>1, <3>4 DEF FailRun
    <3>5. CASE FailRun(w) /\ Fenced(w) /\ ~(worker[w].pc = "retry" /\ worker[w].attempt < MaxAttempts)
      <4>1. run' = [run EXCEPT ![r] = Over(@, "failed")]
        BY <2>1, <3>5 DEF FailRun
      <4> QED
        BY <3>5, <4>1 DEF Terminal
    <3> QED
      BY <1>7, <3>1, <3>2, <3>3, <3>4, <3>5
  <2>5. ASSUME Fenced(w), run' = [run EXCEPT ![r] = [@ EXCEPT !.status = "retry_wait", !.token = 0, !.expires = 0,
                                                  !.next = now + RetryDelay]]
        PROVE  Goal
    <3>1. PICK x : x = [run[r] EXCEPT !.status = "retry_wait", !.token = 0, !.expires = 0, !.next = now + RetryDelay]
      OBVIOUS
    <3>2. run' = [run EXCEPT ![r] = x] /\ x.attempt = run[r].attempt /\ x.token = 0
      BY <2>5, <3>1, TypesOfRows DEF RunRow
    <3> QED
      BY <2>3, <2>5, <3>2, OneAdvances DEF Terminal
  <2> HIDE DEF Goal
  <2> QED
    BY <1>1, <1>2, <2>3, <2>4, <2>5 DEF Unfinished
<1>8. ASSUME NEW m \in Messages, DeleteMessage(m) \/ DeleteAnswer(m)
      PROVE  Goal
  <2> SUFFICES ASSUME NEW r \in Revisions
               PROVE  RowAdvances(r)
    OBVIOUS
  <2>1. CASE run' = run
    BY <2>1, SameRowAdvances
  <2>2. CASE run' = Invalidated(m) /\ run[r].status \in Unfinished /\ m \in run[r].snapshot
    <3>1. run'[r] = Over(run[r], "snapshot_invalidated")
      BY <2>2 DEF Invalidated, Unfinished
    <3>2. Over(run[r], "snapshot_invalidated").attempt = run[r].attempt /\ Over(run[r], "snapshot_invalidated").token = 0
      BY TypesOfRows DEF Over, RunRow
    <3> QED
      BY <2>2, <3>1, <3>2, TypesOfRows DEF RowAdvances, Unfinished, Terminal
  <2>3. CASE run' = Invalidated(m) /\ ~(run[r].status \in Unfinished /\ m \in run[r].snapshot)
    <3>1. run'[r] = run[r]
      BY <2>3 DEF Invalidated, Unfinished
    <3> QED
      BY <3>1, SameRowAdvances
  <2> QED
    BY <1>8, <2>1, <2>2, <2>3 DEF DeleteMessage, DeleteAnswer
<1>9. ASSUME DeleteConversation
      PROVE  Goal
  BY <1>9 DEF DeleteConversation, RowAdvances, NoRun
<1>10. ASSUME NEW w \in Workers, Trigger(w) \/ NothingToTakeOver(w) \/ RecoverExpired(w) \/ Crash(w)
                                 \/ Extract(w) \/ ExtractorReturns(w)
       PROVE  Goal
  BY <1>1, <1>10 DEF Trigger, NothingToTakeOver, RecoverExpired, Crash, Extract, ExtractorReturns, runVars
<1>11. ASSUME \/ \E m \in Messages : AppendTurn(m)
              \/ Tick
              \/ ReviewStep /\ UNCHANGED extractVars
              \/ UNCHANGED extractionVars
       PROVE  Goal
  BY <1>1, <1>11 DEF AppendTurn, Tick, extractionVars, extractVars, runVars
<1> HIDE DEF Goal
<1>12. Goal
  BY <1>4, <1>5, <1>6, <1>7, <1>8, <1>9, <1>10, <1>11 DEF ExtractionNext, AttemptStep
<1> QED
  BY <1>12 DEF Goal

\* A run that is over is left alone, its attempts only go up and a token is never used again.
THEOREM RunsOnlyAdvanceHolds == ExtractionSpec => RunsOnlyAdvance
<1>1. ExtractionInit => ExtractionInv
  BY ExtractionStart
<1>2. ExtractionInv /\ [ExtractionNext]_extractionVars => ExtractionInv'
  BY ExtractionStep
<1>3. ExtractionInv /\ [ExtractionNext]_extractionVars =>
        [\A r \in Revisions :
           /\ run[r].status \in Terminal => run'[r] = run[r] \/ ~exists'
           /\ exists' => run'[r].attempt >= run[r].attempt
           /\ run'[r].token \notin {0, run[r].token} => run'[r].token > claims]_extractionVars
  BY RunsAdvance DEF RowAdvances
<1> QED
  BY <1>1, <1>2, <1>3, PTL DEF ExtractionSpec, RunsOnlyAdvance

==============================================================================
