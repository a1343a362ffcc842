--------------------------- MODULE CandidateMemory ---------------------------
(***************************************************************************)
(* Candidate memories: what an extraction proposed and the user has not    *)
(* yet confirmed.  A candidate is edited, rejected, superseded, expired,   *)
(* deleted or confirmed, each in one SQLite transaction guarded by the     *)
(* revision the caller saw; deleting a message or the conversation takes   *)
(* its evidence away and the candidates that rested on it alone.           *)
(*                                                                         *)
(* One life, one conversation.  A content stands for the kind, the text    *)
(* and hence the dedup fingerprint.  An id is never used twice: "unborn"   *)
(* has not been inserted yet, "gone" has been deleted.                     *)
(***************************************************************************)
EXTENDS Naturals, FiniteSets

CONSTANTS
    Candidates,   \* candidate ids
    Contents,     \* contents a candidate may have
    Messages,     \* user messages of the conversation, each with its answer
    Requests,     \* confirmation request ids
    Expiring,     \* the candidates inserted with an expires_at
    Null,
    MaxRevision   \* bound on candidate revisions

ASSUME CandidateAssumption ==
    /\ Expiring \subseteq Candidates
    /\ Null \notin Contents \cup Requests \cup Candidates
    /\ MaxRevision \in Nat \ {0}

VARIABLES
    candidate,  \* candidate_memory
    evidence,   \* candidate_memory_evidence, as <<candidate, message>>
    message,    \* conversation_message: the turns that exist
    memory,     \* memory_record: the confirmed memories made from candidates
    due,        \* the candidates whose expires_at has passed
    scan        \* what scan_expired_candidates read: <<candidate, revision>>

candidateVars == <<candidate, evidence, message, memory, due, scan>>

Unborn == [status |-> "unborn", revision |-> 0, content |-> Null, source |-> "none",
           request |-> Null]

Proposed(content, source) ==
    [status |-> "pending", revision |-> 1, content |-> content, source |-> source,
     request |-> Null]

\* A reviewed row keeps its id and its source type, and neither content nor evidence.
Reviewed(row, status) ==
    [row EXCEPT !.status = status, !.revision = @ + 1, !.content = Null]

Pending(c) == candidate[c].status = "pending"

Gone(c) == candidate' = [candidate EXCEPT ![c] = [Unborn EXCEPT !.status = "gone"]]

CandidateInit ==
    /\ candidate = [c \in Candidates |-> Unborn]
    /\ evidence = {}
    /\ message = {}
    /\ memory = {}
    /\ due = {}
    /\ scan = {}

EvidenceOf(c) == {e \in evidence : e[1] = c}

\* idx_candidate_memory_pending_dedup: one pending candidate per fingerprint.
Duplicate(c, content) == \E d \in Candidates \ {c} : Pending(d) /\ candidate[d].content = content

\* ensure_pending_revision, and the same predicate of the UPDATE
EnsurePendingRevision(c, seen) == Pending(c) /\ candidate[c].revision = seen

-----------------------------------------------------------------------------
(* The lifecycle transactions; `seen` is the caller's expected revision *)

\* insert_candidate, for a proposal that no extraction made
InsertCandidate(c, content) ==
    /\ candidate[c].status = "unborn"
    /\ ~Duplicate(c, content)
    /\ candidate' = [candidate EXCEPT ![c] = Proposed(content, "manual")]
    /\ UNCHANGED <<evidence, message, memory, due, scan>>

\* edit_candidate_atomic; the same content again is NoChange
EditCandidate(c, seen, content) ==
    /\ EnsurePendingRevision(c, seen)
    /\ candidate[c].content # content
    /\ ~Duplicate(c, content)
    /\ candidate[c].revision < MaxRevision
    /\ candidate' = [candidate EXCEPT ![c].content = content, ![c].revision = @ + 1]
    /\ UNCHANGED <<evidence, message, memory, due, scan>>

\* reject_candidate_atomic
RejectCandidate(c, seen) ==
    /\ EnsurePendingRevision(c, seen)
    /\ candidate' = [candidate EXCEPT ![c] = Reviewed(@, "rejected")]
    /\ evidence' = evidence \ EvidenceOf(c)
    /\ UNCHANGED <<message, memory, due, scan>>

\* supersede_candidate_atomic
SupersedeCandidate(c, seen, replacement) ==
    /\ c # replacement
    /\ EnsurePendingRevision(c, seen)
    /\ Pending(replacement)
    /\ candidate' = [candidate EXCEPT ![c] = Reviewed(@, "superseded")]
    /\ evidence' = evidence \ EvidenceOf(c)
    /\ UNCHANGED <<message, memory, due, scan>>

\* delete_candidate_atomic: any status, at the revision seen; evidence cascades
DeleteCandidate(c, seen) ==
    /\ candidate[c].status \notin {"unborn", "gone"}
    /\ candidate[c].revision = seen
    /\ Gone(c)
    /\ evidence' = evidence \ EvidenceOf(c)
    /\ UNCHANGED <<message, memory, due, scan>>

\* add_evidence_atomic; evidence that is there already changes nothing
AddEvidence(c, m) ==
    /\ Pending(c) /\ m \in message /\ <<c, m>> \notin evidence
    /\ candidate[c].revision < MaxRevision
    /\ evidence' = evidence \cup {<<c, m>>}
    /\ candidate' = [candidate EXCEPT ![c].revision = @ + 1]
    /\ UNCHANGED <<message, memory, due, scan>>

\* The expires_at of a candidate passes.
ExpiryPasses(c) ==
    /\ c \in Expiring \ due
    /\ due' = due \cup {c}
    /\ UNCHANGED <<candidate, evidence, message, memory, scan>>

\* expire_batch reads the due candidates first ...
ScanExpired ==
    /\ scan = {}
    /\ \E c \in due : Pending(c)
    /\ scan' = {<<c, candidate[c].revision>> : c \in {d \in due : Pending(d)}}
    /\ UNCHANGED <<candidate, evidence, message, memory, due>>

\* ... and expires them one transaction at a time, if they are still as it read them.
ExpireCandidate(s) ==
    /\ s \in scan
    /\ scan' = scan \ {s}
    /\ IF EnsurePendingRevision(s[1], s[2])
       THEN /\ candidate' = [candidate EXCEPT ![s[1]] = Reviewed(@, "expired")]
            /\ evidence' = evidence \ EvidenceOf(s[1])
       ELSE UNCHANGED <<candidate, evidence>>
    /\ UNCHANGED <<message, memory, due>>

\* A confirmed memory is deleted for good; the accepted candidate cascades.
DeleteMemory(r) ==
    /\ r \in memory
    /\ memory' = memory \ {r}
    /\ Gone(r.candidate)
    /\ UNCHANGED <<evidence, message, due, scan>>

-----------------------------------------------------------------------------
(* Deletion at the source *)

\* collect_source_candidates, then delete_orphaned_source_candidates: the pending
\* candidates of the conversation that lose their last evidence.
Orphans(deleted) ==
    {c \in Candidates :
       /\ Pending(c) /\ candidate[c].source = "conversation"
       /\ EvidenceOf(c) # {}
       /\ \A e \in EvidenceOf(c) : e[2] \in deleted}

\* The part of a source deletion that concerns candidates.
DeleteSources(deleted) ==
    /\ message' = message \ deleted
    /\ evidence' = {e \in evidence : e[2] \notin deleted}
    /\ candidate' = [c \in Candidates |->
                       IF c \in Orphans(deleted) THEN [Unborn EXCEPT !.status = "gone"]
                       ELSE candidate[c]]
    /\ UNCHANGED <<memory, due, scan>>

-----------------------------------------------------------------------------
(* Confirmation: confirm_candidate_atomic, called D-4 in the code *)

Accepted(c, request) == candidate[c].status = "accepted" /\ candidate[c].request = request

\* The transaction inserts the memory, its first revision and its outbox row, and
\* accepts the candidate; VectorSync has the outbox row as an Enqueue.
ConfirmCandidate(c, seen, request) ==
    /\ EnsurePendingRevision(c, seen)
    /\ memory' = memory \cup {[candidate |-> c, request |-> request,
                               content |-> candidate[c].content]}
    /\ candidate' = [candidate EXCEPT ![c] = [Reviewed(@, "accepted") EXCEPT !.request = request]]
    /\ evidence' = evidence \ EvidenceOf(c)
    /\ UNCHANGED <<message, due, scan>>

\* What the user and the system may do to candidates beside the confirmations.
ReviewStep ==
    \/ \E c \in Candidates, content \in Contents : InsertCandidate(c, content)
    \/ \E c \in Candidates, seen \in 1..MaxRevision, content \in Contents :
         EditCandidate(c, seen, content)
    \/ \E c \in Candidates, seen \in 1..MaxRevision : RejectCandidate(c, seen)
    \/ \E c, d \in Candidates, seen \in 1..MaxRevision : SupersedeCandidate(c, seen, d)
    \/ \E c \in Candidates, seen \in 1..MaxRevision + 1 : DeleteCandidate(c, seen)
    \/ \E c \in Candidates, m \in Messages : AddEvidence(c, m)
    \/ \E c \in Candidates : ExpiryPasses(c)
    \/ ScanExpired
    \/ \E s \in scan : ExpireCandidate(s)
    \/ \E r \in memory : DeleteMemory(r)

-----------------------------------------------------------------------------
(* Properties *)

CandidateStatuses == {"unborn", "pending", "accepted", "rejected", "expired", "superseded", "gone"}

CandidateTypes ==
    /\ candidate \in [Candidates ->
         [status : CandidateStatuses, revision : 0..MaxRevision + 1,
          content : Contents \cup {Null}, source : {"none", "manual", "conversation"},
          request : Requests \cup {Null}]]
    /\ evidence \subseteq Candidates \X Messages
    /\ message \subseteq Messages
    /\ memory \subseteq [candidate : Candidates, request : Requests, content : Contents]
    /\ due \subseteq Expiring
    /\ scan \subseteq Candidates \X (1..MaxRevision + 1)

\* What the tables hold together: only a pending candidate has a content, only a
\* pending one has evidence, evidence is of messages that exist, an accepted candidate
\* has the memory of its own request, and no candidate became two memories.
TablesAgree ==
    /\ \A c \in Candidates : Pending(c) <=> candidate[c].content # Null
    /\ \A e \in evidence : Pending(e[1]) /\ e[2] \in message
    /\ \A c \in Candidates : candidate[c].status = "accepted" =>
         \E r \in memory : r.candidate = c /\ r.request = candidate[c].request
    /\ \A r, s \in memory : r.candidate = s.candidate => r = s

==============================================================================
