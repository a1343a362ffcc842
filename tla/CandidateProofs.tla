--------------------------- MODULE CandidateProofs ---------------------------
(***************************************************************************)
(* What review makes of candidate memories and of the tables they are kept *)
(* in, whatever candidates, contents, messages and requests there are.     *)
(* Confirmation and extraction share the tables and these lemmas.          *)
(***************************************************************************)
EXTENDS CandidateMemory, TLAPS

(* Candidates *)

CandidateRow ==
    [status : CandidateStatuses, revision : 0..MaxRevision + 1, content : Contents \cup {Null},
     source : {"none", "manual", "conversation"}, request : Requests \cup {Null}]

\* Only a candidate that is over has a memory, and a pending one can be edited.
CandidatesSound ==
    /\ CandidateTypes /\ TablesAgree
    /\ \A c \in Candidates : Pending(c) => candidate[c].revision \in 1..MaxRevision
    /\ \A r \in memory : candidate[r.candidate].status \in {"accepted", "gone"}

-----------------------------------------------------------------------------
(* The lifecycle of candidates *)

\* What review may make of a row: a pending one is edited or ends, an ended one goes.
Follows(old, new) ==
    \/ new = old
    \/ old.status = "unborn" /\ new.status = "pending"
    \/ old.status = "pending" /\ new.status = "pending" /\ new.revision > old.revision
    \/ old.status = "pending" /\ new.status \in {"rejected", "expired", "superseded"}
    \/ old.status # "unborn" /\ new.status = "gone"

\* The row of c changes to row, and evidence and memories at most with it.
RowBecomes(c, row) ==
    /\ row \in CandidateRow /\ candidate' = [candidate EXCEPT ![c] = row]
    /\ row = candidate[c] \/ (row.status # "accepted" /\ (row.status = "pending" <=> row.content # Null))
    /\ row.status = "pending" => row.revision \in 1..MaxRevision
    /\ Follows(candidate[c], row)

TablesFollow(c, row) ==
    /\ evidence' \subseteq Candidates \X Messages
    /\ \A e \in evidence' : e[2] \in message /\ IF e[1] = c THEN row.status = "pending" ELSE e \in evidence
    /\ memory' \subseteq memory
    /\ \A r \in memory : r.candidate # c \/ row.status = "accepted" => r \in memory'
    /\ \A r \in memory' : r.candidate = c => row.status \in {"accepted", "gone"}
    /\ message' = message /\ due' \subseteq Expiring /\ scan' \subseteq Candidates \X (1..MaxRevision + 1)

LEMMA RowChange ==
  ASSUME CandidatesSound, NEW c \in Candidates, NEW row, RowBecomes(c, row), TablesFollow(c, row)
  PROVE  /\ CandidatesSound' /\ memory' \subseteq memory
         /\ \A d \in Candidates : Follows(candidate[d], candidate'[d])
<1>1. candidate \in [Candidates -> CandidateRow]
  BY DEF CandidatesSound, CandidateTypes, CandidateRow
<1>2. /\ candidate' \in [Candidates -> CandidateRow] /\ candidate'[c] = row
      /\ \A d \in Candidates \ {c} : candidate'[d] = candidate[d]
  BY <1>1 DEF RowBecomes
<1>3. \A d \in Candidates : Follows(candidate[d], candidate'[d])
  BY <1>2 DEF Follows, RowBecomes
<1>4. CandidateTypes'
  BY <1>2 DEF CandidatesSound, CandidateTypes, CandidateRow, TablesFollow
<1>5. TablesAgree'
  <2>1. \A d \in Candidates : Pending(d)' <=> candidate'[d].content # Null
    BY <1>2 DEF CandidatesSound, TablesAgree, Pending, RowBecomes
  <2>2. \A e \in evidence' : Pending(e[1])' /\ e[2] \in message'
    <3>1. \A e \in evidence' : e[1] \in Candidates
      BY DEF TablesFollow
    <3> QED
      BY <1>2, <3>1 DEF CandidatesSound, TablesAgree, Pending, TablesFollow
  <2>3. \A d \in Candidates : candidate'[d].status = "accepted" =>
          \E r \in memory' : r.candidate = d /\ r.request = candidate'[d].request
    BY <1>2 DEF CandidatesSound, TablesAgree, RowBecomes, TablesFollow
  <2>4. \A r, s \in memory' : r.candidate = s.candidate => r = s
    BY DEF CandidatesSound, TablesAgree, TablesFollow
  <2> QED
    BY <2>1, <2>2, <2>3, <2>4 DEF TablesAgree
<1>6. \A d \in Candidates : Pending(d)' => candidate'[d].revision \in 1..MaxRevision
  BY <1>2 DEF CandidatesSound, Pending, RowBecomes
<1>7. \A r \in memory' : candidate'[r.candidate].status \in {"accepted", "gone"}
  <2>1. \A r \in memory' : r.candidate \in Candidates /\ r \in memory
    BY DEF CandidatesSound, CandidateTypes, TablesFollow
  <2> QED
    BY <1>2, <2>1 DEF CandidatesSound, TablesFollow
<1> QED
  BY <1>3, <1>4, <1>5, <1>6, <1>7 DEF CandidatesSound, TablesFollow

\* Every review keeps the tables sound.
LEMMA ReviewKeeps ==
  ASSUME CandidatesSound, ReviewStep
  PROVE  /\ CandidatesSound' /\ memory' \subseteq memory
         /\ \A d \in Candidates : Follows(candidate[d], candidate'[d])
<1> DEFINE Goal == /\ CandidatesSound' /\ memory' \subseteq memory
                   /\ \A d \in Candidates : Follows(candidate[d], candidate'[d])
<1>1. /\ candidate \in [Candidates -> CandidateRow] /\ MaxRevision \in Nat \ {0}
      /\ evidence \subseteq Candidates \X Messages /\ message \subseteq Messages
      /\ memory \subseteq [candidate : Candidates, request : Requests, content : Contents]
      /\ due \subseteq Expiring /\ scan \subseteq Candidates \X (1..MaxRevision + 1)
      /\ Expiring \subseteq Candidates /\ Null \notin Contents
  BY CandidateAssumption DEF CandidatesSound, CandidateTypes, CandidateRow
<1>2. \A e \in evidence : e \in Candidates \X Messages /\ Pending(e[1]) /\ e[2] \in message
  BY <1>1 DEF CandidatesSound, TablesAgree
<1>3. \A r \in memory : r.candidate \in Candidates /\ candidate[r.candidate].status \in {"accepted", "gone"}
  BY <1>1 DEF CandidatesSound
<1>4. \A c \in Candidates : Pending(c) => candidate[c].revision \in 1..MaxRevision /\ \A r \in memory : r.candidate # c
  BY <1>3 DEF CandidatesSound, Pending
<1>5. \A c \in Candidates : candidate = [candidate EXCEPT ![c] = candidate[c]]
  BY <1>1
<1>6. ASSUME NEW c \in Candidates, NEW status \in {"rejected", "superseded", "expired"}, Pending(c),
             candidate' = [candidate EXCEPT ![c] = Reviewed(@, status)],
             evidence' = evidence \ EvidenceOf(c), UNCHANGED <<message, memory, due>>, scan' \subseteq scan
      PROVE  Goal
  <2>1. PICK row : row = Reviewed(candidate[c], status)
    OBVIOUS
  <2>2. row \in CandidateRow /\ row.status = status /\ row.content = Null
    <3>1. candidate[c] \in CandidateRow /\ candidate[c].revision + 1 \in 0..MaxRevision + 1
      BY <1>1, <1>4, <1>6
    <3> QED
      BY <2>1, <3>1 DEF Reviewed, CandidateRow, CandidateStatuses
  <2>3. candidate' = [candidate EXCEPT ![c] = row]
    BY <1>1, <1>6, <2>1
  <2>4. Follows(candidate[c], row)
    BY <1>6, <2>2 DEF Follows, Pending
  <2>5. \A e \in evidence' : e[1] # c /\ e \in evidence
    BY <1>6 DEF EvidenceOf
  <2>20. RowBecomes(c, row)
    BY <1>1, <1>2, <1>4, <1>6, <2>2, <2>3, <2>4, <2>5 DEF RowBecomes
  <2>21. TablesFollow(c, row)
    BY <1>1, <1>2, <1>4, <1>6, <2>2, <2>3, <2>4, <2>5 DEF TablesFollow
  <2> QED
    BY <2>20, <2>21, RowChange
<1>7. ASSUME NEW c \in Candidates, candidate[c].status \notin {"unborn", "gone"}, Gone(c),
             evidence' = evidence \ EvidenceOf(c), UNCHANGED <<message, due, scan>>,
             memory' \subseteq memory, \A r \in memory : r.candidate # c => r \in memory'
      PROVE  Goal
  <2>1. PICK row : row = [Unborn EXCEPT !.status = "gone"]
    OBVIOUS
  <2>2. row \in CandidateRow /\ row.status = "gone" /\ row.content = Null
    BY <1>1, <2>1 DEF Unborn, CandidateRow, CandidateStatuses
  <2>3. candidate' = [candidate EXCEPT ![c] = row]
    BY <1>7, <2>1 DEF Gone
  <2>4. Follows(candidate[c], row)
    BY <1>7, <2>2 DEF Follows
  <2>5. \A e \in evidence' : e[1] # c /\ e \in evidence
    BY <1>7 DEF EvidenceOf
  <2>20. RowBecomes(c, row)
    BY <1>1, <1>2, <1>7, <2>2, <2>3, <2>4, <2>5 DEF RowBecomes
  <2>21. TablesFollow(c, row)
    BY <1>1, <1>2, <1>7, <2>2, <2>3, <2>4, <2>5 DEF TablesFollow
  <2> QED
    BY <2>20, <2>21, RowChange
<1>8. ASSUME NEW c \in Candidates, UNCHANGED <<candidate, evidence, message, memory>>,
             due' \subseteq Expiring, scan' \subseteq Candidates \X (1..MaxRevision + 1)
      PROVE  Goal
  <2>1. candidate' = [candidate EXCEPT ![c] = candidate[c]]
    BY <1>5, <1>8
  <2>2. candidate[c] \in CandidateRow /\ Follows(candidate[c], candidate[c])
    BY <1>1 DEF Follows
  <2>3. candidate[c].status = "pending" => candidate[c].revision \in 1..MaxRevision
    BY <1>4 DEF Pending
  <2>4. \A e \in evidence' : /\ e[2] \in message /\ e \in evidence
                             /\ e[1] = c => candidate[c].status = "pending"
    BY <1>2, <1>8 DEF Pending
  <2>5. \A r \in memory' : r.candidate = c => candidate[c].status \in {"accepted", "gone"}
    BY <1>3, <1>8
  <2>20. RowBecomes(c, candidate[c])
    BY <1>1, <1>8, <2>1, <2>2, <2>3, <2>4, <2>5 DEF RowBecomes
  <2>21. TablesFollow(c, candidate[c])
    BY <1>1, <1>8, <2>1, <2>2, <2>3, <2>4, <2>5 DEF TablesFollow
  <2> QED
    BY <2>20, <2>21, RowChange
<1>9. ASSUME NEW c \in Candidates, NEW content \in Contents, InsertCandidate(c, content)
      PROVE  Goal
  <2>1. PICK row : row = Proposed(content, "manual")
    OBVIOUS
  <2>2. /\ row \in CandidateRow /\ row.status = "pending" /\ row.content = content
        /\ row.revision = 1 /\ content # Null
    BY <1>1, <2>1 DEF Proposed, CandidateRow, CandidateStatuses
  <2>3. /\ candidate' = [candidate EXCEPT ![c] = row] /\ candidate[c].status = "unborn"
        /\ UNCHANGED <<evidence, message, memory, due, scan>>
    BY <1>9, <2>1 DEF InsertCandidate
  <2>4. Follows(candidate[c], row)
    BY <2>2, <2>3 DEF Follows
  <2>5. \A r \in memory' : r.candidate # c
    BY <1>3, <2>3
  <2>20. RowBecomes(c, row)
    BY <1>1, <1>2, <2>2, <2>3, <2>4, <2>5 DEF RowBecomes
  <2>21. TablesFollow(c, row)
    BY <1>1, <1>2, <2>2, <2>3, <2>4, <2>5 DEF TablesFollow
  <2> QED
    BY <2>20, <2>21, RowChange
<1>10. ASSUME NEW c \in Candidates, NEW seen, NEW content \in Contents, EditCandidate(c, seen, content)
       PROVE  Goal
  <2>1. PICK row : row = [candidate[c] EXCEPT !.content = content, !.revision = @ + 1]
    OBVIOUS
  <2>2. Pending(c) /\ candidate[c].revision < MaxRevision /\ candidate[c].revision \in 1..MaxRevision
    BY <1>4, <1>10 DEF EditCandidate, EnsurePendingRevision
  <2>3. /\ row \in CandidateRow /\ row.status = "pending" /\ row.content = content
        /\ row.revision = candidate[c].revision + 1 /\ content # Null
    <3>1. candidate[c] \in CandidateRow /\ candidate[c].revision + 1 \in 0..MaxRevision + 1 /\ content # Null
      BY <1>1, <2>2
    <3> QED
      BY <2>1, <2>2, <3>1 DEF CandidateRow, Pending
  <2>4. candidate' = [candidate EXCEPT ![c] = row] /\ UNCHANGED <<evidence, message, memory, due, scan>>
    BY <1>1, <1>10, <2>1 DEF EditCandidate
  <2>5. Follows(candidate[c], row) /\ row.revision \in 1..MaxRevision
    BY <1>1, <2>2, <2>3 DEF Follows, Pending
  <2>6. \A r \in memory' : r.candidate # c
    BY <1>4, <2>2, <2>4
  <2>20. RowBecomes(c, row)
    BY <1>1, <1>2, <2>3, <2>4, <2>5, <2>6 DEF RowBecomes
  <2>21. TablesFollow(c, row)
    BY <1>1, <1>2, <2>3, <2>4, <2>5, <2>6 DEF TablesFollow
  <2> QED
    BY <2>20, <2>21, RowChange
<1>11. ASSUME NEW c \in Candidates, NEW m \in Messages, AddEvidence(c, m)
       PROVE  Goal
  <2>1. PICK row : row = [candidate[c] EXCEPT !.revision = @ + 1]
    OBVIOUS
  <2>2. Pending(c) /\ candidate[c].revision < MaxRevision /\ candidate[c].revision \in 1..MaxRevision
    BY <1>4, <1>11 DEF AddEvidence
  <2>3. /\ row \in CandidateRow /\ row.status = "pending" /\ row.content = candidate[c].content
        /\ row.revision = candidate[c].revision + 1 /\ row.content # Null
    BY <1>1, <2>1, <2>2 DEF CandidateRow, Pending, CandidatesSound, TablesAgree
  <2>4. /\ candidate' = [candidate EXCEPT ![c] = row] /\ evidence' = evidence \cup {<<c, m>>}
        /\ m \in message /\ UNCHANGED <<message, memory, due, scan>>
    BY <1>1, <1>11, <2>1 DEF AddEvidence
  <2>5. Follows(candidate[c], row) /\ row.revision \in 1..MaxRevision
    BY <1>1, <2>2, <2>3 DEF Follows, Pending
  <2>6. \A r \in memory' : r.candidate # c
    BY <1>4, <2>2, <2>4
  <2>7. /\ evidence' \subseteq Candidates \X Messages
        /\ \A e \in evidence' : e[2] \in message /\ (e[1] # c => e \in evidence)
    BY <1>1, <1>2, <2>4
  <2>20. RowBecomes(c, row)
    BY <1>1, <2>3, <2>4, <2>5, <2>6, <2>7 DEF RowBecomes
  <2>21. TablesFollow(c, row)
    BY <1>1, <2>3, <2>4, <2>5, <2>6, <2>7 DEF TablesFollow
  <2> QED
    BY <2>20, <2>21, RowChange
<1>12. ASSUME NEW c \in Candidates, NEW seen, NEW d \in Candidates,
              RejectCandidate(c, seen) \/ SupersedeCandidate(c, seen, d)
       PROVE  Goal
  BY <1>6, <1>12 DEF RejectCandidate, SupersedeCandidate, EnsurePendingRevision
<1>13. ASSUME NEW c \in Candidates, NEW seen, DeleteCandidate(c, seen)
       PROVE  Goal
  BY <1>7, <1>13 DEF DeleteCandidate
<1>14. ASSUME NEW r \in memory, DeleteMemory(r)
       PROVE  Goal
  <2>1. PICK c \in Candidates : c = r.candidate
    BY <1>3
  <2>2. CASE candidate[c].status = "accepted"
    <3>1. EvidenceOf(c) = {}
      BY <1>2, <2>2 DEF EvidenceOf, Pending
    <3>2. evidence' = evidence \ EvidenceOf(c)
      BY <1>14, <3>1 DEF DeleteMemory
    <3> QED
      BY <1>7, <1>14, <2>1, <2>2, <3>2 DEF DeleteMemory
  <2>3. CASE candidate[c].status = "gone"
    <3>1. PICK row : row = [Unborn EXCEPT !.status = "gone"]
      OBVIOUS
    <3>2. row \in CandidateRow /\ row.status = "gone" /\ row.content = Null
      BY <1>1, <3>1 DEF Unborn, CandidateRow, CandidateStatuses
    <3>3. /\ candidate' = [candidate EXCEPT ![c] = row] /\ memory' = memory \ {r}
          /\ UNCHANGED <<evidence, message, due, scan>>
      BY <1>14, <2>1, <3>1 DEF DeleteMemory, Gone
    <3>4. Follows(candidate[c], row)
      BY <2>3, <3>2 DEF Follows
    <3>5. \A e \in evidence' : e[1] # c /\ e \in evidence
      BY <1>2, <2>3, <3>3 DEF Pending
    <3>20. RowBecomes(c, row)
      BY <1>1, <2>1, <3>2, <3>3, <3>4, <3>5 DEF RowBecomes
    <3>6. memory' \subseteq memory /\ \A s \in memory : s.candidate # c => s \in memory'
      BY <2>1, <3>3
    <3>7. \A e \in evidence' : e[2] \in message
      BY <1>2, <3>3
    <3>21. TablesFollow(c, row)
      BY <1>1, <3>2, <3>3, <3>5, <3>6, <3>7 DEF TablesFollow
    <3> QED
      BY <3>20, <3>21, RowChange
  <2> QED
    BY <1>3, <2>1, <2>2, <2>3
<1>15. ASSUME NEW c \in Candidates, ExpiryPasses(c)
       PROVE  Goal
  BY <1>1, <1>8, <1>15 DEF ExpiryPasses
<1>16. CASE ScanExpired
  <2>1. PICK c \in Candidates : c \in due
    BY <1>1, <1>16 DEF ScanExpired
  <2>2. \A d \in due : Pending(d) => <<d, candidate[d].revision>> \in Candidates \X (1..MaxRevision + 1)
    BY <1>1, <1>4
  <2> QED
    BY <1>1, <1>8, <1>16, <2>1, <2>2 DEF ScanExpired
<1>17. ASSUME NEW s \in scan, ExpireCandidate(s)
       PROVE  Goal
  <2>1. PICK c \in Candidates : c = s[1]
    BY <1>1
  <2>2. CASE EnsurePendingRevision(s[1], s[2])
    BY <1>6, <1>17, <2>1, <2>2 DEF ExpireCandidate, EnsurePendingRevision
  <2>3. CASE ~EnsurePendingRevision(s[1], s[2])
    BY <1>1, <1>8, <1>17, <2>1, <2>3 DEF ExpireCandidate
  <2> QED
    BY <2>2, <2>3
<1> QED
  BY <1>9, <1>10, <1>11, <1>12, <1>13, <1>14, <1>15, <1>16, <1>17 DEF ReviewStep

\* A candidate of the conversation that is still pending after a review was so before, and
\* has the evidence it had.
LEMMA ReviewKeepsEvidence ==
  ASSUME CandidatesSound, ReviewStep
  PROVE  /\ message' = message
         /\ \A c \in Candidates : Pending(c)' /\ candidate'[c].source = "conversation" =>
              /\ Pending(c) /\ candidate[c].source = "conversation"
              /\ \A e \in EvidenceOf(c) : e \in evidence'
<1> DEFINE Kept == \A c \in Candidates : candidate'[c].status = "pending" /\ candidate'[c].source = "conversation" =>
                     /\ candidate[c].status = "pending" /\ candidate[c].source = "conversation"
                     /\ \A e \in evidence : e[1] = c => e \in evidence'
<1>1. candidate \in [Candidates -> CandidateRow]
  BY DEF CandidatesSound, CandidateTypes, CandidateRow
<1>2. ASSUME NEW c \in Candidates, NEW row, candidate' = [candidate EXCEPT ![c] = row], row.status # "pending",
             \A e \in evidence : e[1] # c => e \in evidence'
      PROVE  Kept
  BY <1>1, <1>2
<1>3. ASSUME NEW c \in Candidates, NEW row, candidate' = [candidate EXCEPT ![c] = row],
             row.source = "conversation" => row.source = candidate[c].source /\ candidate[c].status = "pending",
             \A e \in evidence : e \in evidence'
      PROVE  Kept
  BY <1>1, <1>3
<1>4. ASSUME NEW c \in Candidates, NEW status \in {"rejected", "superseded", "expired"},
             candidate' = [candidate EXCEPT ![c] = Reviewed(@, status)], evidence' = evidence \ EvidenceOf(c)
      PROVE  Kept
  <2>1. PICK row : row = Reviewed(candidate[c], status)
    OBVIOUS
  <2>2. row.status # "pending" /\ candidate' = [candidate EXCEPT ![c] = row]
    BY <1>1, <1>4, <2>1 DEF Reviewed, CandidateRow
  <2> QED
    BY <1>2, <1>4, <2>2 DEF EvidenceOf
<1>5. ASSUME NEW c \in Candidates, Gone(c), \A e \in evidence : e[1] # c => e \in evidence'
      PROVE  Kept
  <2>1. PICK row : row = [Unborn EXCEPT !.status = "gone"]
    OBVIOUS
  <2>2. row.status # "pending" /\ candidate' = [candidate EXCEPT ![c] = row]
    BY <1>5, <2>1 DEF Gone, Unborn
  <2> QED
    BY <1>2, <1>5, <2>2
<1>6. ASSUME UNCHANGED <<candidate, evidence>>
      PROVE  Kept
  BY <1>6
<1>7. ASSUME NEW c \in Candidates, NEW content \in Contents, InsertCandidate(c, content)
      PROVE  Kept
  <2>1. PICK row : row = Proposed(content, "manual")
    OBVIOUS
  <2>2. row.source = "manual" /\ candidate' = [candidate EXCEPT ![c] = row] /\ evidence' = evidence
    BY <1>7, <2>1 DEF InsertCandidate, Proposed
  <2> QED
    BY <1>3, <2>2
<1>8. ASSUME NEW c \in Candidates, NEW seen, NEW content \in Contents, EditCandidate(c, seen, content)
      PROVE  Kept
  <2>1. PICK row : row = [candidate[c] EXCEPT !.content = content, !.revision = @ + 1]
    OBVIOUS
  <2>2. row.source = candidate[c].source /\ candidate' = [candidate EXCEPT ![c] = row] /\ evidence' = evidence
    BY <1>1, <1>8, <2>1 DEF EditCandidate, CandidateRow
  <2> QED
    BY <1>3, <1>8, <2>2 DEF EditCandidate, EnsurePendingRevision, Pending
<1>9. ASSUME NEW c \in Candidates, NEW m \in Messages, AddEvidence(c, m)
      PROVE  Kept
  <2>1. PICK row : row = [candidate[c] EXCEPT !.revision = @ + 1]
    OBVIOUS
  <2>2. row.source = candidate[c].source /\ candidate' = [candidate EXCEPT ![c] = row]
    BY <1>1, <1>9, <2>1 DEF AddEvidence, CandidateRow
  <2> QED
    BY <1>3, <1>9, <2>2 DEF AddEvidence, Pending
<1>10. ASSUME NEW s \in scan, ExpireCandidate(s)
       PROVE  Kept
  <2>1. PICK c \in Candidates : c = s[1]
    BY DEF CandidatesSound, CandidateTypes
  <2>2. CASE EnsurePendingRevision(s[1], s[2])
    BY <1>4, <1>10, <2>1, <2>2 DEF ExpireCandidate
  <2>3. CASE ~EnsurePendingRevision(s[1], s[2])
    BY <1>6, <1>10, <2>3 DEF ExpireCandidate
  <2> QED
    BY <2>2, <2>3
<1>11. ASSUME NEW r \in memory, DeleteMemory(r)
       PROVE  Kept
  BY <1>5, <1>11 DEF DeleteMemory, CandidatesSound, CandidateTypes
<1>12. ASSUME NEW c \in Candidates, NEW seen, RejectCandidate(c, seen) \/ DeleteCandidate(c, seen)
       PROVE  Kept
  BY <1>4, <1>5, <1>12 DEF RejectCandidate, DeleteCandidate, EvidenceOf
<1>13. ASSUME NEW c \in Candidates, NEW d \in Candidates, NEW seen, SupersedeCandidate(c, seen, d)
       PROVE  Kept
  BY <1>4, <1>13 DEF SupersedeCandidate
<1>14. ASSUME ScanExpired \/ \E c \in Candidates : ExpiryPasses(c)
       PROVE  Kept
  BY <1>6, <1>14 DEF ScanExpired, ExpiryPasses
<1>15. Kept
  <2> HIDE DEF Kept
  <2> QED
    BY <1>7, <1>8, <1>9, <1>10, <1>11, <1>12, <1>13, <1>14 DEF ReviewStep
<1>16. message' = message
  BY DEF ReviewStep, InsertCandidate, EditCandidate, RejectCandidate, SupersedeCandidate, DeleteCandidate,
         AddEvidence, ExpiryPasses, ScanExpired, ExpireCandidate, DeleteMemory
<1> QED
  BY <1>15, <1>16 DEF Pending, EvidenceOf

==============================================================================
