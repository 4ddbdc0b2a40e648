-------------------------- MODULE ChangeLog_proofs --------------------------
(* Proofs about ChangeLog, for all sets of devices and tabs and all bounds:  *)
(* no operation is stored twice or out of sequence, none is deleted before   *)
(* the active devices have it, and the snapshot revision gate holds.         *)
EXTENDS ChangeLog, WellFoundedInduction, TLAPS

-----------------------------------------------------------------------------
(* The strengthened invariant.                                               *)

\* A device that was never in the vault left nothing in it and asked for nothing.
OutsideFresh ==
    \A d \in Devices : status[d] = "outside" =>
        /\ ack[d] = None /\ snapRequest[d] = None
        /\ \A t \in Tabs : upload[d][t] = None /\ ackRequest[d][t] = None
        /\ \A c \in Cursors : issued[c].dev # d

\* Snapshots, and those about to be committed, cover what was issued; a device
\* is never ahead of the current snapshot.
SnapshotsFit ==
    /\ snapshot.covers <= Len(issued) /\ snapshot.epoch >= 1
    /\ \A d \in Devices :
          /\ revision[d] <= snapshot.rev
          /\ snapRequest[d] # None =>
                /\ snapRequest[d].rev <= snapshot.rev + 1
                /\ snapRequest[d].epoch <= epoch
                /\ snapRequest[d].covers <= Len(issued)

\* An acknowledgement, written or about to be, is behind the device itself; a
\* cursor about to be compacted to was issued.
AcksBehind ==
    \A d \in Devices :
       /\ ack[d] # None => ack[d].cursor <= known[d] /\ ack[d].rev <= revision[d]
       /\ \A t \in Tabs :
             /\ At(d, t, "write") => /\ ackRequest[d][t].cursor <= known[d]
                                     /\ ackRequest[d][t].rev <= revision[d]
             /\ At(d, t, "compact") => ackRequest[d][t].cursor <= Len(issued)

\* A snapshot that would be committed now was checked against the snapshot
\* that is still current, and what the check found still holds.
GateHeld ==
    \A d \in Devices : snapRequest[d] # None /\ CommitCurrent(d) /\ snapshot.epoch = epoch =>
        \A m \in Members : revision[m] >= snapshot.rev

\* A device has what it has read, except what was compacted before it came.
HeldToKnown == \A d \in Devices : \A c \in 1..known[d] : c \in holds[d] \cup late[d]

\* What is compacted, or about to be, every device that counts has.
DoomedWereRead == \A d \in Counted : Doomed \subseteq holds[d] \cup late[d]

\* The sequence numbers of the operations issued and in flight.
SequencesFit ==
    /\ \A c \in Cursors : /\ issued[c].seq <= sent[issued[c].dev] + 1
                          /\ issued[c].seq <= Len(issued)
    /\ \A d \in Devices, t \in Tabs : upload[d][t] # None =>
          /\ upload[d][t].dev = d
          /\ upload[d][t].seq <= sent[d] + 1
          /\ upload[d][t].seq <= Len(issued) + 1

\* What a device holds of its own was answered.
OwnAnswered ==
    \A d \in Devices : \A c \in holds[d] : issued[c].dev = d => issued[c].seq <= sent[d]

Kept(op) == \E k \in Cursors \ expired : issued[k] = op

\* While an upload is in flight nothing expires: a row that holds its operation
\* stays, one does when the device has had its answer, and one does unless the
\* operation still comes after all the device has stored.
UploadsFit ==
    \A d \in Devices, t \in Tabs : upload[d][t] # None =>
        /\ \A c \in expired : issued[c] = upload[d][t] => c \in gone
        /\ upload[d][t].seq <= sent[d] => Kept(upload[d][t])
        /\ \A c \in Cursors : issued[c].dev = d /\ c \notin late[d] =>
              issued[c].seq < upload[d][t].seq \/ Kept(upload[d][t])

IInv ==
    /\ TypeOK /\ OutsideFresh /\ SnapshotsFit /\ AcksBehind
    /\ GateHeld /\ RevisionGapBounded
    /\ HeldToKnown /\ DoomedWereRead
    /\ SequencesFit /\ OwnAnswered /\ UploadsFit /\ StoredOnceInOrder

-----------------------------------------------------------------------------
(* Smallest and largest numbers.                                             *)

\* A set of natural numbers that is not empty has a smallest one.
LEMMA MinIs ==
    ASSUME NEW S, S \subseteq Nat, S # {}
    PROVE  Min(S) \in S /\ \A y \in S : Min(S) <= y
<1> DEFINE R == {ss \in Nat \X Nat : ss[1] < ss[2]}
<1>1. \A x, y \in Nat : <<y, x>> \in R <=> y < x
  OBVIOUS
<1>2. IsWellFoundedOn(R, Nat)
  BY NatLessThanWellFounded, Zenon DEF OpToRel
<1> HIDE DEF R
<1>3. \E x \in S : \A y \in S : ~(<<y, x>> \in R)
  BY <1>2, WFMin
<1>4. PICK x \in S : \A y \in S : ~(<<y, x>> \in R)
  BY <1>3
<1>5. \A y \in S : x <= y
  <2> TAKE y \in S
  <2>1. x \in Nat /\ y \in Nat /\ ~(y < x)
    BY <1>1, <1>4
  <2> QED
    BY <2>1
<1> QED
  BY <1>5 DEF Min

\* A bounded set of natural numbers that is not empty has a largest one.
LEMMA MaxIs ==
    ASSUME NEW S, S \subseteq Nat, S # {}, NEW n \in Nat, \A x \in S : x <= n
    PROVE  Max(S) \in S /\ \A y \in S : y <= Max(S)
<1> DEFINE T == {n - x : x \in S}
<1>0. \A x \in S : x \in Nat /\ n - x \in Nat
  OBVIOUS
<1>1. T \subseteq Nat /\ T # {}
  BY <1>0
<1> DEFINE m == Min(T)
<1>2. m \in T /\ \A y \in T : m <= y
  <2> HIDE DEF T
  <2> QED
    BY <1>1, MinIs
<1>3. PICK x \in S : m = n - x
  BY <1>2
<1>4. \A y \in S : y <= x
  <2> TAKE y \in S
  <2>1. n - y \in T
    OBVIOUS
  <2>2. n - x <= n - y
    BY <1>2, <1>3, <2>1
  <2>3. x \in Nat /\ y \in Nat
    OBVIOUS
  <2> QED
    BY <2>2, <2>3
<1> QED
  BY <1>4 DEF Max

-----------------------------------------------------------------------------
(* Which actions change which variable.                                      *)

\* What each action leaves as it is.
LEMMA Leaves ==
    /\ \A d, t : UploadCheck(d, t) =>
          UNCHANGED <<issued, compacted, expired, gone, status, ack, epoch, snapshot,
                      ackRequest, snapRequest, sent, known, holds, revision, late, changes>>
    /\ \A d, t : UploadInsert(d, t) =>
          UNCHANGED <<compacted, expired, gone, status, ack, epoch, snapshot,
                      ackRequest, snapRequest, known, revision, late, changes>>
    /\ \A d, t : AckCheck(d, t) =>
          UNCHANGED <<issued, compacted, expired, gone, status, ack, epoch, snapshot,
                      upload, snapRequest, sent, known, holds, revision, late, changes>>
    /\ \A d, t : AckWrite(d, t) =>
          UNCHANGED <<issued, compacted, expired, gone, status, epoch, snapshot, upload,
                      snapRequest, sent, known, holds, revision, late, changes>>
    /\ \A d, t : AckFrontier(d, t) =>
          UNCHANGED <<issued, compacted, expired, gone, status, ack, epoch, snapshot,
                      upload, snapRequest, sent, known, holds, revision, late, changes>>
    /\ \A d, t : AckCompact(d, t) =>
          UNCHANGED <<issued, expired, gone, status, ack, epoch, snapshot, upload,
                      snapRequest, sent, known, holds, revision, late, changes>>
    /\ \A d, t : RequestDies(d, t) =>
          UNCHANGED <<issued, compacted, expired, gone, status, ack, epoch, snapshot,
                      snapRequest, sent, known, holds, revision, late, changes>>
    /\ \A d : UploadRetry(d) =>
          UNCHANGED <<issued, compacted, expired, gone, status, ack, epoch, snapshot,
                      upload, ackRequest, snapRequest, known, revision, late, changes>>
    /\ \A d : Pull(d) =>
          UNCHANGED <<issued, compacted, expired, gone, status, ack, epoch, snapshot,
                      upload, ackRequest, snapRequest, sent, revision, late, changes>>
    /\ \A d : SnapshotCheck(d) =>
          UNCHANGED <<issued, compacted, expired, gone, status, ack, epoch, snapshot,
                      upload, ackRequest, sent, known, holds, revision, late, changes>>
    /\ \A d : SnapshotCommit(d) =>
          UNCHANGED <<issued, compacted, expired, gone, status, ack, epoch, upload,
                      ackRequest, sent, known, holds, late, changes>>
    /\ \A d : SnapshotAccept(d) =>
          UNCHANGED <<issued, compacted, expired, gone, status, ack, epoch, snapshot,
                      upload, ackRequest, snapRequest, sent, known, holds, late, changes>>
    /\ \A d : Join(d) =>
          UNCHANGED <<issued, compacted, expired, gone, ack, epoch, snapshot, upload,
                      ackRequest, snapRequest, sent>>
    /\ \A d : Revoke(d) =>
          UNCHANGED <<issued, compacted, expired, gone, ack, snapshot, upload,
                      ackRequest, snapRequest, sent, known, holds, revision, late>>
    /\ \A d : Lapse(d) =>
          UNCHANGED <<issued, compacted, expired, gone, ack, epoch, snapshot, upload,
                      ackRequest, snapRequest, sent, known, holds, revision, late>>
    /\ \A d : Renew(d) =>
          UNCHANGED <<issued, compacted, expired, gone, ack, epoch, snapshot, upload,
                      ackRequest, snapRequest, sent, known, holds, revision>>
    /\ RetentionPasses =>
          UNCHANGED <<issued, compacted, gone, status, ack, epoch, snapshot, upload,
                      ackRequest, snapRequest, sent, known, holds, revision, late, changes>>
    /\ Cleanup =>
          UNCHANGED <<issued, compacted, expired, status, ack, epoch, snapshot, upload,
                      ackRequest, snapRequest, sent, known, holds, revision, late, changes>>
<1>1. \A d, t : UploadCheck(d, t) =>
        UNCHANGED <<issued, compacted, expired, gone, status, ack, epoch, snapshot,
                    ackRequest, snapRequest, sent, known, holds, revision, late, changes>>
  BY DEF UploadCheck, d1, requests, clients
<1>2. \A d, t : UploadInsert(d, t) =>
        UNCHANGED <<compacted, expired, gone, status, ack, epoch, snapshot, ackRequest,
                    snapRequest, known, revision, late, changes>>
  BY DEF UploadInsert, Answered, d1, requests, clients
<1>3. \A d, t : AckCheck(d, t) =>
        UNCHANGED <<issued, compacted, expired, gone, status, ack, epoch, snapshot,
                    upload, snapRequest, sent, known, holds, revision, late, changes>>
  BY DEF AckCheck, d1, requests, clients
<1>4. \A d, t : AckWrite(d, t) =>
        UNCHANGED <<issued, compacted, expired, gone, status, epoch, snapshot, upload,
                    snapRequest, sent, known, holds, revision, late, changes>>
  BY DEF AckWrite, EndAck, d1, requests, clients
<1>5. \A d, t : AckFrontier(d, t) =>
        UNCHANGED <<issued, compacted, expired, gone, status, ack, epoch, snapshot,
                    upload, snapRequest, sent, known, holds, revision, late, changes>>
  BY DEF AckFrontier, EndAck, d1, requests, clients
<1>6. \A d, t : AckCompact(d, t) =>
        UNCHANGED <<issued, expired, gone, status, ack, epoch, snapshot, upload,
                    snapRequest, sent, known, holds, revision, late, changes>>
  BY DEF AckCompact, EndAck, d1, requests, clients
<1>7. \A d, t : RequestDies(d, t) =>
        UNCHANGED <<issued, compacted, expired, gone, status, ack, epoch, snapshot,
                    snapRequest, sent, known, holds, revision, late, changes>>
  BY DEF RequestDies, EndAck, d1, requests, clients
<1>8. \A d : UploadRetry(d) =>
        UNCHANGED <<issued, compacted, expired, gone, status, ack, epoch, snapshot,
                    upload, ackRequest, snapRequest, known, revision, late, changes>>
  BY DEF UploadRetry, Answered, d1, requests, clients
<1>9. \A d : Pull(d) =>
        UNCHANGED <<issued, compacted, expired, gone, status, ack, epoch, snapshot,
                    upload, ackRequest, snapRequest, sent, revision, late, changes>>
  BY DEF Pull, d1, requests, clients
<1>10. \A d : SnapshotCheck(d) =>
        UNCHANGED <<issued, compacted, expired, gone, status, ack, epoch, snapshot,
                    upload, ackRequest, sent, known, holds, revision, late, changes>>
  BY DEF SnapshotCheck, d1, requests, clients
<1>11. \A d : SnapshotCommit(d) =>
        UNCHANGED <<issued, compacted, expired, gone, status, ack, epoch, upload,
                    ackRequest, sent, known, holds, late, changes>>
  BY DEF SnapshotCommit, d1, requests, clients
<1>12. \A d : SnapshotAccept(d) =>
        UNCHANGED <<issued, compacted, expired, gone, status, ack, epoch, snapshot,
                    upload, ackRequest, snapRequest, sent, known, holds, late, changes>>
  BY DEF SnapshotAccept, d1, requests, clients
<1>13. \A d : Join(d) =>
        UNCHANGED <<issued, compacted, expired, gone, ack, epoch, snapshot, upload,
                    ackRequest, snapRequest, sent>>
  BY DEF Join, Change, d1, requests, clients
<1>14. \A d : Revoke(d) =>
        UNCHANGED <<issued, compacted, expired, gone, ack, snapshot, upload, ackRequest,
                    snapRequest, sent, known, holds, revision, late>>
  BY DEF Revoke, Change, d1, requests, clients
<1>15. \A d : Lapse(d) =>
        UNCHANGED <<issued, compacted, expired, gone, ack, epoch, snapshot, upload,
                    ackRequest, snapRequest, sent, known, holds, revision, late>>
  BY DEF Lapse, Change, d1, requests, clients
<1>16. \A d : Renew(d) =>
        UNCHANGED <<issued, compacted, expired, gone, ack, epoch, snapshot, upload,
                    ackRequest, snapRequest, sent, known, holds, revision>>
  BY DEF Renew, Change, d1, requests, clients
<1>17. RetentionPasses =>
        UNCHANGED <<issued, compacted, gone, status, ack, epoch, snapshot, upload,
                    ackRequest, snapRequest, sent, known, holds, revision, late, changes>>
  BY DEF RetentionPasses, d1, requests, clients
<1>18. Cleanup =>
        UNCHANGED <<issued, compacted, expired, status, ack, epoch, snapshot, upload,
                    ackRequest, snapRequest, sent, known, holds, revision, late, changes>>
  BY DEF Cleanup, d1, requests, clients
<1> QED
  BY <1>1, <1>2, <1>3, <1>4, <1>5, <1>6, <1>7, <1>8, <1>9,
     <1>10, <1>11, <1>12, <1>13, <1>14, <1>15, <1>16, <1>17, <1>18

\* Operations are issued by inserts only.
LEMMA IssuedFrame ==
    ASSUME Next
    PROVE  \/ issued' = issued
           \/ \E d \in Devices, t \in Tabs : UploadInsert(d, t)
  BY Leaves DEF Next, RequestStep, DeviceStep, MemberStep

\* Rows are compacted by acknowledgements only.
LEMMA CompactedFrame ==
    ASSUME Next
    PROVE  \/ compacted' = compacted
           \/ \E d \in Devices, t \in Tabs : AckCompact(d, t)
  BY Leaves DEF Next, RequestStep, DeviceStep, MemberStep

\* Rows expire only when the retention has passed.
LEMMA ExpiredFrame ==
    ASSUME Next
    PROVE  \/ expired' = expired
           \/ RetentionPasses
  BY Leaves DEF Next, RequestStep, DeviceStep, MemberStep

\* Rows are deleted by the cleanup only.
LEMMA GoneFrame ==
    ASSUME Next
    PROVE  \/ gone' = gone
           \/ Cleanup
  BY Leaves DEF Next, RequestStep, DeviceStep, MemberStep

\* The membership changes only by its own steps.
LEMMA StatusFrame ==
    ASSUME Next
    PROVE  \/ status' = status
           \/ \E d \in Devices : Join(d)
           \/ \E d \in Devices : Revoke(d)
           \/ \E d \in Devices : Lapse(d)
           \/ \E d \in Devices : Renew(d)
  BY Leaves DEF Next, RequestStep, DeviceStep, MemberStep

\* Acknowledgements are written by one statement.
LEMMA AckFrame ==
    ASSUME Next
    PROVE  \/ ack' = ack
           \/ \E d \in Devices, t \in Tabs : AckWrite(d, t)
  BY Leaves DEF Next, RequestStep, DeviceStep, MemberStep

\* Only a revocation starts an epoch.
LEMMA EpochFrame ==
    ASSUME Next
    PROVE  \/ epoch' = epoch
           \/ \E d \in Devices : Revoke(d)
  BY Leaves DEF Next, RequestStep, DeviceStep, MemberStep

\* Only a commit replaces the snapshot.
LEMMA SnapshotFrame ==
    ASSUME Next
    PROVE  \/ snapshot' = snapshot
           \/ \E d \in Devices : SnapshotCommit(d)
  BY Leaves DEF Next, RequestStep, DeviceStep, MemberStep

\* Uploads start, insert or die.
LEMMA UploadFrame ==
    ASSUME Next
    PROVE  \/ upload' = upload
           \/ \E d \in Devices, t \in Tabs : UploadCheck(d, t)
           \/ \E d \in Devices, t \in Tabs : UploadInsert(d, t)
           \/ \E d \in Devices, t \in Tabs : RequestDies(d, t)
  BY Leaves DEF Next, RequestStep, DeviceStep, MemberStep

\* Acknowledgement requests move by their own statements.
LEMMA AckRequestFrame ==
    ASSUME Next
    PROVE  \/ ackRequest' = ackRequest
           \/ \E d \in Devices, t \in Tabs : AckCheck(d, t)
           \/ \E d \in Devices, t \in Tabs : AckWrite(d, t)
           \/ \E d \in Devices, t \in Tabs : AckFrontier(d, t)
           \/ \E d \in Devices, t \in Tabs : AckCompact(d, t)
           \/ \E d \in Devices, t \in Tabs : RequestDies(d, t)
  BY Leaves DEF Next, RequestStep, DeviceStep, MemberStep

\* Snapshot requests start and commit.
LEMMA SnapRequestFrame ==
    ASSUME Next
    PROVE  \/ snapRequest' = snapRequest
           \/ \E d \in Devices : SnapshotCheck(d)
           \/ \E d \in Devices : SnapshotCommit(d)
  BY Leaves DEF Next, RequestStep, DeviceStep, MemberStep

\* A device learns what is stored by an answer.
LEMMA SentFrame ==
    ASSUME Next
    PROVE  \/ sent' = sent
           \/ \E d \in Devices, t \in Tabs : UploadInsert(d, t)
           \/ \E d \in Devices : UploadRetry(d)
  BY Leaves DEF Next, RequestStep, DeviceStep, MemberStep

\* The changes of membership are counted.
LEMMA ChangesFrame ==
    ASSUME Next
    PROVE  \/ changes' = changes
           \/ \E d \in Devices : Join(d)
           \/ \E d \in Devices : Revoke(d)
           \/ \E d \in Devices : Lapse(d)
           \/ \E d \in Devices : Renew(d)
  BY Leaves DEF Next, RequestStep, DeviceStep, MemberStep

\* A device's cursor moves when it pulls or joins.
LEMMA KnownFrame ==
    ASSUME Next
    PROVE  \/ known' = known
           \/ \E d \in Devices : Pull(d)
           \/ \E d \in Devices : Join(d)
  BY Leaves DEF Next, RequestStep, DeviceStep, MemberStep

\* A device's data grows by answers, pulls and joining.
LEMMA HoldsFrame ==
    ASSUME Next
    PROVE  \/ holds' = holds
           \/ \E d \in Devices, t \in Tabs : UploadInsert(d, t)
           \/ \E d \in Devices : UploadRetry(d)
           \/ \E d \in Devices : Pull(d)
           \/ \E d \in Devices : Join(d)
  BY Leaves DEF Next, RequestStep, DeviceStep, MemberStep

\* A device's revision moves by commits, accepted snapshots and joining.
LEMMA RevisionFrame ==
    ASSUME Next
    PROVE  \/ revision' = revision
           \/ \E d \in Devices : SnapshotCommit(d)
           \/ \E d \in Devices : SnapshotAccept(d)
           \/ \E d \in Devices : Join(d)
  BY Leaves DEF Next, RequestStep, DeviceStep, MemberStep

\* What came too late is noted when a device comes or comes back.
LEMMA LateFrame ==
    ASSUME Next
    PROVE  \/ late' = late
           \/ \E d \in Devices : Join(d)
           \/ \E d \in Devices : Renew(d)
  BY Leaves DEF Next, RequestStep, DeviceStep, MemberStep

-----------------------------------------------------------------------------
(* What the types say, and the operators.                                    *)

\* Every part of the state is what its type says.
LEMMA Elements ==
    ASSUME TypeOK
    PROVE  /\ Len(issued) \in Nat /\ epoch \in Nat
           /\ snapshot.rev \in Nat /\ snapshot.covers \in Nat /\ snapshot.epoch \in Nat
           /\ snapshot.epoch <= epoch
           /\ \A c \in Cursors : c \in Nat /\ issued[c].dev \in Devices /\ issued[c].seq \in Nat
           /\ \A d \in Devices :
                 /\ known[d] \in Nat /\ known[d] <= Len(issued)
                 /\ revision[d] \in Nat /\ sent[d] \in Nat
                 /\ holds[d] \subseteq Cursors /\ late[d] \subseteq Cursors
                 /\ ack[d] # None => ack[d].cursor \in Nat /\ ack[d].rev \in Nat
                 /\ snapRequest[d] # None => snapRequest[d] \in SnapRequests
                 /\ \A t \in Tabs :
                       /\ upload[d][t] # None => upload[d][t] \in Operations
                       /\ ackRequest[d][t] # None => ackRequest[d][t] \in AckRequests
<1>1. Len(issued) \in Nat /\ \A c \in Cursors : c \in Nat /\ issued[c] \in Operations
  BY DEF TypeOK, Cursors
<1>2. \A c \in Cursors : issued[c].dev \in Devices /\ issued[c].seq \in Nat
  BY <1>1 DEF Operations
<1>3. /\ snapshot.rev \in Nat /\ snapshot.covers \in Nat /\ snapshot.epoch \in Nat
      /\ snapshot.epoch <= epoch /\ epoch \in Nat
  BY DEF TypeOK, SnapRequests
<1>4. ASSUME NEW d \in Devices
      PROVE  /\ known[d] \in Nat /\ known[d] <= Len(issued)
             /\ revision[d] \in Nat /\ sent[d] \in Nat
             /\ holds[d] \subseteq Cursors /\ late[d] \subseteq Cursors
  BY <1>1 DEF TypeOK
<1>5. ASSUME NEW d \in Devices
      PROVE  /\ ack[d] # None => ack[d].cursor \in Nat /\ ack[d].rev \in Nat
             /\ snapRequest[d] # None => snapRequest[d] \in SnapRequests
  BY DEF TypeOK, Acks
<1>6. ASSUME NEW d \in Devices, NEW t \in Tabs
      PROVE  /\ upload[d][t] # None => upload[d][t] \in Operations
             /\ ackRequest[d][t] # None => ackRequest[d][t] \in AckRequests
  <2>1. upload[d] \in [Tabs -> Operations \cup {None}]
    BY DEF TypeOK
  <2>2. ackRequest[d] \in [Tabs -> AckRequests \cup {None}]
    BY DEF TypeOK
  <2> QED
    BY <2>1, <2>2
<1> QED
  BY <1>1, <1>2, <1>3, <1>4, <1>5, <1>6

\* The log only grows: an operation keeps its cursor.
LEMMA LogGrows ==
    ASSUME TypeOK, Next
    PROVE  /\ issued' \in Seq(Operations) \/ \E d \in Devices, t \in Tabs : UploadInsert(d, t)
           /\ Len(issued') \in Nat /\ Len(issued) <= Len(issued')
           /\ \A c \in Cursors : c \in Cursors' /\ issued'[c] = issued[c]
           /\ Cursors \subseteq Cursors'
<1>1. issued \in Seq(Operations) /\ Len(issued) \in Nat
  BY DEF TypeOK
<1>2. CASE issued' = issued
  BY <1>1, <1>2 DEF Cursors
<1>3. CASE \E d \in Devices, t \in Tabs : UploadInsert(d, t)
  <2>1. PICK d \in Devices, t \in Tabs : UploadInsert(d, t)
    BY <1>3
  <2> DEFINE op == upload[d][t]
  <2>2. op \in Operations /\ (issued' = issued \/ issued' = Append(issued, op))
    BY <2>1, Elements DEF UploadInsert
  <2>3. CASE issued' = issued
    BY <1>1, <1>3, <2>3 DEF Cursors
  <2>4. CASE issued' = Append(issued, op)
    <3> HIDE DEF op
    <3>1. Len(issued') = Len(issued) + 1 /\ \A c \in 1..Len(issued) : issued'[c] = issued[c]
      BY <1>1, <2>2, <2>4
    <3> QED
      BY <1>1, <1>3, <3>1 DEF Cursors
  <2> QED
    BY <2>2, <2>3, <2>4
<1> QED
  BY <1>2, <1>3, IssuedFrame

\* The last cursor of a row.
LEMMA MaxCursorIs ==
    ASSUME TypeOK
    PROVE  MaxCursor \in 0..Len(issued) /\ \A c \in Rows : c <= MaxCursor
<1> DEFINE S == {0} \cup Rows
<1>1. Len(issued) \in Nat /\ S \subseteq Nat /\ S # {} /\ \A x \in S : x <= Len(issued)
  BY Elements DEF Rows, Cursors
<1>2. Max(S) \in S /\ \A y \in S : y <= Max(S)
  <2> HIDE DEF S
  <2> QED
    BY <1>1, MaxIs
<1>3. MaxCursor = Max(S)
  BY DEF MaxCursor
<1>4. \A c \in Rows : c \in S
  OBVIOUS
<1> HIDE DEF S
<1>5. Max(S) \in Nat /\ Max(S) <= Len(issued)
  BY <1>1, <1>2
<1>6. \A c \in Rows : c <= Max(S)
  BY <1>2, <1>4
<1> QED
  BY <1>1, <1>3, <1>5, <1>6

\* The last sequence number the rows hold of a device.
LEMMA LastSequenceIs ==
    ASSUME TypeOK, SequencesFit, NEW d \in Devices
    PROVE  /\ LastSequence(d) \in 0..Len(issued)
           /\ \A c \in Rows : issued[c].dev = d => issued[c].seq <= LastSequence(d)
<1> DEFINE K == {k \in Rows : issued[k].dev = d}
           S == {0} \cup {issued[c].seq : c \in K}
<1>1. \A c \in K : issued[c].seq \in Nat /\ issued[c].seq <= Len(issued)
  BY Elements DEF Rows, SequencesFit
<1>2. Len(issued) \in Nat /\ S \subseteq Nat /\ S # {} /\ \A x \in S : x <= Len(issued)
  BY <1>1, Elements
<1>3. Max(S) \in S /\ \A y \in S : y <= Max(S)
  <2> HIDE DEF S
  <2> QED
    BY <1>2, MaxIs
<1>4. LastSequence(d) = Max(S)
  BY DEF LastSequence
<1>5. \A c \in K : issued[c].seq \in S
  OBVIOUS
<1> HIDE DEF S
<1>6. Max(S) \in Nat /\ Max(S) <= Len(issued)
  BY <1>2, <1>3
<1>7. \A c \in K : issued[c].seq <= Max(S)
  BY <1>3, <1>5
<1> QED
  BY <1>2, <1>4, <1>6, <1>7

\* What may be compacted is what every device that counts has acknowledged.
LEMMA FrontierIs ==
    ASSUME TypeOK, AcksBehind, NEW rev, NEW min \in Frontier(rev)
    PROVE  /\ min \in Nat /\ min <= Len(issued)
           /\ \A d \in Counted : min <= known[d]
<1> DEFINE S == {ack[d].cursor : d \in Counted}
<1>1. Counted # {} /\ Acknowledged(rev) = Counted /\ min = Min(S)
  BY DEF Frontier
<1>2. \A d \in Counted : d \in Devices /\ ack[d] # None
  BY <1>1 DEF Acknowledged, Counted
<1>3. \A d \in Counted : /\ ack[d].cursor \in Nat /\ ack[d].cursor <= known[d]
                         /\ known[d] \in Nat /\ known[d] <= Len(issued)
  BY <1>2, Elements DEF AcksBehind
<1>4. S \subseteq Nat /\ S # {}
  BY <1>1, <1>3
<1>5. min \in S /\ \A y \in S : min <= y
  <2> HIDE DEF S
  <2> QED
    BY <1>1, <1>4, MinIs
<1>6. \A d \in Counted : min <= ack[d].cursor /\ min \in Nat
  BY <1>4, <1>5
<1>7. PICK d \in Counted : TRUE
  BY <1>1
<1>8. min \in Nat /\ min <= known[d] /\ known[d] \in Nat /\ known[d] <= Len(issued)
  BY <1>3, <1>6, <1>7
<1>9. Len(issued) \in Nat
  BY Elements
<1>10. min <= Len(issued)
  BY <1>8, <1>9
<1>11. \A e \in Counted : min <= known[e]
  <2> TAKE e \in Counted
  <2>1. min <= ack[e].cursor /\ ack[e].cursor <= known[e]
    BY <1>3, <1>6
  <2>2. ack[e].cursor \in Nat /\ known[e] \in Nat
    BY <1>3
  <2> QED
    BY <1>8, <2>1, <2>2
<1> QED
  BY <1>8, <1>10, <1>11

-----------------------------------------------------------------------------
(* How the requests move.                                                    *)

\* One request of one device is replaced.
LEMMA Replaced ==
    ASSUME NEW X, NEW f \in [Devices -> [Tabs -> X]], NEW d \in Devices, NEW t \in Tabs,
           NEW x \in X, NEW g, g = [f EXCEPT ![d][t] = x]
    PROVE  /\ g \in [Devices -> [Tabs -> X]]
           /\ g[d][t] = x
           /\ \A e \in Devices, s \in Tabs : e # d \/ s # t => g[e][s] = f[e][s]
  OBVIOUS

\* An upload is checked, and is over when it has inserted or died.
LEMMA UploadSteps ==
    ASSUME TypeOK, Next
    PROVE  /\ upload' \in [Devices -> [Tabs -> Operations \cup {None}]]
           /\ \A d \in Devices, t \in Tabs :
                 \/ upload'[d][t] = upload[d][t]
                 \/ upload'[d][t] = None
                 \/ upload'[d][t] = NextOp(d) /\ UploadCheck(d, t)
           /\ \A d \in Devices, t \in Tabs : UploadInsert(d, t) => upload'[d][t] = None
<1> DEFINE X == Operations \cup {None}
<1>1. upload \in [Devices -> [Tabs -> X]]
  BY DEF TypeOK
<1>2. CASE upload' = upload
  <2>1. ASSUME NEW d \in Devices, NEW t \in Tabs, UploadInsert(d, t)
        PROVE  upload'[d][t] = None
    BY <1>1, <2>1 DEF UploadInsert
  <2> QED
    BY <1>1, <1>2, <2>1
<1>3. CASE \E d \in Devices, t \in Tabs : UploadCheck(d, t)
  <2>1. PICK d \in Devices, t \in Tabs : UploadCheck(d, t)
    BY <1>3
  <2>2. NextOp(d) \in X
    BY Elements DEF NextOp, Operations
  <2>3. upload' = [upload EXCEPT ![d][t] = NextOp(d)]
    BY <2>1 DEF UploadCheck
  <2>4. /\ upload' \in [Devices -> [Tabs -> X]] /\ upload'[d][t] = NextOp(d)
        /\ \A e \in Devices, s \in Tabs : e # d \/ s # t => upload'[e][s] = upload[e][s]
    <3> HIDE DEF X
    <3> QED
      BY <1>1, <2>2, <2>3, Replaced
  <2>5. ASSUME NEW e \in Devices, NEW s \in Tabs, UploadInsert(e, s)
        PROVE  upload'[e][s] = None
    BY <1>1, <2>5 DEF UploadInsert
  <2> QED
    BY <2>1, <2>4, <2>5
<1>4. ASSUME NEW d \in Devices, NEW t \in Tabs, UploadInsert(d, t) \/ RequestDies(d, t),
             upload' = [upload EXCEPT ![d][t] = None]
      PROVE  /\ upload' \in [Devices -> [Tabs -> X]] /\ upload'[d][t] = None
             /\ \A e \in Devices, s \in Tabs : e # d \/ s # t => upload'[e][s] = upload[e][s]
  <2>1. None \in X
    OBVIOUS
  <2> HIDE DEF X
  <2> QED
    BY <1>1, <1>4, <2>1, Replaced
<1>5. CASE \E d \in Devices, t \in Tabs : UploadInsert(d, t)
  <2>1. PICK d \in Devices, t \in Tabs : UploadInsert(d, t)
    BY <1>5
  <2>2. upload' = [upload EXCEPT ![d][t] = None]
    BY <2>1 DEF UploadInsert
  <2>3. ASSUME NEW e \in Devices, NEW s \in Tabs, UploadInsert(e, s)
        PROVE  upload'[e][s] = None
    BY <1>1, <2>3 DEF UploadInsert
  <2> QED
    BY <1>4, <2>1, <2>2, <2>3
<1>6. CASE \E d \in Devices, t \in Tabs : RequestDies(d, t)
  <2>1. PICK d \in Devices, t \in Tabs : RequestDies(d, t)
    BY <1>6
  <2>2. upload' = upload \/ upload' = [upload EXCEPT ![d][t] = None]
    BY <2>1 DEF RequestDies
  <2>3. ASSUME NEW e \in Devices, NEW s \in Tabs, UploadInsert(e, s)
        PROVE  upload'[e][s] = None
    BY <1>1, <2>3 DEF UploadInsert
  <2> QED
    BY <1>2, <1>4, <2>1, <2>2, <2>3
<1> QED
  BY <1>2, <1>3, <1>5, <1>6, UploadFrame

\* An acknowledgement is checked, written, and takes what may be compacted.
AckMoved(d, t) ==
    \/ ackRequest'[d][t] = ackRequest[d][t]
    \/ ackRequest'[d][t] = None
    \/ /\ AckCheck(d, t)
       /\ ackRequest'[d][t] =
             [step |-> "write", cursor |-> known[d], rev |-> revision[d]]
    \/ AckWrite(d, t) /\ ackRequest'[d][t].step = "frontier"
    \/ /\ AckFrontier(d, t) /\ ackRequest'[d][t].step = "compact"
       /\ ackRequest'[d][t].cursor \in Frontier(ackRequest[d][t].rev)

\* So does every acknowledgement.
LEMMA AckRequestSteps ==
    ASSUME TypeOK, AcksBehind, Next
    PROVE  /\ ackRequest' \in [Devices -> [Tabs -> AckRequests \cup {None}]]
           /\ \A d \in Devices, t \in Tabs : AckMoved(d, t)
<1> DEFINE X == AckRequests \cup {None}
<1>1. ackRequest \in [Devices -> [Tabs -> X]] /\ None \in X
  BY DEF TypeOK
<1>2. ASSUME NEW d \in Devices, NEW t \in Tabs, NEW x \in X,
             ackRequest' = [ackRequest EXCEPT ![d][t] = x]
      PROVE  /\ ackRequest' \in [Devices -> [Tabs -> X]] /\ ackRequest'[d][t] = x
             /\ \A e \in Devices, s \in Tabs :
                   e # d \/ s # t => ackRequest'[e][s] = ackRequest[e][s]
  <2> HIDE DEF X
  <2> QED
    BY <1>1, <1>2, Replaced
<1>0. \A d \in Devices, t \in Tabs :
         ackRequest'[d][t] = ackRequest[d][t] \/ ackRequest'[d][t] = None => AckMoved(d, t)
  BY DEF AckMoved
<1>3. CASE ackRequest' = ackRequest
  BY <1>1, <1>3, <1>0
<1>4. ASSUME NEW d \in Devices, NEW t \in Tabs, EndAck(d, t)
      PROVE  /\ ackRequest' \in [Devices -> [Tabs -> X]] /\ ackRequest'[d][t] = None
             /\ \A e \in Devices, s \in Tabs :
                   e # d \/ s # t => ackRequest'[e][s] = ackRequest[e][s]
  BY <1>1, <1>2, <1>4 DEF EndAck
<1>5. CASE \E d \in Devices, t \in Tabs : AckCheck(d, t)
  <2>1. PICK d \in Devices, t \in Tabs : AckCheck(d, t)
    BY <1>5
  <2> DEFINE x == [step |-> "write", cursor |-> known[d], rev |-> revision[d]]
  <2>2. x \in X
    BY Elements DEF AckRequests
  <2>3. ackRequest' = [ackRequest EXCEPT ![d][t] = x]
    BY <2>1 DEF AckCheck
  <2> HIDE DEF x
  <2>4. /\ ackRequest' \in [Devices -> [Tabs -> X]] /\ ackRequest'[d][t] = x
        /\ \A e \in Devices, s \in Tabs :
              e # d \/ s # t => ackRequest'[e][s] = ackRequest[e][s]
    <3> HIDE DEF X
    <3> QED
      BY <1>2, <2>2, <2>3
  <2>5. AckMoved(d, t)
    BY <2>1, <2>4 DEF AckMoved, x
  <2> QED
    BY <2>4, <2>5, <1>0
<1>6. CASE \E d \in Devices, t \in Tabs : AckWrite(d, t)
  <2>1. PICK d \in Devices, t \in Tabs : AckWrite(d, t)
    BY <1>6
  <2> DEFINE x == [ackRequest[d][t] EXCEPT !.step = "frontier"]
  <2>2. ackRequest[d][t] \in AckRequests
    BY <2>1, Elements DEF AckWrite, At
  <2>3. x \in X /\ x.step = "frontier"
    BY <2>2 DEF AckRequests
  <2>4. EndAck(d, t) \/ ackRequest' = [ackRequest EXCEPT ![d][t] = x]
    BY <2>1 DEF AckWrite
  <2> HIDE DEF x
  <2>5. CASE ackRequest' = [ackRequest EXCEPT ![d][t] = x]
    <3>1. /\ ackRequest' \in [Devices -> [Tabs -> X]] /\ ackRequest'[d][t] = x
          /\ \A e \in Devices, s \in Tabs :
                e # d \/ s # t => ackRequest'[e][s] = ackRequest[e][s]
      <4> HIDE DEF X
      <4> QED
        BY <1>2, <2>3, <2>5
    <3>2. AckMoved(d, t)
      BY <2>1, <2>3, <3>1 DEF AckMoved
    <3> QED
      BY <3>1, <3>2, <1>0
  <2>6. CASE EndAck(d, t)
    BY <1>4, <1>0, <2>6
  <2> QED
    BY <2>4, <2>5, <2>6
<1>7. CASE \E d \in Devices, t \in Tabs : AckFrontier(d, t)
  <2>1. PICK d \in Devices, t \in Tabs : AckFrontier(d, t)
    BY <1>7
  <2>2. ackRequest[d][t] \in AckRequests
    BY <2>1, Elements DEF AckFrontier, At
  <2>3. CASE EndAck(d, t)
    BY <1>4, <1>0, <2>3
  <2>4. CASE \E min \in Frontier(ackRequest[d][t].rev) :
                ackRequest' = [ackRequest EXCEPT ![d][t] =
                                 [ackRequest[d][t] EXCEPT !.step = "compact", !.cursor = min]]
    <3>1. PICK min \in Frontier(ackRequest[d][t].rev) :
                ackRequest' = [ackRequest EXCEPT ![d][t] =
                                 [ackRequest[d][t] EXCEPT !.step = "compact", !.cursor = min]]
      BY <2>4
    <3>2. min \in Nat
      BY FrontierIs
    <3> DEFINE x == [ackRequest[d][t] EXCEPT !.step = "compact", !.cursor = min]
    <3>3. x \in X /\ x.step = "compact" /\ x.cursor = min
      BY <2>2, <3>2 DEF AckRequests
    <3>4. ackRequest' = [ackRequest EXCEPT ![d][t] = x]
      BY <3>1
    <3> HIDE DEF x
    <3>5. /\ ackRequest' \in [Devices -> [Tabs -> X]] /\ ackRequest'[d][t] = x
          /\ \A e \in Devices, s \in Tabs :
                e # d \/ s # t => ackRequest'[e][s] = ackRequest[e][s]
      <4> HIDE DEF X
      <4> QED
        BY <1>2, <3>3, <3>4
    <3>6. AckMoved(d, t)
      BY <2>1, <3>1, <3>3, <3>5 DEF AckMoved
    <3> QED
      BY <3>5, <3>6, <1>0
  <2> QED
    BY <2>1, <2>3, <2>4 DEF AckFrontier
<1>8. CASE \E d \in Devices, t \in Tabs : AckCompact(d, t) \/ RequestDies(d, t)
  <2>1. PICK d \in Devices, t \in Tabs : AckCompact(d, t) \/ RequestDies(d, t)
    BY <1>8
  <2>2. EndAck(d, t) \/ ackRequest' = ackRequest
    BY <2>1 DEF AckCompact, RequestDies
  <2> QED
    BY <1>3, <1>4, <1>0, <2>2
<1> QED
  BY <1>3, <1>5, <1>6, <1>7, <1>8, AckRequestFrame

\* A snapshot is checked, and over when it commits.
LEMMA SnapRequestSteps ==
    ASSUME TypeOK, Next
    PROVE  /\ snapRequest' \in [Devices -> SnapRequests \cup {None}]
           /\ \A d \in Devices :
                 \/ snapRequest'[d] = snapRequest[d]
                 \/ snapRequest'[d] = None
                 \/ /\ SnapshotCheck(d)
                    /\ snapRequest'[d] = [rev |-> revision[d] + 1, covers |-> known[d],
                                          epoch |-> epoch]
<1>1. snapRequest \in [Devices -> SnapRequests \cup {None}]
  BY DEF TypeOK
<1>2. CASE snapRequest' = snapRequest
  BY <1>1, <1>2
<1>3. CASE \E d \in Devices : SnapshotCheck(d)
  <2>1. PICK d \in Devices : SnapshotCheck(d)
    BY <1>3
  <2> DEFINE x == [rev |-> revision[d] + 1, covers |-> known[d], epoch |-> epoch]
  <2>2. x \in SnapRequests
    BY Elements DEF SnapRequests
  <2>3. snapRequest' = [snapRequest EXCEPT ![d] = x]
    BY <2>1 DEF SnapshotCheck
  <2> HIDE DEF x
  <2>4. /\ snapRequest' \in [Devices -> SnapRequests \cup {None}] /\ snapRequest'[d] = x
        /\ \A e \in Devices : e # d => snapRequest'[e] = snapRequest[e]
    BY <1>1, <2>2, <2>3
  <2> QED
    BY <2>1, <2>4 DEF x
<1>4. CASE \E d \in Devices : SnapshotCommit(d)
  BY <1>1, <1>4 DEF SnapshotCommit
<1> QED
  BY <1>2, <1>3, <1>4, SnapRequestFrame

-----------------------------------------------------------------------------
(* How the log and the devices move.                                         *)

\* What an insert does: it stores the operation unless a row holds it, and the device
\* may or may not get the answer.
LEMMA InsertIs ==
    ASSUME TypeOK, NEW d \in Devices, NEW t \in Tabs, UploadInsert(d, t)
    PROVE  /\ upload[d][t] \in Operations /\ upload[d][t] # None
           /\ \/ Stored(upload[d][t]) # {} /\ issued' = issued
              \/ Stored(upload[d][t]) = {} /\ issued' = Append(issued, upload[d][t])
           /\ gone' = gone
           /\ \/ UNCHANGED <<sent, holds>>
              \/ /\ upload[d][t] = NextOp(d)
                 /\ sent' = [sent EXCEPT ![d] = sent[d] + 1]
                 /\ \E c \in Cursors' \ gone :
                       issued'[c] = NextOp(d) /\ holds' = [holds EXCEPT ![d] = holds[d] \cup {c}]
<1> DEFINE op == upload[d][t]
<1>1. op \in Operations /\ op # None
  BY Elements DEF UploadInsert
<1>2. \/ Stored(op) # {} /\ issued' = issued
      \/ Stored(op) = {} /\ issued' = Append(issued, op)
  BY DEF UploadInsert, InsertRefused
<1>3. PICK c \in IF InsertRefused(op) THEN Stored(op) ELSE {Len(issued) + 1} :
             Answered(d, op, c) \/ UNCHANGED clients
  BY DEF UploadInsert
<1> HIDE DEF op
<1>4. c \in Cursors' \ gone /\ issued'[c] = op
  <2>1. gone \subseteq Cursors /\ issued \in Seq(Operations) /\ Len(issued) \in Nat
    BY DEF TypeOK
  <2>2. CASE Stored(op) # {}
    <3>1. c \in Rows /\ issued[c] = op /\ issued' = issued
      BY <1>2, <1>3, <2>2 DEF InsertRefused, Stored
    <3> QED
      BY <3>1 DEF Rows, Cursors
  <2>3. CASE Stored(op) = {}
    <3>1. c = Len(issued) + 1 /\ issued' = Append(issued, op)
      BY <1>2, <1>3, <2>3 DEF InsertRefused
    <3>2. Len(issued') = Len(issued) + 1 /\ issued'[Len(issued) + 1] = op
      BY <1>1, <2>1, <3>1
    <3> QED
      BY <2>1, <3>1, <3>2 DEF Cursors
  <2> QED
    BY <2>2, <2>3
<1>5. \/ UNCHANGED <<sent, holds>>
      \/ /\ op = NextOp(d) /\ sent' = [sent EXCEPT ![d] = sent[d] + 1]
         /\ holds' = [holds EXCEPT ![d] = holds[d] \cup {c}]
  BY <1>3 DEF Answered, NextOp, clients
<1>6. gone' = gone
  BY DEF UploadInsert
<1> QED
  BY <1>1, <1>2, <1>4, <1>5, <1>6 DEF op

\* What a retry that is found does.
LEMMA RetryIs ==
    ASSUME TypeOK, NEW d \in Devices, UploadRetry(d)
    PROVE  /\ sent' = [sent EXCEPT ![d] = sent[d] + 1]
           /\ issued' = issued /\ gone' = gone
           /\ \E c \in Cursors' \ gone :
                 issued'[c] = NextOp(d) /\ holds' = [holds EXCEPT ![d] = holds[d] \cup {c}]
<1>1. PICK c \in Stored(NextOp(d)) : Answered(d, NextOp(d), c)
  BY DEF UploadRetry
<1>2. issued' = issued /\ gone' = gone
  BY DEF UploadRetry, d1
<1>3. c \in Cursors' \ gone /\ issued'[c] = NextOp(d)
  BY <1>1, <1>2 DEF Stored, Rows, Cursors
<1>4. /\ sent' = [sent EXCEPT ![d] = sent[d] + 1]
      /\ holds' = [holds EXCEPT ![d] = holds[d] \cup {c}]
  BY <1>1 DEF Answered, NextOp
<1> QED
  BY <1>2, <1>3, <1>4

\* A cursor that is new is the last one and holds an operation no row held.
LEMMA NewCursor ==
    ASSUME TypeOK, Next, NEW c \in Cursors', c \notin Cursors
    PROVE  \E d \in Devices, t \in Tabs :
              /\ UploadInsert(d, t) /\ upload[d][t] # None
              /\ Stored(upload[d][t]) = {} /\ issued'[c] = upload[d][t]
              /\ c = Len(issued) + 1 /\ Len(issued') = Len(issued) + 1
<1>1. PICK d \in Devices, t \in Tabs : UploadInsert(d, t)
  BY IssuedFrame DEF Cursors
<1> DEFINE op == upload[d][t]
<1>2. op \in Operations /\ op # None /\ Stored(op) = {} /\ issued' = Append(issued, op)
  BY <1>1, InsertIs DEF Cursors
<1> HIDE DEF op
<1>3. issued \in Seq(Operations) /\ Len(issued) \in Nat
  BY DEF TypeOK
<1>4. Len(issued') = Len(issued) + 1 /\ issued'[Len(issued) + 1] = op
  BY <1>2, <1>3
<1>5. c = Len(issued) + 1
  BY <1>3, <1>4 DEF Cursors
<1> QED
  BY <1>1, <1>2, <1>4, <1>5 DEF op

\* What a device knows to be stored grows by the operation it was answered.
SentMoved(d) ==
    \/ sent'[d] = sent[d]
    \/ /\ sent'[d] = sent[d] + 1
       /\ \E c \in Cursors' \ gone : issued'[c] = NextOp(d)

\* So do all devices.
LEMMA SentSteps ==
    ASSUME TypeOK, Next
    PROVE  /\ sent' \in [Devices -> Nat]
           /\ \A d \in Devices : SentMoved(d) /\ sent[d] <= sent'[d]
<1>1. sent \in [Devices -> Nat]
  BY DEF TypeOK
<1>2. ASSUME NEW d \in Devices, sent' = [sent EXCEPT ![d] = sent[d] + 1],
             \E c \in Cursors' \ gone : issued'[c] = NextOp(d)
      PROVE  sent' \in [Devices -> Nat] /\ \A e \in Devices : SentMoved(e) /\ sent[e] <= sent'[e]
  <2>1. /\ sent' \in [Devices -> Nat] /\ sent'[d] = sent[d] + 1
        /\ \A e \in Devices : e # d => sent'[e] = sent[e]
    BY <1>1, <1>2
  <2>2. ASSUME NEW e \in Devices PROVE SentMoved(e) /\ sent[e] <= sent'[e]
    BY <1>1, <1>2, <2>1 DEF SentMoved
  <2> QED
    BY <2>1, <2>2
<1>3. CASE sent' = sent
  BY <1>1, <1>3 DEF SentMoved
<1>4. CASE \E d \in Devices, t \in Tabs : UploadInsert(d, t)
  <2>1. PICK d \in Devices, t \in Tabs : UploadInsert(d, t)
    BY <1>4
  <2> QED
    BY <1>2, <1>3, <2>1, InsertIs
<1>5. CASE \E d \in Devices : UploadRetry(d)
  <2>1. PICK d \in Devices : UploadRetry(d)
    BY <1>5
  <2> QED
    BY <1>2, <2>1, RetryIs
<1> QED
  BY <1>3, <1>4, <1>5, SentFrame

\* What a device has grows by an answer or a pull; a device that joins starts from the
\* snapshot.
HoldsMoved(d) ==
    \/ holds'[d] = holds[d]
    \/ /\ sent'[d] = sent[d] + 1
       /\ \E c \in Cursors' : issued'[c] = NextOp(d) /\ holds'[d] = holds[d] \cup {c}
    \/ Pull(d) /\ holds'[d] = holds[d] \cup {c \in Rows : c > known[d]}
    \/ Join(d) /\ holds'[d] = 1..snapshot.covers

\* So do all devices.
LEMMA HoldsSteps ==
    ASSUME TypeOK, SnapshotsFit, Next
    PROVE  /\ holds' \in [Devices -> SUBSET (Cursors')]
           /\ \A d \in Devices : HoldsMoved(d)
           /\ \A d \in Devices :
                 /\ Pull(d) => holds'[d] = holds[d] \cup {c \in Rows : c > known[d]}
                 /\ Join(d) => holds'[d] = 1..snapshot.covers
<1>1. holds \in [Devices -> SUBSET (Cursors')] /\ sent \in [Devices -> Nat]
  <2>1. holds \in [Devices -> SUBSET Cursors] /\ sent \in [Devices -> Nat]
    BY DEF TypeOK
  <2>2. Cursors \subseteq Cursors'
    BY LogGrows
  <2> QED
    BY <2>1, <2>2
<1>0. ASSUME NEW d \in Devices
      PROVE  /\ Pull(d) => holds'[d] = holds[d] \cup {c \in Rows : c > known[d]}
             /\ Join(d) => holds'[d] = 1..snapshot.covers
  BY <1>1 DEF Pull, Join
<1>2. ASSUME NEW d \in Devices, NEW x \in SUBSET (Cursors'),
             holds' = [holds EXCEPT ![d] = x], HoldsMoved(d)
      PROVE  /\ holds' \in [Devices -> SUBSET (Cursors')]
             /\ \A e \in Devices : HoldsMoved(e)
  <2>1. /\ holds' \in [Devices -> SUBSET (Cursors')]
        /\ \A e \in Devices : e # d => holds'[e] = holds[e]
    BY <1>1, <1>2
  <2>2. ASSUME NEW e \in Devices PROVE HoldsMoved(e)
    BY <1>2, <2>1 DEF HoldsMoved
  <2> QED
    BY <2>1, <2>2
<1>3. CASE holds' = holds
  BY <1>0, <1>1, <1>3 DEF HoldsMoved
<1>4. ASSUME NEW d \in Devices, sent' = [sent EXCEPT ![d] = sent[d] + 1],
             \E c \in Cursors' \ gone :
                issued'[c] = NextOp(d) /\ holds' = [holds EXCEPT ![d] = holds[d] \cup {c}]
      PROVE  holds' \in [Devices -> SUBSET (Cursors')] /\ \A e \in Devices : HoldsMoved(e)
  <2>1. PICK c \in Cursors' \ gone :
                issued'[c] = NextOp(d) /\ holds' = [holds EXCEPT ![d] = holds[d] \cup {c}]
    BY <1>4
  <2>2. holds[d] \cup {c} \in SUBSET (Cursors')
    BY <1>1
  <2>3. HoldsMoved(d)
    BY <1>1, <1>4, <2>1 DEF HoldsMoved
  <2> QED
    BY <1>2, <2>1, <2>2, <2>3
<1>5. CASE \E d \in Devices, t \in Tabs : UploadInsert(d, t)
  <2>1. PICK d \in Devices, t \in Tabs : UploadInsert(d, t)
    BY <1>5
  <2> QED
    BY <1>0, <1>3, <1>4, <2>1, InsertIs
<1>6. CASE \E d \in Devices : UploadRetry(d)
  <2>1. PICK d \in Devices : UploadRetry(d)
    BY <1>6
  <2> QED
    BY <1>0, <1>4, <2>1, RetryIs
<1>7. CASE \E d \in Devices : Pull(d)
  <2>1. PICK d \in Devices : Pull(d)
    BY <1>7
  <2> DEFINE x == holds[d] \cup {c \in Rows : c > known[d]}
  <2>2. holds' = [holds EXCEPT ![d] = x]
    BY <2>1 DEF Pull
  <2>3. x \in SUBSET (Cursors')
    BY <1>1, LogGrows DEF Rows
  <2>4. HoldsMoved(d)
    BY <1>1, <2>1, <2>2 DEF HoldsMoved
  <2> HIDE DEF x
  <2> QED
    BY <1>0, <1>2, <2>2, <2>3, <2>4
<1>8. CASE \E d \in Devices : Join(d)
  <2>1. PICK d \in Devices : Join(d)
    BY <1>8
  <2> DEFINE x == 1..snapshot.covers
  <2>2. holds' = [holds EXCEPT ![d] = x]
    BY <2>1 DEF Join
  <2>3. x \subseteq Cursors
    BY Elements DEF SnapshotsFit, Cursors
  <2>4. HoldsMoved(d)
    BY <1>1, <2>1, <2>2 DEF HoldsMoved
  <2> HIDE DEF x
  <2> QED
    BY <1>0, <1>2, <2>2, <2>3, <2>4, LogGrows
<1> QED
  BY <1>3, <1>5, <1>6, <1>7, <1>8, HoldsFrame

\* A device's cursor moves to the last row, or to where the snapshot it joins by ends.
LEMMA KnownSteps ==
    ASSUME TypeOK, SnapshotsFit, Next
    PROVE  /\ known' \in [Devices -> 0..Len(issued')]
           /\ \A d \in Devices :
                 \/ known'[d] = known[d]
                 \/ Pull(d) /\ known'[d] = MaxCursor /\ known[d] <= MaxCursor
                 \/ Join(d) /\ known'[d] = snapshot.covers
<1>1. /\ known \in [Devices -> 0..Len(issued)] /\ Len(issued) \in Nat
      /\ Len(issued') \in Nat /\ Len(issued) <= Len(issued')
  BY LogGrows DEF TypeOK
<1>2. known \in [Devices -> 0..Len(issued')]
  BY <1>1
<1>3. CASE known' = known
  BY <1>2, <1>3
<1>4. CASE \E d \in Devices : Pull(d)
  <2>1. PICK d \in Devices : Pull(d)
    BY <1>4
  <2>2. MaxCursor \in 0..Len(issued') /\ known[d] <= MaxCursor
    <3>1. MaxCursor \in 0..Len(issued) /\ \A c \in Rows : c <= MaxCursor
      BY MaxCursorIs
    <3>2. PICK c \in Rows : c > known[d]
      BY <2>1 DEF Pull
    <3>3. c \in Nat /\ known[d] \in Nat
      BY <3>2, Elements DEF Rows
    <3> QED
      BY <1>1, <3>1, <3>2, <3>3
  <2>3. known' = [known EXCEPT ![d] = MaxCursor]
    BY <2>1 DEF Pull
  <2> QED
    BY <1>2, <2>1, <2>2, <2>3
<1>5. CASE \E d \in Devices : Join(d)
  <2>1. PICK d \in Devices : Join(d)
    BY <1>5
  <2>2. snapshot.covers \in 0..Len(issued')
    BY <1>1, Elements DEF SnapshotsFit
  <2>3. known' = [known EXCEPT ![d] = snapshot.covers]
    BY <2>1 DEF Join
  <2> QED
    BY <1>2, <2>1, <2>2, <2>3
<1> QED
  BY <1>3, <1>4, <1>5, KnownFrame

\* A device's revision moves to the one it committed, accepted or joined by.
LEMMA RevisionSteps ==
    ASSUME TypeOK, SnapshotsFit, Next
    PROVE  /\ revision' \in [Devices -> Nat]
           /\ \A d \in Devices :
                 \/ revision'[d] = revision[d]
                 \/ /\ SnapshotCommit(d) /\ CommitCurrent(d) /\ snapshot' = snapRequest[d]
                    /\ revision'[d] = snapRequest[d].rev /\ snapRequest[d] # None
                 \/ (SnapshotAccept(d) \/ Join(d)) /\ revision'[d] = snapshot.rev
<1>1. revision \in [Devices -> Nat] /\ snapshot.rev \in Nat
  BY Elements DEF TypeOK
<1>2. CASE revision' = revision
  BY <1>1, <1>2
<1>3. CASE \E d \in Devices : SnapshotCommit(d)
  <2>1. PICK d \in Devices : SnapshotCommit(d)
    BY <1>3
  <2>2. CASE CommitCurrent(d)
    <3>1. /\ revision' = [revision EXCEPT ![d] = snapRequest[d].rev]
          /\ snapshot' = snapRequest[d] /\ snapRequest[d] # None
      BY <2>1, <2>2 DEF SnapshotCommit
    <3>2. snapRequest[d].rev \in Nat
      BY <3>1, Elements DEF SnapRequests
    <3> QED
      BY <1>1, <2>1, <2>2, <3>1, <3>2
  <2>3. CASE ~CommitCurrent(d)
    BY <1>2, <2>1, <2>3 DEF SnapshotCommit
  <2> QED
    BY <2>2, <2>3
<1>4. CASE \E d \in Devices : SnapshotAccept(d) \/ Join(d)
  <2>1. PICK d \in Devices : SnapshotAccept(d) \/ Join(d)
    BY <1>4
  <2>2. revision' = [revision EXCEPT ![d] = snapshot.rev]
    BY <2>1 DEF SnapshotAccept, Join
  <2> QED
    BY <1>1, <2>1, <2>2
<1> QED
  BY <1>2, <1>3, <1>4, RevisionFrame

\* What came too late for a device is noted when it joins and when it comes back.
LEMMA LateSteps ==
    ASSUME TypeOK, Next
    PROVE  /\ late' \in [Devices -> SUBSET (Cursors')]
           /\ \A d \in Devices :
                 \/ late'[d] = late[d]
                 \/ Join(d) /\ late'[d] = Doomed
                 \/ Renew(d) /\ late'[d] = late[d] \cup Doomed
           /\ \A d \in Devices : Join(d) => late'[d] = Doomed
           /\ \A d \in Devices : Renew(d) => late'[d] = late[d] \cup Doomed
<1>1. late \in [Devices -> SUBSET Cursors] /\ Cursors \subseteq Cursors'
  BY LogGrows DEF TypeOK
<1>2. late \in [Devices -> SUBSET (Cursors')]
  BY <1>1
<1>3. Doomed \subseteq Cursors /\ Doomed \in SUBSET (Cursors')
  BY <1>1 DEF Doomed, TypeOK
<1>4. ASSUME NEW d \in Devices
      PROVE  /\ Join(d) => late'[d] = Doomed
             /\ Renew(d) => late'[d] = late[d] \cup Doomed
  BY <1>2 DEF Join, Renew
<1>5. CASE late' = late
  BY <1>2, <1>4, <1>5
<1>6. CASE \E d \in Devices : Join(d)
  <2>1. PICK d \in Devices : Join(d)
    BY <1>6
  <2>2. late' = [late EXCEPT ![d] = Doomed]
    BY <2>1 DEF Join
  <2>3. late' \in [Devices -> SUBSET (Cursors')]
    BY <1>2, <1>3, <2>2
  <2>4. \A e \in Devices : e # d => late'[e] = late[e]
    BY <1>2, <2>2
  <2> QED
    BY <1>4, <2>1, <2>3, <2>4
<1>7. CASE \E d \in Devices : Renew(d)
  <2>1. PICK d \in Devices : Renew(d)
    BY <1>7
  <2>2. late' = [late EXCEPT ![d] = late[d] \cup Doomed]
    BY <2>1 DEF Renew
  <2>3. late[d] \cup Doomed \in SUBSET (Cursors')
    BY <1>2, <1>3
  <2>4. late' \in [Devices -> SUBSET (Cursors')]
    BY <1>2, <2>2, <2>3
  <2>5. \A e \in Devices : e # d => late'[e] = late[e]
    BY <1>2, <2>2
  <2> QED
    BY <1>4, <2>1, <2>4, <2>5
<1> QED
  BY <1>5, <1>6, <1>7, LateFrame

\* What a commit that is current, and what every other step, does to the snapshot.
LEMMA SnapshotSteps ==
    ASSUME TypeOK, Next
    PROVE  \/ snapshot' = snapshot
           \/ \E d \in Devices : /\ SnapshotCommit(d) /\ CommitCurrent(d)
                                 /\ snapRequest[d] # None /\ snapshot' = snapRequest[d]
  BY SnapshotFrame DEF SnapshotCommit

\* The statuses, the epoch and the changes.
LEMMA MembershipSteps ==
    ASSUME TypeOK, Next
    PROVE  /\ status' \in [Devices -> {"outside", "active", "lapsed", "revoked"}]
           /\ epoch' \in Nat /\ epoch <= epoch' /\ changes' \in 0..MaxChanges
           /\ \A d \in Devices :
                 \/ status'[d] = status[d]
                 \/ Join(d) /\ status[d] = "outside" /\ status'[d] = "active"
                 \/ Renew(d) /\ status[d] = "lapsed" /\ status'[d] = "active"
                 \/ Lapse(d) /\ status[d] = "active" /\ status'[d] = "lapsed"
                 \/ Revoke(d) /\ status[d] # "outside" /\ status'[d] = "revoked"
<1>1. /\ status \in [Devices -> {"outside", "active", "lapsed", "revoked"}]
      /\ epoch \in Nat /\ changes \in 0..MaxChanges
  BY DEF TypeOK
<1>2. epoch' = epoch \/ epoch' = epoch + 1
  BY EpochFrame DEF Revoke
<1>3. changes' = changes \/ (changes < MaxChanges /\ changes' = changes + 1)
  BY ChangesFrame DEF Join, Revoke, Lapse, Renew, Change
<1>4. epoch' \in Nat /\ epoch <= epoch' /\ changes' \in 0..MaxChanges
  BY <1>1, <1>2, <1>3, LogAssumption DEF LogAssumption
<1>5. CASE status' = status
  BY <1>1, <1>4, <1>5
<1>6. CASE \E d \in Devices : Join(d) \/ Revoke(d) \/ Lapse(d) \/ Renew(d)
  <2>1. PICK d \in Devices : Join(d) \/ Revoke(d) \/ Lapse(d) \/ Renew(d)
    BY <1>6
  <2>2. CASE Join(d)
    <3>1. status[d] = "outside" /\ status' = [status EXCEPT ![d] = "active"]
      BY <2>2 DEF Join, Change
    <3> QED
      BY <1>1, <1>4, <2>2, <3>1
  <2>3. CASE Revoke(d)
    <3>1. status[d] \in {"active", "lapsed"} /\ status' = [status EXCEPT ![d] = "revoked"]
      BY <2>3 DEF Revoke, Change
    <3> QED
      BY <1>1, <1>4, <2>3, <3>1
  <2>4. CASE Lapse(d)
    <3>1. status[d] = "active" /\ status' = [status EXCEPT ![d] = "lapsed"]
      BY <2>4 DEF Lapse, Change
    <3> QED
      BY <1>1, <1>4, <2>4, <3>1
  <2>5. CASE Renew(d)
    <3>1. status[d] = "lapsed" /\ status' = [status EXCEPT ![d] = "active"]
      BY <2>5 DEF Renew, Change
    <3> QED
      BY <1>1, <1>4, <2>5, <3>1
  <2> QED
    BY <2>1, <2>2, <2>3, <2>4, <2>5
<1> QED
  BY <1>5, <1>6, StatusFrame

-----------------------------------------------------------------------------
(* The invariant, part by part.                                              *)

\* Acknowledgements are written as they were checked.
LEMMA AckSteps ==
    ASSUME TypeOK, Next
    PROVE  /\ ack' \in [Devices -> Acks \cup {None}]
           /\ \A d \in Devices :
                 \/ ack'[d] = ack[d]
                 \/ \E t \in Tabs :
                       /\ AckWrite(d, t) /\ At(d, t, "write")
                       /\ ack'[d].cursor = ackRequest[d][t].cursor
                       /\ ack'[d].rev = ackRequest[d][t].rev
<1>1. ack \in [Devices -> Acks \cup {None}]
  BY DEF TypeOK
<1>2. CASE ack' = ack
  BY <1>1, <1>2
<1>3. CASE \E d \in Devices, t \in Tabs : AckWrite(d, t)
  <2>1. PICK d \in Devices, t \in Tabs : AckWrite(d, t)
    BY <1>3
  <2>2. At(d, t, "write") /\ ackRequest[d][t] \in AckRequests
    BY <2>1, Elements DEF AckWrite, At
  <2> DEFINE x == [cursor |-> ackRequest[d][t].cursor, rev |-> ackRequest[d][t].rev]
  <2>3. x \in Acks \cup {None}
    BY <2>2 DEF AckRequests, Acks
  <2>4. x.cursor = ackRequest[d][t].cursor /\ x.rev = ackRequest[d][t].rev
    OBVIOUS
  <2>5. ack' = ack \/ ack' = [ack EXCEPT ![d] = x]
    BY <2>1 DEF AckWrite
  <2> HIDE DEF x
  <2>6. CASE ack' = [ack EXCEPT ![d] = x]
    <3>1. /\ ack' \in [Devices -> Acks \cup {None}] /\ ack'[d] = x
          /\ \A e \in Devices : e # d => ack'[e] = ack[e]
      BY <1>1, <2>3, <2>6
    <3> QED
      BY <2>1, <2>2, <2>4, <3>1
  <2> QED
    BY <1>2, <2>5, <2>6
<1> QED
  BY <1>2, <1>3, AckFrame

\* Every step keeps the types.
LEMMA TypeStep ==
    ASSUME TypeOK, SnapshotsFit, AcksBehind, Next
    PROVE  TypeOK'
<1>1. issued' \in Seq(Operations)
  <2>1. CASE issued' = issued
    BY <2>1 DEF TypeOK
  <2>2. CASE \E d \in Devices, t \in Tabs : UploadInsert(d, t)
    <3>1. PICK d \in Devices, t \in Tabs : UploadInsert(d, t)
      BY <2>2
    <3> DEFINE op == upload[d][t]
    <3>2. op \in Operations /\ (issued' = issued \/ issued' = Append(issued, op))
      BY <3>1, InsertIs
    <3> HIDE DEF op
    <3>3. issued \in Seq(Operations)
      BY DEF TypeOK
    <3> QED
      BY <3>2, <3>3
  <2> QED
    BY <2>1, <2>2, IssuedFrame
<1>2. gone' \subseteq expired' /\ expired' \subseteq compacted' /\ compacted' \subseteq Cursors'
  <2>1. gone \subseteq expired /\ expired \subseteq compacted /\ compacted \subseteq Cursors
    BY DEF TypeOK
  <2>2. compacted' = compacted \/ \E n : compacted' = compacted \cup {c \in Rows : c <= n}
    BY CompactedFrame DEF AckCompact
  <2>3. compacted \subseteq compacted' /\ compacted' \subseteq Cursors'
    BY <2>1, <2>2, LogGrows DEF Rows
  <2>4. expired \subseteq expired' /\ expired' \subseteq compacted'
    BY <2>1, <2>3, ExpiredFrame DEF RetentionPasses
  <2>5. gone' \subseteq expired'
    BY <2>1, <2>4, GoneFrame DEF Cleanup, Deletable
  <2> QED
    BY <2>3, <2>4, <2>5
<1>3. snapshot' \in SnapRequests /\ snapshot'.epoch <= epoch'
  <2>1. epoch \in Nat /\ epoch' \in Nat /\ epoch <= epoch' /\ snapshot \in SnapRequests
        /\ snapshot.epoch <= epoch /\ snapshot.epoch \in Nat
    BY MembershipSteps, Elements DEF TypeOK
  <2>2. CASE snapshot' = snapshot
    BY <2>1, <2>2
  <2>3. CASE \E d \in Devices : /\ SnapshotCommit(d) /\ CommitCurrent(d)
                                /\ snapRequest[d] # None /\ snapshot' = snapRequest[d]
    <3>1. PICK d \in Devices : /\ SnapshotCommit(d) /\ CommitCurrent(d)
                               /\ snapRequest[d] # None /\ snapshot' = snapRequest[d]
      BY <2>3
    <3>2. snapshot' \in SnapRequests /\ snapshot'.epoch = epoch
      BY <3>1, Elements DEF CommitCurrent
    <3> QED
      BY <2>1, <3>2
  <2> QED
    BY <2>2, <2>3, SnapshotSteps
<1> QED
  BY <1>1, <1>2, <1>3, MembershipSteps, AckSteps, UploadSteps, AckRequestSteps,
     SnapRequestSteps, SentSteps, KnownSteps, HoldsSteps, RevisionSteps, LateSteps
     DEF TypeOK

\* A device outside the vault asks for nothing.
LEMMA OutsideAsksNothing ==
    ASSUME TypeOK, OutsideFresh, AcksBehind, Next,
           NEW d \in Devices, status[d] = "outside"
    PROVE  /\ ack'[d] = None /\ snapRequest'[d] = None
           /\ \A t \in Tabs : upload'[d][t] = None /\ ackRequest'[d][t] = None
<1>1. /\ ack[d] = None /\ snapRequest[d] = None
      /\ \A t \in Tabs : upload[d][t] = None /\ ackRequest[d][t] = None
  BY DEF OutsideFresh
<1>2. ack'[d] = None
  BY <1>1, AckSteps DEF At
<1>3. snapRequest'[d] = None
  BY <1>1, SnapRequestSteps DEF SnapshotCheck, Active
<1>4. ASSUME NEW t \in Tabs PROVE upload'[d][t] = None /\ ackRequest'[d][t] = None
  <2>1. upload'[d][t] = None
    BY <1>1, UploadSteps DEF UploadCheck, Active
  <2>2. AckMoved(d, t)
    BY AckRequestSteps
  <2>3. ackRequest'[d][t] = None
    BY <1>1, <2>2 DEF AckMoved, AckCheck, Active, AckWrite, AckFrontier, At
  <2> QED
    BY <2>1, <2>3
<1> QED
  BY <1>2, <1>3, <1>4

\* A device that is still outside has left nothing in the vault.
LEMMA OutsideFreshStep ==
    ASSUME TypeOK, OutsideFresh, SequencesFit, AcksBehind, Next
    PROVE  OutsideFresh'
<1> SUFFICES ASSUME NEW d \in Devices, status'[d] = "outside"
             PROVE  /\ ack'[d] = None /\ snapRequest'[d] = None
                    /\ \A t \in Tabs : upload'[d][t] = None /\ ackRequest'[d][t] = None
                    /\ \A c \in Cursors' : issued'[c].dev # d
  BY DEF OutsideFresh
<1>1. status[d] = "outside"
  BY MembershipSteps
<1>2. /\ \A t \in Tabs : upload[d][t] = None
      /\ \A c \in Cursors : issued[c].dev # d
  BY <1>1 DEF OutsideFresh
<1>3. ASSUME NEW c \in Cursors' PROVE issued'[c].dev # d
  <2>1. CASE c \in Cursors
    BY <1>2, <2>1, LogGrows
  <2>2. CASE c \notin Cursors
    <3>1. PICK e \in Devices, t \in Tabs : upload[e][t] # None /\ issued'[c] = upload[e][t]
      BY <2>2, NewCursor
    <3> QED
      BY <1>2, <3>1 DEF SequencesFit
  <2> QED
    BY <2>1, <2>2
<1> QED
  BY <1>1, <1>3, OutsideAsksNothing

\* A snapshot that is committed covers what was issued, and a device is not ahead of it.
LEMMA SnapshotsFitStep ==
    ASSUME TypeOK, SnapshotsFit, Next
    PROVE  SnapshotsFit'
<1>1. /\ Len(issued) \in Nat /\ Len(issued') \in Nat /\ Len(issued) <= Len(issued')
      /\ epoch \in Nat /\ epoch' \in Nat /\ epoch <= epoch'
      /\ snapshot.rev \in Nat /\ snapshot.covers \in Nat /\ snapshot.epoch \in Nat
      /\ snapshot.epoch <= epoch
  BY LogGrows, MembershipSteps, Elements
<1>2. /\ snapshot'.covers <= Len(issued') /\ snapshot'.epoch >= 1
      /\ snapshot'.rev \in Nat /\ snapshot.rev <= snapshot'.rev
  <2>1. CASE snapshot' = snapshot
    BY <1>1, <2>1 DEF SnapshotsFit
  <2>2. CASE \E d \in Devices : /\ SnapshotCommit(d) /\ CommitCurrent(d)
                                /\ snapRequest[d] # None /\ snapshot' = snapRequest[d]
    <3>1. PICK d \in Devices : /\ SnapshotCommit(d) /\ CommitCurrent(d)
                               /\ snapRequest[d] # None /\ snapshot' = snapRequest[d]
      BY <2>2
    <3>2. snapshot' \in SnapRequests /\ snapshot'.rev = snapshot.rev + 1
          /\ snapshot'.epoch = epoch /\ snapshot'.covers <= Len(issued)
      BY <3>1, Elements DEF CommitCurrent, SnapshotsFit
    <3>3. snapshot'.covers \in Nat /\ snapshot.epoch >= 1
      BY <3>2 DEF SnapRequests, SnapshotsFit
    <3> QED
      BY <1>1, <3>2, <3>3
  <2> QED
    BY <2>1, <2>2, SnapshotSteps
<1>3. ASSUME NEW d \in Devices PROVE revision'[d] <= snapshot'.rev
  <2>1. revision[d] \in Nat /\ revision[d] <= snapshot.rev
    BY Elements DEF SnapshotsFit
  <2>2. \/ revision'[d] = revision[d]
        \/ snapshot' = snapRequest[d] /\ revision'[d] = snapRequest[d].rev
        \/ revision'[d] = snapshot.rev
    BY RevisionSteps
  <2> QED
    BY <1>1, <1>2, <2>1, <2>2
<1>4. ASSUME NEW d \in Devices, snapRequest'[d] # None
      PROVE  /\ snapRequest'[d].rev <= snapshot'.rev + 1
             /\ snapRequest'[d].epoch <= epoch'
             /\ snapRequest'[d].covers <= Len(issued')
  <2>1. CASE snapRequest'[d] = snapRequest[d]
    <3>1. /\ snapRequest[d].rev <= snapshot.rev + 1 /\ snapRequest[d].epoch <= epoch
          /\ snapRequest[d].covers <= Len(issued)
          /\ snapRequest[d].rev \in Nat /\ snapRequest[d].epoch \in Nat
          /\ snapRequest[d].covers \in Nat
      BY <1>4, <2>1, Elements DEF SnapshotsFit, SnapRequests
    <3>2. snapRequest[d].rev <= snapshot'.rev + 1
      BY <1>1, <1>2, <3>1
    <3>3. snapRequest[d].epoch <= epoch' /\ snapRequest[d].covers <= Len(issued')
      BY <1>1, <3>1
    <3> QED
      BY <2>1, <3>2, <3>3
  <2>2. CASE snapRequest'[d] = [rev |-> revision[d] + 1, covers |-> known[d], epoch |-> epoch]
    <3>1. /\ snapRequest'[d].rev = revision[d] + 1 /\ snapRequest'[d].epoch = epoch
          /\ snapRequest'[d].covers = known[d]
      BY <2>2
    <3>2. /\ revision[d] \in Nat /\ revision[d] <= snapshot.rev
          /\ known[d] \in Nat /\ known[d] <= Len(issued)
      BY Elements DEF SnapshotsFit
    <3> QED
      BY <1>1, <1>2, <3>1, <3>2
  <2> QED
    BY <1>4, <2>1, <2>2, SnapRequestSteps
<1> QED
  BY <1>2, <1>3, <1>4 DEF SnapshotsFit

\* Unless it joins, a device loses nothing it has read, holds or is excused from.
LEMMA DeviceGrows ==
    ASSUME TypeOK, SnapshotsFit, Next, NEW d \in Devices, ~Join(d)
    PROVE  /\ known[d] <= known'[d] /\ revision[d] <= revision'[d]
           /\ holds[d] \subseteq holds'[d] /\ late[d] \subseteq late'[d]
<1>1. known[d] <= known'[d]
  <2>1. known[d] \in Nat
    BY Elements
  <2> QED
    BY <2>1, KnownSteps
<1>2. revision[d] <= revision'[d]
  <2>1. revision[d] \in Nat /\ revision[d] <= snapshot.rev /\ snapshot.rev \in Nat
    BY Elements DEF SnapshotsFit
  <2>2. \/ revision'[d] = revision[d]
        \/ CommitCurrent(d) /\ revision'[d] = snapRequest[d].rev
        \/ revision'[d] = snapshot.rev
    BY RevisionSteps
  <2>3. CommitCurrent(d) => snapRequest[d].rev = snapshot.rev + 1
    BY DEF CommitCurrent
  <2> QED
    BY <2>1, <2>2, <2>3
<1>3. holds[d] \subseteq holds'[d]
  <2>1. HoldsMoved(d)
    BY HoldsSteps
  <2> QED
    BY <2>1 DEF HoldsMoved
<1>4. late[d] \subseteq late'[d]
  BY LateSteps
<1> QED
  BY <1>1, <1>2, <1>3, <1>4

\* A device that joins was outside.
LEMMA JoinIsNew ==
    ASSUME NEW d \in Devices, Join(d) PROVE status[d] = "outside"
  BY DEF Join, Change

\* Acknowledgements stay behind the device.
LEMMA AcksBehindStep ==
    ASSUME TypeOK, SnapshotsFit, OutsideFresh, AcksBehind, Next
    PROVE  AcksBehind'
<1> SUFFICES ASSUME NEW d \in Devices
             PROVE  /\ ack'[d] # None => /\ ack'[d].cursor <= known'[d]
                                         /\ ack'[d].rev <= revision'[d]
                    /\ \A t \in Tabs :
                          /\ At(d, t, "write")' => /\ ackRequest'[d][t].cursor <= known'[d]
                                                   /\ ackRequest'[d][t].rev <= revision'[d]
                          /\ At(d, t, "compact")' => ackRequest'[d][t].cursor <= Len(issued')
  BY DEF AcksBehind
<1>1. CASE Join(d)
  BY <1>1, JoinIsNew, OutsideAsksNothing DEF At
<1>2. CASE ~Join(d)
  <2>1. /\ known[d] <= known'[d] /\ revision[d] <= revision'[d]
        /\ known[d] \in Nat /\ revision[d] \in Nat
        /\ known'[d] \in Nat /\ revision'[d] \in Nat
        /\ Len(issued) \in Nat /\ Len(issued') \in Nat /\ Len(issued) <= Len(issued')
    BY <1>2, DeviceGrows, Elements, LogGrows, KnownSteps, RevisionSteps
  <2>2. ASSUME ack'[d] # None
        PROVE  ack'[d].cursor <= known'[d] /\ ack'[d].rev <= revision'[d]
    <3>1. CASE ack'[d] = ack[d]
      <4>1. /\ ack[d].cursor \in Nat /\ ack[d].rev \in Nat
            /\ ack[d].cursor <= known[d] /\ ack[d].rev <= revision[d]
        BY <2>2, <3>1, Elements DEF AcksBehind
      <4> QED
        BY <2>1, <3>1, <4>1
    <3>2. CASE ack'[d] # ack[d]
      <4>1. PICK t \in Tabs : /\ At(d, t, "write")
                              /\ ack'[d].cursor = ackRequest[d][t].cursor
                              /\ ack'[d].rev = ackRequest[d][t].rev
        BY <3>2, AckSteps
      <4>2. /\ ackRequest[d][t].cursor <= known[d] /\ ackRequest[d][t].rev <= revision[d]
            /\ ackRequest[d][t].cursor \in Nat /\ ackRequest[d][t].rev \in Nat
        BY <4>1, Elements DEF AcksBehind, At, AckRequests
      <4> QED
        BY <2>1, <4>1, <4>2
    <3> QED
      BY <3>1, <3>2
  <2>3. ASSUME NEW t \in Tabs
        PROVE  /\ At(d, t, "write")' => /\ ackRequest'[d][t].cursor <= known'[d]
                                        /\ ackRequest'[d][t].rev <= revision'[d]
               /\ At(d, t, "compact")' => ackRequest'[d][t].cursor <= Len(issued')
    <3>1. AckMoved(d, t)
      BY AckRequestSteps
    <3>2. CASE ackRequest'[d][t] = ackRequest[d][t]
      <4>1. At(d, t, "write") => /\ ackRequest[d][t].cursor <= known[d]
                                 /\ ackRequest[d][t].rev <= revision[d]
        BY DEF AcksBehind
      <4>2. At(d, t, "compact") => ackRequest[d][t].cursor <= Len(issued)
        BY DEF AcksBehind
      <4>3. ackRequest[d][t] # None =>
               ackRequest[d][t].cursor \in Nat /\ ackRequest[d][t].rev \in Nat
        BY Elements DEF AckRequests
      <4> QED
        BY <2>1, <3>2, <4>1, <4>2, <4>3 DEF At
    <3>3. CASE ackRequest'[d][t] = [step |-> "write", cursor |-> known[d], rev |-> revision[d]]
      <4>1. /\ ackRequest'[d][t].step = "write" /\ ackRequest'[d][t].cursor = known[d]
            /\ ackRequest'[d][t].rev = revision[d]
        BY <3>3
      <4> QED
        BY <2>1, <4>1 DEF At
    <3>4. CASE ackRequest'[d][t] = None \/ ackRequest'[d][t].step = "frontier"
      BY <3>4 DEF At
    <3>5. CASE /\ ackRequest'[d][t].step = "compact"
               /\ ackRequest'[d][t].cursor \in Frontier(ackRequest[d][t].rev)
      <4>1. ackRequest'[d][t].cursor \in Nat /\ ackRequest'[d][t].cursor <= Len(issued)
        BY <3>5, FrontierIs
      <4> QED
        BY <2>1, <3>5, <4>1 DEF At
    <3> QED
      BY <3>1, <3>2, <3>3, <3>4, <3>5 DEF AckMoved
  <2> QED
    BY <2>2, <2>3
<1> QED
  BY <1>1, <1>2

\* A member was a member before, or joins with the current snapshot.
LEMMA MembersCome ==
    ASSUME TypeOK, SnapshotsFit, Next, NEW m \in Members'
    PROVE  \/ m \in Members /\ ~Join(m) /\ revision[m] <= revision'[m]
           \/ Join(m) /\ revision'[m] = snapshot.rev /\ snapshot' = snapshot
<1>1. m \in Devices /\ status'[m] \in {"active", "lapsed"}
  BY DEF Members
<1>2. CASE Join(m)
  <2>1. revision' = [revision EXCEPT ![m] = snapshot.rev] /\ snapshot' = snapshot
    BY <1>2 DEF Join, Change
  <2> QED
    BY <1>1, <1>2, <2>1 DEF TypeOK
<1>3. CASE ~Join(m)
  <2>1. status[m] \in {"active", "lapsed"}
    BY <1>1, <1>3, MembershipSteps DEF Lapse, Change
  <2> QED
    BY <1>1, <1>3, <2>1, DeviceGrows DEF Members
<1> QED
  BY <1>2, <1>3

\* The gate of a snapshot that could still be committed.
LEMMA GateHeldStep ==
    ASSUME TypeOK, SnapshotsFit, AcksBehind, GateHeld, Next
    PROVE  GateHeld'
<1> SUFFICES ASSUME NEW d \in Devices, snapRequest'[d] # None,
                    snapRequest'[d].rev = snapshot'.rev + 1, snapRequest'[d].epoch = epoch',
                    snapshot'.epoch = epoch', NEW m \in Members'
             PROVE  revision'[m] >= snapshot'.rev
  BY DEF GateHeld, CommitCurrent
<1>1. /\ snapshot.rev \in Nat /\ snapshot.epoch \in Nat /\ epoch \in Nat
      /\ snapshot.epoch <= epoch /\ epoch' \in Nat /\ epoch <= epoch'
      /\ revision[d] \in Nat /\ revision[d] <= snapshot.rev
      /\ m \in Devices /\ revision[m] \in Nat /\ revision'[m] \in Nat
  BY Elements, MembershipSteps, RevisionSteps DEF SnapshotsFit, Members
<1>2. snapRequest'[d].rev <= snapshot.rev + 1
  <2>1. CASE snapRequest'[d] = snapRequest[d]
    BY <2>1 DEF SnapshotsFit
  <2>2. CASE snapRequest'[d] = [rev |-> revision[d] + 1, covers |-> known[d], epoch |-> epoch]
    <3>1. snapRequest'[d].rev = revision[d] + 1
      BY <2>2
    <3> QED
      BY <1>1, <3>1
  <2> QED
    BY <2>1, <2>2, SnapRequestSteps
<1>3. snapshot' = snapshot
  <2> SUFFICES ASSUME snapshot'.rev = snapshot.rev + 1 PROVE FALSE
    BY SnapshotSteps DEF CommitCurrent
  <2> QED
    BY <1>1, <1>2
<1>4. epoch' = epoch
  BY <1>1, <1>3
<1>5. CASE Join(m)
  BY <1>1, <1>3, <1>5, MembersCome
<1>6. CASE ~Join(m)
  <2>1. m \in Members /\ revision[m] <= revision'[m]
    BY <1>6, MembersCome
  <2>2. revision[m] >= snapshot.rev
    <3>1. CASE snapRequest'[d] = snapRequest[d]
      BY <1>3, <1>4, <2>1, <3>1 DEF GateHeld, CommitCurrent
    <3>2. CASE SnapshotCheck(d)
      <4>1. ack[m] # None /\ ack[m].rev = snapshot.rev
        BY <1>3, <1>4, <2>1, <3>2 DEF SnapshotCheck, SnapshotAcknowledged
      <4>2. ack[m].rev <= revision[m]
        BY <1>1, <4>1 DEF AcksBehind
      <4> QED
        BY <1>1, <4>1, <4>2
    <3> QED
      BY <3>1, <3>2, SnapRequestSteps
  <2> QED
    BY <1>1, <1>3, <2>1, <2>2
<1> QED
  BY <1>5, <1>6

\* No member falls further behind than one revision for each key epoch.
LEMMA GapStep ==
    ASSUME TypeOK, SnapshotsFit, GateHeld, RevisionGapBounded, Next
    PROVE  RevisionGapBounded'
<1> SUFFICES ASSUME NEW m \in Members'
             PROVE  revision'[m] >= snapshot'.rev - snapshot'.epoch
  BY DEF RevisionGapBounded
<1>1. /\ snapshot.rev \in Nat /\ snapshot.epoch \in Nat /\ epoch \in Nat
      /\ snapshot.epoch <= epoch /\ snapshot.epoch >= 1
      /\ m \in Devices /\ revision[m] \in Nat /\ revision'[m] \in Nat
  BY Elements, RevisionSteps DEF SnapshotsFit, Members
<1>2. CASE Join(m)
  <2>1. revision'[m] = snapshot.rev /\ snapshot' = snapshot
    BY <1>2, MembersCome
  <2> QED
    BY <1>1, <2>1
<1>3. CASE ~Join(m)
  <2>1. m \in Members /\ revision[m] <= revision'[m]
    BY <1>3, MembersCome
  <2>2. revision[m] >= snapshot.rev - snapshot.epoch
    BY <2>1 DEF RevisionGapBounded
  <2>3. CASE snapshot' = snapshot
    BY <1>1, <2>1, <2>2, <2>3
  <2>4. CASE \E d \in Devices : /\ SnapshotCommit(d) /\ CommitCurrent(d)
                                /\ snapRequest[d] # None /\ snapshot' = snapRequest[d]
    <3>1. PICK d \in Devices : /\ CommitCurrent(d) /\ snapRequest[d] # None
                               /\ snapshot' = snapRequest[d]
      BY <2>4
    <3>2. snapshot'.rev = snapshot.rev + 1 /\ snapshot'.epoch = epoch
      BY <3>1 DEF CommitCurrent
    <3>3. CASE snapshot.epoch = epoch
      <4>1. revision[m] >= snapshot.rev
        BY <2>1, <3>1, <3>3 DEF GateHeld
      <4> QED
        BY <1>1, <2>1, <3>2, <3>3, <4>1
    <3>4. CASE snapshot.epoch < epoch
      BY <1>1, <2>1, <2>2, <3>2, <3>4
    <3> QED
      BY <1>1, <3>3, <3>4
  <2> QED
    BY <2>3, <2>4, SnapshotSteps
<1> QED
  BY <1>2, <1>3

\* A device has what it has read.
LEMMA HeldToKnownStep ==
    ASSUME TypeOK, SnapshotsFit, HeldToKnown, DoomedWereRead, Next
    PROVE  HeldToKnown'
<1> SUFFICES ASSUME NEW d \in Devices, NEW c \in 1..known'[d]
             PROVE  c \in holds'[d] \cup late'[d]
  BY DEF HeldToKnown
<1>1. /\ known[d] \in Nat /\ known'[d] \in Nat /\ c \in Nat /\ c >= 1 /\ c <= known'[d]
  BY Elements, KnownSteps
<1>2. CASE Join(d)
  <2>1. known' = [known EXCEPT ![d] = snapshot.covers]
    BY <1>2 DEF Join
  <2>2. known'[d] = snapshot.covers /\ holds'[d] = 1..snapshot.covers
    BY <1>2, <2>1, HoldsSteps DEF TypeOK
  <2> QED
    BY <1>1, <2>2
<1>3. CASE ~Join(d) /\ c <= known[d]
  <2>1. c \in holds[d] \cup late[d]
    BY <1>1, <1>3 DEF HeldToKnown
  <2> QED
    BY <1>3, <2>1, DeviceGrows
<1>4. CASE ~Join(d) /\ ~(c <= known[d])
  <2>1. Pull(d) /\ known'[d] = MaxCursor
    BY <1>1, <1>4, KnownSteps
  <2>2. c \in Cursors /\ c > known[d]
    BY <1>1, <1>4, <2>1, MaxCursorIs, Elements DEF Cursors
  <2>3. CASE c \in Rows
    BY <2>1, <2>2, <2>3, HoldsSteps
  <2>4. CASE c \notin Rows
    <3>1. c \in Doomed
      BY <2>2, <2>4 DEF Rows, TypeOK, Doomed
    <3>2. d \in Counted
      BY <2>1 DEF Pull, Active, Counted
    <3>3. c \in holds[d] \cup late[d]
      BY <3>1, <3>2 DEF DoomedWereRead
    <3> QED
      BY <1>4, <3>3, DeviceGrows
  <2> QED
    BY <2>3, <2>4
<1> QED
  BY <1>2, <1>3, <1>4

\* What comes to be doomed is what the devices that count have acknowledged.
LEMMA DoomedSteps ==
    ASSUME TypeOK, AcksBehind, Next, NEW c \in Doomed'
    PROVE  c \in Doomed \/ \A d \in Counted : c \in 1..known[d]
<1>1. CASE c \in compacted'
  <2>1. CASE c \in compacted
    BY <2>1 DEF Doomed
  <2>2. CASE c \notin compacted
    <3>1. PICK d \in Devices, t \in Tabs : AckCompact(d, t)
      BY <1>1, <2>2, CompactedFrame
    <3>2. At(d, t, "compact") /\ c \in Rows /\ c <= ackRequest[d][t].cursor
      BY <1>1, <2>2, <3>1 DEF AckCompact
    <3> QED
      BY <3>2 DEF Doomed, Rows
  <2> QED
    BY <2>1, <2>2
<1>2. CASE c \notin compacted'
  <2>1. PICK d \in Devices, t \in Tabs :
           c \in Cursors' /\ At(d, t, "compact")' /\ c <= ackRequest'[d][t].cursor
    BY <1>2 DEF Doomed
  <2>2. AckMoved(d, t)
    BY AckRequestSteps
  <2>3. c \in Nat /\ c >= 1 /\ Len(issued) \in Nat
    BY <2>1, LogGrows, Elements DEF Cursors
  <2>4. CASE ackRequest'[d][t] = ackRequest[d][t]
    <3>1. At(d, t, "compact") /\ c <= ackRequest[d][t].cursor
      BY <2>1, <2>4 DEF At
    <3>2. ackRequest[d][t].cursor <= Len(issued) /\ ackRequest[d][t].cursor \in Nat
      BY <3>1, Elements DEF AcksBehind, At, AckRequests
    <3>3. c \in Cursors
      BY <2>3, <3>1, <3>2 DEF Cursors
    <3> QED
      BY <3>1, <3>3 DEF Doomed
  <2>5. CASE ackRequest'[d][t].cursor \in Frontier(ackRequest[d][t].rev)
    <3> DEFINE min == ackRequest'[d][t].cursor
    <3>1. min \in Nat /\ \A e \in Counted : min <= known[e]
      BY <2>5, FrontierIs
    <3>2. \A e \in Counted : known[e] \in Nat
      BY Elements DEF Counted
    <3>3. c <= min
      BY <2>1
    <3> HIDE DEF min
    <3> QED
      BY <2>3, <3>1, <3>2, <3>3
  <2>6. \/ ackRequest'[d][t] = ackRequest[d][t]
        \/ ackRequest'[d][t].cursor \in Frontier(ackRequest[d][t].rev)
    <3>1. ackRequest'[d][t] # None /\ ackRequest'[d][t].step = "compact"
      BY <2>1 DEF At
    <3>2. ackRequest'[d][t] # [step |-> "write", cursor |-> known[d], rev |-> revision[d]]
      BY <3>1
    <3> QED
      BY <2>2, <3>1, <3>2 DEF AckMoved
  <2> QED
    BY <2>4, <2>5, <2>6
<1> QED
  BY <1>1, <1>2

\* What is doomed every device that counts has, or is excused from.
LEMMA DoomedStep ==
    ASSUME TypeOK, SnapshotsFit, AcksBehind, HeldToKnown, DoomedWereRead, Next
    PROVE  DoomedWereRead'
<1> SUFFICES ASSUME NEW d \in Counted', NEW c \in Doomed'
             PROVE  c \in holds'[d] \cup late'[d]
  BY DEF DoomedWereRead
<1>1. d \in Devices /\ status'[d] = "active"
  BY DEF Counted
<1>2. CASE Join(d) \/ Renew(d)
  <2>1. ackRequest' = ackRequest /\ issued' = issued /\ compacted' = compacted
    BY <1>2 DEF Join, Renew, Change, requests
  <2>2. c \in Doomed
    BY <2>1 DEF Doomed, At, Cursors
  <2> QED
    BY <1>1, <1>2, <2>2, LateSteps
<1>3. CASE ~(Join(d) \/ Renew(d))
  <2>1. d \in Counted
    BY <1>1, <1>3, MembershipSteps DEF Counted
  <2>2. c \in holds[d] \cup late[d]
    BY <1>1, <2>1, DoomedSteps DEF DoomedWereRead, HeldToKnown
  <2> QED
    BY <1>1, <1>3, <2>2, DeviceGrows
<1> QED
  BY <1>2, <1>3

\* Sequence numbers follow on what is stored and what is answered.
LEMMA SequencesFitStep ==
    ASSUME TypeOK, SequencesFit, Next
    PROVE  SequencesFit'
<1>1. /\ Len(issued) \in Nat /\ Len(issued') \in Nat /\ Len(issued) <= Len(issued')
      /\ \A d \in Devices : sent[d] \in Nat /\ sent'[d] \in Nat /\ sent[d] <= sent'[d]
  BY LogGrows, Elements, SentSteps
<1>2. ASSUME NEW c \in Cursors'
      PROVE  issued'[c].seq <= sent'[issued'[c].dev] + 1 /\ issued'[c].seq <= Len(issued')
  <2>1. CASE c \in Cursors
    <3>1. /\ issued'[c] = issued[c] /\ issued[c].dev \in Devices /\ issued[c].seq \in Nat
          /\ issued[c].seq <= sent[issued[c].dev] + 1 /\ issued[c].seq <= Len(issued)
      BY <2>1, LogGrows, Elements DEF SequencesFit
    <3> QED
      BY <1>1, <3>1
  <2>2. CASE c \notin Cursors
    <3>1. PICK d \in Devices, t \in Tabs :
             /\ upload[d][t] # None /\ issued'[c] = upload[d][t]
             /\ Len(issued') = Len(issued) + 1
      BY <2>2, NewCursor
    <3>2. /\ upload[d][t].dev = d /\ upload[d][t].seq <= sent[d] + 1
          /\ upload[d][t].seq <= Len(issued) + 1
      BY <3>1 DEF SequencesFit
    <3>3. upload[d][t].seq \in Nat
      BY <3>1, Elements DEF Operations
    <3> QED
      BY <1>1, <3>1, <3>2, <3>3
  <2> QED
    BY <2>1, <2>2
<1>3. ASSUME NEW d \in Devices, NEW t \in Tabs, upload'[d][t] # None
      PROVE  /\ upload'[d][t].dev = d
             /\ upload'[d][t].seq <= sent'[d] + 1
             /\ upload'[d][t].seq <= Len(issued') + 1
  <2>1. CASE upload'[d][t] = upload[d][t]
    <3>1. /\ upload[d][t].dev = d /\ upload[d][t].seq <= sent[d] + 1
          /\ upload[d][t].seq <= Len(issued) + 1 /\ upload[d][t].seq \in Nat
      BY <1>3, <2>1, Elements DEF SequencesFit, Operations
    <3> QED
      BY <1>1, <2>1, <3>1
  <2>2. CASE UploadCheck(d, t) /\ upload'[d][t] = NextOp(d)
    <3>1. NextOp(d).dev = d /\ NextOp(d).seq = sent[d] + 1
      BY DEF NextOp
    <3>2. NextOp(d).seq = LastSequence(d) + 1
      BY <2>2 DEF UploadCheck
    <3>3. LastSequence(d) \in Nat /\ LastSequence(d) <= Len(issued)
      BY LastSequenceIs, <1>1
    <3> QED
      BY <1>1, <2>2, <3>1, <3>2, <3>3
  <2> QED
    BY <1>3, <2>1, <2>2, UploadSteps
<1> QED
  BY <1>2, <1>3 DEF SequencesFit

\* A row of a device's own that is numbered after what was answered is its next operation.
LEMMA NextIsStored ==
    ASSUME TypeOK, NEW d \in Devices, NEW c \in Cursors,
           issued[c].dev = d, issued[c].seq = sent[d] + 1
    PROVE  issued[c] = NextOp(d)
<1>1. issued[c] \in Operations
  BY DEF TypeOK, Cursors
<1> QED
  BY <1>1 DEF Operations, NextOp

\* What a device holds of its own was answered.
LEMMA OwnAnsweredStep ==
    ASSUME TypeOK, SnapshotsFit, OutsideFresh, SequencesFit, OwnAnswered, Next
    PROVE  OwnAnswered'
<1> SUFFICES ASSUME NEW d \in Devices, NEW c \in holds'[d], issued'[c].dev = d
             PROVE  issued'[c].seq <= sent'[d]
  BY DEF OwnAnswered
<1>1. sent[d] \in Nat /\ sent'[d] \in Nat /\ sent[d] <= sent'[d]
  BY Elements, SentSteps
<1>2. CASE c \in holds[d]
  <2>1. c \in Cursors /\ issued'[c] = issued[c] /\ issued[c].seq \in Nat
    BY <1>2, Elements, LogGrows
  <2> QED
    BY <1>1, <1>2, <2>1 DEF OwnAnswered
<1>3. CASE c \notin holds[d]
  <2>1. HoldsMoved(d)
    BY HoldsSteps
  <2>2. CASE /\ sent'[d] = sent[d] + 1
             /\ \E k \in Cursors' : issued'[k] = NextOp(d) /\ holds'[d] = holds[d] \cup {k}
    <3>1. issued'[c] = NextOp(d)
      BY <1>3, <2>2
    <3> QED
      BY <1>1, <2>2, <3>1 DEF NextOp
  <2>3. CASE Pull(d)
    <3>1. c \in Rows
      BY <1>3, <2>3, HoldsSteps
    <3>2. c \in Cursors /\ issued'[c] = issued[c] /\ issued[c].seq \in Nat
      BY <3>1, LogGrows, Elements DEF Rows
    <3>3. issued[c].seq <= sent[d] + 1
      BY <3>2 DEF SequencesFit
    <3>4. Stored(NextOp(d)) = {}
      BY <2>3 DEF Pull, Drained
    <3>5. issued[c].seq # sent[d] + 1
      <4> SUFFICES ASSUME issued[c].seq = sent[d] + 1 PROVE FALSE
        OBVIOUS
      <4>1. issued[c] = NextOp(d)
        BY <3>2, NextIsStored
      <4> QED
        BY <3>1, <3>4, <4>1 DEF Stored
    <3> QED
      BY <1>1, <3>2, <3>3, <3>5
  <2>4. CASE Join(d)
    <3>1. issued' = issued
      BY <2>4 DEF Join, Change
    <3>2. c \in Cursors
      BY <2>4, <3>1, HoldsSteps DEF Cursors
    <3> QED
      BY <2>4, <3>1, <3>2, JoinIsNew DEF OutsideFresh
  <2> QED
    BY <1>3, <2>1, <2>2, <2>3, <2>4 DEF HoldsMoved
<1> QED
  BY <1>2, <1>3

\* A row that is kept stays while an upload is in flight.
LEMMA KeptStays ==
    ASSUME TypeOK, Next, NEW op, Kept(op), expired' = expired
    PROVE  Kept(op)'
  BY LogGrows DEF Kept

\* An upload in flight: what it waits for stays as it was checked.
LEMMA FlyingFits ==
    ASSUME TypeOK, OutsideFresh, SequencesFit, UploadsFit, Next,
           NEW d \in Devices, NEW t \in Tabs, NEW op, op # None, upload[d][t] = op
    PROVE  /\ \A c \in expired' : issued'[c] = op => c \in gone'
           /\ op.seq <= sent'[d] => Kept(op)'
           /\ \A c \in Cursors' : issued'[c].dev = d /\ c \notin late'[d] =>
                 issued'[c].seq < op.seq \/ Kept(op)'
<1>1. op \in Operations /\ op.dev = d /\ op.seq \in Nat /\ op.seq <= sent[d] + 1
  BY Elements DEF SequencesFit, Operations
<1>2. expired' = expired
  <2>1. <<d, t>> \in Uploading
    BY DEF Uploading
  <2> QED
    BY <2>1, ExpiredFrame DEF RetentionPasses, Idle
<1>3. /\ \A c \in expired : issued[c] = op => c \in gone
      /\ op.seq <= sent[d] => Kept(op)
      /\ \A c \in Cursors : issued[c].dev = d /\ c \notin late[d] =>
            issued[c].seq < op.seq \/ Kept(op)
  BY DEF UploadsFit
<1>4. /\ expired \subseteq Cursors /\ gone \subseteq gone'
      /\ sent[d] \in Nat /\ sent'[d] \in Nat
  BY GoneFrame, Elements, SentSteps DEF TypeOK, Cleanup
<1>5. \A c \in expired' : issued'[c] = op => c \in gone /\ c \in gone'
  BY <1>2, <1>3, <1>4, LogGrows
<1>6. Kept(op) => Kept(op)'
  BY <1>2, KeptStays
<1>7. ASSUME op.seq <= sent'[d] PROVE Kept(op)'
  <2>1. CASE op.seq <= sent[d]
    BY <1>3, <1>6, <2>1
  <2>2. CASE ~(op.seq <= sent[d])
    <3>1. SentMoved(d)
      BY SentSteps
    <3>2. sent'[d] = sent[d] + 1 /\ \E c \in Cursors' \ gone : issued'[c] = NextOp(d)
      BY <1>1, <1>4, <1>7, <2>2, <3>1 DEF SentMoved
    <3>3. PICK c \in Cursors' \ gone : issued'[c] = NextOp(d)
      BY <3>2
    <3>4. op.seq = sent[d] + 1
      BY <1>1, <1>4, <2>2
    <3>5. op = NextOp(d)
      BY <1>1, <3>4 DEF NextOp, Operations
    <3>6. c \notin expired'
      BY <1>5, <3>3, <3>5
    <3> QED
      BY <3>3, <3>5, <3>6 DEF Kept
  <2> QED
    BY <2>1, <2>2
<1>8. ASSUME NEW c \in Cursors', issued'[c].dev = d, c \notin late'[d]
      PROVE  issued'[c].seq < op.seq \/ Kept(op)'
  <2>1. CASE c \in Cursors
    <3>1. ~Join(d)
      BY JoinIsNew DEF OutsideFresh
    <3>2. c \notin late[d]
      BY <1>8, <3>1, LateSteps
    <3>3. issued'[c] = issued[c]
      BY <2>1, LogGrows
    <3> QED
      BY <1>3, <1>6, <1>8, <2>1, <3>2, <3>3
  <2>2. CASE c \notin Cursors
    <3>1. PICK e \in Devices, s \in Tabs : upload[e][s] # None /\ issued'[c] = upload[e][s]
      BY <2>2, NewCursor
    <3> DEFINE other == upload[e][s]
    <3>2. /\ other \in Operations /\ other.dev = e /\ other.seq \in Nat
          /\ other.seq <= sent[e] + 1 /\ issued'[c] = other
      BY <3>1, Elements DEF SequencesFit, Operations
    <3> HIDE DEF other
    <3>3. other.dev = d /\ other.seq <= sent[d] + 1
      BY <1>8, <3>2
    <3>4. CASE other.seq < op.seq
      BY <3>2, <3>4
    <3>5. CASE other.seq = op.seq
      <4>1. other = op
        BY <1>1, <3>2, <3>3, <3>5 DEF Operations
      <4>2. c \notin expired'
        BY <1>2, <1>4, <2>2
      <4> QED
        BY <3>2, <4>1, <4>2 DEF Kept
    <3>6. CASE op.seq < other.seq
      <4>1. op.seq <= sent[d]
        BY <1>1, <1>4, <3>2, <3>3, <3>6
      <4> QED
        BY <1>3, <1>6, <4>1
    <3> QED
      BY <1>1, <3>2, <3>4, <3>5, <3>6
  <2> QED
    BY <2>1, <2>2
<1> QED
  BY <1>5, <1>7, <1>8

\* Rows that are gone were read by an active device, so its next operation is not there.
LEMMA CheckedFits ==
    ASSUME TypeOK, SequencesFit, OwnAnswered, DoomedWereRead, NEW d \in Devices,
           NEW t \in Tabs, UploadCheck(d, t), NEW op, op = NextOp(d)
    PROVE  /\ \A c \in expired : issued[c] = op => c \in gone
           /\ op.seq = sent[d] + 1 /\ sent[d] \in Nat
           /\ \A c \in Cursors : issued[c].dev = d /\ c \notin late[d] =>
                 issued[c].seq < op.seq
<1>1. /\ Stored(op) = {} /\ op.seq = LastSequence(d) + 1 /\ d \in Counted
  BY DEF UploadCheck, Active, Counted
<1>2. op.seq = sent[d] + 1 /\ sent[d] \in Nat
  BY Elements DEF NextOp
<1>3. /\ gone \subseteq expired /\ expired \subseteq compacted /\ compacted \subseteq Cursors
      /\ compacted \subseteq Doomed
  BY DEF TypeOK, Doomed
<1>4. \A c \in expired : issued[c] = op => c \in gone
  BY <1>1, <1>3 DEF Stored, Rows
<1>5. ASSUME NEW c \in Cursors, issued[c].dev = d, c \notin late[d]
      PROVE  issued[c].seq < op.seq
  <2>1. issued[c].seq \in Nat
    BY Elements
  <2>2. CASE c \in Rows
    <3>1. LastSequence(d) \in Nat /\ issued[c].seq <= LastSequence(d)
      BY <1>5, <2>2, LastSequenceIs, Elements
    <3> QED
      BY <1>1, <2>1, <3>1
  <2>3. CASE c \notin Rows
    <3>1. c \in gone
      BY <2>3 DEF Rows
    <3>2. c \in holds[d]
      BY <1>1, <1>3, <1>5, <3>1 DEF DoomedWereRead
    <3>3. issued[c].seq <= sent[d]
      BY <1>5, <3>2 DEF OwnAnswered
    <3> QED
      BY <1>2, <2>1, <3>3
  <2> QED
    BY <2>2, <2>3
<1> QED
  BY <1>2, <1>4, <1>5

\* An upload fits when it is checked, and goes on to while it is in flight.
LEMMA UploadsFitStep ==
    ASSUME TypeOK, OutsideFresh, SequencesFit, OwnAnswered, DoomedWereRead, UploadsFit, Next
    PROVE  UploadsFit'
<1> SUFFICES ASSUME NEW d \in Devices, NEW t \in Tabs, NEW op, op # None, upload'[d][t] = op
             PROVE  /\ \A c \in expired' : issued'[c] = op => c \in gone'
                    /\ op.seq <= sent'[d] => Kept(op)'
                    /\ \A c \in Cursors' : issued'[c].dev = d /\ c \notin late'[d] =>
                          issued'[c].seq < op.seq \/ Kept(op)'
  BY DEF UploadsFit, Kept
<1>1. CASE upload[d][t] = op
  BY <1>1, FlyingFits
<1>2. CASE UploadCheck(d, t) /\ op = NextOp(d)
  <2>1. UNCHANGED <<issued, expired, gone, sent, late>>
    BY <1>2, Leaves
  <2>2. /\ \A c \in expired : issued[c] = op => c \in gone
        /\ op.seq = sent[d] + 1 /\ sent[d] \in Nat
        /\ \A c \in Cursors : issued[c].dev = d /\ c \notin late[d] => issued[c].seq < op.seq
    BY <1>2, CheckedFits
  <2>3. Cursors' = Cursors /\ ~(op.seq <= sent'[d])
    BY <2>1, <2>2 DEF Cursors
  <2> QED
    BY <2>1, <2>2, <2>3
<1> QED
  BY <1>1, <1>2, UploadSteps

\* What is inserted comes after what its device has stored.
LEMMA StoredStep ==
    ASSUME TypeOK, OutsideFresh, SequencesFit, UploadsFit, StoredOnceInOrder, Next
    PROVE  StoredOnceInOrder'
<1> SUFFICES ASSUME NEW c \in Cursors', NEW k \in Cursors', issued'[c].dev = issued'[k].dev,
                    c < k, c \notin late'[issued'[c].dev]
             PROVE  issued'[c].seq < issued'[k].seq
  BY DEF StoredOnceInOrder
<1>1. c \in Cursors
  <2>1. Len(issued) \in Nat /\ Len(issued') \in Nat
    BY LogGrows, Elements
  <2>2. c \notin Cursors => c = Len(issued) + 1 /\ Len(issued') = Len(issued) + 1
    BY NewCursor
  <2>3. k \in Nat /\ k <= Len(issued') /\ c \in Nat
    BY <2>1 DEF Cursors
  <2> QED
    BY <2>1, <2>2, <2>3
<1>2. issued'[c] = issued[c] /\ issued[c].dev \in Devices
  BY <1>1, LogGrows, Elements
<1>3. c \notin late[issued[c].dev]
  <2>1. ~Join(issued[c].dev)
    BY <1>1, <1>2, JoinIsNew DEF OutsideFresh
  <2> QED
    BY <1>2, <2>1, LateSteps
<1>4. CASE k \in Cursors
  <2>1. issued'[k] = issued[k]
    BY <1>4, LogGrows
  <2> QED
    BY <1>1, <1>2, <1>3, <1>4, <2>1 DEF StoredOnceInOrder
<1>5. CASE k \notin Cursors
  <2>1. PICK d \in Devices, t \in Tabs :
           /\ upload[d][t] # None /\ Stored(upload[d][t]) = {} /\ issued'[k] = upload[d][t]
    BY <1>5, NewCursor
  <2>2. upload[d][t].dev = d
    BY <2>1 DEF SequencesFit
  <2>3. issued[c].seq < upload[d][t].seq \/ Kept(upload[d][t])
    BY <1>1, <1>2, <1>3, <2>1, <2>2 DEF UploadsFit
  <2>4. ~Kept(upload[d][t])
    BY <2>1 DEF Kept, Stored, Rows, TypeOK
  <2> QED
    BY <1>2, <2>1, <2>3, <2>4
<1> QED
  BY <1>4, <1>5

-----------------------------------------------------------------------------
(* The theorems.                                                             *)

\* An empty log, founders in the vault with the first snapshot, and no requests.
LEMMA InitIInv == Init => IInv
<1> SUFFICES ASSUME Init PROVE IInv
  OBVIOUS
<1>1. Cursors = {} /\ Len(issued) = 0
  BY DEF Init, Cursors
<1>2. TypeOK
  <2>1. issued \in Seq(Operations)
    BY DEF Init
  <2>2. snapshot \in SnapRequests /\ snapshot.epoch <= epoch /\ epoch \in Nat
    BY DEF Init, SnapRequests
  <2>3. changes \in 0..MaxChanges
    BY LogAssumption DEF Init, LogAssumption
  <2> QED
    BY <1>1, <2>1, <2>2, <2>3 DEF Init, TypeOK
<1>3. \A d \in Devices, t \in Tabs : upload[d][t] = None /\ ackRequest[d][t] = None
  BY DEF Init
<1>4. \A d \in Devices : /\ ack[d] = None /\ snapRequest[d] = None /\ known[d] = 0
                         /\ holds[d] = {} /\ late[d] = {}
                         /\ revision[d] = IF d \in Founders THEN 1 ELSE 0
                         /\ status[d] = IF d \in Founders THEN "active" ELSE "outside"
  BY DEF Init
<1>5. OutsideFresh
  BY <1>1, <1>3, <1>4 DEF OutsideFresh
<1>6. snapshot.rev = 1 /\ snapshot.epoch = 1 /\ snapshot.covers = 0 /\ epoch = 1
  BY DEF Init
<1>7. SnapshotsFit
  BY <1>1, <1>4, <1>6 DEF SnapshotsFit
<1>8. AcksBehind /\ GateHeld
  BY <1>3, <1>4 DEF AcksBehind, GateHeld, At
<1>9. RevisionGapBounded
  BY <1>4, <1>6 DEF RevisionGapBounded, Members
<1>10. HeldToKnown
  BY <1>4 DEF HeldToKnown
<1>11. DoomedWereRead
  BY <1>1 DEF DoomedWereRead, Doomed, Init
<1>12. SequencesFit /\ OwnAnswered /\ UploadsFit /\ StoredOnceInOrder
  BY <1>1, <1>3, <1>4 DEF SequencesFit, OwnAnswered, UploadsFit, StoredOnceInOrder
<1> QED
  BY <1>2, <1>5, <1>7, <1>8, <1>9, <1>10, <1>11, <1>12 DEF IInv

\* Every step keeps the invariant.
LEMMA NextIInv == IInv /\ [Next]_vars => IInv'
<1> SUFFICES ASSUME IInv, [Next]_vars PROVE IInv'
  OBVIOUS
<1>1. CASE UNCHANGED vars
  BY <1>1 DEF vars, d1, requests, clients, IInv, TypeOK, OutsideFresh, SnapshotsFit,
              AcksBehind, GateHeld, RevisionGapBounded, HeldToKnown, DoomedWereRead,
              SequencesFit, OwnAnswered, UploadsFit, StoredOnceInOrder, Cursors, Kept,
              Doomed, Counted, Members, At, CommitCurrent
<1>2. CASE Next
  BY <1>2, TypeStep, OutsideFreshStep, SnapshotsFitStep, AcksBehindStep, GateHeldStep,
     GapStep, HeldToKnownStep, DoomedStep, SequencesFitStep, OwnAnsweredStep,
     UploadsFitStep, StoredStep DEF IInv
<1> QED
  BY <1>1, <1>2

\* The strengthened invariant holds in every reachable state.
THEOREM ChangeLogInvariant == Spec => []IInv
<1> QED
  BY InitIInv, NextIInv, PTL DEF Spec

\* Every variable has its type, and compaction and deletion follow one another.
THEOREM ChangeLogTypes == Spec => []TypeOK
<1>1. IInv => TypeOK
  BY DEF IInv
<1> QED
  BY <1>1, ChangeLogInvariant, PTL

\* However the requests of a device's tabs, retries, deaths, compaction and cleanup
\* interleave, its operations are stored once and in sequence.
THEOREM OperationsStoredOnce == Spec => []StoredOnceInOrder
<1>1. IInv => StoredOnceInOrder
  BY DEF IInv
<1> QED
  BY <1>1, ChangeLogInvariant, PTL

\* No operation is deleted that an active device still has to read.
THEOREM NothingDeletedUnread == Spec => []DeletedWereRead
<1>1. IInv => DeletedWereRead
  BY DEF IInv, TypeOK, DoomedWereRead, DeletedWereRead, Doomed
<1> QED
  BY <1>1, ChangeLogInvariant, PTL

\* A member falls at most one revision behind for each key epoch.
THEOREM RevisionGateHolds == Spec => []RevisionGapBounded
<1>1. IInv => RevisionGapBounded
  BY DEF IInv
<1> QED
  BY <1>1, ChangeLogInvariant, PTL
=============================================================================
