---------------------- MODULE InspectionLifecycleProofs ----------------------
(***************************************************************************)
(* For any number of inspectors, rows and overlapped requests, the row     *)
(* lock of the inspection keeps its assignments in order.  The inductive   *)
(* invariant says that every view a request holds is no longer than the    *)
(* tables (rows are only inserted), and that the view of the request that  *)
(* holds the lock is not stale in the inspection and its assignments.      *)
(***************************************************************************)
EXTENDS InspectionLifecycle, SequenceTheorems, TLAPS

\* A view that is no longer than the tables, and one that is not stale.
ViewOK(d) ==
    /\ d \in Database
    /\ Len(d.assignments) <= Len(assignments)
    /\ Len(d.sessions) <= Len(sessions)

Current(d) ==
    /\ d.inspection = inspection
    /\ d.assignments = assignments
    /\ Len(d.sessions) = Len(sessions)

ViewsOK == \A r \in Requests : view[r] # NoRows => ViewOK(view[r])
LockOK ==
    \A r \in holder :
        /\ view[r] # NoRows
        /\ Current(view[r])
        /\ holder = {r}

\* The property, of a set of rows.
Orderly(d) ==
    /\ \A k \in DOMAIN d.assignments :
          d.assignments[k].status = "ACTIVE" => k = Len(d.assignments)
    /\ d.inspection = "CANCELLED" => Active(d) = {}

IInv == TypeOK /\ ViewsOK /\ LockOK /\ CancelledIsUnassigned

-----------------------------------------------------------------------------
(* Views. *)

\* A function on an initial segment of the naturals is a sequence.
LEMMA FunctionIsSeq ==
    ASSUME NEW S, NEW n \in Nat, NEW f \in [1 .. n -> S]
    PROVE  f \in Seq(S) /\ Len(f) = n
<1>1. f \in Seq(S)
  BY SeqDef
<1>2. DOMAIN f = 1 .. Len(f) /\ Len(f) \in Nat
  BY <1>1, LenProperties
<1> QED
  BY <1>1, <1>2

\* The stored rows form an orderly database.
LEMMA StoredOK ==
    ASSUME IInv
    PROVE  ViewOK(Stored) /\ Current(Stored) /\ Orderly(Stored)
BY DEF IInv, TypeOK, ViewOK, Current, Stored, Database, Orderly, CancelledIsUnassigned, Active

\* What an unlocked request decides on is a view, and it holds no lock.
LEMMA UnlockedView ==
    ASSUME IInv, NEW r \in Requests \cup {Now}, Unlocked(r)
    PROVE  ViewOK(Seen(r)) /\ r \notin holder
BY StoredOK, LifecycleAssumption DEF IInv, TypeOK, ViewsOK, Unlocked, Seen

\* What a locked request decides on is not stale.
LEMMA LockedView ==
    ASSUME IInv, NEW r \in Requests \cup {Now}, Locked(r)
    PROVE  /\ ViewOK(Seen(r)) /\ Current(Seen(r)) /\ Orderly(Seen(r))
           /\ holder \subseteq {r}
<1>1. CASE r = Now
  BY <1>1, StoredOK, LifecycleAssumption DEF IInv, TypeOK, Locked, Seen
<1>2. CASE r # Now
  <2>1. r \in Requests /\ r \in holder /\ holder = {r}
    BY <1>2, LifecycleAssumption DEF Locked, IInv, LockOK
  <2>2. ViewOK(view[r]) /\ Current(view[r])
    BY <2>1 DEF IInv, ViewsOK, LockOK
  <2>3. Orderly(view[r])
    BY <2>2, StoredOK DEF Orderly, Current, Stored, Active
  <2> QED
    BY <1>2, <2>1, <2>2, <2>3 DEF Seen
<1> QED
  BY <1>1, <1>2

-----------------------------------------------------------------------------
(* Commits. *)

\* A commit appends rows and keeps the types.
LEMMA CommitTypes ==
    ASSUME IInv, NEW r \in Requests \cup {Now}, NEW n \in Database,
           ViewOK(Seen(r)),
           Len(Seen(r).assignments) <= Len(n.assignments),
           Len(Seen(r).sessions) <= Len(n.sessions),
           Commit(r, n)
    PROVE  /\ inspection' \in InspectionStatus
           /\ assignments' \in Seq(Assignment)
           /\ sessions' \in Seq(Session)
           /\ Len(assignments') = IF Len(n.assignments) <= Len(assignments)
                                  THEN Len(assignments) ELSE Len(n.assignments)
           /\ Len(sessions') = IF Len(n.sessions) <= Len(sessions)
                               THEN Len(sessions) ELSE Len(n.sessions)
           /\ view' \in [Requests -> Database \cup {NoRows}]
           /\ holder' \in SUBSET Requests
<1> DEFINE d == Seen(r)
           la == IF Len(n.assignments) <= Len(assignments)
                 THEN Len(assignments) ELSE Len(n.assignments)
           ls == IF Len(n.sessions) <= Len(sessions)
                 THEN Len(sessions) ELSE Len(n.sessions)
<1>1. /\ d \in Database /\ TypeOK
      /\ d.assignments \in Seq(Assignment) /\ d.sessions \in Seq(Session)
      /\ n.assignments \in Seq(Assignment) /\ n.sessions \in Seq(Session)
      /\ la \in Nat /\ ls \in Nat
  BY DEF IInv, ViewOK, Database, TypeOK
<1>2. MergedAssignments(d, n) \in [1 .. la -> Assignment]
  <2>1. DOMAIN assignments \cup DOMAIN n.assignments = 1 .. la
    BY <1>1 DEF TypeOK
  <2>2. ASSUME NEW k \in 1 .. la
        PROVE  MergedAssignments(d, n)[k] \in Assignment
    <3>1. CASE k \notin DOMAIN assignments
      <4>1. k \in DOMAIN n.assignments /\ n.assignments[k] \in Assignment
        BY <1>1, <2>1, <3>1
      <4>2. MergedAssignments(d, n)[k] = n.assignments[k]
        BY <2>1, <3>1 DEF MergedAssignments
      <4> QED
        BY <4>1, <4>2
    <3>2. CASE k \in DOMAIN assignments /\ k \notin DOMAIN d.assignments
      BY <1>1, <2>1, <3>2 DEF MergedAssignments, TypeOK
    <3>3. CASE k \in DOMAIN assignments /\ k \in DOMAIN d.assignments
      <4>1. /\ assignments[k] \in Assignment
            /\ d.assignments[k] \in Assignment
            /\ n.assignments[k] \in Assignment
        BY <1>1, <3>3 DEF TypeOK, ViewOK
      <4> QED
        BY <2>1, <3>3, <4>1 DEF MergedAssignments, Assignment, Merge
    <3> QED
      BY <3>1, <3>2, <3>3
  <2> QED
    BY <2>1, <2>2 DEF MergedAssignments
<1>3. MergedSessions(d, n) \in [1 .. ls -> Session]
  <2>1. DOMAIN sessions \cup DOMAIN n.sessions = 1 .. ls
    BY <1>1 DEF TypeOK
  <2>2. ASSUME NEW k \in 1 .. ls
        PROVE  MergedSessions(d, n)[k] \in Session
    <3>1. CASE k \notin DOMAIN sessions
      <4>1. k \in DOMAIN n.sessions /\ n.sessions[k] \in Session
        BY <1>1, <2>1, <3>1
      <4>2. MergedSessions(d, n)[k] = n.sessions[k]
        BY <2>1, <3>1 DEF MergedSessions
      <4> QED
        BY <4>1, <4>2
    <3>2. CASE k \in DOMAIN sessions /\ k \notin DOMAIN d.sessions
      BY <1>1, <2>1, <3>2 DEF MergedSessions, TypeOK
    <3>3. CASE k \in DOMAIN sessions /\ k \in DOMAIN d.sessions
      <4>1. /\ sessions[k] \in Session
            /\ d.sessions[k] \in Session
            /\ n.sessions[k] \in Session
        BY <1>1, <3>3 DEF TypeOK, ViewOK
      <4> QED
        BY <2>1, <3>3, <4>1 DEF MergedSessions, Session, Merge
    <3> QED
      BY <3>1, <3>2, <3>3
  <2> QED
    BY <2>1, <2>2 DEF MergedSessions
<1>4. assignments' \in Seq(Assignment) /\ Len(assignments') = la
  BY <1>1, <1>2, FunctionIsSeq DEF Commit
<1>5. sessions' \in Seq(Session) /\ Len(sessions') = ls
  BY <1>1, <1>3, FunctionIsSeq DEF Commit
<1>6. inspection' \in InspectionStatus
  BY <1>1 DEF Commit, Merge, TypeOK, Database
<1>7. view' \in [Requests -> Database \cup {NoRows}] /\ holder' \in SUBSET Requests
  BY <1>1 DEF Commit, Close, TypeOK
<1> QED
  BY <1>4, <1>5, <1>6, <1>7

\* A commit that leaves the assignments' statuses alone and does not cancel.
Harmless(d, n) ==
    /\ n \in Database
    /\ Len(n.assignments) = Len(d.assignments)
    /\ Len(n.sessions) = Len(d.sessions)
    /\ \A k \in DOMAIN d.assignments :
          n.assignments[k].status = d.assignments[k].status
    /\ n.inspection = d.inspection => n.assignments = d.assignments
    /\ n.inspection = "CANCELLED" => n.inspection = d.inspection

\* The views of the other requests stay views when rows are only appended.
LEMMA ViewsKept ==
    ASSUME IInv, NEW r,
           Len(assignments) <= Len(assignments'), Len(sessions) <= Len(sessions'),
           assignments' \in Seq(Assignment), sessions' \in Seq(Session),
           Close(r)
    PROVE  ViewsOK'
<1> SUFFICES ASSUME NEW q \in Requests, view'[q] # NoRows
             PROVE  ViewOK(view[q])' 
  BY DEF ViewsOK, ViewOK
<1>1. view'[q] = view[q] /\ ViewOK(view[q])
  BY DEF IInv, ViewsOK, Close
<1>2. /\ Len(view[q].assignments) \in Nat /\ Len(view[q].sessions) \in Nat
      /\ Len(assignments) \in Nat /\ Len(sessions) \in Nat
      /\ Len(assignments') \in Nat /\ Len(sessions') \in Nat
  BY <1>1 DEF ViewOK, Database, IInv, TypeOK
<1> QED
  BY <1>1, <1>2 DEF ViewOK

\* An unlocked request that commits something harmless keeps the invariant: if
\* it writes the inspection, nobody holds the lock.
LEMMA UnlockedCommit ==
    ASSUME IInv, NEW r \in Requests \cup {Now}, NEW n,
           ViewOK(Seen(r)), r \notin holder, Harmless(Seen(r), n), Commit(r, n)
    PROVE  IInv' /\ Len(sessions') = Len(sessions)
<1> DEFINE d == Seen(r)
<1>1. /\ d \in Database /\ n \in Database /\ TypeOK
      /\ d.assignments \in Seq(Assignment) /\ n.assignments \in Seq(Assignment)
      /\ d.sessions \in Seq(Session) /\ n.sessions \in Seq(Session)
  BY DEF Harmless, ViewOK, IInv, Database
<1>2. /\ TypeOK'
      /\ Len(assignments') = Len(assignments) /\ Len(sessions') = Len(sessions)
  BY <1>1, CommitTypes DEF Harmless, ViewOK, TypeOK
<1>3. ViewsOK'
  BY <1>1, <1>2, ViewsKept DEF Commit, TypeOK
<1>4. \A k \in 1 .. Len(assignments) : assignments'[k].status = assignments[k].status
  <2> SUFFICES ASSUME NEW k \in 1 .. Len(assignments)
               PROVE  assignments'[k].status = assignments[k].status
    OBVIOUS
  <2>1. k \in DOMAIN assignments
    BY <1>1 DEF TypeOK
  <2>2. assignments[k] \in Assignment
    BY <1>1 DEF TypeOK
  <2>3. CASE k \notin DOMAIN d.assignments
    BY <2>1, <2>3 DEF Commit, MergedAssignments
  <2>4. CASE k \in DOMAIN d.assignments
    <3>1. n.assignments[k].status = d.assignments[k].status
      BY <2>4 DEF Harmless
    <3> QED
      BY <2>1, <2>2, <2>4, <3>1 DEF Commit, MergedAssignments, Merge, Assignment
  <2> QED
    BY <2>3, <2>4
<1>5. inspection' = "CANCELLED" => inspection = "CANCELLED"
  BY DEF Commit, Merge, Harmless
<1>6. CancelledIsUnassigned'
  <2>1. DOMAIN assignments = 1 .. Len(assignments) /\ DOMAIN assignments' = 1 .. Len(assignments)
    BY <1>2 DEF TypeOK, IInv
  <2>2. Active(Stored)' = Active(Stored)
    BY <1>4, <2>1 DEF Active, Stored
  <2>3. \A k \in DOMAIN assignments' :
           assignments'[k].status = "ACTIVE" => k = Len(assignments')
    BY <1>2, <1>4, <2>1 DEF IInv, CancelledIsUnassigned
  <2> QED
    BY <1>5, <2>2, <2>3 DEF CancelledIsUnassigned, IInv
<1>7. LockOK'
  <2> SUFFICES ASSUME NEW q \in holder'
               PROVE  view'[q] # NoRows /\ Current(view[q])' /\ holder' = {q}
    BY DEF LockOK
  <2>1. q \in holder /\ q # r /\ holder' = holder /\ q \in Requests
    BY <1>1 DEF Commit, Close, TypeOK
  <2>2. view'[q] = view[q]
    BY <2>1 DEF Commit, Close
  <2>3. inspection' = inspection /\ n.assignments = d.assignments
    BY <2>1 DEF Commit, Merge, Harmless
  <2>4. assignments' = assignments
    <3>1. \A k \in 1 .. Len(assignments) : assignments'[k] = assignments[k]
      <4> SUFFICES ASSUME NEW k \in 1 .. Len(assignments)
                   PROVE  assignments'[k] = assignments[k]
        OBVIOUS
      <4>1. k \in DOMAIN assignments /\ assignments[k] \in Assignment
        BY <1>1 DEF TypeOK
      <4> QED
        BY <2>3, <4>1 DEF Commit, MergedAssignments, Merge, Assignment
    <3> QED
      BY <1>1, <1>2, <3>1, SeqEqual DEF TypeOK
  <2> QED
    BY <1>2, <2>1, <2>2, <2>3, <2>4 DEF IInv, LockOK, Current
<1> QED
  BY <1>2, <1>3, <1>6, <1>7 DEF IInv

\* A request that holds the lock and commits orderly rows keeps the invariant.
LEMMA LockedCommit ==
    ASSUME IInv, NEW r \in Requests \cup {Now}, NEW n \in Database,
           Locked(r), Orderly(n),
           Len(Seen(r).assignments) <= Len(n.assignments),
           Len(Seen(r).sessions) <= Len(n.sessions),
           Commit(r, n)
    PROVE  /\ IInv'
           /\ inspection' = n.inspection
           /\ Len(assignments') = Len(n.assignments)
           /\ Len(sessions') = Len(n.sessions)
           /\ \A k \in 1 .. Len(n.assignments) :
                 assignments'[k].status = n.assignments[k].status
<1> DEFINE d == Seen(r)
<1>1. ViewOK(d) /\ Current(d) /\ holder \subseteq {r}
  BY LockedView
<1>2. /\ d \in Database /\ TypeOK
      /\ d.assignments \in Seq(Assignment) /\ n.assignments \in Seq(Assignment)
      /\ d.sessions \in Seq(Session) /\ n.sessions \in Seq(Session)
  BY <1>1 DEF ViewOK, IInv, Database
<1>3. /\ TypeOK'
      /\ Len(assignments') = Len(n.assignments) /\ Len(sessions') = Len(n.sessions)
  <2>1. /\ inspection' \in InspectionStatus
        /\ assignments' \in Seq(Assignment) /\ sessions' \in Seq(Session)
        /\ Len(assignments') = IF Len(n.assignments) <= Len(assignments)
                               THEN Len(assignments) ELSE Len(n.assignments)
        /\ Len(sessions') = IF Len(n.sessions) <= Len(sessions)
                            THEN Len(sessions) ELSE Len(n.sessions)
        /\ view' \in [Requests -> Database \cup {NoRows}]
        /\ holder' \in SUBSET Requests
    BY <1>1, CommitTypes
  <2>2. /\ Len(assignments) \in Nat /\ Len(n.assignments) \in Nat
        /\ Len(sessions) \in Nat /\ Len(n.sessions) \in Nat
        /\ Len(assignments) <= Len(n.assignments)
        /\ Len(sessions) <= Len(n.sessions)
    BY <1>1, <1>2 DEF Current, TypeOK
  <2> QED
    BY <2>1, <2>2 DEF TypeOK
<1>4. ViewsOK'
  <2>1. Len(assignments) <= Len(assignments') /\ Len(sessions) <= Len(sessions')
    BY <1>1, <1>3 DEF Current
  <2>2. Close(r) /\ assignments' \in Seq(Assignment) /\ sessions' \in Seq(Session)
    BY <1>3 DEF Commit, TypeOK
  <2> QED
    BY <2>1, <2>2, ViewsKept
<1>5. LockOK'
  BY <1>1 DEF Commit, Close, LockOK
<1>6. inspection' = n.inspection
  BY <1>1 DEF Commit, Merge, Current
<1>7. ASSUME NEW k \in 1 .. Len(n.assignments)
      PROVE  assignments'[k].status = n.assignments[k].status
  <2>1. CASE k \notin DOMAIN assignments
    <3>1. k \in DOMAIN n.assignments
      BY <1>2
    <3> QED
      BY <2>1, <3>1 DEF Commit, MergedAssignments
  <2>2. CASE k \in DOMAIN assignments
    <3>1. assignments[k] \in Assignment /\ d.assignments[k] = assignments[k]
      BY <1>1, <1>2, <2>2 DEF Current, TypeOK
    <3>2. k \in DOMAIN d.assignments
      BY <1>1, <2>2 DEF Current
    <3> QED
      BY <2>2, <3>1, <3>2 DEF Commit, MergedAssignments, Merge, Assignment
  <2> QED
    BY <2>1, <2>2
<1>8. CancelledIsUnassigned'
  <2>1. /\ DOMAIN n.assignments = 1 .. Len(n.assignments)
        /\ DOMAIN assignments' = 1 .. Len(n.assignments)
    BY <1>2, <1>3 DEF TypeOK
  <2>2. Active(Stored)' = Active(n)
    BY <1>7, <2>1 DEF Active, Stored
  <2>3. \A k \in DOMAIN assignments' :
           assignments'[k].status = "ACTIVE" => k = Len(assignments')
    BY <1>3, <1>7, <2>1 DEF Orderly
  <2> QED
    BY <1>6, <2>2, <2>3 DEF CancelledIsUnassigned, Orderly
<1> QED
  BY <1>3, <1>4, <1>5, <1>6, <1>7, <1>8 DEF IInv

-----------------------------------------------------------------------------
(* Rows that handlers compute. *)

\* Moving the inspection along keeps the rest, and never cancels.
LEMMA MoveFacts ==
    ASSUME NEW d \in Database, NEW to \in InspectionStatus \ {"CANCELLED"}
    PROVE  /\ Move(d, to) \in Database
           /\ Move(d, to).assignments = d.assignments
           /\ Move(d, to).sessions = d.sessions
           /\ Move(d, to).inspection = "CANCELLED" => d.inspection = "CANCELLED"
BY DEF Move, Database

\* Writing a session's status keeps the rest.
LEMMA SetSessionFacts ==
    ASSUME NEW d \in Database, NEW s \in DOMAIN d.sessions, NEW to \in SessionStatus
    PROVE  /\ SetSession(d, s, to) \in Database
           /\ SetSession(d, s, to).inspection = d.inspection
           /\ SetSession(d, s, to).assignments = d.assignments
           /\ Len(SetSession(d, s, to).sessions) = Len(d.sessions)
<1> DEFINE e == [d.sessions[s] EXCEPT !.status = to]
<1>1. d.sessions \in Seq(Session) /\ d.sessions[s] \in Session
  BY DEF Database
<1>2. e \in Session
  BY <1>1 DEF Session
<1>3. /\ [d.sessions EXCEPT ![s] = e] \in Seq(Session)
      /\ Len([d.sessions EXCEPT ![s] = e]) = Len(d.sessions)
  BY <1>1, <1>2, ExceptSeq, LenProperties
<1>4. SetSession(d, s, to) = [d EXCEPT !.sessions = [d.sessions EXCEPT ![s] = e]]
  BY DEF SetSession
<1> QED
  BY <1>3, <1>4 DEF Database

\* What a session's handler computes is harmless.
LEMMA SetIsHarmless ==
    ASSUME NEW d \in Database, NEW s \in DOMAIN d.sessions, NEW to \in SessionStatus
    PROVE  Harmless(d, SetSession(d, s, to))
BY SetSessionFacts DEF Harmless

LEMMA SetAndMoveIsHarmless ==
    ASSUME NEW d \in Database, NEW s \in DOMAIN d.sessions, NEW to \in SessionStatus,
           NEW st \in InspectionStatus \ {"CANCELLED"}
    PROVE  Harmless(d, Move(SetSession(d, s, to), st))
<1>1. SetSession(d, s, to) \in Database
  BY SetSessionFacts
<1> QED
  BY <1>1, SetSessionFacts, MoveFacts DEF Harmless, Move

\* A harmless change of orderly rows leaves them orderly.
LEMMA HarmlessIsOrderly ==
    ASSUME NEW d \in Database, NEW n, Orderly(d), Harmless(d, n)
    PROVE  Orderly(n)
<1>1. DOMAIN n.assignments = DOMAIN d.assignments
  BY DEF Database, Harmless
<1>2. Active(n) = Active(d)
  BY <1>1 DEF Active, Harmless
<1> QED
  BY <1>1, <1>2 DEF Orderly, Harmless

\* A new assignment after the old ones were retired is in order.
LEMMA AppendIsOrderly ==
    ASSUME NEW d \in Database, NEW i \in Inspectors, Active(d) = {}, NEW n,
           n = [d EXCEPT !.inspection = "ASSIGNED",
                         !.assignments = Append(d.assignments, NewAssignment(i))]
    PROVE  /\ n \in Database /\ Orderly(n)
           /\ Len(n.assignments) = Len(d.assignments) + 1
           /\ n.sessions = d.sessions
<1>1. NewAssignment(i) \in Assignment /\ d.assignments \in Seq(Assignment)
  BY DEF NewAssignment, Assignment, Database
<1>2. /\ n.assignments = Append(d.assignments, NewAssignment(i))
      /\ n.inspection = "ASSIGNED" /\ n.sessions = d.sessions
  BY DEF Database
<1>3. n \in Database
  <2>1. n.assignments \in Seq(Assignment)
    BY <1>1, <1>2, AppendProperties
  <2>2. n = [inspection |-> n.inspection, assignments |-> n.assignments,
             sessions |-> n.sessions]
    BY DEF Database
  <2> QED
    BY <1>2, <2>1, <2>2 DEF Database, InspectionStatus
<1>4. /\ Len(n.assignments) = Len(d.assignments) + 1
      /\ \A k \in 1 .. Len(d.assignments) : n.assignments[k] = d.assignments[k]
  BY <1>1, <1>2, AppendProperties
<1>5. ASSUME NEW k \in DOMAIN n.assignments, n.assignments[k].status = "ACTIVE"
      PROVE  k = Len(n.assignments)
  <2>1. k \in 1 .. Len(d.assignments) + 1
    BY <1>1, <1>2, <1>4
  <2>2. k \notin 1 .. Len(d.assignments)
    BY <1>1, <1>4, <1>5 DEF Active
  <2> QED
    BY <1>1, <1>4, <2>1, <2>2
<1> QED
  BY <1>2, <1>3, <1>4, <1>5 DEF Orderly

\* Retired rows have no ACTIVE assignment.
LEMMA RetireFacts ==
    ASSUME NEW d \in Database, NEW to \in {"REASSIGNED", "CANCELLED"}
    PROVE  /\ Retire(d, to) \in Database
           /\ Active(Retire(d, to)) = {}
           /\ Len(Retire(d, to).assignments) = Len(d.assignments)
           /\ Retire(d, to).sessions = d.sessions
           /\ Retire(d, to).inspection = d.inspection
<1> DEFINE a == [k \in DOMAIN d.assignments |->
                    IF k \in Active(d) THEN [d.assignments[k] EXCEPT !.status = to]
                    ELSE d.assignments[k]]
<1>1. d.assignments \in Seq(Assignment) /\ Len(d.assignments) \in Nat
      /\ DOMAIN d.assignments = 1 .. Len(d.assignments)
  BY LenProperties DEF Database
<1>2. a \in [1 .. Len(d.assignments) -> Assignment]
  <2>1. ASSUME NEW k \in 1 .. Len(d.assignments)
        PROVE  a[k] \in Assignment
    <3>1. d.assignments[k] \in Assignment /\ k \in DOMAIN d.assignments
      BY <1>1
    <3>2. [d.assignments[k] EXCEPT !.status = to] \in Assignment
      BY <3>1 DEF Assignment
    <3> QED
      BY <3>1, <3>2
  <2> QED
    BY <1>1, <2>1
<1>3. a \in Seq(Assignment) /\ Len(a) = Len(d.assignments)
  BY <1>1, <1>2, FunctionIsSeq
<1>4. Retire(d, to) = [d EXCEPT !.assignments = a]
  BY DEF Retire
<1>5. ASSUME NEW k \in DOMAIN a
      PROVE  a[k].status # "ACTIVE"
  <2>1. d.assignments[k] \in Assignment
    BY <1>1
  <2>2. CASE k \in Active(d)
    BY <2>1, <2>2 DEF Assignment
  <2>3. CASE k \notin Active(d)
    BY <2>3 DEF Active
  <2> QED
    BY <2>2, <2>3
<1> HIDE DEF a
<1>6. Retire(d, to).assignments = a
  BY <1>4 DEF Database
<1> QED
  BY <1>3, <1>4, <1>5, <1>6 DEF Database, Active

LEMMA SetAndPutIsHarmless ==
    ASSUME NEW d \in Database, NEW s \in DOMAIN d.sessions, NEW to \in SessionStatus,
           NEW st \in InspectionStatus \ {"CANCELLED"}
    PROVE  Harmless(d, [SetSession(d, s, to) EXCEPT !.inspection = st])
<1>1. /\ SetSession(d, s, to) \in Database
      /\ [SetSession(d, s, to) EXCEPT !.inspection = st] \in Database
  BY SetSessionFacts DEF Database
<1> QED
  BY <1>1, SetSessionFacts DEF Harmless, Database

-----------------------------------------------------------------------------
(* Every step keeps the invariant. *)

\* The statuses that handlers write.
LEMMA Statuses ==
    /\ Transporting \cup ChallengesOver \cup EvidenceStored \subseteq SessionStatus
    /\ {"EXPIRED", "ABORTED", "CREATED", "CAPTURING", "CHALLENGES_IN_PROGRESS",
        "CAPTURE_COMPLETED", "UPLOADING", "UPLOAD_FAILED", "UPLOADED"} \subseteq SessionStatus
    /\ {"ASSIGNED", "ACKNOWLEDGED", "READY", "SESSION_STARTED", "EVIDENCE_UPLOADING",
        "PROCESSING"} \cup Decided \subseteq InspectionStatus \ {"CANCELLED"}
BY DEF SessionStatus, ActiveSessionStates, Transporting, ChallengesOver, EvidenceStored,
       LiveExpiringStates, InspectionStatus, Decided

\* A handler of a session without a lock, whatever statuses it writes.
LEMMA SessionCommit ==
    ASSUME IInv, NEW r \in Requests \cup {Now}, Unlocked(r),
           NEW s \in DOMAIN Seen(r).sessions, NEW to \in SessionStatus,
           NEW st \in InspectionStatus \ {"CANCELLED"},
           \/ Commit(r, SetSession(Seen(r), s, to))
           \/ Commit(r, Move(SetSession(Seen(r), s, to), st))
           \/ Commit(r, [SetSession(Seen(r), s, to) EXCEPT !.inspection = st])
    PROVE  IInv' /\ Len(sessions') = Len(sessions)
<1>1. ViewOK(Seen(r)) /\ r \notin holder /\ Seen(r) \in Database
  BY UnlockedView DEF ViewOK
<1>2. CASE Commit(r, SetSession(Seen(r), s, to))
  BY <1>1, <1>2, SetIsHarmless, UnlockedCommit
<1>3. CASE Commit(r, Move(SetSession(Seen(r), s, to), st))
  BY <1>1, <1>3, SetAndMoveIsHarmless, UnlockedCommit
<1>4. CASE Commit(r, [SetSession(Seen(r), s, to) EXCEPT !.inspection = st])
  BY <1>1, <1>4, SetAndPutIsHarmless, UnlockedCommit
<1> QED
  BY <1>2, <1>3, <1>4

LEMMA SessionStep ==
    ASSUME IInv, NEW r \in Requests \cup {Now}, NEW s \in 1 .. MaxSessions,
           SessionHandler(r, s)
    PROVE  IInv' /\ Len(sessions') = Len(sessions)
<1> USE Statuses
<1>1. CASE ReplayCreation(r, s)
  <2>1. /\ ViewOK(Seen(r)) /\ Seen(r) \in Database /\ Orderly(Seen(r))
        /\ s \in DOMAIN Seen(r).sessions /\ Locked(r)
    BY <1>1, LockedView DEF ReplayCreation, ViewOK
  <2>2. Harmless(Seen(r), Expire(Seen(r), s))
    BY <2>1, SetAndMoveIsHarmless DEF Expire
  <2>3. Orderly(Expire(Seen(r), s))
    BY <2>1, <2>2, HarmlessIsOrderly
  <2>4. /\ Expire(Seen(r), s) \in Database
        /\ Len(Seen(r).assignments) <= Len(Expire(Seen(r), s).assignments)
        /\ Len(Seen(r).sessions) <= Len(Expire(Seen(r), s).sessions)
    BY <2>1, <2>2 DEF Harmless, Database
  <2>5. Len(Expire(Seen(r), s).sessions) = Len(sessions)
    BY <1>1, <2>2, LockedView DEF ReplayCreation, Harmless, Current
  <2> QED
    BY <1>1, <2>1, <2>3, <2>4, <2>5, LockedCommit DEF ReplayCreation
<1>2. CASE Poll(r, s)
  BY <1>2, SessionCommit DEF Poll, Expire
<1>3. CASE StartCapture(r, s)
  BY <1>3, SessionCommit DEF StartCapture, OwnerCall, Expire
<1>4. CASE IssueChallenge(r, s)
  BY <1>4, SessionCommit DEF IssueChallenge, OwnerCall
<1>5. CASE SubmitLastChallenge(r, s)
  BY <1>5, SessionCommit DEF SubmitLastChallenge, OwnerCall
<1>6. CASE CompleteCapture(r, s)
  BY <1>6, SessionCommit DEF CompleteCapture, OwnerCall, Expire
<1>7. CASE Abort(r, s)
  BY <1>7, SessionCommit DEF Abort
<1>8. CASE InitiateUpload(r, s)
  BY <1>8, SessionCommit DEF InitiateUpload, OwnerCall
<1>9. CASE AcceptUpload(r, s)
  BY <1>9, SessionCommit DEF AcceptUpload, OwnerCall
<1>10. CASE CompleteUpload(r, s)
  BY <1>10, SessionCommit DEF CompleteUpload, OwnerCall
<1>11. CASE Analyze(r, s)
  BY <1>11, SessionCommit DEF Analyze
<1>12. CASE \E decision \in Decided : Review(r, s, decision)
  <2>1. PICK decision \in Decided : Review(r, s, decision)
    BY <1>12
  <2>2. ViewOK(Seen(r)) /\ r \notin holder /\ Seen(r) \in Database
    BY <2>1, UnlockedView DEF Review, ViewOK
  <2>3. Harmless(Seen(r), [Seen(r) EXCEPT !.inspection = decision])
    BY <2>2 DEF Harmless, Database
  <2> QED
    BY <2>1, <2>2, <2>3, UnlockedCommit DEF Review
<1> QED
  BY <1>1, <1>2, <1>3, <1>4, <1>5, <1>6, <1>7, <1>8, <1>9, <1>10, <1>11, <1>12
     DEF SessionHandler

\* Whatever happened to an existing session, the rows stay in order.
LEMMA VacatedFacts ==
    ASSUME NEW d \in Database, NEW i, NEW e \in Vacated(d, i)
    PROVE  /\ e \in Database
           /\ e.assignments = d.assignments
           /\ Len(e.sessions) = Len(d.sessions)
BY SetSessionFacts, MoveFacts, Statuses DEF Vacated, Expire

\* The session that create_verification_session opens belongs to the assignee.
LEMMA CreateStep ==
    ASSUME IInv, NEW r \in Requests \cup {Now}, NEW i \in Inspectors,
           CreateSession(r, i)
    PROVE  /\ IInv'
           /\ AssignedTo(Stored', sessions'[Len(sessions')].inspector)
           /\ inspection' = "SESSION_STARTED"
<1> DEFINE d == Seen(r)
<1>1. /\ ViewOK(d) /\ Current(d) /\ Orderly(d) /\ d \in Database /\ Locked(r)
      /\ AssignedTo(d, i)
  BY LockedView DEF CreateSession, ViewOK
<1>2. PICK e \in Vacated(d, i) :
          /\ e.inspection = "READY"
          /\ Commit(r, [e EXCEPT !.inspection = "SESSION_STARTED",
                                 !.sessions = Append(@, NewSession(i))])
  BY DEF CreateSession
<1> DEFINE n == [e EXCEPT !.inspection = "SESSION_STARTED",
                          !.sessions = Append(@, NewSession(i))]
<1>3. /\ e \in Database /\ e.assignments = d.assignments
      /\ Len(e.sessions) = Len(d.sessions)
  BY <1>1, VacatedFacts
<1>4. NewSession(i) \in Session
  BY Statuses DEF NewSession, Session
<1>5. /\ Append(e.sessions, NewSession(i)) \in Seq(Session)
      /\ Len(Append(e.sessions, NewSession(i))) = Len(d.sessions) + 1
      /\ Append(e.sessions, NewSession(i))[Len(d.sessions) + 1] = NewSession(i)
  BY <1>3, <1>4, AppendProperties DEF Database
<1>6. /\ n \in Database /\ n.inspection = "SESSION_STARTED"
      /\ n.assignments = d.assignments
      /\ n.sessions = Append(e.sessions, NewSession(i))
  BY <1>3, <1>5, Statuses DEF Database
<1>7. Orderly(n)
  BY <1>1, <1>6 DEF Orderly
<1>8. Len(d.sessions) \in Nat /\ Len(d.assignments) \in Nat /\ Len(sessions) = Len(d.sessions)
  BY <1>1 DEF Database, Current
<1> HIDE DEF n
<1>9. Commit(r, n)
  BY <1>2 DEF n
<1>10. /\ IInv' /\ inspection' = n.inspection
       /\ Len(assignments') = Len(n.assignments)
       /\ Len(sessions') = Len(n.sessions)
       /\ \A k \in 1 .. Len(n.assignments) :
             assignments'[k].status = n.assignments[k].status
  BY <1>1, <1>5, <1>6, <1>7, <1>8, <1>9, LockedCommit
<1>11. sessions'[Len(sessions')].inspector = i
  <2>1. /\ Len(sessions') = Len(sessions) + 1
        /\ Len(sessions') \notin DOMAIN sessions
        /\ Len(sessions') \in DOMAIN n.sessions
    BY <1>5, <1>6, <1>8, <1>10 DEF IInv, TypeOK
  <2>2. sessions'[Len(sessions')] = n.sessions[Len(sessions')]
    BY <1>9, <2>1 DEF Commit, MergedSessions
  <2> QED
    BY <1>5, <1>6, <1>8, <2>1, <2>2 DEF NewSession
<1>12. assignments' = assignments
  <2>1. n.assignments = assignments /\ d.assignments = assignments
    BY <1>1, <1>6 DEF Current
  <2>2. \A k \in 1 .. Len(assignments) : assignments'[k] = assignments[k]
    <3> SUFFICES ASSUME NEW k \in 1 .. Len(assignments)
                 PROVE  assignments'[k] = assignments[k]
      OBVIOUS
    <3>1. k \in DOMAIN assignments /\ assignments[k] \in Assignment
      BY DEF IInv, TypeOK
    <3> QED
      BY <1>9, <2>1, <3>1 DEF Commit, MergedAssignments, Merge, Assignment
  <2> QED
    BY <1>10, <2>1, <2>2, SeqEqual DEF IInv, TypeOK
<1>13. AssignedTo(Stored', i)
  BY <1>1, <1>12 DEF AssignedTo, Active, Stored, Current
<1> QED
  BY <1>6, <1>10, <1>11, <1>13

LEMMA InspectorStep ==
    ASSUME IInv, NEW r \in Requests \cup {Now}, NEW i \in Inspectors,
           InspectorHandler(r, i), ~CreateSession(r, i)
    PROVE  IInv' /\ Len(sessions') = Len(sessions)
<1> DEFINE d == Seen(r)
<1>1. CASE Assign(r, i)
  <2> DEFINE n == [d EXCEPT !.inspection = "ASSIGNED",
                            !.assignments = Append(d.assignments, NewAssignment(i))]
  <2>1. /\ ViewOK(d) /\ Current(d) /\ d \in Database /\ Locked(r) /\ Active(d) = {}
        /\ Commit(r, n)
    BY <1>1, LockedView DEF Assign, ViewOK
  <2>2. /\ n \in Database /\ Orderly(n) /\ n.sessions = d.sessions
        /\ Len(n.assignments) = Len(d.assignments) + 1
    BY <2>1, AppendIsOrderly
  <2>3. Len(d.assignments) \in Nat /\ Len(d.sessions) \in Nat
        /\ Len(d.sessions) = Len(sessions)
    BY <2>1 DEF Database, Current
  <2> HIDE DEF n
  <2> QED
    BY <2>1, <2>2, <2>3, LockedCommit
<1>2. CASE Reassign(r, i)
  <2> DEFINE e == Retire(d, "REASSIGNED")
             n == [e EXCEPT !.inspection = "ASSIGNED",
                            !.assignments = Append(e.assignments, NewAssignment(i))]
  <2>1. ViewOK(d) /\ Current(d) /\ d \in Database /\ Locked(r) /\ Commit(r, n)
    BY <1>2, LockedView DEF Reassign, ViewOK
  <2>2. /\ e \in Database /\ Active(e) = {} /\ e.sessions = d.sessions
        /\ Len(e.assignments) = Len(d.assignments)
    BY <2>1, RetireFacts
  <2>3. /\ n \in Database /\ Orderly(n) /\ n.sessions = d.sessions
        /\ Len(n.assignments) = Len(d.assignments) + 1
    <3> HIDE DEF e
    <3>1. n = [e EXCEPT !.inspection = "ASSIGNED",
                        !.assignments = Append(e.assignments, NewAssignment(i))]
      OBVIOUS
    <3> HIDE DEF n
    <3> QED
      BY <2>2, <3>1, AppendIsOrderly
  <2>4. Len(d.assignments) \in Nat /\ Len(d.sessions) \in Nat
        /\ Len(d.sessions) = Len(sessions)
    BY <2>1 DEF Database, Current
  <2> HIDE DEF n
  <2> QED
    BY <2>1, <2>3, <2>4, LockedCommit
<1>3. CASE Acknowledge(r, i)
  <2> DEFINE a == [k \in DOMAIN d.assignments |->
                      IF k \in Active(d)
                      THEN [d.assignments[k] EXCEPT !.acknowledged = TRUE]
                      ELSE d.assignments[k]]
             n == [d EXCEPT !.inspection = "ACKNOWLEDGED", !.assignments = a]
  <2>1. /\ ViewOK(d) /\ r \notin holder /\ d \in Database
        /\ d.inspection = "ASSIGNED" /\ Commit(r, n)
    BY <1>3, UnlockedView DEF Acknowledge, ViewOK
  <2>2. /\ d.assignments \in Seq(Assignment) /\ Len(d.assignments) \in Nat
        /\ DOMAIN d.assignments = 1 .. Len(d.assignments)
    BY <2>1, LenProperties DEF Database
  <2>3. ASSUME NEW k \in 1 .. Len(d.assignments)
        PROVE  a[k] \in Assignment /\ a[k].status = d.assignments[k].status
    <3>1. d.assignments[k] \in Assignment /\ k \in DOMAIN d.assignments
      BY <2>2
    <3>2. LET b == [d.assignments[k] EXCEPT !.acknowledged = TRUE]
          IN  b \in Assignment /\ b.status = d.assignments[k].status
      BY <3>1 DEF Assignment
    <3> QED
      BY <3>1, <3>2
  <2>4. a \in Seq(Assignment) /\ Len(a) = Len(d.assignments)
    <3>1. /\ DOMAIN a = 1 .. Len(d.assignments)
          /\ a = [k \in 1 .. Len(d.assignments) |-> a[k]]
      BY <2>2
    <3> HIDE DEF a
    <3>2. a \in [1 .. Len(d.assignments) -> Assignment]
      BY <2>3, <3>1
    <3> QED
      BY <2>2, <3>1, <3>2, SeqDef, LenProperties
  <2> HIDE DEF a
  <2>5. /\ n \in Database /\ n.assignments = a /\ n.sessions = d.sessions
        /\ n.inspection = "ACKNOWLEDGED"
    BY <2>1, <2>4 DEF Database, InspectionStatus
  <2>6. Harmless(d, n)
    BY <2>1, <2>2, <2>3, <2>4, <2>5 DEF Harmless
  <2> QED
    BY <2>1, <2>6, UnlockedCommit
<1>4. CASE MarkReady(r, i)
  <2>1. /\ ViewOK(d) /\ r \notin holder /\ d \in Database
        /\ Commit(r, [d EXCEPT !.inspection = "READY"])
    BY <1>4, UnlockedView DEF MarkReady, ViewOK
  <2>2. Harmless(d, [d EXCEPT !.inspection = "READY"])
    BY <2>1, Statuses DEF Harmless, Database
  <2> QED
    BY <2>1, <2>2, UnlockedCommit
<1> QED
  BY <1>1, <1>2, <1>3, <1>4 DEF InspectorHandler

LEMMA CancelStep ==
    ASSUME IInv, NEW r \in Requests \cup {Now}, Cancel(r)
    PROVE  IInv' /\ Len(sessions') = Len(sessions)
<1> DEFINE d == Seen(r)
           e == Retire(d, "CANCELLED")
           n == [e EXCEPT !.inspection = "CANCELLED"]
<1>1. ViewOK(d) /\ Current(d) /\ d \in Database /\ Locked(r) /\ Commit(r, n)
  BY LockedView DEF Cancel, ViewOK
<1>2. /\ e \in Database /\ Active(e) = {} /\ e.sessions = d.sessions
      /\ Len(e.assignments) = Len(d.assignments)
  BY <1>1, RetireFacts
<1>3. /\ n \in Database /\ n.assignments = e.assignments /\ n.sessions = d.sessions
      /\ Active(n) = {}
  BY <1>2 DEF Database, InspectionStatus, Active
<1>4. Orderly(n)
  BY <1>3 DEF Orderly, Active
<1>5. Len(d.assignments) \in Nat /\ Len(d.sessions) \in Nat
      /\ Len(d.sessions) = Len(sessions)
  BY <1>1 DEF Database, Current
<1> HIDE DEF n
<1> QED
  BY <1>1, <1>2, <1>3, <1>4, <1>5, LockedCommit

LEMMA LoadStep ==
    ASSUME IInv, NEW r \in Requests, NEW lock \in BOOLEAN, Load(r, lock)
    PROVE  IInv' /\ Len(sessions') = Len(sessions)
<1>1. ViewOK(Stored) /\ Current(Stored)
  BY StoredOK
<1>2. TypeOK'
  BY <1>1 DEF Load, rows, IInv, TypeOK, ViewOK
<1>3. ViewsOK'
  BY <1>1 DEF Load, rows, IInv, TypeOK, ViewsOK, ViewOK
<1>4. LockOK'
  <2> SUFFICES ASSUME NEW q \in holder'
               PROVE  view'[q] # NoRows /\ Current(view[q])' /\ holder' = {q}
    BY DEF LockOK
  <2>1. CASE lock
    <3>1. q = r /\ holder' = {r} /\ view'[r] = Stored
      BY <2>1 DEF Load, IInv, TypeOK
    <3>2. Stored # NoRows
      BY <1>1, NoRowsAssumption DEF ViewOK
    <3> QED
      BY <1>1, <3>1, <3>2 DEF Load, rows, Current
  <2>2. CASE ~lock
    <3>1. q \in holder /\ holder' = holder /\ q # r /\ q \in Requests
      BY <2>2 DEF Load, IInv, LockOK, TypeOK
    <3>2. view'[q] = view[q]
      BY <3>1 DEF Load, IInv, TypeOK
    <3> QED
      BY <3>1, <3>2 DEF Load, rows, IInv, LockOK, Current
  <2> QED
    BY <2>1, <2>2
<1> QED
  BY <1>2, <1>3, <1>4 DEF Load, rows, IInv, CancelledIsUnassigned, Active, Stored

LEMMA RollBackStep ==
    ASSUME IInv, NEW r \in Requests, RollBack(r)
    PROVE  IInv' /\ Len(sessions') = Len(sessions)
BY DEF RollBack, Close, rows, IInv, TypeOK, ViewsOK, ViewOK, LockOK, Current,
       CancelledIsUnassigned, Active, Stored

\* A write to another column of a session disturbs nothing.
LEMMA ColumnStep ==
    ASSUME IInv, NEW s \in DOMAIN sessions, NEW e \in Session,
           sessions' = [sessions EXCEPT ![s] = e],
           UNCHANGED <<inspection, assignments, view, holder>>
    PROVE  IInv' /\ Len(sessions') = Len(sessions)
<1>1. sessions' \in Seq(Session) /\ Len(sessions') = Len(sessions)
  BY ExceptSeq, LenProperties DEF IInv, TypeOK
<1> QED
  BY <1>1 DEF IInv, TypeOK, ViewsOK, ViewOK, LockOK, Current,
              CancelledIsUnassigned, Active, Stored

LEMMA ClockStep ==
    ASSUME IInv, NEW s \in 1 .. MaxSessions, Judge(s) \/ Pass(s)
    PROVE  IInv' /\ Len(sessions') = Len(sessions)
<1>1. s \in DOMAIN sessions /\ sessions[s] \in Session
  BY DEF Judge, Pass, IInv, TypeOK
<1>2. /\ [sessions[s] EXCEPT !.judged = TRUE] \in Session
      /\ [sessions[s] EXCEPT !.overdue = TRUE] \in Session
  BY <1>1 DEF Session
<1>3. CASE Judge(s)
  BY <1>1, <1>2, <1>3, ColumnStep DEF Judge
<1>4. CASE Pass(s)
  BY <1>1, <1>2, <1>4, ColumnStep DEF Pass
<1> QED
  BY <1>3, <1>4

-----------------------------------------------------------------------------

\* Every step keeps the invariant and opens a session only for the assignee.
LEMMA NextStep ==
    ASSUME IInv, [Next]_vars
    PROVE  /\ IInv'
           /\ Len(sessions') > Len(sessions) =>
                 /\ AssignedTo(Stored', sessions'[Len(sessions')].inspector)
                 /\ inspection' = "SESSION_STARTED"
<1>0. Len(sessions) \in Nat
  BY DEF IInv, TypeOK
<1> SUFFICES \/ IInv' /\ Len(sessions') = Len(sessions)
             \/ /\ IInv'
                /\ AssignedTo(Stored', sessions'[Len(sessions')].inspector)
                /\ inspection' = "SESSION_STARTED"
  BY <1>0
<1>1. CASE \E r \in Requests \cup {Now} : Cancel(r)
  BY <1>1, CancelStep
<1>2. CASE \E r \in Requests \cup {Now} : \E i \in Inspectors : InspectorHandler(r, i)
  <2>1. PICK r \in Requests \cup {Now} : \E i \in Inspectors : InspectorHandler(r, i)
    BY <1>2
  <2>2. PICK i \in Inspectors : InspectorHandler(r, i)
    BY <2>1
  <2> QED
    BY <2>2, InspectorStep, CreateStep
<1>3. CASE \E r \in Requests \cup {Now} : \E s \in 1 .. MaxSessions : SessionHandler(r, s)
  BY <1>3, SessionStep
<1>4. CASE \E r \in Requests, lock \in BOOLEAN : Load(r, lock)
  BY <1>4, LoadStep
<1>5. CASE \E r \in Requests : RollBack(r)
  BY <1>5, RollBackStep
<1>6. CASE \E s \in 1 .. MaxSessions : Judge(s) \/ Pass(s)
  BY <1>6, ClockStep
<1>7. CASE UNCHANGED vars
  BY <1>7 DEF vars, rows, IInv, TypeOK, ViewsOK, ViewOK, LockOK, Current,
              CancelledIsUnassigned, Active, Stored
<1> QED
  BY <1>1, <1>2, <1>3, <1>4, <1>5, <1>6, <1>7 DEF Next

LEMMA InitStep == Init => IInv
<1> SUFFICES ASSUME Init PROVE IInv
  OBVIOUS
<1>1. << >> \in Seq(Assignment) /\ << >> \in Seq(Session) /\ "DRAFT" \in InspectionStatus
  BY EmptySeq DEF InspectionStatus
<1> QED
  BY <1>1 DEF Init, IInv, TypeOK, ViewsOK, LockOK, CancelledIsUnassigned, Active, Stored

\* The inductive invariant holds in every reachable state.
THEOREM LifecycleInvariant == Spec => []IInv
<1>1. Init => IInv
  BY InitStep
<1>2. IInv /\ [Next]_vars => IInv'
  BY NextStep
<1> QED
  BY <1>1, <1>2, PTL DEF Spec

\* Every row and every view of a request has its type, for any number of them.
THEOREM TypeCorrect == Spec => []TypeOK
<1>1. IInv => TypeOK
  BY DEF IInv
<1> QED
  BY <1>1, LifecycleInvariant, PTL

\* Under any overlap of requests, at most the newest assignment is ACTIVE and a
\* cancelled inspection has none (assign, reassign and cancel hold the row lock).
THEOREM AssignmentsInOrder == Spec => []CancelledIsUnassigned
<1>1. IInv => CancelledIsUnassigned
  BY DEF IInv
<1> QED
  BY <1>1, LifecycleInvariant, PTL

\* Under any overlap of requests, a session is opened only for the inspector who
\* is assigned at that moment (create_verification_session holds the row lock).
THEOREM OpenedForAssignee == Spec => SessionOpenedForAssignee
<1>1. IInv /\ [Next]_vars =>
        [Len(sessions') > Len(sessions) =>
           /\ AssignedTo(Stored', sessions'[Len(sessions')].inspector)
           /\ inspection' = "SESSION_STARTED"]_vars
  BY NextStep
<1> QED
  BY <1>1, LifecycleInvariant, PTL DEF Spec, SessionOpenedForAssignee

-----------------------------------------------------------------------------
(***************************************************************************)
(* What the handlers of an inspection keep when requests do not overlap,   *)
(* for any number of inspectors, assignments and sessions: a capture that  *)
(* the inspection speaks of is there, and stored evidence, cancellations   *)
(* and decisions stand.  Every handler is shown to have one of a few       *)
(* effects on statuses, and the properties are read off the effects.       *)
(***************************************************************************)

\* No session changes; session s becomes to.
Keeps ==
    /\ DOMAIN sessions' = DOMAIN sessions
    /\ \A t \in DOMAIN sessions : sessions'[t].status = sessions[t].status
Sets(s, to) ==
    /\ DOMAIN sessions' = DOMAIN sessions
    /\ sessions'[s].status = to
    /\ \A t \in DOMAIN sessions \ {s} : sessions'[t].status = sessions[t].status

Moves(st) == inspection' = IF inspection = "CANCELLED" THEN inspection ELSE st

\* Session s ends without evidence and releases the inspection.
Ends(s) ==
    /\ sessions[s].status \in ActiveSessionStates
    /\ \/ Sets(s, "ABORTED")
       \/ /\ Sets(s, "EXPIRED")
          /\ sessions[s].status \in LiveExpiringStates \/ CompleteCapture(Now, s)
    /\ Moves("READY")

\* Session s goes on: a challenge, a capture, an upload.
GoesOn(s) ==
    /\ sessions[s].status \in ActiveSessionStates
    /\ \E to \in ActiveSessionStates : Sets(s, to)
    /\ \/ inspection' = inspection
       \/ Moves("SESSION_STARTED") \/ Moves("EVIDENCE_UPLOADING")

Uploads(s) ==
    /\ sessions[s].status \in ActiveSessionStates
    /\ Sets(s, "UPLOADED") /\ Moves("PROCESSING")

Analyses(s) ==
    /\ sessions[s].status \in EvidenceStored
    /\ \E to \in EvidenceStored : Sets(s, to)
    /\ inspection' = inspection

\* No session changes: a review, an administrator, an inspector before capture.
Decides == Keeps /\ inspection' \in Decided
Administers ==
    /\ Keeps /\ inspection' \in {"ASSIGNED", "CANCELLED"}
    /\ inspection = "CANCELLED" => inspection' = "CANCELLED"
Prepares ==
    /\ Keeps /\ inspection \in {"ASSIGNED", "ACKNOWLEDGED"}
    /\ inspection' \in {"ACKNOWLEDGED", "READY"}

\* A session is appended; sessions in its way end.
Opens ==
    /\ DOMAIN sessions' = 1 .. Len(sessions) + 1
    /\ sessions'[Len(sessions) + 1].status = "CREATED"
    /\ \A t \in DOMAIN sessions :
          \/ sessions'[t].status = sessions[t].status
          \/ /\ sessions[t].status \in ActiveSessionStates
             /\ sessions'[t].status = "ABORTED"
          \/ /\ sessions[t].status \in LiveExpiringStates
             /\ sessions'[t].status = "EXPIRED"
    /\ \/ inspection = "READY"
       \/ /\ inspection # "CANCELLED"
          /\ \E t \in DOMAIN sessions : sessions[t].status \in ActiveSessionStates
    /\ inspection' = "SESSION_STARTED"

Effect ==
    \/ \E s \in DOMAIN sessions : Ends(s) \/ GoesOn(s) \/ Uploads(s) \/ Analyses(s)
    \/ Decides \/ Administers \/ Prepares \/ Opens
    \/ Keeps /\ inspection' = inspection

-----------------------------------------------------------------------------

\* A commit that nothing overlaps stores what the handler wants.
LEMMA SerialCommit ==
    ASSUME TypeOK, NEW n \in Database, Len(sessions) <= Len(n.sessions), Commit(Now, n)
    PROVE  /\ inspection' = n.inspection
           /\ DOMAIN sessions' = DOMAIN n.sessions
           /\ \A s \in DOMAIN n.sessions : sessions'[s].status = n.sessions[s].status
<1>1. /\ sessions \in Seq(Session) /\ n.sessions \in Seq(Session)
      /\ Seen(Now) = Stored /\ Stored.sessions = sessions /\ Stored.inspection = inspection
  BY DEF TypeOK, Database, Seen, Stored
<1>2. DOMAIN sessions \cup DOMAIN n.sessions = DOMAIN n.sessions
  BY <1>1
<1>3. sessions' = MergedSessions(Stored, n) /\ inspection' = n.inspection
  BY <1>1 DEF Commit, Merge
<1>4. ASSUME NEW s \in DOMAIN n.sessions
      PROVE  sessions'[s].status = n.sessions[s].status
  <2>1. CASE s \notin DOMAIN sessions
    BY <1>2, <1>3, <2>1 DEF MergedSessions
  <2>2. CASE s \in DOMAIN sessions
    <3>1. sessions[s] \in Session
      BY <1>1, <2>2
    <3>2. sessions'[s] = [sessions[s] EXCEPT
                            !.status = Merge(@, sessions[s].status, n.sessions[s].status)]
      BY <1>1, <1>2, <1>3, <2>2 DEF MergedSessions
    <3> QED
      BY <3>1, <3>2 DEF Session, Merge
  <2> QED
    BY <2>1, <2>2
<1> QED
  BY <1>2, <1>3, <1>4 DEF MergedSessions

\* What it stores when the handler writes one session's status.
LEMMA SerialSet ==
    ASSUME TypeOK, NEW s \in DOMAIN sessions, NEW to \in SessionStatus,
           NEW st \in InspectionStatus
    PROVE  /\ Commit(Now, SetSession(Stored, s, to))
                => Sets(s, to) /\ inspection' = inspection
           /\ Commit(Now, Move(SetSession(Stored, s, to), st))
                => Sets(s, to) /\ Moves(st)
           /\ Commit(Now, [SetSession(Stored, s, to) EXCEPT !.inspection = st])
                => Sets(s, to) /\ inspection' = st
<1> DEFINE n == SetSession(Stored, s, to)
           e == [sessions[s] EXCEPT !.status = to]
           ss == [sessions EXCEPT ![s] = e]
<1>1. Stored \in Database /\ Stored.sessions = sessions /\ Stored.inspection = inspection
  BY DEF TypeOK, Stored, Database
<1>2. sessions[s] \in Session /\ e \in Session /\ e.status = to
  <2>1. sessions[s] \in Session
    BY DEF TypeOK
  <2> QED
    BY <2>1 DEF Session
<1>3. /\ n \in Database /\ n.inspection = inspection
      /\ n.sessions = ss
  BY <1>1, SetSessionFacts DEF SetSession, Stored
<1>4. /\ DOMAIN ss = DOMAIN sessions /\ Len(ss) = Len(sessions) /\ Len(sessions) \in Nat
      /\ ss[s].status = to
      /\ \A t \in DOMAIN sessions \ {s} : ss[t].status = sessions[t].status
  <2>1. DOMAIN ss = DOMAIN sessions /\ ss[s] = e
    BY <1>2
  <2>2. \A t \in DOMAIN sessions \ {s} : ss[t] = sessions[t]
    OBVIOUS
  <2>3. Len(ss) = Len(sessions) /\ Len(sessions) \in Nat
    BY <1>1, <1>3, SetSessionFacts DEF TypeOK
  <2> QED
    BY <1>2, <2>1, <2>2, <2>3
<1>5. ASSUME NEW m \in Database, m.sessions = ss, Commit(Now, m)
      PROVE  Sets(s, to) /\ inspection' = m.inspection
  <2>1. Len(sessions) <= Len(m.sessions)
    BY <1>4, <1>5
  <2> HIDE DEF ss
  <2> QED
    BY <1>4, <1>5, <2>1, SerialCommit DEF Sets
<1> HIDE DEF n, ss
<1>6. /\ Move(n, st) \in Database /\ Move(n, st).sessions = ss
      /\ Move(n, st).inspection = IF inspection = "CANCELLED" THEN inspection ELSE st
  BY <1>3 DEF Move, Database
<1>7. LET m == [n EXCEPT !.inspection = st]
      IN  m \in Database /\ m.sessions = ss /\ m.inspection = st
  BY <1>3 DEF Database
<1>8. QED
  BY <1>3, <1>5, <1>6, <1>7 DEF n, Moves

-----------------------------------------------------------------------------
(* The effect of every handler. *)

LEMMA StatusKinds ==
    /\ LiveExpiringStates \cup ChallengesOver \cup Transporting \subseteq ActiveSessionStates
    /\ {"CREATED", "CAPTURING", "CHALLENGES_IN_PROGRESS", "CAPTURE_COMPLETED",
        "UPLOADING", "UPLOAD_FAILED"} \subseteq ActiveSessionStates
    /\ "UPLOADED" \in EvidenceStored
    /\ (EvidenceStored \cup {"ABORTED", "EXPIRED"}) \cap ActiveSessionStates = {}
    /\ {"EXPIRED", "ABORTED", "CREATED"} \cap
         (ChallengesOver \cup Transporting \cup EvidenceStored) = {}
    /\ LiveExpiringStates \cap (ChallengesOver \cup Transporting) = {}
BY DEF ActiveSessionStates, LiveExpiringStates, ChallengesOver, Transporting, EvidenceStored

\* A request that nothing overlaps decides on the stored rows.
LEMMA SerialView == ASSUME TypeOK PROVE Seen(Now) = Stored /\ Stored.sessions = sessions
                                        /\ Stored.inspection = inspection /\ Stored \in Database
BY DEF Seen, Stored, TypeOK, Database

LEMMA SessionEffect ==
    ASSUME TypeOK, NEW s \in 1 .. MaxSessions, SessionHandler(Now, s)
    PROVE  Effect
<1>0. Seen(Now) = Stored /\ Stored.sessions = sessions /\ Stored.inspection = inspection
  BY SerialView
<1> USE <1>0, StatusKinds, Statuses
<1>1. CASE ReplayCreation(Now, s)
  BY <1>1, SerialSet DEF ReplayCreation, Expirable, Expire, Effect, Ends
<1>2. CASE Poll(Now, s)
  BY <1>2, SerialSet DEF Poll, Expirable, Expire, Effect, Ends
<1>3. CASE StartCapture(Now, s)
  <2>1. s \in DOMAIN sessions
    BY <1>3 DEF StartCapture, OwnerCall
  <2>2. CASE Expirable(Stored, s) /\ Commit(Now, Expire(Stored, s))
    BY <2>1, <2>2, SerialSet DEF Expirable, Expire, Effect, Ends
  <2>3. CASE /\ sessions[s].status = "CREATED" /\ inspection # "CANCELLED"
             /\ Commit(Now, [SetSession(Stored, s, "EXPIRED") EXCEPT !.inspection = "READY"])
    BY <2>1, <2>3, SerialSet DEF Effect, Ends, Moves, LiveExpiringStates
  <2>4. CASE /\ sessions[s].status = "CREATED" /\ inspection # "CANCELLED"
             /\ Commit(Now, [SetSession(Stored, s, "CAPTURING") EXCEPT
                               !.inspection = "SESSION_STARTED"])
    BY <2>1, <2>4, SerialSet DEF Effect, GoesOn, Moves
  <2> QED
    BY <1>3, <2>2, <2>3, <2>4 DEF StartCapture
<1>4. CASE IssueChallenge(Now, s)
  <2>1. /\ s \in DOMAIN sessions /\ sessions[s].status \in ActiveSessionStates
        /\ \E to \in ActiveSessionStates : Commit(Now, SetSession(Stored, s, to))
    BY <1>4 DEF IssueChallenge, OwnerCall
  <2> QED
    BY <2>1, SerialSet DEF Effect, GoesOn, SessionStatus
<1>5. CASE SubmitLastChallenge(Now, s)
  <2>1. /\ s \in DOMAIN sessions /\ sessions[s].status \in ActiveSessionStates
        /\ \E to \in ActiveSessionStates : Commit(Now, SetSession(Stored, s, to))
    BY <1>5 DEF SubmitLastChallenge, OwnerCall
  <2> QED
    BY <2>1, SerialSet DEF Effect, GoesOn, SessionStatus
<1>6. CASE CompleteCapture(Now, s)
  <2>1. s \in DOMAIN sessions /\ sessions[s].status \in ActiveSessionStates
    <3>1. /\ s \in DOMAIN sessions
          /\ sessions[s].status \in ChallengesOver \/ Expirable(Stored, s)
      BY <1>6 DEF CompleteCapture, OwnerCall
    <3> QED
      BY <3>1 DEF Expirable
  <2>2. CASE Commit(Now, Expire(Stored, s))
    BY <1>6, <2>1, <2>2, SerialSet DEF Expire, Effect, Ends
  <2>3. CASE Commit(Now, Move(SetSession(Stored, s, "CAPTURE_COMPLETED"), "EVIDENCE_UPLOADING"))
    BY <2>1, <2>3, SerialSet DEF Effect, GoesOn
  <2> QED
    BY <1>6, <2>2, <2>3 DEF CompleteCapture
<1>7. CASE Abort(Now, s)
  BY <1>7, SerialSet DEF Abort, Effect, Ends
<1>8. CASE InitiateUpload(Now, s)
  BY <1>8, SerialSet DEF InitiateUpload, OwnerCall, Effect, GoesOn
<1>9. CASE AcceptUpload(Now, s)
  <2>1. /\ s \in DOMAIN sessions /\ sessions[s].status \in ActiveSessionStates
        /\ \E to \in ActiveSessionStates : Commit(Now, SetSession(Stored, s, to))
    BY <1>9 DEF AcceptUpload, OwnerCall
  <2> QED
    BY <2>1, SerialSet DEF Effect, GoesOn, SessionStatus
<1>10. CASE CompleteUpload(Now, s)
  BY <1>10, SerialSet DEF CompleteUpload, OwnerCall, Effect, Uploads
<1>11. CASE Analyze(Now, s)
  BY <1>11, SerialSet DEF Analyze, Effect, Analyses
<1>12. CASE \E decision \in Decided : Review(Now, s, decision)
  <2>1. PICK decision \in Decided :
           Commit(Now, [Stored EXCEPT !.inspection = decision])
    BY <1>12 DEF Review
  <2> DEFINE n == [Stored EXCEPT !.inspection = decision]
  <2>2. n \in Database /\ n.sessions = sessions /\ n.inspection = decision
    BY SerialView DEF Database
  <2>3. Len(sessions) <= Len(n.sessions)
    BY <2>2 DEF TypeOK
  <2> HIDE DEF n
  <2>4. Commit(Now, n)
    BY <2>1 DEF n
  <2> QED
    BY <2>2, <2>3, <2>4, SerialCommit DEF Effect, Decides, Keeps
<1> QED
  BY <1>1, <1>2, <1>3, <1>4, <1>5, <1>6, <1>7, <1>8, <1>9, <1>10, <1>11, <1>12
     DEF SessionHandler

\* Commits that leave the sessions alone.
LEMMA SerialKeep ==
    ASSUME TypeOK, NEW n \in Database, n.sessions = sessions, Commit(Now, n)
    PROVE  Keeps /\ inspection' = n.inspection
<1>1. Len(sessions) <= Len(n.sessions)
  BY DEF TypeOK
<1> QED
  BY <1>1, SerialCommit DEF Keeps

LEMMA InspectorEffect ==
    ASSUME TypeOK, NEW i \in Inspectors, InspectorHandler(Now, i), ~CreateSession(Now, i)
    PROVE  Effect
<1>0. /\ Seen(Now) = Stored /\ Stored.sessions = sessions
      /\ Stored.inspection = inspection /\ Stored \in Database
  BY SerialView
<1>1. CASE Assign(Now, i)
  <2> DEFINE n == [Stored EXCEPT !.inspection = "ASSIGNED",
                                 !.assignments = Append(Stored.assignments, NewAssignment(i))]
  <2>1. Active(Stored) = {} /\ inspection = "DRAFT" /\ Commit(Now, n)
    BY <1>0, <1>1 DEF Assign
  <2>2. n \in Database /\ n.sessions = sessions /\ n.inspection = "ASSIGNED"
    BY <1>0, <2>1, AppendIsOrderly DEF Database
  <2> HIDE DEF n
  <2> QED
    BY <2>1, <2>2, SerialKeep DEF Effect, Administers
<1>2. CASE Reassign(Now, i)
  <2> DEFINE e == Retire(Stored, "REASSIGNED")
             n == [e EXCEPT !.inspection = "ASSIGNED",
                            !.assignments = Append(e.assignments, NewAssignment(i))]
  <2>1. inspection # "CANCELLED" /\ Commit(Now, n)
    BY <1>0, <1>2 DEF Reassign
  <2>2. e \in Database /\ Active(e) = {} /\ e.sessions = sessions
    BY <1>0, RetireFacts
  <2>3. n \in Database /\ n.sessions = sessions /\ n.inspection = "ASSIGNED"
    BY <2>2, AppendIsOrderly DEF Database
  <2> HIDE DEF n
  <2> QED
    BY <2>1, <2>3, SerialKeep DEF Effect, Administers
<1>3. CASE Acknowledge(Now, i)
  <2> DEFINE a == [k \in DOMAIN Stored.assignments |->
                      IF k \in Active(Stored)
                      THEN [Stored.assignments[k] EXCEPT !.acknowledged = TRUE]
                      ELSE Stored.assignments[k]]
             n == [Stored EXCEPT !.inspection = "ACKNOWLEDGED", !.assignments = a]
  <2>1. inspection = "ASSIGNED" /\ Commit(Now, n)
    BY <1>0, <1>3 DEF Acknowledge
  <2>2. a \in Seq(Assignment)
    <3>1. /\ Stored.assignments \in Seq(Assignment)
          /\ DOMAIN Stored.assignments = 1 .. Len(Stored.assignments)
          /\ Len(Stored.assignments) \in Nat
      BY <1>0, LenProperties DEF Database
    <3>2. ASSUME NEW k \in 1 .. Len(Stored.assignments)
          PROVE  a[k] \in Assignment
      <4>1. Stored.assignments[k] \in Assignment
        BY <3>1
      <4>2. [Stored.assignments[k] EXCEPT !.acknowledged = TRUE] \in Assignment
        BY <4>1 DEF Assignment
      <4> QED
        BY <3>1, <4>1, <4>2
    <3>3. /\ DOMAIN a = 1 .. Len(Stored.assignments)
          /\ a = [k \in 1 .. Len(Stored.assignments) |-> a[k]]
      BY <3>1
    <3> HIDE DEF a
    <3>4. a \in [1 .. Len(Stored.assignments) -> Assignment]
      BY <3>2, <3>3
    <3> QED
      BY <3>1, <3>4, FunctionIsSeq
  <2> HIDE DEF a
  <2>3. n \in Database /\ n.sessions = sessions /\ n.inspection = "ACKNOWLEDGED"
    BY <1>0, <2>2 DEF Database, InspectionStatus
  <2> HIDE DEF n
  <2> QED
    BY <2>1, <2>3, SerialKeep DEF Effect, Prepares
<1>4. CASE MarkReady(Now, i)
  <2> DEFINE n == [Stored EXCEPT !.inspection = "READY"]
  <2>1. inspection = "ACKNOWLEDGED" /\ Commit(Now, n)
    BY <1>0, <1>4 DEF MarkReady
  <2>2. n \in Database /\ n.sessions = sessions /\ n.inspection = "READY"
    BY <1>0 DEF Database, InspectionStatus
  <2> HIDE DEF n
  <2> QED
    BY <2>1, <2>2, SerialKeep DEF Effect, Prepares
<1> QED
  BY <1>1, <1>2, <1>3, <1>4 DEF InspectorHandler

LEMMA CancelEffect == ASSUME TypeOK, Cancel(Now) PROVE Effect
<1> DEFINE e == Retire(Stored, "CANCELLED")
           n == [e EXCEPT !.inspection = "CANCELLED"]
<1>1. Stored \in Database /\ Stored.sessions = sessions /\ Commit(Now, n)
  BY SerialView DEF Cancel
<1>2. e \in Database /\ e.sessions = sessions
  BY <1>1, RetireFacts
<1>3. n \in Database /\ n.sessions = sessions /\ n.inspection = "CANCELLED"
  BY <1>2 DEF Database, InspectionStatus
<1> HIDE DEF n
<1> QED
  BY <1>1, <1>3, SerialKeep DEF Effect, Administers

\* What create_verification_session does to a session in its way.
Cleared(e) ==
    /\ e \in Database /\ DOMAIN e.sessions = DOMAIN sessions /\ Len(e.sessions) = Len(sessions)
    /\ \A t \in DOMAIN sessions :
          \/ e.sessions[t].status = sessions[t].status
          \/ /\ sessions[t].status \in ActiveSessionStates
             /\ e.sessions[t].status = "ABORTED"
          \/ /\ sessions[t].status \in LiveExpiringStates
             /\ e.sessions[t].status = "EXPIRED"
    /\ \/ e.inspection = inspection
       \/ /\ inspection # "CANCELLED"
          /\ \E t \in DOMAIN sessions : sessions[t].status \in ActiveSessionStates

LEMMA SetStatus ==
    ASSUME TypeOK, NEW s \in DOMAIN sessions, NEW to \in SessionStatus
    PROVE  LET e == SetSession(Stored, s, to) IN
           /\ e \in Database /\ DOMAIN e.sessions = DOMAIN sessions
           /\ Len(e.sessions) = Len(sessions)
           /\ e.inspection = inspection /\ e.sessions[s].status = to
           /\ \A t \in DOMAIN sessions \ {s} : e.sessions[t] = sessions[t]
<1> DEFINE e == SetSession(Stored, s, to)
           x == [sessions[s] EXCEPT !.status = to]
<1>1. Stored \in Database /\ Stored.sessions = sessions /\ Stored.inspection = inspection
  BY SerialView
<1>2. /\ e \in Database /\ Len(e.sessions) = Len(sessions) /\ e.inspection = inspection
  BY <1>1, SetSessionFacts
<1>3. e.sessions = [sessions EXCEPT ![s] = x]
  BY <1>1 DEF SetSession, Stored
<1>4. sessions[s] \in Session
  BY DEF TypeOK
<1>5. x.status = to
  BY <1>4 DEF Session
<1> QED
  BY <1>2, <1>3, <1>5

LEMMA VacatedIsCleared ==
    ASSUME TypeOK, NEW i, NEW e \in Vacated(Stored, i)
    PROVE  Cleared(e)
<1>1. Stored \in Database /\ Stored.sessions = sessions /\ Stored.inspection = inspection
  BY SerialView
<1> USE StatusKinds, Statuses
<1>2. CASE e = Stored
  BY <1>1, <1>2 DEF Cleared
<1>3. CASE \E s \in DOMAIN sessions : Expirable(Stored, s) /\ e = Expire(Stored, s)
  <2>1. PICK s \in DOMAIN sessions : Expirable(Stored, s) /\ e = Expire(Stored, s)
    BY <1>3
  <2> DEFINE m == SetSession(Stored, s, "EXPIRED")
  <2>2. /\ m \in Database /\ DOMAIN m.sessions = DOMAIN sessions
        /\ Len(m.sessions) = Len(sessions)
        /\ m.inspection = inspection /\ m.sessions[s].status = "EXPIRED"
        /\ \A t \in DOMAIN sessions \ {s} : m.sessions[t] = sessions[t]
    BY SetStatus
  <2>3. sessions[s].status \in LiveExpiringStates /\ e = Move(m, "READY")
    BY <1>1, <2>1 DEF Expirable, Expire
  <2> HIDE DEF m
  <2>4. /\ e \in Database /\ e.sessions = m.sessions
        /\ inspection = "CANCELLED" => e.inspection = inspection
    BY <2>2, <2>3, MoveFacts DEF Move, Database
  <2> QED
    BY <2>2, <2>3, <2>4 DEF Cleared
<1>4. CASE \E s \in DOMAIN sessions : /\ sessions[s].status \in ActiveSessionStates
                                      /\ e = SetSession(Stored, s, "ABORTED")
  <2>1. PICK s \in DOMAIN sessions : /\ sessions[s].status \in ActiveSessionStates
                                     /\ e = SetSession(Stored, s, "ABORTED")
    BY <1>4
  <2>2. /\ e \in Database /\ DOMAIN e.sessions = DOMAIN sessions
        /\ Len(e.sessions) = Len(sessions)
        /\ e.inspection = inspection /\ e.sessions[s].status = "ABORTED"
        /\ \A t \in DOMAIN sessions \ {s} : e.sessions[t] = sessions[t]
    BY <2>1, SetStatus
  <2> QED
    BY <2>1, <2>2 DEF Cleared
<1> QED
  BY <1>1, <1>2, <1>3, <1>4 DEF Vacated

LEMMA CreateEffect ==
    ASSUME TypeOK, NEW i \in Inspectors, CreateSession(Now, i)
    PROVE  Effect
<1>1. Stored \in Database /\ Stored.sessions = sessions /\ Stored.inspection = inspection
      /\ Seen(Now) = Stored
  BY SerialView
<1>2. PICK e \in Vacated(Stored, i) :
          /\ e.inspection = "READY"
          /\ Commit(Now, [e EXCEPT !.inspection = "SESSION_STARTED",
                                   !.sessions = Append(@, NewSession(i))])
  BY <1>1 DEF CreateSession
<1> DEFINE n == [e EXCEPT !.inspection = "SESSION_STARTED",
                          !.sessions = Append(@, NewSession(i))]
           last == Len(sessions) + 1
<1>3. Cleared(e)
  BY VacatedIsCleared
<1>4. NewSession(i) \in Session /\ NewSession(i).status = "CREATED"
  BY Statuses DEF NewSession, Session
<1>5. /\ Append(e.sessions, NewSession(i)) \in Seq(Session)
      /\ DOMAIN Append(e.sessions, NewSession(i)) = 1 .. last
      /\ Len(Append(e.sessions, NewSession(i))) = last
      /\ Append(e.sessions, NewSession(i))[last] = NewSession(i)
      /\ \A t \in 1 .. Len(sessions) : Append(e.sessions, NewSession(i))[t] = e.sessions[t]
  BY <1>3, <1>4, AppendProperties DEF Cleared, Database
<1>6. /\ n \in Database /\ n.inspection = "SESSION_STARTED"
      /\ n.sessions = Append(e.sessions, NewSession(i))
  BY <1>3, <1>5, Statuses DEF Cleared, Database
<1>7. Len(sessions) \in Nat /\ DOMAIN sessions = 1 .. Len(sessions)
  BY DEF TypeOK
<1> HIDE DEF n
<1>8. Commit(Now, n)
  BY <1>2 DEF n
<1>9. /\ inspection' = "SESSION_STARTED" /\ DOMAIN sessions' = 1 .. last
      /\ \A s \in 1 .. last : sessions'[s].status = n.sessions[s].status
  <2>1. DOMAIN n.sessions = 1 .. last /\ Len(n.sessions) = last
    BY <1>5, <1>6
  <2>2. Len(sessions) <= Len(n.sessions)
    BY <1>7, <2>1
  <2> QED
    BY <1>6, <1>8, <2>1, <2>2, SerialCommit
<1>10. /\ sessions'[last].status = "CREATED"
       /\ \A t \in DOMAIN sessions : sessions'[t].status = e.sessions[t].status
  BY <1>4, <1>5, <1>6, <1>7, <1>9
<1>11. Opens
  BY <1>2, <1>3, <1>9, <1>10 DEF Opens, Cleared
<1> QED
  BY <1>11 DEF Effect

\* No step of serial requests does anything else.
LEMMA SerialStep ==
    ASSUME Requests = {}, TypeOK, [Next]_vars
    PROVE  Effect
<1>1. CASE \E r \in Requests \cup {Now} : Cancel(r)
  BY <1>1, CancelEffect
<1>2. CASE \E r \in Requests \cup {Now} : \E i \in Inspectors : InspectorHandler(r, i)
  BY <1>2, InspectorEffect, CreateEffect
<1>3. CASE \E r \in Requests \cup {Now} : \E s \in 1 .. MaxSessions : SessionHandler(r, s)
  BY <1>3, SessionEffect
<1>4. CASE \E s \in 1 .. MaxSessions : Judge(s) \/ Pass(s)
  <2>1. PICK s \in DOMAIN sessions :
           /\ \/ sessions' = [sessions EXCEPT ![s].judged = TRUE]
              \/ sessions' = [sessions EXCEPT ![s].overdue = TRUE]
           /\ inspection' = inspection
    BY <1>4 DEF Judge, Pass
  <2>2. sessions[s] \in Session
    BY DEF TypeOK
  <2>3. Keeps
    BY <2>1, <2>2 DEF Keeps, Session
  <2> QED
    BY <2>1, <2>3 DEF Effect
<1>5. CASE UNCHANGED vars
  BY <1>5 DEF vars, rows, Effect, Keeps
<1> QED
  BY <1>1, <1>2, <1>3, <1>4, <1>5 DEF Next

-----------------------------------------------------------------------------
(* The properties, read off the effects. *)

\* While the inspection says that a capture or an upload is going on, some
\* session can still be finished, aborted or expired: every handler that ends
\* one moves the inspection on in the same commit.
THEOREM CaptureAlwaysUnderWay ==
    ASSUME Requests = {}
    PROVE  Spec => []CaptureIsUnderWay
<1>1. Init => CaptureIsUnderWay
  BY DEF Init, CaptureIsUnderWay
<1>2. TypeOK /\ CaptureIsUnderWay /\ [Next]_vars => CaptureIsUnderWay'
  <2> SUFFICES ASSUME TypeOK, CaptureIsUnderWay, [Next]_vars PROVE CaptureIsUnderWay'
    OBVIOUS
  <2> USE StatusKinds
  <2>1. Effect
    BY SerialStep
  <2>2. ASSUME NEW s \in DOMAIN sessions, Ends(s) PROVE CaptureIsUnderWay'
    BY <2>2 DEF Ends, Moves, CaptureIsUnderWay
  <2>3. ASSUME NEW s \in DOMAIN sessions, GoesOn(s) PROVE CaptureIsUnderWay'
    BY <2>3 DEF GoesOn, Sets, CaptureIsUnderWay
  <2>4. ASSUME NEW s \in DOMAIN sessions, Uploads(s) PROVE CaptureIsUnderWay'
    BY <2>4 DEF Uploads, Moves, CaptureIsUnderWay
  <2>5. ASSUME NEW s \in DOMAIN sessions, Analyses(s) PROVE CaptureIsUnderWay'
    <3> SUFFICES ASSUME inspection \in {"SESSION_STARTED", "EVIDENCE_UPLOADING"}
                 PROVE  \E t \in DOMAIN sessions' : sessions'[t].status \in ActiveSessionStates
      BY <2>5 DEF Analyses, CaptureIsUnderWay
    <3>1. PICK t \in DOMAIN sessions : sessions[t].status \in ActiveSessionStates
      BY DEF CaptureIsUnderWay
    <3>2. t # s
      BY <2>5, <3>1 DEF Analyses
    <3> QED
      BY <2>5, <3>1, <3>2 DEF Analyses, Sets
  <2>6. CASE Decides \/ Administers \/ Prepares
    BY <2>6 DEF Decides, Administers, Prepares, Decided, CaptureIsUnderWay
  <2>7. CASE Opens
    <3>1. Len(sessions) + 1 \in DOMAIN sessions'
      BY <2>7 DEF Opens, TypeOK
    <3> QED
      BY <2>7, <3>1 DEF Opens, CaptureIsUnderWay
  <2>8. CASE Keeps /\ inspection' = inspection
    BY <2>8 DEF Keeps, CaptureIsUnderWay
  <2> QED
    BY <2>1, <2>2, <2>3, <2>4, <2>5, <2>6, <2>7, <2>8 DEF Effect
<1> QED
  BY <1>1, <1>2, TypeCorrect, PTL DEF Spec

\* A session whose evidence was stored is never reopened, aborted or expired:
\* no handler of the phone accepts it any more, and the worker restores it.
THEOREM UploadedStaysDurable ==
    ASSUME Requests = {}
    PROVE  Spec => UploadedIsDurable
<1>1. TypeOK /\ [Next]_vars =>
        [\A s \in DOMAIN sessions :
            sessions[s].status \in EvidenceStored =>
                sessions'[s].status \in EvidenceStored]_vars
  <2> SUFFICES ASSUME TypeOK, [Next]_vars, NEW s \in DOMAIN sessions,
                      sessions[s].status \in EvidenceStored
               PROVE  sessions'[s].status \in EvidenceStored
    OBVIOUS
  <2>1. Effect /\ sessions[s].status \notin ActiveSessionStates
               /\ sessions[s].status \notin LiveExpiringStates
    BY SerialStep, StatusKinds
  <2> QED
    BY <2>1 DEF Effect, Ends, GoesOn, Uploads, Analyses, Decides, Administers, Prepares,
                Opens, Keeps, Sets
<1> QED
  BY <1>1, TypeCorrect, PTL DEF Spec, UploadedIsDurable

\* Only complete_capture expires a session whose challenges are over: polling, a
\* replayed creation and another inspector's session leave it or abort it.
THEOREM AcceptedStays ==
    ASSUME Requests = {}
    PROVE  Spec => AcceptedSurvivesPolling
<1>1. TypeOK /\ [Next]_vars =>
        [\A s \in DOMAIN sessions :
            /\ sessions[s].status \in ChallengesOver \cup Transporting \cup EvidenceStored
            /\ sessions'[s].status = "EXPIRED"
            => \E r \in Requests \cup {Now} : CompleteCapture(r, s)]_vars
  <2> SUFFICES ASSUME TypeOK, [Next]_vars, NEW s \in DOMAIN sessions,
                      sessions[s].status \in ChallengesOver \cup Transporting \cup EvidenceStored,
                      sessions'[s].status = "EXPIRED"
               PROVE  CompleteCapture(Now, s)
    OBVIOUS
  <2>1. Effect /\ sessions[s].status \notin LiveExpiringStates
               /\ sessions[s].status # "EXPIRED"
    BY SerialStep, StatusKinds DEF EvidenceStored
  <2>2. /\ "EXPIRED" \notin ActiveSessionStates /\ "EXPIRED" \notin EvidenceStored
    BY StatusKinds
  <2> QED
    BY <2>1, <2>2 DEF Effect, Ends, GoesOn, Uploads, Analyses, Decides, Administers,
                      Prepares, Opens, Keeps, Sets
<1> QED
  BY <1>1, TypeCorrect, PTL DEF Spec, AcceptedSurvivesPolling

\* A cancelled inspection stays cancelled but for a human review of an earlier
\* session: every handler that moves it along asks for its status first.
THEOREM CancelledStays ==
    ASSUME Requests = {}
    PROVE  Spec => CancelledLeftOnlyByReview
<1>1. TypeOK /\ [Next]_vars =>
        [inspection = "CANCELLED" => inspection' \in {"CANCELLED"} \cup Decided]_vars
  <2> SUFFICES ASSUME TypeOK, [Next]_vars, inspection = "CANCELLED"
               PROVE  inspection' \in {"CANCELLED"} \cup Decided
    OBVIOUS
  <2>1. Effect
    BY SerialStep
  <2> QED
    BY <2>1 DEF Effect, Ends, GoesOn, Uploads, Analyses, Decides, Administers, Prepares,
                Opens, Moves
<1> QED
  BY <1>1, TypeCorrect, PTL DEF Spec, CancelledLeftOnlyByReview

\* A reviewer's decision on an inspection without open sessions is changed by
\* reviewers and administrators only.
THEOREM DecisionsStand ==
    ASSUME Requests = {}
    PROVE  Spec => DecisionStands
<1>1. TypeOK /\ [Next]_vars =>
        [/\ inspection \in Decided
         /\ \A s \in DOMAIN sessions : sessions[s].status \notin ActiveSessionStates
         => inspection' \in Decided \cup {"ASSIGNED", "CANCELLED"}]_vars
  <2> SUFFICES ASSUME TypeOK, [Next]_vars, inspection \in Decided,
                      \A s \in DOMAIN sessions : sessions[s].status \notin ActiveSessionStates
               PROVE  inspection' \in Decided \cup {"ASSIGNED", "CANCELLED"}
    OBVIOUS
  <2>1. Effect /\ inspection \notin {"READY", "ASSIGNED", "ACKNOWLEDGED"}
    BY SerialStep DEF Decided
  <2> QED
    BY <2>1 DEF Effect, Ends, GoesOn, Uploads, Analyses, Decides, Administers, Prepares,
                Opens
<1> QED
  BY <1>1, TypeCorrect, PTL DEF Spec, DecisionStands
=============================================================================
