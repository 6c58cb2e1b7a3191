------------------------- MODULE CaptureSessionProofs -------------------------
(***************************************************************************)
(* Proofs about the live proof of the phone for every number of sessions,  *)
(* challenges, retries, lost calls, interruptions and deaths.              *)
(***************************************************************************)
EXTENDS CaptureSession, FiniteSetTheorems, TLAPS

EndedStates == {"ABORTED", "EXPIRED"}
OnChallenge == {"start-challenge", "submit"}
OnSession == {"start-capture", "next", "capture-complete", "abort"} \cup OnChallenge
Judgements == {"next", "retry", "over"}
Waiters == {"flow", "interruption", "guard"}
ChallengeStatus == ActiveChallengeStates \cup Submitted \cup {"EXPIRED"}

-----------------------------------------------------------------------------
(* The server: what a handler may do to a session d, which becomes e.      *)

Over(d) == d.status \in EndedStates
Dropped(e) == Over(e) /\ e.challenges = << >>

\* What happens to a session that no call is about.
Aside(d, e) ==
    \/ e.status = d.status /\ e.challenges = d.challenges
    \/ d.status \in LiveExpiringStates /\ Dropped(e)

\* Results stay, but for that of challenge ch, and a new challenge has none.
Keeps(d, e, ch) ==
    /\ ~Over(d) /\ Len(d.challenges) <= Len(e.challenges)
    /\ \A c \in DOMAIN e.challenges :
          IF c \in DOMAIN d.challenges
          THEN \/ c = ch \/ e.challenges[c].status = d.challenges[c].status
               \/ {d.challenges[c].status, e.challenges[c].status} \cap Submitted = {}
          ELSE e.challenges[c].status \notin Submitted

\* Challenge c is the latest one and has no result.
LatestOpen(d, c) ==
    c = Len(d.challenges) /\ c # None /\ d.challenges[c].status \notin Submitted

\* A table in which at most session s differs.
Local(T, s) ==
    /\ T \in Seq(Session) /\ Len(T) = Len(sessions)
    /\ \A t \in DOMAIN sessions \ {s} : T[t] = sessions[t]

Answer(o) ==
    /\ o.answer \in {"ok", "refused"} \cup Judgements
    /\ o.s \in Nat /\ o.c \in Nat /\ o.status \in ChallengeStatus \cup {"none"}

LEMMA SessionParts ==
    ASSUME NEW d \in Session
    PROVE  /\ d = [status |-> d.status, overdue |-> d.overdue, challenges |-> d.challenges]
           /\ d.status \in SessionStatus /\ d.overdue \in BOOLEAN
           /\ d.challenges \in Seq(Challenge)
BY DEF Session

LEMMA LocalExcept ==
    ASSUME sessions \in Seq(Session), NEW s \in DOMAIN sessions, NEW e \in Session
    PROVE  /\ Local([sessions EXCEPT ![s] = e], s) /\ [sessions EXCEPT ![s] = e][s] = e
BY DEF Local

LEMMA LocalSame ==
    ASSUME sessions \in Seq(Session), NEW s
    PROVE  Local(sessions, s)
BY DEF Local

LEMMA SetStatusIsLocal ==
    ASSUME sessions \in Seq(Session), NEW s \in DOMAIN sessions, NEW status \in SessionStatus
    PROVE  /\ Local(SetStatus(sessions, s, status), s)
           /\ SetStatus(sessions, s, status)[s].status = status
           /\ SetStatus(sessions, s, status)[s].challenges = sessions[s].challenges
<1>1. sessions[s] \in Session
  OBVIOUS
<1>2. [sessions[s] EXCEPT !.status = status] \in Session
  BY <1>1 DEF Session
<1>3. SetStatus(sessions, s, status) = [sessions EXCEPT ![s] = [sessions[s] EXCEPT !.status = status]]
  BY DEF SetStatus
<1> DEFINE e == [sessions[s] EXCEPT !.status = status]
<1>4. e.status = status /\ e.challenges = sessions[s].challenges
  BY <1>1 DEF Session
<1> HIDE DEF e
<1>5. Local([sessions EXCEPT ![s] = e], s) /\ [sessions EXCEPT ![s] = e][s] = e
  BY <1>2, LocalExcept DEF e
<1> QED BY <1>3, <1>4, <1>5 DEF e

LEMMA EndIsLocal ==
    ASSUME sessions \in Seq(Session), NEW s \in DOMAIN sessions, NEW status \in EndedStates
    PROVE  Local(End(sessions, s, status), s) /\ Dropped(End(sessions, s, status)[s])
           /\ End(sessions, s, status)[s].status = status
<1>1. [status |-> status, overdue |-> FALSE, challenges |-> << >>] \in Session
  BY DEF Session, SessionStatus, EndedStates
<1> QED BY <1>1, LocalExcept DEF End, Dropped, Over

\* In table T session s has challenges t and a status.
Written(T, s, t, status) ==
    Local(T, s) /\ T[s].challenges = t /\ T[s].status = status

LEMMA RowIsLocal ==
    ASSUME sessions \in Seq(Session), NEW s \in DOMAIN sessions, NEW t \in Seq(Challenge),
           NEW status \in SessionStatus, NEW T,
           T = [sessions EXCEPT ![s].challenges = t, ![s].status = status]
    PROVE  Written(T, s, t, status)
<1>1. sessions[s] \in Session
  OBVIOUS
<1> DEFINE e == [status |-> status, overdue |-> sessions[s].overdue, challenges |-> t]
<1>2. e \in Session
  BY <1>1 DEF Session
<1> DEFINE U == [sessions EXCEPT ![s] = [sessions[s] EXCEPT !.challenges = t]]
<1>3. U[s] = [sessions[s] EXCEPT !.challenges = t]
  OBVIOUS
<1>4. [U[s] EXCEPT !.status = status] = e
  <2>1. sessions[s] = [status |-> sessions[s].status, overdue |-> sessions[s].overdue,
                       challenges |-> sessions[s].challenges]
    BY <1>1 DEF Session
  <2>2. U[s] = [status |-> sessions[s].status, overdue |-> sessions[s].overdue,
                challenges |-> t]
    BY <1>3, <2>1
  <2>3. ASSUME NEW d, d = [status |-> sessions[s].status, overdue |-> sessions[s].overdue,
                           challenges |-> t]
        PROVE  [d EXCEPT !.status = status] = e
    BY <2>3
  <2> HIDE DEF U
  <2> QED BY <2>2, <2>3
<1>5. T = [U EXCEPT ![s] = e]
  BY <1>4
<1>6. T = [sessions EXCEPT ![s] = e]
  BY <1>5
<1>7. e.challenges = t /\ e.status = status
  OBVIOUS
<1> HIDE DEF e
<1>8. Local([sessions EXCEPT ![s] = e], s) /\ [sessions EXCEPT ![s] = e][s] = e
  BY <1>2, LocalExcept
<1> QED BY <1>6, <1>7, <1>8 DEF Written

-----------------------------------------------------------------------------
(* The handlers, one by one.                                               *)

LEMMA StartCaptureDoes ==
    ASSUME sessions \in Seq(Session), NEW s \in DOMAIN sessions, NEW o \in StartCapture(s)
    PROVE  /\ Answer(o) /\ o.answer \in {"ok", "refused"} /\ Local(o.table, s)
           /\ Dropped(o.table[s]) \/ o.table[s].challenges = sessions[s].challenges
           /\ Over(sessions[s]) => o.table[s] = sessions[s]
<1>1. /\ Local(Expire(sessions, s), s) /\ Dropped(Expire(sessions, s)[s])
      /\ Local(sessions, s)
      /\ Local(SetStatus(sessions, s, "CAPTURING"), s)
      /\ SetStatus(sessions, s, "CAPTURING")[s].challenges = sessions[s].challenges
  BY EndIsLocal, LocalSame, SetStatusIsLocal
     DEF Expire, EndedStates, SessionStatus, ActiveSessionStates, LiveExpiringStates
<1>2. Over(sessions[s]) => ~Expirable(sessions[s]) /\ sessions[s].status # "CREATED"
  BY DEF Over, Expirable, EndedStates, LiveExpiringStates
<1> QED
  BY <1>1, <1>2 DEF StartCapture, Refused, Ok, Outcome, Answer, None

LEMMA CompleteCaptureDoes ==
    ASSUME sessions \in Seq(Session), NEW s \in DOMAIN sessions, NEW o \in CompleteCapture(s)
    PROVE  /\ Answer(o) /\ o.answer \in {"ok", "refused"} /\ Local(o.table, s)
           /\ Dropped(o.table[s]) \/ o.table[s].challenges = sessions[s].challenges
           /\ o.answer = "ok" => o.table[s].status = "CAPTURE_COMPLETED"
           /\ Over(sessions[s]) => o.table[s] = sessions[s]
<1>1. /\ Local(Expire(sessions, s), s) /\ Dropped(Expire(sessions, s)[s])
      /\ Local(sessions, s)
      /\ Local(SetStatus(sessions, s, "CAPTURE_COMPLETED"), s)
      /\ SetStatus(sessions, s, "CAPTURE_COMPLETED")[s].challenges = sessions[s].challenges
      /\ SetStatus(sessions, s, "CAPTURE_COMPLETED")[s].status = "CAPTURE_COMPLETED"
  BY EndIsLocal, LocalSame, SetStatusIsLocal
     DEF Expire, EndedStates, SessionStatus, ActiveSessionStates
<1>2. Over(sessions[s]) => ~Expirable(sessions[s]) /\ sessions[s].status # "CHALLENGES_COMPLETED"
  BY DEF Over, Expirable, EndedStates, LiveExpiringStates
<1> QED
  BY <1>1, <1>2 DEF CompleteCapture, Refused, Ok, Outcome, Answer, None

LEMMA AbortSessionDoes ==
    ASSUME sessions \in Seq(Session), NEW s \in DOMAIN sessions, NEW o \in AbortSession(s)
    PROVE  /\ Answer(o) /\ o.answer \in {"ok", "refused"} /\ Local(o.table, s)
           /\ Dropped(o.table[s]) \/ o.table[s] = sessions[s]
<1>1. /\ Local(End(sessions, s, "ABORTED"), s) /\ Dropped(End(sessions, s, "ABORTED")[s])
      /\ Local(sessions, s)
  BY EndIsLocal, LocalSame DEF EndedStates
<1> QED
  BY <1>1 DEF AbortSession, Refused, Ok, Outcome, Answer, None

LEMMA NumberIsNat ==
    ASSUME NEW t \in Seq(Challenge)
    PROVE  NextNumber(t) \in Nat \ {0}
<1>1. CASE t = << >>
  BY <1>1 DEF NextNumber
<1>2. CASE t # << >>
  <2>1. Last(t) \in Challenge
    BY <1>2 DEF Last
  <2>2. Last(t).number \in Nat \ {0}
    BY <2>1, CaptureAssumption DEF Challenge
  <2> QED BY <1>2, <2>2 DEF NextNumber
<1> QED BY <1>1, <1>2

\* What issue_next_challenge does once no challenge of the table t is active.
Issued(s, t, o) ==
    /\ Answer(o) /\ o.answer \in {"ok", "refused"} /\ Local(o.table, s)
    /\ o.table[s].status \in {"CHALLENGES_COMPLETED", "CHALLENGES_IN_PROGRESS"}
    /\ \/ o.answer = "refused" /\ o.table[s].challenges = t
       \/ /\ o.answer = "ok" /\ o.c = Len(t) + 1
          /\ \E n : o.table[s].challenges = Append(t, [number |-> n, status |-> "ISSUED"])

LEMMA IssueAfterDoes ==
    ASSUME sessions \in Seq(Session), NEW s \in DOMAIN sessions, NEW t \in Seq(Challenge)
    PROVE  Issued(s, t, IssueAfter(s, t))
<1> DEFINE o == IssueAfter(s, t)
<1> DEFINE n == NextNumber(t)
           new == [number |-> n, status |-> "ISSUED"]
<1>1. n \in Nat \ {0}
  BY NumberIsNat
<1>2. CASE n > ChallengeCount
  <2> DEFINE T == [sessions EXCEPT ![s].challenges = t, ![s].status = "CHALLENGES_COMPLETED"]
  <2>2. o = Refused(T)
    BY <1>2 DEF IssueAfter
  <2>3. "CHALLENGES_COMPLETED" \in SessionStatus
    BY DEF SessionStatus, ActiveSessionStates
  <2> HIDE DEF T
  <2>4. T = [sessions EXCEPT ![s].challenges = t, ![s].status = "CHALLENGES_COMPLETED"]
    BY DEF T
  <2>1. Written(T, s, t, "CHALLENGES_COMPLETED")
    BY <2>3, <2>4, RowIsLocal, Zenon
  <2> QED BY <2>1, <2>2 DEF Refused, Outcome, Answer, None, Issued, Written
<1>3. CASE ~(n > ChallengeCount)
  <2> DEFINE u == Append(t, new)
             T == [sessions EXCEPT ![s].challenges = u, ![s].status = "CHALLENGES_IN_PROGRESS"]
  <2>1. new \in Challenge
    BY <1>1, <1>3, CaptureAssumption DEF Challenge, ActiveChallengeStates
  <2>2. u \in Seq(Challenge)
    BY <2>1
  <2> HIDE DEF u
  <2>4. o = Ok(T, s, Len(t) + 1)
    BY <1>3 DEF IssueAfter, u
  <2>5. Len(t) + 1 \in Nat /\ s \in Nat
    OBVIOUS
  <2>7. "CHALLENGES_IN_PROGRESS" \in SessionStatus
    BY DEF SessionStatus, ActiveSessionStates, LiveExpiringStates
  <2> HIDE DEF T
  <2>8. T = [sessions EXCEPT ![s].challenges = u, ![s].status = "CHALLENGES_IN_PROGRESS"]
    BY DEF T
  <2>3. Written(T, s, u, "CHALLENGES_IN_PROGRESS")
    BY <2>2, <2>7, <2>8, RowIsLocal, Zenon
  <2>6. /\ Answer(o) /\ o.answer = "ok" /\ o.table = T /\ o.c = Len(t) + 1
    BY <2>4, <2>5 DEF Ok, Outcome, Answer
  <2> QED BY <2>3, <2>6 DEF u, Issued, Written
<1> QED BY <1>2, <1>3

LEMMA IssueNextDoes ==
    ASSUME sessions \in Seq(Session), NEW s \in DOMAIN sessions, NEW o \in IssueNext(s)
    PROVE  /\ Answer(o) /\ o.answer \in {"ok", "refused"} /\ Local(o.table, s)
           /\ \/ o.table[s] = sessions[s]
              \/ ~Over(o.table[s]) /\ Keeps(sessions[s], o.table[s], None)
           /\ o.answer = "ok" => LatestOpen(o.table[s], o.c)
<1> DEFINE d == sessions[s]
           t == d.challenges
           x == [t EXCEPT ![Len(t)].status = "EXPIRED"]
<1>1. d \in Session /\ t \in Seq(Challenge)
  BY SessionParts
<1>2. CASE o = Refused(sessions)
  BY <1>2, LocalSame DEF Refused, Outcome, Answer, None
<1>3. CASE d.status \in {"CAPTURING", "CHALLENGES_IN_PROGRESS"} /\ o # Refused(sessions)
  <2>1. ~Over(d)
    BY <1>3 DEF Over, EndedStates
  <2>2. CASE t # << >> /\ Last(t).status \in ActiveChallengeStates
    <3>1. Len(t) \in DOMAIN t /\ t[Len(t)].status \in ActiveChallengeStates
      BY <1>1, <2>2 DEF Last
    <3>2. CASE o = Ok(sessions, s, Len(t))
      BY <1>1, <3>1, <3>2, LocalSame
         DEF Ok, Outcome, Answer, LatestOpen, ActiveChallengeStates, Submitted, None
    <3>3. CASE o = IssueAfter(s, x)
      <4>0. t[Len(t)] \in Challenge
        BY <1>1, <3>1
      <4> DEFINE y == [t[Len(t)] EXCEPT !.status = "EXPIRED"]
      <4>9. y \in Challenge /\ y.status = "EXPIRED"
        BY <4>0 DEF Challenge
      <4>10. x = [t EXCEPT ![Len(t)] = y]
        OBVIOUS
      <4> HIDE DEF x, y
      <4>1. x \in Seq(Challenge) /\ Len(x) = Len(t)
        BY <1>1, <3>1, <4>9, <4>10
      <4>2. \A c \in DOMAIN t : c # Len(t) => x[c] = t[c]
        BY <1>1, <4>10
      <4>3. x[Len(t)].status = "EXPIRED"
        BY <1>1, <3>1, <4>9, <4>10
      <4>4. /\ Answer(o) /\ o.answer \in {"ok", "refused"} /\ Local(o.table, s)
            /\ o.table[s].status \in {"CHALLENGES_COMPLETED", "CHALLENGES_IN_PROGRESS"}
            /\ \/ o.answer = "refused" /\ o.table[s].challenges = x
               \/ /\ o.answer = "ok" /\ o.c = Len(x) + 1
                  /\ \E n : o.table[s].challenges = Append(x, [number |-> n, status |-> "ISSUED"])
        <5>1. Issued(s, x, IssueAfter(s, x))
          BY <4>1, IssueAfterDoes, Zenon
        <5>2. Issued(s, x, o)
          BY <3>3, <5>1, Zenon
        <5> QED BY <5>2 DEF Issued
      <4> DEFINE e == o.table[s]
      <4>5. ~Over(e)
        BY <4>4 DEF Over, EndedStates
      <4>7. CASE o.answer = "refused" /\ e.challenges = x
        BY <2>1, <3>1, <4>1, <4>2, <4>3, <4>4, <4>5, <4>7
           DEF Keeps, ActiveChallengeStates, Submitted
      <4>8. ASSUME NEW n, o.answer = "ok", o.c = Len(x) + 1,
                   e.challenges = Append(x, [number |-> n, status |-> "ISSUED"])
            PROVE  Keeps(d, e, None) /\ LatestOpen(e, o.c)
        <5> DEFINE z == e.challenges
        <5>1. Len(z) = Len(t) + 1 /\ DOMAIN z = 1 .. Len(t) + 1 /\ z[Len(t) + 1].status = "ISSUED"
          BY <4>1, <4>8
        <5>2. \A c \in DOMAIN t : z[c] = x[c]
          BY <4>1, <4>8
        <5>3. DOMAIN t = 1 .. Len(t) /\ Len(t) \in Nat
          BY <1>1
        <5>4. ASSUME NEW c \in DOMAIN z
              PROVE  IF c \in DOMAIN t
                     THEN \/ z[c].status = t[c].status
                          \/ {t[c].status, z[c].status} \cap Submitted = {}
                     ELSE z[c].status \notin Submitted
          <6>1. CASE c = Len(t)
            BY <3>1, <4>3, <5>2, <6>1 DEF ActiveChallengeStates, Submitted
          <6>2. CASE c \in DOMAIN t /\ c # Len(t)
            BY <4>2, <5>2, <6>2
          <6>3. CASE c \notin DOMAIN t
            <7>1. c = Len(t) + 1
              BY <5>1, <5>3, <6>3
            <7> QED BY <5>1, <6>3, <7>1 DEF Submitted
          <6> QED BY <6>1, <6>2, <6>3
        <5> QED BY <2>1, <4>1, <4>8, <5>1, <5>3, <5>4 DEF Keeps, LatestOpen, Submitted, None
      <4> QED BY <4>4, <4>5, <4>7, <4>8
    <3> QED BY <1>3, <2>2, <3>2, <3>3 DEF IssueNext
  <2>3. CASE ~(t # << >> /\ Last(t).status \in ActiveChallengeStates)
    <3>1. o = IssueAfter(s, t)
      BY <1>3, <2>3 DEF IssueNext
    <3>2. /\ Answer(o) /\ o.answer \in {"ok", "refused"} /\ Local(o.table, s)
          /\ o.table[s].status \in {"CHALLENGES_COMPLETED", "CHALLENGES_IN_PROGRESS"}
          /\ \/ o.answer = "refused" /\ o.table[s].challenges = t
             \/ /\ o.answer = "ok" /\ o.c = Len(t) + 1
                /\ \E n : o.table[s].challenges = Append(t, [number |-> n, status |-> "ISSUED"])
      <4>1. Issued(s, t, IssueAfter(s, t))
        BY <1>1, IssueAfterDoes, Zenon
      <4>2. Issued(s, t, o)
        BY <3>1, <4>1, Zenon
      <4> QED BY <4>2 DEF Issued
    <3> DEFINE e == o.table[s]
    <3>3. ~Over(e)
      BY <3>2 DEF Over, EndedStates
    <3>4. CASE o.answer = "refused" /\ e.challenges = t
      BY <2>1, <3>2, <3>3, <3>4, <1>1 DEF Keeps
    <3>5. ASSUME NEW n, o.answer = "ok", o.c = Len(t) + 1,
                 e.challenges = Append(t, [number |-> n, status |-> "ISSUED"])
          PROVE  Keeps(d, e, None) /\ LatestOpen(e, o.c)
      <4> DEFINE y == e.challenges
      <4>1. Len(y) = Len(t) + 1 /\ DOMAIN y = 1 .. Len(t) + 1 /\ y[Len(t) + 1].status = "ISSUED"
        BY <1>1, <3>5
      <4>2. \A c \in DOMAIN t : y[c] = t[c]
        BY <1>1, <3>5
      <4>3. DOMAIN t = 1 .. Len(t) /\ Len(t) \in Nat
        BY <1>1
      <4>4. \A c \in DOMAIN y : c \notin DOMAIN t => y[c].status \notin Submitted
        BY <4>1, <4>3 DEF Submitted
      <4> QED BY <2>1, <3>5, <4>1, <4>2, <4>3, <4>4 DEF Keeps, LatestOpen, Submitted, None
    <3> QED BY <3>2, <3>3, <3>4, <3>5
  <2> QED BY <2>2, <2>3
<1> QED BY <1>2, <1>3 DEF IssueNext

\* In table u only the status of challenge c differs from t.
Marked(u, t, c, status) ==
    /\ u \in Seq(Challenge) /\ Len(u) = Len(t) /\ u[c].status = status
    /\ \A b \in DOMAIN t \ {c} : u[b] = t[b]

LEMMA MarkIsLocal ==
    ASSUME NEW t \in Seq(Challenge), NEW c \in DOMAIN t, NEW status \in ChallengeStatus, NEW u,
           u = [t EXCEPT ![c].status = status]
    PROVE  Marked(u, t, c, status)
<1> DEFINE y == [t[c] EXCEPT !.status = status]
<1>1. t[c] \in Challenge
  OBVIOUS
<1>2. y \in Challenge /\ y.status = status
  BY <1>1 DEF Challenge, ChallengeStatus
<1>3. u = [t EXCEPT ![c] = y]
  OBVIOUS
<1> HIDE DEF y
<1> QED BY <1>2, <1>3 DEF Marked

LEMMA MarkedRow ==
    ASSUME sessions \in Seq(Session), NEW s \in DOMAIN sessions,
           NEW c \in DOMAIN sessions[s].challenges, NEW status \in ChallengeStatus, NEW T,
           T = [sessions EXCEPT ![s].challenges[c].status = status]
    PROVE  \E u : /\ Written(T, s, u, sessions[s].status)
                  /\ Marked(u, sessions[s].challenges, c, status)
<1> DEFINE d == sessions[s]
           u == [d.challenges EXCEPT ![c].status = status]
           e == [d EXCEPT !.challenges = u]
<1>1. d \in Session /\ d.challenges \in Seq(Challenge)
  BY SessionParts
<1>2. T = [sessions EXCEPT ![s] = e]
  OBVIOUS
<1> HIDE DEF u
<1>3. Marked(u, d.challenges, c, status)
  <2>1. u = [d.challenges EXCEPT ![c].status = status]
    BY DEF u
  <2> QED BY <1>1, <2>1, MarkIsLocal, Zenon
<1>4. e \in Session /\ e.challenges = u /\ e.status = d.status
  BY <1>1, <1>3 DEF Session, Marked
<1> HIDE DEF e, d
<1>5. Written(T, s, u, d.status)
  <2>1. Local([sessions EXCEPT ![s] = e], s) /\ [sessions EXCEPT ![s] = e][s] = e
    BY <1>4, LocalExcept
  <2> QED BY <1>2, <1>4, <2>1 DEF Written
<1> QED BY <1>3, <1>5 DEF d

LEMMA StartChallengeDoes ==
    ASSUME sessions \in Seq(Session), NEW s \in DOMAIN sessions, NEW c \in Nat,
           Over(sessions[s]) \/ c \in DOMAIN sessions[s].challenges,
           NEW o \in StartChallenge(s, c)
    PROVE  /\ Answer(o) /\ o.answer \in {"ok", "refused"} /\ Local(o.table, s)
           /\ \/ o.table[s] = sessions[s]
              \/ /\ ~Over(o.table[s]) /\ Keeps(sessions[s], o.table[s], None)
                 /\ Len(o.table[s].challenges) = Len(sessions[s].challenges)
           /\ o.answer = "ok" =>
                 o.c = c /\ o.table[s].challenges[c].status \notin Submitted
<1> DEFINE d == sessions[s]
<1>1. d \in Session /\ d.challenges \in Seq(Challenge)
  BY SessionParts
<1>2. CASE o = Refused(sessions)
  BY <1>2, LocalSame DEF Refused, Outcome, Answer, None
<1>3. CASE /\ d.status = "CHALLENGES_IN_PROGRESS" /\ d.challenges[c].status \in ActiveChallengeStates
           /\ o # Refused(sessions)
  <2>1. c \in DOMAIN d.challenges /\ ~Over(d)
    BY <1>3 DEF Over, EndedStates
  <2>2. ASSUME NEW T, NEW status \in {"EXPIRED", "STARTED"},
               T = [sessions EXCEPT ![s].challenges[c].status = status]
        PROVE  /\ Local(T, s) /\ ~Over(T[s]) /\ Keeps(d, T[s], None)
               /\ Len(T[s].challenges) = Len(d.challenges)
               /\ T[s].challenges[c].status = status
    <3>1. status \in ChallengeStatus
      BY DEF ChallengeStatus, ActiveChallengeStates
    <3>2. PICK u : Written(T, s, u, d.status) /\ Marked(u, d.challenges, c, status)
      BY <2>1, <2>2, <3>1, MarkedRow, Zenon
    <3>3. DOMAIN u = DOMAIN d.challenges
      BY <1>1, <3>2 DEF Marked
    <3>4. Local(T, s) /\ T[s].challenges = u /\ T[s].status = d.status
      BY <3>2 DEF Written
    <3>5. \A b \in DOMAIN u : IF b = c THEN u[b].status = status ELSE u[b] = d.challenges[b]
      BY <3>2, <3>3 DEF Marked
    <3> QED
      BY <1>1, <1>3, <2>1, <3>2, <3>3, <3>4, <3>5
         DEF Marked, Keeps, Over, ActiveChallengeStates, Submitted
  <2>3. CASE o = Refused([sessions EXCEPT ![s].challenges[c].status = "EXPIRED"])
    <3> DEFINE T == [sessions EXCEPT ![s].challenges[c].status = "EXPIRED"]
    <3>1. o = Refused(T)
      BY <2>3
    <3> HIDE DEF T
    <3>2. /\ Local(T, s) /\ ~Over(T[s]) /\ Keeps(d, T[s], None)
          /\ Len(T[s].challenges) = Len(d.challenges)
      BY <2>2, Zenon DEF T
    <3> QED BY <3>1, <3>2 DEF Refused, Outcome, Answer, None
  <2>4. CASE o = Ok([sessions EXCEPT ![s].challenges[c].status = "STARTED"], s, c)
    <3> DEFINE T == [sessions EXCEPT ![s].challenges[c].status = "STARTED"]
    <3>1. o = Ok(T, s, c)
      BY <2>4
    <3> HIDE DEF T
    <3>2. /\ Local(T, s) /\ ~Over(T[s]) /\ Keeps(d, T[s], None)
          /\ Len(T[s].challenges) = Len(d.challenges)
          /\ T[s].challenges[c].status = "STARTED"
      BY <2>2, Zenon DEF T
    <3> QED BY <3>1, <3>2 DEF Ok, Outcome, Answer, Submitted
  <2> QED BY <1>3, <2>3, <2>4 DEF StartChallenge
<1> QED BY <1>2, <1>3 DEF StartChallenge

LEMMA JudgedIsLocal ==
    ASSUME sessions \in Seq(Session), NEW s \in DOMAIN sessions,
           NEW c \in DOMAIN sessions[s].challenges, NEW status \in Submitted,
           ~Over(sessions[s])
    PROVE  LET T == Judged(s, c, status) IN
           /\ Local(T, s) /\ ~Over(T[s]) /\ Len(T[s].challenges) = Len(sessions[s].challenges)
           /\ Keeps(sessions[s], T[s], c)
           /\ T[s].challenges[c].status = status
<1> DEFINE d == sessions[s]
           t == [d.challenges EXCEPT ![c].status = status]
           now == IF NextNumber(t) > ChallengeCount THEN "CHALLENGES_COMPLETED" ELSE d.status
           T == Judged(s, c, status)
<1>1. d \in Session /\ d.challenges \in Seq(Challenge)
  BY SessionParts
<1>2. T = [sessions EXCEPT ![s].challenges = t, ![s].status = now]
  BY DEF Judged
<1> HIDE DEF t
<1>3. Marked(t, d.challenges, c, status)
  <2>1. t = [d.challenges EXCEPT ![c].status = status] /\ status \in ChallengeStatus
    BY DEF t, ChallengeStatus
  <2> QED BY <1>1, <2>1, MarkIsLocal, Zenon
<1>4. now \in SessionStatus /\ now \notin EndedStates
  BY <1>1 DEF Session, SessionStatus, ActiveSessionStates, Over, EndedStates
<1> HIDE DEF now, T
<1>5. Written(T, s, t, now)
  BY <1>2, <1>3, <1>4, RowIsLocal, Zenon DEF Marked
<1>6. Local(T, s) /\ T[s].challenges = t /\ ~Over(T[s])
  BY <1>4, <1>5 DEF Written, Over
<1>7. DOMAIN t = DOMAIN d.challenges
  BY <1>1, <1>3 DEF Marked
<1>8. Keeps(d, T[s], c)
  BY <1>1, <1>3, <1>6, <1>7 DEF Keeps, Marked
<1> QED BY <1>3, <1>6, <1>8 DEF T, Marked

LEMMA SubmitChallengeDoes ==
    ASSUME sessions \in Seq(Session), NEW s \in DOMAIN sessions, NEW c \in Nat,
           Over(sessions[s]) \/ c \in DOMAIN sessions[s].challenges,
           NEW o \in SubmitChallenge(s, c)
    PROVE  /\ Answer(o) /\ o.answer \in {"refused"} \cup Judgements /\ Local(o.table, s)
           /\ \/ o.table[s] = sessions[s]
              \/ /\ ~Over(o.table[s]) /\ Keeps(sessions[s], o.table[s], c)
                 /\ Len(o.table[s].challenges) = Len(sessions[s].challenges)
           /\ o.answer \in Judgements =>
                 /\ o.c = c /\ o.status \in Submitted
                 /\ o.table[s].challenges[c].status = o.status
<1> DEFINE d == sessions[s]
<1>1. d \in Session /\ d.challenges \in Seq(Challenge)
  BY SessionParts
<1>2. CASE o = Refused(sessions)
  BY <1>2, LocalSame DEF Refused, Outcome, Answer, None, Judgements
<1>3. ASSUME NEW T, T[s].challenges[c].status \in Submitted, o = Result(T, s, c)
      PROVE  /\ Answer(o) /\ o.answer \in Judgements /\ o.table = T
             /\ o.c = c /\ o.status \in Submitted /\ T[s].challenges[c].status = o.status
  BY <1>3 DEF Result, Outcome, Answer, Judgements, ChallengeStatus
<1>4. CASE o = Result(sessions, s, c) /\ d.challenges[c].status \in Submitted
  BY <1>3, <1>4, LocalSame
<1>5. ASSUME s \in ActiveSessions, NEW status \in Submitted, o = Result(Judged(s, c, status), s, c)
      PROVE  /\ Answer(o) /\ o.answer \in Judgements /\ Local(o.table, s)
             /\ ~Over(o.table[s]) /\ Keeps(d, o.table[s], c)
             /\ Len(o.table[s].challenges) = Len(d.challenges)
             /\ o.c = c /\ o.status \in Submitted /\ o.table[s].challenges[c].status = o.status
  <2> DEFINE T == Judged(s, c, status)
  <2>1. ~Over(d)
    BY <1>5 DEF ActiveSessions, ActiveSessionStates, LiveExpiringStates, Over, EndedStates
  <2>2. c \in DOMAIN d.challenges
    BY <2>1
  <2>3. /\ Local(T, s) /\ ~Over(T[s]) /\ Len(T[s].challenges) = Len(d.challenges)
        /\ Keeps(d, T[s], c) /\ T[s].challenges[c].status = status
    BY <2>1, <2>2, JudgedIsLocal
  <2> HIDE DEF T
  <2>4. o = Result(T, s, c)
    BY <1>5 DEF T
  <2> QED BY <1>3, <2>3, <2>4
<1>6. \/ o = Refused(sessions)
      \/ o = Result(sessions, s, c) /\ d.challenges[c].status \in Submitted
      \/ s \in ActiveSessions /\ \E status \in Submitted : o = Result(Judged(s, c, status), s, c)
  BY DEF SubmitChallenge
<1> QED BY <1>2, <1>3, <1>4, <1>5, <1>6

LEMMA CreateDoes ==
    ASSUME sessions \in Seq(Session), NEW o \in Create
    PROVE  /\ Answer(o) /\ o.table \in Seq(Session)
           /\ \A t \in DOMAIN sessions : Aside(sessions[t], o.table[t])
           /\ \/ o.answer = "refused" /\ Len(o.table) = Len(sessions)
              \/ /\ o.answer = "ok" /\ o.s = Len(sessions) + 1 /\ Len(o.table) = Len(sessions) + 1
                 /\ o.table[o.s] = NewSession
<1> DEFINE Left(s) == IF Expirable(sessions[s]) THEN Expire(sessions, s)[s] ELSE sessions[s]
           vacated == [s \in DOMAIN sessions |-> Left(s)]
           T == Append(vacated, NewSession)
<1>1. ASSUME NEW s \in DOMAIN sessions PROVE Left(s) \in Session /\ Aside(sessions[s], Left(s))
  <2>1. Local(Expire(sessions, s), s) /\ Dropped(Expire(sessions, s)[s])
    BY EndIsLocal DEF Expire, EndedStates
  <2>2. Expire(sessions, s)[s] \in Session
    BY <2>1 DEF Local
  <2> QED BY <2>1, <2>2 DEF Aside, Expirable
<1>2. NewSession \in Session
  BY DEF NewSession, Session, SessionStatus, ActiveSessionStates, LiveExpiringStates
<1> HIDE DEF Left
<1>3. vacated \in Seq(Session) /\ Len(vacated) = Len(sessions)
  <2>1. DOMAIN sessions = 1 .. Len(sessions) /\ Len(sessions) \in Nat
    OBVIOUS
  <2> QED BY <1>1, <2>1
<1>4. \A s \in DOMAIN sessions : vacated[s] = Left(s)
  OBVIOUS
<1> HIDE DEF vacated
<1>5. /\ T \in Seq(Session) /\ Len(T) = Len(sessions) + 1 /\ T[Len(sessions) + 1] = NewSession
      /\ \A s \in DOMAIN sessions : T[s] = vacated[s]
  BY <1>2, <1>3
<1>6. o = Refused(sessions) \/ o = Ok(T, Len(sessions) + 1, None)
  BY DEF Create, vacated, Left
<1>7. \A s \in DOMAIN sessions : Aside(sessions[s], sessions[s]) /\ Aside(sessions[s], T[s])
  BY <1>1, <1>4, <1>5 DEF Aside
<1> HIDE DEF T
<1>8. Len(sessions) \in Nat
  OBVIOUS
<1> QED BY <1>5, <1>6, <1>7, <1>8 DEF Refused, Ok, Outcome, Answer, None

LEMMA InspectionDoes ==
    ASSUME NEW o \in Inspection
    PROVE  Answer(o) /\ o.answer \in {"ok", "refused"} /\ o.table = sessions
BY DEF Inspection, Refused, Ok, Outcome, Answer, None

-----------------------------------------------------------------------------
(* The invariant.                                                          *)

Row(s) == sessions[s].challenges
HasChallenge(s, c) == Over(sessions[s]) \/ c \in DOMAIN Row(s)

Requests ==
    [op : {"inspection", "create"} \cup OnSession, s : Nat, c : Nat,
     by : Waiters \cup {"nobody"}]
Replies ==
    [op : {"inspection", "create"} \cup OnSession, by : Waiters,
     answer : {"ok", "refused", "lost"} \cup Judgements, of : Nat, s : Nat, c : Nat,
     status : ChallengeStatus \cup {"none"}]

\* Calls and replies speak of sessions and challenges that there are.
CallsOK ==
    /\ calls \subseteq Requests /\ IsFiniteSet(calls)
    /\ \A m \in calls :
          /\ m.op \in OnSession => m.s \in DOMAIN sessions
          /\ m.op \in OnChallenge => HasChallenge(m.s, m.c)
RepliesOK ==
    /\ replies \subseteq Replies
    /\ \A r \in replies :
          /\ r.answer \in Judgements => r.op = "submit" /\ r.status \in Submitted
          /\ r.op = "create" /\ r.answer = "ok" => r.s \in DOMAIN sessions
          /\ r.op \in OnSession => r.of \in DOMAIN sessions
          /\ r.op = "next" /\ r.answer = "ok" => HasChallenge(r.of, r.c)

\* Sessions there are and sessions that are asked for stay within the bound.
Creating(C) == {m \in C : m.op \in {"create", "inspection"}}
Bounded ==
    /\ Len(sessions) + Cardinality(Creating(calls)) <= MaxSessions
    /\ (\E r \in replies : r.by = "flow" /\ r.op = "inspection") =>
          Len(sessions) + Cardinality(Creating(calls)) < MaxSessions

\* No call of a cancelled flow, of an interruption or of the guard is about session s.
Private(s) == \A m \in calls : m.op \in OnSession /\ m.s = s => m.by = "flow"
Untouched(s) == \A m \in calls : m.op \in OnSession => m.s # s

\* Between its creation and its capture nothing has happened to a session.
BeforeCapture == {"locate", "relocate", "start-capture", "record"}
Prepping(a) == a.at \in BeforeCapture \/ a.ui = "READY"
Engaged(a) ==
    \/ a.at \notin {"idle", "inspection", "create"}
    \/ a.ui \in {"STARTING", "READY"}
    \/ a.recording # None

\* What the place where the flow is says of the capture.
Placed(a) ==
    /\ a.ui = "READY" => a.at = "idle"
    /\ a.ui \in {"INTRO", "READY", "STARTING"} => a.recording = None
    /\ a.at \in {"inspection", "create"} \cup BeforeCapture => a.recording = None
    /\ a.at \in {"next", "start-challenge", "result", "finish"} \cup Saving \cup Stopping
          => a.challenge = None
    /\ a.at = "submit" => a.challenge # None
    /\ a.at = "window" => a.job # "start"
    /\ a.at \in {"submit", "result", "finish"} \cup Saving \cup Stopping
          => a.recording # None /\ a.job # "start"

Owns(a) ==
    /\ a.prepared \in 0 .. Len(sessions)
    /\ Engaged(a) => a.prepared # None /\ a.prepared \notin work
    /\ a.recording # None => a.recording = a.prepared
    /\ Prepping(a) \/ a.recording # None => Private(a.prepared)
    /\ Prepping(a) => Row(a.prepared) = << >>

Entry == [challenge : Nat, status : Submitted]
Timelines == Seq(Entry)

\* Timeline tl tells every result of session d but that of challenge ch.
TellsBut(tl, d, ch) ==
    /\ \A i, j \in DOMAIN tl : i < j => tl[i].challenge < tl[j].challenge
    /\ \A i \in DOMAIN tl :
         /\ tl[i].challenge \in DOMAIN d.challenges /\ tl[i].challenge # ch
         /\ d.challenges[tl[i].challenge].status = tl[i].status
    /\ \A c \in DOMAIN d.challenges :
          d.challenges[c].status \in Submitted /\ c # ch
             => \E i \in DOMAIN tl : tl[i].challenge = c

Recorded(a) == a.recording # None /\ ~Over(sessions[a.recording])
Tale(a) ==
    Recorded(a) =>
       /\ TellsBut(a.timeline, sessions[a.recording], a.challenge)
       /\ a.challenge # None => a.challenge = Len(Row(a.recording))

Packs(a) ==
    /\ a.at \in Saving => sessions[a.recording].status = "CAPTURE_COMPLETED"
    /\ a.at \in Saving \cup {"capture-complete"} => packaged[a.recording] = {a.timeline}
    /\ a.at = "enqueue" => a.recording \in pending

AppInv(a) == a \in App /\ Placed(a) /\ Owns(a) /\ Tale(a) /\ Packs(a)

\* The call the flow waits for: one, or its answer.
OpAt(at) == IF at \in {"abort twice", "abort stop", "abort leave"} THEN "abort" ELSE at

CallOfFlow(m) ==
    /\ m.op = OpAt(app.at)
    /\ m.op \in OnSession => m.s = app.prepared
    /\ \A n \in calls : n.by = "flow" => n = m
    /\ \A r \in replies : r.by # "flow"
    /\ Recorded(app) =>
          /\ m.op = "start-challenge" => LatestOpen(sessions[m.s], m.c)
          /\ m.op = "submit" => m.c = app.challenge
ReplyToFlow(r) ==
    /\ r.op = OpAt(app.at)
    /\ r.op \in OnSession => r.of = app.prepared
    /\ \A q \in replies : q.by = "flow" => q = r
    /\ r.op = "create" /\ r.answer = "ok" => r.s \notin work /\ Row(r.s) = << >> /\ Untouched(r.s)
    /\ r.op = "capture-complete" /\ r.answer = "ok" =>
          sessions[app.recording].status = "CAPTURE_COMPLETED"
    /\ Recorded(app) =>
          /\ r.op \in {"next", "start-challenge"} /\ r.answer = "ok" =>
                LatestOpen(sessions[r.of], r.c)
          /\ r.answer \in Judgements =>
                r.c = app.challenge /\ Row(app.recording)[r.c].status = r.status
FlowWaits ==
    /\ \A m \in calls : m.by = "flow" => CallOfFlow(m)
    /\ \A r \in replies : r.by = "flow" => ReplyToFlow(r)

\* What was handed over stays as it was.
HandedOver(s) ==
    /\ s \in DOMAIN sessions /\ s \in pending
    /\ sessions[s].status = "CAPTURE_COMPLETED"
    /\ \E tl : packaged[s] = {tl} /\ Tells(tl, s)
    /\ Untouched(s)
DiskInv ==
    /\ DOMAIN packaged = 1 .. MaxSessions
    /\ \A s \in 1 .. MaxSessions : packaged[s] = {} \/ \E tl : packaged[s] = {tl}
    /\ pending \subseteq DOMAIN sessions
    /\ \A s \in work : HandedOver(s)

BoundsOK == losses \in 0 .. MaxLosses /\ breaks \in 0 .. MaxBreaks

CaptureInv ==
    /\ sessions \in Seq(Session) /\ BoundsOK
    /\ CallsOK /\ RepliesOK /\ Bounded
    /\ AppInv(app) /\ FlowWaits /\ DiskInv

-----------------------------------------------------------------------------
(* What a call does, whichever it is.                                      *)

\* What a call about a session does to it.
Meddles(m, d, e) ==
    \/ e = d \/ Dropped(e)
    \/ /\ m.op \in {"start-capture", "capture-complete"}
       /\ ~Over(d) /\ e.challenges = d.challenges
    \/ /\ m.op = "next" /\ ~Over(e) /\ Keeps(d, e, None)
    \/ /\ m.op = "start-challenge" /\ ~Over(e) /\ Keeps(d, e, None)
       /\ Len(e.challenges) = Len(d.challenges)
    \/ /\ m.op = "submit" /\ ~Over(e) /\ Keeps(d, e, m.c)
       /\ Len(e.challenges) = Len(d.challenges)

Effect(m, o) ==
    /\ Answer(o) /\ o.table \in Seq(Session)
    /\ Len(o.table) = IF m.op = "create" /\ o.answer = "ok"
                      THEN Len(sessions) + 1 ELSE Len(sessions)
    /\ \A s \in DOMAIN sessions :
          IF m.op \in OnSession /\ m.s = s THEN Meddles(m, sessions[s], o.table[s])
                                           ELSE Aside(sessions[s], o.table[s])
    /\ o.answer \in Judgements =>
          /\ m.op = "submit" /\ o.c = m.c /\ o.status \in Submitted
          /\ o.table[m.s].challenges[m.c].status = o.status
    /\ m.op = "create" /\ o.answer = "ok" =>
          o.s = Len(sessions) + 1 /\ o.table[o.s] = NewSession
    /\ m.op = "next" /\ o.answer = "ok" => LatestOpen(o.table[m.s], o.c)
    /\ m.op = "start-challenge" /\ o.answer = "ok" =>
          o.c = m.c /\ o.table[m.s].challenges[m.c].status \notin Submitted
    /\ m.op = "capture-complete" /\ o.answer = "ok" =>
          o.table[m.s].status = "CAPTURE_COMPLETED"

LEMMA LocalAside ==
    ASSUME sessions \in Seq(Session), NEW s, NEW T, Local(T, s)
    PROVE  /\ T \in Seq(Session) /\ Len(T) = Len(sessions)
           /\ \A t \in DOMAIN sessions \ {s} : Aside(sessions[t], T[t])
BY DEF Local, Aside

LEMMA ServerEffect ==
    ASSUME sessions \in Seq(Session), NEW m \in Requests,
           m.op \in OnSession => m.s \in DOMAIN sessions,
           m.op \in OnChallenge => HasChallenge(m.s, m.c),
           NEW o \in Outcomes(m)
    PROVE  Effect(m, o)
<1>0. /\ m.op \in {"inspection", "create"} \cup OnSession /\ m.c \in Nat
      /\ "start-capture" \in OnSession /\ "next" \in OnSession /\ "submit" \in OnSession
      /\ "start-challenge" \in OnSession /\ "capture-complete" \in OnSession
      /\ "abort" \in OnSession /\ "create" \notin OnSession /\ "inspection" \notin OnSession
  BY DEF Requests, OnSession, OnChallenge
<1>1. CASE m.op = "inspection"
  <2>1. o \in Inspection
    BY <1>1 DEF Outcomes
  <2>2. Answer(o) /\ o.answer \in {"ok", "refused"} /\ o.table = sessions
    BY <2>1, InspectionDoes
  <2> QED BY <1>0, <1>1, <2>2 DEF Effect, Aside, Judgements
<1>2. CASE m.op = "create"
  <2>1. o \in Create
    BY <1>2 DEF Outcomes
  <2> QED BY <1>0, <1>2, <2>1, CreateDoes DEF Effect, Judgements
<1>3. CASE m.op = "start-capture"
  <2>1. m.s \in DOMAIN sessions /\ o \in StartCapture(m.s)
    BY <1>0, <1>3 DEF Outcomes
  <2>2. /\ Answer(o) /\ o.answer \in {"ok", "refused"} /\ Local(o.table, m.s)
        /\ Dropped(o.table[m.s]) \/ o.table[m.s].challenges = sessions[m.s].challenges
        /\ Over(sessions[m.s]) => o.table[m.s] = sessions[m.s]
    BY <2>1, StartCaptureDoes
  <2>3. Meddles(m, sessions[m.s], o.table[m.s])
    BY <1>3, <2>2 DEF Meddles
  <2> QED BY <1>0, <1>3, <2>2, <2>3, LocalAside DEF Effect, Judgements
<1>4. CASE m.op = "next"
  <2>1. m.s \in DOMAIN sessions /\ o \in IssueNext(m.s)
    BY <1>0, <1>4 DEF Outcomes
  <2>2. /\ Answer(o) /\ o.answer \in {"ok", "refused"} /\ Local(o.table, m.s)
        /\ \/ o.table[m.s] = sessions[m.s]
           \/ ~Over(o.table[m.s]) /\ Keeps(sessions[m.s], o.table[m.s], None)
        /\ o.answer = "ok" => LatestOpen(o.table[m.s], o.c)
    BY <2>1, IssueNextDoes
  <2>3. Meddles(m, sessions[m.s], o.table[m.s])
    BY <1>4, <2>2 DEF Meddles
  <2> QED BY <1>0, <1>4, <2>2, <2>3, LocalAside DEF Effect, Judgements
<1>5. CASE m.op = "start-challenge"
  <2>1. /\ m.s \in DOMAIN sessions /\ o \in StartChallenge(m.s, m.c)
        /\ Over(sessions[m.s]) \/ m.c \in DOMAIN sessions[m.s].challenges
    BY <1>0, <1>5 DEF Outcomes, HasChallenge, Row, OnChallenge
  <2>2. /\ Answer(o) /\ o.answer \in {"ok", "refused"} /\ Local(o.table, m.s)
        /\ \/ o.table[m.s] = sessions[m.s]
           \/ /\ ~Over(o.table[m.s]) /\ Keeps(sessions[m.s], o.table[m.s], None)
              /\ Len(o.table[m.s].challenges) = Len(sessions[m.s].challenges)
        /\ o.answer = "ok" =>
              o.c = m.c /\ o.table[m.s].challenges[m.c].status \notin Submitted
    BY <1>0, <2>1, StartChallengeDoes
  <2>3. Meddles(m, sessions[m.s], o.table[m.s])
    BY <1>5, <2>2 DEF Meddles
  <2> QED BY <1>0, <1>5, <2>2, <2>3, LocalAside DEF Effect, Judgements
<1>6. CASE m.op = "submit"
  <2>1. /\ m.s \in DOMAIN sessions /\ o \in SubmitChallenge(m.s, m.c)
        /\ Over(sessions[m.s]) \/ m.c \in DOMAIN sessions[m.s].challenges
    BY <1>0, <1>6 DEF Outcomes, HasChallenge, Row, OnChallenge
  <2>2. /\ Answer(o) /\ o.answer \in {"refused"} \cup Judgements /\ Local(o.table, m.s)
        /\ \/ o.table[m.s] = sessions[m.s]
           \/ /\ ~Over(o.table[m.s]) /\ Keeps(sessions[m.s], o.table[m.s], m.c)
              /\ Len(o.table[m.s].challenges) = Len(sessions[m.s].challenges)
        /\ o.answer \in Judgements =>
              /\ o.c = m.c /\ o.status \in Submitted
              /\ o.table[m.s].challenges[m.c].status = o.status
    BY <1>0, <2>1, SubmitChallengeDoes
  <2>3. Meddles(m, sessions[m.s], o.table[m.s])
    BY <1>6, <2>2 DEF Meddles
  <2> QED BY <1>0, <1>6, <2>2, <2>3, LocalAside DEF Effect, Judgements
<1>7. CASE m.op = "capture-complete"
  <2>1. m.s \in DOMAIN sessions /\ o \in CompleteCapture(m.s)
    BY <1>0, <1>7 DEF Outcomes
  <2>2. /\ Answer(o) /\ o.answer \in {"ok", "refused"} /\ Local(o.table, m.s)
        /\ Dropped(o.table[m.s]) \/ o.table[m.s].challenges = sessions[m.s].challenges
        /\ o.answer = "ok" => o.table[m.s].status = "CAPTURE_COMPLETED"
        /\ Over(sessions[m.s]) => o.table[m.s] = sessions[m.s]
    BY <2>1, CompleteCaptureDoes
  <2>3. Meddles(m, sessions[m.s], o.table[m.s])
    BY <1>7, <2>2 DEF Meddles
  <2> QED BY <1>0, <1>7, <2>2, <2>3, LocalAside DEF Effect, Judgements
<1>8. CASE m.op = "abort"
  <2>1. m.s \in DOMAIN sessions /\ o \in AbortSession(m.s)
    BY <1>0, <1>8 DEF Outcomes
  <2>2. /\ Answer(o) /\ o.answer \in {"ok", "refused"} /\ Local(o.table, m.s)
        /\ Dropped(o.table[m.s]) \/ o.table[m.s] = sessions[m.s]
    BY <2>1, AbortSessionDoes
  <2>3. Meddles(m, sessions[m.s], o.table[m.s])
    BY <1>8, <2>2 DEF Meddles
  <2> QED BY <1>0, <1>8, <2>2, <2>3, LocalAside DEF Effect, Judgements
<1> QED BY <1>0, <1>1, <1>2, <1>3, <1>4, <1>5, <1>6, <1>7, <1>8 DEF OnSession, OnChallenge

-----------------------------------------------------------------------------
(* The server's steps: call m is served with outcome o, or gets lost, or   *)
(* time passes and somebody looks at a session.                            *)

Exchange(m, o) ==
    /\ m \in Requests /\ Effect(m, o) /\ sessions' = o.table
    /\ \/ m.op = "inspection" /\ m.by = "nobody" /\ UNCHANGED <<calls, replies>>
       \/ /\ m \in calls /\ calls' = calls \ {m}
          /\ \/ m.by = "nobody" /\ replies' = replies
             \/ /\ m.by # "nobody"
                /\ \E answer \in {o.answer, "lost"} :
                      replies' = replies \cup {Reply(m, answer, o)}
    /\ UNCHANGED <<app, disk>>

\* A session that is over stays so, and challenges do not vanish before.
Follows(d, e) ==
    /\ Over(d) => Over(e)
    /\ Over(e) \/ Len(d.challenges) <= Len(e.challenges)

LEMMA EffectFollows ==
    ASSUME sessions \in Seq(Session), NEW m, NEW o, Effect(m, o), NEW s \in DOMAIN sessions
    PROVE  /\ s \in DOMAIN o.table /\ o.table[s] \in Session
           /\ Follows(sessions[s], o.table[s])
<1>1. sessions[s] \in Session /\ Len(sessions[s].challenges) \in Nat
  <2>1. sessions[s] \in Session
    OBVIOUS
  <2> QED BY <2>1, SessionParts
<1>2. s \in DOMAIN o.table
  BY DEF Effect
<1>3. o.table[s] \in Session
  BY <1>2 DEF Effect
<1>4. Aside(sessions[s], o.table[s]) => Follows(sessions[s], o.table[s])
  BY <1>1 DEF Aside, Follows, Dropped, Over, LiveExpiringStates, EndedStates
<1>5. Meddles(m, sessions[s], o.table[s]) => Follows(sessions[s], o.table[s])
  <2> SUFFICES ASSUME Meddles(m, sessions[s], o.table[s])
               PROVE  Follows(sessions[s], o.table[s])
    OBVIOUS
  <2> DEFINE d == sessions[s]
             e == o.table[s]
  <2>1. \/ e = d \/ Dropped(e)
        \/ (~Over(d) /\ e.challenges = d.challenges)
        \/ (~Over(d) /\ Len(d.challenges) <= Len(e.challenges))
    BY DEF Meddles, Keeps
  <2>2. Len(d.challenges) \in Nat
    BY <1>1
  <2> HIDE DEF d, e
  <2>3. Follows(d, e)
    BY <2>1, <2>2 DEF Follows, Dropped
  <2> QED BY <2>3 DEF d, e
<1>6. Meddles(m, sessions[s], o.table[s]) \/ Aside(sessions[s], o.table[s])
  BY DEF Effect
<1> QED BY <1>2, <1>3, <1>4, <1>5, <1>6

LEMMA ExchangeMessages ==
    ASSUME CaptureInv, NEW m, NEW o, Exchange(m, o)
    PROVE  CallsOK' /\ RepliesOK' /\ calls' \subseteq calls
<1> USE DEF CaptureInv
<1>1. /\ sessions' = o.table /\ Effect(m, o) /\ Answer(o)
      /\ calls' \subseteq calls /\ m \in Requests
  BY DEF Exchange, Effect
<1>2. /\ DOMAIN sessions \subseteq DOMAIN sessions'
      /\ \A s \in DOMAIN sessions : Follows(sessions[s], sessions'[s])
                                    /\ sessions'[s] \in Session /\ sessions[s] \in Session
  BY <1>1, EffectFollows
<1>3. ASSUME NEW s \in DOMAIN sessions, NEW c, HasChallenge(s, c) PROVE HasChallenge(s, c)'
  <2>1. sessions[s].challenges \in Seq(Challenge) /\ sessions'[s].challenges \in Seq(Challenge)
    BY <1>2 DEF Session
  <2> QED BY <1>2, <1>3, <2>1 DEF HasChallenge, Row, Follows, Over
<1>4. CallsOK'
  <2>1. IsFiniteSet(calls')
    BY <1>1, FS_Subset DEF CallsOK
  <2>2. ASSUME NEW n \in calls'
        PROVE  /\ n \in Requests /\ (n.op \in OnSession => n.s \in DOMAIN sessions')
               /\ n.op \in OnChallenge => HasChallenge(n.s, n.c)'
    <3>1. n \in calls /\ (n.op \in OnChallenge => n.op \in OnSession)
      BY <1>1 DEF OnSession
    <3> QED BY <1>2, <1>3, <3>1 DEF CallsOK
  <2> QED BY <2>1, <2>2 DEF CallsOK
<1>5. ASSUME NEW r \in replies'
      PROVE  /\ r \in Replies
             /\ r.answer \in Judgements => r.op = "submit" /\ r.status \in Submitted
             /\ r.op = "create" /\ r.answer = "ok" => r.s \in DOMAIN sessions'
             /\ r.op \in OnSession => r.of \in DOMAIN sessions'
             /\ r.op = "next" /\ r.answer = "ok" => HasChallenge(r.of, r.c)'
  <2>1. CASE r \in replies
    <3>1. "next" \in OnSession
      BY DEF OnSession
    <3> QED BY <1>2, <1>3, <2>1, <3>1 DEF RepliesOK
  <2>2. CASE r \notin replies
    <3>1. PICK answer \in {o.answer, "lost"} : r = Reply(m, answer, o)
      BY <2>2 DEF Exchange
    <3>2. m \in calls /\ m.by # "nobody"
      BY <2>2 DEF Exchange
    <3>3. /\ r.op = m.op /\ r.by = m.by /\ r.answer = answer /\ r.of = m.s /\ r.s = o.s
          /\ r.c = o.c /\ r.status = o.status
      BY <3>1 DEF Reply
    <3>4. r \in Replies
      BY <1>1, <3>1, <3>2 DEF Reply, Replies, Requests, Answer
    <3>5. r.answer \in Judgements => r.op = "submit" /\ r.status \in Submitted
      BY <1>1, <3>3 DEF Effect, Judgements
    <3>6. r.op = "create" /\ r.answer = "ok" => r.s \in DOMAIN sessions'
      <4>1. ASSUME r.op = "create", r.answer = "ok"
            PROVE  o.s = Len(sessions) + 1 /\ Len(sessions') = Len(sessions) + 1
        BY <1>1, <3>3, <4>1 DEF Effect
      <4>2. sessions' \in Seq(Session)
        BY <1>1 DEF Effect
      <4> QED BY <3>3, <4>1, <4>2
    <3>7. r.op \in OnSession => r.of \in DOMAIN sessions'
      BY <1>2, <3>2, <3>3 DEF CallsOK
    <3>8. ASSUME r.op = "next", r.answer = "ok" PROVE HasChallenge(r.of, r.c)'
      <4>1. LatestOpen(sessions'[m.s], o.c)
        BY <1>1, <3>3, <3>8 DEF Effect
      <4>2. m.s \in DOMAIN sessions
        BY <3>2, <3>3, <3>8 DEF CallsOK, OnSession
      <4>3. sessions'[m.s].challenges \in Seq(Challenge)
        BY <1>2, <4>2 DEF Session
      <4> QED BY <3>3, <4>1, <4>3 DEF HasChallenge, Row, LatestOpen, None
    <3> QED BY <3>4, <3>5, <3>6, <3>7, <3>8
  <2> QED BY <2>1, <2>2
<1>6. RepliesOK'
  BY <1>5 DEF RepliesOK
<1> QED BY <1>1, <1>4, <1>6

LEMMA ExchangeBounded ==
    ASSUME CaptureInv, NEW m, NEW o, Exchange(m, o)
    PROVE  Bounded'
<1> USE DEF CaptureInv
<1> DEFINE C == Creating(calls)
           D == Creating(calls')
           Asked(R) == \E r \in R : r.by = "flow" /\ r.op = "inspection"
<1>1. IsFiniteSet(C) /\ Cardinality(C) \in Nat
  BY FS_Subset, FS_CardinalityType DEF CallsOK, Creating
<1>2. Len(sessions) \in Nat /\ MaxSessions \in Nat
  BY CaptureAssumption
<1>3. sessions' = o.table /\ Effect(m, o)
  BY DEF Exchange
<1>4. /\ Len(sessions) + Cardinality(C) <= MaxSessions
      /\ Asked(replies) => Len(sessions) + Cardinality(C) < MaxSessions
  BY DEF Bounded
<1>5. CASE m \in calls /\ m.op \in {"create", "inspection"} /\ calls' = calls \ {m}
  <2>1. D = C \ {m} /\ m \in C
    BY <1>5 DEF Creating
  <2>2. Cardinality(D) = Cardinality(C) - 1
    BY <1>1, <2>1, FS_RemoveElement
  <2>3. Len(sessions') <= Len(sessions) + 1 /\ Len(sessions') \in Nat
        /\ (m.op = "inspection" => Len(sessions') = Len(sessions))
    BY <1>2, <1>3 DEF Effect
  <2>4. m.op = "create" => (Asked(replies') => Asked(replies))
    BY <1>5 DEF Exchange, Reply
  <2> QED BY <1>1, <1>2, <1>4, <1>5, <2>2, <2>3, <2>4 DEF Bounded
<1>6. CASE m.op \notin {"create", "inspection"} \/ calls' = calls
  <2>1. D = C
    BY <1>6 DEF Creating, Exchange
  <2>2. Len(sessions') = Len(sessions)
    <3>1. m.op # "create"
      BY <1>6 DEF Exchange
    <3> QED BY <1>3, <3>1 DEF Effect
  <2>3. Asked(replies') => Asked(replies)
    BY <1>6 DEF Exchange, Reply
  <2> QED BY <1>4, <2>1, <2>2, <2>3 DEF Bounded
<1> QED BY <1>5, <1>6 DEF Exchange

LEMMA KeepsTells ==
    ASSUME NEW tl \in Timelines, NEW d \in Session, NEW e \in Session, NEW ch, NEW x \in {None, ch},
           TellsBut(tl, d, ch), Keeps(d, e, x)
    PROVE  TellsBut(tl, e, ch)
<1>1. /\ d.challenges \in Seq(Challenge) /\ e.challenges \in Seq(Challenge)
      /\ DOMAIN d.challenges \subseteq DOMAIN e.challenges
  <2>1. d.challenges \in Seq(Challenge) /\ e.challenges \in Seq(Challenge)
    BY SessionParts
  <2> QED BY <2>1 DEF Keeps
<1>2. \A c \in DOMAIN d.challenges : c # 0
  BY <1>1
<1>3. ASSUME NEW c \in DOMAIN e.challenges, e.challenges[c].status \in Submitted, c # ch
      PROVE  /\ c \in DOMAIN d.challenges
             /\ e.challenges[c].status = d.challenges[c].status
  BY <1>2, <1>3 DEF Keeps, None
<1>4. ASSUME NEW c \in DOMAIN d.challenges, d.challenges[c].status \in Submitted, c # ch
      PROVE  e.challenges[c].status = d.challenges[c].status
  BY <1>1, <1>2, <1>4 DEF Keeps, None
<1>5. ASSUME NEW i \in DOMAIN tl
      PROVE  /\ tl[i].challenge \in DOMAIN e.challenges /\ tl[i].challenge # ch
             /\ e.challenges[tl[i].challenge].status = tl[i].status
  <2>1. tl[i].status \in Submitted
    <3>1. tl[i] \in Entry
      BY DEF Timelines
    <3> QED BY <3>1 DEF Entry
  <2>2. /\ tl[i].challenge \in DOMAIN d.challenges /\ tl[i].challenge # ch
        /\ d.challenges[tl[i].challenge].status = tl[i].status
    BY DEF TellsBut
  <2> QED BY <1>1, <1>4, <2>1, <2>2
<1> QED BY <1>1, <1>3, <1>4, <1>5 DEF TellsBut

LEMMA NotTargeted ==
    ASSUME CaptureInv, NEW m, NEW o, Exchange(m, o), NEW s \in DOMAIN sessions,
           Private(s), m.by # "flow"
    PROVE  Aside(sessions[s], sessions'[s])
<1>1. m.op \in OnSession => m.s # s
  BY DEF Exchange, Private, OnSession, OnChallenge
<1> QED BY <1>1 DEF Exchange, Effect

LEMMA FlowCall ==
    ASSUME CaptureInv, NEW m, NEW o, Exchange(m, o), m.by = "flow"
    PROVE  /\ m \in calls /\ CallOfFlow(m)
           /\ \A n \in calls' : n.by # "flow"
           /\ \A r \in replies : r.by # "flow"
           /\ app.at = m.op \/ m.op = "abort"
<1>1. m \in calls /\ calls' = calls \ {m}
  BY DEF Exchange
<1>2. CallOfFlow(m)
  BY <1>1 DEF CaptureInv, FlowWaits
<1> QED BY <1>1, <1>2 DEF CallOfFlow, OpAt

\* The capture that goes on is touched by the flow's own call only.
LEMMA ExchangeTale ==
    ASSUME CaptureInv, NEW m, NEW o, Exchange(m, o)
    PROVE  Tale(app)' /\ (Recorded(app)' => Recorded(app))
<1> DEFINE s == app.recording
           d == sessions[s]
           e == sessions'[s]
<1>1. app' = app /\ app \in App /\ Placed(app) /\ Owns(app) /\ Tale(app)
  BY DEF Exchange, CaptureInv, AppInv
<1> SUFFICES ASSUME Recorded(app)'
             PROVE  /\ Recorded(app) /\ TellsBut(app.timeline, e, app.challenge)
                    /\ app.challenge # None => app.challenge = Len(e.challenges)
  BY <1>1 DEF Tale, Recorded, Row
<1>2. s # None /\ ~Over(e)
  BY <1>1 DEF Recorded, Over
<1>3. s = app.prepared /\ s \in DOMAIN sessions /\ Private(s)
  BY <1>1, <1>2 DEF Owns, CaptureInv, None
<1>4. d \in Session /\ e \in Session /\ Follows(d, e)
  BY <1>3, EffectFollows DEF Exchange, CaptureInv
<1>5. Recorded(app)
  BY <1>2, <1>4 DEF Recorded, Follows
<1>6. /\ TellsBut(app.timeline, d, app.challenge)
      /\ app.challenge # None => app.challenge = Len(d.challenges)
      /\ app.timeline \in Timelines
  BY <1>1, <1>5 DEF Tale, Row, App, Timelines, Entry
<1>7. CASE e.challenges = d.challenges
  BY <1>5, <1>6, <1>7 DEF TellsBut
<1>8. CASE Aside(d, e)
  BY <1>2, <1>7, <1>8 DEF Aside, Dropped
<1>9. CASE m.by = "flow" /\ m.op \in OnSession /\ m.s = s
  <2>1. Meddles(m, d, e)
    BY <1>3, <1>9 DEF Exchange, Effect
  <2>2. CallOfFlow(m) /\ (app.at = m.op \/ m.op = "abort")
    BY <1>9, FlowCall
  <2>3. CASE m.op \in {"next", "start-challenge"} /\ Keeps(d, e, None)
    <3>1. app.challenge = None
      BY <1>1, <2>2, <2>3 DEF Placed
    <3> QED BY <1>4, <1>5, <1>6, <2>3, <3>1, KeepsTells
  <2>4. CASE m.op = "submit" /\ Keeps(d, e, m.c) /\ Len(e.challenges) = Len(d.challenges)
    <3>1. m.c = app.challenge
      BY <1>5, <2>2, <2>4 DEF CallOfFlow
    <3> QED BY <1>4, <1>5, <1>6, <2>4, <3>1, KeepsTells
  <2> QED BY <1>2, <1>7, <2>1, <2>3, <2>4 DEF Meddles, Dropped
<1>10. (m.by = "flow" /\ m.op \in OnSession /\ m.s = s) \/ Aside(d, e)
  BY <1>3, NotTargeted DEF Exchange, Effect
<1> QED BY <1>8, <1>9, <1>10

LEMMA ExchangeApp ==
    ASSUME CaptureInv, NEW m, NEW o, Exchange(m, o)
    PROVE  AppInv(app)'
<1>1. /\ app' = app /\ app \in App /\ Placed(app) /\ Owns(app) /\ Packs(app)
      /\ UNCHANGED <<packaged, pending, work>> /\ calls' \subseteq calls
  BY ExchangeMessages DEF Exchange, CaptureInv, AppInv, disk
<1>2. /\ DOMAIN sessions \subseteq DOMAIN sessions' /\ Len(sessions) <= Len(sessions')
      /\ Len(sessions) \in Nat /\ Len(sessions') \in Nat
  BY DEF Exchange, Effect, CaptureInv
<1>3. ASSUME NEW s, Private(s) PROVE Private(s)'
  BY <1>1, <1>3 DEF Private
<1>4. ASSUME Prepping(app) PROVE Row(app.prepared)' = << >>
  <2> DEFINE s == app.prepared
  <2>1. s \in DOMAIN sessions /\ Private(s) /\ sessions[s].challenges = << >>
    <3>1. Engaged(app)
      BY <1>4 DEF Prepping, Engaged, BeforeCapture
    <3> QED BY <1>1, <1>4, <3>1 DEF Owns, Row, CaptureInv, None
  <2>2. CASE Aside(sessions[s], sessions'[s])
    BY <1>1, <2>1, <2>2 DEF Aside, Dropped, Row
  <2>3. CASE m.by = "flow" /\ m.op \in OnSession /\ m.s = s
    <3>1. m.op = OpAt(app.at)
      BY <2>3, FlowCall DEF CallOfFlow
    <3>2. m.op = "start-capture"
      BY <1>1, <1>4, <2>3, <3>1 DEF Prepping, BeforeCapture, Placed, OpAt, OnSession, OnChallenge
    <3>3. Meddles(m, sessions[s], sessions'[s])
      BY <2>1, <2>3 DEF Exchange, Effect
    <3> QED BY <1>1, <2>1, <3>2, <3>3 DEF Meddles, Dropped, Row
  <2> QED BY <2>1, <2>2, <2>3, NotTargeted DEF Exchange, Effect
<1>5. Owns(app)'
  BY <1>1, <1>2, <1>3, <1>4 DEF Owns, Prepping, Engaged
<1>6. Packs(app)'
  <2>1. ASSUME app.at \in Saving
        PROVE  sessions'[app.recording].status = "CAPTURE_COMPLETED"
    <3> DEFINE s == app.recording
    <3>1. s # None /\ s = app.prepared
      BY <1>1, <2>1 DEF Placed, Owns, Saving
    <3>2. s \in DOMAIN sessions /\ Private(s) /\ sessions[s].status = "CAPTURE_COMPLETED"
      BY <1>1, <2>1, <3>1 DEF Owns, Packs, CaptureInv, None
    <3>3. m.by # "flow"
      <4>1. m.by = "flow" => m.op = OpAt(app.at) /\ m \in Requests
        BY FlowCall DEF CallOfFlow, Exchange
      <4> QED BY <2>1, <4>1 DEF OpAt, Saving, Requests, OnSession, OnChallenge
    <3>4. Aside(sessions[s], sessions'[s])
      BY <3>2, <3>3, NotTargeted
    <3> QED BY <3>2, <3>4 DEF Aside, LiveExpiringStates
  <2> QED BY <1>1, <2>1 DEF Packs
<1> QED BY <1>1, <1>5, <1>6, ExchangeTale DEF AppInv, Placed

LEMMA ExchangeFlow ==
    ASSUME CaptureInv, NEW m, NEW o, Exchange(m, o)
    PROVE  FlowWaits'
<1>1. /\ app' = app /\ app \in App /\ Placed(app) /\ Owns(app)
      /\ UNCHANGED <<packaged, pending, work>> /\ calls' \subseteq calls
      /\ sessions' = o.table /\ Effect(m, o)
  BY ExchangeMessages DEF Exchange, CaptureInv, AppInv, disk
<1>2. FlowWaits /\ CallsOK /\ RepliesOK /\ sessions \in Seq(Session)
  BY DEF CaptureInv
<1>3. Recorded(app)' => Recorded(app)
  BY ExchangeTale
<1>4. ASSUME Recorded(app)
      PROVE  /\ app.recording = app.prepared /\ app.prepared \in DOMAIN sessions
             /\ Private(app.prepared)
  BY <1>1, <1>2, <1>4 DEF Recorded, Owns, None
<1>5. ASSUME NEW n \in calls', n.by = "flow" PROVE CallOfFlow(n)'
  <2>1. n \in calls /\ CallOfFlow(n)
    BY <1>1, <1>2, <1>5 DEF FlowWaits
  <2>2. m.by # "flow"
    BY <1>5, FlowCall
  <2>3. \A r \in replies' : r.by # "flow"
    BY <2>1, <2>2 DEF CallOfFlow, Exchange, Reply
  <2>4. ASSUME Recorded(app)', n.op = "start-challenge" PROVE LatestOpen(sessions[n.s], n.c)'
    <3> DEFINE s == app.prepared
    <3>1. n.s = s /\ s \in DOMAIN sessions /\ Private(s) /\ LatestOpen(sessions[s], n.c)
      BY <1>3, <1>4, <2>1, <2>4 DEF CallOfFlow, OnSession, OnChallenge
    <3>2. Aside(sessions[s], sessions'[s])
      BY <2>2, <3>1, NotTargeted
    <3>3. ~Over(sessions'[s])
      BY <1>1, <1>3, <1>4, <2>4 DEF Recorded, Over
    <3>4. sessions'[s].challenges = sessions[s].challenges
      BY <3>2, <3>3 DEF Aside, Dropped
    <3> QED BY <3>1, <3>4 DEF LatestOpen
  <2> QED BY <1>1, <1>3, <2>1, <2>3, <2>4 DEF CallOfFlow
<1>6. ASSUME NEW r \in replies', r \in replies, r.by = "flow" PROVE ReplyToFlow(r)'
  <2>1. ReplyToFlow(r)
    BY <1>2, <1>6 DEF FlowWaits
  <2>2. m.by # "flow"
    BY <1>6, FlowCall
  <2>3. \A q \in replies' : q.by = "flow" => q = r
    BY <2>1, <2>2 DEF ReplyToFlow, Exchange, Reply
  <2>4. ASSUME r.op = "create", r.answer = "ok"
        PROVE  r.s \notin work' /\ Row(r.s)' = << >> /\ Untouched(r.s)'
    <3>1. r.s \notin work /\ Row(r.s) = << >> /\ Untouched(r.s) /\ r.s \in DOMAIN sessions
      BY <1>2, <1>6, <2>1, <2>4 DEF ReplyToFlow, RepliesOK
    <3>2. Aside(sessions[r.s], sessions'[r.s])
      BY <2>2, <3>1, NotTargeted DEF Untouched, Private
    <3> QED BY <1>1, <3>1, <3>2 DEF Untouched, Row, Aside, Dropped
  <2>5. ASSUME r.op = "capture-complete", r.answer = "ok"
        PROVE  sessions'[app.recording].status = "CAPTURE_COMPLETED"
    <3> DEFINE s == app.recording
    <3>1. app.at = "capture-complete" /\ sessions[s].status = "CAPTURE_COMPLETED"
      BY <2>1, <2>5 DEF ReplyToFlow, OpAt
    <3>2. s # None /\ s = app.prepared /\ Private(s) /\ s \in DOMAIN sessions
      BY <1>1, <1>2, <3>1 DEF Placed, Stopping, Owns, None
    <3>3. Aside(sessions[s], sessions'[s])
      BY <2>2, <3>2, NotTargeted
    <3> QED BY <3>1, <3>3 DEF Aside, LiveExpiringStates
  <2>6. ASSUME Recorded(app)'
        PROVE  LET s == app.prepared IN
               /\ sessions'[s].challenges = sessions[s].challenges
               /\ s = app.recording /\ Recorded(app)
    <3>1. Aside(sessions[app.prepared], sessions'[app.prepared])
      BY <1>3, <1>4, <2>2, <2>6, NotTargeted
    <3>2. ~Over(sessions'[app.recording])
      BY <1>1, <2>6 DEF Recorded, Over
    <3> QED BY <1>3, <1>4, <2>6, <3>1, <3>2 DEF Aside, Dropped
  <2>7. ASSUME Recorded(app)', r.op \in {"next", "start-challenge"}, r.answer = "ok"
        PROVE  LatestOpen(sessions[r.of], r.c)'
    <3>1. r.of = app.prepared /\ LatestOpen(sessions[r.of], r.c)
      BY <2>1, <2>6, <2>7 DEF ReplyToFlow, OnSession, OnChallenge
    <3> QED BY <2>6, <2>7, <3>1 DEF LatestOpen
  <2>8. ASSUME Recorded(app)', r.answer \in Judgements
        PROVE  r.c = app.challenge /\ sessions'[app.recording].challenges[r.c].status = r.status
    BY <2>1, <2>6, <2>8 DEF ReplyToFlow, Row
  <2> QED BY <1>1, <2>1, <2>3, <2>4, <2>5, <2>7, <2>8 DEF ReplyToFlow, Row
<1>7. ASSUME NEW r \in replies', r \notin replies, r.by = "flow" PROVE ReplyToFlow(r)'
  <2>1. PICK answer \in {o.answer, "lost"} : r = Reply(m, answer, o) /\ replies' = replies \cup {r}
    BY <1>7 DEF Exchange
  <2>2. /\ r.op = m.op /\ r.by = m.by /\ r.answer = answer /\ r.of = m.s /\ r.s = o.s
        /\ r.c = o.c /\ r.status = o.status
    BY <2>1 DEF Reply
  <2>3. /\ m \in calls /\ CallOfFlow(m) /\ (\A q \in replies : q.by # "flow")
        /\ app.at = m.op \/ m.op = "abort"
    BY <1>7, <2>2, FlowCall
  <2>4. ASSUME r.op = "create", r.answer = "ok"
        PROVE  r.s \notin work' /\ Row(r.s)' = << >> /\ Untouched(r.s)'
    <3>1. r.s = Len(sessions) + 1 /\ sessions'[r.s] = NewSession
      BY <1>1, <2>2, <2>4 DEF Effect
    <3>2. r.s \notin DOMAIN sessions
      BY <1>2, <3>1
    <3>3. work \subseteq DOMAIN sessions
      BY DEF CaptureInv, DiskInv, HandedOver
    <3> QED BY <1>1, <1>2, <3>1, <3>2, <3>3 DEF Row, NewSession, Untouched, CallsOK
  <2>5. ASSUME r.op = "capture-complete", r.answer = "ok"
        PROVE  sessions'[app.recording].status = "CAPTURE_COMPLETED"
    <3>1. app.at = "capture-complete" /\ m.s = app.prepared
      BY <2>2, <2>3, <2>5 DEF CallOfFlow, OnSession
    <3>2. app.recording = app.prepared
      BY <1>1, <3>1 DEF Placed, Stopping, Owns
    <3> QED BY <1>1, <2>2, <2>5, <3>1, <3>2 DEF Effect
  <2>6. ASSUME r.op \in {"next", "start-challenge"}, r.answer = "ok", Recorded(app)'
        PROVE  LatestOpen(sessions[r.of], r.c)'
    <3>1. CASE r.op = "next"
      BY <1>1, <2>2, <2>6, <3>1 DEF Effect
    <3>2. CASE r.op = "start-challenge"
      <4> DEFINE s == m.s
      <4>1. s = app.prepared /\ s = app.recording /\ s \in DOMAIN sessions
            /\ LatestOpen(sessions[s], m.c) /\ ~Over(sessions'[s])
        BY <1>1, <1>3, <1>4, <2>2, <2>3, <2>6, <3>2
           DEF CallOfFlow, OnSession, OnChallenge, Recorded, Over
      <4>2. o.c = m.c /\ sessions'[s].challenges[m.c].status \notin Submitted
        BY <1>1, <2>2, <2>6, <3>2 DEF Effect
      <4>3. Meddles(m, sessions[s], sessions'[s])
        BY <1>1, <2>2, <3>2, <4>1 DEF Effect, OnSession, OnChallenge
      <4>4. Len(sessions'[s].challenges) = Len(sessions[s].challenges)
        BY <2>2, <3>2, <4>1, <4>3 DEF Meddles, Dropped
      <4> QED BY <1>1, <2>2, <4>1, <4>2, <4>4 DEF LatestOpen
    <3> QED BY <2>6, <3>1, <3>2
  <2>7. ASSUME r.answer \in Judgements, Recorded(app)'
        PROVE  r.c = app.challenge /\ sessions'[app.recording].challenges[r.c].status = r.status
    <3>1. /\ m.op = "submit" /\ o.c = m.c /\ sessions'[m.s].challenges[m.c].status = o.status
      BY <1>1, <2>1, <2>2, <2>7 DEF Effect, Judgements
    <3>2. m.c = app.challenge /\ m.s = app.recording
      BY <1>3, <1>4, <2>3, <2>7, <3>1 DEF CallOfFlow, OnSession, OnChallenge
    <3> QED BY <2>2, <3>1, <3>2
  <2>8. /\ r.op = OpAt(app.at)
        /\ r.op \in OnSession => r.of = app.prepared
        /\ \A q \in replies' : q.by = "flow" => q = r
    BY <2>1, <2>2, <2>3 DEF CallOfFlow
  <2> QED BY <1>1, <2>4, <2>5, <2>6, <2>7, <2>8 DEF ReplyToFlow, Row
<1> QED BY <1>5, <1>6, <1>7 DEF FlowWaits

LEMMA ExchangeDisk ==
    ASSUME CaptureInv, NEW m, NEW o, Exchange(m, o)
    PROVE  DiskInv'
<1>1. /\ UNCHANGED <<packaged, pending, work>> /\ calls' \subseteq calls
      /\ sessions' = o.table /\ Effect(m, o) /\ DiskInv
      /\ DOMAIN sessions \subseteq DOMAIN sessions'
  BY ExchangeMessages, EffectFollows DEF Exchange, CaptureInv, disk
<1>2. ASSUME NEW s \in work PROVE HandedOver(s)'
  <2>1. HandedOver(s)
    BY <1>1 DEF DiskInv
  <2>2. Aside(sessions[s], sessions'[s])
    <3>1. m.op \in OnSession => m.s # s
      BY <2>1 DEF HandedOver, Untouched, Exchange, OnSession, OnChallenge
    <3> QED BY <1>1, <2>1, <3>1 DEF Effect, HandedOver
  <2>3. /\ sessions'[s].status = "CAPTURE_COMPLETED"
        /\ sessions'[s].challenges = sessions[s].challenges
    BY <2>1, <2>2 DEF Aside, HandedOver, LiveExpiringStates
  <2> QED BY <1>1, <2>1, <2>3 DEF HandedOver, Untouched, Tells
<1> QED BY <1>1, <1>2 DEF DiskInv

LEMMA ExchangeStep ==
    ASSUME CaptureInv, NEW m, NEW o, Exchange(m, o), BoundsOK'
    PROVE  CaptureInv'
<1>1. sessions' \in Seq(Session)
  BY DEF Exchange, Effect
<1> QED
  BY <1>1, ExchangeMessages, ExchangeBounded, ExchangeApp, ExchangeFlow, ExchangeDisk
     DEF CaptureInv

\* A table with the sessions as they were or a little older, and no answer.
LEMMA LookEffect ==
    ASSUME sessions \in Seq(Session), NEW m, NEW T \in Seq(Session), Len(T) = Len(sessions),
           \A s \in DOMAIN sessions :
              T[s] = sessions[s] \/ (m.op \notin OnSession /\ Aside(sessions[s], T[s]))
    PROVE  Effect(m, Refused(T))
<1>1. \A s \in DOMAIN sessions : Aside(sessions[s], sessions[s])
  BY DEF Aside
<1> QED BY <1>1 DEF Effect, Refused, Outcome, Answer, None, Judgements, Meddles

LEMMA ServerStep ==
    ASSUME CaptureInv, Answering \/ \E s \in DOMAIN sessions : Overrun(s) \/ Poll(s)
    PROVE  CaptureInv'
<1>1. sessions \in Seq(Session) /\ BoundsOK /\ CallsOK /\ MaxLosses \in Nat
  BY CaptureAssumption DEF CaptureInv
<1>2. ASSUME NEW m \in calls, Serve(m) PROVE CaptureInv'
  <2>1. PICK o \in Outcomes(m) :
           /\ sessions' = o.table /\ calls' = calls \ {m}
           /\ \/ /\ replies' = IF m.by = "nobody" THEN replies
                               ELSE replies \cup {Reply(m, o.answer, o)}
                 /\ UNCHANGED losses
              \/ /\ m.by # "nobody" /\ losses < MaxLosses
                 /\ replies' = replies \cup {Reply(m, "lost", o)}
                 /\ losses' = losses + 1
           /\ UNCHANGED <<app, disk, breaks>>
    BY <1>2 DEF Serve
  <2>2. m \in Requests /\ Effect(m, o)
    BY <1>1, ServerEffect DEF CallsOK
  <2>3. Exchange(m, o)
    BY <2>1, <2>2 DEF Exchange
  <2>4. BoundsOK'
    BY <1>1, <2>1 DEF BoundsOK
  <2> QED BY <2>3, <2>4, ExchangeStep
<1>3. ASSUME NEW m \in calls, Lose(m) PROVE CaptureInv'
  <2> DEFINE o == Refused(sessions)
  <2>1. m \in Requests /\ Effect(m, o) /\ o.table = sessions
    BY <1>1, LookEffect DEF CallsOK, Refused, Outcome
  <2> HIDE DEF o
  <2>2. Exchange(m, o)
    BY <1>3, <2>1 DEF Exchange, Lose, o
  <2>3. BoundsOK'
    BY <1>1, <1>3 DEF BoundsOK, Lose
  <2> QED BY <2>2, <2>3, ExchangeStep
<1>4. ASSUME NEW s \in DOMAIN sessions, Overrun(s) \/ Poll(s) PROVE CaptureInv'
  <2> DEFINE m == Request("inspection", None, None, "nobody")
             o == Refused(sessions')
  <2>1. m \in Requests /\ m.op = "inspection" /\ m.by = "nobody" /\ m.op \notin OnSession
    BY DEF Requests, Request, None, OnSession, OnChallenge
  <2>2. /\ sessions' \in Seq(Session) /\ Len(sessions') = Len(sessions)
        /\ \A t \in DOMAIN sessions \ {s} : sessions'[t] = sessions[t]
        /\ Aside(sessions[s], sessions'[s])
    <3>1. CASE Overrun(s)
      <4> DEFINE e == [sessions[s] EXCEPT !.overdue = TRUE]
      <4>1. sessions[s] \in Session
        BY <1>1
      <4>2. e \in Session /\ e.status = sessions[s].status /\ e.challenges = sessions[s].challenges
        BY <4>1 DEF Session
      <4>3. sessions' = [sessions EXCEPT ![s] = e]
        BY <3>1 DEF Overrun
      <4> HIDE DEF e
      <4> QED BY <1>1, <4>2, <4>3 DEF Aside
    <3>2. CASE Poll(s)
      <4>1. sessions' = Expire(sessions, s) /\ Expirable(sessions[s])
        BY <3>2 DEF Poll
      <4>2. Local(sessions', s) /\ Dropped(sessions'[s])
        BY <1>1, <4>1, EndIsLocal DEF Expire, EndedStates
      <4> QED BY <4>1, <4>2 DEF Local, Aside, Expirable
    <3> QED BY <1>4, <3>1, <3>2
  <2>3. Effect(m, o) /\ o.table = sessions'
    <3> HIDE DEF m
    <3>1. ASSUME NEW t \in DOMAIN sessions
          PROVE  \/ sessions'[t] = sessions[t]
                 \/ m.op \notin OnSession /\ Aside(sessions[t], sessions'[t])
      <4>1. CASE t = s
        BY <2>1, <2>2, <4>1
      <4>2. CASE t # s
        BY <2>2, <4>2
      <4> QED BY <4>1, <4>2
    <3>2. Effect(m, o)
      BY <1>1, <2>2, <3>1, LookEffect
    <3> QED BY <3>2 DEF Refused, Outcome
  <2> HIDE DEF m, o
  <2>4. Exchange(m, o)
    BY <1>4, <2>1, <2>3 DEF Exchange, Overrun, Poll
  <2>5. BoundsOK'
    BY <1>1, <1>4 DEF BoundsOK, Overrun, Poll, bounds
  <2> QED BY <2>4, <2>5, ExchangeStep
<1> QED BY <1>2, <1>3, <1>4 DEF Answering

-----------------------------------------------------------------------------
(* The app's steps.                                                        *)

FlowFree(C, R) == (\A m \in C : m.by # "flow") /\ (\A r \in R : r.by # "flow")

LEMMA AppMoves ==
    ASSUME sessions' = sessions, work' = work, packaged' = packaged, pending \subseteq pending',
           \A m \in calls' : m \in calls \/ m.by = "flow",
           NEW a, app' = a, AppInv(a)
    PROVE  AppInv(app)'
<1>1. ASSUME NEW s, Private(s) PROVE Private(s)'
  BY <1>1 DEF Private
<1>2. Owns(app)'
  BY <1>1 DEF Owns, Prepping, Engaged, AppInv, Row
<1>3. Tale(app)' /\ Packs(app)' /\ Placed(app)'
  BY DEF AppInv, Tale, TellsBut, Recorded, Row, Packs, Placed, Over
<1> QED BY <1>2, <1>3 DEF AppInv

LEMMA DiskStays ==
    ASSUME DiskInv, sessions' = sessions, UNCHANGED disk,
           \A m \in calls' : m \in calls \/ m.op \notin OnSession \/ m.s \notin work
    PROVE  DiskInv'
<1>1. ASSUME NEW s \in work PROVE HandedOver(s)'
  <2>1. HandedOver(s)
    BY DEF DiskInv
  <2> QED BY <2>1 DEF HandedOver, Untouched, Tells, disk
<1> QED BY <1>1 DEF DiskInv, disk

\* No flow waits any more.
LEMMA Quiet ==
    ASSUME CaptureInv, sessions' = sessions, calls' \subseteq calls, replies' \subseteq replies,
           FlowFree(calls', replies')
    PROVE  CallsOK' /\ RepliesOK' /\ FlowWaits' /\ Bounded'
<1>1. CallsOK' /\ RepliesOK'
  <2>1. IsFiniteSet(calls')
    BY FS_Subset DEF CaptureInv, CallsOK
  <2> QED BY <2>1 DEF CaptureInv, CallsOK, RepliesOK, HasChallenge, Row, Over
<1>2. FlowWaits'
  BY DEF FlowWaits, FlowFree
<1>3. Bounded'
  <2>1. /\ IsFiniteSet(Creating(calls)) /\ Cardinality(Creating(calls)) \in Nat
        /\ IsFiniteSet(Creating(calls')) /\ Cardinality(Creating(calls')) \in Nat
        /\ Cardinality(Creating(calls')) <= Cardinality(Creating(calls))
    <3>1. IsFiniteSet(Creating(calls)) /\ Creating(calls') \subseteq Creating(calls)
      BY FS_Subset DEF CaptureInv, CallsOK, Creating
    <3> QED BY <3>1, FS_Subset, FS_CardinalityType
  <2>2. Len(sessions) \in Nat /\ MaxSessions \in Nat
    BY CaptureAssumption DEF CaptureInv
  <2> QED BY <2>1, <2>2 DEF CaptureInv, Bounded, FlowFree
<1> QED BY <1>1, <1>2, <1>3

\* The flow goes on without a call.
LEMMA RestStep ==
    ASSUME CaptureInv, UNCHANGED <<sessions, calls, disk, bounds>>, replies' \subseteq replies,
           FlowFree(calls, replies'), NEW a, app' = a, AppInv(a)
    PROVE  CaptureInv'
<1>1. CallsOK' /\ RepliesOK' /\ FlowWaits' /\ Bounded'
  BY Quiet DEF FlowFree
<1>2. AppInv(app)' /\ DiskInv'
  BY AppMoves, DiskStays DEF disk, CaptureInv
<1> QED BY <1>1, <1>2 DEF CaptureInv, BoundsOK, bounds

\* The flow goes on with a call about its session.
LEMMA CallMessages ==
    ASSUME CaptureInv, sessions' = sessions, replies' \subseteq replies,
           FlowFree(calls, replies'), NEW a, app' = a, a.prepared \in DOMAIN sessions,
           NEW op \in OnSession, op = OpAt(a.at), NEW c \in Nat,
           calls' = calls \cup {Request(op, a.prepared, c, "flow")},
           op \in OnChallenge => HasChallenge(a.prepared, c),
           Recorded(a) /\ op = "start-challenge" => LatestOpen(sessions[a.prepared], c),
           Recorded(a) /\ op = "submit" => c = a.challenge
    PROVE  CallsOK' /\ RepliesOK' /\ Bounded' /\ FlowWaits'
<1> DEFINE m == Request(op, a.prepared, c, "flow")
<1>1. /\ m.op = op /\ m.s = a.prepared /\ m.c = c /\ m.by = "flow"
      /\ op \notin {"create", "inspection"}
  BY DEF Request, OnSession, OnChallenge
<1>2. m \in Requests
  BY DEF Request, Requests, Waiters, CaptureInv
<1> HIDE DEF m
<1>3. calls' = calls \cup {m}
  BY DEF m
<1>4. CallsOK'
  <2>1. IsFiniteSet(calls')
    <3>1. IsFiniteSet(calls)
      BY DEF CaptureInv, CallsOK
    <3>2. IsFiniteSet(calls \cup {m})
      BY <3>1, FS_AddElement
    <3> QED BY <1>3, <3>2
  <2>2. \A n \in calls' : /\ n.op \in OnSession => n.s \in DOMAIN sessions'
                          /\ n.op \in OnChallenge => HasChallenge(n.s, n.c)'
    BY <1>1, <1>3 DEF CaptureInv, CallsOK, HasChallenge, Row, Over
  <2> QED BY <1>2, <1>3, <2>1, <2>2 DEF CaptureInv, CallsOK
<1>5. RepliesOK'
  BY DEF CaptureInv, RepliesOK, HasChallenge, Row, Over
<1>6. Bounded'
  <2>1. Creating(calls') = Creating(calls)
    BY <1>1, <1>3 DEF Creating
  <2> QED BY <2>1 DEF CaptureInv, Bounded, FlowFree
<1>7. FlowWaits'
  <2>1. CallOfFlow(m)'
    BY <1>1, <1>3 DEF CallOfFlow, FlowFree, Recorded, LatestOpen, Over
  <2> QED BY <1>3, <2>1 DEF FlowWaits, FlowFree
<1> QED BY <1>4, <1>5, <1>6, <1>7

LEMMA CallStep ==
    ASSUME CaptureInv, UNCHANGED <<sessions, disk, bounds>>, replies' \subseteq replies,
           FlowFree(calls, replies'), NEW a, app' = a, AppInv(a),
           NEW op \in OnSession, op = OpAt(a.at), NEW c \in Nat,
           calls' = calls \cup {Request(op, a.prepared, c, "flow")},
           op \in OnChallenge => HasChallenge(a.prepared, c),
           Recorded(a) /\ op = "start-challenge" => LatestOpen(sessions[a.prepared], c),
           Recorded(a) /\ op = "submit" => c = a.challenge
    PROVE  CaptureInv'
<1>1. a.prepared \in DOMAIN sessions /\ a.prepared \notin work
  <2>1. Engaged(a)
    BY DEF Engaged, OpAt, OnSession, OnChallenge
  <2> QED BY <2>1 DEF AppInv, Owns, CaptureInv, None
<1>2. CallsOK' /\ RepliesOK' /\ Bounded' /\ FlowWaits'
  BY <1>1, CallMessages
<1>3. \A m \in calls' : m \in calls \/ (m.by = "flow" /\ m.s = a.prepared)
  BY DEF Request
<1>4. AppInv(app)' /\ DiskInv'
  BY <1>1, <1>3, AppMoves, DiskStays DEF CaptureInv, disk
<1> QED BY <1>2, <1>4 DEF CaptureInv, BoundsOK, bounds

LEMMA SuspendStep ==
    ASSUME CaptureInv, UNCHANGED <<sessions, disk, bounds>>, replies' \subseteq replies,
           FlowFree(calls, replies'), NEW b \in App,
           NEW op \in OnSession \ {"abort"}, NEW c \in Nat, Suspend(b, op, c),
           AppInv([b EXCEPT !.at = op]),
           op \in OnChallenge => HasChallenge(b.prepared, c),
           Recorded(b) /\ op = "start-challenge" => LatestOpen(sessions[b.prepared], c),
           Recorded(b) /\ op = "submit" => c = b.challenge
    PROVE  CaptureInv'
<1> DEFINE a == [b EXCEPT !.at = op]
<1>1. /\ a.at = op /\ a.prepared = b.prepared /\ a.recording = b.recording
      /\ a.challenge = b.challenge
  BY DEF App
<1>2. /\ app' = a /\ calls' = calls \cup {Request(op, a.prepared, c, "flow")}
  BY <1>1 DEF Suspend
<1>3. op = OpAt(a.at) /\ op \in OnSession
  BY <1>1 DEF OpAt, OnSession, OnChallenge
<1>4. AppInv(a) /\ (Recorded(a) <=> Recorded(b))
  BY <1>1 DEF Recorded
<1> HIDE DEF a
<1> QED BY <1>1, <1>2, <1>3, <1>4, CallStep

LEMMA AbortStep ==
    ASSUME CaptureInv, UNCHANGED <<sessions, disk, bounds>>, replies' \subseteq replies,
           FlowFree(calls, replies'), NEW b \in App,
           NEW at \in {"abort", "abort twice", "abort stop", "abort leave"}, Abort(b, at),
           AppInv([b EXCEPT !.at = at])
    PROVE  CaptureInv'
<1> DEFINE a == [b EXCEPT !.at = at]
<1>1. a.at = at /\ a.prepared = b.prepared
  BY DEF App
<1>2. /\ app' = a /\ calls' = calls \cup {Request("abort", a.prepared, None, "flow")}
      /\ AppInv(a)
  BY <1>1 DEF Abort
<1>3. /\ "abort" = OpAt(a.at) /\ "abort" \in OnSession /\ "abort" \notin OnChallenge
      /\ None \in Nat /\ "abort" \notin {"start-challenge", "submit"}
  BY <1>1 DEF OpAt, OnSession, OnChallenge, None
<1> HIDE DEF a
<1> QED BY <1>2, <1>3, CallStep

-----------------------------------------------------------------------------
(* The flow, from place to place.                                          *)

Quiets == {"idle", "locate", "relocate", "record", "window", "result", "finish", "stop",
           "save", "enqueue"}

LEMMA FreeAt ==
    ASSUME CaptureInv, app.at \in Quiets
    PROVE  FlowFree(calls, replies)
<1>1. OpAt(app.at) \notin {"inspection", "create"} \cup OnSession
  BY DEF OpAt, Quiets, OnSession, OnChallenge
<1> QED
  BY <1>1 DEF CaptureInv, CallsOK, RepliesOK, FlowWaits, CallOfFlow, ReplyToFlow, FlowFree,
              Requests, Replies

LEMMA LocateStep ==
    ASSUME CaptureInv, Locate
    PROVE  CaptureInv'
<1>1. FlowFree(calls, replies) /\ AppInv(app)
  BY FreeAt DEF Locate, Quiets, CaptureInv
<1>2. CASE Rest([app EXCEPT !.ui = "READY"])
  <2> DEFINE a == [app EXCEPT !.ui = "READY", !.at = "idle", !.job = "none"]
  <2>1. AppInv(a)
    BY <1>1 DEF Locate, AppInv, App, Placed, Owns, Tale, Packs, Recorded, Prepping, Engaged,
                BeforeCapture, Saving, Stopping, UiStates, LiveStates, Steps
  <2>2. app' = a /\ UNCHANGED calls
    BY <1>2 DEF Rest
  <2> QED BY <1>1, <2>1, <2>2, RestStep DEF Locate
<1>3. CASE Abort(app, "abort")
  <2> DEFINE a == [app EXCEPT !.at = "abort"]
  <2>1. AppInv(a)
    BY <1>1 DEF Locate, AppInv, App, Placed, Owns, Tale, Packs, Recorded, Prepping, Engaged,
                BeforeCapture, Saving, Stopping, Steps
  <2> QED BY <1>1, <1>3, <2>1, AbortStep DEF Locate, AppInv
<1> QED BY <1>2, <1>3 DEF Locate

\* A state of the app from which a challenge call may be made, or fail.
Fit(b) ==
    /\ b \in App /\ b.ui # "READY" /\ b.prepared \in 0 .. Len(sessions)
    /\ b.recording # None =>
          b.recording = b.prepared /\ b.prepared \notin work /\ Private(b.prepared)
    /\ Tale(b)

\* The flow is over, and the error is on the screen.
LEMMA FailedRest ==
    ASSUME NEW b \in App
    PROVE  LET a == [Failed(b) EXCEPT !.at = "idle", !.job = "none"] IN
           /\ a \in App /\ a.at = "idle" /\ a.ui = "ERROR" /\ a.recording = b.recording
           /\ a.prepared = b.prepared /\ a.challenge = b.challenge /\ a.timeline = b.timeline
<1> DEFINE f == Failed(b)
<1>1. /\ f \in App /\ f.ui = "ERROR" /\ f.recording = b.recording
      /\ f.prepared = b.prepared /\ f.challenge = b.challenge /\ f.timeline = b.timeline
  BY DEF Failed, App, UiStates, None
<1> HIDE DEF f
<1>2. LET a == [f EXCEPT !.at = "idle", !.job = "none"] IN
      /\ a \in App /\ a.at = "idle" /\ a.ui = f.ui /\ a.recording = f.recording
      /\ a.prepared = f.prepared /\ a.challenge = f.challenge /\ a.timeline = f.timeline
  BY <1>1 DEF App, Steps
<1> QED BY <1>1, <1>2 DEF f

LEMMA LetGo ==
    ASSUME NEW a \in App, a.recording = None, a.ui # "READY", a.at \in {"idle", "abort"},
           a.prepared \in 0 .. Len(sessions),
           Engaged(a) => a.prepared # None /\ a.prepared \notin work
    PROVE  AppInv(a)
BY DEF AppInv, Placed, Owns, Tale, Packs, Recorded, Prepping, BeforeCapture, Saving, Stopping, None

LEMMA FailStep ==
    ASSUME CaptureInv, UNCHANGED <<sessions, disk, bounds>>, replies' \subseteq replies,
           FlowFree(calls, replies'), NEW b, Fit(b), FailChallengeProtocol(b)
    PROVE  CaptureInv'
<1> DEFINE stopped == [b EXCEPT !.guard = FALSE]
<1>1. CASE b.recording = None
  <2> DEFINE a == [Failed(stopped) EXCEPT !.at = "idle", !.job = "none"]
  <2>2. app' = a /\ UNCHANGED calls
    BY <1>1 DEF FailChallengeProtocol, Rest
  <2>3. /\ stopped \in App /\ stopped.recording = None /\ stopped.prepared = b.prepared
    BY <1>1 DEF Fit, App
  <2>4. /\ a \in App /\ a.at = "idle" /\ a.ui = "ERROR" /\ a.recording = None
        /\ a.prepared = b.prepared
    <3> HIDE DEF stopped
    <3> QED BY <2>3, FailedRest
  <2> HIDE DEF a
  <2>1. AppInv(a)
    BY <2>4, LetGo DEF Fit, Engaged
  <2> QED BY <2>1, <2>2, RestStep
<1>2. CASE b.recording # None
  <2> DEFINE c == Released(stopped)
             a == [c EXCEPT !.at = "abort"]
  <2>1. AppInv(a)
    <3>1. /\ a \in App /\ a.recording = None /\ a.at = "abort"
          /\ a.ui = b.ui /\ a.prepared = b.prepared
      BY DEF Fit, Released, App, Steps, None, Films
    <3>2. b.prepared # None /\ b.prepared \notin work /\ b.prepared \in 0 .. Len(sessions)
      BY <1>2 DEF Fit
    <3> HIDE DEF a
    <3> QED BY <3>1, <3>2, LetGo DEF Fit
  <2>2. Abort(c, "abort") /\ c \in App
    BY <1>2 DEF FailChallengeProtocol, Fit, Released, App, None, Films
  <2> HIDE DEF c
  <2> QED BY <2>1, <2>2, AbortStep
<1> QED BY <1>1, <1>2

LEMMA BeginNextStep ==
    ASSUME CaptureInv, UNCHANGED <<sessions, disk, bounds>>, replies' \subseteq replies,
           FlowFree(calls, replies'), NEW b, Fit(b), BeginNext(b)
    PROVE  CaptureInv'
<1> DEFINE c == [b EXCEPT !.ui = "LOADING", !.last = "none"]
<1>1. Fit(c) /\ c.ui = "LOADING" /\ c.recording = b.recording /\ c.challenge = b.challenge
  BY DEF Fit, App, UiStates, LiveStates, Tale, Recorded
<1>2. CASE b.recording = None \/ b.challenge # None
  <2>1. FailChallengeProtocol(c)
    BY <1>2 DEF BeginNext
  <2> HIDE DEF c
  <2> QED BY <1>1, <2>1, FailStep
<1>3. CASE ~(b.recording = None \/ b.challenge # None)
  <2>1. Suspend(c, "next", None)
    BY <1>3 DEF BeginNext
  <2> HIDE DEF c
  <2> DEFINE a == [c EXCEPT !.at = "next"]
  <2>4. /\ a \in App /\ a.at = "next" /\ a.ui = "LOADING" /\ a.prepared = c.prepared
        /\ a.recording = c.recording /\ a.challenge = c.challenge /\ a.timeline = c.timeline
    BY <1>1 DEF Fit, App, Steps, Challenging
  <2>2. AppInv(a)
    <3> HIDE DEF a
    <3> QED
      BY <1>1, <1>3, <2>4 DEF Fit, AppInv, Placed, Owns, Tale, Packs, Recorded, Prepping, Engaged,
                              BeforeCapture, Saving, Stopping, None
  <2>3. "next" \in OnSession \ {"abort"} /\ "next" \notin OnChallenge /\ None \in Nat /\ c \in App
    BY <1>1 DEF OnSession, OnChallenge, None, Fit
  <2> QED BY <2>1, <2>2, <2>3, SuspendStep
<1> QED BY <1>2, <1>3

LEMMA RelocateStep ==
    ASSUME CaptureInv, Relocate
    PROVE  CaptureInv'
<1>1. FlowFree(calls, replies) /\ AppInv(app) /\ app \in App
  BY FreeAt DEF Relocate, Quiets, CaptureInv, AppInv
<1>2. CASE Suspend(app, "start-capture", None)
  <2>1. AppInv([app EXCEPT !.at = "start-capture"])
    BY <1>1 DEF Relocate, AppInv, App, Placed, Owns, Tale, Packs, Recorded, Prepping, Engaged,
                BeforeCapture, Saving, Stopping, Steps, Starting
  <2>2. "start-capture" \in OnSession \ {"abort"} /\ "start-capture" \notin OnChallenge
        /\ None \in Nat
    BY DEF OnSession, OnChallenge, None
  <2> QED BY <1>1, <1>2, <2>1, <2>2, SuspendStep DEF Relocate
<1>3. CASE Abort(app, "abort")
  <2>1. AppInv([app EXCEPT !.at = "abort"])
    BY <1>1 DEF Relocate, AppInv, App, Placed, Owns, Tale, Packs, Recorded, Prepping, Engaged,
                BeforeCapture, Saving, Stopping, Steps
  <2> QED BY <1>1, <1>3, <2>1, AbortStep DEF Relocate
<1> QED BY <1>2, <1>3 DEF Relocate

LEMMA RecordStep ==
    ASSUME CaptureInv, Record
    PROVE  CaptureInv'
<1>1. FlowFree(calls, replies) /\ AppInv(app) /\ app \in App
  BY FreeAt DEF Record, Quiets, CaptureInv, AppInv
<1>2. CASE BeginNext(CaptureBegun(app))
  <2> DEFINE b == CaptureBegun(app)
  <2>0. app.prepared \in Nat /\ None \in Nat /\ << >> \in Timelines
    BY <1>1 DEF App, None, Timelines
  <2>1. /\ b.recording = app.prepared /\ b.challenge = None /\ b.timeline = << >>
        /\ b.prepared = app.prepared /\ b.ui = app.ui
        /\ b \in App
    BY <1>1, <2>0 DEF CaptureBegun, App, Timelines, Entry, Films
  <2>2. /\ Prepping(app) /\ Engaged(app) /\ app.ui # "READY"
    BY <1>1 DEF Record, Prepping, Engaged, BeforeCapture, AppInv, Placed
  <2>3. Row(app.prepared) = << >>
    BY <1>1, <2>2 DEF AppInv, Owns
  <2> HIDE DEF b
  <2>4. Tale(b)
    BY <2>1, <2>3 DEF Tale, TellsBut, Row
  <2>5. Fit(b)
    BY <1>1, <2>1, <2>2, <2>4 DEF Fit, AppInv, Owns
  <2> QED BY <1>1, <1>2, <2>5, BeginNextStep DEF Record, b
<1>3. CASE Abort(app, "abort twice")
  <2>1. AppInv([app EXCEPT !.at = "abort twice"])
    BY <1>1 DEF Record, AppInv, App, Placed, Owns, Tale, Packs, Recorded, Prepping, Engaged,
                BeforeCapture, Saving, Stopping, Steps, Starting
  <2> QED BY <1>1, <1>3, <2>1, AbortStep DEF Record
<1> QED BY <1>2, <1>3 DEF Record

LEMMA Fits ==
    ASSUME NEW a, AppInv(a), NEW b \in App, b.ui # "READY", b.prepared = a.prepared,
           b.recording = a.recording, b.challenge = a.challenge, b.timeline = a.timeline
    PROVE  Fit(b)
<1>1. a.recording # None => Engaged(a)
  BY DEF Engaged
<1> QED BY <1>1 DEF AppInv, Owns, Tale, Recorded, Fit

\* The challenge that is shown may be asked about.
LEMMA ChallengeIsThere ==
    ASSUME CaptureInv, app.recording # None, app.challenge # None
    PROVE  HasChallenge(app.prepared, app.challenge)
<1>1. app.recording = app.prepared /\ app.prepared \in DOMAIN sessions
  BY DEF CaptureInv, AppInv, Owns, None
<1>2. Row(app.prepared) \in Seq(Challenge)
  <2>1. sessions[app.prepared] \in Session
    BY <1>1 DEF CaptureInv
  <2> QED BY <2>1, SessionParts DEF Row
<1>3. ~Over(sessions[app.prepared]) => app.challenge = Len(Row(app.prepared))
  BY <1>1 DEF CaptureInv, AppInv, Tale, Recorded
<1> QED BY <1>2, <1>3 DEF HasChallenge, CaptureInv, AppInv, App, None

LEMMA WindowStep ==
    ASSUME CaptureInv, Window
    PROVE  CaptureInv'
<1> DEFINE b == [app EXCEPT !.ui = "CHECKING"]
<1>1. FlowFree(calls, replies) /\ AppInv(app) /\ app \in App
  BY FreeAt DEF Window, Quiets, CaptureInv, AppInv
<1>2. /\ b \in App /\ b.ui = "CHECKING" /\ b.prepared = app.prepared /\ b.recording = app.recording
      /\ b.challenge = app.challenge /\ b.timeline = app.timeline
  BY <1>1 DEF App, UiStates, LiveStates
<1>3. Fit(b)
  BY <1>1, <1>2, Fits
<1>4. CASE FailChallengeProtocol(b)
  <2> HIDE DEF b
  <2> QED BY <1>1, <1>3, <1>4, FailStep DEF Window
<1>5. CASE app.recording # None /\ app.challenge # None /\ Suspend(b, "submit", app.challenge)
  <2> DEFINE a == [b EXCEPT !.at = "submit"]
  <2>4. /\ a \in App /\ a.at = "submit" /\ a.ui = "CHECKING" /\ a.prepared = app.prepared
        /\ a.recording = app.recording /\ a.challenge = app.challenge
        /\ a.timeline = app.timeline /\ a.job = app.job
    BY <1>1 DEF App, Steps, Challenging, UiStates, LiveStates
  <2>1. AppInv(a)
    <3> HIDE DEF a
    <3> QED
      BY <1>1, <1>5, <2>4 DEF Window, AppInv, Placed, Owns, Tale, Packs, Recorded, Prepping, Engaged,
                              BeforeCapture, Saving, Stopping
  <2>2. HasChallenge(app.prepared, app.challenge)
    BY <1>5, ChallengeIsThere
  <2>3. "submit" \in OnSession \ {"abort"} /\ app.challenge \in Nat
    BY <1>1 DEF OnSession, OnChallenge, App
  <2> HIDE DEF b
  <2> QED BY <1>1, <1>2, <1>5, <2>1, <2>2, <2>3, SuspendStep DEF Window
<1> QED BY <1>4, <1>5 DEF Window

LEMMA ShowResultStep ==
    ASSUME CaptureInv, ShowResult
    PROVE  CaptureInv'
<1>1. FlowFree(calls, replies) /\ AppInv(app) /\ app \in App
  BY FreeAt DEF ShowResult, Quiets, CaptureInv, AppInv
<1>2. CASE app.last = "over"
  <2> DEFINE a == [app EXCEPT !.ui = "FINISHING", !.last = "none", !.guard = FALSE, !.at = "finish"]
  <2>2. app' = a /\ UNCHANGED calls
    BY <1>2 DEF ShowResult
  <2>3. /\ a \in App /\ a.at = "finish" /\ a.ui = "FINISHING" /\ a.job = app.job
        /\ a.prepared = app.prepared /\ a.recording = app.recording
        /\ a.challenge = app.challenge /\ a.timeline = app.timeline
    BY <1>1 DEF App, Steps, Challenging, UiStates, LiveStates
  <2> HIDE DEF a
  <2>1. AppInv(a)
    BY <1>1, <2>3 DEF ShowResult, AppInv, Placed, Owns, Tale, Packs, Recorded, Prepping, Engaged,
                BeforeCapture, Saving, Stopping
  <2> QED BY <1>1, <2>1, <2>2, RestStep DEF ShowResult
<1>3. CASE app.last # "over"
  <2>1. Fit(app)
    BY <1>1, Fits DEF ShowResult, AppInv, Placed
  <2> QED BY <1>1, <1>3, <2>1, BeginNextStep DEF ShowResult
<1> QED BY <1>2, <1>3

LEMMA FinishStep ==
    ASSUME CaptureInv, Finish
    PROVE  CaptureInv'
<1>1. /\ FlowFree(calls, replies) /\ AppInv(app) /\ app \in App
      /\ UNCHANGED <<sessions, calls, replies, disk, bounds>>
  BY FreeAt DEF Finish, Quiets, CaptureInv, AppInv
<1> DEFINE a == [app EXCEPT !.at = "stop"]
<1>2. AppInv(a)
  BY <1>1 DEF Finish, AppInv, App, Placed, Owns, Tale, Packs, Recorded, Prepping, Engaged,
              BeforeCapture, Saving, Stopping, Steps
<1>3. app' = a
  BY DEF Finish
<1> HIDE DEF a
<1> QED BY <1>1, <1>2, <1>3, RestStep

LEMMA OwnedMoves ==
    ASSUME sessions' = sessions, work' = work, \A m \in calls' : m \in calls \/ m.by = "flow",
           NEW a, app' = a, a \in App, Placed(a), Owns(a), Tale(a), Packs(app)'
    PROVE  AppInv(app)'
<1>1. ASSUME NEW s, Private(s) PROVE Private(s)'
  BY <1>1 DEF Private
<1>2. Owns(app)'
  BY <1>1 DEF Owns, Prepping, Engaged, Row
<1> QED BY <1>2 DEF AppInv, Tale, TellsBut, Recorded, Row, Placed, Over

LEMMA WithinBound ==
    ASSUME CaptureInv
    PROVE  Len(sessions) <= MaxSessions /\ DOMAIN sessions \subseteq 1 .. MaxSessions
<1>1. Cardinality(Creating(calls)) \in Nat
  BY FS_Subset, FS_CardinalityType DEF CaptureInv, CallsOK, Creating
<1>2. Len(sessions) \in Nat /\ DOMAIN sessions = 1 .. Len(sessions)
  BY DEF CaptureInv
<1> QED BY <1>1, <1>2, CaptureAssumption DEF CaptureInv, Bounded

LEMMA PackageStep ==
    ASSUME CaptureInv, Package
    PROVE  CaptureInv'
<1> DEFINE s == app.recording
<1>1. /\ FlowFree(calls, replies) /\ AppInv(app) /\ app \in App /\ app.at = "stop"
      /\ UNCHANGED <<sessions, replies, pending, work, bounds>>
  BY FreeAt DEF Package, Quiets, CaptureInv, AppInv
<1>2. /\ app.recording # None /\ app.recording = app.prepared /\ s \in DOMAIN sessions
      /\ s \notin work /\ app.ui # "READY" /\ app.challenge = None /\ app.job # "start"
  BY <1>1 DEF AppInv, Owns, Placed, Engaged, Stopping, CaptureInv, None
<1>3. CASE Abort(app, "abort stop") /\ UNCHANGED packaged
  <2>1. AppInv([app EXCEPT !.at = "abort stop"])
    BY <1>1 DEF AppInv, App, Placed, Owns, Tale, Packs, Recorded, Prepping, Engaged,
                BeforeCapture, Saving, Stopping, Steps
  <2> QED BY <1>1, <1>3, <2>1, AbortStep DEF disk
<1>4. CASE /\ packaged' = [packaged EXCEPT ![app.recording] = {app.timeline}]
           /\ Suspend(app, "capture-complete", None)
  <2> DEFINE a == [app EXCEPT !.at = "capture-complete"]
  <2>1. /\ a \in App /\ a.at = "capture-complete" /\ a.ui = app.ui /\ a.job = app.job
        /\ a.prepared = app.prepared /\ a.recording = app.recording
        /\ a.challenge = app.challenge /\ a.timeline = app.timeline
    BY <1>1 DEF App, Steps, Stopping
  <2>2. app' = a /\ calls' = calls \cup {Request("capture-complete", app.prepared, None, "flow")}
    BY <1>4 DEF Suspend
  <2> HIDE DEF a
  <2>3. /\ "capture-complete" \in OnSession /\ "capture-complete" \notin OnChallenge
        /\ None \in Nat /\ "capture-complete" = OpAt(a.at)
        /\ "capture-complete" \notin {"start-challenge", "submit"}
    BY <2>1 DEF OnSession, OnChallenge, None, OpAt
  <2>4. CallsOK' /\ RepliesOK' /\ Bounded' /\ FlowWaits'
    BY <1>1, <1>2, <2>1, <2>2, <2>3, CallMessages
  <2>5. /\ s \in 1 .. MaxSessions /\ DOMAIN packaged = 1 .. MaxSessions
    BY <1>2, WithinBound DEF CaptureInv, DiskInv
  <2>6. packaged'[s] = {app.timeline} /\ \A t \in 1 .. MaxSessions \ {s} : packaged'[t] = packaged[t]
    BY <1>4, <2>5
  <2>7. Packs(app)'
    BY <1>2, <2>1, <2>2, <2>6 DEF Packs, Saving
  <2>8. \A m \in calls' : m \in calls \/ (m.by = "flow" /\ m.s = s)
    BY <1>2, <2>2 DEF Request
  <2>9. AppInv(app)'
    <3>1. Placed(a)
      BY <1>1, <1>2, <2>1 DEF Placed, BeforeCapture, Saving, Stopping, AppInv
    <3>2. Owns(a) /\ Tale(a)
      BY <1>1, <1>2, <2>1 DEF AppInv, Owns, Tale, Recorded, Prepping, BeforeCapture
    <3> QED BY <1>1, <2>1, <2>2, <2>7, <2>8, <3>1, <3>2, OwnedMoves
  <2>10. DiskInv'
    <3>1. ASSUME NEW t \in work PROVE HandedOver(t)'
      <4>1. HandedOver(t) /\ t # s
        BY <1>2 DEF CaptureInv, DiskInv
      <4>2. t \in 1 .. MaxSessions
        BY <4>1, WithinBound DEF HandedOver
      <4> QED BY <1>1, <2>6, <2>8, <4>1, <4>2 DEF HandedOver, Untouched, Tells
    <3> QED BY <1>1, <1>4, <2>5, <2>6, <3>1 DEF CaptureInv, DiskInv
  <2> QED BY <1>1, <2>4, <2>9, <2>10 DEF CaptureInv, BoundsOK, bounds
<1> QED BY <1>3, <1>4 DEF Package

LEMMA SavePendingStep ==
    ASSUME CaptureInv, SavePending
    PROVE  CaptureInv'
<1> DEFINE s == app.recording
           a == [app EXCEPT !.at = "enqueue"]
<1>1. /\ FlowFree(calls, replies) /\ AppInv(app) /\ app \in App /\ app.at = "save"
      /\ UNCHANGED <<sessions, calls, replies, packaged, work, bounds>>
      /\ pending' = pending \cup {app.recording} /\ app' = a
  BY FreeAt DEF SavePending, Quiets, CaptureInv, AppInv
<1>2. /\ s # None /\ s = app.prepared /\ s \in DOMAIN sessions
  BY <1>1 DEF AppInv, Owns, Placed, Saving, CaptureInv, None
<1>3. /\ a \in App /\ a.at = "enqueue" /\ a.ui = app.ui /\ a.job = app.job
      /\ a.prepared = app.prepared /\ a.recording = app.recording
      /\ a.challenge = app.challenge /\ a.timeline = app.timeline
  BY <1>1 DEF App, Steps, Saving
<1> HIDE DEF a
<1>4. CallsOK' /\ RepliesOK' /\ FlowWaits' /\ Bounded'
  BY <1>1, Quiet DEF FlowFree
<1>5. AppInv(app)'
  <2>1. Packs(app)'
    BY <1>1, <1>3 DEF AppInv, Packs, Saving
  <2>2. Placed(a) /\ Owns(a) /\ Tale(a)
    BY <1>1, <1>3 DEF AppInv, Placed, Owns, Tale, Recorded, Prepping, BeforeCapture, Engaged,
                      Saving, Stopping
  <2> QED BY <1>1, <1>3, <2>1, <2>2, OwnedMoves
<1>6. DiskInv'
  <2>1. ASSUME NEW t \in work PROVE HandedOver(t)'
    <3>1. HandedOver(t)
      BY DEF CaptureInv, DiskInv
    <3> QED BY <1>1, <3>1 DEF HandedOver, Untouched, Tells
  <2> QED BY <1>1, <1>2, <2>1 DEF CaptureInv, DiskInv
<1> QED BY <1>1, <1>4, <1>5, <1>6 DEF CaptureInv, BoundsOK, bounds

\* What the worker is given is complete.
LEMMA EnqueueStep ==
    ASSUME CaptureInv, Enqueue
    PROVE  CaptureInv'
<1> DEFINE s == app.recording
           a == [app EXCEPT !.recording = None, !.ui = "CAPTURED", !.at = "idle", !.job = "none"]
<1>1. /\ FlowFree(calls, replies) /\ AppInv(app) /\ app \in App /\ app.at = "enqueue"
      /\ UNCHANGED <<sessions, calls, replies, packaged, pending, bounds>>
      /\ work' = work \cup {s} /\ app' = a
  BY FreeAt DEF Enqueue, Rest, Quiets, CaptureInv, AppInv
<1>2. /\ s # None /\ s = app.prepared /\ s \in DOMAIN sessions /\ app.challenge = None
      /\ Private(s)
  BY <1>1 DEF AppInv, Owns, Placed, Saving, CaptureInv, None
<1>3. /\ a \in App /\ a.at = "idle" /\ a.ui = "CAPTURED" /\ a.recording = None
      /\ a.prepared = app.prepared
  BY <1>1 DEF App, Steps, UiStates, None
<1> HIDE DEF a
<1>4. CallsOK' /\ RepliesOK' /\ FlowWaits' /\ Bounded'
  BY <1>1, Quiet DEF FlowFree
<1>5. AppInv(app)'
  <2>1. app' = a /\ a.prepared \in 0 .. Len(sessions')
    BY <1>1, <1>3 DEF AppInv, Owns
  <2> QED BY <1>3, <2>1 DEF AppInv, Placed, Owns, Tale, Packs, Recorded, Prepping, Engaged,
                            BeforeCapture, Saving, Stopping
<1>6. HandedOver(s)
  <2>1. /\ sessions[s].status = "CAPTURE_COMPLETED" /\ packaged[s] = {app.timeline}
        /\ s \in pending
    BY <1>1 DEF AppInv, Packs, Saving
  <2>2. TellsBut(app.timeline, sessions[s], None)
    BY <1>1, <1>2, <2>1 DEF AppInv, Tale, Recorded, Over, EndedStates
  <2>3. sessions[s].challenges \in Seq(Challenge)
    <3>1. sessions[s] \in Session
      BY <1>2 DEF CaptureInv
    <3> QED BY <3>1, SessionParts
  <2>4. \A c \in DOMAIN sessions[s].challenges : c # None
    BY <2>3 DEF None
  <2>5. Tells(app.timeline, s)
    BY <2>2, <2>4 DEF Tells, TellsBut
  <2>6. Untouched(s)
    BY <1>1, <1>2 DEF FlowFree, Private, Untouched
  <2> QED BY <1>2, <2>1, <2>5, <2>6 DEF HandedOver
<1>7. DiskInv'
  <2>1. ASSUME NEW t \in work' PROVE HandedOver(t)'
    <3>1. HandedOver(t)
      BY <1>1, <1>6 DEF CaptureInv, DiskInv
    <3> QED BY <1>1, <3>1 DEF HandedOver, Untouched, Tells
  <2> QED BY <1>1, <2>1 DEF CaptureInv, DiskInv
<1> QED BY <1>1, <1>4, <1>5, <1>7 DEF CaptureInv, BoundsOK, bounds

-----------------------------------------------------------------------------
(* Calls of which some were forgotten by the one who waited for them.      *)

Kin(D) ==
    /\ D \subseteq Requests /\ IsFiniteSet(D)
    /\ Cardinality(Creating(D)) <= Cardinality(Creating(calls))
    /\ \A m \in D : /\ m.by # "flow"
                    /\ \E n \in calls : n.op = m.op /\ n.s = m.s /\ n.c = m.c

LEMMA ImageIsSmaller ==
    ASSUME NEW S, IsFiniteSet(S), NEW f, NEW T, T = {f[x] : x \in S}
    PROVE  /\ IsFiniteSet(T) /\ Cardinality(T) <= Cardinality(S)
           /\ Cardinality(T) \in Nat /\ Cardinality(S) \in Nat
<1> DEFINE g == [x \in S |-> f[x]]
<1>1. g \in Surjection(S, T)
  BY DEF Surjection
<1> QED BY <1>1, FS_Surjection, FS_CardinalityType

LEMMA ImageIsKin ==
    ASSUME CaptureInv, NEW f, NEW D, D = {f[m] : m \in calls},
           \A m \in calls : /\ f[m] \in Requests /\ f[m].by # "flow"
                            /\ f[m].op = m.op /\ f[m].s = m.s /\ f[m].c = m.c
    PROVE  Kin(D)
<1>1. IsFiniteSet(calls) /\ IsFiniteSet(Creating(calls))
  BY FS_Subset DEF CaptureInv, CallsOK, Creating
<1>2. IsFiniteSet(D)
  BY <1>1, ImageIsSmaller
<1>3. Creating(D) = {f[m] : m \in Creating(calls)}
  BY DEF Creating
<1>4. Cardinality(Creating(D)) <= Cardinality(Creating(calls))
  BY <1>1, <1>3, ImageIsSmaller
<1> QED BY <1>2, <1>4 DEF Kin

LEMMA OrphansAreKin ==
    ASSUME CaptureInv
    PROVE  Kin(Orphaned(calls))
<1> DEFINE by(m) == IF m.by = "flow" THEN "nobody" ELSE m.by
           f == [m \in calls |-> [m EXCEPT !.by = by(m)]]
<1>1. Orphaned(calls) = {f[m] : m \in calls}
  BY DEF Orphaned
<1>2. ASSUME NEW m \in calls
      PROVE  /\ f[m] \in Requests /\ f[m].by # "flow"
             /\ f[m].op = m.op /\ f[m].s = m.s /\ f[m].c = m.c
  <2>1. m \in Requests
    BY DEF CaptureInv, CallsOK
  <2> QED BY <2>1 DEF Requests, Waiters
<1> HIDE DEF f
<1> QED BY <1>1, <1>2, ImageIsKin

LEMMA ForgottenAreKin ==
    ASSUME CaptureInv
    PROVE  Kin({[m EXCEPT !.by = "nobody"] : m \in calls})
<1> DEFINE f == [m \in calls |-> [m EXCEPT !.by = "nobody"]]
<1>1. {[m EXCEPT !.by = "nobody"] : m \in calls} = {f[m] : m \in calls}
  OBVIOUS
<1>2. ASSUME NEW m \in calls
      PROVE  /\ f[m] \in Requests /\ f[m].by # "flow"
             /\ f[m].op = m.op /\ f[m].s = m.s /\ f[m].c = m.c
  <2>1. m \in Requests
    BY DEF CaptureInv, CallsOK
  <2> QED BY <2>1 DEF Requests, Waiters
<1> HIDE DEF f
<1> QED BY <1>1, <1>2, ImageIsKin

LEMMA CallsAreKin ==
    ASSUME CaptureInv, \A m \in calls : m.by # "flow"
    PROVE  Kin(calls)
<1>1. Cardinality(Creating(calls)) \in Nat
  BY FS_Subset, FS_CardinalityType DEF CaptureInv, CallsOK, Creating
<1> QED BY <1>1 DEF Kin, CaptureInv, CallsOK

\* A session asked for is counted.
LEMMA CreatingMore ==
    ASSUME CaptureInv, NEW D, Kin(D), NEW m
    PROVE  /\ Cardinality(Creating(D)) \in Nat /\ Cardinality(Creating(D \cup {m})) \in Nat
           /\ Cardinality(Creating(calls)) \in Nat
           /\ Cardinality(Creating(D)) <= Cardinality(Creating(calls))
           /\ Cardinality(Creating(D \cup {m})) <= Cardinality(Creating(calls)) + 1
           /\ m.op \notin {"create", "inspection"} => Creating(D \cup {m}) = Creating(D)
<1>1. IsFiniteSet(Creating(D)) /\ IsFiniteSet(Creating(calls))
  BY FS_Subset DEF Kin, CaptureInv, CallsOK, Creating
<1>2. CASE m.op \in {"create", "inspection"}
  <2>1. Creating(D \cup {m}) = Creating(D) \cup {m}
    BY <1>2 DEF Creating
  <2>2. /\ Cardinality(Creating(D \cup {m})) \in Nat
        /\ Cardinality(Creating(D \cup {m})) <= Cardinality(Creating(D)) + 1
    <3>1. IsFiniteSet(Creating(D) \cup {m})
      BY <1>1, FS_AddElement, Zenon
    <3>2. Cardinality(Creating(D) \cup {m}) \in {Cardinality(Creating(D)), Cardinality(Creating(D)) + 1}
      BY <1>1, FS_AddElement
    <3>3. Cardinality(Creating(D)) \in Nat
      BY <1>1, FS_CardinalityType, Zenon
    <3> QED BY <2>1, <3>2, <3>3
  <2> QED BY <1>1, <1>2, <2>2, FS_CardinalityType DEF Kin
<1>3. CASE m.op \notin {"create", "inspection"}
  <2>1. Creating(D \cup {m}) = Creating(D)
    BY <1>3 DEF Creating
  <2> QED BY <1>1, <2>1, FS_CardinalityType DEF Kin
<1> QED BY <1>2, <1>3

\* Calls that nobody of the flow waits for, and one more about a session, or none.
LEMMA KinMessages ==
    ASSUME CaptureInv, sessions' = sessions, replies' \subseteq replies, NEW D, Kin(D),
           FlowFree(D, replies'),
           \/ calls' = D
           \/ \E m \in Requests : /\ calls' = D \cup {m} /\ m.by # "flow" /\ m.op = "abort"
                                  /\ m.s \in DOMAIN sessions
    PROVE  CallsOK' /\ RepliesOK' /\ FlowWaits' /\ Bounded'
<1>1. /\ Len(sessions) \in Nat /\ MaxSessions \in Nat /\ "abort" \notin OnChallenge
  BY CaptureAssumption DEF CaptureInv, OnChallenge
<1>2. RepliesOK'
  BY DEF CaptureInv, RepliesOK, HasChallenge, Row, Over
<1>3. \A m \in D : /\ m.op \in OnSession => m.s \in DOMAIN sessions
                   /\ m.op \in OnChallenge => HasChallenge(m.s, m.c)
  BY DEF CaptureInv, CallsOK, Kin
<1>4. CASE calls' = D
  <2>1. CallsOK' /\ FlowWaits'
    BY <1>3, <1>4 DEF CallsOK, Kin, FlowWaits, FlowFree, HasChallenge, Row, Over
  <2>2. Bounded'
    <3>1. /\ Cardinality(Creating(D)) \in Nat /\ Cardinality(Creating(calls)) \in Nat
          /\ Cardinality(Creating(D)) <= Cardinality(Creating(calls))
      BY CreatingMore, Zenon
    <3>2. Len(sessions) + Cardinality(Creating(calls)) <= MaxSessions
      BY DEF CaptureInv, Bounded
    <3> QED BY <1>1, <1>4, <3>1, <3>2 DEF Bounded, FlowFree
  <2> QED BY <1>2, <2>1, <2>2
<1>5. ASSUME NEW m \in Requests, calls' = D \cup {m}, m.by # "flow", m.op = "abort",
             m.s \in DOMAIN sessions
      PROVE  CallsOK' /\ FlowWaits' /\ Bounded'
  <2>1. CallsOK'
    <3>1. IsFiniteSet(calls')
      BY <1>5, FS_AddElement DEF Kin
    <3>2. \A n \in calls' : /\ n.op \in OnSession => n.s \in DOMAIN sessions'
                            /\ n.op \in OnChallenge => HasChallenge(n.s, n.c)'
      BY <1>1, <1>3, <1>5 DEF HasChallenge, Row, Over
    <3> QED BY <1>5, <3>1, <3>2 DEF CallsOK, Kin
  <2>2. FlowWaits'
    BY <1>5 DEF FlowWaits, FlowFree
  <2>3. Bounded'
    BY <1>1, <1>5, CreatingMore DEF CaptureInv, Bounded, FlowFree
  <2> QED BY <2>1, <2>2, <2>3
<1> QED BY <1>2, <1>4, <1>5

\* The flow asks whether the inspection is ready, or for a session.
LEMMA AskMessages ==
    ASSUME CaptureInv, sessions' = sessions, replies' \subseteq replies, NEW D, Kin(D),
           FlowFree(D, replies'), NEW op \in {"inspection", "create"}, NEW s \in Nat,
           calls' = D \cup {Request(op, s, None, "flow")}, OpAt(app'.at) = op,
           Len(sessions) + Cardinality(Creating(calls)) < MaxSessions
    PROVE  CallsOK' /\ RepliesOK' /\ FlowWaits' /\ Bounded'
<1> DEFINE m == Request(op, s, None, "flow")
<1>1. /\ m.op = op /\ m.s = s /\ m.by = "flow" /\ op \notin OnSession /\ op \notin OnChallenge
      /\ m \in Requests /\ op \notin {"start-challenge", "submit"}
  BY DEF Request, OnSession, OnChallenge, Requests, Waiters, None
<1> HIDE DEF m
<1>2. calls' = D \cup {m} /\ Len(sessions) \in Nat /\ MaxSessions \in Nat
  BY CaptureAssumption DEF m, CaptureInv
<1>3. RepliesOK'
  BY DEF CaptureInv, RepliesOK, HasChallenge, Row, Over
<1>4. CallsOK'
  <2>1. IsFiniteSet(calls')
    BY <1>2, FS_AddElement DEF Kin
  <2>2. \A n \in calls' : /\ n.op \in OnSession => n.s \in DOMAIN sessions'
                          /\ n.op \in OnChallenge => HasChallenge(n.s, n.c)'
    BY <1>1, <1>2 DEF CaptureInv, CallsOK, Kin, HasChallenge, Row, Over
  <2> QED BY <1>1, <1>2, <2>1, <2>2 DEF CallsOK, Kin
<1>5. FlowWaits'
  <2>1. CallOfFlow(m)'
    BY <1>1, <1>2 DEF CallOfFlow, FlowFree
  <2> QED BY <1>2, <2>1 DEF FlowWaits, FlowFree
<1>6. Bounded'
  <2>1. /\ Cardinality(Creating(calls')) \in Nat /\ Cardinality(Creating(calls)) \in Nat
        /\ Cardinality(Creating(calls')) <= Cardinality(Creating(calls)) + 1
    BY <1>2, CreatingMore, Zenon
  <2> QED BY <1>2, <2>1 DEF Bounded, FlowFree
<1> QED BY <1>3, <1>4, <1>5, <1>6

-----------------------------------------------------------------------------
(* Answers to the flow.                                                    *)

LEMMA AnswerHere ==
    ASSUME CaptureInv, NEW r \in replies, Receive(r)
    PROVE  /\ replies' = replies \ {r} /\ FlowFree(calls, replies')
           /\ ReplyToFlow(r) /\ r.op = OpAt(app.at) /\ r \in Replies
           /\ AppInv(app) /\ app \in App
           /\ UNCHANGED <<sessions, disk, bounds>>
<1>1. ReplyToFlow(r)
  BY DEF Receive, CaptureInv, FlowWaits
<1>2. \A m \in calls : m.by # "flow"
  BY DEF Receive, CaptureInv, FlowWaits, CallOfFlow
<1> QED
  BY <1>1, <1>2 DEF Receive, FlowFree, ReplyToFlow, CaptureInv, RepliesOK, AppInv

LEMMA PreparedStep ==
    ASSUME CaptureInv, NEW r \in replies, Receive(r), Prepared(r)
    PROVE  CaptureInv'
<1>1. /\ replies' = replies \ {r} /\ FlowFree(calls, replies')
      /\ ReplyToFlow(r) /\ r.op = OpAt(app.at) /\ AppInv(app) /\ app \in App
      /\ UNCHANGED <<sessions, disk, bounds>>
  BY AnswerHere
<1>2. app.at = r.op /\ app.at \in {"inspection", "create"} /\ app.recording = None /\ app.ui # "READY"
  BY <1>1 DEF Prepared, OpAt, AppInv, Placed
<1>3. CASE Rest(Failed(app))
  <2> DEFINE a == [Failed(app) EXCEPT !.at = "idle", !.job = "none"]
  <2>1. app' = a /\ UNCHANGED calls
    BY <1>3 DEF Rest
  <2>2. /\ a \in App /\ a.at = "idle" /\ a.ui = "ERROR" /\ a.recording = None
        /\ a.prepared = app.prepared
    BY <1>1, <1>2, FailedRest
  <2> HIDE DEF a
  <2>3. AppInv(a)
    BY <1>1, <2>2, LetGo DEF AppInv, Owns, Engaged
  <2> QED BY <1>1, <2>1, <2>3, RestStep
<1>4. CASE r.op = "inspection" /\ Suspend(app, "create", None)
  <2> DEFINE a == [app EXCEPT !.at = "create"]
  <2>1. /\ app' = a /\ calls' = calls \cup {Request("create", app.prepared, None, "flow")}
    BY <1>4 DEF Suspend
  <2>2. /\ a \in App /\ a.at = "create" /\ a.ui = app.ui /\ a.recording = None
        /\ a.prepared = app.prepared /\ a.challenge = app.challenge
    BY <1>1, <1>2 DEF App, Steps, Preparing
  <2> HIDE DEF a
  <2>3. Len(sessions) + Cardinality(Creating(calls)) < MaxSessions
    BY <1>4 DEF CaptureInv, Bounded, Receive
  <2>4. CallsOK' /\ RepliesOK' /\ FlowWaits' /\ Bounded'
    <3>1. OpAt(app'.at) = "create" /\ app.prepared \in Nat
      BY <1>1, <2>1, <2>2 DEF OpAt, App
    <3>2. Kin(calls) /\ replies' \subseteq replies
      BY <1>1, CallsAreKin DEF FlowFree
    <3> QED BY <1>1, <2>1, <2>3, <3>1, <3>2, AskMessages
  <2>5. AppInv(a)
    BY <1>1, <1>2, <2>2 DEF AppInv, Placed, Owns, Tale, Packs, Recorded, Prepping, Engaged,
                            BeforeCapture, Saving, Stopping
  <2>6. /\ \A m \in calls' : m \in calls \/ m.by = "flow"
        /\ \A m \in calls' : m \in calls \/ m.op \notin OnSession
    BY <2>1 DEF Request, OnSession, OnChallenge
  <2>7. AppInv(app)' /\ DiskInv'
    BY <1>1, <2>1, <2>5, <2>6, AppMoves, DiskStays DEF CaptureInv, disk
  <2> QED BY <1>1, <2>4, <2>7 DEF CaptureInv, BoundsOK, bounds
<1>5. CASE /\ r.op = "create" /\ r.answer = "ok" /\ UNCHANGED calls
           /\ app' = [app EXCEPT !.prepared = r.s, !.at = "locate"]
  <2> DEFINE a == [app EXCEPT !.prepared = r.s, !.at = "locate"]
  <2>1. r.s \in DOMAIN sessions /\ r.s \notin work /\ Row(r.s) = << >> /\ Untouched(r.s)
    BY <1>1, <1>5 DEF ReplyToFlow, CaptureInv, RepliesOK
  <2>2. r.s \in Nat \ {0} /\ r.s \in 0 .. Len(sessions)
    BY <2>1 DEF CaptureInv
  <2>3. /\ a \in App /\ a.at = "locate" /\ a.ui = app.ui /\ a.recording = None
        /\ a.prepared = r.s
    BY <1>1, <1>2, <2>2 DEF App, Steps, Preparing
  <2>4. app' = a
    BY <1>5
  <2> HIDE DEF a
  <2>5. AppInv(a)
    BY <1>2, <2>1, <2>2, <2>3
       DEF AppInv, Placed, Owns, Tale, Packs, Recorded, Prepping, Engaged, Private, Untouched,
           BeforeCapture, Saving, Stopping, None
  <2> QED BY <1>1, <1>5, <2>4, <2>5, RestStep
<1> QED BY <1>3, <1>4, <1>5 DEF Prepared

LEMMA StartedStep ==
    ASSUME CaptureInv, NEW r \in replies, Receive(r), Started(r)
    PROVE  CaptureInv'
<1>1. /\ replies' = replies \ {r} /\ FlowFree(calls, replies')
      /\ r.op = OpAt(app.at) /\ AppInv(app) /\ app \in App
      /\ UNCHANGED <<sessions, disk, bounds>>
  BY AnswerHere
<1>2. app.at = "start-capture"
  BY <1>1 DEF Started, OpAt
<1>3. CASE app' = [app EXCEPT !.at = "record"] /\ UNCHANGED calls
  <2>1. AppInv([app EXCEPT !.at = "record"])
    BY <1>1, <1>2 DEF AppInv, App, Placed, Owns, Tale, Packs, Recorded, Prepping, Engaged,
                      BeforeCapture, Saving, Stopping, Steps, Starting
  <2> QED BY <1>1, <1>3, <2>1, RestStep
<1>4. CASE Abort(app, "abort")
  <2>1. AppInv([app EXCEPT !.at = "abort"])
    BY <1>1, <1>2 DEF AppInv, App, Placed, Owns, Tale, Packs, Recorded, Prepping, Engaged,
                      BeforeCapture, Saving, Stopping, Steps
  <2> QED BY <1>1, <1>4, <2>1, AbortStep
<1> QED BY <1>3, <1>4 DEF Started

LEMMA CompletedStep ==
    ASSUME CaptureInv, NEW r \in replies, Receive(r), Completed(r)
    PROVE  CaptureInv'
<1>1. /\ replies' = replies \ {r} /\ FlowFree(calls, replies') /\ ReplyToFlow(r)
      /\ r.op = OpAt(app.at) /\ AppInv(app) /\ app \in App
      /\ UNCHANGED <<sessions, disk, bounds>>
  BY AnswerHere
<1>2. app.at = "capture-complete"
  BY <1>1 DEF Completed, OpAt
<1>3. CASE r.answer = "ok" /\ app' = [app EXCEPT !.at = "save"] /\ UNCHANGED calls
  <2>1. sessions[app.recording].status = "CAPTURE_COMPLETED"
    BY <1>1, <1>3 DEF ReplyToFlow, Completed
  <2> DEFINE a == [app EXCEPT !.at = "save"]
  <2>3. /\ a \in App /\ a.at = "save" /\ a.ui = app.ui /\ a.recording = app.recording
        /\ a.prepared = app.prepared /\ a.challenge = app.challenge /\ a.timeline = app.timeline
        /\ a.job = app.job
    BY <1>1 DEF App, Steps, Saving
  <2>2. AppInv(a)
    <3> HIDE DEF a
    <3> QED
      BY <1>1, <1>2, <2>1, <2>3
         DEF AppInv, Placed, Owns, Tale, Packs, Recorded, Prepping, Engaged,
             BeforeCapture, Saving, Stopping
  <2> QED BY <1>1, <1>3, <2>2, RestStep
<1>4. CASE Abort(app, "abort stop")
  <2>1. AppInv([app EXCEPT !.at = "abort stop"])
    BY <1>1, <1>2 DEF AppInv, App, Placed, Owns, Tale, Packs, Recorded, Prepping, Engaged,
                      BeforeCapture, Saving, Stopping, Steps
  <2> QED BY <1>1, <1>4, <2>1, AbortStep
<1> QED BY <1>3, <1>4 DEF Completed

LEMMA NewAppIsFine ==
    ASSUME sessions \in Seq(Session)
    PROVE  AppInv(NewApp)
<1>1. NewApp \in App
  <2>1. << >> \in Seq([challenge : Nat, status : Submitted])
    OBVIOUS
  <2> QED BY <2>1 DEF NewApp, App, UiStates, Steps, None, Films
<1>2. /\ NewApp.ui = "INTRO" /\ NewApp.at = "idle" /\ NewApp.recording = None
      /\ NewApp.prepared = None
  BY DEF NewApp
<1> QED BY <1>1, <1>2, LetGo DEF Engaged, None

LEMMA AbortedStep ==
    ASSUME CaptureInv, NEW r \in replies, Receive(r), Aborted(r)
    PROVE  CaptureInv'
<1>1. /\ replies' = replies \ {r} /\ FlowFree(calls, replies')
      /\ AppInv(app) /\ app \in App /\ UNCHANGED <<sessions, disk, bounds>>
  BY AnswerHere
<1>2. CASE app.at = "abort" /\ Rest(Failed(app))
  <2> DEFINE a == [Failed(app) EXCEPT !.at = "idle", !.job = "none"]
  <2>1. app' = a /\ UNCHANGED calls
    BY <1>2 DEF Rest
  <2>2. /\ a \in App /\ a.at = "idle" /\ a.ui = "ERROR" /\ a.recording = app.recording
        /\ a.prepared = app.prepared /\ a.challenge = app.challenge /\ a.timeline = app.timeline
    BY <1>1, FailedRest
  <2> HIDE DEF a
  <2>3. AppInv(a)
    BY <1>1, <1>2, <2>2 DEF AppInv, Placed, Owns, Tale, Packs, Recorded, Prepping, Engaged,
                            BeforeCapture, Saving, Stopping
  <2> QED BY <1>1, <2>1, <2>3, RestStep
<1>3. CASE app.at = "abort twice" /\ Abort(app, "abort")
  <2> DEFINE a == [app EXCEPT !.at = "abort"]
  <2>2. /\ a \in App /\ a.at = "abort" /\ a.ui = app.ui /\ a.recording = app.recording
        /\ a.prepared = app.prepared /\ a.challenge = app.challenge /\ a.timeline = app.timeline
    BY <1>1 DEF App, Steps
  <2>1. AppInv(a)
    <3> HIDE DEF a
    <3> QED
      BY <1>1, <1>3, <2>2 DEF AppInv, Placed, Owns, Tale, Packs, Recorded, Prepping, Engaged,
                              BeforeCapture, Saving, Stopping
  <2> QED BY <1>1, <1>3, <2>1, AbortStep
<1>4. CASE app.at = "abort stop" /\ Rest(Failed([app EXCEPT !.recording = None]))
  <2> DEFINE a == [Failed([app EXCEPT !.recording = None]) EXCEPT !.at = "idle", !.job = "none"]
  <2>1. app' = a /\ UNCHANGED calls
    BY <1>4 DEF Rest
  <2>2. /\ a \in App /\ a.at = "idle" /\ a.ui = "ERROR" /\ a.recording = None
        /\ a.prepared = app.prepared
    <3> DEFINE b == [app EXCEPT !.recording = None]
    <3>1. b \in App /\ b.recording = None /\ b.prepared = app.prepared
      BY <1>1 DEF App, None
    <3> HIDE DEF b
    <3>2. LET c == [Failed(b) EXCEPT !.at = "idle", !.job = "none"] IN
          /\ c \in App /\ c.at = "idle" /\ c.ui = "ERROR" /\ c.recording = None
          /\ c.prepared = app.prepared
      BY <3>1, FailedRest
    <3> QED BY <3>2 DEF b
  <2> HIDE DEF a
  <2>3. AppInv(a)
    BY <1>1, <2>2, LetGo DEF AppInv, Owns, Engaged
  <2> QED BY <1>1, <2>1, <2>3, RestStep
<1>5. CASE app' = NewApp /\ UNCHANGED calls
  <2>1. AppInv(NewApp)
    BY NewAppIsFine DEF CaptureInv
  <2> HIDE DEF NewApp
  <2> QED BY <1>1, <1>5, <2>1, RestStep
<1> QED BY <1>2, <1>3, <1>4, <1>5 DEF Aborted

\* The result of the latest challenge is told last.
LEMMA ToldLast ==
    ASSUME NEW tl \in Timelines, NEW d \in Session, NEW ch, NEW e \in Entry,
           TellsBut(tl, d, ch), ch = Len(d.challenges), ch # None,
           e.challenge = ch, d.challenges[ch].status = e.status
    PROVE  TellsBut(Append(tl, e), d, None)
<1> DEFINE u == Append(tl, e)
<1>1. /\ u \in Timelines /\ Len(u) = Len(tl) + 1 /\ Len(tl) \in Nat /\ u[Len(tl) + 1] = e
      /\ DOMAIN tl = 1 .. Len(tl) /\ DOMAIN u = 1 .. Len(tl) + 1
      /\ \A i \in DOMAIN tl : u[i] = tl[i]
  BY DEF Timelines
<1>2. d.challenges \in Seq(Challenge) /\ DOMAIN d.challenges = 1 .. ch /\ ch \in Nat \ {0}
  <2>1. d.challenges \in Seq(Challenge)
    BY SessionParts
  <2> QED BY <2>1 DEF None
<1> HIDE DEF u
<1>3. \A i \in DOMAIN tl : u[i].challenge \in 1 .. ch - 1
  BY <1>1, <1>2 DEF TellsBut
<1>4. \A i \in DOMAIN u : i \in DOMAIN tl \/ (i = Len(tl) + 1 /\ u[i] = e)
  BY <1>1
<1>5. ASSUME NEW i \in DOMAIN u, NEW j \in DOMAIN u, i < j
      PROVE  u[i].challenge < u[j].challenge
  <2>1. i \in DOMAIN tl
    BY <1>1, <1>5
  <2>2. CASE j \in DOMAIN tl
    BY <1>1, <1>5, <2>1, <2>2 DEF TellsBut
  <2>3. CASE u[j] = e
    BY <1>2, <1>3, <2>1, <2>3
  <2> QED BY <1>4, <2>2, <2>3
<1>6. ASSUME NEW i \in DOMAIN u
      PROVE  /\ u[i].challenge \in DOMAIN d.challenges /\ u[i].challenge # None
             /\ d.challenges[u[i].challenge].status = u[i].status
  <2>1. CASE i \in DOMAIN tl
    BY <1>1, <1>2, <1>3, <2>1 DEF TellsBut, None
  <2>2. CASE u[i] = e
    BY <1>2, <2>2 DEF None
  <2> QED BY <1>4, <2>1, <2>2
<1>7. ASSUME NEW c \in DOMAIN d.challenges, d.challenges[c].status \in Submitted
      PROVE  \E i \in DOMAIN u : u[i].challenge = c
  <2>1. CASE c = ch
    BY <1>1, <2>1
  <2>2. CASE c # ch
    <3>1. PICK i \in DOMAIN tl : tl[i].challenge = c
      BY <1>7, <2>2 DEF TellsBut
    <3> QED BY <1>1, <3>1
  <2> QED BY <2>1, <2>2
<1> QED BY <1>5, <1>6, <1>7 DEF TellsBut, u

\* A challenge without a result may be put aside.
LEMMA OpenAside ==
    ASSUME NEW tl \in Timelines, NEW d \in Session, NEW c,
           TellsBut(tl, d, None), LatestOpen(d, c)
    PROVE  TellsBut(tl, d, c)
<1>1. ASSUME NEW i \in DOMAIN tl PROVE tl[i].challenge # c
  <2>1. tl[i].status \in Submitted
    <3>1. tl[i] \in Entry
      BY DEF Timelines
    <3> QED BY <3>1 DEF Entry
  <2> QED BY <2>1 DEF TellsBut, LatestOpen
<1>2. \A b \in DOMAIN d.challenges : b # None
  <2>1. d.challenges \in Seq(Challenge)
    BY SessionParts
  <2> QED BY <2>1 DEF None
<1> QED BY <1>1, <1>2 DEF TellsBut

LEMMA ResultStep ==
    ASSUME CaptureInv, NEW r \in replies, Receive(r), r.op = "submit", r.answer \in Judgements,
           app' = [app EXCEPT !.timeline = TimelineWith(app, r), !.challenge = None,
                              !.ui = "RESULT", !.last = r.answer,
                              !.at = IF r.answer = "retry" THEN "idle" ELSE "result"],
           UNCHANGED calls
    PROVE  CaptureInv'
<1>1. /\ replies' = replies \ {r} /\ FlowFree(calls, replies') /\ ReplyToFlow(r)
      /\ r.op = OpAt(app.at) /\ AppInv(app) /\ app \in App /\ r \in Replies
      /\ UNCHANGED <<sessions, disk, bounds>>
  BY AnswerHere
<1>2. /\ app.at = "submit" /\ app.challenge # None /\ app.recording # None /\ app.job # "start"
      /\ app.recording = app.prepared /\ app.recording \in DOMAIN sessions
  <2>1. /\ app.at = "submit" /\ app.challenge # None /\ app.recording # None /\ app.job # "start"
    BY <1>1 DEF OpAt, AppInv, Placed
  <2> QED BY <1>1, <2>1 DEF AppInv, Owns, Engaged, CaptureInv, None
<1> DEFINE e == [challenge |-> r.c, status |-> r.status]
           tl == Append(app.timeline, e)
           at == IF r.answer = "retry" THEN "idle" ELSE "result"
           a == [app EXCEPT !.timeline = tl, !.challenge = None,
                            !.ui = "RESULT", !.last = r.answer, !.at = at]
<1>3. app.timeline \in Timelines /\ e \in Entry
  <2>1. r.status \in Submitted /\ r.c \in Nat
    BY <1>1 DEF CaptureInv, RepliesOK, Replies
  <2> QED BY <1>1, <2>1 DEF App, Timelines, Entry
<1>4. tl \in Timelines
  BY <1>3 DEF Timelines
<1>5. app' = a
  BY DEF TimelineWith
<1>6. e.challenge = r.c /\ e.status = r.status
  OBVIOUS
<1> HIDE DEF e
<1>7. Recorded(app) => TellsBut(tl, sessions[app.recording], None)
  <2> SUFFICES ASSUME Recorded(app) PROVE TellsBut(tl, sessions[app.recording], None)
    OBVIOUS
  <2> DEFINE d == sessions[app.recording]
  <2>1. /\ TellsBut(app.timeline, d, app.challenge) /\ app.challenge = Len(d.challenges)
    BY <1>1, <1>2 DEF AppInv, Tale, Row
  <2>2. r.c = app.challenge /\ d.challenges[r.c].status = r.status
    BY <1>1 DEF ReplyToFlow, Row
  <2>3. d \in Session
    BY <1>2 DEF CaptureInv
  <2> QED BY <1>2, <1>3, <1>6, <2>1, <2>2, <2>3, ToldLast
<1>8. at \in {"idle", "result"}
  OBVIOUS
<1>9. r.answer \in {"next", "retry", "over"} /\ None \in Nat /\ tl \in Seq([challenge : Nat, status : Submitted])
  BY <1>4 DEF Judgements, Timelines, Entry, None
<1> HIDE DEF tl, at
<1>10. /\ a \in App /\ a.at = at /\ a.ui = "RESULT" /\ a.recording = app.recording
       /\ a.prepared = app.prepared /\ a.challenge = None /\ a.timeline = tl /\ a.job = app.job
  <2>1. at \in Steps /\ "RESULT" \in UiStates
    BY <1>8 DEF UiStates, LiveStates, Steps, Challenging
  <2> QED BY <1>1, <1>9, <2>1 DEF App
<1> HIDE DEF a
<1>11. AppInv(a)
  BY <1>1, <1>2, <1>7, <1>8, <1>10
     DEF AppInv, Placed, Owns, Tale, Packs, Recorded, Prepping, Engaged,
         BeforeCapture, Saving, Stopping
<1> QED BY <1>1, <1>5, <1>11, RestStep

LEMMA ChallengedStep ==
    ASSUME CaptureInv, NEW r \in replies, Receive(r), Challenged(r)
    PROVE  CaptureInv'
<1>1. /\ replies' = replies \ {r} /\ FlowFree(calls, replies') /\ ReplyToFlow(r)
      /\ r.op = OpAt(app.at) /\ AppInv(app) /\ app \in App /\ r \in Replies
      /\ UNCHANGED <<sessions, disk, bounds>>
  BY AnswerHere
<1>2. /\ app.at = r.op /\ r.op \in {"next", "start-challenge", "submit"} /\ app.ui # "READY"
      /\ r.of = app.prepared /\ r.op \in OnSession
  BY <1>1 DEF Challenged, OpAt, AppInv, Placed, ReplyToFlow, OnSession, OnChallenge
<1>3. CASE Rest([app EXCEPT !.ui = "NETWORK_WAIT"])
  <2> DEFINE a == [app EXCEPT !.ui = "NETWORK_WAIT", !.at = "idle", !.job = "none"]
  <2>1. app' = a /\ UNCHANGED calls
    BY <1>3 DEF Rest
  <2>2. /\ a \in App /\ a.at = "idle" /\ a.ui = "NETWORK_WAIT" /\ a.recording = app.recording
        /\ a.prepared = app.prepared /\ a.challenge = app.challenge /\ a.timeline = app.timeline
    BY <1>1 DEF App, UiStates, LiveStates, Steps
  <2> HIDE DEF a
  <2>3. AppInv(a)
    BY <1>1, <1>2, <2>2 DEF AppInv, Placed, Owns, Tale, Packs, Recorded, Prepping, Engaged,
                            BeforeCapture, Saving, Stopping
  <2> QED BY <1>1, <2>1, <2>3, RestStep
<1>4. CASE FailChallengeProtocol(app)
  <2>1. Fit(app)
    BY <1>1, <1>2, Fits
  <2> QED BY <1>1, <1>4, <2>1, FailStep
<1>5. CASE r.answer = "ok" /\ r.op = "next" /\ Suspend(app, "start-challenge", r.c)
  <2>1. HasChallenge(app.prepared, r.c)
    BY <1>2, <1>5 DEF CaptureInv, RepliesOK
  <2>2. Recorded(app) => LatestOpen(sessions[app.prepared], r.c)
    BY <1>1, <1>2, <1>5 DEF ReplyToFlow
  <2> DEFINE a == [app EXCEPT !.at = "start-challenge"]
  <2>5. /\ a \in App /\ a.at = "start-challenge" /\ a.ui = app.ui /\ a.recording = app.recording
        /\ a.prepared = app.prepared /\ a.challenge = app.challenge /\ a.timeline = app.timeline
    BY <1>1 DEF App, Steps, Challenging
  <2>3. AppInv(a)
    <3> HIDE DEF a
    <3> QED
      BY <1>1, <1>2, <1>5, <2>5
         DEF AppInv, Placed, Owns, Tale, Packs, Recorded, Prepping, Engaged,
             BeforeCapture, Saving, Stopping
  <2>4. "start-challenge" \in OnSession \ {"abort"} /\ r.c \in Nat
    BY <1>1 DEF OnSession, OnChallenge, Replies
  <2> QED BY <1>1, <1>5, <2>1, <2>2, <2>3, <2>4, SuspendStep
<1>6. CASE /\ r.answer = "ok" /\ r.op = "start-challenge" /\ UNCHANGED calls
           /\ app' = [app EXCEPT !.challenge = r.c, !.ui = "ACTIVE", !.at = "window",
                                 !.job = "challenge"]
  <2> DEFINE a == [app EXCEPT !.challenge = r.c, !.ui = "ACTIVE", !.at = "window",
                              !.job = "challenge"]
  <2>1. /\ a \in App /\ a.at = "window" /\ a.ui = "ACTIVE" /\ a.recording = app.recording
        /\ a.prepared = app.prepared /\ a.challenge = r.c /\ a.timeline = app.timeline
        /\ a.job = "challenge"
    BY <1>1 DEF App, UiStates, LiveStates, Steps, Replies
  <2>2. app' = a
    BY <1>6
  <2> HIDE DEF a
  <2>3. ASSUME Recorded(app)
        PROVE  TellsBut(app.timeline, sessions[app.recording], r.c) /\ r.c = Len(Row(app.recording))
    <3>1. app.recording = app.prepared /\ app.recording \in DOMAIN sessions
      BY <1>1, <2>3 DEF AppInv, Owns, Recorded, CaptureInv, None
    <3>2. LatestOpen(sessions[app.recording], r.c)
      BY <1>1, <1>2, <1>6, <2>3, <3>1 DEF ReplyToFlow
    <3>3. TellsBut(app.timeline, sessions[app.recording], None)
      BY <1>1, <1>2, <1>6, <2>3 DEF AppInv, Tale, Placed
    <3>4. app.timeline \in Timelines /\ sessions[app.recording] \in Session
      BY <1>1, <3>1 DEF App, Timelines, Entry, CaptureInv
    <3> QED BY <3>2, <3>3, <3>4, OpenAside DEF LatestOpen, Row
  <2>4. AppInv(a)
    BY <1>1, <1>2, <1>6, <2>1, <2>3
       DEF AppInv, Placed, Owns, Tale, Packs, Recorded, Prepping, Engaged,
           BeforeCapture, Saving, Stopping
  <2> QED BY <1>1, <1>6, <2>2, <2>4, RestStep
<1>7. CASE /\ r.op = "submit" /\ r.answer \in {"next", "retry", "over"} /\ UNCHANGED calls
           /\ app' = [app EXCEPT !.timeline = TimelineWith(app, r), !.challenge = None,
                                 !.ui = "RESULT", !.last = r.answer,
                                 !.at = IF r.answer = "retry" THEN "idle" ELSE "result"]
  BY <1>7, ResultStep DEF Judgements
<1> QED BY <1>3, <1>4, <1>5, <1>6, <1>7 DEF Challenged

LEMMA ReturningStep ==
    ASSUME CaptureInv, Returning
    PROVE  CaptureInv'
<1>1. ASSUME NEW r \in replies, Receive(r) PROVE CaptureInv'
  BY <1>1, PreparedStep, StartedStep, ChallengedStep, CompletedStep, AbortedStep DEF Receive
<1>2. ASSUME NEW r \in replies, AbortReturns(r) PROVE CaptureInv'
  <2> DEFINE told == IF r.by = "interruption" THEN r.of ELSE None
             a == [Failed(app) EXCEPT !.told = told]
  <2>1. /\ app' = a /\ replies' = replies \ {r} /\ r \in Replies /\ app \in App /\ AppInv(app)
        /\ UNCHANGED <<sessions, calls, disk, bounds>> /\ r.by # "flow"
    BY <1>2 DEF AbortReturns, CaptureInv, RepliesOK, AppInv
  <2>2. told \in Nat
    BY <2>1 DEF Replies, None
  <2> HIDE DEF told
  <2>3. /\ a \in App /\ a.at = app.at /\ a.ui = "ERROR" /\ a.recording = app.recording
        /\ a.prepared = app.prepared /\ a.challenge = app.challenge /\ a.timeline = app.timeline
        /\ a.job = app.job
    BY <2>1, <2>2 DEF Failed, App, UiStates, None
  <2> HIDE DEF a
  <2>4. AppInv(a)
    BY <2>1, <2>3 DEF AppInv, Placed, Owns, Tale, Packs, Recorded, Prepping, Engaged
  <2>5. AppInv(app)' /\ DiskInv'
    BY <2>1, <2>4, AppMoves, DiskStays DEF CaptureInv, disk
  <2>6. CallsOK' /\ RepliesOK'
    BY <2>1 DEF CaptureInv, CallsOK, RepliesOK, HasChallenge, Row, Over
  <2>7. Bounded'
    BY <2>1 DEF CaptureInv, Bounded
  <2>8. FlowWaits'
    <3>1. Recorded(app)' <=> Recorded(app)
      BY <2>1, <2>3 DEF Recorded, Over
    <3>2. ASSUME NEW m \in calls, m.by = "flow" PROVE CallOfFlow(m)'
      <4>1. CallOfFlow(m)
        BY <3>2 DEF CaptureInv, FlowWaits
      <4> QED BY <2>1, <2>3, <3>1, <4>1 DEF CallOfFlow, LatestOpen
    <3>3. ASSUME NEW q \in replies, q.by = "flow" PROVE ReplyToFlow(q)'
      <4>1. ReplyToFlow(q)
        BY <3>3 DEF CaptureInv, FlowWaits
      <4> QED BY <2>1, <2>3, <3>1, <4>1 DEF ReplyToFlow, LatestOpen, Row, Untouched, disk
    <3> QED BY <2>1, <3>2, <3>3 DEF FlowWaits
  <2> QED BY <2>1, <2>5, <2>6, <2>7, <2>8 DEF CaptureInv, BoundsOK, bounds
<1> QED BY <1>1, <1>2 DEF Returning

-----------------------------------------------------------------------------
(* Interruptions, the guard and the end of the process.                    *)

\* Nothing of the capture is left in the app.
LEMMA LeaveStep ==
    ASSUME CaptureInv, UNCHANGED <<sessions, work>>, BoundsOK', replies' \subseteq replies,
           NEW D, Kin(D), FlowFree(D, replies'),
           \/ calls' = D
           \/ \E m \in Requests : /\ calls' = D \cup {m} /\ m.by # "flow" /\ m.op = "abort"
                                  /\ m.s \in DOMAIN sessions \ work,
           NEW a \in App, app' = a, a.at = "idle", a.ui \notin {"STARTING", "READY"},
           a.recording = None, a.prepared \in 0 .. Len(sessions),
           \/ packaged' = packaged
           \/ \E s \in DOMAIN sessions \ work : packaged' = [packaged EXCEPT ![s] = {}],
           \/ pending' = pending
           \/ \E s \in DOMAIN sessions : pending' = pending \cup {s}
    PROVE  CaptureInv'
<1>1. CallsOK' /\ RepliesOK' /\ FlowWaits' /\ Bounded'
  BY KinMessages
<1>2. AppInv(app)'
  <2>1. Placed(a) /\ ~Prepping(a) /\ ~Engaged(a)
    BY DEF Placed, Prepping, Engaged, BeforeCapture, Saving, Stopping
  <2>2. Owns(app)' /\ Tale(app)' /\ Packs(app)'
    BY <2>1 DEF Owns, Tale, Packs, Recorded, Prepping, Engaged, Saving
  <2> QED BY <2>1, <2>2 DEF AppInv, Placed
<1>3. DiskInv'
  <2>1. /\ DOMAIN packaged' = 1 .. MaxSessions
        /\ \A s \in 1 .. MaxSessions : \/ packaged'[s] = packaged[s]
                                       \/ packaged'[s] = {} /\ s \notin work
    BY DEF CaptureInv, DiskInv
  <2>2. ASSUME NEW s \in work PROVE HandedOver(s)'
    <3>1. HandedOver(s) /\ s \in 1 .. MaxSessions
      BY WithinBound DEF CaptureInv, DiskInv, HandedOver
    <3>2. packaged'[s] = packaged[s]
      BY <2>1, <3>1
    <3>3. Untouched(s)'
      BY <3>1 DEF HandedOver, Untouched, Kin
    <3> QED BY <3>1, <3>2, <3>3 DEF HandedOver, Tells
  <2>3. pending' \subseteq DOMAIN sessions'
    BY DEF CaptureInv, DiskInv
  <2>4. \A s \in 1 .. MaxSessions : packaged'[s] = {} \/ \E tl : packaged'[s] = {tl}
    BY <2>1 DEF CaptureInv, DiskInv
  <2> QED BY <2>1, <2>2, <2>3, <2>4 DEF DiskInv
<1> QED BY <1>1, <1>2, <1>3 DEF CaptureInv

LEMMA CancelledIs ==
    ASSUME NEW a \in App
    PROVE  LET b == Cancelled(a) IN
           /\ b \in App /\ b.at = "idle" /\ b.prepared = a.prepared
           /\ b.recording \in {None, a.recording} /\ b.ui \in {a.ui, "ERROR"}
           /\ b.ui # "STARTING"
<1> DEFINE c == CASE a.at \in Challenging -> Released(a)
                  [] a.at \in Stopping -> [a EXCEPT !.recording = None]
                  [] OTHER -> a
           ui == IF a.ui = "STARTING" \/ a.at \in Stopping \cup Saving THEN "ERROR" ELSE c.ui
           b == [c EXCEPT !.at = "idle", !.job = "none", !.guard = FALSE, !.ui = ui]
<1>1. /\ c \in App /\ c.prepared = a.prepared /\ c.recording \in {None, a.recording}
      /\ c.ui = a.ui
  <2>1. /\ Released(a) \in App /\ Released(a).prepared = a.prepared /\ Released(a).ui = a.ui
        /\ Released(a).recording = None
    BY DEF Released, App, None, Films
  <2>2. /\ [a EXCEPT !.recording = None] \in App
        /\ [a EXCEPT !.recording = None].prepared = a.prepared
        /\ [a EXCEPT !.recording = None].ui = a.ui
        /\ [a EXCEPT !.recording = None].recording = None
    BY DEF App, None
  <2>3. CASE a.at \in Challenging
    <3>1. c = Released(a)
      BY <2>3 DEF Challenging, Stopping
    <3> QED BY <2>1, <3>1
  <2>4. CASE a.at \notin Challenging /\ a.at \in Stopping
    <3>1. c = [a EXCEPT !.recording = None]
      BY <2>4
    <3> QED BY <2>2, <3>1
  <2>5. CASE a.at \notin Challenging /\ a.at \notin Stopping
    <3>1. c = a
      BY <2>5
    <3> QED BY <3>1
  <2> QED BY <2>3, <2>4, <2>5
<1>2. Cancelled(a) = b
  BY DEF Cancelled
<1> HIDE DEF c
<1>3. ui \in {a.ui, "ERROR"} /\ ui # "STARTING" /\ ui \in UiStates
  BY <1>1 DEF App, UiStates
<1> HIDE DEF ui
<1>4. /\ b \in App /\ b.at = "idle" /\ b.prepared = c.prepared /\ b.recording = c.recording
      /\ b.ui = ui
  BY <1>1, <1>3 DEF App, Steps
<1> QED BY <1>1, <1>2, <1>3, <1>4

\* The coroutine that aborts beside the cancelled flow b.
LEMMA AbortBesideStep ==
    ASSUME CaptureInv, UNCHANGED <<sessions, work>>, BoundsOK', replies' = replies \ FlowReplies,
           NEW b \in App, b.at = "idle", b.prepared = app.prepared, b.ui \notin {"READY", "STARTING"},
           b.recording \in {None, app.recording},
           NEW by \in {"interruption", "guard"}, AbortBeside(b, by),
           \/ pending' = pending
           \/ \E s \in DOMAIN sessions : pending' = pending \cup {s}
    PROVE  CaptureInv'
<1>1. Kin(Orphaned(calls)) /\ replies' \subseteq replies /\ FlowFree(Orphaned(calls), replies')
  BY OrphansAreKin DEF FlowFree, Kin, FlowReplies
<1>2. app.prepared \in 0 .. Len(sessions) /\ app.prepared \in Nat
  BY DEF CaptureInv, AppInv, Owns, App
<1>3. CASE b.recording = None
  <2> DEFINE told == IF by = "interruption" THEN b.prepared ELSE None
             a == [Failed(b) EXCEPT !.told = told]
  <2>1. told \in Nat
    BY <1>2 DEF None
  <2>2. app' = a /\ calls' = Orphaned(calls) /\ packaged' = packaged
    BY <1>3 DEF AbortBeside
  <2> HIDE DEF told
  <2>3. /\ a \in App /\ a.at = "idle" /\ a.ui = "ERROR" /\ a.recording = None
        /\ a.prepared = app.prepared
    BY <1>3, <2>1 DEF Failed, App, UiStates, None
  <2> HIDE DEF a
  <2> QED BY <1>1, <1>2, <2>2, <2>3, LeaveStep
<1>4. CASE b.recording # None
  <2> DEFINE a == Released(b)
             m == Request("abort", b.recording, None, by)
  <2>1. b.recording = app.prepared /\ b.recording \in DOMAIN sessions \ work
    BY <1>4 DEF CaptureInv, AppInv, Owns, Engaged, None
  <2>2. /\ app' = a /\ calls' = Orphaned(calls) \cup {m}
        /\ packaged' = [packaged EXCEPT ![b.recording] = {}]
    BY <1>4 DEF AbortBeside
  <2>3. /\ a \in App /\ a.at = "idle" /\ a.ui = b.ui /\ a.recording = None
        /\ a.prepared = app.prepared
    BY DEF Released, App, None, Films
  <2>4. m \in Requests /\ m.by # "flow" /\ m.op = "abort" /\ m.s \in DOMAIN sessions \ work
    BY <1>2, <2>1 DEF Request, Requests, Waiters, OnSession, None
  <2> HIDE DEF a, m
  <2> QED BY <1>1, <1>2, <2>1, <2>2, <2>3, <2>4, LeaveStep
<1> QED BY <1>3, <1>4

LEMMA InterruptStep ==
    ASSUME CaptureInv, Interrupt
    PROVE  CaptureInv'
<1>1. /\ app \in App /\ Placed(app) /\ Owns(app) /\ app.ui \in LiveStates
      /\ UNCHANGED <<sessions, work>> /\ replies' = replies \ FlowReplies
  BY DEF Interrupt, CaptureInv, AppInv
<1>2. BoundsOK'
  BY CaptureAssumption DEF Interrupt, CaptureInv, BoundsOK
<1>3. \/ pending' = pending
      \/ \E s \in DOMAIN sessions : pending' = pending \cup {s}
  <2>1. app.at = "save" => app.recording \in DOMAIN sessions
    BY <1>1 DEF Placed, Owns, Engaged, Saving, CaptureInv, None
  <2> QED BY <2>1 DEF Interrupt
<1> DEFINE b == Cancelled(app)
<1>4. /\ b \in App /\ b.at = "idle" /\ b.prepared = app.prepared
      /\ b.recording \in {None, app.recording} /\ b.ui \notin {"READY", "STARTING"}
  BY <1>1, CancelledIs DEF LiveStates
<1>5. CASE app.ui = "STARTING"
  <2> DEFINE m == Request("abort", app.prepared, None, "interruption")
  <2>1. app.prepared \in DOMAIN sessions \ work /\ b.recording = None
    BY <1>1, <1>4, <1>5 DEF Placed, Owns, Engaged, CaptureInv, None
  <2>2. m \in Requests /\ m.by # "flow" /\ m.op = "abort" /\ m.s \in DOMAIN sessions \ work
    BY <1>1, <2>1 DEF Request, Requests, Waiters, OnSession, None, App
  <2>3. app' = b /\ calls' = Orphaned(calls) \cup {m} /\ packaged' = packaged
    BY <1>5 DEF Interrupt
  <2>4. Kin(Orphaned(calls)) /\ replies' \subseteq replies /\ FlowFree(Orphaned(calls), replies')
    BY <1>1, OrphansAreKin DEF FlowFree, Kin, FlowReplies
  <2>5. app.prepared \in 0 .. Len(sessions)
    BY <1>1 DEF Owns
  <2> HIDE DEF b, m
  <2> QED BY <1>1, <1>2, <1>3, <1>4, <2>1, <2>2, <2>3, <2>4, <2>5, LeaveStep
<1>6. CASE app.ui # "STARTING"
  <2>1. AbortBeside(b, "interruption")
    BY <1>6 DEF Interrupt
  <2> HIDE DEF b
  <2> QED BY <1>1, <1>2, <1>3, <1>4, <2>1, AbortBesideStep
<1> QED BY <1>5, <1>6

LEMMA DieStep ==
    ASSUME CaptureInv, Die
    PROVE  CaptureInv'
<1> DEFINE D == {[m EXCEPT !.by = "nobody"] : m \in calls}
<1>1. /\ UNCHANGED <<sessions, disk>> /\ replies' = {} /\ calls' = D /\ app' = NewApp
  BY DEF Die
<1>2. BoundsOK'
  BY CaptureAssumption DEF Die, CaptureInv, BoundsOK
<1>3. Kin(D)
  BY ForgottenAreKin
<1> HIDE DEF D
<1>4. FlowFree(D, {})
  BY <1>3 DEF Kin, FlowFree
<1>5. NewApp \in App /\ sessions \in Seq(Session)
  BY NewAppIsFine DEF CaptureInv, AppInv
<1>6. /\ NewApp.at = "idle" /\ NewApp.ui \notin {"STARTING", "READY"} /\ NewApp.recording = None
      /\ NewApp.prepared \in 0 .. Len(sessions)
  BY <1>5 DEF NewApp, None
<1> HIDE DEF NewApp
<1> QED BY <1>1, <1>2, <1>3, <1>4, <1>5, <1>6, LeaveStep DEF disk

LEMMA TimeoutStep ==
    ASSUME CaptureInv, Timeout
    PROVE  CaptureInv'
<1>1. /\ app \in App /\ AppInv(app) /\ app.recording # None
      /\ UNCHANGED <<sessions, pending, work, bounds>>
      /\ app.recording = app.prepared /\ app.recording \in DOMAIN sessions \ work
      /\ app.ui \notin {"READY", "STARTING"}
  BY DEF Timeout, GuardWatches, CaptureInv, AppInv, Placed, Owns, Engaged, None
<1>2. CASE app.job # "start"
  <2> DEFINE b == Cancelled(app)
  <2>1. /\ b \in App /\ b.at = "idle" /\ b.prepared = app.prepared
        /\ b.recording \in {None, app.recording} /\ b.ui \notin {"READY", "STARTING"}
    BY <1>1, CancelledIs
  <2>2. AbortBeside(b, "guard") /\ replies' = replies \ FlowReplies
    BY <1>2 DEF Timeout
  <2>3. BoundsOK'
    BY <1>1 DEF CaptureInv, BoundsOK, bounds
  <2> HIDE DEF b
  <2> QED BY <1>1, <2>1, <2>2, <2>3, AbortBesideStep
<1>3. CASE app.job = "start"
  <2> DEFINE a == [Released(app) EXCEPT !.guard = FALSE]
             m == Request("abort", app.recording, None, "guard")
  <2>1. app' = a /\ calls' = calls \cup {m} /\ UNCHANGED <<replies, packaged>>
    BY <1>3 DEF Timeout
  <2>2. /\ a \in App /\ a.at = app.at /\ a.ui = app.ui /\ a.recording = None
        /\ a.challenge = None /\ a.prepared = app.prepared /\ a.job = app.job
    BY <1>1 DEF Released, App, None, Films
  <2>3. m \in Requests /\ m.by = "guard" /\ m.op = "abort" /\ m.s = app.prepared
    BY <1>1 DEF Request, Requests, Waiters, OnSession, None, App
  <2>4. app.at \notin {"submit", "window", "result", "finish", "capture-complete", "create",
                       "inspection"} \cup Saving \cup Stopping \cup BeforeCapture
    BY <1>1, <1>3 DEF AppInv, Placed, Stopping
  <2> HIDE DEF a, m
  <2>5. AppInv(app)'
    <3>1. Placed(a)
      BY <1>1, <2>2, <2>4 DEF AppInv, Placed
    <3>2. /\ ~Prepping(a) /\ a.prepared \in 0 .. Len(sessions)
          /\ a.prepared # None /\ a.prepared \notin work
      BY <1>1, <2>2, <2>4 DEF AppInv, Owns, Prepping
    <3>3. Owns(app)'
      BY <1>1, <2>1, <2>2, <3>2 DEF Owns, Prepping
    <3>4. Tale(app)' /\ Packs(app)'
      BY <2>1, <2>2, <2>4 DEF Tale, Packs, Recorded, Saving
    <3> QED BY <2>1, <2>2, <3>1, <3>3, <3>4 DEF AppInv, Placed
  <2>6. CallsOK' /\ RepliesOK'
    <3>1. IsFiniteSet(calls')
      BY <2>1, FS_AddElement DEF CaptureInv, CallsOK
    <3>2. "abort" \notin OnChallenge
      BY DEF OnChallenge
    <3>3. \A n \in calls' : /\ n.op \in OnSession => n.s \in DOMAIN sessions'
                            /\ n.op \in OnChallenge => HasChallenge(n.s, n.c)'
      BY <1>1, <2>1, <2>3, <3>2 DEF CaptureInv, CallsOK, HasChallenge, Row, Over
    <3> QED BY <1>1, <2>1, <2>3, <3>1, <3>3 DEF CaptureInv, CallsOK, RepliesOK, HasChallenge, Row, Over
  <2>7. Bounded'
    <3>1. Creating(calls') = Creating(calls)
      BY <2>1, <2>3 DEF Creating
    <3> QED BY <1>1, <2>1, <3>1 DEF CaptureInv, Bounded
  <2>8. FlowWaits'
    <3>1. ~Recorded(app)'
      BY <2>1, <2>2 DEF Recorded
    <3>2. ASSUME NEW n \in calls', n.by = "flow" PROVE CallOfFlow(n)'
      <4>1. CallOfFlow(n)
        BY <2>1, <2>3, <3>2 DEF CaptureInv, FlowWaits
      <4> QED BY <2>1, <2>2, <2>3, <3>1, <4>1 DEF CallOfFlow
    <3>3. ASSUME NEW q \in replies, q.by = "flow" PROVE ReplyToFlow(q)'
      <4>1. ReplyToFlow(q)
        BY <3>3 DEF CaptureInv, FlowWaits
      <4>2. q.op \notin {"create", "capture-complete"}
        BY <2>4, <4>1 DEF ReplyToFlow, OpAt
      <4> QED BY <1>1, <2>1, <2>2, <3>1, <4>1, <4>2 DEF ReplyToFlow
    <3> QED BY <2>1, <3>2, <3>3 DEF FlowWaits
  <2>9. DiskInv'
    <3>1. \A n \in calls' : n \in calls \/ n.op \notin OnSession \/ n.s \notin work
      BY <1>1, <2>1, <2>3
    <3> QED BY <1>1, <2>1, <3>1, DiskStays DEF CaptureInv, disk
  <2> QED BY <1>1, <2>5, <2>6, <2>7, <2>8, <2>9 DEF CaptureInv, BoundsOK, bounds
<1> QED BY <1>2, <1>3

-----------------------------------------------------------------------------
(* The user.                                                               *)

LEMMA PermissionsGrantedStep ==
    ASSUME CaptureInv, PermissionsGranted
    PROVE  CaptureInv'
<1>1. /\ FlowFree(calls, replies) /\ AppInv(app) /\ app \in App /\ app.recording = None
      /\ app.at = "idle" /\ UNCHANGED <<sessions, replies, disk, bounds>>
  BY FreeAt DEF PermissionsGranted, Quiets, CaptureInv, AppInv, Placed
<1> DEFINE b == [app EXCEPT !.ui = "PREPARING"]
           a == [b EXCEPT !.at = "inspection"]
<1>2. b \in App /\ b.ui = "PREPARING" /\ b.prepared = app.prepared /\ b.recording = None
  BY <1>1 DEF App, UiStates
<1>3. app' = a /\ calls' = calls \cup {Request("inspection", b.prepared, None, "flow")}
  BY DEF PermissionsGranted, Suspend
<1> HIDE DEF b
<1>4. /\ a \in App /\ a.at = "inspection" /\ a.ui = "PREPARING" /\ a.prepared = app.prepared
      /\ a.recording = None
  BY <1>2 DEF App, Steps, Preparing
<1> HIDE DEF a
<1>5. Len(sessions) + Cardinality(Creating(calls)) < MaxSessions
  BY DEF PermissionsGranted, MayCreate, Creating
<1>6. CallsOK' /\ RepliesOK' /\ FlowWaits' /\ Bounded'
  <2>1. OpAt(app'.at) = "inspection" /\ b.prepared \in Nat
    BY <1>1, <1>2, <1>3, <1>4 DEF OpAt, App
  <2>2. Kin(calls) /\ replies' \subseteq replies /\ FlowFree(calls, replies')
    BY <1>1, CallsAreKin DEF FlowFree
  <2> QED BY <1>1, <1>3, <1>5, <2>1, <2>2, AskMessages
<1>7. AppInv(a)
  BY <1>1, <1>4 DEF AppInv, Placed, Owns, Tale, Packs, Recorded, Prepping, Engaged,
                    BeforeCapture, Saving, Stopping
<1>8. /\ \A m \in calls' : m \in calls \/ m.by = "flow"
      /\ \A m \in calls' : m \in calls \/ m.op \notin OnSession
  BY <1>3 DEF Request, OnSession, OnChallenge
<1>9. AppInv(app)' /\ DiskInv'
  BY <1>1, <1>3, <1>7, <1>8, AppMoves, DiskStays DEF CaptureInv, disk
<1> QED BY <1>1, <1>6, <1>9 DEF CaptureInv, BoundsOK, bounds

LEMMA RetryVerificationStep ==
    ASSUME CaptureInv, RetryVerification
    PROVE  CaptureInv'
<1>1. /\ AppInv(app) /\ app \in App /\ app.recording = None
      /\ replies' = replies \ FlowReplies
      /\ calls' = Orphaned(calls) \cup {Request("inspection", None, None, "flow")}
      /\ UNCHANGED <<sessions, disk, bounds>>
  BY DEF RetryVerification, CaptureInv, AppInv
<1> DEFINE b == Cancelled(app)
           a == [b EXCEPT !.ui = "PREPARING", !.at = "inspection", !.told = None]
<1>2. b \in App /\ b.prepared = app.prepared /\ b.recording = None
  BY <1>1, CancelledIs
<1>3. app' = a
  BY DEF RetryVerification
<1> HIDE DEF b
<1>4. /\ a \in App /\ a.at = "inspection" /\ a.ui = "PREPARING" /\ a.prepared = app.prepared
      /\ a.recording = None
  BY <1>2 DEF App, UiStates, Steps, Preparing, None
<1> HIDE DEF a
<1>5. Len(sessions) + Cardinality(Creating(calls)) < MaxSessions
  BY DEF RetryVerification, MayCreate, Creating
<1>6. Kin(Orphaned(calls)) /\ replies' \subseteq replies /\ FlowFree(Orphaned(calls), replies')
  BY <1>1, OrphansAreKin DEF FlowFree, Kin, FlowReplies
<1>7. CallsOK' /\ RepliesOK' /\ FlowWaits' /\ Bounded'
  <2>1. OpAt(app'.at) = "inspection" /\ None \in Nat
    BY <1>3, <1>4 DEF OpAt, None
  <2> QED BY <1>1, <1>5, <1>6, <2>1, AskMessages
<1>8. AppInv(app)'
  <2>1. a.prepared \in 0 .. Len(sessions')
    BY <1>1, <1>4 DEF AppInv, Owns
  <2> QED BY <1>3, <1>4, <2>1 DEF AppInv, Placed, Owns, Tale, Packs, Recorded, Prepping, Engaged,
                                  BeforeCapture, Saving, Stopping
<1>9. DiskInv'
  <2>1. ASSUME NEW s \in work PROVE HandedOver(s)'
    <3>1. HandedOver(s)
      BY DEF CaptureInv, DiskInv
    <3>2. Untouched(s)'
      BY <1>1, <1>6, <3>1 DEF HandedOver, Untouched, Kin, Request, OnSession, OnChallenge
    <3> QED BY <1>1, <3>1, <3>2 DEF HandedOver, Tells, disk
  <2> QED BY <1>1, <2>1 DEF CaptureInv, DiskInv, disk
<1> QED BY <1>1, <1>7, <1>8, <1>9 DEF CaptureInv, BoundsOK, bounds

LEMMA CancelPreparedStep ==
    ASSUME CaptureInv, CancelPrepared
    PROVE  CaptureInv'
<1>1. /\ FlowFree(calls, replies) /\ AppInv(app) /\ app \in App /\ app.ui = "READY"
      /\ UNCHANGED <<sessions, replies, disk, bounds>>
  BY FreeAt DEF CancelPrepared, Quiets, CaptureInv, AppInv
<1> DEFINE b == [app EXCEPT !.ui = "PREPARING"]
           a == [b EXCEPT !.at = "abort leave"]
<1>2. /\ b \in App /\ b.ui = "PREPARING" /\ b.prepared = app.prepared
      /\ b.recording = app.recording
  BY <1>1 DEF App, UiStates
<1>3. Abort(b, "abort leave")
  BY DEF CancelPrepared
<1> HIDE DEF b
<1>4. /\ a \in App /\ a.at = "abort leave" /\ a.ui = "PREPARING" /\ a.prepared = app.prepared
      /\ a.recording = app.recording
  BY <1>2 DEF App, Steps
<1>5. AppInv(a)
  <2> HIDE DEF a
  <2> QED
    BY <1>1, <1>4 DEF AppInv, Placed, Owns, Tale, Packs, Recorded, Prepping, Engaged,
                      BeforeCapture, Saving, Stopping
<1> QED BY <1>1, <1>2, <1>3, <1>5, AbortStep

LEMMA StartStep ==
    ASSUME CaptureInv, Start
    PROVE  CaptureInv'
<1>1. /\ FlowFree(calls, replies) /\ AppInv(app) /\ app \in App /\ app.ui = "READY"
      /\ UNCHANGED <<sessions, calls, replies, disk, bounds>>
  BY FreeAt DEF Start, Quiets, CaptureInv, AppInv
<1> DEFINE a == [app EXCEPT !.ui = "STARTING", !.at = "relocate", !.job = "start"]
<1>2. app' = a
  BY DEF Start
<1>3. /\ a \in App /\ a.at = "relocate" /\ a.ui = "STARTING" /\ a.prepared = app.prepared
      /\ a.recording = app.recording
  BY <1>1 DEF App, Steps, Starting, UiStates, LiveStates
<1> HIDE DEF a
<1>4. AppInv(a)
  BY <1>1, <1>3 DEF AppInv, Placed, Owns, Tale, Packs, Recorded, Prepping, Engaged,
                    BeforeCapture, Saving, Stopping
<1> QED BY <1>1, <1>2, <1>4, RestStep

LEMMA RetryConnectionStep ==
    ASSUME CaptureInv, RetryConnection
    PROVE  CaptureInv'
<1>1. /\ FlowFree(calls, replies) /\ AppInv(app) /\ app \in App /\ app.ui = "NETWORK_WAIT"
      /\ UNCHANGED <<sessions, replies, disk, bounds>> /\ app.at = "idle"
  BY FreeAt DEF RetryConnection, Quiets, CaptureInv, AppInv
<1> DEFINE b == [app EXCEPT !.job = "challenge"]
           c == [b EXCEPT !.ui = "CHECKING"]
<1>2. /\ b \in App /\ b.ui = "NETWORK_WAIT" /\ b.prepared = app.prepared
      /\ b.recording = app.recording /\ b.challenge = app.challenge
      /\ b.timeline = app.timeline /\ b.job = "challenge"
  BY <1>1 DEF App
<1>3. CASE BeginNext(b)
  <2> HIDE DEF b
  <2>1. Fit(b)
    BY <1>1, <1>2, Fits
  <2> QED BY <1>1, <1>3, <2>1, BeginNextStep
<1>4. /\ c \in App /\ c.ui = "CHECKING" /\ c.prepared = app.prepared
      /\ c.recording = app.recording /\ c.challenge = app.challenge
      /\ c.timeline = app.timeline /\ c.job = "challenge"
  <2> HIDE DEF b
  <2> QED BY <1>2 DEF App, UiStates, LiveStates
<1>5. CASE FailChallengeProtocol(c)
  <2> HIDE DEF c
  <2>1. Fit(c)
    BY <1>1, <1>4, Fits
  <2> QED BY <1>1, <1>5, <2>1, FailStep
<1>6. CASE app.recording # None /\ app.challenge # None /\ Suspend(c, "submit", app.challenge)
  <2> DEFINE a == [c EXCEPT !.at = "submit"]
  <2> HIDE DEF c
  <2>1. /\ a \in App /\ a.at = "submit" /\ a.ui = "CHECKING" /\ a.prepared = app.prepared
        /\ a.recording = app.recording /\ a.challenge = app.challenge
        /\ a.timeline = app.timeline /\ a.job = "challenge"
    BY <1>4 DEF App, Steps, Challenging
  <2>2. AppInv(a)
    <3> HIDE DEF a
    <3> QED
      BY <1>1, <1>6, <2>1 DEF AppInv, Placed, Owns, Tale, Packs, Recorded, Prepping, Engaged,
                              BeforeCapture, Saving, Stopping
  <2>3. HasChallenge(app.prepared, app.challenge)
    BY <1>6, ChallengeIsThere
  <2>4. "submit" \in OnSession \ {"abort"} /\ app.challenge \in Nat
    BY <1>1 DEF OnSession, OnChallenge, App
  <2> QED BY <1>1, <1>4, <1>6, <2>2, <2>3, <2>4, SuspendStep
<1>7. BeginNext(b) \/ FailChallengeProtocol(c)
      \/ (app.recording # None /\ app.challenge # None /\ Suspend(c, "submit", app.challenge))
  <2>1. \/ BeginNext(b)
        \/ b.recording = None /\ FailChallengeProtocol(c)
        \/ b.recording # None /\ b.challenge # None /\ Suspend(c, "submit", b.challenge)
    BY DEF RetryConnection
  <2> HIDE DEF b, c
  <2> QED BY <1>2, <2>1
<1> QED BY <1>3, <1>5, <1>6, <1>7

LEMMA RetryChallengeStep ==
    ASSUME CaptureInv, RetryChallenge
    PROVE  CaptureInv'
<1>1. /\ FlowFree(calls, replies) /\ AppInv(app) /\ app \in App /\ app.ui = "RESULT"
      /\ UNCHANGED <<sessions, replies, disk, bounds>>
  BY FreeAt DEF RetryChallenge, Quiets, CaptureInv, AppInv
<1> DEFINE b == [app EXCEPT !.job = "challenge"]
<1>2. /\ b \in App /\ b.ui = "RESULT" /\ b.prepared = app.prepared
      /\ b.recording = app.recording /\ b.challenge = app.challenge
      /\ b.timeline = app.timeline
  BY <1>1 DEF App
<1>3. BeginNext(b)
  BY DEF RetryChallenge
<1> HIDE DEF b
<1>4. Fit(b)
  BY <1>1, <1>2, Fits
<1> QED BY <1>1, <1>3, <1>4, BeginNextStep

-----------------------------------------------------------------------------
(* The recorder.                                                           *)

\* Nothing but the film moves.
LEMMA FilmStep ==
    ASSUME CaptureInv, BoundsOK', UNCHANGED <<sessions, calls, replies, disk>>,
           app' \in App, app'.ui = app.ui, app'.at = app.at, app'.job = app.job,
           app'.prepared = app.prepared, app'.recording = app.recording,
           app'.challenge = app.challenge, app'.timeline = app.timeline
    PROVE  CaptureInv'
<1>1. /\ UNCHANGED <<sessions, calls, replies, packaged, pending, work>>
      /\ AppInv(app)
  BY DEF disk, CaptureInv
<1>2. CallsOK' /\ RepliesOK' /\ Bounded'
  BY <1>1 DEF CaptureInv, CallsOK, RepliesOK, Bounded, HasChallenge, Row, Over
<1>3. AppInv(app)'
  <2> DEFINE a == app'
  <2>1. /\ a \in App /\ a.ui = app.ui /\ a.at = app.at /\ a.job = app.job
        /\ a.prepared = app.prepared /\ a.recording = app.recording
        /\ a.challenge = app.challenge /\ a.timeline = app.timeline /\ app' = a
    OBVIOUS
  <2> HIDE DEF a
  <2>2. AppInv(a)
    BY <1>1, <2>1 DEF AppInv, Placed, Owns, Tale, Packs, Recorded, Prepping, Engaged
  <2>3. (\A m \in calls' : m \in calls \/ m.by = "flow") /\ pending \subseteq pending'
    BY <1>1
  <2> QED BY <1>1, <2>1, <2>2, <2>3, AppMoves
<1>4. FlowWaits'
  <2>1. ASSUME NEW m \in calls, m.by = "flow" PROVE CallOfFlow(m)'
    <3>1. CallOfFlow(m)
      BY <2>1 DEF CaptureInv, FlowWaits
    <3> QED BY <1>1, <3>1 DEF CallOfFlow, LatestOpen, Recorded, Over
  <2>2. ASSUME NEW r \in replies, r.by = "flow" PROVE ReplyToFlow(r)'
    <3>1. ReplyToFlow(r)
      BY <2>2 DEF CaptureInv, FlowWaits
    <3> QED BY <1>1, <3>1 DEF ReplyToFlow, LatestOpen, Recorded, Over, Row, Untouched
  <2> QED BY <1>1, <2>1, <2>2 DEF FlowWaits
<1>5. DiskInv'
  BY <1>1, DiskStays DEF CaptureInv, disk
<1> QED BY <1>1, <1>2, <1>3, <1>4, <1>5 DEF CaptureInv

LEMMA RecorderFailsStep ==
    ASSUME CaptureInv, RecorderFails
    PROVE  CaptureInv'
<1>1. PICK film \in {"short", "long"} : app' = [app EXCEPT !.film = film]
  BY DEF RecorderFails
<1>2. app \in App
  BY DEF CaptureInv, AppInv
<1>3. /\ app' \in App /\ app'.ui = app.ui /\ app'.at = app.at /\ app'.job = app.job
      /\ app'.prepared = app.prepared /\ app'.recording = app.recording
      /\ app'.challenge = app.challenge /\ app'.timeline = app.timeline
  BY <1>1, <1>2 DEF App, Films
<1>4. BoundsOK' /\ UNCHANGED <<sessions, calls, replies, disk>>
  BY CaptureAssumption DEF RecorderFails, CaptureInv, BoundsOK
<1> QED BY <1>3, <1>4, FilmStep

-----------------------------------------------------------------------------
(* The theorems.                                                           *)

LEMMA InitStep ==
    ASSUME Init
    PROVE  CaptureInv
<1>1. sessions = << >> /\ sessions \in Seq(Session)
  BY DEF Init
<1>2. CallsOK /\ RepliesOK /\ FlowWaits
  BY FS_EmptySet DEF Init, CallsOK, RepliesOK, FlowWaits
<1>3. Bounded
  <2>1. Creating(calls) = {}
    BY DEF Init, Creating
  <2> QED BY <1>1, <2>1, FS_EmptySet, CaptureAssumption DEF Bounded, Init
<1>4. AppInv(app)
  BY <1>1, NewAppIsFine DEF Init
<1>5. DiskInv
  BY DEF Init, DiskInv
<1>6. BoundsOK
  BY CaptureAssumption DEF Init, BoundsOK
<1> QED BY <1>1, <1>2, <1>3, <1>4, <1>5, <1>6 DEF CaptureInv

LEMMA NextStep ==
    ASSUME CaptureInv, [Next]_vars
    PROVE  CaptureInv'
<1>1. CASE Answering \/ \E s \in DOMAIN sessions : Overrun(s) \/ Poll(s)
  BY <1>1, ServerStep
<1>2. CASE Returning
  BY <1>2, ReturningStep
<1>3. CASE FlowStep
  BY <1>3, LocateStep, RelocateStep, RecordStep, WindowStep, ShowResultStep, FinishStep,
     PackageStep, SavePendingStep, EnqueueStep DEF FlowStep
<1>4. CASE Timeout \/ Interrupt \/ Die
  BY <1>4, TimeoutStep, InterruptStep, DieStep
<1>5. CASE \/ PermissionsGranted \/ RetryVerification \/ CancelPrepared
           \/ Start \/ RetryConnection \/ RetryChallenge
  BY <1>5, PermissionsGrantedStep, RetryVerificationStep, CancelPreparedStep, StartStep,
     RetryConnectionStep, RetryChallengeStep
<1>6. CASE RecorderFails
  BY <1>6, RecorderFailsStep
<1>7. CASE UNCHANGED vars
  BY <1>7, FilmStep DEF vars, disk, bounds, CaptureInv, BoundsOK, AppInv
<1> QED BY <1>1, <1>2, <1>3, <1>4, <1>5, <1>6, <1>7 DEF Next

LEMMA Invariance == Spec => []CaptureInv
<1>1. Init => CaptureInv
  BY InitStep
<1>2. CaptureInv /\ [Next]_vars => CaptureInv'
  BY NextStep
<1> QED BY <1>1, <1>2, PTL DEF Spec

\* Every variable keeps its type, and no more sessions are made than the bound allows;
\* a manifest tells one timeline, and only a session with a row in pending_evidence has an
\* upload queued.
THEOREM TypeCorrect == Spec => []TypeOK
<1>1. CaptureInv => TypeOK
  <2> SUFFICES ASSUME CaptureInv PROVE TypeOK
    OBVIOUS
  <2>1. ASSUME NEW s \in 1 .. MaxSessions PROVE Cardinality(packaged[s]) <= 1
    <3>1. packaged[s] = {} \/ \E tl : packaged[s] = {tl}
      BY DEF CaptureInv, DiskInv
    <3>2. Cardinality({}) = 0 /\ \A tl : Cardinality({tl}) = 1
      BY FS_EmptySet, FS_Singleton, Zenon
    <3>3. CASE packaged[s] = {}
      <4>1. Cardinality(packaged[s]) = 0
        BY <3>2, <3>3, Zenon
      <4> QED BY <4>1
    <3>4. CASE \E tl : packaged[s] = {tl}
      <4>1. Cardinality(packaged[s]) = 1
        BY <3>2, <3>4, Zenon
      <4> QED BY <4>1
    <3> QED BY <3>1, <3>3, <3>4
  <2>2. work \subseteq pending /\ pending \subseteq 1 .. MaxSessions
    BY WithinBound DEF CaptureInv, DiskInv, HandedOver
  <2> QED BY <2>1, <2>2, WithinBound DEF CaptureInv, AppInv, BoundsOK, TypeOK
<1> QED BY <1>1, Invariance, PTL

\* What the upload worker is given is complete, and stays so: the server knows the session
\* as captured, and the manifest tells every challenge as it was judged, whatever was lost,
\* repeated, interrupted or restarted on the way.
THEOREM HandedOverAlwaysComplete == Spec => []HandedOverIsComplete
<1>1. CaptureInv => HandedOverIsComplete
  BY DEF CaptureInv, DiskInv, HandedOver, HandedOverIsComplete
<1> QED BY <1>1, Invariance, PTL
=============================================================================
