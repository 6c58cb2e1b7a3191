----------------------- MODULE ChallengeSequenceProofs -----------------------
(***************************************************************************)
(* Proofs about the challenge sequence for every number of challenges,     *)
(* retries, submissions and overlapping requests.                          *)
(***************************************************************************)
EXTENDS ChallengeSequence, TLAPS, WellFoundedInduction, FiniteSetTheorems

-----------------------------------------------------------------------------
(* Tables of challenges.                                                   *)

Tables == UNION {[K -> Challenge] : K \in SUBSET Keys}

(* The numbers in use have no gap below them and are within the budget.    *)
Numbered(D) ==
    /\ D \in SUBSET Keys
    /\ \A k \in D :
         /\ k[1] <= ChallengeCount /\ k[2] <= MaxRetries + 1
         /\ \A j \in 1 .. k[2] : <<k[1], j>> \in D
         /\ k[1] > 1 => <<k[1] - 1, 1>> \in D

LEMMA KeyParts ==
    ASSUME NEW k \in Keys
    PROVE  k = <<k[1], k[2]>> /\ k[1] \in Nat \ {0} /\ k[2] \in Nat \ {0}
BY DEF Keys

(* A set of numbers with a bound has a greatest one.                       *)
LEMMA Greatest ==
    ASSUME NEW S \in SUBSET Nat, NEW n \in Nat, \A x \in S : x <= n, S # {}
    PROVE  \E x \in S : \A y \in S : y <= x
<1> DEFINE T == {n - x : x \in S}
<1>1. T \subseteq Nat /\ T # {}
  <2>1. \A x \in S : n - x \in Nat
    OBVIOUS
  <2> QED BY <2>1
<1>2. PICK m \in T : \A y \in T : <<y, m>> \notin OpToRel(<, Nat)
  BY <1>1, WFMin, NatLessThanWellFounded, Zenon
<1>3. ASSUME NEW y \in T, y < m PROVE FALSE
  <2>1. <<y, m>> \in OpToRel(<, Nat)
    <3>1. <<y, m>> \in Nat \X Nat /\ <<y, m>>[1] < <<y, m>>[2]
      BY <1>1, <1>3
    <3> QED BY <3>1, Zenon DEF OpToRel
  <2> QED BY <1>2, <2>1, Zenon
<1>4. PICK x \in S : m = n - x
  BY <1>2
<1>5. ASSUME NEW y \in S PROVE y <= x
  <2>1. n - y \in T /\ ~(n - y < n - x)
    BY <1>3, <1>4
  <2>2. x \in Nat /\ y \in Nat /\ ~(n - y < n - x)
    BY <2>1
  <2> HIDE DEF T
  <2> QED BY <2>2
<1> QED BY <1>5

(* The order of Last.                                                      *)
Below(j, k) == j[1] < k[1] \/ (j[1] = k[1] /\ j[2] <= k[2])

(* Numbered challenges have a last one.                                    *)
LEMMA LastIsIn ==
    ASSUME NEW D, Numbered(D), D # {}
    PROVE  Last(D) \in D /\ \A j \in D : Below(j, Last(D))
<1> DEFINE S == {k[1] : k \in D}
<1>1. \A k \in D : k[1] \in Nat /\ k[2] \in Nat
  BY DEF Numbered, Keys
<1>2. S \in SUBSET Nat /\ S # {} /\ \A x \in S : x <= ChallengeCount
  BY <1>1 DEF Numbered
<1>3. PICK s \in S : \A y \in S : y <= s
  BY <1>2, ChallengeAssumption, Greatest
<1> DEFINE A == {k[2] : k \in {j \in D : j[1] = s}}
<1>4. A \in SUBSET Nat /\ A # {} /\ \A x \in A : x <= MaxRetries + 1
  BY <1>1, <1>3 DEF Numbered
<1>5. PICK a \in A : \A y \in A : y <= a
  <2>1. MaxRetries + 1 \in Nat
    BY ChallengeAssumption
  <2> QED BY <1>4, <2>1, Greatest
<1>6. PICK k \in D : k[1] = s /\ k[2] = a
  BY <1>5
<1>7. ASSUME NEW j \in D PROVE Below(j, k)
  BY <1>1, <1>3, <1>5, <1>6 DEF Below
<1> QED BY <1>6, <1>7 DEF Last, Below

LEMMA LastIsUnique ==
    ASSUME NEW D, Numbered(D), NEW k \in D, \A j \in D : Below(j, k)
    PROVE  Last(D) = k
<1>1. Last(D) \in D /\ Below(k, Last(D)) /\ Below(Last(D), k)
  BY LastIsIn
<1>2. k \in Keys /\ Last(D) \in Keys
  BY <1>1 DEF Numbered
<1>3. Last(D)[1] = k[1] /\ Last(D)[2] = k[2]
  BY <1>1, <1>2, KeyParts DEF Below
<1> QED BY <1>2, <1>3, KeyParts

(* The retries of a challenge are its attempts after the first.            *)
LEMMA RetriesAre ==
    ASSUME NEW t, Numbered(DOMAIN t), NEW k \in DOMAIN t,
           \A j \in DOMAIN t : j[1] = k[1] => j[2] <= k[2]
    PROVE  RetryCount(t, k[1]) = k[2] - 1
<1> DEFINE D == DOMAIN t
           R == {j \in D : j[1] = k[1] /\ j[2] > 1}
           I == 2 .. k[2]
           f == [i \in I |-> <<k[1], i>>]
<1>1. k[1] \in Nat \ {0} /\ k[2] \in Nat \ {0}
  BY KeyParts DEF Numbered
<1>2. ASSUME NEW i \in I PROVE <<k[1], i>> \in R
  <2>1. i \in 1 .. k[2] /\ i > 1
    BY <1>1
  <2>2. <<k[1], i>> \in D
    BY <2>1 DEF Numbered
  <2> QED BY <2>1, <2>2
<1>3. ASSUME NEW j \in R PROVE j[2] \in I /\ j = <<k[1], j[2]>>
  BY <1>1, KeyParts DEF Numbered
<1> HIDE DEF R
<1>4. f \in Bijection(I, R)
  <2>1. f \in [I -> R]
    BY <1>2
  <2>2. \A a, b \in I : f[a] = f[b] => a = b
    OBVIOUS
  <2>3. \A j \in R : \E i \in I : f[i] = j
    BY <1>3
  <2> QED BY <2>1, <2>2, <2>3 DEF Bijection, Injection, Surjection, IsInjective
<1>5. IsFiniteSet(I) /\ Cardinality(I) = k[2] - 1
  <2>1. 2 \in Int /\ k[2] \in Int
    BY <1>1
  <2>2. IsFiniteSet(I) /\ Cardinality(I) = IF 2 > k[2] THEN 0 ELSE k[2] - 2 + 1
    BY <2>1, FS_Interval
  <2> QED BY <1>1, <2>2
<1>6. Cardinality(R) = Cardinality(I)
  BY <1>4, <1>5, FS_Bijection DEF ExistsBijection
<1> QED BY <1>5, <1>6 DEF RetryCount, R

LEMMA NumberedUnion ==
    ASSUME NEW A, NEW B, Numbered(A), Numbered(B)
    PROVE  Numbered(A \cup B)
BY DEF Numbered

(* The next number leaves no gap, whatever requests have issued since: the *)
(* budget counts the attempts, and an attempt follows the one before.      *)
LEMMA NextIsNumbered ==
    ASSUME NEW t, Numbered(DOMAIN t), NextKey(t)[1] <= ChallengeCount
    PROVE  /\ NextKey(t) \in Keys
           /\ Numbered(DOMAIN t \cup {NextKey(t)})
           /\ \A j \in DOMAIN t : Below(j, NextKey(t))
<1> DEFINE D == DOMAIN t
           new == NextKey(t)
           last == Last(D)
<1>1. CASE D = {}
  <2>1. new = <<1, 1>>
    BY <1>1 DEF NextKey
  <2>2. <<1, 1>> \in Keys /\ 1 <= ChallengeCount /\ 1 <= MaxRetries + 1 /\ 1 .. 1 = {1}
    BY ChallengeAssumption DEF Keys
  <2> QED BY <1>1, <2>1, <2>2 DEF Numbered
<1>2. CASE D # {} /\ MayRetry(t, last)
  <2>1. last \in D /\ \A j \in D : Below(j, last)
    BY <1>2, LastIsIn
  <2>2. last \in Keys /\ last[1] \in Nat \ {0} /\ last[2] \in Nat \ {0}
    BY <2>1, KeyParts DEF Numbered
  <2>3. new = <<last[1], last[2] + 1>>
    BY <1>2 DEF NextKey
  <2>4. \A j \in D : j[1] = last[1] => j[2] <= last[2]
    BY <2>1, <2>2, KeyParts DEF Below, Numbered
  <2>5. RetryCount(t, last[1]) = last[2] - 1
    BY <2>1, <2>4, RetriesAre
  <2>6. last[2] + 1 <= MaxRetries + 1
    BY <1>2, <2>2, <2>5, ChallengeAssumption DEF MayRetry
  <2> HIDE DEF new, last
  <2>7. new \in Keys /\ new[1] = last[1] /\ new[2] = last[2] + 1
    BY <2>2, <2>3 DEF Keys
  <2>8. ASSUME NEW j \in 1 .. new[2] PROVE <<new[1], j>> \in D \cup {new}
    <3>1. CASE j = new[2]
      BY <2>3, <2>7, <3>1
    <3>2. CASE j # new[2]
      <4>1. j \in 1 .. last[2]
        BY <2>2, <2>7, <3>2
      <4> QED BY <2>1, <2>7, <4>1 DEF Numbered
    <3> QED BY <3>1, <3>2
  <2>9. new[1] <= ChallengeCount /\ (new[1] > 1 => <<new[1] - 1, 1>> \in D)
    BY <2>1, <2>7 DEF Numbered
  <2>10. Numbered(D \cup {new})
    BY <2>6, <2>7, <2>8, <2>9 DEF Numbered
  <2>11. ASSUME NEW j \in D PROVE Below(j, new)
    <3>1. j \in Keys /\ Below(j, last)
      BY <2>1 DEF Numbered
    <3> QED BY <2>2, <2>7, <3>1, KeyParts DEF Below
  <2> QED BY <2>7, <2>10, <2>11 DEF new
<1>3. CASE D # {} /\ ~MayRetry(t, last)
  <2>1. last \in D /\ \A j \in D : Below(j, last)
    BY <1>3, LastIsIn
  <2>2. last \in Keys /\ last[1] \in Nat \ {0} /\ last[2] \in Nat \ {0}
    BY <2>1, KeyParts DEF Numbered
  <2>3. new = <<last[1] + 1, 1>> /\ new[1] <= ChallengeCount
    BY <1>3 DEF NextKey
  <2> HIDE DEF new, last
  <2>4. new \in Keys /\ new[1] = last[1] + 1 /\ new[2] = 1 /\ 1 <= MaxRetries + 1
    BY <2>2, <2>3, ChallengeAssumption DEF Keys
  <2>5. <<last[1], 1>> \in D
    <3>1. 1 \in 1 .. last[2]
      BY <2>2
    <3> QED BY <2>1, <3>1 DEF Numbered
  <2>6. \A j \in 1 .. new[2] : <<new[1], j>> \in D \cup {new}
    BY <2>3, <2>4
  <2>7. new[1] > 1 => <<new[1] - 1, 1>> \in D
    BY <2>2, <2>4, <2>5
  <2>8. Numbered(D \cup {new})
    BY <2>3, <2>4, <2>6, <2>7 DEF Numbered
  <2>9. ASSUME NEW j \in D PROVE Below(j, new)
    <3>1. j \in Keys /\ Below(j, last)
      BY <2>1 DEF Numbered
    <3> QED BY <2>2, <2>4, <3>1, KeyParts DEF Below
  <2> QED BY <2>4, <2>8, <2>9 DEF new
<1> QED BY <1>1, <1>2, <1>3

-----------------------------------------------------------------------------
(* What requests see.                                                      *)

Views == [session : SessionStatus, overdue : BOOLEAN, rows : Tables, lapsed : SUBSET Keys]

(* What a request sees was the table at some moment, and the row it holds  *)
(* has not been answered since.                                            *)
Sees(d) ==
    /\ d \in Views
    /\ Numbered(DOMAIN d.rows)
    /\ DOMAIN d.rows \subseteq DOMAIN challenges
    /\ d.lapsed \subseteq DOMAIN d.rows

HoldsFresh(r) ==
    \A k \in locked[r] :
        /\ k \in DOMAIN view[r].rows
        /\ view[r].rows[k].status = challenges[k].status
        /\ view[r].rows[k].submission = challenges[k].submission

ActiveIsOpen ==
    \A k \in DOMAIN challenges :
        challenges[k].status \in ACTIVE_CHALLENGE_STATES => challenges[k].submission = NoSubmission

Exclusive == \A q, r \in Requests : q # r => locked[q] \cap locked[r] = {}

SequenceInv ==
    /\ session \in SessionStatus /\ overdue \in BOOLEAN /\ challenges \in Tables
    /\ view \in [Requests -> Views] /\ locked \in [Requests -> SUBSET Keys]
    /\ Numbered(DOMAIN challenges)
    /\ ActiveIsOpen /\ Exclusive
    /\ \A r \in Requests : Sees(view[r]) /\ HoldsFresh(r)

LEMMA TableRows ==
    ASSUME NEW t \in Tables
    PROVE  /\ DOMAIN t \in SUBSET Keys
           /\ t \in [DOMAIN t -> Challenge]
BY DEF Tables

LEMMA TableOf ==
    ASSUME NEW K \in SUBSET Keys, NEW t \in [K -> Challenge]
    PROVE  t \in Tables /\ DOMAIN t = K
BY DEF Tables

LEMMA ClosedIs ==
    /\ Closed \in Views
    /\ DOMAIN Closed.rows = {} /\ Closed.lapsed = {}
<1>1. << >> \in Tables /\ DOMAIN << >> = {}
  <2>1. << >> \in [{} -> Challenge] /\ DOMAIN << >> = {}
    OBVIOUS
  <2> QED BY <2>1, TableOf
<1>2. PICK yes \in BOOLEAN : yes = TRUE
  OBVIOUS
<1>3. Closed = [session |-> "ENDED", overdue |-> yes, rows |-> << >>, lapsed |-> {}]
  BY <1>2 DEF Closed
<1>4. "ENDED" \in SessionStatus
  BY DEF SessionStatus
<1> QED BY <1>1, <1>3, <1>4 DEF Views

LEMMA StoredIs ==
    ASSUME SequenceInv
    PROVE  Sees(Stored) /\ Stored.rows = challenges /\ Stored.lapsed = {}
           /\ Stored.session = session /\ Stored.overdue = overdue
BY DEF SequenceInv, Sees, Stored, Views

LEMMA SeenIs ==
    ASSUME SequenceInv, NEW r \in Requests \cup {Now}
    PROVE  Sees(Seen(r))
BY StoredIs DEF SequenceInv, Seen

(* Marking the late challenge leaves the view of the table.                *)
LEMMA PastIs ==
    ASSUME SequenceInv, NEW r \in Requests \cup {Now}
    PROVE  /\ Sees(PastActive(Seen(r)))
           /\ PastActive(Seen(r)).rows = Seen(r).rows
           /\ PastActive(Seen(r)).session = Seen(r).session
           /\ PastActive(Seen(r)).overdue = Seen(r).overdue
<1> DEFINE d == Seen(r)
<1>1. Sees(d)
  BY SeenIs
<1> HIDE DEF d
<1>2. LateActive(d) \subseteq DOMAIN d.rows
  BY DEF LateActive, ActiveKeys
<1>3. LateActive(d) \in SUBSET Keys
  BY <1>1, <1>2, TableRows DEF Sees, Views
<1>4. /\ Sees(PastActive(d))
      /\ PastActive(d).rows = d.rows /\ PastActive(d).session = d.session
      /\ PastActive(d).overdue = d.overdue
  BY <1>1, <1>2, <1>3 DEF PastActive, Sees, Views
<1> QED BY <1>4 DEF d

LEMMA MarkedIs == ASSUME NEW d PROVE DOMAIN Marked(d) = DOMAIN d.rows
BY DEF Marked

LEMMA FinalStatus ==
    ASSUME NEW t, NEW before \in SessionStatus
    PROVE  Finalized(t, before) \in SessionStatus
BY DEF Finalized, SessionStatus, ChallengesOver

LEMMA SessionWritten ==
    ASSUME session \in SessionStatus, NEW d, NEW status \in SessionStatus, WriteSession(d, status)
    PROVE  session' \in SessionStatus
BY DEF WriteSession

-----------------------------------------------------------------------------
(* What the transactions of request r write: only rows K, that no other    *)
(* request holds, and never evidence that is there.                        *)

Writes(r, K) ==
    /\ session' \in SessionStatus /\ overdue' = overdue
    /\ challenges' \in Tables
    /\ DOMAIN challenges \subseteq DOMAIN challenges' /\ Numbered(DOMAIN challenges')
    /\ \A k \in DOMAIN challenges \ K : challenges'[k] = challenges[k]
    /\ Free(r, K)
    /\ ActiveIsOpen'
    /\ \A k \in DOMAIN challenges :
         challenges[k].submission # NoSubmission =>
             challenges'[k].submission = challenges[k].submission
    /\ \A q \in Requests : view'[q] = IF q = r THEN Closed ELSE view[q]
    /\ \A q \in Requests : locked'[q] = IF q = r THEN {} ELSE locked[q]
    /\ view' \in [Requests -> Views] /\ locked' \in [Requests -> SUBSET Keys]

LEMMA WritesKeep ==
    ASSUME SequenceInv, NEW r \in Requests \cup {Now}, NEW K, Writes(r, K)
    PROVE  SequenceInv'
<1>1. Exclusive'
  BY DEF SequenceInv, Writes, Exclusive
<1>2. ASSUME NEW q \in Requests PROVE Sees(view[q])' /\ HoldsFresh(q)'
  <2>1. CASE q = r
    <3>1. view'[q] = Closed /\ locked'[q] = {}
      BY <2>1 DEF Writes
    <3>2. Numbered({})
      BY DEF Numbered
    <3> QED BY <3>1, <3>2, ClosedIs DEF Sees, HoldsFresh
  <2>2. CASE q # r
    <3>1. view'[q] = view[q] /\ locked'[q] = locked[q] /\ locked[q] \cap K = {}
      BY <2>2 DEF Writes, Free
    <3>2. Sees(view[q]) /\ HoldsFresh(q)
      BY DEF SequenceInv
    <3>3. \A k \in locked[q] : k \in DOMAIN challenges /\ challenges'[k] = challenges[k]
      BY <3>1, <3>2 DEF Writes, Sees, HoldsFresh
    <3> QED BY <3>1, <3>2, <3>3 DEF Writes, Sees, HoldsFresh
  <2> QED BY <2>1, <2>2
<1> QED BY <1>1, <1>2 DEF SequenceInv, Writes

LEMMA Closing ==
    ASSUME SequenceInv, NEW r \in Requests \cup {Now}, Close(r)
    PROVE  /\ \A q \in Requests : view'[q] = IF q = r THEN Closed ELSE view[q]
           /\ \A q \in Requests : locked'[q] = IF q = r THEN {} ELSE locked[q]
           /\ view' \in [Requests -> Views] /\ locked' \in [Requests -> SUBSET Keys]
BY ClosedIs DEF Close, SequenceInv

(* A challenge that expires keeps its number and its evidence.             *)
LEMMA Expiring ==
    ASSUME SequenceInv, NEW K
    PROVE  /\ WithExpired(K) \in Tables /\ DOMAIN WithExpired(K) = DOMAIN challenges
           /\ \A k \in DOMAIN challenges :
                /\ k \notin K => WithExpired(K)[k] = challenges[k]
                /\ k \in K => WithExpired(K)[k].status = "EXPIRED"
                /\ WithExpired(K)[k].submission = challenges[k].submission
<1> DEFINE w == WithExpired(K)
<1>1. DOMAIN challenges \in SUBSET Keys /\ challenges \in [DOMAIN challenges -> Challenge]
  BY TableRows DEF SequenceInv
<1>2. PICK no \in BOOLEAN : no = FALSE
  OBVIOUS
<1>3. w = [k \in DOMAIN challenges |->
             IF k \in K THEN [challenges[k] EXCEPT !.status = "EXPIRED", !.late = no]
             ELSE challenges[k]]
  BY <1>2 DEF WithExpired
<1> HIDE DEF w
<1>4. ASSUME NEW k \in DOMAIN challenges, k \in K
      PROVE  w[k] \in Challenge /\ w[k].status = "EXPIRED"
             /\ w[k].submission = challenges[k].submission
  <2> DEFINE c == [challenges[k] EXCEPT !.status = "EXPIRED", !.late = no]
  <2>1. challenges[k] \in Challenge
    BY <1>1
  <2>2. c \in Challenge /\ c.status = "EXPIRED" /\ c.submission = challenges[k].submission
    BY <2>1 DEF Challenge, TERMINAL_CHALLENGE_STATES
  <2>3. w[k] = c
    BY <1>3, <1>4
  <2> QED BY <2>2, <2>3
<1>5. ASSUME NEW k \in DOMAIN challenges, k \notin K PROVE w[k] = challenges[k]
  BY <1>3, <1>5
<1>6. w \in [DOMAIN challenges -> Challenge]
  BY <1>1, <1>3, <1>4, <1>5
<1>7. w \in Tables /\ DOMAIN w = DOMAIN challenges
  BY <1>1, <1>6, TableOf
<1> QED BY <1>4, <1>5, <1>7 DEF w

LEMMA ExpiringStaysOpen ==
    ASSUME SequenceInv, NEW K, challenges' = WithExpired(K)
    PROVE  ActiveIsOpen'
BY Expiring DEF ActiveIsOpen, SequenceInv, ACTIVE_CHALLENGE_STATES

LEMMA NewIs == NewChallenge \in Challenge /\ NewChallenge.submission = NoSubmission
               /\ NewChallenge.status = "ISSUED"
<1>1. PICK no \in BOOLEAN : no = FALSE
  OBVIOUS
<1>2. NewChallenge = [status |-> "ISSUED", submission |-> NoSubmission, late |-> no]
  BY <1>1 DEF NewChallenge
<1> QED BY <1>2 DEF Challenge, ACTIVE_CHALLENGE_STATES

LEMMA IssueNextWrites ==
    ASSUME SequenceInv, NEW r \in Requests \cup {Now}, IssueNext(r)
    PROVE  \E K : Writes(r, K)
<1> DEFINE d == PastActive(Seen(r))
           t == Marked(d)
           new == NextKey(t)
           w == WithExpired(d.lapsed)
<1>1. Sees(d) /\ DOMAIN t = DOMAIN d.rows
  BY PastIs, MarkedIs
<1>2. /\ Open(r) /\ locked' = locked /\ Free(r, d.lapsed)
      /\ new[1] <= ChallengeCount /\ new \notin DOMAIN challenges
      /\ challenges' = [j \in DOMAIN challenges \cup {new} |-> IF j = new THEN NewChallenge ELSE w[j]]
      /\ WriteSession(d, "CHALLENGES_IN_PROGRESS")
      /\ view' = [q \in Requests |-> IF q = r THEN Closed ELSE view[q]]
      /\ overdue' = overdue
  BY Zenon DEF IssueNext
<1>3. r \in Requests => locked[r] = {}
  BY DEF IssueNext
<1> HIDE DEF d, t
<1>4. new \in Keys /\ Numbered(DOMAIN t \cup {new})
  BY <1>1, <1>2, NextIsNumbered DEF Sees
<1> HIDE DEF new, w
<1>5. Numbered(DOMAIN challenges \cup {new})
  <2>1. DOMAIN challenges \cup (DOMAIN t \cup {new}) = DOMAIN challenges \cup {new}
    BY <1>1 DEF Sees
  <2>2. Numbered(DOMAIN challenges)
    BY DEF SequenceInv
  <2> QED BY <1>4, <2>1, <2>2, NumberedUnion
<1>6. /\ w \in [DOMAIN challenges -> Challenge]
      /\ \A k \in DOMAIN challenges : /\ k \notin d.lapsed => w[k] = challenges[k]
                                      /\ k \in d.lapsed => w[k].status = "EXPIRED"
                                      /\ w[k].submission = challenges[k].submission
  BY Expiring, TableRows DEF w
<1>7. challenges' \in [DOMAIN challenges \cup {new} -> Challenge]
  BY <1>2, <1>6, NewIs
<1>8. challenges' \in Tables /\ DOMAIN challenges' = DOMAIN challenges \cup {new}
  BY <1>5, <1>7, TableOf DEF Numbered
<1>9. \A k \in DOMAIN challenges : challenges'[k] = w[k]
  BY <1>2
<1>10. ActiveIsOpen'
  <2> SUFFICES ASSUME NEW k \in DOMAIN challenges \cup {new},
                      challenges'[k].status \in ACTIVE_CHALLENGE_STATES
               PROVE  challenges'[k].submission = NoSubmission
    BY <1>8 DEF ActiveIsOpen
  <2>1. CASE k = new
    BY <1>2, <2>1, NewIs
  <2>2. CASE k # new
    BY <1>6, <1>9, <2>2 DEF SequenceInv, ActiveIsOpen, ACTIVE_CHALLENGE_STATES
  <2> QED BY <2>1, <2>2
<1>11. session' \in SessionStatus
  BY <1>2, SessionWritten DEF SequenceInv, SessionStatus
<1>12. /\ \A q \in Requests : view'[q] = IF q = r THEN Closed ELSE view[q]
       /\ view' \in [Requests -> Views]
  BY <1>2, ClosedIs DEF SequenceInv
<1>13. /\ \A q \in Requests : locked'[q] = IF q = r THEN {} ELSE locked[q]
       /\ locked' \in [Requests -> SUBSET Keys]
  BY <1>2, <1>3 DEF SequenceInv
<1>14. Writes(r, d.lapsed)
  BY <1>2, <1>5, <1>6, <1>8, <1>9, <1>10, <1>11, <1>12, <1>13 DEF Writes
<1> QED BY <1>14

LEMMA IssueNoneWrites ==
    ASSUME SequenceInv, NEW r \in Requests \cup {Now}, IssueNone(r)
    PROVE  \E K : Writes(r, K)
<1> DEFINE d == PastActive(Seen(r))
           final == Finalized(Marked(d), "CHALLENGES_IN_PROGRESS")
<1>1. /\ Free(r, d.lapsed) /\ challenges' = WithExpired(d.lapsed)
      /\ WriteSession(d, final) /\ Close(r) /\ overdue' = overdue
  BY Zenon DEF IssueNone
<1>2. final \in SessionStatus
  BY FinalStatus DEF SessionStatus
<1> HIDE DEF d, final
<1>3. session' \in SessionStatus
  BY <1>1, <1>2, SessionWritten DEF SequenceInv
<1>4. ActiveIsOpen'
  BY <1>1, ExpiringStaysOpen
<1>5. Numbered(DOMAIN challenges)
  BY DEF SequenceInv
<1>6. Writes(r, d.lapsed)
  BY <1>1, <1>3, <1>4, <1>5, Closing, Expiring DEF Writes
<1> QED BY <1>6

(* Nobody else holds the row that a request holds.                         *)
LEMMA HeldIsFree ==
    ASSUME SequenceInv, NEW r \in Requests \cup {Now}, NEW k, Holds(r, k)
    PROVE  Free(r, {k})
BY ChallengeAssumption DEF SequenceInv, Exclusive, Holds, Free

(* And the row is as the request saw it, but for its deadline.             *)
LEMMA HeldIsSeen ==
    ASSUME SequenceInv, NEW r \in Requests \cup {Now}, NEW k \in DOMAIN challenges, Holds(r, k)
    PROVE  /\ k \in DOMAIN Seen(r).rows
           /\ Seen(r).rows[k].status = challenges[k].status
           /\ Seen(r).rows[k].submission = challenges[k].submission
<1>1. CASE r = Now
  BY <1>1, StoredIs DEF Seen
<1>2. CASE r # Now
  BY <1>2 DEF SequenceInv, HoldsFresh, Holds, Seen
<1> QED BY <1>1, <1>2

LEMMA StartWrites ==
    ASSUME SequenceInv, NEW r \in Requests \cup {Now}, NEW k \in DOMAIN challenges, Start(r, k)
    PROVE  Writes(r, {k})
<1>1. Free(r, {k}) /\ Close(r) /\ UNCHANGED <<session, overdue>> /\ Holds(r, k)
  BY HeldIsFree DEF Start
<1>2. Numbered(DOMAIN challenges) /\ session \in SessionStatus
  BY DEF SequenceInv
<1>3. CASE challenges' = WithExpired({k})
  BY <1>1, <1>2, <1>3, ExpiringStaysOpen, Closing, Expiring DEF Writes
<1>4. CASE /\ Seen(r).rows[k].status = "ISSUED"
           /\ challenges' = [challenges EXCEPT ![k].status = "STARTED"]
  <2> DEFINE c == [challenges[k] EXCEPT !.status = "STARTED"]
  <2>1. challenges \in [DOMAIN challenges -> Challenge] /\ DOMAIN challenges \in SUBSET Keys
    BY TableRows DEF SequenceInv
  <2>2. c \in Challenge /\ c.submission = challenges[k].submission
    BY <2>1 DEF Challenge, ACTIVE_CHALLENGE_STATES
  <2>3. challenges' = [challenges EXCEPT ![k] = c]
    BY <1>4
  <2> HIDE DEF c
  <2>4. challenges' \in [DOMAIN challenges -> Challenge] /\ challenges'[k] = c
        /\ \A j \in DOMAIN challenges \ {k} : challenges'[j] = challenges[j]
    BY <2>1, <2>2, <2>3
  <2>5. challenges' \in Tables /\ DOMAIN challenges' = DOMAIN challenges
    BY <2>1, <2>4, TableOf
  <2>6. challenges[k].status = "ISSUED"
    BY <1>1, <1>4, HeldIsSeen
  <2>7. ActiveIsOpen'
    BY <2>2, <2>4, <2>5, <2>6 DEF ActiveIsOpen, SequenceInv, ACTIVE_CHALLENGE_STATES
  <2> QED BY <1>1, <1>2, <2>2, <2>4, <2>5, <2>7, Closing DEF Writes
<1> QED BY <1>3, <1>4 DEF Start

(* A first submission fills a row that had none.                           *)
LEMMA SubmitWrites ==
    ASSUME SequenceInv, NEW r \in Requests \cup {Now}, NEW k \in DOMAIN challenges,
           NEW s \in Submissions, NEW outcome \in Results, Submit(r, k, s, outcome)
    PROVE  /\ Writes(r, {k})
           /\ challenges[k].status = "STARTED"
           /\ challenges'[k].status = outcome
           /\ DOMAIN challenges' = DOMAIN challenges
<1> DEFINE d == Seen(r)
           c == [challenges[k] EXCEPT !.status = outcome, !.submission = s, !.late = FALSE]
           t == [d.rows EXCEPT ![k] = c]
           final == IF k[1] >= ChallengeCount /\ ~MayRetry(t, k)
                    THEN Finalized(t, d.session) ELSE d.session
<1>1. /\ Holds(r, k) /\ Submittable(d, k) /\ challenges' = [challenges EXCEPT ![k] = c]
      /\ WriteSession(d, final) /\ Close(r) /\ overdue' = overdue
  BY Zenon DEF Submit
<1>2. Free(r, {k}) /\ challenges[k].status = "STARTED"
  BY <1>1, HeldIsFree, HeldIsSeen DEF Submittable
<1>3. challenges \in [DOMAIN challenges -> Challenge] /\ DOMAIN challenges \in SUBSET Keys
  BY TableRows DEF SequenceInv
<1>4. c \in Challenge /\ c.status = outcome
  <2>1. PICK no \in BOOLEAN : no = FALSE
    OBVIOUS
  <2> DEFINE c1 == [challenges[k] EXCEPT !.status = outcome]
             c2 == [c1 EXCEPT !.submission = s]
             c3 == [c2 EXCEPT !.late = no]
  <2>2. c = c3
    BY <2>1
  <2>3. c1 \in Challenge /\ c1.status = outcome
    BY <1>3 DEF Challenge, TERMINAL_CHALLENGE_STATES
  <2> HIDE DEF c1
  <2>4. c2 \in Challenge /\ c2.status = outcome
    BY <2>3 DEF Challenge
  <2> HIDE DEF c2
  <2>5. c3 \in Challenge /\ c3.status = outcome
    BY <2>4 DEF Challenge
  <2> QED BY <2>2, <2>5
<1>5. final \in SessionStatus
  <2>1. d.session \in SessionStatus
    BY SeenIs DEF Sees, Views
  <2> HIDE DEF d, t
  <2> QED BY <2>1, FinalStatus
<1> HIDE DEF c, d, t, final
<1>6. challenges' \in [DOMAIN challenges -> Challenge] /\ challenges'[k] = c
      /\ \A j \in DOMAIN challenges \ {k} : challenges'[j] = challenges[j]
  BY <1>1, <1>3, <1>4
<1>7. challenges' \in Tables /\ DOMAIN challenges' = DOMAIN challenges
  BY <1>3, <1>6, TableOf
<1>8. challenges[k].submission = NoSubmission
  BY <1>2 DEF SequenceInv, ActiveIsOpen, ACTIVE_CHALLENGE_STATES
<1>9. ActiveIsOpen'
  BY <1>4, <1>6, <1>7 DEF ActiveIsOpen, SequenceInv, ACTIVE_CHALLENGE_STATES, Results
<1>10. session' \in SessionStatus /\ Numbered(DOMAIN challenges)
  BY <1>1, <1>5, SessionWritten DEF SequenceInv
<1> QED BY <1>1, <1>2, <1>4, <1>6, <1>7, <1>8, <1>9, <1>10, Closing DEF Writes

-----------------------------------------------------------------------------
(* Reading and locking.                                                    *)

LEMMA ReadingKeeps ==
    ASSUME SequenceInv, UNCHANGED rows, view' \in [Requests -> Views],
           locked' \in [Requests -> SUBSET Keys], Exclusive',
           \A q \in Requests : Sees(view'[q]) /\ HoldsFresh(q)'
    PROVE  SequenceInv'
BY DEF SequenceInv, rows, Sees, ActiveIsOpen

LEMMA ViewOf ==
    ASSUME SequenceInv, NEW r \in Requests, NEW d, Sees(d), view' = [view EXCEPT ![r] = d]
    PROVE  /\ view' \in [Requests -> Views]
           /\ \A q \in Requests : view'[q] = IF q = r THEN d ELSE view[q]
           /\ \A q \in Requests : Sees(view'[q])
BY DEF SequenceInv, Sees

(* A request that reads holds no row: one that does has a view.            *)
LEMMA ClosedHoldsNone ==
    ASSUME SequenceInv, NEW r \in Requests, ~Open(r)
    PROVE  locked[r] = {}
BY ClosedIs DEF SequenceInv, Open, HoldsFresh

LEMMA LoadKeeps ==
    ASSUME SequenceInv, NEW r \in Requests, Load(r)
    PROVE  SequenceInv'
<1>1. view' = [view EXCEPT ![r] = Stored] /\ UNCHANGED <<rows, locked>> /\ locked[r] = {}
  BY ClosedHoldsNone DEF Load
<1>2. Sees(Stored)
  BY StoredIs
<1>3. /\ view' \in [Requests -> Views]
      /\ \A q \in Requests : view'[q] = IF q = r THEN Stored ELSE view[q]
      /\ \A q \in Requests : Sees(view'[q])
  BY <1>1, <1>2, ViewOf
<1>4. Exclusive' /\ \A q \in Requests : HoldsFresh(q)'
  BY <1>1, <1>3 DEF SequenceInv, Exclusive, HoldsFresh, rows
<1>5. locked' \in [Requests -> SUBSET Keys]
  BY <1>1 DEF SequenceInv
<1> QED BY <1>1, <1>3, <1>4, <1>5, ReadingKeeps

LEMMA LockKeeps ==
    ASSUME SequenceInv, NEW r \in Requests, NEW k \in DOMAIN challenges, Lock(r, k)
    PROVE  SequenceInv'
<1>1. /\ view' = [view EXCEPT ![r] = Stored] /\ locked' = [locked EXCEPT ![r] = {k}]
      /\ UNCHANGED rows /\ Free(r, {k})
  BY DEF Lock
<1>2. Sees(Stored) /\ Stored.rows = challenges
  BY StoredIs
<1>3. /\ view' \in [Requests -> Views]
      /\ \A q \in Requests : view'[q] = IF q = r THEN Stored ELSE view[q]
      /\ \A q \in Requests : Sees(view'[q])
  BY <1>1, <1>2, ViewOf
<1>4. k \in Keys
  BY TableRows DEF SequenceInv
<1>5. /\ locked' \in [Requests -> SUBSET Keys]
      /\ \A q \in Requests : locked'[q] = IF q = r THEN {k} ELSE locked[q]
  BY <1>1, <1>4 DEF SequenceInv
<1>6. Exclusive'
  BY <1>1, <1>5 DEF SequenceInv, Exclusive, Free
<1>7. ASSUME NEW q \in Requests PROVE HoldsFresh(q)'
  BY <1>1, <1>2, <1>3, <1>5 DEF SequenceInv, HoldsFresh, rows
<1> QED BY <1>1, <1>3, <1>5, <1>6, <1>7, ReadingKeeps

LEMMA RereadKeeps ==
    ASSUME SequenceInv, NEW r \in Requests, Reread(r)
    PROVE  SequenceInv'
<1> DEFINE d == view[r]
           old == IF locked[r] = {} THEN d.rows ELSE << >>
           known == [k \in DOMAIN challenges \cup DOMAIN old |->
                        IF k \in DOMAIN old THEN old[k] ELSE challenges[k]]
           lapsed == IF locked[r] = {} THEN LateActive(d) ELSE {}
           d1 == [d EXCEPT !.rows = known]
           d2 == [d1 EXCEPT !.lapsed = lapsed]
<1>1. view' = [view EXCEPT ![r].rows = known, ![r].lapsed = lapsed] /\ UNCHANGED <<rows, locked>>
  BY Zenon DEF Reread
<1>2. Sees(d) /\ HoldsFresh(r) /\ challenges \in Tables /\ Numbered(DOMAIN challenges)
      /\ view \in [Requests -> Views]
  BY DEF SequenceInv
<1>3. old \in Tables /\ DOMAIN old \subseteq DOMAIN challenges
  BY <1>2, ClosedIs DEF Sees, Views, Closed
<1>4. known \in Tables /\ DOMAIN known = DOMAIN challenges
  <2>1. known \in [DOMAIN challenges \cup DOMAIN old -> Challenge]
    BY <1>2, <1>3, TableRows
  <2>2. DOMAIN challenges \cup DOMAIN old = DOMAIN challenges
    BY <1>3
  <2> QED BY <1>2, <2>1, <2>2, TableOf, TableRows
<1>5. lapsed \in SUBSET Keys /\ lapsed \subseteq DOMAIN challenges
  <2>1. LateActive(d) \subseteq DOMAIN challenges
    BY <1>2 DEF LateActive, ActiveKeys, Sees
  <2> QED BY <1>2, <2>1, TableRows
<1>6. locked[r] # {} => \A k \in DOMAIN challenges : known[k] = challenges[k]
  BY ClosedIs DEF Closed
<1>7. view' = [view EXCEPT ![r] = d2]
  <2> HIDE DEF known, lapsed
  <2> QED BY <1>1, <1>2 DEF Views
<1> HIDE DEF d, known, lapsed
<1>8. d1 \in Views /\ d1.rows = known
  BY <1>2, <1>4 DEF Sees, Views
<1> HIDE DEF d1
<1>9. d2 \in Views /\ d2.rows = known /\ d2.lapsed = lapsed
  BY <1>5, <1>8 DEF Views
<1> HIDE DEF d2
<1>10. Sees(d2)
  BY <1>2, <1>4, <1>5, <1>9 DEF Sees
<1>11. /\ view' \in [Requests -> Views]
       /\ \A q \in Requests : view'[q] = IF q = r THEN d2 ELSE view[q]
       /\ \A q \in Requests : Sees(view'[q])
  BY <1>7, <1>10, ViewOf
<1>12. locked[r] \subseteq DOMAIN challenges
  BY <1>2 DEF HoldsFresh, d, Sees
<1>13. ASSUME NEW q \in Requests PROVE HoldsFresh(q)'
  <2>1. CASE q = r
    BY <1>1, <1>4, <1>6, <1>9, <1>11, <1>12, <2>1 DEF HoldsFresh, rows
  <2>2. CASE q # r
    BY <1>1, <1>11, <2>2 DEF HoldsFresh, rows, SequenceInv
  <2> QED BY <2>1, <2>2
<1>14. Exclusive' /\ locked' \in [Requests -> SUBSET Keys]
  BY <1>1 DEF SequenceInv, Exclusive
<1> QED BY <1>1, <1>11, <1>13, <1>14, ReadingKeeps

LEMMA RollBackKeeps ==
    ASSUME SequenceInv, NEW r \in Requests, RollBack(r)
    PROVE  SequenceInv'
<1>1. /\ \A q \in Requests : view'[q] = IF q = r THEN Closed ELSE view[q]
      /\ \A q \in Requests : locked'[q] = IF q = r THEN {} ELSE locked[q]
      /\ view' \in [Requests -> Views] /\ locked' \in [Requests -> SUBSET Keys]
      /\ UNCHANGED rows
  BY Closing DEF RollBack
<1>2. Exclusive'
  BY <1>1 DEF SequenceInv, Exclusive
<1>3. Numbered({})
  BY DEF Numbered
<1>4. ASSUME NEW q \in Requests PROVE Sees(view'[q]) /\ HoldsFresh(q)'
  <2>1. CASE q = r
    <3>1. view'[q] = Closed /\ locked'[q] = {}
      BY <1>1, <2>1
    <3> QED BY <1>3, <3>1, ClosedIs DEF Sees, HoldsFresh
  <2>2. CASE q # r
    <3>1. view'[q] = view[q] /\ locked'[q] = locked[q]
      BY <1>1, <2>2
    <3> QED BY <1>1, <3>1 DEF SequenceInv, Sees, HoldsFresh, rows
  <2> QED BY <2>1, <2>2
<1> QED BY <1>1, <1>2, <1>4, ReadingKeeps

(* The clock passes a deadline of a challenge, of the session, or the      *)
(* session ends.                                                           *)
LEMMA LapseKeeps ==
    ASSUME SequenceInv, NEW k \in DOMAIN challenges, Lapse(k)
    PROVE  /\ SequenceInv' /\ DOMAIN challenges' = DOMAIN challenges
           /\ \A j \in DOMAIN challenges :
                /\ challenges'[j].status = challenges[j].status
                /\ challenges'[j].submission = challenges[j].submission
<1>1. challenges \in [DOMAIN challenges -> Challenge] /\ DOMAIN challenges \in SUBSET Keys
  BY TableRows DEF SequenceInv
<1>2. PICK yes \in BOOLEAN : yes = TRUE
  OBVIOUS
<1> DEFINE c == [challenges[k] EXCEPT !.late = yes]
<1>3. c \in Challenge /\ c.status = challenges[k].status /\ c.submission = challenges[k].submission
  BY <1>1 DEF Challenge
<1>4. challenges' = [challenges EXCEPT ![k] = c] /\ UNCHANGED <<session, overdue, view, locked>>
  BY <1>2 DEF Lapse
<1> HIDE DEF c
<1>5. challenges' \in [DOMAIN challenges -> Challenge]
      /\ \A j \in DOMAIN challenges : /\ challenges'[j].status = challenges[j].status
                                      /\ challenges'[j].submission = challenges[j].submission
  BY <1>1, <1>3, <1>4
<1>6. challenges' \in Tables /\ DOMAIN challenges' = DOMAIN challenges
  BY <1>1, <1>5, TableOf
<1>7. ActiveIsOpen' /\ Exclusive'
  BY <1>4, <1>5, <1>6 DEF SequenceInv, ActiveIsOpen, Exclusive
<1>8. ASSUME NEW q \in Requests PROVE Sees(view[q])' /\ HoldsFresh(q)'
  <2>1. Sees(view[q]) /\ HoldsFresh(q)
    BY DEF SequenceInv
  <2>2. Sees(view[q])'
    BY <1>4, <1>6, <2>1 DEF Sees
  <2>3. locked[q] \subseteq DOMAIN challenges
    BY <2>1 DEF Sees, HoldsFresh
  <2> QED BY <1>4, <1>5, <2>1, <2>2, <2>3 DEF HoldsFresh
<1> QED BY <1>4, <1>5, <1>6, <1>7, <1>8 DEF SequenceInv

LEMMA ClocksKeep ==
    ASSUME SequenceInv, End \/ Overrun
    PROVE  SequenceInv' /\ UNCHANGED challenges
<1>1. session' \in SessionStatus /\ overdue' \in BOOLEAN /\ UNCHANGED <<challenges, view, locked>>
  BY DEF End, Overrun, SequenceInv, SessionStatus
<1>2. ActiveIsOpen' /\ Exclusive' /\ \A q \in Requests : Sees(view[q])' /\ HoldsFresh(q)'
  BY <1>1 DEF SequenceInv, ActiveIsOpen, Exclusive, Sees, HoldsFresh
<1> QED BY <1>1, <1>2 DEF SequenceInv

-----------------------------------------------------------------------------
(* However requests overlap.                                               *)

KeepsEvidence ==
    \A k \in DOMAIN challenges :
        challenges[k].submission # NoSubmission =>
            challenges'[k].submission = challenges[k].submission

LEMMA SequenceStep ==
    ASSUME SequenceInv, [Next]_vars
    PROVE  SequenceInv' /\ KeepsEvidence
<1>1. CASE UNCHANGED vars
  BY <1>1 DEF vars, SequenceInv, ActiveIsOpen, Exclusive, Sees, HoldsFresh, KeepsEvidence
<1>2. ASSUME NEW r \in Requests \cup {Now}, HandlerStep(r)
      PROVE  SequenceInv' /\ KeepsEvidence
  <2>1. \E K : Writes(r, K)
    BY <1>2, IssueNextWrites, IssueNoneWrites, StartWrites, SubmitWrites DEF HandlerStep
  <2> QED BY <2>1, WritesKeep DEF Writes, KeepsEvidence
<1>3. ASSUME NEW r \in Requests,
             Load(r) \/ Reread(r) \/ RollBack(r) \/ \E k \in DOMAIN challenges : Lock(r, k)
      PROVE  SequenceInv' /\ KeepsEvidence
  <2>1. SequenceInv'
    BY <1>3, LoadKeeps, RereadKeeps, RollBackKeeps, LockKeeps
  <2>2. UNCHANGED challenges
    BY <1>3 DEF Load, Reread, RollBack, Lock, rows
  <2> QED BY <2>1, <2>2 DEF KeepsEvidence
<1>4. ASSUME NEW k \in DOMAIN challenges, Lapse(k)
      PROVE  SequenceInv' /\ KeepsEvidence
  BY <1>4, LapseKeeps DEF KeepsEvidence
<1>5. CASE End \/ Overrun
  BY <1>5, ClocksKeep DEF KeepsEvidence
<1> QED BY <1>1, <1>2, <1>3, <1>4, <1>5 DEF Next

LEMMA SequenceHolds == Spec => []SequenceInv
<1>1. Init => SequenceInv
  <2> SUFFICES ASSUME Init PROVE SequenceInv
    OBVIOUS
  <2>1. << >> \in [{} -> Challenge] /\ DOMAIN << >> = {} /\ Numbered({})
    BY DEF Numbered
  <2>2. challenges \in Tables /\ DOMAIN challenges = {}
    BY <2>1, TableOf DEF Init
  <2>3. session \in SessionStatus /\ overdue \in BOOLEAN
    BY DEF Init, SessionStatus
  <2>4. \A r \in Requests : view[r] = Closed /\ locked[r] = {}
    BY DEF Init
  <2>5. view \in [Requests -> Views] /\ locked \in [Requests -> SUBSET Keys]
    BY ClosedIs DEF Init
  <2>6. ActiveIsOpen /\ Exclusive
    BY <2>2, <2>4 DEF ActiveIsOpen, Exclusive
  <2>7. \A r \in Requests : Sees(view[r]) /\ HoldsFresh(r)
    BY <2>1, <2>2, <2>4, ClosedIs DEF Sees, HoldsFresh
  <2> QED BY <2>1, <2>2, <2>3, <2>5, <2>6, <2>7 DEF SequenceInv
<1>2. SequenceInv /\ [Next]_vars => SequenceInv'
  BY SequenceStep
<1> QED BY <1>1, <1>2, PTL DEF Spec

(* The session, its challenges and the locks are of their types.           *)
THEOREM TypeCorrect == Spec => []TypeOK
<1>1. SequenceInv => TypeOK
  <2> SUFFICES ASSUME SequenceInv PROVE TypeOK
    OBVIOUS
  <2>1. \A r \in Requests : locked[r] \in SUBSET DOMAIN challenges
    BY DEF SequenceInv, Sees, HoldsFresh
  <2> QED BY <2>1, TableRows DEF SequenceInv, TypeOK
<1> QED BY <1>1, SequenceHolds, PTL

(* Sequence and attempt numbers leave no gap and stay in budget, however   *)
(* requests for the next challenge overlap: issue_next_challenge and the   *)
(* unique constraint.                                                      *)
THEOREM NumbersLeaveNoGap == Spec => []NumberedWithoutGaps
<1>1. SequenceInv => NumberedWithoutGaps
  <2> SUFFICES ASSUME SequenceInv, NEW k \in DOMAIN challenges
               PROVE  /\ k[1] <= ChallengeCount /\ k[2] <= MaxRetries + 1
                      /\ k[1] > 1 => <<k[1] - 1, 1>> \in DOMAIN challenges
                      /\ k[2] > 1 => <<k[1], k[2] - 1>> \in DOMAIN challenges
    BY DEF NumberedWithoutGaps
  <2>1. Numbered(DOMAIN challenges) /\ k \in Keys
    BY DEF SequenceInv, Numbered
  <2>2. k[2] > 1 => k[2] - 1 \in 1 .. k[2]
    BY <2>1, KeyParts
  <2> QED BY <2>1, <2>2 DEF Numbered
<1> QED BY <1>1, SequenceHolds, PTL

(* The evidence recorded for a challenge is that of its first submission,  *)
(* though another is in flight: submit_challenge holds the row.            *)
THEOREM EvidenceAlwaysStands == Spec => EvidenceStands
<1>1. SequenceInv /\ [Next]_vars =>
        [\A k \in DOMAIN challenges :
            challenges[k].submission # NoSubmission =>
                challenges'[k].submission = challenges[k].submission]_vars
  BY SequenceStep DEF KeepsEvidence
<1> QED BY <1>1, SequenceHolds, PTL DEF Spec, EvidenceStands

-----------------------------------------------------------------------------
(* When requests do not overlap.                                           *)

Top(t, k) == \A j \in DOMAIN t : Below(j, k)

(* A latest attempt that may be tried again.                               *)
Again(t, k) == Retryable(t[k]) /\ k[2] <= MaxRetries

(* Only the last challenge is active, and all before it are settled.       *)
InOrder(t) ==
    /\ \A k \in ActiveKeys(t) : Top(t, k)
    /\ \A k \in LatestKeys(t) : Top(t, k) \/ ~Again(t, k)

AllSettled(t) ==
    /\ ActiveKeys(t) = {}
    /\ \A k \in LatestKeys(t) : ~Again(t, k)

Outcome(status, t) ==
    status \in ChallengesOver =>
        /\ Sequences(t) = 1 .. ChallengeCount
        /\ AllSettled(t)
        /\ status = "CHALLENGE_FAILED" <=> Cardinality(ExplicitFailures(t)) >= FailureLimit

SameStatuses(t, u) == DOMAIN t = DOMAIN u /\ \A k \in DOMAIN t : t[k].status = u[k].status

LEMMA StatusesDecide ==
    ASSUME NEW t, NEW u, SameStatuses(t, u), NEW status
    PROVE  /\ InOrder(t) => InOrder(u)
           /\ AllSettled(t) => AllSettled(u)
           /\ Outcome(status, t) => Outcome(status, u)
<1>1. ActiveKeys(t) = ActiveKeys(u) /\ LatestKeys(t) = LatestKeys(u)
  BY DEF SameStatuses, ActiveKeys, LatestKeys
<1>2. ExplicitFailures(t) = ExplicitFailures(u) /\ Sequences(t) = Sequences(u)
  BY <1>1 DEF SameStatuses, ExplicitFailures, Sequences, LatestKeys
<1>3. \A k \in DOMAIN t : (Top(t, k) <=> Top(u, k)) /\ (Again(t, k) <=> Again(u, k))
  BY DEF SameStatuses, Top, Again, Retryable
<1>4. ActiveKeys(t) \subseteq DOMAIN t /\ LatestKeys(t) \subseteq DOMAIN t
  BY DEF ActiveKeys, LatestKeys
<1>5. InOrder(t) => InOrder(u)
  BY <1>1, <1>3, <1>4 DEF InOrder
<1>6. AllSettled(t) <=> AllSettled(u)
  BY <1>1, <1>3, <1>4 DEF AllSettled
<1> QED BY <1>2, <1>5, <1>6 DEF Outcome

LEMMA AgainIsMayRetry ==
    ASSUME NEW t, Numbered(DOMAIN t), NEW k \in LatestKeys(t)
    PROVE  MayRetry(t, k) <=> Again(t, k)
<1>1. k \in DOMAIN t /\ \A j \in DOMAIN t : j[1] = k[1] => j[2] <= k[2]
  BY DEF LatestKeys
<1>2. RetryCount(t, k[1]) = k[2] - 1 /\ k[2] \in Nat
  BY <1>1, RetriesAre, KeyParts DEF Numbered
<1> QED BY <1>2, ChallengeAssumption DEF MayRetry, Again

LEMMA TopIsLatest ==
    ASSUME NEW t, Numbered(DOMAIN t), NEW k \in DOMAIN t, Top(t, k)
    PROVE  k \in LatestKeys(t) /\ k = Last(DOMAIN t)
<1>1. \A j \in DOMAIN t : Below(j, k) /\ j \in Keys
  BY DEF Top, Numbered
<1>2. k \in LatestKeys(t)
  BY <1>1, KeyParts DEF LatestKeys, Below
<1> QED BY <1>1, <1>2, LastIsUnique

LEMMA OneTop ==
    ASSUME NEW t, Numbered(DOMAIN t), NEW j \in DOMAIN t, NEW k \in DOMAIN t, Top(t, j), Top(t, k)
    PROVE  j = k
BY TopIsLatest

(* The table of a stage that is over holds every challenge.                *)
LEMMA FinalOutcome ==
    ASSUME NEW t, Numbered(DOMAIN t), AllSettled(t)
    PROVE  Outcome(Finalized(t, "CHALLENGES_IN_PROGRESS"), t)
<1> DEFINE S == Sequences(t)
           final == Finalized(t, "CHALLENGES_IN_PROGRESS")
<1>1. S \in SUBSET (1 .. ChallengeCount)
  <2>1. ASSUME NEW k \in DOMAIN t PROVE k[1] \in 1 .. ChallengeCount
    <3>1. k \in Keys /\ k[1] <= ChallengeCount
      BY DEF Numbered
    <3> QED BY <3>1, KeyParts, ChallengeAssumption
  <2> QED BY <2>1 DEF Sequences
<1>2. IsFiniteSet(1 .. ChallengeCount) /\ Cardinality(1 .. ChallengeCount) = ChallengeCount
  <2>1. /\ IsFiniteSet(1 .. ChallengeCount)
        /\ Cardinality(1 .. ChallengeCount) = IF 1 > ChallengeCount THEN 0 ELSE ChallengeCount - 1 + 1
    BY ChallengeAssumption, FS_Interval
  <2> QED BY <2>1, ChallengeAssumption
<1>3. Cardinality(S) \in Nat /\ Cardinality(S) <= ChallengeCount
      /\ (Cardinality(S) = ChallengeCount => S = 1 .. ChallengeCount)
  BY <1>1, <1>2, FS_Subset, FS_CardinalityType
<1>4. CASE Cardinality(S) < ChallengeCount
  BY <1>4 DEF Finalized, Outcome, ChallengesOver
<1>5. CASE ~(Cardinality(S) < ChallengeCount)
  <2>1. S = 1 .. ChallengeCount
    BY <1>3, <1>5, ChallengeAssumption
  <2>2. final = IF Cardinality(ExplicitFailures(t)) >= FailureLimit THEN "CHALLENGE_FAILED"
                ELSE "CHALLENGES_COMPLETED"
    BY <1>5 DEF Finalized
  <2> HIDE DEF final
  <2>3. final = "CHALLENGE_FAILED" <=> Cardinality(ExplicitFailures(t)) >= FailureLimit
    BY <2>2
  <2>4. Outcome(final, t)
    BY <2>1, <2>3 DEF Outcome
  <2> QED BY <2>4 DEF final
<1> QED BY <1>4, <1>5

SerialInv == InOrder(challenges) /\ Outcome(session, challenges)

KeepsResults ==
    \A k \in DOMAIN challenges :
        challenges[k].status \in TERMINAL_CHALLENGE_STATES =>
            challenges'[k].status = challenges[k].status

LEMMA Statuses ==
    /\ ACTIVE_CHALLENGE_STATES \cap TERMINAL_CHALLENGE_STATES = {}
    /\ Results \subseteq TERMINAL_CHALLENGE_STATES
    /\ "EXPIRED" \in TERMINAL_CHALLENGE_STATES
    /\ "STARTED" \in ACTIVE_CHALLENGE_STATES /\ "ISSUED" \in ACTIVE_CHALLENGE_STATES
BY DEF ACTIVE_CHALLENGE_STATES, TERMINAL_CHALLENGE_STATES, Results

(* A request for the next challenge works on a table without active ones:  *)
(* the one that was has expired.                                           *)
LEMMA NothingActive ==
    ASSUME SequenceInv, InOrder(challenges),
           ActiveKeys(challenges) # {} => PastActive(Stored).lapsed # {}
    PROVE  /\ PastActive(Stored).lapsed = ActiveKeys(challenges)
           /\ SameStatuses(Marked(PastActive(Stored)), WithExpired(ActiveKeys(challenges)))
           /\ DOMAIN Marked(PastActive(Stored)) = DOMAIN challenges
           /\ ActiveKeys(Marked(PastActive(Stored))) = {}
           /\ \A k \in DOMAIN challenges :
                Top(challenges, k) \/ Marked(PastActive(Stored))[k] = challenges[k]
<1> DEFINE d == PastActive(Stored)
           t == Marked(d)
           active == ActiveKeys(challenges)
<1>1. Sees(d) /\ d.rows = challenges
  <2>1. Seen(Now) = Stored
    BY DEF Seen
  <2> QED BY <2>1, PastIs, StoredIs
<1>2. d.lapsed \subseteq active
  <2>1. Sees(Stored) /\ Stored.rows = challenges /\ Stored.lapsed = {}
    BY StoredIs
  <2> QED BY <2>1 DEF PastActive, LateActive, Sees, Views
<1>3. \A j, k \in active : j = k
  <2>1. active \subseteq DOMAIN challenges /\ \A k \in active : Top(challenges, k)
    BY DEF InOrder, ActiveKeys
  <2> QED BY <2>1, OneTop DEF SequenceInv
<1>4. d.lapsed = active
  BY <1>2, <1>3
<1> HIDE DEF d
<1>5. t = [k \in DOMAIN challenges |->
             IF k \in active THEN [challenges[k] EXCEPT !.status = "EXPIRED"] ELSE challenges[k]]
  BY <1>1, <1>4 DEF Marked
<1> HIDE DEF t
<1>6. \A k \in DOMAIN challenges :
        /\ k \in active => t[k].status = "EXPIRED"
        /\ k \notin active => t[k] = challenges[k]
  <2>1. \A k \in DOMAIN challenges : challenges[k] \in Challenge
    BY TableRows DEF SequenceInv
  <2> QED BY <1>5, <2>1 DEF Challenge
<1>7. SameStatuses(t, WithExpired(active)) /\ DOMAIN t = DOMAIN challenges
  BY <1>5, <1>6, Expiring DEF SameStatuses
<1>8. ActiveKeys(t) = {}
  BY <1>6, <1>7, Statuses DEF ActiveKeys
<1>9. \A k \in DOMAIN challenges : Top(challenges, k) \/ t[k] = challenges[k]
  BY <1>6 DEF InOrder
<1> QED BY <1>4, <1>7, <1>8, <1>9 DEF t, d

(* Marking keeps the earlier challenges settled.                           *)
LEMMA MarkedInOrder ==
    ASSUME NEW c, InOrder(c), NEW t, DOMAIN t = DOMAIN c, ActiveKeys(t) = {},
           \A k \in DOMAIN c : Top(c, k) \/ t[k] = c[k]
    PROVE  InOrder(t)
<1>1. LatestKeys(t) = LatestKeys(c)
  BY DEF LatestKeys
<1>2. \A k \in DOMAIN c : Top(t, k) <=> Top(c, k)
  BY DEF Top
<1>3. LatestKeys(c) \subseteq DOMAIN c
  BY DEF LatestKeys
<1> QED BY <1>1, <1>2, <1>3 DEF InOrder, Again

(* The next challenge comes when all before it are settled or when it is a *)
(* new attempt at the last.                                                *)
LEMMA NextInOrder ==
    ASSUME NEW t, Numbered(DOMAIN t), InOrder(t), ActiveKeys(t) = {},
           NextKey(t)[1] <= ChallengeCount,
           NEW c, DOMAIN c = DOMAIN t \cup {NextKey(t)},
           \A k \in DOMAIN t : k # NextKey(t) => c[k].status = t[k].status
    PROVE  InOrder(c)
<1> DEFINE new == NextKey(t)
           D == DOMAIN t
<1>1. /\ new \in Keys /\ \A j \in D : Below(j, new)
  BY NextIsNumbered
<1>2. Top(c, new)
  <2>1. Below(new, new)
    BY <1>1, KeyParts DEF Below
  <2> QED BY <1>1, <2>1 DEF Top
<1>3. ASSUME NEW k \in ActiveKeys(c) PROVE Top(c, k)
  <2>1. k \in DOMAIN c /\ c[k].status \in ACTIVE_CHALLENGE_STATES
    BY DEF ActiveKeys
  <2>2. k = new
    BY <2>1 DEF ActiveKeys
  <2> QED BY <1>2, <2>2
<1>4. ASSUME NEW k \in LatestKeys(c), k # new PROVE ~Again(c, k)
  <2>1. k \in D /\ \A j \in D \cup {new} : j[1] = k[1] => j[2] <= k[2]
    BY <1>4 DEF LatestKeys
  <2>2. k \in LatestKeys(t)
    BY <2>1 DEF LatestKeys
  <2>3. ~Again(t, k)
    <3>1. CASE Top(t, k)
      <4>1. k = Last(D) /\ D # {}
        BY <2>1, <3>1, TopIsLatest
      <4>2. CASE MayRetry(t, k)
        <5>1. new = <<k[1], k[2] + 1>>
          BY <4>1, <4>2 DEF NextKey
        <5>2. k[2] + 1 <= k[2] /\ k \in Keys
          BY <2>1, <5>1 DEF Numbered
        <5> QED BY <5>2, KeyParts
      <4>3. CASE ~MayRetry(t, k)
        BY <2>2, <4>3, AgainIsMayRetry
      <4> QED BY <4>2, <4>3
    <3>2. CASE ~Top(t, k)
      BY <2>2, <3>2 DEF InOrder
    <3> QED BY <3>1, <3>2
  <2>4. c[k].status = t[k].status
    BY <1>4, <2>1
  <2> QED BY <2>3, <2>4 DEF Again, Retryable
<1> QED BY <1>2, <1>3, <1>4 DEF InOrder

(* Nothing is left to issue when all are settled.                          *)
LEMMA NoneLeft ==
    ASSUME NEW t, Numbered(DOMAIN t), InOrder(t), ActiveKeys(t) = {},
           NextKey(t)[1] > ChallengeCount
    PROVE  AllSettled(t)
<1> SUFFICES ASSUME NEW k \in LatestKeys(t), Again(t, k) PROVE FALSE
  BY DEF AllSettled
<1>1. k \in DOMAIN t
  BY DEF LatestKeys
<1>2. k = Last(DOMAIN t) /\ DOMAIN t # {}
  BY <1>1, TopIsLatest DEF InOrder
<1>3. NextKey(t) = <<k[1], k[2] + 1>>
  BY <1>2, AgainIsMayRetry DEF NextKey
<1>4. k[1] <= ChallengeCount /\ k \in Keys
  BY <1>1 DEF Numbered
<1>5. NextKey(t)[1] = k[1]
  BY <1>3
<1> QED BY <1>4, <1>5, KeyParts, ChallengeAssumption

(* A row that changes its status where it is the last of all.              *)
LEMMA TopChanges ==
    ASSUME NEW t, Numbered(DOMAIN t), InOrder(t), NEW k \in DOMAIN t, Top(t, k),
           NEW c, DOMAIN c = DOMAIN t, \A j \in DOMAIN t \ {k} : c[j].status = t[j].status
    PROVE  /\ InOrder(c)
           /\ c[k].status \notin ACTIVE_CHALLENGE_STATES /\ ~Again(c, k) => AllSettled(c)
<1>1. LatestKeys(c) = LatestKeys(t) /\ \A j \in DOMAIN t : Top(c, j) <=> Top(t, j)
  BY DEF LatestKeys, Top
<1>2. \A j \in DOMAIN t \ {k} : ~Top(t, j)
  BY OneTop
<1>3. \A j \in DOMAIN t \ {k} : /\ j \in ActiveKeys(c) <=> j \in ActiveKeys(t)
                                /\ Again(c, j) <=> Again(t, j)
  BY DEF ActiveKeys, Again, Retryable
<1>4. ActiveKeys(c) \subseteq {k} /\ \A j \in LatestKeys(c) : j = k \/ ~Again(c, j)
  <2>1. ActiveKeys(c) \subseteq DOMAIN t /\ LatestKeys(t) \subseteq DOMAIN t
    BY DEF ActiveKeys, LatestKeys
  <2> QED BY <1>1, <1>2, <1>3, <2>1 DEF InOrder
<1> QED BY <1>1, <1>4 DEF InOrder, AllSettled, ActiveKeys

LEMMA SerialNow ==
    Seen(Now) = Stored
BY DEF Seen

LEMMA IssuedInOrder ==
    ASSUME SequenceInv, SerialInv, IssueNext(Now) \/ IssueNone(Now)
    PROVE  SerialInv' /\ KeepsResults
<1> DEFINE d == PastActive(Stored)
           t == Marked(d)
           w == WithExpired(ActiveKeys(challenges))
<1>1. ActiveKeys(challenges) # {} => PastActive(Stored).lapsed # {}
  <2>1. d.rows = challenges
    BY PastIs, SerialNow, StoredIs
  <2> QED BY <2>1, SerialNow DEF IssueNext, IssueNone
<1>2. /\ d.lapsed = ActiveKeys(challenges)
      /\ SameStatuses(t, w) /\ DOMAIN t = DOMAIN challenges /\ ActiveKeys(t) = {}
      /\ \A k \in DOMAIN challenges : Top(challenges, k) \/ t[k] = challenges[k]
  BY <1>1, NothingActive DEF SerialInv
<1>3. d.session = session /\ session' \in {"CHALLENGES_IN_PROGRESS",
                                           Finalized(t, "CHALLENGES_IN_PROGRESS")}
  <2>1. d.session = session
    BY PastIs, SerialNow, StoredIs
  <2>2. session' = "CHALLENGES_IN_PROGRESS" \/ session' = Finalized(t, "CHALLENGES_IN_PROGRESS")
    BY <2>1, SerialNow DEF IssueNext, IssueNone, WriteSession
  <2> QED BY <2>1, <2>2
<1>4. Numbered(DOMAIN challenges) /\ InOrder(t)
  BY <1>2, MarkedInOrder DEF SequenceInv, SerialInv
<1>5. /\ DOMAIN w = DOMAIN challenges
      /\ \A k \in DOMAIN challenges : k \notin ActiveKeys(challenges) => w[k] = challenges[k]
  BY Expiring
<1>6. CASE IssueNext(Now)
  <2> DEFINE new == NextKey(t)
  <2>1. /\ new[1] <= ChallengeCount /\ new \notin DOMAIN challenges
        /\ challenges' = [j \in DOMAIN challenges \cup {new} |->
                             IF j = new THEN NewChallenge ELSE WithExpired(d.lapsed)[j]]
        /\ WriteSession(d, "CHALLENGES_IN_PROGRESS")
    BY <1>6, SerialNow, Zenon DEF IssueNext
  <2> HIDE DEF d, t, w, new
  <2>2. w = WithExpired(d.lapsed)
    BY <1>2 DEF w
  <2>3. \A j \in DOMAIN challenges : challenges'[j] = w[j]
    BY <2>1, <2>2
  <2>4. DOMAIN challenges' = DOMAIN t \cup {new}
        /\ \A k \in DOMAIN t : k # new => challenges'[k].status = t[k].status
    BY <1>2, <2>1, <2>3 DEF SameStatuses
  <2>5. InOrder(challenges')
    BY <1>2, <1>4, <2>1, <2>4, NextInOrder DEF new
  <2>6. session' = "CHALLENGES_IN_PROGRESS"
    BY <1>3, <2>1 DEF WriteSession
  <2>7. Outcome(session', challenges')
    BY <2>6 DEF Outcome, ChallengesOver
  <2>8. KeepsResults
    BY <1>5, <2>3, Statuses DEF KeepsResults, ActiveKeys
  <2> QED BY <2>5, <2>7, <2>8 DEF SerialInv
<1>7. CASE IssueNone(Now)
  <2>1. /\ NextKey(t)[1] > ChallengeCount
        /\ challenges' = WithExpired(d.lapsed)
        /\ WriteSession(d, Finalized(t, "CHALLENGES_IN_PROGRESS"))
    BY <1>7, SerialNow, Zenon DEF IssueNone
  <2> HIDE DEF d, t, w
  <2>2. challenges' = w
    BY <1>2, <2>1 DEF w
  <2>3. session' = Finalized(t, "CHALLENGES_IN_PROGRESS")
    BY <1>3, <2>1 DEF WriteSession
  <2>4. AllSettled(t) /\ Outcome(session', t)
    BY <1>2, <1>4, <2>1, <2>3, NoneLeft, FinalOutcome
  <2>5. InOrder(challenges') /\ Outcome(session', challenges')
    BY <1>2, <1>4, <2>2, <2>4, StatusesDecide
  <2>6. KeepsResults
    BY <1>5, <2>2, Statuses DEF KeepsResults, ActiveKeys
  <2> QED BY <2>5, <2>6 DEF SerialInv
<1> QED BY <1>6, <1>7

LEMMA StartedInOrder ==
    ASSUME SequenceInv, SerialInv, NEW k \in DOMAIN challenges, Start(Now, k)
    PROVE  SerialInv' /\ KeepsResults
<1>1. /\ session = "CHALLENGES_IN_PROGRESS" /\ UNCHANGED session
      /\ challenges[k].status \in ACTIVE_CHALLENGE_STATES
      /\ \/ challenges' = WithExpired({k})
         \/ challenges' = [challenges EXCEPT ![k].status = "STARTED"]
  BY SerialNow, StoredIs, Statuses DEF Start
<1>2. Top(challenges, k) /\ Numbered(DOMAIN challenges)
  BY <1>1 DEF SerialInv, InOrder, ActiveKeys, SequenceInv
<1>3. DOMAIN challenges' = DOMAIN challenges
      /\ \A j \in DOMAIN challenges \ {k} : challenges'[j] = challenges[j]
  BY <1>1, Expiring
<1>4. InOrder(challenges')
  BY <1>2, <1>3, TopChanges DEF SerialInv
<1>5. Outcome(session', challenges')
  BY <1>1 DEF Outcome, ChallengesOver
<1>6. KeepsResults
  BY <1>1, <1>3, Statuses DEF KeepsResults
<1> QED BY <1>4, <1>5, <1>6 DEF SerialInv

LEMMA SubmittedInOrder ==
    ASSUME SequenceInv, SerialInv, NEW k \in DOMAIN challenges,
           NEW s \in Submissions, NEW outcome \in Results, Submit(Now, k, s, outcome)
    PROVE  SerialInv' /\ KeepsResults
<1> DEFINE c == [challenges[k] EXCEPT !.status = outcome, !.submission = s, !.late = FALSE]
           t == [challenges EXCEPT ![k] = c]
<1>1. /\ challenges[k].status = "STARTED" /\ challenges'[k].status = outcome
      /\ DOMAIN challenges' = DOMAIN challenges
      /\ \A j \in DOMAIN challenges \ {k} : challenges'[j] = challenges[j]
  <2>1. /\ Writes(Now, {k})
        /\ challenges[k].status = "STARTED" /\ challenges'[k].status = outcome
        /\ DOMAIN challenges' = DOMAIN challenges
    BY SubmitWrites
  <2> QED BY <2>1 DEF Writes
<1>2. /\ challenges' = t /\ session = "CHALLENGES_IN_PROGRESS"
      /\ WriteSession(Stored, IF k[1] >= ChallengeCount /\ ~MayRetry(t, k)
                              THEN Finalized(t, session) ELSE session)
  BY SerialNow, StoredIs, Zenon DEF Submit
<1> HIDE DEF c, t
<1>3. Top(challenges, k) /\ Numbered(DOMAIN challenges)
  BY <1>1, Statuses DEF SerialInv, InOrder, ActiveKeys, SequenceInv
<1>4. /\ InOrder(t)
      /\ t[k].status \notin ACTIVE_CHALLENGE_STATES /\ ~Again(t, k) => AllSettled(t)
  BY <1>1, <1>2, <1>3, TopChanges DEF SerialInv
<1>5. t[k].status \notin ACTIVE_CHALLENGE_STATES
  BY <1>1, <1>2, Statuses
<1>6. k \in LatestKeys(t)
  BY <1>1, <1>2, <1>3, TopIsLatest DEF Top
<1>7. Outcome(session', t)
  <2>1. CASE session' = session
    BY <1>2, <2>1 DEF Outcome, ChallengesOver
  <2>2. CASE session' # session
    <3>1. ~MayRetry(t, k) /\ session' = Finalized(t, "CHALLENGES_IN_PROGRESS")
      BY <1>2, <2>2, StoredIs DEF WriteSession
    <3>2. Numbered(DOMAIN t) /\ AllSettled(t)
      BY <1>1, <1>2, <1>3, <1>4, <1>5, <1>6, <3>1, AgainIsMayRetry
    <3> QED BY <3>1, <3>2, FinalOutcome
  <2> QED BY <2>1, <2>2
<1>8. KeepsResults
  BY <1>1, Statuses DEF KeepsResults
<1> QED BY <1>2, <1>4, <1>7, <1>8 DEF SerialInv

LEMMA SerialStep ==
    ASSUME Requests = {}, SequenceInv, SerialInv, [Next]_vars
    PROVE  SerialInv' /\ KeepsResults
<1>1. CASE UNCHANGED vars
  BY <1>1 DEF vars, SerialInv, KeepsResults
<1>2. CASE HandlerStep(Now)
  BY <1>2, IssuedInOrder, StartedInOrder, SubmittedInOrder DEF HandlerStep
<1>3. ASSUME NEW k \in DOMAIN challenges, Lapse(k)
      PROVE  SerialInv' /\ KeepsResults
  <2>1. SameStatuses(challenges, challenges') /\ UNCHANGED session
    BY <1>3, LapseKeeps DEF SameStatuses, Lapse
  <2> QED BY <2>1, StatusesDecide DEF SerialInv, KeepsResults, SameStatuses
<1>4. CASE End \/ Overrun
  <2>1. UNCHANGED challenges /\ (session' = session \/ session' = "ENDED")
    BY <1>4 DEF End, Overrun
  <2> QED BY <2>1 DEF SerialInv, KeepsResults, Outcome, ChallengesOver
<1> QED BY <1>1, <1>2, <1>3, <1>4 DEF Next

LEMMA SerialHolds == ASSUME Requests = {} PROVE Spec => [](SequenceInv /\ SerialInv)
<1>1. Init => SerialInv
  BY DEF Init, SerialInv, InOrder, ActiveKeys, LatestKeys, Outcome, ChallengesOver
<1>2. SequenceInv /\ SerialInv /\ [Next]_vars => SerialInv'
  BY SerialStep
<1> QED BY <1>1, <1>2, SequenceHolds, PTL DEF Spec

(* A result once given to a challenge is never replaced when requests do   *)
(* not overlap: submit_challenge.                                          *)
THEOREM ResultsAlwaysStand == ASSUME Requests = {} PROVE Spec => ResultStands
<1>1. SequenceInv /\ SerialInv /\ [Next]_vars =>
        [\A k \in DOMAIN challenges :
            challenges[k].status \in TERMINAL_CHALLENGE_STATES =>
                challenges'[k].status = challenges[k].status]_vars
  BY SerialStep DEF KeepsResults
<1> QED BY <1>1, SerialHolds, PTL DEF Spec, ResultStands

(* The stage ends with every challenge settled, and fails exactly when the *)
(* latest attempts hold too many failures: _finalize_sequence.             *)
THEOREM OutcomeIsOfAll == ASSUME Requests = {} PROVE Spec => []OutcomeIsOfWholeSequence
<1>1. SequenceInv /\ SerialInv => OutcomeIsOfWholeSequence
  <2> SUFFICES ASSUME SequenceInv, SerialInv, session \in ChallengesOver
               PROVE  /\ Sequences(challenges) = 1 .. ChallengeCount
                      /\ ActiveKeys(challenges) = {}
                      /\ \A k \in LatestKeys(challenges) : ~MayRetry(challenges, k)
                      /\ session = "CHALLENGE_FAILED" <=>
                            Cardinality(ExplicitFailures(challenges)) >= FailureLimit
    BY DEF OutcomeIsOfWholeSequence
  <2>1. \A k \in LatestKeys(challenges) : MayRetry(challenges, k) <=> Again(challenges, k)
    BY AgainIsMayRetry DEF SequenceInv
  <2> QED BY <2>1 DEF SerialInv, Outcome, AllSettled
<1> QED BY <1>1, SerialHolds, PTL
=============================================================================
