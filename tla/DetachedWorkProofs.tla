--------------------------- MODULE DetachedWorkProofs ---------------------------
(***************************************************************************)
(* What DetachedWork guarantees for any number of clients, requests, tasks   *)
(* and versions.                                                            *)
(***************************************************************************)
EXTENDS DetachedWork, FiniteSetTheorems, WellFoundedInduction, TLAPS

(***************************************************************************)
(* Invariants                                                              *)
(***************************************************************************)
Rows == [work : Works, state : {"running", "ended"}]
Tasks == [key : Keys \union {"none"}, pc : Unsettled \union Published \union {"unused"},
          base : Nat, version : Nat, outcome : Outcomes]

(* The types the other invariants need.                                       *)
WorkType ==
    /\ inFlight \in [Keys -> 0..MaxWorks]
    /\ work \in [Works -> Tasks]
    /\ rows \in Seq(Rows)
    /\ lineage \in Seq([by : Works \union {Author}, base : Nat])
    /\ draft \in Nat

(* Until its fingerprint is free again a task is the one that is found.       *)
TrackedInv ==
    \A w \in Works :
        work[w].pc \in Unsettled \union {"published"} =>
            work[w].key \in Keys /\ inFlight[work[w].key] = w

(* A task saves the successor of the version it has read, and once.           *)
BaseInv ==
    \A w \in Works :
        /\ work[w].pc \in Calling \union {"saving"} /\ Edits(w) =>
              work[w].version = work[w].base + 1 /\ work[w].base <= Current
        /\ work[w].pc \in Calling \union {"saving", "spawned", "unused"} =>
              ~SavedBy(w) /\ work[w].outcome = "none"
        /\ work[w].pc \in {"ending", "returned", "published"} /\ Edits(w) =>
              /\ work[w].outcome = "ok" => SavedBy(w)
              /\ work[w].outcome = "failed" => ~SavedBy(w)

WorkInv ==
    WorkType /\ TrackedInv /\ RowsTrackWork /\ VersionsFollow /\ BaseInv

(***************************************************************************)
(* The history of activities                                               *)
(***************************************************************************)
LEMMA LeastOf ==
    ASSUME NEW S, S \subseteq Nat, S # {}
    PROVE  \E n \in S : \A m \in S : n <= m
<1>1. PICK n \in S : \A m \in S : ~(<<m, n>> \in OpToRel(<, Nat))
  BY NatLessThanWellFounded, WFMin
<1>2. \A m \in S : m \in Nat /\ n \in Nat /\ ~(m < n)
  BY <1>1 DEF OpToRel
<1>3. \A m \in S : n <= m
  BY <1>2
<1> QED
  BY <1>3

(* Trimming takes no running row, and leaves none beyond the limit that is     *)
(* not kept by an older running one.                                          *)
LEMMA TrimmedRows ==
    ASSUME NEW all \in Seq(Rows)
    PROVE  /\ Trimmed(all) \in Seq(Rows)
           /\ \A r \in Rows : r.state = "running" =>
                 ((\E i \in DOMAIN Trimmed(all) : Trimmed(all)[i] = r)
                   <=> (\E i \in DOMAIN all : all[i] = r))
           /\ Len(Trimmed(all)) > HistoryLimit =>
                 \E i \in DOMAIN Trimmed(all) : Trimmed(all)[i].state = "running"
<1> DEFINE Quiet(n) == \A i \in DOMAIN all : i > n => all[i].state # "running"
           kept == {n \in 0..Len(all) : Quiet(n) /\ (n >= HistoryLimit \/ n = Len(all))}
<1>1. Len(all) \in kept
  OBVIOUS
<1>2. PICK n \in kept : \A m \in kept : n <= m
  <2>1. kept \subseteq Nat /\ kept # {}
    BY <1>1
  <2> HIDE DEF kept
  <2> QED
    BY <2>1, LeastOf
<1>3. \A m \in kept : (\A o \in kept : m <= o) => m = n
  BY <1>2
<1>4. Trimmed(all) = SubSeq(all, 1, n)
  <2>1. (CHOOSE m \in kept : \A o \in kept : m <= o) = n
    <3> HIDE DEF kept
    <3> QED
      BY <1>2, <1>3
  <2> QED
    BY <2>1 DEF Trimmed
<1>5. /\ n \in 0..Len(all) /\ Quiet(n)
      /\ SubSeq(all, 1, n) \in Seq(Rows)
      /\ Len(SubSeq(all, 1, n)) = n
      /\ \A i \in 1..n : SubSeq(all, 1, n)[i] = all[i]
  BY <1>2
<1>6. ASSUME NEW r \in Rows, r.state = "running"
      PROVE  (\E i \in 1..n : all[i] = r) <=> (\E i \in DOMAIN all : all[i] = r)
  BY <1>5, <1>6
<1>7. ASSUME n > HistoryLimit
      PROVE  \E i \in 1..n : all[i].state = "running"
  <2>1. n - 1 \notin kept /\ n - 1 \in 0..Len(all) /\ n - 1 >= HistoryLimit
    BY <1>2, <1>5, <1>7, DetachedAssumption
  <2>2. PICK i \in DOMAIN all : i > n - 1 /\ all[i].state = "running"
    BY <2>1
  <2>3. i <= n
    BY <1>5, <2>2
  <2> QED
    BY <2>2, <2>3, <1>5
<1>8. DOMAIN SubSeq(all, 1, n) = 1..n
  BY <1>5
<1> HIDE DEF kept, Quiet
<1>9. \A r \in Rows : r.state = "running" =>
         ((\E i \in DOMAIN SubSeq(all, 1, n) : SubSeq(all, 1, n)[i] = r)
           <=> (\E i \in DOMAIN all : all[i] = r))
  <2>1. \A r : (\E i \in DOMAIN SubSeq(all, 1, n) : SubSeq(all, 1, n)[i] = r)
              <=> (\E i \in 1..n : all[i] = r)
    BY <1>5, <1>8
  <2> QED
    BY <2>1, <1>6
<1>10. Len(SubSeq(all, 1, n)) > HistoryLimit =>
          \E i \in DOMAIN SubSeq(all, 1, n) : SubSeq(all, 1, n)[i].state = "running"
  <2>1. CASE n > HistoryLimit
    <3>1. PICK i \in 1..n : all[i].state = "running"
      BY <1>7, <2>1
    <3>2. i \in DOMAIN SubSeq(all, 1, n) /\ SubSeq(all, 1, n)[i] = all[i]
      BY <1>5, <1>8
    <3> QED
      BY <3>1, <3>2
  <2>2. CASE ~(n > HistoryLimit)
    BY <1>5, <2>2
  <2> QED
    BY <2>1, <2>2
<1> QED
  BY <1>4, <1>5, <1>9, <1>10

(* Closing a row leaves the others as they are.                                *)
LEMMA ClosedRows ==
    ASSUME WorkType, NEW w \in Works
    PROVE  /\ Closed(w) \in Seq(Rows) /\ DOMAIN Closed(w) = DOMAIN rows
           /\ \A i \in DOMAIN rows :
                 Closed(w)[i] = IF rows[i].work = w THEN [rows[i] EXCEPT !.state = "ended"] ELSE rows[i]
<1>1. /\ DOMAIN rows = 1..Len(rows) /\ Len(rows) \in Nat
      /\ \A i \in 1..Len(rows) : rows[i] \in Rows
  BY DEF WorkType
<1>2. \A r \in Rows : [r EXCEPT !.state = "ended"] \in Rows
  BY DEF Rows
<1>3. Closed(w) \in [1..Len(rows) -> Rows]
  BY <1>1, <1>2 DEF Closed
<1>4. Closed(w) \in Seq(Rows)
  BY <1>1, <1>3
<1> QED
  BY <1>1, <1>3, <1>4 DEF Closed

(***************************************************************************)
(* The initial states and every step                                       *)
(***************************************************************************)
LEMMA WorkInit == Init => WorkInv
<1> SUFFICES ASSUME Init PROVE WorkInv
  OBVIOUS
<1>1. WorkType
  BY DetachedAssumption
     DEF Init, WorkType, Tasks, NoWork, Unsettled, Published, Outcomes, Rows, Author
<1>2. TrackedInv /\ BaseInv
  BY DEF Init, TrackedInv, BaseInv, NoWork, Unsettled, Working, Calling, SavedBy, Works, Author
<1>3. RowsTrackWork
  BY DetachedAssumption DEF Init, RowsTrackWork, NoWork, Working, Calling
<1>4. VersionsFollow
  BY DEF Init, VersionsFollow
<1> QED
  BY <1>1, <1>2, <1>3, <1>4 DEF WorkInv

(***************************************************************************)
(* What the steps of a task do to it                                       *)
(***************************************************************************)
LEMMA EndsFields ==
    ASSUME WorkType, NEW w \in Works, NEW o \in Outcomes, Ends(w, o)
    PROVE  /\ work' \in [Works -> Tasks]
           /\ work'[w].pc = "ending" /\ work'[w].key = work[w].key /\ work'[w].outcome = o
           /\ \A v \in Works \ {w} : work'[v] = work[v]
<1> DEFINE r == [key |-> work[w].key, pc |-> "ending", base |-> 0, version |-> 0, outcome |-> o]
<1>1. work[w].key \in Keys \union {"none"}
  BY DEF WorkType, Tasks
<1>2. r \in Tasks
  BY <1>1 DEF Tasks, Unsettled, Working
<1>3. work' = [work EXCEPT ![w] = r]
  BY DEF Ends
<1> QED
  BY <1>1, <1>2, <1>3 DEF WorkType

LEMMA GotoFields ==
    ASSUME WorkType, NEW w \in Works, NEW from, NEW to \in Unsettled \union Published,
           Goto(w, from, to)
    PROVE  /\ work' \in [Works -> Tasks]
           /\ work[w].pc = from /\ work'[w].pc = to
           /\ work'[w].key = work[w].key /\ work'[w].base = work[w].base
           /\ work'[w].version = work[w].version /\ work'[w].outcome = work[w].outcome
           /\ \A v \in Works \ {w} : work'[v] = work[v]
<1> DEFINE r == [work[w] EXCEPT !.pc = to]
<1>1. work[w] \in Tasks
  BY DEF WorkType
<1>2. /\ r \in Tasks /\ r.pc = to /\ r.key = work[w].key /\ r.base = work[w].base
      /\ r.version = work[w].version /\ r.outcome = work[w].outcome
  BY <1>1 DEF Tasks
<1>3. work' = [work EXCEPT ![w] = r]
  BY DEF Goto
<1> HIDE DEF r
<1> QED
  BY <1>2, <1>3 DEF WorkType, Goto

LEMMA BeginFields ==
    ASSUME WorkType, NEW w \in Works, Begin(w)
    PROVE  /\ work' \in [Works -> Tasks]
           /\ work[w].pc = "spawned" /\ work'[w].key = work[w].key
           /\ \/ /\ work'[w].pc = "calling" /\ work'[w].outcome = work[w].outcome
                 /\ Edits(w) => work'[w].base = Current /\ work'[w].version = Current + 1
              \/ work'[w].pc = "ending" /\ work'[w].outcome = "failed"
           /\ \A v \in Works \ {w} : work'[v] = work[v]
<1>1. work[w].pc = "spawned"
  BY DEF Begin
<1>2. CASE Edits(w) /\ deleted
  <2>1. Ends(w, "failed")
    BY <1>2 DEF Begin
  <2> QED
    BY <1>1, <2>1, EndsFields DEF Outcomes
<1>3. CASE ~(Edits(w) /\ deleted)
  <2> DEFINE b == IF Edits(w) THEN Current ELSE 0
  <2>1. work' = [work EXCEPT ![w].pc = "calling", ![w].base = b, ![w].version = b + 1]
    BY <1>3 DEF Begin
  <2>2. b \in Nat
    BY DEF Current, WorkType
  <2>3. work'[w] = [work[w] EXCEPT !.pc = "calling", !.base = b, !.version = b + 1]
    BY <2>1 DEF WorkType
  <2>4. work[w] \in Tasks
    BY DEF WorkType
  <2>5. work'[w] \in Tasks
    <3>1. work'[w] = [key |-> work[w].key, pc |-> "calling", base |-> b, version |-> b + 1,
                      outcome |-> work[w].outcome]
      BY <2>3, <2>4 DEF Tasks
    <3>2. work[w].key \in Keys \union {"none"} /\ work[w].outcome \in Outcomes
      BY <2>4 DEF Tasks
    <3> HIDE DEF b
    <3> QED
      BY <2>2, <3>1, <3>2 DEF Tasks, Unsettled, Working, Calling
  <2>6. \A v \in Works \ {w} : work'[v] = work[v]
    BY <2>1 DEF WorkType
  <2>7. work' \in [Works -> Tasks]
    BY <2>1, <2>5, <2>6 DEF WorkType
  <2>8. /\ work'[w].pc = "calling" /\ work'[w].outcome = work[w].outcome
        /\ work'[w].key = work[w].key /\ work'[w].base = b /\ work'[w].version = b + 1
    BY <2>3, <2>4 DEF Tasks
  <2> QED
    BY <1>1, <2>6, <2>7, <2>8
<1> QED
  BY <1>2, <1>3

LEMMA CalledFields ==
    ASSUME WorkType, NEW w \in Works, Called(w)
    PROVE  /\ work' \in [Works -> Tasks]
           /\ work[w].pc \in Calling /\ work'[w].key = work[w].key
           /\ \/ /\ work'[w].pc \in {"saving", "correcting"} /\ work'[w].outcome = work[w].outcome
                 /\ work'[w].base = work[w].base /\ work'[w].version = work[w].version
              \/ work'[w].pc = "ending" /\ work'[w].outcome = "failed"
           /\ \A v \in Works \ {w} : work'[v] = work[v]
<1>1. work[w].pc \in Calling /\ work[w] \in Tasks
  BY DEF Called, WorkType
<1>2. CASE Ends(w, "failed")
  BY <1>1, <1>2, EndsFields DEF Outcomes
<1>3. ASSUME NEW q \in {"saving", "correcting"}, work' = [work EXCEPT ![w].pc = q]
      PROVE  /\ work' \in [Works -> Tasks] /\ work'[w].key = work[w].key
             /\ work'[w].pc = q /\ work'[w].outcome = work[w].outcome
             /\ work'[w].base = work[w].base /\ work'[w].version = work[w].version
             /\ \A v \in Works \ {w} : work'[v] = work[v]
  <2>1. work'[w] = [work[w] EXCEPT !.pc = q] /\ \A v \in Works \ {w} : work'[v] = work[v]
    BY <1>3 DEF WorkType
  <2>2. work'[w] \in Tasks
    BY <1>1, <2>1 DEF Tasks, Unsettled, Working, Calling
  <2> QED
    BY <1>1, <1>3, <2>1, <2>2 DEF WorkType, Tasks
<1>4. CASE Goto(w, "calling", "correcting")
  BY <1>1, <1>3, <1>4 DEF Goto
<1>5. CASE work' = [work EXCEPT ![w].pc = "saving",
                                ![w].version = IF work[w].pc = "correcting"
                                               THEN CorrectedVersion(w) ELSE @]
  <2>1. /\ work'[w].pc = "saving" /\ work'[w].key = work[w].key
        /\ work'[w].outcome = work[w].outcome
        /\ work'[w].base = work[w].base /\ work'[w].version = work[w].version
        /\ work'[w] = [work[w] EXCEPT !.pc = "saving", !.version = work[w].version]
        /\ \A v \in Works \ {w} : work'[v] = work[v]
    BY <1>1, <1>5 DEF CorrectedVersion, WorkType, Tasks
  <2>2. work'[w] \in Tasks
    BY <1>1, <2>1 DEF Tasks, Unsettled, Working, Calling
  <2> QED
    BY <1>1, <1>5, <2>1, <2>2 DEF WorkType
<1> QED
  BY <1>1, <1>2, <1>4, <1>5 DEF Called

LEMMA SaveFields ==
    ASSUME WorkType, NEW w \in Works, Save(w)
    PROVE  /\ work' \in [Works -> Tasks]
           /\ work[w].pc = "saving" /\ work'[w].pc = "ending" /\ work'[w].key = work[w].key
           /\ \A v \in Works \ {w} : work'[v] = work[v]
           /\ \/ /\ Edits(w) /\ Saves(work[w].version) /\ work'[w].outcome = "ok"
                 /\ lineage' = Append(lineage, [by |-> w, base |-> work[w].base])
              \/ /\ Edits(w) /\ ~Saves(work[w].version) /\ work'[w].outcome = "failed"
                 /\ lineage' = lineage
              \/ ~Edits(w) /\ work'[w].outcome = "ok" /\ lineage' = lineage
<1>1. CASE Edits(w) /\ Saves(work[w].version)
  <2>1. Ends(w, "ok") /\ lineage' = Append(lineage, [by |-> w, base |-> work[w].base])
    BY <1>1 DEF Save
  <2> QED
    BY <1>1, <2>1, EndsFields DEF Save, Outcomes
<1>2. CASE Edits(w) /\ ~Saves(work[w].version)
  <2>1. Ends(w, "failed") /\ lineage' = lineage
    BY <1>2 DEF Save
  <2> QED
    BY <1>2, <2>1, EndsFields DEF Save, Outcomes
<1>3. CASE ~Edits(w)
  <2>1. Ends(w, "ok") /\ lineage' = lineage
    BY <1>3 DEF Save
  <2> QED
    BY <1>3, <2>1, EndsFields DEF Save, Outcomes
<1> QED
  BY <1>1, <1>2, <1>3

(* A version that is added.                                                   *)
LEMMA Added1 ==
    ASSUME WorkType, NEW e \in [by : Works \union {Author}, base : Nat],
           lineage' = Append(lineage, e)
    PROVE  /\ lineage' \in Seq([by : Works \union {Author}, base : Nat])
           /\ Len(lineage') = Len(lineage) + 1
           /\ \A v \in 1..(Len(lineage) + 1) :
                 lineage'[v] = IF v = Len(lineage) + 1 THEN e ELSE lineage[v]
           /\ DOMAIN lineage = 1..Len(lineage) /\ DOMAIN lineage' = 1..(Len(lineage) + 1)
           /\ Len(lineage) \in Nat
           /\ \A w \in Works : SavedBy(w)' <=> SavedBy(w) \/ e.by = w
<1>1. /\ lineage' \in Seq([by : Works \union {Author}, base : Nat])
      /\ Len(lineage') = Len(lineage) + 1
      /\ \A v \in 1..(Len(lineage) + 1) :
            lineage'[v] = IF v = Len(lineage) + 1 THEN e ELSE lineage[v]
      /\ DOMAIN lineage = 1..Len(lineage) /\ DOMAIN lineage' = 1..(Len(lineage) + 1)
      /\ Len(lineage) \in Nat
  BY DEF WorkType
<1>2. ASSUME NEW w \in Works
      PROVE  (\E v \in DOMAIN lineage' : lineage'[v].by = w)
                <=> (\E v \in DOMAIN lineage : lineage[v].by = w) \/ e.by = w
  <2>1. Len(lineage) + 1 \in DOMAIN lineage' /\ lineage'[Len(lineage) + 1] = e
    BY <1>1
  <2>2. \A v \in DOMAIN lineage : v \in DOMAIN lineage' /\ lineage'[v] = lineage[v]
    BY <1>1
  <2>3. \A v \in DOMAIN lineage' : v \in DOMAIN lineage \/ lineage'[v] = e
    BY <1>1
  <2> QED
    BY <2>1, <2>2, <2>3
<1> QED
  BY <1>1, <1>2 DEF SavedBy

(* The versions that are there stay what they are to a task.                   *)
LEMMA SameVersions ==
    ASSUME lineage' = lineage
    PROVE  \A w \in Works : SavedBy(w)' <=> SavedBy(w)
BY DEF SavedBy

(* Types.                                                                    *)
LEMMA WorkTypeStep ==
    ASSUME WorkType, [Next]_vars
    PROVE  WorkType'
<1>1. ASSUME NEW c \in Clients, NEW k \in Keys, Join(c, k) PROVE WorkType'
  BY <1>1, DetachedAssumption
     DEF Join, Waits, server, store, ledger, desktop, WorkType, Tasks, NoWork, Works, Author,
         Unsettled, Published, Working, Calling, Outcomes
<1>2. ASSUME NEW c \in Clients, NEW k \in Keys, Start(c, k) PROVE WorkType'
  <2>1. PICK x \in Works :
            /\ work' = [work EXCEPT ![x].key = k, ![x].pc = "spawned"]
            /\ inFlight' = [inFlight EXCEPT ![k] = x]
    BY <1>2 DEF Start
  <2>2. work[x] \in Tasks /\ work'[x] = [work[x] EXCEPT !.key = k, !.pc = "spawned"]
    BY <2>1 DEF WorkType
  <2>3. work'[x] \in Tasks
    BY <2>2 DEF Tasks, Unsettled
  <2>4. work' \in [Works -> Tasks]
    BY <2>1, <2>3 DEF WorkType
  <2>5. inFlight' \in [Keys -> 0..MaxWorks]
    BY <2>1, DetachedAssumption DEF WorkType, Works
  <2> QED
    BY <1>2, <2>4, <2>5 DEF Start, ledger, store, desktop, WorkType
<1>3. ASSUME NEW c \in Clients, Disconnect(c) PROVE WorkType'
  BY <1>3, DetachedAssumption
     DEF Disconnect, Waits, server, store, ledger, desktop, WorkType, Tasks, NoWork, Works,
         Author, Unsettled, Published, Working, Calling, Outcomes
<1>4. ASSUME NEW c \in Clients, Answer(c) PROVE WorkType'
  BY <1>4, DetachedAssumption
     DEF Answer, Waits, Published, server, store, ledger, desktop, WorkType, Tasks, NoWork,
         Works, Author, Unsettled, Working, Calling, Outcomes
<1>5. ASSUME NEW w \in Works, Begin(w) PROVE WorkType'
  <2>1. work' \in [Works -> Tasks]
    BY <1>5, BeginFields
  <2>2. rows' \in Seq(Rows)
    BY <1>5 DEF Begin, WorkType, Rows
  <2> QED
    BY <1>5, <2>1, <2>2 DEF Begin, store, desktop, WorkType
<1>6. ASSUME NEW w \in Works, Called(w) PROVE WorkType'
  <2>1. work' \in [Works -> Tasks]
    BY <1>6, CalledFields
  <2> QED
    BY <1>6, <2>1 DEF Called, ledger, store, desktop, WorkType
<1>7. ASSUME NEW w \in Works, Save(w) PROVE WorkType'
  <2>1. work' \in [Works -> Tasks]
    BY <1>7, SaveFields
  <2>2. lineage' \in Seq([by : Works \union {Author}, base : Nat])
    <3>1. CASE lineage' = lineage
      BY <3>1 DEF WorkType
    <3>2. CASE lineage' = Append(lineage, [by |-> w, base |-> work[w].base])
      <4>1. [by |-> w, base |-> work[w].base] \in [by : Works \union {Author}, base : Nat]
        BY DEF WorkType, Tasks
      <4> QED
        BY <3>2, <4>1, Added1
    <3> QED
      BY <1>7, <3>1, <3>2, SaveFields
  <2> QED
    BY <1>7, <2>1, <2>2 DEF Save, ledger, desktop, WorkType
<1>8. ASSUME NEW w \in Works, Finish(w) PROVE WorkType'
  <2>1. Closed(w) \in Seq(Rows)
    BY ClosedRows
  <2>2. rows' \in Seq(Rows)
    BY <1>8, <2>1, TrimmedRows DEF Finish
  <2> QED
    BY <1>8, <2>2 DEF Finish, Goto, store, desktop, WorkType, Tasks, Unsettled
<1>10. ASSUME NEW w \in Works, Publish(w) PROVE WorkType'
  <2>1. work' \in [Works -> Tasks]
    BY <1>10, GotoFields DEF Publish, Unsettled, Published
  <2> QED
    BY <1>10, <2>1 DEF Publish, ledger, store, desktop, WorkType
<1>11. ASSUME NEW w \in Works, Deregister(w) PROVE WorkType'
  <2>1. [NoWork EXCEPT !.pc = "gone"] =
            [key |-> "none", pc |-> "gone", base |-> 0, version |-> 0, outcome |-> "none"]
    BY DEF NoWork
  <2>2. [NoWork EXCEPT !.pc = "gone"] \in Tasks
    BY <2>1 DEF Tasks, Published, Outcomes
  <2> DEFINE r == [NoWork EXCEPT !.pc = "gone"]
  <2> HIDE DEF r
  <2>3. work' \in [Works -> Tasks]
    <3>1. r \in Tasks /\ work' = [work EXCEPT ![w] = r]
      BY <1>11, <2>2 DEF Deregister, r
    <3> QED
      BY <3>1 DEF WorkType
  <2>4. inFlight' \in [Keys -> 0..MaxWorks]
    <3>1. inFlight \in [Keys -> 0..MaxWorks] /\ 0 \in 0..MaxWorks
      BY DetachedAssumption DEF WorkType
    <3>2. inFlight' = [inFlight EXCEPT ![work[w].key] = 0]
      BY <1>11 DEF Deregister
    <3> QED
      BY <3>1, <3>2
  <2> QED
    BY <1>11, <2>3, <2>4 DEF Deregister, ledger, store, desktop, WorkType
<1>12. ASSUME NEW w \in Works, Panic(w) PROVE WorkType'
  <2>1. work' \in [Works -> Tasks]
    BY <1>12, EndsFields DEF Panic, Outcomes
  <2> QED
    BY <1>12, <2>1 DEF Panic, ledger, store, desktop, WorkType
<1>13. CASE DraftEdit
  BY <1>13, DetachedAssumption
     DEF DraftEdit, Current, server, store, ledger, desktop, WorkType, Tasks, NoWork, Works,
         Author, Unsettled, Published, Working, Calling, Outcomes
<1>14. CASE ApplyEdit
  BY <1>14, DetachedAssumption
     DEF ApplyEdit, Saves, Current, server, store, ledger, desktop, WorkType, Tasks, NoWork,
         Works, Author, Unsettled, Published, Working, Calling, Outcomes
<1>15. CASE RejectEdit
  BY <1>15, DetachedAssumption
     DEF RejectEdit, server, store, ledger, desktop, WorkType, Tasks, NoWork, Works, Author,
         Unsettled, Published, Working, Calling, Outcomes
<1>16. CASE ImportVersion
  BY <1>16, DetachedAssumption
     DEF ImportVersion, Current, server, store, ledger, desktop, WorkType, Tasks, NoWork,
         Works, Author, Unsettled, Published, Working, Calling, Outcomes
<1>17. CASE DeletePlan
  BY <1>17, DetachedAssumption
     DEF DeletePlan, server, store, ledger, desktop, WorkType, Tasks, NoWork, Works, Author,
         Unsettled, Published, Working, Calling, Outcomes
<1>18. CASE Frame
  BY <1>18, DetachedAssumption
     DEF Frame, server, store, ledger, desktop, WorkType, Tasks, NoWork, Works, Author,
         Unsettled, Published, Working, Calling, Outcomes
<1>19. CASE BackgroundRefresh
  BY <1>19, DetachedAssumption
     DEF BackgroundRefresh, server, store, ledger, desktop, WorkType, Tasks, NoWork, Works,
         Author, Unsettled, Published, Working, Calling, Outcomes
<1>20. ASSUME NEW l \in DOMAIN read, ShowPlans(l) PROVE WorkType'
  BY <1>20, DetachedAssumption
     DEF ShowPlans, server, store, ledger, desktop, WorkType, Tasks, NoWork, Works, Author,
         Unsettled, Published, Working, Calling, Outcomes
<1>21. CASE UNCHANGED vars
  BY <1>21, DetachedAssumption
     DEF vars, server, store, ledger, desktop, WorkType, Tasks, NoWork, Works, Author,
         Unsettled, Published, Working, Calling, Outcomes
<1> QED
  BY <1>1, <1>2, <1>3, <1>4, <1>5, <1>6, <1>7, <1>8, <1>10, <1>11, <1>12, <1>13, <1>14,
     <1>15, <1>16, <1>17, <1>18, <1>19, <1>20, <1>21
     DEF Next, Task, Refresh

(* A fingerprint is taken when it is free, and freed by its own task.         *)
LEMMA TrackedStep ==
    ASSUME WorkType, TrackedInv, [Next]_vars
    PROVE  TrackedInv'
<1>1. ASSUME NEW c \in Clients, NEW k \in Keys, Join(c, k) PROVE TrackedInv'
  BY <1>1, DetachedAssumption
     DEF Join, Waits, server, store, ledger, desktop, WorkType, Tasks, NoWork, Works, Author,
         Unsettled, Published, Working, Calling, Outcomes, TrackedInv
<1>2. ASSUME NEW c \in Clients, NEW k \in Keys, Start(c, k) PROVE TrackedInv'
  BY <1>2, DetachedAssumption
     DEF Start, Waits, server, store, ledger, desktop, WorkType, Tasks, NoWork, Works, Author,
         Unsettled, Published, Working, Calling, Outcomes, TrackedInv
<1>3. ASSUME NEW c \in Clients, Disconnect(c) PROVE TrackedInv'
  BY <1>3, DetachedAssumption
     DEF Disconnect, Waits, server, store, ledger, desktop, WorkType, Tasks, NoWork, Works,
         Author, Unsettled, Published, Working, Calling, Outcomes, TrackedInv
<1>4. ASSUME NEW c \in Clients, Answer(c) PROVE TrackedInv'
  BY <1>4, DetachedAssumption
     DEF Answer, Waits, Published, server, store, ledger, desktop, WorkType, Tasks, NoWork,
         Works, Author, Unsettled, Working, Calling, Outcomes, TrackedInv
<1>5. ASSUME NEW w \in Works, Begin(w) PROVE TrackedInv'
  <2>1. /\ work'[w].pc \in {"calling", "ending"} /\ work[w].pc \in {"spawned"} /\ work'[w].key = work[w].key
        /\ \A v \in Works \ {w} : work'[v] = work[v]
    BY <1>5, BeginFields DEF Calling
  <2>2. UNCHANGED inFlight
    BY <1>5 DEF Begin
  <2> QED
    BY <2>1, <2>2 DEF TrackedInv, Unsettled, Working, Calling
<1>6. ASSUME NEW w \in Works, Called(w) PROVE TrackedInv'
  <2>1. /\ work'[w].pc \in {"saving", "correcting", "ending"} /\ work[w].pc \in {"calling", "correcting"} /\ work'[w].key = work[w].key
        /\ \A v \in Works \ {w} : work'[v] = work[v]
    BY <1>6, CalledFields DEF Calling
  <2>2. UNCHANGED inFlight
    BY <1>6 DEF Called
  <2> QED
    BY <2>1, <2>2 DEF TrackedInv, Unsettled, Working, Calling
<1>7. ASSUME NEW w \in Works, Save(w) PROVE TrackedInv'
  <2>1. /\ work'[w].pc \in {"ending"} /\ work[w].pc \in {"saving"} /\ work'[w].key = work[w].key
        /\ \A v \in Works \ {w} : work'[v] = work[v]
    BY <1>7, SaveFields DEF Calling
  <2>2. UNCHANGED inFlight
    BY <1>7 DEF Save
  <2> QED
    BY <2>1, <2>2 DEF TrackedInv, Unsettled, Working, Calling
<1>8. ASSUME NEW w \in Works, Finish(w) PROVE TrackedInv'
  BY <1>8, DetachedAssumption
     DEF Finish, Goto, server, store, ledger, desktop, WorkType, Tasks, NoWork, Works, Author,
         Unsettled, Published, Working, Calling, Outcomes, TrackedInv
<1>10. ASSUME NEW w \in Works, Publish(w) PROVE TrackedInv'
  BY <1>10, DetachedAssumption
     DEF Publish, Goto, server, store, ledger, desktop, WorkType, Tasks, NoWork, Works,
         Author, Unsettled, Published, Working, Calling, Outcomes, TrackedInv
<1>11. ASSUME NEW w \in Works, Deregister(w) PROVE TrackedInv'
  BY <1>11, DetachedAssumption
     DEF Deregister, server, store, ledger, desktop, WorkType, Tasks, NoWork, Works, Author,
         Unsettled, Published, Working, Calling, Outcomes, TrackedInv
<1>12. ASSUME NEW w \in Works, Panic(w) PROVE TrackedInv'
  BY <1>12, DetachedAssumption
     DEF Panic, Ends, Working, Calling, server, store, ledger, desktop, WorkType, Tasks,
         NoWork, Works, Author, Unsettled, Published, Outcomes, TrackedInv
<1>13. CASE DraftEdit
  BY <1>13, DetachedAssumption
     DEF DraftEdit, Current, server, store, ledger, desktop, WorkType, Tasks, NoWork, Works,
         Author, Unsettled, Published, Working, Calling, Outcomes, TrackedInv
<1>14. CASE ApplyEdit
  BY <1>14, DetachedAssumption
     DEF ApplyEdit, Saves, Current, server, store, ledger, desktop, WorkType, Tasks, NoWork,
         Works, Author, Unsettled, Published, Working, Calling, Outcomes, TrackedInv
<1>15. CASE RejectEdit
  BY <1>15, DetachedAssumption
     DEF RejectEdit, server, store, ledger, desktop, WorkType, Tasks, NoWork, Works, Author,
         Unsettled, Published, Working, Calling, Outcomes, TrackedInv
<1>16. CASE ImportVersion
  BY <1>16, DetachedAssumption
     DEF ImportVersion, Current, server, store, ledger, desktop, WorkType, Tasks, NoWork,
         Works, Author, Unsettled, Published, Working, Calling, Outcomes, TrackedInv
<1>17. CASE DeletePlan
  BY <1>17, DetachedAssumption
     DEF DeletePlan, server, store, ledger, desktop, WorkType, Tasks, NoWork, Works, Author,
         Unsettled, Published, Working, Calling, Outcomes, TrackedInv
<1>18. CASE Frame
  BY <1>18, DetachedAssumption
     DEF Frame, server, store, ledger, desktop, WorkType, Tasks, NoWork, Works, Author,
         Unsettled, Published, Working, Calling, Outcomes, TrackedInv
<1>19. CASE BackgroundRefresh
  BY <1>19, DetachedAssumption
     DEF BackgroundRefresh, server, store, ledger, desktop, WorkType, Tasks, NoWork, Works,
         Author, Unsettled, Published, Working, Calling, Outcomes, TrackedInv
<1>20. ASSUME NEW l \in DOMAIN read, ShowPlans(l) PROVE TrackedInv'
  BY <1>20, DetachedAssumption
     DEF ShowPlans, server, store, ledger, desktop, WorkType, Tasks, NoWork, Works, Author,
         Unsettled, Published, Working, Calling, Outcomes, TrackedInv
<1>21. CASE UNCHANGED vars
  BY <1>21, DetachedAssumption
     DEF vars, server, store, ledger, desktop, WorkType, Tasks, NoWork, Works, Author,
         Unsettled, Published, Working, Calling, Outcomes, TrackedInv
<1> QED
  BY <1>1, <1>2, <1>3, <1>4, <1>5, <1>6, <1>7, <1>8, <1>10, <1>11, <1>12, <1>13, <1>14,
     <1>15, <1>16, <1>17, <1>18, <1>19, <1>20, <1>21
     DEF Next, Task, Refresh

(* A row says running for as long as its task works.                          *)
LEMMA RowsStep ==
    ASSUME WorkType, RowsTrackWork, [Next]_vars
    PROVE  RowsTrackWork'
<1>1. ASSUME NEW c \in Clients, NEW k \in Keys, Join(c, k) PROVE RowsTrackWork'
  BY <1>1, DetachedAssumption
     DEF Join, Waits, server, store, ledger, desktop, WorkType, Tasks, NoWork, Works, Author,
         Unsettled, Published, Working, Calling, Outcomes, RowsTrackWork
<1>2. ASSUME NEW c \in Clients, NEW k \in Keys, Start(c, k) PROVE RowsTrackWork'
  <2>1. rows' = rows
    BY <1>2 DEF Start, ledger
  <2>2. \A w \in Works : work'[w].pc \in Working <=> work[w].pc \in Working
    BY <1>2 DEF Start, WorkType, Tasks, Working, Calling
  <2> QED
    BY <2>1, <2>2 DEF RowsTrackWork
<1>3. ASSUME NEW c \in Clients, Disconnect(c) PROVE RowsTrackWork'
  BY <1>3, DetachedAssumption
     DEF Disconnect, Waits, server, store, ledger, desktop, WorkType, Tasks, NoWork, Works,
         Author, Unsettled, Published, Working, Calling, Outcomes, RowsTrackWork
<1>4. ASSUME NEW c \in Clients, Answer(c) PROVE RowsTrackWork'
  BY <1>4, DetachedAssumption
     DEF Answer, Waits, Published, server, store, ledger, desktop, WorkType, Tasks, NoWork,
         Works, Author, Unsettled, Working, Calling, Outcomes, RowsTrackWork
<1>5. ASSUME NEW w \in Works, Begin(w) PROVE RowsTrackWork'
  <2>1. rows' = <<[work |-> w, state |-> "running"]>> \o rows
    BY <1>5 DEF Begin
  <2>2. /\ Len(rows') = Len(rows) + 1
        /\ rows'[1] = [work |-> w, state |-> "running"]
        /\ \A i \in DOMAIN rows : i + 1 \in DOMAIN rows' /\ rows'[i + 1] = rows[i]
        /\ \A i \in DOMAIN rows' : i = 1 \/ (i - 1 \in DOMAIN rows /\ rows'[i] = rows[i - 1])
    BY <2>1 DEF WorkType
  <2>3. 1 \in DOMAIN rows'
    BY <2>1 DEF WorkType
  <2>4. ASSUME NEW r
        PROVE  (\E i \in DOMAIN rows' : rows'[i] = r)
                  <=> r = [work |-> w, state |-> "running"] \/ \E i \in DOMAIN rows : rows[i] = r
    BY <2>2, <2>3
  <2>5. /\ work'[w].pc \in Working /\ work[w].pc \notin Working
        /\ \A v \in Works \ {w} : work'[v] = work[v]
    BY <1>5, BeginFields DEF Working, Calling
  <2>6. \A v \in Works : work'[v].pc \in Working <=>
            \E i \in DOMAIN rows' : rows'[i] = [work |-> v, state |-> "running"]
    BY <2>4, <2>5 DEF RowsTrackWork
  <2> QED
    BY <2>2, <2>3, <2>6 DEF RowsTrackWork
<1>6. ASSUME NEW w \in Works, Called(w) PROVE RowsTrackWork'
  <2>1. /\ work'[w].pc \in {"saving", "correcting", "ending"} /\ work[w].pc \in {"calling", "correcting"}
        /\ \A v \in Works \ {w} : work'[v] = work[v]
    BY <1>6, CalledFields DEF Calling
  <2>2. UNCHANGED rows
    BY <1>6 DEF Called, ledger
  <2> QED
    BY <2>1, <2>2 DEF RowsTrackWork, Working, Calling
<1>7. ASSUME NEW w \in Works, Save(w) PROVE RowsTrackWork'
  <2>1. /\ work'[w].pc \in {"ending"} /\ work[w].pc \in {"saving"}
        /\ \A v \in Works \ {w} : work'[v] = work[v]
    BY <1>7, SaveFields DEF Calling
  <2>2. UNCHANGED rows
    BY <1>7 DEF Save, ledger
  <2> QED
    BY <2>1, <2>2 DEF RowsTrackWork, Working, Calling
<1>8. ASSUME NEW w \in Works, Finish(w) PROVE RowsTrackWork'
  <2>1. /\ work'[w].pc \notin Working
        /\ \A v \in Works \ {w} : work'[v].pc = work[v].pc
    BY <1>8 DEF Finish, Goto, Working, Calling, WorkType, Tasks
  <2>2. /\ Closed(w) \in Seq(Rows) /\ DOMAIN Closed(w) = DOMAIN rows
        /\ \A i \in DOMAIN rows :
              Closed(w)[i] = IF rows[i].work = w THEN [rows[i] EXCEPT !.state = "ended"] ELSE rows[i]
    BY ClosedRows
  <2>3. ASSUME NEW v \in Works
        PROVE  (\E i \in DOMAIN Closed(w) : Closed(w)[i] = [work |-> v, state |-> "running"])
                  <=> v # w /\ \E i \in DOMAIN rows : rows[i] = [work |-> v, state |-> "running"]
    <3>1. ASSUME NEW i \in DOMAIN rows
          PROVE  Closed(w)[i] = [work |-> v, state |-> "running"]
                    <=> v # w /\ rows[i] = [work |-> v, state |-> "running"]
      <4>1. rows[i] \in Rows
        BY DEF WorkType
      <4> QED
        BY <2>2, <4>1 DEF Rows
    <3> QED
      BY <2>2, <3>1
  <2>4. rows' = Trimmed(Closed(w))
    BY <1>8 DEF Finish
  <2>5. ASSUME NEW v \in Works
        PROVE  (\E i \in DOMAIN rows' : rows'[i] = [work |-> v, state |-> "running"])
                  <=> v # w /\ \E i \in DOMAIN rows : rows[i] = [work |-> v, state |-> "running"]
    <3>1. [work |-> v, state |-> "running"] \in Rows
      BY DEF Rows
    <3> QED
      BY <2>2, <2>3, <2>4, <3>1, TrimmedRows
  <2>6. Len(rows') > HistoryLimit => \E i \in DOMAIN rows' : rows'[i].state = "running"
    BY <2>2, <2>4, TrimmedRows
  <2> QED
    BY <2>1, <2>5, <2>6 DEF RowsTrackWork
<1>10. ASSUME NEW w \in Works, Publish(w) PROVE RowsTrackWork'
  BY <1>10, DetachedAssumption
     DEF Publish, Goto, server, store, ledger, desktop, WorkType, Tasks, NoWork, Works,
         Author, Unsettled, Published, Working, Calling, Outcomes, RowsTrackWork
<1>11. ASSUME NEW w \in Works, Deregister(w) PROVE RowsTrackWork'
  BY <1>11, DetachedAssumption
     DEF Deregister, server, store, ledger, desktop, WorkType, Tasks, NoWork, Works, Author,
         Unsettled, Published, Working, Calling, Outcomes, RowsTrackWork
<1>12. ASSUME NEW w \in Works, Panic(w) PROVE RowsTrackWork'
  BY <1>12, DetachedAssumption
     DEF Panic, Ends, Working, Calling, server, store, ledger, desktop, WorkType, Tasks,
         NoWork, Works, Author, Unsettled, Published, Outcomes, RowsTrackWork
<1>13. CASE DraftEdit
  BY <1>13, DetachedAssumption
     DEF DraftEdit, Current, server, store, ledger, desktop, WorkType, Tasks, NoWork, Works,
         Author, Unsettled, Published, Working, Calling, Outcomes, RowsTrackWork
<1>14. CASE ApplyEdit
  BY <1>14, DetachedAssumption
     DEF ApplyEdit, Saves, Current, server, store, ledger, desktop, WorkType, Tasks, NoWork,
         Works, Author, Unsettled, Published, Working, Calling, Outcomes, RowsTrackWork
<1>15. CASE RejectEdit
  BY <1>15, DetachedAssumption
     DEF RejectEdit, server, store, ledger, desktop, WorkType, Tasks, NoWork, Works, Author,
         Unsettled, Published, Working, Calling, Outcomes, RowsTrackWork
<1>16. CASE ImportVersion
  BY <1>16, DetachedAssumption
     DEF ImportVersion, Current, server, store, ledger, desktop, WorkType, Tasks, NoWork,
         Works, Author, Unsettled, Published, Working, Calling, Outcomes, RowsTrackWork
<1>17. CASE DeletePlan
  BY <1>17, DetachedAssumption
     DEF DeletePlan, server, store, ledger, desktop, WorkType, Tasks, NoWork, Works, Author,
         Unsettled, Published, Working, Calling, Outcomes, RowsTrackWork
<1>18. CASE Frame
  BY <1>18, DetachedAssumption
     DEF Frame, server, store, ledger, desktop, WorkType, Tasks, NoWork, Works, Author,
         Unsettled, Published, Working, Calling, Outcomes, RowsTrackWork
<1>19. CASE BackgroundRefresh
  BY <1>19, DetachedAssumption
     DEF BackgroundRefresh, server, store, ledger, desktop, WorkType, Tasks, NoWork, Works,
         Author, Unsettled, Published, Working, Calling, Outcomes, RowsTrackWork
<1>20. ASSUME NEW l \in DOMAIN read, ShowPlans(l) PROVE RowsTrackWork'
  BY <1>20, DetachedAssumption
     DEF ShowPlans, server, store, ledger, desktop, WorkType, Tasks, NoWork, Works, Author,
         Unsettled, Published, Working, Calling, Outcomes, RowsTrackWork
<1>21. CASE UNCHANGED vars
  BY <1>21, DetachedAssumption
     DEF vars, server, store, ledger, desktop, WorkType, Tasks, NoWork, Works, Author,
         Unsettled, Published, Working, Calling, Outcomes, RowsTrackWork
<1> QED
  BY <1>1, <1>2, <1>3, <1>4, <1>5, <1>6, <1>7, <1>8, <1>10, <1>11, <1>12, <1>13, <1>14,
     <1>15, <1>16, <1>17, <1>18, <1>19, <1>20, <1>21
     DEF Next, Task, Refresh

(* Everyone saves the successor of what is current, made from what is current. *)
LEMMA VersionStep ==
    ASSUME WorkType, VersionsFollow, BaseInv, [Next]_vars
    PROVE  VersionsFollow'
<1>1. ASSUME NEW c \in Clients, NEW k \in Keys, Join(c, k) PROVE VersionsFollow'
  BY <1>1, DetachedAssumption
     DEF Join, Waits, server, store, ledger, desktop, WorkType, Tasks, Author, Works, Calling,
         VersionsFollow, BaseInv, Current
<1>2. ASSUME NEW c \in Clients, NEW k \in Keys, Start(c, k) PROVE VersionsFollow'
  BY <1>2, DetachedAssumption
     DEF Start, Waits, server, store, ledger, desktop, WorkType, Tasks, Author, Works,
         Calling, VersionsFollow, BaseInv, Current
<1>3. ASSUME NEW c \in Clients, Disconnect(c) PROVE VersionsFollow'
  BY <1>3, DetachedAssumption
     DEF Disconnect, Waits, server, store, ledger, desktop, WorkType, Tasks, Author, Works,
         Calling, VersionsFollow, BaseInv, Current
<1>4. ASSUME NEW c \in Clients, Answer(c) PROVE VersionsFollow'
  BY <1>4, DetachedAssumption
     DEF Answer, Waits, Published, server, store, ledger, desktop, WorkType, Tasks, Author,
         Works, Calling, VersionsFollow, BaseInv, Current
<1>5. ASSUME NEW w \in Works, Begin(w) PROVE VersionsFollow'
  BY <1>5, DetachedAssumption
     DEF Begin, Ends, Edits, Current, server, store, ledger, desktop, WorkType, Tasks, Author,
         Works, Calling, VersionsFollow, BaseInv
<1>6. ASSUME NEW w \in Works, Called(w) PROVE VersionsFollow'
  BY <1>6, DetachedAssumption
     DEF Called, Ends, Goto, Calling, CorrectedVersion, server, store, ledger, desktop,
         WorkType, Tasks, Author, Works, VersionsFollow, BaseInv, Current
<1>7. ASSUME NEW w \in Works, Save(w) PROVE VersionsFollow'
  <2>1. CASE lineage' = lineage
    BY <2>1 DEF VersionsFollow
  <2>2. ASSUME Edits(w), Saves(work[w].version), work[w].pc = "saving",
               lineage' = Append(lineage, [by |-> w, base |-> work[w].base])
        PROVE  VersionsFollow'
    <3>1. work[w].base = Len(lineage)
      BY <2>2 DEF BaseInv, Saves, Current, WorkType, Tasks
    <3>2. [by |-> w, base |-> work[w].base] \in [by : Works \union {Author}, base : Nat]
      BY DEF WorkType, Tasks
    <3> QED
      BY <2>2, <3>1, <3>2, Added1 DEF VersionsFollow
  <2> QED
    BY <1>7, <2>1, <2>2, SaveFields
<1>8. ASSUME NEW w \in Works, Finish(w) PROVE VersionsFollow'
  BY <1>8, DetachedAssumption
     DEF Finish, Goto, server, store, ledger, desktop, WorkType, Tasks, Author, Works,
         Calling, VersionsFollow, BaseInv, Current
<1>10. ASSUME NEW w \in Works, Publish(w) PROVE VersionsFollow'
  BY <1>10, DetachedAssumption
     DEF Publish, Goto, server, store, ledger, desktop, WorkType, Tasks, Author, Works,
         Calling, VersionsFollow, BaseInv, Current
<1>11. ASSUME NEW w \in Works, Deregister(w) PROVE VersionsFollow'
  BY <1>11, DetachedAssumption
     DEF Deregister, server, store, ledger, desktop, WorkType, Tasks, Author, Works, Calling,
         VersionsFollow, BaseInv, Current
<1>12. ASSUME NEW w \in Works, Panic(w) PROVE VersionsFollow'
  BY <1>12, DetachedAssumption
     DEF Panic, Ends, Working, Calling, server, store, ledger, desktop, WorkType, Tasks,
         Author, Works, VersionsFollow, BaseInv, Current
<1>13. CASE DraftEdit
  BY <1>13, DetachedAssumption
     DEF DraftEdit, Current, server, store, ledger, desktop, WorkType, Tasks, Author, Works,
         Calling, VersionsFollow, BaseInv
<1>14. CASE ApplyEdit
  BY <1>14, DetachedAssumption
     DEF ApplyEdit, Saves, Current, server, store, ledger, desktop, WorkType, Tasks, Author,
         Works, Calling, VersionsFollow, BaseInv
<1>15. CASE RejectEdit
  BY <1>15, DetachedAssumption
     DEF RejectEdit, server, store, ledger, desktop, WorkType, Tasks, Author, Works, Calling,
         VersionsFollow, BaseInv, Current
<1>16. CASE ImportVersion
  BY <1>16, DetachedAssumption
     DEF ImportVersion, Current, server, store, ledger, desktop, WorkType, Tasks, Author,
         Works, Calling, VersionsFollow, BaseInv
<1>17. CASE DeletePlan
  BY <1>17, DetachedAssumption
     DEF DeletePlan, server, store, ledger, desktop, WorkType, Tasks, Author, Works, Calling,
         VersionsFollow, BaseInv, Current
<1>18. CASE Frame
  BY <1>18, DetachedAssumption
     DEF Frame, server, store, ledger, desktop, WorkType, Tasks, Author, Works, Calling,
         VersionsFollow, BaseInv, Current
<1>19. CASE BackgroundRefresh
  BY <1>19, DetachedAssumption
     DEF BackgroundRefresh, server, store, ledger, desktop, WorkType, Tasks, Author, Works,
         Calling, VersionsFollow, BaseInv, Current
<1>20. ASSUME NEW l \in DOMAIN read, ShowPlans(l) PROVE VersionsFollow'
  BY <1>20, DetachedAssumption
     DEF ShowPlans, server, store, ledger, desktop, WorkType, Tasks, Author, Works, Calling,
         VersionsFollow, BaseInv, Current
<1>21. CASE UNCHANGED vars
  BY <1>21, DetachedAssumption
     DEF vars, server, store, ledger, desktop, WorkType, Tasks, Author, Works, Calling,
         VersionsFollow, BaseInv, Current
<1> QED
  BY <1>1, <1>2, <1>3, <1>4, <1>5, <1>6, <1>7, <1>8, <1>10, <1>11, <1>12, <1>13, <1>14,
     <1>15, <1>16, <1>17, <1>18, <1>19, <1>20, <1>21
     DEF Next, Task, Refresh

(* Only a task and a version of the plan matter to what a save rests on.       *)
LEMMA BaseUntouched ==
    ASSUME BaseInv, UNCHANGED <<work, lineage>>
    PROVE  BaseInv'
BY DEF BaseInv, Edits, SavedBy, Current

(* A task is told what its save did, and saves once.                          *)
LEMMA BaseStep ==
    ASSUME WorkType, TrackedInv, BaseInv, [Next]_vars
    PROVE  BaseInv'
<1>1. ASSUME NEW c \in Clients, NEW k \in Keys, Join(c, k) PROVE BaseInv'
  BY <1>1, BaseUntouched DEF Join, store
<1>2. ASSUME NEW c \in Clients, NEW k \in Keys, Start(c, k) PROVE BaseInv'
  BY <1>2, DetachedAssumption
     DEF Start, Waits, server, store, ledger, desktop, WorkType, Tasks, NoWork, Works, Author,
         Unsettled, Published, Working, Calling, Outcomes, TrackedInv, BaseInv, Edits,
         SavedBy, Current
<1>3. ASSUME NEW c \in Clients, Disconnect(c) PROVE BaseInv'
  BY <1>3, BaseUntouched DEF Disconnect, server, store
<1>4. ASSUME NEW c \in Clients, Answer(c) PROVE BaseInv'
  BY <1>4, BaseUntouched DEF Answer, server, store
<1>5. ASSUME NEW w \in Works, Begin(w) PROVE BaseInv'
  <2>1. lineage' = lineage
    BY <1>5 DEF Begin, store
  <2> QED
    BY <1>5, <2>1, BeginFields, SameVersions DEF BaseInv, Edits, Current, Calling, WorkType
<1>6. ASSUME NEW w \in Works, Called(w) PROVE BaseInv'
  <2>1. lineage' = lineage
    BY <1>6 DEF Called, store
  <2> QED
    BY <1>6, <2>1, CalledFields, SameVersions DEF BaseInv, Edits, Current, Calling, WorkType
<1>7. ASSUME NEW w \in Works, Save(w) PROVE BaseInv'
  <2> DEFINE e == [by |-> w, base |-> work[w].base]
  <2>1. CASE lineage' = lineage
    <3>1. lineage' # Append(lineage, e)
      <4>1. e \in [by : Works \union {Author}, base : Nat]
        BY DEF WorkType, Tasks
      <4> HIDE DEF e
      <4>2. lineage' = Append(lineage, e) => Len(lineage') = Len(lineage) + 1 /\ Len(lineage) \in Nat
        BY <4>1, Added1
      <4> QED
        BY <2>1, <4>2
    <3>2. /\ work'[w].pc = "ending" /\ work'[w].key = work[w].key
          /\ \A v \in Works \ {w} : work'[v] = work[v]
          /\ Edits(w) => work'[w].outcome = "failed" /\ ~SavedBy(w)
      BY <1>7, <3>1, SaveFields DEF BaseInv
    <3>3. \A v \in Works : SavedBy(v)' <=> SavedBy(v)
      BY <2>1, SameVersions
    <3>4. Len(lineage') = Len(lineage)
      BY <2>1
    <3> HIDE DEF e
    <3> QED
      BY <3>2, <3>3, <3>4 DEF BaseInv, Edits, Current, Calling
  <2>2. ASSUME Edits(w), work'[w].outcome = "ok", lineage' = Append(lineage, e)
        PROVE  BaseInv'
    <3>1. e \in [by : Works \union {Author}, base : Nat] /\ e.by = w
      BY DEF WorkType, Tasks
    <3>2. \A v \in Works : SavedBy(v)' <=> SavedBy(v) \/ v = w
      BY <2>2, <3>1, Added1
    <3>3. Len(lineage') = Len(lineage) + 1 /\ Len(lineage) \in Nat
      BY <2>2, <3>1, Added1
    <3>4. \A v \in Works : work[v].base \in Nat
      BY DEF WorkType, Tasks
    <3>5. /\ work'[w].pc = "ending" /\ work'[w].key = work[w].key
          /\ \A v \in Works \ {w} : work'[v] = work[v]
      BY <1>7, SaveFields
    <3> HIDE DEF e
    <3> QED
      BY <2>2, <3>2, <3>3, <3>4, <3>5 DEF BaseInv, Edits, Current, Calling
  <2> QED
    BY <1>7, <2>1, <2>2, SaveFields
<1>8. ASSUME NEW w \in Works, Finish(w) PROVE BaseInv'
  <2>1. lineage' = lineage /\ Goto(w, "ending", "returned")
    BY <1>8 DEF Finish, store
  <2> QED
    BY <2>1, GotoFields, SameVersions
       DEF BaseInv, Edits, Current, Calling, Unsettled, Working, Published
<1>10. ASSUME NEW w \in Works, Publish(w) PROVE BaseInv'
  <2>1. lineage' = lineage /\ Goto(w, "returned", "published")
    BY <1>10 DEF Publish, store
  <2> QED
    BY <2>1, GotoFields, SameVersions
       DEF BaseInv, Edits, Current, Calling, Unsettled, Working, Published
<1>11. ASSUME NEW w \in Works, Deregister(w) PROVE BaseInv'
  <2>1. lineage' = lineage /\ work' = [work EXCEPT ![w] = [NoWork EXCEPT !.pc = "gone"]]
    BY <1>11 DEF Deregister, store
  <2>2. [NoWork EXCEPT !.pc = "gone"].pc = "gone"
    BY DEF NoWork
  <2> DEFINE r == [NoWork EXCEPT !.pc = "gone"]
  <2> HIDE DEF r
  <2>3. work'[w].pc = "gone" /\ \A v \in Works \ {w} : work'[v] = work[v]
    BY <2>1, <2>2 DEF WorkType, r
  <2> QED
    BY <2>1, <2>3, SameVersions DEF BaseInv, Edits, Current, Calling
<1>12. ASSUME NEW w \in Works, Panic(w) PROVE BaseInv'
  <2>1. lineage' = lineage /\ Ends(w, "panicked")
    BY <1>12 DEF Panic, store
  <2> QED
    BY <2>1, EndsFields, SameVersions DEF BaseInv, Edits, Current, Calling, Outcomes
<1>13. CASE DraftEdit
  BY <1>13, BaseUntouched DEF DraftEdit, server, store
<1>14. CASE ApplyEdit
  <2> DEFINE e == [by |-> Author, base |-> draft]
  <2>1. e \in [by : Works \union {Author}, base : Nat] /\ lineage' = Append(lineage, e)
    BY <1>14 DEF ApplyEdit, Current, WorkType
  <2>2. \A v \in Works : e.by # v
    BY DEF Author, Works
  <2>3. \A v \in Works : SavedBy(v)' <=> SavedBy(v)
    BY <2>1, <2>2, Added1
  <2>4. Len(lineage') = Len(lineage) + 1 /\ Len(lineage) \in Nat
    BY <2>1, Added1
  <2>5. \A v \in Works : work[v].base \in Nat
    BY DEF WorkType, Tasks
  <2>6. UNCHANGED work
    BY <1>14 DEF ApplyEdit, server
  <2> HIDE DEF e
  <2> QED
    BY <2>3, <2>4, <2>5, <2>6 DEF BaseInv, Edits, Current
<1>15. CASE RejectEdit
  BY <1>15, BaseUntouched DEF RejectEdit, server, store
<1>16. CASE ImportVersion
  <2> DEFINE e == [by |-> Author, base |-> Current]
  <2>1. e \in [by : Works \union {Author}, base : Nat] /\ lineage' = Append(lineage, e)
    BY <1>16 DEF ImportVersion, Current, WorkType
  <2>2. \A v \in Works : e.by # v
    BY DEF Author, Works
  <2>3. \A v \in Works : SavedBy(v)' <=> SavedBy(v)
    BY <2>1, <2>2, Added1
  <2>4. Len(lineage') = Len(lineage) + 1 /\ Len(lineage) \in Nat
    BY <2>1, Added1
  <2>5. \A v \in Works : work[v].base \in Nat
    BY DEF WorkType, Tasks
  <2>6. UNCHANGED work
    BY <1>16 DEF ImportVersion, server
  <2> HIDE DEF e
  <2> QED
    BY <2>3, <2>4, <2>5, <2>6 DEF BaseInv, Edits, Current
<1>17. CASE DeletePlan
  BY <1>17, BaseUntouched DEF DeletePlan, server, store
<1>18. CASE Frame
  BY <1>18, BaseUntouched DEF Frame, server, store
<1>19. CASE BackgroundRefresh
  BY <1>19, BaseUntouched DEF BackgroundRefresh, server, store
<1>20. ASSUME NEW l \in DOMAIN read, ShowPlans(l) PROVE BaseInv'
  BY <1>20, BaseUntouched DEF ShowPlans, server, store
<1>21. CASE UNCHANGED vars
  BY <1>21, BaseUntouched DEF vars, server, store
<1> QED
  BY <1>1, <1>2, <1>3, <1>4, <1>5, <1>6, <1>7, <1>8, <1>10, <1>11, <1>12, <1>13, <1>14,
     <1>15, <1>16, <1>17, <1>18, <1>19, <1>20, <1>21
     DEF Next, Task, Refresh

THEOREM WorkInvariant == Spec => []WorkInv
<1>1. ASSUME WorkInv, [Next]_vars
      PROVE  WorkInv'
  BY <1>1, WorkTypeStep, TrackedStep, RowsStep, VersionStep, BaseStep DEF WorkInv
<1> QED
  BY <1>1, WorkInit, PTL DEF Spec

(***************************************************************************)
(* Theorems                                                                *)
(***************************************************************************)
(* An identical request finds the task that is doing it, and the activities    *)
(* show exactly the tasks that work, however they end.                        *)
THEOREM WorkIsAlwaysTracked == Spec => []WorkIsTracked
<1>1. WorkInv => WorkIsTracked
  BY DEF WorkInv, TrackedInv, WorkIsTracked, RegistryTracksWork
<1> QED
  BY <1>1, WorkInvariant, PTL

(* No version overwrites one its author has not seen, and what a client is      *)
(* told of its edit is what happened to the plan.                             *)
THEOREM HistoryIsAlwaysTrue == Spec => []HistoryIsTrue
<1>1. WorkInv => HistoryIsTrue
  BY DEF WorkInv, BaseInv, HistoryIsTrue, OutcomeIsTrue
<1> QED
  BY <1>1, WorkInvariant, PTL

(* An edit is refused at its save only for a version it has not read, or a      *)
(* deleted plan.                                                             *)
THEOREM RefusalsAreJustified == Spec => RefusedOnlyWhenOvertaken
<1>1. ASSUME WorkInv, [Next]_vars
      PROVE  RefusalJustified
  <2>1. WorkType /\ BaseInv
    BY <1>1 DEF WorkInv
  <2>2. \A v \in Works : work[v].pc = "saving" => work[v].outcome # "failed"
    BY <2>1 DEF BaseInv
  <2>3. ASSUME NEW c \in Clients, NEW k \in Keys, Join(c, k) PROVE RefusalJustified
    BY <1>1, <2>1, <2>2, <2>3
       DEF Join, Waits, server, store, ledger, desktop, WorkType, Tasks, NoWork,
           RefusalJustified
  <2>4. ASSUME NEW c \in Clients, NEW k \in Keys, Start(c, k) PROVE RefusalJustified
    BY <1>1, <2>1, <2>2, <2>4
       DEF Start, Waits, server, store, ledger, desktop, WorkType, Tasks, NoWork,
           RefusalJustified
  <2>5. ASSUME NEW c \in Clients, Disconnect(c) PROVE RefusalJustified
    BY <1>1, <2>1, <2>2, <2>5
       DEF Disconnect, Waits, server, store, ledger, desktop, WorkType, Tasks, NoWork,
           RefusalJustified
  <2>6. ASSUME NEW c \in Clients, Answer(c) PROVE RefusalJustified
    BY <1>1, <2>1, <2>2, <2>6
       DEF Answer, Waits, Published, server, store, ledger, desktop, WorkType, Tasks, NoWork,
           RefusalJustified
  <2>7. ASSUME NEW w \in Works, Begin(w) PROVE RefusalJustified
    BY <1>1, <2>1, <2>2, <2>7
       DEF Begin, Ends, Edits, Current, server, store, ledger, desktop, WorkType, Tasks,
           NoWork, RefusalJustified
  <2>8. ASSUME NEW w \in Works, Called(w) PROVE RefusalJustified
    BY <1>1, <2>1, <2>2, <2>8
       DEF Called, Ends, Goto, Calling, CorrectedVersion, server, store, ledger, desktop,
           WorkType, Tasks, NoWork, RefusalJustified
  <2>9. ASSUME NEW w \in Works, Save(w) PROVE RefusalJustified
    <3>1. ASSUME NEW v \in Works, work[v].pc = "saving", work'[v].outcome = "failed"
          PROVE  v = w /\ Edits(w) /\ ~Saves(work[w].version)
      BY <2>9, <2>1, <2>2, <3>1, SaveFields
    <3>2. ASSUME work[w].pc = "saving", Edits(w), ~Saves(work[w].version)
          PROVE  deleted \/ Current > work[w].base
      BY <2>1, <3>2 DEF BaseInv, Saves, WorkType, Tasks, Current
    <3> QED
      BY <3>1, <3>2 DEF RefusalJustified
  <2>10. ASSUME NEW w \in Works, Finish(w) PROVE RefusalJustified
    BY <1>1, <2>1, <2>2, <2>10
       DEF Finish, Goto, server, store, ledger, desktop, WorkType, Tasks, NoWork,
           RefusalJustified
  <2>12. ASSUME NEW w \in Works, Publish(w) PROVE RefusalJustified
    BY <1>1, <2>1, <2>2, <2>12
       DEF Publish, Goto, server, store, ledger, desktop, WorkType, Tasks, NoWork,
           RefusalJustified
  <2>13. ASSUME NEW w \in Works, Deregister(w) PROVE RefusalJustified
    BY <1>1, <2>1, <2>2, <2>13
       DEF Deregister, server, store, ledger, desktop, WorkType, Tasks, NoWork,
           RefusalJustified
  <2>14. ASSUME NEW w \in Works, Panic(w) PROVE RefusalJustified
    BY <1>1, <2>1, <2>2, <2>14
       DEF Panic, Ends, Working, Calling, server, store, ledger, desktop, WorkType, Tasks,
           NoWork, RefusalJustified
  <2>15. CASE DraftEdit
    BY <1>1, <2>1, <2>2, <2>15
       DEF DraftEdit, Current, server, store, ledger, desktop, WorkType, Tasks, NoWork,
           RefusalJustified
  <2>16. CASE ApplyEdit
    BY <1>1, <2>1, <2>2, <2>16
       DEF ApplyEdit, Saves, Current, server, store, ledger, desktop, WorkType, Tasks, NoWork,
           RefusalJustified
  <2>17. CASE RejectEdit
    BY <1>1, <2>1, <2>2, <2>17
       DEF RejectEdit, server, store, ledger, desktop, WorkType, Tasks, NoWork,
           RefusalJustified
  <2>18. CASE ImportVersion
    BY <1>1, <2>1, <2>2, <2>18
       DEF ImportVersion, Current, server, store, ledger, desktop, WorkType, Tasks, NoWork,
           RefusalJustified
  <2>19. CASE DeletePlan
    BY <1>1, <2>1, <2>2, <2>19
       DEF DeletePlan, server, store, ledger, desktop, WorkType, Tasks, NoWork,
           RefusalJustified
  <2>20. CASE Frame
    BY <1>1, <2>1, <2>2, <2>20
       DEF Frame, server, store, ledger, desktop, WorkType, Tasks, NoWork, RefusalJustified
  <2>21. CASE BackgroundRefresh
    BY <1>1, <2>1, <2>2, <2>21
       DEF BackgroundRefresh, server, store, ledger, desktop, WorkType, Tasks, NoWork,
           RefusalJustified
  <2>22. ASSUME NEW l \in DOMAIN read, ShowPlans(l) PROVE RefusalJustified
    BY <1>1, <2>1, <2>2, <2>22
       DEF ShowPlans, server, store, ledger, desktop, WorkType, Tasks, NoWork,
           RefusalJustified
  <2>23. CASE UNCHANGED vars
    BY <1>1, <2>1, <2>2, <2>23
       DEF vars, server, store, ledger, desktop, WorkType, Tasks, NoWork, RefusalJustified
  <2> QED
    BY <1>1, <2>1, <2>2, <2>3, <2>4, <2>5, <2>6, <2>7, <2>8, <2>9, <2>10, <2>12, <2>13,
       <2>14, <2>15, <2>16, <2>17, <2>18, <2>19, <2>20, <2>21, <2>22, <2>23
       DEF Next, Task, Refresh
<1> QED
  BY <1>1, WorkInvariant, PTL DEF Spec, RefusedOnlyWhenOvertaken
=============================================================================
